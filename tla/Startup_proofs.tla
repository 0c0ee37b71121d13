---------------------------- MODULE Startup_proofs ----------------------------
(***************************************************************************)
(* Proofs about Schema and Startup, for any number of programs and         *)
(* browsers, files of any version, any number of stops and any statements  *)
(* failing.  One part follows a program through init_db: what it has       *)
(* passed is done, and stays done whatever the others do.  The other part  *)
(* follows the three writes of set_admin_password through its callers.     *)
(***************************************************************************)
EXTENDS Startup, SequenceTheorems, NaturalsInduction, WellFoundedInduction, TLAPS
-------------------------------------------------------------------------------
(***************************************************************************)
(* The statements of init_db                                               *)
(***************************************************************************)
Ops == {"create", "info", "add", "index"}

\* table_info comes after the creation of its table; every other statement has a column.
Ready(s, i) ==
  /\ s[i].op \in Ops
  /\ s[i].op # "info" => s[i].cols # {}
  /\ s[i].op = "info" => \E j \in 1 .. i - 1 : s[j].op = "create" /\ s[j].table = s[i].table

Wellmade(s) == (\E S : s \in Seq(S)) /\ \A i \in 1 .. Len(s) : Ready(s, i)

LEMMA WellmadeConcat ==
  ASSUME NEW s, NEW t, Wellmade(s), Wellmade(t)
  PROVE  Wellmade(s \o t)
<1> DEFINE u == s \o t
<1>1. PICK S : s \in Seq(S)
  BY DEF Wellmade
<1>2. PICK T : t \in Seq(T)
  BY DEF Wellmade
<1>3. s \in Seq(S \cup T) /\ t \in Seq(S \cup T)
  BY <1>1, <1>2
<1>4. /\ u \in Seq(S \cup T)
      /\ Len(s) \in Nat /\ Len(t) \in Nat /\ Len(u) = Len(s) + Len(t)
      /\ \A i \in 1 .. Len(u) : u[i] = IF i <= Len(s) THEN s[i] ELSE t[i - Len(s)]
  BY <1>3, ConcatProperties, LenProperties
<1> HIDE DEF u
<1>5. ASSUME NEW i \in 1 .. Len(u) PROVE Ready(u, i)
  <2>1. CASE i <= Len(s)
    <3>1. i \in 1 .. Len(s) /\ u[i] = s[i] /\ \A j \in 1 .. i - 1 : u[j] = s[j]
      BY <1>4, <2>1
    <3> QED
      BY <3>1 DEF Wellmade, Ready
  <2>2. CASE i > Len(s)
    <3> DEFINE k == i - Len(s)
    <3>1. k \in 1 .. Len(t) /\ u[i] = t[k] /\ Ready(t, k)
      BY <1>4, <2>2 DEF Wellmade
    <3>2. ASSUME NEW l \in 1 .. k - 1
          PROVE  l + Len(s) \in 1 .. i - 1 /\ u[l + Len(s)] = t[l]
      BY <1>4, <2>2, <3>1
    <3>3. ASSUME t[k].op = "info"
          PROVE  \E j \in 1 .. i - 1 : u[j].op = "create" /\ u[j].table = u[i].table
      <4>1. PICK l \in 1 .. k - 1 : t[l].op = "create" /\ t[l].table = t[k].table
        BY <3>1, <3>3 DEF Ready
      <4> QED
        BY <4>1, <3>1, <3>2
    <3> QED
      BY <3>1, <3>3 DEF Ready
  <2> QED
    BY <2>1, <2>2, <1>4
<1> QED
  BY <1>4, <1>5 DEF Wellmade, u

LEMMA WellmadeOne ==
  ASSUME NEW x, x.op \in Ops \ {"info"}, x.cols # {}
  PROVE  Wellmade(<<x>>)
<1> DEFINE s == <<x>>
<1>1. s \in Seq({x}) /\ Len(s) = 1 /\ s[1] = x
  OBVIOUS
<1> HIDE DEF s
<1>2. \A i \in 1 .. 1 : i = 1
  OBVIOUS
<1>3. Wellmade(s)
  BY <1>1, <1>2 DEF Wellmade, Ready
<1> QED
  BY <1>3 DEF s

LEMMA WellmadeTwo ==
  ASSUME NEW x, x.op \in Ops \ {"info"}, x.cols # {}, NEW y, y.op \in Ops \ {"info"}, y.cols # {}
  PROVE  Wellmade(<<x, y>>)
<1>1. <<x, y>> = <<x>> \o <<y>>
  OBVIOUS
<1> QED
  BY <1>1, WellmadeOne, WellmadeConcat

LEMMA WellmadeUpgrade ==
  ASSUME NEW t, NEW created, NEW S, NEW added \in Seq(S)
  PROVE  Wellmade(Upgrade(t, created, added))
<1> DEFINE first == <<Create(t, created), Info(t)>>
           adds  == [i \in 1 .. Len(added) |-> Add(t, added[i])]
<1>1. Upgrade(t, created, added) = first \o adds
  BY DEF Upgrade
<1>2. /\ Create(t, created).op = "create" /\ "id" \in Create(t, created).cols
      /\ Create(t, created).table = t /\ Info(t).op = "info" /\ Info(t).table = t
  BY DEF Create, Info
<1>3. Wellmade(first)
  <2>1. first \in Seq({Create(t, created), Info(t)}) /\ Len(first) = 2
    OBVIOUS
  <2>2. first[1] = Create(t, created) /\ first[2] = Info(t)
    OBVIOUS
  <2> HIDE DEF first
  <2>3. Ready(first, 1) /\ Ready(first, 2)
    BY <1>2, <2>2 DEF Ready, Ops
  <2>4. \A i \in 1 .. 2 : i = 1 \/ i = 2
    OBVIOUS
  <2> QED
    BY <2>1, <2>3, <2>4 DEF Wellmade
<1>4. Wellmade(adds)
  <2>1. adds \in Seq({Add(t, added[i]) : i \in 1 .. Len(added)}) /\ Len(adds) = Len(added)
    OBVIOUS
  <2>2. ASSUME NEW i \in 1 .. Len(added)
        PROVE  adds[i].op = "add" /\ added[i] \in adds[i].cols
    BY DEF Add
  <2> HIDE DEF adds
  <2> QED
    BY <2>1, <2>2 DEF Wellmade, Ready, Ops
<1> QED
  BY <1>1, <1>3, <1>4, WellmadeConcat

LEMMA IndexFact ==
  ASSUME NEW t, NEW c, c # {}
  PROVE  Index(t, c).op \in Ops \ {"info"} /\ Index(t, c).cols # {}
BY DEF Index, Ops

LEMMA CreateFact ==
  ASSUME NEW t, NEW c
  PROVE  Create(t, c).op \in Ops \ {"info"} /\ Create(t, c).cols # {}
<1>1. "id" \in Create(t, c).cols
  BY DEF Create
<1> QED
  BY <1>1 DEF Create, Ops

LEMMA WellmadeScript == Wellmade(Script)
<1> USE WellmadeConcat, WellmadeUpgrade, WellmadeOne, WellmadeTwo, IndexFact, CreateFact
<1>1. Wellmade(ProviderTables)
  <2>1. ConnectionColumns \in Seq(Members(ConnectionColumns)) /\ AccountColumns \in Seq(Members(AccountColumns))
    BY DEF ConnectionColumns, AccountColumns, Members
  <2> QED
    BY <2>1 DEF ProviderTables
<1>2. Wellmade(SessionTable)
  <2> DEFINE cols == {"provider_connection_id", "created_at", "expires_at", "proxy_url"}
  <2>1. Wellmade(Upgrade("oauth_sessions", cols, <<"proxy_url">>))
    <3>1. <<"proxy_url">> \in Seq({"proxy_url"})
      OBVIOUS
    <3> QED
      BY <3>1
  <2>2. Wellmade(<<Index("oauth_sessions", {"provider_connection_id", "created_at"}),
                   Index("oauth_sessions", {"expires_at"})>>)
    OBVIOUS
  <2> QED
    BY <2>1, <2>2 DEF SessionTable
<1>3. Wellmade(LogTables)
  <2> DEFINE cols == {"request_id", "provider_id", "sequence_no", "created_at"}
             later == <<Index("request_debug_logs", {"request_id", "sequence_no", "created_at"}),
                        Index("request_debug_logs", {"provider_id", "created_at"}),
                        Index("response_debug_logs", {"request_id", "sequence_no", "created_at"}),
                        Index("response_debug_logs", {"provider_id", "created_at"}),
                        Create("llm_response_cache", {"cache_key", "namespace", "expires_at"}),
                        Index("llm_response_cache", {"cache_key", "namespace", "expires_at"}),
                        Index("llm_response_cache", {"expires_at"}),
                        Create("request_logs", {"created_at"}), Index("request_logs", {"created_at"})>>
  <2>1. Wellmade(<<Create("request_debug_logs", cols)>>)
    OBVIOUS
  <2>2. Wellmade(Upgrade("response_debug_logs", cols, <<"sequence_no">>))
    <3>1. <<"sequence_no">> \in Seq({"sequence_no"})
      OBVIOUS
    <3> QED
      BY <3>1
  <2>3. Wellmade(later)
    <3> DEFINE i1 == Index("request_debug_logs", {"request_id", "sequence_no", "created_at"})
               i2 == Index("request_debug_logs", {"provider_id", "created_at"})
               i3 == Index("response_debug_logs", {"request_id", "sequence_no", "created_at"})
               i4 == Index("response_debug_logs", {"provider_id", "created_at"})
               c1 == Create("llm_response_cache", {"cache_key", "namespace", "expires_at"})
               i5 == Index("llm_response_cache", {"cache_key", "namespace", "expires_at"})
               i6 == Index("llm_response_cache", {"expires_at"})
               c2 == Create("request_logs", {"created_at"})
               i7 == Index("request_logs", {"created_at"})
    <3>1. Wellmade(<<i1, i2>>) /\ Wellmade(<<i3, i4>>) /\ Wellmade(<<i7>>)
      OBVIOUS
    <3>2. Wellmade(<<c1, i5>>) /\ Wellmade(<<i6, c2>>)
      OBVIOUS
    <3> HIDE DEF i1, i2, i3, i4, i5, i6, i7, c1, c2
    <3>3. later = <<i1, i2>> \o <<i3, i4>> \o <<c1, i5>> \o <<i6, c2>> \o <<i7>>
      BY DEF i1, i2, i3, i4, i5, i6, i7, c1, c2
    <3> QED
      BY <3>1, <3>2, <3>3
  <2> QED
    BY <2>1, <2>2, <2>3 DEF LogTables
<1>4. Wellmade(OtherTables)
  <2> DEFINE d1 == Create("combos", {})
             d2 == Create("model_aliases", {})
             d3 == Create("settings", {})
             d4 == Create("api_keys", {"key_hash"})
             j1 == Index("api_keys", {"key_hash"})
  <2>1. Wellmade(<<d1, d2>>) /\ Wellmade(<<d3, d4>>) /\ Wellmade(<<j1>>)
    OBVIOUS
  <2>2. OtherTables = <<d1, d2>> \o <<d3, d4>> \o <<j1>>
    BY DEF OtherTables
  <2> QED
    BY <2>1, <2>2
<1> QED
  BY <1>1, <1>2, <1>3, <1>4 DEF Script

\* What the steps need to know of the script.
LEMMA ScriptFacts ==
  /\ Len(Script) \in Nat
  /\ \A i \in 1 .. Len(Script) :
       /\ Ready(Script, i)
       /\ Script[i].table \in Tables /\ Script[i].cols \in SUBSET Columns
<1>1. PICK S : Script \in Seq(S)
  BY WellmadeScript DEF Wellmade
<1>2. Len(Script) \in Nat
  BY <1>1, LenProperties
<1> QED
  BY <1>2, WellmadeScript DEF Wellmade, Tables, Columns
-------------------------------------------------------------------------------
(***************************************************************************)
(* init_db                                                                 *)
(***************************************************************************)
\* A statement's work is there.
Done(cols, s) == cols[s.table] # {} /\ (s.op \in {"add", "index"} => s.cols \subseteq cols[s.table])

\* A program has passed what is done, and has seen what is there.
Behind(p) == /\ \A i \in 1 .. pos[p] - 1 : Done(columns, Script[i])
             /\ \A t \in Tables : seen[p][t] \subseteq columns[t]

SchemaInv == SchemaType /\ \A p \in Programs : Behind(p)

\* The first statement from k on that has something to do.
First(k, cols, shown) ==
  CHOOSE j \in k .. Len(Script) + 1 :
    /\ j <= Len(Script) => ~Idle(Script[j], cols, shown)
    /\ \A i \in k .. j - 1 : Idle(Script[i], cols, shown)

LEMMA Leasts ==
  ASSUME NEW T \in SUBSET Nat, T # {}
  PROVE  \E j \in T : \A i \in T : j <= i
<1> DEFINE R == OpToRel(<, Nat)
<1>1. IsWellFoundedOn(R, Nat)
  BY NatLessThanWellFounded
<1>2. \A i, j \in Nat : i < j => <<i, j>> \in R
  BY DEF OpToRel
<1> HIDE DEF R
<1>3. PICK j \in T : \A i \in T : ~(<<i, j>> \in R)
  BY <1>1, WFMin
<1>4. \A i \in T : i \in Nat /\ j \in Nat /\ ~(i < j)
  BY <1>2, <1>3
<1>5. \A i \in T : j <= i
  BY <1>4
<1> QED
  BY <1>5

LEMMA FirstFact ==
  ASSUME NEW k \in 1 .. Len(Script) + 1, NEW cols, NEW shown
  PROVE  /\ First(k, cols, shown) \in k .. Len(Script) + 1
         /\ \A i \in k .. First(k, cols, shown) - 1 : Idle(Script[i], cols, shown)
<1> DEFINE T == {j \in k .. Len(Script) + 1 : j <= Len(Script) => ~Idle(Script[j], cols, shown)}
<1>1. Len(Script) \in Nat
  BY ScriptFacts
<1>2. T \in SUBSET Nat /\ Len(Script) + 1 \in T
  BY <1>1
<1>3. PICK j \in T : \A i \in T : j <= i
  BY <1>2, Leasts
<1>4. \A i \in k .. j - 1 : Idle(Script[i], cols, shown)
  BY <1>1, <1>3
<1> QED
  BY <1>3, <1>4 DEF First

\* A step of init_db goes on to the first statement with something to do.
LEMMA Advances ==
  ASSUME SchemaType, NEW p \in Programs, ~InitDbDone(p), Advance(p)
  PROVE  /\ pos' = [pos EXCEPT ![p] = pos'[p]]
         /\ pos'[p] \in pos[p] + 1 .. Len(Script) + 1
         /\ \A i \in pos[p] + 1 .. pos'[p] - 1 : Idle(Script[i], columns', seen'[p])
<1>1. pos \in [Programs -> 1 .. Len(Script) + 1] /\ pos[p] + 1 \in 1 .. Len(Script) + 1
  BY ScriptFacts DEF SchemaType, InitDbDone
<1>2. pos' = [pos EXCEPT ![p] = First(pos[p] + 1, columns', seen'[p])]
  BY DEF Advance, First
<1> QED
  BY <1>1, <1>2, FirstFact

\* Columns are only ever added.
Grows == /\ columns' \in [Tables -> SUBSET Columns]
         /\ \A t \in Tables : columns[t] \subseteq columns'[t]

LEMMA DoneStays ==
  ASSUME NEW s, s.table \in Tables, Grows, Done(columns, s)
  PROVE  Done(columns', s)
BY DEF Grows, Done

\* What is idle is done.
LEMMA IdleDone ==
  ASSUME NEW i \in 1 .. Len(Script), NEW shown,
         shown[Script[i].table] \subseteq columns'[Script[i].table],
         Idle(Script[i], columns', shown)
  PROVE  Done(columns', Script[i])
<1>1. Script[i].op \in Ops /\ (Script[i].op # "info" => Script[i].cols # {})
  BY ScriptFacts DEF Ready
<1> QED
  BY <1>1 DEF Idle, Done, Ops

\* A step of init_db that does its statement, and grows the file and what is seen of it at
\* most, keeps the invariant.
LEMMA Passes ==
  ASSUME SchemaInv, NEW p \in Programs, ~InitDbDone(p), Grows, Advance(p),
         seen' \in [Programs -> [Tables -> SUBSET Columns]],
         \A q \in Programs : \A t \in Tables : seen'[q][t] \subseteq columns'[t],
         Done(columns', Script[pos[p]])
  PROVE  SchemaInv' /\ pos' = [pos EXCEPT ![p] = pos'[p]]
<1>1. /\ pos' = [pos EXCEPT ![p] = pos'[p]]
      /\ pos'[p] \in pos[p] + 1 .. Len(Script) + 1
      /\ \A i \in pos[p] + 1 .. pos'[p] - 1 : Idle(Script[i], columns', seen'[p])
  BY Advances DEF SchemaInv
<1>2. pos \in [Programs -> 1 .. Len(Script) + 1] /\ Len(Script) \in Nat
  BY ScriptFacts DEF SchemaInv, SchemaType
<1>3. SchemaType'
  BY <1>1, <1>2 DEF SchemaType, Grows
<1>4. ASSUME NEW q \in Programs, NEW i \in 1 .. pos'[q] - 1 PROVE Done(columns', Script[i])
  <2>1. CASE i < pos[q]
    <3>1. Done(columns, Script[i]) /\ i \in 1 .. Len(Script)
      BY <1>2, <2>1 DEF SchemaInv, Behind
    <3> QED
      BY <3>1, DoneStays, ScriptFacts
  <2>2. CASE q = p /\ i = pos[p]
    BY <2>2
  <2>3. CASE q = p /\ i > pos[p]
    <3>1. i \in 1 .. Len(Script) /\ Idle(Script[i], columns', seen'[p])
      BY <1>1, <1>2, <2>3
    <3>2. seen'[p][Script[i].table] \subseteq columns'[Script[i].table]
      BY <3>1, ScriptFacts
    <3> QED
      BY <3>1, <3>2, IdleDone
  <2> QED
    BY <1>1, <1>2, <2>1, <2>2, <2>3
<1>5. \A q \in Programs : Behind(q)'
  BY <1>4 DEF Behind
<1> QED
  BY <1>1, <1>3, <1>5 DEF SchemaInv

LEMMA ExecuteStep ==
  ASSUME SchemaInv, NEW p \in Programs, Execute(p)
  PROVE  SchemaInv' /\ pos' = [pos EXCEPT ![p] = pos'[p]]
<1> DEFINE s == Script[pos[p]]
<1>1. /\ pos[p] \in 1 .. Len(Script) /\ ~Fails(p) /\ ~InitDbDone(p) /\ Advance(p)
      /\ columns' = After(p)
      /\ seen' = IF s.op = "info" THEN [seen EXCEPT ![p][s.table] = columns[s.table]] ELSE seen
  BY ScriptFacts DEF Execute, InitDbDone, SchemaInv, SchemaType
<1>2. Ready(Script, pos[p]) /\ s.table \in Tables /\ s.cols \in SUBSET Columns
  BY <1>1, ScriptFacts
<1>3. SchemaType /\ \A q \in Programs : \A t \in Tables : seen[q][t] \subseteq columns[t]
  BY DEF SchemaInv, Behind
<1> HIDE DEF s
<1>4. Grows
  BY <1>1, <1>2, <1>3 DEF Grows, After, SchemaType, s
<1>5. /\ seen' \in [Programs -> [Tables -> SUBSET Columns]]
      /\ \A q \in Programs : \A t \in Tables : seen'[q][t] \subseteq columns'[t]
  BY <1>1, <1>2, <1>3, <1>4 DEF Grows, SchemaType
<1>6. Done(columns', s)
  <2>1. CASE s.op = "create"
    BY <1>1, <1>2, <1>3, <2>1 DEF Ready, Done, After, SchemaType, s
  <2>2. CASE s.op = "info"
    <3>1. PICK j \in 1 .. pos[p] - 1 : Script[j].op = "create" /\ Script[j].table = s.table
      BY <1>2, <2>2 DEF Ready, s
    <3>2. columns[s.table] # {}
      BY <3>1 DEF SchemaInv, Behind, Done
    <3> QED
      BY <1>2, <1>4, <2>2, <3>2 DEF Done, Grows
  <2>3. CASE s.op = "add"
    BY <1>1, <1>2, <1>3, <2>3 DEF Ready, Done, After, SchemaType, s
  <2>4. CASE s.op = "index"
    <3>1. s.cols \subseteq columns[s.table] /\ s.cols # {}
      BY <1>1, <1>2, <2>4 DEF Fails, Ready, s
    <3> QED
      BY <1>2, <1>4, <2>4, <3>1 DEF Done, Grows
  <2> QED
    BY <1>2, <2>1, <2>2, <2>3, <2>4 DEF Ready, Ops, s
<1> QED
  BY <1>1, <1>4, <1>5, <1>6, Passes DEF s

LEMMA InfoUnreadStep ==
  ASSUME SchemaInv, NEW p \in Programs, InfoUnread(p)
  PROVE  SchemaInv' /\ pos' = [pos EXCEPT ![p] = pos'[p]]
<1> DEFINE s == Script[pos[p]]
<1>1. /\ pos[p] \in 1 .. Len(Script) /\ ~InitDbDone(p) /\ Advance(p)
      /\ s.op = "info" /\ columns' = columns
      /\ seen' = [seen EXCEPT ![p][s.table] = {}]
  BY ScriptFacts DEF InfoUnread, InitDbDone, SchemaInv, SchemaType
<1>2. Ready(Script, pos[p]) /\ s.table \in Tables
  BY <1>1, ScriptFacts
<1>3. SchemaType /\ \A q \in Programs : \A t \in Tables : seen[q][t] \subseteq columns[t]
  BY DEF SchemaInv, Behind
<1> HIDE DEF s
<1>4. Grows
  BY <1>1, <1>3 DEF Grows, SchemaType
<1>5. /\ seen' \in [Programs -> [Tables -> SUBSET Columns]]
      /\ \A q \in Programs : \A t \in Tables : seen'[q][t] \subseteq columns'[t]
  BY <1>1, <1>2, <1>3 DEF SchemaType
<1>6. Done(columns', s)
  <2>1. PICK j \in 1 .. pos[p] - 1 : Script[j].op = "create" /\ Script[j].table = s.table
    BY <1>1, <1>2 DEF Ready, s
  <2> QED
    BY <1>1, <2>1 DEF SchemaInv, Behind, Done
<1> QED
  BY <1>1, <1>4, <1>5, <1>6, Passes DEF s

LEMMA RewindStep ==
  ASSUME SchemaInv, NEW p \in Programs, Rewind(p)
  PROVE  SchemaInv' /\ pos' = [pos EXCEPT ![p] = 1]
<1>1. Len(Script) \in Nat
  BY ScriptFacts
<1>2. SchemaType'
  BY <1>1 DEF SchemaInv, SchemaType, Rewind, NewFile
<1>3. \A q \in Programs : Behind(q)'
  BY DEF SchemaInv, SchemaType, Behind, Rewind, NewFile, Done
<1> QED
  BY <1>2, <1>3 DEF SchemaInv, Rewind

LEMMA EndOfInitDbStep ==
  ASSUME SchemaInv, NEW p \in Programs, EndOfInitDb(p)
  PROVE  SchemaInv' /\ pos' = pos
<1>1. SchemaType'
  BY DEF SchemaInv, SchemaType, EndOfInitDb, NewFile
<1>2. \A q \in Programs : Behind(q)'
  BY DEF SchemaInv, SchemaType, Behind, EndOfInitDb, NewFile, Done
<1> QED
  BY <1>1, <1>2 DEF SchemaInv, EndOfInitDb

LEMMA SchemaUntouched ==
  ASSUME SchemaInv, UNCHANGED schemaVars
  PROVE  SchemaInv' /\ pos' = pos
BY DEF SchemaInv, SchemaType, Behind, Done, schemaVars

\* A program that is through finds everything.
LEMMA ThroughIsComplete ==
  ASSUME SchemaInv, NEW p \in Programs, InitDbDone(p)
  PROVE  Complete
<1>1. pos[p] = Len(Script) + 1 /\ Len(Script) \in Nat
  BY ScriptFacts DEF SchemaInv, SchemaType, InitDbDone
<1> QED
  BY <1>1 DEF SchemaInv, Behind, Done, Complete
-------------------------------------------------------------------------------
(***************************************************************************)
(* The password and the logins                                             *)
(***************************************************************************)
AdminType ==
  /\ secret   \in Nat /\ made \in Nat /\ mishaps \in 0 .. MaxMishaps
  /\ pc       \in [Actors -> Setting \cup {"off", "schema", "check", "prompt", "serve",
                                           "idle", "login", "put"}]
  /\ way      \in [Programs -> Starts]
  /\ cookie   \in [Clients -> Nat]
  /\ {hash, required, lifted, cut, overlapped} \subseteq BOOLEAN

\* Only who is through with init_db goes on.
Passed == \A p \in Programs : pc[p] \notin {"off", "schema"} => InitDbDone(p)

\* set_admin_password comes to the secret with the password, and to require_auth with a secret.
Written ==
  \A a \in Actors :
    /\ pc[a] \in {"secret", "fresh", "require"} => hash
    /\ pc[a] = "require" => secret # 0

\* Who is about to write a secret is alone with that, and there is none yet.
OneFresh ==
  overlapped \/
    /\ \A a, b \in Actors : pc[a] = "fresh" /\ pc[b] = "fresh" => a = b
    /\ \A a \in Actors : pc[a] = "fresh" => secret = 0

\* What a program that serves has seen to.
Attended ==
  \A p \in Programs : Serving(p) =>
    /\ way[p] # "embedded" => hash
    /\ way[p] = "env" => secret # 0 /\ (required \/ lifted)

AdminInv == AdminType /\ Written /\ OneFresh /\ Attended /\ PasswordIsWhole /\ LoginsOutliveRestarts

IInv == SchemaInv /\ Passed /\ AdminInv
-------------------------------------------------------------------------------
Assumptions == /\ Programs \cap Clients = {}
               /\ Ways \in [Programs -> SUBSET Starts]
               /\ MaxMishaps \in Nat

LEMMA Assumed == Assumptions
BY StartAssumption DEF Assumptions

LEMMA Initial == Init => IInv
<1> SUFFICES ASSUME Init PROVE IInv
  OBVIOUS
<1> USE Assumed DEF Assumptions
<1>1. SchemaInv
  <2>1. Len(Script) \in Nat
    BY ScriptFacts
  <2>2. SchemaType
    BY <2>1, FilesAssumption DEF Init, SchemaInit, SchemaType, NewFile
  <2>3. ASSUME NEW p \in Programs PROVE Behind(p)
    <3>1. pos[p] = 1 /\ \A t \in Tables : seen[p][t] = {}
      BY DEF Init, SchemaInit, NewFile
    <3>2. 1 .. pos[p] - 1 = {}
      BY <3>1
    <3> QED
      BY <3>1, <3>2 DEF Behind
  <2> QED
    BY <2>2, <2>3 DEF SchemaInv
<1>2. Passed
  BY DEF Init, Passed, Actors
<1>3. AdminType
  <2>1. secret \in Nat /\ made \in Nat /\ mishaps \in 0 .. MaxMishaps
    BY DEF Init
  <2>2. pc \in [Actors -> Setting \cup {"off", "schema", "check", "prompt", "serve", "idle", "login", "put"}]
    BY DEF Init
  <2>3. way \in [Programs -> Starts] /\ cookie \in [Clients -> Nat]
    BY DEF Init, Starts
  <2>4. {hash, required, lifted, cut, overlapped} \subseteq BOOLEAN
    BY DEF Init
  <2> QED
    BY <2>1, <2>2, <2>3, <2>4 DEF AdminType
<1>4. Written /\ OneFresh /\ Attended
  BY DEF Init, Written, OneFresh, Attended, Serving, Actors
<1>5. PasswordIsWhole /\ LoginsOutliveRestarts
  BY DEF Init, PasswordIsWhole, LoginsOutliveRestarts
<1> QED
  BY <1>1, <1>2, <1>3, <1>4, <1>5 DEF IInv, AdminInv

\* The steps that leave the file alone.
LEMMA FileUntouched ==
  ASSUME IInv, UNCHANGED schemaVars,
         \A p \in Programs : pc'[p] \notin {"off", "schema"} => pc[p] \notin {"off", "schema"}
  PROVE  SchemaInv' /\ Passed'
<1>1. SchemaInv' /\ pos' = pos
  BY SchemaUntouched DEF IInv
<1> QED
  BY <1>1 DEF IInv, Passed, InitDbDone

LEMMA StartStep ==
  ASSUME IInv, NEW p \in Programs, Start(p)
  PROVE  IInv'
<1> USE Assumed DEF Assumptions, IInv, AdminInv, Start, Goto, settings
<1>1. SchemaInv' /\ Passed'
  <2>1. SchemaInv' /\ pos' = [pos EXCEPT ![p] = 1]
    BY RewindStep
  <2> QED
    BY <2>1 DEF Passed, InitDbDone, SchemaInv, SchemaType, AdminType, Actors
<1>3. AdminType'
  BY DEF AdminType, Actors, Setting, Starts
<1>4. Written'
  BY DEF AdminType, Written, Actors, Setting
<1>5. OneFresh'
  BY DEF AdminType, OneFresh, Actors, Setting
<1>6. Attended'
  BY DEF AdminType, Written, Attended, Serving, Actors, Setting
<1>7. PasswordIsWhole'
  BY DEF AdminType, Written, PasswordIsWhole, Actors, Setting
<1>8. LoginsOutliveRestarts'
  BY DEF AdminType, OneFresh, LoginsOutliveRestarts, Actors, Setting
<1> QED
  BY <1>1, <1>3, <1>4, <1>5, <1>6, <1>7, <1>8

LEMMA StatementStep ==
  ASSUME IInv, NEW p \in Programs, Statement(p)
  PROVE  IInv'
<1> USE Assumed DEF Assumptions, IInv, AdminInv, Statement, Goto, settings
<1>1. SchemaInv' /\ Passed'
  <2>1. SchemaInv' /\ pos' = [pos EXCEPT ![p] = pos'[p]]
    BY ExecuteStep, InfoUnreadStep
  <2>2. (pc' = [pc EXCEPT ![p] = "check"] /\ InitDbDone(p)') \/ pc' = pc
    BY DEF InitDbDone
  <2> QED
    BY <2>1, <2>2 DEF Passed, InitDbDone, SchemaInv, SchemaType, AdminType, Actors
<1>3. AdminType'
  BY DEF AdminType, Actors, Setting, Starts
<1>4. Written'
  BY DEF AdminType, Written, Actors, Setting
<1>5. OneFresh'
  BY DEF AdminType, OneFresh, Actors, Setting
<1>6. Attended'
  BY DEF AdminType, Written, Attended, Serving, Actors, Setting
<1>7. PasswordIsWhole'
  BY DEF AdminType, Written, PasswordIsWhole, Actors, Setting
<1>8. LoginsOutliveRestarts'
  BY DEF AdminType, OneFresh, LoginsOutliveRestarts, Actors, Setting
<1> QED
  BY <1>1, <1>3, <1>4, <1>5, <1>6, <1>7, <1>8

LEMMA StatementFailsStep ==
  ASSUME IInv, NEW p \in Programs, StatementFails(p)
  PROVE  IInv'
<1> USE Assumed DEF Assumptions, IInv, AdminInv, StatementFails, Goto, settings
<1>1. SchemaInv' /\ Passed'
  <2>1. SchemaInv' /\ pos' = [pos EXCEPT ![p] = 1]
    BY RewindStep
  <2> QED
    BY <2>1 DEF Passed, InitDbDone, SchemaInv, SchemaType, AdminType, Actors
<1>3. AdminType'
  BY DEF AdminType, Actors, Setting, Starts
<1>4. Written'
  BY DEF AdminType, Written, Actors, Setting
<1>5. OneFresh'
  BY DEF AdminType, OneFresh, Actors, Setting
<1>6. Attended'
  BY DEF AdminType, Written, Attended, Serving, Actors, Setting
<1>7. PasswordIsWhole'
  BY DEF AdminType, Written, PasswordIsWhole, Actors, Setting
<1>8. LoginsOutliveRestarts'
  BY DEF AdminType, OneFresh, LoginsOutliveRestarts, Actors, Setting
<1> QED
  BY <1>1, <1>3, <1>4, <1>5, <1>6, <1>7, <1>8

LEMMA CheckStep ==
  ASSUME IInv, NEW p \in Programs, Check(p)
  PROVE  IInv'
<1> USE Assumed DEF Assumptions, IInv, AdminInv, Check, Goto, settings
<1>1. SchemaInv' /\ Passed'
  <2>1. SchemaInv' /\ pos' = pos
    BY EndOfInitDbStep
  <2> QED
    BY <2>1 DEF Passed, InitDbDone, AdminType, Actors
<1>2. PICK w \in Starts : way' = [way EXCEPT ![p] = w]
  BY DEF AdminType
<1>2a. /\ w = way'[p] /\ w \in {"env", "short", "terminal", "plain", "embedded"}
       /\ p \in Actors
       /\ pc' = [pc EXCEPT ![p] = pc'[p]]
       /\ \A q \in Programs \ {p} : pc'[q] = pc[q] /\ way'[q] = way[q]
  BY <1>2 DEF AdminType, Actors, Starts
<1>2b. /\ pc'[p] \in {"serve", "hash", "off", "prompt"}
       /\ pc'[p] = "serve" => w = "embedded" \/ (hash /\ w # "env")
  <2>1. CASE w = "embedded"
    BY <1>2a, <2>1 DEF AdminType
  <2>2. CASE w = "env"
    BY <1>2a, <2>2 DEF AdminType
  <2>3. CASE w = "short"
    BY <1>2a, <2>3 DEF AdminType
  <2>4. CASE w \in {"terminal", "plain"} /\ hash
    BY <1>2a, <2>4 DEF AdminType
  <2>5. CASE w = "terminal" /\ ~hash
    BY <1>2a, <2>5 DEF AdminType
  <2>6. CASE w = "plain" /\ ~hash
    BY <1>2a, <2>6 DEF AdminType
  <2> QED
    BY <1>2a, <2>1, <2>2, <2>3, <2>4, <2>5, <2>6
<1> USE <1>2a, <1>2b
<1>3. AdminType'
  BY DEF AdminType, Actors, Setting, Starts
<1>4. Written'
  BY DEF AdminType, Written, Actors, Setting
<1>5. OneFresh'
  BY DEF AdminType, OneFresh, Actors, Setting
<1>6. Attended'
  BY DEF AdminType, Attended, Serving
<1>7. PasswordIsWhole'
  BY DEF AdminType, Written, PasswordIsWhole, Actors, Setting
<1>8. LoginsOutliveRestarts'
  BY DEF AdminType, OneFresh, LoginsOutliveRestarts, Actors, Setting
<1> QED
  BY <1>1, <1>3, <1>4, <1>5, <1>6, <1>7, <1>8

LEMMA PromptStep ==
  ASSUME IInv, NEW p \in Programs, Prompt(p)
  PROVE  IInv'
<1> USE Assumed DEF Assumptions, IInv, AdminInv, Prompt, Goto, settings
<1>1. SchemaInv' /\ Passed'
  BY FileUntouched DEF AdminType, Actors
<1>3. AdminType'
  BY DEF AdminType, Actors, Setting, Starts
<1>4. Written'
  BY DEF AdminType, Written, Actors, Setting
<1>5. OneFresh'
  BY DEF AdminType, OneFresh, Actors, Setting
<1>6. Attended'
  BY DEF AdminType, Written, Attended, Serving, Actors, Setting
<1>7. PasswordIsWhole'
  BY DEF AdminType, Written, PasswordIsWhole, Actors, Setting
<1>8. LoginsOutliveRestarts'
  BY DEF AdminType, OneFresh, LoginsOutliveRestarts, Actors, Setting
<1> QED
  BY <1>1, <1>3, <1>4, <1>5, <1>6, <1>7, <1>8

LEMMA StopStep ==
  ASSUME IInv, NEW p \in Programs, Stop(p)
  PROVE  IInv'
<1> USE Assumed DEF Assumptions, IInv, AdminInv, Stop, Goto, settings
<1>1. SchemaInv' /\ Passed'
  <2>1. SchemaInv' /\ pos' = [pos EXCEPT ![p] = 1]
    BY RewindStep
  <2>2. pc'[p] = "off"
    BY DEF Actors
  <2>3. ASSUME NEW q \in Programs \ {p} PROVE pc'[q] = pc[q]
    BY DEF Actors
  <2> QED
    BY <2>1, <2>2, <2>3 DEF Passed, InitDbDone, SchemaInv, SchemaType
<1> DEFINE Ended == {p} \cup IF \E q \in Programs \ {p} : Serving(q) THEN {} ELSE Clients
<1>2. /\ pc' = [a \in Actors |-> CASE a \notin Ended -> pc[a]
                                   [] a = p         -> "off"
                                   [] a \in Ended \cap Clients -> "idle"]
      /\ cut' = (cut \/ \E a \in Ended : pc[a] \in Setting \ {"hash"})
  OBVIOUS
<1>3. AdminType'
  BY DEF AdminType, Actors, Setting, Starts
<1>4. Written'
  BY DEF AdminType, Written, Actors, Setting
<1>5. OneFresh'
  BY DEF AdminType, OneFresh, Actors, Setting
<1>6. Attended'
  BY DEF AdminType, Written, Attended, Serving, Actors, Setting
<1>7. PasswordIsWhole'
  <2>1. CASE \E a \in Actors : pc[a] \in Setting \ {"hash"}
    <3>1. PICK a \in Actors : pc[a] \in Setting \ {"hash"}
      BY <2>1
    <3>2. cut' \/ pc'[a] = pc[a]
      BY <1>2, <3>1
    <3> QED
      BY <3>1, <3>2 DEF PasswordIsWhole
  <2>2. CASE ~\E a \in Actors : pc[a] \in Setting \ {"hash"}
    BY <2>2 DEF PasswordIsWhole
  <2> QED
    BY <2>1, <2>2
<1>8. LoginsOutliveRestarts'
  BY DEF AdminType, OneFresh, LoginsOutliveRestarts, Actors, Setting
<1> QED
  BY <1>1, <1>3, <1>4, <1>5, <1>6, <1>7, <1>8

LEMMA SetHashStep ==
  ASSUME IInv, NEW a \in Actors, SetHash(a)
  PROVE  IInv'
<1> USE Assumed DEF Assumptions, IInv, AdminInv, SetHash, Goto, settings
<1>1. SchemaInv' /\ Passed'
  BY FileUntouched DEF AdminType, Actors
<1>3. AdminType'
  BY DEF AdminType, Actors, Setting, Starts
<1>4. Written'
  BY DEF AdminType, Written, Actors, Setting
<1>5. OneFresh'
  BY DEF AdminType, OneFresh, Actors, Setting
<1>6. Attended'
  BY DEF AdminType, Written, Attended, Serving, Actors, Setting
<1>7. PasswordIsWhole'
  BY DEF AdminType, Written, PasswordIsWhole, Actors, Setting
<1>8. LoginsOutliveRestarts'
  BY DEF AdminType, OneFresh, LoginsOutliveRestarts, Actors, Setting
<1> QED
  BY <1>1, <1>3, <1>4, <1>5, <1>6, <1>7, <1>8

LEMMA ReadSecretStep ==
  ASSUME IInv, NEW a \in Actors, ReadSecret(a)
  PROVE  IInv'
<1> USE Assumed DEF Assumptions, IInv, AdminInv, ReadSecret, Goto, settings
<1>1. SchemaInv' /\ Passed'
  BY FileUntouched DEF AdminType, Actors
<1>3. AdminType'
  BY DEF AdminType, Actors, Setting, Starts
<1>4. Written'
  BY DEF AdminType, Written, Actors, Setting
<1>5. OneFresh'
  BY DEF AdminType, OneFresh, Actors, Setting
<1>6. Attended'
  BY DEF AdminType, Written, Attended, Serving, Actors, Setting
<1>7. PasswordIsWhole'
  BY DEF AdminType, Written, PasswordIsWhole, Actors, Setting
<1>8. LoginsOutliveRestarts'
  BY DEF AdminType, OneFresh, LoginsOutliveRestarts, Actors, Setting
<1> QED
  BY <1>1, <1>3, <1>4, <1>5, <1>6, <1>7, <1>8

LEMMA WriteSecretStep ==
  ASSUME IInv, NEW a \in Actors, WriteSecret(a)
  PROVE  IInv'
<1> USE Assumed DEF Assumptions, IInv, AdminInv, WriteSecret, Goto, settings
<1>1. SchemaInv' /\ Passed'
  BY FileUntouched DEF AdminType, Actors
<1>3. AdminType'
  BY DEF AdminType, Actors, Setting, Starts
<1>4. Written'
  BY DEF AdminType, Written, Actors, Setting
<1>5. OneFresh'
  BY DEF AdminType, OneFresh, Actors, Setting
<1>6. Attended'
  BY DEF AdminType, Written, Attended, Serving, Actors, Setting
<1>7. PasswordIsWhole'
  BY DEF AdminType, Written, PasswordIsWhole, Actors, Setting
<1>8. LoginsOutliveRestarts'
  BY DEF AdminType, OneFresh, LoginsOutliveRestarts, Actors, Setting
<1> QED
  BY <1>1, <1>3, <1>4, <1>5, <1>6, <1>7, <1>8

LEMMA RequireStep ==
  ASSUME IInv, NEW a \in Actors, Require(a)
  PROVE  IInv'
<1> USE Assumed DEF Assumptions, IInv, AdminInv, Require, Goto, settings
<1>1. SchemaInv' /\ Passed'
  BY FileUntouched DEF AdminType, Actors
<1>3. AdminType'
  BY DEF AdminType, Actors, Setting, Starts
<1>4. Written'
  BY DEF AdminType, Written, Actors, Setting
<1>5. OneFresh'
  BY DEF AdminType, OneFresh, Actors, Setting
<1>6. Attended'
  BY DEF AdminType, Written, Attended, Serving, Actors, Setting
<1>7. PasswordIsWhole'
  BY DEF AdminType, Written, PasswordIsWhole, Actors, Setting
<1>8. LoginsOutliveRestarts'
  BY DEF AdminType, OneFresh, LoginsOutliveRestarts, Actors, Setting
<1> QED
  BY <1>1, <1>3, <1>4, <1>5, <1>6, <1>7, <1>8

LEMMA SetupStep ==
  ASSUME IInv, NEW c \in Clients, Setup(c)
  PROVE  IInv'
<1> USE Assumed DEF Assumptions, IInv, AdminInv, Setup, Goto, settings
<1>1. SchemaInv' /\ Passed'
  BY FileUntouched DEF AdminType, Actors
<1>3. AdminType'
  BY DEF AdminType, Actors, Setting, Starts
<1>4. Written'
  BY DEF AdminType, Written, Actors, Setting
<1>5. OneFresh'
  BY DEF AdminType, OneFresh, Actors, Setting
<1>6. Attended'
  BY DEF AdminType, Written, Attended, Serving, Actors, Setting
<1>7. PasswordIsWhole'
  BY DEF AdminType, Written, PasswordIsWhole, Actors, Setting
<1>8. LoginsOutliveRestarts'
  BY DEF AdminType, OneFresh, LoginsOutliveRestarts, Actors, Setting
<1> QED
  BY <1>1, <1>3, <1>4, <1>5, <1>6, <1>7, <1>8

LEMMA VerifyStep ==
  ASSUME IInv, NEW c \in Clients, Verify(c)
  PROVE  IInv'
<1> USE Assumed DEF Assumptions, IInv, AdminInv, Verify, Goto, settings
<1>1. SchemaInv' /\ Passed'
  BY FileUntouched DEF AdminType, Actors
<1>3. AdminType'
  BY DEF AdminType, Actors, Setting, Starts
<1>4. Written'
  BY DEF AdminType, Written, Actors, Setting
<1>5. OneFresh'
  BY DEF AdminType, OneFresh, Actors, Setting
<1>6. Attended'
  BY DEF AdminType, Written, Attended, Serving, Actors, Setting
<1>7. PasswordIsWhole'
  BY DEF AdminType, Written, PasswordIsWhole, Actors, Setting
<1>8. LoginsOutliveRestarts'
  BY DEF AdminType, OneFresh, LoginsOutliveRestarts, Actors, Setting
<1> QED
  BY <1>1, <1>3, <1>4, <1>5, <1>6, <1>7, <1>8

LEMMA LoginStep ==
  ASSUME IInv, NEW c \in Clients, Login(c)
  PROVE  IInv'
<1> USE Assumed DEF Assumptions, IInv, AdminInv, Login, Goto, settings
<1>1. SchemaInv' /\ Passed'
  BY FileUntouched DEF AdminType, Actors
<1>3. AdminType'
  BY DEF AdminType, Actors, Setting, Starts
<1>4. Written'
  BY DEF AdminType, Written, Actors, Setting
<1>5. OneFresh'
  BY DEF AdminType, OneFresh, Actors, Setting
<1>6. Attended'
  BY DEF AdminType, Written, Attended, Serving, Actors, Setting
<1>7. PasswordIsWhole'
  BY DEF AdminType, Written, PasswordIsWhole, Actors, Setting
<1>8. LoginsOutliveRestarts'
  BY DEF AdminType, OneFresh, LoginsOutliveRestarts, Actors, Setting
<1> QED
  BY <1>1, <1>3, <1>4, <1>5, <1>6, <1>7, <1>8

LEMMA LogoutStep ==
  ASSUME IInv, NEW c \in Clients, Logout(c)
  PROVE  IInv'
<1> USE Assumed DEF Assumptions, IInv, AdminInv, Logout, Goto, settings
<1>1. SchemaInv' /\ Passed'
  BY FileUntouched DEF AdminType, Actors
<1>3. AdminType'
  BY DEF AdminType, Actors, Setting, Starts
<1>4. Written'
  BY DEF AdminType, Written, Actors, Setting
<1>5. OneFresh'
  BY DEF AdminType, OneFresh, Actors, Setting
<1>6. Attended'
  BY DEF AdminType, Written, Attended, Serving, Actors, Setting
<1>7. PasswordIsWhole'
  BY DEF AdminType, Written, PasswordIsWhole, Actors, Setting
<1>8. LoginsOutliveRestarts'
  BY DEF AdminType, OneFresh, LoginsOutliveRestarts, Actors, Setting
<1> QED
  BY <1>1, <1>3, <1>4, <1>5, <1>6, <1>7, <1>8

LEMMA ManageStep ==
  ASSUME IInv, NEW c \in Clients, Manage(c)
  PROVE  IInv'
<1> USE Assumed DEF Assumptions, IInv, AdminInv, Manage, Goto, settings
<1>1. SchemaInv' /\ Passed'
  BY FileUntouched DEF AdminType, Actors
<1>3. AdminType'
  BY DEF AdminType, Actors, Setting, Starts
<1>4. Written'
  BY DEF AdminType, Written, Actors, Setting
<1>5. OneFresh'
  BY DEF AdminType, OneFresh, Actors, Setting
<1>6. Attended'
  BY DEF AdminType, Written, Attended, Serving, Actors, Setting
<1>7. PasswordIsWhole'
  BY DEF AdminType, Written, PasswordIsWhole, Actors, Setting
<1>8. LoginsOutliveRestarts'
  BY DEF AdminType, OneFresh, LoginsOutliveRestarts, Actors, Setting
<1> QED
  BY <1>1, <1>3, <1>4, <1>5, <1>6, <1>7, <1>8

LEMMA PutSettingsStep ==
  ASSUME IInv, NEW c \in Clients, PutSettings(c)
  PROVE  IInv'
<1> USE Assumed DEF Assumptions, IInv, AdminInv, PutSettings, Goto, settings
<1>1. SchemaInv' /\ Passed'
  BY FileUntouched DEF AdminType, Actors
<1>3. AdminType'
  BY DEF AdminType, Actors, Setting, Starts
<1>4. Written'
  BY DEF AdminType, Written, Actors, Setting
<1>5. OneFresh'
  BY DEF AdminType, OneFresh, Actors, Setting
<1>6. Attended'
  BY DEF AdminType, Written, Attended, Serving, Actors, Setting
<1>7. PasswordIsWhole'
  BY DEF AdminType, Written, PasswordIsWhole, Actors, Setting
<1>8. LoginsOutliveRestarts'
  BY DEF AdminType, OneFresh, LoginsOutliveRestarts, Actors, Setting
<1> QED
  BY <1>1, <1>3, <1>4, <1>5, <1>6, <1>7, <1>8

LEMMA LeaveStep ==
  ASSUME IInv, NEW c \in Clients, Leave(c)
  PROVE  IInv'
<1> USE Assumed DEF Assumptions, IInv, AdminInv, Leave, Goto, settings
<1>1. SchemaInv' /\ Passed'
  BY FileUntouched DEF AdminType, Actors
<1>3. AdminType'
  BY DEF AdminType, Actors, Setting, Starts
<1>4. Written'
  BY DEF AdminType, Written, Actors, Setting
<1>5. OneFresh'
  BY DEF AdminType, OneFresh, Actors, Setting
<1>6. Attended'
  BY DEF AdminType, Written, Attended, Serving, Actors, Setting
<1>7. PasswordIsWhole'
  BY DEF AdminType, Written, PasswordIsWhole, Actors, Setting
<1>8. LoginsOutliveRestarts'
  BY DEF AdminType, OneFresh, LoginsOutliveRestarts, Actors, Setting
<1> QED
  BY <1>1, <1>3, <1>4, <1>5, <1>6, <1>7, <1>8

LEMMA Preserved == IInv /\ [Next]_vars => IInv'
<1> SUFFICES ASSUME IInv, [Next]_vars PROVE IInv'
  OBVIOUS
<1>1. ASSUME NEW p \in Programs, Program(p) PROVE IInv'
  BY <1>1, StartStep, StatementStep, StatementFailsStep, CheckStep, PromptStep DEF Program
<1>2. ASSUME NEW p \in Programs, Stop(p) PROVE IInv'
  BY <1>2, StopStep
<1>3. ASSUME NEW a \in Actors, SetPassword(a) PROVE IInv'
  BY <1>3, SetHashStep, ReadSecretStep, WriteSecretStep, RequireStep DEF SetPassword
<1>4. ASSUME NEW c \in Clients,
             Setup(c) \/ Verify(c) \/ Login(c) \/ Logout(c) \/ Manage(c) \/ PutSettings(c) \/ Leave(c)
      PROVE  IInv'
  BY <1>4, SetupStep, VerifyStep, LoginStep, LogoutStep, ManageStep, PutSettingsStep, LeaveStep
<1>5. ASSUME UNCHANGED vars PROVE IInv'
  <2>1. SchemaInv' /\ Passed'
    BY <1>5, FileUntouched DEF vars, adminVars
  <2>2. AdminInv'
    BY <1>5 DEF IInv, AdminInv, AdminType, Written, OneFresh, Attended, PasswordIsWhole,
                LoginsOutliveRestarts, Serving, vars, adminVars
  <2> QED
    BY <2>1, <2>2 DEF IInv
<1> QED
  BY <1>1, <1>2, <1>3, <1>4, <1>5 DEF Next
-------------------------------------------------------------------------------
THEOREM InductiveInvariant == Spec => []IInv
BY Initial, Preserved, PTL DEF Spec

\* The variables keep their types (the columns, the statements programs are at, the settings).
THEOREM TypeCorrect == Spec => []TypeOK
<1>1. IInv => TypeOK
  BY DEF IInv, SchemaInv, AdminInv, AdminType, TypeOK
<1> QED
  BY <1>1, InductiveInvariant, PTL

\* Whatever file a program was started on, wherever earlier starts were stopped, and whatever
\* other programs do to the file meanwhile: when it serves, every table, column and setting that
\* it needs is there (init_db, ensure_admin_password).
THEOREM ServesReady == Spec => []ReadyToServe
<1>1. ASSUME IInv PROVE ReadyToServe
  <2>1. ASSUME NEW p \in Programs, Serving(p) PROVE Complete
    BY <1>1, <2>1, ThroughIsComplete DEF IInv, Passed, Serving
  <2> QED
    BY <1>1, <2>1 DEF ReadyToServe, IInv, AdminInv, Attended
<1> QED
  BY <1>1, InductiveInvariant, PTL

\* However many programs and browsers set the password at once, and wherever they are stopped:
\* a stored password has its secret, and logins are required, unless a call was cut short or is
\* still under way (set_admin_password).
THEOREM PasswordWhole == Spec => []PasswordIsWhole
<1>1. IInv => PasswordIsWhole
  BY DEF IInv, AdminInv
<1> QED
  BY <1>1, InductiveInvariant, PTL

\* A cookie is refused before its time only after two calls have found the secret missing at
\* the same time (set_admin_password, ManagementAuth).
THEOREM LoginsLast == Spec => []LoginsOutliveRestarts
<1>1. IInv => LoginsOutliveRestarts
  BY DEF IInv, AdminInv
<1> QED
  BY <1>1, InductiveInvariant, PTL
===============================================================================
