-------------------------- MODULE OAuthTokens_proofs --------------------------
(***************************************************************************)
(* Proofs about OAuthTokens, for any number of requests and grants.        *)
(*                                                                         *)
(* The heart of the inductive invariant: a grant on its way to the row is  *)
(* known to nobody else, and with a rotating issuer it is the latest of    *)
(* its login, because only who has seen the latest refresh token can ask   *)
(* for the next grant.                                                     *)
(***************************************************************************)
EXTENDS OAuthTokens, TLAPS

\* The tokens in the row, and those request r has read or been refused.
InRow   == IF row = None THEN {} ELSE {row.access, row.refresh}
SeenBy(r) == (IF req[r].seen = None THEN {} ELSE {req[r].seen.access, req[r].seen.refresh})
             \cup ({req[r].refused} \ {None})
Known   == InRow \cup UNION {SeenBy(r) : r \in Requests}
Carried(r) == req[r].grant.access

\* What a request has at hand at each point.
HandsFull ==
  \A r \in Requests :
    /\ ~At(r, "start") /\ ~At(r, "done") => req[r].seen # None
    /\ At(r, "write") => req[r].grant # None

\* Every token known was granted, under login 1 only once the reconnect was stored.
Born ==
  /\ \A t \in Known : t.n <= gen[t.login] /\ (t.login = 1 => link = "linked")
  /\ link # "linked" => gen[1] = 0

\* A grant on its way to the row.
OnItsWay ==
  \A r \in Requests : At(r, "write") =>
    /\ Carried(r) \notin Known
    /\ Carried(r).n \in 1..gen[Carried(r).login]
    /\ Carried(r).login = 1 => link = "linked"
    /\ req[r].grant.refresh = IF Rotating THEN Carried(r) ELSE None
    /\ Rotating => Carried(r) = Latest(Carried(r).login)
    /\ \A q \in Requests \ {r} : At(q, "write") => Carried(q) # Carried(r)

\* An issuer that does not rotate has one refresh token per login.
OneRefresh ==
  ~Rotating => /\ row # None => row.refresh.n = 0
               /\ \A r \in Requests : req[r].seen # None => req[r].seen.refresh.n = 0

\* Once the grant is stored, the row no longer has the token that was refused.
RefusedReplaced ==
  \A r \in Requests :
    At(r, "reread") /\ req[r].refused # None /\ row # None => row.access # req[r].refused

\* One call has been made exactly when one was refused.
Counted ==
  \A r \in Requests :
    /\ At(r, "start") => req[r].refused = None
    /\ IF At(r, "done") THEN req[r].calls <= 2
       ELSE req[r].calls = IF req[r].refused = None THEN 0 ELSE 1

IInv ==
  /\ TypeOK /\ HandsFull /\ Born /\ OnItsWay /\ OneRefresh
  /\ RefusedReplaced /\ Counted /\ UsableUnlessLost /\ NeverRepeatsRefused /\ RowOfOneLogin
-------------------------------------------------------------------------------
\* A step that shows nobody a new token and gives nobody a grant.
LEMMA Quiet ==
  ASSUME Born, OnItsWay, Known' \subseteq Known, gen' = gen,
         link' = "linked" <=> link = "linked",
         \A q \in Requests : req'[q].pc = "write" =>
           req[q].pc = "write" /\ req'[q].grant = req[q].grant
  PROVE  Born' /\ OnItsWay'
<1>1. Born'
  BY DEF Born
<1>2. OnItsWay'
  <2> SUFFICES ASSUME NEW r \in Requests, req'[r].pc = "write"
               PROVE  LET t == req'[r].grant.access IN
                      /\ t \notin Known'
                      /\ t.n \in 1..gen'[t.login]
                      /\ t.login = 1 => link' = "linked"
                      /\ req'[r].grant.refresh = IF Rotating THEN t ELSE None
                      /\ Rotating => t = Token(t.login, IF Rotating THEN gen'[t.login] ELSE 0)
                      /\ \A q \in Requests \ {r} :
                           req'[q].pc = "write" => req'[q].grant.access # t
    BY DEF OnItsWay, At, Carried, Latest
  <2>1. req[r].pc = "write" /\ req'[r].grant = req[r].grant
    OBVIOUS
  <2> QED
    BY <2>1 DEF OnItsWay, At, Carried, Latest
<1> QED
  BY <1>1, <1>2

LEMMA Initial == Init => IInv
<1> SUFFICES ASSUME Init PROVE IInv
  OBVIOUS
<1> USE GrantAssumption, NoneAssumption
<1>1. Token(0, 0) \in Tokens /\ Token(0, 0).n = 0 /\ Token(0, 0).login = 0
  BY DEF Token, Tokens, Logins
<1>2. \A r \in Requests : req[r] = NewRequest
  BY DEF Init
<1>3. NewRequest \in Request
  BY DEF NewRequest, Request
<1>4. TypeOK
  BY <1>1, <1>3 DEF Init, TypeOK, Row, Ages
<1>5. Known \subseteq {Token(0, 0)}
  BY <1>1, <1>2 DEF Known, InRow, SeenBy, Init, NewRequest
<1>6. HandsFull /\ OnItsWay /\ RefusedReplaced /\ Counted /\ NeverRepeatsRefused
  BY <1>2 DEF HandsFull, OnItsWay, RefusedReplaced, Counted, NeverRepeatsRefused, At, NewRequest
<1>7. Born
  BY <1>1, <1>5 DEF Init, Born, Logins
<1>8. OneRefresh
  BY <1>1, <1>2 DEF Init, OneRefresh, NewRequest
<1>9. UsableUnlessLost
  BY <1>1 DEF Init, UsableUnlessLost, Usable, Accepts, Latest, Token, Logins
<1>10. RowOfOneLogin
  BY <1>1 DEF Init, RowOfOneLogin
<1> QED
  BY <1>4, <1>6, <1>7, <1>8, <1>9, <1>10 DEF IInv
-------------------------------------------------------------------------------
\* A step that leaves the refresh token and every grant on its way where they are,
\* or loses the grant.
LEMMA QuietUsable ==
  ASSUME UsableUnlessLost, gen' = gen, lost \subseteq lost',
         row' # None => row # None /\ row'.refresh = row.refresh,
         \A q \in Requests : req[q].pc = "write" /\ req[q].grant.refresh # None =>
           \/ req'[q].pc = "write" /\ req'[q].grant = req[q].grant
           \/ req[q].grant.refresh \in lost'
  PROVE  UsableUnlessLost'
<1> SUFFICES ASSUME row' # None
             PROVE  UsableUnlessLost'
  BY DEF UsableUnlessLost, Usable
<1> DEFINE t == row.refresh
           latest == Token(t.login, IF Rotating THEN gen[t.login] ELSE 0)
<1>1. \/ t = latest \/ latest \in lost
      \/ \E q \in Requests : req[q].pc = "write" /\ req[q].grant.refresh = latest /\ latest # None
  BY DEF UsableUnlessLost, Usable, Accepts, Latest, Held, At
<1>2. row'.refresh = t /\ gen' = gen
  OBVIOUS
<1>3. \/ t = latest \/ latest \in lost'
      \/ \E q \in Requests : req'[q].pc = "write" /\ req'[q].grant.refresh = latest /\ latest # None
  BY <1>1
<1> QED
  BY <1>2, <1>3 DEF UsableUnlessLost, Usable, Accepts, Latest, Held, At

\* Only r's locals change; the others' do not.
LEMMA OneMoves ==
  ASSUME TypeOK, NEW r \in Requests, NEW q, Set(r, q)
  PROVE  /\ req'[r] = q
         /\ \A x \in Requests \ {r} : req'[x] = req[x]
         /\ q \in Request => req' \in [Requests -> Request]
BY DEF TypeOK, Set

LEMMA StartStep ==
  ASSUME IInv, NEW r \in Requests, Start(r)
  PROVE  IInv'
<1> USE NoneAssumption
<1> DEFINE q == IF row = None THEN End(req[r], "skipped")
                ELSE [req[r] EXCEPT
                        !.seen = row,
                        !.pc = IF r \in Manual \/ age[row.access] # "fresh"
                               THEN "read" ELSE "call"]
<1>1. Set(r, q) /\ req[r].pc = "start" /\ UNCHANGED <<row, gen, age, link, lost>>
  BY DEF Start, At
<1>2. TypeOK /\ req[r] \in Request
  BY DEF IInv, TypeOK
<1>3. q \in Request
  BY <1>2 DEF TypeOK, Request, End
<1>4. req'[r] = q /\ (\A x \in Requests \ {r} : req'[x] = req[x]) /\ req' \in [Requests -> Request]
  BY <1>1, <1>2, <1>3, OneMoves
<1>5. TypeOK'
  BY <1>1, <1>2, <1>4 DEF TypeOK
<1>6. q.refused = req[r].refused /\ q.calls = req[r].calls /\ q.pc \in {"read", "call", "done"}
  BY <1>2 DEF Request, End
<1>7. q.seen = (IF q.pc = "done" THEN None ELSE row) /\ (q.pc # "done" => row # None)
  BY <1>2 DEF Request, End
<1>8. req[r].refused = None /\ req[r].calls = 0
  BY <1>1 DEF IInv, Counted, At
<1> HIDE DEF q
<1>9. HandsFull'
  BY <1>1, <1>4, <1>6, <1>7 DEF IInv, HandsFull, At
<1>10. Known' \subseteq Known
  BY <1>1, <1>4, <1>6, <1>7 DEF Known, InRow, SeenBy
<1>11. Born' /\ OnItsWay'
  BY <1>1, <1>4, <1>6, <1>10, Quiet DEF IInv
<1>12. OneRefresh' /\ RefusedReplaced' /\ Counted' /\ RowOfOneLogin'
  BY <1>1, <1>4, <1>6, <1>7, <1>8 DEF IInv, OneRefresh, RefusedReplaced, Counted, RowOfOneLogin, At
<1>13. NeverRepeatsRefused'
  BY <1>1, <1>4, <1>6, <1>7, <1>8 DEF IInv, NeverRepeatsRefused, At
<1>14. UsableUnlessLost'
  BY <1>1, <1>4, QuietUsable DEF IInv
<1> QED
  BY <1>5, <1>9, <1>11, <1>12, <1>13, <1>14 DEF IInv

\* Giving up, for whatever reason, with nothing on its way.
LEMMA GaveUp ==
  ASSUME IInv, NEW r \in Requests, Set(r, GiveUp(req[r])),
         req[r].pc \notin {"start", "done"},
         UNCHANGED <<gen, age, link, lost>>, row' \in Row \cup {None}, row' # None => row # None,
         row' # None => row'.access = row.access /\ row'.refresh = row.refresh,
         req[r].pc = "write" => row' = None
  PROVE  IInv'
<1> USE NoneAssumption
<1> DEFINE q == GiveUp(req[r])
<1>1. TypeOK /\ req[r] \in Request
  BY DEF IInv, TypeOK
<1>2. q \in Request /\ q.pc = "done" /\ q.refused = req[r].refused
      /\ q.calls = req[r].calls /\ q.seen = None
  BY <1>1 DEF Request, GiveUp, End
<1>3. req'[r] = q /\ (\A x \in Requests \ {r} : req'[x] = req[x]) /\ req' \in [Requests -> Request]
  BY <1>1, <1>2, OneMoves
<1>4. TypeOK'
  BY <1>1, <1>3 DEF TypeOK
<1> HIDE DEF q
<1>5. HandsFull'
  BY <1>2, <1>3 DEF IInv, HandsFull, At
<1>6. Known' \subseteq Known
  BY <1>2, <1>3 DEF Known, InRow, SeenBy
<1>7. Born' /\ OnItsWay'
  BY <1>2, <1>3, <1>6, Quiet DEF IInv
<1>8. OneRefresh' /\ RefusedReplaced' /\ Counted' /\ RowOfOneLogin'
  BY <1>2, <1>3 DEF IInv, OneRefresh, RefusedReplaced, Counted, RowOfOneLogin, At
<1>9. NeverRepeatsRefused'
  BY <1>2, <1>3 DEF IInv, NeverRepeatsRefused, At
<1>10. UsableUnlessLost'
  <2>1. CASE req[r].pc = "write"
    BY <2>1 DEF UsableUnlessLost, Usable
  <2>2. CASE req[r].pc # "write"
    BY <1>3, <2>2, QuietUsable DEF IInv
  <2> QED
    BY <2>1, <2>2
<1> QED
  BY <1>4, <1>5, <1>7, <1>8, <1>9, <1>10 DEF IInv

LEMMA ReadRowStep ==
  ASSUME IInv, NEW r \in Requests, ReadRow(r)
  PROVE  IInv'
<1> USE NoneAssumption
<1>1. CASE row = None
  BY <1>1, GaveUp DEF ReadRow, At
<1>2. CASE row # None
  <2> DEFINE q == [req[r] EXCEPT !.pc = "ask", !.seen = row]
  <2>1. Set(r, q) /\ req[r].pc = "read" /\ UNCHANGED <<row, gen, age, link, lost>>
    BY <1>2 DEF ReadRow, At
  <2>2. TypeOK /\ req[r] \in Request
    BY DEF IInv, TypeOK
  <2>3. q \in Request /\ q.pc = "ask" /\ q.seen = row /\ q.refused = req[r].refused
        /\ q.calls = req[r].calls
    BY <1>2, <2>2 DEF TypeOK, Request
  <2>4. req'[r] = q /\ (\A x \in Requests \ {r} : req'[x] = req[x]) /\ req' \in [Requests -> Request]
    BY <2>1, <2>2, <2>3, OneMoves
  <2>5. TypeOK'
    BY <2>1, <2>2, <2>4 DEF TypeOK
  <2> HIDE DEF q
  <2>6. HandsFull'
    BY <1>2, <2>1, <2>3, <2>4 DEF IInv, HandsFull, At
  <2>7. Known' \subseteq Known
    BY <2>1, <2>3, <2>4 DEF Known, InRow, SeenBy
  <2>8. Born' /\ OnItsWay'
    BY <2>1, <2>3, <2>4, <2>7, Quiet DEF IInv
  <2>9. OneRefresh' /\ RefusedReplaced' /\ Counted' /\ RowOfOneLogin'
    BY <2>1, <2>3, <2>4 DEF IInv, OneRefresh, RefusedReplaced, Counted, RowOfOneLogin, At
  <2>10. NeverRepeatsRefused'
    BY <2>1, <2>3, <2>4 DEF IInv, NeverRepeatsRefused, At
  <2>11. UsableUnlessLost'
    BY <2>1, <2>4, QuietUsable DEF IInv
  <2> QED
    BY <2>5, <2>6, <2>8, <2>9, <2>10, <2>11 DEF IInv
<1> QED
  BY <1>1, <1>2

\* The issuer's answer.  A grant makes a token nobody knows, and whoever had it made
\* is the only one with a grant of that login on the way.
LEMMA AskStep ==
  ASSUME IInv, NEW r \in Requests, Ask(r)
  PROVE  IInv'
<1> USE NoneAssumption, GrantAssumption
<1> DEFINE t == req[r].seen.refresh
           l == t.login
           new == Token(l, gen[l] + 1)
           g == NewGrant(l)
<1>1. TypeOK /\ req[r] \in Request /\ req[r].pc = "ask" /\ UNCHANGED <<row, age, link>>
  BY DEF IInv, TypeOK, Ask, At
<1>2. req[r].seen \in Row /\ t \in Tokens /\ l \in Logins /\ t \in Known
  BY <1>1 DEF IInv, HandsFull, At, Request, Row, Tokens, Known, SeenBy
<1>3. PICK q : /\ Set(r, q) /\ lost \subseteq lost'
               /\ q = [req[r] EXCEPT !.pc = "write", !.grant = g] \/ q = [req[r] EXCEPT !.pc = "record"]
               /\ IF gen' = gen
                  THEN q.pc = "record" /\ lost' = lost
                  ELSE /\ Accepts(t) /\ gen[l] < MaxGrants
                       /\ gen' = [gen EXCEPT ![l] = @ + 1]
                       /\ lost' \in SUBSET (lost \cup ({g.refresh} \ {None}))
                       /\ q.pc = "write" \/ lost' = lost \cup ({g.refresh} \ {None})
  <2>0. gen' = [gen EXCEPT ![l] = @ + 1] => gen' # gen
    BY <1>1, <1>2 DEF TypeOK
  <2>1. CASE /\ Accepts(t) /\ gen[l] < MaxGrants
             /\ gen' = [gen EXCEPT ![l] = @ + 1]
             /\ Set(r, [req[r] EXCEPT !.pc = "write", !.grant = g])
             /\ UNCHANGED lost
    <3>1. [req[r] EXCEPT !.pc = "write", !.grant = g].pc = "write"
      BY <1>1 DEF Request
    <3> QED
      BY <2>0, <2>1, <3>1
  <2>2. CASE /\ Accepts(t) /\ gen[l] < MaxGrants
             /\ gen' = [gen EXCEPT ![l] = @ + 1]
             /\ Set(r, [req[r] EXCEPT !.pc = "record"])
             /\ lost' = lost \cup ({g.refresh} \ {None})
    BY <2>0, <2>2
  <2>3. CASE Set(r, [req[r] EXCEPT !.pc = "record"]) /\ UNCHANGED <<gen, lost>>
    BY <1>1, <2>3 DEF Request
  <2> QED
    BY <2>1, <2>2, <2>3 DEF Ask
<1>4. /\ q.pc \in {"write", "record"} /\ q.seen = req[r].seen /\ q.refused = req[r].refused
      /\ q.calls = req[r].calls /\ (q.pc = "write" => q.grant = g)
  BY <1>1, <1>3 DEF Request
<1>5. CASE gen' = gen
  <2>1. q.pc = "record" /\ lost' = lost /\ q \in Request
    BY <1>1, <1>3, <1>5 DEF Request
  <2>2. req'[r] = q /\ (\A x \in Requests \ {r} : req'[x] = req[x]) /\ req' \in [Requests -> Request]
    BY <1>1, <1>3, <2>1, OneMoves
  <2> HIDE DEF l, new, g
  <2>3. TypeOK' /\ HandsFull'
    BY <1>1, <1>4, <1>5, <2>1, <2>2 DEF IInv, TypeOK, HandsFull, At
  <2>4. Known' \subseteq Known
    BY <1>1, <1>4, <2>2 DEF Known, InRow, SeenBy
  <2>5. Born' /\ OnItsWay'
    BY <1>1, <1>5, <2>1, <2>2, <2>4, Quiet DEF IInv
  <2>6. OneRefresh' /\ RefusedReplaced' /\ Counted' /\ RowOfOneLogin' /\ NeverRepeatsRefused'
    BY <1>1, <1>4, <2>1, <2>2
       DEF IInv, OneRefresh, RefusedReplaced, Counted, RowOfOneLogin, NeverRepeatsRefused, At
  <2>7. UsableUnlessLost'
    BY <1>1, <1>5, <2>1, <2>2, QuietUsable DEF IInv
  <2> QED
    BY <2>3, <2>5, <2>6, <2>7 DEF IInv
<1>6. CASE gen' # gen
  <2>1. /\ t = Token(l, IF Rotating THEN gen[l] ELSE 0) /\ gen[l] < MaxGrants
        /\ gen' = [gen EXCEPT ![l] = @ + 1] /\ gen[l] \in Nat /\ gen'[l] = gen[l] + 1
        /\ \A k \in Logins \ {l} : gen'[k] = gen[k]
    BY <1>1, <1>2, <1>3, <1>6 DEF Accepts, Latest, TypeOK
  <2>2. new \in Tokens /\ new.login = l /\ new.n = gen[l] + 1 /\ gen' \in [Logins -> 0..MaxGrants]
    BY <1>1, <1>2, <2>1 DEF Token, Tokens, TypeOK
  <2>3. /\ g.access = new /\ g.refresh = (IF Rotating THEN new ELSE None) /\ g \in Grants
    BY <2>2 DEF NewGrant, Grants
  <2>4. q \in Request /\ lost' \in SUBSET Tokens
    <3> HIDE DEF l, new, g, t
    <3>1. lost' \in SUBSET Tokens
      BY <1>1, <1>3, <1>6, <2>2, <2>3 DEF TypeOK
    <3>2. q \in Request
      BY <1>1, <1>3, <2>3 DEF Request
    <3> QED
      BY <3>1, <3>2
  <2>5. req'[r] = q /\ (\A x \in Requests \ {r} : req'[x] = req[x]) /\ req' \in [Requests -> Request]
    BY <1>1, <1>3, <2>4, OneMoves
  <2>6. q.pc = "write" \/ lost' = lost \cup ({g.refresh} \ {None})
    BY <1>3, <1>6
  <2> HIDE DEF l, new, g, t
  <2>7. TypeOK'
    BY <1>1, <2>2, <2>4, <2>5 DEF TypeOK
  <2>8. HandsFull'
    BY <1>1, <1>4, <2>3, <2>5 DEF IInv, HandsFull, At, Grants
  <2>9. Known' \subseteq Known
    BY <1>1, <1>4, <2>5 DEF Known, InRow, SeenBy
  <2>10. /\ \A x \in Known : x \in Tokens /\ x.n <= gen[x.login] /\ (x.login = 1 => link = "linked")
         /\ link # "linked" => l = 0
    <3>1. Known \subseteq Tokens
      BY <1>1 DEF TypeOK, Known, InRow, SeenBy, Row, Request
    <3>2. t.login = l
      BY DEF l
    <3> QED
      BY <3>1, <3>2, <1>2 DEF IInv, Born, Logins
  <2>11. new \notin Known
    BY <2>1, <2>2, <2>10
  <2>12. \A x \in Known : x.n <= gen'[x.login]
    BY <1>1, <2>1, <2>10 DEF Tokens, TypeOK
  <2>13. Born'
    BY <1>1, <1>2, <2>1, <2>9, <2>10, <2>12 DEF IInv, Born, Logins
  <2>14. ASSUME NEW x \in Requests \ {r}, req[x].pc = "write"
         PROVE  LET c == req[x].grant.access IN
                /\ c \in Tokens /\ c.n \in 1..gen'[c.login] /\ c # new
                /\ Rotating => c = Token(c.login, gen'[c.login])
    <3> DEFINE c == req[x].grant.access
    <3>1. c \in Tokens /\ c.login \in Logins /\ c.n \in 1..gen[c.login] /\ c \notin Known
          /\ (Rotating => c = Token(c.login, gen[c.login]))
      BY <1>1, <2>14 DEF IInv, OnItsWay, HandsFull, At, Carried, TypeOK, Request, Grants, Tokens, Latest
    <3>2. c # new /\ c.n \in 1..gen'[c.login]
      BY <1>1, <3>1, <2>1, <2>2 DEF TypeOK
    <3>3. Rotating => c.login # l
      BY <3>1, <2>1, <1>2
    <3> QED
      BY <3>1, <3>2, <3>3, <2>1
  <2>15. OnItsWay'
    <3> SUFFICES ASSUME NEW x \in Requests, req'[x].pc = "write"
                 PROVE  LET c == req'[x].grant.access IN
                        /\ c \notin Known'
                        /\ c.n \in 1..gen'[c.login]
                        /\ c.login = 1 => link' = "linked"
                        /\ req'[x].grant.refresh = IF Rotating THEN c ELSE None
                        /\ Rotating => c = Token(c.login, IF Rotating THEN gen'[c.login] ELSE 0)
                        /\ \A y \in Requests \ {x} :
                             req'[y].pc = "write" => req'[y].grant.access # c
      BY DEF OnItsWay, At, Carried, Latest
    <3>1. CASE x = r
      <4>1. req'[x].grant = g
        BY <1>4, <2>5, <3>1
      <4>2. new = Token(l, gen'[l])
        BY <2>1 DEF new
      <4>3. l = 1 => link = "linked"
        BY <2>10
      <4>4. new.n \in 1..gen'[l]
        BY <2>1, <2>2
      <4> QED
        BY <1>1, <2>2, <2>3, <2>5, <2>9, <2>11, <2>14, <3>1, <4>1, <4>2, <4>3, <4>4
    <3>2. CASE x # r
      <4>1. req[x].pc = "write" /\ req'[x] = req[x]
        BY <2>5, <3>2
      <4>2. \A y \in Requests \ {x} : req'[y].pc = "write" => req'[y].grant.access # req[x].grant.access
        <5> SUFFICES ASSUME NEW y \in Requests \ {x}, req'[y].pc = "write"
                     PROVE  req'[y].grant.access # req[x].grant.access
          OBVIOUS
        <5>1. CASE y = r
          BY <5>1, <3>2, <4>1, <1>4, <2>3, <2>5, <2>14
        <5>2. CASE y # r
          BY <5>2, <4>1, <2>5 DEF IInv, OnItsWay, At, Carried
        <5> QED
          BY <5>1, <5>2
      <4>3. /\ req[x].grant.access \notin Known'
            /\ req[x].grant.access.login = 1 => link' = "linked"
            /\ req[x].grant.refresh = IF Rotating THEN req[x].grant.access ELSE None
        BY <1>1, <2>9, <4>1 DEF IInv, OnItsWay, At, Carried
      <4> QED
        BY <3>2, <4>1, <4>2, <4>3, <2>14
    <3> QED
      BY <3>1, <3>2
  <2>16. OneRefresh' /\ RefusedReplaced' /\ Counted' /\ RowOfOneLogin' /\ NeverRepeatsRefused'
    BY <1>1, <1>4, <2>5
       DEF IInv, OneRefresh, RefusedReplaced, Counted, RowOfOneLogin, NeverRepeatsRefused, At
  <2>17. UsableUnlessLost'
    <3> SUFFICES ASSUME row # None
                 PROVE  UsableUnlessLost'
      BY <1>1 DEF UsableUnlessLost, Usable
    <3> DEFINE k == row.refresh.login
               latest == Token(k, IF Rotating THEN gen'[k] ELSE 0)
    <3>1. k \in Logins
      BY <1>1 DEF TypeOK, Row, Tokens
    <3> SUFFICES \/ row.refresh = latest \/ latest \in lost'
                 \/ \E x \in Requests : /\ req'[x].pc = "write" /\ latest # None
                                        /\ req'[x].grant.refresh = latest
      BY <1>1 DEF UsableUnlessLost, Usable, Accepts, Latest, Held, At
    <3>2. CASE Rotating /\ k = l
      <4>1. latest = new /\ new # None /\ g.refresh = new
        BY <3>2, <2>1, <2>2, <2>3 DEF new
      <4> QED
        BY <4>1, <1>4, <2>5, <2>6
    <3>3. CASE ~(Rotating /\ k = l)
      <4>1. latest = Token(k, IF Rotating THEN gen[k] ELSE 0)
        BY <3>1, <3>3, <2>1
      <4>2. \/ row.refresh = latest \/ latest \in lost
            \/ \E x \in Requests : /\ req[x].pc = "write" /\ latest # None
                                   /\ req[x].grant.refresh = latest
        BY <4>1 DEF IInv, UsableUnlessLost, Usable, Accepts, Latest, Held, At
      <4> QED
        BY <4>2, <1>1, <1>3, <2>5
    <3> QED
      BY <3>2, <3>3
  <2> QED
    BY <2>7, <2>8, <2>13, <2>15, <2>16, <2>17 DEF IInv
<1> QED
  BY <1>5, <1>6

LEMMA WriteGrantStep ==
  ASSUME IInv, NEW r \in Requests, WriteGrant(r)
  PROVE  IInv'
<1> USE NoneAssumption
<1>1. CASE row = None
  BY <1>1, GaveUp DEF WriteGrant, At
<1>2. CASE row # None
  <2> DEFINE q == [req[r] EXCEPT !.pc = "reread"]
             g == req[r].grant
             c == g.access
  <2>1. /\ Set(r, q) /\ req[r].pc = "write" /\ UNCHANGED <<gen, age, link, lost>>
        /\ row' = Stored(row, g)
    BY <1>2 DEF WriteGrant, At
  <2>2. TypeOK /\ req[r] \in Request /\ row \in Row
    BY <1>2 DEF IInv, TypeOK
  <2>3. q \in Request /\ q.pc = "reread" /\ q.seen = req[r].seen /\ q.refused = req[r].refused
        /\ q.calls = req[r].calls
    BY <2>2 DEF Request
  <2>4. req'[r] = q /\ (\A x \in Requests \ {r} : req'[x] = req[x]) /\ req' \in [Requests -> Request]
    BY <2>1, <2>2, <2>3, OneMoves
  <2>5. g \in Grants /\ c \in Tokens
    BY <2>1, <2>2 DEF IInv, HandsFull, At, Request, Grants
  <2>6. /\ c \notin Known /\ c.n \in 1..gen[c.login] /\ (c.login = 1 => link = "linked")
        /\ g.refresh = (IF Rotating THEN c ELSE None)
        /\ Rotating => c = Token(c.login, gen[c.login])
        /\ \A x \in Requests \ {r} : req[x].pc = "write" => req[x].grant.access # c
    BY <2>1 DEF IInv, OnItsWay, At, Carried, Latest
  <2>7. /\ row' \in Row /\ row'.access = c
        /\ row'.refresh = IF Rotating THEN c ELSE row.refresh
    BY <2>1, <2>2, <2>5, <2>6 DEF Stored, Row, Grants
  <2> HIDE DEF q, g, c
  <2>8. TypeOK'
    BY <2>1, <2>2, <2>4, <2>7 DEF TypeOK
  <2>9. HandsFull'
    BY <2>1, <2>3, <2>4 DEF IInv, HandsFull, At
  <2>10. Known' \subseteq Known \cup {c}
    BY <1>2, <2>3, <2>4, <2>7 DEF Known, InRow, SeenBy
  <2>11. Born'
    <3>1. c.n <= gen[c.login]
      BY <2>2, <2>5, <2>6 DEF TypeOK, Tokens
    <3> QED
      BY <3>1, <2>1, <2>6, <2>10 DEF IInv, Born
  <2>12. OnItsWay'
    <3> SUFFICES ASSUME NEW x \in Requests, req'[x].pc = "write"
                 PROVE  LET d == req'[x].grant.access IN
                        /\ d \notin Known'
                        /\ d.n \in 1..gen'[d.login]
                        /\ d.login = 1 => link' = "linked"
                        /\ req'[x].grant.refresh = IF Rotating THEN d ELSE None
                        /\ Rotating => d = Token(d.login, IF Rotating THEN gen'[d.login] ELSE 0)
                        /\ \A y \in Requests \ {x} :
                             req'[y].pc = "write" => req'[y].grant.access # d
      BY DEF OnItsWay, At, Carried, Latest
    <3>1. x # r /\ req[x].pc = "write" /\ req'[x] = req[x]
      BY <2>3, <2>4
    <3>2. req[x].grant.access \notin Known'
      BY <3>1, <2>6, <2>10 DEF IInv, OnItsWay, At, Carried
    <3> QED
      BY <3>1, <3>2, <2>1, <2>3, <2>4 DEF IInv, OnItsWay, At, Carried, Latest
  <2>13. OneRefresh'
    BY <1>2, <2>3, <2>4, <2>7 DEF IInv, OneRefresh
  <2>14. RefusedReplaced'
    <3>1. \A x \in Requests : req'[x].refused = req[x].refused
      BY <2>3, <2>4
    <3>2. \A x \in Requests : req[x].refused # c
      BY <2>5, <2>6 DEF Known, SeenBy
    <3> QED
      BY <3>1, <3>2, <2>7 DEF RefusedReplaced, At
  <2>15. Counted' /\ NeverRepeatsRefused'
    BY <2>1, <2>3, <2>4 DEF IInv, Counted, NeverRepeatsRefused, At
  <2>16. RowOfOneLogin'
    BY <2>7 DEF RowOfOneLogin
  <2>17. UsableUnlessLost'
    <3> SUFFICES row'.refresh = Token(row'.refresh.login, IF Rotating THEN gen[row'.refresh.login] ELSE 0)
      BY <2>1 DEF UsableUnlessLost, Usable, Accepts, Latest
    <3>1. CASE Rotating
      BY <3>1, <2>6, <2>7
    <3>2. CASE ~Rotating
      BY <1>2, <3>2, <2>2, <2>7 DEF IInv, OneRefresh, Token, Row, Tokens
    <3> QED
      BY <3>1, <3>2
  <2> QED
    BY <2>8, <2>9, <2>11, <2>12, <2>13, <2>14, <2>15, <2>16, <2>17 DEF IInv
<1> QED
  BY <1>1, <1>2

\* The row is as it was, but for its refresh_error.
SameTokens ==
  /\ row' \in Row \cup {None} /\ (row' = None <=> row = None)
  /\ row' # None => row'.access = row.access /\ row'.refresh = row.refresh

\* A step of r after which it carries nothing, has seen the row as it is or what it
\* had seen, and the row has the tokens it had.
Move(r) ==
  /\ req[r].pc # "write" /\ UNCHANGED <<gen, age, link, lost>> /\ SameTokens
  /\ req' \in [Requests -> Request] /\ \A x \in Requests \ {r} : req'[x] = req[x]
  /\ req'[r].pc \in {"read", "again", "call", "done"}
  /\ req'[r].pc # "done" => req'[r].seen # None
  /\ req'[r].seen \in {None, row, req[r].seen}
  /\ \/ req'[r].refused \in {None, req[r].refused}
     \/ req[r].seen # None /\ req'[r].refused = req[r].seen.access
  /\ req'[r].calls <= 2
  /\ req'[r].pc # "done" => req'[r].calls = IF req'[r].refused = None THEN 0 ELSE 1
  /\ req'[r].pc = "call" /\ req'[r].refused # None => req'[r].seen.access # req'[r].refused

LEMMA Moved ==
  ASSUME IInv, NEW r \in Requests, Move(r)
  PROVE  IInv'
<1> USE NoneAssumption
<1>1. TypeOK
  BY DEF IInv
<1> USE DEF Move, SameTokens
<1>2. TypeOK' /\ HandsFull'
  BY <1>1 DEF IInv, TypeOK, HandsFull, At
<1>3. Known' \subseteq Known
  BY <1>1 DEF Known, InRow, SeenBy
<1>4. Born' /\ OnItsWay'
  BY <1>1, <1>3, Quiet DEF IInv
<1>5. OneRefresh'
  BY <1>1 DEF IInv, OneRefresh
<1>6. RefusedReplaced' /\ Counted' /\ RowOfOneLogin' /\ NeverRepeatsRefused'
  BY <1>1 DEF IInv, RefusedReplaced, Counted, RowOfOneLogin, NeverRepeatsRefused, At
<1>7. UsableUnlessLost'
  BY <1>1, QuietUsable DEF IInv
<1> QED
  BY <1>2, <1>4, <1>5, <1>6, <1>7 DEF IInv

LEMMA Noted ==
  ASSUME TypeOK, NoteError
  PROVE  SameTokens
BY NoneAssumption DEF TypeOK, NoteError, SameTokens, Row

LEMMA RecordErrorStep ==
  ASSUME IInv, NEW r \in Requests, RecordError(r)
  PROVE  IInv'
<1> USE NoneAssumption
<1>1. /\ TypeOK /\ req[r] \in Request /\ req[r].pc = "record" /\ SameTokens
      /\ UNCHANGED <<gen, age, link, lost>>
  BY Noted DEF IInv, TypeOK, RecordError, At
<1>2. CASE Set(r, GiveUp(req[r]))
  BY <1>1, <1>2, GaveUp DEF SameTokens
<1>3. CASE req[r].refused = None /\ Set(r, [req[r] EXCEPT !.pc = "again"])
  <2> DEFINE q == [req[r] EXCEPT !.pc = "again"]
  <2>1. q \in Request /\ q.pc = "again" /\ q.seen = req[r].seen /\ q.refused = req[r].refused
        /\ q.calls = req[r].calls
    BY <1>1 DEF Request
  <2>2. req[r].seen # None /\ req[r].calls = 0
    BY <1>1, <1>3 DEF IInv, HandsFull, Counted, At
  <2>3. req'[r] = q /\ (\A x \in Requests \ {r} : req'[x] = req[x]) /\ req' \in [Requests -> Request]
    BY <1>1, <1>3, <2>1, OneMoves
  <2> HIDE DEF q
  <2>4. Move(r)
    BY <1>1, <1>3, <2>1, <2>2, <2>3 DEF Move
  <2> QED
    BY <2>4, Moved
<1> QED
  BY <1>2, <1>3 DEF RecordError

LEMMA RecordAgainStep ==
  ASSUME IInv, NEW r \in Requests, RecordAgain(r)
  PROVE  IInv'
<1>1. TypeOK /\ req[r].pc = "again" /\ SameTokens /\ UNCHANGED <<gen, age, link, lost>>
      /\ Set(r, GiveUp(req[r]))
  BY Noted DEF IInv, RecordAgain, At
<1> QED
  BY <1>1, GaveUp DEF SameTokens

LEMMA RereadStep ==
  ASSUME IInv, NEW r \in Requests, Reread(r)
  PROVE  IInv'
<1> USE NoneAssumption
<1>0. TypeOK /\ req[r] \in Request /\ req[r].pc = "reread" /\ row \in Row \cup {None}
      /\ UNCHANGED <<row, gen, age, link, lost>> /\ SameTokens
  BY DEF IInv, TypeOK, Reread, At, SameTokens
<1>1. /\ req[r].calls = (IF req[r].refused = None THEN 0 ELSE 1)
      /\ req[r].refused # None /\ row # None => row.access # req[r].refused
  BY <1>0 DEF IInv, Counted, RefusedReplaced, At
<1>2. CASE row = None
  BY <1>0, <1>2, GaveUp DEF Reread
<1>3. CASE row # None /\ r \in Manual
  <2> DEFINE q == End(req[r], "ok")
  <2>1. Set(r, q)
    BY <1>3 DEF Reread
  <2>2. q \in Request /\ q.pc = "done" /\ q.seen = None /\ q.refused = req[r].refused
        /\ q.calls = req[r].calls
    BY <1>0 DEF End, Request
  <2> HIDE DEF q
  <2>3. req'[r] = q /\ (\A x \in Requests \ {r} : req'[x] = req[x]) /\ req' \in [Requests -> Request]
    BY <1>0, <2>1, <2>2, OneMoves
  <2>4. Move(r)
    BY <1>0, <1>1, <2>1, <2>2, <2>3 DEF Move
  <2> QED
    BY <2>4, Moved
<1>4. CASE row # None /\ r \notin Manual
  <2> DEFINE q == [req[r] EXCEPT !.pc = "call", !.seen = row, !.grant = None]
  <2>1. Set(r, q)
    BY <1>4 DEF Reread
  <2>2. q \in Request /\ q.pc = "call" /\ q.seen = row /\ q.refused = req[r].refused
        /\ q.calls = req[r].calls
    BY <1>0 DEF Request
  <2> HIDE DEF q
  <2>3. req'[r] = q /\ (\A x \in Requests \ {r} : req'[x] = req[x]) /\ req' \in [Requests -> Request]
    BY <1>0, <2>1, <2>2, OneMoves
  <2>4. Move(r)
    BY <1>0, <1>1, <1>4, <2>1, <2>2, <2>3 DEF Move
  <2> QED
    BY <2>4, Moved
<1> QED
  BY <1>2, <1>3, <1>4

LEMMA CallStep ==
  ASSUME IInv, NEW r \in Requests, Call(r)
  PROVE  IInv'
<1> USE NoneAssumption
<1>1. TypeOK /\ req[r] \in Request /\ req[r].pc = "call" /\ UNCHANGED <<gen, age, link, lost>>
      /\ SameTokens
  BY DEF IInv, TypeOK, Call, At, SameTokens
<1>2. /\ req[r].calls = (IF req[r].refused = None THEN 0 ELSE 1)
      /\ req[r].seen # None /\ req[r].seen \in Row /\ req[r].seen.access \in Tokens
  BY <1>1 DEF IInv, Counted, HandsFull, At, Request, Row
<1> DEFINE called == [req[r] EXCEPT !.calls = @ + 1]
<1>3. /\ called \in Request /\ called.seen = req[r].seen /\ called.refused = req[r].refused
      /\ called.calls = req[r].calls + 1
  BY <1>1 DEF Request
<1>4. ASSUME NEW how \in {"ok", "unauthorized"}, Set(r, End(called, how))
      PROVE  IInv'
  <2> DEFINE q == End(called, how)
  <2> HIDE DEF called
  <2>1. q \in Request /\ q.pc = "done" /\ q.seen = None /\ q.refused = req[r].refused
        /\ q.calls = req[r].calls + 1
    BY <1>3 DEF End, Request
  <2> HIDE DEF q
  <2>2. req'[r] = q /\ (\A x \in Requests \ {r} : req'[x] = req[x]) /\ req' \in [Requests -> Request]
    BY <1>1, <1>4, <2>1, OneMoves DEF q
  <2>3. Move(r)
    BY <1>1, <1>2, <2>1, <2>2 DEF Move
  <2> QED
    BY <2>3, Moved
<1>5. CASE /\ req[r].refused = None
           /\ Set(r, [req[r] EXCEPT !.pc = "read", !.refused = req[r].seen.access, !.calls = @ + 1])
  <2> DEFINE q == [req[r] EXCEPT !.pc = "read", !.refused = req[r].seen.access, !.calls = @ + 1]
  <2>1. /\ q.pc = "read" /\ q.seen = req[r].seen /\ q.refused = req[r].seen.access
        /\ q.calls = req[r].calls + 1
    BY <1>1 DEF Request
  <2>2. q \in Request
    <3> DEFINE a == req[r].seen.access
               n == req[r].calls + 1
    <3>1. a \in Tokens /\ n \in Nat
      BY <1>1, <1>2 DEF Request
    <3> HIDE DEF a, n
    <3>2. [req[r] EXCEPT !.pc = "read", !.refused = a, !.calls = n] \in Request
      BY <1>1, <3>1 DEF Request
    <3> QED
      BY <3>2 DEF a, n
  <2>3. req'[r] = q /\ (\A x \in Requests \ {r} : req'[x] = req[x]) /\ req' \in [Requests -> Request]
    BY <1>1, <1>5, <2>2, OneMoves
  <2>4. req[r].seen.access # None
    BY <1>2
  <2> HIDE DEF q
  <2>5. Move(r)
    BY <1>1, <1>2, <1>5, <2>1, <2>3, <2>4 DEF Move
  <2> QED
    BY <2>5, Moved
<1> QED
  BY <1>4, <1>5 DEF Call, AfterRefusal

LEMMA DisconnectStep ==
  ASSUME IInv, NEW r \in Requests, Disconnect(r)
  PROVE  IInv'
<1> USE NoneAssumption
<1> DEFINE q == End(req[r], "dropped")
<1>1. Set(r, q) /\ req[r].pc # "done" /\ UNCHANGED <<row, gen, age, link>>
      /\ lost' = lost \cup Held(r)
  BY DEF Disconnect, At
<1>2. TypeOK /\ req[r] \in Request
  BY DEF IInv, TypeOK
<1>3. q \in Request /\ q.pc = "done" /\ q.refused = req[r].refused
      /\ q.calls = req[r].calls /\ q.seen = None
  BY <1>2 DEF Request, End
<1>4. req'[r] = q /\ (\A x \in Requests \ {r} : req'[x] = req[x]) /\ req' \in [Requests -> Request]
  BY <1>1, <1>2, <1>3, OneMoves
<1>5. Held(r) \subseteq Tokens
  BY <1>2 DEF IInv, HandsFull, Held, At, Request, Grants
<1> HIDE DEF q
<1>6. TypeOK'
  BY <1>1, <1>2, <1>4, <1>5 DEF TypeOK
<1>7. HandsFull'
  BY <1>3, <1>4 DEF IInv, HandsFull, At
<1>8. Known' \subseteq Known
  BY <1>1, <1>3, <1>4 DEF Known, InRow, SeenBy
<1>9. Born' /\ OnItsWay'
  BY <1>1, <1>3, <1>4, <1>8, Quiet DEF IInv
<1>10. OneRefresh' /\ RefusedReplaced' /\ Counted' /\ RowOfOneLogin' /\ NeverRepeatsRefused'
  BY <1>1, <1>3, <1>4
     DEF IInv, OneRefresh, RefusedReplaced, Counted, RowOfOneLogin, NeverRepeatsRefused, At
<1>11. UsableUnlessLost'
  BY <1>1, <1>4, QuietUsable DEF IInv, Held, At
<1> QED
  BY <1>6, <1>7, <1>9, <1>10, <1>11 DEF IInv

\* A step that is no request's, after which nobody knows a token they did not know
\* and the row's refresh token is what it was.
LEMMA Aside ==
  ASSUME IInv, UNCHANGED <<gen, lost, req>>, TypeOK',
         link' = "linked" <=> link = "linked", row' \in {None, row}
  PROVE  IInv'
<1> USE NoneAssumption
<1>1. Known' \subseteq Known
  BY DEF Known, InRow, SeenBy
<1>2. Born' /\ OnItsWay'
  BY <1>1, Quiet DEF IInv
<1>3. HandsFull' /\ OneRefresh' /\ RefusedReplaced' /\ Counted' /\ RowOfOneLogin' /\ NeverRepeatsRefused'
  BY DEF IInv, HandsFull, OneRefresh, RefusedReplaced, Counted, RowOfOneLogin, NeverRepeatsRefused, At
<1>4. UsableUnlessLost'
  BY QuietUsable DEF IInv
<1> QED
  BY <1>2, <1>3, <1>4 DEF IInv

LEMMA ReconnectExchangeStep == IInv /\ ReconnectExchange => IInv'
<1> SUFFICES ASSUME IInv, ReconnectExchange PROVE IInv'
  OBVIOUS
<1>1. TypeOK'
  BY DEF IInv, TypeOK, ReconnectExchange
<1> QED
  BY <1>1, Aside DEF ReconnectExchange

LEMMA DeleteStep == IInv /\ Delete => IInv'
<1> SUFFICES ASSUME IInv, Delete PROVE IInv'
  OBVIOUS
<1>1. TypeOK'
  BY DEF IInv, TypeOK, Delete
<1> QED
  BY <1>1, Aside DEF Delete

LEMMA GrowStep == ASSUME NEW t \in Tokens, IInv, Grow(t) PROVE IInv'
<1>1. TypeOK'
  BY DEF IInv, TypeOK, Grow, Ages
<1> QED
  BY <1>1, Aside DEF Grow

\* The reconnect's tokens are of a login nobody has used yet.
LEMMA ReconnectWriteStep == IInv /\ ReconnectWrite => IInv'
<1> SUFFICES ASSUME IInv, ReconnectWrite PROVE IInv'
  OBVIOUS
<1> USE NoneAssumption, GrantAssumption
<1>1. CASE row = None
  <2>1. TypeOK'
    BY <1>1 DEF IInv, TypeOK, ReconnectWrite
  <2> QED
    BY <1>1, <2>1, Aside DEF ReconnectWrite
<1>2. CASE row # None
  <2> DEFINE new == Token(1, 0)
  <2>1. /\ new \in Tokens /\ new.login = 1 /\ new.n = 0
        /\ new = Token(1, IF Rotating THEN 0 ELSE 0)
    BY DEF Token, Tokens, Logins
  <2>2. /\ TypeOK /\ row \in Row /\ link # "linked" /\ link' = "linked" /\ gen[1] = 0
        /\ UNCHANGED <<gen, age, lost, req>>
    BY <1>2 DEF IInv, TypeOK, Born, ReconnectWrite
  <2>3. row' = Stored(row, [access |-> new, refresh |-> new])
    BY <1>2 DEF ReconnectWrite
  <2> HIDE DEF new
  <2>4. row' \in Row /\ row' # None /\ row'.access = new /\ row'.refresh = new
    <3>1. new # None
      BY <2>1
    <3>2. row' = [access |-> new, refresh |-> new, error |-> FALSE]
      BY <2>3, <3>1 DEF Stored
    <3>3. row' \in Row
      BY <2>1, <3>2 DEF Row
    <3> QED
      BY <3>2, <3>3
  <2>5. TypeOK'
    BY <2>2, <2>4 DEF TypeOK
  <2>6. Known' \subseteq Known \cup {new}
    BY <2>2, <2>4 DEF Known, InRow, SeenBy
  <2>7. \A t \in Known : t.login # 1
    BY <2>2 DEF IInv, Born
  <2>8. Born'
    BY <2>1, <2>2, <2>6 DEF IInv, Born
  <2>9. OnItsWay'
    <3> SUFFICES ASSUME NEW x \in Requests, req[x].pc = "write"
                 PROVE  LET d == req[x].grant.access IN
                        /\ d \notin Known'
                        /\ d.n \in 1..gen[d.login]
                        /\ req[x].grant.refresh = IF Rotating THEN d ELSE None
                        /\ Rotating => d = Token(d.login, IF Rotating THEN gen[d.login] ELSE 0)
                        /\ \A y \in Requests \ {x} :
                             req[y].pc = "write" => req[y].grant.access # d
      BY <2>2 DEF OnItsWay, At, Carried, Latest
    <3>1. req[x].grant.access.login # 1 /\ req[x].grant.access \notin Known
      BY <2>2 DEF IInv, OnItsWay, At, Carried
    <3>2. req[x].grant.access \notin Known'
      BY <3>1, <2>1, <2>6
    <3> QED
      BY <3>2 DEF IInv, OnItsWay, At, Carried, Latest
  <2>10. HandsFull' /\ OneRefresh' /\ Counted' /\ NeverRepeatsRefused' /\ RowOfOneLogin'
    BY <2>1, <2>2, <2>4 DEF IInv, HandsFull, OneRefresh, Counted, NeverRepeatsRefused, RowOfOneLogin, At
  <2>11. RefusedReplaced'
    <3>1. \A x \in Requests : req[x].refused # None => req[x].refused # new
      BY <2>1, <2>7 DEF Known, SeenBy
    <3> QED
      BY <3>1, <2>2, <2>4 DEF RefusedReplaced, At
  <2>12. UsableUnlessLost'
    BY <2>1, <2>2, <2>4 DEF UsableUnlessLost, Usable, Accepts, Latest
  <2> QED
    BY <2>5, <2>8, <2>9, <2>10, <2>11, <2>12 DEF IInv
<1> QED
  BY <1>1, <1>2

LEMMA Stutter == IInv /\ UNCHANGED vars => IInv'
<1> SUFFICES ASSUME IInv, UNCHANGED vars PROVE IInv'
  OBVIOUS
<1>1. TypeOK'
  BY DEF IInv, TypeOK, vars
<1> QED
  BY <1>1, Aside DEF vars

\* The invariant is inductive.
THEOREM InductiveInvariant == Spec => []IInv
<1>1. IInv /\ [Next]_vars => IInv'
  <2> SUFFICES ASSUME IInv, [Next]_vars PROVE IInv'
    OBVIOUS
  <2>1. ASSUME NEW r \in Requests, Work(r) \/ Disconnect(r)
        PROVE  IInv'
    BY <2>1, StartStep, ReadRowStep, AskStep, RecordErrorStep, RecordAgainStep, WriteGrantStep,
       RereadStep, CallStep, DisconnectStep DEF Work
  <2>2. CASE ReconnectExchange \/ ReconnectWrite \/ Delete
    BY <2>2, ReconnectExchangeStep, ReconnectWriteStep, DeleteStep
  <2>3. ASSUME NEW t \in Tokens, Grow(t)
        PROVE  IInv'
    BY <2>3, GrowStep
  <2>4. CASE UNCHANGED vars
    BY <2>4, Stutter
  <2> QED
    BY <2>1, <2>2, <2>3, <2>4 DEF Next
<1> QED
  BY Initial, <1>1, PTL DEF Spec

\* Every variable keeps its type, whoever refreshes, reconnects or deletes.
THEOREM TypeCorrect == Spec => []TypeOK
<1>1. IInv => TypeOK
  BY DEF IInv
<1> QED
  BY InductiveInvariant, <1>1, PTL

\* For any number of requests: the account is left with a dead refresh token only if
\* its successor was lost between the issuer and the row.
THEOREM DeadOnlyByLoss == Spec => []UsableUnlessLost
<1>1. IInv => UsableUnlessLost
  BY DEF IInv
<1> QED
  BY InductiveInvariant, <1>1, PTL

\* For any number of requests: a retry never sends the token that was refused.
THEOREM RetryHasNewToken == Spec => []NeverRepeatsRefused
<1>1. IInv => NeverRepeatsRefused
  BY DEF IInv
<1> QED
  BY InductiveInvariant, <1>1, PTL

\* No request calls the upstream more than twice.
THEOREM AtMostTwoCalls == Spec => []RetriedOnce
<1>1. IInv => RetriedOnce
  BY DEF IInv, Counted, RetriedOnce, At
<1> QED
  BY InductiveInvariant, <1>1, PTL

\* With a rotating issuer the row never mixes two logins.
THEOREM RowNotMixed == Spec => []RowOfOneLogin
<1>1. IInv => RowOfOneLogin
  BY DEF IInv
<1> QED
  BY InductiveInvariant, <1>1, PTL
===============================================================================
