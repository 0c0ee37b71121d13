------------------------------ MODULE Provisioning ------------------------------
(***************************************************************************)
(* GET /api/providers creates the built-in lines if they are missing, and  *)
(* turns every custom line but one, the shell, into accounts of the shell. *)
(* It does so with single statements, each of its own, and any number of   *)
(* listings may run; a listing is dropped when its client leaves or the    *)
(* program stops, and ends early with the first error.                     *)
(***************************************************************************)
EXTENDS Naturals, Sequences, FiniteSets, SequencesExt

CONSTANTS
  Listers,     \* clients that list the providers
  Builtins,    \* BUILTIN_OAUTH_PRESET_IDS
  Bases,       \* http(s) base URLs
  Local,       \* a base URL with custom.local
  NoUrl,       \* a base URL that is not http(s)
  Priorities,  \* priorities an operator may ask for
  MaxLines,    \* bounds the custom lines ever created
  MaxEdits,    \* bounds what the operator does
  MaxCuts,     \* bounds the listings dropped before their end
  MaxOverlaps, \* bounds the listings that begin while another one runs
  MaxRows,     \* bounds the accounts with one address under one line
  None

ASSUME ConstantsAssumption ==
  /\ {MaxLines, MaxEdits, MaxCuts, MaxOverlaps, MaxRows} \subseteq Nat /\ MaxLines > 0
  /\ Listers # {} /\ IsFiniteSet(Builtins) /\ Priorities \subseteq Nat
  /\ {Local, NoUrl, None} \cap Bases = {} /\ Local # NoUrl /\ Local # None /\ NoUrl # None

VARIABLES
  builtin,  \* builtin[b]: the lines of provider b
  lines,    \* lines[i]: the i-th custom line created, or None
  created,  \* the custom lines created so far
  held,     \* held[i][a]: how many accounts with the address a are under line i
  listing   \* listing[c]: what client c's listing is at

rows == <<builtin, lines, created, held>>

VARIABLES
  wanted,    \* wanted[b]: how many endpoints with the address b the operator has made, and not deleted
  homeless,  \* the operator has made an account without an address under a line without one
  touched,   \* the operator has changed accounts while a listing was moving some
  edits,     \* operations of the operator so far
  overlaps,  \* listings so far that began while another one ran
  cuts       \* listings so far that were dropped

vars == <<rows, listing, wanted, homeless, touched, edits, overlaps, cuts>>
-------------------------------------------------------------------------------
LineIds  == 1 .. MaxLines
Urls     == Bases \cup {Local, NoUrl}
\* An account without an address uses its line's; a line's None is the shell's empty one.
\* named says that a line has the shell's name or prefix.  Keys go with their addresses.
Accounts == Urls \cup {None}
Lines    == [base : Accounts, priority : Nat, named : BOOLEAN]
Orphans  == [id : LineIds, base : Accounts]
NoRows   == [a \in Accounts |-> 0]

ASSUME LineAssumption == None \notin Lines

\* is_custom_shell_line
ShellLike(line) == line.named \/ line.base = Local

Idle == [at |-> "idle", missing |-> <<>>, shell |-> 0, todo |-> <<>>, copies |-> NoRows, unnamed |-> {}]

TypeOK ==
  /\ builtin \in [Builtins -> Nat]
  /\ lines   \in [LineIds -> Lines \cup {None}] /\ created \in 0 .. MaxLines
  /\ held    \in [LineIds -> [Accounts -> 0 .. MaxRows]]
  /\ listing \in [Listers -> [at      : {"idle", "builtin", "import", "customs", "create", "clear",
                                         "orphan", "accounts", "copy", "delete", "names", "rename"},
                              missing : Seq(Builtins), shell : 0 .. MaxLines, todo : Seq(Orphans),
                              copies  : [Accounts -> 0 .. MaxRows], unnamed : SUBSET LineIds]]
  /\ wanted \in [Bases -> Nat]
  /\ edits \in 0 .. MaxEdits /\ overlaps \in 0 .. MaxOverlaps /\ cuts \in 0 .. MaxCuts
  /\ homeless \in BOOLEAN /\ touched \in BOOLEAN
  /\ \A i \in LineIds : lines[i] = None => held[i] = NoRows

There == {i \in LineIds : lines[i] # None}

\* Old files may have a custom line of their own, with any address and priority 0.
Init ==
  /\ builtin = [b \in Builtins |-> 0]
  /\ created \in 0 .. 1
  /\ \E base \in Urls :
       lines = [i \in LineIds |-> IF i > created THEN None
                                  ELSE [base |-> base, priority |-> 0, named |-> FALSE]]
  /\ held    = [i \in LineIds |-> NoRows]
  /\ listing = [c \in Listers |-> Idle]
  /\ wanted = [b \in Bases |-> IF \E i \in There : lines[i].base = b THEN 1 ELSE 0]
  /\ homeless = FALSE /\ touched = FALSE /\ edits = 0 /\ overlaps = 0 /\ cuts = 0

At(c, step)  == listing[c].at = step
Go(c, l)     == listing' = [listing EXCEPT ![c] = l]
Goto(c, step) == Go(c, [listing[c] EXCEPT !.at = step])
History      == <<wanted, homeless, touched, edits, overlaps, cuts>>

\* A listing ends with an error.
Fail(c) == Go(c, Idle) /\ UNCHANGED <<rows, History>>
-------------------------------------------------------------------------------
(***************************************************************************)
(* Statements                                                              *)
(***************************************************************************)
\* ORDER BY priority, created_at
Before(i, j) ==
  \/ lines[i].priority < lines[j].priority
  \/ lines[i].priority = lines[j].priority /\ i < j

Ordered(S) ==
  {s \in [1 .. Cardinality(S) -> S] : \A m, n \in DOMAIN s : m < n => Before(s[m], s[n])}

CreateRow(base, priority, named) ==
  /\ created < MaxLines /\ created' = created + 1
  /\ lines' = [lines EXCEPT ![created'] = [base |-> base, priority |-> priority, named |-> named]]

\* next_provider_priority: one more than the greatest.
NextPriorities ==
  IF There = {} THEN {0}
  ELSE {lines[i].priority + 1 : i \in {j \in There : \A k \in There : lines[k].priority <= lines[j].priority}}

\* create_provider_account takes http(s) addresses only.
Accepted(a) == a # NoUrl

Insert(i, a) == held' = [held EXCEPT ![i][a] = @ + 1]

\* Mistake: the accounts of a deleted line stay.
DeleteLine_KeepsAccounts(i) == lines' = [lines EXCEPT ![i] = None] /\ UNCHANGED held

\* DELETE of a line takes its accounts with it.
DeleteLine(i) ==
  /\ lines' = [lines EXCEPT ![i] = None]
  /\ held'  = [held EXCEPT ![i] = NoRows]
-------------------------------------------------------------------------------
(***************************************************************************)
(* ensure_builtin_provider_connections                                     *)
(***************************************************************************)
Begin(c) ==
  /\ At(c, "idle")
  /\ \E order \in [1 .. Cardinality(Builtins) -> Builtins] :
       /\ \A b \in Builtins : \E n \in DOMAIN order : order[n] = b
       /\ Go(c, [Idle EXCEPT !.at = "builtin", !.missing = order])
  /\ IF \E d \in Listers \ {c} : ~At(d, "idle")
     THEN overlaps < MaxOverlaps /\ overlaps' = overlaps + 1
     ELSE UNCHANGED overlaps
  /\ UNCHANGED <<rows, wanted, homeless, touched, edits, cuts>>

\* Mistake: the built-in lines are imported without a look at what there is.
FindBuiltin_Blind(c) ==
  /\ At(c, "builtin")
  /\ Goto(c, IF listing[c].missing = <<>> THEN "customs" ELSE "import")
  /\ UNCHANGED <<rows, History>>

\* find_provider_connection_by_provider
FindBuiltin(c) ==
  /\ At(c, "builtin")
  /\ LET l == listing[c] IN
       IF l.missing = <<>> THEN Goto(c, "customs")
       ELSE IF builtin[Head(l.missing)] > 0
       THEN Go(c, [l EXCEPT !.missing = Tail(@)])
       ELSE Goto(c, "import")
  /\ UNCHANGED <<rows, History>>

CreateBuiltin(c) ==
  /\ At(c, "import")
  /\ builtin' = [builtin EXCEPT ![Head(listing[c].missing)] = @ + 1]
  /\ Go(c, [listing[c] EXCEPT !.at = "builtin", !.missing = Tail(@)])
  /\ UNCHANGED <<lines, created, held, History>>

\* ensure_single_custom_api_line: the first line that looks like the shell is the shell,
\* and the others are orphans.
Customs(c) ==
  /\ At(c, "customs")
  /\ \E order \in Ordered(There) :
       LET Shells == {n \in DOMAIN order : ShellLike(lines[order[n]])}
           First  == CHOOSE n \in Shells : \A m \in Shells : n <= m
           Rest   == IF Shells = {} THEN order ELSE RemoveAt(order, First)
       IN  Go(c, [listing[c] EXCEPT
              !.at    = IF Shells = {} THEN "create" ELSE "clear",
              !.shell = IF Shells = {} THEN 0 ELSE order[First],
              !.todo  = [n \in DOMAIN Rest |->
                           [id |-> Rest[n], base |-> lines[Rest[n]].base]]])
  /\ UNCHANGED <<rows, History>>

CreateShell(c) ==
  /\ At(c, "create")
  /\ CreateRow(None, 100, TRUE)
  /\ Go(c, [listing[c] EXCEPT !.at = "orphan", !.shell = created'])
  /\ UNCHANGED <<builtin, held, History>>

\* The shell never shows a custom.local address.
ClearBase(c) ==
  /\ At(c, "clear")
  /\ LET i == listing[c].shell IN
       lines' = IF lines[i] # None /\ lines[i].base = Local THEN [lines EXCEPT ![i].base = None] ELSE lines
  /\ Goto(c, "orphan")
  /\ UNCHANGED <<builtin, created, held, History>>

\* An account of the shell, if it is taken and the shell is still there.
Add(c, a, next) ==
  IF Accepted(a) /\ lines[listing[c].shell] # None
  THEN /\ held[listing[c].shell][a] < MaxRows
       /\ Insert(listing[c].shell, a)
       /\ Go(c, next)
       /\ UNCHANGED <<builtin, lines, created, History>>
  ELSE Fail(c)

\* The orphan's own address becomes an account.
MoveLine(c) ==
  /\ At(c, "orphan")
  /\ LET l == listing[c] IN
       IF l.todo = <<>> THEN Goto(c, "names") /\ UNCHANGED <<rows, History>>
       ELSE IF Head(l.todo).base \in {None, Local}
       THEN Goto(c, "accounts") /\ UNCHANGED <<rows, History>>
       ELSE Add(c, Head(l.todo).base, [l EXCEPT !.at = "accounts"])

ListAccounts(c) ==
  /\ At(c, "accounts")
  /\ Go(c, [listing[c] EXCEPT !.at = "copy", !.copies = held[Head(listing[c].todo).id]])
  /\ UNCHANGED <<rows, History>>

\* Mistake: an account that used the orphan's address is copied without one.
CopyAccount_OwnAddress(c) ==
  /\ At(c, "copy")
  /\ LET l == listing[c] IN
       IF l.copies = NoRows THEN Goto(c, "delete") /\ UNCHANGED <<rows, History>>
       ELSE \E a \in Accounts : l.copies[a] > 0 /\ Add(c, a, [l EXCEPT !.copies[a] = @ - 1])

\* The orphan's accounts are copied one by one, with its address if they have none.
CopyAccount(c) ==
  /\ At(c, "copy")
  /\ LET l == listing[c] IN
       IF l.copies = NoRows THEN Goto(c, "delete") /\ UNCHANGED <<rows, History>>
       ELSE \E a \in Accounts :
              /\ l.copies[a] > 0
              /\ Add(c, IF a = None THEN Head(l.todo).base ELSE a, [l EXCEPT !.copies[a] = @ - 1])

\* Mistake: a line is not deleted while it has accounts.
DeleteOrphan_NoCascade(c) ==
  /\ At(c, "delete")
  /\ IF held[Head(listing[c].todo).id] = NoRows
     THEN /\ DeleteLine(Head(listing[c].todo).id)
          /\ Go(c, [listing[c] EXCEPT !.at = "orphan", !.todo = Tail(@)])
          /\ UNCHANGED <<builtin, created, History>>
     ELSE Fail(c)

DeleteOrphan(c) ==
  /\ At(c, "delete")
  /\ DeleteLine(Head(listing[c].todo).id)
  /\ Go(c, [listing[c] EXCEPT !.at = "orphan", !.todo = Tail(@)])
  /\ UNCHANGED <<builtin, created, History>>

\* normalize_builtin_line_names: every custom line there is now gets the shell's name.
ListNames(c) ==
  /\ At(c, "names")
  /\ Go(c, [listing[c] EXCEPT !.at = "rename", !.unnamed = {i \in There : ~lines[i].named}])
  /\ UNCHANGED <<rows, History>>

Rename(c) ==
  /\ At(c, "rename")
  /\ LET l == listing[c] IN
       IF l.unnamed = {} THEN Go(c, Idle) /\ UNCHANGED lines
       ELSE \E i \in l.unnamed :
              /\ lines' = IF lines[i] # None THEN [lines EXCEPT ![i].named = TRUE] ELSE lines
              /\ Go(c, [l EXCEPT !.unnamed = @ \ {i}])
  /\ UNCHANGED <<builtin, created, held, History>>

Step(c) ==
  \/ Begin(c) \/ FindBuiltin(c) \/ CreateBuiltin(c) \/ Customs(c) \/ CreateShell(c) \/ ClearBase(c)
  \/ MoveLine(c) \/ ListAccounts(c) \/ CopyAccount(c) \/ DeleteOrphan(c) \/ ListNames(c) \/ Rename(c)

\* The client leaves, or the program stops.
Drop(c) ==
  /\ ~At(c, "idle") /\ cuts < MaxCuts /\ cuts' = cuts + 1
  /\ Go(c, Idle)
  /\ UNCHANGED <<rows, wanted, homeless, touched, edits, overlaps>>
-------------------------------------------------------------------------------
(***************************************************************************)
(* The operator                                                            *)
(***************************************************************************)
\* POST /api/providers takes any address; without a priority the line comes last.
CreateLine ==
  /\ \E base \in Urls, named \in BOOLEAN, p \in Priorities \cup NextPriorities :
       /\ CreateRow(base, p, named)
       /\ wanted' = [b \in Bases |-> wanted[b] + IF b = base THEN 1 ELSE 0]
  /\ UNCHANGED <<builtin, held, homeless, touched>>

Moving == \E c \in Listers : listing[c].at \in {"create", "clear", "orphan", "accounts", "copy", "delete"}

\* Requests to an account under line i go to its address, or to the line's.
Address(i, a) == IF a = None THEN lines[i].base ELSE a

\* POST /api/provider-accounts
CreateAccount ==
  /\ \E i \in There, a \in Accounts :
       /\ Accepted(a) /\ held[i][a] < MaxRows /\ Insert(i, a)
       /\ wanted' = [b \in Bases |-> wanted[b] + IF b = Address(i, a) THEN 1 ELSE 0]
       /\ homeless' = (homeless \/ (a = None /\ lines[i].base \notin Bases))
  /\ touched' = (touched \/ Moving)
  /\ UNCHANGED <<builtin, lines, created>>

DeleteAccount ==
  /\ \E i \in There, a \in Accounts :
       /\ held[i][a] > 0 /\ held' = [held EXCEPT ![i][a] = @ - 1]
       /\ wanted' = [b \in Bases |-> wanted[b] - IF b = Address(i, a) /\ wanted[b] > 0 THEN 1 ELSE 0]
  /\ touched' = (touched \/ Moving)
  /\ UNCHANGED <<builtin, lines, created, homeless>>

Operator ==
  /\ edits < MaxEdits /\ edits' = edits + 1
  /\ CreateLine \/ CreateAccount \/ DeleteAccount
  /\ UNCHANGED <<listing, overlaps, cuts>>

Next == Operator \/ \E c \in Listers : Step(c) \/ Drop(c)

\* Clients list the providers again and again; the database answers.
Spec     == Init /\ [][Next]_vars
FairSpec == Init /\ [][Next]_vars /\ \A c \in Listers : WF_vars(Step(c))
-------------------------------------------------------------------------------
(***************************************************************************)
(* Properties                                                              *)
(***************************************************************************)
\* The lines and accounts with the address b, of line i and of all lines.
Worth(i, b) ==
  IF lines[i] = None THEN 0
  ELSE held[i][b] + IF lines[i].base = b THEN 1 + held[i][None] ELSE 0

Total(worth) ==
  LET upto[n \in 0 .. MaxLines] == IF n = 0 THEN 0 ELSE upto[n - 1] + worth[n]
  IN  upto[MaxLines]

Endpoints(b) == Total([i \in LineIds |-> Worth(i, b)])

\* A listing alone loses none of the endpoints it moves, wherever it fails or is dropped.
EndpointsKept == overlaps > 0 \/ touched \/ \A b \in Bases : Endpoints(b) >= wanted[b]

\* When none was dropped, it leaves none of them twice, and it creates no built-in line
\* twice.  An account without any address gets that of the line it is moved to.
NothingTwice ==
  overlaps > 0 \/
    /\ \A b \in Builtins : builtin[b] <= 1
    /\ (cuts = 0 /\ ~touched /\ ~homeless /\ \A c \in Listers : At(c, "idle"))
         => \A b \in Bases : Endpoints(b) = wanted[b]

\* In the end one custom line is left, whatever was dropped or ran side by side before,
\* unless a line has an address no account can have.
EventuallySingle == <>[](\E i \in There : lines[i].base = NoUrl) \/ <>[](Cardinality(There) = 1)
===============================================================================
