------------------------- MODULE Provisioning_proofs --------------------------
(***************************************************************************)
(* Theorems about Provisioning, for any clients, lines and addresses.      *)
(*                                                                         *)
(* EndpointsKept compares a sum over the lines, Endpoints, with what the   *)
(* operator has made, wanted.  While a listing copies an orphan, some of   *)
(* its endpoints are there twice: Twice counts them, from the copies the   *)
(* listing has still to make.  Balanced says that the sum is what is       *)
(* wanted and what is there twice; a listing that is dropped leaves the    *)
(* second part behind, so that = becomes >=.  That Twice is never negative *)
(* needs Uncopied, and that copies go to another line than the one they    *)
(* are made of needs Current, which holds of a listing that runs alone.    *)
(* Homed is for accounts without an address: the shell may have no address *)
(* to lend them.                                                           *)
(***************************************************************************)
EXTENDS Provisioning, FiniteSetTheorems, WellFoundedInduction, TLAPS
-------------------------------------------------------------------------------
(***************************************************************************)
(* Sums over the lines                                                     *)
(***************************************************************************)
LEMMA Leasts ==
  ASSUME NEW T \in SUBSET Nat, T # {}
  PROVE  \E j \in T : \A i \in T : j <= i
<1> DEFINE R == OpToRel(<, Nat)
<1>1. IsWellFoundedOn(R, Nat)
  BY NatLessThanWellFounded
<1>2. \A i, j \in Nat : i < j => <<i, j>> \in R
  BY DEF OpToRel
<1> HIDE DEF R
<1>3. PICK j \in T : \A i \in T : ~(<<i, j>> \in R)
  BY <1>1, WFMin
<1>4. \A i \in T : i \in Nat /\ j \in Nat /\ ~(i < j)
  BY <1>2, <1>3
<1> QED
  BY <1>4

\* Induction up to a number, over a set instead of a predicate.
LEMMA UpTo ==
  ASSUME NEW N \in Nat, NEW S, 0 \in S, \A n \in 1 .. N : n - 1 \in S => n \in S
  PROVE  0 .. N \subseteq S
<1> SUFFICES ASSUME NEW k \in 0 .. N, k \notin S PROVE FALSE
  OBVIOUS
<1> DEFINE T == (0 .. N) \ S
<1>1. PICK j \in T : \A i \in T : j <= i
  <2>1. T \in SUBSET Nat /\ T # {}
    OBVIOUS
  <2> HIDE DEF T
  <2> QED
    BY <2>1, Leasts
<1>2. j \in 1 .. N /\ j - 1 \in 0 .. N
  BY <1>1
<1>3. j - 1 \notin T
  BY <1>1, <1>2
<1> QED
  BY <1>1, <1>2, <1>3

\* u holds the sums of the first numbers.
Sums(worth, u) ==
  u = [n \in 0 .. MaxLines |-> IF n = 0 THEN 0 ELSE u[n - 1] + worth[n]]

LEMMA SumsExist == ASSUME NEW worth PROVE \E u : Sums(worth, u)
<1> DEFINE Some(m) ==
      \E u : u = [n \in 0 .. m |-> IF n = 0 THEN 0 ELSE u[n - 1] + worth[n]]
    S == {m \in 0 .. MaxLines : Some(m)}
<1>1. MaxLines \in Nat
  BY ConstantsAssumption
<1>2. Some(0)
  <2> DEFINE u == [n \in 0 .. 0 |-> 0]
  <2>1. u = [n \in 0 .. 0 |-> IF n = 0 THEN 0 ELSE u[n - 1] + worth[n]]
    OBVIOUS
  <2> HIDE DEF u
  <2> QED
    BY <2>1
<1>3. ASSUME NEW m \in 1 .. MaxLines, Some(m - 1) PROVE Some(m)
  <2>1. PICK u : u = [n \in 0 .. m - 1 |-> IF n = 0 THEN 0 ELSE u[n - 1] + worth[n]]
    BY <1>3
  <2> DEFINE v == [n \in 0 .. m |-> IF n = m THEN u[m - 1] + worth[m] ELSE u[n]]
  <2>2. \A n \in 0 .. m : v[n] = IF n = m THEN u[m - 1] + worth[m] ELSE u[n]
    OBVIOUS
  <2>3. \A n \in 0 .. m - 1 : u[n] = IF n = 0 THEN 0 ELSE u[n - 1] + worth[n]
    BY <2>1
  <2>4. \A n \in 0 .. m : v[n] = IF n = 0 THEN 0 ELSE v[n - 1] + worth[n]
    <3> SUFFICES ASSUME NEW n \in 0 .. m
                 PROVE  v[n] = IF n = 0 THEN 0 ELSE v[n - 1] + worth[n]
      OBVIOUS
    <3> HIDE DEF v
    <3>1. CASE n = m
      <4>1. m # 0 /\ m - 1 \in 0 .. m /\ m - 1 # m /\ m \in 0 .. m
        OBVIOUS
      <4> QED
        BY <2>2, <3>1, <4>1
    <3>2. CASE n = 0
      BY <2>2, <2>3, <3>2
    <3>3. CASE n # m /\ n # 0
      <4>1. n \in 0 .. m - 1 /\ n - 1 \in 0 .. m /\ n - 1 # m
        BY <3>3
      <4> QED
        BY <2>2, <2>3, <3>3, <4>1
    <3> QED
      BY <3>1, <3>2, <3>3
  <2>5. v = [n \in 0 .. m |-> IF n = 0 THEN 0 ELSE v[n - 1] + worth[n]]
    <3>1. v = [n \in 0 .. m |-> v[n]]
      OBVIOUS
    <3> HIDE DEF v
    <3> QED
      BY <2>4, <3>1
  <2> HIDE DEF v
  <2> QED
    BY <2>5
<1> HIDE DEF Some
<1>4. 0 \in S /\ \A n \in 1 .. MaxLines : n - 1 \in S => n \in S
  BY <1>1, <1>2, <1>3
<1>5. MaxLines \in S
  <2> HIDE DEF S
  <2> QED
    BY <1>1, <1>4, UpTo
<1> QED
  BY <1>5 DEF Some, Sums

LEMMA TotalIsSum == ASSUME NEW worth PROVE \E u : Sums(worth, u) /\ Total(worth) = u[MaxLines]
<1> DEFINE u == CHOOSE w : w = [n \in 0 .. MaxLines |-> IF n = 0 THEN 0 ELSE w[n - 1] + worth[n]]
<1>1. Sums(worth, u)
  BY SumsExist DEF Sums
<1>2. Total(worth) = u[MaxLines]
  BY DEF Total
<1> QED
  BY <1>1, <1>2

Worths == [LineIds -> Nat]

\* The sums of numbers are numbers, and none is greater than its sum.
LEMMA TotalBounds ==
  ASSUME NEW f \in Worths
  PROVE  Total(f) \in Nat /\ \A k \in LineIds : f[k] <= Total(f)
<1>1. MaxLines \in Nat
  BY ConstantsAssumption
<1>2. PICK u : Sums(f, u) /\ Total(f) = u[MaxLines]
  BY TotalIsSum
<1>3. \A n \in 0 .. MaxLines : u[n] = IF n = 0 THEN 0 ELSE u[n - 1] + f[n]
  BY <1>2 DEF Sums
<1> DEFINE S == {n \in 0 .. MaxLines : u[n] \in Nat /\ \A k \in 1 .. n : f[k] <= u[n]}
<1>4. 0 \in S
  BY <1>1, <1>3
<1>5. ASSUME NEW n \in 1 .. MaxLines, n - 1 \in S PROVE n \in S
  <2>1. u[n] = u[n - 1] + f[n] /\ f[n] \in Nat /\ u[n - 1] \in Nat
    BY <1>3, <1>5 DEF Worths, LineIds
  <2>2. ASSUME NEW k \in 1 .. n PROVE f[k] <= u[n]
    <3>1. k = n \/ k \in 1 .. n - 1
      OBVIOUS
    <3>2. f[k] \in Nat
      BY <1>1 DEF Worths, LineIds
    <3> QED
      BY <1>5, <2>1, <3>1, <3>2
  <2> QED
    BY <2>1, <2>2
<1> HIDE DEF S
<1>6. MaxLines \in S
  BY <1>1, <1>4, <1>5, UpTo
<1> QED
  BY <1>2, <1>6 DEF S, LineIds

\* A sum changes by what one of its numbers changes by.
LEMMA TotalChange ==
  ASSUME NEW f \in Worths, NEW g \in Worths, NEW k \in LineIds,
         \A i \in LineIds \ {k} : g[i] = f[i]
  PROVE  Total(g) + f[k] = Total(f) + g[k]
<1>1. MaxLines \in Nat /\ k \in 1 .. MaxLines
  BY ConstantsAssumption DEF LineIds
<1>2. PICK u : Sums(f, u) /\ Total(f) = u[MaxLines]
  BY TotalIsSum
<1>3. PICK v : Sums(g, v) /\ Total(g) = v[MaxLines]
  BY TotalIsSum
<1>4. \A n \in 0 .. MaxLines : u[n] = IF n = 0 THEN 0 ELSE u[n - 1] + f[n]
  BY <1>2 DEF Sums
<1>5. \A n \in 0 .. MaxLines : v[n] = IF n = 0 THEN 0 ELSE v[n - 1] + g[n]
  BY <1>3 DEF Sums
<1> DEFINE S == {n \in 0 .. MaxLines : /\ u[n] \in Nat /\ v[n] \in Nat
                                       /\ n < k => u[n] = v[n]
                                       /\ n >= k => v[n] + f[k] = u[n] + g[k]}
<1>6. 0 \in S
  BY <1>1, <1>4, <1>5
<1>7. ASSUME NEW n \in 1 .. MaxLines, n - 1 \in S PROVE n \in S
  <2>1. /\ u[n] = u[n - 1] + f[n] /\ v[n] = v[n - 1] + g[n]
        /\ f[n] \in Nat /\ g[n] \in Nat /\ f[k] \in Nat /\ g[k] \in Nat
        /\ n # k => f[n] = g[n]
    BY <1>4, <1>5 DEF Worths, LineIds
  <2>2. CASE n < k
    BY <1>1, <1>7, <2>1, <2>2
  <2>3. CASE n = k
    BY <1>1, <1>7, <2>1, <2>3
  <2>4. CASE n > k
    BY <1>1, <1>7, <2>1, <2>4
  <2> QED
    BY <1>1, <2>2, <2>3, <2>4
<1> HIDE DEF S
<1>8. MaxLines \in S
  BY <1>1, <1>6, <1>7, UpTo
<1> QED
  BY <1>1, <1>2, <1>3, <1>8 DEF S
-------------------------------------------------------------------------------
(***************************************************************************)
(* The inductive invariant                                                 *)
(***************************************************************************)
Steps   == {"idle", "builtin", "import", "customs", "create", "clear",
            "orphan", "accounts", "copy", "delete", "names", "rename"}
Collapsing == {"create", "clear", "orphan", "accounts", "copy", "delete"}
Shelled    == Collapsing \ {"create"}
OnOrphan   == {"accounts", "copy", "delete"}

Listing == [at      : Steps, missing : Seq(Builtins), shell : 0 .. MaxLines, todo : Seq(Orphans),
            copies  : [Accounts -> 0 .. MaxRows], unnamed : SUBSET LineIds]

\* What a listing's record has at each point.
Staged(l) ==
  /\ l.at = "import" => l.missing # <<>>
  /\ l.at \in Shelled => l.shell \in LineIds
  /\ l.at \in OnOrphan => l.todo # <<>> /\ Head(l.todo).base # NoUrl
  /\ l.at \in {"copy", "delete"} => l.copies[NoUrl] = 0
  /\ l.at = "delete" => l.copies = NoRows

Rows ==
  /\ builtin \in [Builtins -> Nat]
  /\ lines   \in [LineIds -> Lines \cup {None}] /\ created \in 0 .. MaxLines
  /\ held    \in [LineIds -> [Accounts -> 0 .. MaxRows]]

\* Lines are made in order, a line that is not there has no accounts, and no account has
\* an address that is not http(s).
Tidy ==
  /\ \A i \in LineIds : i > created => lines[i] = None
  /\ \A i \in LineIds : lines[i] = None => held[i] = NoRows
  /\ \A i \in LineIds : held[i][NoUrl] = 0

Listings == listing \in [Listers -> Listing] /\ \A c \in Listers : Staged(listing[c])

Counts ==
  /\ wanted \in [Bases -> Nat]
  /\ edits \in 0 .. MaxEdits /\ overlaps \in 0 .. MaxOverlaps /\ cuts \in 0 .. MaxCuts
  /\ homeless \in BOOLEAN /\ touched \in BOOLEAN

\* No listing runs but c's.
Alone(c) == \A d \in Listers \ {c} : At(d, "idle")

\* What a listing that runs alone has read of the lines still holds, and its orphans are
\* different lines.
Current(l) ==
  /\ l.at \in Shelled => l.shell \in There
  /\ l.at \in Collapsing =>
       /\ \A n \in 1 .. Len(l.todo) : /\ l.todo[n].id \in There \ {l.shell}
                                      /\ lines[l.todo[n].id].base = l.todo[n].base
       /\ \A m, n \in 1 .. Len(l.todo) : m # n => l.todo[m].id # l.todo[n].id
  /\ l.at = "import" => builtin[Head(l.missing)] = 0

\* It has copied no more accounts than there are.
Uncopied(l) ==
  l.at \in {"copy", "delete"} =>
    \A a \in Accounts : l.copies[a] <= held[Head(l.todo).id][a]

\* The endpoints with the address b that are under the shell and still under the orphan.
Twice(l, b) ==
  LET o == Head(l.todo)
      copied(a) == held[o.id][a] - (IF l.at = "accounts" THEN held[o.id][a] ELSE l.copies[a])
  IN  IF l.at \in OnOrphan
      THEN copied(b) + IF o.base = b THEN 1 + copied(None) ELSE 0
      ELSE 0

\* No account without an address is under a line without one.
Homed == \A i \in There : lines[i].base \notin Bases => held[i][None] = 0

Serial ==
  overlaps = 0 =>
    /\ \A c \in Listers : ~At(c, "idle") => Alone(c) /\ Current(listing[c])
    /\ \A b \in Builtins : builtin[b] <= 1

\* While a listing runs alone, the endpoints are those the operator wants and those it has
\* just copied.
Balanced ==
  overlaps = 0 /\ ~touched =>
    /\ \A c \in Listers : Uncopied(listing[c])
    /\ \A c \in Listers : Alone(c) => \A b \in Bases :
         /\ Endpoints(b) >= wanted[b] + Twice(listing[c], b)
         /\ cuts = 0 /\ ~homeless => Endpoints(b) = wanted[b] + Twice(listing[c], b)
    /\ ~homeless => Homed

IInv == Rows /\ Tidy /\ Listings /\ Counts /\ Serial /\ Balanced
-------------------------------------------------------------------------------
(***************************************************************************)
(* What the steps have in common                                           *)
(***************************************************************************)
LEMMA Facts ==
  /\ MaxLines \in Nat \ {0} /\ MaxRows \in Nat /\ MaxEdits \in Nat /\ MaxCuts \in Nat
  /\ MaxOverlaps \in Nat
  /\ Local \notin Bases /\ NoUrl \notin Bases /\ None \notin Bases
  /\ Local # NoUrl /\ Local # None /\ NoUrl # None
  /\ Bases \subseteq Accounts /\ {Local, NoUrl, None} \subseteq Accounts
BY ConstantsAssumption DEF Accounts, Urls

LEMMA IdleFacts == Idle \in Listing /\ Staged(Idle) /\ Idle.at = "idle"
<1>1. NoRows \in [Accounts -> 0 .. MaxRows] /\ 0 \in 0 .. MaxLines
  BY Facts DEF NoRows
<1>2. <<>> \in Seq(Builtins) /\ <<>> \in Seq(Orphans)
  OBVIOUS
<1> QED
  BY <1>1, <1>2 DEF Idle, Listing, Steps, Staged, Shelled, Collapsing, OnOrphan

LEMMA WorthIsNat ==
  ASSUME Rows, NEW i \in LineIds, NEW b \in Bases
  PROVE  Worth(i, b) \in Nat
<1>1. held[i][b] \in Nat /\ held[i][None] \in Nat
  BY Facts DEF Rows
<1> QED
  BY <1>1 DEF Worth

LEMMA EndpointsBound ==
  ASSUME Rows, NEW b \in Bases
  PROVE  Endpoints(b) \in Nat /\ \A i \in LineIds : Worth(i, b) <= Endpoints(b)
<1> DEFINE f == [i \in LineIds |-> Worth(i, b)]
<1>1. f \in Worths
  BY WorthIsNat DEF Worths
<1>2. Endpoints(b) = Total(f)
  BY DEF Endpoints
<1>3. \A i \in LineIds : f[i] = Worth(i, b)
  OBVIOUS
<1> HIDE DEF f
<1> QED
  BY <1>1, <1>2, <1>3, TotalBounds

LEMMA EndpointsLater ==
  ASSUME Rows', NEW b \in Bases
  PROVE  Endpoints(b)' \in Nat /\ \A i \in LineIds : Worth(i, b)' \in Nat
<1> DEFINE g == [i \in LineIds |-> Worth(i, b)']
<1>1. ASSUME NEW i \in LineIds PROVE Worth(i, b)' \in Nat
  <2>1. held'[i][b] \in Nat /\ held'[i][None] \in Nat
    BY Facts DEF Rows
  <2> QED
    BY <2>1 DEF Worth
<1>2. g \in Worths /\ Endpoints(b)' = Total(g)
  BY <1>1 DEF Worths, Endpoints, Total
<1> HIDE DEF g
<1> QED
  BY <1>1, <1>2, TotalBounds

\* A change of one line.
LEMMA EndpointsChange ==
  ASSUME Rows, Rows', NEW b \in Bases, NEW k \in LineIds,
         \A i \in LineIds \ {k} : Worth(i, b)' = Worth(i, b)
  PROVE  Endpoints(b)' + Worth(k, b) = Endpoints(b) + Worth(k, b)'
<1> DEFINE f == [i \in LineIds |-> Worth(i, b)]
           g == [i \in LineIds |-> Worth(i, b)']
<1>1. f \in Worths
  BY WorthIsNat DEF Worths
<1>2. \A i \in LineIds : Worth(i, b)' \in Nat
  BY EndpointsLater
<1>3. g \in Worths
  BY <1>2 DEF Worths
<1>4. Endpoints(b) = Total(f) /\ Endpoints(b)' = Total(g)
  BY DEF Endpoints, Total
<1>5. \A i \in LineIds : f[i] = Worth(i, b) /\ g[i] = Worth(i, b)'
  OBVIOUS
<1> HIDE DEF f, g
<1>6. \A i \in LineIds \ {k} : g[i] = f[i]
  BY <1>5
<1>7. Total(g) + f[k] = Total(f) + g[k]
  BY <1>1, <1>3, <1>6, TotalChange
<1> QED
  BY <1>4, <1>5, <1>7

LEMMA EndpointsSame ==
  ASSUME NEW b \in Bases, \A i \in LineIds : Worth(i, b)' = Worth(i, b)
  PROVE  Endpoints(b)' = Endpoints(b)
<1> DEFINE f == [i \in LineIds |-> Worth(i, b)]
           g == [i \in LineIds |-> Worth(i, b)']
<1>1. Endpoints(b) = Total(f) /\ Endpoints(b)' = Total(g)
  BY DEF Endpoints, Total
<1>2. f = g
  OBVIOUS
<1> QED
  BY <1>1, <1>2

\* The invariant after a step that leaves listing c at l.
Sound(l) ==
  /\ Current(l)
  /\ \A b \in Builtins : builtin[b] <= 1
  /\ ~touched =>
       /\ Uncopied(l)
       /\ \A b \in Bases :
            /\ Endpoints(b) >= wanted[b] + Twice(l, b)
            /\ cuts = 0 /\ ~homeless => Endpoints(b) = wanted[b] + Twice(l, b)
       /\ ~homeless => Homed

LEMMA Steady ==
  ASSUME IInv, NEW c \in Listers, NEW l \in Listing, Staged(l),
         listing' = [listing EXCEPT ![c] = l],
         Rows', Tidy', Counts', overlaps' = 0 => overlaps = 0 /\ Alone(c) /\ Sound(l)'
  PROVE  IInv'
<1>1. listing' \in [Listers -> Listing] /\ listing'[c] = l
      /\ \A d \in Listers \ {c} : listing'[d] = listing[d]
  BY DEF IInv, Listings
<1>2. Listings'
  BY <1>1 DEF IInv, Listings, Staged
<1>3. ASSUME overlaps' = 0
      PROVE  /\ Sound(l)' /\ Alone(c)'
             /\ \A d \in Listers \ {c} : listing'[d].at = "idle"
  BY <1>1, <1>3 DEF Alone, At
<1>4. Serial'
  <2> SUFFICES ASSUME overlaps' = 0 PROVE Serial'
    BY DEF Serial
  <2>1. \A b \in Builtins : builtin'[b] <= 1
    BY <1>3 DEF Sound
  <2>2. ASSUME NEW d \in Listers, ~At(d, "idle")' PROVE Alone(d)' /\ Current(listing[d])'
    <3>1. d = c
      BY <1>3, <2>2 DEF At
    <3> QED
      BY <1>1, <1>3, <3>1 DEF Sound, Current, There
  <2> QED
    BY <2>1, <2>2 DEF Serial
<1>5. Balanced'
  <2> SUFFICES ASSUME overlaps' = 0, ~touched' PROVE Balanced'
    BY DEF Balanced
  <2>1. /\ Uncopied(l)' /\ (~homeless => Homed)'
        /\ \A b \in Bases :
             /\ (Endpoints(b) >= wanted[b] + Twice(l, b))'
             /\ (cuts = 0 /\ ~homeless => Endpoints(b) = wanted[b] + Twice(l, b))'
    BY <1>3 DEF Sound
  <2>2. ASSUME NEW d \in Listers PROVE Uncopied(listing[d])'
    <3>1. CASE d = c
      BY <1>1, <2>1, <3>1 DEF Uncopied
    <3>2. CASE d # c
      BY <1>3, <3>2 DEF Uncopied
    <3> QED
      BY <3>1, <3>2
  <2>3. ASSUME NEW d \in Listers, Alone(d)', NEW b \in Bases
        PROVE  Twice(listing[d], b)' = Twice(l, b)'
    <3>1. CASE d = c
      BY <1>1, <3>1 DEF Twice
    <3>2. CASE d # c
      <4>1. l.at = "idle" /\ listing'[d].at = "idle"
        BY <1>1, <1>3, <2>3, <3>2 DEF Alone, At
      <4> QED
        BY <4>1 DEF Twice, OnOrphan
    <3> QED
      BY <3>1, <3>2
  <2> QED
    BY <2>1, <2>2, <2>3 DEF Balanced
<1> QED
  BY <1>2, <1>4, <1>5 DEF IInv

\* What the invariant says of a listing that is not idle.
LEMMA SoundNow ==
  ASSUME IInv, NEW c \in Listers
  PROVE  /\ listing[c] \in Listing /\ Staged(listing[c])
         /\ overlaps = 0 /\ ~At(c, "idle") => Alone(c) /\ Sound(listing[c])
BY DEF IInv, Listings, Serial, Balanced, Sound

\* A step that changes no row and no history moves a listing from l0 to l: enough for it is
\* that l is current and has copied as much as l0.
LEMMA Moves ==
  ASSUME IInv, NEW c \in Listers, ~At(c, "idle"), NEW l \in Listing, Staged(l),
         listing' = [listing EXCEPT ![c] = l], UNCHANGED rows, UNCHANGED History,
         overlaps = 0 /\ Sound(listing[c]) =>
           /\ Current(l)
           /\ ~touched => Uncopied(l) /\ \A b \in Bases : Twice(l, b) = Twice(listing[c], b)
  PROVE  IInv'
<1>1. Rows' /\ Tidy' /\ Counts'
  BY DEF IInv, Rows, Tidy, Counts, rows, History
<1>2. ASSUME overlaps' = 0 PROVE overlaps = 0 /\ Alone(c) /\ Sound(l)'
  <2>1. overlaps = 0 /\ Alone(c) /\ Sound(listing[c])
    BY <1>2, SoundNow DEF History
  <2>2. \A b \in Bases : Endpoints(b)' = Endpoints(b) /\ Twice(l, b)' = Twice(l, b)
    <3> SUFFICES ASSUME NEW b \in Bases
                 PROVE  Endpoints(b)' = Endpoints(b) /\ Twice(l, b)' = Twice(l, b)
      OBVIOUS
    <3>1. \A i \in LineIds : Worth(i, b)' = Worth(i, b)
      BY DEF Worth, rows
    <3> QED
      BY <3>1, EndpointsSame DEF Twice, rows
  <2>3. Current(l)' /\ (Uncopied(l)' <=> Uncopied(l)) /\ (Homed' <=> Homed)
    BY <1>2, <2>1 DEF Current, Uncopied, Homed, There, rows, History
  <2>4. UNCHANGED <<builtin, wanted, homeless, touched, cuts>>
    BY DEF rows, History
  <2> QED
    BY <2>1, <2>2, <2>3, <2>4 DEF Sound
<1> QED
  BY <1>1, <1>2, Steady

LEMMA FailStep ==
  ASSUME IInv, NEW c \in Listers, ~At(c, "idle"), Fail(c),
         overlaps = 0 /\ Sound(listing[c]) /\ ~touched =>
           \A b \in Bases : Twice(listing[c], b) = 0
  PROVE  IInv'
<1>1. Current(Idle) /\ Uncopied(Idle) /\ \A b \in Bases : Twice(Idle, b) = 0
  BY IdleFacts DEF Current, Uncopied, Twice, Collapsing, Shelled, OnOrphan
<1>2. listing' = [listing EXCEPT ![c] = Idle] /\ UNCHANGED rows /\ UNCHANGED History
  BY DEF Fail, Go
<1> QED
  BY <1>1, <1>2, IdleFacts, Moves

\* Two times nothing is copied.
LEMMA NothingTwiceYet ==
  ASSUME NEW l, l.at \notin OnOrphan
  PROVE  Uncopied(l) /\ \A b \in Bases : Twice(l, b) = 0
BY DEF Uncopied, Twice, OnOrphan
-------------------------------------------------------------------------------
(***************************************************************************)
(* ensure_builtin_provider_connections                                     *)
(***************************************************************************)
LEMMA OrderIsSequence ==
  ASSUME NEW S, IsFiniteSet(S), NEW order \in [1 .. Cardinality(S) -> S]
  PROVE  order \in Seq(S) /\ Len(order) = Cardinality(S) /\ DOMAIN order = 1 .. Len(order)
<1>1. Cardinality(S) \in Nat
  BY FS_CardinalityType
<1> QED
  BY <1>1

LEMMA BeginStep ==
  ASSUME IInv, NEW c \in Listers, Begin(c)
  PROVE  IInv'
<1>1. PICK order \in [1 .. Cardinality(Builtins) -> Builtins] :
        Go(c, [Idle EXCEPT !.at = "builtin", !.missing = order])
  BY DEF Begin
<1> DEFINE l == [Idle EXCEPT !.at = "builtin", !.missing = order]
<1>2. order \in Seq(Builtins)
  BY OrderIsSequence, ConstantsAssumption
<1>3. l \in Listing /\ l.at = "builtin"
  BY <1>2, IdleFacts DEF Listing, Steps
<1>4. listing' = [listing EXCEPT ![c] = l] /\ At(c, "idle")
  BY <1>1 DEF Go, Begin
<1> HIDE DEF l
<1>5. Staged(l) /\ Current(l)
  BY <1>3 DEF Staged, Current, Shelled, Collapsing, OnOrphan
<1>6. Uncopied(l) /\ \A b \in Bases : Twice(l, b) = 0 /\ Twice(listing[c], b) = 0
  BY <1>3, <1>4, NothingTwiceYet DEF OnOrphan, At
<1>7. UNCHANGED <<rows, wanted, homeless, touched, edits, cuts>>
  BY DEF Begin
<1>8. /\ overlaps' \in 0 .. MaxOverlaps
      /\ overlaps' = 0 => overlaps = 0 /\ Alone(c)
  BY Facts DEF Begin, IInv, Counts, Alone
<1>9. Rows' /\ Tidy' /\ Counts'
  BY <1>7, <1>8 DEF IInv, Rows, Tidy, Counts, rows
<1>10. ASSUME overlaps' = 0 PROVE Sound(l)'
  <2>1. overlaps = 0 /\ Alone(c)
    BY <1>8, <1>10
  <2>2. \A b \in Bases : Endpoints(b)' = Endpoints(b) /\ Twice(l, b)' = 0
    <3> SUFFICES ASSUME NEW b \in Bases
                 PROVE  Endpoints(b)' = Endpoints(b) /\ Twice(l, b)' = 0
      OBVIOUS
    <3>1. \A i \in LineIds : Worth(i, b)' = Worth(i, b)
      BY <1>7 DEF Worth, rows
    <3> QED
      BY <3>1, <1>3, EndpointsSame DEF Twice, OnOrphan
  <2>3. Current(l)' /\ Uncopied(l)' /\ (Homed' <=> Homed)
    BY <1>3, <1>7 DEF Current, Uncopied, Homed, There, Collapsing, Shelled, rows
  <2>4. (\A b \in Builtins : builtin[b] <= 1) /\ UNCHANGED <<builtin, wanted, homeless, touched, cuts>>
    BY <1>7, <2>1 DEF IInv, Serial, rows
  <2>5. ASSUME ~touched
        PROVE  /\ ~homeless => Homed
               /\ \A b \in Bases : /\ Endpoints(b) >= wanted[b] + Twice(listing[c], b)
                                   /\ cuts = 0 /\ ~homeless =>
                                        Endpoints(b) = wanted[b] + Twice(listing[c], b)
    BY <2>1, <2>5 DEF IInv, Balanced
  <2> QED
    BY <1>6, <2>2, <2>3, <2>4, <2>5 DEF Sound
<1> QED
  BY <1>3, <1>4, <1>5, <1>8, <1>9, <1>10, Steady

LEMMA FindBuiltinStep ==
  ASSUME IInv, NEW c \in Listers, FindBuiltin(c)
  PROVE  IInv'
<1> DEFINE l0 == listing[c]
<1>1. /\ l0 \in Listing /\ l0.at = "builtin" /\ ~At(c, "idle") /\ builtin \in [Builtins -> Nat]
      /\ UNCHANGED rows /\ UNCHANGED History
  BY SoundNow DEF FindBuiltin, At, IInv, Rows
<1>2. PICK l \in Listing :
        /\ listing' = [listing EXCEPT ![c] = l] /\ l.at \in {"builtin", "customs", "import"}
        /\ l.at = "import" => l.missing # <<>> /\ builtin[Head(l.missing)] = 0
  <2>1. CASE l0.missing = <<>>
    <3>1. [l0 EXCEPT !.at = "customs"] \in Listing
      BY <1>1 DEF Listing, Steps
    <3> QED
      BY <1>1, <2>1, <3>1 DEF FindBuiltin, Goto, Go, Listing
  <2>2. CASE l0.missing # <<>> /\ builtin[Head(l0.missing)] > 0
    <3>1. Tail(l0.missing) \in Seq(Builtins)
      BY <1>1, <2>2 DEF Listing
    <3>2. [l0 EXCEPT !.missing = Tail(@)] \in Listing
      BY <1>1, <3>1 DEF Listing
    <3> QED
      BY <1>1, <2>2, <3>2 DEF FindBuiltin, Go, Listing
  <2>3. CASE l0.missing # <<>> /\ ~(builtin[Head(l0.missing)] > 0)
    <3>1. [l0 EXCEPT !.at = "import"] \in Listing /\ [l0 EXCEPT !.at = "import"].missing = l0.missing
      BY <1>1 DEF Listing, Steps
    <3>2. builtin[Head(l0.missing)] = 0
      BY <1>1, <2>3 DEF Listing
    <3> QED
      BY <1>1, <2>3, <3>1, <3>2 DEF FindBuiltin, Goto, Go, Listing
  <2> QED
    BY <2>1, <2>2, <2>3
<1>3. Staged(l) /\ Current(l)
  BY <1>2 DEF Staged, Current, Shelled, Collapsing, OnOrphan
<1>4. Uncopied(l) /\ \A b \in Bases : Twice(l, b) = 0 /\ Twice(l0, b) = 0
  BY <1>1, <1>2, NothingTwiceYet DEF OnOrphan
<1> QED
  BY <1>1, <1>2, <1>3, <1>4, Moves

LEMMA CreateBuiltinStep ==
  ASSUME IInv, NEW c \in Listers, CreateBuiltin(c)
  PROVE  IInv'
<1> DEFINE l0 == listing[c]
<1>1. /\ l0 \in Listing /\ l0.at = "import" /\ ~At(c, "idle") /\ l0.missing # <<>>
      /\ builtin \in [Builtins -> Nat]
  BY SoundNow DEF CreateBuiltin, At, IInv, Rows, Staged
<1>2. Head(l0.missing) \in Builtins /\ Tail(l0.missing) \in Seq(Builtins)
  BY <1>1 DEF Listing
<1>3. PICK l \in Listing :
        l.at = "builtin" /\ l = [l0 EXCEPT !.at = "builtin", !.missing = Tail(@)]
  <2> DEFINE m == [l0 EXCEPT !.at = "builtin", !.missing = Tail(@)]
  <2>1. m \in Listing /\ m.at = "builtin"
    BY <1>1, <1>2 DEF Listing, Steps
  <2> QED
    BY <2>1
<1>4. /\ builtin' = [builtin EXCEPT ![Head(l0.missing)] = @ + 1]
      /\ listing' = [listing EXCEPT ![c] = l] /\ UNCHANGED <<lines, created, held, History>>
  BY <1>3 DEF CreateBuiltin, Go
<1>5. Staged(l) /\ Current(l)'
  BY <1>3 DEF Staged, Current, Shelled, Collapsing, OnOrphan
<1>6. Rows' /\ Tidy' /\ Counts'
  BY <1>1, <1>2, <1>4, SMTT(30) DEF IInv, Rows, Tidy, Counts, History
<1>7. ASSUME overlaps' = 0 PROVE overlaps = 0 /\ Alone(c) /\ Sound(l)'
  <2>1. overlaps = 0 /\ Alone(c) /\ Sound(l0)
    BY <1>1, <1>4, <1>7, SoundNow DEF History
  <2>2. \A b \in Builtins : builtin'[b] <= 1
    BY <1>1, <1>2, <1>4, <2>1 DEF Sound, Current
  <2>3. \A b \in Bases : Endpoints(b)' = Endpoints(b) /\ Twice(l, b)' = 0 /\ Twice(l0, b) = 0
    <3> SUFFICES ASSUME NEW b \in Bases
                 PROVE  Endpoints(b)' = Endpoints(b) /\ Twice(l, b)' = 0 /\ Twice(l0, b) = 0
      OBVIOUS
    <3>1. \A i \in LineIds : Worth(i, b)' = Worth(i, b)
      BY <1>4 DEF Worth
    <3> QED
      BY <3>1, <1>1, <1>3, EndpointsSame DEF Twice, OnOrphan
  <2>4. Uncopied(l)' /\ (Homed' <=> Homed) /\ UNCHANGED <<wanted, homeless, touched, cuts>>
    BY <1>3, <1>4 DEF Uncopied, Homed, There, History
  <2> QED
    BY <1>5, <2>1, <2>2, <2>3, <2>4 DEF Sound
<1> QED
  BY <1>3, <1>4, <1>5, <1>6, <1>7, Steady
-------------------------------------------------------------------------------
(***************************************************************************)
(* ensure_single_custom_api_line                                           *)
(***************************************************************************)
LEMMA Removed ==
  ASSUME NEW S, NEW s \in Seq(S), NEW k \in 1 .. Len(s)
  PROVE  /\ RemoveAt(s, k) \in Seq(S) /\ Len(RemoveAt(s, k)) = Len(s) - 1
         /\ \A n \in 1 .. Len(s) - 1 : RemoveAt(s, k)[n] = s[IF n < k THEN n ELSE n + 1]
<1> DEFINE front == SubSeq(s, 1, k - 1)
           back  == SubSeq(s, k + 1, Len(s))
<1>1. front \in Seq(S) /\ Len(front) = k - 1 /\ \A n \in 1 .. k - 1 : front[n] = s[n]
  OBVIOUS
<1>2. /\ back \in Seq(S) /\ Len(back) = Len(s) - k
      /\ \A n \in 1 .. Len(s) - k : back[n] = s[k + n]
  OBVIOUS
<1>3. RemoveAt(s, k) = front \o back
  BY DEF RemoveAt
<1> HIDE DEF front, back
<1>4. RemoveAt(s, k) \in Seq(S) /\ Len(RemoveAt(s, k)) = Len(s) - 1
  BY <1>1, <1>2, <1>3
<1>5. ASSUME NEW n \in 1 .. Len(s) - 1
      PROVE  RemoveAt(s, k)[n] = s[IF n < k THEN n ELSE n + 1]
  <2>1. (front \o back)[n] = IF n <= k - 1 THEN front[n] ELSE back[n - (k - 1)]
    BY <1>1, <1>2
  <2>2. CASE n < k
    BY <1>1, <1>3, <2>1, <2>2
  <2>3. CASE n >= k
    <3>1. n - (k - 1) \in 1 .. Len(s) - k /\ k + (n - (k - 1)) = n + 1
      BY <2>3
    <3> QED
      BY <1>2, <1>3, <2>1, <2>3, <3>1
  <2> QED
    BY <2>2, <2>3
<1> QED
  BY <1>4, <1>5

\* The lines in order are different lines.
LEMMA OrderedLines ==
  ASSUME Rows, NEW order \in Ordered(There)
  PROVE  /\ order \in Seq(There) /\ There \subseteq LineIds /\ DOMAIN order = 1 .. Len(order)
         /\ \A m, n \in 1 .. Len(order) : m # n => order[m] # order[n]
<1>1. There \subseteq LineIds /\ IsFiniteSet(There)
  <2>1. There \subseteq LineIds /\ IsFiniteSet(LineIds)
    BY Facts, FS_Interval DEF There, LineIds
  <2> QED
    BY <2>1, FS_Subset
<1>2. /\ order \in [1 .. Cardinality(There) -> There]
      /\ \A m, n \in DOMAIN order : m < n => Before(order[m], order[n])
  BY DEF Ordered
<1>3. order \in Seq(There) /\ DOMAIN order = 1 .. Len(order)
  BY <1>1, <1>2, OrderIsSequence
<1>4. \A i \in There : lines[i].priority \in Nat /\ i \in Nat
  BY Facts DEF There, Rows, Lines, LineIds
<1>5. \A i \in There : ~Before(i, i)
  BY <1>4 DEF Before
<1>6. ASSUME NEW m \in 1 .. Len(order), NEW n \in 1 .. Len(order), m < n
      PROVE  order[m] # order[n]
  BY <1>2, <1>3, <1>5, <1>6
<1>7. \A m, n \in 1 .. Len(order) : m # n => m < n \/ n < m
  OBVIOUS
<1> QED
  BY <1>1, <1>3, <1>6, <1>7

\* The orphans are different lines, none of them the shell.
LEMMA CustomsStep ==
  ASSUME IInv, NEW c \in Listers, Customs(c)
  PROVE  IInv'
<1> DEFINE l0 == listing[c]
<1>1. l0 \in Listing /\ l0.at = "customs" /\ ~At(c, "idle") /\ UNCHANGED rows /\ UNCHANGED History
  BY SoundNow DEF Customs, At
<1>2. PICK order \in Ordered(There) :
        LET Shells == {n \in DOMAIN order : ShellLike(lines[order[n]])}
            First  == CHOOSE n \in Shells : \A m \in Shells : n <= m
            Rest   == IF Shells = {} THEN order ELSE RemoveAt(order, First)
        IN  listing' = [listing EXCEPT ![c] = [listing[c] EXCEPT
               !.at    = IF Shells = {} THEN "create" ELSE "clear",
               !.shell = IF Shells = {} THEN 0 ELSE order[First],
               !.todo  = [n \in DOMAIN Rest |-> [id |-> Rest[n], base |-> lines[Rest[n]].base]]]]
  BY DEF Customs, Go
<1> DEFINE Shells == {n \in DOMAIN order : ShellLike(lines[order[n]])}
           First  == CHOOSE n \in Shells : \A m \in Shells : n <= m
           Rest   == IF Shells = {} THEN order ELSE RemoveAt(order, First)
           Todo   == [n \in DOMAIN Rest |-> [id |-> Rest[n], base |-> lines[Rest[n]].base]]
           at     == IF Shells = {} THEN "create" ELSE "clear"
           shell  == IF Shells = {} THEN 0 ELSE order[First]
           m0     == [l0 EXCEPT !.at = at, !.shell = shell, !.todo = Todo]
<1>3. listing' = [listing EXCEPT ![c] = m0]
  BY <1>2
<1>4. /\ order \in Seq(There) /\ There \subseteq LineIds /\ DOMAIN order = 1 .. Len(order)
      /\ \A m, n \in 1 .. Len(order) : m # n => order[m] # order[n]
  BY OrderedLines DEF IInv
<1>5. Shells # {} => First \in 1 .. Len(order)
  <2>1. Shells \in SUBSET Nat /\ Shells \subseteq 1 .. Len(order)
    BY <1>4
  <2> HIDE DEF Shells
  <2> QED
    BY <2>1, Leasts
<1>6. at \in {"create", "clear"} /\ (at = "clear" => shell \in There) /\ (at = "create" => shell = 0)
  BY <1>4, <1>5
<1>7. /\ Rest \in Seq(There)
      /\ \A n \in 1 .. Len(Rest) : Rest[n] \in There \ {shell}
      /\ \A m, n \in 1 .. Len(Rest) : m # n => Rest[m] # Rest[n]
  <2>1. CASE Shells = {}
    <3>1. Rest = order /\ shell = 0 /\ 0 \notin There
      BY <1>4, <2>1 DEF LineIds
    <3> HIDE DEF Rest, shell
    <3> QED
      BY <1>4, <3>1
  <2>2. CASE Shells # {}
    <3>1. Rest = RemoveAt(order, First) /\ shell = order[First]
      BY <2>2
    <3>2. First \in 1 .. Len(order)
      BY <1>5, <2>2
    <3> HIDE DEF Rest, shell, First
    <3>3. /\ Rest \in Seq(There) /\ Len(Rest) = Len(order) - 1
          /\ \A n \in 1 .. Len(order) - 1 : Rest[n] = order[IF n < First THEN n ELSE n + 1]
      BY <1>4, <3>1, <3>2, Removed
    <3>4. ASSUME NEW n \in 1 .. Len(Rest)
          PROVE  Rest[n] \in There \ {shell}
      <4>1. (IF n < First THEN n ELSE n + 1) \in 1 .. Len(order) \ {First}
        BY <1>4, <3>2, <3>3
      <4> QED
        BY <1>4, <3>1, <3>2, <3>3, <4>1
    <3>5. ASSUME NEW m \in 1 .. Len(Rest), NEW n \in 1 .. Len(Rest), m # n
          PROVE  Rest[m] # Rest[n]
      <4>1. /\ (IF m < First THEN m ELSE m + 1) \in 1 .. Len(order)
            /\ (IF n < First THEN n ELSE n + 1) \in 1 .. Len(order)
            /\ (IF m < First THEN m ELSE m + 1) # (IF n < First THEN n ELSE n + 1)
        BY <1>4, <3>2, <3>3, <3>5
      <4> QED
        BY <1>4, <3>3, <4>1
    <3> QED
      BY <3>3, <3>4, <3>5
  <2> QED
    BY <2>1, <2>2
<1> HIDE DEF Rest, at, shell
<1>8. /\ Todo \in Seq(Orphans) /\ Len(Todo) = Len(Rest)
      /\ \A n \in 1 .. Len(Rest) : Todo[n].id = Rest[n] /\ Todo[n].base = lines[Rest[n]].base
  <2>1. \A i \in There : [id |-> i, base |-> lines[i].base] \in Orphans
    BY <1>4 DEF There, IInv, Rows, Lines, Orphans
  <2>2. DOMAIN Rest = 1 .. Len(Rest) /\ Len(Rest) \in Nat
    BY <1>7
  <2> QED
    BY <1>7, <2>1, <2>2
<1> HIDE DEF Todo
<1>9. PICK l \in Listing : l = m0 /\ l.at = at /\ l.shell = shell /\ l.todo = Todo
  <2>1. shell \in 0 .. MaxLines
    <3>1. 0 \in 0 .. MaxLines /\ LineIds \subseteq 0 .. MaxLines
      BY Facts DEF LineIds
    <3> QED
      BY <1>4, <1>6, <3>1
  <2>2. m0 \in Listing /\ m0.at = at /\ m0.shell = shell /\ m0.todo = Todo
    BY <1>1, <1>6, <1>8, <2>1 DEF Listing, Steps
  <2> QED
    BY <2>2
<1> HIDE DEF m0
<1>10. Staged(l)
  BY <1>4, <1>6, <1>9 DEF Staged, Shelled, Collapsing, OnOrphan
<1>11. Current(l)
  BY <1>6, <1>7, <1>8, <1>9 DEF Current, Shelled, Collapsing
<1>12. Uncopied(l) /\ \A b \in Bases : Twice(l, b) = 0 /\ Twice(l0, b) = 0
  BY <1>1, <1>6, <1>9, NothingTwiceYet DEF OnOrphan
<1> QED
  BY <1>1, <1>3, <1>9, <1>10, <1>11, <1>12, Moves

\* What a step does that changes lines, but none of the endpoints.
LEMMA Relines ==
  ASSUME IInv, NEW c \in Listers, ~At(c, "idle"), NEW l \in Listing, Staged(l),
         listing' = [listing EXCEPT ![c] = l],
         UNCHANGED builtin, UNCHANGED History, Rows', Tidy',
         overlaps = 0 /\ Sound(listing[c]) =>
           /\ Current(l)'
           /\ l.at \notin OnOrphan /\ listing[c].at \notin OnOrphan
           /\ \A b \in Bases, i \in LineIds : Worth(i, b)' = Worth(i, b)
           /\ Homed => Homed'
  PROVE  IInv'
<1>1. Counts'
  BY DEF IInv, Counts, History
<1>2. ASSUME overlaps' = 0 PROVE overlaps = 0 /\ Alone(c) /\ Sound(l)'
  <2>1. overlaps = 0 /\ Alone(c) /\ Sound(listing[c])
    BY <1>2, SoundNow DEF History
  <2>2. ASSUME NEW b \in Bases
        PROVE  Endpoints(b)' = Endpoints(b) /\ Twice(l, b)' = 0 /\ Twice(listing[c], b) = 0
    BY <2>1, EndpointsSame DEF Twice
  <2>3. Current(l)' /\ Uncopied(l)' /\ (Homed => Homed')
    BY <2>1 DEF Uncopied, OnOrphan
  <2>4. UNCHANGED <<builtin, wanted, homeless, touched, cuts>>
    BY DEF History
  <2> QED
    BY <2>1, <2>2, <2>3, <2>4 DEF Sound
<1> QED
  BY <1>1, <1>2, Steady

\* A line that is made has no accounts.
LEMMA RowCreated ==
  ASSUME IInv, NEW base \in Accounts, NEW priority \in Nat, NEW named \in BOOLEAN,
         CreateRow(base, priority, named), held' = held, builtin' = builtin
  PROVE  /\ Rows' /\ Tidy' /\ created' \in LineIds /\ created' \notin There
         /\ lines[created'] = None /\ held[created'] = NoRows
         /\ lines'[created'] # None /\ lines'[created'].base = base
         /\ \A i \in LineIds \ {created'} : lines'[i] = lines[i]
<1>1. created' = created + 1 /\ created' \in LineIds /\ created' \in 0 .. MaxLines
  BY Facts DEF CreateRow, IInv, Rows, LineIds
<1> DEFINE line == [base |-> base, priority |-> priority, named |-> named]
<1>2. line \in Lines /\ line # None /\ line.base = base
  BY LineAssumption DEF Lines
<1>3. lines' = [lines EXCEPT ![created'] = line]
  BY DEF CreateRow
<1> HIDE DEF line
<1>4. lines' \in [LineIds -> Lines \cup {None}] /\ lines'[created'] = line
      /\ \A i \in LineIds \ {created'} : lines'[i] = lines[i]
  BY <1>1, <1>2, <1>3 DEF IInv, Rows
<1>5. lines[created'] = None /\ held[created'] = NoRows
  BY <1>1 DEF IInv, Tidy, Rows, LineIds
<1>6. Rows'
  BY <1>1, <1>4 DEF IInv, Rows
<1>7. Tidy'
  <2>1. \A i \in LineIds : i > created' => i > created /\ i # created'
    BY <1>1 DEF LineIds, IInv, Rows
  <2> QED
    BY <1>2, <1>4, <2>1 DEF IInv, Tidy
<1> QED
  BY <1>1, <1>2, <1>4, <1>5, <1>6, <1>7 DEF There

LEMMA CreateShellStep ==
  ASSUME IInv, NEW c \in Listers, CreateShell(c)
  PROVE  IInv'
<1> DEFINE l0 == listing[c]
<1>1. /\ l0 \in Listing /\ l0.at = "create" /\ ~At(c, "idle")
      /\ CreateRow(None, 100, TRUE) /\ UNCHANGED <<builtin, held, History>>
  BY SoundNow DEF CreateShell, At
<1>2. /\ Rows' /\ Tidy' /\ created' \in LineIds /\ created' \notin There
      /\ lines[created'] = None /\ held[created'] = NoRows
      /\ lines'[created'] # None /\ lines'[created'].base = None
      /\ \A i \in LineIds \ {created'} : lines'[i] = lines[i]
  BY <1>1, Facts, RowCreated
<1>3. PICK l \in Listing : /\ listing' = [listing EXCEPT ![c] = l]
                           /\ l.at = "orphan" /\ l.shell = created' /\ l.todo = l0.todo
  <2> DEFINE m == [l0 EXCEPT !.at = "orphan", !.shell = created']
  <2>1. created' \in 0 .. MaxLines
    BY <1>2, Facts DEF LineIds
  <2>2. m \in Listing /\ m.at = "orphan" /\ m.shell = created' /\ m.todo = l0.todo
    BY <1>1, <2>1 DEF Listing, Steps
  <2>3. listing' = [listing EXCEPT ![c] = m]
    BY DEF CreateShell, Go
  <2> QED
    BY <2>2, <2>3
<1>4. Staged(l)
  BY <1>2, <1>3 DEF Staged, Shelled, Collapsing, OnOrphan
<1>5. ASSUME Sound(l0) PROVE Current(l)'
  <2>1. /\ \A n \in 1 .. Len(l0.todo) : /\ l0.todo[n].id \in There
                                        /\ lines[l0.todo[n].id].base = l0.todo[n].base
        /\ \A m, n \in 1 .. Len(l0.todo) : m # n => l0.todo[m].id # l0.todo[n].id
    BY <1>1, <1>5 DEF Sound, Current, Collapsing
  <2>2. \A i \in There : i \in There' \ {created'} /\ lines'[i] = lines[i]
    BY <1>2 DEF There
  <2>3. created' \in There'
    BY <1>2 DEF There
  <2> QED
    BY <1>3, <2>1, <2>2, <2>3 DEF Current
<1>6. ASSUME NEW b \in Bases, NEW i \in LineIds PROVE Worth(i, b)' = Worth(i, b)
  <2>1. CASE i = created'
    <3>1. Worth(i, b) = 0
      BY <1>2, <2>1 DEF Worth
    <3>2. Worth(i, b)' = NoRows[b]
      BY <1>1, <1>2, <2>1, Facts DEF Worth, NoRows
    <3> QED
      BY <3>1, <3>2, Facts DEF NoRows
  <2>2. CASE i # created'
    BY <1>1, <1>2, <2>2 DEF Worth
  <2> QED
    BY <2>1, <2>2
<1>7. Homed => Homed'
  <2>1. NoRows[None] = 0
    BY Facts DEF NoRows
  <2> QED
    BY <1>1, <1>2, <2>1 DEF Homed, There
<1>8. l.at \notin OnOrphan /\ l0.at \notin OnOrphan
  BY <1>1, <1>3 DEF OnOrphan
<1> QED
  BY <1>1, <1>2, <1>3, <1>4, <1>5, <1>6, <1>7, <1>8, Relines

LEMMA ClearBaseStep ==
  ASSUME IInv, NEW c \in Listers, ClearBase(c)
  PROVE  IInv'
<1> DEFINE l0 == listing[c]
           k  == l0.shell
<1>1. /\ l0 \in Listing /\ l0.at = "clear" /\ ~At(c, "idle") /\ k \in LineIds
      /\ UNCHANGED <<builtin, created, held, History>>
  BY SoundNow DEF ClearBase, At, Staged, Shelled, Collapsing
<1>2. PICK l \in Listing : /\ listing' = [listing EXCEPT ![c] = l]
                           /\ l.at = "orphan" /\ l.shell = k /\ l.todo = l0.todo
  <2> DEFINE m == [l0 EXCEPT !.at = "orphan"]
  <2>1. m \in Listing /\ m.at = "orphan" /\ m.shell = l0.shell /\ m.todo = l0.todo
    BY <1>1 DEF Listing, Steps
  <2>2. listing' = [listing EXCEPT ![c] = m]
    BY DEF ClearBase, Goto, Go
  <2> QED
    BY <2>1, <2>2
<1>3. /\ lines' \in [LineIds -> Lines \cup {None}]
      /\ \A i \in LineIds \ {k} : lines'[i] = lines[i]
      /\ lines'[k] = None <=> lines[k] = None
      /\ \/ lines'[k] = lines[k]
         \/ lines[k] # None /\ lines[k].base = Local /\ lines'[k].base = None
  <2>1. CASE lines[k] # None /\ lines[k].base = Local
    <3>1. lines' = [lines EXCEPT ![k].base = None]
      BY <2>1 DEF ClearBase
    <3> DEFINE line == [lines[k] EXCEPT !.base = None]
    <3>2. lines[k] \in Lines
      BY <1>1, <2>1 DEF IInv, Rows
    <3>3. line \in Lines /\ line.base = None /\ line # None
      BY <3>2, Facts, LineAssumption DEF Lines
    <3>4. lines' = [lines EXCEPT ![k] = line]
      BY <3>1
    <3> HIDE DEF line
    <3> QED
      BY <1>1, <2>1, <3>3, <3>4 DEF IInv, Rows
  <2>2. CASE ~(lines[k] # None /\ lines[k].base = Local)
    BY <2>2 DEF ClearBase, IInv, Rows
  <2> QED
    BY <2>1, <2>2
<1> HIDE DEF k
<1>4. Rows' /\ Tidy'
  BY <1>1, <1>3 DEF IInv, Rows, Tidy
<1>5. Staged(l) /\ l.at \notin OnOrphan /\ l0.at \notin OnOrphan
  BY <1>1, <1>2 DEF Staged, Shelled, Collapsing, OnOrphan
<1>6. ASSUME Sound(l0) PROVE Current(l)'
  <2>1. /\ k \in There
        /\ \A n \in 1 .. Len(l0.todo) : /\ l0.todo[n].id \in There \ {k}
                                        /\ lines[l0.todo[n].id].base = l0.todo[n].base
        /\ \A m, n \in 1 .. Len(l0.todo) : m # n => l0.todo[m].id # l0.todo[n].id
    BY <1>1, <1>6 DEF Sound, Current, Collapsing, Shelled, k
  <2>2. There' = There /\ \A i \in There \ {k} : lines'[i] = lines[i]
    BY <1>1, <1>3 DEF There
  <2> QED
    BY <1>2, <2>1, <2>2 DEF Current
<1>7. ASSUME NEW b \in Bases, NEW i \in LineIds PROVE Worth(i, b)' = Worth(i, b)
  BY <1>1, <1>3, Facts DEF Worth
<1>8. Homed => Homed'
  BY <1>1, <1>3, Facts DEF Homed, There
<1> QED
  BY <1>1, <1>2, <1>4, <1>5, <1>6, <1>7, <1>8, Relines

\* An account more is an endpoint more: of its address, or of its line's.
LEMMA Inserted ==
  ASSUME IInv, NEW k \in LineIds, lines[k] # None, NEW a \in Accounts, a # NoUrl,
         held[k][a] < MaxRows, Insert(k, a), UNCHANGED <<builtin, lines, created>>
  PROVE  /\ Rows' /\ Tidy'
         /\ \A b \in Bases : Endpoints(b)' = Endpoints(b) + IF b = Address(k, a) THEN 1 ELSE 0
         /\ held'[k][a] = held[k][a] + 1
         /\ \A i \in LineIds, x \in Accounts : i # k \/ x # a => held'[i][x] = held[i][x]
         /\ \A i \in LineIds \ {k} : held'[i] = held[i]
<1>1. held[k] \in [Accounts -> 0 .. MaxRows]
  BY DEF IInv, Rows
<1> DEFINE more == [held[k] EXCEPT ![a] = @ + 1]
<1>2. /\ more \in [Accounts -> 0 .. MaxRows] /\ more[a] = held[k][a] + 1
      /\ \A x \in Accounts \ {a} : more[x] = held[k][x]
  BY <1>1, Facts
<1>3. held' = [held EXCEPT ![k] = more]
  BY DEF Insert
<1> HIDE DEF more
<1>4. /\ held' \in [LineIds -> [Accounts -> 0 .. MaxRows]] /\ held'[k] = more
      /\ \A i \in LineIds \ {k} : held'[i] = held[i]
  BY <1>2, <1>3 DEF IInv, Rows
<1>5. Rows'
  BY <1>4 DEF IInv, Rows
<1>6. Tidy'
  BY <1>2, <1>4, Facts DEF IInv, Tidy
<1>7. ASSUME NEW b \in Bases
      PROVE  Endpoints(b)' = Endpoints(b) + IF b = Address(k, a) THEN 1 ELSE 0
  <2>1. \A i \in LineIds \ {k} : Worth(i, b)' = Worth(i, b)
    BY <1>4 DEF Worth
  <2>2. Endpoints(b)' + Worth(k, b) = Endpoints(b) + Worth(k, b)'
    BY <1>5, <2>1, EndpointsChange DEF IInv
  <2>3. held[k][b] \in Nat /\ held[k][None] \in Nat /\ b \in Accounts /\ None \in Accounts /\ b # None
    BY <1>1, Facts
  <2>4. Worth(k, b)' = Worth(k, b) + IF b = Address(k, a) THEN 1 ELSE 0
    <3>1. CASE a = None
      BY <1>2, <1>4, <2>3, <3>1 DEF Worth, Address
    <3>2. CASE a = b
      BY <1>2, <1>4, <2>3, <3>2, SMTT(30) DEF Worth, Address
    <3>3. CASE a # None /\ a # b
      BY <1>2, <1>4, <2>3, <3>3 DEF Worth, Address
    <3> QED
      BY <3>1, <3>2, <3>3
  <2>5. Worth(k, b) \in Nat /\ Endpoints(b) \in Nat
    BY WorthIsNat, EndpointsBound DEF IInv
  <2>6. Endpoints(b)' \in Nat
    BY <1>5, EndpointsLater
  <2> QED
    BY <2>2, <2>4, <2>5, <2>6
<1> QED
  BY <1>2, <1>4, <1>5, <1>6, <1>7

LEMMA MoveLineStep ==
  ASSUME IInv, NEW c \in Listers, MoveLine(c)
  PROVE  IInv'
<1> DEFINE l0 == listing[c]
           k  == l0.shell
           o  == Head(l0.todo)
<1>1. /\ l0 \in Listing /\ l0.at = "orphan" /\ ~At(c, "idle") /\ k \in LineIds
  BY SoundNow DEF MoveLine, At, Staged, Shelled, Collapsing
<1>2. Uncopied(l0) /\ \A b \in Bases : Twice(l0, b) = 0
  BY <1>1, NothingTwiceYet DEF OnOrphan
<1>3. CASE l0.todo = <<>>
  <2> DEFINE m == [l0 EXCEPT !.at = "names"]
  <2>1. m \in Listing /\ m.at = "names"
    BY <1>1 DEF Listing, Steps
  <2>2. listing' = [listing EXCEPT ![c] = m] /\ UNCHANGED rows /\ UNCHANGED History
    BY <1>3 DEF MoveLine, Goto, Go
  <2> HIDE DEF m
  <2>3. Staged(m) /\ Current(m) /\ Uncopied(m) /\ \A b \in Bases : Twice(m, b) = 0
    BY <2>1 DEF Staged, Current, Uncopied, Twice, Shelled, Collapsing, OnOrphan
  <2> QED
    BY <1>1, <1>2, <2>1, <2>2, <2>3, Moves
<1>4. CASE l0.todo # <<>>
  <2>1. PICK l \in Listing :
          /\ l = [l0 EXCEPT !.at = "accounts"] /\ l.at = "accounts" /\ l.shell = l0.shell
          /\ l.todo = l0.todo
    <3> DEFINE m == [l0 EXCEPT !.at = "accounts"]
    <3>1. m \in Listing /\ m.at = "accounts" /\ m.shell = l0.shell /\ m.todo = l0.todo
      BY <1>1 DEF Listing, Steps
    <3> QED
      BY <3>1
  <2>2. o \in Orphans /\ 1 \in 1 .. Len(l0.todo) /\ o = l0.todo[1]
    BY <1>1, <1>4 DEF Listing
  <2>3. o.base # NoUrl => Staged(l)
    BY <1>1, <1>4, <2>1 DEF Staged, Shelled, Collapsing, OnOrphan
  <2>4. Current(l0) => Current(l)
    BY <1>1, <2>1 DEF Current, Shelled, Collapsing
  <2>5. \A b \in Bases : Twice(l, b) = IF o.base = b THEN 1 ELSE 0
    <3> SUFFICES ASSUME NEW b \in Bases PROVE Twice(l, b) = IF o.base = b THEN 1 ELSE 0
      OBVIOUS
    <3>1. held[o.id][b] \in Nat /\ held[o.id][None] \in Nat
      BY <2>2, Facts DEF IInv, Rows, Orphans
    <3> QED
      BY <2>1, <3>1 DEF Twice, OnOrphan
  <2>6. CASE o.base \in {None, Local}
    <3>1. listing' = [listing EXCEPT ![c] = l] /\ UNCHANGED rows /\ UNCHANGED History
      BY <1>4, <2>1, <2>6 DEF MoveLine, Goto, Go
    <3>2. Staged(l) /\ \A b \in Bases : Twice(l, b) = 0
      BY <2>3, <2>5, <2>6, Facts
    <3>3. Uncopied(l)
      BY <2>1 DEF Uncopied
    <3> QED
      BY <1>1, <1>2, <2>4, <3>1, <3>2, <3>3, Moves DEF Sound
  <2>7. CASE o.base \notin {None, Local}
    <3>1. Add(c, o.base, [l0 EXCEPT !.at = "accounts"])
      BY <1>4, <2>7 DEF MoveLine
    <3>2. CASE ~(Accepted(o.base) /\ lines[k] # None)
      BY <1>1, <1>2, <3>1, <3>2, FailStep DEF Add
    <3>3. CASE Accepted(o.base) /\ lines[k] # None
      <4>1. /\ listing' = [listing EXCEPT ![c] = l]
            /\ held[k][o.base] < MaxRows /\ Insert(k, o.base)
            /\ UNCHANGED <<builtin, lines, created, History>>
        BY <2>1, <3>1, <3>3 DEF Add, Go
      <4>2. o.base \in Accounts /\ o.base # NoUrl /\ o.base # None
        BY <2>2, <2>7, <3>3 DEF Orphans, Accepted
      <4>3. /\ Rows' /\ Tidy'
            /\ \A b \in Bases : Endpoints(b)' = Endpoints(b) + IF b = o.base THEN 1 ELSE 0
            /\ \A i \in LineIds \ {k} : held'[i] = held[i]
            /\ \A i \in LineIds : held'[i][None] = held[i][None]
        BY <1>1, <3>3, <4>1, <4>2, Facts, Inserted DEF Address
      <4>4. Counts'
        BY <4>1 DEF IInv, Counts, History
      <4>5. ASSUME overlaps' = 0 PROVE overlaps = 0 /\ Alone(c) /\ Sound(l)'
        <5>1. overlaps = 0 /\ Alone(c) /\ Sound(l0)
          BY <1>1, <4>1, <4>5, SoundNow DEF History
        <5>2. Current(l)'
          BY <2>4, <4>1, <5>1 DEF Sound, Current, There
        <5>3. Uncopied(l)' /\ (Homed => Homed')
          BY <2>1, <4>1, <4>3 DEF Uncopied, Homed, There
        <5>4. ASSUME NEW b \in Bases PROVE Twice(l, b)' = Twice(l, b)
          <6>1. o.id # k /\ o.id \in LineIds
            BY <1>1, <2>2, <5>1 DEF Sound, Current, Collapsing, Orphans
          <6>2. held'[o.id] = held[o.id]
            BY <4>3, <6>1
          <6> QED
            BY <2>1, <6>2 DEF Twice
        <5>5. \A b \in Bases : Endpoints(b) \in Nat /\ wanted[b] \in Nat
          BY EndpointsBound DEF IInv, Counts
        <5>6. UNCHANGED <<builtin, wanted, homeless, touched, cuts>>
          BY <4>1 DEF History
        <5>7. ASSUME ~touched, NEW b \in Bases
              PROVE  /\ Endpoints(b)' >= wanted[b] + Twice(l, b)
                     /\ cuts = 0 /\ ~homeless => Endpoints(b)' = wanted[b] + Twice(l, b)
          <6>1. /\ Endpoints(b) >= wanted[b] + 0
                /\ cuts = 0 /\ ~homeless => Endpoints(b) = wanted[b] + 0
            BY <1>2, <5>1, <5>7 DEF Sound
          <6> QED
            BY <2>5, <4>3, <5>5, <6>1
        <5> QED
          BY <5>1, <5>2, <5>3, <5>4, <5>6, <5>7 DEF Sound
      <4> QED
        BY <2>1, <2>3, <4>1, <4>2, <4>3, <4>4, <4>5, Steady
    <3> QED
      BY <3>2, <3>3
  <2> QED
    BY <2>6, <2>7
<1> QED
  BY <1>3, <1>4

\* The orphan that a listing is at.
LEMMA OrphanFacts ==
  ASSUME IInv, NEW c \in Listers, listing[c].at \in OnOrphan
  PROVE  LET l == listing[c]
             o == Head(l.todo)
         IN  /\ l \in Listing /\ Staged(l) /\ ~At(c, "idle")
             /\ l.todo # <<>> /\ 1 \in 1 .. Len(l.todo) /\ o = l.todo[1] /\ Len(l.todo) \in Nat
             /\ o \in Orphans /\ o.id \in LineIds /\ o.base \in Accounts /\ o.base # NoUrl
             /\ l.shell \in LineIds
             /\ held[o.id] \in [Accounts -> 0 .. MaxRows] /\ l.copies \in [Accounts -> 0 .. MaxRows]
             /\ \A a \in Accounts : held[o.id][a] \in Nat /\ l.copies[a] \in Nat
             /\ Sound(l) => /\ o.id \in There /\ o.id # l.shell /\ lines[o.id].base = o.base
                            /\ l.shell \in There
<1> DEFINE l == listing[c]
           o == Head(l.todo)
<1>1. l \in Listing /\ Staged(l) /\ ~At(c, "idle") /\ l.at \in Shelled /\ l.at \in Collapsing
  BY SoundNow DEF OnOrphan, Shelled, Collapsing, At
<1>2. l.todo # <<>> /\ l.todo \in Seq(Orphans) /\ o.base # NoUrl /\ l.shell \in LineIds
  BY <1>1 DEF Staged, Listing
<1>3. 1 \in 1 .. Len(l.todo) /\ o = l.todo[1] /\ Len(l.todo) \in Nat /\ o \in Orphans
  BY <1>2
<1>4. o.id \in LineIds /\ o.base \in Accounts
  BY <1>3 DEF Orphans
<1>5. held[o.id] \in [Accounts -> 0 .. MaxRows] /\ l.copies \in [Accounts -> 0 .. MaxRows]
  BY <1>1, <1>4 DEF IInv, Rows, Listing
<1>6. Sound(l) => /\ o.id \in There /\ o.id # l.shell /\ lines[o.id].base = o.base
                  /\ l.shell \in There
  BY <1>1, <1>3 DEF Sound, Current
<1>7. \A a \in Accounts : held[o.id][a] \in Nat /\ l.copies[a] \in Nat
  <2>1. ASSUME NEW f \in [Accounts -> 0 .. MaxRows], NEW a \in Accounts PROVE f[a] \in Nat
    BY Facts
  <2> QED
    BY <1>5, <2>1
<1> QED
  BY <1>1, <1>2, <1>3, <1>4, <1>5, <1>6, <1>7

LEMMA OneLess ==
  ASSUME NEW f \in [Accounts -> 0 .. MaxRows], NEW a \in Accounts, f[a] > 0
  PROVE  LET less == [f EXCEPT ![a] = @ - 1]
         IN  /\ less \in [Accounts -> 0 .. MaxRows] /\ less[a] = f[a] - 1
             /\ \A x \in Accounts \ {a} : less[x] = f[x]
BY Facts

LEMMA ListAccountsStep ==
  ASSUME IInv, NEW c \in Listers, ListAccounts(c)
  PROVE  IInv'
<1> DEFINE l0 == listing[c]
           o  == Head(l0.todo)
<1>1. l0.at = "accounts" /\ l0.at \in OnOrphan /\ UNCHANGED rows /\ UNCHANGED History
  BY DEF ListAccounts, At, OnOrphan
<1>2. /\ l0 \in Listing /\ Staged(l0) /\ ~At(c, "idle") /\ l0.todo # <<>> /\ o.id \in LineIds
      /\ o.base # NoUrl /\ l0.shell \in LineIds /\ held[o.id] \in [Accounts -> 0 .. MaxRows]
  BY <1>1, OrphanFacts
<1>3. PICK l \in Listing : /\ listing' = [listing EXCEPT ![c] = l]
                           /\ l.at = "copy" /\ l.shell = l0.shell /\ l.todo = l0.todo
                           /\ l.copies = held[o.id]
  <2> DEFINE m == [l0 EXCEPT !.at = "copy", !.copies = held[o.id]]
  <2>1. m \in Listing /\ m.at = "copy" /\ m.shell = l0.shell /\ m.todo = l0.todo /\ m.copies = held[o.id]
    BY <1>2 DEF Listing, Steps
  <2>2. listing' = [listing EXCEPT ![c] = m]
    BY DEF ListAccounts, Go
  <2> QED
    BY <2>1, <2>2
<1>4. Staged(l)
  BY <1>2, <1>3 DEF Staged, IInv, Tidy, Shelled, Collapsing, OnOrphan
<1>5. Uncopied(l) /\ \A b \in Bases : Twice(l, b) = Twice(l0, b)
  <2>1. Uncopied(l)
    BY <1>2, <1>3, Facts DEF Uncopied
  <2>2. ASSUME NEW b \in Bases PROVE Twice(l, b) = Twice(l0, b)
    BY <1>1, <1>2, <1>3 DEF Twice, OnOrphan
  <2> QED
    BY <2>1, <2>2
<1>6. Sound(l0) => Current(l)
  BY <1>1, <1>3 DEF Sound, Current, Shelled, Collapsing
<1> QED
  BY <1>1, <1>2, <1>3, <1>4, <1>5, <1>6, Moves

\* A copy is an endpoint twice, until the orphan is deleted.
LEMMA CopyOne ==
  ASSUME IInv, NEW c \in Listers, At(c, "copy"), NEW a \in Accounts, listing[c].copies[a] > 0,
         Add(c, IF a = None THEN Head(listing[c].todo).base ELSE a,
             [listing[c] EXCEPT !.copies[a] = @ - 1])
  PROVE  IInv'
<1> DEFINE l0 == listing[c]
           k  == l0.shell
           o  == Head(l0.todo)
           x  == IF a = None THEN o.base ELSE a
<1>1. l0.at = "copy" /\ l0.at \in OnOrphan
  BY DEF At, OnOrphan
<1>2. /\ l0 \in Listing /\ Staged(l0) /\ ~At(c, "idle") /\ l0.todo # <<>>
      /\ o.id \in LineIds /\ o.base \in Accounts /\ o.base # NoUrl /\ k \in LineIds
      /\ l0.copies \in [Accounts -> 0 .. MaxRows]
      /\ \A y \in Accounts : held[o.id][y] \in Nat /\ l0.copies[y] \in Nat
      /\ Sound(l0) => o.id \in There /\ o.id # k /\ lines[o.id].base = o.base /\ k \in There
  BY <1>1, OrphanFacts
<1>3. x \in Accounts /\ x # NoUrl /\ Accepted(x)
  BY <1>1, <1>2, Facts DEF Staged, Accepted
<1>4. Sound(l0) => lines[k] # None
  BY <1>2 DEF There
<1>5. CASE lines[k] = None
  BY <1>2, <1>4, <1>5, FailStep DEF Add
<1>6. CASE lines[k] # None
  <2>1. PICK l \in Listing :
          /\ l = [l0 EXCEPT !.copies[a] = @ - 1] /\ l.at = "copy" /\ l.shell = k /\ l.todo = l0.todo
          /\ l.copies[a] = l0.copies[a] - 1 /\ \A y \in Accounts \ {a} : l.copies[y] = l0.copies[y]
    <3> DEFINE less == [l0.copies EXCEPT ![a] = @ - 1]
               m    == [l0 EXCEPT !.copies = less]
    <3>1. /\ less \in [Accounts -> 0 .. MaxRows] /\ less[a] = l0.copies[a] - 1
          /\ \A y \in Accounts \ {a} : less[y] = l0.copies[y]
      BY <1>2, OneLess
    <3>2. m = [l0 EXCEPT !.copies[a] = @ - 1]
      OBVIOUS
    <3> HIDE DEF less
    <3>3. m \in Listing /\ m.at = "copy" /\ m.shell = k /\ m.todo = l0.todo /\ m.copies = less
      BY <1>1, <1>2, <3>1 DEF Listing
    <3> HIDE DEF m
    <3>4. m.copies[a] = l0.copies[a] - 1 /\ \A y \in Accounts \ {a} : m.copies[y] = l0.copies[y]
      BY <3>1, <3>3
    <3> QED
      BY <3>2, <3>3, <3>4
  <2>2. /\ listing' = [listing EXCEPT ![c] = l] /\ held[k][x] < MaxRows /\ Insert(k, x)
        /\ UNCHANGED <<builtin, lines, created, History>>
    BY <1>3, <1>6, <2>1 DEF Add, Go
  <2>3. /\ Rows' /\ Tidy'
        /\ \A b \in Bases : Endpoints(b)' = Endpoints(b) + IF b = Address(k, x) THEN 1 ELSE 0
        /\ \A i \in LineIds \ {k} : held'[i] = held[i]
        /\ \A i \in LineIds : x # None => held'[i][None] = held[i][None]
    <3> HIDE DEF x
    <3> QED
      BY <1>2, <1>3, <1>6, <2>2, Facts, Inserted, SMTT(30)
  <2>4. Counts'
    BY <2>2 DEF IInv, Counts, History
  <2>5. Staged(l)
    BY <1>1, <1>2, <2>1, Facts, SMTT(30) DEF Staged, Shelled, Collapsing, OnOrphan
  <2>6. ASSUME overlaps' = 0 PROVE overlaps = 0 /\ Alone(c) /\ Sound(l)'
    <3>1. overlaps = 0 /\ Alone(c) /\ Sound(l0)
      BY <1>2, <2>2, <2>6, SoundNow DEF History
    <3>2. /\ o.id \in There /\ o.id # k /\ lines[o.id].base = o.base /\ k \in There
          /\ held'[o.id] = held[o.id] /\ lines' = lines
      BY <1>2, <2>2, <2>3, <3>1
    <3>3. Current(l)'
      <4>1. Current(l0)
        BY <3>1 DEF Sound
      <4>2. /\ l.at = "copy" /\ l.shell = l0.shell /\ l.todo = l0.todo
            /\ lines' = lines /\ builtin' = builtin
        BY <2>1, <2>2
      <4>3. There' = There
        BY <4>2 DEF There
      <4> QED
        BY <1>1, <4>1, <4>2, <4>3 DEF Current, Shelled, Collapsing
    <3>4. ASSUME ~touched PROVE Uncopied(l)'
      <4>1. \A y \in Accounts : l0.copies[y] <= held[o.id][y]
        BY <1>1, <3>1, <3>4 DEF Sound, Uncopied
      <4> QED
        <5>1. ASSUME NEW y \in Accounts PROVE l.copies[y] <= held[o.id][y]
          <6>1. l0.copies[y] <= held[o.id][y] /\ held[o.id][y] \in Nat /\ l0.copies[y] \in Nat
            BY <1>2, <4>1
          <6>2. l.copies[y] = l0.copies[y] - IF y = a THEN 1 ELSE 0
            BY <2>1, <6>1
          <6> QED
            BY <6>1, <6>2
        <5>2. Head(l.todo) = o /\ held'[o.id] = held[o.id]
          BY <2>1, <3>2
        <5> HIDE DEF o, l0
        <5> QED
          BY <5>1, <5>2 DEF Uncopied
    <3>5. ASSUME NEW b \in Bases PROVE Twice(l, b)' = Twice(l0, b) + IF b = x THEN 1 ELSE 0
      <4>1. /\ held[o.id][b] \in Nat /\ held[o.id][None] \in Nat
            /\ l0.copies[b] \in Nat /\ l0.copies[None] \in Nat /\ b \in Accounts /\ None \in Accounts
            /\ b # None
        BY <1>2, Facts
      <4>2. Twice(l, b)' = held[o.id][b] - l.copies[b]
                             + IF o.base = b THEN 1 + (held[o.id][None] - l.copies[None]) ELSE 0
        BY <2>1, <3>2 DEF Twice, OnOrphan
      <4>3. Twice(l0, b) = held[o.id][b] - l0.copies[b]
                             + IF o.base = b THEN 1 + (held[o.id][None] - l0.copies[None]) ELSE 0
        BY <1>1 DEF Twice, OnOrphan
      <4>4. CASE a = None
        <5>1. l.copies[None] = l0.copies[None] - 1 /\ l.copies[b] = l0.copies[b] /\ x = o.base
          BY <2>1, <4>1, <4>4
        <5> HIDE DEF x, o
        <5> QED
          BY <4>1, <4>2, <4>3, <5>1
      <4>5. CASE a # None
        <5>1. l.copies[None] = l0.copies[None] /\ x = a
          BY <2>1, <4>1, <4>5
        <5>2. l.copies[b] = l0.copies[b] - IF b = a THEN 1 ELSE 0
          BY <2>1, <4>1
        <5> HIDE DEF x, o
        <5> QED
          BY <4>1, <4>2, <4>3, <5>1, <5>2
      <4> QED
        BY <4>4, <4>5
    <3>6. ASSUME ~touched, ~homeless PROVE x # None
      <4>1. CASE a = None /\ o.base = None
        <5>1. held[o.id][None] = 0
          BY <3>1, <3>2, <3>6, <4>1, Facts DEF Sound, Homed
        <5>2. l0.copies[None] <= held[o.id][None] /\ l0.copies[None] \in Nat
          BY <1>1, <1>2, <3>1, <3>6, Facts DEF Sound, Uncopied
        <5> QED
          BY <4>1, <5>1, <5>2
      <4> QED
        BY <4>1
    <3>7. UNCHANGED <<builtin, wanted, homeless, touched, cuts>>
      BY <2>2 DEF History
    <3>8. ASSUME ~touched, NEW b \in Bases
          PROVE  /\ Endpoints(b)' >= wanted[b] + Twice(l, b)'
                 /\ cuts = 0 /\ ~homeless => Endpoints(b)' = wanted[b] + Twice(l, b)'
      <4>1. /\ Endpoints(b) >= wanted[b] + Twice(l0, b)
            /\ cuts = 0 /\ ~homeless => Endpoints(b) = wanted[b] + Twice(l0, b)
        BY <3>1, <3>8 DEF Sound
      <4>2. Endpoints(b) \in Nat /\ wanted[b] \in Nat
        BY EndpointsBound DEF IInv, Counts
      <4>3. Twice(l0, b) \in Int
        <5>1. /\ held[o.id][b] \in Nat /\ held[o.id][None] \in Nat
              /\ l0.copies[b] \in Nat /\ l0.copies[None] \in Nat
          BY <1>2, Facts
        <5> QED
          BY <1>1, <5>1 DEF Twice
      <4>4. b = x => b = Address(k, x)
        BY Facts DEF Address
      <4>5. ~homeless => (b = Address(k, x) <=> b = x)
        BY <3>6, <3>8 DEF Address
      <4> QED
        BY <2>3, <3>5, <4>1, <4>2, <4>3, <4>4, <4>5
    <3>9. ASSUME ~touched, ~homeless PROVE Homed'
      BY <2>2, <2>3, <3>1, <3>6, <3>9 DEF Sound, Homed, There
    <3> QED
      BY <3>1, <3>3, <3>4, <3>7, <3>8, <3>9 DEF Sound
  <2> QED
    BY <2>2, <2>3, <2>4, <2>5, <2>6, Steady
<1> QED
  BY <1>5, <1>6

LEMMA CopyAccountStep ==
  ASSUME IInv, NEW c \in Listers, CopyAccount(c)
  PROVE  IInv'
<1> DEFINE l0 == listing[c]
<1>1. At(c, "copy") /\ l0.at = "copy" /\ l0.at \in OnOrphan
  BY DEF CopyAccount, At, OnOrphan
<1>2. CASE l0.copies = NoRows
  <2>1. l0 \in Listing /\ Staged(l0) /\ ~At(c, "idle") /\ UNCHANGED rows /\ UNCHANGED History
    BY <1>1, <1>2, OrphanFacts DEF CopyAccount
  <2>2. PICK l \in Listing : /\ listing' = [listing EXCEPT ![c] = l]
                             /\ l.at = "delete" /\ l.shell = l0.shell /\ l.todo = l0.todo
                             /\ l.copies = l0.copies
    <3> DEFINE m == [l0 EXCEPT !.at = "delete"]
    <3>1. m \in Listing /\ m.at = "delete" /\ m.shell = l0.shell /\ m.todo = l0.todo /\ m.copies = l0.copies
      BY <2>1 DEF Listing, Steps
    <3>2. listing' = [listing EXCEPT ![c] = m]
      BY <1>2 DEF CopyAccount, Goto, Go
    <3> QED
      BY <3>1, <3>2
  <2>3. Staged(l) /\ (Uncopied(l0) => Uncopied(l)) /\ \A b \in Bases : Twice(l, b) = Twice(l0, b)
    BY <1>1, <1>2, <2>1, <2>2 DEF Staged, Uncopied, Twice, Shelled, Collapsing, OnOrphan
  <2>4. Sound(l0) => Current(l)
    BY <1>1, <2>2 DEF Sound, Current, Shelled, Collapsing
  <2> QED
    BY <2>1, <2>2, <2>3, <2>4, Moves DEF Sound
<1>3. CASE l0.copies # NoRows
  <2>1. PICK a \in Accounts : /\ l0.copies[a] > 0
                              /\ Add(c, IF a = None THEN Head(l0.todo).base ELSE a,
                                     [l0 EXCEPT !.copies[a] = @ - 1])
    BY <1>3 DEF CopyAccount
  <2> QED
    BY <1>1, <2>1, CopyOne
<1> QED
  BY <1>2, <1>3

\* What was twice is once when the orphan is gone.
LEMMA DeleteOrphanStep ==
  ASSUME IInv, NEW c \in Listers, DeleteOrphan(c)
  PROVE  IInv'
<1> DEFINE l0 == listing[c]
           k  == l0.shell
           o  == Head(l0.todo)
<1>1. l0.at = "delete" /\ l0.at \in OnOrphan
  BY DEF DeleteOrphan, At, OnOrphan
<1>2. /\ l0 \in Listing /\ Staged(l0) /\ ~At(c, "idle") /\ l0.todo # <<>> /\ o = l0.todo[1]
      /\ 1 \in 1 .. Len(l0.todo) /\ Len(l0.todo) \in Nat /\ o.id \in LineIds /\ k \in LineIds
      /\ \A a \in Accounts : held[o.id][a] \in Nat
      /\ Sound(l0) => o.id \in There /\ o.id # k /\ lines[o.id].base = o.base /\ k \in There
  BY <1>1, OrphanFacts
<1>3. PICK l \in Listing : /\ listing' = [listing EXCEPT ![c] = l]
                           /\ l.at = "orphan" /\ l.shell = k /\ l.todo = Tail(l0.todo)
  <2> DEFINE m == [l0 EXCEPT !.at = "orphan", !.todo = Tail(@)]
  <2>1. Tail(l0.todo) \in Seq(Orphans)
    BY <1>2 DEF Listing
  <2>2. m \in Listing /\ m.at = "orphan" /\ m.shell = k /\ m.todo = Tail(l0.todo)
    BY <1>2, <2>1 DEF Listing, Steps
  <2>3. listing' = [listing EXCEPT ![c] = m]
    BY DEF DeleteOrphan, Go
  <2> QED
    BY <2>2, <2>3
<1>4. /\ lines' = [lines EXCEPT ![o.id] = None] /\ held' = [held EXCEPT ![o.id] = NoRows]
      /\ UNCHANGED <<builtin, created, History>>
  BY DEF DeleteOrphan, DeleteLine
<1>5. /\ lines' \in [LineIds -> Lines \cup {None}] /\ lines'[o.id] = None
      /\ held' \in [LineIds -> [Accounts -> 0 .. MaxRows]] /\ held'[o.id] = NoRows
      /\ \A i \in LineIds \ {o.id} : lines'[i] = lines[i] /\ held'[i] = held[i]
  <2>1. NoRows \in [Accounts -> 0 .. MaxRows]
    BY Facts DEF NoRows
  <2> QED
    BY <1>2, <1>4, <2>1 DEF IInv, Rows
<1> HIDE DEF o
<1>6. Rows' /\ Tidy'
  <2>1. NoRows[NoUrl] = 0
    BY Facts DEF NoRows
  <2>2. Rows'
    BY <1>4, <1>5 DEF IInv, Rows
  <2>3. Tidy'
    BY <1>4, <1>5, <2>1 DEF IInv, Tidy
  <2> QED
    BY <2>2, <2>3
<1>7. Counts'
  BY <1>4 DEF IInv, Counts, History
<1>8. Staged(l)
  BY <1>2, <1>3 DEF Staged, Shelled, Collapsing, OnOrphan
<1>9. ASSUME overlaps' = 0 PROVE overlaps = 0 /\ Alone(c) /\ Sound(l)'
  <2>1. overlaps = 0 /\ Alone(c) /\ Sound(l0)
    BY <1>2, <1>4, <1>9, SoundNow DEF History
  <2>2. o.id \in There /\ o.id # k /\ lines[o.id].base = o.base /\ k \in There
    BY <1>2, <2>1
  <2>3. There' = There \ {o.id} /\ \A i \in There' : lines'[i] = lines[i] /\ held'[i] = held[i]
    BY <1>5 DEF There
  <2>4. Current(l)'
    <3>1. /\ \A n \in 1 .. Len(l0.todo) : /\ l0.todo[n].id \in There \ {k}
                                          /\ lines[l0.todo[n].id].base = l0.todo[n].base
          /\ \A m, n \in 1 .. Len(l0.todo) : m # n => l0.todo[m].id # l0.todo[n].id
      BY <1>1, <2>1 DEF Sound, Current, Collapsing
    <3>2. /\ Len(l.todo) = Len(l0.todo) - 1
          /\ \A n \in 1 .. Len(l.todo) : l.todo[n] = l0.todo[n + 1] /\ n + 1 \in 1 .. Len(l0.todo) /\ n + 1 # 1
      <4>1. l0.todo \in Seq(Orphans)
        BY <1>2 DEF Listing
      <4> QED
        BY <1>2, <1>3, <4>1
    <3>3. ASSUME NEW n \in 1 .. Len(l.todo)
          PROVE  l.todo[n].id \in There' \ {k} /\ lines'[l.todo[n].id].base = l.todo[n].base
      <4>1. n + 1 \in 1 .. Len(l0.todo) /\ 1 # n + 1 /\ l.todo[n] = l0.todo[n + 1]
        BY <3>2
      <4>2. l0.todo[n + 1].id # o.id
        BY <1>2, <3>1, <4>1
      <4>3. l0.todo[n + 1].id \in There' \ {k}
        BY <2>3, <3>1, <4>1, <4>2
      <4> QED
        BY <2>3, <3>1, <4>1, <4>3
    <3>4. ASSUME NEW m \in 1 .. Len(l.todo), NEW n \in 1 .. Len(l.todo), m # n
          PROVE  l.todo[m].id # l.todo[n].id
      <4>1. m + 1 # n + 1
        BY <3>4
      <4>2. /\ l.todo[m] = l0.todo[m + 1] /\ m + 1 \in 1 .. Len(l0.todo)
            /\ l.todo[n] = l0.todo[n + 1] /\ n + 1 \in 1 .. Len(l0.todo)
        BY <3>2
      <4>3. l0.todo[m + 1].id # l0.todo[n + 1].id
        BY <3>1, <4>1, <4>2
      <4> QED
        BY <4>2, <4>3
    <3>5. k \in There'
      BY <2>2, <2>3
    <3> QED
      BY <1>3, <3>3, <3>4, <3>5 DEF Current, Collapsing, Shelled
  <2>5. Uncopied(l)' /\ \A b \in Bases : Twice(l, b)' = 0
    BY <1>3 DEF Uncopied, Twice, OnOrphan
  <2>6. Homed => Homed'
    BY <2>3 DEF Homed
  <2>7. ASSUME NEW b \in Bases PROVE Endpoints(b)' = Endpoints(b) - Twice(l0, b)
    <3> PICK x \in LineIds : x = o.id
      BY <1>2
    <3>1. \A i \in LineIds \ {x} : Worth(i, b)' = Worth(i, b)
      BY <1>5 DEF Worth
    <3>2. Worth(x, b)' = 0
      BY <1>5 DEF Worth
    <3>3. Endpoints(b)' + Worth(x, b) = Endpoints(b) + Worth(x, b)'
      BY <1>2, <1>6, <3>1, EndpointsChange DEF IInv
    <3>4. Worth(x, b) = Twice(l0, b)
      <4>1. l0.copies = NoRows /\ NoRows[b] = 0 /\ NoRows[None] = 0
        BY <1>1, <1>2, Facts DEF Staged, NoRows
      <4>2. held[o.id][b] \in Nat /\ held[o.id][None] \in Nat
        BY <1>2, Facts
      <4>3. Twice(l0, b) = held[o.id][b] - 0 + IF o.base = b THEN 1 + (held[o.id][None] - 0) ELSE 0
        BY <1>1, <4>1 DEF Twice, o
      <4>4. Worth(x, b) = held[o.id][b] + IF o.base = b THEN 1 + held[o.id][None] ELSE 0
        BY <2>2 DEF Worth, There
      <4> QED
        BY <4>2, <4>3, <4>4
    <3>5. Endpoints(b) \in Nat /\ Worth(x, b) \in Nat /\ Worth(x, b) <= Endpoints(b)
      BY <1>2, EndpointsBound, WorthIsNat DEF IInv
    <3>6. Endpoints(b)' \in Nat
      BY <1>6, EndpointsLater
    <3> QED
      BY <3>2, <3>3, <3>4, <3>5, <3>6
  <2>8. UNCHANGED <<builtin, wanted, homeless, touched, cuts>>
    BY <1>4 DEF History
  <2>9. ASSUME ~touched, NEW b \in Bases
        PROVE  /\ Endpoints(b)' >= wanted[b]
               /\ cuts = 0 /\ ~homeless => Endpoints(b)' = wanted[b]
    <3>1. /\ Endpoints(b) >= wanted[b] + Twice(l0, b)
          /\ cuts = 0 /\ ~homeless => Endpoints(b) = wanted[b] + Twice(l0, b)
      BY <2>1, <2>9 DEF Sound
    <3>2. Endpoints(b) \in Nat /\ wanted[b] \in Nat
      BY EndpointsBound DEF IInv, Counts
    <3>3. Twice(l0, b) \in Int
      <4>1. /\ held[o.id][b] \in Nat /\ held[o.id][None] \in Nat
            /\ l0.copies[b] = 0 /\ l0.copies[None] = 0
        BY <1>1, <1>2, Facts DEF Staged, NoRows
      <4> QED
        BY <1>1, <4>1 DEF Twice, o
    <3> QED
      BY <2>7, <3>1, <3>2, <3>3
  <2>10. \A b \in Bases : wanted[b] \in Nat
    BY DEF IInv, Counts
  <2> QED
    BY <2>1, <2>4, <2>5, <2>6, <2>8, <2>9, <2>10 DEF Sound
<1> QED
  BY <1>3, <1>6, <1>7, <1>8, <1>9, Steady
-------------------------------------------------------------------------------
(***************************************************************************)
(* normalize_builtin_line_names, and the end of a listing                  *)
(***************************************************************************)
LEMMA ListNamesStep ==
  ASSUME IInv, NEW c \in Listers, ListNames(c)
  PROVE  IInv'
<1>1. /\ listing[c] \in Listing /\ listing[c].at = "names" /\ ~At(c, "idle")
      /\ UNCHANGED rows /\ UNCHANGED History
  BY SoundNow DEF ListNames, At
<1>2. PICK l \in Listing : listing' = [listing EXCEPT ![c] = l] /\ l.at = "rename"
  <2> DEFINE m == [listing[c] EXCEPT !.at = "rename", !.unnamed = {i \in There : ~lines[i].named}]
  <2>1. {i \in There : ~lines[i].named} \in SUBSET LineIds
    BY DEF There
  <2>2. m \in Listing /\ m.at = "rename"
    BY <1>1, <2>1 DEF Listing, Steps
  <2>3. listing' = [listing EXCEPT ![c] = m]
    BY DEF ListNames, Go
  <2> QED
    BY <2>2, <2>3
<1>3. Staged(l) /\ Current(l) /\ Uncopied(l) /\ \A b \in Bases : Twice(l, b) = 0 /\ Twice(listing[c], b) = 0
  BY <1>1, <1>2 DEF Staged, Current, Uncopied, Twice, Shelled, Collapsing, OnOrphan
<1> QED
  BY <1>1, <1>2, <1>3, Moves

LEMMA RenameStep ==
  ASSUME IInv, NEW c \in Listers, Rename(c)
  PROVE  IInv'
<1> DEFINE l0 == listing[c]
<1>1. /\ l0 \in Listing /\ l0.at = "rename" /\ ~At(c, "idle")
      /\ UNCHANGED <<builtin, created, held, History>>
  BY SoundNow DEF Rename, At
<1>2. /\ lines' \in [LineIds -> Lines \cup {None}]
      /\ \A i \in LineIds : (lines'[i] = None <=> lines[i] = None)
      /\ \A i \in There : lines'[i].base = lines[i].base
  <2>1. CASE lines' = lines
    BY <2>1 DEF IInv, Rows
  <2>2. CASE lines' # lines
    <3>1. PICK i \in l0.unnamed : lines[i] # None /\ lines' = [lines EXCEPT ![i].named = TRUE]
      BY <2>2 DEF Rename
    <3>2. i \in LineIds /\ lines[i] \in Lines
      BY <1>1, <3>1 DEF Listing, IInv, Rows
    <3> DEFINE line == [lines[i] EXCEPT !.named = TRUE]
    <3>3. line \in Lines /\ line.base = lines[i].base /\ line # None
      BY <3>2, LineAssumption DEF Lines
    <3>4. lines' = [lines EXCEPT ![i] = line]
      BY <3>1
    <3> HIDE DEF line
    <3> QED
      BY <3>1, <3>2, <3>3, <3>4 DEF IInv, Rows, There
  <2> QED
    BY <2>1, <2>2
<1>3. Rows' /\ Tidy'
  BY <1>1, <1>2 DEF IInv, Rows, Tidy
<1>4. PICK l \in Listing : listing' = [listing EXCEPT ![c] = l] /\ l.at \in {"idle", "rename"}
  <2>1. CASE l0.unnamed = {}
    BY <2>1, IdleFacts DEF Rename, Go
  <2>2. CASE l0.unnamed # {}
    <3>1. PICK i \in l0.unnamed : listing' = [listing EXCEPT ![c] = [l0 EXCEPT !.unnamed = @ \ {i}]]
      BY <2>2 DEF Rename, Go
    <3> DEFINE m == [l0 EXCEPT !.unnamed = @ \ {i}]
    <3>2. m \in Listing /\ m.at = "rename"
      BY <1>1 DEF Listing
    <3> QED
      BY <3>1, <3>2
  <2> QED
    BY <2>1, <2>2
<1>5. Staged(l) /\ Current(l)' /\ l.at \notin OnOrphan /\ l0.at \notin OnOrphan
  BY <1>1, <1>4 DEF Staged, Current, Shelled, Collapsing, OnOrphan
<1>6. \A b \in Bases, i \in LineIds : Worth(i, b)' = Worth(i, b)
  BY <1>1, <1>2 DEF Worth, There
<1>7. Homed => Homed'
  BY <1>1, <1>2 DEF Homed, There
<1> QED
  BY <1>1, <1>3, <1>4, <1>5, <1>6, <1>7, Relines

LEMMA TwiceIsInt ==
  ASSUME IInv, NEW c \in Listers, NEW b \in Bases
  PROVE  Twice(listing[c], b) \in Int /\ (Uncopied(listing[c]) => Twice(listing[c], b) \in Nat)
<1> DEFINE l == listing[c]
           o == Head(l.todo)
<1>1. CASE l.at \notin OnOrphan
  BY <1>1 DEF Twice
<1>2. CASE l.at \in OnOrphan
  <2>1. b \in Accounts /\ None \in Accounts
    BY Facts
  <2>2. /\ held[o.id][b] \in Nat /\ held[o.id][None] \in Nat
        /\ l.copies[b] \in Nat /\ l.copies[None] \in Nat
    BY <1>2, <2>1, OrphanFacts
  <2>3. Uncopied(l) /\ l.at # "accounts" =>
          l.copies[b] <= held[o.id][b] /\ l.copies[None] <= held[o.id][None]
    BY <1>2, <2>1 DEF Uncopied, OnOrphan
  <2> QED
    BY <1>2, <2>2, <2>3 DEF Twice
<1> QED
  BY <1>1, <1>2

\* What a listing dropped half way has copied stays.
LEMMA DropStep ==
  ASSUME IInv, NEW c \in Listers, Drop(c)
  PROVE  IInv'
<1> DEFINE l0 == listing[c]
<1>1. /\ l0 \in Listing /\ ~At(c, "idle") /\ cuts' = cuts + 1 /\ cuts \in Nat /\ cuts' \in 0 .. MaxCuts
      /\ listing' = [listing EXCEPT ![c] = Idle]
      /\ UNCHANGED <<rows, wanted, homeless, touched, edits, overlaps>>
  BY SoundNow, Facts DEF Drop, Go, IInv, Counts
<1>2. Rows' /\ Tidy' /\ Counts'
  BY <1>1 DEF IInv, Rows, Tidy, Counts, rows
<1>3. ASSUME overlaps' = 0 PROVE overlaps = 0 /\ Alone(c) /\ Sound(Idle)'
  <2>1. overlaps = 0 /\ Alone(c) /\ Sound(l0)
    BY <1>1, <1>3, SoundNow
  <2>2. Current(Idle)' /\ Uncopied(Idle)' /\ (Homed => Homed')
    BY <1>1 DEF Current, Uncopied, Collapsing, Shelled, Idle, Homed, There, rows
  <2>3. ASSUME NEW b \in Bases, ~touched
        PROVE  Endpoints(b)' >= wanted'[b] + Twice(Idle, b)'
    <3>1. Endpoints(b)' = Endpoints(b)
      <4>1. \A i \in LineIds : Worth(i, b)' = Worth(i, b)
        BY <1>1 DEF Worth, rows
      <4> QED
        BY <4>1, EndpointsSame
    <3>2. Twice(Idle, b)' = 0
      BY DEF Twice, OnOrphan, Idle
    <3>3. Twice(l0, b) \in Nat
      BY <2>1, <2>3, TwiceIsInt DEF Sound
    <3>4. Endpoints(b) >= wanted[b] + Twice(l0, b)
      BY <2>1, <2>3 DEF Sound
    <3>5. Endpoints(b) \in Nat /\ wanted[b] \in Nat
      BY EndpointsBound DEF IInv, Counts
    <3> QED
      BY <1>1, <3>1, <3>2, <3>3, <3>4, <3>5
  <2>4. cuts' # 0
    BY <1>1
  <2> QED
    BY <1>1, <2>1, <2>2, <2>3, <2>4 DEF Sound, rows
<1> QED
  BY <1>1, <1>2, <1>3, IdleFacts, Steady
-------------------------------------------------------------------------------
(***************************************************************************)
(* The operator                                                            *)
(***************************************************************************)
\* Enough for what the operator does is that the endpoints and those wanted change alike.
LEMMA Operated ==
  ASSUME IInv, UNCHANGED <<builtin, listing, overlaps, cuts>>, Rows', Tidy', Counts',
         overlaps = 0 =>
           /\ \A c \in Listers : Current(listing[c]) => Current(listing[c])'
           /\ ~touched' =>
                /\ ~touched
                /\ \A c \in Listers :
                     /\ Uncopied(listing[c]) => Uncopied(listing[c])'
                     /\ \A b \in Bases :
                          LET diff  == wanted[b] + Twice(listing[c], b)
                          IN  /\ Endpoints(b) >= diff => Endpoints(b)' >= diff'
                              /\ Endpoints(b) = diff => Endpoints(b)' = diff'
                /\ ~homeless' => ~homeless /\ (Homed => Homed')
  PROVE  IInv'
<1>1. Listings'
  BY DEF IInv, Listings, Staged
<1>2. ASSUME NEW c \in Listers
      PROVE  (At(c, "idle")' <=> At(c, "idle")) /\ (Alone(c)' <=> Alone(c))
  BY DEF At, Alone
<1>3. Serial'
  <2> SUFFICES ASSUME overlaps' = 0 PROVE Serial'
    BY DEF Serial
  <2>1. overlaps = 0 /\ (\A b \in Builtins : builtin[b] <= 1)
        /\ \A c \in Listers : ~At(c, "idle") => Alone(c) /\ Current(listing[c])
    BY DEF IInv, Serial
  <2>2. ASSUME NEW c \in Listers, ~At(c, "idle")' PROVE Alone(c)' /\ Current(listing[c])'
    BY <1>2, <2>1, <2>2
  <2>3. \A b \in Builtins : builtin'[b] <= 1
    BY <2>1
  <2> QED
    BY <2>2, <2>3 DEF Serial
<1>4. Balanced'
  <2> SUFFICES ASSUME overlaps' = 0, ~touched' PROVE Balanced'
    BY DEF Balanced
  <2>1. overlaps = 0 /\ ~touched /\ Balanced
    BY DEF IInv
  <2>2. \A c \in Listers : Uncopied(listing[c])'
    BY <2>1 DEF Balanced
  <2>3. ~homeless' => Homed'
    BY <2>1 DEF Balanced
  <2>4. ASSUME NEW c \in Listers, Alone(c)', NEW b \in Bases
        PROVE  /\ Endpoints(b)' >= wanted'[b] + Twice(listing[c], b)'
               /\ cuts' = 0 /\ ~homeless' => Endpoints(b)' = wanted'[b] + Twice(listing[c], b)'
    <3>1. Alone(c)
      BY <1>2, <2>4 DEF Alone, At
    <3>2. /\ Endpoints(b) >= wanted[b] + Twice(listing[c], b)
          /\ cuts = 0 /\ ~homeless => Endpoints(b) = wanted[b] + Twice(listing[c], b)
      BY <2>1, <3>1 DEF Balanced
    <3> QED
      BY <2>1, <3>2
  <2> QED
    BY <2>2, <2>3, <2>4 DEF Balanced
<1> QED
  BY <1>1, <1>3, <1>4 DEF IInv

\* Where no listing is collapsing the lines, nothing is twice.
LEMMA NotMoving ==
  ASSUME ~Moving, NEW c \in Listers
  PROVE  listing[c].at \notin Collapsing /\ listing[c].at \notin OnOrphan
BY DEF Moving, Collapsing, OnOrphan

LEMMA NextPriorityFact ==
  ASSUME Rows, NEW p \in Priorities \cup NextPriorities
  PROVE  p \in Nat
<1>1. \A i \in There : lines[i].priority \in Nat
  BY DEF There, Rows, Lines
<1> QED
  BY <1>1, ConstantsAssumption DEF NextPriorities

LEMMA CreateLineStep ==
  ASSUME IInv, CreateLine, edits < MaxEdits, edits' = edits + 1, UNCHANGED <<listing, overlaps, cuts>>
  PROVE  IInv'
<1>1. PICK base \in Urls, named \in BOOLEAN, p \in Priorities \cup NextPriorities :
        /\ CreateRow(base, p, named)
        /\ wanted' = [b \in Bases |-> wanted[b] + IF b = base THEN 1 ELSE 0]
  BY DEF CreateLine
<1>2. base \in Accounts /\ p \in Nat /\ UNCHANGED <<builtin, held, homeless, touched>>
  BY NextPriorityFact DEF IInv, CreateLine, Accounts
<1>3. PICK k \in LineIds :
        /\ k \notin There /\ lines[k] = None /\ held[k] = NoRows
        /\ lines'[k] # None /\ lines'[k].base = base /\ Rows' /\ Tidy'
        /\ \A i \in LineIds \ {k} : lines'[i] = lines[i]
  BY <1>1, <1>2, RowCreated
<1>4. Counts'
  BY <1>1, <1>2, Facts DEF IInv, Counts
<1>5. ASSUME NEW c \in Listers, Current(listing[c]) PROVE Current(listing[c])'
  <2>1. There \subseteq There' /\ \A i \in There : lines'[i] = lines[i]
    BY <1>3 DEF There
  <2> QED
    BY <1>2, <1>5, <2>1 DEF Current
<1>6. ASSUME NEW c \in Listers
      PROVE  /\ Uncopied(listing[c])' <=> Uncopied(listing[c])
             /\ \A b \in Bases : Twice(listing[c], b)' = Twice(listing[c], b)
  BY <1>2 DEF Uncopied, Twice
<1>7. ASSUME NEW b \in Bases PROVE Endpoints(b)' = Endpoints(b) + IF b = base THEN 1 ELSE 0
  <2>1. \A i \in LineIds \ {k} : Worth(i, b)' = Worth(i, b)
    BY <1>2, <1>3 DEF Worth
  <2>2. Worth(k, b) = 0 /\ Worth(k, b)' = IF b = base THEN 1 ELSE 0
    <3>1. NoRows[b] = 0 /\ NoRows[None] = 0
      BY Facts DEF NoRows
    <3> QED
      BY <1>2, <1>3, <3>1 DEF Worth
  <2>3. Endpoints(b)' + Worth(k, b) = Endpoints(b) + Worth(k, b)'
    BY <1>3, <2>1, EndpointsChange DEF IInv
  <2>4. Endpoints(b) \in Nat /\ Endpoints(b)' \in Nat
    BY <1>3, EndpointsBound, EndpointsLater DEF IInv
  <2> QED
    BY <2>2, <2>3, <2>4
<1>8. Homed => Homed'
  <2>1. NoRows[None] = 0
    BY Facts DEF NoRows
  <2> QED
    BY <1>2, <1>3, <2>1 DEF Homed, There
<1>9. \A b \in Bases : /\ wanted'[b] = wanted[b] + IF b = base THEN 1 ELSE 0
                       /\ wanted[b] \in Nat /\ Endpoints(b) \in Nat
  BY <1>1, EndpointsBound DEF IInv, Counts
<1>10. ASSUME NEW c \in Listers, NEW b \in Bases
       PROVE  LET diff == wanted[b] + Twice(listing[c], b)
              IN  /\ Endpoints(b) >= diff => Endpoints(b)' >= diff'
                  /\ Endpoints(b) = diff => Endpoints(b)' = diff'
  <2>1. Twice(listing[c], b) \in Int
    BY TwiceIsInt
  <2> QED
    BY <1>6, <1>7, <1>9, <2>1
<1> QED
  BY <1>2, <1>3, <1>4, <1>5, <1>6, <1>8, <1>10, Operated

\* What the operator does to accounts, while no listing is collapsing lines.
LEMMA Untouched ==
  ASSUME IInv, touched' = (touched \/ Moving), UNCHANGED <<builtin, lines, created, listing>>,
         Counts',
         ~Moving /\ ~touched => \A b \in Bases :
           /\ Endpoints(b) >= wanted[b] => Endpoints(b)' >= wanted'[b]
           /\ Endpoints(b) = wanted[b] => Endpoints(b)' = wanted'[b]
  PROVE  /\ \A c \in Listers : Current(listing[c]) => Current(listing[c])'
         /\ ~touched' =>
              /\ ~touched
              /\ \A c \in Listers :
                   /\ Uncopied(listing[c]) => Uncopied(listing[c])'
                   /\ \A b \in Bases :
                        LET diff  == wanted[b] + Twice(listing[c], b)
                        IN  /\ Endpoints(b) >= diff => Endpoints(b)' >= diff'
                            /\ Endpoints(b) = diff => Endpoints(b)' = diff'
<1>1. \A c \in Listers : Current(listing[c]) => Current(listing[c])'
  BY DEF Current, There
<1>2. ASSUME ~touched', NEW c \in Listers
      PROVE  ~touched /\ Uncopied(listing[c])' /\ \A b \in Bases :
               Twice(listing[c], b) = 0 /\ Twice(listing[c], b)' = 0
  <2>1. ~touched /\ ~Moving
    BY <1>2 DEF IInv, Counts
  <2>2. listing[c].at \notin Collapsing /\ listing[c].at \notin OnOrphan /\ listing' = listing
    BY <2>1, NotMoving
  <2> QED
    BY <2>1, <2>2 DEF Uncopied, Twice, OnOrphan
<1>3. \A b \in Bases : wanted[b] \in Nat
  BY DEF IInv, Counts
<1>4. ASSUME ~touched', NEW c \in Listers, NEW b \in Bases
      PROVE  LET diff  == wanted[b] + Twice(listing[c], b)
             IN  /\ Endpoints(b) >= diff => Endpoints(b)' >= diff'
                 /\ Endpoints(b) = diff => Endpoints(b)' = diff'
  <2>1. ~touched /\ ~Moving /\ wanted[b] \in Nat /\ wanted'[b] \in Nat
    BY <1>3, <1>4 DEF IInv, Counts
  <2>2. Twice(listing[c], b) = 0 /\ Twice(listing[c], b)' = 0
    BY <1>2, <1>4
  <2> QED
    BY <2>1, <2>2
<1>5. ~touched' => ~touched
  BY DEF IInv, Counts
<1> QED
  BY <1>1, <1>2, <1>4, <1>5

LEMMA AccountsChanged ==
  ASSUME IInv, touched' = (touched \/ Moving), UNCHANGED <<builtin, lines, created, listing, overlaps, cuts>>,
         Rows', Tidy', Counts',
         \A b \in Bases :
           /\ Endpoints(b) >= wanted[b] => Endpoints(b)' >= wanted'[b]
           /\ Endpoints(b) = wanted[b] => Endpoints(b)' = wanted'[b],
         ~homeless' => ~homeless /\ (Homed => Homed')
  PROVE  IInv'
<1>1. \A c \in Listers : Current(listing[c]) => Current(listing[c])'
  BY Untouched
<1>2. ASSUME ~touched'
      PROVE  /\ ~touched
             /\ \A c \in Listers :
                  /\ Uncopied(listing[c]) => Uncopied(listing[c])'
                  /\ \A b \in Bases :
                       LET diff  == wanted[b] + Twice(listing[c], b)
                       IN  /\ Endpoints(b) >= diff => Endpoints(b)' >= diff'
                           /\ Endpoints(b) = diff => Endpoints(b)' = diff'
  BY <1>2, Untouched
<1> QED
  BY <1>1, <1>2, Operated

LEMMA CreateAccountStep ==
  ASSUME IInv, CreateAccount, edits < MaxEdits, edits' = edits + 1, UNCHANGED <<listing, overlaps, cuts>>
  PROVE  IInv'
<1>1. PICK k \in There, a \in Accounts :
        /\ Accepted(a) /\ held[k][a] < MaxRows /\ Insert(k, a)
        /\ wanted' = [b \in Bases |-> wanted[b] + IF b = Address(k, a) THEN 1 ELSE 0]
        /\ homeless' = (homeless \/ (a = None /\ lines[k].base \notin Bases))
  BY DEF CreateAccount
<1>2. /\ touched' = (touched \/ Moving) /\ UNCHANGED <<builtin, lines, created>>
      /\ k \in LineIds /\ lines[k] # None /\ a # NoUrl
  BY <1>1 DEF CreateAccount, There, Accepted
<1>3. /\ Rows' /\ Tidy'
      /\ \A b \in Bases : Endpoints(b)' = Endpoints(b) + IF b = Address(k, a) THEN 1 ELSE 0
      /\ \A i \in LineIds, x \in Accounts : i # k \/ x # a => held'[i][x] = held[i][x]
  BY <1>1, <1>2, Inserted
<1>4. \A b \in Bases : /\ wanted'[b] = wanted[b] + IF b = Address(k, a) THEN 1 ELSE 0
                       /\ wanted[b] \in Nat /\ Endpoints(b) \in Nat
  BY <1>1, EndpointsBound DEF IInv, Counts
<1>5. Counts'
  <2>1. touched' \in BOOLEAN /\ homeless' \in BOOLEAN
    BY <1>1, <1>2
  <2>2. wanted' \in [Bases -> Nat]
    BY <1>1, <1>4
  <2>3. edits' \in 0 .. MaxEdits /\ UNCHANGED <<overlaps, cuts>>
    BY Facts DEF IInv, Counts
  <2> QED
    BY <2>1, <2>2, <2>3 DEF IInv, Counts
<1>6. \A b \in Bases : /\ Endpoints(b) >= wanted[b] => Endpoints(b)' >= wanted'[b]
                       /\ Endpoints(b) = wanted[b] => Endpoints(b)' = wanted'[b]
  BY <1>3, <1>4
<1>7. ASSUME ~homeless' PROVE ~homeless /\ (Homed => Homed')
  <2>1. ~homeless /\ ~(a = None /\ lines[k].base \notin Bases)
    BY <1>1, <1>7
  <2> QED
    BY <1>2, <1>3, <2>1, Facts DEF Homed, There
<1>8. ~homeless' => ~homeless /\ (Homed => Homed')
  BY <1>7
<1>9. Rows' /\ Tidy'
  BY <1>3
<1>10. touched' = (touched \/ Moving) /\ UNCHANGED <<builtin, lines, created, listing, overlaps, cuts>>
  BY <1>2
<1> QED
  BY <1>5, <1>6, <1>8, <1>9, <1>10, AccountsChanged

LEMMA DeleteAccountStep ==
  ASSUME IInv, DeleteAccount, edits < MaxEdits, edits' = edits + 1, UNCHANGED <<listing, overlaps, cuts>>
  PROVE  IInv'
<1>1. PICK k \in There, a \in Accounts :
        /\ held[k][a] > 0 /\ held' = [held EXCEPT ![k][a] = @ - 1]
        /\ wanted' = [b \in Bases |-> wanted[b] - IF b = Address(k, a) /\ wanted[b] > 0 THEN 1 ELSE 0]
  BY DEF DeleteAccount
<1>2. /\ touched' = (touched \/ Moving) /\ UNCHANGED <<builtin, lines, created, homeless>>
      /\ k \in LineIds /\ lines[k] # None /\ held[k] \in [Accounts -> 0 .. MaxRows]
  BY DEF DeleteAccount, There, IInv, Rows
<1> DEFINE less == [held[k] EXCEPT ![a] = @ - 1]
<1>3. /\ less \in [Accounts -> 0 .. MaxRows] /\ less[a] = held[k][a] - 1
      /\ \A x \in Accounts \ {a} : less[x] = held[k][x]
  BY <1>1, <1>2, OneLess
<1>4. held' = [held EXCEPT ![k] = less]
  BY <1>1
<1> HIDE DEF less
<1>5. /\ held' \in [LineIds -> [Accounts -> 0 .. MaxRows]] /\ held'[k] = less
      /\ \A i \in LineIds \ {k} : held'[i] = held[i]
  <2>1. held \in [LineIds -> [Accounts -> 0 .. MaxRows]] /\ k \in LineIds
    BY <1>2 DEF IInv, Rows
  <2> QED
    BY <1>3, <1>4, <2>1
<1>6. Rows' /\ Tidy'
  <2>1. Rows'
    BY <1>2, <1>5 DEF IInv, Rows
  <2>2. held[k][NoUrl] = 0 /\ NoUrl # a
    BY <1>1, <1>2 DEF IInv, Tidy
  <2>3. Tidy'
    BY <1>2, <1>3, <1>5, <2>2, Facts DEF IInv, Tidy
  <2> QED
    BY <2>1, <2>3
<1>7. \A x \in Accounts : held[k][x] \in Nat
  BY <1>2, Facts
<1>8. ASSUME NEW b \in Bases
      PROVE  /\ Endpoints(b)' = Endpoints(b) - IF b = Address(k, a) THEN 1 ELSE 0
             /\ b = Address(k, a) => Endpoints(b) > 0
             /\ Endpoints(b) \in Nat
  <2>1. \A i \in LineIds \ {k} : Worth(i, b)' = Worth(i, b)
    BY <1>2, <1>5 DEF Worth
  <2>2. Endpoints(b)' + Worth(k, b) = Endpoints(b) + Worth(k, b)'
    BY <1>2, <1>6, <2>1, EndpointsChange DEF IInv
  <2>3. Worth(k, b) = Worth(k, b)' + IF b = Address(k, a) THEN 1 ELSE 0
    <3>1. b \in Accounts /\ None \in Accounts /\ b # None
      BY Facts
    <3>2. CASE a = None
      BY <1>2, <1>3, <1>5, <1>7, <3>1, <3>2 DEF Worth, Address
    <3>3. CASE a = b
      BY <1>2, <1>3, <1>5, <1>7, <3>1, <3>3 DEF Worth, Address
    <3>4. CASE a # None /\ a # b
      BY <1>2, <1>3, <1>5, <1>7, <3>1, <3>4 DEF Worth, Address
    <3> QED
      BY <3>2, <3>3, <3>4
  <2>4. /\ Endpoints(b) \in Nat /\ Worth(k, b) \in Nat /\ Worth(k, b) <= Endpoints(b)
        /\ Endpoints(b)' \in Nat /\ Worth(k, b)' \in Nat
    BY <1>2, <1>6, EndpointsBound, EndpointsLater, WorthIsNat DEF IInv
  <2> QED
    BY <2>2, <2>3, <2>4
<1>9. \A b \in Bases :
        /\ wanted'[b] = wanted[b] - IF b = Address(k, a) /\ wanted[b] > 0 THEN 1 ELSE 0
        /\ wanted[b] \in Nat /\ wanted'[b] \in Nat
  BY <1>1 DEF IInv, Counts
<1>10. Counts'
  <2>1. touched' \in BOOLEAN
    BY <1>2
  <2>2. wanted' \in [Bases -> Nat]
    BY <1>1, <1>9
  <2>3. edits' \in 0 .. MaxEdits /\ UNCHANGED <<overlaps, cuts, homeless>>
    BY <1>2, Facts DEF IInv, Counts
  <2> QED
    BY <2>1, <2>2, <2>3 DEF IInv, Counts
<1>11. ASSUME NEW b \in Bases
       PROVE  /\ Endpoints(b) >= wanted[b] => Endpoints(b)' >= wanted'[b]
              /\ Endpoints(b) = wanted[b] => Endpoints(b)' = wanted'[b]
  <2>1. CASE b = Address(k, a)
    BY <1>8, <1>9, <2>1
  <2>2. CASE b # Address(k, a)
    BY <1>8, <1>9, <2>2
  <2> QED
    BY <2>1, <2>2
<1>12. Homed => Homed'
  <2> SUFFICES ASSUME Homed, NEW i \in There', lines'[i].base \notin Bases PROVE held'[i][None] = 0
    BY DEF Homed
  <2>1. i \in There /\ held[i][None] = 0 /\ i \in LineIds
    BY <1>2 DEF Homed, There
  <2>2. CASE i = k
    <3>1. a # None
      BY <1>1, <2>1, <2>2
    <3> QED
      BY <1>3, <1>5, <2>1, <2>2, <3>1, Facts
  <2> QED
    BY <1>5, <2>1, <2>2
<1> QED
  BY <1>2, <1>6, <1>10, <1>11, <1>12, AccountsChanged
-------------------------------------------------------------------------------
LEMMA TotalOfNothing ==
  ASSUME NEW f, \A i \in LineIds : f[i] = 0
  PROVE  Total(f) = 0
<1>1. MaxLines \in Nat
  BY Facts
<1>2. PICK u : Sums(f, u) /\ Total(f) = u[MaxLines]
  BY TotalIsSum
<1>3. \A n \in 0 .. MaxLines : u[n] = IF n = 0 THEN 0 ELSE u[n - 1] + f[n]
  BY <1>2 DEF Sums
<1> DEFINE S == {n \in 0 .. MaxLines : u[n] = 0}
<1>4. 0 \in S /\ \A n \in 1 .. MaxLines : n - 1 \in S => n \in S
  BY <1>1, <1>3 DEF LineIds
<1> HIDE DEF S
<1>5. MaxLines \in S
  BY <1>1, <1>4, UpTo
<1> QED
  BY <1>2, <1>5 DEF S

LEMMA Initial == Init => IInv
<1> SUFFICES ASSUME Init PROVE IInv
  OBVIOUS
<1>1. PICK base \in Urls :
        lines = [i \in LineIds |-> IF i > created THEN None
                                  ELSE [base |-> base, priority |-> 0, named |-> FALSE]]
  BY DEF Init
<1>2. /\ created \in 0 .. 1 /\ builtin = [b \in Builtins |-> 0] /\ held = [i \in LineIds |-> NoRows]
      /\ listing = [c \in Listers |-> Idle]
      /\ wanted = [b \in Bases |-> IF \E i \in There : lines[i].base = b THEN 1 ELSE 0]
      /\ homeless = FALSE /\ touched = FALSE /\ edits = 0 /\ overlaps = 0 /\ cuts = 0
  BY DEF Init
<1>3. NoRows \in [Accounts -> 0 .. MaxRows] /\ \A a \in Accounts : NoRows[a] = 0
  BY Facts DEF NoRows
<1>4. [base |-> base, priority |-> 0, named |-> FALSE] \in Lines /\ created \in 0 .. MaxLines
      /\ [base |-> base, priority |-> 0, named |-> FALSE] # None
  <2>1. base \in Accounts
    BY DEF Accounts
  <2>2. [base |-> base, priority |-> 0, named |-> FALSE] \in Lines
    BY <2>1 DEF Lines
  <2>3. created \in 0 .. MaxLines
    BY <1>2, Facts
  <2> QED
    BY <2>2, <2>3, LineAssumption
<1>5. Rows
  BY <1>1, <1>2, <1>3, <1>4 DEF Rows
<1>6. Tidy
  BY <1>1, <1>2, <1>3, Facts DEF Tidy
<1>7. Listings
  BY <1>2, IdleFacts DEF Listings
<1>8. Counts
  <2>1. wanted \in [Bases -> Nat]
    BY <1>2
  <2>2. edits \in 0 .. MaxEdits /\ overlaps \in 0 .. MaxOverlaps /\ cuts \in 0 .. MaxCuts
    BY <1>2, Facts
  <2>3. homeless \in BOOLEAN /\ touched \in BOOLEAN
    BY <1>2
  <2> QED
    BY <2>1, <2>2, <2>3 DEF Counts
<1>9. Serial
  BY <1>2, IdleFacts DEF Serial, At
<1>10. ASSUME NEW b \in Bases PROVE Endpoints(b) = wanted[b]
  <2> DEFINE f == [i \in LineIds |-> Worth(i, b)]
             g == [i \in LineIds |-> 0]
  <2>1. 1 \in LineIds /\ \A i \in LineIds : i # 1 => i > created
    BY <1>2, Facts DEF LineIds
  <2>2. \A i \in LineIds \ {1} : Worth(i, b) = 0
    BY <1>1, <2>1 DEF Worth
  <2>3. Worth(1, b) = wanted[b]
    <3>1. held[1][b] = 0 /\ held[1][None] = 0
      BY <1>2, <1>3, <2>1, Facts
    <3>2. CASE created = 0
      <4>1. There = {}
        BY <1>1, <3>2 DEF There, LineIds
      <4>2. lines[1] = None
        BY <1>1, <2>1, <3>2
      <4> QED
        BY <1>2, <4>1, <4>2 DEF Worth
    <3>3. CASE created = 1
      <4>1. There = {1} /\ lines[1].base = base /\ lines[1] # None
        BY <1>1, <1>4, <2>1, <3>3 DEF There
      <4> QED
        BY <1>2, <3>1, <4>1 DEF Worth
    <3> QED
      BY <1>2, <3>2, <3>3
  <2>4. f \in Worths /\ g \in Worths /\ f[1] = wanted[b] /\ g[1] = 0
        /\ \A i \in LineIds \ {1} : f[i] = g[i]
    BY <1>5, <2>1, <2>2, <2>3, WorthIsNat DEF Worths
  <2>5. Total(g) = 0
    BY TotalOfNothing
  <2>6. Endpoints(b) = Total(f)
    BY DEF Endpoints
  <2> HIDE DEF f, g
  <2>7. Total(f) + g[1] = Total(g) + f[1]
    BY <2>1, <2>4, TotalChange
  <2>8. Total(f) \in Nat /\ wanted[b] \in Nat
    BY <1>8, <2>4, TotalBounds DEF Counts
  <2> QED
    BY <2>4, <2>5, <2>6, <2>7, <2>8
<1>11. Balanced
  <2>1. \A c \in Listers : Uncopied(listing[c]) /\ \A b \in Bases : Twice(listing[c], b) = 0
    BY <1>2 DEF Uncopied, Twice, Idle, OnOrphan
  <2>2. Homed
    BY <1>2, <1>3, Facts DEF Homed, There
  <2>3. \A b \in Bases : wanted[b] \in Nat
    BY <1>8 DEF Counts
  <2> QED
    BY <1>10, <2>1, <2>2, <2>3 DEF Balanced
<1> QED
  BY <1>5, <1>6, <1>7, <1>8, <1>9, <1>11 DEF IInv

LEMMA Inductive == ASSUME IInv, [Next]_vars PROVE IInv'
<1>1. CASE Operator
  BY <1>1, CreateLineStep, CreateAccountStep, DeleteAccountStep DEF Operator
<1>2. ASSUME NEW c \in Listers, Step(c) PROVE IInv'
  BY <1>2, BeginStep, FindBuiltinStep, CreateBuiltinStep, CustomsStep, CreateShellStep, ClearBaseStep,
     MoveLineStep, ListAccountsStep, CopyAccountStep, DeleteOrphanStep, ListNamesStep, RenameStep DEF Step
<1>3. ASSUME NEW c \in Listers, Drop(c) PROVE IInv'
  BY <1>3, DropStep
<1>4. CASE UNCHANGED vars
  <2>1. UNCHANGED <<builtin, lines, created, held, listing, wanted, homeless, touched, edits, overlaps, cuts>>
    BY <1>4 DEF vars, rows
  <2>2. Rows' /\ Tidy' /\ Counts'
    BY <2>1 DEF IInv, Rows, Tidy, Counts
  <2>3. \A c \in Listers : /\ Current(listing[c]) => Current(listing[c])'
                           /\ Uncopied(listing[c]) => Uncopied(listing[c])'
    BY <2>1 DEF Current, Uncopied, There
  <2>4. ASSUME NEW c \in Listers, NEW b \in Bases
        PROVE  Endpoints(b)' = Endpoints(b) /\ Twice(listing[c], b)' = Twice(listing[c], b)
    <3>1. \A i \in LineIds : Worth(i, b)' = Worth(i, b)
      BY <2>1 DEF Worth
    <3> QED
      BY <2>1, <3>1, EndpointsSame DEF Twice
  <2>5. Homed => Homed'
    BY <2>1 DEF Homed, There
  <2> QED
    BY <2>1, <2>2, <2>3, <2>4, <2>5, Operated
<1> QED
  BY <1>1, <1>2, <1>3, <1>4 DEF Next
-------------------------------------------------------------------------------
\* The invariant of every reachable state.
THEOREM InductiveInvariant == Spec => []IInv
BY Initial, Inductive, PTL DEF Spec

\* The variables stay in their ranges, and lines that are gone leave no accounts behind:
\* create_provider_account is refused for a line that is not there, and the deletion of a
\* line takes its accounts with it, however listings overlap.
THEOREM TypeCorrect == Spec => []TypeOK
<1>1. IInv => TypeOK
  BY DEF IInv, Rows, Tidy, Listings, Counts, Listing, Steps, TypeOK
<1> QED
  BY InductiveInvariant, <1>1, PTL

LEMMA AllIdle ==
  ASSUME IInv, overlaps = 0, ~touched, NEW b \in Bases
  PROVE  /\ Endpoints(b) >= wanted[b]
         /\ cuts = 0 /\ ~homeless /\ (\A c \in Listers : At(c, "idle")) => Endpoints(b) = wanted[b]
<1>1. PICK c \in Listers : Alone(c)
  <2>1. CASE \E c \in Listers : ~At(c, "idle")
    BY <2>1 DEF IInv, Serial
  <2>2. CASE \A c \in Listers : At(c, "idle")
    BY <2>2, ConstantsAssumption DEF Alone
  <2> QED
    BY <2>1, <2>2
<1>2. /\ Endpoints(b) >= wanted[b] + Twice(listing[c], b)
      /\ cuts = 0 /\ ~homeless => Endpoints(b) = wanted[b] + Twice(listing[c], b)
  BY <1>1 DEF IInv, Balanced
<1>3. Endpoints(b) \in Nat /\ wanted[b] \in Nat
  BY EndpointsBound DEF IInv, Counts
<1>4. Twice(listing[c], b) \in Nat
  <2>1. Uncopied(listing[c])
    BY DEF IInv, Balanced
  <2> QED
    BY <2>1, TwiceIsInt
<1>5. At(c, "idle") => Twice(listing[c], b) = 0
  BY DEF At, Twice, OnOrphan
<1> QED
  BY <1>2, <1>3, <1>4, <1>5

\* Wherever a listing that runs alone stands, fails or is dropped, every endpoint the
\* operator has made and not deleted is there: ensure_single_custom_api_line deletes an
\* orphan only when its address and all its accounts are under the shell.
THEOREM EndpointsAreKept == Spec => []EndpointsKept
<1>1. IInv => EndpointsKept
  BY AllIdle DEF EndpointsKept, IInv, Counts
<1> QED
  BY InductiveInvariant, <1>1, PTL

\* ensure_builtin_provider_connections makes no line twice, and leaves no endpoint twice
\* once it has ended, for any lines, addresses and accounts.
THEOREM NothingIsTwice == Spec => []NothingTwice
<1>1. IInv => NothingTwice
  <2> SUFFICES ASSUME IInv, ~(overlaps > 0) PROVE NothingTwice
    BY DEF NothingTwice
  <2>1. overlaps = 0
    <3>1. overlaps \in 0 .. MaxOverlaps /\ MaxOverlaps \in Nat
      BY Facts DEF IInv, Counts
    <3> QED
      BY <3>1
  <2>2. \A b \in Builtins : builtin[b] <= 1
    BY <2>1 DEF IInv, Serial
  <2>3. ASSUME cuts = 0, ~touched, ~homeless, \A c \in Listers : At(c, "idle"), NEW b \in Bases
        PROVE  Endpoints(b) = wanted[b]
    BY <2>1, <2>3, AllIdle
  <2> QED
    BY <2>2, <2>3 DEF NothingTwice
<1> QED
  BY InductiveInvariant, <1>1, PTL
===============================================================================
