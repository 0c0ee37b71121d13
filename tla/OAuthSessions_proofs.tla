------------------------- MODULE OAuthSessions_proofs -------------------------
(***************************************************************************)
(* Proofs about OAuthSessions, for any number of sessions, completers and  *)
(* accounts.  The inductive invariant counts claims: a session that is     *)
(* pending has stored nothing and is claimed by nobody, and a consumed one *)
(* is claimed by at most one completer, before it stores credentials.      *)
(***************************************************************************)
EXTENDS OAuthSessions, TLAPS

Busy(c) == comp[c].pc \notin {"idle", "ended"}

\* A completer at work has a session, whose start has returned to the operator, and
\* the target that session had when it was read.
AtWork ==
  \A c \in Completers : Busy(c) =>
    /\ comp[c].session \in Sessions
    /\ start[comp[c].session] \in {"returned", "attended"}
    /\ comp[c].target \in {None, Reconnects[comp[c].session]}

\* What has not begun, or is pending, has no credentials stored and no claim.
Unclaimed ==
  \A s \in Sessions :
    session[s].state = "pending" \/ start[s] \notin {"returned", "attended"} =>
      links[s] = 0 /\ \A c \in Completers : At(c, "store") => comp[c].session # s

\* A claim is exclusive, and credentials are stored once it is over.
OneClaim ==
  \A c \in Completers :
    /\ At(c, "store") => /\ links[comp[c].session] = 0
                         /\ \A d \in Completers : At(d, "store") =>
                              comp[d].session # comp[c].session \/ d = c
    /\ At(c, "cleanup") => links[comp[c].session] = 1

\* Rows name their account or none, and go with the connection.
RowsBelong ==
  /\ \A s \in Sessions : session[s].target \in {None, Reconnects[s]}
  /\ ~connected => \A s \in Sessions : session[s].state = "absent"

\* A listener of ours is stopped when its time is up, never later.
Listening == port.owner = "ours" => port.left > 0

IInv ==
  /\ TypeOK /\ AtWork /\ Unclaimed /\ OneClaim /\ RowsBelong /\ Listening
  /\ LinkedOnce /\ ConsumedIsHandled
-------------------------------------------------------------------------------
Assumptions == /\ None \notin Accounts
               /\ Reconnects \in [Sessions -> Accounts \cup {None}]
               /\ Life \in Nat \ {0}

LEMMA Assumed == Assumptions
BY NoneAssumption, ReconnectsAssumption, LifeAssumption DEF Assumptions

LEMMA Initial == Init => IInv
<1> SUFFICES ASSUME Init PROVE IInv
  OBVIOUS
<1> USE Assumed DEF Assumptions
<1>1. TypeOK
  BY DEF Init, TypeOK, Rows, Absent, Starts, Idle, Completer, Points, Ports
<1>2. AtWork /\ OneClaim /\ Listening
  BY DEF Init, AtWork, OneClaim, Listening, Busy, At, Idle
<1>3. Unclaimed /\ RowsBelong /\ LinkedOnce /\ ConsumedIsHandled
  BY DEF Init, Unclaimed, RowsBelong, LinkedOnce, ConsumedIsHandled, At, Absent, Idle
<1> QED
  BY <1>1, <1>2, <1>3 DEF IInv

\* What Listening needs of the steps that leave the port alone, and of those that
\* give it back.
PortStays == port' = port \/ (port' \in Ports /\ port'.owner # "ours")

LEMMA StillListening == ASSUME Listening, PortStays PROVE Listening'
BY DEF Listening, PortStays

LEMMA StartCheckStep ==
  ASSUME IInv, NEW s \in Sessions, StartCheck(s)
  PROVE  IInv'
<1> USE Assumed DEF Assumptions, IInv, StartCheck
<1>1. TypeOK'
  BY DEF TypeOK, Rows, Starts, Idle, Absent, Ports, Completer, Points
<1>2. AtWork'
  BY DEF TypeOK, AtWork, Busy, At, Idle
<1>3. Unclaimed'
  BY DEF TypeOK, AtWork, Busy, Unclaimed, OneClaim, At, Idle, Absent
<1>4. OneClaim'
  BY DEF TypeOK, AtWork, Busy, Unclaimed, OneClaim, At, Idle
<1>5. RowsBelong'
  BY DEF TypeOK, AtWork, Busy, RowsBelong, At, Absent
<1>6. LinkedOnce' /\ ConsumedIsHandled'
  BY DEF TypeOK, AtWork, Busy, OneClaim, RowsBelong, LinkedOnce, ConsumedIsHandled, Claimed, At, Idle, Absent
<1>7. Listening'
  BY StillListening DEF PortStays, Ports
<1> QED
  BY <1>1, <1>2, <1>3, <1>4, <1>5, <1>6, <1>7

LEMMA StartInsertStep ==
  ASSUME IInv, NEW s \in Sessions, StartInsert(s)
  PROVE  IInv'
<1> USE Assumed DEF Assumptions, IInv, StartInsert, Pending
<1>1. TypeOK'
  BY DEF TypeOK, Rows, Starts, Idle, Absent, Ports, Completer, Points
<1>2. AtWork'
  BY DEF TypeOK, AtWork, Busy, At, Idle
<1>3. Unclaimed'
  BY DEF TypeOK, AtWork, Busy, Unclaimed, OneClaim, At, Idle, Absent
<1>4. OneClaim'
  BY DEF TypeOK, AtWork, Busy, Unclaimed, OneClaim, At, Idle
<1>5. RowsBelong'
  BY DEF TypeOK, AtWork, Busy, RowsBelong, At, Absent
<1>6. LinkedOnce' /\ ConsumedIsHandled'
  BY DEF TypeOK, AtWork, Busy, OneClaim, RowsBelong, LinkedOnce, ConsumedIsHandled, Claimed, At, Idle, Absent
<1>7. Listening'
  BY StillListening DEF PortStays, Ports
<1> QED
  BY <1>1, <1>2, <1>3, <1>4, <1>5, <1>6, <1>7

LEMMA StartListenStep ==
  ASSUME IInv, NEW s \in Sessions, StartListen(s)
  PROVE  IInv'
<1> USE Assumed DEF Assumptions, IInv, StartListen
<1>1. TypeOK'
  BY DEF TypeOK, Rows, Starts, Idle, Absent, Ports, Completer, Points
<1>2. AtWork'
  BY DEF TypeOK, AtWork, Busy, At, Idle
<1>3. Unclaimed'
  BY DEF TypeOK, AtWork, Busy, Unclaimed, OneClaim, At, Idle, Absent
<1>4. OneClaim'
  BY DEF TypeOK, AtWork, Busy, Unclaimed, OneClaim, At, Idle
<1>5. RowsBelong'
  BY DEF TypeOK, AtWork, Busy, RowsBelong, At, Absent
<1>6. LinkedOnce' /\ ConsumedIsHandled'
  BY DEF TypeOK, AtWork, Busy, OneClaim, RowsBelong, LinkedOnce, ConsumedIsHandled, Claimed, At, Idle, Absent
<1>7. Listening'
  BY DEF TypeOK, Ports, Listening
<1> QED
  BY <1>1, <1>2, <1>3, <1>4, <1>5, <1>6, <1>7

\* What the two ways a completer can move leave in its record.
LEMMA CompleterMoves ==
  ASSUME TypeOK, NEW c \in Completers
  PROVE  /\ End(c) =>
              /\ comp' \in [Completers -> Completer]
              /\ comp'[c].pc = "ended"
              /\ \A d \in Completers \ {c} : comp'[d] = comp[d]
         /\ \A p \in Points : comp' = [comp EXCEPT ![c].pc = p] =>
              /\ comp' \in [Completers -> Completer]
              /\ comp'[c].pc = p /\ comp'[c].session = comp[c].session
              /\ comp'[c].target = comp[c].target
              /\ \A d \in Completers \ {c} : comp'[d] = comp[d]
<1>1. comp[c] \in Completer
  BY DEF TypeOK
<1>2. [Idle EXCEPT !.pc = "ended"] \in Completer /\ [Idle EXCEPT !.pc = "ended"].pc = "ended"
  BY DEF Idle, Completer, Points
<1>3. ASSUME NEW p \in Points
      PROVE  LET q == [comp[c] EXCEPT !.pc = p] IN
             q \in Completer /\ q.pc = p /\ q.session = comp[c].session /\ q.target = comp[c].target
  BY <1>1 DEF Completer
<1>4. End(c) => comp' = [comp EXCEPT ![c] = [Idle EXCEPT !.pc = "ended"]]
  BY DEF End
<1>5. \A q \in Completer : comp' = [comp EXCEPT ![c] = q] =>
        /\ comp' \in [Completers -> Completer] /\ comp'[c] = q
        /\ \A d \in Completers \ {c} : comp'[d] = comp[d]
  <2>1. comp \in [Completers -> Completer]
    BY DEF TypeOK
  <2> QED
    BY <2>1
<1>6. ASSUME End(c)
      PROVE  /\ comp' \in [Completers -> Completer] /\ comp'[c].pc = "ended"
             /\ \A d \in Completers \ {c} : comp'[d] = comp[d]
  <2> DEFINE q == [Idle EXCEPT !.pc = "ended"]
  <2>1. q \in Completer /\ q.pc = "ended" /\ comp' = [comp EXCEPT ![c] = q]
    BY <1>2, <1>4, <1>6
  <2> HIDE DEF q
  <2> QED
    BY <1>5, <2>1
<1>7. ASSUME NEW p \in Points, comp' = [comp EXCEPT ![c].pc = p]
      PROVE  /\ comp' \in [Completers -> Completer]
             /\ comp'[c].pc = p /\ comp'[c].session = comp[c].session
             /\ comp'[c].target = comp[c].target
             /\ \A d \in Completers \ {c} : comp'[d] = comp[d]
  <2> DEFINE q == [comp[c] EXCEPT !.pc = p]
  <2>1. q \in Completer /\ q.pc = p /\ q.session = comp[c].session /\ q.target = comp[c].target
    BY <1>3
  <2>2. comp' = [comp EXCEPT ![c] = q]
    BY <1>7
  <2> HIDE DEF q
  <2> QED
    BY <1>5, <2>1, <2>2
<1> QED
  BY <1>6, <1>7

LEMMA LookupStep ==
  ASSUME IInv, NEW c \in Completers, Lookup(c)
  PROVE  IInv'
<1> USE Assumed DEF Assumptions
<1> DEFINE s == comp[c].session
<1>1. /\ TypeOK /\ comp[c] \in Completer /\ comp[c].pc = "lookup" /\ s \in Sessions
      /\ session[s] \in Rows /\ start[s] \in {"returned", "attended"}
      /\ UNCHANGED <<connected, accounts, links, start, port, orphaned>>
  BY DEF IInv, TypeOK, AtWork, Busy, Lookup, At
<1>2. CASE session[s].state = "pending" /\ session[s].left > 0
  <2> DEFINE q == [comp[c] EXCEPT !.pc = "exchange", !.target = session[s].target]
  <2>1. q \in Completer /\ q.pc = "exchange" /\ q.session = s /\ q.target = session[s].target
    BY <1>1 DEF Completer, Points, Rows
  <2>2. comp' = [comp EXCEPT ![c] = q] /\ session' = session
    BY <1>2 DEF Lookup
  <2>3. /\ comp' \in [Completers -> Completer] /\ comp'[c] = q
        /\ \A d \in Completers \ {c} : comp'[d] = comp[d]
    BY <1>1, <2>1, <2>2 DEF TypeOK
  <2> HIDE DEF q
  <2>4. TypeOK'
    BY <1>1, <2>2, <2>3 DEF TypeOK
  <2>5. AtWork' /\ Unclaimed' /\ OneClaim' /\ RowsBelong'
    BY <1>1, <2>1, <2>2, <2>3 DEF IInv, AtWork, Busy, Unclaimed, OneClaim, RowsBelong, At
  <2>6. LinkedOnce' /\ ConsumedIsHandled'
    BY <1>1, <2>1, <2>2, <2>3 DEF IInv, LinkedOnce, ConsumedIsHandled, Claimed, At
  <2>listening. Listening'
    BY <1>1, StillListening DEF IInv, PortStays
  <2> QED
    BY <2>4, <2>5, <2>6, <2>listening DEF IInv
<1>3. CASE ~(session[s].state = "pending" /\ session[s].left > 0)
  <2>1. /\ comp' \in [Completers -> Completer] /\ comp'[c].pc = "ended"
        /\ \A d \in Completers \ {c} : comp'[d] = comp[d]
    BY <1>1, <1>3, CompleterMoves DEF Lookup
  <2>2. /\ session' \in [Sessions -> Rows]
        /\ \A x \in Sessions : session'[x] = session[x] \/ session'[x] = Absent
    BY <1>1, <1>3 DEF Lookup, TypeOK, Absent, Rows
  <2>3. TypeOK'
    BY <1>1, <2>1, <2>2 DEF TypeOK
  <2>4. AtWork' /\ Unclaimed' /\ OneClaim' /\ RowsBelong'
    BY <1>1, <2>1, <2>2 DEF IInv, AtWork, Busy, Unclaimed, OneClaim, RowsBelong, At, Absent
  <2>5. LinkedOnce' /\ ConsumedIsHandled'
    BY <1>1, <2>1, <2>2 DEF IInv, LinkedOnce, ConsumedIsHandled, Claimed, At, Absent
  <2>listening. Listening'
    BY <1>1, StillListening DEF IInv, PortStays
  <2> QED
    BY <2>3, <2>4, <2>5, <2>listening DEF IInv
<1> QED
  BY <1>2, <1>3

LEMMA ExchangeStep ==
  ASSUME IInv, NEW c \in Completers, Exchange(c)
  PROVE  IInv'
<1> USE Assumed DEF Assumptions
<1>1. /\ TypeOK /\ comp[c].pc = "exchange"
      /\ UNCHANGED <<connected, accounts, session, links, start, port, orphaned>>
  BY DEF IInv, Exchange, At
<1>2. /\ comp' \in [Completers -> Completer] /\ comp'[c].pc \in {"consume", "ended"}
      /\ comp'[c].pc = "consume" =>
           comp'[c].session = comp[c].session /\ comp'[c].target = comp[c].target
      /\ \A d \in Completers \ {c} : comp'[d] = comp[d]
  BY <1>1, CompleterMoves DEF Exchange, Points
<1>3. TypeOK'
  BY <1>1, <1>2 DEF TypeOK
<1>4. AtWork' /\ Unclaimed' /\ OneClaim' /\ RowsBelong'
  BY <1>1, <1>2 DEF IInv, AtWork, Busy, Unclaimed, OneClaim, RowsBelong, At
<1>5. LinkedOnce' /\ ConsumedIsHandled'
  BY <1>1, <1>2 DEF IInv, LinkedOnce, ConsumedIsHandled, Claimed, At
<1>listening. Listening'
  BY <1>1, StillListening DEF IInv, PortStays
<1> QED
  BY <1>3, <1>4, <1>5, <1>listening DEF IInv

\* The one place a claim is made: only of a pending session, which nobody claims.
LEMMA ConsumeStep ==
  ASSUME IInv, NEW c \in Completers, Consume(c)
  PROVE  IInv'
<1> USE Assumed DEF Assumptions
<1> DEFINE s == comp[c].session
<1>1. /\ TypeOK /\ comp[c].pc = "consume" /\ s \in Sessions /\ session[s] \in Rows
      /\ start[s] \in {"returned", "attended"}
      /\ UNCHANGED <<connected, accounts, links, start, port, orphaned>>
  BY DEF IInv, TypeOK, AtWork, Busy, Consume, At
<1>2. CASE session[s].state = "pending"
  <2>1. /\ comp' \in [Completers -> Completer] /\ comp'[c].pc = "store"
        /\ comp'[c].session = s /\ comp'[c].target = comp[c].target
        /\ \A d \in Completers \ {c} : comp'[d] = comp[d]
    BY <1>1, <1>2, CompleterMoves DEF Consume, Points
  <2>2. /\ [session[s] EXCEPT !.state = "consumed"] \in Rows
        /\ [session[s] EXCEPT !.state = "consumed"].state = "consumed"
        /\ [session[s] EXCEPT !.state = "consumed"].target = session[s].target
    BY <1>1 DEF Rows
  <2>3. /\ session' \in [Sessions -> Rows]
        /\ session'[s].state = "consumed" /\ session'[s].target = session[s].target
        /\ \A x \in Sessions \ {s} : session'[x] = session[x]
    BY <1>1, <1>2, <2>2 DEF Consume, TypeOK
  <2>4. links[s] = 0 /\ \A d \in Completers : comp[d].pc = "store" => comp[d].session # s
    BY <1>1, <1>2 DEF IInv, Unclaimed, At
  <2>5. connected
    BY <1>1, <1>2 DEF IInv, RowsBelong
  <2> HIDE DEF s
  <2>6. TypeOK'
    BY <1>1, <2>1, <2>3 DEF TypeOK
  <2>7. AtWork' /\ RowsBelong'
    BY <1>1, <2>1, <2>3, <2>5 DEF IInv, AtWork, Busy, RowsBelong, s
  <2>8. Unclaimed' /\ OneClaim'
    BY <1>1, <2>1, <2>3, <2>4 DEF IInv, Unclaimed, OneClaim, At
  <2>9. s \in Claimed(Completers)' /\ \A d \in Completers : comp[d].pc = "store" => comp'[d] = comp[d]
    BY <1>1, <2>1 DEF Claimed, At
  <2>10. LinkedOnce' /\ ConsumedIsHandled'
    BY <1>1, <2>1, <2>3, <2>9 DEF IInv, LinkedOnce, ConsumedIsHandled, Claimed, At
  <2>listening. Listening'
    BY <1>1, StillListening DEF IInv, PortStays
  <2> QED
    BY <2>6, <2>7, <2>8, <2>10, <2>listening DEF IInv
<1>3. CASE session[s].state # "pending"
  <2>1. /\ comp' \in [Completers -> Completer] /\ comp'[c].pc = "ended" /\ session' = session
        /\ \A d \in Completers \ {c} : comp'[d] = comp[d]
    BY <1>1, <1>3, CompleterMoves DEF Consume
  <2>2. TypeOK'
    BY <1>1, <2>1 DEF TypeOK
  <2>3. AtWork' /\ Unclaimed' /\ OneClaim' /\ RowsBelong'
    BY <1>1, <2>1 DEF IInv, AtWork, Busy, Unclaimed, OneClaim, RowsBelong, At
  <2>4. LinkedOnce' /\ ConsumedIsHandled'
    BY <1>1, <2>1 DEF IInv, LinkedOnce, ConsumedIsHandled, Claimed, At
  <2>listening. Listening'
    BY <1>1, StillListening DEF IInv, PortStays
  <2> QED
    BY <2>2, <2>3, <2>4, <2>listening DEF IInv
<1> QED
  BY <1>2, <1>3

\* A claim ends in stored credentials, unless its account or connection is gone.
LEMMA StoreStep ==
  ASSUME IInv, NEW c \in Completers, Store(c)
  PROVE  IInv'
<1> USE Assumed DEF Assumptions
<1> DEFINE s == comp[c].session
           t == comp[c].target
<1>1. /\ TypeOK /\ comp[c].pc = "store" /\ s \in Sessions /\ links[s] = 0
      /\ t \in {None, Reconnects[s]} /\ start[s] \in {"returned", "attended"}
      /\ session[s].state # "pending"
      /\ \A d \in Completers : comp[d].pc = "store" => comp[d].session # s \/ d = c
      /\ UNCHANGED <<connected, accounts, session, start, port, orphaned>>
  BY DEF IInv, AtWork, Busy, Unclaimed, OneClaim, Store, At
<1>2. CASE connected /\ t \in accounts \cup {None}
  <2>1. /\ comp' \in [Completers -> Completer] /\ comp'[c].pc = "cleanup"
        /\ comp'[c].session = s /\ comp'[c].target = t
        /\ \A d \in Completers \ {c} : comp'[d] = comp[d]
    BY <1>1, <1>2, CompleterMoves DEF Store, Points
  <2>2. links' \in [Sessions -> Nat] /\ links'[s] = 1 /\ \A x \in Sessions \ {s} : links'[x] = links[x]
    BY <1>1, <1>2 DEF Store, TypeOK
  <2> HIDE DEF s, t
  <2>3. TypeOK'
    BY <1>1, <2>1, <2>2 DEF TypeOK
  <2>4. AtWork' /\ Unclaimed' /\ OneClaim' /\ RowsBelong'
    BY <1>1, <2>1, <2>2 DEF IInv, AtWork, Busy, Unclaimed, OneClaim, RowsBelong, At
  <2>5. LinkedOnce' /\ ConsumedIsHandled'
    BY <1>1, <2>1, <2>2 DEF IInv, LinkedOnce, ConsumedIsHandled, Claimed, At, s
  <2>listening. Listening'
    BY <1>1, StillListening DEF IInv, PortStays
  <2> QED
    BY <2>3, <2>4, <2>5, <2>listening DEF IInv
<1>3. CASE ~(connected /\ t \in accounts \cup {None})
  <2>1. /\ comp' \in [Completers -> Completer] /\ comp'[c].pc = "ended" /\ links' = links
        /\ \A d \in Completers \ {c} : comp'[d] = comp[d]
    BY <1>1, <1>3, CompleterMoves DEF Store
  <2>2. session[s].state = "consumed" => Reconnects[s] \notin accounts \cup {None}
    BY <1>1, <1>3 DEF IInv, RowsBelong
  <2> HIDE DEF s, t
  <2>3. TypeOK'
    BY <1>1, <2>1 DEF TypeOK
  <2>4. AtWork' /\ Unclaimed' /\ OneClaim' /\ RowsBelong'
    BY <1>1, <2>1 DEF IInv, AtWork, Busy, Unclaimed, OneClaim, RowsBelong, At
  <2>5. LinkedOnce' /\ ConsumedIsHandled'
    BY <1>1, <2>1, <2>2 DEF IInv, LinkedOnce, ConsumedIsHandled, Claimed, At, s
  <2>listening. Listening'
    BY <1>1, StillListening DEF IInv, PortStays
  <2> QED
    BY <2>3, <2>4, <2>5, <2>listening DEF IInv
<1> QED
  BY <1>2, <1>3

LEMMA CleanupStep ==
  ASSUME IInv, NEW c \in Completers, Cleanup(c)
  PROVE  IInv'
<1> USE Assumed DEF Assumptions
<1>1. /\ TypeOK /\ comp[c].pc = "cleanup"
      /\ UNCHANGED <<connected, accounts, links, start, orphaned>>
  BY DEF IInv, Cleanup, At
<1>2. /\ comp' \in [Completers -> Completer] /\ comp'[c].pc = "ended"
      /\ \A d \in Completers \ {c} : comp'[d] = comp[d]
  BY <1>1, CompleterMoves DEF Cleanup
<1>3. /\ session' \in [Sessions -> Rows]
      /\ \A x \in Sessions : session'[x] = session[x] \/ session'[x] = Absent
  <2>1. session' = session \/ session' = [session EXCEPT ![comp[c].session] = Absent]
    BY DEF Cleanup
  <2>2. Absent \in Rows
    BY DEF Absent, Rows
  <2> QED
    BY <1>1, <2>1, <2>2 DEF TypeOK
<1>4. port' = port \/ port' = [owner |-> "free", left |-> 0]
  BY DEF Cleanup
<1>8. [owner |-> "free", left |-> 0] \in Ports /\ port \in Ports
  BY <1>1 DEF Ports, TypeOK
<1>5. TypeOK'
  BY <1>1, <1>2, <1>3, <1>4, <1>8 DEF TypeOK
<1>6. AtWork' /\ Unclaimed' /\ OneClaim' /\ RowsBelong'
  BY <1>1, <1>2, <1>3 DEF IInv, AtWork, Busy, Unclaimed, OneClaim, RowsBelong, At, Absent
<1>7. LinkedOnce' /\ ConsumedIsHandled'
  BY <1>1, <1>2, <1>3 DEF IInv, LinkedOnce, ConsumedIsHandled, Claimed, At, Absent
<1>listening. Listening'
  BY <1>4, <1>8, StillListening DEF IInv, PortStays
<1> QED
  BY <1>5, <1>6, <1>7, <1>listening DEF IInv

LEMMA DisconnectStep ==
  ASSUME IInv, NEW c \in Completers, Disconnect(c)
  PROVE  IInv'
<1> USE Assumed DEF Assumptions
<1>1. /\ TypeOK /\ comp[c].pc \notin {"idle", "ended"} /\ orphaned' = orphaned \cup Claimed({c})
      /\ UNCHANGED <<connected, accounts, session, links, start, port>>
  BY DEF IInv, Disconnect, At
<1>2. /\ comp' \in [Completers -> Completer] /\ comp'[c].pc = "ended"
      /\ \A d \in Completers \ {c} : comp'[d] = comp[d]
  BY <1>1, CompleterMoves DEF Disconnect
<1>3. orphaned' \in SUBSET Sessions
  BY <1>1 DEF IInv, TypeOK, AtWork, Busy, Claimed, At
<1>4. TypeOK'
  BY <1>1, <1>2, <1>3 DEF TypeOK
<1>5. AtWork' /\ Unclaimed' /\ OneClaim' /\ RowsBelong'
  BY <1>1, <1>2 DEF IInv, AtWork, Busy, Unclaimed, OneClaim, RowsBelong, At
<1>6. LinkedOnce' /\ ConsumedIsHandled'
  BY <1>1, <1>2 DEF IInv, LinkedOnce, ConsumedIsHandled, Claimed, At
<1>listening. Listening'
  BY <1>1, StillListening DEF IInv, PortStays
<1> QED
  BY <1>4, <1>5, <1>6, <1>listening DEF IInv

LEMMA DeleteAccountStep ==
  ASSUME IInv, NEW a \in Accounts, DeleteAccount(a)
  PROVE  IInv'
<1> USE Assumed DEF Assumptions, IInv, DeleteAccount
<1>1. TypeOK'
  BY DEF TypeOK, Rows, Starts, Idle, Absent, Ports, Completer, Points
<1>2. AtWork'
  BY DEF TypeOK, AtWork, Busy, At, Idle
<1>3. Unclaimed'
  BY DEF TypeOK, AtWork, Busy, Unclaimed, OneClaim, At, Idle, Absent
<1>4. OneClaim'
  BY DEF TypeOK, AtWork, Busy, Unclaimed, OneClaim, At, Idle
<1>5. RowsBelong'
  BY DEF TypeOK, AtWork, Busy, RowsBelong, At, Absent
<1>6. LinkedOnce' /\ ConsumedIsHandled'
  BY DEF TypeOK, AtWork, Busy, OneClaim, RowsBelong, LinkedOnce, ConsumedIsHandled, Claimed, At, Idle, Absent
<1>7. Listening'
  BY StillListening DEF PortStays, Ports
<1> QED
  BY <1>1, <1>2, <1>3, <1>4, <1>5, <1>6, <1>7

LEMMA DeleteConnectionStep ==
  ASSUME IInv, DeleteConnection
  PROVE  IInv'
<1> USE Assumed DEF Assumptions, IInv, DeleteConnection
<1>1. TypeOK'
  <2>1. Absent \in Rows
    BY DEF Absent, Rows
  <2>2. session' \in [Sessions -> Rows] /\ accounts' \in SUBSET Accounts /\ connected' \in BOOLEAN
    BY <2>1
  <2> QED
    BY <2>2 DEF TypeOK
<1>2. AtWork'
  BY DEF TypeOK, AtWork, Busy, At, Idle
<1>3. Unclaimed'
  BY DEF TypeOK, AtWork, Busy, Unclaimed, OneClaim, At, Idle, Absent
<1>4. OneClaim'
  BY DEF TypeOK, AtWork, Busy, Unclaimed, OneClaim, At, Idle
<1>5. RowsBelong'
  BY DEF TypeOK, AtWork, Busy, RowsBelong, At, Absent
<1>6. LinkedOnce' /\ ConsumedIsHandled'
  BY DEF TypeOK, AtWork, Busy, OneClaim, RowsBelong, LinkedOnce, ConsumedIsHandled, Claimed, At, Idle, Absent
<1>7. Listening'
  BY StillListening DEF PortStays, Ports
<1> QED
  BY <1>1, <1>2, <1>3, <1>4, <1>5, <1>6, <1>7

LEMMA OtherProgramStep ==
  ASSUME IInv, OtherProgram
  PROVE  IInv'
<1> USE Assumed DEF Assumptions, IInv, OtherProgram
<1>1. TypeOK'
  BY DEF TypeOK, Rows, Starts, Idle, Absent, Ports, Completer, Points
<1>2. AtWork'
  BY DEF TypeOK, AtWork, Busy, At, Idle
<1>3. Unclaimed'
  BY DEF TypeOK, AtWork, Busy, Unclaimed, OneClaim, At, Idle, Absent
<1>4. OneClaim'
  BY DEF TypeOK, AtWork, Busy, Unclaimed, OneClaim, At, Idle
<1>5. RowsBelong'
  BY DEF TypeOK, AtWork, Busy, RowsBelong, At, Absent
<1>6. LinkedOnce' /\ ConsumedIsHandled'
  BY DEF TypeOK, AtWork, Busy, OneClaim, RowsBelong, LinkedOnce, ConsumedIsHandled, Claimed, At, Idle, Absent
<1>7. Listening'
  BY StillListening DEF PortStays, Ports
<1> QED
  BY <1>1, <1>2, <1>3, <1>4, <1>5, <1>6, <1>7

LEMMA TickStep ==
  ASSUME IInv, Tick
  PROVE  IInv'
<1> USE Assumed DEF Assumptions, IInv, Tick, PortLater
<1>1. TypeOK'
  <2>1. TypeOK /\ Listening /\ Life \in Nat
    OBVIOUS
  <2>2. ASSUME NEW r \in Rows, r.left >= 0 PROVE [r EXCEPT !.left = @ - 1] \in Rows
    <3>1. r.left - 1 \in -1..Life
      BY <2>1, <2>2 DEF Rows
    <3> QED
      BY <2>2, <3>1 DEF Rows
  <2>3. session' \in [Sessions -> Rows]
    BY <2>1, <2>2 DEF TypeOK
  <2>4. port' \in Ports
    <3>1. port.owner = "ours" /\ port.left # 1 => port.left - 1 \in 0..Life
      BY <2>1 DEF TypeOK, Ports, Listening
    <3>2. [owner |-> "free", left |-> 0] \in Ports /\ port \in Ports
      BY <2>1 DEF TypeOK, Ports
    <3>3. ASSUME port.left - 1 \in 0..Life PROVE [port EXCEPT !.left = @ - 1] \in Ports
      BY <3>2, <3>3 DEF Ports
    <3> QED
      BY <3>1, <3>2, <3>3
  <2> QED
    BY <2>1, <2>3, <2>4 DEF TypeOK
<1>2. AtWork'
  BY DEF TypeOK, AtWork, Busy, At, Idle
<1>3. Unclaimed'
  BY DEF TypeOK, AtWork, Busy, Unclaimed, OneClaim, At, Idle, Absent
<1>4. OneClaim'
  BY DEF TypeOK, AtWork, Busy, Unclaimed, OneClaim, At, Idle
<1>5. RowsBelong'
  BY DEF TypeOK, AtWork, Busy, RowsBelong, At, Absent
<1>6. LinkedOnce' /\ ConsumedIsHandled'
  BY DEF TypeOK, AtWork, Busy, OneClaim, RowsBelong, LinkedOnce, ConsumedIsHandled, Claimed, At, Idle, Absent
<1>7. Listening'
  BY DEF TypeOK, Ports, Listening
<1> QED
  BY <1>1, <1>2, <1>3, <1>4, <1>5, <1>6, <1>7

LEMMA CrashStep ==
  ASSUME IInv, Crash
  PROVE  IInv'
<1> USE Assumed DEF Assumptions, IInv, Crash
<1>1. TypeOK'
  <2>1. [Idle EXCEPT !.pc = "ended"] \in Completer /\ "failed" \in Starts
    BY DEF Idle, Completer, Points, Starts
  <2>2. comp' \in [Completers -> Completer] /\ start' \in [Sessions -> Starts]
    BY <2>1 DEF TypeOK
  <2>3. [owner |-> "free", left |-> 0] \in Ports
    BY DEF Ports
  <2>4. Claimed(Completers) \subseteq Sessions
    BY DEF AtWork, Busy, Claimed, At
  <2> QED
    BY <2>2, <2>3, <2>4 DEF TypeOK
<1>2. AtWork'
  BY DEF TypeOK, AtWork, Busy, At, Idle
<1>3. Unclaimed'
  BY DEF TypeOK, AtWork, Busy, Unclaimed, OneClaim, At, Idle, Absent
<1>4. OneClaim'
  BY DEF TypeOK, AtWork, Busy, Unclaimed, OneClaim, At, Idle
<1>5. RowsBelong'
  BY DEF TypeOK, AtWork, Busy, RowsBelong, At, Absent
<1>6. LinkedOnce' /\ ConsumedIsHandled'
  BY DEF TypeOK, AtWork, Busy, OneClaim, RowsBelong, LinkedOnce, ConsumedIsHandled, Claimed, At, Idle, Absent
<1>7. Listening'
  BY StillListening DEF PortStays, Ports
<1> QED
  BY <1>1, <1>2, <1>3, <1>4, <1>5, <1>6, <1>7

LEMMA ReceiveStep ==
  ASSUME IInv, NEW c \in Completers, NEW s \in Sessions, Receive(c, s)
  PROVE  IInv'
<1> USE Assumed DEF Assumptions, IInv, Receive
<1>1. TypeOK'
  BY DEF TypeOK, Rows, Starts, Idle, Absent, Ports, Completer, Points
<1>2. AtWork'
  BY DEF TypeOK, AtWork, Busy, At, Idle
<1>3. Unclaimed'
  BY DEF TypeOK, AtWork, Busy, Unclaimed, OneClaim, At, Idle, Absent
<1>4. OneClaim'
  BY DEF TypeOK, AtWork, Busy, Unclaimed, OneClaim, At, Idle
<1>5. RowsBelong'
  BY DEF TypeOK, AtWork, Busy, RowsBelong, At, Absent
<1>6. LinkedOnce' /\ ConsumedIsHandled'
  BY DEF TypeOK, AtWork, Busy, OneClaim, RowsBelong, LinkedOnce, ConsumedIsHandled, Claimed, At, Idle, Absent
<1>7. Listening'
  BY StillListening DEF PortStays, Ports
<1> QED
  BY <1>1, <1>2, <1>3, <1>4, <1>5, <1>6, <1>7

LEMMA Inductive == ASSUME IInv, [Next]_vars PROVE IInv'
<1>1. CASE Next
  <2> USE <1>1
  <2>1. ASSUME NEW s \in Sessions, StartCheck(s) \/ StartInsert(s) \/ StartListen(s)
        PROVE  IInv'
    BY <2>1, StartCheckStep, StartInsertStep, StartListenStep
  <2>2. ASSUME NEW c \in Completers,
               \/ \E s \in Sessions : Receive(c, s)
               \/ Lookup(c) \/ Exchange(c) \/ Consume(c) \/ Store(c) \/ Cleanup(c)
               \/ Disconnect(c)
        PROVE  IInv'
    BY <2>2, ReceiveStep, LookupStep, ExchangeStep, ConsumeStep, StoreStep, CleanupStep,
       DisconnectStep
  <2>3. ASSUME NEW a \in Accounts, DeleteAccount(a) PROVE IInv'
    BY <2>3, DeleteAccountStep
  <2>4. CASE DeleteConnection \/ OtherProgram \/ Tick \/ Crash
    BY <2>4, DeleteConnectionStep, OtherProgramStep, TickStep, CrashStep
  <2> QED
    BY <2>1, <2>2, <2>3, <2>4 DEF Next
<1>2. CASE UNCHANGED vars
  BY <1>2 DEF vars, IInv, TypeOK, AtWork, Busy, Unclaimed, OneClaim, RowsBelong, Listening,
              LinkedOnce, ConsumedIsHandled, Claimed, At
<1> QED
  BY <1>1, <1>2
-------------------------------------------------------------------------------
\* The invariant of every reachable state.
THEOREM InductiveInvariant == Spec => []IInv
BY Initial, Inductive, PTL DEF Spec

\* Variables stay in their ranges: in particular no timer of a session or of the
\* listener runs below its end.
THEOREM TypeCorrect == Spec => []TypeOK
<1>1. IInv => TypeOK
  BY DEF IInv
<1> QED
  BY InductiveInvariant, <1>1, PTL

\* OAuthService::complete_authorization stores one authorization's credentials once at
\* most, for any number of callbacks and posts.
THEOREM CredentialsStoredOnce == Spec => []LinkedOnce
<1>1. IInv => LinkedOnce
  BY DEF IInv
<1> QED
  BY InductiveInvariant, <1>1, PTL

\* mark_oauth_session_consumed is followed by stored credentials unless the handler is
\* dropped or the account goes away.
THEOREM ConsumptionHandled == Spec => []ConsumedIsHandled
<1>1. IInv => ConsumedIsHandled
  BY DEF IInv
<1> QED
  BY InductiveInvariant, <1>1, PTL

\* Only create_oauth_session makes a row pending, and only for a start that has not
\* returned: no step reopens a session.
THEOREM SessionsStayClosed == Spec => NeverReopened
<1> DEFINE Stays == \A s \in Sessions :
                      start[s] \in {"returned", "attended"} /\ session[s].state # "pending"
                        => session'[s].state # "pending"
<1>1. ASSUME TypeOK, AtWork, Next PROVE Stays
  <2> SUFFICES ASSUME NEW s \in Sessions, start[s] \in {"returned", "attended"},
                      session[s].state # "pending"
               PROVE  session'[s].state # "pending"
    OBVIOUS
  <2> USE DEF Absent
  <2>1. session \in [Sessions -> Rows] /\ Absent.state # "pending"
    BY <1>1 DEF TypeOK
  <2>2. ASSUME NEW x \in Sessions, StartCheck(x) \/ StartInsert(x) \/ StartListen(x)
        PROVE  session'[s].state # "pending"
    BY <2>1, <2>2 DEF StartCheck, StartInsert, StartListen
  <2>3. ASSUME NEW c \in Completers, NEW x \in Sessions, Receive(c, x)
        PROVE  session'[s].state # "pending"
    BY <2>3 DEF Receive
  <2>4. ASSUME NEW c \in Completers, Lookup(c)
        PROVE  session'[s].state # "pending"
    BY <2>1, <2>4 DEF Lookup
  <2>5. ASSUME NEW c \in Completers, Consume(c)
        PROVE  session'[s].state # "pending"
    <3>1. comp[c].session \in Sessions
      BY <1>1, <2>5 DEF AtWork, Busy, Consume, At
    <3>2. [session[comp[c].session] EXCEPT !.state = "consumed"].state = "consumed"
      BY <2>1, <3>1 DEF Rows
    <3> QED
      BY <2>1, <2>5, <3>1, <3>2 DEF Consume
  <2>6. ASSUME NEW c \in Completers, Cleanup(c)
        PROVE  session'[s].state # "pending"
    BY <2>1, <2>6 DEF Cleanup
  <2>7. ASSUME NEW c \in Completers, Exchange(c) \/ Store(c) \/ Disconnect(c)
        PROVE  session'[s].state # "pending"
    BY <2>7 DEF Exchange, Store, Disconnect
  <2>8. ASSUME NEW a \in Accounts, DeleteAccount(a)
        PROVE  session'[s].state # "pending"
    <3>1. [session[s] EXCEPT !.target = None].state = session[s].state
      BY <2>1 DEF Rows
    <3> QED
      BY <2>8, <3>1 DEF DeleteAccount
  <2>9. CASE DeleteConnection \/ OtherProgram \/ Tick \/ Crash
    <3>1. [session[s] EXCEPT !.left = @ - 1].state = session[s].state
      BY <2>1 DEF Rows
    <3>2. CASE DeleteConnection
      BY <2>1, <3>2 DEF DeleteConnection
    <3>3. CASE Tick
      BY <3>1, <3>3 DEF Tick
    <3>4. CASE OtherProgram \/ Crash
      BY <3>4 DEF OtherProgram, Crash
    <3> QED
      BY <2>9, <3>2, <3>3, <3>4
  <2> QED
    BY <1>1, <2>2, <2>3, <2>4, <2>5, <2>6, <2>7, <2>8, <2>9 DEF Next
<1>2. ASSUME IInv, [Next]_vars PROVE [Stays]_vars
  BY <1>1, <1>2 DEF IInv, vars
<1> QED
  BY InductiveInvariant, <1>2, PTL DEF Spec, NeverReopened
===============================================================================
