----------------------------- MODULE OAuthSessions ----------------------------
(***************************************************************************)
(* Connecting OAuth accounts of one provider connection.  A start leaves a *)
(* pending row in oauth_sessions and, for a redirect to localhost:1455,    *)
(* makes sure something listens there; a completer, either a browser       *)
(* redirected to that listener or an operator posting the code, exchanges  *)
(* the code, consumes the session, stores the credentials and deletes the  *)
(* session.  Starts, completers, deletions, the clock, a second program    *)
(* that wants the port (Codex CLI), disconnects and crashes interleave.    *)
(***************************************************************************)
EXTENDS Integers, FiniteSets

CONSTANTS
  Sessions,    \* authorizations started; a start makes one session
  Completers,  \* callbacks and posts
  Accounts,    \* provider_accounts there are to reconnect
  None,
  Reconnects,  \* Reconnects[s]: the account s reconnects, or None
  Local,       \* sessions redirected to localhost:1455
  Posted,      \* completers that post the code instead
  Life,        \* ticks until a session expires, and a listener stops
  Crashes      \* whether the process may crash

ASSUME NoneAssumption       == None \notin Accounts
ASSUME ReconnectsAssumption == Reconnects \in [Sessions -> Accounts \cup {None}]
ASSUME LocalAssumption      == Local \subseteq Sessions
ASSUME PostedAssumption     == Posted \subseteq Completers
ASSUME LifeAssumption       == Life \in Nat \ {0}
ASSUME CrashesAssumption    == Crashes \in BOOLEAN

VARIABLES
  connected,  \* the provider connection exists
  accounts,   \* the accounts that do
  session,    \* session[s]: its oauth_sessions row
  links,      \* links[s]: times s has stored credentials
  start,      \* start[s]: how far the start of s is
  port,       \* who has 127.0.0.1:1455, and how long our listener stays
  comp,       \* comp[c]: the local variables of completer c
  orphaned    \* sessions whose completer was dropped after consuming them

vars == <<connected, accounts, session, links, start, port, comp, orphaned>>
-------------------------------------------------------------------------------
Rows    == [state : {"absent", "pending", "consumed"},
            target : Accounts \cup {None}, left : -1..Life]
Absent  == [state |-> "absent", target |-> None, left |-> -1]
Starts  == {"new", "checked", "inserted", "returned", "attended", "failed"}
Ports   == [owner : {"free", "ours", "other"}, left : 0..Life]
Points  == {"idle", "lookup", "exchange", "consume", "store", "cleanup", "ended"}
Completer == [pc : Points, session : Sessions \cup {None}, target : Accounts \cup {None}]
Idle    == [pc |-> "idle", session |-> None, target |-> None]

TypeOK ==
  /\ connected \in BOOLEAN
  /\ accounts  \in SUBSET Accounts
  /\ session   \in [Sessions -> Rows]
  /\ links     \in [Sessions -> Nat]
  /\ start     \in [Sessions -> Starts]
  /\ port      \in Ports
  /\ comp      \in [Completers -> Completer]
  /\ orphaned  \in SUBSET Sessions

Init ==
  /\ connected = TRUE
  /\ accounts  = Accounts
  /\ session   = [s \in Sessions |-> Absent]
  /\ links     = [s \in Sessions |-> 0]
  /\ start     = [s \in Sessions |-> "new"]
  /\ port      \in [owner : {"free", "other"}, left : {0}]
  /\ comp      = [c \in Completers |-> Idle]
  /\ orphaned  = {}
-------------------------------------------------------------------------------
\* start_provider_account_oauth and start_authorization: the account must be there,
\* expired sessions are deleted, the connection must be there.
StartCheck(s) ==
  /\ start[s] = "new"
  /\ IF Reconnects[s] \notin accounts \cup {None}
     THEN start' = [start EXCEPT ![s] = "failed"] /\ UNCHANGED session
     ELSE /\ start' = [start EXCEPT ![s] = IF connected THEN "checked" ELSE "failed"]
          /\ session' = [x \in Sessions |-> IF session[x].left < 0 THEN Absent ELSE session[x]]
  /\ UNCHANGED <<connected, accounts, links, port, comp, orphaned>>

\* Mistake: the session outlives the listener started with it.
Pending_Longer(s) == [state |-> "pending", target |-> Reconnects[s], left |-> Life + 1]

Pending(s) == [state |-> "pending", target |-> Reconnects[s], left |-> Life]

\* create_oauth_session: what the foreign keys name must still be there.
StartInsert(s) ==
  /\ start[s] = "checked"
  /\ IF connected /\ Reconnects[s] \in accounts \cup {None}
     THEN /\ session' = [session EXCEPT ![s] = Pending(s)]
          /\ start' = [start EXCEPT ![s] = IF s \in Local THEN "inserted" ELSE "returned"]
     ELSE start' = [start EXCEPT ![s] = "failed"] /\ UNCHANGED session
  /\ UNCHANGED <<connected, accounts, links, port, comp, orphaned>>

\* callback_server::spawn: a port in use is left to whoever has it.
StartListen(s) ==
  /\ start[s] = "inserted"
  /\ port' = IF port.owner = "free" THEN [owner |-> "ours", left |-> Life] ELSE port
  /\ start' = [start EXCEPT ![s] = IF port'.owner = "ours" THEN "attended" ELSE "returned"]
  /\ UNCHANGED <<connected, accounts, session, links, comp, orphaned>>
-------------------------------------------------------------------------------
At(c, point) == comp[c].pc = point
End(c)       == comp' = [comp EXCEPT ![c] = [Idle EXCEPT !.pc = "ended"]]

\* The browser is redirected, or the operator posts, with the code and the state.
Receive(c, s) ==
  /\ At(c, "idle")
  /\ start[s] \in {"returned", "attended"}
  /\ c \notin Posted => s \in Local /\ port.owner = "ours"
  /\ comp' = [comp EXCEPT ![c] = [pc |-> "lookup", session |-> s, target |-> None]]
  /\ UNCHANGED <<connected, accounts, session, links, start, port, orphaned>>

\* Mistake: the session is claimed before its code is exchanged.
Lookup_ClaimsFirst(c) ==
  LET s == comp[c].session IN
  /\ At(c, "lookup")
  /\ IF session[s].state = "pending" /\ session[s].left > 0
     THEN /\ comp' = [comp EXCEPT ![c].pc = "exchange", ![c].target = session[s].target]
          /\ session' = [session EXCEPT ![s].state = "consumed"]
     ELSE End(c) /\ UNCHANGED session
  /\ UNCHANGED <<connected, accounts, links, start, port, orphaned>>

\* get_oauth_session_by_state: an expired session is deleted.
Lookup(c) ==
  LET s == comp[c].session IN
  /\ At(c, "lookup")
  /\ IF session[s].state = "pending" /\ session[s].left > 0
     THEN /\ comp' = [comp EXCEPT ![c].pc = "exchange", ![c].target = session[s].target]
          /\ UNCHANGED session
     ELSE /\ End(c)
          /\ session' = IF session[s].state = "pending"
                        THEN [session EXCEPT ![s] = Absent] ELSE session
  /\ UNCHANGED <<connected, accounts, links, start, port, orphaned>>

\* The issuer takes the code, or does not.
Exchange(c) ==
  /\ At(c, "exchange")
  /\ comp' = [comp EXCEPT ![c].pc = "consume"] \/ End(c)
  /\ UNCHANGED <<connected, accounts, session, links, start, port, orphaned>>

\* Mistake: the update does not ask whether the session is consumed already.
Consume_Unconditional(c) ==
  LET s == comp[c].session IN
  /\ At(c, "consume")
  /\ IF session[s].state = "absent"
     THEN End(c) /\ UNCHANGED session
     ELSE /\ session' = [session EXCEPT ![s].state = "consumed"]
          /\ comp' = [comp EXCEPT ![c].pc = "store"]
  /\ UNCHANGED <<connected, accounts, links, start, port, orphaned>>

\* mark_oauth_session_consumed: one UPDATE ... WHERE consumed_at IS NULL.
Consume(c) ==
  LET s == comp[c].session IN
  /\ At(c, "consume")
  /\ IF session[s].state = "pending"
     THEN /\ session' = [session EXCEPT ![s].state = "consumed"]
          /\ comp' = [comp EXCEPT ![c].pc = "store"]
     ELSE End(c) /\ UNCHANGED session
  /\ UNCHANGED <<connected, accounts, links, start, port, orphaned>>

\* The account of the session as it was read is updated, or one is created.
Store(c) ==
  LET q == comp[c] IN
  /\ At(c, "store")
  /\ IF connected /\ q.target \in accounts \cup {None}
     THEN /\ links' = [links EXCEPT ![q.session] = @ + 1]
          /\ comp' = [comp EXCEPT ![c].pc = "cleanup"]
     ELSE End(c) /\ UNCHANGED links
  /\ UNCHANGED <<connected, accounts, session, start, port, orphaned>>

\* The account is read back, if it is still there, and the session deleted; a success
\* seen by the listener stops it.
Cleanup(c) ==
  LET linked == comp[c].target \in accounts \cup {None} IN
  /\ At(c, "cleanup")
  /\ End(c)
  /\ session' = IF linked THEN [session EXCEPT ![comp[c].session] = Absent] ELSE session
  /\ port' = IF linked /\ c \notin Posted /\ port.owner = "ours"
             THEN [owner |-> "free", left |-> 0] ELSE port
  /\ UNCHANGED <<connected, accounts, links, start, orphaned>>

Claimed(cs) == {comp[c].session : c \in {d \in cs : At(d, "store")}}

\* The browser or the operator's page goes away: the handler is dropped.
Disconnect(c) ==
  /\ ~At(c, "idle") /\ ~At(c, "ended")
  /\ End(c)
  /\ orphaned' = orphaned \cup Claimed({c})
  /\ UNCHANGED <<connected, accounts, session, links, start, port>>
-------------------------------------------------------------------------------
\* delete_provider_account: ON DELETE SET NULL leaves its sessions without a target.
DeleteAccount(a) ==
  /\ a \in accounts
  /\ accounts' = accounts \ {a}
  /\ session' = [s \in Sessions |->
                   IF session[s].target = a THEN [session[s] EXCEPT !.target = None]
                   ELSE session[s]]
  /\ UNCHANGED <<connected, links, start, port, comp, orphaned>>

\* delete_provider_connection: ON DELETE CASCADE.
DeleteConnection ==
  /\ connected
  /\ connected' = FALSE
  /\ accounts' = {}
  /\ session' = [s \in Sessions |-> Absent]
  /\ UNCHANGED <<links, start, port, comp, orphaned>>

\* Another program takes or leaves the port.
OtherProgram ==
  /\ port' \in [owner : {"free", "other"} \ {port.owner}, left : {0}]
  /\ port.owner # "ours"
  /\ UNCHANGED <<connected, accounts, session, links, start, comp, orphaned>>

\* Mistake: only a success stops the listener.
PortLater_NoTimeout == port

\* LISTEN_FOR runs from the start that bound the port.
PortLater ==
  IF port.owner # "ours" THEN port
  ELSE IF port.left = 1 THEN [owner |-> "free", left |-> 0]
  ELSE [port EXCEPT !.left = @ - 1]

Tick ==
  /\ port.owner = "ours" \/ \E s \in Sessions : session[s].left >= 0
  /\ port' = PortLater
  /\ session' = [s \in Sessions |->
                   IF session[s].left >= 0 THEN [session[s] EXCEPT !.left = @ - 1]
                   ELSE session[s]]
  /\ UNCHANGED <<connected, accounts, links, start, comp, orphaned>>

\* The process dies and starts again: the tables stay.
Crash ==
  /\ Crashes
  /\ comp' = [c \in Completers |->
                IF At(c, "idle") THEN comp[c] ELSE [Idle EXCEPT !.pc = "ended"]]
  /\ orphaned' = orphaned \cup Claimed(Completers)
  /\ start' = [s \in Sessions |->
                 IF start[s] \in {"checked", "inserted"} THEN "failed" ELSE start[s]]
  /\ port' = IF port.owner = "ours" THEN [owner |-> "free", left |-> 0] ELSE port
  /\ UNCHANGED <<connected, accounts, session, links>>

Next ==
  \/ \E s \in Sessions : StartCheck(s) \/ StartInsert(s) \/ StartListen(s)
  \/ \E c \in Completers :
       \/ \E s \in Sessions : Receive(c, s)
       \/ Lookup(c) \/ Exchange(c) \/ Consume(c) \/ Store(c) \/ Cleanup(c) \/ Disconnect(c)
  \/ \E a \in Accounts : DeleteAccount(a)
  \/ DeleteConnection \/ OtherProgram \/ Tick \/ Crash

Spec == Init /\ [][Next]_vars

\* Time passes; nobody need call back, post, start or crash.
FairSpec == Spec /\ WF_vars(Tick)
-------------------------------------------------------------------------------
(***************************************************************************)
(* Properties                                                              *)
(***************************************************************************)

\* However often a callback is repeated or raced by a post, one authorization
\* stores credentials at most once.
LinkedOnce == \A s \in Sessions : links[s] <= 1

\* A consumed session is one whose credentials were stored, or are about to be, or
\* whose completer was cut off in between, or whose account is gone; a code the
\* issuer refuses consumes nothing.
ConsumedIsHandled ==
  \A s \in Sessions : session[s].state = "consumed" =>
    \/ links[s] = 1
    \/ s \in orphaned \cup Claimed(Completers)
    \/ Reconnects[s] \notin accounts \cup {None}

\* A session once consumed or deleted never accepts a callback again.
NeverReopened ==
  [][\A s \in Sessions : start[s] \in {"returned", "attended"} /\ session[s].state # "pending"
       => session'[s].state # "pending"]_vars

\* Our listener leaves the port to Codex CLI, whether or not anyone calls back.
PortReleased == (port.owner = "ours") ~> (port.owner # "ours")
===============================================================================
