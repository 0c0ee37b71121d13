------------------------------- MODULE Failover -------------------------------
(***************************************************************************)
(* What the gateway promises a client about one request, whatever the      *)
(* providers, accounts, circuits and other requests do:                    *)
(*   - targets are offered in batches (one batch per provider connection); *)
(*     a batch is used up before the next is offered or the gateway gives  *)
(*     up, and no target is ever offered or called twice;                  *)
(*   - another target is called only after a failure that allows fallback; *)
(*   - the request is answered once: "ok" only after the call that         *)
(*     succeeded, "hit" from the response cache, "error" when the targets  *)
(*     have run out or the last failure forbids fallback, and "broken"     *)
(*     when the gateway itself could not go on.                            *)
(* Router implements this specification.                                   *)
(***************************************************************************)
CONSTANTS
  Requests,
  Targets       \* every (candidate model, provider, account) a request may call

VARIABLES
  owed,         \* owed[r]: targets offered to r and not called yet
  used,         \* used[r]: targets r has called
  verdict,      \* verdict[r]: what the last call of r came to
  answer        \* answer[r]: what the client was told

fvars == <<owed, used, verdict, answer>>

Verdicts == {"none", "pending", "ok", "fallback", "fatal"}
Answers  == {"none", "ok", "hit", "error", "broken"}

FInit ==
  /\ owed    = [r \in Requests |-> {}]
  /\ used    = [r \in Requests |-> {}]
  /\ verdict = [r \in Requests |-> "none"]
  /\ answer  = [r \in Requests |-> "none"]

\* No call is out and none so far has decided the request.
Undecided(r) == answer[r] = "none" /\ verdict[r] \in {"none", "fallback"}

\* The request ends; what it was still owed is dropped.
Answer(r, what) ==
  /\ answer' = [answer EXCEPT ![r] = what]
  /\ owed' = [owed EXCEPT ![r] = {}]
  /\ UNCHANGED <<used, verdict>>

Offer(r) ==
  /\ Undecided(r)
  /\ owed[r] = {}
  /\ owed'[r] \subseteq Targets \ used[r]
  /\ owed' = [owed EXCEPT ![r] = owed'[r]]
  /\ UNCHANGED <<used, verdict, answer>>

Call(r) ==
  /\ Undecided(r)
  /\ \E t \in owed[r] :
       /\ owed' = [owed EXCEPT ![r] = owed[r] \ {t}]
       /\ used' = [used EXCEPT ![r] = used[r] \cup {t}]
  /\ verdict' = [verdict EXCEPT ![r] = "pending"]
  /\ UNCHANGED answer

Settle(r) ==
  /\ answer[r] = "none" /\ verdict[r] = "pending"
  /\ \E v \in {"ok", "fallback", "fatal"} : verdict' = [verdict EXCEPT ![r] = v]
  /\ UNCHANGED <<owed, used, answer>>

ServeFromCache(r) ==
  /\ Undecided(r)
  /\ owed[r] # {}
  /\ Answer(r, "hit")

Succeed(r) ==
  /\ answer[r] = "none" /\ verdict[r] = "ok"
  /\ Answer(r, "ok")

GiveUp(r) ==
  /\ \/ answer[r] = "none" /\ verdict[r] = "fatal"
     \/ Undecided(r) /\ owed[r] = {}
  /\ Answer(r, "error")

\* A failing database statement, a reply that cannot be read, or a client that
\* went away: the request ends where it stands.
Break(r) ==
  /\ answer[r] = "none"
  /\ Answer(r, "broken")

FNext ==
  \E r \in Requests :
    \/ Offer(r) \/ Call(r) \/ Settle(r) \/ ServeFromCache(r)
    \/ Succeed(r) \/ GiveUp(r) \/ Break(r)

FSpec == FInit /\ [][FNext]_fvars
===============================================================================
