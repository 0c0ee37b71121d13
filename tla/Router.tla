-------------------------------- MODULE Router --------------------------------
(***************************************************************************)
(* RouterService::route and RouterService::proxy_raw_to_provider running   *)
(* for several requests at once over the shared provider and account rows. *)
(* A request snapshots the providers, walks its candidate models, for each *)
(* candidate the matching providers in order, for each provider the        *)
(* accounts selectable at that moment, calls the upstream, records the     *)
(* result on the provider row and then on the account row (two statements, *)
(* no transaction), and answers or falls back.  The control points of pc   *)
(* are the awaits and loop heads of the code: other requests, the clock    *)
(* and the operator act between any two of them.                           *)
(*                                                                         *)
(* Timers are ticks left: a row stores an instant, and what the code       *)
(* compares is that instant with now.  Lapsed stands for NULL and for the  *)
(* past alike, 0 for the very instant.                                     *)
(***************************************************************************)
EXTENDS Integers, Sequences, FiniteSets

CONSTANTS
  Requests,     \* concurrent client requests
  Providers,    \* provider_connections rows
  Accounts,     \* provider_accounts rows
  None,         \* no account: the provider's own credentials are used
  Owner,        \* Owner[a]: the provider connection of account a
  Rank,         \* Rank[a]: place of a in ORDER BY priority, created_at
  Priority,     \* Priority[p]: priority column of p
  Direct,       \* providers callable without an account
  OAuth,        \* accounts in OAuth mode: preparing one may need a refresh
  Keyed,        \* API-key accounts with a key or a base URL, and the endpoint
  RoundRobin,   \* providers whose accounts take turns
  Protected,    \* providers with rate_limit_protection
  Serving,      \* Serving[r]: providers with the endpoint of r
  Matching,     \* Matching[r][i]: providers that candidate model i of r names
  Guessed,      \* <<r, i>>: that model is a bare name of no known vendor
  Raw,          \* requests handled by proxy_raw_to_provider
  Operated,     \* accounts an operator may enable and disable meanwhile
  Cached,       \* requests that read the response cache
  CircuitTicks, \* 15 seconds
  RateTicks     \* 30 seconds

ASSUME NoneAssumption  == None \notin Accounts
ASSUME OwnerAssumption == Owner \in [Accounts -> Providers]
ASSUME RowsAssumption  == Providers \cap Accounts = {}
ASSUME RankAssumption  ==
  /\ Rank \in [Accounts -> Int]
  /\ \A a, b \in Accounts : Owner[a] = Owner[b] /\ Rank[a] = Rank[b] => a = b
ASSUME PriorityAssumption == Priority \in [Providers -> Int]
ASSUME DirectAssumption ==
  Direct \subseteq {p \in Providers : \A a \in Accounts : Owner[a] # p}
ASSUME ProtectedAssumption == Protected \subseteq Providers
ASSUME MatchingAssumption == Matching \in [Requests -> Seq(SUBSET Providers)]
ASSUME ServingAssumption == Serving \in [Requests -> SUBSET Providers]
ASSUME OperatedAssumption == Operated \subseteq Accounts
ASSUME TicksAssumption == CircuitTicks \in Nat \ {0} /\ RateTicks \in Nat \ {0}

VARIABLES
  health,   \* health[x]: rate_limited_until and circuit_open_until of row x
  enabled,  \* accounts with enabled = 1
  near,     \* providers the RateLimitTracker holds to be near their limit
  cursor,   \* round-robin counter of each provider
  req       \* req[r]: the local variables of request r

vars == <<health, enabled, near, cursor, req>>
-------------------------------------------------------------------------------
Lapsed == -1
Rows   == Providers \cup Accounts
Timer  == Int
Health == [rate : Timer, circuit : Timer]
Clear  == [rate |-> Lapsed, circuit |-> Lapsed]

\* The route filter asks for until < now, the account query for until <= now.
ProviderOpen(p) == health[p].rate < 0 /\ health[p].circuit < 0
AccountOpen(a)  == health[a].rate <= 0 /\ health[a].circuit <= 0

AccountsOf(p) == {a \in Accounts : Owner[a] = p}
\* Mistake: only the enabled flag is looked at.
Selectable_EnabledOnly(p) == {a \in AccountsOf(p) : a \in enabled}

Selectable(p) == {a \in AccountsOf(p) : a \in enabled /\ AccountOpen(a)}

Candidates(r) == 1..Len(Matching[r])

\* Providers for candidate i among the open ones: those it names (prefix, vendor
\* or default model); a bare name that finds none is tried on all of them.
Found(r, i, open) ==
  LET named == open \cap Matching[r][i]
  IN IF named = {} /\ <<r, i>> \in Guessed THEN open ELSE named

\* What a reply comes to: a body_error is a 2xx whose body reports an error, a
\* fallback a 429, a 5xx, a body naming a rate limit or a failed connection, a
\* fatal any other error status, a garbled one a 2xx that cannot be converted.
Replies(r) == {"ok", "fallback", "fatal"}
              \cup (IF r \in Raw THEN {} ELSE {"body_error", "garbled"})

Targets == [cand : Nat, provider : Providers, account : Accounts \cup {None}]

Points == {"new", "candidate", "provider", "rotate", "target", "calling",
           "mark_provider", "mark_account", "store", "done"}


Request ==
  [pc       : Points,
   snap     : SUBSET Providers,            \* providers read at the start
   cand     : Nat,                         \* index of the candidate model
   left     : SUBSET Providers,            \* matching providers not visited yet
   near     : SUBSET Providers,            \* near-limit ones when matching was sorted
   provider : Providers \cup {None},       \* the provider being visited
   listed   : SUBSET Accounts,             \* its selectable accounts, until rotated
   turn     : Accounts \cup {None},        \* the account the rotation starts with
   ready    : SUBSET (Accounts \cup {None}), \* execution targets not called yet
   account  : Accounts \cup {None},        \* the account being called
   reply    : {"none", "pending", "ok", "fallback", "fatal", "body_error"},
   limited  : BOOLEAN,                     \* the error text names a rate limit
   tried    : SUBSET Targets,              \* targets called so far
   answer   : {"none", "ok", "hit", "refused", "error", "broken"}]

TypeOK ==
  /\ health  \in [Rows -> Health]
  /\ enabled \in SUBSET Accounts
  /\ near    \in SUBSET Providers
  /\ cursor  \in [Providers -> Nat]
  /\ req     \in [Requests -> Request]

NewRequest ==
  [pc |-> "new", snap |-> {}, cand |-> 1, left |-> {}, near |-> {},
   provider |-> None, listed |-> {}, turn |-> None, ready |-> {},
   account |-> None, reply |-> "none", limited |-> FALSE, tried |-> {},
   answer |-> "none"]

Init ==
  /\ health  = [x \in Rows |-> Clear]
  /\ enabled = Accounts
  /\ near    \in SUBSET Protected
  /\ cursor  = [p \in Providers |-> 0]
  /\ req     = [r \in Requests |-> NewRequest]
-------------------------------------------------------------------------------
At(r, point) == req[r].pc = point
Set(r, q)    == req' = [req EXCEPT ![r] = q]

\* The handler returns: its locals are gone, and what it called is history.
Answered(q, what) ==
  [NewRequest EXCEPT !.pc = "done", !.answer = what, !.cand = q.cand,
                     !.reply = q.reply, !.tried = q.tried]

\* list_provider_connections and the filter over it.  A raw request has one
\* model, and is refused at once when no open provider matches it.
Begin(r) ==
  /\ At(r, "new")
  /\ LET open == {p \in Serving[r] : ProviderOpen(p)} IN
     Set(r, IF (IF r \in Raw THEN Found(r, 1, open) ELSE open) = {}
            THEN Answered(req[r], "refused")
            ELSE [req[r] EXCEPT !.pc = "candidate", !.snap = open])
  /\ UNCHANGED <<health, enabled, near, cursor>>

\* The sort key of the matching providers: near-limit ones last, then priority.
Before(p, q, nearby) ==
  \/ p \notin nearby /\ q \in nearby
  \/ (p \in nearby <=> q \in nearby) /\ Priority[p] < Priority[q]

\* Head of the loop over candidate models.
NextCandidate(r) ==
  LET q     == req[r]
      found == Found(r, q.cand, q.snap)
  IN /\ At(r, "candidate")
     /\ Set(r, IF q.cand \notin Candidates(r) THEN Answered(q, "error")
               ELSE IF found = {} THEN [q EXCEPT !.cand = @ + 1]
               ELSE [q EXCEPT !.pc = "provider", !.left = found,
                              !.near = IF r \in Raw THEN {} ELSE near \cap Protected])
     /\ UNCHANGED <<health, enabled, near, cursor>>

\* Head of the loop over the matching providers when none is left.
NoProviderLeft(r) ==
  /\ At(r, "provider") /\ req[r].left = {}
  /\ Set(r, [req[r] EXCEPT !.pc = "candidate", !.cand = @ + 1, !.near = {}])
  /\ UNCHANGED <<health, enabled, near, cursor>>

\* Accounts the walk keeps after prepare_provider_account: an OAuth account whose
\* refresh fails or that holds no token is dropped, and so is one without a key
\* or without the endpoint.
Prepared(accounts) ==
  {S \in SUBSET accounts : S \ OAuth = (accounts \cap Keyed) \ OAuth}

\* What execution_targets may return for p.
Batches(p) ==
  IF Selectable(p) = {} /\ p \in Direct THEN {{None}} ELSE Prepared(Selectable(p))

TakesTurns(p) == p \in RoundRobin /\ Cardinality(Selectable(p)) > 1

\* Mistake: a provider without a selectable account is asked again.
Visit_KeepsEmptyProvider(q, p, batch) ==
  [q EXCEPT !.pc = IF TakesTurns(p) THEN "rotate" ELSE "target",
            !.left = IF Selectable(p) = {} THEN q.left ELSE q.left \ {p},
            !.provider = p,
            !.listed = IF TakesTurns(p) THEN Selectable(p) ELSE {},
            !.ready = batch]

Visit(q, p, batch) ==
  [q EXCEPT !.pc = IF TakesTurns(p) THEN "rotate" ELSE "target",
            !.left = q.left \ {p},
            !.provider = p,
            !.listed = IF TakesTurns(p) THEN Selectable(p) ELSE {},
            !.ready = batch]

\* execution_targets: the accounts of the next provider are read and prepared.
ListTargets(r) ==
  /\ At(r, "provider")
  /\ \E p \in req[r].left :
       /\ \A other \in req[r].left : ~Before(other, p, req[r].near)
       /\ \E batch \in Batches(p) : Set(r, Visit(req[r], p, batch))
  /\ UNCHANGED <<health, enabled, near, cursor>>

\* Mistake: the counter runs backwards.
Rotate_Backwards(r) ==
  LET q   == req[r]
      idx == cursor[q.provider] % Cardinality(q.listed)
  IN /\ At(r, "rotate")
     /\ \E a \in q.listed :
          /\ Cardinality({b \in q.listed : Rank[b] < Rank[a]}) = idx
          /\ Set(r, [q EXCEPT !.pc = "target", !.turn = a, !.listed = {}])
     /\ cursor' = [cursor EXCEPT ![q.provider] = @ - 1]
     /\ UNCHANGED <<health, enabled, near>>

\* order_provider_accounts under the round_robin mutex: the list starts at
\* counter % len, and the counter moves on.
Rotate(r) ==
  LET q   == req[r]
      idx == cursor[q.provider] % Cardinality(q.listed)
  IN /\ At(r, "rotate")
     /\ \E a \in q.listed :
          /\ Cardinality({b \in q.listed : Rank[b] < Rank[a]}) = idx
          /\ Set(r, [q EXCEPT !.pc = "target", !.turn = a, !.listed = {}])
     /\ cursor' = [cursor EXCEPT ![q.provider] = @ + 1]
     /\ UNCHANGED <<health, enabled, near>>

\* a comes before b in the provider's list rotated to start at the turn account.
Earlier(a, b, turn) ==
  LET wrapped(c) == turn # None /\ Rank[c] < Rank[turn]
  IN \/ ~wrapped(a) /\ wrapped(b)
     \/ (wrapped(a) <=> wrapped(b)) /\ Rank[a] < Rank[b]

Target(q, a) == [cand |-> q.cand, provider |-> q.provider, account |-> a]

\* Mistake: the order of the accounts is not kept.
IsNext_AnyOrder(q, a) == a \in q.ready

IsNext(q, a) ==
  /\ a \in q.ready
  /\ \A b \in q.ready : a # None /\ b # None => ~Earlier(b, a, q.turn)

\* The next execution target is called.
CallTarget(r) ==
  /\ At(r, "target")
  /\ \E a \in req[r].ready :
       /\ IsNext(req[r], a)
       /\ Set(r, [req[r] EXCEPT !.pc = "calling", !.account = a, !.ready = @ \ {a},
                                !.reply = "pending",
                                !.tried = @ \cup {Target(req[r], a)}])
  /\ UNCHANGED <<health, enabled, near, cursor>>

\* The response cache answers in its place.
CacheHit(r) ==
  /\ At(r, "target") /\ req[r].ready # {}
  /\ r \in Cached \ Raw
  /\ Set(r, Answered(req[r], "hit"))
  /\ UNCHANGED <<health, enabled, near, cursor>>

\* Head of the loop over execution targets when none is left.
NoTargetLeft(r) ==
  /\ At(r, "target") /\ req[r].ready = {}
  /\ Set(r, [req[r] EXCEPT !.pc = "provider", !.provider = None, !.turn = None])
  /\ UNCHANGED <<health, enabled, near, cursor>>

\* The upstream call, its retries and its one forced refresh come back.
Reply(r) ==
  /\ At(r, "calling")
  /\ \E reply \in Replies(r), limited \in BOOLEAN :
       Set(r, IF reply = "garbled" THEN Answered(req[r], "broken")
              ELSE [req[r] EXCEPT !.pc = "mark_provider", !.reply = reply,
                                  !.limited = limited /\ reply # "ok"])
  /\ UNCHANGED <<health, enabled, near, cursor>>

\* Mistake: an error that is the client's own fault counts as a success.
Marked_ForgivesFatal(h, q) ==
  IF q.reply \in {"ok", "fatal"} THEN Clear
  ELSE [rate    |-> IF q.limited THEN RateTicks ELSE h.rate,
        circuit |-> CircuitTicks]

\* mark_provider_success / mark_provider_account_success and the two failure
\* statements: the same columns on either table.  A failure keeps an older
\* rate_limited_until when its own text names no rate limit.
Marked(h, q) ==
  IF q.reply = "ok" THEN Clear
  ELSE [rate    |-> IF q.limited THEN RateTicks ELSE h.rate,
        circuit |-> CircuitTicks]

\* RateLimitTracker::update on a 2xx: the headers say nothing, or they put the
\* provider above or below the threshold.
Track(r) ==
  IF req[r].reply \in {"ok", "body_error"} /\ r \notin Raw
  THEN near' \in {near, near \cup {req[r].provider}, near \ {req[r].provider}}
  ELSE UNCHANGED near

\* Mistake: the walk leaves the provider after its first failed account.
AfterMarks_NextProvider(q) ==
  CASE q.reply = "ok"       -> [q EXCEPT !.pc = "store"]
    [] q.reply = "fallback" -> [q EXCEPT !.pc = "provider", !.ready = {}]
    [] OTHER                -> Answered(q, "error")

AfterMarks(q) ==
  CASE q.reply = "ok"       -> [q EXCEPT !.pc = "store"]
    [] q.reply = "fallback" -> [q EXCEPT !.pc = "target", !.account = None,
                                         !.limited = FALSE]
    [] OTHER                -> Answered(q, "error")

MarkProvider(r) ==
  LET q == req[r] IN
  /\ At(r, "mark_provider")
  /\ health' = [health EXCEPT ![q.provider] = Marked(@, q)]
  /\ IF q.account = None
     THEN Set(r, AfterMarks(q)) /\ Track(r)
     ELSE Set(r, [q EXCEPT !.pc = "mark_account"]) /\ UNCHANGED near
  /\ UNCHANGED <<enabled, cursor>>

\* Mistake: the failure is charged to every account of the provider.
MarkAccount_WholeProvider(r) ==
  LET q == req[r] IN
  /\ At(r, "mark_account")
  /\ health' = [x \in Rows |-> IF x \in AccountsOf(q.provider)
                               THEN Marked(health[x], q) ELSE health[x]]
  /\ Set(r, AfterMarks(q))
  /\ Track(r)
  /\ UNCHANGED <<enabled, cursor>>

MarkAccount(r) ==
  LET q == req[r] IN
  /\ At(r, "mark_account")
  /\ health' = [health EXCEPT ![q.account] = Marked(@, q)]
  /\ Set(r, AfterMarks(q))
  /\ Track(r)
  /\ UNCHANGED <<enabled, cursor>>

\* The response cache entry is written, if the request asks for it.
Store(r) ==
  /\ At(r, "store")
  /\ Set(r, Answered(req[r], "ok"))
  /\ UNCHANGED <<health, enabled, near, cursor>>

\* A database statement fails, the body cannot be translated (`?`), or the
\* client disconnects and its future is dropped at the await.
Abandon(r) ==
  /\ ~At(r, "new") /\ ~At(r, "done")
  /\ Set(r, Answered(req[r], "broken"))
  /\ UNCHANGED <<health, enabled, near, cursor>>
-------------------------------------------------------------------------------
\* set_provider_account_enabled, from the operator's pages.
ToggleAccount(a) ==
  /\ enabled' = IF a \in enabled THEN enabled \ {a} ELSE enabled \cup {a}
  /\ UNCHANGED <<health, near, cursor, req>>

Elapse(t) == IF t > Lapsed THEN t - 1 ELSE Lapsed

\* The clock moves by one tick.
Tick ==
  /\ \E x \in Rows : health[x] # Clear
  /\ health' = [x \in Rows |-> [rate    |-> Elapse(health[x].rate),
                                circuit |-> Elapse(health[x].circuit)]]
  /\ UNCHANGED <<enabled, near, cursor, req>>

Work(r) ==
  \/ Begin(r) \/ NextCandidate(r) \/ NoProviderLeft(r) \/ ListTargets(r)
  \/ Rotate(r) \/ CallTarget(r) \/ CacheHit(r) \/ NoTargetLeft(r)
  \/ Reply(r) \/ MarkProvider(r) \/ MarkAccount(r) \/ Store(r)

Next ==
  \/ \E r \in Requests : Work(r) \/ Abandon(r)
  \/ \E a \in Operated : ToggleAccount(a)
  \/ Tick

Spec == Init /\ [][Next]_vars

\* The runtime polls every future it can make progress on, and an upstream
\* answers or fails every call; nobody need disconnect, toggle or wait.
FairSpec == Spec /\ \A r \in Requests : WF_vars(Work(r))
-------------------------------------------------------------------------------
(***************************************************************************)
(* Properties                                                              *)
(***************************************************************************)

\* The refinement mapping to Failover.
Owed(q)    == {Target(q, a) : a \in q.ready}
Verdict(q) == IF q.reply = "body_error" THEN "fatal" ELSE q.reply
Told(q)    == IF q.answer = "refused" THEN "error" ELSE q.answer

Abstract == INSTANCE Failover WITH
  owed    <- [r \in Requests |-> Owed(req[r])],
  used    <- [r \in Requests |-> req[r].tried],
  verdict <- [r \in Requests |-> Verdict(req[r])],
  answer  <- [r \in Requests |-> Told(req[r])]

\* route and proxy_raw_to_provider keep the Failover contract: no target is called
\* twice, a provider's targets are used up before the next provider or the final
\* error, and nothing is called after a success or a failure without fallback.
Contract == Abstract!FSpec

\* The sort by (near limit, priority) and the rotated account order are what the
\* walk follows: nothing still waiting belonged before something already called.
WalkInOrder ==
  \A r \in Requests : \A t \in req[r].tried :
    LET q == req[r] IN t.cand = q.cand =>
      /\ \A p \in q.left : ~Before(p, t.provider, q.near)
      /\ t.provider = q.provider =>
           \A a \in q.ready \ {None} : ~Earlier(a, t.account, q.turn)

\* A request holds a target whose account is rate limited or circuit-open only
\* because another request called that account after the list was read; its own
\* failures (under an earlier candidate model) always count.
StaleOnlyByOthers ==
  \A r \in Requests : \A a \in req[r].ready \ {None} :
    \/ AccountOpen(a)
    \/ \E other \in Requests \ {r} : \E t \in req[other].tried : t.account = a

\* A failure is charged to the rows it came from and to no other: a provider or
\* account that was never called is never rate limited or circuit-open.
BlockedOnlyIfCalled ==
  \A x \in Rows : health[x] # Clear =>
    \E r \in Requests : \E t \in req[r].tried : x \in {t.provider, t.account}

\* An open circuit ends early only through a request that succeeded on that row:
\* no cache hit, failure or abandoned request clears it.
ClearedOnlyBySuccess ==
  [][\A x \in Rows : health[x].circuit > 0 /\ health'[x].circuit = Lapsed =>
       \E r \in Requests : /\ req[r].reply = "ok"
                           /\ x \in {req[r].provider, req[r].account}]_vars

\* Every request is answered, however its providers, accounts and rivals behave.
EventuallyAnswered == \A r \in Requests : <>At(r, "done")

\* README.md says of routing: "It selects an enabled account, skipping
\* rate-limited or circuit-open accounts."  So a request is refused only when no
\* enabled account that is neither could serve it.
RefusedOnlyWithoutAccount ==
  [][\A r \in Requests : req[r].answer = "none" /\ req'[r].answer = "refused" =>
       \A i \in Candidates(r) : \A p \in Matching[r][i] : Selectable(p) = {}]_vars
===============================================================================
