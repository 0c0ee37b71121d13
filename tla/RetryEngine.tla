------------------------------ MODULE RetryEngine -----------------------------
(***************************************************************************)
(* execute_with_retry: one upstream call of the router, repeated after the *)
(* failures that may pass, with exponential backoff, jitter and            *)
(* Retry-After.  The upstream (external) gives any answer, breaks it off   *)
(* anywhere, or cannot be reached.  Delays are u64 milliseconds; the       *)
(* release build that is shipped wraps on overflow.                        *)
(***************************************************************************)
EXTENDS Integers, Sequences

CONSTANTS
  MaxRetries,  \* KOU_MAX_RETRIES
  BaseDelay,   \* KOU_RETRY_BASE_DELAY_MS
  MaxDelay,    \* KOU_RETRY_MAX_DELAY_MS
  Second,      \* milliseconds in a second
  Seconds,     \* what a Retry-After header may say
  Bits,        \* width of a word: 64
  None

Word == 2^Bits

ASSUME RetriesAssumption == MaxRetries \in Nat
ASSUME DelayAssumption   == BaseDelay \in 0..Word - 1 /\ MaxDelay \in 0..Word - 1
ASSUME SecondsAssumption == Second \in Nat \ {0} /\ Seconds \subseteq Nat /\ None \notin Seconds
ASSUME BitsAssumption    == Bits \in Nat \ {0}
ASSUME PowersAssumption  == \A k \in 0..Bits : 2^k \in Nat \ {0}

VARIABLES
  pc,       \* "call", "sleep", or how the loop was left
  attempts, \* calls made
  waited,   \* total_delay
  calls,    \* calls[i]: what the i-th call came to
  slept     \* slept[i]: the sleep after it

vars == <<pc, attempts, waited, calls, slept>>
-------------------------------------------------------------------------------
Topics == <<"PromptTooLong", "RateLimit", "Overloaded", "ContentFiltered", "AuthenticationFailed">>
Kinds  == {Topics[i] : i \in 1..5} \cup
          {"InvalidRequest", "ModelNotFound", "Timeout", "ServerError", "ConnectionError", "Unknown"}

\* Mistake: a request the upstream finds invalid is sent again.
Retriable_Invalid ==
  {"RateLimit", "Overloaded", "Timeout", "ServerError", "ConnectionError", "InvalidRequest"}

\* UpstreamErrorKind::is_retriable.
Retriable == {"RateLimit", "Overloaded", "Timeout", "ServerError", "ConnectionError"}

\* classify_upstream_error: some statuses decide, then the first of the topics the
\* body touches, then the status after all.
ByStatus ==
  [status \in {401, 404, 408, 429, 529} |->
     CASE status = 401 -> "AuthenticationFailed" [] status = 404 -> "ModelNotFound"
       [] status = 408 -> "Timeout" [] status = 429 -> "RateLimit" [] status = 529 -> "Overloaded"]

FirstTopic(says) ==
  Topics[CHOOSE i \in 1..5 : Topics[i] \in says /\ \A j \in 1..i - 1 : Topics[j] \notin says]

Kind(status, says) ==
  IF status \in DOMAIN ByStatus THEN ByStatus[status]
  ELSE IF says # {} THEN FirstTopic(says)
  ELSE IF status >= 500 THEN "ServerError"
  ELSE IF status = 400 THEN "InvalidRequest" ELSE "Unknown"
-------------------------------------------------------------------------------
Lesser(a, b) == IF a < b THEN a ELSE b

\* 2^(k-1) as checked_shl gives it, multiplied with saturation.
Exponential(base, k) ==
  Lesser(base * (IF k - 1 < Bits THEN 2^(k - 1) ELSE Word - 1), Word - 1)

\* random_range(0..base.max(2) / 2).
Jitters(base) == 0..(IF base < 2 THEN 2 ELSE base) \div 2 - 1

\* A timeout is taken to have cost time already.
Base(kind) == IF kind = "Timeout" THEN BaseDelay \div 2 ELSE BaseDelay

\* Mistake: the delay does not grow.
Backoff_Flat(k, kind) == {Lesser(Base(kind) + j, MaxDelay) : j \in Jitters(Base(kind))}

Backoff(k, kind) ==
  {Lesser((Exponential(Base(kind), k) + j) % Word, MaxDelay) : j \in Jitters(Base(kind))}

\* Mistake: the header is taken for milliseconds.
Asked_Millis(after) == Lesser(after, MaxDelay)

\* Mistake: the header is not capped.
Asked_Uncapped(after) == (after * Second) % Word

Asked(after) == Lesser((after * Second) % Word, MaxDelay)

\* calculate_delay: a rate limit's Retry-After goes before the formula.
Delays(k, kind, after) ==
  IF kind = "RateLimit" /\ after # None THEN {Asked(after)} ELSE Backoff(k, kind)
-------------------------------------------------------------------------------
\* What the caller learns of a call, and whether the upstream had taken it (2xx).
Calls == [kind : Kinds, after : Seconds \cup {None}, taken : BOOLEAN]

TypeOK ==
  /\ pc \in {"call", "sleep", "answered", "failed", "error", "dropped"}
  /\ attempts \in 0..MaxRetries + 1
  /\ waited \in Nat
  /\ calls \in Seq(Calls)
  /\ slept \in Seq(0..MaxDelay)

Init ==
  /\ pc = "call"
  /\ attempts = 0
  /\ waited = 0
  /\ calls = <<>>
  /\ slept = <<>>

\* Mistake: the last retry is granted once more.
Exhausted_Late(k) == k > MaxRetries + 1

Exhausted(k) == k > MaxRetries

\* The sleep before the next call.
Retry(call) ==
  /\ pc' = "sleep"
  /\ \E delay \in Delays(attempts + 1, call.kind, call.after) :
       waited' = waited + delay /\ slept' = Append(slept, delay)

\* The loop ends with this call's outcome.
Leave(how) == pc' = how /\ UNCHANGED <<waited, slept>>

Called(call) == attempts' = attempts + 1 /\ calls' = Append(calls, call)

\* A 2xx that is streamed, or was read to the end.
Success ==
  /\ pc = "call"
  /\ attempts' = attempts + 1
  /\ Leave("answered")
  /\ UNCHANGED calls

\* What a status that is not 2xx, with its body read to the end, may come to.
Failures ==
  {[kind |-> Kind(status, says), after |-> after, taken |-> FALSE] :
     status \in DOMAIN ByStatus \cup {400, 422, 500},
     says \in SUBSET {Topics[i] : i \in 1..5}, after \in Seconds \cup {None}}

Failure ==
  /\ pc = "call"
  /\ \E call \in Failures :
       /\ Called(call)
       /\ IF Exhausted(attempts + 1) \/ call.kind \notin Retriable
          THEN Leave("failed") ELSE Retry(call)

\* execute_prepared returns an error: nothing was sent, the answer broke off, or the
\* body of a 2xx could not be read or, for a search, decoded.
Error ==
  /\ pc = "call"
  /\ \E taken \in BOOLEAN :
       LET call == [kind |-> "ConnectionError", after |-> None, taken |-> taken] IN
       /\ Called(call)
       /\ IF Exhausted(attempts + 1) THEN Leave("error") ELSE Retry(call)

Wake ==
  /\ pc = "sleep"
  /\ pc' = "call"
  /\ UNCHANGED <<attempts, waited, calls, slept>>

\* The client disconnects, and the request's future is dropped.
Drop ==
  /\ pc \in {"call", "sleep"}
  /\ pc' = "dropped"
  /\ UNCHANGED <<attempts, waited, calls, slept>>

Next == Success \/ Failure \/ Error \/ Wake \/ Drop

Spec == Init /\ [][Next]_vars
-------------------------------------------------------------------------------
(***************************************************************************)
(* Properties                                                              *)
(***************************************************************************)

\* What would fail the same way again: the request, its model or its credentials.
Lasting == {"PromptTooLong", "ContentFiltered", "AuthenticationFailed", "ModelNotFound",
            "InvalidRequest"}

\* Whatever the status and the text of the answer, a request that failed for a lasting
\* reason is not sent to the same upstream again.
RepeatsOnlyPassing ==
  \A i \in DOMAIN calls : calls[i].kind \in Lasting => i = attempts /\ pc = "failed"

\* However the answers fall, the client waits for sleeps no longer than the
\* configuration lets it, and for no more calls.
WaitBounded == waited <= MaxRetries * MaxDelay /\ attempts <= MaxRetries + 1

\* The delay never falls short of the documented min(base * 2^(attempt-1), max),
\* base halved for a timeout, when no Retry-After overrides it.
BackoffGrows ==
  \A i \in DOMAIN slept : ~(calls[i].kind = "RateLimit" /\ calls[i].after # None) =>
    slept[i] >= Lesser(MaxDelay, Base(calls[i].kind) * 2^(i - 1))

\* A rate-limited upstream is left alone for as long as it asked, up to the maximum.
RetryAfterKept ==
  \A i \in DOMAIN slept : calls[i].kind = "RateLimit" /\ calls[i].after # None =>
    slept[i] >= Lesser(MaxDelay, calls[i].after * Second)

\* Before each repetition the upstream has had the pause that it asked for or that the
\* documentation promises.
WaitsAsTold == BackoffGrows /\ RetryAfterKept
===============================================================================
