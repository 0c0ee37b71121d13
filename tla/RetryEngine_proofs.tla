-------------------------- MODULE RetryEngine_proofs --------------------------
(***************************************************************************)
(* Proofs about RetryEngine, for any number of retries, any delays and any *)
(* width of a word.  The invariant counts: while the loop runs, every call *)
(* has failed for a passing reason and has had its sleep.                  *)
(***************************************************************************)
EXTENDS RetryEngine, SequenceTheorems, TLAPS

Running == pc \in {"call", "sleep", "dropped"}

\* How many calls are known and how many sleeps there were, by how the loop stands.
Counted ==
  /\ Running         => Len(calls) = attempts     /\ Len(slept) = attempts
  /\ pc = "answered" => Len(calls) = attempts - 1 /\ Len(slept) = attempts - 1
  /\ pc \in {"failed", "error"} => Len(calls) = attempts /\ Len(slept) = attempts - 1
  /\ Len(slept) <= MaxRetries

\* Each sleep was one of those that the call before it allows.
Slept ==
  \A i \in DOMAIN slept : i \in DOMAIN calls /\ slept[i] \in Delays(i, calls[i].kind, calls[i].after)

\* The sleeps so far.
Summed == waited <= Len(slept) * MaxDelay

IInv == TypeOK /\ Counted /\ Slept /\ Summed /\ RepeatsOnlyPassing
-------------------------------------------------------------------------------
(***************************************************************************)
(* The delays                                                              *)
(***************************************************************************)
LEMMA Naturals ==
  /\ Word \in Nat \ {0} /\ Bits \in Nat \ {0}
  /\ MaxRetries \in Nat /\ BaseDelay \in Nat /\ MaxDelay \in Nat /\ Second \in Nat
  /\ \A after \in Seconds : after \in Nat
  /\ None \notin Seconds
<1>1. Word \in Nat \ {0} /\ Bits \in Nat \ {0}
  BY BitsAssumption, PowersAssumption DEF Word
<1> QED
  BY <1>1, RetriesAssumption, DelayAssumption, SecondsAssumption

LEMMA Bounded ==
  ASSUME NEW n \in Int, NEW m \in Nat, n >= 0
  PROVE  Lesser(n, m) \in 0 .. m
BY DEF Lesser

LEMMA Wrapped ==
  ASSUME NEW n \in Nat
  PROVE  n % Word \in Nat /\ (n < Word => n % Word = n)
BY Naturals

LEMMA Times ==
  ASSUME NEW a \in Nat, NEW b \in Nat
  PROVE  a * b \in Nat
OBVIOUS

LEMMA BaseNat ==
  ASSUME NEW kind
  PROVE  Base(kind) \in Nat /\ Base(kind) <= BaseDelay
BY Naturals DEF Base

LEMMA ExponentialNat ==
  ASSUME NEW base \in Nat, NEW k \in Nat \ {0}
  PROVE  Exponential(base, k) \in Nat
<1> DEFINE factor == IF k - 1 < Bits THEN 2^(k - 1) ELSE Word - 1
<1>1. factor \in Nat
  BY Naturals, PowersAssumption
<1>2. base * factor \in Nat
  BY <1>1
<1> HIDE DEF factor
<1>3. Lesser(base * factor, Word - 1) \in Nat
  BY <1>2, Naturals DEF Lesser
<1> QED
  BY <1>3 DEF Exponential, factor

LEMMA JittersNat ==
  ASSUME NEW base \in Nat
  PROVE  \A j \in Jitters(base) : j \in Nat /\ j <= base + 1
BY DEF Jitters

LEMMA DelaysBounded ==
  ASSUME NEW k \in Nat \ {0}, NEW kind, NEW after \in Seconds \cup {None},
         NEW d \in Delays(k, kind, after)
  PROVE  d \in 0 .. MaxDelay
<1>1. CASE kind = "RateLimit" /\ after # None
  <2>1. after \in Nat /\ after * Second \in Nat
    BY <1>1, Naturals, Times
  <2>2. d = Lesser((after * Second) % Word, MaxDelay)
    BY <1>1 DEF Delays, Asked
  <2> QED
    BY <2>1, <2>2, Wrapped, Bounded, Naturals
<1>2. CASE ~(kind = "RateLimit" /\ after # None)
  <2>1. PICK j \in Jitters(Base(kind)) : d = Lesser((Exponential(Base(kind), k) + j) % Word, MaxDelay)
    BY <1>2 DEF Delays, Backoff
  <2>2. Exponential(Base(kind), k) + j \in Nat
    BY BaseNat, ExponentialNat, JittersNat
  <2> QED
    BY <2>1, <2>2, Wrapped, Bounded, Naturals
<1> QED
  BY <1>1, <1>2
-------------------------------------------------------------------------------
(***************************************************************************)
(* The loop                                                                *)
(***************************************************************************)
LEMMA ByStatusFact ==
  /\ DOMAIN ByStatus = {429, 401, 404, 408, 529}
  /\ \A status \in DOMAIN ByStatus : ByStatus[status] \in Kinds
<1>1. DOMAIN ByStatus = {429, 401, 404, 408, 529}
  BY DEF ByStatus
<1>2. ASSUME NEW status \in {429, 401, 404, 408, 529} PROVE ByStatus[status] \in Kinds
  <2>1. /\ ByStatus[401] = "AuthenticationFailed" /\ ByStatus[404] = "ModelNotFound"
        /\ ByStatus[408] = "Timeout" /\ ByStatus[429] = "RateLimit" /\ ByStatus[529] = "Overloaded"
    BY DEF ByStatus
  <2>2. {"AuthenticationFailed", "RateLimit", "Overloaded"} \subseteq Kinds
    <3>1. Topics[5] = "AuthenticationFailed" /\ Topics[2] = "RateLimit" /\ Topics[3] = "Overloaded"
      BY DEF Topics
    <3> QED
      BY <3>1 DEF Kinds
  <2>3. {"ModelNotFound", "Timeout"} \subseteq Kinds
    BY DEF Kinds
  <2> QED
    BY <1>2, <2>1, <2>2, <2>3
<1> QED
  BY <1>1, <1>2

LEMMA KindInKinds ==
  ASSUME NEW status \in DOMAIN ByStatus \cup {400, 422, 500},
         NEW says \in SUBSET {Topics[i] : i \in 1 .. 5}
  PROVE  Kind(status, says) \in Kinds
<1>1. CASE status \in DOMAIN ByStatus
  <2>1. ByStatus[status] \in Kinds
    BY <1>1, ByStatusFact
  <2> QED
    BY <1>1, <2>1 DEF Kind
<1>2. CASE status \notin DOMAIN ByStatus /\ says # {}
  <2>1. \E i \in 1 .. 5 : Topics[i] \in says /\ \A j \in 1 .. i - 1 : Topics[j] \notin says
    BY <1>2 DEF Topics
  <2>2. FirstTopic(says) \in {Topics[i] : i \in 1 .. 5}
    BY <2>1 DEF FirstTopic
  <2> QED
    BY <1>2, <2>2 DEF Kind, Kinds
<1>3. CASE status \notin DOMAIN ByStatus /\ says = {}
  BY <1>3 DEF Kind, Kinds
<1> QED
  BY <1>1, <1>2, <1>3

LEMMA FailureFact ==
  ASSUME NEW call \in Failures
  PROVE  call \in Calls
<1>1. PICK status \in DOMAIN ByStatus \cup {400, 422, 500},
           says \in SUBSET {Topics[i] : i \in 1..5}, after \in Seconds \cup {None} :
        call = [kind |-> Kind(status, says), after |-> after, taken |-> FALSE]
  BY DEF Failures
<1>2. Kind(status, says) \in Kinds
  BY KindInKinds
<1> QED
  BY <1>1, <1>2 DEF Calls

LEMMA PassingFact == Retriable \cap Lasting = {} /\ "ConnectionError" \in Retriable
BY DEF Retriable, Lasting

LEMMA Initial == Init => IInv
<1> SUFFICES ASSUME Init PROVE IInv
  OBVIOUS
<1> USE Naturals DEF Init
<1>1. TypeOK
  BY DEF TypeOK
<1>2. Counted /\ Slept /\ RepeatsOnlyPassing
  BY DEF Counted, Running, Slept, RepeatsOnlyPassing
<1>3. Summed
  BY DEF Summed
<1> QED
  BY <1>1, <1>2, <1>3 DEF IInv

\* A call that is known and after which the loop ends.
LEMMA Ends ==
  ASSUME IInv, pc = "call", NEW call \in Calls, Called(call), NEW how \in {"failed", "error"}, Leave(how),
         call.kind \in Lasting => how = "failed"
  PROVE  IInv'
<1> USE Naturals DEF IInv, Called, Leave
<1>1. attempts \in Nat /\ Len(calls) = attempts /\ Len(slept) = attempts /\ attempts <= MaxRetries
  BY DEF TypeOK, Counted, Running
<1>2. /\ calls' \in Seq(Calls) /\ Len(calls') = attempts + 1 /\ calls'[attempts + 1] = call
      /\ \A i \in 1 .. attempts : calls'[i] = calls[i]
  BY <1>1, AppendProperties DEF TypeOK
<1>3. TypeOK'
  BY <1>1, <1>2 DEF TypeOK
<1>4. Counted'
  BY <1>1, <1>2 DEF Counted, Running
<1>5. Slept'
  BY <1>1, <1>2 DEF Slept, TypeOK
<1>6. Summed'
  BY DEF Summed
<1>7. RepeatsOnlyPassing'
  BY <1>1, <1>2 DEF RepeatsOnlyPassing, TypeOK
<1> QED
  BY <1>3, <1>4, <1>5, <1>6, <1>7

\* A call that is known and is repeated.
LEMMA Repeats ==
  ASSUME IInv, pc = "call", NEW call \in Calls, Called(call), ~Exhausted(attempts + 1),
         call.kind \in Retriable, Retry(call)
  PROVE  IInv'
<1> USE Naturals DEF IInv, Called
<1>1. attempts \in Nat /\ Len(calls) = attempts /\ Len(slept) = attempts /\ attempts + 1 <= MaxRetries
  BY DEF TypeOK, Counted, Running, Exhausted
<1>2. /\ calls' \in Seq(Calls) /\ Len(calls') = attempts + 1 /\ calls'[attempts + 1] = call
      /\ \A i \in 1 .. attempts : calls'[i] = calls[i]
  BY <1>1, AppendProperties DEF TypeOK
<1>3. PICK d \in Delays(attempts + 1, call.kind, call.after) :
        waited' = waited + d /\ slept' = Append(slept, d)
  BY DEF Retry
<1>4. d \in 0 .. MaxDelay
  <2>1. attempts + 1 \in Nat \ {0}
    BY <1>1
  <2>2. call.after \in Seconds \cup {None}
    BY DEF Calls
  <2> QED
    BY <1>3, <2>1, <2>2, DelaysBounded
<1>5. /\ slept' \in Seq(0 .. MaxDelay) /\ Len(slept') = attempts + 1 /\ slept'[attempts + 1] = d
      /\ \A i \in 1 .. attempts : slept'[i] = slept[i]
  BY <1>1, <1>3, <1>4, AppendProperties DEF TypeOK
<1>6. TypeOK'
  BY <1>1, <1>2, <1>3, <1>4, <1>5 DEF TypeOK, Retry
<1>7. Counted'
  BY <1>1, <1>2, <1>5 DEF Counted, Running, Retry
<1>8. Slept'
  <2> SUFFICES ASSUME NEW i \in DOMAIN slept'
               PROVE  i \in DOMAIN calls' /\ slept'[i] \in Delays(i, calls'[i].kind, calls'[i].after)
    BY DEF Slept
  <2>1. i \in 1 .. attempts + 1 /\ i \in DOMAIN calls'
    BY <1>2, <1>5
  <2>2. CASE i = attempts + 1
    BY <1>2, <1>3, <1>5, <2>1, <2>2
  <2>3. CASE i \in 1 .. attempts
    BY <1>1, <1>2, <1>5, <2>1, <2>3 DEF Slept, TypeOK
  <2> QED
    BY <1>1, <2>1, <2>2, <2>3
<1>9. Summed'
  <2>1. waited \in Nat /\ waited <= attempts * MaxDelay /\ d <= MaxDelay
    BY <1>1, <1>4 DEF Summed, TypeOK
  <2>2. (attempts + 1) * MaxDelay = attempts * MaxDelay + MaxDelay
    BY <1>1
  <2>3. attempts * MaxDelay \in Nat
    BY <1>1
  <2>4. waited + d <= attempts * MaxDelay + MaxDelay
    BY <1>4, <2>1, <2>3
  <2> QED
    BY <1>3, <1>5, <2>2, <2>4 DEF Summed
<1>10. RepeatsOnlyPassing'
  BY <1>1, <1>2, PassingFact DEF RepeatsOnlyPassing, TypeOK, Retry
<1> QED
  BY <1>6, <1>7, <1>8, <1>9, <1>10

LEMMA Preserved == IInv /\ [Next]_vars => IInv'
<1> SUFFICES ASSUME IInv, [Next]_vars PROVE IInv'
  OBVIOUS
<1>1. CASE Success
  <2>1. TypeOK'
    BY <1>1, Naturals DEF IInv, TypeOK, Success, Leave, Counted, Running
  <2>2. Counted' /\ Slept' /\ Summed' /\ RepeatsOnlyPassing'
    BY <1>1 DEF IInv, TypeOK, Counted, Running, Slept, Summed, RepeatsOnlyPassing, Success, Leave
  <2> QED
    BY <2>1, <2>2 DEF IInv
<1>2. CASE Failure
  <2>1. PICK call \in Failures :
          /\ pc = "call" /\ Called(call)
          /\ IF Exhausted(attempts + 1) \/ call.kind \notin Retriable THEN Leave("failed") ELSE Retry(call)
    BY <1>2 DEF Failure
  <2> QED
    BY <2>1, FailureFact, Ends, Repeats
<1>3. CASE Error
  <2>1. PICK taken \in BOOLEAN :
          LET call == [kind |-> "ConnectionError", after |-> None, taken |-> taken]
          IN  /\ pc = "call" /\ Called(call)
              /\ IF Exhausted(attempts + 1) THEN Leave("error") ELSE Retry(call)
    BY <1>3 DEF Error
  <2> DEFINE call == [kind |-> "ConnectionError", after |-> None, taken |-> taken]
  <2>2. call \in Calls /\ call.kind = "ConnectionError"
    BY DEF Calls, Kinds
  <2>3. call.kind \notin Lasting /\ call.kind \in Retriable
    BY <2>2, PassingFact
  <2> HIDE DEF call
  <2> QED
    BY <2>1, <2>2, <2>3, Ends, Repeats DEF call
<1>4. CASE Wake \/ Drop
  BY <1>4 DEF IInv, TypeOK, Counted, Running, Slept, Summed, RepeatsOnlyPassing, Wake, Drop
<1>5. CASE UNCHANGED vars
  BY <1>5 DEF IInv, TypeOK, Counted, Running, Slept, Summed, RepeatsOnlyPassing, vars
<1> QED
  BY <1>1, <1>2, <1>3, <1>4, <1>5 DEF Next
-------------------------------------------------------------------------------
THEOREM InductiveInvariant == Spec => []IInv
BY Initial, Preserved, PTL DEF Spec

\* The variables keep their types; no sleep is longer than the configured maximum, however the
\* arithmetic wraps.
THEOREM TypeCorrect == Spec => []TypeOK
<1>1. IInv => TypeOK
  BY DEF IInv
<1> QED
  BY <1>1, InductiveInvariant, PTL

\* Whatever the upstream answers, a request that failed for a lasting reason is not sent to it
\* again (is_retriable, classify_upstream_error).
THEOREM OnlyPassingRepeated == Spec => []RepeatsOnlyPassing
<1>1. IInv => RepeatsOnlyPassing
  BY DEF IInv
<1> QED
  BY <1>1, InductiveInvariant, PTL

\* A request makes at most one call more than there are retries, and waits no longer than the
\* retries times the maximal delay, also where a sum wraps (execute_with_retry).
THEOREM WaitLimited == Spec => []WaitBounded
<1>1. ASSUME IInv PROVE WaitBounded
  <2>1. Len(slept) \in Nat /\ Len(slept) <= MaxRetries /\ waited <= Len(slept) * MaxDelay /\ waited \in Nat
    BY <1>1 DEF IInv, TypeOK, Counted, Summed
  <2>2. PICK n \in Nat : MaxRetries = Len(slept) + n
    <3>1. MaxRetries - Len(slept) \in Nat /\ MaxRetries = Len(slept) + (MaxRetries - Len(slept))
      BY <2>1, Naturals
    <3> QED
      BY <3>1
  <2>3. MaxRetries * MaxDelay = Len(slept) * MaxDelay + n * MaxDelay /\ n * MaxDelay \in Nat
    BY <2>1, <2>2, Naturals
  <2>4. waited <= MaxRetries * MaxDelay
    BY <2>1, <2>3, Naturals
  <2> QED
    BY <1>1, <2>4, Naturals DEF IInv, TypeOK, WaitBounded
<1> QED
  BY <1>1, InductiveInvariant, PTL

\* No sum and no product wraps: true of the settings as shipped.
NoWrap ==
  /\ MaxRetries <= Bits
  /\ \A k \in 1 .. MaxRetries : BaseDelay * 2^(k - 1) + BaseDelay + 1 < Word
  /\ \A after \in Seconds : after * Second < Word

LEMMA AskedIsKept ==
  ASSUME NoWrap, NEW after \in Seconds
  PROVE  Asked(after) = Lesser(MaxDelay, after * Second)
<1>1. after * Second \in Nat /\ after * Second < Word
  BY Naturals, Times DEF NoWrap
<1> QED
  BY <1>1, Wrapped, Naturals DEF Asked, Lesser

LEMMA BackoffIsKept ==
  ASSUME NoWrap, NEW k \in 1 .. MaxRetries, NEW kind, NEW d \in Backoff(k, kind)
  PROVE  d >= Lesser(MaxDelay, Base(kind) * 2^(k - 1))
<1> DEFINE b == Base(kind)
           w == 2^(k - 1)
<1>1. b \in Nat /\ b <= BaseDelay /\ w \in Nat /\ k - 1 < Bits
  BY BaseNat, Naturals, PowersAssumption DEF NoWrap
<1>2. b * w \in Nat /\ b * w <= BaseDelay * w
  <2>1. PICK n \in Nat : BaseDelay = b + n
    <3>1. BaseDelay - b \in Nat /\ BaseDelay = b + (BaseDelay - b)
      BY <1>1, Naturals
    <3> QED
      BY <3>1
  <2>2. BaseDelay * w = b * w + n * w /\ n * w \in Nat /\ b * w \in Nat
    BY <1>1, <2>1
  <2> QED
    BY <2>2
<1>3. BaseDelay * w + BaseDelay + 1 < Word /\ BaseDelay * w \in Nat
  BY <1>1, Naturals DEF NoWrap
<1>4. PICK j \in Jitters(b) : d = Lesser((Exponential(b, k) + j) % Word, MaxDelay)
  BY DEF Backoff
<1>5. j \in Nat /\ j <= b + 1
  BY <1>1, <1>4, JittersNat
<1>6. Exponential(b, k) = b * w
  <2>1. Exponential(b, k) = Lesser(b * w, Word - 1)
    BY <1>1 DEF Exponential
  <2> HIDE DEF b, w
  <2> QED
    BY <1>1, <1>2, <1>3, <2>1, Naturals DEF Lesser
<1> HIDE DEF b, w
<1>7. b * w + j \in Nat /\ b * w + j < Word
  BY <1>1, <1>2, <1>3, <1>5, Naturals
<1>8. d = Lesser(b * w + j, MaxDelay)
  BY <1>4, <1>6, <1>7, Wrapped
<1>9. d >= Lesser(MaxDelay, b * w)
  BY <1>2, <1>5, <1>8, Naturals DEF Lesser
<1> QED
  BY <1>9 DEF b, w

\* Where nothing wraps, the upstream has before each repetition the pause it asked for, or the
\* documented one, up to the maximum (calculate_delay).
THEOREM PausesKept == NoWrap => (Spec => []WaitsAsTold)
<1> SUFFICES ASSUME NoWrap PROVE Spec => []WaitsAsTold
  OBVIOUS
<1>1. ASSUME IInv PROVE WaitsAsTold
  <2>1. ASSUME NEW i \in DOMAIN slept
        PROVE  /\ i \in 1 .. MaxRetries /\ i \in DOMAIN calls
               /\ slept[i] \in Delays(i, calls[i].kind, calls[i].after)
               /\ slept[i] \in Int
               /\ calls[i].after \in Seconds \cup {None}
    <3>1. i \in DOMAIN calls /\ slept[i] \in Delays(i, calls[i].kind, calls[i].after)
      BY <1>1 DEF IInv, Slept
    <3>2. slept \in Seq(0 .. MaxDelay) /\ calls \in Seq(Calls) /\ Len(slept) <= MaxRetries
      BY <1>1 DEF IInv, TypeOK, Counted
    <3>3. i \in 1 .. MaxRetries /\ slept[i] \in 0 .. MaxDelay
      BY <2>1, <3>2, Naturals
    <3>4. calls[i] \in Calls
      BY <3>1, <3>2
    <3> QED
      BY <3>1, <3>3, <3>4, Naturals DEF Calls
  <2>2. BackoffGrows
    BY <2>1, BackoffIsKept DEF BackoffGrows, Delays
  <2>3. RetryAfterKept
    <3> SUFFICES ASSUME NEW i \in DOMAIN slept, calls[i].kind = "RateLimit", calls[i].after # None
                 PROVE  slept[i] >= Lesser(MaxDelay, calls[i].after * Second)
      BY DEF RetryAfterKept
    <3>1. slept[i] = Asked(calls[i].after) /\ calls[i].after \in Seconds
      BY <2>1 DEF Delays
    <3>2. slept[i] = Lesser(MaxDelay, calls[i].after * Second)
      BY <3>1, AskedIsKept
    <3> QED
      BY <2>1, <3>2
  <2> QED
    BY <2>2, <2>3 DEF WaitsAsTold
<1> QED
  BY <1>1, InductiveInvariant, PTL
===============================================================================
