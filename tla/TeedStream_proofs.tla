-------------------------- MODULE TeedStream_proofs ---------------------------
(***************************************************************************)
(* Proofs about TeedStream and the two modules over it.                    *)
(*                                                                         *)
(* First, what the steps of a stream leave of the types, and of a task's   *)
(* count of equal polls.                                                   *)
(*                                                                         *)
(* Then ResponseCache, for any requests, answers, expiry and poll limit.   *)
(* The inductive invariant relates the watchdog's clock to a task's count  *)
(* of equal polls: a task has settled before the watchdog can end a stream *)
(* that has begun, so what the task saw is a part of the answer.           *)
(*                                                                         *)
(* Then RequestLog, for any requests, ids and answers.  The inductive      *)
(* invariant says whose a row is: a task that will complete a row inserted *)
(* it, and it is still there unless the logs were cleared.                 *)
(***************************************************************************)
EXTENDS ResponseCache, RequestLog, TLAPS

\* The types of the stream alone, and of the tasks.
Flowing ==
  /\ answer \in [Requests -> Answers \cup {<<>>}]
  /\ stream \in [Requests -> {"none", "open", "over"}]
  /\ quiet  \in [Requests -> 0..Idle]
  /\ buffer \in [Requests -> Seq(Chunks \cup {TimedOut})]

\* A task that goes on polling has not found the same three times.
Tasking ==
  /\ task \in [Requests -> Watching]
  /\ \A r \in Requests : Is(r, "poll") => task[r].stable < 2

LEMMA StreamTyped == (Flowing /\ Tasking => StreamType) /\ (StreamType => Flowing)
BY DEF Flowing, Tasking, StreamType

LEMMA StreamInitial == StreamInit => Flowing /\ Tasking
BY IdleAssumption DEF StreamInit, Flowing, Tasking, Watching, At, Is

LEMMA AnswersAreSequences ==
  ASSUME Flowing, NEW r \in Requests
  PROVE  answer[r] \in Seq(Chunks)
<1>1. <<>> \in Seq(Chunks)
  OBVIOUS
<1>2. Answers \subseteq Seq(Chunks)
  BY AnswerAssumption
<1> QED
  BY <1>1, <1>2 DEF Flowing

\* What every step of a stream but a tick does to the others, and to its own buffer.
LEMMA StreamSteps ==
  ASSUME Flowing, NEW r \in Requests, Deliver(r) \/ Finish(r) \/ Watchdog(r)
  PROVE  /\ Flowing'
         /\ answer' = answer
         /\ \A x \in Requests \ {r} :
              stream'[x] = stream[x] /\ quiet'[x] = quiet[x] /\ buffer'[x] = buffer[x]
         /\ stream[r] = "open"
<1>1. answer[r] \in Seq(Chunks) /\ Idle \in Nat
  BY AnswersAreSequences, IdleAssumption
<1>2. CASE Deliver(r)
  <2>1. buffer[r] \in Seq(Chunks \cup {TimedOut})
    BY DEF Flowing
  <2>2. Len(buffer[r]) + 1 \in 1..Len(answer[r])
    BY <1>1, <1>2, <2>1 DEF Deliver
  <2>3. answer[r][Len(buffer[r]) + 1] \in Chunks \cup {TimedOut}
    BY <1>1, <2>2
  <2>4. Append(buffer[r], answer[r][Len(buffer[r]) + 1]) \in Seq(Chunks \cup {TimedOut})
    BY <2>1, <2>3
  <2> QED
    BY <1>1, <1>2, <2>4 DEF Deliver, Flowing
<1>3. CASE Finish(r)
  BY <1>1, <1>3 DEF Finish, Over, Flowing
<1>4. CASE Watchdog(r)
  <2>1. Append(buffer[r], TimedOut) \in Seq(Chunks \cup {TimedOut})
    BY DEF Flowing
  <2> QED
    BY <1>1, <1>4, <2>1 DEF Watchdog, Over, Flowing
<1> QED
  BY <1>2, <1>3, <1>4

LEMMA OpenStep ==
  ASSUME Flowing, NEW r \in Requests, Open(r)
  PROVE  /\ Flowing'
         /\ answer'[r] \in Answers /\ stream'[r] = "open"
         /\ \A x \in Requests \ {r} : answer'[x] = answer[x] /\ stream'[x] = stream[x]
         /\ quiet' = quiet /\ buffer' = buffer
BY DEF Open, Flowing

\* A poll leaves a task polling, with fewer than two repetitions, or settled; and it has
\* seen the whole buffer.
LEMMA PolledTask ==
  ASSUME NEW q \in Watching, q.stable < 2, NEW length \in Nat
  PROVE  /\ Polled(q, length) \in Watching
         /\ Polled(q, length).pc = "poll" \/ Polled(q, length).pc = "settled"
         /\ Polled(q, length).pc = "poll" => Polled(q, length).stable < 2
         /\ Polled(q, length).last = length
<1> DEFINE stable == IF length > 0 /\ length = q.last THEN q.stable + 1 ELSE 0
           polls  == q.polls + 1
           point  == IF stable = 2 \/ polls = Limit THEN "settled" ELSE "poll"
<1>1. stable \in 0..2 /\ polls \in Nat /\ point \in {"poll", "settled"}
  BY DEF Watching
<1>2. point = "poll" => stable < 2
  BY <1>1
<1>3. Polled(q, length) = [pc |-> point, polls |-> polls, last |-> length, stable |-> stable]
  BY DEF Polled
<1> HIDE DEF stable, polls, point
<1> QED
  BY <1>1, <1>2, <1>3 DEF Watching

LEMMA TickStep ==
  ASSUME Flowing, Tasking, StreamTick
  PROVE  /\ Flowing' /\ Tasking'
         /\ answer' = answer /\ stream' = stream /\ buffer' = buffer
         /\ \A r \in Requests : task'[r] =
              IF task[r].pc = "poll" THEN Polled(task[r], Len(buffer[r])) ELSE task[r]
         /\ \A r \in Requests : task[r].pc = "poll" =>
              task'[r].pc \in {"poll", "settled"} /\ task'[r].last = Len(buffer[r])
<1>1. /\ task' = [r \in Requests |->
                    IF task[r].pc = "poll" THEN Polled(task[r], Len(buffer[r])) ELSE task[r]]
      /\ UNCHANGED <<answer, stream, buffer>> /\ quiet' = Quieter
  BY DEF StreamTick, Is
<1>2. ASSUME NEW r \in Requests, task[r].pc = "poll"
      PROVE  /\ Polled(task[r], Len(buffer[r])) \in Watching
             /\ Polled(task[r], Len(buffer[r])).pc \in {"poll", "settled"}
             /\ Polled(task[r], Len(buffer[r])).pc = "poll"
                  => Polled(task[r], Len(buffer[r])).stable < 2
             /\ Polled(task[r], Len(buffer[r])).last = Len(buffer[r])
  <2>1. task[r] \in Watching /\ task[r].stable < 2 /\ Len(buffer[r]) \in Nat
    BY <1>2 DEF Tasking, Flowing, Is
  <2> QED
    BY <2>1, PolledTask
<1>3. Quieter \in [Requests -> 0..Idle]
  BY IdleAssumption DEF Flowing, Quieter
<1>4. Flowing'
  BY <1>1, <1>3 DEF Flowing
<1>5. Tasking'
  BY <1>1, <1>2 DEF Tasking, Is
<1> QED
  BY <1>1, <1>2, <1>4, <1>5

LEMMA TaskStep ==
  ASSUME Tasking, NEW r \in Requests,
         NEW point \in {"off", "insert", "poll", "settled", "ended"},
         task' = [task EXCEPT ![r] = At(point)]
  PROVE  /\ Tasking'
         /\ task'[r].pc = point /\ task'[r].last = 0 /\ task'[r].stable = 0
         /\ \A x \in Requests \ {r} : task'[x] = task[x]
<1>1. At(point) \in Watching /\ At(point).pc = point /\ At(point).last = 0 /\ At(point).stable = 0
  BY DEF At, Watching
<1> QED
  BY <1>1 DEF Tasking, Is
-------------------------------------------------------------------------------
(***************************************************************************)
(* ResponseCache                                                           *)
(***************************************************************************)

Requested ==
  /\ pc     \in [Requests -> {"new", "call", "done"}]
  /\ left   \in [Requests -> 0..Life]
  /\ cache  \in Entries \cup {None}
  /\ served \in [Requests -> Entries \cup {None}]

\* Streams and tasks belong to requests that route is done with.
Fresh ==
  \A r \in Requests :
    /\ pc[r] # "done" => stream[r] = "none" /\ task[r].pc \notin {"poll", "settled"}
    /\ stream[r] = "none" => buffer[r] = <<>>

\* The first n elements of a sequence are those of another.
Part(body, n, whole) ==
  n <= Len(whole) /\ \A i \in 1..n : body[i] = whole[i]

\* An open stream has passed on a part of the answer, and nothing else.
Passing ==
  \A r \in Requests : stream[r] = "open" => Part(buffer[r], Len(buffer[r]), answer[r])

\* While a task polls, its buffer holds a part of the answer, or the watchdog's event
\* alone; a stream that has begun has not been quiet for longer than the task knows.
Watched ==
  \A r \in Requests : task[r].pc = "poll" =>
    /\ task[r].last <= Len(buffer[r])
    /\ Part(buffer[r], Len(buffer[r]), answer[r]) \/ buffer[r] = <<TimedOut>>
    /\ stream[r] = "open" /\ buffer[r] # <<>> =>
         quiet[r] <= IF task[r].last = Len(buffer[r]) THEN task[r].stable + 1 ELSE 0

\* So is what it has seen once it is settled.
Settled ==
  \A r \in Requests : task[r].pc = "settled" =>
    /\ task[r].last <= Len(buffer[r])
    /\ \/ Part(buffer[r], task[r].last, answer[r])
       \/ task[r].last = 1 /\ buffer[r][1] = TimedOut

\* An entry is genuine, and expires with the request it came from.
Stored ==
  cache # None => pc[cache.by] = "done" /\ Genuine(cache) /\ cache.left = left[cache.by]

ServedGenuine == \A r \in Requests : served[r] # None => pc[served[r].by] = "done" /\ Genuine(served[r])

IInv ==
  /\ Flowing /\ Tasking /\ Requested /\ Fresh /\ Passing /\ Watched /\ Settled
  /\ Stored /\ ServedGenuine
-------------------------------------------------------------------------------
LEMMA Initial == Init => IInv
<1> SUFFICES ASSUME Init PROVE IInv
  OBVIOUS
<1>1. Flowing /\ Tasking
  BY StreamInitial DEF Init
<1>2. Requested
  BY LifeAssumption DEF Init, Requested
<1>3. Fresh /\ Passing /\ Watched /\ Settled
  BY DEF Init, StreamInit, At, Fresh, Passing, Watched, Settled
<1>4. Stored /\ ServedGenuine
  BY DEF Init, Stored, ServedGenuine
<1> QED
  BY <1>1, <1>2, <1>3, <1>4 DEF IInv

\* Entries stay genuine while the answers to finished requests do.
AnswersStay ==
  /\ \A r \in Requests : pc[r] = "done" => answer'[r] = answer[r] /\ pc'[r] = "done"

LEMMA StillGenuine ==
  ASSUME IInv, AnswersStay
  PROVE  /\ served' = served => ServedGenuine'
         /\ cache # None => LET e == cache IN
              pc'[e.by] = "done" /\ e.by \in Requests /\
              (Len(e.body) <= Len(answer'[e.by])
               /\ (\A i \in DOMAIN e.body : e.body[i] = answer'[e.by][i])
               /\ (Len(e.body) < Len(answer'[e.by]) => \E i \in DOMAIN e.body : e.body[i] \in Marked))
<1>1. ASSUME NEW r \in Requests, served[r] # None
      PROVE  served[r].by \in Requests /\ pc[served[r].by] = "done" /\ Genuine(served[r])
  BY <1>1 DEF IInv, Requested, ServedGenuine, Entries
<1>2. served' = served => ServedGenuine'
  BY <1>1 DEF AnswersStay, ServedGenuine, Genuine
<1>3. ASSUME cache # None
      PROVE  cache.by \in Requests /\ pc[cache.by] = "done" /\ Genuine(cache)
  BY <1>3 DEF IInv, Requested, Stored, Entries
<1> QED
  BY <1>2, <1>3 DEF AnswersStay, Genuine

LEMMA StillStored ==
  ASSUME IInv, AnswersStay, cache' = cache, \A r \in Requests : pc[r] = "done" => left'[r] = left[r]
  PROVE  Stored'
BY StillGenuine DEF IInv, Stored, Genuine, Requested, Entries

\* What steps that do not touch streams and tasks leave as it is.
LEMMA StreamsStay ==
  ASSUME IInv, UNCHANGED <<streamVars, task>>, \A r \in Requests : pc[r] = "done" => pc'[r] = "done"
  PROVE  Flowing' /\ Tasking' /\ Fresh' /\ Passing' /\ Watched' /\ Settled'
<1>1. Flowing' /\ Tasking'
  BY DEF IInv, streamVars, Flowing, Tasking, Is
<1>2. Passing' /\ Watched' /\ Settled'
  BY DEF IInv, streamVars, Passing, Watched, Settled, Part
<1>3. stream' = stream /\ buffer' = buffer /\ task' = task
  BY DEF streamVars
<1>4. Fresh'
  BY <1>3 DEF IInv, Fresh
<1> QED
  BY <1>1, <1>2, <1>4

LEMMA LookupStep ==
  ASSUME IInv, NEW r \in Requests, Lookup(r)
  PROVE  IInv'
<1>1. /\ pc[r] = "new" /\ cache' = cache /\ UNCHANGED <<streamVars, task>> /\ answer' = answer
      /\ pc' \in [Requests -> {"new", "call", "done"}]
      /\ \A x \in Requests \ {r} : pc'[x] = pc[x]
  BY DEF IInv, Requested, Lookup, streamVars
<1>2. /\ left' \in [Requests -> 0..Life]
      /\ \A x \in Requests \ {r} : left'[x] = left[x]
  BY LifeAssumption DEF IInv, Requested, Lookup
<1>3. /\ served' \in [Requests -> Entries \cup {None}]
      /\ \A x \in Requests \ {r} : served'[x] = served[x]
      /\ served'[r] = served[r] \/ (served'[r] = cache /\ cache # None)
  BY DEF IInv, Requested, Lookup
<1>4. Requested'
  BY <1>1, <1>2, <1>3 DEF IInv, Requested
<1>5. Flowing' /\ Tasking' /\ Fresh' /\ Passing' /\ Watched' /\ Settled'
  BY <1>1, StreamsStay
<1>6. AnswersStay
  BY <1>1 DEF AnswersStay
<1>7. Stored'
  BY <1>1, <1>2, <1>6, StillStored
<1>8. ServedGenuine'
  <2>1. ASSUME NEW x \in Requests, served[x] # None
        PROVE  /\ served[x].by \in Requests /\ pc'[served[x].by] = "done" /\ Genuine(served[x])
    BY <1>1, <2>1 DEF IInv, Requested, ServedGenuine, Entries
  <2>2. ASSUME cache # None
        PROVE  cache.by \in Requests /\ pc'[cache.by] = "done" /\ Genuine(cache)
    BY <1>1, <2>2 DEF IInv, Requested, Stored, Entries
  <2> QED
    BY <1>1, <1>3, <2>1, <2>2 DEF ServedGenuine, Genuine
<1> QED
  BY <1>4, <1>5, <1>7, <1>8 DEF IInv

LEMMA BufferedStep ==
  ASSUME IInv, NEW r \in Requests, Buffered(r)
  PROVE  IInv'
<1>1. /\ pc[r] = "call" /\ pc' = [pc EXCEPT ![r] = "done"]
      /\ UNCHANGED <<stream, quiet, buffer, task, left, served>>
      /\ stream[r] = "none" /\ task[r].pc \notin {"poll", "settled"}
  BY DEF IInv, Fresh, Buffered
<1>2. /\ pc' \in [Requests -> {"new", "call", "done"}] /\ pc'[r] = "done"
      /\ \A x \in Requests \ {r} : pc'[x] = pc[x]
  BY <1>1 DEF IInv, Requested
<1>3. /\ answer' \in [Requests -> Answers \cup {<<>>}]
      /\ \A x \in Requests \ {r} : answer'[x] = answer[x]
  BY DEF IInv, Flowing, Buffered
<1>4. AnswersStay
  BY <1>1, <1>2, <1>3 DEF AnswersStay
<1>5. Flowing' /\ Tasking'
  BY <1>1, <1>3 DEF IInv, Flowing, Tasking, Is
<1>6. Fresh'
  BY <1>1, <1>2 DEF IInv, Fresh
<1>7. Passing' /\ Watched' /\ Settled'
  BY <1>1, <1>3 DEF IInv, Passing, Watched, Settled, Part
<1>8. ServedGenuine'
  BY <1>1, <1>4, StillGenuine
<1>9. CASE cache' = cache
  <2>1. Stored'
    BY <1>1, <1>4, <1>9, StillStored
  <2>2. Requested'
    BY <1>1, <1>2, <1>9 DEF IInv, Requested
  <2> QED
    BY <1>5, <1>6, <1>7, <1>8, <2>1, <2>2 DEF IInv
<1>10. CASE cache' # cache
  <2>1. cache' = Entry(r, answer'[r]) /\ answer'[r] \in Answers
    BY <1>10 DEF IInv, Flowing, Buffered
  <2>2. answer'[r] \in Seq(Chunks) /\ answer'[r] \in Seq(Chunks \cup {TimedOut})
    BY <2>1, AnswerAssumption
  <2>3. /\ cache' \in Entries /\ cache'.by = r /\ cache'.body = answer'[r]
        /\ cache'.left = left[r]
    BY <2>1, <2>2 DEF IInv, Requested, Entry, Entries
  <2>4. Stored'
    BY <1>1, <1>2, <2>2, <2>3 DEF Stored, Genuine
  <2>5. Requested'
    BY <1>1, <1>2, <2>3 DEF IInv, Requested
  <2> QED
    BY <1>5, <1>6, <1>7, <1>8, <2>4, <2>5 DEF IInv
<1> QED
  BY <1>9, <1>10

LEMMA StreamingStep ==
  ASSUME IInv, NEW r \in Requests, Streaming(r)
  PROVE  IInv'
<1>1. /\ pc[r] = "call" /\ pc' = [pc EXCEPT ![r] = "done"] /\ Open(r)
      /\ UNCHANGED <<left, cache, served>>
      /\ stream[r] = "none" /\ buffer[r] = <<>> /\ task[r].pc \notin {"poll", "settled"}
  BY DEF IInv, Fresh, Streaming
<1>2. /\ pc' \in [Requests -> {"new", "call", "done"}] /\ pc'[r] = "done"
      /\ \A x \in Requests \ {r} : pc'[x] = pc[x]
  BY <1>1 DEF IInv, Requested
<1>3. /\ Flowing' /\ stream'[r] = "open" /\ answer'[r] \in Answers
      /\ \A x \in Requests \ {r} : answer'[x] = answer[x] /\ stream'[x] = stream[x]
      /\ quiet' = quiet /\ buffer' = buffer
  BY <1>1, OpenStep DEF IInv
<1>4. /\ Tasking'
      /\ \A x \in Requests \ {r} : task'[x] = task[x]
      /\ task'[r] = task[r] \/ (task'[r].pc = "poll" /\ task'[r].last = 0 /\ task'[r].stable = 0)
  <2>1. CASE task' = task
    BY <2>1 DEF IInv, Tasking, Is
  <2>2. CASE task' = [task EXCEPT ![r] = At("poll")]
    BY <2>2, TaskStep DEF IInv
  <2> QED
    BY <2>1, <2>2 DEF Streaming
<1>5. answer'[r] \in Seq(Chunks)
  BY <1>3, AnswerAssumption
<1>6. Part(buffer'[r], Len(buffer'[r]), answer'[r])
  BY <1>1, <1>3, <1>5 DEF Part
<1>7. AnswersStay
  BY <1>1, <1>2, <1>3 DEF AnswersStay
<1>8. Requested'
  BY <1>1, <1>2 DEF IInv, Requested
<1>9. Fresh'
  BY <1>1, <1>2, <1>3, <1>4 DEF IInv, Fresh
<1>10. Passing'
  BY <1>3, <1>6 DEF IInv, Passing, Part
<1>11. Watched'
  BY <1>1, <1>3, <1>4, <1>6 DEF IInv, Watched, Part
<1>12. Settled'
  BY <1>1, <1>3, <1>4 DEF IInv, Settled, Part
<1>13. Stored' /\ ServedGenuine'
  BY <1>1, <1>7, StillStored, StillGenuine
<1> QED
  BY <1>3, <1>4, <1>8, <1>9, <1>10, <1>11, <1>12, <1>13 DEF IInv

\* What a chunk, an end or a time-out does to the one buffer it is about.
LEMMA BufferStep ==
  ASSUME IInv, NEW r \in Requests, Deliver(r) \/ Finish(r) \/ Watchdog(r)
  PROVE  /\ Len(buffer[r]) <= Len(buffer'[r])
         /\ \A i \in 1..Len(buffer[r]) : buffer'[r][i] = buffer[r][i]
         /\ Len(buffer[r]) \in Nat /\ Len(buffer'[r]) \in Nat
         /\ stream'[r] = "open" =>
              /\ Part(buffer'[r], Len(buffer'[r]), answer[r])
              /\ quiet'[r] = 0
              /\ Len(buffer'[r]) = Len(buffer[r]) + 1
         /\ stream'[r] # "open" => stream'[r] = "over"
         /\ task[r].pc = "poll" =>
              Part(buffer'[r], Len(buffer'[r]), answer[r]) \/ buffer'[r] = <<TimedOut>>
<1>1. /\ buffer[r] \in Seq(Chunks \cup {TimedOut}) /\ Part(buffer[r], Len(buffer[r]), answer[r])
      /\ answer[r] \in Seq(Chunks) /\ stream[r] = "open"
      /\ quiet[r] \in 0..Idle /\ Idle \in Nat /\ Idle > 2
  BY StreamSteps, AnswersAreSequences, IdleAssumption DEF IInv, Flowing, Passing
<1>2. CASE Deliver(r)
  <2>1. /\ buffer'[r] = Append(buffer[r], answer[r][Len(buffer[r]) + 1])
        /\ quiet'[r] = 0 /\ stream' = stream /\ Len(buffer[r]) < Len(answer[r])
    BY <1>2 DEF IInv, Flowing, Deliver
  <2> QED
    BY <1>1, <2>1 DEF Part
<1>3. CASE Finish(r)
  BY <1>1, <1>3 DEF IInv, Flowing, Finish, Over
<1>4. CASE Watchdog(r)
  <2>1. /\ buffer'[r] = Append(buffer[r], TimedOut) /\ quiet[r] = Idle /\ stream'[r] = "over"
    BY <1>4 DEF IInv, Flowing, Watchdog, Over
  <2>2. ASSUME task[r].pc = "poll" PROVE buffer[r] = <<>>
    <3>1. task[r].stable < 2 /\ task[r].stable \in Nat
      BY <2>2 DEF IInv, Tasking, Is, Watching
    <3> QED
      BY <1>1, <2>1, <2>2, <3>1 DEF IInv, Watched
  <2>3. /\ Len(buffer'[r]) = Len(buffer[r]) + 1 /\ Len(buffer[r]) \in Nat
        /\ \A i \in 1..Len(buffer[r]) : buffer'[r][i] = buffer[r][i]
    BY <1>1, <2>1
  <2>4. buffer[r] = <<>> => buffer'[r] = <<TimedOut>>
    BY <2>1
  <2> QED
    BY <2>1, <2>2, <2>3, <2>4
<1> QED
  BY <1>2, <1>3, <1>4

LEMMA StreamStepStep ==
  ASSUME IInv, NEW r \in Requests, StreamStep(r)
  PROVE  IInv'
<1>1. /\ Deliver(r) \/ Finish(r) \/ Watchdog(r)
      /\ UNCHANGED <<task, pc, left, cache, served>>
  BY DEF StreamStep
<1>2. /\ Flowing' /\ answer' = answer /\ stream[r] = "open"
      /\ \A x \in Requests \ {r} :
           stream'[x] = stream[x] /\ quiet'[x] = quiet[x] /\ buffer'[x] = buffer[x]
  BY <1>1, StreamSteps DEF IInv
<1>3. /\ Len(buffer[r]) <= Len(buffer'[r])
      /\ \A i \in 1..Len(buffer[r]) : buffer'[r][i] = buffer[r][i]
      /\ Len(buffer[r]) \in Nat /\ Len(buffer'[r]) \in Nat
      /\ stream'[r] = "open" =>
           /\ Part(buffer'[r], Len(buffer'[r]), answer[r])
           /\ quiet'[r] = 0
           /\ Len(buffer'[r]) = Len(buffer[r]) + 1
      /\ stream'[r] # "open" => stream'[r] = "over"
      /\ task[r].pc = "poll" =>
           Part(buffer'[r], Len(buffer'[r]), answer[r]) \/ buffer'[r] = <<TimedOut>>
  BY <1>1, BufferStep
<1>4. Tasking' /\ Requested'
  BY <1>1 DEF IInv, Tasking, Is, Requested
<1>5. Fresh'
  BY <1>1, <1>2, <1>3 DEF IInv, Fresh
<1>6. Passing'
  BY <1>2, <1>3 DEF IInv, Passing, Part
<1>7. Watched'
  <2> SUFFICES ASSUME NEW x \in Requests, task[x].pc = "poll"
               PROVE  /\ task[x].last <= Len(buffer'[x])
                      /\ Part(buffer'[x], Len(buffer'[x]), answer[x]) \/ buffer'[x] = <<TimedOut>>
                      /\ stream'[x] = "open" /\ buffer'[x] # <<>> =>
                           quiet'[x] <= IF task[x].last = Len(buffer'[x])
                                        THEN task[x].stable + 1 ELSE 0
    BY <1>1, <1>2 DEF Watched, Part
  <2>1. task[x].last \in Nat /\ task[x].stable \in Nat
    BY DEF IInv, Tasking, Watching
  <2>2. CASE x = r
    BY <1>3, <2>1, <2>2 DEF IInv, Watched
  <2>3. CASE x # r
    BY <1>2, <2>3 DEF IInv, Watched
  <2> QED
    BY <2>2, <2>3
<1>8. Settled'
  <2> SUFFICES ASSUME NEW x \in Requests, task[x].pc = "settled"
               PROVE  /\ task[x].last <= Len(buffer'[x])
                      /\ \/ Part(buffer'[x], task[x].last, answer[x])
                         \/ task[x].last = 1 /\ buffer'[x][1] = TimedOut
    BY <1>1, <1>2 DEF Settled, Part
  <2>1. task[x].last \in Nat
    BY DEF IInv, Tasking, Watching
  <2>2. /\ task[x].last <= Len(buffer[x])
        /\ \/ Part(buffer[x], task[x].last, answer[x])
           \/ task[x].last = 1 /\ buffer[x][1] = TimedOut
    BY DEF IInv, Settled
  <2>3. CASE x = r
    BY <1>3, <2>1, <2>2, <2>3 DEF Part
  <2>4. CASE x # r
    BY <1>2, <2>2, <2>4
  <2> QED
    BY <2>3, <2>4
<1>9. AnswersStay
  BY <1>1, <1>2 DEF AnswersStay
<1>10. Stored' /\ ServedGenuine'
  BY <1>1, <1>9, StillStored, StillGenuine
<1> QED
  BY <1>2, <1>4, <1>5, <1>6, <1>7, <1>8, <1>10 DEF IInv

\* What is stored has a mark, so it is not the watchdog's event.
LEMMA StoreStep ==
  ASSUME IInv, NEW r \in Requests, Store(r)
  PROVE  IInv'
<1>1. /\ task[r].pc = "settled" /\ task' = [task EXCEPT ![r] = At("ended")]
      /\ UNCHANGED <<answer, stream, quiet, buffer, pc, left, served>>
  BY DEF Store, Is, streamVars
<1>2. Tasking' /\ task'[r].pc = "ended" /\ \A x \in Requests \ {r} : task'[x] = task[x]
  BY <1>1, TaskStep DEF IInv
<1>3. Flowing'
  BY <1>1 DEF IInv, Flowing
<1>4. Fresh' /\ Passing' /\ Watched' /\ Settled'
  <2>1. Fresh'
    BY <1>1, <1>2 DEF IInv, Fresh
  <2>2. Passing'
    BY <1>1 DEF IInv, Passing, Part
  <2>3. Watched' /\ Settled'
    BY <1>1, <1>2 DEF IInv, Watched, Settled, Part
  <2> QED
    BY <2>1, <2>2, <2>3
<1>5. AnswersStay
  BY <1>1 DEF AnswersStay
<1>6. ServedGenuine'
  BY <1>1, <1>5, StillGenuine
<1>7. CASE cache' = cache
  <2>1. Stored' /\ Requested'
    BY <1>1, <1>5, <1>7, StillStored DEF IInv, Requested
  <2> QED
    BY <1>2, <1>3, <1>4, <1>6, <2>1 DEF IInv
<1>8. CASE cache' # cache
  <2> DEFINE body == Seen(r)
             n    == task[r].last
  <2>1. Complete(body) /\ cache' = Entry(r, body)
    BY <1>8 DEF Store
  <2>2. /\ buffer[r] \in Seq(Chunks \cup {TimedOut}) /\ answer[r] \in Seq(Chunks)
        /\ n \in Nat /\ n <= Len(buffer[r])
        /\ Part(buffer[r], n, answer[r]) \/ (n = 1 /\ buffer[r][1] = TimedOut)
        /\ pc[r] = "done"
    BY <1>1, AnswersAreSequences DEF IInv, Flowing, Tasking, Watching, Settled, Fresh
  <2>3. /\ body \in Seq(Chunks \cup {TimedOut}) /\ Len(body) = n
        /\ \A i \in 1..n : body[i] = buffer[r][i]
    BY <2>2 DEF Seen
  <2> HIDE DEF body
  <2>4. PICK i \in 1..n : body[i] \in Marked
    BY <2>1, <2>2, <2>3 DEF Complete
  <2>5. Part(buffer[r], n, answer[r])
    BY <2>2, <2>3, <2>4, MarkAssumption, ChunkAssumption
  <2>6. /\ cache' \in Entries /\ cache'.by = r /\ cache'.body = body /\ cache'.left = left[r]
    BY <2>1, <2>3 DEF IInv, Requested, Entry, Entries
  <2>7. Stored'
    <3>1. pc'[cache'.by] = "done" /\ cache'.left = left'[cache'.by]
      BY <1>1, <2>2, <2>6
    <3>2. /\ answer'[cache'.by] = answer[r] /\ Len(cache'.body) = n
          /\ DOMAIN cache'.body = 1..n
      BY <1>1, <2>3, <2>6
    <3>3. /\ n <= Len(answer[r])
          /\ \A j \in 1..n : cache'.body[j] = answer[r][j]
      BY <2>3, <2>5, <2>6 DEF Part
    <3>4. \E j \in DOMAIN cache'.body : cache'.body[j] \in Marked
      BY <2>4, <2>6, <3>2
    <3>5. Genuine(cache)'
      BY <3>2, <3>3, <3>4 DEF Genuine
    <3> QED
      BY <3>1, <3>5 DEF Stored
  <2>8. Requested'
    BY <1>1, <2>6 DEF IInv, Requested
  <2> QED
    BY <1>2, <1>3, <1>4, <1>6, <2>7, <2>8 DEF IInv
<1> QED
  BY <1>7, <1>8

LEMMA TickStepStep ==
  ASSUME IInv, Tick
  PROVE  IInv'
<1>1. /\ UNCHANGED <<answer, stream, buffer, pc, served>> /\ StreamTick
      /\ left' = [r \in Requests |-> Less(left[r])]
  BY DEF Tick, StreamTick
<1>2. /\ Flowing' /\ Tasking'
      /\ \A r \in Requests : task'[r] =
           IF task[r].pc = "poll" THEN Polled(task[r], Len(buffer[r])) ELSE task[r]
      /\ \A r \in Requests : task[r].pc = "poll" =>
           task'[r].pc \in {"poll", "settled"} /\ task'[r].last = Len(buffer[r])
  BY <1>1, TickStep DEF IInv
<1>3. ASSUME NEW n \in 0..Life PROVE Less(n) \in 0..Life
  BY <1>3, LifeAssumption DEF Less
<1>4. /\ cache' \in Entries \cup {None}
      /\ cache = None => cache' = None
      /\ cache # None => /\ cache'.by = cache.by /\ cache'.body = cache.body
                         /\ cache'.left = Less(cache.left)
  <2>1. CASE cache = None
    BY <2>1 DEF Tick
  <2>2. CASE cache # None
    <3>1. cache \in Entries /\ cache' = [cache EXCEPT !.left = Less(cache.left)]
      BY <2>2 DEF IInv, Requested, Tick
    <3>2. Less(cache.left) \in 0..Life
      BY <1>3, <3>1 DEF Entries
    <3> QED
      BY <2>2, <3>1, <3>2 DEF Entries
  <2> QED
    BY <2>1, <2>2
<1>5. Requested'
  BY <1>1, <1>3, <1>4 DEF IInv, Requested
<1>6. Fresh'
  BY <1>1, <1>2 DEF IInv, Fresh
<1>7. Passing'
  BY <1>1 DEF IInv, Passing, Part
<1>8. Watched'
  <2> SUFFICES ASSUME NEW r \in Requests, task'[r].pc = "poll"
               PROVE  /\ task'[r].last <= Len(buffer[r])
                      /\ Part(buffer[r], Len(buffer[r]), answer[r]) \/ buffer[r] = <<TimedOut>>
                      /\ stream[r] = "open" /\ buffer[r] # <<>> =>
                           quiet'[r] <= IF task'[r].last = Len(buffer[r])
                                        THEN task'[r].stable + 1 ELSE 0
    BY <1>1 DEF Watched, Part
  <2>1. task[r].pc = "poll" /\ task'[r] = Polled(task[r], Len(buffer[r]))
    BY <1>2
  <2>2. /\ Len(buffer[r]) \in Nat /\ task[r].stable \in Nat /\ quiet[r] \in Nat
        /\ buffer[r] # <<>> => Len(buffer[r]) > 0
    BY IdleAssumption DEF IInv, Flowing, Tasking, Watching
  <2>3. /\ task'[r].last = Len(buffer[r])
        /\ task'[r].stable = IF Len(buffer[r]) > 0 /\ Len(buffer[r]) = task[r].last
                             THEN task[r].stable + 1 ELSE 0
    BY <2>1 DEF Polled
  <2>4. quiet'[r] <= quiet[r] + 1
    BY <1>1, <2>2 DEF StreamTick, Quieter
  <2>5. quiet'[r] \in Nat
    BY <1>2, IdleAssumption DEF Flowing
  <2> QED
    BY <2>1, <2>2, <2>3, <2>4, <2>5 DEF IInv, Watched
<1>9. Settled'
  <2> SUFFICES ASSUME NEW r \in Requests, task'[r].pc = "settled"
               PROVE  /\ task'[r].last <= Len(buffer[r])
                      /\ \/ Part(buffer[r], task'[r].last, answer[r])
                         \/ task'[r].last = 1 /\ buffer[r][1] = TimedOut
    BY <1>1 DEF Settled, Part
  <2>1. CASE task[r].pc = "poll"
    <3>1. task'[r].last = Len(buffer[r]) /\ Len(buffer[r]) \in Nat
      BY <1>2, <2>1 DEF IInv, Flowing
    <3>2. Part(buffer[r], Len(buffer[r]), answer[r]) \/ buffer[r] = <<TimedOut>>
      BY <2>1 DEF IInv, Watched
    <3>3. buffer[r] = <<TimedOut>> => Len(buffer[r]) = 1 /\ buffer[r][1] = TimedOut
      OBVIOUS
    <3> QED
      BY <3>1, <3>2, <3>3
  <2>2. CASE task[r].pc # "poll"
    BY <1>2, <2>2 DEF IInv, Settled
  <2> QED
    BY <2>1, <2>2
<1>10. AnswersStay
  BY <1>1 DEF AnswersStay
<1>11. ServedGenuine'
  BY <1>1, <1>10, StillGenuine
<1>12. Stored'
  BY <1>1, <1>4, <1>10, StillGenuine DEF IInv, Stored, Genuine
<1> QED
  BY <1>2, <1>5, <1>6, <1>7, <1>8, <1>9, <1>11, <1>12 DEF IInv

LEMMA Inductive == ASSUME IInv, [Next]_vars PROVE IInv'
<1>1. CASE Next
  BY <1>1, LookupStep, BufferedStep, StreamingStep, StreamStepStep, StoreStep, TickStepStep
     DEF Next
<1>2. CASE UNCHANGED vars
  <2>1. Flowing' /\ Tasking' /\ Requested' /\ Fresh'
    BY <1>2 DEF vars, IInv, Flowing, Tasking, Is, Requested, Fresh
  <2>2. Passing' /\ Watched' /\ Settled'
    BY <1>2 DEF vars, IInv, Passing, Watched, Settled, Part
  <2>3. Stored' /\ ServedGenuine'
    BY <1>2 DEF vars, IInv, Stored, ServedGenuine, Genuine
  <2> QED
    BY <2>1, <2>2, <2>3 DEF IInv
<1> QED
  BY <1>1, <1>2
-------------------------------------------------------------------------------
\* The invariant of every reachable state.
THEOREM InductiveInvariant == Spec => []IInv
BY Initial, Inductive, PTL DEF Spec

\* The variables stay in their ranges; in particular no expiry runs below its end and no
\* task polls on once it has found the same three times.
THEOREM TypeCorrect == Spec => []TypeOK
<1>1. IInv => TypeOK
  BY StreamTyped DEF IInv, Requested, TypeOK
<1> QED
  BY InductiveInvariant, <1>1, PTL

\* spawn_stream_response_cache_write and find_response_cache_entry: nobody is answered
\* with a part of an answer, unless its text has an end mark before its end.
THEOREM OnlyWholeAnswers == Spec => []ServedInFull
<1>1. IInv => ServedInFull
  BY DEF IInv, ServedGenuine, ServedInFull
<1> QED
  BY InductiveInvariant, <1>1, PTL

\* The expiry that route fixes before the call is the one that counts, however late the
\* answer is stored.
THEOREM OnlyLiveAnswers == Spec => ServedInTime
<1> DEFINE InTime == \A r \in Requests : served'[r] # served[r] => left[served'[r].by] > 0
<1>1. ASSUME IInv, Next PROVE InTime
  <2>1. ASSUME NEW r \in Requests, Lookup(r) PROVE InTime
    <3>1. \A x \in Requests \ {r} : served'[x] = served[x]
      BY <1>1, <2>1 DEF IInv, Requested, Lookup
    <3>2. served'[r] # served[r] => served'[r] = cache /\ cache # None /\ cache.left > 0
      BY <1>1, <2>1 DEF IInv, Requested, Lookup
    <3> QED
      BY <1>1, <3>1, <3>2 DEF IInv, Stored
  <2>2. ASSUME NEW r \in Requests,
               Buffered(r) \/ Streaming(r) \/ StreamStep(r) \/ Store(r)
        PROVE  InTime
    BY <2>2 DEF Buffered, Streaming, StreamStep, Store
  <2>3. CASE Tick
    BY <2>3 DEF Tick
  <2> QED
    BY <1>1, <2>1, <2>2, <2>3 DEF Next
<1>2. ASSUME IInv, [Next]_vars PROVE [InTime]_vars
  BY <1>1, <1>2
<1> QED
  BY InductiveInvariant, <1>2, PTL DEF Spec, ServedInTime
-------------------------------------------------------------------------------
(***************************************************************************)
(* RequestLog                                                              *)
(***************************************************************************)

LogTyped ==
  /\ route   \in [Requests -> {"call", "done"}]
  /\ logs    \in [Ids -> LogRows \cup {None}]
  /\ cleared \in SUBSET Requests

OwnsRow ==
  \A r \in Requests : task[r].pc \in {"poll", "settled"} =>
    r \in cleared \/ (logs[Id[r]] # None /\ logs[Id[r]].by = r)

LogIInv == Flowing /\ Tasking /\ LogTyped /\ OwnsRow /\ OwnNumbers
-------------------------------------------------------------------------------
LEMMA LogInitial == LogInit => LogIInv
<1> SUFFICES ASSUME LogInit PROVE LogIInv
  OBVIOUS
<1>1. Flowing /\ Tasking
  BY StreamInitial DEF LogInit
<1>2. LogTyped /\ OwnsRow /\ OwnNumbers
  BY IdAssumption DEF LogInit, StreamInit, At, LogTyped, OwnsRow, OwnNumbers
<1> QED
  BY <1>1, <1>2 DEF LogIInv

LEMMA AnsweredStep ==
  ASSUME LogIInv, NEW r \in Requests, Answered(r)
  PROVE  LogIInv'
<1>1. Flowing'
  BY OpenStep DEF LogIInv, Answered, streamVars, Flowing
<1>2. /\ Tasking' /\ task'[r].pc = "insert"
      /\ \A x \in Requests \ {r} : task'[x] = task[x]
  BY TaskStep DEF LogIInv, Answered
<1>3. LogTyped' /\ OwnsRow' /\ OwnNumbers'
  BY <1>2 DEF LogIInv, Answered, LogTyped, OwnsRow, OwnNumbers
<1> QED
  BY <1>1, <1>2, <1>3 DEF LogIInv

\* Ownership begins with an insert, which no row with the id stands in the way of.
LEMMA InsertStep ==
  ASSUME LogIInv, NEW r \in Requests, Insert(r)
  PROVE  LogIInv'
<1>1. Flowing' /\ Id[r] \in Ids /\ UNCHANGED <<route, cleared>> /\ None \notin Requests
  BY IdAssumption, NoneAssumption DEF LogIInv, Insert, streamVars, Flowing
<1>2. CASE logs[Id[r]] = None
  <2>1. PICK point \in {"poll", "ended"} : task' = [task EXCEPT ![r] = At(point)]
    BY <1>2 DEF Insert
  <2>2. Tasking' /\ \A x \in Requests \ {r} : task'[x] = task[x]
    BY <2>1, TaskStep DEF LogIInv
  <2>3. NewRow(r) \in LogRows /\ NewRow(r).by = r /\ NewRow(r).filled = None
    BY DEF NewRow, LogRows
  <2>4. /\ logs' \in [Ids -> LogRows \cup {None}]
        /\ logs'[Id[r]] = NewRow(r)
        /\ \A i \in Ids \ {Id[r]} : logs'[i] = logs[i]
    BY <1>1, <1>2, <2>3 DEF LogIInv, LogTyped, Insert
  <2>5. LogTyped'
    BY <1>1, <2>4 DEF LogIInv, LogTyped
  <2>6. OwnsRow'
    BY <1>1, <1>2, <2>2, <2>3, <2>4, IdAssumption, RowAssumption DEF LogIInv, OwnsRow
  <2>7. OwnNumbers'
    BY <1>1, <2>3, <2>4 DEF LogIInv, OwnNumbers
  <2> QED
    BY <1>1, <2>2, <2>5, <2>6, <2>7 DEF LogIInv
<1>3. CASE logs[Id[r]] # None
  <2>1. task' = [task EXCEPT ![r] = At("ended")] /\ logs' = logs
    BY <1>3 DEF Insert
  <2>2. Tasking' /\ task'[r].pc = "ended" /\ \A x \in Requests \ {r} : task'[x] = task[x]
    BY <2>1, TaskStep DEF LogIInv
  <2>3. LogTyped' /\ OwnsRow' /\ OwnNumbers'
    BY <1>1, <2>1, <2>2 DEF LogIInv, LogTyped, OwnsRow, OwnNumbers
  <2> QED
    BY <1>1, <2>2, <2>3 DEF LogIInv
<1> QED
  BY <1>2, <1>3

LEMMA FinalizeStep ==
  ASSUME LogIInv, NEW r \in Requests, Finalize(r)
  PROVE  LogIInv'
<1>1. /\ Flowing' /\ Id[r] \in Ids /\ UNCHANGED <<route, cleared>> /\ task[r].pc = "settled"
      /\ task[r].last \in Nat
  BY IdAssumption DEF LogIInv, Finalize, streamVars, Flowing, Is, Tasking, Watching
<1>2. Tasking' /\ task'[r].pc = "ended" /\ \A x \in Requests \ {r} : task'[x] = task[x]
  BY TaskStep DEF LogIInv, Finalize
<1>3. CASE logs' = logs
  BY <1>1, <1>2, <1>3 DEF LogIInv, LogTyped, OwnsRow, OwnNumbers
<1>4. CASE logs' # logs
  <2> DEFINE row == [logs[Id[r]] EXCEPT !.filled = r, !.upto = task[r].last]
  <2>1. logs[Id[r]] # None /\ logs[Id[r]] \in LogRows
    BY <1>1, <1>4 DEF LogIInv, LogTyped, Finalize
  <2>2. row \in LogRows /\ row.by = logs[Id[r]].by /\ row.filled = r
    BY <1>1, <2>1 DEF LogRows
  <2>3. logs' = [logs EXCEPT ![Id[r]] = row]
    BY <1>4, <2>1 DEF Finalize
  <2> HIDE DEF row
  <2>4. /\ logs' \in [Ids -> LogRows \cup {None}]
        /\ logs'[Id[r]] = row
        /\ \A i \in Ids \ {Id[r]} : logs'[i] = logs[i]
    BY <1>1, <2>2, <2>3 DEF LogIInv, LogTyped
  <2>5. r \in cleared \/ row.by = r
    BY <1>1, <2>2 DEF LogIInv, OwnsRow
  <2>6. LogTyped'
    BY <1>1, <2>4 DEF LogIInv, LogTyped
  <2>7. OwnsRow'
    <3> SUFFICES ASSUME NEW x \in Requests, task'[x].pc \in {"poll", "settled"}, x \notin cleared
                 PROVE  logs'[Id[x]] # None /\ logs'[Id[x]].by = x
      BY <1>1 DEF OwnsRow
    <3>1. task'[x] = task[x] /\ logs[Id[x]] # None /\ logs[Id[x]].by = x /\ Id[x] \in Ids
      BY <1>2, IdAssumption DEF LogIInv, OwnsRow
    <3>2. CASE Id[x] = Id[r]
      BY <1>1, <2>2, <2>4, <3>1, <3>2, RowAssumption
    <3> QED
      BY <2>4, <3>1, <3>2
  <2>8. OwnNumbers'
    BY <1>1, <2>2, <2>4, <2>5 DEF LogIInv, OwnNumbers
  <2> QED
    BY <1>1, <1>2, <2>6, <2>7, <2>8 DEF LogIInv
<1> QED
  BY <1>3, <1>4

LEMMA ClearStep ==
  ASSUME LogIInv, Clear
  PROVE  LogIInv'
<1>1. Flowing' /\ Tasking' /\ UNCHANGED <<route, task>>
  BY DEF LogIInv, Clear, streamVars, Flowing, Tasking, Is
<1>2. \A i \in Ids : logs[i] # None => logs[i].by \in Requests /\ logs[i].by \in cleared'
  BY DEF LogIInv, LogTyped, LogRows, Clear
<1>3. cleared' \in SUBSET Requests /\ cleared \subseteq cleared'
  BY <1>2 DEF LogIInv, LogTyped, LogRows, Clear
<1>4. LogTyped' /\ OwnNumbers'
  BY <1>1, <1>3 DEF LogIInv, LogTyped, OwnNumbers, Clear
<1>5. OwnsRow'
  BY <1>1, <1>2, <1>3, IdAssumption DEF LogIInv, OwnsRow
<1> QED
  BY <1>1, <1>4, <1>5 DEF LogIInv

LEMMA LogStreamStepStep ==
  ASSUME LogIInv, NEW r \in Requests, LogStreamStep(r)
  PROVE  LogIInv'
<1>1. Flowing'
  BY StreamSteps DEF LogIInv, LogStreamStep
<1>2. Tasking' /\ LogTyped' /\ OwnsRow' /\ OwnNumbers'
  BY DEF LogIInv, LogStreamStep, Tasking, Is, LogTyped, OwnsRow, OwnNumbers
<1> QED
  BY <1>1, <1>2 DEF LogIInv

LEMMA LogTickStepStep ==
  ASSUME LogIInv, LogTick
  PROVE  LogIInv'
<1>1. /\ Flowing' /\ Tasking'
      /\ \A r \in Requests : task'[r].pc \in {"poll", "settled"} =>
           task[r].pc \in {"poll", "settled"}
  BY TickStep DEF LogIInv, LogTick
<1>2. LogTyped' /\ OwnsRow' /\ OwnNumbers'
  BY <1>1 DEF LogIInv, LogTick, LogTyped, OwnsRow, OwnNumbers
<1> QED
  BY <1>1, <1>2 DEF LogIInv

LEMMA LogInductive == ASSUME LogIInv, [LogNext]_logVars PROVE LogIInv'
<1>1. CASE LogNext
  BY <1>1, AnsweredStep, InsertStep, FinalizeStep, ClearStep, LogStreamStepStep, LogTickStepStep DEF LogNext
<1>2. CASE UNCHANGED logVars
  BY <1>2 DEF logVars, LogIInv, Flowing, Tasking, Is, LogTyped, OwnsRow, OwnNumbers
<1> QED
  BY <1>1, <1>2
-------------------------------------------------------------------------------
\* The invariant of every reachable state.
THEOREM LogInductiveInvariant == LogSpec => []LogIInv
BY LogInitial, LogInductive, PTL DEF LogSpec

\* The variables stay in their ranges; in particular no task polls on once it has found
\* the same three times.
THEOREM LogTypeCorrect == LogSpec => []LogTypeOK
<1>1. LogIInv => LogTypeOK
  BY StreamTyped DEF LogIInv, LogTyped, LogTypeOK
<1> QED
  BY LogInductiveInvariant, <1>1, PTL

\* finalize_stream_request_log never writes one request's numbers to another's row, for
\* any use clients make of x-request-id, unless the logs were cleared between.
THEOREM NumbersAreOwn == LogSpec => []OwnNumbers
<1>1. LogIInv => OwnNumbers
  BY DEF LogIInv
<1> QED
  BY LogInductiveInvariant, <1>1, PTL
===============================================================================
