------------------------------ MODULE TeedStream ------------------------------
(***************************************************************************)
(* Answers streamed to clients.  A stream passes a watchdog and a tee; the *)
(* tee's buffer is all that a background task sees of it.  Nobody tells    *)
(* the task when the stream is over: it polls the buffer, and takes the    *)
(* stream for finished once three polls have found the same, or its polls  *)
(* are used up.  ResponseCache and RequestLog each have such a task per    *)
(* stream.                                                                 *)
(*                                                                         *)
(* A tick is one poll interval; times are rounded to ticks.                *)
(***************************************************************************)
EXTENDS Integers, Sequences, FiniteSets

CONSTANTS
  Requests,
  Chunks,      \* pieces of an answer
  TimedOut,    \* the error event of watchdog_stream
  Answers,     \* sequences of chunks an upstream may have to send
  Idle,        \* KOU_STREAM_IDLE_TIMEOUT_SECS
  Limit,       \* polls after which a task stops waiting
  None

ASSUME ChunkAssumption  == TimedOut \notin Chunks
ASSUME AnswerAssumption == Answers \subseteq Seq(Chunks) \ {<<>>}
ASSUME IdleAssumption   == Idle \in Nat /\ Idle > 2
ASSUME LimitAssumption  == Limit \in Nat \ {0}
ASSUME NoneAssumption   == None \notin Requests

VARIABLES
  answer,   \* answer[r]: all its upstream would send, once it is known to answer
  stream,   \* stream[r]: whether the stream to the client is open
  quiet,    \* quiet[r]: ticks since a chunk came, up to Idle
  buffer,   \* buffer[r]: what has passed the tee
  task      \* task[r]: the task that watches the buffer

streamVars == <<answer, stream, quiet, buffer>>
-------------------------------------------------------------------------------
Watching == [pc : {"off", "insert", "poll", "settled", "ended"},
             polls : Nat, last : Nat, stable : 0..2]

At(point) == [pc |-> point, polls |-> 0, last |-> 0, stable |-> 0]

Is(r, point) == task[r].pc = point

StreamType ==
  /\ answer \in [Requests -> Answers \cup {<<>>}]
  /\ stream \in [Requests -> {"none", "open", "over"}]
  /\ quiet  \in [Requests -> 0..Idle]
  /\ buffer \in [Requests -> Seq(Chunks \cup {TimedOut})]
  /\ task   \in [Requests -> Watching]

StreamInit ==
  /\ answer = [r \in Requests |-> <<>>]
  /\ stream = [r \in Requests |-> "none"]
  /\ quiet  = [r \in Requests |-> 0]
  /\ buffer = [r \in Requests |-> <<>>]
  /\ task   = [r \in Requests |-> At("off")]
-------------------------------------------------------------------------------
\* The answer's status and headers are there, and its chunks are to follow.
Open(r) ==
  /\ answer' \in {[answer EXCEPT ![r] = a] : a \in Answers}
  /\ stream' = [stream EXCEPT ![r] = "open"]
  /\ UNCHANGED <<quiet, buffer>>

\* The client takes the next chunk, through the tee.
Deliver(r) ==
  /\ stream[r] = "open"
  /\ Len(buffer[r]) < Len(answer[r])
  /\ buffer' = [buffer EXCEPT ![r] = Append(@, answer[r][Len(@) + 1])]
  /\ quiet' = [quiet EXCEPT ![r] = 0]
  /\ UNCHANGED <<answer, stream>>

Over(r) ==
  /\ stream[r] = "open"
  /\ stream' = [stream EXCEPT ![r] = "over"]
  /\ quiet' = [quiet EXCEPT ![r] = 0]

\* The upstream is done or breaks off, or the client closes the connection.
Finish(r) == Over(r) /\ UNCHANGED <<answer, buffer>>

\* Mistake: only a stream that has begun is timed.
Watchdog_AfterFirst(r) ==
  /\ Over(r)
  /\ quiet[r] = Idle
  /\ buffer[r] # <<>>
  /\ buffer' = [buffer EXCEPT ![r] = Append(@, TimedOut)]
  /\ UNCHANGED answer

\* Too long without a chunk: the client gets an error event, and the stream ends.
Watchdog(r) ==
  /\ Over(r)
  /\ quiet[r] = Idle
  /\ buffer' = [buffer EXCEPT ![r] = Append(@, TimedOut)]
  /\ UNCHANGED answer

Quieter ==
  [r \in Requests |->
     IF stream[r] = "open" /\ quiet[r] < Idle THEN quiet[r] + 1 ELSE quiet[r]]

\* Mistake: a task goes on until its polls are used up.
Polled_NeverBreaks(q, length) ==
  [pc |-> IF q.polls + 1 = Limit THEN "settled" ELSE "poll", polls |-> q.polls + 1,
   last |-> length, stable |-> IF length > 0 /\ length = q.last THEN q.stable + 1 ELSE 0]

\* Mistake: polls that find nothing are not counted.
Polled_CountsChunks(q, length) ==
  LET stable == IF length > 0 /\ length = q.last THEN q.stable + 1 ELSE 0
      polls  == IF length = 0 THEN q.polls ELSE q.polls + 1 IN
  [pc |-> IF stable = 2 \/ polls = Limit THEN "settled" ELSE "poll",
   polls |-> polls, last |-> length, stable |-> stable]

\* One turn of a task's loop, with this much in the buffer.
Polled(q, length) ==
  LET stable == IF length > 0 /\ length = q.last THEN q.stable + 1 ELSE 0
      polls  == q.polls + 1 IN
  [pc |-> IF stable = 2 \/ polls = Limit THEN "settled" ELSE "poll",
   polls |-> polls, last |-> length, stable |-> stable]

\* A poll interval passes, in which every task polls once: chunks arrive at any time
\* between two ticks.
StreamTick ==
  /\ quiet' = Quieter
  /\ task' = [r \in Requests |->
                IF Is(r, "poll") THEN Polled(task[r], Len(buffer[r])) ELSE task[r]]
  /\ UNCHANGED <<answer, stream, buffer>>

\* What the task saw last.
Seen(r) == SubSeq(buffer[r], 1, task[r].last)
-------------------------------------------------------------------------------
(***************************************************************************)
(* Properties of any such tasks                                            *)
(***************************************************************************)

\* No task watches a buffer for ever, whatever upstream and client do.
TasksEnd == \A r \in Requests : Is(r, "poll") ~> ~Is(r, "poll")

\* A client that stays is not left waiting for ever by a silent upstream.
StreamsEnd == \A r \in Requests : stream[r] = "open" ~> stream[r] # "open"

\* Neither the tasks nor the streams stay.
AllEnd == TasksEnd /\ StreamsEnd
===============================================================================
