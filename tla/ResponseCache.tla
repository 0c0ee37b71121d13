---------------------------- MODULE ResponseCache -----------------------------
(***************************************************************************)
(* llm_response_cache: requests with the same cache key.  A request may be *)
(* answered from the entry under the key; an answer of an upstream is      *)
(* stored before the client has it, if it comes in one piece, or by a task *)
(* that watches the stream.                                                *)
(***************************************************************************)
EXTENDS TeedStream

CONSTANTS
  Readers,     \* requests that may be answered from the cache
  Writers,     \* requests whose answer is to be stored
  Marked,      \* chunks with a text that the end of an answer has
  Life         \* x-kou-response-cache-ttl

ASSUME ModeAssumption == Readers \subseteq Requests /\ Writers \subseteq Requests
ASSUME MarkAssumption == Marked \subseteq Chunks
ASSUME LifeAssumption == Life \in Nat \ {0}

VARIABLES
  pc,       \* pc[r]: how far route is with r
  left,     \* left[r]: ticks until an answer to r expires
  cache,    \* the entry under the key, or None
  served    \* served[r]: the entry r was answered with, or None

vars == <<answer, stream, quiet, buffer, task, pc, left, cache, served>>
-------------------------------------------------------------------------------
Entries == [by : Requests, body : Seq(Chunks \cup {TimedOut}), left : 0..Life]

ASSUME EntryAssumption == None \notin Entries

TypeOK ==
  /\ StreamType
  /\ pc     \in [Requests -> {"new", "call", "done"}]
  /\ left   \in [Requests -> 0..Life]
  /\ cache  \in Entries \cup {None}
  /\ served \in [Requests -> Entries \cup {None}]

Init ==
  /\ StreamInit
  /\ pc     = [r \in Requests |-> "new"]
  /\ left   = [r \in Requests |-> 0]
  /\ cache  = None
  /\ served = [r \in Requests |-> None]
-------------------------------------------------------------------------------
Entry(r, body) == [by |-> r, body |-> body, left |-> left[r]]

\* The expiry of what is to be stored is fixed, then the cache is asked.
Lookup(r) ==
  /\ pc[r] = "new"
  /\ left' = IF r \in Writers THEN [left EXCEPT ![r] = Life] ELSE left
  /\ IF r \in Readers /\ cache # None /\ cache.left > 0
     THEN served' = [served EXCEPT ![r] = cache] /\ pc' = [pc EXCEPT ![r] = "done"]
     ELSE pc' = [pc EXCEPT ![r] = "call"] /\ UNCHANGED served
  /\ UNCHANGED <<streamVars, task, cache>>

\* The answer is read as a whole; or there is none, or nobody left to give it to.
Buffered(r) ==
  /\ pc[r] = "call"
  /\ pc' = [pc EXCEPT ![r] = "done"]
  /\ \/ /\ r \in Writers
        /\ answer' \in {[answer EXCEPT ![r] = a] : a \in Answers}
        /\ cache' = Entry(r, answer'[r])
     \/ UNCHANGED <<answer, cache>>
  /\ UNCHANGED <<stream, quiet, buffer, task, left, served>>

Streaming(r) ==
  /\ pc[r] = "call"
  /\ pc' = [pc EXCEPT ![r] = "done"]
  /\ Open(r)
  /\ task' = IF r \in Writers THEN [task EXCEPT ![r] = At("poll")] ELSE task
  /\ UNCHANGED <<left, cache, served>>

\* Mistake: whatever has settled is stored.
Complete_Any(body) == body # <<>>

\* cacheable_stream_transcript_complete.
Complete(body) == \E i \in DOMAIN body : body[i] \in Marked

\* Mistake: an entry lives from when it is stored.
Store_LivesFromNow(r) ==
  /\ Is(r, "settled")
  /\ cache' = IF Complete(Seen(r)) THEN [Entry(r, Seen(r)) EXCEPT !.left = Life] ELSE cache
  /\ task' = [task EXCEPT ![r] = At("ended")]
  /\ UNCHANGED <<streamVars, pc, left, served>>

\* What is complete replaces the entry under the key.
Store(r) ==
  /\ Is(r, "settled")
  /\ cache' = IF Complete(Seen(r)) THEN Entry(r, Seen(r)) ELSE cache
  /\ task' = [task EXCEPT ![r] = At("ended")]
  /\ UNCHANGED <<streamVars, pc, left, served>>

Less(n) == IF n > 0 THEN n - 1 ELSE 0

Tick ==
  /\ StreamTick
  /\ left' = [r \in Requests |-> Less(left[r])]
  /\ cache' = IF cache = None THEN None ELSE [cache EXCEPT !.left = Less(@)]
  /\ UNCHANGED <<pc, served>>

StreamStep(r) ==
  /\ Deliver(r) \/ Finish(r) \/ Watchdog(r)
  /\ UNCHANGED <<task, pc, left, cache, served>>

Next ==
  \/ \E r \in Requests :
       Lookup(r) \/ Buffered(r) \/ Streaming(r) \/ StreamStep(r) \/ Store(r)
  \/ Tick

Spec == Init /\ [][Next]_vars

\* Time passes, with the tasks polling, and tokio polls the stream of a client that is
\* still there.
FairSpec ==
  /\ Spec
  /\ WF_vars(Tick)
  /\ \A r \in Requests : WF_vars(StreamStep(r) /\ Watchdog(r))
-------------------------------------------------------------------------------
(***************************************************************************)
(* Properties                                                              *)
(***************************************************************************)

\* An entry is what an upstream sent, in full and without the watchdog's event, unless
\* the answer's text has an end mark before its end.
Genuine(entry) ==
  /\ Len(entry.body) <= Len(answer[entry.by])
  /\ \A i \in DOMAIN entry.body : entry.body[i] = answer[entry.by][i]
  /\ Len(entry.body) < Len(answer[entry.by]) =>
       \E i \in DOMAIN entry.body : entry.body[i] \in Marked

\* A stall, a slow client, a disconnect, a time-out or an upstream that breaks off never
\* leaves a part of an answer for others to be answered with.
ServedInFull == \A r \in Requests : served[r] # None => Genuine(served[r])

\* However long the answer took, no client is answered with one that was asked for
\* longer ago than its expiry allows.
ServedInTime ==
  [][\A r \in Requests : served'[r] # served[r] => left[served'[r].by] > 0]_vars
===============================================================================
