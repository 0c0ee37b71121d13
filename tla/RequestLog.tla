------------------------------ MODULE RequestLog ------------------------------
(***************************************************************************)
(* request_logs: a row per answered request, inserted by a task of its own *)
(* once the outcome is known.  The row of a stream is completed later, with*)
(* what its buffer then holds, by the task that watches it.  Names are kept*)
(* apart from ResponseCache's, the other module over TeedStream, so that   *)
(* one module of proofs can hold both.                                     *)
(***************************************************************************)
EXTENDS TeedStream

CONSTANTS
  Ids,
  Id           \* Id[r]: the client's x-request-id, or one made for r

ASSUME IdAssumption == Id \in [Requests -> Ids]

VARIABLES
  route,    \* route[r]: whether route has answered r
  logs,     \* logs[i]: the row with id i, or None
  cleared   \* requests whose row was deleted

logVars == <<answer, stream, quiet, buffer, task, route, logs, cleared>>
-------------------------------------------------------------------------------
\* The request that inserted a row, the one that completed it, and the length of the
\* transcript its numbers are from.
LogRows == [by : Requests, filled : Requests \cup {None}, upto : Nat]

ASSUME RowAssumption == None \notin LogRows

LogTypeOK ==
  /\ StreamType
  /\ route   \in [Requests -> {"call", "done"}]
  /\ logs    \in [Ids -> LogRows \cup {None}]
  /\ cleared \in SUBSET Requests

LogInit ==
  /\ StreamInit
  /\ route   = [r \in Requests |-> "call"]
  /\ logs    = [i \in Ids |-> None]
  /\ cleared = {}
-------------------------------------------------------------------------------
\* route_json hands the row to a task, with the stream's buffer if there is one.
Answered(r) ==
  /\ route[r] = "call"
  /\ route' = [route EXCEPT ![r] = "done"]
  /\ Open(r) \/ UNCHANGED streamVars
  /\ task' = [task EXCEPT ![r] = At("insert")]
  /\ UNCHANGED <<logs, cleared>>

NewRow(r) == [by |-> r, filled |-> None, upto |-> 0]

\* Mistake: an insert that fails is only reported.
Insert_GoesOn(r) ==
  /\ Is(r, "insert")
  /\ logs' = IF logs[Id[r]] = None THEN [logs EXCEPT ![Id[r]] = NewRow(r)] ELSE logs
  /\ task' = [task EXCEPT ![r] = At(IF stream[r] # "none" THEN "poll" ELSE "ended")]
  /\ UNCHANGED <<streamVars, route, cleared>>

\* insert_request_log fails if there is a row with the id.
Insert(r) ==
  /\ Is(r, "insert")
  /\ IF logs[Id[r]] = None
     THEN /\ logs' = [logs EXCEPT ![Id[r]] = NewRow(r)]
          /\ task' = [task EXCEPT ![r] = At(IF stream[r] # "none" THEN "poll" ELSE "ended")]
     ELSE /\ task' = [task EXCEPT ![r] = At("ended")]
          /\ UNCHANGED logs
  /\ UNCHANGED <<streamVars, route, cleared>>

\* finalize_stream_request_log: the row with the id is updated, if there is one.
Finalize(r) ==
  /\ Is(r, "settled")
  /\ logs' = IF task[r].last > 0 /\ logs[Id[r]] # None
             THEN [logs EXCEPT ![Id[r]].filled = r, ![Id[r]].upto = task[r].last] ELSE logs
  /\ task' = [task EXCEPT ![r] = At("ended")]
  /\ UNCHANGED <<streamVars, route, cleared>>

\* The operator clears the logs.
Clear ==
  /\ \E i \in Ids : logs[i] # None
  /\ logs' = [i \in Ids |-> None]
  /\ cleared' = cleared \cup {logs[i].by : i \in {j \in Ids : logs[j] # None}}
  /\ UNCHANGED <<streamVars, task, route>>

LogTick == StreamTick /\ UNCHANGED <<route, logs, cleared>>

LogStreamStep(r) ==
  /\ Deliver(r) \/ Finish(r) \/ Watchdog(r)
  /\ UNCHANGED <<task, route, logs, cleared>>

LogNext ==
  \/ \E r \in Requests : Answered(r) \/ Insert(r) \/ LogStreamStep(r) \/ Finalize(r)
  \/ Clear \/ LogTick

LogSpec == LogInit /\ [][LogNext]_logVars

\* Time passes, with the tasks polling.
LogFairSpec == LogSpec /\ WF_logVars(LogTick)
-------------------------------------------------------------------------------
(***************************************************************************)
(* Properties                                                              *)
(***************************************************************************)

\* Whatever ids clients send, a row is completed with the numbers of the request that
\* inserted it, unless the logs were cleared between.
OwnNumbers ==
  \A i \in Ids : logs[i] # None => logs[i].filled \in {None, logs[i].by} \cup cleared
===============================================================================
