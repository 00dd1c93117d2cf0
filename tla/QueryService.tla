---------------------------- MODULE QueryService ----------------------------
(***************************************************************************)
(* One query of the Coordinator's QueryService: the coroutine _run that    *)
(* plans it and executes it through RemoteDistributedExecutor as a         *)
(* sequence of TaskScheduler runs, concurrent cancel calls with their      *)
(* timeout, and the shutdown of the service. Queries share no state, so    *)
(* one stands for all. A scheduler run is what ScheduleRun promises.       *)
(*                                                                         *)
(* An action is what happens between two awaits. The places _run can be    *)
(* (pc): queued, listing (await list_workers), planning (await the planner *)
(* thread), running (await a scheduler run), done.                         *)
(***************************************************************************)
EXTENDS Naturals

CONSTANTS
  Callers,  \* tasks that call cancel; the last one, Closer, is close's
  Closer,
  MaxRuns   \* bound on the scheduler runs of a plan

ASSUME CallersAssumption == Closer \in Callers
ASSUME MaxRunsAssumption == MaxRuns \in Nat

VARIABLES
  state,      \* Query.state; "none" before submit
  error,      \* Query.error: none, query, unconfirmed, timeout
  rows,       \* are there result rows?
  requested,  \* cancel_requested
  executor,   \* is record.executor set?
  pc,         \* where _run is
  left,       \* scheduler runs still to be completed
  token,      \* the current scheduler run has been cancelled
  flagged,    \* the query is in the executor's _cancelled_queries
  call,       \* cancel calls: idle, waiting, or the state they answered
  closing     \* QueryService.close: open, closing, closed

vars == <<state, error, rows, requested, executor, pc, left, token, flagged, call, closing>>

Terminal == {"SUCCEEDED", "FAILED", "CANCELED"}
States   == {"QUEUED", "PLANNING", "RUNNING"} \cup Terminal

(* The type invariant: state, error, coroutine and calls keep their types,  *)
(* and the executor is set exactly while the query runs (queries.py 65-77). *)
TypeOK ==
  /\ state     \in States \cup {"none"}
  /\ error     \in {"none", "query", "unconfirmed", "timeout"}
  /\ rows      \in BOOLEAN /\ requested \in BOOLEAN
  /\ token     \in BOOLEAN /\ flagged \in BOOLEAN
  /\ pc        \in {"none", "queued", "listing", "planning", "running", "done"}
  /\ executor  \in BOOLEAN /\ (executor <=> pc = "running")
  /\ left      \in 0 .. MaxRuns
  /\ call      \in [Callers -> {"idle", "waiting"} \cup Terminal]
  /\ closing   \in {"open", "closing", "closed"}

Init ==
  /\ state = "none" /\ error = "none" /\ rows = FALSE
  /\ requested = FALSE /\ executor = FALSE
  /\ pc = "none" /\ left = 0 /\ token = FALSE /\ flagged = FALSE
  /\ call = [c \in Callers |-> "idle"]
  /\ closing = "open"

Run == INSTANCE ScheduleRun WITH status <- pc

----------------------------------------------------------------------------
(* _run *)

(* The server takes no request once the service is being closed. *)
Submit ==
  /\ state = "none"
  /\ closing = "open"
  /\ state' = "QUEUED"
  /\ pc'    = "queued"
  /\ UNCHANGED <<error, rows, requested, executor, left, token, flagged, call, closing>>

(* The exception handlers of _run. A cancellation leaves a query FAILED     *)
(* that a cancel call has given up on; an error of a query whose            *)
(* cancellation was requested makes it CANCELED.                            *)
Conclude(kind) ==
  /\ state' = CASE kind = "cancelled" /\ state = "FAILED"   -> "FAILED"
                [] kind = "cancelled" /\ state # "FAILED"   -> "CANCELED"
                [] kind = "unconfirmed"                     -> "FAILED"
                [] kind = "error" /\ requested              -> "CANCELED"
                [] kind = "error" /\ ~requested             -> "FAILED"
  /\ error' = CASE kind = "unconfirmed"                     -> "unconfirmed"
                [] kind = "error" /\ ~requested             -> "query"
                [] OTHER                                    -> error
  /\ pc' = "done" /\ executor' = FALSE
  /\ UNCHANGED <<rows, requested, call, closing>>

(* execute has returned a result. *)
Succeed ==
  IF requested THEN Conclude("cancelled")
  ELSE /\ state' = "SUCCEEDED" /\ rows' = TRUE
       /\ pc' = "done" /\ executor' = FALSE
       /\ UNCHANGED <<error, requested, call, closing>>

(* Until the first await: the catalog is read. *)
Begin ==
  /\ pc = "queued"
  /\ \/ /\ state' = "PLANNING" /\ pc' = "listing"
        /\ UNCHANGED <<error, rows, requested, executor, call, closing>>
     \/ Conclude("error")
  /\ UNCHANGED <<left, token, flagged>>

(* The Workers are known: none is active, or the planner thread is started. *)
Listed ==
  /\ pc = "listing"
  /\ \/ /\ pc' = "planning"
        /\ UNCHANGED <<state, error, rows, requested, executor, call, closing>>
     \/ Conclude("error")
  /\ UNCHANGED <<left, token, flagged>>

(* execute walks the plan depth first and awaits a scheduler run per node,  *)
(* two per exchange; nodes without commands need none.                      *)
RunsOfPlan == 1 .. MaxRuns

(* The planner thread is done, possibly with an exception. A plan that      *)
(* scans no file needs no scheduler run at all.                             *)
Planned ==
  /\ pc = "planning"
  /\ \/ Conclude("error") /\ UNCHANGED <<left, token, flagged>>
     \/ /\ requested
        /\ Conclude("cancelled")
        /\ UNCHANGED <<left, token, flagged>>
     \/ /\ ~requested
        /\ Succeed
        /\ UNCHANGED <<left, token, flagged>>
     \/ /\ ~requested
        /\ \E n \in RunsOfPlan :
             /\ left' = n /\ token' = FALSE /\ flagged' = FALSE
             /\ state' = "RUNNING" /\ executor' = TRUE /\ pc' = "running"
             /\ UNCHANGED <<error, rows, requested, call, closing>>

(* Mutant: only the run's own token tells that it was cancelled. *)
RunReturnsByToken ==
  /\ pc = "running"
  /\ \E o \in Run!Outcomes(token) :
       \/ /\ o = "complete" /\ left > 1
          /\ left' = left - 1 /\ token' = FALSE
          /\ UNCHANGED <<state, error, rows, requested, executor, pc, call, closing>>
       \/ /\ o = "complete" /\ left = 1
          /\ left' = 0
          /\ Succeed
          /\ UNCHANGED token
       \/ /\ o # "complete"
          /\ Conclude(IF o = "failed" THEN "error" ELSE o)
          /\ UNCHANGED <<left, token>>
  /\ UNCHANGED flagged

(* Mutant: the last scheduler run of a plan is left out. *)
RunReturnsEarly ==
  /\ pc = "running"
  /\ \E o \in Run!Outcomes(token) :
       \/ /\ o = "complete" /\ ~flagged
          /\ left' = left - 1
          /\ Succeed
          /\ UNCHANGED token
       \/ /\ o # "complete"
          /\ Conclude(IF o = "failed" THEN "error" ELSE o)
          /\ UNCHANGED <<left, token>>
  /\ UNCHANGED flagged

(* A scheduler run is over (_run_commands). If the query is flagged by now  *)
(* the execution is cancelled; after a complete run the next one is started *)
(* with a new token, and after the last one the result is read back, which  *)
(* can fail as well.                                                        *)
RunReturns ==
  /\ pc = "running"
  /\ \E o \in Run!Outcomes(token) :
       \/ /\ o = "complete" /\ ~flagged /\ left > 1
          /\ left' = left - 1 /\ token' = FALSE
          /\ UNCHANGED <<state, error, rows, requested, executor, pc, call, closing>>
       \/ /\ o = "complete" /\ ~flagged /\ left = 1
          /\ left' = 0
          /\ Succeed
          /\ UNCHANGED token
       \/ /\ o = "complete" /\ ~flagged
          /\ left' = left - 1
          /\ Conclude("error")
          /\ UNCHANGED token
       \/ /\ o \in {"complete", "cancelled"} /\ flagged
          /\ Conclude("cancelled")
          /\ UNCHANGED <<left, token>>
       \/ /\ o \in {"failed", "unconfirmed"}
          /\ Conclude(IF o = "failed" THEN "error" ELSE o)
          /\ UNCHANGED <<left, token>>
  /\ UNCHANGED flagged

----------------------------------------------------------------------------
(* cancel and close *)

(* Mutant: the call waits, with its timeout, for a query that has ended. *)
CancelWaitsAlways(c) ==
  /\ call[c] = "idle" /\ state # "none"
  /\ c = Closer <=> closing = "closing"
  /\ call'      = [call EXCEPT ![c] = "waiting"]
  /\ requested' = (requested \/ state \notin Terminal)
  /\ flagged'   = (flagged \/ executor)
  /\ token'     = (token \/ pc = "running")
  /\ UNCHANGED <<state, error, rows, executor, pc, left, closing>>

(* cancel: a terminal query is left alone; else the request is noted, the   *)
(* executor and the scheduler run are told, and the call waits for _run.    *)
Cancel(c) ==
  /\ call[c] = "idle" /\ state # "none"
  /\ c = Closer <=> closing = "closing"
  /\ IF state \in Terminal
     THEN call' = [call EXCEPT ![c] = state] /\ UNCHANGED <<requested, flagged, token>>
     ELSE /\ call'      = [call EXCEPT ![c] = "waiting"]
          /\ requested' = TRUE
          /\ flagged'   = (flagged \/ executor)
          /\ token'     = (token \/ pc = "running")
  /\ UNCHANGED <<state, error, rows, executor, pc, left, closing>>

(* Mutant: the call waits for CANCELED, whatever else the query may end in. *)
CancelReturnsIfCanceled(c) ==
  /\ call[c] = "waiting"
  /\ state = "CANCELED"
  /\ call' = [call EXCEPT ![c] = state]
  /\ UNCHANGED <<state, error, rows, requested, executor, pc, left, token, flagged, closing>>

CancelReturns(c) ==
  /\ call[c] = "waiting"
  /\ pc = "done"
  /\ call' = [call EXCEPT ![c] = state]
  /\ UNCHANGED <<state, error, rows, requested, executor, pc, left, token, flagged, closing>>

(* The timeout of wait_for. Its timer may also fire after _run has ended    *)
(* and before the waiting call is resumed; the first step of _run, which is *)
(* ready since submit, comes before it.                                     *)
CancelTimeout(c) ==
  /\ call[c] = "waiting"
  /\ pc # "queued"
  /\ error' = "timeout"
  /\ state' = "FAILED"
  /\ call'  = [call EXCEPT ![c] = "FAILED"]
  /\ UNCHANGED <<rows, requested, executor, pc, left, token, flagged, closing>>

(* close: a query whose coroutine has not ended is cancelled by a task.     *)
Close ==
  /\ closing = "open"
  /\ closing' = IF pc \in {"none", "done"} THEN "closed" ELSE "closing"
  /\ UNCHANGED <<state, error, rows, requested, executor, pc, left, token, flagged, call>>

CloseReturns ==
  /\ closing = "closing"
  /\ call[Closer] \in Terminal
  /\ closing' = "closed"
  /\ UNCHANGED <<state, error, rows, requested, executor, pc, left, token, flagged, call>>

(* Nothing is left to do. *)
Over ==
  /\ closing = "closed"
  /\ pc \in {"none", "done"}
  /\ UNCHANGED vars

RunStep == Begin \/ Listed \/ Planned \/ RunReturns

Next ==
  \/ Submit \/ RunStep \/ Close \/ CloseReturns \/ Over
  \/ \E c \in Callers : Cancel(c) \/ CancelReturns(c) \/ CancelTimeout(c)

Spec == Init /\ [][Next]_vars

(* The event loop resumes what is ready; the planner thread ends; scheduler *)
(* runs end, as ScheduleRun promises. No timer is assumed to fire.          *)
Fairness ==
  /\ WF_vars(RunStep)
  /\ WF_vars(CloseReturns)
  /\ WF_vars(Cancel(Closer))
  /\ \A c \in Callers : WF_vars(CancelReturns(c))

FairSpec == Spec /\ Fairness

----------------------------------------------------------------------------
(* PROPERTIES *)

(* get_results serves rows. *)
ResultsReady == state = "SUCCEEDED" /\ rows

(* Results are served only for a query that nobody asked to cancel before   *)
(* it ended and all of whose scheduler runs are complete, wherever the      *)
(* request came in (queries.py 146-163, 183-210, 247-279).                  *)
ResultsAreWanted ==
  ResultsReady => ~requested /\ left = 0 /\ pc = "done" /\ error = "none"

(* A query that is reported terminal has stopped, unless a cancel call gave *)
(* up waiting; then it is FAILED and says so (queries.py 183-310).          *)
TerminalHasStopped ==
  state \in Terminal /\ pc # "done" => state = "FAILED" /\ error = "timeout"

(* No scheduler run is started for a query after a request to cancel it,    *)
(* whether the request came before the executor existed, during a run or    *)
(* at the end of one (queries.py 183-256, remote_execution.py 81-83,        *)
(* 260-306).                                                                *)
NoRunAfterCancel ==
  [][requested => (pc' = "running" => pc = "running" /\ left' = left)]_vars

(* A result, and a failure of the query's own, are final. Only the outcome  *)
(* of a cancellation can still change, between FAILED after a timeout and   *)
(* CANCELED (queries.py 183-210, 281-308).                                  *)
OutcomeIsFinal ==
  [][(state \in Terminal /\ state' # state)
       => (requested /\ {state, state'} = {"FAILED", "CANCELED"} /\ error' = "timeout")]_vars

(* A shut-down service leaves no query behind that is not terminal          *)
(* (queries.py 212-219).                                                    *)
ClosedIsSettled == closing = "closed" => state \in Terminal \cup {"none"}

(* A query that was submitted ends, and with it every cancel call and the   *)
(* shutdown, though no timer fires (queries.py 183-219).                    *)
EverythingEnds ==
  /\ state = "QUEUED" ~> pc = "done"
  /\ \A c \in Callers : call[c] = "waiting" ~> call[c] \in Terminal
  /\ closing = "closing" ~> closing = "closed"

============================================================================
