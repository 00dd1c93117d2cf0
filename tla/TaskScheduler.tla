---------------------------- MODULE TaskScheduler ----------------------------
(***************************************************************************)
(* One run of the Coordinator's TaskScheduler over RemoteWorker backends:  *)
(* the stage loop, one coroutine per task with its attempts, retries and   *)
(* backoff, the HTTP calls of the current attempt, and the attempts as     *)
(* they really are on the Workers.                                         *)
(*                                                                         *)
(* Between two awaits a coroutine runs alone, so an action is what happens *)
(* between two awaits. Calls to a Worker can fail before or after they had *)
(* their effect, and a POST whose client gave up can arrive later          *)
(* (remote = "flying"). The registry's view of a Worker (healthy) changes  *)
(* independently of whether its process still works.                       *)
(*                                                                         *)
(* An attempt on its Worker is unknown (none), in a POST under way         *)
(* (flying), live, told to stop (dying), SUCCEEDED with its output in the  *)
(* store (ok), or terminal without output (dead).                          *)
(*                                                                         *)
(* A task's pc:                                                            *)
(*   idle -> choose -> queued -> posting -> polling -> finished -> done    *)
(* with stopping (a DELETE is under way), clean (discard after a failure)  *)
(* and backoff on the retry paths.                                         *)
(***************************************************************************)
EXTENDS Naturals, FiniteSets

CONSTANTS
  Stages,        \* stage ids, in their sort order
  Deps,          \* dependency_stage_ids of every stage
  Tasks,
  StageOf,       \* the stage of every task
  ShuffleTasks,  \* tasks whose result carries shuffle manifests, no artifact
  Workers,
  Slots,         \* slots of every RemoteWorker
  MaxAttempts,   \* RetryPolicy.max_attempts
  None

ASSUME StagesAssumption ==
  /\ Stages \subseteq Nat
  /\ Deps \in [Stages -> SUBSET Stages]
  /\ StageOf \in [Tasks -> Stages]
ASSUME SlotsAssumption == Slots \in Nat \ {0}
ASSUME MaxAttemptsAssumption == MaxAttempts \in Nat \ {0}
ASSUME NoneAssumption == None \notin Workers

VARIABLES
  run,      \* where TaskScheduler.run is
  cur,      \* the stage it has started last
  batch,    \* ready stages of the current pass still to be run
  first,    \* how the first task of cur to raise has ended
  token,    \* the run's CancellationToken
  stage,    \* Stage.state
  task,     \* Task.state
  pc,       \* where the task's coroutine is
  tries,    \* number of attempts of the task
  started,  \* has the current attempt been seen started?
  why,      \* why a DELETE is under way: token, lost, timeout
  out,      \* how the execution of the current attempt ended
  att,      \* attempts as the Coordinator records them
  remote,   \* attempts as they are on their Workers
  healthy   \* the registry's view of the Workers

runVars  == <<run, cur, batch, first, token, stage>>
taskVars == <<task, pc, tries, started, why, out, att>>
vars     == <<runVars, taskVars, remote, healthy>>

Numbers  == 1 .. MaxAttempts
Ended    == {"returned", "failed", "unconfirmed"}
Holding  == {"posting", "polling", "stopping"}       \* inside the semaphore
InFlight == {"queued"} \cup Holding                  \* execution not done
Quit     == {"done", "aborted"}                      \* the coroutine has ended
OnWorker == {"flying", "live", "dying"}              \* may still run
NoAtt    == [state |-> "none", worker |-> None]

RunOK ==
  /\ run   \in {"loop", "gather", "settle"} \cup Ended
  /\ cur   \in Stages \cup {0}
  /\ batch \subseteq Stages
  /\ first \in {"none", "cancelled", "failed", "unconfirmed"}
  /\ token \in BOOLEAN
  /\ stage \in [Stages -> {"PENDING", "RUNNING", "SUCCEEDED", "FAILED", "CANCELED"}]
TaskOK ==
  /\ task    \in [Tasks -> {"PENDING", "RUNNING", "SUCCEEDED", "FAILED", "CANCELED"}]
  /\ pc      \in [Tasks -> {"idle", "choose", "finished", "clean", "backoff"} \cup Quit \cup InFlight]
  /\ tries   \in [Tasks -> 0 .. MaxAttempts]
  /\ started \in [Tasks -> BOOLEAN]
  /\ why     \in [Tasks -> {"none", "token", "lost", "timeout"}]
  /\ out     \in [Tasks -> {"none", "value", "cancelled", "lost", "error", "unconfirmed"}]
AttemptOK ==
  /\ att \in [Tasks -> [Numbers ->
               [state : {"none", "CREATED", "RUNNING", "SUCCEEDED", "FAILED", "LOST", "CANCELED"},
                worker : Workers \cup {None}]]]
  /\ remote \in [Tasks -> [Numbers ->
               {"none", "ok", "dead"} \cup OnWorker]]

(* The type invariant: stages, tasks, attempts and their Worker-side states *)
(* keep their types; no task exceeds max_attempts (scheduler.py 59-74).     *)
TypeOK == RunOK /\ TaskOK /\ AttemptOK /\ healthy \in [Workers -> BOOLEAN]

Init ==
  /\ run = "loop" /\ cur = 0 /\ batch = {} /\ first = "none" /\ token = FALSE
  /\ stage   = [s \in Stages |-> "PENDING"]
  /\ task    = [t \in Tasks |-> "PENDING"]
  /\ pc      = [t \in Tasks |-> "idle"]
  /\ tries   = [t \in Tasks |-> 0]
  /\ started = [t \in Tasks |-> FALSE]
  /\ why     = [t \in Tasks |-> "none"]
  /\ out     = [t \in Tasks |-> "none"]
  /\ att     = [t \in Tasks |-> [n \in Numbers |-> NoAtt]]
  /\ remote  = [t \in Tasks |-> [n \in Numbers |-> "none"]]
  /\ healthy = [w \in Workers |-> TRUE]

InStage(s) == {t \in Tasks : StageOf[t] = s}
Now(t)     == tries[t]                    \* number of the current attempt
WorkerOf(t) == att[t][Now(t)].worker
Remote(t)  == remote[t][Now(t)]

----------------------------------------------------------------------------
(* TaskScheduler.run *)

(* Mutant: a pass takes every stage that is left. *)
FormBatchIgnoresDeps ==
  /\ run = "loop"
  /\ batch = {}
  /\ \E s \in Stages : stage[s] # "SUCCEEDED"
  /\ batch' = {s \in Stages : stage[s] # "SUCCEEDED"}
  /\ UNCHANGED <<run, cur, first, token, stage, taskVars, remote, healthy>>

(* A pass of the while loop: the stages whose dependencies have succeeded.  *)
(* (The RuntimeError of a cyclic graph is left out: executors build none.)   *)
FormBatch ==
  /\ run = "loop"
  /\ batch = {}
  /\ \E s \in Stages : stage[s] # "SUCCEEDED"
  /\ batch' = {s \in Stages : stage[s] # "SUCCEEDED" /\ \A d \in Deps[s] : stage[d] = "SUCCEEDED"}
  /\ UNCHANGED <<run, cur, first, token, stage, taskVars, remote, healthy>>

RunDone ==
  /\ run = "loop"
  /\ \A s \in Stages : stage[s] = "SUCCEEDED"
  /\ run' = "returned"
  /\ UNCHANGED <<cur, batch, first, token, stage, taskVars, remote, healthy>>

(* The handler of ExecutionCancelled around the loop: what has not started  *)
(* is CANCELED and the schedule is returned.                                *)
Abandon(stg, tsk) ==
  /\ stage' = [s \in Stages |-> IF stg[s] = "PENDING" THEN "CANCELED" ELSE stg[s]]
  /\ task'  = [t \in Tasks |-> IF tsk[t] = "PENDING" THEN "CANCELED" ELSE tsk[t]]
  /\ run'   = "returned"

(* The next stage of the pass, in id order: its tasks are scheduled, or the *)
(* token stops the run.                                                     *)
StartStage ==
  /\ run = "loop"
  /\ \E s \in batch :
       /\ \A r \in batch : s <= r
       /\ IF token
          THEN Abandon(stage, task) /\ UNCHANGED <<cur, batch, first, pc>>
          ELSE /\ run'   = "gather"
               /\ cur'   = s
               /\ batch' = batch \ {s}
               /\ first' = "none"
               /\ stage' = [stage EXCEPT ![s] = "RUNNING"]
               /\ pc'    = [t \in Tasks |-> IF StageOf[t] = s THEN "choose" ELSE pc[t]]
               /\ UNCHANGED task
  /\ UNCHANGED <<token, tries, started, why, out, att, remote, healthy>>

(* gather returns: every task of the stage has a result. *)
StageDone ==
  /\ run = "gather"
  /\ \A t \in InStage(cur) : pc[t] = "done" /\ task[t] = "SUCCEEDED"
  /\ stage' = [stage EXCEPT ![cur] = "SUCCEEDED"]
  /\ run'   = "loop"
  /\ UNCHANGED <<cur, batch, first, token, taskVars, remote, healthy>>

(* Mutant: every exception takes the path of a cancellation. *)
GatherRaisesAlike ==
  /\ run = "gather"
  /\ first # "none"
  /\ run' = "settle"
  /\ UNCHANGED <<stage, cur, batch, first, token, taskVars, remote, healthy>>

(* gather raises what the first failing task raised. A cancellation waits   *)
(* for the siblings; any other exception ends the run at once.              *)
GatherRaises ==
  /\ run = "gather"
  /\ first # "none"
  /\ IF first = "cancelled"
     THEN run' = "settle" /\ UNCHANGED stage
     ELSE run' = first /\ stage' = [stage EXCEPT ![cur] = "FAILED"]
  /\ UNCHANGED <<cur, batch, first, token, taskVars, remote, healthy>>

(* Mutant: a cancelled stage is left without waiting for its tasks. *)
SettleAtOnce ==
  /\ run = "settle"
  /\ LET stg == [stage EXCEPT ![cur] = "CANCELED"]
         tsk == [t \in Tasks |-> IF StageOf[t] = cur /\ task[t] \in {"PENDING", "RUNNING"}
                                 THEN "CANCELED" ELSE task[t]]
     IN  Abandon(stg, tsk)
  /\ UNCHANGED <<cur, batch, first, token, pc, tries, started, why, out, att, remote, healthy>>

(* The second gather: all tasks of the stage have ended. A cancellation     *)
(* that was not confirmed is re-raised, else the run is abandoned.          *)
Settle ==
  /\ run = "settle"
  /\ \A t \in InStage(cur) : pc[t] \in Quit
  /\ LET stg == [stage EXCEPT ![cur] = "CANCELED"]
         tsk == [t \in Tasks |-> IF StageOf[t] = cur /\ task[t] \in {"PENDING", "RUNNING"}
                                 THEN "CANCELED" ELSE task[t]]
     IN  IF \E t \in InStage(cur) : pc[t] = "aborted"
         THEN run' = "unconfirmed" /\ stage' = stg /\ task' = tsk
         ELSE Abandon(stg, tsk)
  /\ UNCHANGED <<cur, batch, first, token, pc, tries, started, why, out, att, remote, healthy>>

(* cancel: sets the token of a run that has not ended. *)
Cancel ==
  /\ run \notin Ended
  /\ ~token
  /\ token' = TRUE
  /\ UNCHANGED <<run, cur, batch, first, stage, taskVars, remote, healthy>>

----------------------------------------------------------------------------
(* _run_task *)

(* The locals of _execute_attempt are gone. *)
Forget(t) ==
  /\ started' = [started EXCEPT ![t] = FALSE]
  /\ why'     = [why EXCEPT ![t] = "none"]
  /\ out'     = [out EXCEPT ![t] = "none"]

(* The coroutine ends: with a result, or raising what gather sees first. *)
Finish(t, how) ==
  /\ pc'    = [pc EXCEPT ![t] = IF how = "unconfirmed" THEN "aborted" ELSE "done"]
  /\ first' = IF run = "gather" /\ first = "none" /\ how # "ok" THEN how ELSE first

Set(t, state) == att' = [att EXCEPT ![t][Now(t)].state = state]

Healthy == {w \in Workers : healthy[w]}

(* The healthy Workers that have not had the task before, else all of them. *)
Candidates(t) ==
  LET others == Healthy \ {att[t][n].worker : n \in 1 .. tries[t]}
  IN  IF others # {} THEN others ELSE Healthy

(* Mutant: a retry reuses the attempt id. *)
ChooseReusesId(t) ==
  /\ pc[t] = "choose"
  /\ ~token
  /\ LET n == IF tries[t] = 0 THEN 1 ELSE tries[t]
     IN  /\ \E w \in Candidates(t) : att' = [att EXCEPT ![t][n] = [state |-> "CREATED", worker |-> w]]
         /\ tries' = [tries EXCEPT ![t] = n]
  /\ task'    = [task EXCEPT ![t] = "RUNNING"]
  /\ pc'      = [pc EXCEPT ![t] = "queued"]
  /\ UNCHANGED <<runVars, started, why, out, remote, healthy>>

(* Top of the attempt loop: the token is checked, then a Worker is chosen.  *)
Choose(t) ==
  /\ pc[t] = "choose"
  /\ ~token
  /\ \E w \in Candidates(t) :
       att' = [att EXCEPT ![t][tries[t] + 1] = [state |-> "CREATED", worker |-> w]]
  /\ tries'   = [tries EXCEPT ![t] = @ + 1]
  /\ task'    = [task EXCEPT ![t] = "RUNNING"]
  /\ pc'      = [pc EXCEPT ![t] = "queued"]
  /\ UNCHANGED <<runVars, started, why, out, remote, healthy>>

(* No Worker is healthy: the task fails, with an attempt to carry the error *)
(* if it had none.                                                          *)
NoWorker(t) ==
  /\ pc[t] = "choose"
  /\ ~token
  /\ Healthy = {}
  /\ IF tries[t] = 0
     THEN /\ att'   = [att EXCEPT ![t][1].state = "FAILED"]
          /\ tries' = [tries EXCEPT ![t] = 1]
     ELSE UNCHANGED <<att, tries>>
  /\ task' = [task EXCEPT ![t] = "FAILED"]
  /\ Finish(t, "failed")
  /\ UNCHANGED <<run, cur, batch, token, stage, started, why, out, remote, healthy>>

(* The token is seen at the top of the loop or after the backoff; the task  *)
(* stays RUNNING until the run marks it.                                    *)
SeeToken(t) ==
  /\ pc[t] \in {"choose", "backoff"}
  /\ token
  /\ task' = [task EXCEPT ![t] = "RUNNING"]
  /\ Finish(t, "cancelled")
  /\ UNCHANGED <<run, cur, batch, token, stage, tries, started, why, out, att, remote, healthy>>

Backoff(t) ==
  /\ pc[t] = "backoff"
  /\ ~token
  /\ pc' = [pc EXCEPT ![t] = "choose"]
  /\ UNCHANGED <<runVars, task, tries, started, why, out, att, remote, healthy>>

(* _execute_attempt has the outcome of the execution. A value counts only   *)
(* if the Worker still holds its lease; that is not asked when the attempt  *)
(* was over at the first look.                                              *)
Succeed(t) ==
  /\ pc[t] = "finished"
  /\ out[t] = "value"
  /\ started[t] => healthy[WorkerOf(t)]
  /\ IF token
     THEN Set(t, "CANCELED") /\ task' = [task EXCEPT ![t] = "CANCELED"] /\ Finish(t, "cancelled")
     ELSE Set(t, "SUCCEEDED") /\ task' = [task EXCEPT ![t] = "SUCCEEDED"] /\ Finish(t, "ok")
  /\ Forget(t)
  /\ UNCHANGED <<run, cur, batch, token, stage, tries, remote, healthy>>

EndCancelled(t) ==
  /\ pc[t] = "finished"
  /\ out[t] = "cancelled"
  /\ Set(t, "CANCELED")
  /\ task' = [task EXCEPT ![t] = "CANCELED"]
  /\ Finish(t, "cancelled")
  /\ Forget(t)
  /\ UNCHANGED <<run, cur, batch, token, stage, tries, remote, healthy>>

EndUnconfirmed(t) ==
  /\ pc[t] = "finished"
  /\ out[t] = "unconfirmed"
  /\ Set(t, "FAILED")
  /\ task' = [task EXCEPT ![t] = "FAILED"]
  /\ Finish(t, "unconfirmed")
  /\ Forget(t)
  /\ UNCHANGED <<run, cur, batch, token, stage, tries, remote, healthy>>

(* Any other outcome is an exception that leads to discard; a value from a  *)
(* Worker without a lease is one too.                                       *)
LostLease(t) == out[t] = "value" /\ ~healthy[WorkerOf(t)]

EndFailed(t) ==
  /\ pc[t] = "finished"
  /\ out[t] \in {"lost", "error"} \/ LostLease(t)
  /\ why' = [why EXCEPT ![t] = IF out[t] = "error" THEN "none" ELSE "lost"]
  /\ pc'  = [pc EXCEPT ![t] = "clean"]
  /\ UNCHANGED <<runVars, task, tries, started, out, att, remote, healthy>>

----------------------------------------------------------------------------
(* DELETE of the current attempt (RemoteWorker._cancel) *)

Reach(t) == {Remote(t), "dead", "dying"}

(* A 200: the attempt exists on the Worker and is terminal now. *)
DeleteConfirmed(t, after) ==
  /\ Remote(t) \in {"live", "dying", "ok", "dead"}
  /\ after = IF Remote(t) = "ok" THEN "ok" ELSE "dead"

(* Anything else: the Worker is unreachable, does not know the attempt,     *)
(* answers 504 because the thread has not stopped, or the answer is lost.   *)
DeleteUnconfirmed(t, after) ==
  \/ after = Remote(t)
  \/ Remote(t) = "live" /\ after = "dying"

(* discard, with its errors suppressed: the DELETE, then the deletion of    *)
(* the artifact this RemoteWorker had recorded for the attempt.             *)
Recorded(t) == out[t] = "value" /\ t \notin ShuffleTasks

Discarded(t, after) ==
  /\ remote' = [remote EXCEPT ![t][Now(t)] = after]
  /\ Set(t, IF why[t] = "lost" THEN "LOST" ELSE "FAILED")
  /\ IF tries[t] < MaxAttempts
     THEN pc' = [pc EXCEPT ![t] = "backoff"] /\ UNCHANGED <<first, task>>
     ELSE task' = [task EXCEPT ![t] = "FAILED"] /\ Finish(t, "failed")
  /\ Forget(t)
  /\ UNCHANGED <<run, cur, batch, token, stage, tries, healthy>>

Discard(t) ==
  /\ pc[t] = "clean"
  /\ \E after \in Reach(t) :
       /\ DeleteConfirmed(t, after)
       /\ Discarded(t, IF Recorded(t) THEN "dead" ELSE after)

DiscardFails(t) ==
  /\ pc[t] = "clean"
  /\ \E after \in Reach(t) :
       /\ DeleteUnconfirmed(t, after)
       /\ Discarded(t, after)

----------------------------------------------------------------------------
(* RemoteWorker.execute *)

Release(t, outcome) ==
  /\ pc'  = [pc EXCEPT ![t] = "finished"]
  /\ out' = [out EXCEPT ![t] = outcome]
  /\ UNCHANGED <<runVars, task, tries, started, why, healthy>>

Busy(w) == {t \in Tasks : pc[t] \in Holding /\ WorkerOf(t) = w}

(* Mutant: the token is not checked after the wait for the semaphore. *)
AcquireUnchecked(t) ==
  /\ pc[t] = "queued"
  /\ Cardinality(Busy(WorkerOf(t))) < Slots
  /\ pc' = [pc EXCEPT ![t] = "posting"]
  /\ UNCHANGED <<runVars, task, tries, started, why, out, healthy, att, remote>>

(* The semaphore is acquired; the token is checked before anything is sent. *)
Acquire(t) ==
  /\ pc[t] = "queued"
  /\ Cardinality(Busy(WorkerOf(t))) < Slots
  /\ IF token
     THEN Release(t, "cancelled")
     ELSE pc' = [pc EXCEPT ![t] = "posting"]
          /\ UNCHANGED <<runVars, task, tries, started, why, out, healthy>>
  /\ UNCHANGED <<att, remote>>

Posted(t) ==
  /\ pc[t] = "posting"
  /\ Remote(t) = "none"
  /\ remote' = [remote EXCEPT ![t][Now(t)] = "live"]
  /\ pc'     = [pc EXCEPT ![t] = "polling"]
  /\ UNCHANGED <<runVars, task, tries, started, why, out, att, healthy>>

(* The POST fails for the Coordinator, whether or not it reached the Worker *)
(* or still will.                                                           *)
PostFails(t) ==
  /\ pc[t] = "posting"
  /\ \E r \in {"none", "flying", "live"} : remote' = [remote EXCEPT ![t][Now(t)] = r]
  /\ Release(t, "lost")
  /\ UNCHANGED att

(* Mutant: on_started is not called. *)
SeenRunningUnmarked(t) ==
  /\ pc[t] = "polling"
  /\ ~token
  /\ ~started[t]
  /\ Remote(t) \in {"live", "dying"}
  /\ Set(t, "RUNNING")
  /\ UNCHANGED <<runVars, task, pc, tries, started, why, out, remote, healthy>>

(* Poll: the attempt runs. The attempt timeout counts from here. *)
SeenRunning(t) ==
  /\ pc[t] = "polling"
  /\ ~token
  /\ ~started[t]
  /\ Remote(t) \in {"live", "dying"}
  /\ started' = [started EXCEPT ![t] = TRUE]
  /\ Set(t, "RUNNING")
  /\ UNCHANGED <<runVars, task, pc, tries, why, out, remote, healthy>>

(* Mutant: a terminal state is taken for a result. *)
SeenTerminalAsValue(t) ==
  /\ pc[t] = "polling"
  /\ ~token
  /\ Remote(t) \in {"ok", "dead"}
  /\ Release(t, "value")
  /\ UNCHANGED <<att, remote>>

(* Poll: the attempt is terminal. An artifact that cannot be read back is   *)
(* an error too.                                                            *)
SeenTerminal(t) ==
  /\ pc[t] = "polling"
  /\ ~token
  /\ \/ Remote(t) = "ok" /\ Release(t, "value")
     \/ Remote(t) = "ok" /\ t \notin ShuffleTasks /\ Release(t, "error")
     \/ Remote(t) = "dead" /\ Release(t, "error")
  /\ UNCHANGED <<att, remote>>

(* Poll: the GET fails. *)
PollFails(t) ==
  /\ pc[t] = "polling"
  /\ Release(t, "lost")
  /\ UNCHANGED <<att, remote>>

(* The execution turns to deleting its attempt: because it saw the token,   *)
(* or because _execute_attempt cancelled it.                                *)
StopFor(t, reason) ==
  /\ pc'  = [pc EXCEPT ![t] = "stopping"]
  /\ why' = [why EXCEPT ![t] = reason]
  /\ UNCHANGED <<runVars, task, tries, started, out, att, healthy>>

SeenToken(t) ==
  /\ pc[t] = "polling"
  /\ token
  /\ StopFor(t, "token")
  /\ UNCHANGED remote

(* attempt_timeout_seconds after the start. *)
Timeout(t) ==
  /\ pc[t] = "polling" \/ (pc[t] = "stopping" /\ why[t] = "token")
  /\ started[t]
  /\ StopFor(t, "timeout")
  /\ UNCHANGED remote

(* The lease watcher sees the Worker without a lease. An execution that     *)
(* still waits for a slot has nothing to delete; a POST under way is        *)
(* abandoned wherever it is.                                                *)
LeaseLost(t) ==
  /\ pc[t] \in InFlight
  /\ why[t] \in {"none", "token"}
  /\ ~healthy[WorkerOf(t)]
  /\ IF pc[t] = "queued"
     THEN Release(t, "lost") /\ UNCHANGED <<att, remote>>
     ELSE /\ StopFor(t, "lost")
          /\ \E r \in {Remote(t)} \cup (IF pc[t] = "posting" THEN {"flying", "live"} ELSE {}) :
               remote' = [remote EXCEPT ![t][Now(t)] = r]

(* Mutant: a DELETE that cannot be confirmed is just one more failure. *)
StoppedAnyway(t) ==
  /\ pc[t] = "stopping"
  /\ \E done \in BOOLEAN, after \in Reach(t) :
       /\ IF done THEN DeleteConfirmed(t, after) ELSE DeleteUnconfirmed(t, after)
       /\ remote' = [remote EXCEPT ![t][Now(t)] = after]
       /\ Release(t, CASE why[t] = "lost"    -> "lost"
                       [] why[t] = "token"   -> "cancelled"
                       [] why[t] = "timeout" -> "error")
  /\ UNCHANGED att

(* Mutant: the DELETE is waited for until it is confirmed. *)
StoppedInsists(t) ==
  /\ pc[t] = "stopping"
  /\ \E after \in Reach(t) :
       /\ DeleteConfirmed(t, after)
       /\ remote' = [remote EXCEPT ![t][Now(t)] = after]
       /\ Release(t, CASE why[t] = "lost"    -> "lost"
                       [] why[t] = "token"   -> "cancelled"
                       [] why[t] = "timeout" -> "error")
  /\ UNCHANGED att

(* Mutant: an attempt that could not be stopped is watched further. *)
StoppedPollsAgain(t) ==
  /\ pc[t] = "stopping"
  /\ \E done \in BOOLEAN, after \in Reach(t) :
       /\ IF done THEN DeleteConfirmed(t, after) ELSE DeleteUnconfirmed(t, after)
       /\ remote' = [remote EXCEPT ![t][Now(t)] = after]
       /\ IF done \/ why[t] = "lost"
          THEN Release(t, CASE why[t] = "lost"    -> "lost"
                            [] why[t] = "token"   -> "cancelled"
                            [] why[t] = "timeout" -> "error")
          ELSE /\ pc' = [pc EXCEPT ![t] = "polling"]
               /\ UNCHANGED <<runVars, task, tries, started, why, out, healthy>>
  /\ UNCHANGED att

(* The DELETE is over. Not being able to confirm it is fatal unless the     *)
(* Worker is given up anyway.                                               *)
Stopped(t) ==
  /\ pc[t] = "stopping"
  /\ \E done \in BOOLEAN, after \in Reach(t) :
       /\ IF done THEN DeleteConfirmed(t, after) ELSE DeleteUnconfirmed(t, after)
       /\ remote' = [remote EXCEPT ![t][Now(t)] = after]
       /\ Release(t, CASE why[t] = "lost"             -> "lost"
                       [] why[t] # "lost" /\ ~done    -> "unconfirmed"
                       [] why[t] = "token" /\ done    -> "cancelled"
                       [] why[t] = "timeout" /\ done  -> "error")
  /\ UNCHANGED att

----------------------------------------------------------------------------
(* The Workers and the registry *)

RemoteStep(t, n) ==
  /\ \E r \in {"ok", "dead", "live"} :
       /\ \/ remote[t][n] = "live" /\ r \in {"ok", "dead"}
          \/ remote[t][n] = "dying" /\ r = "dead"
          \/ remote[t][n] = "flying" /\ r = "live"
       /\ remote' = [remote EXCEPT ![t][n] = r]
  /\ UNCHANGED <<runVars, taskVars, healthy>>

LoseLease(w) ==
  /\ healthy[w]
  /\ healthy' = [healthy EXCEPT ![w] = FALSE]
  /\ UNCHANGED <<runVars, taskVars, remote>>

RegainLease(w) ==
  /\ ~healthy[w]
  /\ healthy' = [healthy EXCEPT ![w] = TRUE]
  /\ UNCHANGED <<runVars, taskVars, remote>>

(* The Worker process dies: its attempts are unknown to the next one.       *)
(* Published objects stay.                                                  *)
Crash(w) ==
  /\ \E t \in Tasks, n \in Numbers : att[t][n].worker = w /\ remote[t][n] \in OnWorker
  /\ remote' = [t \in Tasks |-> [n \in Numbers |->
       IF att[t][n].worker = w /\ remote[t][n] \in OnWorker THEN "none" ELSE remote[t][n]]]
  /\ UNCHANGED <<runVars, taskVars, healthy>>

RunStep == FormBatch \/ RunDone \/ StartStage \/ StageDone \/ GatherRaises \/ Settle

Execution(t) ==
  \/ Acquire(t) \/ Posted(t) \/ PostFails(t) \/ SeenRunning(t) \/ SeenTerminal(t)
  \/ PollFails(t) \/ SeenToken(t) \/ Timeout(t) \/ Stopped(t)

TaskStep(t) ==
  \/ Choose(t) \/ NoWorker(t) \/ SeeToken(t) \/ Backoff(t) \/ Succeed(t) \/ EndCancelled(t)
  \/ EndUnconfirmed(t) \/ EndFailed(t) \/ Discard(t) \/ DiscardFails(t)

(* The run is over and no coroutine of it is left. *)
Over ==
  /\ run \in Ended
  /\ \A t \in Tasks : pc[t] \in {"idle"} \cup Quit
  /\ UNCHANGED vars

Next ==
  \/ RunStep \/ Cancel \/ Over
  \/ \E t \in Tasks : TaskStep(t) \/ Execution(t) \/ LeaseLost(t)
  \/ \E t \in Tasks, n \in Numbers : RemoteStep(t, n)
  \/ \E w \in Workers : LoseLease(w) \/ RegainLease(w) \/ Crash(w)

Spec == Init /\ [][Next]_vars

(* The event loop runs every ready coroutine, and every HTTP call ends one  *)
(* way or the other (a poll of an attempt the Worker does not know fails).  *)
(* Nothing is assumed of the Workers: attempts may run for ever, leases     *)
(* come and go.                                                             *)
EventLoop ==
  /\ WF_vars(RunStep)
  /\ \A t \in Tasks :
       /\ WF_vars(TaskStep(t))
       /\ WF_vars(Acquire(t))
       /\ WF_vars(Posted(t) \/ PostFails(t) \/ SeenToken(t) \/ Stopped(t))
       /\ WF_vars(SeenRunning(t) \/ SeenTerminal(t) \/ (PollFails(t) /\ Remote(t) = "none"))

(* An attempt that was seen running times out in the end. Of a cancelled    *)
(* run not even that is assumed.                                            *)
FairSpec == Spec /\ EventLoop /\ \A t \in Tasks : WF_vars(~token /\ Timeout(t))

----------------------------------------------------------------------------
(* PROPERTIES *)

Winners(t) == {n \in Numbers : att[t][n].state = "SUCCEEDED"}

(* A stage that has SUCCEEDED has exactly one winning attempt per task, the *)
(* last one made, and no retry, discard or late cancellation of another     *)
(* attempt has taken away what it published (scheduler.py 233-431).         *)
OneIntactWinner ==
  \A t \in Tasks :
    stage[StageOf[t]] = "SUCCEEDED" =>
      Winners(t) = {tries[t]} /\ remote[t][tries[t]] = "ok"

(* A task gets an attempt only after every stage it depends on has          *)
(* succeeded (scheduler.py 248-262).                                        *)
StageOrder ==
  \A t \in Tasks : tries[t] > 0 =>
    \A d \in Deps[StageOf[t]] : stage[d] = "SUCCEEDED"

(* Two attempts of a task can run at the same time only if the earlier one  *)
(* was given up as LOST: a timed-out or failed attempt is terminal on its   *)
(* Worker before the next one is made (scheduler.py 433-497).               *)
OnlyLostAttemptsLinger ==
  \A t \in Tasks, n \in Numbers :
    n < tries[t] /\ remote[t][n] \in OnWorker => att[t][n].state = "LOST"

(* A run that returns has nothing in progress: each stage SUCCEEDED or was  *)
(* CANCELED, every task is terminal, no coroutine of it is left, and what   *)
(* may still run on a Worker was given up as LOST (scheduler.py 233-312).   *)
ReturnedIsSettled ==
  run = "returned" =>
    /\ \A s \in Stages : stage[s] \in {"SUCCEEDED", "CANCELED"}
    /\ \A t \in Tasks : task[t] \notin {"PENDING", "RUNNING"} /\ pc[t] \in {"idle"} \cup Quit
    /\ \A t \in Tasks, n \in Numbers : remote[t][n] \in OnWorker => att[t][n].state = "LOST"

(* After the token is set no stage is started and no attempt is sent, on    *)
(* any retry path (scheduler.py 233-431, remote.py 74-124).                 *)
NothingSentAfterCancel ==
  [][token => /\ \A s \in Stages : stage[s] = "PENDING" => stage'[s] # "RUNNING"
              /\ \A t \in Tasks : pc'[t] = "posting" => pc[t] = "posting"]_vars

(* A cancelled run comes to an end, whatever the Workers do and even if the *)
(* attempt timeout never fires: through an unreachable Worker, a lost       *)
(* answer or an attempt that never ends (scheduler.py 228-312, remote.py    *)
(* 119-121).                                                                *)
CancelEndsRun == token ~> run \in Ended

(* How many steps a coroutine is from its end once the token is set. *)
Countdown(t) ==
  CASE pc[t] \in {"idle"} \cup Quit                -> 0
    [] pc[t] \in {"choose", "backoff"}             -> 1
    [] pc[t] = "clean"                             -> 2
    [] pc[t] = "finished"                          -> 3
    [] pc[t] = "stopping" /\ why[t] # "token"      -> 4
    [] pc[t] = "stopping" /\ why[t] = "token"      -> 5
    [] pc[t] = "polling"                           -> 6
    [] pc[t] = "posting"                           -> 7
    [] pc[t] = "queued"                            -> 8

(* After the token is set every step a task's coroutine takes brings it     *)
(* nearer to its end, and nothing else sets it back: no failed DELETE,      *)
(* lost lease, timeout or retry makes it go round once more, so it ends     *)
(* after eight steps at most (scheduler.py 314-497, remote.py 74-124).      *)
CancelIsBounded ==
  [][token => \A t \in Tasks :
       \/ Countdown(t)' < Countdown(t)
       \/ pc'[t] = pc[t] /\ why'[t] = why[t]]_vars

(* What the caller of run sees of it: results for all tasks, a cancelled    *)
(* schedule, or an exception.                                               *)
Status ==
  CASE run \notin Ended -> "running"
    [] run = "returned" /\ (\A s \in Stages : stage[s] = "SUCCEEDED") -> "complete"
    [] run = "returned" /\ (\E s \in Stages : stage[s] # "SUCCEEDED") -> "cancelled"
    [] run \in {"failed", "unconfirmed"} -> run

Contract == INSTANCE ScheduleRun WITH status <- Status

(* The scheduler keeps its contract: every run ends, since attempts are     *)
(* bounded in time and number; it ends once, and it returns without all     *)
(* results only if it was cancelled (scheduler.py 59-74, 233-554).          *)
ImplementsScheduleRun == Contract!Spec

(* A POST of the attempt can still arrive. *)
MayArrive(t, n) ==
  \/ n > tries[t]
  \/ n = tries[t] /\ pc[t] \in {"queued", "posting"}

(* An attempt in the terms of WorkerAttempt. One that no Worker knows is    *)
(* lost once nothing is going to post it.                                   *)
View(t, n) ==
  CASE remote[t][n] = "flying"                       -> "none"
    [] remote[t][n] = "none" /\ MayArrive(t, n)      -> "none"
    [] remote[t][n] = "none" /\ ~MayArrive(t, n)     -> "lost"
    [] remote[t][n] \notin {"flying", "none"}        -> remote[t][n]

Lives == INSTANCE WorkerAttempt
         WITH Attempts <- Tasks \X Numbers,
              view <- [p \in Tasks \X Numbers |-> View(p[1], p[2])]

(* What the scheduler and its Workers do to a remote attempt stays within   *)
(* the life that WorkerTasks gives it: no retry, late POST, repeated DELETE *)
(* or crash posts an attempt twice, revives a terminal one or removes an    *)
(* output other than the current attempt's (scheduler.py 314-497,           *)
(* remote.py 74-211).                                                       *)
RemoteIsWorkerAttempt == Lives!Spec

(* "Wait until all dispatched remote attempts have finished cancelling or   *)
(* entered a bounded, explicit failure state before completing the query's  *)
(* cancellation" (.trae/specs/build-distributed-sql-engine/tasks.md 214):   *)
(* when a cancelled run has ended, no coroutine of it is still dispatching, *)
(* watching or stopping an attempt (scheduler.py 268-293).  The code does   *)
(* not satisfy this.                                                        *)
CancelWaitsForAttempts ==
  token /\ run \in Ended => \A t \in Tasks : pc[t] \notin Holding

(* "The scheduler calls remote discard for a failed attempt; the Worker     *)
(* deletes the result or the shuffle files and manifest"                    *)
(* (docs/implementation.md 120): an attempt whose discard went through has  *)
(* left no published output.  The code does not satisfy this.               *)
DiscardRemovesOutput ==
  [][\A t \in Tasks : Discard(t) => remote'[t][Now(t)] # "ok"]_vars
============================================================================
