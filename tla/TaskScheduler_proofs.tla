------------------------ MODULE TaskScheduler_proofs ------------------------
(***************************************************************************)
(* Proofs about a run of the TaskScheduler, for every stage graph, every   *)
(* set of tasks and Workers and every max_attempts.                        *)
(*                                                                         *)
(* The safety properties speak of attempts that were left behind and of    *)
(* runs that have returned. Whether the step to the next attempt or the    *)
(* return is right depends on what the Coordinator had learnt of the       *)
(* attempt when it let go of it: TaskInv says, for every place of a task's *)
(* coroutine and every outcome of an execution, what may be left on the    *)
(* Worker then; RunInv says how stages, tasks and the loop of run go       *)
(* together.                                                               *)
(***************************************************************************)
EXTENDS TaskScheduler, TLAPS

(* Attempts not made yet are nowhere. *)
Unmade(t) ==
  \A n \in Numbers : n > tries[t] => att[t][n].state = "none" /\ remote[t][n] = "none"

(* How many attempts there are when the coroutine is where it is. *)
Counted(t) ==
  /\ pc[t] = "idle" => tries[t] = 0
  /\ pc[t] \in {"choose", "backoff"} => tries[t] < MaxAttempts
  /\ pc[t] \in InFlight \cup {"finished", "clean"} => tries[t] > 0

(* What may run on a Worker without being watched was given up as LOST. *)
Linger(t) ==
  \A n \in Numbers :
    (n < tries[t] \/ pc[t] \in {"choose", "backoff", "done"}) /\ remote[t][n] \in OnWorker
      => att[t][n].state = "LOST"

(* Nothing of the attempt is on the Worker before the POST. *)
Unsent(t) == pc[t] \in {"queued", "posting"} => Remote(t) = "none"

(* What the outcome of an execution says of its attempt. *)
Outcome(t) ==
  /\ out[t] # "none" => pc[t] \in {"finished", "clean"}
  /\ out[t] = "value" => Remote(t) = "ok"
  /\ out[t] = "error" => Remote(t) \in {"ok", "dead"}
  /\ out[t] = "cancelled" => token /\ Remote(t) \notin OnWorker

(* Why an attempt is stopped or discarded. *)
Reason(t) ==
  /\ why[t] = "token" => token
  /\ pc[t] = "stopping" => why[t] # "none"
  /\ pc[t] = "clean" => why[t] = "lost" \/ out[t] = "error"

(* The attempt that won is the last one, and its output is there. *)
Won(t) ==
  /\ \A n \in Numbers : att[t][n].state = "SUCCEEDED" => n = tries[t] /\ task[t] = "SUCCEEDED"
  /\ task[t] = "SUCCEEDED" =>
       /\ pc[t] = "done" /\ tries[t] > 0
       /\ att[t][Now(t)].state = "SUCCEEDED" /\ Remote(t) = "ok"

TaskInv(t) ==
  /\ Unmade(t) /\ Counted(t) /\ Linger(t) /\ Unsent(t)
  /\ Outcome(t) /\ Reason(t) /\ Won(t)

(* A task has not begun, or has a result, with its stage. *)
InStep(t) ==
  /\ stage[StageOf[t]] = "PENDING" => pc[t] = "idle" /\ task[t] = "PENDING"
  /\ stage[StageOf[t]] = "SUCCEEDED" => pc[t] = "done" /\ task[t] = "SUCCEEDED"
  /\ pc[t] # "idle" => \A d \in Deps[StageOf[t]] : stage[d] = "SUCCEEDED"

(* Where the loop is and what the stages are. *)
Loop ==
  /\ run = "loop" => \A s \in Stages : stage[s] \in {"PENDING", "SUCCEEDED"}
  /\ run \in {"gather", "settle"} =>
       /\ cur \in Stages /\ stage[cur] = "RUNNING"
       /\ \A s \in Stages \ {cur} : stage[s] \in {"PENDING", "SUCCEEDED"}
  /\ run \notin Ended => \A s \in batch :
       stage[s] = "PENDING" /\ \A d \in Deps[s] : stage[d] = "SUCCEEDED"

(* A cancelled run was cancelled. *)
Asked == run = "settle" \/ first = "cancelled" => token

(* What has returned has nothing under way. *)
Back ==
  run = "returned" =>
    /\ \A s \in Stages : stage[s] \in {"SUCCEEDED", "CANCELED"}
    /\ \A t \in Tasks : task[t] \notin {"PENDING", "RUNNING"} /\ pc[t] \in {"idle", "done"}

RunInv == Loop /\ Asked /\ Back /\ \A t \in Tasks : InStep(t)

IndInv == TypeOK /\ RunInv /\ \A t \in Tasks : TaskInv(t)

(* What a step that concerns another task leaves alone. *)
Same(t) ==
  UNCHANGED <<task[t], pc[t], tries[t], why[t], out[t], att[t], remote[t]>>

----------------------------------------------------------------------------
(* A task nothing touches keeps its invariant; a token once set stays set. *)
LEMMA FrameKeeps ==
  ASSUME NEW t \in Tasks, TaskInv(t), Same(t), token => token'
  PROVE  TaskInv(t)'
BY DEF TaskInv, Same, Unmade, Counted, Linger, Unsent, Outcome, Reason, Won, Remote, Now

(* A step of one task that has begun and not ended leaves the run in order, *)
(* provided it reports a cancellation only when the token is set.           *)
LEMMA TaskKeepsRun ==
  ASSUME IndInv, NEW t \in Tasks, pc[t] \notin {"idle", "done"},
         UNCHANGED <<run, cur, batch, token, stage>>,
         first' = "cancelled" => first = "cancelled" \/ token,
         \A u \in Tasks \ {t} : pc'[u] = pc[u] /\ task'[u] = task[u]
  PROVE  RunInv'
<1>1. Loop' /\ Asked'
  BY DEF IndInv, RunInv, Loop, Asked
<1>2. run # "returned"
  BY DEF IndInv, RunInv, Back
<1>3. Back'
  BY <1>2 DEF Back
<1>4. ASSUME NEW u \in Tasks PROVE InStep(u)'
  BY DEF IndInv, RunInv, InStep
<1> QED BY <1>1, <1>3, <1>4 DEF RunInv

(* One task moves on and every other keeps its state. *)
LEMMA OneTask ==
  ASSUME IndInv, NEW t \in Tasks, pc[t] \notin {"idle", "done"},
         UNCHANGED <<run, cur, batch, token, stage>>,
         first' = "cancelled" => first = "cancelled" \/ token,
         \A u \in Tasks \ {t} : Same(u),
         TypeOK', TaskInv(t)'
  PROVE  IndInv'
<1>1. RunInv'
  BY TaskKeepsRun DEF Same
<1>2. \A u \in Tasks : TaskInv(u)'
  BY FrameKeeps DEF IndInv
<1> QED BY <1>1, <1>2 DEF IndInv

AttStates == {"none", "CREATED", "RUNNING", "SUCCEEDED", "FAILED", "LOST", "CANCELED"}
Remotes   == {"none", "ok", "dead"} \cup OnWorker

(* The state of one attempt changes in the Coordinator's books. *)
LEMMA SetOne ==
  ASSUME AttemptOK, NEW t \in Tasks, NEW n \in Numbers, NEW s \in AttStates,
         att' = [att EXCEPT ![t][n].state = s]
  PROVE  /\ att' \in [Tasks -> [Numbers -> [state : AttStates, worker : Workers \cup {None}]]]
         /\ \A u \in Tasks \ {t} : att'[u] = att[u]
         /\ \A m \in Numbers \ {n} : att'[t][m] = att[t][m]
         /\ att'[t][n].state = s
<1> DEFINE Att == [state : AttStates, worker : Workers \cup {None}]
           new == [att[t][n] EXCEPT !.state = s]
<1>1. att \in [Tasks -> [Numbers -> Att]]
  BY DEF AttemptOK, AttStates
<1>2. new \in Att /\ new.state = s
  <2>1. att[t][n] \in Att
    BY <1>1
  <2>2. PICK a \in Att : a = att[t][n]
    BY <2>1
  <2>3. new = [state |-> s, worker |-> a.worker]
    BY <2>2
  <2> QED BY <2>2, <2>3
<1>3. att' = [att EXCEPT ![t] = [att[t] EXCEPT ![n] = new]]
  BY <1>1
<1> HIDE DEF Att, new
<1>4. att' \in [Tasks -> [Numbers -> Att]]
  BY <1>1, <1>2, <1>3
<1> QED BY <1>1, <1>2, <1>3, <1>4 DEF Att

(* One attempt changes on its Worker. *)
LEMMA RemoteOne ==
  ASSUME AttemptOK, NEW t \in Tasks, NEW n \in Numbers, NEW r \in Remotes,
         remote' = [remote EXCEPT ![t][n] = r]
  PROVE  /\ remote' \in [Tasks -> [Numbers -> Remotes]]
         /\ \A u \in Tasks \ {t} : remote'[u] = remote[u]
         /\ \A m \in Numbers \ {n} : remote'[t][m] = remote[t][m]
         /\ remote'[t][n] = r
BY DEF AttemptOK, Remotes

(* The steps of a task that change no attempt. *)
Places == {"idle", "choose", "finished", "clean", "backoff"} \cup Quit \cup InFlight

LEMMA PlainKeeps ==
  ASSUME IndInv, NEW t \in Tasks, NEW p \in Places,
         pc[t] \notin {"idle", "done"}, pc' = [pc EXCEPT ![t] = p],
         UNCHANGED <<run, cur, batch, token, stage, tries, started, att, remote, healthy>>,
         first' \in {"none", "cancelled", "failed", "unconfirmed"},
         first' = "cancelled" => first = "cancelled" \/ token,
         TaskOK',
         \A u \in Tasks \ {t} : task'[u] = task[u] /\ why'[u] = why[u] /\ out'[u] = out[u],
         Counted(t)', Linger(t)', Unsent(t)', Outcome(t)', Reason(t)', Won(t)'
  PROVE  IndInv'
<1>1. TypeOK'
  BY DEF IndInv, TypeOK, RunOK, AttemptOK
<1>2. Unmade(t)'
  BY DEF IndInv, TaskInv, Unmade
<1>3. \A u \in Tasks \ {t} : Same(u)
  BY DEF Same, IndInv, TypeOK, TaskOK
<1> QED BY <1>1, <1>2, <1>3, OneTask DEF TaskInv

(* The token is seen between two attempts. *)
LEMMA SeeTokenKeeps == ASSUME IndInv, NEW t \in Tasks, SeeToken(t) PROVE IndInv'
<1>1. TypeOK /\ TaskInv(t)
  BY DEF IndInv
<1>2. pc[t] \notin {"idle", "done"} /\ pc' = [pc EXCEPT ![t] = "done"]
  BY DEF SeeToken, Finish, InFlight, Holding
<1>3. TaskOK'
  BY <1>1, <1>2 DEF SeeToken, Finish, TypeOK, TaskOK, Quit, InFlight, Holding
<1>4. first' \in {"none", "cancelled", "failed", "unconfirmed"}
  BY <1>1 DEF SeeToken, Finish, TypeOK, RunOK
<1>5. \A u \in Tasks \ {t} : task'[u] = task[u] /\ why'[u] = why[u] /\ out'[u] = out[u]
  BY <1>1 DEF SeeToken, Finish, TypeOK, TaskOK
<1>6. Counted(t)' /\ Linger(t)' /\ Unsent(t)' /\ Outcome(t)' /\ Reason(t)' /\ Won(t)'
  BY <1>1, <1>2 DEF SeeToken, Finish, TypeOK, TaskOK, TaskInv, Unmade, Counted, Linger, Unsent,
     Outcome, Reason, Won, Remote, Now, InFlight, Holding, OnWorker
<1> QED BY <1>2, <1>3, <1>4, <1>5, <1>6, PlainKeeps DEF SeeToken, Finish, Places, Quit, InFlight, Holding

(* The backoff is over. *)
LEMMA BackoffKeeps == ASSUME IndInv, NEW t \in Tasks, Backoff(t) PROVE IndInv'
<1>1. TypeOK /\ TaskInv(t)
  BY DEF IndInv
<1>2. pc[t] \notin {"idle", "done"} /\ pc' = [pc EXCEPT ![t] = "choose"]
  BY DEF Backoff, runVars, InFlight, Holding
<1>3. TaskOK'
  BY <1>1, <1>2 DEF Backoff, runVars, TypeOK, TaskOK, Quit, InFlight, Holding
<1>4. first' \in {"none", "cancelled", "failed", "unconfirmed"}
  BY <1>1 DEF Backoff, runVars, TypeOK, RunOK
<1>5. \A u \in Tasks \ {t} : task'[u] = task[u] /\ why'[u] = why[u] /\ out'[u] = out[u]
  BY <1>1 DEF Backoff, runVars, TypeOK, TaskOK
<1>6. Counted(t)' /\ Linger(t)' /\ Unsent(t)' /\ Outcome(t)' /\ Reason(t)' /\ Won(t)'
  BY <1>1, <1>2 DEF Backoff, runVars, TypeOK, TaskOK, TaskInv, Unmade, Counted, Linger, Unsent,
     Outcome, Reason, Won, Remote, Now, InFlight, Holding, OnWorker
<1> QED BY <1>2, <1>3, <1>4, <1>5, <1>6, PlainKeeps DEF Backoff, runVars, Places, Quit, InFlight, Holding

(* The execution failed or its Worker has no lease. *)
LEMMA EndFailedKeeps == ASSUME IndInv, NEW t \in Tasks, EndFailed(t) PROVE IndInv'
<1>1. TypeOK /\ TaskInv(t)
  BY DEF IndInv
<1>2. pc[t] \notin {"idle", "done"} /\ pc' = [pc EXCEPT ![t] = "clean"]
  BY DEF EndFailed, LostLease, runVars, InFlight, Holding
<1>3. TaskOK'
  BY <1>1, <1>2 DEF EndFailed, LostLease, runVars, TypeOK, TaskOK, Quit, InFlight, Holding
<1>4. first' \in {"none", "cancelled", "failed", "unconfirmed"}
  BY <1>1 DEF EndFailed, LostLease, runVars, TypeOK, RunOK
<1>5. \A u \in Tasks \ {t} : task'[u] = task[u] /\ why'[u] = why[u] /\ out'[u] = out[u]
  BY <1>1 DEF EndFailed, LostLease, runVars, TypeOK, TaskOK
<1>6. Counted(t)' /\ Linger(t)' /\ Unsent(t)' /\ Outcome(t)' /\ Reason(t)' /\ Won(t)'
  BY <1>1, <1>2 DEF EndFailed, LostLease, runVars, TypeOK, TaskOK, TaskInv, Unmade, Counted, Linger, Unsent,
     Outcome, Reason, Won, Remote, Now, InFlight, Holding, OnWorker
<1> QED BY <1>2, <1>3, <1>4, <1>5, <1>6, PlainKeeps DEF EndFailed, LostLease, runVars, Places, Quit, InFlight, Holding

(* The poll finds a terminal attempt. *)
LEMMA SeenTerminalKeeps == ASSUME IndInv, NEW t \in Tasks, SeenTerminal(t) PROVE IndInv'
<1>1. TypeOK /\ TaskInv(t)
  BY DEF IndInv
<1>2. pc[t] \notin {"idle", "done"} /\ pc' = [pc EXCEPT ![t] = "finished"]
  BY DEF SeenTerminal, Release, runVars, InFlight, Holding
<1>3. TaskOK'
  BY <1>1, <1>2 DEF SeenTerminal, Release, runVars, TypeOK, TaskOK, Quit, InFlight, Holding
<1>4. first' \in {"none", "cancelled", "failed", "unconfirmed"}
  BY <1>1 DEF SeenTerminal, Release, runVars, TypeOK, RunOK
<1>5. \A u \in Tasks \ {t} : task'[u] = task[u] /\ why'[u] = why[u] /\ out'[u] = out[u]
  BY <1>1 DEF SeenTerminal, Release, runVars, TypeOK, TaskOK
<1>6. Counted(t)' /\ Linger(t)' /\ Unsent(t)' /\ Outcome(t)' /\ Reason(t)' /\ Won(t)'
  BY <1>1, <1>2 DEF SeenTerminal, Release, runVars, TypeOK, TaskOK, TaskInv, Unmade, Counted, Linger, Unsent,
     Outcome, Reason, Won, Remote, Now, InFlight, Holding, OnWorker
<1> QED BY <1>2, <1>3, <1>4, <1>5, <1>6, PlainKeeps DEF SeenTerminal, Release, runVars, Places, Quit, InFlight, Holding

(* The poll fails. *)
LEMMA PollFailsKeeps == ASSUME IndInv, NEW t \in Tasks, PollFails(t) PROVE IndInv'
<1>1. TypeOK /\ TaskInv(t)
  BY DEF IndInv
<1>2. pc[t] \notin {"idle", "done"} /\ pc' = [pc EXCEPT ![t] = "finished"]
  BY DEF PollFails, Release, runVars, InFlight, Holding
<1>3. TaskOK'
  BY <1>1, <1>2 DEF PollFails, Release, runVars, TypeOK, TaskOK, Quit, InFlight, Holding
<1>4. first' \in {"none", "cancelled", "failed", "unconfirmed"}
  BY <1>1 DEF PollFails, Release, runVars, TypeOK, RunOK
<1>5. \A u \in Tasks \ {t} : task'[u] = task[u] /\ why'[u] = why[u] /\ out'[u] = out[u]
  BY <1>1 DEF PollFails, Release, runVars, TypeOK, TaskOK
<1>6. Counted(t)' /\ Linger(t)' /\ Unsent(t)' /\ Outcome(t)' /\ Reason(t)' /\ Won(t)'
  BY <1>1, <1>2 DEF PollFails, Release, runVars, TypeOK, TaskOK, TaskInv, Unmade, Counted, Linger, Unsent,
     Outcome, Reason, Won, Remote, Now, InFlight, Holding, OnWorker
<1> QED BY <1>2, <1>3, <1>4, <1>5, <1>6, PlainKeeps DEF PollFails, Release, runVars, Places, Quit, InFlight, Holding

(* The poll sees the token. *)
LEMMA SeenTokenKeeps == ASSUME IndInv, NEW t \in Tasks, SeenToken(t) PROVE IndInv'
<1>1. TypeOK /\ TaskInv(t)
  BY DEF IndInv
<1>2. pc[t] \notin {"idle", "done"} /\ pc' = [pc EXCEPT ![t] = "stopping"]
  BY DEF SeenToken, StopFor, runVars, InFlight, Holding
<1>3. TaskOK'
  BY <1>1, <1>2 DEF SeenToken, StopFor, runVars, TypeOK, TaskOK, Quit, InFlight, Holding
<1>4. first' \in {"none", "cancelled", "failed", "unconfirmed"}
  BY <1>1 DEF SeenToken, StopFor, runVars, TypeOK, RunOK
<1>5. \A u \in Tasks \ {t} : task'[u] = task[u] /\ why'[u] = why[u] /\ out'[u] = out[u]
  BY <1>1 DEF SeenToken, StopFor, runVars, TypeOK, TaskOK
<1>6. Counted(t)' /\ Linger(t)' /\ Unsent(t)' /\ Outcome(t)' /\ Reason(t)' /\ Won(t)'
  BY <1>1, <1>2 DEF SeenToken, StopFor, runVars, TypeOK, TaskOK, TaskInv, Unmade, Counted, Linger, Unsent,
     Outcome, Reason, Won, Remote, Now, InFlight, Holding, OnWorker
<1> QED BY <1>2, <1>3, <1>4, <1>5, <1>6, PlainKeeps DEF SeenToken, StopFor, runVars, Places, Quit, InFlight, Holding

(* The attempt times out. *)
LEMMA TimeoutKeeps == ASSUME IndInv, NEW t \in Tasks, Timeout(t) PROVE IndInv'
<1>1. TypeOK /\ TaskInv(t)
  BY DEF IndInv
<1>2. pc[t] \notin {"idle", "done"} /\ pc' = [pc EXCEPT ![t] = "stopping"]
  BY DEF Timeout, StopFor, runVars, InFlight, Holding
<1>3. TaskOK'
  BY <1>1, <1>2 DEF Timeout, StopFor, runVars, TypeOK, TaskOK, Quit, InFlight, Holding
<1>4. first' \in {"none", "cancelled", "failed", "unconfirmed"}
  BY <1>1 DEF Timeout, StopFor, runVars, TypeOK, RunOK
<1>5. \A u \in Tasks \ {t} : task'[u] = task[u] /\ why'[u] = why[u] /\ out'[u] = out[u]
  BY <1>1 DEF Timeout, StopFor, runVars, TypeOK, TaskOK
<1>6. Counted(t)' /\ Linger(t)' /\ Unsent(t)' /\ Outcome(t)' /\ Reason(t)' /\ Won(t)'
  BY <1>1, <1>2 DEF Timeout, StopFor, runVars, TypeOK, TaskOK, TaskInv, Unmade, Counted, Linger, Unsent,
     Outcome, Reason, Won, Remote, Now, InFlight, Holding, OnWorker
<1> QED BY <1>2, <1>3, <1>4, <1>5, <1>6, PlainKeeps DEF Timeout, StopFor, runVars, Places, Quit, InFlight, Holding

(* The token is seen when the semaphore is acquired. *)
LEMMA RefusedKeeps == ASSUME IndInv, NEW t \in Tasks, Acquire(t), token PROVE IndInv'
<1>1. TypeOK /\ TaskInv(t)
  BY DEF IndInv
<1>2. pc[t] \notin {"idle", "done"} /\ pc' = [pc EXCEPT ![t] = "finished"]
  BY DEF Acquire, Release, runVars, InFlight, Holding
<1>3. TaskOK'
  BY <1>1, <1>2 DEF Acquire, Release, runVars, TypeOK, TaskOK, Quit, InFlight, Holding
<1>4. first' \in {"none", "cancelled", "failed", "unconfirmed"}
  BY <1>1 DEF Acquire, Release, runVars, TypeOK, RunOK
<1>5. \A u \in Tasks \ {t} : task'[u] = task[u] /\ why'[u] = why[u] /\ out'[u] = out[u]
  BY <1>1 DEF Acquire, Release, runVars, TypeOK, TaskOK
<1>6. Counted(t)' /\ Linger(t)' /\ Unsent(t)' /\ Outcome(t)' /\ Reason(t)' /\ Won(t)'
  BY <1>1, <1>2 DEF Acquire, Release, runVars, TypeOK, TaskOK, TaskInv, Unmade, Counted, Linger, Unsent,
     Outcome, Reason, Won, Remote, Now, InFlight, Holding, OnWorker
<1> QED BY <1>2, <1>3, <1>4, <1>5, <1>6, PlainKeeps DEF Acquire, Release, runVars, Places, Quit, InFlight, Holding

(* The semaphore is acquired and the POST begins. *)
LEMMA SendingKeeps == ASSUME IndInv, NEW t \in Tasks, Acquire(t), ~token PROVE IndInv'
<1>1. TypeOK /\ TaskInv(t)
  BY DEF IndInv
<1>2. pc[t] \notin {"idle", "done"} /\ pc' = [pc EXCEPT ![t] = "posting"]
  BY DEF Acquire, runVars, InFlight, Holding
<1>3. TaskOK'
  BY <1>1, <1>2 DEF Acquire, runVars, TypeOK, TaskOK, Quit, InFlight, Holding
<1>4. first' \in {"none", "cancelled", "failed", "unconfirmed"}
  BY <1>1 DEF Acquire, runVars, TypeOK, RunOK
<1>5. \A u \in Tasks \ {t} : task'[u] = task[u] /\ why'[u] = why[u] /\ out'[u] = out[u]
  BY <1>1 DEF Acquire, runVars, TypeOK, TaskOK
<1>6. Counted(t)' /\ Linger(t)' /\ Unsent(t)' /\ Outcome(t)' /\ Reason(t)' /\ Won(t)'
  BY <1>1, <1>2 DEF Acquire, runVars, TypeOK, TaskOK, TaskInv, Unmade, Counted, Linger, Unsent,
     Outcome, Reason, Won, Remote, Now, InFlight, Holding, OnWorker
<1> QED BY <1>2, <1>3, <1>4, <1>5, <1>6, PlainKeeps DEF Acquire, runVars, Places, Quit, InFlight, Holding

(* The lease is lost while the attempt waits for a slot. *)
LEMMA QueuedLostKeeps == ASSUME IndInv, NEW t \in Tasks, LeaseLost(t), pc[t] = "queued" PROVE IndInv'
<1>1. TypeOK /\ TaskInv(t)
  BY DEF IndInv
<1>2. pc[t] \notin {"idle", "done"} /\ pc' = [pc EXCEPT ![t] = "finished"]
  BY DEF LeaseLost, Release, runVars, InFlight, Holding
<1>3. TaskOK'
  BY <1>1, <1>2 DEF LeaseLost, Release, runVars, TypeOK, TaskOK, Quit, InFlight, Holding
<1>4. first' \in {"none", "cancelled", "failed", "unconfirmed"}
  BY <1>1 DEF LeaseLost, Release, runVars, TypeOK, RunOK
<1>5. \A u \in Tasks \ {t} : task'[u] = task[u] /\ why'[u] = why[u] /\ out'[u] = out[u]
  BY <1>1 DEF LeaseLost, Release, runVars, TypeOK, TaskOK
<1>6. Counted(t)' /\ Linger(t)' /\ Unsent(t)' /\ Outcome(t)' /\ Reason(t)' /\ Won(t)'
  BY <1>1, <1>2 DEF LeaseLost, Release, runVars, TypeOK, TaskOK, TaskInv, Unmade, Counted, Linger, Unsent,
     Outcome, Reason, Won, Remote, Now, InFlight, Holding, OnWorker
<1> QED BY <1>2, <1>3, <1>4, <1>5, <1>6, PlainKeeps DEF LeaseLost, Release, runVars, Places, Quit, InFlight, Holding

----------------------------------------------------------------------------
(* The steps of a task that change an attempt. *)

(* An attempt that is known to a Worker and is not the current one is an    *)
(* earlier one.                                                             *)
LEMMA Earlier ==
  ASSUME TypeOK, NEW t \in Tasks, Unmade(t), NEW n \in Numbers, n # tries[t], remote[t][n] # "none"
  PROVE  n < tries[t]
BY MaxAttemptsAssumption DEF Unmade, Numbers, TypeOK, TaskOK

(* The task has its result. *)
LEMMA WinnerKeeps == ASSUME IndInv, NEW t \in Tasks, Succeed(t), ~token PROVE IndInv'
<1>1. TypeOK /\ TaskInv(t)
  BY DEF IndInv
<1>2. pc[t] \notin {"idle", "done"} /\ pc' = [pc EXCEPT ![t] = "done"] /\ tries' = tries
  BY <1>1 DEF Succeed, Set, Finish, Forget, TypeOK, TaskOK
<1>3. Now(t) \in Numbers /\ Now(t)' = Now(t)
  BY <1>1, <1>2, MaxAttemptsAssumption DEF Succeed, Set, Finish, Forget, TaskInv, Counted, TypeOK, TaskOK, Numbers, Now,
     InFlight, Holding
<1>4. PICK s \in AttStates : att' = [att EXCEPT ![t][Now(t)].state = s] /\ s = "SUCCEEDED"
  BY <1>2 DEF Succeed, Set, Finish, Forget, AttStates
<1>5. /\ att' \in [Tasks -> [Numbers -> [state : AttStates, worker : Workers \cup {None}]]]
      /\ \A u \in Tasks \ {t} : att'[u] = att[u]
      /\ \A m \in Numbers \ {Now(t)} : att'[t][m] = att[t][m]
      /\ att'[t][Now(t)].state = s
  BY <1>1, <1>3, <1>4, SetOne DEF TypeOK
<1>7. remote' = remote
  BY DEF Succeed, Set, Finish, Forget
<1>8. TaskOK'
  BY <1>1, <1>2 DEF Succeed, Set, Finish, Forget, TypeOK, TaskOK, Quit, InFlight, Holding
<1>9. TypeOK' /\ UNCHANGED <<run, cur, batch, token, stage>>
  BY <1>1, <1>5, <1>7, <1>8 DEF Succeed, Set, Finish, Forget, TypeOK, RunOK, AttemptOK, AttStates, Remotes
<1>10. \A u \in Tasks \ {t} : Same(u)
  BY <1>1, <1>2, <1>5, <1>7 DEF Succeed, Set, Finish, Forget, Same, TypeOK, TaskOK
<1>11. Unmade(t)'
  BY <1>1, <1>2, <1>3, <1>4, <1>5, <1>7 DEF TaskInv, Unmade, Numbers, Now, TypeOK, TaskOK
<1>12. Linger(t)'
  <2>1. remote[t][Now(t)] \notin OnWorker
    BY <1>1 DEF Succeed, Set, Finish, Forget, TaskInv, Outcome, Remote, OnWorker
  <2> SUFFICES ASSUME NEW n \in Numbers, remote'[t][n] \in OnWorker PROVE att'[t][n].state = "LOST"
    BY DEF Linger
  <2>2. n < tries[t]
    BY <2>1, <1>1, <1>7, Earlier DEF Now, OnWorker, TaskInv
  <2> QED BY <2>2, <1>1, <1>3, <1>4, <1>5, <1>7 DEF TaskInv, Linger, Numbers, Now
<1>13. Counted(t)' /\ Unsent(t)' /\ Outcome(t)' /\ Reason(t)'
  BY <1>1, <1>2, <1>3, <1>4, <1>5, <1>7 DEF Succeed, Set, Finish, Forget, TaskInv, Counted, Unsent, Outcome, Reason, OnWorker,
     Remote, Now, TypeOK, TaskOK, InFlight, Holding
<1>14. Won(t)'
  BY <1>1, <1>2, <1>3, <1>4, <1>5, <1>7 DEF Succeed, Set, Finish, Forget, TaskInv, Counted, Won, Outcome, Remote, Now, TypeOK, TaskOK
<1>15. first' = "cancelled" => first = "cancelled" \/ token
  BY <1>1, <1>2 DEF Succeed, Set, Finish, Forget, TaskInv, Outcome
<1> QED BY <1>2, <1>9, <1>10, <1>11, <1>12, <1>13, <1>14, <1>15, OneTask DEF TaskInv

(* A result that comes after the token is dropped. *)
LEMMA TooLateKeeps == ASSUME IndInv, NEW t \in Tasks, Succeed(t), token PROVE IndInv'
<1>1. TypeOK /\ TaskInv(t)
  BY DEF IndInv
<1>2. pc[t] \notin {"idle", "done"} /\ pc' = [pc EXCEPT ![t] = "done"] /\ tries' = tries
  BY <1>1 DEF Succeed, Set, Finish, Forget, TypeOK, TaskOK
<1>3. Now(t) \in Numbers /\ Now(t)' = Now(t)
  BY <1>1, <1>2, MaxAttemptsAssumption DEF Succeed, Set, Finish, Forget, TaskInv, Counted, TypeOK, TaskOK, Numbers, Now,
     InFlight, Holding
<1>4. PICK s \in AttStates : att' = [att EXCEPT ![t][Now(t)].state = s] /\ s = "CANCELED"
  BY <1>2 DEF Succeed, Set, Finish, Forget, AttStates
<1>5. /\ att' \in [Tasks -> [Numbers -> [state : AttStates, worker : Workers \cup {None}]]]
      /\ \A u \in Tasks \ {t} : att'[u] = att[u]
      /\ \A m \in Numbers \ {Now(t)} : att'[t][m] = att[t][m]
      /\ att'[t][Now(t)].state = s
  BY <1>1, <1>3, <1>4, SetOne DEF TypeOK
<1>7. remote' = remote
  BY DEF Succeed, Set, Finish, Forget
<1>8. TaskOK'
  BY <1>1, <1>2 DEF Succeed, Set, Finish, Forget, TypeOK, TaskOK, Quit, InFlight, Holding
<1>9. TypeOK' /\ UNCHANGED <<run, cur, batch, token, stage>>
  BY <1>1, <1>5, <1>7, <1>8 DEF Succeed, Set, Finish, Forget, TypeOK, RunOK, AttemptOK, AttStates, Remotes
<1>10. \A u \in Tasks \ {t} : Same(u)
  BY <1>1, <1>2, <1>5, <1>7 DEF Succeed, Set, Finish, Forget, Same, TypeOK, TaskOK
<1>11. Unmade(t)'
  BY <1>1, <1>2, <1>3, <1>4, <1>5, <1>7 DEF TaskInv, Unmade, Numbers, Now, TypeOK, TaskOK
<1>12. Linger(t)'
  <2>1. remote[t][Now(t)] \notin OnWorker
    BY <1>1 DEF Succeed, Set, Finish, Forget, TaskInv, Outcome, Remote, OnWorker
  <2> SUFFICES ASSUME NEW n \in Numbers, remote'[t][n] \in OnWorker PROVE att'[t][n].state = "LOST"
    BY DEF Linger
  <2>2. n < tries[t]
    BY <2>1, <1>1, <1>7, Earlier DEF Now, OnWorker, TaskInv
  <2> QED BY <2>2, <1>1, <1>3, <1>4, <1>5, <1>7 DEF TaskInv, Linger, Numbers, Now
<1>13. Counted(t)' /\ Unsent(t)' /\ Outcome(t)' /\ Reason(t)'
  BY <1>1, <1>2, <1>3, <1>4, <1>5, <1>7 DEF Succeed, Set, Finish, Forget, TaskInv, Counted, Unsent, Outcome, Reason, OnWorker,
     Remote, Now, TypeOK, TaskOK, InFlight, Holding
<1>14. Won(t)'
  BY <1>1, <1>2, <1>3, <1>4, <1>5, <1>7 DEF Succeed, Set, Finish, Forget, TaskInv, Counted, Won, Outcome, Remote, Now, TypeOK, TaskOK
<1>15. first' = "cancelled" => first = "cancelled" \/ token
  BY <1>1, <1>2 DEF Succeed, Set, Finish, Forget, TaskInv, Outcome
<1> QED BY <1>2, <1>9, <1>10, <1>11, <1>12, <1>13, <1>14, <1>15, OneTask DEF TaskInv

(* The execution was cancelled. *)
LEMMA EndCancelledKeeps == ASSUME IndInv, NEW t \in Tasks, EndCancelled(t) PROVE IndInv'
<1>1. TypeOK /\ TaskInv(t)
  BY DEF IndInv
<1>2. pc[t] \notin {"idle", "done"} /\ pc' = [pc EXCEPT ![t] = "done"] /\ tries' = tries
  BY <1>1 DEF EndCancelled, Set, Finish, Forget, TypeOK, TaskOK
<1>3. Now(t) \in Numbers /\ Now(t)' = Now(t)
  BY <1>1, <1>2, MaxAttemptsAssumption DEF EndCancelled, Set, Finish, Forget, TaskInv, Counted, TypeOK, TaskOK, Numbers, Now,
     InFlight, Holding
<1>4. PICK s \in AttStates : att' = [att EXCEPT ![t][Now(t)].state = s] /\ s = "CANCELED"
  BY <1>2 DEF EndCancelled, Set, Finish, Forget, AttStates
<1>5. /\ att' \in [Tasks -> [Numbers -> [state : AttStates, worker : Workers \cup {None}]]]
      /\ \A u \in Tasks \ {t} : att'[u] = att[u]
      /\ \A m \in Numbers \ {Now(t)} : att'[t][m] = att[t][m]
      /\ att'[t][Now(t)].state = s
  BY <1>1, <1>3, <1>4, SetOne DEF TypeOK
<1>7. remote' = remote
  BY DEF EndCancelled, Set, Finish, Forget
<1>8. TaskOK'
  BY <1>1, <1>2 DEF EndCancelled, Set, Finish, Forget, TypeOK, TaskOK, Quit, InFlight, Holding
<1>9. TypeOK' /\ UNCHANGED <<run, cur, batch, token, stage>>
  BY <1>1, <1>5, <1>7, <1>8 DEF EndCancelled, Set, Finish, Forget, TypeOK, RunOK, AttemptOK, AttStates, Remotes
<1>10. \A u \in Tasks \ {t} : Same(u)
  BY <1>1, <1>2, <1>5, <1>7 DEF EndCancelled, Set, Finish, Forget, Same, TypeOK, TaskOK
<1>11. Unmade(t)'
  BY <1>1, <1>2, <1>3, <1>4, <1>5, <1>7 DEF TaskInv, Unmade, Numbers, Now, TypeOK, TaskOK
<1>12. Linger(t)'
  <2>1. remote[t][Now(t)] \notin OnWorker
    BY <1>1 DEF EndCancelled, Set, Finish, Forget, TaskInv, Outcome, Remote, OnWorker
  <2> SUFFICES ASSUME NEW n \in Numbers, remote'[t][n] \in OnWorker PROVE att'[t][n].state = "LOST"
    BY DEF Linger
  <2>2. n < tries[t]
    BY <2>1, <1>1, <1>7, Earlier DEF Now, OnWorker, TaskInv
  <2> QED BY <2>2, <1>1, <1>3, <1>4, <1>5, <1>7 DEF TaskInv, Linger, Numbers, Now
<1>13. Counted(t)' /\ Unsent(t)' /\ Outcome(t)' /\ Reason(t)'
  BY <1>1, <1>2, <1>3, <1>4, <1>5, <1>7 DEF EndCancelled, Set, Finish, Forget, TaskInv, Counted, Unsent, Outcome, Reason, OnWorker,
     Remote, Now, TypeOK, TaskOK, InFlight, Holding
<1>14. Won(t)'
  BY <1>1, <1>2, <1>3, <1>4, <1>5, <1>7 DEF EndCancelled, Set, Finish, Forget, TaskInv, Counted, Won, Outcome, Remote, Now, TypeOK, TaskOK
<1>15. first' = "cancelled" => first = "cancelled" \/ token
  BY <1>1, <1>2 DEF EndCancelled, Set, Finish, Forget, TaskInv, Outcome
<1> QED BY <1>2, <1>9, <1>10, <1>11, <1>12, <1>13, <1>14, <1>15, OneTask DEF TaskInv

(* The end of the attempt could not be confirmed. *)
LEMMA EndUnconfirmedKeeps == ASSUME IndInv, NEW t \in Tasks, EndUnconfirmed(t) PROVE IndInv'
<1>1. TypeOK /\ TaskInv(t)
  BY DEF IndInv
<1>2. pc[t] \notin {"idle", "done"} /\ pc' = [pc EXCEPT ![t] = "aborted"] /\ tries' = tries
  BY <1>1 DEF EndUnconfirmed, Set, Finish, Forget, TypeOK, TaskOK
<1>3. Now(t) \in Numbers /\ Now(t)' = Now(t)
  BY <1>1, <1>2, MaxAttemptsAssumption DEF EndUnconfirmed, Set, Finish, Forget, TaskInv, Counted, TypeOK, TaskOK, Numbers, Now,
     InFlight, Holding
<1>4. PICK s \in AttStates : att' = [att EXCEPT ![t][Now(t)].state = s] /\ s = "FAILED"
  BY <1>2 DEF EndUnconfirmed, Set, Finish, Forget, AttStates
<1>5. /\ att' \in [Tasks -> [Numbers -> [state : AttStates, worker : Workers \cup {None}]]]
      /\ \A u \in Tasks \ {t} : att'[u] = att[u]
      /\ \A m \in Numbers \ {Now(t)} : att'[t][m] = att[t][m]
      /\ att'[t][Now(t)].state = s
  BY <1>1, <1>3, <1>4, SetOne DEF TypeOK
<1>7. remote' = remote
  BY DEF EndUnconfirmed, Set, Finish, Forget
<1>8. TaskOK'
  BY <1>1, <1>2 DEF EndUnconfirmed, Set, Finish, Forget, TypeOK, TaskOK, Quit, InFlight, Holding
<1>9. TypeOK' /\ UNCHANGED <<run, cur, batch, token, stage>>
  BY <1>1, <1>5, <1>7, <1>8 DEF EndUnconfirmed, Set, Finish, Forget, TypeOK, RunOK, AttemptOK, AttStates, Remotes
<1>10. \A u \in Tasks \ {t} : Same(u)
  BY <1>1, <1>2, <1>5, <1>7 DEF EndUnconfirmed, Set, Finish, Forget, Same, TypeOK, TaskOK
<1>11. Unmade(t)'
  BY <1>1, <1>2, <1>3, <1>4, <1>5, <1>7 DEF TaskInv, Unmade, Numbers, Now, TypeOK, TaskOK
<1>12. Linger(t)'
  BY <1>1, <1>2, <1>3, <1>4, <1>5, <1>7 DEF EndUnconfirmed, Set, Finish, Forget, TaskInv, Unmade, Linger, Outcome, Unsent, Reason, OnWorker, Numbers,
     Remote, Now, TypeOK, TaskOK
<1>13. Counted(t)' /\ Unsent(t)' /\ Outcome(t)' /\ Reason(t)'
  BY <1>1, <1>2, <1>3, <1>4, <1>5, <1>7 DEF EndUnconfirmed, Set, Finish, Forget, TaskInv, Counted, Unsent, Outcome, Reason, OnWorker,
     Remote, Now, TypeOK, TaskOK, InFlight, Holding
<1>14. Won(t)'
  BY <1>1, <1>2, <1>3, <1>4, <1>5, <1>7 DEF EndUnconfirmed, Set, Finish, Forget, TaskInv, Counted, Won, Outcome, Remote, Now, TypeOK, TaskOK
<1>15. first' = "cancelled" => first = "cancelled" \/ token
  BY <1>1, <1>2 DEF EndUnconfirmed, Set, Finish, Forget, TaskInv, Outcome
<1> QED BY <1>2, <1>9, <1>10, <1>11, <1>12, <1>13, <1>14, <1>15, OneTask DEF TaskInv

(* The POST is answered. *)
LEMMA PostedKeeps == ASSUME IndInv, NEW t \in Tasks, Posted(t) PROVE IndInv'
<1>1. TypeOK /\ TaskInv(t)
  BY DEF IndInv
<1>2. pc[t] \notin {"idle", "done"} /\ pc' = [pc EXCEPT ![t] = "polling"] /\ tries' = tries
  BY <1>1 DEF Posted, runVars, TypeOK, TaskOK
<1>3. Now(t) \in Numbers /\ Now(t)' = Now(t)
  BY <1>1, <1>2, MaxAttemptsAssumption DEF Posted, runVars, TaskInv, Counted, TypeOK, TaskOK, Numbers, Now,
     InFlight, Holding
<1>5. att' = att
  BY DEF Posted, runVars
<1>6. PICK r \in Remotes : remote' = [remote EXCEPT ![t][Now(t)] = r] /\ r = "live"
  BY <1>1, <1>2, <1>3 DEF Posted, runVars, Remotes, OnWorker, TypeOK, AttemptOK
<1>7. /\ remote' \in [Tasks -> [Numbers -> Remotes]]
      /\ \A u \in Tasks \ {t} : remote'[u] = remote[u]
      /\ \A m \in Numbers \ {Now(t)} : remote'[t][m] = remote[t][m]
      /\ remote'[t][Now(t)] = r
  BY <1>1, <1>3, <1>6, RemoteOne DEF TypeOK
<1>8. TaskOK'
  BY <1>1, <1>2 DEF Posted, runVars, TypeOK, TaskOK, Quit, InFlight, Holding
<1>9. TypeOK' /\ UNCHANGED <<run, cur, batch, token, stage>>
  BY <1>1, <1>5, <1>7, <1>8 DEF Posted, runVars, TypeOK, RunOK, AttemptOK, AttStates, Remotes
<1>10. \A u \in Tasks \ {t} : Same(u)
  BY <1>1, <1>2, <1>5, <1>7 DEF Posted, runVars, Same, TypeOK, TaskOK
<1>11. Unmade(t)'
  BY <1>1, <1>2, <1>3, <1>5, <1>6, <1>7 DEF TaskInv, Unmade, Numbers, Now, TypeOK, TaskOK
<1>12. Linger(t)'
  BY <1>1, <1>2, <1>3, <1>5, <1>6, <1>7 DEF Posted, runVars, TaskInv, Unmade, Linger, Outcome, Unsent, Reason, OnWorker, Numbers,
     Remote, Now, TypeOK, TaskOK
<1>13. Counted(t)' /\ Unsent(t)' /\ Outcome(t)' /\ Reason(t)'
  BY <1>1, <1>2, <1>3, <1>5, <1>6, <1>7 DEF Posted, runVars, TaskInv, Counted, Unsent, Outcome, Reason, OnWorker,
     Remote, Now, TypeOK, TaskOK, InFlight, Holding
<1>14. Won(t)'
  BY <1>1, <1>2, <1>3, <1>5, <1>6, <1>7 DEF Posted, runVars, TaskInv, Counted, Won, Outcome, Remote, Now, TypeOK, TaskOK
<1>15. first' = "cancelled" => first = "cancelled" \/ token
  BY <1>1, <1>2 DEF Posted, runVars, TaskInv, Outcome
<1> QED BY <1>2, <1>9, <1>10, <1>11, <1>12, <1>13, <1>14, <1>15, OneTask DEF TaskInv

(* The POST fails. *)
LEMMA PostFailsKeeps == ASSUME IndInv, NEW t \in Tasks, PostFails(t) PROVE IndInv'
<1>1. TypeOK /\ TaskInv(t)
  BY DEF IndInv
<1>2. pc[t] \notin {"idle", "done"} /\ pc' = [pc EXCEPT ![t] = "finished"] /\ tries' = tries
  BY <1>1 DEF PostFails, Release, runVars, TypeOK, TaskOK
<1>3. Now(t) \in Numbers /\ Now(t)' = Now(t)
  BY <1>1, <1>2, MaxAttemptsAssumption DEF PostFails, Release, runVars, TaskInv, Counted, TypeOK, TaskOK, Numbers, Now,
     InFlight, Holding
<1>5. att' = att
  BY DEF PostFails, Release, runVars
<1>6. PICK r \in Remotes : remote' = [remote EXCEPT ![t][Now(t)] = r]
  BY <1>1, <1>2, <1>3 DEF PostFails, Release, runVars, Remotes, OnWorker, TypeOK, AttemptOK
<1>7. /\ remote' \in [Tasks -> [Numbers -> Remotes]]
      /\ \A u \in Tasks \ {t} : remote'[u] = remote[u]
      /\ \A m \in Numbers \ {Now(t)} : remote'[t][m] = remote[t][m]
      /\ remote'[t][Now(t)] = r
  BY <1>1, <1>3, <1>6, RemoteOne DEF TypeOK
<1>8. TaskOK'
  BY <1>1, <1>2 DEF PostFails, Release, runVars, TypeOK, TaskOK, Quit, InFlight, Holding
<1>9. TypeOK' /\ UNCHANGED <<run, cur, batch, token, stage>>
  BY <1>1, <1>5, <1>7, <1>8 DEF PostFails, Release, runVars, TypeOK, RunOK, AttemptOK, AttStates, Remotes
<1>10. \A u \in Tasks \ {t} : Same(u)
  BY <1>1, <1>2, <1>5, <1>7 DEF PostFails, Release, runVars, Same, TypeOK, TaskOK
<1>11. Unmade(t)'
  BY <1>1, <1>2, <1>3, <1>5, <1>6, <1>7 DEF TaskInv, Unmade, Numbers, Now, TypeOK, TaskOK
<1>12. Linger(t)'
  BY <1>1, <1>2, <1>3, <1>5, <1>6, <1>7 DEF PostFails, Release, runVars, TaskInv, Unmade, Linger, Outcome, Unsent, Reason, OnWorker, Numbers,
     Remote, Now, TypeOK, TaskOK
<1>13. Counted(t)' /\ Unsent(t)' /\ Outcome(t)' /\ Reason(t)'
  BY <1>1, <1>2, <1>3, <1>5, <1>6, <1>7 DEF PostFails, Release, runVars, TaskInv, Counted, Unsent, Outcome, Reason, OnWorker,
     Remote, Now, TypeOK, TaskOK, InFlight, Holding
<1>14. Won(t)'
  BY <1>1, <1>2, <1>3, <1>5, <1>6, <1>7 DEF PostFails, Release, runVars, TaskInv, Counted, Won, Outcome, Remote, Now, TypeOK, TaskOK
<1>15. first' = "cancelled" => first = "cancelled" \/ token
  BY <1>1, <1>2 DEF PostFails, Release, runVars, TaskInv, Outcome
<1> QED BY <1>2, <1>9, <1>10, <1>11, <1>12, <1>13, <1>14, <1>15, OneTask DEF TaskInv

(* The lease is lost while the attempt is on its Worker. *)
LEMMA GiveUpLostKeeps == ASSUME IndInv, NEW t \in Tasks, LeaseLost(t), pc[t] # "queued" PROVE IndInv'
<1>1. TypeOK /\ TaskInv(t)
  BY DEF IndInv
<1>2. pc[t] \notin {"idle", "done"} /\ pc' = [pc EXCEPT ![t] = "stopping"] /\ tries' = tries
  BY <1>1 DEF LeaseLost, StopFor, Remote, InFlight, Holding, runVars, TypeOK, TaskOK
<1>3. Now(t) \in Numbers /\ Now(t)' = Now(t)
  BY <1>1, <1>2, MaxAttemptsAssumption DEF LeaseLost, StopFor, Remote, InFlight, Holding, runVars, TaskInv, Counted, TypeOK, TaskOK, Numbers, Now,
     InFlight, Holding
<1>5. att' = att
  BY DEF LeaseLost, StopFor, Remote, InFlight, Holding, runVars
<1>6. PICK r \in Remotes : remote' = [remote EXCEPT ![t][Now(t)] = r]
  BY <1>1, <1>2, <1>3 DEF LeaseLost, StopFor, Remote, InFlight, Holding, runVars, Remotes, OnWorker, TypeOK, AttemptOK
<1>7. /\ remote' \in [Tasks -> [Numbers -> Remotes]]
      /\ \A u \in Tasks \ {t} : remote'[u] = remote[u]
      /\ \A m \in Numbers \ {Now(t)} : remote'[t][m] = remote[t][m]
      /\ remote'[t][Now(t)] = r
  BY <1>1, <1>3, <1>6, RemoteOne DEF TypeOK
<1>8. TaskOK'
  BY <1>1, <1>2 DEF LeaseLost, StopFor, Remote, InFlight, Holding, runVars, TypeOK, TaskOK, Quit, InFlight, Holding
<1>9. TypeOK' /\ UNCHANGED <<run, cur, batch, token, stage>>
  BY <1>1, <1>5, <1>7, <1>8 DEF LeaseLost, StopFor, Remote, InFlight, Holding, runVars, TypeOK, RunOK, AttemptOK, AttStates, Remotes
<1>10. \A u \in Tasks \ {t} : Same(u)
  BY <1>1, <1>2, <1>5, <1>7 DEF LeaseLost, StopFor, Remote, InFlight, Holding, runVars, Same, TypeOK, TaskOK
<1>11. Unmade(t)'
  BY <1>1, <1>2, <1>3, <1>5, <1>6, <1>7 DEF TaskInv, Unmade, Numbers, Now, TypeOK, TaskOK
<1>12. Linger(t)'
  BY <1>1, <1>2, <1>3, <1>5, <1>6, <1>7 DEF LeaseLost, StopFor, Remote, InFlight, Holding, runVars, TaskInv, Unmade, Linger, Outcome, Unsent, Reason, OnWorker, Numbers,
     Remote, Now, TypeOK, TaskOK
<1>13. Counted(t)' /\ Unsent(t)' /\ Outcome(t)' /\ Reason(t)'
  BY <1>1, <1>2, <1>3, <1>5, <1>6, <1>7 DEF LeaseLost, StopFor, Remote, InFlight, Holding, runVars, TaskInv, Counted, Unsent, Outcome, Reason, OnWorker,
     Remote, Now, TypeOK, TaskOK, InFlight, Holding
<1>14. Won(t)'
  BY <1>1, <1>2, <1>3, <1>5, <1>6, <1>7 DEF LeaseLost, StopFor, Remote, InFlight, Holding, runVars, TaskInv, Counted, Won, Outcome, Remote, Now, TypeOK, TaskOK
<1>15. first' = "cancelled" => first = "cancelled" \/ token
  BY <1>1, <1>2 DEF LeaseLost, StopFor, Remote, InFlight, Holding, runVars, TaskInv, Outcome
<1> QED BY <1>2, <1>9, <1>10, <1>11, <1>12, <1>13, <1>14, <1>15, OneTask DEF TaskInv

(* The poll finds the attempt running. *)
LEMMA SeenRunningKeeps == ASSUME IndInv, NEW t \in Tasks, SeenRunning(t) PROVE IndInv'
<1>1. TypeOK /\ TaskInv(t)
  BY DEF IndInv
<1>2. pc[t] \notin {"idle", "done"} /\ pc' = [pc EXCEPT ![t] = "polling"] /\ tries' = tries
  BY <1>1 DEF SeenRunning, Set, runVars, TypeOK, TaskOK
<1>3. Now(t) \in Numbers /\ Now(t)' = Now(t)
  BY <1>1, <1>2, MaxAttemptsAssumption DEF SeenRunning, Set, runVars, TaskInv, Counted, TypeOK, TaskOK, Numbers, Now,
     InFlight, Holding
<1>4. PICK s \in AttStates : att' = [att EXCEPT ![t][Now(t)].state = s] /\ s = "RUNNING"
  BY <1>2 DEF SeenRunning, Set, runVars, AttStates
<1>5. /\ att' \in [Tasks -> [Numbers -> [state : AttStates, worker : Workers \cup {None}]]]
      /\ \A u \in Tasks \ {t} : att'[u] = att[u]
      /\ \A m \in Numbers \ {Now(t)} : att'[t][m] = att[t][m]
      /\ att'[t][Now(t)].state = s
  BY <1>1, <1>3, <1>4, SetOne DEF TypeOK
<1>7. remote' = remote
  BY DEF SeenRunning, Set, runVars
<1>8. TaskOK'
  BY <1>1, <1>2 DEF SeenRunning, Set, runVars, TypeOK, TaskOK, Quit, InFlight, Holding
<1>9. TypeOK' /\ UNCHANGED <<run, cur, batch, token, stage>>
  BY <1>1, <1>5, <1>7, <1>8 DEF SeenRunning, Set, runVars, TypeOK, RunOK, AttemptOK, AttStates, Remotes
<1>10. \A u \in Tasks \ {t} : Same(u)
  BY <1>1, <1>2, <1>5, <1>7 DEF SeenRunning, Set, runVars, Same, TypeOK, TaskOK
<1>11. Unmade(t)'
  BY <1>1, <1>2, <1>3, <1>4, <1>5, <1>7 DEF TaskInv, Unmade, Numbers, Now, TypeOK, TaskOK
<1>12. Linger(t)'
  BY <1>1, <1>2, <1>3, <1>4, <1>5, <1>7 DEF SeenRunning, Set, runVars, TaskInv, Unmade, Linger, Outcome, Unsent, Reason, OnWorker, Numbers,
     Remote, Now, TypeOK, TaskOK
<1>13. Counted(t)' /\ Unsent(t)' /\ Outcome(t)' /\ Reason(t)'
  BY <1>1, <1>2, <1>3, <1>4, <1>5, <1>7 DEF SeenRunning, Set, runVars, TaskInv, Counted, Unsent, Outcome, Reason, OnWorker,
     Remote, Now, TypeOK, TaskOK, InFlight, Holding
<1>14. Won(t)'
  BY <1>1, <1>2, <1>3, <1>4, <1>5, <1>7 DEF SeenRunning, Set, runVars, TaskInv, Counted, Won, Outcome, Remote, Now, TypeOK, TaskOK
<1>15. first' = "cancelled" => first = "cancelled" \/ token
  BY <1>1, <1>2 DEF SeenRunning, Set, runVars, TaskInv, Outcome
<1> QED BY <1>2, <1>9, <1>10, <1>11, <1>12, <1>13, <1>14, <1>15, OneTask DEF TaskInv

(* The DELETE of an execution is over. *)
LEMMA StoppedKeeps == ASSUME IndInv, NEW t \in Tasks, Stopped(t) PROVE IndInv'
<1>1. TypeOK /\ TaskInv(t)
  BY DEF IndInv
<1>2. pc[t] = "stopping" /\ pc' = [pc EXCEPT ![t] = "finished"] /\ tries' = tries /\ att' = att
  BY DEF Stopped, Release
<1>3. Now(t) \in Numbers /\ Now(t)' = Now(t)
  BY <1>1, <1>2, MaxAttemptsAssumption DEF TaskInv, Counted, TypeOK, TaskOK, Numbers, Now,
     InFlight, Holding
<1>4. PICK done \in BOOLEAN, r \in Reach(t) :
         /\ IF done THEN DeleteConfirmed(t, r) ELSE DeleteUnconfirmed(t, r)
         /\ remote' = [remote EXCEPT ![t][Now(t)] = r]
         /\ Release(t, CASE why[t] = "lost"             -> "lost"
                         [] why[t] # "lost" /\ ~done    -> "unconfirmed"
                         [] why[t] = "token" /\ done    -> "cancelled"
                         [] why[t] = "timeout" /\ done  -> "error")
  BY DEF Stopped
<1>5. why[t] \in {"lost", "token", "timeout"}
  BY <1>1, <1>2 DEF TypeOK, TaskOK, TaskInv, Reason
<1>6. PICK o \in {"lost", "unconfirmed", "cancelled", "error"} :
         /\ Release(t, o)
         /\ o = "cancelled" => done /\ why[t] = "token"
         /\ o = "error" => done
  BY <1>4, <1>5
<1>7. r \in Remotes /\ (done => r \in {"ok", "dead"})
  BY <1>1, <1>3, <1>4 DEF Reach, Remote, Remotes, DeleteConfirmed, DeleteUnconfirmed, OnWorker,
     TypeOK, AttemptOK
<1>8. /\ remote' \in [Tasks -> [Numbers -> Remotes]]
      /\ \A u \in Tasks \ {t} : remote'[u] = remote[u]
      /\ \A m \in Numbers \ {Now(t)} : remote'[t][m] = remote[t][m]
      /\ remote'[t][Now(t)] = r
  BY <1>1, <1>3, <1>4, <1>7, RemoteOne DEF TypeOK
<1>9. TaskOK' /\ out' = [out EXCEPT ![t] = o]
  BY <1>1, <1>2, <1>6 DEF Release, TypeOK, TaskOK, InFlight, Holding
<1>10. TypeOK' /\ UNCHANGED <<run, cur, batch, first, token, stage, task, why>>
  BY <1>1, <1>2, <1>6, <1>8, <1>9 DEF Release, runVars, TypeOK, RunOK, AttemptOK, Remotes
<1>11. \A u \in Tasks \ {t} : Same(u)
  BY <1>1, <1>2, <1>8, <1>9, <1>10 DEF Same, TypeOK, TaskOK
<1>12. Unmade(t)' /\ Linger(t)'
  <2>1. \A n \in Numbers : n # tries[t] => remote'[t][n] = remote[t][n]
    BY <1>8 DEF Now
  <2>2. Unmade(t)'
    BY <2>1, <1>1, <1>2, <1>3, MaxAttemptsAssumption DEF TaskInv, Unmade, Numbers, TypeOK, TaskOK
  <2>3. Linger(t)'
    BY <2>1, <1>1, <1>2, <1>3, MaxAttemptsAssumption DEF TaskInv, Linger, Numbers, TypeOK, TaskOK
  <2> QED BY <2>2, <2>3
<1>13. Outcome(t)'
  BY <1>1, <1>2, <1>3, <1>6, <1>7, <1>8, <1>9, <1>10
  DEF TaskInv, Outcome, Reason, OnWorker, Remote, Now, TypeOK, TaskOK
<1>14. Counted(t)' /\ Unsent(t)' /\ Reason(t)' /\ Won(t)'
  BY <1>1, <1>2, <1>3, <1>10 DEF TaskInv, Counted, Unsent, Reason, Won, TypeOK, TaskOK, InFlight,
     Holding, Now
<1> QED BY <1>2, <1>10, <1>11, <1>12, <1>13, <1>14, OneTask DEF TaskInv

(* An attempt is given up: LOST, or failed and over on its Worker. *)
LEMMA DiscardedKeeps ==
  ASSUME IndInv, NEW t \in Tasks, NEW r \in Remotes, pc[t] = "clean", Discarded(t, r),
         out[t] = "error" => r \in {"ok", "dead"}
  PROVE  IndInv'
<1>1. TypeOK /\ TaskInv(t)
  BY DEF IndInv
<1>2. PICK p \in {"backoff", "done"} :
        pc' = [pc EXCEPT ![t] = p] /\ (p = "backoff" => tries[t] < MaxAttempts /\ task' = task)
  BY DEF Discarded, Finish
<1>3. Now(t) \in Numbers /\ Now(t)' = Now(t) /\ tries' = tries
  BY <1>1, MaxAttemptsAssumption DEF Discarded, TaskInv, Counted, TypeOK, TaskOK, Numbers, Now,
     InFlight, Holding
<1>4. PICK s \in AttStates :
        att' = [att EXCEPT ![t][Now(t)].state = s] /\ s # "SUCCEEDED" /\ (why[t] = "lost" => s = "LOST")
  BY DEF Discarded, Set, AttStates
<1>5. /\ att' \in [Tasks -> [Numbers -> [state : AttStates, worker : Workers \cup {None}]]]
      /\ \A u \in Tasks \ {t} : att'[u] = att[u]
      /\ \A m \in Numbers \ {Now(t)} : att'[t][m] = att[t][m]
      /\ att'[t][Now(t)].state = s
  BY <1>1, <1>3, <1>4, SetOne DEF TypeOK
<1>6. remote' = [remote EXCEPT ![t][Now(t)] = r]
  BY DEF Discarded
<1>7. /\ remote' \in [Tasks -> [Numbers -> Remotes]]
      /\ \A u \in Tasks \ {t} : remote'[u] = remote[u]
      /\ \A m \in Numbers \ {Now(t)} : remote'[t][m] = remote[t][m]
      /\ remote'[t][Now(t)] = r
  BY <1>1, <1>3, <1>6, RemoteOne DEF TypeOK
<1>8. /\ UNCHANGED <<run, cur, batch, token, stage, healthy>>
      /\ first' \in {"none", "cancelled", "failed", "unconfirmed"}
      /\ first' = "cancelled" => first = "cancelled"
      /\ task' = task \/ task' = [task EXCEPT ![t] = "FAILED"]
      /\ why' = [why EXCEPT ![t] = "none"] /\ out' = [out EXCEPT ![t] = "none"]
      /\ started' = [started EXCEPT ![t] = FALSE]
  BY <1>1 DEF Discarded, Finish, Forget, TypeOK, RunOK
<1>9. TaskOK'
  BY <1>1, <1>2, <1>3, <1>8 DEF TypeOK, TaskOK, Quit
<1>10. TypeOK'
  BY <1>1, <1>5, <1>7, <1>8, <1>9 DEF TypeOK, RunOK, AttemptOK, AttStates, Remotes
<1>11. \A u \in Tasks \ {t} : Same(u)
  BY <1>1, <1>2, <1>3, <1>5, <1>7, <1>8 DEF Same, TypeOK, TaskOK
<1>12. Unmade(t)'
  <2>1. \A n \in Numbers : n # tries[t] => remote'[t][n] = remote[t][n] /\ att'[t][n] = att[t][n]
    BY <1>5, <1>7 DEF Now
  <2> QED BY <2>1, <1>1, <1>3, MaxAttemptsAssumption DEF TaskInv, Unmade, Numbers, TypeOK, TaskOK
<1>13. Linger(t)'
  <2> SUFFICES ASSUME NEW n \in Numbers, remote'[t][n] \in OnWorker PROVE att'[t][n].state = "LOST"
    BY DEF Linger
  <2>1. CASE n = Now(t)
    BY <2>1, <1>1, <1>4, <1>5, <1>7 DEF TaskInv, Reason, OnWorker
  <2>2. CASE n # Now(t)
    <3>1. n < tries[t]
      BY <2>2, <1>1, <1>7, Earlier DEF Now, OnWorker, TaskInv
    <3> QED BY <2>2, <3>1, <1>1, <1>5, <1>7 DEF TaskInv, Linger
  <2> QED BY <2>1, <2>2
<1>14. Counted(t)' /\ Unsent(t)' /\ Outcome(t)' /\ Reason(t)'
  BY <1>1, <1>2, <1>3, <1>8 DEF Counted, Unsent, Outcome, Reason, TypeOK, TaskOK, InFlight, Holding
<1>15. Won(t)'
  BY <1>1, <1>3, <1>4, <1>5, <1>8 DEF TaskInv, Won, TypeOK, TaskOK
<1> QED BY <1>8, <1>10, <1>11, <1>12, <1>13, <1>14, <1>15, OneTask DEF TaskInv

LEMMA DiscardKeeps == ASSUME IndInv, NEW t \in Tasks, Discard(t) \/ DiscardFails(t) PROVE IndInv'
<1>1. TypeOK /\ TaskInv(t) /\ pc[t] = "clean"
  BY DEF IndInv, Discard, DiscardFails
<1>2. Now(t) \in Numbers
  BY <1>1, MaxAttemptsAssumption DEF TaskInv, Counted, TypeOK, TaskOK, Numbers, Now
<1>3. Remote(t) \in Remotes /\ (out[t] = "error" => Remote(t) \in {"ok", "dead"})
  BY <1>1, <1>2 DEF TypeOK, AttemptOK, Remotes, Remote, TaskInv, Outcome
<1>4. PICK r \in Remotes : Discarded(t, r) /\ (out[t] = "error" => r \in {"ok", "dead"})
  BY <1>3 DEF Discard, DiscardFails, DeleteConfirmed, DeleteUnconfirmed, Remotes, OnWorker, Recorded
<1> QED BY <1>1, <1>4, DiscardedKeeps

----------------------------------------------------------------------------
(* New attempts, and what happens on the Workers. *)

(* A new attempt is made. *)
LEMMA ChooseKeeps == ASSUME IndInv, NEW t \in Tasks, Choose(t) PROVE IndInv'
<1>1. TypeOK /\ TaskInv(t)
  BY DEF IndInv
<1>2. pc[t] = "choose" /\ pc' = [pc EXCEPT ![t] = "queued"] /\ tries' = [tries EXCEPT ![t] = @ + 1]
  BY DEF Choose
<1>3. tries[t] \in Nat /\ tries[t] + 1 \in Numbers /\ tries'[t] = tries[t] + 1
  BY <1>1, <1>2, MaxAttemptsAssumption DEF TaskInv, Counted, TypeOK, TaskOK, Numbers
<1>4. PICK w \in Workers : att' = [att EXCEPT ![t][tries[t] + 1] = [state |-> "CREATED", worker |-> w]]
  BY DEF Choose, Candidates, Healthy
<1>5. /\ att' \in [Tasks -> [Numbers -> [state : AttStates, worker : Workers \cup {None}]]]
      /\ \A u \in Tasks \ {t} : att'[u] = att[u]
      /\ \A n \in Numbers \ {tries[t] + 1} : att'[t][n] = att[t][n]
      /\ att'[t][tries[t] + 1].state = "CREATED"
  <2> DEFINE a == [state |-> "CREATED", worker |-> w]
             Att == [state : AttStates, worker : Workers \cup {None}]
  <2>1. a \in Att /\ a.state = "CREATED"
    BY DEF AttStates
  <2>2. att \in [Tasks -> [Numbers -> Att]]
    BY <1>1 DEF TypeOK, AttemptOK, AttStates
  <2>3. att' = [att EXCEPT ![t] = [att[t] EXCEPT ![tries[t] + 1] = a]]
    BY <1>4, <2>2
  <2> HIDE DEF a, Att
  <2>4. att' \in [Tasks -> [Numbers -> Att]]
    BY <1>3, <2>1, <2>2, <2>3
  <2> QED BY <1>3, <2>1, <2>2, <2>3, <2>4 DEF Att
<1>6. /\ UNCHANGED <<run, cur, batch, first, token, stage, started, why, out, remote, healthy>>
      /\ task' = [task EXCEPT ![t] = "RUNNING"]
  BY DEF Choose, runVars
<1>7. TaskOK'
  BY <1>1, <1>2, <1>3, <1>6 DEF TypeOK, TaskOK, InFlight, Numbers
<1>8. TypeOK'
  BY <1>1, <1>5, <1>6, <1>7 DEF TypeOK, RunOK, AttemptOK, AttStates
<1>9. \A u \in Tasks \ {t} : Same(u)
  BY <1>1, <1>2, <1>5, <1>6 DEF Same, TypeOK, TaskOK
<1>10. \A n \in Numbers : n > tries[t] + 1 => att'[t][n] = att[t][n] /\ n > tries[t]
  BY <1>3, <1>5, MaxAttemptsAssumption DEF Numbers
<1>11. Unmade(t)'
  BY <1>1, <1>3, <1>6, <1>10 DEF TaskInv, Unmade
<1>12. Linger(t)'
  <2> SUFFICES ASSUME NEW n \in Numbers, n < tries[t] + 1, remote[t][n] \in OnWorker
               PROVE  att'[t][n].state = "LOST"
    BY <1>1, <1>2, <1>3, <1>6 DEF Linger, TypeOK, TaskOK
  <2>1. n # tries[t] + 1
    BY <1>3, MaxAttemptsAssumption DEF Numbers
  <2> QED BY <2>1, <1>1, <1>2, <1>5 DEF TaskInv, Linger
<1>13. Counted(t)' /\ Outcome(t)' /\ Reason(t)'
  BY <1>1, <1>2, <1>3, <1>6 DEF TaskInv, Counted, Outcome, Reason, TypeOK, TaskOK, InFlight, Holding
<1>14. Unsent(t)'
  BY <1>1, <1>3, <1>6 DEF TaskInv, Unsent, Unmade, Remote, Now
<1>15. Won(t)'
  BY <1>1, <1>2, <1>5, <1>6 DEF TaskInv, Won, TypeOK, TaskOK
<1> QED BY <1>2, <1>6, <1>8, <1>9, <1>11, <1>12, <1>13, <1>14, <1>15, OneTask DEF TaskInv

(* No Worker is left for the task. *)
LEMMA NoWorkerKeeps == ASSUME IndInv, NEW t \in Tasks, NoWorker(t) PROVE IndInv'
<1>1. TypeOK /\ TaskInv(t) /\ 1 \in Numbers
  BY MaxAttemptsAssumption DEF IndInv, Numbers
<1>2. pc[t] = "choose" /\ pc' = [pc EXCEPT ![t] = "done"]
  BY DEF NoWorker, Finish
<1>3. /\ UNCHANGED <<run, cur, batch, token, stage, started, why, out, remote, healthy>>
      /\ task' = [task EXCEPT ![t] = "FAILED"]
      /\ first' \in {"none", "cancelled", "failed", "unconfirmed"}
      /\ first' = "cancelled" => first = "cancelled"
  BY <1>1 DEF NoWorker, Finish, TypeOK, RunOK
<1>4. /\ att' \in [Tasks -> [Numbers -> [state : AttStates, worker : Workers \cup {None}]]]
      /\ \A u \in Tasks \ {t} : att'[u] = att[u]
      /\ \A n \in Numbers : remote[t][n] # "none" => att'[t][n] = att[t][n]
      /\ \A n \in Numbers : att'[t][n].state = "SUCCEEDED" => att[t][n].state = "SUCCEEDED"
      /\ \A n \in Numbers : n > tries'[t] => att'[t][n] = att[t][n] /\ n > tries[t]
  <2>1. CASE tries[t] = 0
    <3>1. att' = [att EXCEPT ![t][1].state = "FAILED"] /\ tries' = [tries EXCEPT ![t] = 1]
      BY <2>1 DEF NoWorker
    <3>2. /\ att' \in [Tasks -> [Numbers -> [state : AttStates, worker : Workers \cup {None}]]]
          /\ \A u \in Tasks \ {t} : att'[u] = att[u]
          /\ \A n \in Numbers \ {1} : att'[t][n] = att[t][n]
          /\ att'[t][1].state = "FAILED"
      BY <1>1, <3>1, SetOne DEF TypeOK, AttStates
    <3>3. remote[t][1] = "none"
      BY <1>1, <2>1 DEF TaskInv, Unmade
    <3>4. tries'[t] = 1
      BY <1>1, <3>1 DEF TypeOK, TaskOK
    <3>5. \A n \in Numbers : n > 1 => n # 1 /\ n > 0
      BY MaxAttemptsAssumption DEF Numbers
    <3> QED BY <2>1, <3>2, <3>3, <3>4, <3>5
  <2>2. CASE tries[t] # 0
    BY <2>2, <1>1 DEF NoWorker, TypeOK, AttemptOK, AttStates
  <2> QED BY <2>1, <2>2
<1>5. tries' \in [Tasks -> 0 .. MaxAttempts] /\ \A u \in Tasks \ {t} : tries'[u] = tries[u]
  BY <1>1, MaxAttemptsAssumption DEF NoWorker, TypeOK, TaskOK
<1>6. TaskOK'
  BY <1>1, <1>2, <1>3, <1>5 DEF TypeOK, TaskOK, Quit
<1>7. TypeOK'
  BY <1>1, <1>3, <1>4, <1>6 DEF TypeOK, RunOK, AttemptOK, AttStates
<1>8. \A u \in Tasks \ {t} : Same(u)
  BY <1>1, <1>2, <1>3, <1>4, <1>5 DEF Same, TypeOK, TaskOK
<1>9. Unmade(t)'
  BY <1>1, <1>3, <1>4 DEF TaskInv, Unmade
<1>10. Linger(t)'
  BY <1>1, <1>2, <1>3, <1>4 DEF TaskInv, Linger, OnWorker
<1>11. Counted(t)' /\ Unsent(t)' /\ Outcome(t)' /\ Reason(t)'
  BY <1>1, <1>2, <1>3 DEF TaskInv, Counted, Unsent, Outcome, Reason, TypeOK, TaskOK, InFlight, Holding
<1>12. Won(t)'
  BY <1>1, <1>2, <1>3, <1>4 DEF TaskInv, Won, TypeOK, TaskOK
<1> QED BY <1>2, <1>3, <1>7, <1>8, <1>9, <1>10, <1>11, <1>12, OneTask DEF TaskInv

(* What happens to attempts on the Workers, or to leases, concerns the run  *)
(* only through what is left running.                                       *)
LEMMA WorkerKeeps ==
  ASSUME IndInv, UNCHANGED <<runVars, taskVars>>, healthy' \in [Workers -> BOOLEAN],
         remote' \in [Tasks -> [Numbers -> Remotes]],
         \A t \in Tasks, n \in Numbers :
           /\ remote[t][n] \notin OnWorker => remote'[t][n] = remote[t][n]
  PROVE  IndInv'
<1>1. TypeOK'
  BY DEF IndInv, TypeOK, runVars, taskVars, RunOK, TaskOK, AttemptOK, Remotes
<1>2. RunInv'
  BY DEF IndInv, RunInv, runVars, taskVars, Loop, Asked, Back, InStep
<1>3. ASSUME NEW t \in Tasks PROVE TaskInv(t)'
  <2>1. TaskInv(t) /\ TypeOK
    BY DEF IndInv
  <2>2. /\ task'[t] = task[t] /\ pc'[t] = pc[t] /\ tries'[t] = tries[t] /\ why'[t] = why[t]
        /\ out'[t] = out[t] /\ att'[t] = att[t] /\ token' = token
    BY DEF taskVars, runVars
  <2>3. Unmade(t)' /\ Counted(t)' /\ Linger(t)' /\ Reason(t)'
    BY <2>1, <2>2 DEF TaskInv, Unmade, Counted, Linger, Reason, OnWorker
  <2>4. pc[t] \in InFlight \cup {"finished", "clean"} \/ task[t] = "SUCCEEDED" => Now(t) \in Numbers
    BY <2>1, MaxAttemptsAssumption DEF TaskInv, Counted, Won, TypeOK, TaskOK, Numbers, Now
  <2>5. Unsent(t)' /\ Outcome(t)'
    BY <2>1, <2>2, <2>4 DEF TaskInv, Unsent, Outcome, OnWorker, Remote, Now, InFlight, Holding
  <2>6. Won(t)'
    BY <2>1, <2>2, <2>4 DEF TaskInv, Won, OnWorker, Remote, Now
  <2> QED BY <2>3, <2>5, <2>6 DEF TaskInv
<1> QED BY <1>1, <1>2, <1>3 DEF IndInv

LEMMA RemoteStepKeeps ==
  ASSUME IndInv, NEW t \in Tasks, NEW n \in Numbers, RemoteStep(t, n) PROVE IndInv'
<1>1. PICK r \in Remotes : remote' = [remote EXCEPT ![t][n] = r]
  BY DEF RemoteStep, Remotes, OnWorker
<1>2. TypeOK /\ remote[t][n] \in OnWorker
  BY DEF IndInv, RemoteStep, OnWorker
<1>3. /\ remote' \in [Tasks -> [Numbers -> Remotes]]
      /\ \A u \in Tasks \ {t} : remote'[u] = remote[u]
      /\ \A m \in Numbers \ {n} : remote'[t][m] = remote[t][m]
  BY <1>1, <1>2, RemoteOne DEF TypeOK
<1>4. \A u \in Tasks, m \in Numbers : remote[u][m] \notin OnWorker => remote'[u][m] = remote[u][m]
  BY <1>2, <1>3
<1>5. UNCHANGED <<runVars, taskVars>> /\ healthy' \in [Workers -> BOOLEAN]
  BY <1>2 DEF RemoteStep, TypeOK
<1> QED BY <1>3, <1>4, <1>5, WorkerKeeps

LEMMA CrashKeeps == ASSUME IndInv, NEW w \in Workers, Crash(w) PROVE IndInv'
<1>1. TypeOK
  BY DEF IndInv
<1>2. remote' \in [Tasks -> [Numbers -> Remotes]]
  BY <1>1 DEF Crash, TypeOK, AttemptOK, Remotes
<1>3. \A u \in Tasks, m \in Numbers : remote[u][m] \notin OnWorker => remote'[u][m] = remote[u][m]
  BY DEF Crash
<1>4. UNCHANGED <<runVars, taskVars>> /\ healthy' \in [Workers -> BOOLEAN]
  BY <1>1 DEF Crash, TypeOK
<1> QED BY <1>2, <1>3, <1>4, WorkerKeeps

LEMMA LeaseKeeps ==
  ASSUME IndInv, NEW w \in Workers, LoseLease(w) \/ RegainLease(w) PROVE IndInv'
<1>1. remote' \in [Tasks -> [Numbers -> Remotes]] /\ healthy' \in [Workers -> BOOLEAN]
  BY DEF IndInv, TypeOK, AttemptOK, Remotes, LoseLease, RegainLease
<1> QED BY <1>1, WorkerKeeps DEF LoseLease, RegainLease

----------------------------------------------------------------------------
(* The loop of run. *)

(* Steps of run leave the coroutines of the tasks alone, but for the tasks  *)
(* of a stage that is started.                                              *)
LEMMA RunKeepsTasks ==
  ASSUME IndInv, UNCHANGED <<pc, tries, started, why, out, att, remote, healthy>>, RunOK',
         task' \in [Tasks -> {"PENDING", "RUNNING", "SUCCEEDED", "FAILED", "CANCELED"}],
         \A t \in Tasks : task[t] = "SUCCEEDED" <=> task'[t] = "SUCCEEDED",
         token => token'
  PROVE  TypeOK' /\ \A t \in Tasks : TaskInv(t)'
<1>1. TypeOK'
  BY DEF IndInv, TypeOK, TaskOK, AttemptOK
<1>2. ASSUME NEW t \in Tasks PROVE TaskInv(t)'
  <2>1. TaskInv(t)
    BY DEF IndInv
  <2>2. Unmade(t)' /\ Counted(t)' /\ Linger(t)' /\ Unsent(t)' /\ Outcome(t)' /\ Reason(t)'
    BY <2>1 DEF TaskInv, Unmade, Counted, Linger, Unsent, Outcome, Reason, Remote, Now
  <2>3. Won(t)'
    BY <2>1 DEF TaskInv, Won, Remote, Now
  <2> QED BY <2>2, <2>3 DEF TaskInv
<1> QED BY <1>1, <1>2

LEMMA FormBatchKeeps == ASSUME IndInv, FormBatch PROVE IndInv'
<1>1. TypeOK' /\ \A t \in Tasks : TaskInv(t)'
  <2>1. RunOK' /\ task' \in [Tasks -> {"PENDING", "RUNNING", "SUCCEEDED", "FAILED", "CANCELED"}]
    BY DEF FormBatch, taskVars, IndInv, TypeOK, RunOK, TaskOK
  <2> QED BY <2>1, RunKeepsTasks DEF FormBatch, taskVars
<1>2. Loop'
  BY DEF FormBatch, IndInv, RunInv, Loop, TypeOK, RunOK
<1>3. Asked' /\ Back' /\ \A t \in Tasks : InStep(t)'
  BY DEF FormBatch, taskVars, IndInv, RunInv, Asked, Back, InStep
<1> QED BY <1>1, <1>2, <1>3 DEF IndInv, RunInv

LEMMA RunDoneKeeps == ASSUME IndInv, RunDone PROVE IndInv'
<1>1. TypeOK' /\ \A t \in Tasks : TaskInv(t)'
  <2>1. RunOK' /\ task' \in [Tasks -> {"PENDING", "RUNNING", "SUCCEEDED", "FAILED", "CANCELED"}]
    BY DEF RunDone, taskVars, IndInv, TypeOK, RunOK, TaskOK, Ended
  <2> QED BY <2>1, RunKeepsTasks DEF RunDone, taskVars
<1>2. Loop' /\ Asked' /\ \A t \in Tasks : InStep(t)'
  BY DEF RunDone, taskVars, IndInv, RunInv, Loop, Asked, InStep, Ended
<1>3. Back'
  BY StagesAssumption DEF RunDone, taskVars, IndInv, RunInv, InStep, Back
<1> QED BY <1>1, <1>2, <1>3 DEF IndInv, RunInv

LEMMA CancelKeeps == ASSUME IndInv, Cancel PROVE IndInv'
<1>1. TypeOK' /\ \A t \in Tasks : TaskInv(t)'
  <2>1. RunOK' /\ task' \in [Tasks -> {"PENDING", "RUNNING", "SUCCEEDED", "FAILED", "CANCELED"}]
    BY DEF Cancel, taskVars, IndInv, TypeOK, RunOK, TaskOK
  <2> QED BY <2>1, RunKeepsTasks DEF Cancel, taskVars
<1>2. RunInv'
  BY DEF Cancel, taskVars, IndInv, RunInv, Loop, Asked, Back, InStep
<1> QED BY <1>1, <1>2 DEF IndInv

(* The token stops the run before a stage. *)
LEMMA StopBeforeStageKeeps == ASSUME IndInv, StartStage, token PROVE IndInv'
<1>1. /\ run = "loop" /\ run' = "returned"
      /\ stage' = [s \in Stages |-> IF stage[s] = "PENDING" THEN "CANCELED" ELSE stage[s]]
      /\ task'  = [t \in Tasks |-> IF task[t] = "PENDING" THEN "CANCELED" ELSE task[t]]
      /\ UNCHANGED <<cur, batch, first, token, pc, tries, started, why, out, att, remote, healthy>>
  BY DEF StartStage, Abandon
<1>2. TypeOK' /\ \A t \in Tasks : TaskInv(t)'
  <2>1. RunOK' /\ task' \in [Tasks -> {"PENDING", "RUNNING", "SUCCEEDED", "FAILED", "CANCELED"}]
    BY <1>1 DEF IndInv, TypeOK, RunOK, TaskOK, Ended
  <2> QED BY <1>1, <2>1, RunKeepsTasks
<1>3. Loop' /\ Asked'
  BY <1>1 DEF Loop, Asked, Ended
<1>4. \A s \in Stages : stage[s] \in {"PENDING", "SUCCEEDED"}
  BY <1>1 DEF IndInv, RunInv, Loop
<1>5. Back'
  BY <1>1, <1>4, StagesAssumption DEF IndInv, RunInv, InStep, Back
<1>6. \A t \in Tasks : InStep(t)'
  BY <1>1, StagesAssumption DEF IndInv, RunInv, InStep
<1> QED BY <1>2, <1>3, <1>5, <1>6 DEF IndInv, RunInv

(* A stage is started. *)
LEMMA StartStageKeeps == ASSUME IndInv, StartStage, ~token PROVE IndInv'
<1>1. PICK s \in batch :
        /\ run = "loop" /\ run' = "gather" /\ cur' = s /\ batch' = batch \ {s} /\ first' = "none"
        /\ stage' = [stage EXCEPT ![s] = "RUNNING"]
        /\ pc'    = [t \in Tasks |-> IF StageOf[t] = s THEN "choose" ELSE pc[t]]
        /\ UNCHANGED <<token, task, tries, started, why, out, att, remote, healthy>>
  BY DEF StartStage
<1>2. TypeOK /\ s \in Stages
  BY <1>1 DEF IndInv, TypeOK, RunOK
<1>3. /\ \A x \in Stages : stage[x] \in {"PENDING", "SUCCEEDED"}
      /\ \A x \in batch : stage[x] = "PENDING" /\ \A d \in Deps[x] : stage[d] = "SUCCEEDED"
  BY <1>1 DEF IndInv, RunInv, Loop, Ended
<1>4. \A t \in Tasks : StageOf[t] = s => pc[t] = "idle" /\ task[t] = "PENDING"
  BY <1>1, <1>3 DEF IndInv, RunInv, InStep
<1>5. TypeOK'
  BY <1>1, <1>2 DEF TypeOK, RunOK, TaskOK, AttemptOK
<1>6. \A d \in Stages : stage[d] = "SUCCEEDED" => stage'[d] = "SUCCEEDED"
  BY <1>1, <1>2, <1>3 DEF TypeOK, RunOK
<1>7. Loop'
  BY <1>1, <1>2, <1>3, <1>6, StagesAssumption DEF Loop, TypeOK, RunOK
<1>8. Asked' /\ Back'
  BY <1>1 DEF Asked, Back
<1>9. ASSUME NEW t \in Tasks PROVE InStep(t)'
  <2>1. StageOf[t] \in Stages /\ Deps[StageOf[t]] \subseteq Stages
    BY StagesAssumption
  <2>2. CASE StageOf[t] = s
    BY <2>1, <2>2, <1>1, <1>2, <1>3, <1>6 DEF InStep, TypeOK, RunOK
  <2>3. CASE StageOf[t] # s
    BY <2>1, <2>3, <1>1, <1>2, <1>6 DEF InStep, IndInv, RunInv, TypeOK, RunOK
  <2> QED BY <2>2, <2>3
<1>10. ASSUME NEW t \in Tasks PROVE TaskInv(t)'
  <2>1. TaskInv(t)
    BY DEF IndInv
  <2>2. CASE StageOf[t] # s
    BY <2>1, <2>2, <1>1, FrameKeeps DEF Same
  <2>3. CASE StageOf[t] = s
    <3>1. pc[t] = "idle" /\ pc'[t] = "choose" /\ tries[t] = 0 /\ task[t] = "PENDING" /\ out[t] = "none"
      BY <2>1, <2>3, <1>1, <1>4, <1>2 DEF TaskInv, Counted, Outcome, TypeOK, TaskOK
    <3>2. \A n \in Numbers : n > tries[t]
      BY <3>1, MaxAttemptsAssumption DEF Numbers
    <3>3. Unmade(t)' /\ Linger(t)'
      BY <2>1, <3>1, <3>2, <1>1 DEF TaskInv, Unmade, Linger, OnWorker
    <3>4. Counted(t)' /\ Unsent(t)' /\ Outcome(t)' /\ Reason(t)' /\ Won(t)'
      BY <2>1, <3>1, <1>1, MaxAttemptsAssumption
      DEF TaskInv, Counted, Unsent, Outcome, Reason, Won, InFlight, Holding
    <3> QED BY <3>3, <3>4 DEF TaskInv
  <2> QED BY <2>2, <2>3
<1> QED BY <1>5, <1>7, <1>8, <1>9, <1>10 DEF IndInv, RunInv

LEMMA StageDoneKeeps == ASSUME IndInv, StageDone PROVE IndInv'
<1>1. /\ run = "gather" /\ run' = "loop" /\ stage' = [stage EXCEPT ![cur] = "SUCCEEDED"]
      /\ UNCHANGED <<cur, batch, first, token, taskVars, remote, healthy>>
      /\ \A t \in Tasks : StageOf[t] = cur => pc[t] = "done" /\ task[t] = "SUCCEEDED"
  BY DEF StageDone, InStage
<1>2. TypeOK /\ cur \in Stages /\ stage[cur] = "RUNNING"
  BY <1>1 DEF IndInv, RunInv, Loop
<1>3. TypeOK' /\ \A t \in Tasks : TaskInv(t)'
  <2>1. RunOK' /\ task' \in [Tasks -> {"PENDING", "RUNNING", "SUCCEEDED", "FAILED", "CANCELED"}]
    BY <1>1, <1>2 DEF taskVars, TypeOK, RunOK, TaskOK
  <2> QED BY <1>1, <2>1, RunKeepsTasks DEF taskVars
<1>4. Loop'
  BY <1>1, <1>2, StagesAssumption DEF IndInv, RunInv, Loop, TypeOK, RunOK, Ended
<1>5. Asked' /\ Back'
  BY <1>1 DEF IndInv, RunInv, Asked, Back
<1>6. ASSUME NEW t \in Tasks PROVE InStep(t)'
  BY <1>1, <1>2, StagesAssumption DEF taskVars, InStep, IndInv, RunInv, TypeOK, RunOK
<1> QED BY <1>3, <1>4, <1>5, <1>6 DEF IndInv, RunInv

LEMMA GatherRaisesKeeps == ASSUME IndInv, GatherRaises PROVE IndInv'
<1>1. /\ run = "gather" /\ first # "none"
      /\ UNCHANGED <<cur, batch, first, token, taskVars, remote, healthy>>
      /\ \/ first = "cancelled" /\ run' = "settle" /\ stage' = stage
         \/ first # "cancelled" /\ run' = first /\ stage' = [stage EXCEPT ![cur] = "FAILED"]
  BY DEF GatherRaises
<1>2. TypeOK /\ cur \in Stages /\ stage[cur] = "RUNNING"
  BY <1>1 DEF IndInv, RunInv, Loop
<1>3. run' \in {"settle", "failed", "unconfirmed"}
  BY <1>1, <1>2 DEF TypeOK, RunOK
<1>4. TypeOK' /\ \A t \in Tasks : TaskInv(t)'
  <2>1. RunOK' /\ task' \in [Tasks -> {"PENDING", "RUNNING", "SUCCEEDED", "FAILED", "CANCELED"}]
    BY <1>1, <1>2, <1>3 DEF taskVars, TypeOK, RunOK, TaskOK, Ended
  <2> QED BY <1>1, <2>1, RunKeepsTasks DEF taskVars
<1>5. Loop' /\ Asked' /\ Back'
  BY <1>1, <1>2, <1>3 DEF IndInv, RunInv, Loop, Asked, Back, Ended, TypeOK, RunOK
<1>6. ASSUME NEW t \in Tasks PROVE InStep(t)'
  <2>1. StageOf[t] \in Stages /\ Deps[StageOf[t]] \subseteq Stages /\ InStep(t)
    BY StagesAssumption DEF IndInv, RunInv
  <2>2. \A s \in Stages : /\ stage'[s] = "PENDING" => stage[s] = "PENDING"
                          /\ stage'[s] = "SUCCEEDED" <=> stage[s] = "SUCCEEDED"
    BY <1>1, <1>2 DEF TypeOK, RunOK
  <2> QED BY <2>1, <2>2, <1>1 DEF taskVars, InStep
<1> QED BY <1>4, <1>5, <1>6 DEF IndInv, RunInv

LEMMA SettleKeeps == ASSUME IndInv, Settle PROVE IndInv'
<1> DEFINE stg == [stage EXCEPT ![cur] = "CANCELED"]
           tsk == [t \in Tasks |-> IF StageOf[t] = cur /\ task[t] \in {"PENDING", "RUNNING"}
                                   THEN "CANCELED" ELSE task[t]]
<1>1. /\ run = "settle"
      /\ \A t \in Tasks : StageOf[t] = cur => pc[t] \in Quit
      /\ UNCHANGED <<cur, batch, first, token, pc, tries, started, why, out, att, remote, healthy>>
      /\ \/ run' = "unconfirmed" /\ stage' = stg /\ task' = tsk
         \/ /\ \A t \in Tasks : StageOf[t] = cur => pc[t] # "aborted"
            /\ Abandon(stg, tsk)
  BY DEF Settle, InStage
<1>2. TypeOK /\ cur \in Stages /\ stage[cur] = "RUNNING"
      /\ \A s \in Stages \ {cur} : stage[s] \in {"PENDING", "SUCCEEDED"}
  BY <1>1 DEF IndInv, RunInv, Loop
<1>3. run' \in {"unconfirmed", "returned"}
  BY <1>1 DEF Abandon
<1>4. \A s \in Stages : /\ stage[s] = "SUCCEEDED" <=> stage'[s] = "SUCCEEDED"
                        /\ stage'[s] = "PENDING" => stage[s] = "PENDING" /\ run' = "unconfirmed"
  BY <1>1, <1>2 DEF Abandon, TypeOK, RunOK
<1>5. \A t \in Tasks : /\ task[t] = "SUCCEEDED" <=> task'[t] = "SUCCEEDED"
                       /\ task[t] = "PENDING" /\ StageOf[t] # cur /\ run' = "unconfirmed" =>
                            task'[t] = "PENDING"
  BY <1>1 DEF Abandon
<1>6. TypeOK' /\ \A t \in Tasks : TaskInv(t)'
  <2>1. stage' \in [Stages -> {"PENDING", "RUNNING", "SUCCEEDED", "FAILED", "CANCELED"}]
    BY <1>1, <1>2 DEF Abandon, TypeOK, RunOK
  <2>2. RunOK'
    BY <1>1, <1>2, <1>3, <2>1 DEF TypeOK, RunOK, Ended
  <2>3. task' \in [Tasks -> {"PENDING", "RUNNING", "SUCCEEDED", "FAILED", "CANCELED"}]
    BY <1>1, <1>2 DEF Abandon, TypeOK, TaskOK
  <2> QED BY <1>1, <1>5, <2>2, <2>3, RunKeepsTasks
<1>7. Loop' /\ Asked'
  BY <1>1, <1>3 DEF IndInv, RunInv, Loop, Asked, Ended
<1>8. Back'
  <2> SUFFICES ASSUME run' = "returned" PROVE Back'
    BY DEF Back
  <2>1. Abandon(stg, tsk) /\ \A t \in Tasks : StageOf[t] = cur => pc[t] = "done"
    BY <1>1 DEF Quit
  <2>2. \A s \in Stages : stage'[s] \in {"SUCCEEDED", "CANCELED"}
    BY <2>1, <1>2 DEF Abandon, TypeOK, RunOK
  <2>3. ASSUME NEW t \in Tasks PROVE task'[t] \notin {"PENDING", "RUNNING"} /\ pc'[t] \in {"idle", "done"}
    <3>1. StageOf[t] = cur \/ (pc[t] = "idle" /\ task[t] = "PENDING")
            \/ (pc[t] = "done" /\ task[t] = "SUCCEEDED")
      BY <1>2, StagesAssumption DEF IndInv, RunInv, InStep
    <3> QED BY <2>1, <3>1, <1>1 DEF Abandon
  <2> QED BY <2>2, <2>3 DEF Back
<1>9. ASSUME NEW t \in Tasks PROVE InStep(t)'
  <2>1. StageOf[t] \in Stages /\ Deps[StageOf[t]] \subseteq Stages
    BY StagesAssumption
  <2>2. stage'[StageOf[t]] = "PENDING" => StageOf[t] # cur
    BY <1>2, <1>4, <2>1
  <2>3. InStep(t)
    BY DEF IndInv, RunInv
  <2> QED BY <2>1, <2>2, <2>3, <1>1, <1>4, <1>5 DEF InStep
<1> QED BY <1>6, <1>7, <1>8, <1>9 DEF IndInv, RunInv

(***************************************************************************)
(* The invariant holds, and what follows from it.                          *)
(***************************************************************************)

LEMMA InitInv == Init => IndInv
<1> SUFFICES ASSUME Init PROVE IndInv
  OBVIOUS
<1>1. TypeOK
  <2>1. RunOK
    BY DEF Init, RunOK
  <2>0. TaskOK
    BY MaxAttemptsAssumption DEF Init, TaskOK
  <2>2. AttemptOK
    BY DEF Init, AttemptOK, NoAtt
  <2> QED BY <2>0, <2>1, <2>2 DEF Init, TypeOK
<1>2. RunInv
  BY StagesAssumption DEF Init, RunInv, Loop, Asked, Back, InStep
<1>3. ASSUME NEW t \in Tasks PROVE TaskInv(t)
  BY MaxAttemptsAssumption DEF Init, TaskInv, Unmade, Counted, Linger, Unsent, Outcome, Reason, Won,
     NoAtt, OnWorker, InFlight, Holding
<1> QED BY <1>1, <1>2, <1>3 DEF IndInv

LEMMA NextInv == IndInv /\ [Next]_vars => IndInv'
<1> SUFFICES ASSUME IndInv, [Next]_vars PROVE IndInv'
  OBVIOUS
<1>1. CASE RunStep
  BY <1>1, FormBatchKeeps, RunDoneKeeps, StopBeforeStageKeeps, StartStageKeeps, StageDoneKeeps,
     GatherRaisesKeeps, SettleKeeps DEF RunStep
<1>2. CASE Cancel
  BY <1>2, CancelKeeps
<1>3. ASSUME NEW t \in Tasks, TaskStep(t) PROVE IndInv'
  BY <1>3, ChooseKeeps, NoWorkerKeeps, SeeTokenKeeps, BackoffKeeps, WinnerKeeps, TooLateKeeps,
     EndCancelledKeeps, EndUnconfirmedKeeps, EndFailedKeeps, DiscardKeeps DEF TaskStep
<1>4. ASSUME NEW t \in Tasks, Execution(t) PROVE IndInv'
  BY <1>4, RefusedKeeps, SendingKeeps, PostedKeeps, PostFailsKeeps, SeenRunningKeeps,
     SeenTerminalKeeps, PollFailsKeeps, SeenTokenKeeps, TimeoutKeeps, StoppedKeeps DEF Execution
<1>5. ASSUME NEW t \in Tasks, LeaseLost(t) PROVE IndInv'
  BY <1>5, QueuedLostKeeps, GiveUpLostKeeps
<1>6. CASE UNCHANGED vars
  <2>1. UNCHANGED <<runVars, taskVars>> /\ remote' = remote /\ healthy' = healthy
    BY <1>6 DEF vars
  <2>2. remote' \in [Tasks -> [Numbers -> Remotes]] /\ healthy' \in [Workers -> BOOLEAN]
    BY <2>1 DEF IndInv, TypeOK, AttemptOK, Remotes
  <2> QED BY <2>1, <2>2, WorkerKeeps
<1> QED BY <1>1, <1>2, <1>3, <1>4, <1>5, <1>6, RemoteStepKeeps, LeaseKeeps, CrashKeeps
        DEF Next, Over

(* The invariant holds through every retry, loss, crash and cancellation of  *)
(* a run (scheduler.py, TaskScheduler.run and _run_task).                     *)
THEOREM Invariance == Spec => []IndInv
<1> QED BY InitInv, NextInv, PTL DEF Spec

(* The bookkeeping of a run keeps its types; in particular no task has more *)
(* than max_attempts attempts (scheduler.py 59-74, 314-431).                *)
THEOREM TypeCorrect == Spec => []TypeOK
<1>1. IndInv => TypeOK
  BY DEF IndInv
<1> QED BY <1>1, Invariance, PTL

(* Whatever is retried, discarded or cancelled late, a stage that succeeded *)
(* has one winner per task, the last attempt, and its output is intact      *)
(* (scheduler.py 233-431).                                                  *)
THEOREM WinnersCorrect == Spec => []OneIntactWinner
<1>1. ASSUME IndInv, NEW t \in Tasks, stage[StageOf[t]] = "SUCCEEDED"
      PROVE  Winners(t) = {tries[t]} /\ remote[t][tries[t]] = "ok"
  <2>1. TaskInv(t) /\ task[t] = "SUCCEEDED" /\ TypeOK
    BY <1>1 DEF IndInv, RunInv, InStep
  <2>2. tries[t] \in Numbers
    BY <2>1, MaxAttemptsAssumption DEF TaskInv, Won, TypeOK, TaskOK, Numbers
  <2> QED BY <2>1, <2>2 DEF TaskInv, Won, Winners, Now, Remote
<1>2. IndInv => OneIntactWinner
  BY <1>1 DEF OneIntactWinner
<1> QED BY <1>2, Invariance, PTL

(* No task has an attempt before the stages its stage reads from have       *)
(* succeeded, for every graph of stages (scheduler.py 248-262).             *)
THEOREM OrderCorrect == Spec => []StageOrder
<1>1. IndInv => StageOrder
  BY DEF IndInv, RunInv, InStep, TaskInv, Counted, StageOrder
<1> QED BY <1>1, Invariance, PTL

(* An attempt that is left behind and may still run was given up as LOST    *)
(* (scheduler.py 433-497).                                                  *)
THEOREM LingerCorrect == Spec => []OnlyLostAttemptsLinger
<1>1. IndInv => OnlyLostAttemptsLinger
  BY DEF IndInv, TaskInv, Linger, OnlyLostAttemptsLinger
<1> QED BY <1>1, Invariance, PTL

(* A run that returns, complete or cancelled, has nothing in progress but   *)
(* attempts given up as LOST (scheduler.py 233-312).                        *)
THEOREM ReturnCorrect == Spec => []ReturnedIsSettled
<1>1. ASSUME IndInv, run = "returned", NEW t \in Tasks, NEW n \in Numbers, remote[t][n] \in OnWorker
      PROVE  att[t][n].state = "LOST"
  <2>1. TypeOK /\ TaskInv(t) /\ pc[t] \in {"idle", "done"}
    BY <1>1 DEF IndInv, RunInv, Back
  <2>2. CASE pc[t] = "done"
    BY <1>1, <2>1, <2>2 DEF TaskInv, Linger
  <2>3. CASE pc[t] = "idle"
    <3>1. n > tries[t]
      BY <2>1, <2>3, MaxAttemptsAssumption DEF TaskInv, Counted, Numbers
    <3> QED BY <1>1, <2>1, <3>1 DEF TaskInv, Unmade, OnWorker
  <2> QED BY <2>1, <2>2, <2>3
<1>2. IndInv => ReturnedIsSettled
  BY <1>1 DEF IndInv, RunInv, Back, ReturnedIsSettled, Quit
<1> QED BY <1>2, Invariance, PTL

(* From the moment the token is set no stage is started and no attempt is   *)
(* sent (scheduler.py 233-431, remote.py 74-124).                           *)
THEOREM CancelCorrect == Spec => NothingSentAfterCancel
<1>1. ASSUME IndInv, Next, token
      PROVE  /\ \A s \in Stages : stage[s] = "PENDING" => stage'[s] # "RUNNING"
             /\ \A t \in Tasks : pc'[t] = "posting" => pc[t] = "posting"
  <2>1. TypeOK
    BY <1>1 DEF IndInv
  <2>2. CASE RunStep \/ Cancel
    <3>1. pc' = pc
      BY <1>1, <2>2 DEF RunStep, Cancel, FormBatch, RunDone, StartStage, StageDone, GatherRaises,
         Settle, taskVars
    <3>2. \A s \in Stages : stage[s] = "PENDING" => stage'[s] # "RUNNING"
      BY <1>1, <2>1, <2>2 DEF RunStep, Cancel, FormBatch, RunDone, StartStage, StageDone,
         GatherRaises, Settle, Abandon, TypeOK, RunOK
    <3> QED BY <3>1, <3>2
  <2>3. ASSUME NEW t \in Tasks, TaskStep(t) \/ Execution(t) \/ LeaseLost(t)
        PROVE  /\ stage' = stage
               /\ \A u \in Tasks : pc'[u] = "posting" => pc[u] = "posting"
    <3>1. CASE TaskStep(t)
      BY <3>1, <1>1, <2>1 DEF TaskStep, Choose, NoWorker, SeeToken, Backoff, Succeed, EndCancelled,
         EndUnconfirmed, EndFailed, Discard, DiscardFails, Discarded, Finish, runVars, TypeOK, TaskOK
    <3>2. CASE Execution(t) \/ LeaseLost(t)
      BY <3>2, <1>1, <2>1 DEF Execution, LeaseLost, Acquire, Posted, PostFails, SeenRunning,
         SeenTerminal, PollFails, SeenToken, Timeout, Stopped, Release, StopFor, runVars, TypeOK, TaskOK
    <3> QED BY <2>3, <3>1, <3>2
  <2>4. ASSUME \/ \E t \in Tasks, n \in Numbers : RemoteStep(t, n)
               \/ \E w \in Workers : LoseLease(w) \/ RegainLease(w) \/ Crash(w)
               \/ Over
        PROVE  stage' = stage /\ pc' = pc
    BY <2>4 DEF RemoteStep, LoseLease, RegainLease, Crash, Over, runVars, taskVars, vars
  <2> QED BY <1>1, <2>2, <2>3, <2>4 DEF Next
<1>2. IndInv /\ [Next]_vars =>
        [token => /\ \A s \in Stages : stage[s] = "PENDING" => stage'[s] # "RUNNING"
                  /\ \A t \in Tasks : pc'[t] = "posting" => pc[t] = "posting"]_vars
  BY <1>1
<1> QED BY <1>2, Invariance, PTL DEF Spec, NothingSentAfterCancel

(* A task's own step after the token is set brings it nearer to its end. *)
LEMMA CountsDown ==
  ASSUME IndInv, token, NEW t \in Tasks, TaskStep(t) \/ Execution(t) \/ LeaseLost(t)
  PROVE  Countdown(t)' < Countdown(t)
<1>0. pc \in [Tasks -> Places] /\ why \in [Tasks -> {"none", "token", "lost", "timeout"}]
  BY DEF IndInv, TypeOK, TaskOK, Places
<1> USE DEF Countdown, Quit
<1>1. CASE SeeToken(t)
  BY <1>0, <1>1 DEF SeeToken, Finish
<1>2. CASE Succeed(t) \/ EndCancelled(t) \/ EndUnconfirmed(t)
  <2>1. pc[t] = "finished" /\ pc'[t] \in Quit
    BY <1>0, <1>2 DEF Succeed, EndCancelled, EndUnconfirmed, Finish
  <2> QED BY <2>1
<1>3. CASE EndFailed(t)
  BY <1>0, <1>3 DEF EndFailed
<1>4. CASE Discard(t) \/ DiscardFails(t)
  <2>1. pc[t] = "clean" /\ pc'[t] \in {"backoff"} \cup Quit
    BY <1>0, <1>4 DEF Discard, DiscardFails, Discarded, Finish
  <2> QED BY <2>1
<1>5. CASE Acquire(t) \/ PostFails(t) \/ PollFails(t) \/ Stopped(t)
  <2>1. pc[t] \in InFlight /\ pc'[t] = "finished"
    BY <1>0, <1>5 DEF Acquire, PostFails, PollFails, Stopped, Release, InFlight, Holding
  <2> QED BY <2>1, <1>0 DEF InFlight, Holding
<1>6. CASE Posted(t)
  BY <1>0, <1>6 DEF Posted
<1>7. CASE SeenToken(t)
  BY <1>0, <1>7 DEF SeenToken, StopFor
<1>8. CASE Timeout(t)
  <2>1. pc'[t] = "stopping" /\ why'[t] = "timeout"
    BY <1>0, <1>8 DEF Timeout, StopFor
  <2> QED BY <2>1, <1>8 DEF Timeout
<1>9. CASE LeaseLost(t)
  <2>1. CASE pc[t] = "queued"
    BY <1>0, <1>9, <2>1 DEF LeaseLost, Release
  <2>2. CASE pc[t] # "queued"
    <3>1. pc'[t] = "stopping" /\ why'[t] = "lost" /\ pc[t] \in Holding /\ why[t] \in {"none", "token"}
      BY <1>0, <1>9, <2>2 DEF LeaseLost, StopFor, InFlight
    <3>2. pc[t] = "stopping" => why[t] = "token"
      BY <3>1 DEF IndInv, TaskInv, Reason
    <3> QED BY <3>1, <3>2 DEF Holding
  <2> QED BY <2>1, <2>2
<1>10. ~(Choose(t) \/ NoWorker(t) \/ Backoff(t) \/ SeenRunning(t) \/ SeenTerminal(t))
  BY DEF Choose, NoWorker, Backoff, SeenRunning, SeenTerminal
<1> QED BY <1>1, <1>2, <1>3, <1>4, <1>5, <1>6, <1>7, <1>8, <1>9, <1>10 DEF TaskStep, Execution

(* A cancelled task's coroutine ends after eight steps of its own at most,  *)
(* whatever fails in between (scheduler.py 314-497, remote.py 74-124): the  *)
(* safety part of CancelEndsRun.                                            *)
THEOREM CancelBounded == Spec => CancelIsBounded
<1>1. ASSUME IndInv, Next, token, NEW t \in Tasks
      PROVE  Countdown(t)' < Countdown(t) \/ (pc'[t] = pc[t] /\ why'[t] = why[t])
  <2>0. pc \in [Tasks -> Places] /\ why \in [Tasks -> {"none", "token", "lost", "timeout"}]
    BY <1>1 DEF IndInv, TypeOK, TaskOK, Places
  <2>1. CASE RunStep \/ Cancel \/ Over
    BY <1>1, <2>1 DEF RunStep, Cancel, FormBatch, RunDone, StartStage, StageDone, GatherRaises,
       Settle, Over, taskVars, vars
  <2>2. ASSUME NEW u \in Tasks, TaskStep(u) \/ Execution(u) \/ LeaseLost(u), u # t
        PROVE  pc'[t] = pc[t] /\ why'[t] = why[t]
    <3>1. CASE TaskStep(u)
      BY <2>0, <2>2, <3>1 DEF TaskStep, Choose, NoWorker, SeeToken, Backoff, Succeed, EndCancelled,
         EndUnconfirmed, EndFailed, Discard, DiscardFails, Discarded, Finish, Forget
    <3>2. CASE Execution(u) \/ LeaseLost(u)
      BY <2>0, <2>2, <3>2 DEF Execution, LeaseLost, Acquire, Posted, PostFails, SeenRunning,
         SeenTerminal, PollFails, SeenToken, Timeout, Stopped, Release, StopFor
    <3> QED BY <2>2, <3>1, <3>2
  <2>3. ASSUME \/ \E u \in Tasks, n \in Numbers : RemoteStep(u, n)
               \/ \E w \in Workers : LoseLease(w) \/ RegainLease(w) \/ Crash(w)
        PROVE  pc' = pc /\ why' = why
    BY <2>3 DEF RemoteStep, LoseLease, RegainLease, Crash, taskVars
  <2>4. ASSUME TaskStep(t) \/ Execution(t) \/ LeaseLost(t) PROVE Countdown(t)' < Countdown(t)
    BY <1>1, <2>4, CountsDown
  <2> QED BY <1>1, <2>1, <2>2, <2>3, <2>4 DEF Next
<1>2. IndInv /\ [Next]_vars =>
        [token => \A t \in Tasks :
           \/ Countdown(t)' < Countdown(t)
           \/ pc'[t] = pc[t] /\ why'[t] = why[t]]_vars
  BY <1>1
<1> QED BY <1>2, Invariance, PTL DEF Spec, CancelIsBounded

(***************************************************************************)
(* The run implements its contract.                                        *)
(***************************************************************************)

(* While the run is on, its caller sees running; afterwards what it sees    *)
(* depends on run and stage only.                                           *)
LEMMA StatusRunning == ASSUME run \notin Ended PROVE Status = "running"
BY DEF Status, Ended

LEMMA StatusSame == ASSUME run' = run, stage' = stage PROVE Status' = Status
BY DEF Status

LEMMA StatusReturned ==
  ASSUME run' = "returned", NEW s \in Stages, stage'[s] # "SUCCEEDED" PROVE Status' = "cancelled"
BY DEF Status, Ended

(* Every step of the scheduler is a step of ScheduleRun, or one its caller  *)
(* does not see: the run ends once, for good, and cancelled only if it was  *)
(* asked to (scheduler.py 233-312).                                         *)
LEMMA ContractStep == IndInv /\ [Next]_vars => [Contract!Next]_(Contract!vars)
<1> SUFFICES ASSUME IndInv, [Next]_vars PROVE [Contract!Next]_(Contract!vars)
  OBVIOUS
<1> USE DEF Contract!Next, Contract!vars, Contract!Cancel, Contract!End, Contract!Outcomes
<1>1. ASSUME run' = run, stage' = stage, token' = token PROVE UNCHANGED Contract!vars
  BY <1>1, StatusSame
<1>2. CASE Cancel
  <2>1. Status = "running" /\ Status' = Status /\ token' = TRUE
    BY <1>2, StatusRunning, StatusSame DEF Cancel
  <2> QED BY <2>1
<1>3. CASE FormBatch
  BY <1>1, <1>3 DEF FormBatch
<1>4. CASE RunDone
  <2>1. Status = "running" /\ token' = token
    BY <1>4, StatusRunning DEF RunDone, Ended
  <2>2. Status' = "complete"
    BY <1>4 DEF RunDone, Status, Ended
  <2> QED BY <2>1, <2>2
<1>5. CASE StartStage
  <2>1. run = "loop" /\ Status = "running" /\ token' = token
    BY <1>5, StatusRunning DEF StartStage, Ended
  <2>2. CASE token
    <3>1. PICK s \in Stages : s \in batch
      BY <1>5 DEF StartStage, IndInv, TypeOK, RunOK
    <3>2. stage[s] = "PENDING"
      BY <2>1, <3>1 DEF IndInv, RunInv, Loop, Ended
    <3>3. run' = "returned" /\ stage'[s] = "CANCELED"
      BY <1>5, <2>2, <3>2 DEF StartStage, Abandon
    <3>4. Status' = "cancelled"
      BY <3>3, StatusReturned
    <3> QED BY <2>1, <2>2, <3>4
  <2>3. CASE ~token
    <3>1. run' = "gather"
      BY <1>5, <2>3 DEF StartStage
    <3>2. Status' = "running"
      BY <3>1 DEF Status, Ended
    <3> QED BY <2>1, <3>2
  <2> QED BY <2>2, <2>3
<1>6. CASE StageDone
  <2>1. Status = "running" /\ token' = token
    BY <1>6, StatusRunning DEF StageDone, Ended
  <2>2. Status' = "running"
    BY <1>6 DEF StageDone, Status, Ended
  <2> QED BY <2>1, <2>2
<1>7. CASE GatherRaises
  <2>1. Status = "running" /\ token' = token
    BY <1>7, StatusRunning DEF GatherRaises, Ended
  <2>2. run' \in {"settle", "failed", "unconfirmed"}
    BY <1>7 DEF GatherRaises, IndInv, TypeOK, RunOK
  <2>3. Status' \in {"running", "failed", "unconfirmed"}
    BY <2>2 DEF Status, Ended
  <2> QED BY <2>1, <2>3
<1>8. CASE Settle
  <2>1. Status = "running" /\ token' = token /\ token = TRUE
    BY <1>8, StatusRunning DEF Settle, Ended, IndInv, RunInv, Asked, TypeOK, RunOK
  <2>2. cur \in Stages
    BY <1>8 DEF Settle, IndInv, RunInv, Loop
  <2>3. CASE run' = "unconfirmed"
    <3>1. Status' = "unconfirmed"
      BY <2>3 DEF Status, Ended
    <3> QED BY <2>1, <3>1
  <2>4. CASE run' # "unconfirmed"
    <3>1. run' = "returned" /\ stage'[cur] # "SUCCEEDED"
      BY <1>8, <2>2, <2>4 DEF Settle, Abandon, IndInv, TypeOK, RunOK
    <3>2. Status' = "cancelled"
      BY <2>2, <3>1, StatusReturned
    <3> QED BY <2>1, <3>2
  <2> QED BY <2>3, <2>4
<1>9. ASSUME NEW t \in Tasks, TaskStep(t) \/ Execution(t) \/ LeaseLost(t)
      PROVE  run' = run /\ stage' = stage /\ token' = token
  <2>1. CASE TaskStep(t)
    BY <2>1 DEF TaskStep, Choose, NoWorker, SeeToken, Backoff, Succeed, EndCancelled,
       EndUnconfirmed, EndFailed, Discard, DiscardFails, Discarded, runVars
  <2>2. CASE Execution(t) \/ LeaseLost(t)
    BY <2>2 DEF Execution, LeaseLost, Acquire, Posted, PostFails, SeenRunning, SeenTerminal,
       PollFails, SeenToken, Timeout, Stopped, Release, StopFor, runVars
  <2> QED BY <1>9, <2>1, <2>2
<1>10. ASSUME \/ \E t \in Tasks, n \in Numbers : RemoteStep(t, n)
              \/ \E w \in Workers : LoseLease(w) \/ RegainLease(w) \/ Crash(w)
              \/ Over \/ UNCHANGED vars
       PROVE  run' = run /\ stage' = stage /\ token' = token
  BY <1>10 DEF RemoteStep, LoseLease, RegainLease, Crash, Over, runVars, vars
<1> QED BY <1>1, <1>2, <1>3, <1>4, <1>5, <1>6, <1>7, <1>8, <1>9, <1>10 DEF Next, RunStep

(* The safety part of ImplementsScheduleRun: what the caller of run sees    *)
(* behaves like ScheduleRun (scheduler.py 233-312).                         *)
THEOREM ContractKept == Spec => Contract!Init /\ [][Contract!Next]_(Contract!vars)
<1>1. Init => Contract!Init
  BY StatusRunning DEF Init, Contract!Init, Ended
<1> QED BY <1>1, ContractStep, Invariance, PTL DEF Spec

----------------------------------------------------------------------------
(* The scheduler and its Workers stay within WorkerAttempt. *)

(* What a step may do to one attempt on its Worker. *)
Change(t, n) ==
  \/ remote'[t][n] = remote[t][n] /\ (MayArrive(t, n)' => MayArrive(t, n))
  \/ remote[t][n] = "none" /\ MayArrive(t, n) /\ remote'[t][n] \in {"flying", "live"}
  \/ remote[t][n] = "flying" /\ remote'[t][n] = "live"
  \/ remote[t][n] = "live" /\ remote'[t][n] \in {"dying", "ok", "dead"}
  \/ remote[t][n] \in {"dying", "ok"} /\ remote'[t][n] = "dead"
  \/ remote'[t][n] = "none" /\ ~MayArrive(t, n)'

(* The same in the terms of WorkerAttempt. *)
Moves(v, w) ==
  \/ w \in {v, "lost"}
  \/ v = "none" /\ w = "live"
  \/ v = "live" /\ w \in {"dying", "ok", "dead"}
  \/ v \in {"dying", "ok"} /\ w = "dead"

LEMMA ChangeMoves ==
  ASSUME NEW t \in Tasks, NEW n \in Numbers, Change(t, n), MayArrive(t, n) \in BOOLEAN, MayArrive(t, n)' \in BOOLEAN
  PROVE  Moves(View(t, n), View(t, n)')
<1>1. /\ remote[t][n] = "flying" => View(t, n) = "none"
      /\ remote[t][n] = "none" /\ MayArrive(t, n) => View(t, n) = "none"
      /\ remote[t][n] = "none" /\ ~MayArrive(t, n) => View(t, n) = "lost"
      /\ remote[t][n] \notin {"flying", "none"} => View(t, n) = remote[t][n]
  BY DEF View
<1>2. /\ remote'[t][n] = "flying" => View(t, n)' = "none"
      /\ remote'[t][n] = "none" /\ MayArrive(t, n)' => View(t, n)' = "none"
      /\ remote'[t][n] = "none" /\ ~MayArrive(t, n)' => View(t, n)' = "lost"
      /\ remote'[t][n] \notin {"flying", "none"} => View(t, n)' = remote'[t][n]
  BY DEF View
<1> QED BY <1>1, <1>2 DEF Change, Moves

(* A step that leaves an attempt and the place of its task alone, or moves  *)
(* the task without posting, changes nothing of it.                         *)
LEMMA Undisturbed ==
  ASSUME NEW t \in Tasks, NEW n \in Numbers, remote'[t][n] = remote[t][n], tries'[t] = tries[t],
         pc'[t] \in {"queued", "posting"} => pc[t] \in {"queued", "posting"}
  PROVE  Change(t, n)
BY DEF Change, MayArrive

(* An attempt other than the current one is on a Worker only if its POST is *)
(* over, so nothing arrives for it any more.                                *)
LEMMA OnWorkerHasArrived ==
  ASSUME IndInv, NEW t \in Tasks, NEW n \in Numbers, remote[t][n] \in OnWorker
  PROVE  ~MayArrive(t, n)
<1>1. ~(n > tries[t])
  BY DEF IndInv, TaskInv, Unmade, OnWorker
<1>2. n = tries[t] => pc[t] \notin {"queued", "posting"}
  BY DEF IndInv, TaskInv, Unsent, Remote, Now, OnWorker
<1> QED BY <1>1, <1>2 DEF MayArrive

(* A task's own step, at the attempt it is at. *)
LEMMA TaskChanges ==
  ASSUME IndInv, NEW t \in Tasks, TaskStep(t) \/ Execution(t) \/ LeaseLost(t),
         NEW n \in Numbers
  PROVE  Change(t, n)
<1>0. /\ pc \in [Tasks -> Places] /\ tries \in [Tasks -> 0 .. MaxAttempts]
      /\ remote \in [Tasks -> [Numbers -> Remotes]]
      /\ n \in Nat /\ tries[t] \in Nat
  BY MaxAttemptsAssumption DEF IndInv, TypeOK, TaskOK, AttemptOK, Places, Remotes, Numbers
<1>1. CASE Choose(t)
  <2>1. tries'[t] = tries[t] + 1 /\ remote' = remote
    BY <1>0, <1>1 DEF Choose
  <2> QED BY <1>0, <2>1 DEF Change, MayArrive
<1>2. CASE NoWorker(t)
  <2>1. remote' = remote /\ tries'[t] \in {tries[t], tries[t] + 1} /\ pc'[t] = "done"
    BY <1>0, <1>2 DEF NoWorker, Finish
  <2> QED BY <1>0, <2>1 DEF Change, MayArrive
<1>3. CASE SeeToken(t) \/ Backoff(t) \/ Succeed(t) \/ EndCancelled(t) \/ EndUnconfirmed(t) \/ EndFailed(t)
  <2>1. remote' = remote /\ tries' = tries /\ pc'[t] \notin {"queued", "posting"}
    BY <1>0, <1>3 DEF SeeToken, Backoff, Succeed, EndCancelled, EndUnconfirmed, EndFailed, Finish
  <2> QED BY <2>1, Undisturbed
<1>4. CASE SeenRunning(t) \/ SeenTerminal(t) \/ PollFails(t) \/ SeenToken(t) \/ Timeout(t) \/ Acquire(t)
  <2>1. remote' = remote /\ tries' = tries
    BY <1>4 DEF SeenRunning, SeenTerminal, PollFails, SeenToken, Timeout, Acquire, Release, StopFor
  <2>2. pc'[t] \in {"queued", "posting"} => pc[t] \in {"queued", "posting"}
    BY <1>0, <1>4 DEF SeenRunning, SeenTerminal, PollFails, SeenToken, Timeout, Acquire, Release, StopFor
  <2> QED BY <2>1, <2>2, Undisturbed
<1>5. ASSUME NEW r \in Remotes, remote' = [remote EXCEPT ![t][Now(t)] = r], tries' = tries,
             n = tries[t] => Change(t, n),
             pc'[t] \in {"queued", "posting"} => pc[t] \in {"queued", "posting"}
      PROVE  Change(t, n)
  <2>1. n # tries[t] => remote'[t][n] = remote[t][n]
    BY <1>0, <1>5 DEF Now
  <2> QED BY <1>5, <2>1, Undisturbed
<1>6. CASE pc[t] = "posting" /\ (Posted(t) \/ PostFails(t) \/ LeaseLost(t))
  <2>1. PICK r \in {"none", "flying", "live"} : remote' = [remote EXCEPT ![t][Now(t)] = r]
    BY <1>6 DEF Posted, PostFails, LeaseLost, IndInv, TaskInv, Unsent
  <2>2. tries' = tries /\ pc'[t] \notin {"queued", "posting"}
    BY <1>0, <1>6 DEF Posted, PostFails, LeaseLost, Release, StopFor
  <2>3. ASSUME n = tries[t] PROVE Change(t, n)
    <3>1. remote[t][n] = "none" /\ MayArrive(t, n)
      BY <1>6, <2>3 DEF IndInv, TaskInv, Unsent, Remote, Now, MayArrive
    <3>2. remote'[t][n] = r
      BY <1>0, <2>1, <2>3 DEF Now
    <3>3. ~MayArrive(t, n)'
      BY <1>0, <2>2, <2>3 DEF MayArrive
    <3> QED BY <2>1, <3>1, <3>2, <3>3 DEF Change
  <2> QED BY <1>5, <2>1, <2>2, <2>3 DEF Remotes, OnWorker
<1>7. CASE LeaseLost(t) /\ pc[t] # "posting"
  <2>1. tries' = tries /\ pc'[t] \notin {"queued", "posting"}
    BY <1>0, <1>7 DEF LeaseLost, Release, StopFor
  <2>2. remote'[t][n] = remote[t][n]
    BY <1>0, <1>7 DEF LeaseLost, Remote, Now
  <2> QED BY <2>1, <2>2, Undisturbed
<1>8. CASE Stopped(t) \/ Discard(t) \/ DiscardFails(t)
  <2>0. Remote(t) \in Remotes
    <3>1. pc[t] \in {"stopping", "clean"}
      BY <1>8 DEF Stopped, Discard, DiscardFails
    <3>2. tries[t] > 0
      BY <3>1 DEF IndInv, TaskInv, Counted, InFlight, Holding
    <3>3. tries[t] \in Numbers
      BY <1>0, <3>2, MaxAttemptsAssumption DEF Numbers
    <3> QED BY <1>0, <3>3 DEF Remote, Now
  <2>1. PICK r \in Remotes :
          /\ remote' = [remote EXCEPT ![t][Now(t)] = r]
          /\ \/ r = Remote(t)
             \/ Remote(t) = "live" /\ r \in {"dying", "dead"}
             \/ Remote(t) \in {"dying", "ok"} /\ r = "dead"
    <3>1. CASE Stopped(t)
      <4>1. PICK r \in Reach(t) : /\ remote' = [remote EXCEPT ![t][Now(t)] = r]
                                  /\ DeleteConfirmed(t, r) \/ DeleteUnconfirmed(t, r)
        BY <3>1 DEF Stopped
      <4> QED BY <2>0, <4>1 DEF Reach, DeleteConfirmed, DeleteUnconfirmed, Remotes, OnWorker
    <3>2. CASE Discard(t)
      <4>1. PICK r \in Reach(t) : /\ remote' = [remote EXCEPT ![t][Now(t)] = IF Recorded(t) THEN "dead" ELSE r]
                                  /\ DeleteConfirmed(t, r)
        BY <3>2 DEF Discard, Discarded
      <4> QED BY <4>1 DEF Reach, DeleteConfirmed, Remotes, OnWorker
    <3>3. CASE DiscardFails(t)
      <4>1. PICK r \in Reach(t) : /\ remote' = [remote EXCEPT ![t][Now(t)] = r]
                                  /\ DeleteUnconfirmed(t, r)
        BY <3>3 DEF DiscardFails, Discarded
      <4> QED BY <2>0, <4>1 DEF Reach, DeleteUnconfirmed, Remotes, OnWorker
    <3> QED BY <1>8, <3>1, <3>2, <3>3
  <2>2. tries' = tries /\ pc'[t] \notin {"queued", "posting"}
    BY <1>0, <1>8 DEF Stopped, Discard, DiscardFails, Discarded, Release, Finish
  <2>3. ASSUME n = tries[t] PROVE Change(t, n)
    <3>1. remote'[t][n] = r /\ Remote(t) = remote[t][n]
      BY <1>0, <2>1, <2>3 DEF Now, Remote
    <3> QED BY <2>1, <2>2, <2>3, <3>1, Undisturbed DEF Change
  <2> QED BY <1>5, <2>1, <2>2, <2>3
<1>9. CASE (Posted(t) \/ PostFails(t)) /\ pc[t] # "posting"
  BY <1>9 DEF Posted, PostFails
<1> QED BY <1>1, <1>2, <1>3, <1>4, <1>6, <1>7, <1>8, <1>9 DEF TaskStep, Execution

(* Every step changes every remote attempt as WorkerAttempt allows. *)
LEMMA StepChanges ==
  ASSUME IndInv, [Next]_vars, NEW t \in Tasks, NEW n \in Numbers PROVE Change(t, n)
<1>0. /\ pc \in [Tasks -> Places] /\ tries \in [Tasks -> 0 .. MaxAttempts]
      /\ remote \in [Tasks -> [Numbers -> Remotes]]
  BY DEF IndInv, TypeOK, TaskOK, AttemptOK, Places, Remotes
<1>1. ASSUME NEW u \in Tasks, TaskStep(u) \/ Execution(u) \/ LeaseLost(u) PROVE Change(t, n)
  <2>1. CASE u = t
    BY <1>1, <2>1, TaskChanges
  <2>2. CASE u # t
    <3>1. remote'[t][n] = remote[t][n] /\ tries'[t] = tries[t] /\ pc'[t] = pc[t]
      <4>1. CASE TaskStep(u)
        BY <1>0, <2>2, <4>1 DEF TaskStep, Choose, NoWorker, SeeToken, Backoff, Succeed, EndCancelled,
           EndUnconfirmed, EndFailed, Discard, DiscardFails, Discarded, Finish
      <4>2. CASE LeaseLost(u)
        BY <1>0, <2>2, <4>2 DEF LeaseLost, Release, StopFor
      <4>3. CASE Stopped(u)
        <5>1. PICK r : remote' = [remote EXCEPT ![u][Now(u)] = r]
          BY <4>3 DEF Stopped
        <5>2. tries' = tries /\ pc' = [pc EXCEPT ![u] = "finished"]
          BY <4>3 DEF Stopped, Release
        <5> QED BY <1>0, <2>2, <5>1, <5>2
      <4>4. CASE Execution(u) /\ ~Stopped(u)
        BY <1>0, <2>2, <4>4 DEF Execution, Acquire, Posted, PostFails, SeenRunning, SeenTerminal,
           PollFails, SeenToken, Timeout, Release, StopFor
      <4> QED BY <1>1, <4>1, <4>2, <4>3, <4>4
    <3> QED BY <3>1, Undisturbed
  <2> QED BY <2>1, <2>2
<1>2. ASSUME NEW u \in Tasks, NEW m \in Numbers, RemoteStep(u, m) PROVE Change(t, n)
  <2>1. tries' = tries /\ pc' = pc
    BY <1>2 DEF RemoteStep, taskVars
  <2>2. CASE u = t /\ m = n
    <3>1. PICK r \in {"ok", "dead", "live"} :
            /\ \/ remote[t][n] = "live" /\ r \in {"ok", "dead"}
               \/ remote[t][n] = "dying" /\ r = "dead"
               \/ remote[t][n] = "flying" /\ r = "live"
            /\ remote' = [remote EXCEPT ![t][n] = r]
      BY <1>2, <2>2 DEF RemoteStep
    <3>2. remote'[t][n] = r
      BY <1>0, <3>1
    <3> QED BY <3>1, <3>2 DEF Change
  <2>3. CASE ~(u = t /\ m = n)
    <3>1. PICK r : remote' = [remote EXCEPT ![u][m] = r]
      BY <1>2 DEF RemoteStep
    <3>2. remote'[t][n] = remote[t][n]
      BY <1>0, <2>3, <3>1
    <3> QED BY <2>1, <3>2, Undisturbed
  <2> QED BY <2>2, <2>3
<1>3. ASSUME NEW w \in Workers, Crash(w) PROVE Change(t, n)
  <2>1. tries' = tries /\ pc' = pc
    BY <1>3 DEF Crash, taskVars
  <2>2. CASE remote'[t][n] = remote[t][n]
    BY <2>1, <2>2, Undisturbed
  <2>3. CASE remote'[t][n] # remote[t][n]
    <3>1. remote'[t][n] = "none" /\ remote[t][n] \in OnWorker
      BY <1>3, <2>3 DEF Crash
    <3>2. ~MayArrive(t, n)'
      BY <2>1, <3>1, OnWorkerHasArrived DEF MayArrive
    <3> QED BY <3>1, <3>2 DEF Change
  <2> QED BY <2>2, <2>3
<1>4. ASSUME \/ FormBatch \/ RunDone \/ StageDone \/ GatherRaises \/ Settle \/ Cancel \/ Over \/ UNCHANGED vars
             \/ \E w \in Workers : LoseLease(w) \/ RegainLease(w)
      PROVE  Change(t, n)
  <2>1. remote' = remote /\ tries' = tries /\ pc' = pc
    BY <1>4 DEF FormBatch, RunDone, StageDone, GatherRaises, Settle, Cancel, Over, LoseLease, RegainLease,
       taskVars, vars
  <2> QED BY <2>1, Undisturbed
<1>5. CASE StartStage
  <2>1. remote' = remote /\ tries' = tries /\ (pc'[t] \in {"queued", "posting"} => pc'[t] = pc[t])
    BY <1>0, <1>5 DEF StartStage
  <2> QED BY <2>1, Undisturbed
<1> QED BY <1>1, <1>2, <1>3, <1>4, <1>5 DEF Next, RunStep

(* Nothing the scheduler does, and no failure it is modelled with, takes a  *)
(* remote attempt out of the life WorkerTasks gives it: posted at most      *)
(* once, never revived, its output removed only after it succeeded          *)
(* (scheduler.py 314-497, remote.py 74-236).                                *)
THEOREM RemoteContractKept == Spec => RemoteIsWorkerAttempt
<1> DEFINE view == [p \in Tasks \X Numbers |-> View(p[1], p[2])]
<1>1. Init => Lives!Init
  <2> SUFFICES ASSUME Init, NEW t \in Tasks, NEW n \in Numbers PROVE View(t, n) = "none"
    BY DEF Lives!Init
  <2>1. remote[t][n] = "none" /\ tries[t] = 0
    BY DEF Init
  <2>2. MayArrive(t, n)
    BY <2>1, MaxAttemptsAssumption DEF MayArrive, Numbers
  <2> QED BY <2>1, <2>2 DEF View
<1>2. IndInv /\ IndInv' /\ [Next]_vars => Lives!Next
  <2> SUFFICES ASSUME IndInv, IndInv', [Next]_vars PROVE Lives!Next
    OBVIOUS
  <2>1. ASSUME NEW t \in Tasks, NEW n \in Numbers PROVE Moves(View(t, n), View(t, n)') /\ View(t, n)' \in Lives!Views
    <3>1. MayArrive(t, n) \in BOOLEAN /\ MayArrive(t, n)' \in BOOLEAN
      BY DEF MayArrive
    <3>2. Moves(View(t, n), View(t, n)')
      BY <3>1, StepChanges, ChangeMoves
    <3>3. remote'[t][n] \in Remotes
      BY DEF IndInv, TypeOK, AttemptOK, Remotes
    <3>4. View(t, n)' \in Lives!Views
      BY <3>1, <3>3 DEF View, Lives!Views, Remotes, OnWorker
    <3> QED BY <3>2, <3>4
  <2>2. view' \in [Tasks \X Numbers -> Lives!Views]
    BY <2>1
  <2>3. ASSUME NEW p \in Tasks \X Numbers
        PROVE  Lives!Accept(p) \/ Lives!Stop(p) \/ Lives!Finish(p) \/ Lives!Fail(p)
               \/ Lives!Remove(p) \/ Lives!Lose(p) \/ Lives!Stay(p)
    <3>1. p[1] \in Tasks /\ p[2] \in Numbers
      OBVIOUS
    <3>2. Moves(View(p[1], p[2]), View(p[1], p[2])')
      BY <2>1, <3>1
    <3>3. view[p] = View(p[1], p[2]) /\ view'[p] = View(p[1], p[2])'
      OBVIOUS
    <3> QED BY <3>2, <3>3 DEF Moves, Lives!Accept, Lives!Stop, Lives!Finish, Lives!Fail, Lives!Remove,
               Lives!Lose, Lives!Stay
  <2> QED BY <2>2, <2>3 DEF Lives!Next
<1>3. IndInv /\ IndInv' /\ [Next]_vars => [Lives!Next]_view
  BY <1>2
<1> QED BY <1>1, <1>3, Invariance, PTL DEF Spec, RemoteIsWorkerAttempt, Lives!Spec

=============================================================================
