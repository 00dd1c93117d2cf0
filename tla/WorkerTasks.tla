---------------------------- MODULE WorkerTasks ----------------------------
(***************************************************************************)
(* The task manager of one Worker process, WorkerTaskManager, with the     *)
(* objects its attempts leave in the object store.                         *)
(*                                                                         *)
(* Three kinds of actors interleave:                                       *)
(*   - HTTP handlers on the event loop: Submit, Cancel, Close;             *)
(*   - one coroutine per attempt on the same loop (_execute), which runs   *)
(*     without interruption between two awaits;                            *)
(*   - one executor thread per attempt (_execute_sync), which sees the     *)
(*     cancellation token only where it calls CancellationToken.check.     *)
(*                                                                         *)
(* A thread step is "one effect, then the check that follows it", so that  *)
(* the token can be set between a check and the next effect.               *)
(*                                                                         *)
(* An attempt here is the pair of a query and an attempt id: that pair     *)
(* names the attempt's objects, and the Coordinator posts it at most once  *)
(* per Worker process lifetime.                                            *)
(***************************************************************************)
EXTENDS Naturals

CONSTANTS
  Attempts,      \* attempt ids
  Submissions,   \* distinguishable contents of a RemoteTaskSubmission
  Shuffles,      \* the submissions whose operation is SHUFFLE_WRITE
  NParts,        \* partition_count of a shuffle write
  Clients        \* concurrent callers of DELETE /tasks/{attempt_id}

ASSUME ShufflesAssumption == Shuffles \subseteq Submissions
ASSUME NPartsAssumption == NParts \in Nat \ {0}
(* None marks "no value" for the two things that can be absent. *)
CONSTANT None
ASSUME NoneAssumption == None \notin Submissions /\ None \notin Attempts

VARIABLES
  sub,       \* record.submission
  state,     \* record.status.state; "absent": no record; "gone": crashed with it
  token,     \* record.cancellation.cancelled
  future,    \* is record.future still pending?
  thread,    \* where the executor thread is
  next,      \* the partition a shuffle write is at
  part,      \* shuffle data files in the store
  manifest,  \* is the shuffle manifest in the store?
  output,    \* is the result artifact in the store?
  refused,   \* history: has the store refused a delete of the attempt's cleanup?
  mgr,       \* life of the manager: open, closing, aborted, closed
  call,      \* the attempt each client's DELETE waits for
  reply      \* last answer of each client's DELETE

record == <<sub, state, token, future>>
store  == <<part, manifest, output, refused>>
vars   == <<record, thread, next, store, mgr, call, reply>>

Partitions == 0 .. NParts - 1
Live       == {"CREATED", "RUNNING"}
Terminal   == {"SUCCEEDED", "FAILED", "CANCELED"}
ThreadPc   == {"idle", "work", "write", "publish", "returned", "raised", "ended"}
Running    == {"work", "write", "publish"}
FileState  == {"absent", "torn", "whole"}

Answers == [at : Attempts \cup {None}, code : {"none", "confirmed", "unconfirmed"}]

RecordOK ==
  /\ sub      \in [Attempts -> Submissions \cup {None}]
  /\ state    \in [Attempts -> {"absent", "gone"} \cup Live \cup Terminal]
  /\ token    \in [Attempts -> BOOLEAN]
  /\ future   \in [Attempts -> BOOLEAN]
ThreadOK ==
  /\ thread   \in [Attempts -> ThreadPc]
  /\ next     \in [Attempts -> Partitions]
StoreOK ==
  /\ part     \in [Attempts -> [Partitions -> FileState]]
  /\ manifest \in [Attempts -> BOOLEAN]
  /\ output   \in [Attempts -> BOOLEAN]
  /\ refused  \in [Attempts -> BOOLEAN]
CallsOK ==
  /\ mgr      \in {"open", "closing", "aborted", "closed"}
  /\ call     \in [Clients -> Attempts \cup {None}]
  /\ reply    \in [Clients -> Answers]

(* The type invariant: records, threads, stored objects and pending calls   *)
(* keep their types (tasks.py 80-115).                                      *)
TypeOK == RecordOK /\ ThreadOK /\ StoreOK /\ CallsOK

IsShuffle(a) == sub[a] \in Shuffles
NoParts      == [p \in Partitions |-> "absent"]
Clean(a)     == part[a] = NoParts /\ ~manifest[a] /\ ~output[a]

(* What the attempt had to publish is in the store, whole. *)
Complete(a) ==
  IF IsShuffle(a)
  THEN manifest[a] /\ \A p \in Partitions : part[a][p] = "whole"
  ELSE output[a]

Init ==
  /\ sub      = [a \in Attempts |-> None]
  /\ state    = [a \in Attempts |-> "absent"]
  /\ token    = [a \in Attempts |-> FALSE]
  /\ future   = [a \in Attempts |-> FALSE]
  /\ thread   = [a \in Attempts |-> "idle"]
  /\ next     = [a \in Attempts |-> 0]
  /\ part     = [a \in Attempts |-> NoParts]
  /\ manifest = [a \in Attempts |-> FALSE]
  /\ output   = [a \in Attempts |-> FALSE]
  /\ refused  = [a \in Attempts |-> FALSE]
  /\ mgr      = "open"
  /\ call     = [c \in Clients |-> None]
  /\ reply    = [c \in Clients |-> [at |-> None, code |-> "none"]]

----------------------------------------------------------------------------
(* HTTP handlers *)

(* submit: the first POST of an attempt id creates its record and schedules *)
(* _execute; a repeated one only reads (same content: the status, other     *)
(* content: 409).                                                           *)
Submit(a, s) ==
  /\ mgr = "open"
  /\ state[a] = "absent"
  /\ sub'    = [sub EXCEPT ![a] = s]
  /\ state'  = [state EXCEPT ![a] = "CREATED"]
  /\ token'  = [token EXCEPT ![a] = FALSE]
  /\ future' = [future EXCEPT ![a] = TRUE]
  /\ UNCHANGED <<thread, next, store, mgr, call, reply>>

(* The answer to a DELETE: the status of a terminal attempt confirms it; a  *)
(* 404, an error and a live state do not.                                   *)
Answer(a) ==
  [at |-> a, code |-> IF state[a] \in Terminal THEN "confirmed" ELSE "unconfirmed"]

(* Mutant of Cancel: the state is set at once instead of awaiting the thread. *)
CancelAtOnce(c, a) ==
  /\ mgr = "open"
  /\ call[c] = None
  /\ state[a] = "RUNNING"
  /\ token' = [token EXCEPT ![a] = TRUE]
  /\ state' = [state EXCEPT ![a] = "CANCELED"]
  /\ reply' = [reply EXCEPT ![c] = [at |-> a, code |-> "confirmed"]]
  /\ UNCHANGED <<sub, future, call, thread, next, store, mgr>>

(* cancel, first critical section: a live attempt's token is set and the    *)
(* caller waits for its future; a terminal one is answered at once; an      *)
(* unknown one is a 404, which the Coordinator takes for "unconfirmed".     *)
Cancel(c, a) ==
  /\ mgr = "open"
  /\ call[c] = None
  /\ IF state[a] \in Live
     THEN /\ token' = [token EXCEPT ![a] = TRUE]
          /\ call'  = [call EXCEPT ![c] = a]
          /\ UNCHANGED reply
     ELSE /\ reply' = [reply EXCEPT ![c] = Answer(a)]
          /\ UNCHANGED <<token, call>>
  /\ UNCHANGED <<sub, state, future, thread, next, store, mgr>>

(* cancel, after the wait: the future is done, and the status is returned.  *)
(* A future that ended with an exception of its own re-raises it here.      *)
CancelReturn(c) ==
  LET a == call[c] IN
  /\ a # None
  /\ ~future[a]
  /\ call'  = [call EXCEPT ![c] = None]
  /\ reply' = [reply EXCEPT ![c] = Answer(a)]
  /\ UNCHANGED <<record, thread, next, store, mgr>>

(* Mutant of CancelTimeout: a timeout is answered like a confirmation. *)
CancelTimeoutConfirms(c) ==
  /\ call[c] # None
  /\ future[call[c]]
  /\ call'  = [call EXCEPT ![c] = None]
  /\ reply' = [reply EXCEPT ![c] = [at |-> call[c], code |-> "confirmed"]]
  /\ UNCHANGED <<record, thread, next, store, mgr>>

(* cancel: cancellation_timeout_seconds pass first; the caller gets a 504   *)
(* and the attempt keeps running towards its next check. The timer may also *)
(* fire after the future is done, before the caller is resumed.             *)
CancelTimeout(c) ==
  LET a == call[c] IN
  /\ a # None
  /\ call'  = [call EXCEPT ![c] = None]
  /\ reply' = [reply EXCEPT ![c] = [at |-> a, code |-> "unconfirmed"]]
  /\ UNCHANGED <<record, thread, next, store, mgr>>

(* close: called once the server has drained its requests. Every token is   *)
(* set, terminal records' included.                                         *)
Close ==
  /\ mgr = "open"
  /\ \A c \in Clients : call[c] = None
  /\ mgr'   = "closing"
  /\ token' = [a \in Attempts |-> token[a] \/ state[a] \in Live \cup Terminal]
  /\ UNCHANGED <<sub, state, future, thread, next, store, call, reply>>

CloseReturn ==
  /\ mgr = "closing"
  /\ \A a \in Attempts : ~future[a]
  /\ mgr' = "closed"
  /\ UNCHANGED <<record, thread, next, store, call, reply>>

(* close: the wait for the futures times out, which cancels them. Coroutines *)
(* that were scheduled have long started by then.                            *)
CloseTimeout ==
  /\ mgr = "closing"
  /\ \E a \in Attempts : future[a]
  /\ \A a \in Attempts : state[a] # "CREATED"
  /\ mgr' = "aborted"
  /\ UNCHANGED <<record, thread, next, store, call, reply>>

(* Mutant of DeleteAll: the manifest is forgotten. *)
DeleteAllButManifest(a) ==
  /\ part'   = [part EXCEPT ![a] = IF IsShuffle(a) THEN NoParts ELSE @]
  /\ output' = [output EXCEPT ![a] = FALSE]
  /\ UNCHANGED <<manifest, refused>>

----------------------------------------------------------------------------
(* Deleting what an attempt left: _delete_result and _cleanup_submission    *)
(* (data files in partition order, then the manifest) followed by the       *)
(* deletion of the output location.                                         *)

DeleteAll(a) ==
  /\ part'     = [part EXCEPT ![a] = IF IsShuffle(a) THEN NoParts ELSE @]
  /\ manifest' = [manifest EXCEPT ![a] = IF IsShuffle(a) THEN FALSE ELSE @]
  /\ output'   = [output EXCEPT ![a] = FALSE]
  /\ UNCHANGED refused

(* The k-th delete is refused: what comes before it is gone, the rest stays. *)
(* k = NParts is the manifest, k = NParts + 1 the output location.           *)
DeletePrefix(a, k) ==
  /\ part' = [part EXCEPT ![a] =
       [p \in Partitions |-> IF IsShuffle(a) /\ p < k THEN "absent" ELSE part[a][p]]]
  /\ manifest' = [manifest EXCEPT ![a] = @ /\ ~(IsShuffle(a) /\ k > NParts)]
  /\ refused'  = [refused EXCEPT ![a] = TRUE]
  /\ UNCHANGED output

----------------------------------------------------------------------------
(* The coroutine _execute *)

Start(a) ==
  /\ state[a] = "CREATED"
  /\ state'  = [state EXCEPT ![a] = "RUNNING"]
  /\ thread' = [thread EXCEPT ![a] = "work"]
  /\ next'   = [next EXCEPT ![a] = 0]
  /\ UNCHANGED <<sub, token, future, store, mgr, call, reply>>

(* The thread is over and the loop resumes _execute with its result or its  *)
(* exception.                                                               *)
Resumed(a) ==
  /\ future[a]
  /\ mgr # "aborted"
  /\ thread[a] \in {"returned", "raised"}

Settle(a, final) ==
  /\ state'  = [state EXCEPT ![a] = final]
  /\ future' = [future EXCEPT ![a] = FALSE]
  /\ thread' = [thread EXCEPT ![a] = "ended"]
  /\ UNCHANGED <<sub, token, next, mgr, call, reply>>

(* Mutant of Succeed: the token is not looked at when the thread is over. *)
SucceedDespiteToken(a) ==
  /\ Resumed(a)
  /\ thread[a] = "returned"
  /\ Settle(a, "SUCCEEDED")
  /\ UNCHANGED store

Succeed(a) ==
  /\ Resumed(a)
  /\ thread[a] = "returned"
  /\ ~token[a]
  /\ Settle(a, "SUCCEEDED")
  /\ UNCHANGED store

(* Mutant of CleanUp: returning early without the CANCELED state. *)
CleanUpForgetsState(a) ==
  /\ Resumed(a)
  /\ thread[a] = "raised" \/ token[a]
  /\ DeleteAll(a)
  /\ Settle(a, IF thread[a] = "returned" THEN "RUNNING"
               ELSE IF token[a] THEN "CANCELED" ELSE "FAILED")

(* The token was set, or the thread raised: clean up, then publish the      *)
(* terminal state.                                                          *)
CleanUp(a) ==
  /\ Resumed(a)
  /\ thread[a] = "raised" \/ token[a]
  /\ DeleteAll(a)
  /\ Settle(a, IF token[a] THEN "CANCELED" ELSE "FAILED")

(* The cleanup itself raises: the exception leaves _execute, whose record   *)
(* stays RUNNING for ever.                                                  *)
CleanUpFails(a) ==
  /\ Resumed(a)
  /\ thread[a] = "raised" \/ token[a]
  /\ \E k \in 0 .. NParts + 1 : DeletePrefix(a, k)
  /\ Settle(a, "RUNNING")

(* The future was cancelled by a close that timed out: cleanup runs while   *)
(* the thread is still busy.                                                *)
Abort(a) ==
  /\ mgr = "aborted"
  /\ future[a]
  /\ future' = [future EXCEPT ![a] = FALSE]
  /\ \/ DeleteAll(a) /\ state' = [state EXCEPT ![a] = "CANCELED"]
     \/ /\ \E k \in 0 .. NParts + 1 : DeletePrefix(a, k)
        /\ UNCHANGED state
  /\ UNCHANGED <<sub, token, thread, next, mgr, call, reply>>

----------------------------------------------------------------------------
(* The executor thread _execute_sync *)

(* CancellationToken.check: go on to pc, or raise. *)
CheckThen(a, pc) ==
  thread' = [thread EXCEPT ![a] = IF token[a] THEN "raised" ELSE pc]

(* Reading inputs and running the operators, up to the check before the     *)
(* first effect on the store.                                               *)
Compute(a) ==
  /\ thread[a] = "work"
  /\ CheckThen(a, IF IsShuffle(a) THEN "write" ELSE "publish")
  /\ UNCHANGED <<record, next, store, mgr, call, reply>>

(* Mutant of WritePart: one partition too few. *)
WritePartTooFew(a) ==
  /\ thread[a] = "write"
  /\ part' = [part EXCEPT ![a][next[a]] = "whole"]
  /\ IF next[a] + 2 < NParts
     THEN CheckThen(a, "write") /\ next' = [next EXCEPT ![a] = @ + 1]
     ELSE CheckThen(a, "publish") /\ UNCHANGED next
  /\ UNCHANGED <<record, manifest, output, refused, mgr, call, reply>>

(* ShuffleStore.write: one data file, then the check of the next turn or    *)
(* the one before the manifest.                                             *)
WritePart(a) ==
  /\ thread[a] = "write"
  /\ part' = [part EXCEPT ![a][next[a]] = "whole"]
  /\ IF next[a] + 1 < NParts
     THEN CheckThen(a, "write") /\ next' = [next EXCEPT ![a] = @ + 1]
     ELSE CheckThen(a, "publish") /\ UNCHANGED next
  /\ UNCHANGED <<record, manifest, output, refused, mgr, call, reply>>

(* Publication of the manifest or of the result, and the check after it. *)
Publish(a) ==
  /\ thread[a] = "publish"
  /\ CheckThen(a, "returned")
  /\ IF IsShuffle(a)
     THEN manifest' = [manifest EXCEPT ![a] = TRUE] /\ UNCHANGED output
     ELSE output' = [output EXCEPT ![a] = TRUE] /\ UNCHANGED manifest
  /\ UNCHANGED <<record, next, part, refused, mgr, call, reply>>

(* The thread raises for a reason of its own: bad input, memory limit, or a *)
(* store that refuses a write. A refused write may leave a torn data file,  *)
(* or the whole object when only the answer was lost.                       *)
Fail(a) ==
  /\ thread[a] \in Running
  /\ thread' = [thread EXCEPT ![a] = "raised"]
  /\ \/ UNCHANGED store
     \/ /\ thread[a] = "write"
        /\ \E f \in {"torn", "whole"} : part' = [part EXCEPT ![a][next[a]] = f]
        /\ UNCHANGED <<manifest, output, refused>>
     \/ /\ thread[a] = "publish"
        /\ IF IsShuffle(a)
           THEN manifest' = [manifest EXCEPT ![a] = TRUE] /\ UNCHANGED output
           ELSE output' = [output EXCEPT ![a] = TRUE] /\ UNCHANGED manifest
        /\ UNCHANGED <<part, refused>>
  /\ UNCHANGED <<record, next, mgr, call, reply>>

(* After an abort nobody awaits the thread any more. *)
ThreadExit(a) ==
  /\ mgr = "aborted"
  /\ ~future[a]
  /\ thread[a] \in {"returned", "raised"}
  /\ thread' = [thread EXCEPT ![a] = "ended"]
  /\ UNCHANGED <<record, next, store, mgr, call, reply>>

----------------------------------------------------------------------------
(* The process dies and is restarted with an empty manager. The store keeps *)
(* what was in it; every waiting caller sees its connection fail.           *)
Crash ==
  /\ mgr \in {"open", "closing"}
  /\ mgr' = "open"
  /\ state'  = [a \in Attempts |-> IF state[a] = "absent" THEN "absent" ELSE "gone"]
  /\ token'  = [a \in Attempts |-> FALSE]
  /\ future' = [a \in Attempts |-> FALSE]
  /\ thread' = [a \in Attempts |-> "idle"]
  /\ call'   = [c \in Clients |-> None]
  /\ reply'  = [c \in Clients |->
       IF call[c] = None THEN reply[c] ELSE [at |-> call[c], code |-> "unconfirmed"]]
  /\ UNCHANGED <<sub, next, store>>

(* close has returned or given up and no thread is left: the process ends.  *)
Exit ==
  /\ mgr \in {"closed", "aborted"}
  /\ \A a \in Attempts : ~future[a] /\ thread[a] \in {"idle", "ended"}
  /\ UNCHANGED vars

ThreadStep(a) == Compute(a) \/ WritePart(a) \/ Publish(a) \/ Fail(a) \/ ThreadExit(a)
LoopStep(a)   == Start(a) \/ Succeed(a) \/ CleanUp(a) \/ CleanUpFails(a) \/ Abort(a)

Next ==
  \/ \E a \in Attempts : ThreadStep(a) \/ LoopStep(a) \/ \E s \in Submissions : Submit(a, s)
  \/ \E c \in Clients : \/ CancelReturn(c)
                        \/ CancelTimeout(c)
                        \/ \E a \in Attempts : Cancel(c, a)
  \/ Close \/ CloseReturn \/ CloseTimeout
  \/ Crash \/ Exit

Spec == Init /\ [][Next]_vars

(* The event loop runs what is ready, and a thread whose token is set       *)
(* reaches its next check. How long an operator computes when nobody        *)
(* cancels it is not assumed.                                               *)
Fairness ==
  \A a \in Attempts :
    /\ WF_vars(LoopStep(a))
    /\ WF_vars(token[a] /\ ThreadStep(a))

FairSpec == Spec /\ Fairness

----------------------------------------------------------------------------
(* PROPERTIES *)

(* An attempt reported FAILED or CANCELED has left nothing in the store:    *)
(* whatever the thread wrote after the last check that saw the token clear  *)
(* is deleted before the state becomes visible (tasks.py 203-241).          *)
NoDebris ==
  \A a \in Attempts :
    state[a] \in {"FAILED", "CANCELED"} /\ mgr # "aborted" => Clean(a)

(* An attempt reported SUCCEEDED has published all of its output, and that  *)
(* output is still there whatever cancels came later (tasks.py 203-241).    *)
SucceededIsComplete ==
  \A a \in Attempts : state[a] = "SUCCEEDED" => Complete(a)

(* No terminal state is exposed, by GET or by the answer to a DELETE, while *)
(* the executor thread still runs (tasks.py 155-187).                       *)
TerminalIsQuiet ==
  \A a \in Attempts :
    state[a] \in Terminal /\ mgr # "aborted" => thread[a] = "ended"

(* A DELETE answered 200 names an attempt whose thread has stopped and that *)
(* is terminal, unless a crash took the record with it (tasks.py 155-187).  *)
ConfirmedMeansStopped ==
  \A c \in Clients :
    LET a == reply[c].at IN
    reply[c].code = "confirmed" /\ mgr # "aborted" =>
      /\ state[a] \in Terminal \cup {"gone"}
      /\ thread[a] \notin Running

(* A published manifest always describes data that is there: files are      *)
(* written before it and, unless the store refuses a delete, go with it     *)
(* (shuffle.py 72-149, tasks.py 679-717).                                   *)
ManifestDescribesData ==
  \A a \in Attempts :
    manifest[a] /\ ~refused[a] /\ mgr # "aborted" =>
      \A p \in Partitions : part[a][p] = "whole"

(* The attempt keeps its state, or loses it in a crash, and its objects. *)
Kept(a) ==
  /\ state'[a] \in {state[a], "gone"}
  /\ part'[a] = part[a] /\ manifest'[a] = manifest[a] /\ output'[a] = output[a]

(* A terminal attempt never changes again: no later submit, cancel or close *)
(* moves its state or touches its objects; only a crash forgets the record  *)
(* (tasks.py 116-241).                                                      *)
TerminalIsFinal ==
  [][\A a \in Attempts : state[a] \in Terminal /\ mgr # "aborted" => Kept(a)]_vars

(* A cancelled attempt becomes terminal, unless the process dies or the     *)
(* store refuses the cleanup (tasks.py 155-241).                            *)
CancelSettles ==
  \A a \in Attempts :
    token[a] ~> state[a] \in Terminal \cup {"gone"} \/ refused[a]

(* What the Coordinator can know of an attempt. A Worker that gave up its   *)
(* shutdown answers nobody any more.                                        *)
View(a) ==
  CASE state[a] = "absent"                                            -> "none"
    [] state[a] # "absent" /\ (state[a] = "gone" \/ mgr = "aborted")   -> "lost"
    [] mgr # "aborted" /\ state[a] \in Live /\ ~token[a]               -> "live"
    [] mgr # "aborted" /\ state[a] \in Live /\ token[a]                -> "dying"
    [] mgr # "aborted" /\ state[a] = "SUCCEEDED" /\ Complete(a)        -> "ok"
    [] mgr # "aborted" /\ state[a] \in Terminal \ {"SUCCEEDED"} /\ Clean(a) -> "dead"
    [] OTHER -> "broken"

Lives == INSTANCE WorkerAttempt WITH view <- [a \in Attempts |-> View(a)]

(* The Worker gives every attempt the life the Coordinator counts on: it is *)
(* accepted once; once told to stop it never succeeds, even if its thread   *)
(* had already returned; it succeeds only with all its output in the store, *)
(* ends otherwise only without any, and then stays as it is                 *)
(* (tasks.py 116-241).                                                      *)
ImplementsWorkerAttempt == Lives!Spec
============================================================================
