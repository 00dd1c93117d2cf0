------------------------ MODULE WorkerTasks_proofs ------------------------
(***************************************************************************)
(* Proofs about the Worker's task manager, for every set of attempts,      *)
(* clients and submissions and every number of partitions.                 *)
(*                                                                         *)
(* The safety properties are not inductive: they speak of terminal states, *)
(* and whether cleanup or success is right depends on what the thread had  *)
(* put in the store when it stopped. IndInv adds that: for every place of  *)
(* the thread, what the store holds then, and that a busy thread always    *)
(* has a pending future and a RUNNING record.                              *)
(***************************************************************************)
EXTENDS WorkerTasks, TLAPS

Busy == Running \cup {"returned", "raised"}

(* Only a shuffle write writes data files. *)
KindInv(a) == thread[a] = "write" => IsShuffle(a)

(* A shuffle write has no result artifact, any other task no shuffle files. *)
Shape(a) ==
  /\ IsShuffle(a) => ~output[a]
  /\ ~IsShuffle(a) => part[a] = NoParts /\ ~manifest[a]

(* What the record says while the thread is where it is. *)
RecordInv(a) ==
  /\ state[a] \in {"absent", "CREATED"} => thread[a] = "idle" /\ Clean(a)
  /\ state[a] = "CREATED" => future[a]
  /\ thread[a] \in Busy => state[a] = "RUNNING" /\ future[a]
  /\ state[a] \in Terminal => thread[a] = "ended"
  /\ state[a] \in {"FAILED", "CANCELED"} => Clean(a)

(* What the store holds while the thread is where it is. *)
StoreInv(a) ==
  /\ thread[a] = "work" => Clean(a)
  /\ thread[a] = "work" => next[a] = 0
  /\ thread[a] = "write" => ~manifest[a]
  /\ thread[a] = "write" => \A p \in Partitions : p < next[a] => part[a][p] = "whole"
  /\ thread[a] = "publish" /\ IsShuffle(a) => \A p \in Partitions : part[a][p] = "whole"
  /\ thread[a] = "returned" => Complete(a)

(* Success is for good, even through an aborted shutdown. *)
SuccessInv(a) ==
  state[a] = "SUCCEEDED" => thread[a] = "ended" /\ ~future[a] /\ Complete(a)

ManifestInv(a) ==
  ~refused[a] /\ manifest[a] => \A p \in Partitions : part[a][p] = "whole"

ReplyInv(c) ==
  reply[c].code = "confirmed" =>
    reply[c].at \in Attempts /\ state[reply[c].at] \in Terminal \cup {"gone"}

AttemptInv(a) ==
  /\ KindInv(a)
  /\ Shape(a)
  /\ SuccessInv(a)
  /\ mgr # "aborted" => RecordInv(a) /\ StoreInv(a) /\ ManifestInv(a)

IndInv ==
  /\ TypeOK
  /\ \A a \in Attempts : AttemptInv(a)
  /\ \A c \in Clients : mgr # "aborted" => ReplyInv(c)

(* What an action touches of one attempt. *)
Frame(a) ==
  UNCHANGED <<sub[a], state[a], token[a], future[a], thread[a], next[a],
              part[a], manifest[a], output[a], refused[a]>>

----------------------------------------------------------------------------
(* An attempt nothing touches keeps its invariant unless the manager leaves *)
(* the aborted state, which it never does.                                  *)
LEMMA FrameKeeps ==
  ASSUME NEW a \in Attempts, AttemptInv(a), Frame(a),
         mgr = "aborted" => mgr' = "aborted"
  PROVE  AttemptInv(a)'
BY DEF AttemptInv, Frame, KindInv, Shape, SuccessInv, RecordInv, StoreInv, ManifestInv,
       IsShuffle, Clean, Complete, NoParts

(* A confirmed answer stays true as long as terminal records stay terminal. *)
LEMMA ReplyKeeps ==
  ASSUME NEW c \in Clients, mgr # "aborted" => ReplyInv(c),
         mgr = "aborted" => mgr' = "aborted", reply'[c] = reply[c],
         \A a \in Attempts : state[a] \in Terminal \cup {"gone"} =>
                               state'[a] \in Terminal \cup {"gone"}
  PROVE  (mgr # "aborted" => ReplyInv(c))'
BY DEF ReplyInv

(* The types are preserved by every step (tasks.py 116-432). *)
LEMMA TypeStep == ASSUME TypeOK, [Next]_vars PROVE TypeOK'
<1> USE DEF record, store
<1>1. ASSUME NEW a \in Attempts, NEW s \in Submissions, Submit(a, s) PROVE TypeOK'
  <2>1. RecordOK'
    BY <1>1 DEF Submit, TypeOK, RecordOK, Live
  <2> QED BY <1>1, <2>1 DEF Submit, TypeOK, ThreadOK, StoreOK, CallsOK
<1>2. ASSUME NEW c \in Clients, NEW a \in Attempts, Cancel(c, a) PROVE TypeOK'
  <2>1. RecordOK'
    BY <1>2 DEF Cancel, TypeOK, RecordOK
  <2>2. CallsOK'
    <3>1. Answer(a) \in Answers
      BY DEF Answer, Answers
    <3> QED BY <1>2, <3>1 DEF Cancel, TypeOK, CallsOK
  <2> QED BY <1>2, <2>1, <2>2 DEF Cancel, TypeOK, ThreadOK, StoreOK
<1>3. ASSUME NEW c \in Clients, CancelReturn(c) \/ CancelTimeout(c) PROVE TypeOK'
  <2>1. CallsOK'
    <3>1. call[c] \in Attempts \cup {None}
      BY DEF TypeOK, CallsOK
    <3>2. Answer(call[c]) \in Answers /\ [at |-> call[c], code |-> "unconfirmed"] \in Answers
      BY <3>1 DEF Answer, Answers
    <3> QED BY <1>3, <3>2 DEF CancelReturn, CancelTimeout, TypeOK, CallsOK
  <2> QED BY <1>3, <2>1 DEF CancelReturn, CancelTimeout, TypeOK, RecordOK, ThreadOK, StoreOK
<1>4. ASSUME Close \/ CloseReturn \/ CloseTimeout \/ Exit \/ UNCHANGED vars PROVE TypeOK'
  <2>1. RecordOK'
    BY <1>4 DEF Close, CloseReturn, CloseTimeout, Exit, vars, TypeOK, RecordOK
  <2> QED BY <1>4, <2>1 DEF Close, CloseReturn, CloseTimeout, Exit, vars, TypeOK,
            ThreadOK, StoreOK, CallsOK
<1>5. ASSUME Crash PROVE TypeOK'
  <2>1. RecordOK' /\ ThreadOK' /\ StoreOK'
    BY <1>5 DEF Crash, TypeOK, RecordOK, ThreadOK, StoreOK, ThreadPc
  <2>2. CallsOK'
    <3>1. \A c \in Clients : [at |-> call[c], code |-> "unconfirmed"] \in Answers
      BY DEF TypeOK, CallsOK, Answers
    <3> QED BY <1>5, <3>1 DEF Crash, TypeOK, CallsOK
  <2> QED BY <2>1, <2>2 DEF TypeOK
<1>6. ASSUME NEW a \in Attempts, NEW final \in Terminal \cup {"RUNNING"}, Settle(a, final), StoreOK'
      PROVE  TypeOK'
  BY <1>6 DEF Settle, TypeOK, RecordOK, ThreadOK, CallsOK, ThreadPc, Live
<1>7. ASSUME NEW a \in Attempts, DeleteAll(a) PROVE StoreOK'
  BY <1>7 DEF DeleteAll, TypeOK, StoreOK, NoParts, FileState
<1>8. ASSUME NEW a \in Attempts, NEW k \in 0 .. NParts + 1, DeletePrefix(a, k) PROVE StoreOK'
  <2>1. part' \in [Attempts -> [Partitions -> FileState]]
    BY <1>8 DEF DeletePrefix, TypeOK, StoreOK, FileState
  <2>2. manifest' \in [Attempts -> BOOLEAN]
    BY <1>8 DEF DeletePrefix, TypeOK, StoreOK
  <2> QED BY <1>8, <2>1, <2>2 DEF DeletePrefix, TypeOK, StoreOK
<1>9. ASSUME NEW a \in Attempts, LoopStep(a) PROVE TypeOK'
  <2>1. CASE Start(a)
    BY <2>1, NPartsAssumption DEF Start, TypeOK, RecordOK, ThreadOK, StoreOK, CallsOK,
          ThreadPc, Live, Partitions
  <2>2. CASE Succeed(a)
    BY <2>2, <1>6 DEF Succeed, TypeOK, StoreOK, Terminal
  <2>3. CASE CleanUp(a)
    BY <2>3, <1>6, <1>7 DEF CleanUp, Terminal
  <2>4. CASE CleanUpFails(a)
    BY <2>4, <1>6, <1>8 DEF CleanUpFails
  <2>5. CASE Abort(a)
    <3>1. StoreOK'
      BY <2>5, <1>7, <1>8 DEF Abort
    <3>2. RecordOK'
      BY <2>5 DEF Abort, TypeOK, RecordOK, Terminal
    <3> QED BY <2>5, <3>1, <3>2 DEF Abort, TypeOK, ThreadOK, CallsOK
  <2> QED BY <1>9, <2>1, <2>2, <2>3, <2>4, <2>5 DEF LoopStep
<1>10. ASSUME NEW a \in Attempts, ThreadStep(a) PROVE TypeOK'
  <2>1. RecordOK' /\ CallsOK'
    BY <1>10 DEF ThreadStep, Compute, WritePart, Publish, Fail, ThreadExit, TypeOK, RecordOK, CallsOK
  <2>2. ThreadOK'
    <3>1. CASE Compute(a) \/ Publish(a) \/ Fail(a) \/ ThreadExit(a)
      BY <3>1 DEF Compute, Publish, Fail, ThreadExit, CheckThen, TypeOK, ThreadOK, ThreadPc
    <3>2. CASE WritePart(a)
      <4>1. thread' \in [Attempts -> ThreadPc]
        BY <3>2 DEF WritePart, CheckThen, TypeOK, ThreadOK, ThreadPc
      <4>2. next[a] \in Partitions /\ (next[a] + 1 < NParts => next[a] + 1 \in Partitions)
        BY NPartsAssumption DEF TypeOK, ThreadOK, Partitions
      <4>3. next' \in [Attempts -> Partitions]
        BY <3>2, <4>2 DEF WritePart, TypeOK, ThreadOK
      <4> QED BY <4>1, <4>3 DEF ThreadOK
    <3> QED BY <1>10, <3>1, <3>2 DEF ThreadStep
  <2>3. part' \in [Attempts -> [Partitions -> FileState]]
    <3>1. next[a] \in Partitions /\ {"torn", "whole"} \subseteq FileState
      BY DEF TypeOK, ThreadOK, FileState
    <3>2. \A f \in FileState : [part EXCEPT ![a][next[a]] = f] \in [Attempts -> [Partitions -> FileState]]
      BY <3>1 DEF TypeOK, StoreOK
    <3>3. CASE UNCHANGED part
      BY <3>3 DEF TypeOK, StoreOK
    <3>4. CASE \E f \in {"torn", "whole"} : part' = [part EXCEPT ![a][next[a]] = f]
      BY <3>1, <3>2, <3>4
    <3> QED BY <1>10, <3>3, <3>4 DEF ThreadStep, Compute, WritePart, Publish, Fail, ThreadExit
  <2>4. /\ manifest' \in [Attempts -> BOOLEAN] /\ output' \in [Attempts -> BOOLEAN]
        /\ refused' \in [Attempts -> BOOLEAN]
    BY <1>10 DEF ThreadStep, Compute, WritePart, Publish, Fail, ThreadExit, TypeOK, StoreOK
  <2> QED BY <2>1, <2>2, <2>3, <2>4 DEF TypeOK, StoreOK
<1> QED
  BY <1>1, <1>2, <1>3, <1>4, <1>5, <1>9, <1>10 DEF Next

----------------------------------------------------------------------------
(* Deleting everything leaves a clean attempt, whatever its kind. *)
LEMMA DeleteAllCleans ==
  ASSUME TypeOK, NEW a \in Attempts, Shape(a), DeleteAll(a), sub' = sub
  PROVE  Clean(a)' /\ Shape(a)'
BY DEF TypeOK, StoreOK, DeleteAll, Shape, Clean, IsShuffle, NoParts

(* A refused delete leaves objects of the attempt's own kind only. *)
LEMMA DeletePrefixShape ==
  ASSUME TypeOK, NEW a \in Attempts, NEW k \in 0 .. NParts + 1, Shape(a),
         DeletePrefix(a, k), sub' = sub
  PROVE  Shape(a)'
BY DEF TypeOK, StoreOK, DeletePrefix, Shape, IsShuffle, NoParts

(* An action of one attempt leaves the other attempts alone. *)
LEMMA OthersUntouched ==
  ASSUME TypeOK, NEW a \in Attempts, ThreadStep(a) \/ LoopStep(a),
         NEW b \in Attempts, b # a
  PROVE  Frame(b) /\ mgr' = mgr
BY DEF TypeOK, RecordOK, ThreadOK, StoreOK, ThreadStep, Compute, WritePart, Publish, Fail,
       ThreadExit, LoopStep, Start, Succeed, CleanUp, CleanUpFails, Abort, Settle,
       DeleteAll, DeletePrefix, CheckThen, Frame, record, store

----------------------------------------------------------------------------
(* A step of the executor thread keeps the invariant of its attempt. *)
LEMMA ThreadKeeps ==
  ASSUME IndInv, NEW a \in Attempts, ThreadStep(a)
  PROVE  AttemptInv(a)'
<1> USE DEF record, store
<1>0. TypeOK /\ AttemptInv(a)
  BY DEF IndInv
<1>1. sub' = sub /\ state' = state /\ future' = future /\ mgr' = mgr /\ thread[a] \notin {"idle", "ended"}
  BY DEF ThreadStep, Compute, WritePart, Publish, Fail, ThreadExit, Running
<1>2. KindInv(a)' /\ Shape(a)'
  <2>1. KindInv(a)'
    BY <1>0, <1>1 DEF ThreadStep, Compute, WritePart, Publish, Fail, ThreadExit, CheckThen, AttemptInv,
          KindInv, IsShuffle, TypeOK, ThreadOK
  <2>2. Shape(a)'
    BY <1>0, <1>1 DEF ThreadStep, Compute, WritePart, Publish, Fail, ThreadExit, AttemptInv,
          KindInv, Shape, IsShuffle, TypeOK, StoreOK
  <2> QED BY <2>1, <2>2
<1>3. SuccessInv(a)'
  BY <1>0, <1>1 DEF AttemptInv, SuccessInv
<1>4. ASSUME mgr # "aborted" PROVE RecordInv(a)' /\ StoreInv(a)' /\ ManifestInv(a)'
  <2>1. thread[a] \in Busy /\ state[a] = "RUNNING" /\ future[a] /\ RecordInv(a) /\ StoreInv(a) /\ ManifestInv(a)
    BY <1>0, <1>1, <1>4 DEF AttemptInv, TypeOK, ThreadOK, ThreadPc, RecordInv, Busy, Running
  <2>2. RecordInv(a)'
    BY <1>1, <2>1 DEF RecordInv, Terminal
  <2>3. CASE Compute(a)
    <3>1. thread[a] = "work" /\ part' = part /\ manifest' = manifest /\ output' = output /\ next' = next
      BY <2>3 DEF Compute
    <3>2. thread'[a] = "raised" \/ thread'[a] = "write" \/ (thread'[a] = "publish" /\ ~IsShuffle(a))
      BY <2>3, <1>0 DEF Compute, CheckThen, TypeOK, ThreadOK
    <3>3. next[a] = 0 /\ ~manifest[a]
      BY <3>1, <2>1 DEF StoreInv, Clean
    <3>4. StoreInv(a)'
      BY <1>1, <3>1, <3>2, <3>3 DEF StoreInv, IsShuffle, Partitions
    <3> QED BY <2>2, <3>1, <3>3, <3>4 DEF ManifestInv
  <2>4. CASE WritePart(a)
    <3>1. ~manifest'[a] /\ manifest' = manifest /\ thread'[a] \in {"write", "publish", "raised"}
      BY <2>1, <2>4, <1>0 DEF WritePart, CheckThen, StoreInv, TypeOK, ThreadOK, StoreOK
    <3>2. \A p \in Partitions : p <= next[a] => part'[a][p] = "whole"
      <4>1. part' = [part EXCEPT ![a][next[a]] = "whole"] /\ thread[a] = "write"
        BY <2>4 DEF WritePart
      <4>2. part \in [Attempts -> [Partitions -> FileState]] /\ next[a] \in Partitions
        BY <1>0 DEF TypeOK, StoreOK, ThreadOK
      <4>3. \A p \in Partitions : p < next[a] => part[a][p] = "whole"
        BY <2>1, <4>1 DEF StoreInv
      <4>4. \A p \in Partitions : p <= next[a] => p < next[a] \/ p = next[a]
        BY <4>2, NPartsAssumption DEF Partitions
      <4> QED BY <4>1, <4>2, <4>3, <4>4
    <3>3. thread'[a] = "write" => next'[a] = next[a] + 1
      BY <2>4, <1>0 DEF WritePart, CheckThen, TypeOK, ThreadOK
    <3>4. thread'[a] = "publish" => next[a] + 1 >= NParts
      BY <2>4, <1>0, NPartsAssumption DEF WritePart, CheckThen, TypeOK, ThreadOK, Partitions
    <3>5. StoreInv(a)'
      BY <3>1, <3>2, <3>3, <3>4, <1>0, <1>1, NPartsAssumption DEF StoreInv, TypeOK, ThreadOK, Partitions
    <3> QED BY <2>2, <3>1, <3>5 DEF ManifestInv
  <2>5. CASE Publish(a)
    <3>1. part' = part /\ thread'[a] \in {"returned", "raised"}
      BY <2>5, <1>0 DEF Publish, CheckThen, TypeOK, ThreadOK
    <3>2. Complete(a)'
      BY <2>5, <2>1, <1>0, <1>1 DEF Publish, Complete, IsShuffle, StoreInv, TypeOK, StoreOK
    <3>3. ManifestInv(a)'
      BY <2>5, <2>1, <1>0, <1>1, <3>1 DEF Publish, ManifestInv, IsShuffle, StoreInv, TypeOK, StoreOK
    <3> QED BY <2>2, <3>1, <3>2, <3>3 DEF StoreInv
  <2>6. CASE Fail(a)
    <3>1. thread'[a] = "raised"
      BY <2>6, <1>0 DEF Fail, TypeOK, ThreadOK
    <3>2. ManifestInv(a)'
      BY <2>6, <2>1, <1>0, <1>1 DEF Fail, ManifestInv, IsShuffle, StoreInv, TypeOK, StoreOK
    <3> QED BY <2>2, <3>1, <3>2 DEF StoreInv
  <2>7. CASE ThreadExit(a)
    BY <2>7, <1>4 DEF ThreadExit
  <2> QED BY <2>3, <2>4, <2>5, <2>6, <2>7 DEF ThreadStep
<1> QED BY <1>1, <1>2, <1>3, <1>4 DEF AttemptInv

(* A step of the coroutine keeps the invariant of its attempt. *)
LEMMA LoopKeeps ==
  ASSUME IndInv, NEW a \in Attempts, LoopStep(a)
  PROVE  AttemptInv(a)'
<1> USE DEF record, store
<1>0. TypeOK /\ AttemptInv(a)
  BY DEF IndInv
<1>1. sub' = sub /\ mgr' = mgr
  BY DEF LoopStep, Start, Succeed, CleanUp, CleanUpFails, Abort, Settle
<1>2. CASE Start(a)
  <2>1. thread'[a] = "work" /\ state'[a] = "RUNNING" /\ next'[a] = 0 /\ future' = future
        /\ part' = part /\ manifest' = manifest /\ output' = output /\ refused' = refused
    BY <1>0, <1>2 DEF Start, TypeOK, RecordOK, ThreadOK
  <2>2. KindInv(a)' /\ Shape(a)' /\ SuccessInv(a)'
    BY <1>0, <1>1, <2>1 DEF KindInv, Shape, SuccessInv, AttemptInv, IsShuffle
  <2>3. ASSUME mgr # "aborted" PROVE RecordInv(a)' /\ StoreInv(a)' /\ ManifestInv(a)'
    <3>1. Clean(a) /\ future[a] /\ ManifestInv(a)
      BY <1>0, <1>2, <2>3 DEF AttemptInv, RecordInv, Start
    <3> QED BY <2>1, <3>1 DEF RecordInv, StoreInv, ManifestInv, Clean, NoParts, Terminal
  <2> QED BY <1>1, <2>2, <2>3 DEF AttemptInv
<1>3. CASE Succeed(a)
  <2>1. thread[a] = "returned" /\ mgr # "aborted" /\ thread'[a] = "ended" /\ state'[a] = "SUCCEEDED" /\ ~future'[a]
        /\ part' = part /\ manifest' = manifest /\ output' = output /\ refused' = refused
    BY <1>0, <1>3 DEF Succeed, Settle, Resumed, TypeOK, RecordOK, ThreadOK
  <2>2. Complete(a)' /\ Shape(a)'
    BY <1>0, <1>1, <2>1 DEF AttemptInv, StoreInv, Complete, Shape, IsShuffle
  <2> QED BY <1>0, <2>1, <2>2 DEF AttemptInv, KindInv, SuccessInv, RecordInv, StoreInv, ManifestInv, Busy, Running
<1>4. CASE CleanUp(a)
  <2>1. thread'[a] = "ended" /\ state'[a] \in {"CANCELED", "FAILED"}
    BY <1>0, <1>4 DEF CleanUp, Settle, TypeOK, RecordOK, ThreadOK
  <2>2. Clean(a)' /\ Shape(a)'
    BY <1>0, <1>1, <1>4, DeleteAllCleans DEF CleanUp, AttemptInv
  <2> QED BY <2>1, <2>2 DEF AttemptInv, KindInv, SuccessInv, RecordInv, StoreInv, ManifestInv, Busy, Running, Clean
<1>5. CASE CleanUpFails(a)
  <2>1. thread'[a] = "ended" /\ state'[a] = "RUNNING" /\ refused'[a]
    BY <1>0, <1>5 DEF CleanUpFails, DeletePrefix, Settle, TypeOK, RecordOK, ThreadOK, StoreOK
  <2>2. Shape(a)'
    BY <1>0, <1>1, <1>5, DeletePrefixShape DEF CleanUpFails, AttemptInv
  <2> QED BY <2>1, <2>2 DEF AttemptInv, KindInv, SuccessInv, RecordInv, StoreInv, ManifestInv, Busy, Running, Terminal
<1>6. CASE Abort(a)
  <2>1. thread' = thread /\ mgr = "aborted" /\ future[a]
    BY <1>6 DEF Abort
  <2>2. Shape(a)'
    BY <1>0, <1>1, <1>6, DeletePrefixShape, DeleteAllCleans DEF Abort, AttemptInv
  <2>3. state'[a] # "SUCCEEDED"
    BY <1>0, <1>6, <2>1 DEF Abort, AttemptInv, SuccessInv, TypeOK, RecordOK
  <2> QED BY <1>0, <1>1, <2>1, <2>2, <2>3 DEF AttemptInv, KindInv, SuccessInv, IsShuffle
<1> QED BY <1>2, <1>3, <1>4, <1>5, <1>6 DEF LoopStep

----------------------------------------------------------------------------
(* The initial state satisfies the invariant. *)
LEMMA InitInv == Init => IndInv
<1> SUFFICES ASSUME Init PROVE IndInv
  OBVIOUS
<1>1. TypeOK
  BY NPartsAssumption DEF Init, TypeOK, RecordOK, ThreadOK, StoreOK, CallsOK, Answers, NoParts, FileState,
     ThreadPc, Partitions
<1>2. ASSUME NEW a \in Attempts PROVE AttemptInv(a)
  BY <1>2 DEF Init, AttemptInv, KindInv, Shape, SuccessInv, RecordInv, StoreInv, ManifestInv, Clean, NoParts,
     Busy, Running, Terminal
<1> QED BY <1>1, <1>2 DEF IndInv, Init, ReplyInv

(* No step of any actor disturbs the invariant. *)
LEMMA NextInv == ASSUME IndInv, [Next]_vars PROVE IndInv'
<1> USE DEF record, store
<1>0. TypeOK /\ TypeOK'
  BY TypeStep DEF IndInv
<1>1. ASSUME NEW a \in Attempts, ThreadStep(a) \/ LoopStep(a) PROVE IndInv'
  <2>1. \A b \in Attempts : AttemptInv(b)'
    BY <1>0, <1>1, ThreadKeeps, LoopKeeps, OthersUntouched, FrameKeeps DEF IndInv
  <2>2. mgr' = mgr /\ reply' = reply
    BY <1>1 DEF ThreadStep, Compute, WritePart, Publish, Fail, ThreadExit, LoopStep, Start, Succeed,
       CleanUp, CleanUpFails, Abort, Settle
  <2>3. ASSUME mgr # "aborted", state[a] \in Terminal \cup {"gone"} PROVE state'[a] \in Terminal \cup {"gone"}
    <3>1. thread[a] \notin Busy /\ state[a] # "CREATED"
      BY <2>3 DEF IndInv, AttemptInv, RecordInv, Terminal
    <3>2. ThreadStep(a) => state' = state
      BY DEF ThreadStep, Compute, WritePart, Publish, Fail, ThreadExit
    <3>3. ~LoopStep(a)
      BY <2>3, <3>1 DEF LoopStep, Start, Succeed, CleanUp, CleanUpFails, Abort, Resumed, Busy
    <3> QED BY <1>1, <2>3, <3>2, <3>3
  <2>4. \A b \in Attempts : b # a => state'[b] = state[b]
    BY <1>0, <1>1, OthersUntouched DEF Frame
  <2>5. \A c \in Clients : (mgr # "aborted" => ReplyInv(c))'
    BY <2>2, <2>3, <2>4 DEF IndInv, ReplyInv
  <2> QED BY <1>0, <2>1, <2>5 DEF IndInv
<1>2. ASSUME NEW a \in Attempts, NEW s \in Submissions, Submit(a, s) PROVE IndInv'
  <2>1. \A b \in Attempts : b # a => Frame(b)
    BY <1>0, <1>2 DEF Submit, Frame, TypeOK, RecordOK
  <2>2. AttemptInv(a)'
    <3>1. thread[a] = "idle" /\ Clean(a)
      BY <1>2 DEF IndInv, AttemptInv, RecordInv, Submit
    <3>2. state'[a] = "CREATED" /\ future'[a] /\ thread' = thread /\ part' = part /\ manifest' = manifest
          /\ output' = output
      BY <1>0, <1>2 DEF Submit, TypeOK, RecordOK
    <3> QED BY <3>1, <3>2 DEF AttemptInv, KindInv, Shape, SuccessInv, RecordInv, StoreInv, ManifestInv, Clean,
               NoParts, Busy, Running, Terminal
  <2>3. mgr' = mgr /\ reply' = reply /\ \A b \in Attempts : state[b] \in Terminal \cup {"gone"} => state'[b] = state[b]
    BY <1>0, <1>2 DEF Submit, TypeOK, RecordOK, Terminal
  <2> QED BY <1>0, <2>1, <2>2, <2>3, FrameKeeps, ReplyKeeps DEF IndInv
<1>3. ASSUME NEW c \in Clients, NEW a \in Attempts, Cancel(c, a) PROVE IndInv'
  <2>1. mgr' = mgr /\ state' = state /\ mgr = "open"
    BY <1>3 DEF Cancel
  <2>2. \A b \in Attempts : AttemptInv(b)'
    BY <1>3 DEF Cancel, IndInv, AttemptInv, KindInv, Shape, SuccessInv, RecordInv, StoreInv, ManifestInv, Clean,
       Complete, IsShuffle
  <2>3. \A d \in Clients : ReplyInv(d)'
    BY <1>0, <1>3, <2>1 DEF Cancel, IndInv, ReplyInv, Answer, TypeOK, CallsOK
  <2> QED BY <1>0, <2>2, <2>3 DEF IndInv
<1>4. ASSUME NEW c \in Clients, CancelReturn(c) \/ CancelTimeout(c) PROVE IndInv'
  <2>1. mgr' = mgr /\ state' = state /\ call[c] \in Attempts
    BY <1>0, <1>4 DEF CancelReturn, CancelTimeout, TypeOK, CallsOK
  <2>2. \A b \in Attempts : Frame(b)
    BY <1>4 DEF CancelReturn, CancelTimeout, Frame
  <2>3. \A d \in Clients : (mgr # "aborted" => ReplyInv(d))'
    BY <1>0, <1>4, <2>1 DEF CancelReturn, CancelTimeout, IndInv, ReplyInv, Answer, TypeOK, CallsOK
  <2> QED BY <1>0, <2>1, <2>2, <2>3, FrameKeeps DEF IndInv
<1>5. ASSUME Close PROVE IndInv'
  <2>1. state' = state /\ reply' = reply /\ mgr = "open"
    BY <1>5 DEF Close
  <2>2. \A b \in Attempts : AttemptInv(b)'
    BY <1>5 DEF Close, IndInv, AttemptInv, KindInv, Shape, SuccessInv, RecordInv, StoreInv, ManifestInv, Clean,
       Complete, IsShuffle
  <2> QED BY <1>0, <2>1, <2>2 DEF IndInv, ReplyInv
<1>6. ASSUME CloseReturn \/ CloseTimeout \/ Exit \/ UNCHANGED vars PROVE IndInv'
  <2>1. state' = state /\ reply' = reply /\ (mgr = "aborted" => mgr' = "aborted")
    BY <1>6 DEF CloseReturn, CloseTimeout, Exit, vars
  <2>2. \A b \in Attempts : Frame(b)
    BY <1>6 DEF CloseReturn, CloseTimeout, Exit, vars, Frame
  <2> QED BY <1>0, <2>1, <2>2, FrameKeeps, ReplyKeeps DEF IndInv
<1>7. ASSUME Crash PROVE IndInv'
  <2>1. mgr # "aborted" /\ part' = part /\ manifest' = manifest /\ output' = output
        /\ refused' = refused /\ sub' = sub
    BY <1>7 DEF Crash
  <2>2. \A b \in Attempts : thread'[b] = "idle" /\ (state'[b] = "gone" \/ (state'[b] = "absent" /\ state[b] = "absent"))
    BY <1>7 DEF Crash
  <2>3. \A b \in Attempts : AttemptInv(b)'
    BY <2>1, <2>2 DEF IndInv, AttemptInv, KindInv, Shape, SuccessInv, RecordInv, StoreInv, ManifestInv, Clean,
       IsShuffle, Busy, Running, Terminal
  <2>4. \A c \in Clients : ReplyInv(c)'
    <3> SUFFICES ASSUME NEW c \in Clients, reply'[c].code = "confirmed"
                 PROVE  reply'[c].at \in Attempts /\ state'[reply'[c].at] \in Terminal \cup {"gone"}
      BY DEF ReplyInv
    <3>1. reply'[c] = reply[c]
      BY <1>7 DEF Crash
    <3>2. reply[c].at \in Attempts /\ state[reply[c].at] # "absent"
      BY <2>1, <3>1 DEF IndInv, ReplyInv, Terminal
    <3> QED BY <2>2, <3>1, <3>2
  <2> QED BY <1>0, <2>3, <2>4 DEF IndInv
<1> QED
  BY <1>1, <1>2, <1>3, <1>4, <1>5, <1>6, <1>7 DEF Next

----------------------------------------------------------------------------
(* IndInv is an invariant of the task manager (tasks.py 84-432). *)
THEOREM Invariance == Spec => []IndInv
<1>1. IndInv /\ [Next]_vars => IndInv'
  BY NextInv
<1> QED BY InitInv, <1>1, PTL DEF Spec

(* The task manager keeps its types (tasks.py 84-432). *)
THEOREM TypeCorrect == Spec => []TypeOK
<1>1. IndInv => TypeOK
  BY DEF IndInv
<1> QED BY Invariance, <1>1, PTL

(* A FAILED or CANCELED attempt has left no object behind: the cleanup of   *)
(* _execute deletes whatever the thread wrote after the token was set       *)
(* (tasks.py 203-241, 679-717).                                             *)
THEOREM CleanupCorrect == Spec => []NoDebris
<1>1. IndInv => NoDebris
  BY DEF IndInv, AttemptInv, RecordInv, NoDebris
<1> QED BY Invariance, <1>1, PTL

(* A SUCCEEDED attempt's output is complete and stays so (tasks.py 203-241, *)
(* shuffle.py 72-149).                                                      *)
THEOREM SuccessCorrect == Spec => []SucceededIsComplete
<1>1. IndInv => SucceededIsComplete
  BY DEF IndInv, AttemptInv, SuccessInv, SucceededIsComplete
<1> QED BY Invariance, <1>1, PTL

(* No terminal state is visible while the attempt's thread runs             *)
(* (tasks.py 155-241).                                                      *)
THEOREM QuietCorrect == Spec => []TerminalIsQuiet
<1>1. IndInv => TerminalIsQuiet
  BY DEF IndInv, AttemptInv, RecordInv, TerminalIsQuiet
<1> QED BY Invariance, <1>1, PTL

(* A confirmed cancellation is one of a stopped attempt (tasks.py 155-187). *)
THEOREM ConfirmationCorrect == Spec => []ConfirmedMeansStopped
<1>1. IndInv => ConfirmedMeansStopped
  BY DEF IndInv, AttemptInv, RecordInv, ReplyInv, ConfirmedMeansStopped, Busy, Terminal
<1> QED BY Invariance, <1>1, PTL

(* Unless a delete of its cleanup was refused, a manifest in the store      *)
(* describes data that is there, through cancellation, failure and crash (shuffle.py 72-149).   *)
THEOREM ManifestCorrect == Spec => []ManifestDescribesData
<1>1. IndInv => ManifestDescribesData
  BY DEF IndInv, AttemptInv, ManifestInv, ManifestDescribesData
<1> QED BY Invariance, <1>1, PTL

(* A terminal attempt never changes again, in its state or in the store     *)
(* (tasks.py 116-241).                                                      *)
THEOREM FinalityCorrect == Spec => TerminalIsFinal
<1>1. ASSUME IndInv, [Next]_vars, NEW a \in Attempts, state[a] \in Terminal, mgr # "aborted"
      PROVE  Kept(a)
  <2> USE DEF record, store
  <2>1. TypeOK /\ thread[a] = "ended"
    BY <1>1 DEF IndInv, AttemptInv, RecordInv
  <2>2. ASSUME NEW b \in Attempts, ThreadStep(b) \/ LoopStep(b) PROVE Frame(a)
    <3>1. b # a
      BY <1>1, <2>1, <2>2 DEF ThreadStep, Compute, WritePart, Publish, Fail, ThreadExit, LoopStep,
         Start, Succeed, CleanUp, CleanUpFails, Abort, Resumed, Running, Terminal
    <3> QED BY <2>1, <2>2, <3>1, OthersUntouched
  <2>3. ASSUME NEW b \in Attempts, NEW s \in Submissions, Submit(b, s) PROVE Frame(a)
    BY <1>1, <2>1, <2>3 DEF Submit, Frame, TypeOK, RecordOK, Terminal
  <2>4. ASSUME NEW c \in Clients,
               CancelReturn(c) \/ CancelTimeout(c) \/ \E b \in Attempts : Cancel(c, b)
        PROVE  state' = state /\ store' = store
    BY <2>4 DEF CancelReturn, CancelTimeout, Cancel
  <2>5. ASSUME Close \/ CloseReturn \/ CloseTimeout \/ Exit \/ UNCHANGED vars
        PROVE  state' = state /\ store' = store
    BY <2>5 DEF Close, CloseReturn, CloseTimeout, Exit, vars
  <2>6. ASSUME Crash PROVE state'[a] = "gone" /\ store' = store
    BY <1>1, <2>6 DEF Crash, Terminal
  <2> QED BY <1>1, <2>2, <2>3, <2>4, <2>5, <2>6 DEF Next, Frame, Kept
<1>2. IndInv /\ [Next]_vars =>
        [\A a \in Attempts : state[a] \in Terminal /\ mgr # "aborted" => Kept(a)]_vars
  BY <1>1
<1> QED BY Invariance, <1>2, PTL DEF Spec, TerminalIsFinal

----------------------------------------------------------------------------
(* The Worker implements WorkerAttempt. *)

(* In every state the invariant allows, View has one of its proper values,  *)
(* and this one.                                                            *)
Seen(a) ==
  /\ state[a] = "absent" => View(a) = "none"
  /\ state[a] = "gone" => View(a) = "lost"
  /\ state[a] # "absent" /\ mgr = "aborted" => View(a) = "lost"
  /\ mgr # "aborted" /\ state[a] \in Live /\ ~token[a] => View(a) = "live"
  /\ mgr # "aborted" /\ state[a] \in Live /\ token[a] => View(a) = "dying"
  /\ mgr # "aborted" /\ state[a] = "SUCCEEDED" => View(a) = "ok"
  /\ mgr # "aborted" /\ state[a] \in {"FAILED", "CANCELED"} => View(a) = "dead"

LEMMA ViewSeen == IndInv => \A a \in Attempts : Seen(a)
<1> SUFFICES ASSUME IndInv, NEW a \in Attempts PROVE Seen(a)
  OBVIOUS
<1>1. state[a] = "SUCCEEDED" => Complete(a)
  BY DEF IndInv, AttemptInv, SuccessInv
<1>2. mgr # "aborted" /\ state[a] \in {"FAILED", "CANCELED"} => Clean(a)
  BY DEF IndInv, AttemptInv, RecordInv
<1> QED BY <1>1, <1>2 DEF Seen, View, Live, Terminal

LEMMA ViewSeenNext == (IndInv => \A a \in Attempts : Seen(a))'
BY ViewSeen, PTL

(* What a step may do to one attempt, and why that is a move of             *)
(* WorkerAttempt: its record says so.                                       *)
Moves(a) ==
  \/ Lives!Accept(a) \/ Lives!Stop(a) \/ Lives!Finish(a) \/ Lives!Fail(a)
  \/ Lives!Remove(a) \/ Lives!Lose(a) \/ Lives!Stay(a)

(* An attempt whose record and manager do not change is seen as before. *)
LEMMA SameView ==
  ASSUME IndInv, IndInv', NEW a \in Attempts,
         state'[a] = state[a], token'[a] = token[a], mgr' = mgr
  PROVE  View(a)' = View(a)
<1>1. state[a] \in {"absent", "gone"} \cup Live \cup {"SUCCEEDED", "FAILED", "CANCELED"}
  BY DEF IndInv, TypeOK, RecordOK, Terminal
<1>2. token[a] \in BOOLEAN
  BY DEF IndInv, TypeOK, RecordOK
<1>3. Seen(a) /\ Seen(a)'
  BY ViewSeen, ViewSeenNext
<1> QED BY <1>1, <1>2, <1>3 DEF Seen

LEMMA ViewMoves ==
  ASSUME IndInv, IndInv', [Next]_vars, NEW a \in Attempts PROVE Moves(a)
<1> USE DEF record, store
<1>1. TypeOK /\ TypeOK' /\ Seen(a) /\ Seen(a)'
  BY ViewSeen, ViewSeenNext DEF IndInv
<1>2. ASSUME View(a)' = View(a) PROVE Moves(a)
  BY <1>2 DEF Moves, Lives!Stay
<1>3. ASSUME View(a)' = "lost" PROVE Moves(a)
  BY <1>3 DEF Moves, Lives!Lose
<1>4. ASSUME View(a) = "live", View(a)' \in {"live", "dying", "ok", "dead"} PROVE Moves(a)
  BY <1>4 DEF Moves, Lives!Stay, Lives!Stop, Lives!Finish, Lives!Fail
<1>5. ASSUME View(a) = "dying", View(a)' \in {"dying", "dead"} PROVE Moves(a)
  BY <1>5 DEF Moves, Lives!Stay, Lives!Fail
<1>6. ASSUME NEW b \in Attempts, ThreadStep(b) PROVE Moves(a)
  <2>1. state' = state /\ token' = token /\ mgr' = mgr
    BY <1>6 DEF ThreadStep, Compute, WritePart, Publish, Fail, ThreadExit
  <2> QED BY <1>2, <2>1, SameView
<1>7. ASSUME NEW b \in Attempts, LoopStep(b), b # a PROVE Moves(a)
  <2>1. state'[a] = state[a] /\ token'[a] = token[a] /\ mgr' = mgr
    BY <1>1, <1>7, OthersUntouched DEF Frame, LoopStep, Start, Succeed, CleanUp, CleanUpFails, Abort, Settle
  <2> QED BY <1>2, <2>1, SameView
<1>8. ASSUME LoopStep(a) PROVE Moves(a)
  <2>1. CASE mgr = "aborted"
    <3>1. mgr' = "aborted"
      BY <1>8, <2>1 DEF LoopStep, Start, Succeed, CleanUp, CleanUpFails, Abort, Settle
    <3>2. state[a] # "absent" => state'[a] # "absent"
      BY <1>1, <1>8 DEF LoopStep, Start, Succeed, CleanUp, CleanUpFails, Abort, Settle, TypeOK, RecordOK
    <3> QED BY <1>1, <1>2, <1>3, <3>1, <3>2 DEF Seen
  <2>2. CASE mgr # "aborted"
    <3>1. mgr' = mgr /\ token' = token /\ state[a] \in Live
      <4>1. state[a] = "CREATED" \/ thread[a] \in Busy
        BY <1>8, <2>2 DEF LoopStep, Start, Succeed, CleanUp, CleanUpFails, Abort, Resumed, Busy
      <4> QED BY <1>8, <2>2, <4>1 DEF LoopStep, Start, Succeed, CleanUp, CleanUpFails, Abort, Settle,
                 IndInv, AttemptInv, RecordInv, Live
    <3>2. state'[a] \in Live \cup Terminal
      BY <1>1, <1>8, <2>2 DEF LoopStep, Start, Succeed, CleanUp, CleanUpFails, Abort, Settle, TypeOK,
         RecordOK, Live, Terminal
    <3>3. state'[a] = "SUCCEEDED" => ~token[a]
      BY <1>1, <1>8, <2>2, <3>1 DEF LoopStep, Start, Succeed, CleanUp, CleanUpFails, Abort, Settle, TypeOK,
         RecordOK, Live
    <3>4. CASE token[a]
      <4>1. View(a) = "dying"
        BY <1>1, <2>2, <3>1, <3>4 DEF Seen
      <4>2. View(a)' \in {"dying", "dead"}
        BY <1>1, <2>2, <3>1, <3>2, <3>3, <3>4 DEF Seen, Terminal
      <4> QED BY <1>5, <4>1, <4>2
    <3>5. CASE ~token[a]
      <4>1. View(a) = "live"
        BY <1>1, <2>2, <3>1, <3>5 DEF Seen
      <4>2. View(a)' \in {"live", "ok", "dead"}
        BY <1>1, <2>2, <3>1, <3>2, <3>5 DEF Seen, Terminal
      <4> QED BY <1>4, <4>1, <4>2
    <3> QED BY <3>4, <3>5
  <2> QED BY <2>1, <2>2
<1>9. ASSUME NEW b \in Attempts, NEW s \in Submissions, Submit(b, s) PROVE Moves(a)
  <2>1. CASE b = a
    <3>1. state[a] = "absent" /\ state'[a] = "CREATED" /\ ~token'[a] /\ mgr' # "aborted"
      BY <1>1, <1>9, <2>1 DEF Submit, TypeOK, RecordOK
    <3> QED BY <1>1, <3>1 DEF Seen, Live, Moves, Lives!Accept
  <2>2. CASE b # a
    <3>1. state'[a] = state[a] /\ token'[a] = token[a] /\ mgr' = mgr
      BY <1>1, <1>9, <2>2 DEF Submit, TypeOK, RecordOK
    <3> QED BY <1>2, <3>1, SameView
  <2> QED BY <2>1, <2>2
<1>10. ASSUME NEW c \in Clients,
              CancelReturn(c) \/ CancelTimeout(c) \/ \E b \in Attempts : Cancel(c, b)
       PROVE  Moves(a)
  <2>1. CASE token'[a] = token[a]
    <3>1. state' = state /\ mgr' = mgr
      BY <1>10 DEF CancelReturn, CancelTimeout, Cancel
    <3> QED BY <1>2, <2>1, <3>1, SameView
  <2>2. CASE token'[a] # token[a]
    <3>1. state[a] \in Live /\ state' = state /\ mgr' = mgr /\ mgr = "open" /\ ~token[a] /\ token'[a]
      BY <1>1, <1>10, <2>2 DEF CancelReturn, CancelTimeout, Cancel, TypeOK, RecordOK
    <3> QED BY <1>1, <1>4, <3>1 DEF Seen
  <2> QED BY <2>1, <2>2
<1>11. ASSUME Close PROVE Moves(a)
  <2>1. state' = state /\ mgr # "aborted" /\ mgr' # "aborted" /\ (token[a] => token'[a])
    BY <1>1, <1>11 DEF Close, TypeOK, RecordOK
  <2>2. CASE state[a] \in Live
    BY <1>1, <1>2, <1>4, <2>1, <2>2 DEF Seen, TypeOK, RecordOK
  <2>3. CASE state[a] \notin Live
    <3>1. state[a] \in {"absent", "gone", "SUCCEEDED", "FAILED", "CANCELED"}
      BY <1>1, <2>3 DEF TypeOK, RecordOK, Terminal
    <3> QED BY <1>1, <1>2, <2>1, <3>1 DEF Seen
  <2> QED BY <2>2, <2>3
<1>12. ASSUME CloseReturn \/ Exit \/ UNCHANGED vars PROVE Moves(a)
  <2>1. state' = state /\ token' = token /\ (mgr = "aborted" <=> mgr' = "aborted")
    BY <1>12 DEF CloseReturn, Exit, vars
  <2>2. state[a] \in {"absent", "gone"} \cup Live \cup {"SUCCEEDED", "FAILED", "CANCELED"}
    BY <1>1 DEF TypeOK, RecordOK, Terminal
  <2>3. View(a)' = View(a)
    BY <1>1, <2>1, <2>2 DEF Seen, TypeOK, RecordOK
  <2> QED BY <1>2, <2>3
<1>13. ASSUME CloseTimeout PROVE Moves(a)
  BY <1>1, <1>2, <1>3, <1>13 DEF CloseTimeout, Seen
<1>14. ASSUME Crash PROVE Moves(a)
  BY <1>1, <1>2, <1>3, <1>14 DEF Crash, Seen
<1> QED BY <1>6, <1>7, <1>8, <1>9, <1>10, <1>11, <1>12, <1>13, <1>14 DEF Next

(* The Worker keeps the contract the Coordinator counts on: an attempt is   *)
(* accepted once, never succeeds after it was told to stop, succeeds only   *)
(* with its output complete, ends otherwise only without any, and is final  *)
(* then (tasks.py 116-241).                                                 *)
THEOREM AttemptContractKept == Spec => ImplementsWorkerAttempt
<1>1. Init => Lives!Init
  BY ViewSeen, InitInv DEF Seen, Init, Lives!Init
<1>2. IndInv /\ IndInv' /\ [Next]_vars => [Lives!Next]_([a \in Attempts |-> View(a)])
  <2> SUFFICES ASSUME IndInv, IndInv', [Next]_vars PROVE Lives!Next
    OBVIOUS
  <2>1. \A a \in Attempts : Moves(a)
    BY ViewMoves
  <2>2. \A a \in Attempts : View(a)' \in Lives!Views
    <3> SUFFICES ASSUME NEW a \in Attempts PROVE View(a)' \in Lives!Views
      OBVIOUS
    <3>1. TypeOK' /\ Seen(a)'
      BY ViewSeenNext DEF IndInv
    <3>2. state'[a] \in {"absent", "gone"} \cup Live \cup {"SUCCEEDED", "FAILED", "CANCELED"} /\ token'[a] \in BOOLEAN
      BY <3>1 DEF TypeOK, RecordOK, Terminal
    <3> QED BY <3>1, <3>2 DEF Seen, Lives!Views
  <2> QED BY <2>1, <2>2 DEF Lives!Next, Moves
<1> QED BY <1>1, <1>2, Invariance, PTL DEF Spec, ImplementsWorkerAttempt, Lives!Spec
============================================================================
