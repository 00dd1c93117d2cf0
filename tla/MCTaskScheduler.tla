-------------------------- MODULE MCTaskScheduler --------------------------
(* Instances of TaskScheduler for TLC: one stage of two tasks, and a chain  *)
(* of two stages of one task each. As StagePlanner numbers them, the root   *)
(* stage has the lowest id and the stage it depends on the next.            *)
EXTENDS TaskScheduler, TLC

CONSTANTS t1, t2

OneStage   == {1}
NoDeps     == (1 :> {})
BothInOne  == (t1 :> 1 @@ t2 :> 1)

TwoStages  == {1, 2}
ChainDeps  == (1 :> {2} @@ 2 :> {})
OneInEach  == (t1 :> 1 @@ t2 :> 2)

Symmetry   == Permutations(Workers) \cup Permutations(Tasks)
WorkerSymmetry == Permutations(Workers)
============================================================================
