---------------------------- MODULE InProcessRuns ----------------------------
(***************************************************************************)
(* The scheduler runs of one query in the in-process executor              *)
(* (execution/distributed.py) and what a cancel does to them.  A join that *)
(* publishes no runtime filter gathers its inputs, so that the runs of one *)
(* input interleave with those of the others; the runs above the join,     *)
(* `Root', follow when all inputs are there.  All runs of the query share  *)
(* one entry of TaskScheduler._cancellations (execution/scheduler.py).     *)
(*                                                                         *)
(* Runs of one part follow each other without an await between them: the   *)
(* step that ends a run also starts the next one.                          *)
(***************************************************************************)
EXTENDS Naturals

CONSTANTS Inputs,     \* the subplans the join gathers
          Root,       \* the rest of the plan
          NoRun,      \* no entry
          MaxRuns     \* runs of a part: its plan nodes, two for an exchange

Parts == Inputs \cup {Root}

ASSUME RootAssumption == Root \notin Inputs
ASSUME InputsAssumption == Inputs # {}
ASSUME NoRunAssumption == NoRun \notin Parts
ASSUME MaxRunsAssumption == MaxRuns \in Nat \ {0}

VARIABLES pc,         \* part -> "waiting", "active" (a run has tasks to wait for),
                      \* "settled" (all have passed their last check), "stopped"
                      \* (a task has seen the token), "failing", "done", "raised"
          left,       \* part -> runs to start, the current one included
          token,      \* part -> the token of its current run is set
          entry,      \* part whose token _cancellations holds
          query,      \* "running", "succeeded", "failed": what execute() did
          hit         \* history: a cancel() has found a run with tasks to stop

vars == <<pc, left, token, entry, query, hit>>

Init == /\ pc = [p \in Parts |-> "waiting"]
        /\ left \in [Parts -> 1..MaxRuns]
        /\ token = [p \in Parts |-> FALSE]
        /\ entry = NoRun /\ query = "running" /\ hit = FALSE

----------------------------------------------------------------------------
(* The runs.                                                               *)

\* TaskScheduler.run begins: a new token takes the query's entry.
StartRun(p) ==
    /\ pc' = [pc EXCEPT ![p] = "active"]
    /\ token' = [token EXCEPT ![p] = FALSE]
    /\ entry' = p

\* An input's coroutine runs for the first time.
StartInput(p) ==
    /\ p \in Inputs /\ pc[p] = "waiting"
    /\ StartRun(p)
    /\ UNCHANGED <<left, query, hit>>

\* The gather returns: the part above begins.
StartRoot ==
    /\ pc[Root] = "waiting" /\ \A p \in Inputs : pc[p] = "done"
    /\ StartRun(Root)
    /\ UNCHANGED <<left, query, hit>>

\* The last task passes its check of the token.
TasksDone(p) ==
    /\ pc[p] = "active" /\ ~token[p]
    /\ pc' = [pc EXCEPT ![p] = "settled"]
    /\ UNCHANGED <<left, token, entry, query, hit>>

\* A task sees the token, and all of the stage end.
TasksStop(p) ==
    /\ pc[p] = "active" /\ token[p]
    /\ pc' = [pc EXCEPT ![p] = "stopped"]
    /\ UNCHANGED <<left, token, entry, query, hit>>

\* A task fails for good.
TaskFails(p) ==
    /\ pc[p] = "active"
    /\ pc' = [pc EXCEPT ![p] = "failing"]
    /\ UNCHANGED <<left, token, entry, query, hit>>

\* The run returns, gives up the entry, whoever holds it, and the next run takes it.
NextRun(p) ==
    /\ pc[p] = "settled" /\ left[p] > 1
    /\ StartRun(p)
    /\ left' = [left EXCEPT ![p] = @ - 1]
    /\ UNCHANGED <<query, hit>>

\* The last run of a part returns.
LastRun(p) ==
    /\ pc[p] = "settled" /\ left[p] = 1
    /\ pc' = [pc EXCEPT ![p] = "done"]
    /\ entry' = NoRun
    /\ query' = IF p = Root THEN "succeeded" ELSE query
    /\ UNCHANGED <<left, token, hit>>

\* Mutant: a stopped run counts as one that returned.
StoppedReturns(p) ==
    /\ pc[p] \in {"stopped", "failing"}
    /\ pc' = [pc EXCEPT ![p] = IF @ = "stopped" THEN "settled" ELSE "raised"]
    /\ entry' = NoRun
    /\ query' = IF p = Root /\ pc[p] = "failing" THEN "failed" ELSE query
    /\ UNCHANGED <<left, token, hit>>

\* A failed run raises; a stopped one returns without outcomes, and reading them
\* raises.
RunRaises(p) ==
    /\ pc[p] \in {"stopped", "failing"}
    /\ pc' = [pc EXCEPT ![p] = "raised"]
    /\ entry' = NoRun
    /\ query' = IF p = Root THEN "failed" ELSE query
    /\ UNCHANGED <<left, token, hit>>

\* Mutant: the gather waits for all inputs before it raises, for those not started too.
GatherRaisesLast ==
    /\ query = "running" /\ \A p \in Inputs : pc[p] = "raised"
    /\ query' = "failed"
    /\ UNCHANGED <<pc, left, token, entry, hit>>

\* The gather raises what its first input raised; the other inputs go on.
GatherRaises ==
    /\ query = "running" /\ \E p \in Inputs : pc[p] = "raised"
    /\ query' = "failed"
    /\ UNCHANGED <<pc, left, token, entry, hit>>

\* DistributedExecutor.cancel: sets the token that is registered, if any.
Cancel ==
    /\ query = "running"
    /\ token' = [p \in Parts |-> token[p] \/ p = entry]
    /\ hit' = (hit \/ \E p \in Parts : p = entry /\ pc[p] = "active")
    /\ UNCHANGED <<pc, left, entry, query>>

Ended(p) == pc[p] \in {"done", "raised"} \/ (p = Root /\ query = "failed")

\* Nothing is left to do.
Over == /\ query # "running" /\ \A p \in Parts : Ended(p)
        /\ UNCHANGED vars

Run(p) == \/ StartInput(p) \/ TasksDone(p) \/ TasksStop(p) \/ TaskFails(p)
          \/ NextRun(p) \/ LastRun(p) \/ RunRaises(p)

Next == (\E p \in Parts : Run(p)) \/ StartRoot \/ GatherRaises \/ Cancel \/ Over

Spec == Init /\ [][Next]_vars

\* Tasks end in one way or another (TaskScheduler), and ready coroutines run.
FairSpec == Spec /\ WF_vars(StartRoot) /\ WF_vars(GatherRaises)
                 /\ \A p \in Parts : WF_vars(Run(p))

----------------------------------------------------------------------------
TypeOK ==
    /\ pc \in [Parts -> {"waiting", "active", "settled", "stopped", "failing", "done",
                         "raised"}]
    /\ left \in [Parts -> 1..MaxRuns]
    /\ token \in [Parts -> BOOLEAN]
    /\ entry \in Parts \cup {NoRun}
    /\ query \in {"running", "succeeded", "failed"}
    /\ hit \in BOOLEAN

\* A cancel that finds a run with tasks to stop keeps execute() from returning a
\* result, although that run itself ends without an exception (scheduler.py 294-303)
\* and the runs of the other inputs go on.
HitMeansNoResult == hit => query # "succeeded"

\* When all parts have ended, however they did, the scheduler has forgotten the
\* query: the next one with its id is not stopped by a token of this one.
NothingIsRegistered == (\A p \in Parts : Ended(p)) => entry = NoRun

\* execute() ends, and so do the runs it left behind when an input failed.
EverythingEnds == <>(query # "running" /\ \A p \in Parts : Ended(p))

\* After a cancel that has reached a run of the query no further run starts
\* ("cancelling a running query stops new scheduling", checklist.md:62).  The code
\* does not satisfy this.
CancelStopsNewRuns ==
    [][hit => \A p \in Parts : /\ pc'[p] = "active" => pc[p] = "active"
                               /\ left'[p] = left[p]]_vars
==============================================================================
