------------------------ MODULE InProcessRuns_proofs ------------------------
(* The safety properties of InProcessRuns for any number of inputs and runs. *)
EXTENDS InProcessRuns, TLAPS

Live == {"active", "settled", "stopped", "failing"}

\* The part above the join runs after all of its inputs, while the query runs.
RootComesLast ==
    /\ pc[Root] # "waiting" => \A p \in Inputs : pc[p] = "done"
    /\ pc[Root] \in Live => query = "running"
    /\ query = "succeeded" => pc[Root] = "done"
    /\ query = "failed" => \E p \in Parts : pc[p] = "raised"

\* The registered token is that of a run in progress.
EntryIsLive == entry # NoRun => pc[entry] \in Live

\* A part that a cancel has reached, or that has failed, never gets done.
Doomed(p) == pc[p] \in {"stopped", "failing", "raised"} \/ (pc[p] = "active" /\ token[p])
HitDooms == hit => \E p \in Parts : Doomed(p)

IInv == TypeOK /\ RootComesLast /\ EntryIsLive /\ HitDooms

USE RootAssumption, InputsAssumption, NoRunAssumption, MaxRunsAssumption

LEMMA InitIInv == Init => IInv
  BY DEF Init, IInv, TypeOK, RootComesLast, EntryIsLive, HitDooms, Live, Parts

\* Each action keeps the types.
LEMMA TypeStep == ASSUME TypeOK, [Next]_vars PROVE TypeOK'
<1>1. CASE UNCHANGED vars
  BY <1>1 DEF vars, TypeOK
<1>2. ASSUME NEW p \in Parts, Run(p) PROVE TypeOK'
  <2>1. CASE StartInput(p) BY <2>1 DEF StartInput, StartRun, TypeOK
  <2>2. CASE TasksDone(p) BY <2>2 DEF TasksDone, TypeOK
  <2>3. CASE TasksStop(p) BY <2>3 DEF TasksStop, TypeOK
  <2>4. CASE TaskFails(p) BY <2>4 DEF TaskFails, TypeOK
  <2>5. CASE NextRun(p) BY <2>5 DEF NextRun, StartRun, TypeOK
  <2>6. CASE LastRun(p) BY <2>6 DEF LastRun, TypeOK
  <2>7. CASE RunRaises(p) BY <2>7 DEF RunRaises, TypeOK
  <2>. QED BY <1>2, <2>1, <2>2, <2>3, <2>4, <2>5, <2>6, <2>7 DEF Run
<1>3. CASE StartRoot
  BY <1>3 DEF StartRoot, StartRun, TypeOK, Parts
<1>4. CASE GatherRaises
  BY <1>4 DEF GatherRaises, TypeOK
<1>5. CASE Cancel
  BY <1>5 DEF Cancel, TypeOK
<1>6. CASE Over
  BY <1>6 DEF Over, vars, TypeOK
<1>. QED BY <1>1, <1>2, <1>3, <1>4, <1>5, <1>6 DEF Next

\* Each action keeps the order of the parts.
LEMMA RootStep == ASSUME TypeOK, RootComesLast, [Next]_vars PROVE RootComesLast'
<1>. USE DEF TypeOK, RootComesLast, Live, Parts
<1>1. CASE UNCHANGED vars
  BY <1>1 DEF vars
<1>2. ASSUME NEW p \in Parts, Run(p) PROVE RootComesLast'
  <2>1. CASE StartInput(p) BY <2>1 DEF StartInput, StartRun
  <2>2. CASE TasksDone(p) BY <2>2 DEF TasksDone
  <2>3. CASE TasksStop(p) BY <2>3 DEF TasksStop
  <2>4. CASE TaskFails(p) BY <2>4 DEF TaskFails
  <2>5. CASE NextRun(p) BY <2>5 DEF NextRun, StartRun
  <2>6. CASE LastRun(p) BY <2>6 DEF LastRun
  <2>7. CASE RunRaises(p) BY <2>7 DEF RunRaises
  <2>. QED BY <1>2, <2>1, <2>2, <2>3, <2>4, <2>5, <2>6, <2>7 DEF Run
<1>3. CASE StartRoot
  <2>1. query = "running" BY <1>3 DEF StartRoot
  <2>. QED BY <1>3, <2>1 DEF StartRoot, StartRun
<1>4. CASE GatherRaises
  BY <1>4 DEF GatherRaises
<1>5. CASE Cancel
  BY <1>5 DEF Cancel
<1>6. CASE Over
  BY <1>6 DEF Over, vars
<1>. QED BY <1>1, <1>2, <1>3, <1>4, <1>5, <1>6 DEF Next

\* Each action keeps the entry live.
LEMMA EntryStep == ASSUME TypeOK, EntryIsLive, [Next]_vars PROVE EntryIsLive'
<1>. USE DEF TypeOK, EntryIsLive, Live
<1>1. CASE UNCHANGED vars
  BY <1>1 DEF vars
<1>2. ASSUME NEW p \in Parts, Run(p) PROVE EntryIsLive'
  <2>1. CASE StartInput(p) BY <2>1 DEF StartInput, StartRun
  <2>2. CASE TasksDone(p) BY <2>2 DEF TasksDone
  <2>3. CASE TasksStop(p) BY <2>3 DEF TasksStop
  <2>4. CASE TaskFails(p) BY <2>4 DEF TaskFails
  <2>5. CASE NextRun(p) BY <2>5 DEF NextRun, StartRun
  <2>6. CASE LastRun(p) BY <2>6 DEF LastRun
  <2>7. CASE RunRaises(p) BY <2>7 DEF RunRaises
  <2>. QED BY <1>2, <2>1, <2>2, <2>3, <2>4, <2>5, <2>6, <2>7 DEF Run
<1>3. CASE StartRoot
  BY <1>3 DEF StartRoot, StartRun, Parts
<1>4. CASE GatherRaises
  BY <1>4 DEF GatherRaises
<1>5. CASE Cancel
  BY <1>5 DEF Cancel
<1>6. CASE Over
  BY <1>6 DEF Over, vars
<1>. QED BY <1>1, <1>2, <1>3, <1>4, <1>5, <1>6 DEF Next

\* No action takes a part out of its doom.
LEMMA DoomStays ==
  ASSUME TypeOK, [Next]_vars, NEW d \in Parts, Doomed(d)
  PROVE  Doomed(d)'
<1>. USE DEF TypeOK, Doomed
<1>1. CASE UNCHANGED vars
  BY <1>1 DEF vars
<1>2. ASSUME NEW p \in Parts, Run(p) PROVE Doomed(d)'
  <2>1. CASE StartInput(p) BY <2>1 DEF StartInput, StartRun
  <2>2. CASE TasksDone(p) BY <2>2 DEF TasksDone
  <2>3. CASE TasksStop(p) BY <2>3 DEF TasksStop
  <2>4. CASE TaskFails(p) BY <2>4 DEF TaskFails
  <2>5. CASE NextRun(p) BY <2>5 DEF NextRun, StartRun
  <2>6. CASE LastRun(p) BY <2>6 DEF LastRun
  <2>7. CASE RunRaises(p) BY <2>7 DEF RunRaises
  <2>. QED BY <1>2, <2>1, <2>2, <2>3, <2>4, <2>5, <2>6, <2>7 DEF Run
<1>3. CASE StartRoot
  BY <1>3 DEF StartRoot, StartRun, Parts
<1>4. CASE GatherRaises
  BY <1>4 DEF GatherRaises
<1>5. CASE Cancel
  BY <1>5 DEF Cancel
<1>6. CASE Over
  BY <1>6 DEF Over, vars
<1>. QED BY <1>1, <1>2, <1>3, <1>4, <1>5, <1>6 DEF Next

\* Only Cancel makes a hit, and it dooms the part it hits.
LEMMA HitStep == ASSUME TypeOK, HitDooms, [Next]_vars PROVE HitDooms'
<1>1. CASE hit
  <2>1. PICK d \in Parts : Doomed(d) BY <1>1 DEF HitDooms
  <2>. QED BY <2>1, DoomStays DEF HitDooms
<1>2. CASE ~hit
  <2>1. CASE Cancel
    BY <1>2, <2>1 DEF Cancel, HitDooms, Doomed, TypeOK
  <2>2. CASE ~Cancel
    <3>1. UNCHANGED hit
      BY <2>2 DEF Next, vars, Run, StartInput, TasksDone, TasksStop, TaskFails, NextRun,
         LastRun, RunRaises, StartRoot, GatherRaises, Over
    <3>. QED BY <1>2, <3>1 DEF HitDooms
  <2>. QED BY <2>1, <2>2
<1>. QED BY <1>1, <1>2

LEMMA IInvHolds == Spec => []IInv
<1>1. IInv /\ [Next]_vars => IInv'
  BY TypeStep, RootStep, EntryStep, HitStep DEF IInv
<1>. QED BY InitIInv, <1>1, PTL DEF Spec

----------------------------------------------------------------------------
\* The bookkeeping of the runs keeps its types (TaskScheduler.run and cancel).
THEOREM RunTypes == Spec => []TypeOK
  BY IInvHolds, PTL DEF IInv

\* A cancel that has found a run with tasks to stop keeps the in-process execute()
\* from returning a result, for any number of inputs and runs.
THEOREM HitsAreFatal == Spec => []HitMeansNoResult
<1>1. IInv => HitMeansNoResult
  BY DEF IInv, HitDooms, Doomed, RootComesLast, HitMeansNoResult, Parts, TypeOK
<1>. QED BY <1>1, IInvHolds, PTL

\* When all parts of a query have ended, its entry in _cancellations is gone.
THEOREM EntriesGo == Spec => []NothingIsRegistered
<1>1. IInv => NothingIsRegistered
  BY DEF IInv, EntryIsLive, RootComesLast, NothingIsRegistered, Ended, Live, Parts, TypeOK
<1>. QED BY <1>1, IInvHolds, PTL
=============================================================================
