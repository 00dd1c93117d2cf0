---------------------------- MODULE QueryPlanning ----------------------------
(***************************************************************************)
(* A statement on its way through the coordinator (coordinator/queries.py, *)
(* _plan) and an executor: it is bound, the rules rewrite the plan until   *)
(* nothing changes or a plan comes back, inner joins are reordered; the    *)
(* local engine runs the plan, or it is cut at exchanges and run           *)
(* partition by partition.  The steps of RuleOptimizer.optimize are kept   *)
(* one by one, so that every intermediate plan can be compared with what   *)
(* the statement means.                                                    *)
(***************************************************************************)
EXTENDS SqlMeaning, Rules, DistributedExecution

CONSTANTS Statements,       \* the statements that arrive
          Databases,        \* table -> rows, for every database to run on
          Budgets,          \* rows an operator can hold before it spills
          Layouts,          \* table -> how it was imported, for every import
          MaxIterations     \* rounds the optimizer allows itself (32)

VARIABLES statement,
          phase,            \* "parsed", "rules", "costs", "ready", "staged", "done",
                            \* "rejected" (by the binder), "failed" (in planning)
          plan,
          rule,             \* index of the rule to apply next
          iteration,
          changed,          \* a rule changed the plan in this round
          rewritten,        \* the last step changed the plan
          seen,             \* plans at the end of earlier rounds
          stopped,          \* why the rules stopped
          layout,           \* how the tables are stored; NULL for a local run
          database, result  \* what the plan was run on and returned

vars == <<statement, phase, plan, rule, iteration, changed, rewritten, seen, stopped,
          layout, database, result>>

Init == /\ statement \in Statements
        /\ phase = "parsed" /\ plan = NULL
        /\ rule = 1 /\ iteration = 1 /\ changed = FALSE /\ rewritten = FALSE
        /\ seen = {} /\ stopped = "" /\ layout = NULL /\ database = NULL /\ result = <<>>

\* Binder.bind.
BindStatement ==
    /\ phase = "parsed"
    /\ plan' = Bind(statement)
    /\ phase' = IF plan' = NULL THEN "rejected" ELSE "rules"
    /\ rewritten' = (plan' # NULL)
    /\ seen' = {plan'}
    /\ UNCHANGED <<statement, rule, iteration, changed, stopped, layout, database, result>>

\* One rule over the whole plan.
ApplyNextRule ==
    /\ phase = "rules" /\ rule <= Len(DefaultRules)
    /\ plan' = ApplyRule(DefaultRules[rule], plan)
    /\ rewritten' = (plan' # plan)
    /\ changed' = (changed \/ plan' # plan)
    /\ rule' = rule + 1
    /\ UNCHANGED <<statement, phase, iteration, seen, stopped, layout, database,
                   result>>

\* Mutant: plans of earlier rounds are forgotten.
EndIterationForgetting ==
    /\ phase = "rules" /\ rule > Len(DefaultRules)
    /\ stopped' = CASE ~changed -> "fixed_point"
                    [] iteration = MaxIterations -> "max_iterations"
                    [] OTHER -> ""
    /\ phase' = IF stopped' = "" THEN "rules" ELSE "costs"
    /\ iteration' = IF stopped' = "" THEN iteration + 1 ELSE iteration
    /\ rule' = 1 /\ changed' = FALSE /\ rewritten' = FALSE
    /\ seen' = seen \cup {plan}
    /\ UNCHANGED <<statement, plan, layout, database, result>>

\* The end of a round: a fixed point, a plan seen before, or the last round.
EndIteration ==
    /\ phase = "rules" /\ rule > Len(DefaultRules)
    /\ stopped' = CASE ~changed -> "fixed_point"
                    [] plan \in seen -> "cycle_detected"
                    [] iteration = MaxIterations -> "max_iterations"
                    [] OTHER -> ""
    /\ phase' = IF stopped' = "" THEN "rules" ELSE "costs"
    /\ iteration' = IF stopped' = "" THEN iteration + 1 ELSE iteration
    /\ rule' = 1 /\ changed' = FALSE /\ rewritten' = FALSE
    /\ seen' = seen \cup {plan}
    /\ UNCHANGED <<statement, plan, layout, database, result>>

\* CostBasedOptimizer: the cheapest order of each region, whichever it is, or an
\* exception, which leaves the plan of the rules.
ReorderJoins ==
    /\ phase = "costs"
    /\ \E p \in Reorder(plan, FALSE) :
         /\ plan' = IF p = NULL THEN plan ELSE p
         /\ rewritten' = (plan' # plan)
         /\ phase' = IF p = NULL THEN "failed" ELSE "ready"
    /\ UNCHANGED <<statement, rule, iteration, changed, seen, stopped, layout, database,
                   result>>

\* LocalExecutor.execute_table.
RunPlan(db, budget) ==
    /\ phase = "ready"
    /\ database' = db
    /\ result' = Execute(plan, db, budget, <<>>)
    /\ phase' = "done"
    /\ UNCHANGED <<statement, plan, rule, iteration, changed, rewritten, seen, stopped, layout>>

\* The join decisions, whatever the sizes are estimated to be, and the exchanges.
PlanExchanges(imported) ==
    /\ phase = "ready"
    /\ \E d \in Decided(plan, imported) : plan' = MaterializeExchanges(d.plan)
    /\ layout' = imported
    /\ phase' = IF IsRefused(plan') THEN "failed" ELSE "staged"
    /\ UNCHANGED <<statement, rule, iteration, changed, rewritten, seen, stopped, database, result>>

\* RemoteDistributedExecutor.execute, or DistributedExecutor.execute.
RunDistributed(db, mode) ==
    /\ phase = "staged"
    /\ database' = db
    /\ result' = ExecuteDistributed(plan, db, layout, mode)
    /\ phase' = "done"
    /\ UNCHANGED <<statement, plan, rule, iteration, changed, rewritten, seen, stopped, layout>>

Modes == {[remote |-> TRUE, large |-> FALSE], [remote |-> FALSE, large |-> FALSE],
          [remote |-> FALSE, large |-> TRUE]}

Next == \/ BindStatement \/ ApplyNextRule \/ EndIteration \/ ReorderJoins
        \/ \E db \in Databases, budget \in Budgets : RunPlan(db, budget)
        \/ \E imported \in Layouts : PlanExchanges(imported)
        \/ \E db \in Databases, mode \in Modes : RunDistributed(db, mode)

Spec == Init /\ [][Next]_vars

----------------------------------------------------------------------------
\* A plan returns an answer of the statement whatever the tables hold, with memory
\* to spare.
PlanAnswers == \A db \in Databases : IsAnswer(Execute(plan, db, 100, <<>>), statement, db)
PlanRaises == \A db \in Databases : Execute(plan, db, 100, <<>>) = Failed

\* Binding, every single rewrite of the first round and every later round leave a
\* plan that answers the statement ("Semantics-preserving logical optimization
\* rules", rules.py): no conjunct is lost, duplicated or moved across an outer join,
\* no column that is still read is pruned, three-valued logic survives the folding.
\* (Within a later round a conjunct may be inferred again above a join whose output
\* no longer has its column; the pushdown of the same round takes it away.)
RewritesKeepTheAnswer ==
    phase = "rules" /\ (IF rule > Len(DefaultRules) THEN changed ELSE iteration = 1 /\ rewritten)
      => PlanAnswers

\* The inputs of a region of inner joins, in a plan with exchanges or without.
RECURSIVE RegionInputs(_)
RegionInputs(p) ==
    IF p.kind = "exchange" \/ IsInnerJoin(p)
    THEN UNION {RegionInputs(p.inputs[i]) : i \in DOMAIN p.inputs}
    ELSE {p}

IsFilteredScan(p) == p.kind = "filter" /\ Input(p).kind = "scan"

\* A join that the reordering has built below the root of its region over a filtered
\* relation lists that relation's columns without its alias (_qualified_fields), and
\* the engine, whose rows carry the alias, drops them.
LosesNames(p) ==
    \E j \in PlanNodes(p) : /\ j.kind = "join" /\ j.id = "cbo_join"
                           /\ \E x \in RegionInputs(j) : IsFilteredScan(x)

\* An equality over three relations may be applied by a join both of whose inputs one
\* operand reads; it is no key of that join (_hash_join_keys).
SplitsEquality(p) ==
    \E j \in PlanNodes(p) :
      /\ j.kind = "join"
      /\ \E e \in ToSet(SplitConjuncts(j.condition)) : \E i \in DOMAIN e.args : \A side \in {1, 2} :
           ExpressionSources(e.args[i]) \cap PlanSources(j.inputs[side]) # {}

\* Whatever order the dynamic program finds cheapest, the reordered plan answers
\* the statement: every conjunct is applied once and every column still reaches
\* the operators above (cbo.py, _reorder_region).  Excepted are the plan that joins a
\* filtered relation anywhere but at the root of its region, and the one that splits
\* an equality, which raises; and planning raises only where two relations of a
\* region are filtered.
ReorderKeepsTheAnswer ==
    /\ phase = "ready" /\ rewritten =>
         PlanAnswers \/ LosesNames(plan) \/ (SplitsEquality(plan) /\ PlanRaises)
    /\ phase = "failed" /\ layout = NULL =>
         \E j \in PlanNodes(plan) : \E x, y \in RegionInputs(j) :
           x # y /\ IsFilteredScan(x) /\ IsFilteredScan(y)

\* Every reordered plan answers the statement ("the result conforms to SQL
\* semantics", spec.md), also where a WHERE filters one of the relations.  The code
\* does not satisfy this.
ReorderedPlansAnswer == phase = "ready" /\ rewritten => PlanAnswers

\* A join whose probe side is empty and has a column that the join does not return.
EmptyProbe(join) ==
    LET probe == join.inputs[IF join.buildSide = "left" THEN 2 ELSE 1]
    IN  /\ ~(RuntimeNames(probe) \subseteq join.columns)
        /\ Execute(probe, database, 100, <<>>) = <<>>

\* An operator that spills - external sort, sort aggregation, partitioned hash
\* join, sort-merge fallback - returns the answer all the same, and the runtime
\* filters that joins publish to their probe side remove no row of it.  Only a
\* spilled join with an empty probe side, or one that splits an equality, may raise.
\* (A plan that has lost names in the reordering has no answer to keep.)
SpillingKeepsTheAnswer ==
    phase = "done" /\ layout = NULL /\ ~LosesNames(plan) =>
      \/ IsAnswer(result, statement, database)
      \/ /\ result = Failed
         /\ SplitsEquality(plan) \/ \E n \in PlanNodes(plan) : n.kind = "join" /\ EmptyProbe(n)

\* How many partitions the output of a plan has.
RECURSIVE PartitionCount(_)
PartitionCount(p) ==
    CASE p.kind = "scan" -> layout[p.table].count
      [] p.kind = "exchange" -> p.count
      [] p.kind = "join" -> IF PartitionCount(p.inputs[1]) >= PartitionCount(p.inputs[2])
                            THEN PartitionCount(p.inputs[1]) ELSE PartitionCount(p.inputs[2])
      [] OTHER -> PartitionCount(Input(p))

\* The rows a join has to bring together are in partitions it brings together: both
\* sides are divided by the same hash, or all of a side that is not preserved is
\* sent to every partition of the other.
Colocated(j) ==
    LET probe == j.inputs[IF j.buildSide = "left" THEN 2 ELSE 1]
        shuffled == \E x \in Exchanges(j) : x.strategy = "hash"
    IN  CASE j.strategy = "repartition_both" -> TRUE
          [] j.strategy = "reuse" -> ~shuffled
          [] j.strategy = "broadcast" -> /\ ~SideIsPreserved(j.joinType, j.buildSide)
                                         /\ PartitionCount(probe) = WorkerCount
          [] OTHER -> FALSE

\* A plan whose joins are colocated answers the statement when it is run partition
\* by partition, on Workers or in process, with partial aggregation or without,
\* however the tables are divided into files.  It may raise: where partitions of an
\* exchange have different columns, where partial sums meet a NULL, where a
\* partition key is not a column, where an equality is split; it never returns other
\* rows.  (Again, of a plan that has not lost names.)
DistributionKeepsTheAnswer ==
    phase = "done" /\ layout # NULL /\ ~LosesNames(plan) /\ (\A n \in PlanNodes(plan) : n.kind = "join" => Colocated(n))
      => \/ IsAnswer(result, statement, database)
         \/ result \in {SchemaMismatch, NullPartial}
         \/ /\ result = Failed
            /\ \/ SplitsEquality(plan)
               \/ \E x \in Exchanges(plan) : \E i \in DOMAIN x.keys : x.keys[i].kind # "column"

\* Whatever distribution the planner chooses for a join, a run that ends without an
\* error returns an answer ("selects the cheapest plan that meets the distribution
\* the join keys require", docs/implementation.md).  The code does not satisfy this.
DecisionsKeepTheAnswer ==
    phase = "done" /\ layout # NULL => result \in Failures \/ IsAnswer(result, statement, database)

\* The rules settle long before the bound on the rounds, although inference and
\* pushdown may undo each other; then the plan repeats and the cycle is noticed.
RulesSettle == stopped # "max_iterations"
=============================================================================
