---------------------------- MODULE JoinPlanning ----------------------------
(***************************************************************************)
(* The cost-based part of the optimizer: join reordering                   *)
(* (optimizer/cbo.py) and the choice of a distribution for every join      *)
(* (optimizer/cost.py).  Cardinalities, widths and cost factors are        *)
(* abstracted: any order the dynamic program enumerates may be the         *)
(* cheapest, and the size of an input is a parameter.                      *)
(***************************************************************************)
EXTENDS LogicalPlans

CONSTANTS WorkerCount,      \* Workers the planner counts on
          InputSizes,       \* sizes the estimates may give an input of a join
          BroadcastLimit    \* largest size that is broadcast

IsInnerJoin(plan) == plan.kind = "join" /\ plan.joinType = "inner"

\* flatten: the inputs of a region of inner joins, and its conjuncts.
RECURSIVE Leaves(_)
Leaves(plan) ==
    IF IsInnerJoin(plan) THEN Leaves(plan.inputs[1]) \o Leaves(plan.inputs[2]) ELSE <<plan>>
RECURSIVE RegionPredicates(_)
RegionPredicates(plan) ==
    IF IsInnerJoin(plan)
    THEN RegionPredicates(plan.inputs[1]) \o RegionPredicates(plan.inputs[2])
         \o SplitConjuncts(plan.condition)
    ELSE <<>>

\* _qualified_fields qualifies the names of a scan, and of nothing else.
QualifiedFields(plan) ==
    IF plan.kind = "scan" THEN {ColumnName(plan.alias, c) : c \in plan.columns}
    ELSE SchemaNames(plan)

\* Mutant: a conjunct of the left side alone is taken for one that crosses.
LeftPredicates(predicates, left, right) ==
    SelectSeq(predicates, LAMBDA p :
        /\ ExpressionSources(p) \subseteq PlanSources(left) \cup PlanSources(right)
        /\ ExpressionSources(p) \cap PlanSources(left) # {})

\* The conjuncts that a join of the two inputs can apply, and neither alone.
CrossingPredicates(predicates, left, right) ==
    SelectSeq(predicates, LAMBDA p :
        /\ ExpressionSources(p) \subseteq PlanSources(left) \cup PlanSources(right)
        /\ ExpressionSources(p) \cap PlanSources(left) # {}
        /\ ExpressionSources(p) \cap PlanSources(right) # {})

\* The joins of the leaves with the given indexes: every split with the lowest
\* index on the left whose halves a predicate connects.
RECURSIVE Orders(_, _, _)
Orders(indexes, leaves, predicates) ==
    LET lowest == CHOOSE i \in indexes : \A j \in indexes : i <= j
        splits == {s \in SUBSET indexes : lowest \in s /\ s # indexes}
        joined(l, r) == Join("cbo_join", l, r, "inner",
                             CombineConjuncts(CrossingPredicates(predicates, l, r)),
                             QualifiedFields(l) \cup QualifiedFields(r))
    IN  IF Cardinality(indexes) = 1 THEN {leaves[lowest]}
        ELSE UNION {{joined(p[1], p[2]) :
                       p \in {p \in Orders(s, leaves, predicates)
                                      \X Orders(indexes \ s, leaves, predicates) :
                                CrossingPredicates(predicates, p[1], p[2]) # <<>>}} : s \in splits}

\* A schema may not list a name twice: a candidate that joins two inputs with a
\* common name raises, and planning fails.
SchemaClash(leaves, predicates) ==
    \E i, j \in DOMAIN leaves :
      /\ i # j /\ QualifiedFields(leaves[i]) \cap QualifiedFields(leaves[j]) # {}
      /\ \E s \in SUBSET DOMAIN leaves :
           {i, j} \subseteq s /\ Orders(s, leaves, predicates) # {}

\* _reorder_region: what the region rooted here may become (NULL: planning fails).
\* The inputs have disjoint sources, for the binder's aliases are unique.
ReorderRegion(root) ==
    LET leaves == Leaves(root)
        predicates == RegionPredicates(root)
        winners == Orders(DOMAIN leaves, leaves, predicates)
    IN  IF \/ ~IsInnerJoin(root) \/ Len(leaves) < 3
           \/ \E i \in DOMAIN predicates : Cardinality(ExpressionSources(predicates[i])) < 2
        THEN {root}
        ELSE IF SchemaClash(leaves, predicates) THEN {NULL}
        ELSE IF winners = {} THEN {root}
        ELSE {[w EXCEPT !.id = root.id, !.columns = root.columns] : w \in winners}

\* _reorder_recursive: every region, from its root.
RECURSIVE Reorder(_, _)
Reorder(plan, insideRegion) ==
    LET children == [i \in DOMAIN plan.inputs |-> Reorder(plan.inputs[i], IsInnerJoin(plan))]
        rebuilt == IF NULL \in UNION {children[i] : i \in DOMAIN children} THEN {NULL}
                   ELSE IF plan.inputs = <<>> THEN {plan}
                   ELSE IF Len(plan.inputs) = 1 THEN {WithInput(plan, c) : c \in children[1]}
                   ELSE {[plan EXCEPT !.inputs = p] : p \in children[1] \X children[2]}
    IN  IF insideRegion THEN rebuilt
        ELSE UNION {IF c = NULL THEN {NULL} ELSE ReorderRegion(c) : c \in rebuilt}

----------------------------------------------------------------------------
(* The distribution of a join.  A layout gives each table the strategy,    *)
(* the key column ("" for none) and the number of partitions of its import.*)

Distribution(strategy, keys, count) == [strategy |-> strategy, keys |-> keys, count |-> count]

\* Where a scan finds its rows, as the catalog records the import.
ScanDistribution(plan, t) ==
    Distribution(t.strategy, IF t.key = "" THEN <<>> ELSE <<ColumnName(plan.alias, t.key)>>,
                 t.count)

\* The columns that equate the two sides.  An equality with anything else on a
\* side, a cast for instance, contributes no key.
JoinKeys(plan) ==
    LET of(e, i, side) == /\ e.args[i].kind = "column"
                          /\ e.args[i].source \in PlanSources(plan.inputs[side])
        straight(e) == of(e, 1, 1) /\ of(e, 2, 2)
        equalities == SelectSeq(SplitConjuncts(plan.condition), LAMBDA e :
                        /\ e.kind = "binary" /\ e.op = "="
                        /\ straight(e) \/ (of(e, 2, 1) /\ of(e, 1, 2)))
        key(e, side) == Name(e.args[IF straight(e) = (side = "left") THEN 1 ELSE 2])
    IN  [side \in {"left", "right"} |-> [i \in DOMAIN equalities |-> key(equalities[i], side)]]

PartitionedOn(distribution, keys) ==
    \/ distribution.strategy = "single"
    \/ distribution.strategy = "hash" /\ keys # <<>> /\ distribution.keys = keys

Compatible(left, right, keys) ==
    \/ left.strategy = "single" /\ right.strategy = "single"
    \/ /\ PartitionedOn(left, keys["left"]) /\ PartitionedOn(right, keys["right"])
       /\ left.count = right.count

StrategyNames == <<"broadcast", "repartition_both", "repartition_left", "repartition_right",
                   "reuse">>

\* The strategy that moves the fewest bytes, the first by name among equals.
JoinStrategy(left, right, keys, leftSize, rightSize) ==
    LET build == IF leftSize <= rightSize THEN leftSize ELSE rightSize
        network == <<build * (WorkerCount - 1), leftSize + rightSize, leftSize, rightSize, 0>>
        offered == <<build <= BroadcastLimit, TRUE, PartitionedOn(right, keys["right"]),
                     PartitionedOn(left, keys["left"]), Compatible(left, right, keys)>>
        candidates == {i \in DOMAIN offered : offered[i]}
    IN  StrategyNames[CHOOSE i \in candidates : \A j \in candidates :
                        network[i] < network[j] \/ (network[i] = network[j] /\ i <= j)]

JoinDistribution(strategy, left, right, keys, buildSide) ==
    CASE strategy \in {"reuse", "repartition_right"} -> left
      [] strategy = "repartition_left" -> right
      [] strategy = "broadcast" -> IF buildSide = "left" THEN right ELSE left
      [] OTHER -> Distribution("hash", keys["left"], WorkerCount)

\* estimate_join for one pair of sizes: the smaller input is the build side.
Decide(plan, left, right, leftSize, rightSize) ==
    LET keys == JoinKeys(plan)
        side == IF leftSize <= rightSize THEN "left" ELSE "right"
        strategy == JoinStrategy(left.distribution, right.distribution, keys, leftSize, rightSize)
    IN  [plan |-> [plan EXCEPT !.inputs = <<left.plan, right.plan>>, !.strategy = strategy,
                               !.buildSide = side],
         distribution |-> JoinDistribution(strategy, left.distribution, right.distribution,
                                           keys, side)]

\* The plans with all joins decided that the estimates may lead to, each with the
\* distribution its output is taken to have.
RECURSIVE Decided(_, _)
Decided(plan, layout) ==
    CASE plan.kind = "scan" ->
           {[plan |-> plan, distribution |-> ScanDistribution(plan, layout[plan.table])]}
      [] plan.kind = "join" ->
           {Decide(plan, c[1], c[2], c[3], c[4]) :
              c \in Decided(plan.inputs[1], layout) \X Decided(plan.inputs[2], layout)
                      \X InputSizes \X InputSizes}
      [] OTHER -> {[d EXCEPT !.plan = WithInput(plan, @)] : d \in Decided(Input(plan), layout)}
=============================================================================
