----------------------------- MODULE Operators -----------------------------
(***************************************************************************)
(* The batch operators of the local engine (execution/operators.py,        *)
(* execution/engine.py, execution/runtime_filter.py) as functions from     *)
(* sequences of rows to sequences of rows.  A row is a function from names *)
(* to values.  Batches, metrics and the cancellation checks are left out   *)
(* (SpillMemory models the memory accounts and the temporary files): what  *)
(* is kept of memory is `budget', the number of rows an operator can hold  *)
(* before it has to spill.  Failed is the outcome of an exception.         *)
(***************************************************************************)
EXTENDS LogicalPlans

CONSTANTS Digest(_),         \* hash of a key (a tuple of values)
          SpillPartitions,   \* hash partitions of a spilled join (8 in the code)
          BloomBits, BloomHashes

Failed == <<Err>>
Raises(exprs, rows) ==
    \E i \in DOMAIN rows, j \in DOMAIN exprs : Evaluate(exprs[j], rows[i]) = Err
Values(exprs, row) == Strict([i \in DOMAIN exprs |-> Evaluate(exprs[i], row)])

\* Rows with the values of some expressions, which sort, group or match them.
Keyed(exprs, rows) ==
    Strict([i \in DOMAIN rows |-> [key |-> Values(exprs, rows[i]), row |-> rows[i]]])
RowsOf(keyed) == Strict([i \in DOMAIN keyed |-> keyed[i].row])
WithKey(keyed, key) == RowsOf(SelectSeq(keyed, LAMBDA x : x.key = key))

\* A row as an output schema lists it: other columns go, absent ones are NULL.
Shaped(row, names) ==
    [n \in names |-> IF n \in DOMAIN row THEN row[n] ELSE NULL]

ShapedRows(rows, names) ==
    IF rows = Failed THEN Failed ELSE StrictRows([i \in DOMAIN rows |-> Shaped(rows[i], names)])

----------------------------------------------------------------------------
(* Sorting.                                                                *)

\* -1, 0 or 1; NULLs go first or last whatever the direction.
CompareValues(l, r, item) ==
    CASE l = NULL /\ r = NULL -> 0
      [] l = NULL -> IF item.nullsFirst THEN -1 ELSE 1
      [] r = NULL -> IF item.nullsFirst THEN 1 ELSE -1
      [] l = r -> 0
      [] OTHER -> IF (l > r) = item.ascending THEN 1 ELSE -1

\* The first comparison that decides.
FirstDecided(c) ==
    LET decided == {i \in DOMAIN c : c[i] # 0}
    IN  IF decided = {} THEN 0 ELSE c[CHOOSE i \in decided : \A j \in decided : i <= j]

CompareKeys(l, r, orderBy) ==
    FirstDecided(Strict([i \in DOMAIN orderBy |-> CompareValues(l[i], r[i], orderBy[i])]))

\* The i-th element comes first: by the comparison, and by its place among equals.
Precedes(comparison, i, j) == comparison < 0 \/ (comparison = 0 /\ i <= j)

Permuted(rows, order) == Strict([i \in DOMAIN order |-> rows[order[i]]])

\* sorted() is stable.  Here and below the rows are keyed by the sort expressions.
InMemorySort(keyed, orderBy) ==
    LET before(i, j) == Precedes(CompareKeys(keyed[i].key, keyed[j].key, orderBy), i, j)
    IN  Permuted(keyed, SortSeq([i \in DOMAIN keyed |-> i], before))

\* heapq.merge: the smallest head, from the earliest run among equals.
RECURSIVE MergeRuns(_, _)
MergeRuns(runs, orderBy) ==
    LET live == {i \in DOMAIN runs : runs[i] # <<>>}
        least == CHOOSE i \in live : \A j \in live :
                   Precedes(CompareKeys(Head(runs[i]).key, Head(runs[j]).key, orderBy), i, j)
    IN  IF live = {} THEN <<>>
        ELSE <<Head(runs[least])>> \o MergeRuns([runs EXCEPT ![least] = Tail(@)], orderBy)

\* Keys as an order, NULLs last; the expressions of an order.
Ascendingly(keys) == [i \in DOMAIN keys |-> SortExpression(keys[i], TRUE, FALSE)]
SortExpressions(orderBy) == [i \in DOMAIN orderBy |-> orderBy[i].expr]

\* A run is written when the budget is used up; a row that does not fit alone is
\* a run of its own.
RECURSIVE SpilledRuns(_, _)
SpilledRuns(rows, size) ==
    IF rows = <<>> THEN <<>>
    ELSE IF Len(rows) <= size THEN <<rows>>
    ELSE <<SubSeq(rows, 1, size)>> \o SpilledRuns(SubSeq(rows, size + 1, Len(rows)), size)

SortedRuns(runs, orderBy) == [i \in DOMAIN runs |-> InMemorySort(runs[i], orderBy)]

\* Rows that fit are one run.
ExternalSort(keyed, orderBy, budget) ==
    MergeRuns(SortedRuns(SpilledRuns(keyed, IF budget = 0 THEN 1 ELSE budget), orderBy), orderBy)

OrderExecute(orderBy, rows, budget) ==
    IF Raises(SortExpressions(orderBy), rows) THEN Failed
    ELSE RowsOf(ExternalSort(Keyed(SortExpressions(orderBy), rows), orderBy, budget))

----------------------------------------------------------------------------
(* Aggregation.                                                            *)

NewState == [count |-> 0, total |-> 0, value |-> NULL, seen |-> {}]

AddToState(state, f, argument) ==
    IF argument = NULL \/ (f.source = "distinct" /\ argument \in state.seen) THEN state
    ELSE [count |-> state.count + 1,
          total |-> IF f.op \in {"sum", "avg"} THEN state.total + argument ELSE state.total,
          value |-> CASE f.op = "min" -> IF state.value = NULL \/ argument < state.value
                                         THEN argument ELSE state.value
                      [] f.op = "max" -> IF state.value = NULL \/ argument > state.value
                                         THEN argument ELSE state.value
                      [] OTHER -> state.value,
          seen |-> IF f.source = "distinct" THEN state.seen \cup {argument} ELSE state.seen]

\* The quotient of an average is kept as the pair of its terms.
FinishState(state, f) ==
    CASE f.op = "count" -> state.count
      [] f.op = "sum" -> IF state.count = 0 THEN NULL ELSE state.total
      [] f.op = "avg" -> IF state.count = 0 THEN NULL ELSE <<state.total, state.count>>
      [] OTHER -> state.value

AggregateState(f, rows) ==
    FoldLeft(LAMBDA s, row : AddToState(s, f, IF f.args = <<>> THEN 1
                                              ELSE Evaluate(f.args[1], row)),
             NewState, rows)
AggregateRows(f, rows) == FinishState(AggregateState(f, rows), f)

\* The row a group publishes: its keys and its aggregates under their text.
FinishGroup(groupBy, key, aggregates, rows) ==
    [n \in Names(groupBy) |-> key[CHOOSE i \in DOMAIN groupBy : Name(groupBy[i]) = n]]
    @@ [n \in Names(aggregates) |-> AggregateRows(n, rows)]

AggregateArguments(aggregates) ==
    FlattenSeq([i \in DOMAIN aggregates |-> aggregates[i].args])

\* dict of groups in the order of their first rows.
HashGroups(groupBy, keyed) ==
    FoldLeft(LAMBDA keys, x : IF Contains(keys, x.key) THEN keys ELSE Append(keys, x.key),
             IF groupBy = <<>> THEN <<<<>>>> ELSE <<>>, keyed)

HashAggregateExecute(groupBy, aggregates, keyed) ==
    LET keys == HashGroups(groupBy, keyed)
    IN  Strict([i \in DOMAIN keys |->
                  FinishGroup(groupBy, keys[i], aggregates, WithKey(keyed, keys[i]))])

\* The groups of sorted rows, streamed: a group ends where the key changes.
EmitGroups(groupBy, aggregates, sorted) ==
    LET starts == Ascending({i \in DOMAIN sorted : i = 1 \/ sorted[i].key # sorted[i - 1].key},
                            Len(sorted))
        end(g) == IF g = Len(starts) THEN Len(sorted) ELSE starts[g + 1] - 1
    IN  Strict([g \in DOMAIN starts |->
                  FinishGroup(groupBy, sorted[starts[g]].key, aggregates,
                              RowsOf(SubSeq(sorted, starts[g], end(g))))])

SortAggregateExecute(groupBy, aggregates, keyed, budget) ==
    EmitGroups(groupBy, aggregates, ExternalSort(keyed, Ascendingly(groupBy), budget))

AggregateExecute(plan, rows, budget) ==
    IF Raises(plan.groupBy \o AggregateArguments(plan.aggregates), rows) THEN Failed
    ELSE IF plan.groupBy = <<>>
         THEN HashAggregateExecute(<<>>, plan.aggregates, Keyed(<<>>, rows))
         ELSE SortAggregateExecute(plan.groupBy, plan.aggregates, Keyed(plan.groupBy, rows), budget)

\* One hash aggregation per set; the grouping columns outside the set are NULL.
GroupingSetsExecute(plan, rows) ==
    LET all == UNION {Names(plan.sets[i]) : i \in DOMAIN plan.sets}
        padded(groups) == [i \in DOMAIN groups |-> groups[i] @@ [n \in all |-> NULL]]
        ofSet(s) == padded(HashAggregateExecute(s, plan.aggregates, Keyed(s, rows)))
    IN  IF Raises(FlattenSeq(plan.sets) \o AggregateArguments(plan.aggregates), rows)
        THEN Failed
        ELSE FlattenSeq([i \in DOMAIN plan.sets |-> ofSet(plan.sets[i])])

----------------------------------------------------------------------------
(* Windows.  Positions are 0-based and intervals half-open, as slices are. *)

\* A boundary is <<text, amount>>, the amount 0 where the text has none.
FrameBoundary(boundary, index, size, isEnd) ==
    LET step == IF isEnd THEN 1 ELSE 0
        position == IF boundary[1] = "PRECEDING" THEN index - boundary[2] + step
                    ELSE index + boundary[2] + step
    IN  CASE boundary[1] = "UNBOUNDED PRECEDING" -> 0
          [] boundary[1] = "UNBOUNDED FOLLOWING" -> size
          [] boundary[1] = "CURRENT ROW" -> index + step
          [] OTHER -> IF position < 0 THEN 0 ELSE IF position > size THEN size ELSE position

\* Without a frame: everything, or up to the last peer when there is an order.
WindowBounds(w, index, peers) ==
    LET size == Len(peers)
        last == CHOOSE e \in (index + 1)..size :
                  /\ \A j \in (index + 1)..e : peers[j] = peers[index + 1]
                  /\ e < size => peers[e + 1] # peers[index + 1]
    IN  IF w.frame # <<>>
        THEN <<FrameBoundary(w.frame[1], index, size, FALSE),
               FrameBoundary(w.frame[2], index, size, TRUE)>>
        ELSE IF w.order = <<>> THEN <<0, size>> ELSE <<0, last>>

\* The value the window function has at the n-th row of an ordered partition.
WindowValue(w, ordered, n) ==
    LET peers == [j \in DOMAIN ordered |-> ordered[j].key]
        starts == {j \in 1..n : j = 1 \/ peers[j] # peers[j - 1]}
        slice(bounds) == RowsOf(SubSeq(ordered, bounds[1] + 1, bounds[2]))
        function == w.args[1]
    IN  CASE function.op = "row_number" -> n
          [] function.op = "dense_rank" -> Cardinality(starts)
          [] function.op = "rank" -> CHOOSE j \in starts : \A x \in starts : x <= j
          [] OTHER -> AggregateRows(function, slice(WindowBounds(w, n - 1, peers)))

\* Each row of the input, in its place, with the value of one window function: the
\* rows are keyed by the order, `parts' holds their partitions.
WindowColumn(w, keyed, parts) ==
    LET before(i, j) == Precedes(CompareKeys(keyed[i].key, keyed[j].key, w.order), i, j)
        partition(i) == Ascending({j \in DOMAIN keyed : parts[j] = parts[i]}, Len(keyed))
        value(order, i) == WindowValue(w, Permuted(keyed, order),
                                       CHOOSE n \in DOMAIN order : order[n] = i)
    IN  StrictRows([i \in DOMAIN keyed |->
                      (w :> value(SortSeq(partition(i), before), i)) @@ keyed[i].row])

WithWindow(w, rows) ==
    WindowColumn(w, Keyed(SortExpressions(w.order), rows),
                 Strict([i \in DOMAIN rows |-> Values(Tail(w.args), rows[i])]))

WindowExecute(plan, rows) ==
    LET used(w) == Tail(w.args) \o w.args[1].args \o SortExpressions(w.order)
    IN  IF \E i \in DOMAIN plan.items : Raises(used(plan.items[i]), rows) THEN Failed
        ELSE FoldLeft(LAMBDA acc, w : WithWindow(w, acc), rows, plan.items)

----------------------------------------------------------------------------
(* Joins.  j holds what the operator knows: the join type, the build side, *)
(* the keys and the columns of both sides, the output columns.  The rows   *)
(* of a side are keyed by its keys.                                        *)

SideIsPreserved(joinType, side) == joinType = "full" \/ joinType = side

\* No key where a value is NULL: such a row matches nothing.
JoinKey(values) == IF \E i \in DOMAIN values : values[i] = NULL THEN NULL ELSE values

Nulls(names) == [n \in names |-> NULL]
ProbeSide(j) == IF j.buildSide = "left" THEN "right" ELSE "left"

\* What a row without a match leaves.
Alone(j, row, side, other) ==
    IF SideIsPreserved(j.joinType, side) THEN <<row @@ Nulls(j.names[other])>> ELSE <<>>

\* Probing a hash table, then the build rows nothing matched.
HashJoinRows(j, build, probe) ==
    LET matches(p) == {b \in DOMAIN build : JoinKey(p.key) # NULL /\ build[b].key = p.key}
        joined(p, m) == IF m = <<>> THEN Alone(j, p.row, ProbeSide(j), j.buildSide)
                        ELSE [i \in DOMAIN m |-> build[m[i]].row @@ p.row]
        matched == UNION {matches(probe[i]) : i \in DOMAIN probe}
    IN  FlattenSeq([i \in DOMAIN probe |->
                      joined(probe[i], Ascending(matches(probe[i]), Len(build)))])
        \o FlattenSeq([b \in DOMAIN build |->
                         IF b \in matched THEN <<>>
                         ELSE Alone(j, build[b].row, j.buildSide, ProbeSide(j))])

CompareJoinKeys(l, r) ==
    LET differ == {i \in DOMAIN l : l[i] # r[i]}
        first == CHOOSE i \in differ : \A x \in differ : i <= x
    IN  IF differ = {} THEN 0 ELSE IF l[first] < r[first] THEN -1 ELSE 1

HeadKey(keyed) == IF keyed = <<>> THEN NULL ELSE JoinKey(keyed[1].key)

\* How many rows at the head of a sorted sequence share its first key.
TakeKeyGroup(keyed, key) ==
    CHOOSE n \in 1..Len(keyed) : /\ \A i \in 1..n : keyed[i].key = key
                                 /\ n < Len(keyed) => keyed[n + 1].key # key

\* The side whose head is next in the merge of two sorted sides, bk and pk the keys
\* at their heads.  NULLs sort last, so a side that reaches its keyless rows drains
\* them while the other side waits.
Turn(build, probe, bk, pk) ==
    CASE probe = <<>> \/ (build # <<>> /\ bk = NULL) -> "build"
      [] build = <<>> \/ pk = NULL -> "probe"
      [] bk = pk -> "both"
      [] OTHER -> IF CompareJoinKeys(bk, pk) < 0 THEN "build" ELSE "probe"

RECURSIVE MergeJoinRows(_, _, _)
MergeJoinRows(j, build, probe) ==
    LET turn == Turn(build, probe, HeadKey(build), HeadKey(probe))
        from(keyed, n) == SubSeq(keyed, n + 1, Len(keyed))
        pairs(bs, ps) == FlattenSeq([b \in 1..bs |->
                           [p \in 1..ps |-> build[b].row @@ probe[p].row]])
        both(bs, ps) == pairs(bs, ps) \o MergeJoinRows(j, from(build, bs), from(probe, ps))
    IN  CASE build = <<>> /\ probe = <<>> -> <<>>
          [] turn = "build" -> Alone(j, build[1].row, j.buildSide, ProbeSide(j))
                                 \o MergeJoinRows(j, Tail(build), probe)
          [] turn = "probe" -> Alone(j, probe[1].row, ProbeSide(j), j.buildSide)
                                 \o MergeJoinRows(j, build, Tail(probe))
          [] turn = "both" -> both(TakeKeyGroup(build, build[1].key),
                                   TakeKeyGroup(probe, probe[1].key))

\* Mutant: rows without a key go to no partition.
KeylessNowhere(key) == IF key = NULL THEN -1 ELSE Digest(key) % SpillPartitions

\* Rows without a key go to partition 0.
JoinPartitionNumber(key) == IF key = NULL THEN 0 ELSE Digest(key) % SpillPartitions

PartitionRows(keyed) ==
    [n \in 1..SpillPartitions |->
       SelectSeq(keyed, LAMBDA x : JoinPartitionNumber(JoinKey(x.key)) = n - 1)]

SortMergePartition(j, build, probe, budget) ==
    LET sorted(side, keyed) == ExternalSort(keyed, Ascendingly(j.keys[side]), budget)
    IN  MergeJoinRows(j, sorted(j.buildSide, build), sorted(ProbeSide(j), probe))

JoinPartition(j, build, probe, budget) ==
    IF Len(build) <= budget THEN HashJoinRows(j, build, probe)
    ELSE SortMergePartition(j, build, probe, budget)

\* With an empty probe side its schema is taken from the output schema, which
\* fails when the output does not carry all its columns.
ExecutePartitioned(j, build, probe, budget) ==
    LET b == PartitionRows(build)
        p == PartitionRows(probe)
    IN  IF probe = <<>> /\ ~(j.names[ProbeSide(j)] \subseteq j.columns) THEN Failed
        ELSE FlattenSeq([n \in 1..SpillPartitions |-> JoinPartition(j, b[n], p[n], budget)])

JoinKeyed(j, build, probe, budget) ==
    ShapedRows(IF Len(build) <= budget THEN HashJoinRows(j, build, probe)
               ELSE ExecutePartitioned(j, build, probe, budget), j.columns)

HashJoinExecute(j, build, probe, budget) ==
    IF probe = Failed \/ Raises(j.keys[j.buildSide], build) \/ Raises(j.keys[ProbeSide(j)], probe)
    THEN Failed
    ELSE JoinKeyed(j, Keyed(j.keys[j.buildSide], build), Keyed(j.keys[ProbeSide(j)], probe), budget)

----------------------------------------------------------------------------
(* Runtime filters: a Bloom filter of the build keys and a range per key.  *)

BloomPositions(values) == {(Digest(values) + i) % BloomBits : i \in 0..(BloomHashes - 1)}

MinMaxAdd(range, value) ==
    <<IF range[1] = NULL \/ value < range[1] THEN value ELSE range[1],
      IF range[2] = NULL \/ value > range[2] THEN value ELSE range[2]>>

\* Keys with a NULL are not added.
RuntimeFilterAdd(f, values) ==
    IF values = NULL THEN f
    ELSE [bits |-> f.bits \cup BloomPositions(values),
          ranges |-> [i \in DOMAIN f.ranges |-> MinMaxAdd(f.ranges[i], values[i])]]

RuntimeFilterFromRows(keys, rows) ==
    FoldLeft(LAMBDA f, row : RuntimeFilterAdd(f, JoinKey(Values(keys, row))),
             [bits |-> {}, ranges |-> [i \in DOMAIN keys |-> <<NULL, NULL>>]], rows)

MightContain(f, values) ==
    /\ values # NULL
    /\ \A i \in DOMAIN f.ranges :
         f.ranges[i][1] # NULL /\ f.ranges[i][1] <= values[i] /\ values[i] <= f.ranges[i][2]
    /\ BloomPositions(values) \subseteq f.bits

\* Only a probe side that is not preserved may lose rows.
RuntimeFilterIsSafe(joinType, buildSide) ==
    LET probe == IF buildSide = "left" THEN "right" ELSE "left"
    IN  joinType = "inner" \/ ~SideIsPreserved(joinType, probe)

\* A binding is [keys, filter]; a scan applies those that read only its columns.
ApplyRuntimeFilters(bindings, alias, rows) ==
    LET mine == SelectSeq(bindings, LAMBDA b :
                  \A i \in DOMAIN b.keys : ExpressionSources(b.keys[i]) = {alias})
    IN  SelectSeq(rows, LAMBDA row :
          \A i \in DOMAIN mine : MightContain(mine[i].filter, JoinKey(Values(mine[i].keys, row))))

----------------------------------------------------------------------------
(* The engine.                                                             *)

\* The keys of a join, per side, or NULL when the condition is not a conjunction
\* of equalities between the two sides.
HashJoinKeys(plan) ==
    LET left == PlanSources(plan.inputs[1])
        right == PlanSources(plan.inputs[2])
        equalities == SplitConjuncts(plan.condition)
        first(e) == ExpressionSources(e.args[1])
        second(e) == ExpressionSources(e.args[2])
        straight(e) == first(e) # {} /\ first(e) \subseteq left /\ second(e) \subseteq right
        crossed(e) == first(e) # {} /\ first(e) \subseteq right /\ second(e) \subseteq left
        key(e, side) == e.args[IF straight(e) = (side = "left") THEN 1 ELSE 2]
    IN  IF \A i \in DOMAIN equalities :
             LET e == equalities[i]
             IN  e.kind = "binary" /\ e.op = "=" /\ (straight(e) \/ crossed(e))
        THEN [side \in {"left", "right"} |->
                [i \in DOMAIN equalities |-> key(equalities[i], side)]]
        ELSE NULL

JoinOperator(plan) ==
    [joinType |-> plan.joinType, buildSide |-> plan.buildSide, keys |-> HashJoinKeys(plan),
     names |-> [side \in {"left", "right"} |->
                  RuntimeNames(plan.inputs[IF side = "left" THEN 1 ELSE 2])],
     columns |-> plan.columns]

FilterExecute(predicate, rows) ==
    IF Raises(<<predicate>>, rows) THEN Failed
    ELSE SelectSeq(rows, LAMBDA row : Evaluate(predicate, row) = True)

ProjectExecute(items, rows) ==
    LET name(i) == items[i].name
        shaped(row) == [n \in {name(i) : i \in DOMAIN items} |->
                          Evaluate(items[CHOOSE i \in DOMAIN items : name(i) = n].expr, row)]
    IN  IF Raises([i \in DOMAIN items |-> items[i].expr], rows) THEN Failed
        ELSE StrictRows([i \in DOMAIN rows |-> shaped(rows[i])])

ScanExecute(plan, tables, bindings) ==
    LET rows == tables[plan.table]
        renamed(row) == [n \in {ColumnName(plan.alias, c) : c \in plan.columns} |-> row[n.op]]
    IN  ApplyRuntimeFilters(bindings, plan.alias,
                            StrictRows([i \in DOMAIN rows |-> renamed(rows[i])]))

\* What an operator with one input makes of its rows.
UnaryExecute(plan, rows, budget) ==
    CASE rows = Failed -> Failed
      [] plan.kind = "limit" -> SubSeq(rows, 1, IF plan.count < Len(rows)
                                                THEN plan.count ELSE Len(rows))
      [] plan.kind = "filter" -> FilterExecute(plan.predicate, rows)
      [] plan.kind = "project" -> ProjectExecute(plan.items, rows)
      [] plan.kind = "order" -> OrderExecute(plan.orderBy, rows, budget)
      [] plan.kind = "aggregate" -> AggregateExecute(plan, rows, budget)
      [] plan.kind = "grouping_sets" -> GroupingSetsExecute(plan, rows)
      [] plan.kind = "window" -> WindowExecute(plan, rows)

\* When the build side of a join fits in memory its keys filter the scans of the
\* probe side.
Published(j, build, budget, bindings) ==
    IF RuntimeFilterIsSafe(j.joinType, j.buildSide) /\ Len(build) <= budget
    THEN Append(bindings, [keys |-> j.keys[ProbeSide(j)],
                           filter |-> RuntimeFilterFromRows(j.keys[j.buildSide], build)])
    ELSE bindings

SideInput(plan, side) == plan.inputs[IF side = "left" THEN 1 ELSE 2]

\* LocalExecutor: the rows a plan returns.  The build side of a join runs first.
RECURSIVE Execute(_, _, _, _), ExecuteJoin(_, _, _, _, _), ExecuteProbe(_, _, _, _, _, _)
ExecuteProbe(plan, j, build, tables, budget, bindings) ==
    IF build = Failed THEN Failed
    ELSE IF Raises(j.keys[j.buildSide], build) THEN Failed
    ELSE HashJoinExecute(j, build, Execute(SideInput(plan, ProbeSide(j)), tables, budget,
                                           Published(j, build, budget, bindings)), budget)

ExecuteJoin(plan, j, tables, budget, bindings) ==
    IF j.keys = NULL THEN Failed
    ELSE ExecuteProbe(plan, j, Execute(SideInput(plan, j.buildSide), tables, budget, bindings),
                      tables, budget, bindings)

Execute(plan, tables, budget, bindings) ==
    CASE plan.kind = "scan" -> ScanExecute(plan, tables, bindings)
      [] plan.kind = "limit" /\ plan.count = 0 ->
           IF \E n \in PlanNodes(plan) : n.kind = "join" /\ HashJoinKeys(n) = NULL
           THEN Failed ELSE <<>>
      [] plan.kind = "join" -> ExecuteJoin(plan, JoinOperator(plan), tables, budget, bindings)
      [] OTHER -> UnaryExecute(plan, Execute(Input(plan), tables, budget, bindings), budget)
============================================================================
