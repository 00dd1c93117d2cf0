------------------------ MODULE DistributedExecution ------------------------
(***************************************************************************)
(* A plan cut at exchanges and run partition by partition                  *)
(* (execution/physical.py, execution/distributed.py,                       *)
(* coordinator/remote_execution.py with worker/tasks.py, the shuffle of    *)
(* execution/shuffle.py).  The scheduling of the tasks and their retries   *)
(* are TaskScheduler's and WorkerTasks' concern: a task here is what it    *)
(* computes.  A partition is a table: its column names and its rows.  A    *)
(* plan runs on `files', the partitions of every table, and in one of      *)
(* these modes: `remote' (tasks on Workers) or in the coordinator's        *)
(* process, where `large' tells that a partition is too large for a        *)
(* partial aggregation.  Memory is plentiful.                              *)
(***************************************************************************)
EXTENDS JoinPlanning, Operators

CONSTANT ImportDigest(_)     \* hash of a partition key in the importer

\* Exceptions that are told apart from the others (Failed): two partitions of an
\* exchange with different columns; a sum that meets the sum of no values.
SchemaMismatch == <<NULL>>
NullPartial == <<False>>
Failures == {Failed, SchemaMismatch, NullPartial}
Memory == 100

Table(names, rows) == [names |-> names, rows |-> rows]
Broken(failure) == Table({}, failure)
IsBroken(tables) == \E i \in DOMAIN tables : tables[i].rows \in Failures
FirstBroken(tables) ==
    tables[CHOOSE i \in DOMAIN tables : /\ tables[i].rows \in Failures
                                        /\ \A j \in 1..(i - 1) : tables[j].rows \notin Failures]

\* A failed task fails the run: the partitions of its stage are not read.
Stage(tables) == IF IsBroken(tables) THEN <<FirstBroken(tables)>> ELSE tables

----------------------------------------------------------------------------
(* Exchanges.                                                              *)

\* Mutant: the keys of the first window function stand for all.
FirstWindowKeys(plan) == Tail(plan.items[1].args)

\* The keys all window functions partition by, or none.
WindowPartitionKeys(plan) ==
    LET partitionBy(i) == Tail(plan.items[i].args)
    IN  IF \A i \in DOMAIN plan.items : partitionBy(i) = partitionBy(1)
        THEN partitionBy(1) ELSE <<>>

RECURSIVE MaterializeExchanges(_)
MaterializeExchanges(plan) ==
    LET inputs == [i \in DOMAIN plan.inputs |-> MaterializeExchanges(plan.inputs[i])]
        over(strategy, keys, count) ==
            WithInput(plan, Exchange(inputs[1], strategy, keys, count))
        grouped(keys) == IF keys = <<>> THEN over("single", <<>>, 1)
                         ELSE over("hash", keys, WorkerCount)
        side(i, name) ==
            CASE plan.strategy \in {"repartition_both", "repartition_" \o name} ->
                   Exchange(inputs[i], "hash", JoinKeys(plan)[name], WorkerCount)
              [] plan.strategy = "broadcast" /\ plan.buildSide = name ->
                   Exchange(inputs[i], "broadcast", <<>>, WorkerCount)
              [] OTHER -> inputs[i]
    IN  CASE plan.kind = "join" -> [plan EXCEPT !.inputs = <<side(1, "left"), side(2, "right")>>]
          [] plan.kind = "aggregate" -> grouped(plan.groupBy)
          [] plan.kind = "window" -> grouped(WindowPartitionKeys(plan))
          [] plan.kind \in {"grouping_sets", "order", "limit"} -> over("single", <<>>, 1)
          [] OTHER -> [plan EXCEPT !.inputs = inputs]

\* A hash exchange without keys is refused, and the statement with it.
Exchanges(plan) == {n \in PlanNodes(plan) : n.kind = "exchange"}
IsRefused(plan) == \E x \in Exchanges(plan) : x.strategy = "hash" /\ x.keys = <<>>

\* A Worker gets the keys as text and looks that text up in the row.
ExchangeKeys(keys, row, remote) ==
    [i \in DOMAIN keys |-> IF remote /\ keys[i].kind # "column" THEN Lookup(row, keys[i])
                           ELSE Evaluate(keys[i], row)]

\* ShuffleStore.write: the partitions one task's table is divided into.
ShuffleWrite(table, exchange, remote) ==
    LET keys(row) == ExchangeKeys(exchange.keys, row, remote)
        target(row) == Digest(keys(row)) % exchange.count
        goesTo(row, p) == exchange.strategy = "broadcast" \/ target(row) = p - 1
        raises == \E i \in DOMAIN table.rows : Err \in ToSet(keys(table.rows[i]))
    IN  [p \in 1..exchange.count |->
           IF raises THEN Broken(Failed)
           ELSE [table EXCEPT !.rows = SelectSeq(@, LAMBDA row : goesTo(row, p))]]

\* pa.concat_tables refuses tables whose columns differ.
ConcatTables(tables) ==
    CASE tables = <<>> -> Table({}, <<>>)
      [] IsBroken(tables) -> FirstBroken(tables)
      [] \E i \in DOMAIN tables : tables[i].names # tables[1].names -> Broken(SchemaMismatch)
      [] OTHER -> [tables[1] EXCEPT !.rows =
                     FlattenSeq([i \in DOMAIN tables |-> tables[i].rows])]

\* Every target partition is read from the manifests of all source tasks.
RunExchange(exchange, source, remote) ==
    LET written == [i \in DOMAIN source |-> ShuffleWrite(source[i], exchange, remote)]
    IN  IF IsBroken(source) THEN source
        ELSE Stage([p \in 1..exchange.count |->
                      ConcatTables([i \in DOMAIN source |-> written[i][p]])])

----------------------------------------------------------------------------
(* Tasks.                                                                  *)

\* An operator without output leaves a table with the columns of the plan's
\* schema, which are not always those of its rows.
OperatorTable(plan, rows) ==
    Table(IF rows \in Failures THEN {} ELSE IF rows = <<>> THEN SchemaNames(plan)
          ELSE DOMAIN rows[1], rows)

\* The columns of a scan are those it was asked for, also for an empty file.
ScanTask(plan, file, bindings) ==
    Table(RuntimeNames(plan), ScanExecute(plan, plan.table :> file, bindings))

UnaryTask(plan, table) == OperatorTable(plan, UnaryExecute(plan, table.rows, Memory))

JoinTask(plan, build, probe) ==
    OperatorTable(plan, HashJoinExecute(JoinOperator(plan), build.rows, probe.rows, Memory))

CanPartial(plan) == \A i \in DOMAIN plan.aggregates : plan.aggregates[i].source # "distinct"

\* Per group, the keys and for every aggregate a count and a value.
PartialValue(f, s) ==
    <<s.count, IF f.op \in {"sum", "avg"} /\ s.count > 0 THEN s.total ELSE s.value>>
PartialRow(plan, key, rows) ==
    [n \in Names(plan.groupBy) |-> key[CHOOSE i \in DOMAIN key : Name(plan.groupBy[i]) = n]]
    @@ [f \in Names(plan.aggregates) |-> PartialValue(f, AggregateState(f, rows))]
PartialRows(plan, keyed) ==
    LET keys == HashGroups(plan.groupBy, keyed)
    IN  [i \in DOMAIN keys |-> PartialRow(plan, keys[i], WithKey(keyed, keys[i]))]

PartialAggregate(plan, table) ==
    IF Raises(plan.groupBy \o AggregateArguments(plan.aggregates), table.rows)
    THEN Broken(Failed)
    ELSE Table(Names(plan.groupBy) \cup Names(plan.aggregates),
               PartialRows(plan, Keyed(plan.groupBy, table.rows)))

\* Sums are added from left to right; a later NULL is not skipped.
AddPartial(state, f, partial) ==
    LET v == state[2]
        w == partial[2]
        better == v = NULL \/ IF f.op = "min" THEN w < v ELSE w > v
    IN  <<state[1] + partial[1],
          CASE v = Err \/ f.op = "count" -> v
            [] f.op \in {"sum", "avg"} -> IF v = NULL THEN w ELSE IF w = NULL THEN Err ELSE v + w
            [] OTHER -> IF w = NULL THEN v ELSE IF better THEN w ELSE v>>

FinalAggregate(plan, table) ==
    LET keyOf(r) == [i \in DOMAIN plan.groupBy |-> r[Name(plan.groupBy[i])]]
        keys == FoldLeft(LAMBDA ks, r : IF Contains(ks, keyOf(r)) THEN ks ELSE Append(ks, keyOf(r)),
                         IF plan.groupBy = <<>> THEN <<<<>>>> ELSE <<>>, table.rows)
        state(f, key) == FoldLeft(LAMBDA s, r : AddPartial(s, f, r[f]), <<0, NULL>>,
                                  SelectSeq(table.rows, LAMBDA r : keyOf(r) = key))
        value(f, s) == CASE f.op = "count" -> s[1]
                         [] s[1] = 0 -> NULL
                         [] f.op = "avg" -> <<s[2], s[1]>>
                         [] OTHER -> s[2]
        row(key) == [n \in Names(plan.groupBy) |->
                       key[CHOOSE i \in DOMAIN key : Name(plan.groupBy[i]) = n]]
                    @@ [f \in Names(plan.aggregates) |-> value(f, state(f, key))]
    IN  IF \E f \in Names(plan.aggregates), i \in DOMAIN keys : state(f, keys[i])[2] = Err
        THEN Broken(NullPartial)
        ELSE Table(table.names, [i \in DOMAIN keys |-> row(keys[i])])

\* A side with one partition is joined with every partition of the other side.
JoinPartitions(plan, build, probe) ==
    LET count == IF Len(build) >= Len(probe) THEN Len(build) ELSE Len(probe)
        at(tables, i) == tables[IF Len(tables) = 1 THEN 1 ELSE i]
    IN  IF {Len(build), Len(probe)} \subseteq {1, count}
        THEN [i \in 1..count |-> JoinTask(plan, at(build, i), at(probe, i))]
        ELSE <<Broken(Failed)>>

JoinStage(plan, build, probe) ==
    IF IsBroken(probe) THEN probe ELSE Stage(JoinPartitions(plan, build, probe))

\* One task per partition, unless an earlier stage failed.
EachPartition(tables, task(_)) ==
    IF IsBroken(tables) THEN tables ELSE Stage([i \in DOMAIN tables |-> task(tables[i])])

----------------------------------------------------------------------------
(* The executors.                                                          *)

\* In process the keys of a build side filter the scans of the probe side.
FiltersProbe(plan, mode) == ~mode.remote /\ RuntimeFilterIsSafe(plan.joinType, plan.buildSide)
TableRowsOf(tables) == FlattenSeq([i \in DOMAIN tables |-> tables[i].rows])

\* _execute_node: the partitions of a plan's output.
RECURSIVE ExecuteNode(_, _, _, _), ExecuteSides(_, _, _, _, _, _)
ExecuteSides(plan, j, build, files, mode, bindings) ==
    LET filters == FiltersProbe(plan, mode)
    IN  IF IsBroken(build) THEN build
        ELSE IF filters /\ Raises(j.keys[j.buildSide], TableRowsOf(build)) THEN <<Broken(Failed)>>
        ELSE JoinStage(plan, build,
               ExecuteNode(SideInput(plan, ProbeSide(j)), files, mode,
                           IF filters THEN Published(j, TableRowsOf(build), Memory, bindings)
                           ELSE bindings))

ExecuteNode(plan, files, mode, bindings) ==
    CASE plan.kind = "scan" ->
           [i \in DOMAIN files[plan.table] |-> ScanTask(plan, files[plan.table][i], bindings)]
      [] plan.kind = "join" ->
           IF HashJoinKeys(plan) = NULL THEN <<Broken(Failed)>>
           ELSE ExecuteSides(plan, JoinOperator(plan),
                             ExecuteNode(SideInput(plan, plan.buildSide), files, mode, bindings),
                             files, mode, bindings)
      [] plan.kind = "exchange" ->
           RunExchange(plan, ExecuteNode(Input(plan), files, mode, bindings), mode.remote)
         \* In process, over partitions that are small enough: before and after the exchange.
      [] plan.kind = "aggregate" /\ ~mode.remote /\ ~mode.large /\ CanPartial(plan) ->
           EachPartition(
             RunExchange(Input(plan),
               EachPartition(ExecuteNode(Input(Input(plan)), files, mode, bindings),
                             LAMBDA table : PartialAggregate(plan, table)),
               mode.remote),
             LAMBDA table : FinalAggregate(plan, table))
      [] OTHER -> EachPartition(ExecuteNode(Input(plan), files, mode, bindings),
                                LAMBDA table : UnaryTask(plan, table))

\* The files an import leaves of a table's rows.
ImportedFiles(rows, t) ==
    [p \in 1..t.count |->
       LET target(i) == IF t.key = "" THEN (i - 1) % t.count
                        ELSE ImportDigest(rows[i][t.key]) % t.count
           mine == Ascending({i \in DOMAIN rows : target(i) = p - 1}, Len(rows))
       IN  [n \in DOMAIN mine |-> rows[mine[n]]]]

\* execute: the rows of the result, in the order of the partitions, or a failure.
ExecuteDistributed(plan, db, layout, mode) ==
    ConcatTables(ExecuteNode(plan, [t \in DOMAIN db |-> ImportedFiles(db[t], layout[t])],
                             mode, <<>>)).rows
=============================================================================
