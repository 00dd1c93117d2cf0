---------------------------- MODULE LogicalPlans ----------------------------
(***************************************************************************)
(* The relational operators of planner/logical.py and the exchange of      *)
(* execution/physical.py.  A plan is a record; `inputs' holds its          *)
(* children, `columns' the names its output schema lists (the other fields *)
(* of a schema decide nothing here).                                       *)
(***************************************************************************)
EXTENDS Expressions, FiniteSets

\* The name is the one the row will carry (ColumnName).
NamedExpression(name, e) == [name |-> name, expr |-> e]

\* `columns' are the bare column names the scan reads.
Scan(id, table, alias, columns) ==
    [kind |-> "scan", id |-> id, inputs |-> <<>>, table |-> table, alias |-> alias,
     columns |-> columns]
Project(id, input, items) ==
    [kind |-> "project", id |-> id, inputs |-> <<input>>, items |-> items]
Filter(id, input, predicate, phase) ==
    [kind |-> "filter", id |-> id, inputs |-> <<input>>, predicate |-> predicate,
     phase |-> phase]
\* The output schema of an aggregation is that of the select list.
Aggregate(id, input, groupBy, aggregates, columns) ==
    [kind |-> "aggregate", id |-> id, inputs |-> <<input>>, groupBy |-> groupBy,
     aggregates |-> aggregates, columns |-> columns]
GroupingSets(id, input, sets, aggregates, columns) ==
    [kind |-> "grouping_sets", id |-> id, inputs |-> <<input>>, sets |-> sets,
     aggregates |-> aggregates, columns |-> columns]
\* `columns' are the qualified names (ColumnName) of the join's output schema;
\* `strategy' is what the JoinDecision about this join says.
Join(id, left, right, joinType, condition, columns) ==
    [kind |-> "join", id |-> id, inputs |-> <<left, right>>, joinType |-> joinType,
     condition |-> condition, columns |-> columns, inputLimit |-> NULL,
     buildSide |-> "right", strategy |-> NULL]
\* The output schema of a window keeps the columns it was bound with.
Window(id, input, items, columns) ==
    [kind |-> "window", id |-> id, inputs |-> <<input>>, items |-> items, columns |-> columns]
Order(id, input, orderBy) ==
    [kind |-> "order", id |-> id, inputs |-> <<input>>, orderBy |-> orderBy]
Limit(id, input, count) ==
    [kind |-> "limit", id |-> id, inputs |-> <<input>>, count |-> count]

Exchange(input, strategy, keys, count) ==
    [kind |-> "exchange", id |-> input.id, inputs |-> <<input>>, strategy |-> strategy,
     keys |-> keys, count |-> count]

Input(plan) == plan.inputs[1]
WithInput(plan, input) == [plan EXCEPT !.inputs = <<input>>]

RECURSIVE PlanSources(_)
PlanSources(plan) ==
    IF plan.kind = "scan" THEN {plan.alias}
    ELSE UNION {PlanSources(plan.inputs[i]) : i \in DOMAIN plan.inputs}

RECURSIVE PlanNodes(_)
PlanNodes(plan) ==
    {plan} \cup UNION {PlanNodes(plan.inputs[i]) : i \in DOMAIN plan.inputs}

Names(exprs) == {Name(exprs[i]) : i \in DOMAIN exprs}

\* The names in the output schema of a plan.  The schema of a scan has bare names
\* and so has the schema of a filter over it.
RECURSIVE SchemaNames(_)
SchemaNames(plan) ==
    CASE plan.kind = "scan" -> {ColumnName("", c) : c \in plan.columns}
      [] plan.kind \in {"join", "aggregate", "grouping_sets", "window"} -> plan.columns
      [] plan.kind = "project" -> {plan.items[i].name : i \in DOMAIN plan.items}
      [] OTHER -> SchemaNames(Input(plan))

\* The names a row of the plan's output carries when the engine runs it.
RECURSIVE RuntimeNames(_)
RuntimeNames(plan) ==
    CASE plan.kind = "scan" -> {ColumnName(plan.alias, c) : c \in plan.columns}
      [] plan.kind \in {"filter", "limit", "order"} -> RuntimeNames(Input(plan))
      [] plan.kind = "project" ->
           {plan.items[i].name : i \in DOMAIN plan.items}
      [] plan.kind = "aggregate" -> Names(plan.groupBy) \cup Names(plan.aggregates)
      [] plan.kind = "grouping_sets" ->
           UNION {Names(plan.sets[i]) : i \in DOMAIN plan.sets} \cup Names(plan.aggregates)
      [] plan.kind = "window" ->
           RuntimeNames(Input(plan)) \cup {plan.items[i] : i \in DOMAIN plan.items}
      [] OTHER -> SchemaNames(plan)
============================================================================
