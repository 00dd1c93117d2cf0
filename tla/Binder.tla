------------------------------- MODULE Binder -------------------------------
(***************************************************************************)
(* Name binding, typing and plan construction (planner/binder.py).         *)
(*                                                                         *)
(* A parsed statement is a record: `from' and `joins' name tables with     *)
(* aliases (a join also has its type and its ON), `where', `having' and    *)
(* `limit' are NULL when absent, `items' is the select list ([alias,       *)
(* expr], alias "" for none), `sets' is NULL without GROUPING SETS, and    *)
(* `orderBy' holds SortExpressions.  Its expressions are nodes whose       *)
(* columns carry the written qualifier ("" for none) and whose types are   *)
(* not yet known.  Names are already case-folded.  The text grammar        *)
(* (sqlglot, planner/parser.py) is outside the model.  An error of the     *)
(* binder is the type "error" of an expression or the plan NULL.           *)
(***************************************************************************)
EXTENDS LogicalPlans

CONSTANT Catalog      \* table -> sequence of [name, type]

BindingError == Literal(NULL, "error")
HasField(source, name) == \E i \in DOMAIN source.fields : source.fields[i].name = name
FieldType(source, name) ==
    source.fields[CHOOSE i \in DOMAIN source.fields : source.fields[i].name = name].type

\* _Scope.resolve: the qualified source, or the only source that has the column.
Resolve(column, scope) ==
    LET found == {i \in DOMAIN scope : /\ column.source \in {"", scope[i].alias}
                                       /\ HasField(scope[i], column.op)}
        source == scope[CHOOSE i \in found : TRUE]
    IN  IF Cardinality(found) # 1 THEN BindingError
        ELSE Column(source.alias, column.op, FieldType(source, column.op))

Require(types, args, result) ==
    IF \A i \in DOMAIN args : args[i].type \in types THEN result ELSE BindingError
Booleans == {"boolean", "null"}

BindBinary(op, l, r) ==
    LET common == CommonType(l.type, r.type)
    IN  CASE op \in {"AND", "OR"} -> Require(Booleans, <<l, r>>, Binary(op, l, r, "boolean"))
          [] common = "error" -> BindingError
          [] op \in {"+", "-", "*"} ->
               IF common \in NumericTypes
               THEN Binary(op, CastTo(l, common), CastTo(r, common), common) ELSE BindingError
          [] OTHER -> Binary(op, CastTo(l, common), CastTo(r, common), "boolean")

\* The options and the value meet at one type.
BindIn(args) ==
    LET target == FoldLeft(LAMBDA t, e : CommonType(t, e.type), args[1].type, Tail(args))
        coerced == [i \in DOMAIN args |-> CastTo(args[i], target)]
    IN  IF target = "error" THEN BindingError ELSE InList(coerced[1], Tail(coerced))

\* The upper bound is cast to the type the value and the lower bound agree on.
BindBetween(args) ==
    LET common == CommonType(args[1].type, args[2].type)
    IN  IF common = "error" THEN BindingError
        ELSE Between(CastTo(args[1], common), CastTo(args[2], common), CastTo(args[3], common))

BindCase(args) ==
    LET n == Len(args)
        conditions == {i \in 1..(n - 1) : i % 2 = 1}
        results == Ascending(DOMAIN args \ conditions, n)
        type == FoldLeft(LAMBDA t, i : CommonType(t, args[i].type), "null", results)
    IN  IF type = "error" \/ \E i \in conditions : args[i].type \notin Booleans THEN BindingError
        ELSE Case([i \in DOMAIN args |-> IF i \in conditions THEN args[i]
                                         ELSE CastTo(args[i], type)], type)

BindAggregate(e, args) ==
    LET type == CASE e.op = "count" -> "int64" [] e.op = "avg" -> "float64"
                  [] OTHER -> args[1].type
    IN  CASE e.op # "count" /\ args = <<>> -> BindingError
          [] \E i \in DOMAIN args : ContainsAggregate(args[i]) \/ ContainsWindow(args[i]) ->
               BindingError
          [] e.op \in {"sum", "avg"} /\ args[1].type \notin NumericTypes -> BindingError
          [] OTHER -> AggregateFunction(e.op, args, e.source = "distinct", type)

BindScalarFunction(e, args) ==
    LET type == FoldLeft(LAMBDA t, a : CommonType(t, a.type), args[1].type, Tail(args))
    IN  CASE args = <<>> -> BindingError
          [] e.op = "abs" -> IF Len(args) = 1 THEN Require(NumericTypes, args,
                                                   ScalarFunction("abs", args, args[1].type))
                             ELSE BindingError
          [] e.op = "coalesce" /\ type # "error" ->
               ScalarFunction("coalesce", [i \in DOMAIN args |-> CastTo(args[i], type)], type)
          [] OTHER -> BindingError

\* An integer in an ORDER BY is a position, which a window does not have.
IsOrdinal(e) == e.kind = "literal" /\ e.value \notin {NULL, True, False}

LiteralType(value) ==
    CASE value = NULL -> "null" [] value \in {True, False} -> "boolean" [] OTHER -> "int32"

\* args: the function and the partition keys.
BindWindow(args, order, frame) ==
    IF \E i \in DOMAIN order : order[i].expr.type = "error" THEN BindingError
    ELSE WindowFunction(args[1], Tail(args), order, frame)

\* aliases gives the output names a HAVING or an ORDER BY may use first.
RECURSIVE BindExpression(_, _, _)
BindExpression(e, scope, aliases) ==
    LET args == [i \in DOMAIN e.args |-> BindExpression(e.args[i], scope, aliases)]
        order == [i \in DOMAIN e.order |->
                    [e.order[i] EXCEPT !.expr =
                       IF IsOrdinal(@) THEN BindingError ELSE BindExpression(@, scope, aliases)]]
    IN  CASE e.kind = "column" ->
               IF e.source = "" /\ Name(e) \in DOMAIN aliases THEN aliases[Name(e)]
               ELSE Resolve(e, scope)
          [] e.kind = "literal" -> Literal(e.value, LiteralType(e.value))
          [] \E i \in DOMAIN args : args[i].type = "error" -> BindingError
          [] e.kind = "cast" -> Cast(args[1], e.type)
          [] e.kind = "unary" -> Require(IF e.op = "NOT" THEN Booleans ELSE NumericTypes, args,
               Unary(e.op, args[1], IF e.op = "NOT" THEN "boolean" ELSE args[1].type))
          [] e.kind = "binary" -> BindBinary(e.op, args[1], args[2])
          [] e.kind = "isnull" -> IsNull(args[1])
          [] e.kind = "in" -> BindIn(args)
          [] e.kind = "between" -> BindBetween(args)
          [] e.kind = "case" -> BindCase(args)
          [] e.kind = "aggregate" -> BindAggregate(e, args)
          [] e.kind = "function" /\ e.op \in {"row_number", "rank", "dense_rank"} ->
               ScalarFunction(e.op, <<>>, "int64")
          [] e.kind = "function" -> BindScalarFunction(e, args)
          [] e.kind = "window" -> BindWindow(args, order, e.frame)

----------------------------------------------------------------------------
(* The select list, the groups, the order.                                 *)

\* A star gives every column of the sources it names; with several sources the
\* output names are qualified.
StarItems(scope, qualifier) ==
    LET of(s) == [i \in DOMAIN s.fields |->
                    NamedExpression(ColumnName(IF Len(scope) > 1 THEN s.alias ELSE "",
                                               s.fields[i].name),
                                    Column(s.alias, s.fields[i].name, s.fields[i].type))]
        chosen == SelectSeq(scope, LAMBDA s : qualifier \in {"", s.alias})
    IN  FlattenSeq([i \in DOMAIN chosen |-> of(chosen[i])])

BindProjections(items, scope) ==
    LET bound(i) == NamedExpression(
            ColumnName("", CASE items[i].alias # "" -> items[i].alias
                             [] items[i].expr.kind = "column" -> items[i].expr.op
                             [] OTHER -> "_col" \o ToString(i)),
            BindExpression(items[i].expr, scope, <<>>))
    IN  FlattenSeq([i \in DOMAIN items |->
          IF items[i].expr.kind = "star" THEN StarItems(scope, items[i].expr.source)
          ELSE <<bound(i)>>])

RECURSIVE WalkAggregates(_)
WalkAggregates(e) ==
    CASE e.kind = "window" -> {}
      [] e.kind = "aggregate" -> {e}
      [] OTHER -> UNION {WalkAggregates(e.args[i]) : i \in DOMAIN e.args}

CollectAggregates(projections, having) ==
    Listed(UNION {WalkAggregates(projections[i].expr) : i \in DOMAIN projections}
             \cup IF having = NULL THEN {} ELSE WalkAggregates(having))

CollectWindows(projections) ==
    FlattenSeq([i \in DOMAIN projections |->
                  Listed({x \in Walk(projections[i].expr) : x.kind = "window"})])

\* Only the columns of an item are compared with the grouping columns, and an
\* item with an aggregate or a window in it is not looked at, nor is HAVING.
ValidAggregation(projections, grouping) ==
    LET columns(e) == {Name(c) : c \in ExpressionColumns(e)}
        grouped == UNION {columns(g) : g \in grouping}
    IN  \A i \in DOMAIN projections :
          LET e == projections[i].expr
          IN  ContainsAggregate(e) \/ ContainsWindow(e) \/ columns(e) \subseteq grouped

\* A position, an output name, or an expression over the sources.
BindOrdered(item, scope, projections) ==
    LET output(i) == [projections[i].name EXCEPT !.type = projections[i].expr.type]
        named == {i \in DOMAIN projections : projections[i].name = Name(item.expr)}
        aliases == [n \in {projections[i].name : i \in DOMAIN projections} |->
                      projections[CHOOSE i \in DOMAIN projections :
                                    projections[i].name = n].expr]
        e == item.expr
    IN  [item EXCEPT !.expr =
           CASE IsOrdinal(e) -> IF e.value \in DOMAIN projections THEN output(e.value)
                                ELSE BindingError
             [] e.kind = "column" /\ e.source = "" /\ named # {} ->
                  output(CHOOSE i \in named : TRUE)
             [] OTHER -> BindExpression(e, scope, aliases)]

----------------------------------------------------------------------------
(* FROM, then the clauses, each adding a node.                             *)

Id(prefix, n) == prefix \o "_" \o ToString(n)

Source(ref) == [alias |-> ref.alias, fields |-> Catalog[ref.table]]
FieldNames(source) == {source.fields[i].name : i \in DOMAIN source.fields}

\* The scope after the first n joins.
ScopeOf(statement, n) ==
    <<Source(statement.from)>> \o [i \in 1..n |-> Source(statement.joins[i])]

JoinColumns(scope) ==
    UNION {{ColumnName(scope[i].alias, f) : f \in FieldNames(scope[i])} : i \in DOMAIN scope}

\* Left-deep: each table joins what is already bound.
RECURSIVE BindFrom(_, _)
BindFrom(statement, n) ==
    IF n = 0
    THEN Scan(Id("scan", 1), statement.from.table, statement.from.alias,
              FieldNames(Source(statement.from)))
    ELSE LET j == statement.joins[n]
             scope == ScopeOf(statement, n)
         IN  Join(Id("join", 2 * n + 1), BindFrom(statement, n - 1),
                  Scan(Id("scan", 2 * n), j.table, j.alias, FieldNames(Source(j))),
                  j.joinType, BindExpression(j.on, scope, <<>>), JoinColumns(scope))

\* _require_boolean and _reject_aggregate_or_window.
IsPredicate(e) == e.type \in Booleans /\ ~ContainsAggregate(e) /\ ~ContainsWindow(e)

\* Grouping keys may not hold an aggregate or a window; sets exclude other keys.
BindGroups(keys, scope) == [i \in DOMAIN keys |-> BindExpression(keys[i], scope, <<>>)]
ValidGroups(groupBy, sets) ==
    /\ \A i \in DOMAIN groupBy : /\ groupBy[i].type # "error"
                                 /\ ~ContainsAggregate(groupBy[i])
                                 /\ ~ContainsWindow(groupBy[i])
    /\ sets # <<>> => groupBy = <<>>
    /\ \A i \in DOMAIN sets : \A j \in DOMAIN sets[i] : sets[i][j].type # "error"

\* The clauses of a statement, bound in the order of Binder.bind: HAVING and ORDER BY
\* may name what the select list defines.
BindClauses(statement, scope, projections) ==
    LET outputs == [n \in {projections[i].name : i \in DOMAIN projections} |->
                      projections[CHOOSE i \in DOMAIN projections : projections[i].name = n].expr]
    IN  [aliases |-> [i \in DOMAIN scope |-> scope[i].alias],
         from |-> BindFrom(statement, Len(statement.joins)),
         where |-> IF statement.where = NULL THEN NULL
                   ELSE BindExpression(statement.where, scope, <<>>),
         projections |-> projections,
         groupBy |-> BindGroups(statement.groupBy, scope),
         sets |-> IF statement.sets = NULL THEN <<>>
                  ELSE [i \in DOMAIN statement.sets |-> BindGroups(statement.sets[i], scope)],
         having |-> IF statement.having = NULL THEN NULL
                    ELSE BindExpression(statement.having, scope, outputs),
         orderBy |-> [i \in DOMAIN statement.orderBy |->
                        BindOrdered(statement.orderBy[i], scope, projections)]]

ProjectionNames(b) == [i \in DOMAIN b.projections |-> b.projections[i].name]
Aggregates(b) == CollectAggregates(b.projections, b.having)
IsAggregated(b) == b.sets # <<>> \/ b.groupBy # <<>> \/ Aggregates(b) # <<>>

\* What the binder asks of the clauses.
Accepted(b) ==
    /\ IsInjective(b.aliases)
    /\ \A x \in PlanNodes(b.from) : x.kind = "join" => IsPredicate(x.condition)
    /\ b.where # NULL => IsPredicate(b.where)
    /\ b.projections # <<>> /\ IsInjective(ProjectionNames(b))
    /\ \A i \in DOMAIN b.projections : b.projections[i].expr.type # "error"
    /\ ValidGroups(b.groupBy, b.sets)
    /\ b.having # NULL => /\ IsAggregated(b)
                          /\ b.having.type \in Booleans /\ ~ContainsWindow(b.having)
    /\ IsAggregated(b) =>
         ValidAggregation(b.projections,
                          ToSet(b.groupBy) \cup UNION {ToSet(b.sets[i]) : i \in DOMAIN b.sets})
    /\ \A i \in DOMAIN b.orderBy : b.orderBy[i].expr.type # "error"

\* A node per clause, from FROM up to LIMIT; the ids number the nodes.
Plan(b, n, limit) ==
    LET m == 2 * n + IF b.where = NULL THEN 1 ELSE 2
        columns == ToSet(ProjectionNames(b))
        filtered(p) == IF b.where = NULL THEN p
                       ELSE Filter(Id("filter", 2 * n + 2), p, b.where, "where")
        grouped(p) ==
            CASE b.sets # <<>> ->
                   GroupingSets(Id("grouping_sets", m + 1), p, b.sets, Aggregates(b), columns)
              [] IsAggregated(b) ->
                   Aggregate(Id("aggregate", m + 1), p, b.groupBy, Aggregates(b), columns)
              [] OTHER -> p
        restricted(p) == IF b.having = NULL THEN p
                         ELSE Filter(Id("having", m + 2), p, b.having, "having")
        windowed(p) == LET windows == CollectWindows(b.projections)
                       IN  IF windows = <<>> THEN p
                           ELSE Window(Id("window", m + 3), p, windows,
                                       SchemaNames(p) \cup ToSet(windows))
        projected(p) == Project(Id("project", m + 4), p, b.projections)
        ordered(p) == IF b.orderBy = <<>> THEN p ELSE Order(Id("order", m + 5), p, b.orderBy)
        limited(p) == IF limit = NULL THEN p ELSE Limit(Id("limit", m + 6), p, limit)
    IN  limited(ordered(projected(windowed(restricted(grouped(filtered(b.from)))))))

PlanIfAccepted(b, statement) ==
    IF Accepted(b) THEN Plan(b, Len(statement.joins), statement.limit) ELSE NULL

\* Binder.bind: the plan of a statement, NULL if it is rejected.
Bind(statement) ==
    LET scope == ScopeOf(statement, Len(statement.joins))
    IN  PlanIfAccepted(BindClauses(statement, scope, BindProjections(statement.items, scope)),
                       statement)
============================================================================
