---------------------------- MODULE Expressions ----------------------------
(***************************************************************************)
(* Bound SQL expressions and their scalar evaluation                       *)
(* (planner/expressions.py), the implicit type rules (planner/types.py)    *)
(* and the expression helpers of the optimizer (optimizer/utils.py).       *)
(*                                                                         *)
(* Every node is a record with the same fields, so that two expressions    *)
(* can always be compared.  `args' holds the child expressions in the      *)
(* order of the dataclass fields (CASE: condition, result, ..., default;   *)
(* window: the function, then PARTITION BY).  Data is abstracted to        *)
(* integers, booleans and NULL: floats, decimals, text, dates and the      *)
(* functions over them are left out, and so is nullability, which no       *)
(* control decision reads.  sql() is what names a value in a row; it is    *)
(* abstracted to the node itself without the type of a column (Name).      *)
(* Err stands for a Python exception raised by an evaluation.  The arms of *)
(* a CASE are read in their order, here and in the modules that extend     *)
(* this one.                                                               *)
(***************************************************************************)
EXTENDS Integers, Sequences, SequencesExt

CONSTANTS NULL, True, False, Err     \* model values

ASSUME ValuesDiffer == /\ True # False /\ NULL \notin {True, False}
                       /\ Err \notin {NULL, True, False}

Node(kind, op, source, args, value, type) ==
    [kind |-> kind, op |-> op, source |-> source, args |-> args,
     value |-> value, type |-> type]

Literal(value, type) == Node("literal", "", "", <<>>, value, type)
Column(source, name, type) == Node("column", name, source, <<>>, NULL, type)
Cast(e, type) == Node("cast", "", "", <<e>>, NULL, type)
Unary(op, e, type) == Node("unary", op, "", <<e>>, NULL, type)
Binary(op, l, r, type) == Node("binary", op, "", <<l, r>>, NULL, type)
IsNull(e) == Node("isnull", "", "", <<e>>, NULL, "boolean")
InList(e, options) == Node("in", "", "", <<e>> \o options, NULL, "boolean")
Between(e, low, high) == Node("between", "", "", <<e, low, high>>, NULL, "boolean")
Case(args, type) == Node("case", "", "", args, NULL, type)
ScalarFunction(name, args, type) == Node("function", name, "", args, NULL, type)
AggregateFunction(name, args, distinct, type) ==
    Node("aggregate", name, IF distinct THEN "distinct" ELSE "", args, NULL, type)
\* `order' holds the SortExpressions, `frame' is <<>> or <<start, end>>.
WindowFunction(function, partitionBy, orderBy, frame) ==
    Node("window", "", "", <<function>> \o partitionBy, NULL, function.type)
        @@ [order |-> orderBy, frame |-> frame]
SortExpression(e, ascending, nullsFirst) ==
    [expr |-> e, ascending |-> ascending, nullsFirst |-> nullsFirst]

\* The same sequence and the same sequence of rows, in a form that TLC evaluates
\* when it is built and not at every use.
Strict(s) == s \o <<>>
StrictRows(rows) == Strict([i \in DOMAIN rows |-> rows[i] @@ <<>>])

\* The elements of a set in some fixed order; the indexes 1..n of a set in theirs.
RECURSIVE Listed(_)
Listed(S) == IF S = {} THEN <<>>
             ELSE LET x == CHOOSE x \in S : TRUE IN <<x>> \o Listed(S \ {x})
Ascending(S, n) == SelectSeq([i \in 1..n |-> i], LAMBDA i : i \in S)

----------------------------------------------------------------------------
(* The tree: children, walk, columns, sources, conjuncts.                 *)

\* expression_children sees expressions only: a SortExpression is not one, so
\* the ORDER BY of a window is never visited.
RECURSIVE Walk(_)
Walk(e) == {e} \cup UNION {Walk(e.args[i]) : i \in DOMAIN e.args}

ExpressionColumns(e) == {x \in Walk(e) : x.kind = "column"}
ExpressionSources(e) == {c.source : c \in ExpressionColumns(e)}
ContainsAggregate(e) == \E x \in Walk(e) : x.kind = "aggregate"
ContainsWindow(e) == \E x \in Walk(e) : x.kind = "window"
IsConstant(e) == \A x \in Walk(e) : x.kind \notin {"column", "aggregate", "window"}

\* The text sql() gives the node: a column is named without its type.
Name(e) == IF e.kind = "column" THEN [e EXCEPT !.type = ""] ELSE e
ColumnName(source, name) == Column(source, name, "")

RECURSIVE SplitConjuncts(_)
SplitConjuncts(e) ==
    IF e.kind = "binary" /\ e.op = "AND"
    THEN SplitConjuncts(e.args[1]) \o SplitConjuncts(e.args[2])
    ELSE <<e>>

CombineConjuncts(s) ==
    FoldLeft(LAMBDA acc, e : Binary("AND", acc, e, acc.type), Head(s), Tail(s))

\* Distinct conjuncts in the order of their text; any fixed order will do.
NormalizeConjuncts(e) ==
    CombineConjuncts(Listed({SplitConjuncts(e)[i] : i \in DOMAIN SplitConjuncts(e)}))

----------------------------------------------------------------------------
(* Evaluation.                                                             *)

Truth(b) == IF b THEN True ELSE False

SqlAnd(l, r) == IF False \in {l, r} THEN False
                ELSE IF NULL \in {l, r} THEN NULL ELSE True
SqlOr(l, r) == IF True \in {l, r} THEN True
               ELSE IF NULL \in {l, r} THEN NULL ELSE False

\* int() and bool() of the modelled values.
CastValue(v, type) ==
    CASE v = NULL -> NULL
      [] type \in {"int32", "int64"} -> IF v = True THEN 1 ELSE IF v = False THEN 0 ELSE v
      [] type = "boolean" -> IF v \in {True, False} THEN v ELSE Truth(v # 0)
      [] OTHER -> v

UnaryValue(op, v) ==
    CASE v = NULL -> NULL
      [] op = "NOT" -> Truth(v = False)
      [] OTHER -> 0 - v

Compares(op, l, r) ==
    CASE op = "=" -> l = r
      [] op = "<>" -> l # r
      [] op = "<" -> l < r
      [] op = "<=" -> l <= r
      [] op = ">" -> l > r
      [] op = ">=" -> l >= r

BinaryValue(op, l, r) ==
    CASE op = "AND" -> SqlAnd(l, r)
      [] op = "OR" -> SqlOr(l, r)
      [] NULL \in {l, r} -> NULL
      [] op = "+" -> l + r
      [] op = "-" -> l - r
      [] op = "*" -> l * r
      [] OTHER -> Truth(Compares(op, l, r))

InValue(v, options) ==
    CASE v = NULL -> NULL
      [] v \in options -> True
      [] NULL \in options -> NULL
      [] OTHER -> False

BetweenValue(v, low, high) ==
    IF NULL \in {v, low, high} THEN NULL ELSE Truth(low <= v /\ v <= high)

FunctionValue(name, vs) ==
    CASE name = "coalesce" -> IF \A i \in DOMAIN vs : vs[i] = NULL THEN NULL
                              ELSE vs[CHOOSE i \in DOMAIN vs :
                                        vs[i] # NULL /\ \A j \in 1..(i - 1) : vs[j] = NULL]
      [] \E i \in DOMAIN vs : vs[i] = NULL -> NULL
      [] name = "abs" -> IF vs[1] < 0 THEN 0 - vs[1] ELSE vs[1]
      [] OTHER -> Err

\* A row gives each name it carries a value.  A qualified column that is not
\* there falls back to the bare name.
Lookup(row, name) == IF name \in DOMAIN row THEN row[name] ELSE Err
ColumnValue(e, row) ==
    Lookup(row, IF Name(e) \in DOMAIN row THEN Name(e) ELSE ColumnName("", e.op))

\* CASE: the result of the first condition that is true, else the default (the last
\* operand); an exception in a condition before it.
CaseValue(vs) ==
    LET stops == {i \in 1..(Len(vs) - 1) : i % 2 = 1 /\ vs[i] \in {True, Err}}
        stop == CHOOSE i \in stops : \A j \in stops : i <= j
    IN  IF stops = {} THEN vs[Len(vs)] ELSE IF vs[stop] = Err THEN Err ELSE vs[stop + 1]

\* A node from the values of its operands: AND and OR do not short-circuit, and an
\* exception in an operand propagates, except from what a CASE does not choose.
Applied(e, vs) ==
    CASE e.kind = "case" -> CaseValue(vs)
      [] \E i \in DOMAIN vs : vs[i] = Err -> Err
      [] e.kind = "cast" -> CastValue(vs[1], e.type)
      [] e.kind = "unary" -> UnaryValue(e.op, vs[1])
      [] e.kind = "binary" -> BinaryValue(e.op, vs[1], vs[2])
      [] e.kind = "isnull" -> Truth(vs[1] = NULL)
      [] e.kind = "in" -> InValue(vs[1], {vs[i] : i \in 2..Len(vs)})
      [] e.kind = "between" -> BetweenValue(vs[1], vs[2], vs[3])
      [] e.kind = "function" -> FunctionValue(e.op, vs)

RECURSIVE Evaluate(_, _)
Evaluate(e, row) ==
    CASE e.kind = "literal" -> e.value
      [] e.kind = "column" -> ColumnValue(e, row)
      [] e.kind \in {"aggregate", "window"} -> Lookup(row, e)
      [] OTHER -> Applied(e, Strict([i \in DOMAIN e.args |-> Evaluate(e.args[i], row)]))

----------------------------------------------------------------------------
(* Types.  "error" is the type of what the binder rejects.                 *)

NumericPrecedence == <<"int32", "int64", "float64">>
NumericTypes == {"int32", "int64", "float64"}

CommonType(l, r) ==
    CASE "error" \in {l, r} -> "error"
      [] l = "null" -> r
      [] r = "null" -> l
      [] l = r -> l
      [] {l, r} \subseteq NumericTypes ->
           NumericPrecedence[CHOOSE i \in 1..3 : /\ NumericPrecedence[i] \in {l, r}
                                                 /\ \A j \in (i + 1)..3 :
                                                      NumericPrecedence[j] \notin {l, r}]
      [] OTHER -> "error"

CastTo(e, type) == IF e.type = type THEN e ELSE Cast(e, type)
============================================================================
