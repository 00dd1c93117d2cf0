-------------------------------- MODULE Rules --------------------------------
(***************************************************************************)
(* The logical rewrite rules (optimizer/rules.py) and their recursive      *)
(* application to a plan (optimizer/optimizer.py).  A rule that does not   *)
(* apply returns the plan it was given.                                    *)
(***************************************************************************)
EXTENDS LogicalPlans

\* What a conjunct list becomes above `input' when some conjuncts moved below.
WithResidual(filter, input, residual) ==
    IF residual = <<>> THEN input
    ELSE [WithInput(filter, input) EXCEPT !.predicate = CombineConjuncts(residual)]

\* A filter over `input' with the conjuncts, if there are any.
Pushed(id, input, conjuncts, phase) ==
    IF conjuncts = <<>> THEN input ELSE Filter(id, input, CombineConjuncts(conjuncts), phase)

RECURSIVE Substitute(_, _)
Substitute(e, aliases) ==
    IF e.kind = "column" THEN aliases[ColumnName("", e.op)]
    ELSE [e EXCEPT !.args = [i \in DOMAIN e.args |-> Substitute(e.args[i], aliases)]]

PredicatePushdownProject(plan) ==
    LET project == Input(plan)
        aliases == [n \in {project.items[i].name : i \in DOMAIN project.items} |->
                      project.items[CHOOSE i \in DOMAIN project.items :
                                      project.items[i].name = n].expr]
        predicate == Substitute(plan.predicate, aliases)
    IN  IF /\ plan.kind = "filter" /\ project.kind = "project"
           /\ \A c \in ExpressionColumns(plan.predicate) :
                ColumnName("", c.op) \in DOMAIN aliases
           /\ ~ContainsAggregate(predicate) /\ ~ContainsWindow(predicate)
        THEN WithInput(project, Filter(plan.id, Input(project), predicate, plan.phase))
        ELSE plan

\* A conjunct on grouping columns alone moves below the aggregation.
PredicatePushdownAggregate(plan) ==
    LET aggregate == Input(plan)
        grouping == {Name(g) : g \in {aggregate.groupBy[i] : i \in DOMAIN aggregate.groupBy}}
        columns(e) == {Name(c) : c \in ExpressionColumns(e)}
        pushable(e) == /\ ~ContainsAggregate(e) /\ ~ContainsWindow(e)
                       /\ columns(e) # {} /\ columns(e) \subseteq grouping
        conjuncts == SplitConjuncts(plan.predicate)
        down == SelectSeq(conjuncts, pushable)
    IN  IF plan.kind = "filter" /\ aggregate.kind = "aggregate" /\ down # <<>>
        THEN WithResidual(plan,
               WithInput(aggregate,
                         Pushed(plan.id \o "_pre_aggregate", Input(aggregate), down, "where")),
               SelectSeq(conjuncts, LAMBDA e : ~pushable(e)))
        ELSE plan

\* Mutant: the join type is not looked at.
MayAlwaysPush(joinType, side) == TRUE

\* The join types under which a filter may move into a side: those that supply no
\* NULLs on it.
MayPush(joinType, side) == joinType \in {"inner", side}

\* A conjunct on one side moves into it, unless that side is null-supplied.
PredicatePushdownJoin(plan) ==
    LET join == Input(plan)
        conjuncts == SplitConjuncts(plan.predicate)
        within(e, side) == /\ ExpressionSources(e) # {}
                           /\ ExpressionSources(e) \subseteq PlanSources(join.inputs[side])
        toLeft(e) == within(e, 1) /\ MayPush(join.joinType, "left")
        toRight(e) == ~toLeft(e) /\ within(e, 2) /\ MayPush(join.joinType, "right")
        left == SelectSeq(conjuncts, toLeft)
        right == SelectSeq(conjuncts, toRight)
        rewritten == [join EXCEPT !.inputs =
                        <<Pushed(plan.id \o "_left", @[1], left, plan.phase),
                          Pushed(plan.id \o "_right", @[2], right, plan.phase)>>]
    IN  IF plan.kind = "filter" /\ join.kind = "join" /\ left \o right # <<>>
        THEN WithResidual(plan, rewritten,
                          SelectSeq(conjuncts, LAMBDA e : ~toLeft(e) /\ ~toRight(e)))
        ELSE plan

LimitPushdownProject(plan) ==
    IF plan.kind = "limit" /\ Input(plan).kind = "project"
    THEN WithInput(Input(plan), Limit(plan.id, Input(Input(plan)), plan.count))
    ELSE plan

LimitJoinInputHint(plan) ==
    IF plan.kind = "limit" /\ Input(plan).kind = "join"
    THEN WithInput(plan, [Input(plan) EXCEPT !.inputLimit =
                            IF @ # NULL /\ @ <= plan.count THEN @ ELSE plan.count])
    ELSE plan

----------------------------------------------------------------------------
(* Column pruning works from the names the root needs downwards.           *)

RequiredNames(exprs) ==
    UNION {{Name(c) : c \in ExpressionColumns(exprs[i])} : i \in DOMAIN exprs}
ForSources(required, sources) == {n \in required : n.source \in sources \cup {""}}

RECURSIVE Prune(_, _)
Prune(plan, required) ==
    LET child(names) == Prune(Input(plan), names)
        exprs(items) == [i \in DOMAIN items |-> items[i].expr]
        selected == SelectSeq(plan.items, LAMBDA item : item.name \in required)
        all == required \cup RequiredNames(<<plan.condition>>)
        side(i) == Prune(plan.inputs[i], ForSources(all, PlanSources(plan.inputs[i])))
    IN  CASE plan.kind = "scan" ->
               [plan EXCEPT !.columns =
                  {c \in @ : {ColumnName("", c), ColumnName(plan.alias, c)} \cap required # {}}]
          [] plan.kind = "project" ->
               [WithInput(plan, child(RequiredNames(exprs(selected)))) EXCEPT !.items = selected]
          [] plan.kind = "filter" ->
               WithInput(plan, child(required \cup RequiredNames(<<plan.predicate>>)))
          [] plan.kind = "join" ->
               [plan EXCEPT !.inputs = <<side(1), side(2)>>,
                            !.columns = {n \in @ : {n, ColumnName("", n.op)} \cap required # {}}]
          [] plan.kind = "aggregate" ->
               WithInput(plan, child(RequiredNames(plan.groupBy \o plan.aggregates)))
          [] plan.kind = "grouping_sets" ->
               WithInput(plan, child(RequiredNames(FlattenSeq(plan.sets) \o plan.aggregates)))
          [] plan.kind = "order" ->
               WithInput(plan, child(required \cup RequiredNames(exprs(plan.orderBy))))
          [] plan.kind = "window" ->
               WithInput(plan, child(required \cup RequiredNames(plan.items)))
          [] OTHER -> WithInput(plan, child(required))

\* The names of the output schema of a plan that a binder can have built.
RECURSIVE OutputNames(_)
OutputNames(plan) ==
    IF plan.kind = "project" THEN {plan.items[i].name : i \in DOMAIN plan.items}
    ELSE OutputNames(Input(plan))

ColumnPruning(plan) == Prune(plan, OutputNames(plan))

----------------------------------------------------------------------------
(* Constant folding, merging of filters, inference of equalities.          *)

IsLiteral(e, value) == e.kind = "literal" /\ e.value = value

\* A constant that can be evaluated, by its value.
FoldConstant(e, value) == IF value = Err THEN e ELSE Literal(value, e.type)

\* AND and OR with a literal operand, then any constant.
FoldExpression(e) ==
    LET l == e.args[1]
        r == e.args[2]
        logical == e.kind = "binary" /\ e.op \in {"AND", "OR"}
        neutral == IF e.op = "AND" THEN True ELSE False
        absorbing == IF e.op = "AND" THEN False ELSE True
    IN  CASE logical /\ IsLiteral(l, neutral) -> r
          [] logical /\ IsLiteral(l, absorbing) -> l
          [] logical /\ IsLiteral(r, neutral) -> l
          [] logical /\ IsLiteral(r, absorbing) -> r
          [] e.kind # "literal" /\ IsConstant(e) -> FoldConstant(e, Evaluate(e, <<>>))
          [] OTHER -> e

\* map_expression with _fold_expression: bottom-up, the ORDER BY of a window too.
RECURSIVE Fold(_)
Fold(e) ==
    LET rebuilt == [e EXCEPT !.args = [i \in DOMAIN e.args |-> Fold(e.args[i])]]
    IN  FoldExpression(IF e.kind # "window" THEN rebuilt
                       ELSE [rebuilt EXCEPT !.order = [i \in DOMAIN e.order |->
                               [e.order[i] EXCEPT !.expr = Fold(@)]]])

\* Windows and grouping sets are not visited.
ConstantFolding(plan) ==
    LET folded(exprs) == [i \in DOMAIN exprs |-> Fold(exprs[i])]
        foldedIn(items) == [i \in DOMAIN items |-> [items[i] EXCEPT !.expr = Fold(@)]]
    IN  CASE plan.kind = "project" -> [plan EXCEPT !.items = foldedIn(@)]
          [] plan.kind = "filter" -> [plan EXCEPT !.predicate = Fold(@)]
          [] plan.kind = "aggregate" -> [plan EXCEPT !.groupBy = folded(@),
                                                     !.aggregates = folded(@)]
          [] plan.kind = "join" -> [plan EXCEPT !.condition = Fold(@)]
          [] plan.kind = "order" -> [plan EXCEPT !.orderBy = foldedIn(@)]
          [] OTHER -> plan

PredicateMerge(plan) ==
    CASE plan.kind # "filter" -> plan
      [] Input(plan).kind = "filter" ->
           Filter(plan.id, Input(Input(plan)),
                  NormalizeConjuncts(CombineConjuncts(<<Input(plan).predicate, plan.predicate>>)),
                  plan.phase)
      [] OTHER -> [plan EXCEPT !.predicate = NormalizeConjuncts(@)]

\* A term of an equality: a column, or a constant that is not NULL.
IsTerm(e) == e.kind = "column" \/ (IsConstant(e) /\ Evaluate(e, <<>>) # NULL)

RECURSIVE Connected(_, _)
Connected(terms, edges) ==
    LET more == terms \cup UNION {edge \in edges : edge \cap terms # {}}
    IN  IF more = terms THEN terms ELSE Connected(more, edges)

\* The equalities between any two terms that a chain of equalities connects.
EqualityClosure(evidence) ==
    LET equalities == {e \in evidence : /\ e.kind = "binary" /\ e.op = "="
                                        /\ IsTerm(e.args[1]) /\ IsTerm(e.args[2])}
        edges == {{e.args[1], e.args[2]} : e \in equalities}
        components == {Listed(Connected(edge, edges)) : edge \in edges}
    IN  UNION {{Binary("=", c[i], c[j], "boolean") :
                  <<i, j>> \in {p \in (DOMAIN c) \X (DOMAIN c) : p[1] < p[2]}} : c \in components}

EqualityKey(e) == IF e.kind = "binary" /\ e.op = "=" THEN {e.args[1], e.args[2]} ELSE {e}

\* The equalities that follow and are not written already.
InferredEqualities(evidence) ==
    {e \in EqualityClosure(evidence) : EqualityKey(e) \notin {EqualityKey(x) : x \in evidence}}

WithInferred(plan, own, additions) ==
    IF additions = {} THEN plan
    ELSE [plan EXCEPT !.predicate =
            NormalizeConjuncts(CombineConjuncts(own \o Listed(additions)))]

\* The conjuncts of a filter and, below it, those of an inner join.
EqualityInference(plan) ==
    LET own == SplitConjuncts(plan.predicate)
        join == Input(plan)
        joined == IF join.kind = "join" /\ join.joinType = "inner"
                  THEN ToSet(SplitConjuncts(join.condition)) ELSE {}
    IN  IF plan.kind # "filter" THEN plan
        ELSE WithInferred(plan, own, InferredEqualities(ToSet(own) \cup joined))

----------------------------------------------------------------------------
(* The rules in their order, and their application.                        *)

DefaultRules == <<"constant_folding", "predicate_merge", "equality_inference",
                  "predicate_pushdown_project", "predicate_pushdown_aggregate",
                  "predicate_pushdown_join", "limit_pushdown_project",
                  "limit_join_input_hint", "column_pruning">>

RuleAt(rule, plan) ==
    CASE rule = "constant_folding" -> ConstantFolding(plan)
      [] rule = "predicate_merge" -> PredicateMerge(plan)
      [] plan.inputs = <<>> -> plan
      [] rule = "equality_inference" -> EqualityInference(plan)
      [] rule = "predicate_pushdown_project" -> PredicatePushdownProject(plan)
      [] rule = "predicate_pushdown_aggregate" -> PredicatePushdownAggregate(plan)
      [] rule = "predicate_pushdown_join" -> PredicatePushdownJoin(plan)
      [] rule = "limit_pushdown_project" -> LimitPushdownProject(plan)
      [] rule = "limit_join_input_hint" -> LimitJoinInputHint(plan)

\* Bottom-up: the children first, then the node they leave.
RECURSIVE ApplyRecursive(_, _)
ApplyRecursive(rule, plan) ==
    RuleAt(rule, [plan EXCEPT !.inputs =
                    [i \in DOMAIN plan.inputs |-> ApplyRecursive(rule, plan.inputs[i])]])

ApplyRule(rule, plan) ==
    IF rule = "column_pruning" THEN ColumnPruning(plan) ELSE ApplyRecursive(rule, plan)
=============================================================================
