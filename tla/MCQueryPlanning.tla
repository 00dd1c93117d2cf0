--------------------------- MODULE MCQueryPlanning ---------------------------
(* Three tables, statements for every clause, databases with NULLs, duplicates *)
(* and empty tables, four ways of importing the tables.                        *)
EXTENDS QueryPlanning

Int32(n) == [name |-> n, type |-> "int32"]
Int64(n) == [name |-> n, type |-> "int64"]
MCCatalog == [a |-> <<Int32("k"), Int64("v")>>, b |-> <<Int32("k"), Int64("w")>>,
              c |-> <<Int32("k"), Int64("u")>>]

Number(x) == CASE x = NULL -> 0 [] x = True -> 1 [] x = False -> 0 [] OTHER -> x
MCDigest(key) == FoldLeft(LAMBDA s, x : s + Number(x), 0, key)
MCImportDigest(value) == Number(value) + 1

\* Statements.
C(s, n) == Column(s, n, "")
I(n) == Literal(n, "")
Op(op, l, r) == Binary(op, l, r, "")
And(l, r) == Op("AND", l, r)
Not(e) == Unary("NOT", e, "")
F(name, args) == ScalarFunction(name, args, "")
Agg(name, args) == AggregateFunction(name, args, FALSE, "")
Star(source) == Node("star", "", source, <<>>, NULL, "")
Ranking(name) == F(name, <<>>)
Item(e) == [alias |-> "", expr |-> e]
As(e, alias) == [alias |-> alias, expr |-> e]
Asc(e) == SortExpression(e, TRUE, FALSE)
Desc(e) == SortExpression(e, FALSE, TRUE)
Ref(t) == [table |-> t, alias |-> t]
On(t, type, on) == [table |-> t, alias |-> t, joinType |-> type, on |-> on]

k == C("", "k")
v == C("", "v")
w == C("", "w")
ak == C("a", "k")
bk == C("b", "k")
ck == C("c", "k")
Count == Agg("count", <<>>)

Select(items) ==
    [from |-> Ref("a"), joins |-> <<>>, where |-> NULL,
     items |-> [i \in DOMAIN items |-> IF "expr" \in DOMAIN items[i] THEN items[i]
                                       ELSE Item(items[i])],
     groupBy |-> <<>>, sets |-> NULL, having |-> NULL, orderBy |-> <<>>, limit |-> NULL]
Where(s, e) == [s EXCEPT !.where = e]
GroupBy(s, keys) == [s EXCEPT !.groupBy = keys]
Having(s, e) == [s EXCEPT !.having = e]
OrderBy(s, items) == [s EXCEPT !.orderBy = items]
Top(s, n) == [s EXCEPT !.limit = n]
JoinedWith(s, joins) == [s EXCEPT !.joins = joins]
AB(type) == <<On("b", type, Op("=", ak, bk))>>
ABC(type1, type2) == Append(AB(type1), On("c", type2, Op("=", ak, ck)))

OneTable == {
  Select(<<Star("")>>),
  Where(Select(<<k, As(Op("+", v, I(1)), "x")>>), And(Op(">", v, I(0)), Op("=", I(1), I(1)))),
  Where(Select(<<k>>), Not(Op("OR", Op(">", v, I(1)), IsNull(k)))),
  Where(Select(<<v>>), Op("OR", InList(k, <<I(1), I(NULL)>>), Between(v, I(1), I(2)))),
  Where(Select(<<k>>), And(Op("=", I(1), I(2)), Op(">", k, I(0)))),
  OrderBy(Select(<<Case(<<Op(">", v, I(1)), k, I(0)>>, ""), F("coalesce", <<v, k>>),
                   As(F("abs", <<Unary("-", v, "")>>), "n")>>), <<Desc(I(1)), Asc(C("", "n"))>>),
  Top(OrderBy(Select(<<k, v>>), <<Desc(v)>>), 1),
  Top(Where(Select(<<k>>), Not(IsNull(v))), 2),
  Top(Select(<<v>>), 0)}

Grouping == {
  GroupBy(Select(<<k, Count, Agg("sum", <<v>>), Agg("min", <<v>>), Agg("max", <<v>>),
                   Agg("avg", <<v>>)>>), <<k>>),
  Having(GroupBy(Select(<<k, As(Count, "n")>>), <<k>>),
         And(Op(">", k, I(1)), Op(">", C("", "n"), I(1)))),
  Select(<<Agg("sum", <<v>>), Agg("count", <<v>>)>>),
  GroupBy(Select(<<k, AggregateFunction("count", <<v>>, TRUE, "")>>), <<k>>),
  GroupBy(Select(<<Agg("max", <<v>>)>>), <<Op("+", k, I(1))>>),
  [Select(<<k, v, Count>>) EXCEPT !.sets = <<<<k>>, <<v>>, <<>>>>]}

Windows == {
  Select(<<k, v, As(WindowFunction(Ranking("row_number"), <<k>>, <<Asc(v)>>, <<>>), "n")>>),
  Where(Select(<<v, WindowFunction(Ranking("rank"), <<>>, <<Desc(v)>>, <<>>),
                 WindowFunction(Ranking("dense_rank"), <<>>, <<Desc(v)>>, <<>>)>>), Op(">", k, I(0))),
  Select(<<k, v, WindowFunction(Agg("sum", <<v>>), <<k>>, <<Asc(v)>>,
                                <<<<"PRECEDING", 1>>, <<"CURRENT ROW", 0>>>>),
           WindowFunction(Agg("count", <<v>>), <<>>, <<Asc(v)>>, <<>>)>>),
  Select(<<v, WindowFunction(Agg("min", <<v>>), <<Op("*", k, I(0))>>, <<>>, <<>>),
           WindowFunction(Agg("max", <<v>>), <<Op("*", k, I(0))>>, <<Desc(v)>>,
                          <<<<"CURRENT ROW", 0>>, <<"UNBOUNDED FOLLOWING", 0>>>>)>>)}

AWB == <<ak, v, w, As(bk, "y")>>
Joins == {
  Where(JoinedWith(Select(AWB), AB("inner")), And(Op(">", v, I(1)), Op(">", w, I(1)))),
  Where(JoinedWith(Select(<<ak, w>>), AB("left")), Op("=", F("coalesce", <<w, I(0)>>), I(0))),
  Where(JoinedWith(Select(<<ak, w>>), AB("left")), And(Op(">", v, I(0)), Op("<", v, w))),
  Where(JoinedWith(Select(AWB), AB("right")), And(Op(">", bk, I(0)), IsNull(v))),
  Where(JoinedWith(Select(AWB), AB("full")), Op("OR", IsNull(v), Op(">", v, I(1)))),
  Where(JoinedWith(Select(<<Star("")>>), AB("inner")), Op("=", ak, I(1))),
  Where(JoinedWith(Select(<<Star("b")>>), AB("left")), And(Op("=", ak, v), Op("=", v, I(1)))),
  JoinedWith(Select(<<ak, v>>), <<On("b", "inner", And(Op("=", ak, bk), Op("=", w, v)))>>),
  JoinedWith(Select(<<ak, w>>), <<On("b", "inner", Op("=", ak, w))>>),
  Top(OrderBy(JoinedWith(Select(<<ak, w>>), AB("inner")), <<Asc(w)>>), 1),
  Top(JoinedWith(Select(<<ak, w>>), AB("left")), 2),
  OrderBy(GroupBy(JoinedWith(Select(<<ak, Agg("sum", <<w>>)>>), AB("left")), <<ak>>), <<Asc(I(1))>>),
  Having(GroupBy(JoinedWith(Select(<<bk, Count>>), AB("full")), <<bk>>), IsNull(bk)),
  JoinedWith(Select(<<v, w, WindowFunction(Agg("sum", <<w>>), <<v>>, <<>>, <<>>)>>), AB("inner")),
  JoinedWith([Select(<<C("x", "v"), As(C("y", "v"), "z")>>) EXCEPT !.from.alias = "x"],
             <<[table |-> "a", alias |-> "y", joinType |-> "inner",
                on |-> Op("=", C("x", "k"), C("y", "k"))]>>),
  JoinedWith(Select(<<v, w, C("", "u")>>), ABC("left", "inner")),
  Where(JoinedWith(Select(<<v, w, C("", "u")>>), ABC("left", "inner")), Op("=", bk, ck)),
  Where(JoinedWith(Select(<<v, w, C("", "u")>>), ABC("left", "left")), Op(">", v, I(0))),
  JoinedWith(Select(<<ak, As(bk, "y"), As(ck, "z")>>), ABC("full", "right"))}

\* Regions of inner joins over three inputs, whose conjuncts form a star, a chain or
\* take in all three: plain, with an outer join as an input, with a WHERE above the
\* region, below it, and on one, two or all relations.
VWU == <<v, w, C("", "u")>>
Chain == Append(AB("inner"), On("c", "inner", Op("=", bk, ck)))
Regions == {
  JoinedWith(Select(VWU), ABC("inner", "inner")),
  Where(JoinedWith(Select(VWU), ABC("inner", "inner")), Op("<", v, w)),
  Where(JoinedWith(Select(VWU), ABC("inner", "inner")), Op(">", v, I(0))),
  Where(JoinedWith(Select(VWU), Chain), And(Op("<", v, C("", "u")), Op(">", C("", "u"), I(4)))),
  Where(JoinedWith(Select(VWU), Chain), And(Op(">", v, I(0)), Op(">", w, I(1)))),
  GroupBy(Where(JoinedWith(Select(<<ck, Count, Agg("sum", <<v>>)>>), Chain), Op(">", w, I(1))), <<ck>>),
  Top(OrderBy(JoinedWith(Select(<<v, ck>>), Chain), <<Desc(v), Asc(ck)>>), 1),
  JoinedWith(Select(<<v, w, C("x", "u")>>),
             Append(ABC("left", "inner"),
                    [table |-> "c", alias |-> "x", joinType |-> "inner",
                     on |-> Op("=", ck, C("x", "k"))])),
  JoinedWith(Select(VWU), Append(AB("inner"),
                                 On("c", "inner", And(Op("=", bk, ck), Op("=", Op("+", v, w), C("", "u")))))),
  Where(JoinedWith(Select(<<bk, Star("c")>>), ABC("inner", "inner")), Op("=", ak, I(1))),
  JoinedWith(Select(<<w, WindowFunction(Agg("sum", <<v>>), <<w>>, <<>>, <<>>)>>), Chain)}

Rejected == {
  JoinedWith(Select(<<k>>), AB("inner")),
  Select(<<w>>),
  Where(Select(<<k>>), v),
  GroupBy(Select(<<k, v>>), <<k>>),
  Select(<<Agg("sum", <<IsNull(v)>>)>>),
  Select(<<k, As(v, "k")>>),
  Having(Select(<<k>>), Op(">", k, I(1)))}

MCStatements == OneTable \cup Grouping \cup Windows \cup Joins \cup Regions \cup Rejected

\* An inner join of two tables; one of three with a WHERE on the first.
MCTwoTables == {JoinedWith(Select(<<ak, w>>), AB("inner"))}
MCFilteredRegion ==
    {Where(JoinedWith(Select(<<v, w, C("", "u")>>), ABC("inner", "inner")), Op(">", v, I(0)))}
\* A window ordered by a column that nothing else reads; a join on an expression
\* that is not NULL where the outer join below it has no match.
MCHiddenOrder == {Select(<<v, WindowFunction(Ranking("rank"), <<>>, <<Asc(k)>>, <<>>)>>)}
MCOuterFiltered ==
    {JoinedWith(Select(<<v, w, C("", "u")>>),
                Append(AB("left"), On("c", "inner", Op("=", F("coalesce", <<C("b", "k"), I(1)>>), ck))))}

\* Databases.
Rows(name, pairs) == [i \in DOMAIN pairs |-> ("k" :> pairs[i][1]) @@ (name :> pairs[i][2])]
MCDatabases ==
    [a : {Rows("v", p) : p \in {<<>>, <<<<1, 2>>, <<NULL, 1>>>>, <<<<1, 1>>, <<1, NULL>>, <<2, 3>>>>,
                                <<<<2, NULL>>, <<2, NULL>>>>, <<<<1, 1>>, <<2, 2>>, <<1, 1>>, <<NULL, NULL>>>>}},
     b : {Rows("w", p) : p \in {<<>>, <<<<1, 3>>, <<1, 1>>>>, <<<<2, NULL>>, <<NULL, 2>>>>, <<<<2, 1>>, <<1, 2>>>>}},
     c : {Rows("u", p) : p \in {<<<<1, 4>>>>, <<<<2, 5>>, <<1, 6>>, <<1, 5>>>>}}]

\* Imports.
RoundRobin(n) == [strategy |-> "round_robin", key |-> "", count |-> n]
Hashed(n) == [strategy |-> "hash", key |-> "k", count |-> n]
Layout(x, y, z) == [a |-> x, b |-> y, c |-> z]
MCDefaultLayouts == {Layout(RoundRobin(1), RoundRobin(1), RoundRobin(1))}
MCHashedLayouts == {Layout(Hashed(2), RoundRobin(2), RoundRobin(2))}
MCLayouts == {Layout(RoundRobin(1), RoundRobin(1), RoundRobin(1)),
              Layout(Hashed(2), Hashed(2), Hashed(2)),
              Layout(RoundRobin(2), RoundRobin(1), Hashed(2)),
              Layout(Hashed(2), RoundRobin(3), RoundRobin(2))}
=============================================================================
