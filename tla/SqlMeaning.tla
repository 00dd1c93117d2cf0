----------------------------- MODULE SqlMeaning -----------------------------
(***************************************************************************)
(* What a statement means, independently of how it is planned and run: the *)
(* reference the pipeline is checked against.  Only the evaluation of a    *)
(* scalar expression on one row is shared with the model of the code.      *)
(* Relations are sequences whose order carries no meaning, except that     *)
(* ROW_NUMBER breaks ties by position.                                     *)
(***************************************************************************)
EXTENDS Binder

\* A FROM row with, besides its qualified names, the bare names that are unique.
WithBareNames(row) ==
    LET bare == {n.op : n \in {m \in DOMAIN row : m.source # ""}}
        owner(c) == {m \in DOMAIN row : m.op = c}
    IN  row @@ [n \in {ColumnName("", c) : c \in {c \in bare : Cardinality(owner(c)) = 1}} |->
                  row[CHOOSE m \in owner(n.op) : TRUE]]

TableRows(ref, db) ==
    LET names == {ColumnName(ref.alias, c) : c \in FieldNames(Source(ref))}
    IN  StrictRows([i \in DOMAIN db[ref.table] |-> [n \in names |-> db[ref.table][i][n.op]]])

NullRow(names) == [n \in names |-> NULL]
Concat(set, f(_)) == LET s == Listed(set) IN Strict([i \in DOMAIN s |-> f(s[i])])

\* The rows of the first n joins: matching pairs, then what each preserved side keeps.
RECURSIVE FromRows(_, _, _)
FromRows(statement, db, n) ==
    IF n = 0 THEN TableRows(statement.from, db)
    ELSE LET j == statement.joins[n]
             L == FromRows(statement, db, n - 1)
             R == TableRows(j, db)
             pairs == {p \in (DOMAIN L) \X (DOMAIN R) :
                         Evaluate(j.on, WithBareNames(L[p[1]] @@ R[p[2]])) = True}
             leftNames == UNION {{ColumnName(s.alias, f) : f \in FieldNames(s)} :
                                   s \in ToSet(ScopeOf(statement, n - 1))}
             rightNames == {ColumnName(j.alias, c) : c \in FieldNames(Source(j))}
             aloneL == IF j.joinType \in {"left", "full"}
                       THEN DOMAIN L \ {p[1] : p \in pairs} ELSE {}
             aloneR == IF j.joinType \in {"right", "full"}
                       THEN DOMAIN R \ {p[2] : p \in pairs} ELSE {}
         IN  Concat(pairs, LAMBDA p : L[p[1]] @@ R[p[2]])
             \o Concat(aloneL, LAMBDA i : L[i] @@ NullRow(rightNames))
             \o Concat(aloneR, LAMBDA i : R[i] @@ NullRow(leftNames))

----------------------------------------------------------------------------
(* Groups.                                                                 *)

AggregateOf(f, args) ==
    LET present == {i \in DOMAIN args : args[i] # NULL}
        counted == IF f.source # "distinct" THEN present
                   ELSE {i \in present : \A j \in present : j < i => args[j] # args[i]}
        total == MapThenSumSet(LAMBDA i : args[i], counted)
        values == {args[i] : i \in present}
    IN  CASE f.op = "count" -> Cardinality(counted)
          [] present = {} -> NULL
          [] f.op = "sum" -> total
          [] f.op = "avg" -> <<total, Cardinality(counted)>>
          [] f.op = "min" -> CHOOSE v \in values : \A w \in values : v <= w
          [] f.op = "max" -> CHOOSE v \in values : \A w \in values : v >= w

AggregateMeaning(f, rows) ==
    AggregateOf(f, Strict([i \in DOMAIN rows |->
                             IF f.args = <<>> THEN 1 ELSE Evaluate(f.args[1], rows[i])]))

\* The names under which a statement may write the grouping columns of a row.
Written(e, row) ==
    IF e.kind = "column" THEN {n \in DOMAIN row : n.op = e.op} ELSE {}

\* One row per group of one grouping set: the columns of an arbitrary member, NULL
\* where another set groups by them, and every aggregate of the statement.
GroupRow(absentKeys, aggregates, group) ==
    NullRow(UNION {Written(e, group[1]) : e \in absentKeys}) @@ group[1]
    @@ [f \in aggregates |-> AggregateMeaning(f, group)]

\* The group of no rows, which a set without keys has all the same.
EmptyGroupRow(allKeys, aggregates) ==
    NullRow(allKeys \cup {ColumnName("", e.op) : e \in allKeys})
    @@ [f \in aggregates |-> AggregateMeaning(f, <<>>)]

\* The sets of the rows with the same key.
KeyGroups(keys) == {{j \in DOMAIN keys : keys[j] = keys[i]} : i \in DOMAIN keys}

GroupRows(keys, allKeys, aggregates, rows) ==
    IF keys = <<>> /\ rows = <<>> THEN <<EmptyGroupRow(allKeys, aggregates)>>
    ELSE Concat(KeyGroups([i \in DOMAIN rows |->
                             [k \in DOMAIN keys |-> Evaluate(keys[k], rows[i])]]),
                LAMBDA g : GroupRow(allKeys \ ToSet(keys), aggregates,
                                    Concat(g, LAMBDA i : rows[i])))

StatementExpressions(statement) ==
    {statement.items[i].expr : i \in DOMAIN statement.items}
    \cup IF statement.having = NULL THEN {} ELSE {statement.having}

Grouped(statement, rows) ==
    LET aggregates == UNION {WalkAggregates(e) : e \in StatementExpressions(statement)}
        sets == IF statement.sets = NULL THEN <<statement.groupBy>> ELSE statement.sets
    IN  IF sets = <<statement.groupBy>> /\ statement.groupBy = <<>> /\ aggregates = {} THEN rows
        ELSE FlattenSeq([i \in DOMAIN sets |->
               GroupRows(sets[i], UNION {ToSet(sets[j]) : j \in DOMAIN sets}, aggregates, rows)])

----------------------------------------------------------------------------
(* Order and windows.                                                      *)

\* x comes before y under one item of an ORDER BY.
Before(x, y, item) ==
    CASE x = y -> FALSE
      [] x = NULL -> item.nullsFirst
      [] y = NULL -> ~item.nullsFirst
      [] OTHER -> IF item.ascending THEN x < y ELSE y < x
KeyBefore(x, y, items) ==
    \E i \in DOMAIN items : Before(x[i], y[i], items[i]) /\ \A j \in 1..(i - 1) : x[j] = y[j]

\* `part' and `key' hold the partition and the place in the order of every row.
WindowMeaning(w, rows, part, key, i) ==
    LET peers == {x \in DOMAIN rows : part[x] = part[i]}
        lower(x, y) == KeyBefore(key[x], key[y], w.order)
        earlier(x, y) == lower(x, y) \/ (~lower(y, x) /\ x < y)
        place(x) == Cardinality({y \in peers : earlier(y, x)})
        offset(b) == CASE b[1] = "PRECEDING" -> 0 - b[2] [] b[1] = "FOLLOWING" -> b[2]
                       [] b[1] = "CURRENT ROW" -> 0
                       [] b[1] = "UNBOUNDED PRECEDING" -> 0 - Len(rows)
                       [] b[1] = "UNBOUNDED FOLLOWING" -> Len(rows)
        frame == IF w.frame = <<>> THEN {x \in peers : ~lower(i, x)}
                 ELSE {x \in peers : /\ place(i) + offset(w.frame[1]) <= place(x)
                                     /\ place(x) <= place(i) + offset(w.frame[2])}
        f == w.args[1]
    IN  CASE f.op = "row_number" -> 1 + place(i)
          [] f.op = "rank" -> 1 + Cardinality({y \in peers : lower(y, i)})
          [] f.op = "dense_rank" -> 1 + Cardinality({key[y] : y \in {y \in peers : lower(y, i)}})
          [] OTHER -> AggregateMeaning(f, Concat(frame, LAMBDA x : rows[x]))

----------------------------------------------------------------------------
(* The answer: rows [out, keys] whose order is not fixed.                  *)

OutputName(statement, i) == LET item == statement.items[i] IN
    ColumnName("", CASE item.alias # "" -> item.alias
                     [] item.expr.kind = "column" -> item.expr.op
                     [] OTHER -> "_col" \o ToString(i))

\* The output row of a source row: stars give all their columns.
OutputRow(statement, row) ==
    LET plain == {i \in DOMAIN statement.items : statement.items[i].expr.kind # "star"}
        star == {i \in DOMAIN statement.items \ plain : TRUE}
        starred == {n \in DOMAIN row : n.source # "" /\
                      \E i \in star : statement.items[i].expr.source \in {"", n.source}}
        shown(n) == IF statement.joins = <<>> THEN ColumnName("", n.op) ELSE n
    IN  [n \in {OutputName(statement, i) : i \in plain} |->
           Evaluate(statement.items[CHOOSE i \in plain : OutputName(statement, i) = n].expr, row)]
        @@ [m \in {shown(n) : n \in starred} |-> row[CHOOSE n \in starred : shown(n) = m]]

Sources(from) == Strict([i \in DOMAIN from |-> WithBareNames(from[i])])

\* WHERE and HAVING keep a row for TRUE only; HAVING may name output columns.
Chosen(condition, rows) ==
    IF condition = NULL THEN rows
    ELSE SelectSeq(rows, LAMBDA row : Evaluate(condition, row) = True)
Shown(statement, groups) ==
    IF statement.having = NULL THEN groups
    ELSE SelectSeq(groups, LAMBDA row :
           Evaluate(statement.having, OutputRow(statement, row) @@ row) = True)

WindowOver(w, rows, i) ==
    WindowMeaning(w, rows,
      Strict([x \in DOMAIN rows |-> [k \in 2..Len(w.args) |-> Evaluate(w.args[k], rows[x])]]),
      Strict([x \in DOMAIN rows |-> [k \in DOMAIN w.order |-> Evaluate(w.order[k].expr, rows[x])]]),
      i)

WithWindows(statement, rows) ==
    LET windows == {x \in UNION {Walk(e) : e \in StatementExpressions(statement)} :
                      x.kind = "window"}
    IN  Strict([i \in DOMAIN rows |-> [w \in windows |-> WindowOver(w, rows, i)] @@ rows[i]])

SortKey(statement, item, row) ==
    IF IsOrdinal(item.expr) THEN Evaluate(statement.items[item.expr.value].expr, row)
    ELSE Evaluate(item.expr, OutputRow(statement, row) @@ row)

Outputs(statement, rows) ==
    Strict([i \in DOMAIN rows |->
      [out |-> OutputRow(statement, rows[i]),
       keys |-> Strict([n \in DOMAIN statement.orderBy |->
                          SortKey(statement, statement.orderBy[n], rows[i])])]])

\* FROM, WHERE, GROUP BY, HAVING, windows, SELECT, in this order.
Answer(statement, db) ==
    Outputs(statement, WithWindows(statement, Shown(statement, Grouped(statement,
      Chosen(statement.where, Sources(FromRows(statement, db, Len(statement.joins))))))))

\* The rows are those of the reference, as often as they should be, in an order
\* the ORDER BY allows, and with a LIMIT a first part of such an order.
Agrees(rows, ref, orderBy, limit) ==
    LET count(s, r) == Cardinality({i \in DOMAIN s : s[i] = r})
        outs == Strict([i \in DOMAIN ref |-> ref[i].out])
        wanted == IF limit = NULL \/ limit > Len(ref) THEN Len(ref) ELSE limit
        keys(r) == ref[CHOOSE i \in DOMAIN ref : ref[i].out = r].keys
    IN  /\ Err \notin ToSet(rows)
        /\ Len(rows) = wanted
        /\ \A r \in ToSet(rows) : count(rows, r) <= count(outs, r)
        /\ \A i \in 2..Len(rows) : ~KeyBefore(keys(rows[i]), keys(rows[i - 1]), orderBy)
        /\ \A r \in ToSet(outs) : count(rows, r) < count(outs, r) =>
             \A i \in DOMAIN rows : ~KeyBefore(keys(r), keys(rows[i]), orderBy)

IsAnswer(rows, statement, db) ==
    Agrees(rows, Answer(statement, db), statement.orderBy, statement.limit)
=============================================================================
