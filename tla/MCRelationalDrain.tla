-------------------------- MODULE MCRelationalDrain --------------------------
(* SELECTs that take every path of the compiler and use every operator, each *)
(* under another one that reads it.  Every LIMIT orders by a whole row.      *)
EXTENDS RelationalDrain

CONSTANT Schema \* Schema[t]: the columns of table t, [n, type]

Compiler == INSTANCE SqlCompiler
BoundBy(s) == LET bound == Compiler!bind(s) IN bound
ScalarOf(e, r, group) == LET tables == <<>> IN Compiler!Value(e, r, group, tables)
AnswerTo(s, tables) ==
  LET named == [t \in DOMAIN tables |->
                 [names |-> Each(Schema[t], LAMBDA col : col.n), rows |-> tables[t]]]
  IN Compiler!Answer(s, named).rows

Col(q, n) == Compiler!Col(q, n)
Lit(v)    == Compiler!Lit(v)
Eq(x, y)  == Compiler!Eq(x, y)
Apply1(op, x) == Compiler!Apply1(op, x)
Apply2(op, x, y) == Compiler!Apply2(op, x, y)
Exists(core) == Compiler!Exists(core)
CountStar == Compiler!CountStar
RowNumber(keys, order) == Compiler!RowNumber(keys, order)
Star(q)   == Compiler!Star(q)
True      == Compiler!True
None      == Compiler!None

Item(e)       == [e |-> e, as |-> ""]
As(e, n)      == [e |-> e, as |-> n]
Named2(n, as) == [kind |-> "name", n |-> n, as |-> as]
Table(n)      == Named2(n, n)
Sub(s, as)    == [kind |-> "select", s |-> s, as |-> as]
Step(op, t)   == [table |-> t, op |-> op, on |-> None, using |-> <<>>, natural |-> FALSE]
On(op, t, e)  == [Step(op, t) EXCEPT !.on = e]
Using(op, t, names) == [Step(op, t) EXCEPT !.using = names]
First(t)      == Step("from", t)

Core(items, from, where) ==
  [distinct |-> FALSE, items |-> items, from |-> from, where |-> where, by |-> <<>>, having |-> True]
Compound(parts) ==
  [with |-> <<>>, parts |-> parts, order |-> <<>>, limit |-> <<>>, offset |-> 0]
Part(op, core) == [op |-> op, core |-> core]
Select(items, from, where) == Compound(<<Part("first", Core(items, from, where))>>)
GroupBy(s, by, having) == [s EXCEPT !.parts[1].core.by = by, !.parts[1].core.having = having]
Distinct(s) == [s EXCEPT !.parts[1].core.distinct = TRUE]
Ordered(s, order, limit, offset) == [s EXCEPT !.order = order, !.limit = <<limit>>, !.offset = offset]
With(s, ctes) == [s EXCEPT !.with = ctes]
Cte(n, columns, s, recursive) == [n |-> n, columns |-> columns, s |-> s, recursive |-> recursive]

All == <<Item(Star(""))>>
a == First(Table("a"))
b == First(Table("b"))
And(x, y) == Apply2("and", x, y)
Less(x, y) == Apply2("<", x, y)
Names(q, ns) == [i \in DOMAIN ns |-> Item(Col(q, ns[i]))]
Everything(t) == Part("first", Core(All, <<t>>, True))

\* SELECT a.k, count(*) AS n, sum(w) AS s FROM a, b WHERE a.k = b.k AND v < w
\* GROUP BY a.k HAVING 1 < n
CommaCount ==
  GroupBy(Select(<<Item(Col("a", "k")), As(CountStar, "n"), As(Apply1("sum", Col("", "w")), "s")>>,
                 <<a, Step(",", Table("b"))>>,
                 And(Eq(Col("a", "k"), Col("b", "k")), Less(Col("", "v"), Col("", "w")))),
          <<Col("a", "k")>>, Less(Lit(1), Col("", "n")))

\* SELECT x.k, max(w) AS m FROM a AS x LEFT JOIN b ON x.k = b.k AND v < w GROUP BY 1
LeftMax ==
  GroupBy(Select(<<Item(Col("x", "k")), As(Apply1("max", Col("", "w")), "m")>>,
                 <<First(Named2("a", "x")),
                   On("left", Table("b"), And(Eq(Col("x", "k"), Col("b", "k")), Less(Col("", "v"), Col("", "w"))))>>,
                 True),
          <<Lit(1)>>, True)

\* SELECT * FROM a FULL JOIN b USING (k)
FullUsing == Select(All, <<a, Using("full", Table("b"), <<"k">>)>>, True)

\* SELECT b.*, v FROM a JOIN b USING (k)
InnerUsing == Select(<<Item(Star("b")), Item(Col("", "v"))>>, <<a, Using("inner", Table("b"), <<"k">>)>>, True)

\* SELECT a.v, w, c.v AS u FROM a, b JOIN a AS c WHERE a.k = b.k AND w = c.v AND a.v < 2
ThreeWay ==
  Select(<<Item(Col("a", "v")), Item(Col("", "w")), As(Col("c", "v"), "u")>>,
         <<a, Step(",", Table("b")), Step("inner", Named2("a", "c"))>>,
         And(And(Eq(Col("a", "k"), Col("b", "k")), Eq(Col("", "w"), Col("c", "v"))), Less(Col("a", "v"), Lit(2))))

\* SELECT a.*, b.k AS j, w FROM a NATURAL RIGHT JOIN b
NaturalRight ==
  Select(<<Item(Star("a")), As(Col("b", "k"), "j"), Item(Col("", "w"))>>,
         <<a, [Step("right", Table("b")) EXCEPT !.natural = TRUE]>>, True)

\* SELECT * FROM a WHERE EXISTS (SELECT 1 FROM b WHERE b.k = a.k)
\* AND NOT EXISTS (SELECT * FROM b WHERE w = v)
SemiAnti ==
  Select(All, <<a>>,
    And(Exists(Core(<<Item(Lit(1))>>, <<b>>, Eq(Col("b", "k"), Col("a", "k")))),
        Apply1("not", Exists(Core(All, <<b>>, Eq(Col("", "w"), Col("", "v")))))))

\* SELECT * FROM a WHERE EXISTS (SELECT count(*) FROM b WHERE b.k = a.k): refused
CountedExists ==
  Select(All, <<a>>, Exists(Core(<<Item(CountStar)>>, <<b>>, Eq(Col("b", "k"), Col("a", "k")))))

\* SELECT u.k, w FROM (SELECT k FROM a UNION SELECT k FROM b) AS u JOIN b ON u.k = b.k
UnionJoin ==
  Select(<<Item(Col("u", "k")), Item(Col("", "w"))>>,
         <<First(Sub(Compound(<<Part("first", Core(Names("", <<"k">>), <<a>>, True)),
                                Part("union", Core(Names("", <<"k">>), <<b>>, True))>>), "u")),
           On("inner", Table("b"), Eq(Col("u", "k"), Col("b", "k")))>>, True)

\* SELECT count(*) AS n FROM (SELECT DISTINCT k FROM a WHERE v < 2) AS d
DistinctCount ==
  Select(<<As(CountStar, "n")>>,
         <<First(Sub(Distinct(Select(Names("", <<"k">>), <<a>>, Less(Col("", "v"), Lit(2)))), "d"))>>, True)

\* SELECT *, row_number() OVER (PARTITION BY k ORDER BY v) AS n
\* FROM (SELECT * FROM a EXCEPT SELECT * FROM b INTERSECT SELECT * FROM a UNION SELECT * FROM b) AS s
SetsRanked ==
  Select(<<Item(Star("")), As(RowNumber(<<Col("", "k")>>, <<Col("", "v")>>), "n")>>,
         <<First(Sub(Compound(<<Everything(a), [Everything(b) EXCEPT !.op = "except"],
                                [Everything(a) EXCEPT !.op = "intersect"],
                                [Everything(b) EXCEPT !.op = "union"]>>), "s"))>>, True)

\* SELECT l.k, v, w FROM (SELECT * FROM a UNION ALL SELECT * FROM b
\* ORDER BY 2, k LIMIT 2 OFFSET 1) AS l LEFT JOIN b ON l.k = b.k
LimitJoin ==
  Select(<<Item(Col("l", "k")), Item(Col("", "v")), Item(Col("", "w"))>>,
         <<First(Sub(Ordered(Compound(<<Everything(a), [Everything(b) EXCEPT !.op = "all"]>>),
                             <<Lit(2), Col("", "k")>>, 2, 1), "l")),
           On("left", Table("b"), Eq(Col("l", "k"), Col("b", "k")))>>, True)

\* SELECT v FROM a ORDER BY k, v LIMIT 2 OFFSET 1: the result has no k
HiddenOrder == Ordered(Select(Names("", <<"v">>), <<a>>, True), <<Col("", "k"), Col("", "v")>>, 2, 1)

\* SELECT k, count(*) AS n FROM a GROUP BY k ORDER BY count(*), k LIMIT 1
LeastCount ==
  Ordered(GroupBy(Select(<<Item(Col("", "k")), As(CountStar, "n")>>, <<a>>, True),
                  <<Col("", "k")>>, True), <<CountStar, Col("", "k")>>, 1, 0)

\* SELECT sum(x.v) AS s FROM a AS x JOIN a AS y ON x.v < y.v
SelfSum ==
  Select(<<As(Apply1("sum", Col("x", "v")), "s")>>,
         <<First(Named2("a", "x")), On("inner", Named2("a", "y"), Less(Col("x", "v"), Col("y", "v")))>>, True)

\* SELECT max(v) AS k, count(*) AS n FROM a GROUP BY k: by the column, not the alias
GroupColumn ==
  GroupBy(Select(<<As(Apply1("max", Col("", "v")), "k"), As(CountStar, "n")>>, <<a>>, True),
          <<Col("", "k")>>, True)

\* WITH c(p) AS (SELECT k FROM a)
\* SELECT p, k FROM (WITH c AS (SELECT k FROM b) SELECT * FROM c) AS i FULL JOIN c ON p = k
Shadowed ==
  With(Select(<<Item(Col("", "p")), Item(Col("", "k"))>>,
              <<First(Sub(With(Select(All, <<First(Table("c"))>>, True),
                               <<Cte("c", <<>>, Select(Names("", <<"k">>), <<b>>, True), FALSE)>>), "i")),
                On("full", Table("c"), Eq(Col("", "p"), Col("", "k")))>>, True),
       <<Cte("c", <<"p">>, Select(Names("", <<"k">>), <<a>>, True), FALSE)>>)

\* WITH RECURSIVE r(x) AS (SELECT k FROM a UNION SELECT w FROM r, b WHERE x = b.k)
\* SELECT count(*) AS n, max(x) AS m FROM r
Recursive ==
  With(Select(<<As(CountStar, "n"), As(Apply1("max", Col("", "x")), "m")>>, <<First(Table("r"))>>, True),
       <<Cte("r", <<"x">>,
             Compound(<<Part("first", Core(Names("", <<"k">>), <<a>>, True)),
                        Part("union", Core(Names("", <<"w">>), <<First(Table("r")), Step(",", Table("b"))>>,
                                           Eq(Col("", "x"), Col("b", "k"))))>>), TRUE)>>)

Selects ==
  [comma_count |-> CommaCount, left_max |-> LeftMax, full_using |-> FullUsing, inner_using |-> InnerUsing,
   three_way |-> ThreeWay,
   natural_right |-> NaturalRight, semi_anti |-> SemiAnti, counted_exists |-> CountedExists,
   union_join |-> UnionJoin, distinct_count |-> DistinctCount, sets_ranked |-> SetsRanked,
   limit_join |-> LimitJoin, hidden_order |-> HiddenOrder, least_count |-> LeastCount,
   self_sum |-> SelfSum, group_column |-> GroupColumn, shadowed |-> Shadowed,
   recursive |-> Recursive]

Columns2 ==
  [a |-> <<[n |-> "k", type |-> "integer"], [n |-> "v", type |-> "numeric"]>>,
   b |-> <<[n |-> "k", type |-> "integer"], [n |-> "w", type |-> "integer"]>>]
Rows == [a |-> {<<0, 1>>, <<0, 2>>, <<Null, 1>>}, b |-> {<<0, 2>>, <<Null, 1>>}]

\* Nothing, or a row of each table, or all of them.
Once(S) == [r \in S |-> 1]
Loads ==
  {[t \in DOMAIN Rows |-> NoRows], [a |-> Once({<<0, 1>>}), b |-> Once({<<0, 2>>})],
   [t \in DOMAIN Rows |-> Once(Rows[t])]}
=============================================================================
