-------------------------- MODULE MCFrontierEngine --------------------------
(* SELECTs and IR programs over pair(x, y), mark(y) and stop(x).             *)
EXTENDS EngineHost

CONSTANT Schema \* Schema[t]: the columns of table t

Planner == INSTANCE FrontierPlanner

-----------------------------------------------------------------------------
(* SELECTs.                                                                  *)

Col(q, n) == Planner!Col(q, n)
Item(e)   == [e |-> e, as |-> ""]
As(e, n)  == [e |-> e, as |-> n]
Called(n, as) == [table |-> [kind |-> "name", n |-> n, as |-> as],
                  op |-> "inner", on |-> Planner!None, using |-> <<>>, natural |-> FALSE]
From(n)   == Called(n, n)
On(step, x, y) == [step EXCEPT !.on = Planner!Eq(x, y)]
Core(items, from) ==
  [distinct |-> FALSE, items |-> items, from |-> from, where |-> Planner!True, by |-> <<>>, having |-> Planner!True]
Compound(parts) == [with |-> <<>>, parts |-> parts, order |-> <<>>, limit |-> <<>>, offset |-> 0]
Select(items, from) == Compound(<<[op |-> "first", core |-> Core(items, from)]>>)
Or(s, items, from) == [s EXCEPT !.parts = Append(@, [op |-> "union", core |-> Core(items, from)])]
GroupBy(s, e) == [s EXCEPT !.parts[1].core.by = <<e>>]

\* SELECT y FROM mark UNION SELECT pair.x AS y FROM pair JOIN stop ON pair.x = stop.x
\* UNION SELECT x AS y FROM pair
Ends ==
  Or(Or(Select(<<Item(Col("", "y"))>>, <<From("mark")>>),
        <<As(Col("pair", "x"), "y")>>, <<From("pair"), On(From("stop"), Col("pair", "x"), Col("stop", "x"))>>),
     <<As(Col("", "x"), "y")>>, <<From("pair")>>)

\* SELECT a.x, b.y FROM pair AS a JOIN pair AS b ON a.y = b.x
Steps ==
  Select(<<Item(Col("a", "x")), Item(Col("b", "y"))>>,
         <<Called("pair", "a"), On(Called("pair", "b"), Col("b", "x"), Col("a", "y"))>>)

\* SELECT y, count(*) AS n, sum(x) AS s FROM pair GROUP BY y
Counts ==
  GroupBy(Select(<<Item(Col("", "y")), As(Planner!CountStar, "n"), As(Planner!Apply1("sum", Col("", "x")), "s")>>,
                 <<From("pair")>>), Col("", "y"))

Sql == [ends |-> Ends, steps |-> Steps, counts |-> Counts]

\* Refused: a plain item that is no key, a condition on one side, an unknown
\* column, and a UNION of different columns.
NotSql ==
  {GroupBy(Select(<<Item(Col("", "x")), As(Planner!CountStar, "n")>>, <<From("pair")>>), Col("", "y")),
   Select(<<Item(Col("", "y"))>>, <<From("mark"), On(From("stop"), Col("mark", "y"), Col("mark", "y"))>>),
   Select(<<Item(Col("", "z"))>>, <<From("mark")>>),
   Or(Select(<<Item(Col("", "y"))>>, <<From("mark")>>), <<Item(Col("", "x"))>>, <<From("stop")>>)}

-----------------------------------------------------------------------------
(* IR programs.                                                              *)

PairT == Table("pair", 2)
MarkT == Table("mark", 1)
StopT == Table("stop", 1)
Flat(rels, nodes) == Program(rels, nodes, <<Let("out", Len(nodes))>>, "out")

\* Pairs whose y is not marked.
Unmarked == Flat(<<PairT, MarkT>>, <<Get("pair"), Get("mark"), Antijoin(1, 2, <<2>>, <<1>>)>>)

\* Those pairs by x: how many, the sum of their y, the least and the greatest.
OfUnmarked ==
  Flat(<<PairT, MarkT>>,
       <<Get("pair"), Get("mark"), Antijoin(1, 2, <<2>>, <<1>>),
         Reduce(3, <<1>>, <<Agg("count", 1), Agg("sum", 2), Agg("min", 2), Agg("max", 2)>>)>>)

\* The least successor of each x with a loop, and all pairs if nothing is marked.
LeastStep ==
  Flat(<<PairT, MarkT>>,
       <<Get("pair"), Mfp(1, <<>>, <<>>, <<1>>), Threshold(2), Join(1, 3, <<2>>, <<1>>, <<1, 2>>),
         TopK(4, <<1>>, <<2>>, 1), Get("mark"), Antijoin(1, 6, <<>>, <<>>), Union(<<5, 7>>)>>)

\* Paths of three pairs, numbered by where they end.
Paths ==
  Flat(<<PairT>>,
       <<Get("pair"), Join(1, 1, <<2>>, <<1>>, <<1, 4>>), Join(2, 1, <<2>>, <<1>>, <<>>),
         Window(3, <<4>>, <<1>>)>>)

\* The x of pairs, each once: the output is read off an image the settle changes.
Starts == Flat(<<PairT>>, <<Get("pair"), Mfp(1, <<>>, <<>>, <<1>>), Threshold(2)>>)

\* Ends of pairs in either direction, kept apart by a constant column and moved
\* along by sums that wrap around.
Moves ==
  LET from(v) == <<Call("=", <<Column(1), Constant(v)>>)>>
      by(op, v) == <<Call(op, <<Column(2), Constant(v)>>), Column(2), Constant(v)>>
  IN Flat(<<PairT>>,
          <<Get("pair"), Mfp(1, <<>>, <<>>, <<2, 1>>), Union(<<1, 2>>),
            Mfp(3, from(1), by("+", 2), <<1, 3, 4, 5>>), Reduce(4, <<2>>, <<Agg("count", 1)>>),
            Mfp(3, from(2), by("-", -3), <<1, 3, 4, 5>>), Reduce(6, <<2>>, <<Agg("count", 1)>>),
            Union(<<5, 7>>)>>)

\* reach(y): mark(y), or pair(x, y) with reach(x) and not stop(x).
Reach ==
  Program(<<PairT, MarkT, StopT>>,
          <<Get("mark"), Get("reach"), Get("stop"), Antijoin(2, 3, <<1>>, <<1>>), Get("pair"),
            Join(4, 5, <<1>>, <<1>>, <<3>>), Union(<<1, 6>>)>>,
          <<LetRec(<<"reach">>, <<1>>, <<7>>, 0)>>, "reach")

\* wins(x): pair(x, y) and not wins(y), for at most two evaluations.
Wins ==
  Program(<<PairT>>,
          <<Get("pair"), Get("wins"), Antijoin(1, 2, <<2>>, <<1>>), Mfp(3, <<>>, <<>>, <<1>>)>>,
          <<LetRec(<<"wins">>, <<1>>, <<4>>, 2)>>, "wins")

\* even(y): mark(y), or pair(x, y) with odd(x); odd(y): pair(x, y) with even(x).
Parity ==
  Program(<<PairT, MarkT>>,
          <<Get("pair"), Get("mark"), Get("even"), Get("odd"),
            Join(4, 1, <<1>>, <<1>>, <<3>>), Union(<<2, 5>>), Join(3, 1, <<1>>, <<1>>, <<3>>),
            Get("even"), Get("odd"), Join(8, 9, <<1>>, <<1>>, <<1>>)>>,
          <<LetRec(<<"even", "odd">>, <<1, 1>>, <<6, 7>>, 0), Let("both", 10)>>, "both")

Ir == [unmarked |-> Unmarked, of_unmarked |-> OfUnmarked, least_step |-> LeastStep, paths |-> Paths,
       starts |-> Starts, moves |-> Moves, reach |-> Reach, wins |-> Wins, parity |-> Parity]

\* Refused: a LetRec that numbers its own rows, and one whose body is too wide.
NotIr ==
  {Program(<<PairT>>, <<Get("pair"), Get("far"), Union(<<1, 2>>), Window(3, <<1>>, <<2>>)>>,
           <<LetRec(<<"far">>, <<2>>, <<4>>, 0)>>, "far"),
   Program(<<PairT>>, <<Get("pair"), Get("far"), Union(<<1, 2>>), Join(3, 1, <<2>>, <<1>>, <<>>)>>,
           <<LetRec(<<"far">>, <<2>>, <<4>>, 0)>>, "far")}

-----------------------------------------------------------------------------

PlanOf(p) ==
  LET planned == Planner!Planned(Sql[p])
  IN IF p \in DOMAIN Ir THEN compile(Ir[p], FALSE)
     ELSE IF planned.ok THEN compile(planned.p, TRUE) ELSE planned

AnswerOf(p, src) ==
  LET named == [t \in DOMAIN src |-> [names |-> Schema[t], rows |-> [r \in src[t] |-> 1]]]
  IN IF p \in DOMAIN Ir THEN Meaning(Ir[p], src) ELSE Support(Planner!Answer(Sql[p], named).rows)

ASSUME \A s \in NotSql : ~Planner!Planned(s).ok
ASSUME \A p \in NotIr : ~compile(p, FALSE).ok

\* Programs over texts and terms, for the dataflow engines.
Typed == INSTANCE TypedSamples
SampleInstalls == [engine : {"dd", "dbsp"}, name : DOMAIN Typed!Parts]
SampleParts(name) == Typed!Parts[name]
SampleInterns(name) == IF name \in DOMAIN Typed!Interns THEN Typed!Interns[name] ELSE {}
SampleRows(name) ==
  LET parts == {Typed!Parts[name][i] : i \in DOMAIN Typed!Parts[name]}
      sources == UNION {{<<part.prefix \o q, q>> : q \in Typed!Sources(part.p)} : part \in parts}
  IN [r \in {s[1] : s \in sources} |-> Typed!Rows[name][(CHOOSE s \in sources : s[1] = r)[2]]]

ASSUME \A p \in Typed!Unfit, e \in {"dd", "dbsp"} : ~Flow!installs(e, p)
ASSUME \A parts \in Typed!Uncomposed : ~Typed!compose(parts).ok
\* Sort keys compare as the cells they stand for do, a zero within a text included.
Entries ==
  <<Typed!Text(<<>>), Typed!Text(<<0>>), Typed!Text(<<0, 1>>), Typed!Text(<<1>>), Typed!Text(<<1, 0>>),
    Typed!Term(1, <<4>>, <<"text">>), Typed!Term(1, <<5>>, <<"text">>), Typed!Term(2, <<6, 1>>, <<"id", "int">>),
    Typed!Term(2, <<7, 0>>, <<"id", "int">>), Typed!Term(2, <<-1, 5>>, <<"id", "int">>)>>
ASSUME \A a, b \in -1..10 :
  Typed!compare(Entries, a, b) = Typed!Lexical(Typed!sort_key(Entries, a), Typed!sort_key(Entries, b))

\* The differential engine's Reduce is the reference's, on rows of any weight.
ASSUME \A z \in [{<<1, 1>>, <<1, 2>>, <<1, 3>>, <<2, 1>>} -> {-1, 1, 2}] :
  LET n == Reduce(1, <<1>>, <<Agg("count", 1), Agg("sum", 2), Agg("min", 2), Agg("max", 2)>>)
  IN Typed!reduce(n, z) = Image(Reduced(n, z), LAMBDA r : [r EXCEPT ![3] = Wrapped(@)])

\* Either engine's order gives a batch's entry the term it names.
ASSUME \A engine \in {"dd", "dbsp"} : \A batch \in Typed!Interns["held"] :
  LET minted == Flow!Minted(Typed!Held, Flow!BatchOrder(engine, batch), batch, <<>>)
      cell(a) == IF a.kind = "term" THEN minted.given[a.v] ELSE a.v
  IN \A i \in DOMAIN batch :
       minted.dict[minted.given[i]].args = [j \in DOMAIN batch[i].args |-> cell(batch[i].args[j])]

ASSUME ~Flow!installs("dbsp", Typed!Doors) /\ ~Flow!installs("dbsp", Typed!Trails(2))

LeastInt == -4
Names == [pair |-> <<"x", "y">>, mark |-> <<"y">>, stop |-> <<"x">>]
Rows3 == [pair |-> {<<1, 2>>, <<2, 1>>, <<2, 2>>}, mark |-> {<<1>>}, stop |-> {<<2>>}]
All == DOMAIN Ir \cup DOMAIN Sql
=============================================================================
