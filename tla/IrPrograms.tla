----------------------------- MODULE IrPrograms -----------------------------
(***************************************************************************)
(* The program every engine is given, and what it means                    *)
(* (crates/ivm-ir/src/0_ir.rs, crates/ivm-engine/src/1_rel.rs): nodes that *)
(* name their inputs by number, in strata that bind relations to nodes.    *)
(* Nothing here is incremental: a meaning is computed from whole tables.   *)
(*                                                                         *)
(* A relation goes by its name, a column by its position from 1, and every *)
(* cell is an integer of one word; TypedPrograms adds texts and terms.     *)
(* Flat vectors, Delay and Real and Any cells are left out.                *)
(***************************************************************************)
EXTENDS ZSets
LOCAL INSTANCE FiniteSetsExt
LOCAL INSTANCE SequencesExt
LOCAL INSTANCE TLC

CONSTANTS
  MinInt, MaxInt,  \* the ends of a word
  MaxEvaluations   \* bound: evaluations the reference makes of a LetRec

-----------------------------------------------------------------------------
(* Expressions.                                                            *)

Column(i)        == [op |-> "col", args |-> <<>>, c |-> i]
Constant(v)      == [op |-> "lit", args |-> <<>>, v |-> v]
Call(func, args) == [op |-> func, args |-> args]

Bit(p) == IF p THEN 1 ELSE 0

\* An integer as wrapping_add and wrapping_sub keep it.
Wrapped(x) == MinInt + ((x - MinInt) % (MaxInt - MinInt + 1))

RECURSIVE Evaluated(_, _)
Evaluated(e, row) ==
  LET a(i) == Evaluated(e.args[i], row)
  IN CASE e.op = "col" -> row[e.c]
       [] e.op = "lit" -> e.v
       [] e.op = "="   -> Bit(a(1) = a(2))
       [] e.op = "<"   -> Bit(a(1) < a(2))
       [] e.op = "and" -> Bit(a(1) # 0 /\ a(2) # 0)
       [] e.op = "not" -> Bit(a(1) = 0)
       [] e.op = "+"   -> Wrapped(a(1) + a(2))
       [] e.op = "-"   -> Wrapped(a(1) - a(2))

-----------------------------------------------------------------------------
(* Nodes.                                                                  *)

Get(rel)            == [op |-> "get", in |-> <<>>, rel |-> rel]
Mfp(i, filter, map, project) ==
  [op |-> "mfp", in |-> <<i>>, filter |-> filter, map |-> map, project |-> project]
Union(in)           == [op |-> "union", in |-> in]
Negate(i)           == [op |-> "negate", in |-> <<i>>]
Join(l, r, lk, rk, project) ==
  [op |-> "join", in |-> <<l, r>>, left |-> lk, right |-> rk, project |-> project]
Antijoin(l, r, lk, rk) == [op |-> "antijoin", in |-> <<l, r>>, left |-> lk, right |-> rk]
Reduce(i, keys, aggs)  == [op |-> "reduce", in |-> <<i>>, keys |-> keys, aggs |-> aggs]
Threshold(i)        == [op |-> "threshold", in |-> <<i>>]
TopK(i, keys, order, limit) ==
  [op |-> "topk", in |-> <<i>>, keys |-> keys, order |-> order, limit |-> limit]
Window(i, keys, order) == [op |-> "window", in |-> <<i>>, keys |-> keys, order |-> order]

Agg(op, col) == [op |-> op, col |-> col]

Let(id, body) == [recursive |-> FALSE, ids |-> <<id>>, bodies |-> <<body>>]
LetRec(ids, widths, bodies, limit) ==
  [recursive |-> TRUE, ids |-> ids, widths |-> widths, bodies |-> bodies, limit |-> limit, nested |-> <<>>]

\* A program: its source tables with their widths, nodes, strata and output.
Program(rels, nodes, strata, output) ==
  [rels |-> rels, nodes |-> nodes, strata |-> strata, output |-> output]
Table(rel, width) == [rel |-> rel, width |-> width]

\* An Mfp appends its `map` columns, each of which may read the ones before it.
Mapped(n, r) ==
  LET wide == FoldLeft(LAMBDA s, e : Append(s, Evaluated(e, s)), r, n.map)
  IN IF n.project = <<>> THEN wide ELSE Columns(wide, n.project)

Passes(n, r) == \A i \in DOMAIN n.filter : Evaluated(n.filter[i], r) # 0

Aggregate(agg, group) ==
  LET values == {r[agg.col] : r \in DOMAIN Positive(group)}
  IN CASE agg.op = "count" -> Total(group)
       [] agg.op = "sum"   -> MapThenSumSet(LAMBDA r : group[r] * r[agg.col], DOMAIN group)
       [] agg.op = "max"   -> Greatest(values)
       [] agg.op = "min"   -> CHOOSE x \in values : \A y \in values : x <= y

Reduced(n, a) ==
  LET of(g)  == Where(a, LAMBDA r : Columns(r, n.keys) = g)
      live   == {g \in {Columns(r, n.keys) : r \in DOMAIN a} : Total(of(g)) > 0}
      row(g) == g \o [i \in DOMAIN n.aggs |-> Aggregate(n.aggs[i], of(g))]
  IN [r \in {row(g) : g \in live} |-> 1]

Projected(row, project) == IF project = <<>> THEN row ELSE Columns(row, project)

By(z, cols) == ByColumns(DOMAIN z, cols)

\* The rows of a node, given those of its inputs.
OpRows(n, in) ==
  CASE n.op = "mfp"    -> Image(Where(in[1], LAMBDA r : Passes(n, r)), LAMBDA r : Mapped(n, r))
    [] n.op = "union"  -> FoldLeft(Plus, NoRows, in)
    [] n.op = "negate" -> Minus(NoRows, in[1])
    [] n.op = "join"   ->
         LET pairs == {p \in (DOMAIN in[1]) \X (DOMAIN in[2]) :
                         Columns(p[1], n.left) = Columns(p[2], n.right)}
         IN Image([p \in pairs |-> in[1][p[1]] * in[2][p[2]]],
                  LAMBDA p : Projected(p[1] \o p[2], n.project))
    [] n.op = "antijoin" ->
         LET keys == Support(Image(in[2], LAMBDA r : Columns(r, n.right)))
         IN Where(in[1], LAMBDA r : Columns(r, n.left) \notin DOMAIN keys)
    [] n.op = "reduce" -> Reduced(n, in[1])
    [] n.op = "threshold" -> Support(in[1])
    [] n.op = "topk"   -> Limited(in[1], By(in[1], n.keys), By(in[1], n.order), n.limit, 0)
    [] n.op = "window" -> Numbered(in[1], By(in[1], n.keys), By(in[1], n.order))

\* The rows of every node, given those of the relations.
NodeRows(p, env) ==
  LET V[k \in DOMAIN p.nodes] ==
        LET n == p.nodes[k]
        IN IF n.op = "get" THEN env[n.rel] ELSE OpRows(n, [i \in DOMAIN n.in |-> V[n.in[i]]])
  IN V

-----------------------------------------------------------------------------
(* Strata.                                                                 *)

BoundTo(s, V) == [id \in {s.ids[i] : i \in DOMAIN s.ids} |->
                    V[s.bodies[CHOOSE i \in DOMAIN s.ids : s.ids[i] = id]]]

\* The variables of a LetRec, evaluated together until they repeat themselves.
RECURSIVE Iterated(_, _, _, _, _)
Iterated(p, s, env, v, evaluations) ==
  LET next == [id \in DOMAIN v |-> Support(BoundTo(s, NodeRows(p, v @@ env))[id])]
  IN IF next = v \/ evaluations = 0 THEN v ELSE Iterated(p, s, env, next, evaluations - 1)

WithStratum(p, env, s) ==
  (IF s.recursive
   THEN Iterated(p, s, env, [id \in {s.ids[i] : i \in DOMAIN s.ids} |-> NoRows], MaxEvaluations)
   ELSE BoundTo(s, NodeRows(p, env))) @@ env

\* A program's output over the source tables src.
Meaning(p, src) ==
  FoldLeft(LAMBDA env, s : WithStratum(p, env, s),
           [t \in DOMAIN src |-> [r \in src[t] |-> 1]], p.strata)[p.output]

=============================================================================
