-------------------------- MODULE FrontierPlanner --------------------------
(***************************************************************************)
(* The second engine's SQL: a SELECT becomes scans that keep the columns   *)
(* it needs, joins of two scans, and a root, a UNION or a GROUP BY; the    *)
(* whole becomes a program of IrPrograms (crates/ivm-sqlite/src/plan.rs).  *)
(*                                                                         *)
(* SELECTs are those of SqlQueries.  What the grammar has no words for is  *)
(* refused, as is everything a later check refuses.                        *)
(***************************************************************************)
EXTENDS SqlQueries, IrPrograms
LOCAL INSTANCE SequencesExt

CONSTANT Schema \* Schema[t]: the names of the columns of table t

-----------------------------------------------------------------------------
(* The grammar.                                                            *)

RECURSIVE parse_on(_)
parse_on(e) == IF e.op = "and" THEN parse_on(e.args[1]) \o parse_on(e.args[2]) ELSE <<e>>

parse_equality(e) == e.op = "=" /\ \A i \in DOMAIN e.args : e.args[i].op = "col"

parse_item(e) == e.op \in {"col", "count"} \/ (e.op = "sum" /\ e.args[1].op = "col")

parse_from(from) ==
  /\ \A i \in DOMAIN from : from[i].table.kind = "name"
  /\ \A i \in 2..Len(from) :
       /\ from[i].op = "inner" /\ ~from[i].natural /\ from[i].using = <<>> /\ from[i].on.op # "none"
       /\ \A e \in Range1(parse_on(from[i].on)) : parse_equality(e)

parse_select(core) ==
  /\ ~core.distinct /\ core.where = True /\ core.having = True
  /\ \A item \in Range1(core.items) : parse_item(item.e)
  /\ parse_from(core.from)
  /\ \A e \in Range1(core.by) : e.op = "col"

parse_program(s) ==
  /\ s.with = <<>> /\ s.order = <<>> /\ s.limit = <<>>
  /\ \A i \in DOMAIN s.parts : (i > 1 => s.parts[i].op = "union") /\ parse_select(s.parts[i].core)

-----------------------------------------------------------------------------
(* Scans and joins.                                                        *)

\* The compiler as it goes; `take` is the position resolved last.
Start == [scans |-> <<>>, joins |-> <<>>, sources |-> <<>>, branches |-> <<>>, take |-> 0, ok |-> TRUE]
Require(c, p) == [c EXCEPT !.ok = @ /\ p]

scan(c, table) ==
  [c EXCEPT !.sources = IF table.n \in Range1(@) THEN @ ELSE Append(@, table.n),
            !.scans = Append(@, [table |-> table.n, as |-> table.as, needed |-> <<>>]),
            !.ok = @ /\ table.n \in DOMAIN Schema]

ColumnsOf(c, k) == Range1(Schema[c.scans[k].table])
Calls(c, k, q)  == q \in {c.scans[k].table, c.scans[k].as}

need_column(c, k, n) ==
  LET needed == c.scans[k].needed
  IN CASE n \in Range1(needed) -> [c EXCEPT !.take = Named(needed, n)]
       [] n \notin Range1(needed) /\ n \in ColumnsOf(c, k) ->
            [c EXCEPT !.scans[k].needed = Append(@, n), !.take = Len(needed) + 1]
       [] OTHER -> Require(c, FALSE)

resolve_into(c, k, e) == Require(need_column(c, k, e.n), e.q = "" \/ Calls(c, k, e.q))

\* The side of a join a column belongs to, 0 when it is neither's or both's;
\* a qualifier is the left side's if it can be.
locate(c, join, e) ==
  LET l == join.left  r == join.right
      holds(k) == e.n \in ColumnsOf(c, k)
  IN IF e.q # "" THEN IF Calls(c, l, e.q) THEN l ELSE IF Calls(c, r, e.q) THEN r ELSE 0
     ELSE IF holds(l) /\ ~holds(r) THEN l ELSE IF holds(r) /\ ~holds(l) THEN r ELSE 0

Condition(c, e) ==
  LET j == Len(c.joins)
      join == c.joins[j]
      sides == [i \in 1..2 |-> locate(c, join, e.args[i])]
      of(k) == e.args[CHOOSE i \in 1..2 : sides[i] = k].n
      kept == need_column(need_column(c, join.left, of(join.left)), join.right, of(join.right))
  IN IF ~c.ok \/ Range1(sides) # {join.left, join.right} THEN Require(c, FALSE)
     ELSE [kept EXCEPT !.joins[j].lk = Append(@, of(join.left)),
                       !.joins[j].rk = Append(@, of(join.right))]

\* One table, or two source tables joined.
from(c, steps) ==
  LET scans == FoldLeft(LAMBDA d, step : scan(d, step.table), c, steps)
      n == Len(scans.scans)
      join == [left |-> n - 1, right |-> n, lk |-> <<>>, rk |-> <<>>, lp |-> <<>>, rp |-> <<>>]
  IN IF Len(steps) > 2 \/ ~scans.ok THEN Require(c, FALSE)
     ELSE IF Len(steps) = 1 THEN scans
     ELSE FoldLeft(Condition, [scans EXCEPT !.joins = Append(@, join)], parse_on(steps[2].on))

-----------------------------------------------------------------------------
(* Branches and roots.                                                     *)

take_item(c, item) ==
  LET taken == resolve_into(c, Len(c.scans), item.e)
      b == Len(c.branches)
  IN IF ~c.ok \/ item.e.op # "col" THEN Require(c, FALSE)
     ELSE [taken EXCEPT !.branches[b].takes = Append(@, taken.take)]

\* The select list of a join: the left side's columns, then the right side's.
project_into_join(c, item) ==
  LET j == Len(c.joins)
      side == locate(c, c.joins[j], item.e)
      taken == resolve_into(c, side, item.e)
  IN IF ~c.ok \/ item.e.op # "col" THEN Require(c, FALSE)
     ELSE IF side = 0 THEN Require(c, FALSE)
     ELSE IF side = c.joins[j].left THEN [taken EXCEPT !.joins[j].lp = Append(@, taken.take)]
     ELSE [taken EXCEPT !.joins[j].rp = Append(@, taken.take)]

branch(c, core) ==
  LET made == from(c, core.from)
      as(b) == [made EXCEPT !.branches = Append(@, b)]
  IN IF ~c.ok \/ ~made.ok \/ core.by # <<>> THEN Require(c, FALSE)
     ELSE IF Len(core.from) = 1
     THEN FoldLeft(take_item, as([scan |-> Len(made.scans), join |-> 0, takes |-> <<>>]), core.items)
     ELSE FoldLeft(project_into_join, as([scan |-> 0, join |-> Len(made.joins), takes |-> <<>>]), core.items)

item_names(core) == Each(core.items, NameOf)

compile_union(s) ==
  LET cores == Each(s.parts, LAMBDA part : part.core)
      made  == FoldLeft(branch, Start, cores)
  IN Require(made, \A core \in Range1(cores) : item_names(core) = item_names(cores[1]))

\* Keys first, then the aggregates; a plain item must be a key.
GroupKey(g, e) ==
  LET taken == resolve_into(g.c, 1, e)
  IN IF ~g.c.ok THEN g ELSE [g EXCEPT !.c = taken, !.keys = Append(@, taken.take)]

GroupItem(g, item) ==
  LET taken == resolve_into(g.c, 1, item.e.args[1])
      key == \E i \in DOMAIN g.keys : g.c.scans[1].needed[g.keys[i]] = item.e.n
  IN CASE ~g.c.ok -> g
       [] g.c.ok /\ item.e.op = "col"   -> [g EXCEPT !.c = Require(@, key)]
       [] g.c.ok /\ item.e.op = "count" -> g
       [] g.c.ok /\ item.e.op = "sum"   -> [g EXCEPT !.c = taken, !.sums = Append(@, taken.take)]

compile_group(core) ==
  LET made == from(Start, core.from)
      keyed == FoldLeft(GroupKey, [c |-> made, keys |-> <<>>, sums |-> <<>>], core.by)
  IN IF Len(core.from) # 1 THEN [c |-> Require(made, FALSE), keys |-> <<>>, sums |-> <<>>]
     ELSE FoldLeft(GroupItem, keyed, core.items)

finish(c) == Require(c, \A i \in DOMAIN c.scans : c.scans[i].needed # <<>>)

-----------------------------------------------------------------------------
(* The program.                                                            *)

\* A scan is the source's rows, then the columns needed of them.
ScanNodes(c) ==
  Concat([i \in DOMAIN c.scans |->
           <<Get(c.scans[i].table),
             Mfp(2 * i - 1, <<>>, <<>>,
                 Each(c.scans[i].needed, LAMBDA n : Named(Schema[c.scans[i].table], n)))>>])

BranchNodes(c, b, next) ==
  LET join == c.joins[b.join]
      left == c.scans[join.left].needed
      right == c.scans[join.right].needed
  IN IF b.join = 0 THEN <<Mfp(2 * b.scan, <<>>, <<>>, b.takes)>>
     ELSE <<Join(2 * join.left, 2 * join.right, Each(join.lk, LAMBDA n : Named(left, n)),
                 Each(join.rk, LAMBDA n : Named(right, n)), <<>>),
            Mfp(next, <<>>, <<>>, join.lp \o Each(join.rp, LAMBDA i : Len(left) + i))>>

WithBranch(c, made, b) ==
  LET nodes == made.nodes \o BranchNodes(c, b, Len(made.nodes) + 1)
  IN [nodes |-> nodes, roots |-> Append(made.roots, Len(nodes))]

Rooted(c, nodes) ==
  Program(Each(c.sources, LAMBDA t : Table(t, Len(Schema[t]))), nodes, <<Let("", Len(nodes))>>, "")

lower_union(c) ==
  LET made == FoldLeft(LAMBDA m, b : WithBranch(c, m, b), [nodes |-> ScanNodes(c), roots |-> <<>>], c.branches)
  IN Rooted(c, Append(made.nodes, Union(made.roots)))

lower_group(g) ==
  Rooted(g.c, Append(ScanNodes(g.c),
    Reduce(2, g.keys, <<Agg("count", 1)>> \o Each(g.sums, LAMBDA take : Agg("sum", take)))))

Rejected == [ok |-> FALSE]
Accepted(p) == [ok |-> TRUE, p |-> p]

\* compile and lower_ir.
Planned(s) ==
  LET grouped == Len(s.parts) = 1 /\ s.parts[1].core.by # <<>>
      group == compile_group(s.parts[1].core)
      union == compile_union(s)
  IN IF ~parse_program(s) THEN Rejected
     ELSE IF grouped
     THEN IF finish(group.c).ok THEN Accepted(lower_group(group)) ELSE Rejected
     ELSE IF finish(union).ok THEN Accepted(lower_union(union)) ELSE Rejected
=============================================================================
