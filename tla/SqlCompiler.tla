---------------------------- MODULE SqlCompiler ----------------------------
(***************************************************************************)
(* bind: a SELECT statement becomes a plan, nodes in topological order     *)
(* whose expressions name the columns of their input by position           *)
(* (src/0b_relational.rs, 0c_compile_from.rs, 0d_compile_select.rs,        *)
(* 0e_compile_recursive.rs, 0f_columns.rs).                                *)
(*                                                                         *)
(* Affinity and collation are one tag of a field, its `type`: the compiler *)
(* only compares them.  The text of an expression, the catalog probes and  *)
(* the checks of functions SQLite could not repeat are left out.           *)
(*                                                                         *)
(* An operator named Slip is the next one with a plausible mistake in it:  *)
(* nothing uses it, the runs are repeated with it in place of the original.*)
(***************************************************************************)
EXTENDS SqlQueries
LOCAL INSTANCE FiniteSetsExt
LOCAL INSTANCE SequencesExt

CONSTANT Schema \* Schema[t]: the columns of table t, [n, type]

\* The compiler as it goes: the nodes, the common tables in scope with their
\* nodes, the node made last, and whether everything so far is supported.
Start == [nodes |-> <<>>, ctes |-> <<>>, id |-> 0, ok |-> TRUE]

Refused(c)    == [c EXCEPT !.ok = FALSE]
Require(c, p) == IF p THEN c ELSE Refused(c)
At1(c, id)    == [c EXCEPT !.id = id]
Made(c, node) == [c EXCEPT !.nodes = Append(@, node), !.id = Len(c.nodes) + 1]
FieldsOf(c)   == c.nodes[c.id].fields

field(q, n, type, visible) ==
  [q |-> q, n |-> n, type |-> type, visible |-> visible, open |-> visible,
   position |-> 0, merged |-> FALSE]

Pick(s, positions) == Each(positions, LAMBDA i : s[i])
Positions(width, P(_)) == SelectSeq([i \in 1..width |-> i], P)
Cells(width) == [i \in 1..width |-> C(i)]

-----------------------------------------------------------------------------
(* Expressions.                                                            *)

\* The position of a column, 0 when no field or several have its name.
resolve(e, fields) ==
  LET found == {i \in DOMAIN fields :
                  /\ e.op = "col" /\ fields[i].n = e.n
                  /\ IF e.q = "" THEN fields[i].open ELSE fields[i].q = e.q}
  IN IF Cardinality(found) = 1 THEN CHOOSE i \in found : TRUE ELSE 0

\* aliases[n]: the compiled expression of the result column n.
RECURSIVE expression_aliases(_, _, _)
expression_aliases(e, fields, aliases) ==
  IF e.op = "col"
  THEN IF resolve(e, fields) # 0 THEN C(resolve(e, fields)) ELSE aliases[e.n]
  ELSE [e EXCEPT !.args = Each(@, LAMBDA a : expression_aliases(a, fields, aliases))]

NoAliases == [n \in {} |-> None]
expression(e, fields) == expression_aliases(e, fields, NoAliases)

\* Whether an expression compiles at all.
Binds(e, fields, aliases) ==
  \A p \in Parts(e) :
    /\ p.op = "col" => resolve(p, fields) # 0 \/ (p.q = "" /\ p.n \in DOMAIN aliases)
    /\ p.op \notin {"exists", "row_number", "*"}

has_aggregate(e) == \E p \in Parts(e) : p.op \in Aggregates

\* A literal result column number, 0 for any other term.
ordinal(e, width) == IF e.op = "lit" /\ e.v \in 1..width THEN e.v ELSE 0

type_of(e, fields) == IF resolve(e, fields) # 0 THEN fields[resolve(e, fields)].type ELSE "none"

column_references(e) == {p.i : p \in {x \in Parts(e) : x.op = "c"}}

RECURSIVE renumber_columns(_, _)
renumber_columns(e, at) ==
  IF e.op = "c" THEN C(at[e.i])
  ELSE [e EXCEPT !.args = Each(@, LAMBDA a : renumber_columns(a, at))]

RECURSIVE conjuncts(_)
conjuncts(e) ==
  IF e.op = "and" THEN conjuncts(e.args[1]) \o conjuncts(e.args[2]) ELSE <<e>>

-----------------------------------------------------------------------------
(* Nodes.                                                                  *)

Map(input, exprs, where, fields) ==
  [kind |-> "map", in |-> <<input>>, exprs |-> exprs, where |-> where, fields |-> fields]
Set(op, in, fields) == [kind |-> op, in |-> in, fields |-> fields]
Join(in, left, right, mode, where, fields) ==
  [kind |-> "join", in |-> in, left |-> left, right |-> right, mode |-> mode, where |-> where,
   fields |-> fields]
Group(input, keys, exprs, having, fields) ==
  [kind |-> "group", in |-> <<input>>, keys |-> keys, exprs |-> exprs, order |-> <<>>,
   having |-> having, fields |-> fields]
Limit(input, order, limit, offset, exprs, fields) ==
  [kind |-> "limit", in |-> <<input>>, keys |-> <<>>, exprs |-> exprs, order |-> order,
   having |-> True, limit |-> limit, offset |-> offset, fields |-> fields]
Window(input, keys, order, fields) ==
  [kind |-> "window", in |-> <<input>>, keys |-> keys, order |-> order, fields |-> fields]

\* A group keeps only the columns it reads: a Map in front of it drops the others.
Kept(used, width) == IF used = {} THEN <<1>> ELSE Positions(width, LAMBDA i : i \in used)

project_group_input(c, node) ==
  LET input == c.nodes[node.in[1]]
      width == Len(input.fields)
      used  == UNION {column_references(e) :
                        e \in Range1(node.keys \o node.exprs \o node.order \o <<node.having>>)}
      kept  == Kept(used, width)
      at    == [p \in used |-> CHOOSE i \in DOMAIN kept : kept[i] = p]
      all(es) == Each(es, LAMBDA e : renumber_columns(e, at))
      before == Made(c, Map(node.in[1], Each(kept, C), True, Pick(input.fields, kept)))
  IN IF Cardinality(used) >= width THEN Made(c, node)
     ELSE Made(before, [node EXCEPT !.in = <<before.id>>, !.keys = all(@), !.exprs = all(@),
                                    !.order = all(@), !.having = renumber_columns(@, at)])

push(c, node) ==
  IF node.kind \in {"group", "limit"} THEN project_group_input(c, node) ELSE Made(c, node)

-----------------------------------------------------------------------------
(* FROM.                                                                   *)

RECURSIVE select(_, _), core(_, _, _, _)

\* A table in FROM: a Map gives its visible columns the alias for a qualifier.
Aliased(c, q) ==
  LET fs    == FieldsOf(c)
      shown == Positions(Len(fs), LAMBDA i : fs[i].visible)
      under == [i \in DOMAIN shown |-> [fs[shown[i]] EXCEPT
                  !.q = q, !.open = TRUE, !.position = i, !.merged = FALSE]]
  IN push(c, Map(c.id, Each(shown, C), True, under))

Innermost(ctes, n) ==
  CHOOSE i \in DOMAIN ctes : ctes[i].n = n /\ \A j \in (i + 1)..Len(ctes) : ctes[j].n # n

Input(t, as) ==
  [kind |-> "input", in |-> <<>>, source |-> t,
   fields |-> Each(Schema[t], LAMBDA col : field(as, col.n, col.type, TRUE))]

table(c, t) ==
  CASE t.kind = "select" -> LET made == select(c, t.s) IN IF made.ok THEN Aliased(made, t.as) ELSE made
    [] t.kind = "name" /\ (\E i \in DOMAIN c.ctes : c.ctes[i].n = t.n) ->
         Aliased(At1(c, c.ctes[Innermost(c.ctes, t.n)].id), t.as)
    [] OTHER -> Aliased(push(c, Input(t.n, t.as)), t.as)

\* The two sides of an equality between a left and a right column.
column_pair(e, fields, split) ==
  LET a == resolve(e.args[1], fields)  b == resolve(e.args[2], fields)
  IN IF a \in 1..split /\ b > split THEN <<a, b - split>>
     ELSE IF b \in 1..split /\ a > split THEN <<b, a - split>> ELSE <<>>
IsPair(e, fields, split) == e.op = "=" /\ column_pair(e, fields, split) # <<>>

\* Equalities an index can serve: of columns that compare as they are stored.
index_pairs(ons, fields, split) ==
  LET pairs == Each(SelectSeq(ons, LAMBDA e : IsPair(e, fields, split)),
                    LAMBDA e : column_pair(e, fields, split))
  IN SelectSeq(pairs, LAMBDA p : fields[p[1]].type = fields[split + p[2]].type)

Conjunction(es) == FoldLeft(LAMBDA a, b : IF a = True THEN b ELSE Apply2("and", a, b), True, es)

\* A join on conditions: keys for the equalities an index can serve, and the
\* conditions themselves unless those equalities are all there is.
joined(c, left, right, ons, mode) ==
  LET fields == c.nodes[left].fields \o c.nodes[right].fields
      split  == Len(c.nodes[left].fields)
      leaves == Concat(Each(ons, conjuncts))
      pairs  == index_pairs(leaves, fields, split)
      pure   == Len(pairs) = Len(leaves)
      where  == IF pure THEN True ELSE Conjunction(Each(ons, LAMBDA e : expression(e, fields)))
      binds  == pure \/ \A i \in DOMAIN ons : Binds(ons[i], fields, NoAliases)
  IN IF ~binds THEN Refused(c)
     ELSE push(c, Join(<<left, right>>, Each(pairs, LAMBDA p : p[1]), Each(pairs, LAMBDA p : p[2]),
                       mode, where, IF mode \in {"semi", "anti"} THEN SubSeq(fields, 1, split) ELSE fields))

\* The columns a USING or NATURAL join compares.
UsingNames(step, lfields, rfields) ==
  IF ~step.natural THEN step.using
  ELSE Each(SelectSeq(lfields, LAMBDA f : f.visible /\ \E r \in Range1(rfields) : r.visible /\ r.n = f.n),
            LAMBDA f : f.n)

\* The merged column's value.
SlipUsingValue(mode, a, b) == IF mode = "full" THEN Apply2("coalesce", C(a), C(b)) ELSE C(a)
UsingValue(mode, a, b) ==
  CASE mode = "full"  -> Apply2("coalesce", C(a), C(b))
    [] mode = "right" -> C(b)
    [] OTHER          -> C(a)

\* The Map after a USING join: every key keeps its qualified name, hidden, and a
\* merged column stands where * lists the left key; hidden columns come last.
MergedKeys(c, l, r, split, mode) ==
  LET fs     == FieldsOf(c)
      width  == Len(fs)
      hidden == [i \in 1..width |->
                  IF i \in Range1(l) THEN [fs[i] EXCEPT !.merged = TRUE, !.visible = FALSE, !.open = FALSE]
                  ELSE IF i - split \in Range1(r) THEN [fs[i] EXCEPT !.visible = FALSE, !.open = FALSE]
                  ELSE fs[i]]
      fields == hidden \o Each(l, LAMBDA a : [fs[a] EXCEPT !.q = "", !.visible = TRUE, !.open = TRUE])
      exprs  == Cells(width) \o [p \in DOMAIN l |-> UsingValue(mode, l[p], split + r[p])]
      left   == [i \in 1..split |->
                  IF i \in Range1(l) THEN width + (CHOOSE p \in DOMAIN l : l[p] = i) ELSE i]
      shown  == left \o Positions(width, LAMBDA i : i > split /\ i - split \notin Range1(r))
      order  == shown \o Positions(Len(fields), LAMBDA i : i \notin Range1(shown))
  IN push(c, Map(c.id, Pick(exprs, order), True, Pick(fields, order)))

UsingJoin(c, left, right, step, mode) ==
  LET lfields == c.nodes[left].fields
      rfields == c.nodes[right].fields
      names   == UsingNames(step, lfields, rfields)
      found(fs) == Each(names, LAMBDA n : resolve(Col("", n), fs))
      l == found(lfields)
      r == found(rfields)
      split   == Len(lfields)
      indexed == \A i \in DOMAIN l : lfields[l[i]].type = rfields[r[i]].type
      where   == Conjunction([i \in DOMAIN l |-> Eq(C(l[i]), C(split + r[i]))])
      made == push(c, Join(<<left, right>>, IF indexed THEN l ELSE <<>>, IF indexed THEN r ELSE <<>>,
                           mode, IF indexed THEN True ELSE where, lfields \o rfields))
  IN IF 0 \in Range1(l \o r) THEN Refused(c)
     ELSE IF l = <<>> THEN made ELSE MergedKeys(made, l, r, split, mode)

Mode(step) == IF step.op = "," THEN "inner" ELSE step.op

\* WHERE conjuncts that join a comma's two sides become its condition.
where_keys_for_step(keys, fields, split) ==
  SelectSeq(keys, LAMBDA e : IsPair(e, fields, split))

\* One more table; `keys` are the WHERE conjuncts no join has taken yet.
FromStep(acc, step) ==
  LET left   == acc.c.id
      next   == table(acc.c, step.table)
      fields == next.nodes[left].fields \o FieldsOf(next)
      split  == Len(next.nodes[left].fields)
      plain  == step.op \in {",", "inner"} /\ step.on = None /\ step.using = <<>> /\ ~step.natural
      taken  == IF plain THEN where_keys_for_step(acc.keys, fields, split) ELSE <<>>
  IN IF ~acc.c.ok \/ ~next.ok THEN [acc EXCEPT !.c = Refused(@)]
     ELSE IF taken # <<>>
     THEN [c |-> joined(next, left, next.id, taken, "inner"),
           keys |-> SelectSeq(acc.keys, LAMBDA e : e \notin Range1(taken))]
     ELSE [acc EXCEPT !.c = IF step.on # None THEN joined(next, left, next.id, <<step.on>>, Mode(step))
                            ELSE UsingJoin(next, left, next.id, step, Mode(step))]

from(c, steps, keys) ==
  FoldLeft(FromStep, [c |-> table(c, steps[1].table), keys |-> keys], Tail(steps))

-----------------------------------------------------------------------------
(* WHERE and SELECT.                                                       *)

Filtered(c, e) ==
  LET fields == FieldsOf(c)
  IN IF ~Binds(e, fields, NoAliases) THEN Refused(c)
     ELSE push(c, Map(c.id, Cells(Len(fields)), expression(e, fields), fields))

\* EXISTS of rows that its own SELECT neither groups nor counts.
PlainRows(s) == \A i \in DOMAIN s.items : ~has_aggregate(s.items[i].e)

SemiJoin(c, s, mode) ==
  LET right == from(c, s.from, <<>>).c
      fields == FieldsOf(c) \o FieldsOf(right)
      binds == \A i \in DOMAIN s.items : s.items[i].e.op = "*" \/ Binds(s.items[i].e, fields, NoAliases)
  IN IF s.where = True \/ s.by # <<>> \/ s.having # True \/ ~right.ok \/ ~PlainRows(s) \/ ~binds
     THEN Refused(c)
     ELSE joined(right, c.id, right.id, <<s.where>>, mode)

RECURSIVE predicate(_, _)
predicate(c, e) ==
  CASE ~c.ok -> c
    [] c.ok /\ e.op = "and" -> predicate(predicate(c, e.args[1]), e.args[2])
    [] c.ok /\ e.op = "exists" -> SemiJoin(c, e.core, "semi")
    [] c.ok /\ e.op = "not" /\ e.args[1].op = "exists" -> SemiJoin(c, e.args[1].core, "anti")
    [] OTHER -> Filtered(c, e)

\* The columns a star stands for: * takes the visible ones, t.* every column of
\* t in t's order, a merged one in place of the key it hides.
StarColumn(fields, q, i) ==
  LET merged == {m \in DOMAIN fields : fields[m].visible /\ fields[m].open /\ fields[m].n = fields[i].n}
  IN IF q # "" /\ fields[i].merged /\ merged # {}
     THEN CHOOSE m \in merged : \A o \in merged : m <= o ELSE i
StarFields(fields, q) ==
  IF q = "" THEN Positions(Len(fields), LAMBDA i : fields[i].visible)
  ELSE SortSeq(Positions(Len(fields), LAMBDA i : fields[i].q = q),
               LAMBDA i, j : fields[i].position < fields[j].position)

\* The result columns so far: the node they read, its fields, their expressions.
StarItem(acc, q) ==
  LET some == StarFields(acc.fields, q)
  IN [acc EXCEPT
       !.exprs = @ \o Each(some, LAMBDA i : C(StarColumn(acc.fields, q, i))),
       !.outs  = @ \o Each(some, LAMBDA i : [acc.fields[i] EXCEPT !.visible = TRUE, !.open = TRUE])]

ExprItem(acc, expr, item) ==
  [acc EXCEPT !.exprs = Append(@, expr),
              !.outs  = Append(@, field("", NameOf(item), type_of(item.e, acc.fields), TRUE))]

WindowItem(acc, item, aggregate) ==
  LET terms == item.e.keys \o item.e.order
      fields == Append(acc.fields, field("", "__ivm_window", "none", FALSE))
      over(es) == Each(es, LAMBDA e : expression(e, acc.fields))
      made == push(acc.c, Window(acc.c.id, over(item.e.keys), over(item.e.order), fields))
  IN IF aggregate \/ \E e \in Range1(terms) : ~Binds(e, acc.fields, NoAliases)
     THEN [acc EXCEPT !.c = Refused(@)]
     ELSE ExprItem([acc EXCEPT !.c = made, !.fields = fields], C(Len(fields)), item)

Item(acc, item, aggregate) ==
  CASE ~acc.c.ok -> acc
    [] acc.c.ok /\ item.e.op = "*" -> StarItem(acc, item.e.q)
    [] acc.c.ok /\ item.e.op = "row_number" -> WindowItem(acc, item, aggregate)
    [] OTHER -> IF Binds(item.e, acc.fields, NoAliases)
                THEN ExprItem(acc, expression(item.e, acc.fields), item)
                ELSE [acc EXCEPT !.c = Refused(@)]

\* The first result column of a name.
AliasesOf(acc) ==
  [n \in {acc.outs[i].n : i \in DOMAIN acc.outs} |->
    acc.exprs[CHOOSE i \in DOMAIN acc.outs : acc.outs[i].n = n /\ \A j \in 1..(i - 1) : acc.outs[j].n # n]]

\* GROUP BY takes ordinals, input columns and then aliases; HAVING the last two.
GroupTerm(e, acc, aliases) ==
  IF ordinal(e, Len(acc.exprs)) # 0 THEN acc.exprs[e.v]
  ELSE expression_aliases(e, acc.fields, aliases)

\* The result column an ORDER BY term names: by ordinal, by name, or as the same
\* expression, which is looked up among the SELECT items as they are written.
OutputTerm(e, acc, items) ==
  LET same == {i \in DOMAIN items : items[i].e = e}
  IN IF ordinal(e, Len(acc.exprs)) # 0 THEN e.v
     ELSE IF resolve(e, acc.outs) # 0 THEN resolve(e, acc.outs)
     ELSE IF same # {} THEN CHOOSE i \in same : \A j \in same : i <= j ELSE 0

\* Any other term becomes a hidden column behind the result's.
OrderTerm(acc, e, items, aliases, distinct) ==
  CASE OutputTerm(e, acc, items) # 0 -> [acc EXCEPT !.order = Append(@, C(OutputTerm(e, acc, items)))]
    [] OutputTerm(e, acc, items) = 0 /\ ~distinct /\ Binds(e, acc.fields, aliases) ->
         [acc EXCEPT !.exprs = Append(@, expression_aliases(e, acc.fields, aliases)),
                     !.outs  = Append(@, field("", "__ivm_order", "none", FALSE)),
                     !.order = Append(@, C(Len(acc.exprs) + 1))]
    [] OTHER -> [acc EXCEPT !.c = Refused(@)]

\* One SELECT: FROM and WHERE, the result columns, groups, DISTINCT and LIMIT.
core(c, s, order, cut) ==
  LET read == from(c, s.from, IF s.where = True THEN <<>> ELSE conjuncts(s.where))
      kept == FoldLeft(predicate, read.c, read.keys)
      aggregate == IsGrouped(s)
      shown == FoldLeft(LAMBDA acc, item : Item(acc, item, aggregate),
                        [c |-> kept, fields |-> FieldsOf(kept), exprs |-> <<>>, outs |-> <<>>,
                         order |-> <<>>],
                        s.items)
      width == Len(shown.exprs)
      aliases == AliasesOf(shown)
      binds == \A e \in Range1(s.by) \cup {s.having} : Binds(e, shown.fields, aliases)
      full == FoldLeft(LAMBDA acc, e : OrderTerm(acc, e, s.items, aliases, s.distinct), shown,
                       IF cut = <<>> THEN <<>> ELSE order)
      rows == IF aggregate
              THEN push(full.c, Group(full.c.id, Each(s.by, LAMBDA e : GroupTerm(e, shown, aliases)),
                                      full.exprs, expression_aliases(s.having, full.fields, aliases),
                                      full.outs))
              ELSE push(full.c, Map(full.c.id, full.exprs, True, full.outs))
      all == IF s.distinct THEN push(rows, Set("distinct", <<rows.id>>, full.outs)) ELSE rows
  IN IF ~kept.ok \/ ~shown.c.ok \/ ~binds \/ ~full.c.ok THEN Refused(c)
     ELSE IF cut = <<>> THEN all
     ELSE push(all, Limit(all.id, full.order, cut[1], cut[2], Cells(width), SubSeq(full.outs, 1, width)))

-----------------------------------------------------------------------------
(* WITH, compounds and recursion.                                          *)

RECURSIVE select_mentions(_, _), core_mentions(_, _)
table_mentions(t, n) == IF t.kind = "name" THEN t.n = n ELSE select_mentions(t.s, n)
part_mentions(p, n)  == \E i \in DOMAIN p.from : table_mentions(p.from[i].table, n)
part_expressions_mention(p, n) ==
  \E e \in {p.items[i].e : i \in DOMAIN p.items} \cup {p.where, p.having} :
    \E x \in Parts(e) : x.op = "exists" /\ core_mentions(x.core, n)
core_mentions(p, n) == part_mentions(p, n) \/ part_expressions_mention(p, n)
select_mentions(s, n) ==
  \/ \E i \in DOMAIN s.with : select_mentions(s.with[i].s, n)
  \/ \E i \in DOMAIN s.parts : core_mentions(s.parts[i].core, n)

\* A step neither groups, nor counts, nor reads its own table in an expression.
RECURSIVE recursion_shape(_)
recursion_shape(s) ==
  /\ \A i \in DOMAIN s.with :
       LET cte == s.with[i]
       IN /\ recursion_shape(cte.s)
          /\ cte.recursive =>
               \A j \in 2..Len(cte.s.parts) : core_mentions(cte.s.parts[j].core, cte.n) =>
                 /\ cte.s.parts[j].op # "all"
                 /\ ~IsGrouped(cte.s.parts[j].core) /\ cte.s.parts[j].core.having = True
                 /\ ~part_expressions_mention(cte.s.parts[j].core, cte.n)
  /\ \A i \in DOMAIN s.parts : \A j \in DOMAIN s.parts[i].core.from :
       LET t == s.parts[i].core.from[j].table IN t.kind = "select" => recursion_shape(t.s)

\* An anchor's rule hands its input's rows on.
AnchorRule(side, width) == [occurrences |-> <<side>>, head |-> Cells(width), where |-> True]

\* One more table of a step; side 0 is the member table.
Occurrence(acc, step, cte, member) ==
  IF step.table.kind = "name" /\ step.table.n = cte.n
  THEN [acc EXCEPT !.occurrences = Append(@, 0),
                   !.fields = @ \o Each(member, LAMBDA f : [f EXCEPT !.q = step.table.as]),
                   !.ons = IF step.on = None THEN @ ELSE Append(@, step.on),
                   !.c = Require(@, 0 \notin Range1(acc.occurrences))]
  ELSE LET made == table(acc.c, step.table)
       IN [acc EXCEPT !.occurrences = Append(@, Len(acc.inputs) + 1),
                      !.inputs = Append(@, made.id),
                      !.fields = @ \o FieldsOf(made),
                      !.ons = IF step.on = None THEN @ ELSE Append(@, step.on),
                      !.c = Require(made, ~table_mentions(step.table, cte.n))]

\* What each result column of a step compiles to.
HeadItem(fields, item) ==
  IF item.e.op = "*" THEN Each(StarFields(fields, item.e.q), C) ELSE <<expression(item.e, fields)>>
HeadTypes(fields, item) ==
  IF item.e.op = "*" THEN Each(StarFields(fields, item.e.q), LAMBDA i : fields[i].type)
  ELSE <<type_of(item.e, fields)>>

StepRule(acc, s, cte, member) ==
  LET read  == FoldLeft(LAMBDA a, step : Occurrence(a, step, cte, member),
                        [acc EXCEPT !.occurrences = <<>>, !.fields = <<>>, !.ons = <<>>], s.from)
      conds == IF s.where = True THEN read.ons ELSE Append(read.ons, s.where)
      binds == /\ \A e \in Range1(conds) : Binds(e, read.fields, NoAliases)
               /\ \A i \in DOMAIN s.items :
                    s.items[i].e.op = "*" \/ Binds(s.items[i].e, read.fields, NoAliases)
      head  == Concat(Each(s.items, LAMBDA item : HeadItem(read.fields, item)))
      types == Concat(Each(s.items, LAMBDA item : HeadTypes(read.fields, item)))
      inner == \A i \in DOMAIN s.from : s.from[i].op \in {"from", ",", "inner"} /\ s.from[i].using = <<>>
      fits  == /\ Len(head) = Len(member)
               /\ \A i \in DOMAIN types : types[i] \in {"none", member[i].type}
      rule  == [occurrences |-> read.occurrences, head |-> head,
                where |-> Conjunction(Each(conds, LAMBDA e : expression(e, read.fields)))]
  IN IF ~inner \/ ~read.c.ok \/ ~binds \/ 0 \notin Range1(read.occurrences)
     THEN [acc EXCEPT !.c = Refused(@)]
     ELSE IF ~fits THEN [acc EXCEPT !.c = Refused(@)]
     ELSE [read EXCEPT !.rules = Append(@, rule)]

Anchor(acc, s) ==
  LET made == core(acc.c, s, <<>>, <<>>)
  IN [acc EXCEPT !.c = made, !.inputs = Append(@, made.id)]

recursive(c, cte) ==
  LET parts   == Each(cte.s.parts, LAMBDA part : part.core)
      anchors == SelectSeq(parts, LAMBDA p : ~part_mentions(p, cte.n))
      steps   == SelectSeq(parts, LAMBDA p : part_mentions(p, cte.n))
      begun   == FoldLeft(Anchor, [c |-> c, inputs |-> <<>>, rules |-> <<>>, occurrences |-> <<>>,
                                   fields |-> <<>>, ons |-> <<>>], anchors)
      fields(id) == begun.c.nodes[id].fields
      width   == Len(fields(begun.inputs[1]))
      names   == IF cte.columns = <<>> THEN Each(fields(begun.inputs[1]), LAMBDA f : f.n) ELSE cte.columns
      member  == [i \in 1..width |-> [fields(begun.inputs[1])[i] EXCEPT
                   !.q = cte.n, !.n = names[i], !.visible = TRUE, !.open = TRUE, !.position = i,
                   !.merged = FALSE]]
      anchored == [begun EXCEPT !.rules = [i \in DOMAIN anchors |-> AnchorRule(i, width)]]
      made    == FoldLeft(LAMBDA acc, s : IF acc.c.ok THEN StepRule(acc, s, cte, member) ELSE acc,
                          anchored, steps)
  IN IF \/ cte.s.limit # <<>> \/ cte.s.order # <<>>
        \/ \E i \in 2..Len(cte.s.parts) : cte.s.parts[i].op # "union"
        \/ ~begun.c.ok
     THEN Refused(c)
     ELSE IF Len(names) # width \/ (\E id \in Range1(begun.inputs) : Len(fields(id)) # width) \/ ~made.c.ok
     THEN Refused(c)
     ELSE push(made.c, [kind |-> "fixpoint", in |-> made.inputs, rules |-> made.rules, fields |-> member])

CommonTable(c, cte) ==
  LET made   == IF cte.recursive THEN recursive(c, cte) ELSE select(c, cte.s)
      fields == FieldsOf(made)
      named  == push(made, Map(made.id, Cells(Len(fields)), True,
                               [i \in DOMAIN fields |-> [fields[i] EXCEPT !.n = cte.columns[i]]]))
      table_ == IF cte.columns = <<>> THEN made ELSE named
  IN IF ~c.ok \/ ~made.ok \/ (cte.columns # <<>> /\ Len(cte.columns) # Len(fields)) THEN Refused(c)
     ELSE [table_ EXCEPT !.ctes = Append(@, [n |-> cte.n, id |-> table_.id])]

Compound(c, part) ==
  LET right  == core(c, part.core, <<>>, <<>>)
      fields == FieldsOf(c)
  IN IF ~c.ok \/ ~right.ok THEN Refused(c)
     ELSE IF Len(fields) # Len(FieldsOf(right)) THEN Refused(c)
     ELSE push(right, Set(part.op, <<c.id, right.id>>, fields))

CompoundLimit(c, s) ==
  LET fields == FieldsOf(c)
      term(e) == IF ordinal(e, Len(fields)) # 0 THEN C(e.v) ELSE expression(e, fields)
      binds == \A e \in Range1(s.order) : Binds(e, fields, NoAliases)
  IN IF ~binds THEN Refused(c)
     ELSE push(c, Limit(c.id, Each(s.order, term), s.limit[1], s.offset, Cells(Len(fields)), fields))

\* Common tables, the first SELECT, the others onto it from left to right.
select(c, s) ==
  LET scoped == FoldLeft(CommonTable, c, s.with)
      cut    == IF s.limit = <<>> THEN <<>> ELSE <<s.limit[1], s.offset>>
      single == Len(s.parts) = 1
      first  == core(scoped, s.parts[1].core, s.order, IF single THEN cut ELSE <<>>)
      all    == FoldLeft(Compound, first, Tail(s.parts))
      done   == IF single \/ cut = <<>> THEN all ELSE CompoundLimit(all, s)
  IN IF ~scoped.ok \/ ~first.ok \/ ~all.ok THEN Refused(c)
     ELSE [done EXCEPT !.ctes = c.ctes]

\* The plan of a query, with output columns told apart by their names.
bind(s) ==
  LET made  == select(Start, s)
      names == Each(FieldsOf(made), LAMBDA f : f.n)
  IN IF ~recursion_shape(s) \/ ~made.ok THEN Refused(Start)
     ELSE Require(made, Cardinality(Range1(names)) = Len(names))
=============================================================================
