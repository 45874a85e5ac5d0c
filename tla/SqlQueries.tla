----------------------------- MODULE SqlQueries -----------------------------
(***************************************************************************)
(* SELECT statements as their parser hands them over, and what SQLite      *)
(* answers to them: the reference both compilers of the repository are     *)
(* held against.  Rows being read are functions from a name, <<table       *)
(* alias, column>> or <<"", merged column>>, to a cell; nothing here knows *)
(* of positions, nodes or deltas.                                          *)
(*                                                                         *)
(* An expression is a record with its operator `op` and its operands       *)
(* `args`.  The compilers replace the columns in it by positions, so       *)
(* Value evaluates compiled expressions over rows too: both leave scalar   *)
(* expressions to SQLite.                                                  *)
(***************************************************************************)
EXTENDS ZSets
LOCAL INSTANCE FiniteSetsExt
LOCAL INSTANCE SequencesExt
LOCAL INSTANCE TLC

-----------------------------------------------------------------------------
(* Syntax.                                                                 *)

Col(q, n)     == [op |-> "col", args |-> <<>>, q |-> q, n |-> n]
C(i)          == [op |-> "c", args |-> <<>>, i |-> i]
Lit(v)        == [op |-> "lit", args |-> <<>>, v |-> v]
Apply1(op, a) == [op |-> op, args |-> <<a>>]
Apply2(op, a, b) == [op |-> op, args |-> <<a, b>>]
Eq(a, b)      == Apply2("=", a, b)
Exists(core)  == [op |-> "exists", args |-> <<>>, core |-> core]
CountStar     == [op |-> "count", args |-> <<>>]
RowNumber(keys, order) == [op |-> "row_number", args |-> <<>>, keys |-> keys, order |-> order]
Star(q)       == [op |-> "*", args |-> <<>>, q |-> q]
True          == Lit(1)
None          == [op |-> "none", args |-> <<>>]

RECURSIVE Parts(_)
Parts(e) == {e} \cup UNION {Parts(e.args[i]) : i \in DOMAIN e.args}

Aggregates == {"count", "sum", "max"}

\* The name of a result column: its alias, or the column's own name.
NameOf(item) == IF item.as = "" /\ item.e.op = "col" THEN item.e.n ELSE item.as

Range1(s) == {s[i] : i \in DOMAIN s}
Each(s, F(_)) == [i \in DOMAIN s |-> F(s[i])]
Concat(s) == FoldLeft(LAMBDA t, u : t \o u, <<>>, s)

-----------------------------------------------------------------------------
(* Cells.                                                                  *)

RECURSIVE Value(_, _, _, _), Answer(_, _)

Truth(p) == IF p THEN 1 ELSE 0
Known(op, a, b) == IF a = Null \/ b = Null THEN Null ELSE Truth(IF op = "=" THEN a = b ELSE a < b)
Both(a, b) == IF a = 0 \/ b = 0 THEN 0 ELSE IF a = Null \/ b = Null THEN Null ELSE 1

\* A name in scope; one merged by USING goes before the columns it merges.
Lookup(env, q, n) ==
  IF <<q, n>> \in DOMAIN env THEN env[<<q, n>>]
  ELSE env[CHOOSE id \in DOMAIN env : id[2] = n]

\* The sum or the greatest of a group's values; NULL when there is none.
Summed(e, group, T) ==
  LET v(env) == Value(e, env, NoRows, T)
      known == {env \in DOMAIN group : v(env) # Null}
  IN IF known = {} THEN Null ELSE MapThenSumSet(LAMBDA env : group[env] * v(env), known)
Largest(e, group, T) ==
  LET known == {Value(e, env, NoRows, T) : env \in DOMAIN group} \ {Null}
  IN IF known = {} THEN Null ELSE Greatest(known)

-----------------------------------------------------------------------------
(* FROM.                                                                   *)

\* A table's rows under its alias, with the order in which * and t.* list them.
Scope(table, T) ==
  LET rel == IF table.kind = "name" THEN T[table.n] ELSE Answer(table.s, T)
      ids == Each(rel.names, LAMBDA n : <<table.as, n>>)
      env(r) == [id \in Range1(ids) |-> r[CHOOSE i \in DOMAIN ids : ids[i] = id]]
  IN [star |-> ids, own |-> Each(ids, LAMBDA id : [q |-> table.as, id |-> id]),
      names |-> Range1(ids), rows |-> Image(rel.rows, env)]

NullRow(names) == [id \in names |-> Null]

Merged(l, r, step) ==
  IF ~step.natural THEN step.using
  ELSE SelectSeq(Each(l.star, LAMBDA id : id[2]), LAMBDA n : \E id \in Range1(r.star) : id[2] = n)

JoinScopes(l, r, step, T) ==
  LET keys == Merged(l, r, step)
      ofRight(id) == \E i \in DOMAIN keys : keys[i] = id[2]
      meets(x, y) ==
        /\ \A i \in DOMAIN keys : Known("=", Lookup(x, "", keys[i]), Lookup(y, "", keys[i])) = 1
        /\ step.on = None \/ Value(step.on, x @@ y, NoRows, T) = 1
      value(x, y, n) == IF Lookup(x, "", n) # Null THEN Lookup(x, "", n) ELSE Lookup(y, "", n)
      pair(x, y) == [id \in {<<"", keys[i]>> : i \in DOMAIN keys} |-> value(x, y, id[2])] @@ x @@ y
      met == {p \in (DOMAIN l.rows) \X (DOMAIN r.rows) : meets(p[1], p[2])}
      inner == Image([p \in met |-> l.rows[p[1]] * r.rows[p[2]]], LAMBDA p : pair(p[1], p[2]))
      loneL == Where(l.rows, LAMBDA x : \A p \in met : p[1] # x)
      loneR == Where(r.rows, LAMBDA y : \A p \in met : p[2] # y)
      padL == IF step.op \in {"left", "full"}
              THEN Image(loneL, LAMBDA x : pair(x, NullRow(r.names))) ELSE NoRows
      padR == IF step.op \in {"right", "full"}
              THEN Image(loneR, LAMBDA y : pair(NullRow(l.names), y)) ELSE NoRows
  IN [star  |-> Each(l.star, LAMBDA id : IF ofRight(id) THEN <<"", id[2]>> ELSE id)
                \o SelectSeq(r.star, LAMBDA id : ~ofRight(id)),
      own   |-> Each(l.own, LAMBDA c : IF ofRight(c.id) THEN [c EXCEPT !.id = <<"", @[2]>>] ELSE c)
                \o r.own,
      names |-> {<<"", keys[i]>> : i \in DOMAIN keys} \cup l.names \cup r.names,
      rows  |-> Plus(inner, Plus(padL, padR))]

From(steps, T) ==
  FoldLeft(LAMBDA l, step : JoinScopes(l, Scope(step.table, T), step, T),
           Scope(steps[1].table, T), Tail(steps))

-----------------------------------------------------------------------------
(* SELECT.                                                                 *)

Rank == <<"", "row_number">>

\* Every copy of a row with its number in its partition.
Ranked(z, w, T) ==
  LET at(env, es) == Each(es, LAMBDA e : Value(e, env, NoRows, T))
      first(env) == MapThenSumSet(LAMBDA o : z[o],
                      {o \in DOMAIN z : at(o, w.keys) = at(env, w.keys)
                                        /\ Before(at(o, w.order), at(env, w.order))})
  IN [row \in UNION {{(Rank :> (first(env) + n)) @@ env : n \in 1..z[env]} : env \in DOMAIN z} |-> 1]

\* What * lists, and what t.* does: a merged column in place of a left key.
StarIds(scope, q) ==
  IF q = "" THEN scope.star
  ELSE Each(SelectSeq(scope.own, LAMBDA c : c.q = q), LAMBDA c : c.id)

ItemCells(item, scope, env, group, T) ==
  CASE item.e.op = "*" -> Each(StarIds(scope, item.e.q), LAMBDA id : env[id])
    [] item.e.op = "row_number" -> <<env[Rank]>>
    [] OTHER -> <<Value(item.e, env, group, T)>>

ItemNames(item, scope) ==
  IF item.e.op = "*" THEN Each(StarIds(scope, item.e.q), LAMBDA id : id[2]) ELSE <<NameOf(item)>>

IsGrouped(core) ==
  \/ core.by # <<>>
  \/ \E p \in Parts(core.having) : p.op \in Aggregates
  \/ \E i \in DOMAIN core.items : \E p \in Parts(core.items[i].e) : p.op \in Aggregates

Named(names, n) == CHOOSE i \in DOMAIN names : names[i] = n

\* An ordinal or an alias stands for a result column.
Term(e, names, out, env, group, T) ==
  CASE e.op = "lit" -> out[e.v]
    [] e.op = "col" /\ e.q = "" /\ e.n \in Range1(names) -> out[Named(names, e.n)]
    [] OTHER -> Value(e, env, group, T)

\* The rows of a core, each behind the values `order` sorts it by.
CoreAnswer(core, order, T) ==
  LET from  == From(core.from, T)
      kept  == Where(from.rows, LAMBDA env : Value(core.where, env, NoRows, T) = 1)
      windows == SelectSeq(core.items, LAMBDA item : item.e.op = "row_number")
      rows  == IF windows = <<>> THEN kept ELSE Ranked(kept, windows[1].e, T)
      names == Concat(Each(core.items, LAMBDA item : ItemNames(item, from)))
      out(env, group) == Concat(Each(core.items, LAMBDA item : ItemCells(item, from, env, group, T)))
      \* An alias is a name of its own unless a column has it.
      aliased(env, group) ==
        env @@ [id \in {<<"", names[i]>> : i \in DOMAIN names} |-> out(env, group)[Named(names, id[2])]]
      inScope(e) == \E id \in from.names : id[2] = e.n
      key(e, env) ==
        CASE e.op = "lit" -> Value(core.items[e.v].e, env, NoRows, T)
          [] e.op = "col" /\ ~inScope(e) -> Value(core.items[Named(names, e.n)].e, env, NoRows, T)
          [] OTHER -> Value(e, env, NoRows, T)
      keys(env) == Each(core.by, LAMBDA e : key(e, env))
      groups == IF core.by = <<>> THEN {<<>>} ELSE {keys(env) : env \in DOMAIN rows}
      of(g)  == Where(rows, LAMBDA env : keys(env) = g)
      sample(group) == IF group = NoRows THEN NullRow(from.names) ELSE CHOOSE env \in DOMAIN group : TRUE
      row(env, group) ==
        Each(order, LAMBDA e : Term(e, names, out(env, group), env, group, T)) \o out(env, group)
      grouped == {group \in {of(g) : g \in groups} :
                    Value(core.having, aliased(sample(group), group), group, T) = 1}
      all == IF IsGrouped(core)
             THEN Image([group \in grouped |-> 1], LAMBDA group : row(sample(group), group))
             ELSE Image(rows, LAMBDA env : row(env, NoRows))
  IN [names |-> names, rows |-> IF core.distinct THEN Support(all) ELSE all]

\* LIMIT over rows that start with the `width` cells they are ordered by.
Cut(s, width, rel) ==
  LET columns == [i \in 1..(width + Len(rel.names)) |-> i]
      some == IF s.limit = <<>> THEN rel.rows
              ELSE LET by(cols) == ByColumns(DOMAIN rel.rows, cols)
                   IN Limited(rel.rows, by(<<>>), by(columns), s.limit[1], s.offset)
  IN [names |-> rel.names, rows |-> Image(some, LAMBDA r : SubSeq(r, width + 1, Len(r)))]

Combined(op, l, r) ==
  CASE op = "all"       -> Plus(l, r)
    [] op = "union"     -> Support(Plus(l, r))
    [] op = "except"    -> Support(Where(l, LAMBDA x : x \notin DOMAIN r))
    [] op = "intersect" -> Support(Where(l, LAMBDA x : x \in DOMAIN r))

\* A recursive table grows until another evaluation finds nothing new.
RECURSIVE Grown(_, _, _)
Grown(cte, T, rel) ==
  LET next == Answer(cte.s, (cte.n :> rel) @@ T)
  IN IF next.rows = rel.rows THEN rel ELSE Grown(cte, T, [rel EXCEPT !.rows = next.rows])

WithTable(T, cte) ==
  IF cte.recursive
  THEN (cte.n :> Grown(cte, T, [names |-> cte.columns, rows |-> NoRows])) @@ T
  ELSE LET rel == Answer(cte.s, T)
       IN (cte.n :> [rel EXCEPT !.names = IF cte.columns = <<>> THEN @ ELSE cte.columns]) @@ T

\* The answer to a SELECT over the tables T: column names and a bag of rows.
Answer(s, T) ==
  LET tables == FoldLeft(WithTable, T, s.with)
      order  == IF s.limit = <<>> THEN <<>> ELSE s.order
      first  == CoreAnswer(s.parts[1].core, IF Len(s.parts) = 1 THEN order ELSE <<>>, tables)
      all    == [first EXCEPT !.rows =
                   FoldLeft(LAMBDA z, part : Combined(part.op, z, CoreAnswer(part.core, <<>>, tables).rows),
                            @, Tail(s.parts))]
      key(r) == Each(order, LAMBDA e : Term(e, all.names, r, <<>>, NoRows, T))
  IN Cut(s, Len(order),
         IF Len(s.parts) = 1 THEN all ELSE [all EXCEPT !.rows = Image(@, LAMBDA r : key(r) \o r)])

\* EXISTS over rows of its own and the ones around it; an aggregate without
\* GROUP BY answers a row to any input.
Holds(core, env, T) ==
  (IsGrouped(core) /\ core.by = <<>>)
    \/ \E r \in DOMAIN From(core.from, T).rows : Value(core.where, r @@ env, NoRows, T) = 1

\* The value of an expression in the row env of the group `group`.
Value(e, env, group, T) ==
  LET a(i) == Value(e.args[i], env, group, T)
  IN CASE e.op = "col"    -> Lookup(env, e.q, e.n)
       [] e.op = "c"      -> env[e.i]
       [] e.op = "lit"    -> e.v
       [] e.op \in {"=", "<"} -> Known(e.op, a(1), a(2))
       [] e.op = "and"    -> Both(a(1), a(2))
       [] e.op = "not"    -> IF a(1) = Null THEN Null ELSE 1 - a(1)
       [] e.op = "isnull" -> Truth(a(1) = Null)
       [] e.op = "coalesce" -> IF a(1) # Null THEN a(1) ELSE a(2)
       [] e.op = "count"  -> Total(group)
       [] e.op = "sum"    -> Summed(e.args[1], group, T)
       [] e.op = "max"    -> Largest(e.args[1], group, T)
       [] e.op = "exists" -> Truth(Holds(e.core, env, T))
=============================================================================
