---------------------------- MODULE TypedPrograms ----------------------------
(***************************************************************************)
(* Programs over texts and terms, and what one evaluation of them does     *)
(* (crates/ivm-ir/src/0_ir.rs, crates/ivm-engine/src/1_rel.rs, and the row *)
(* functions of crates/ivm-dbsp).  Columns have types; a row may intern    *)
(* what it reads, so an evaluation leaves a longer dictionary behind, and  *)
(* a constructor is a relation of the terms interned under its name.       *)
(*                                                                         *)
(* How a program is read is a record s: its dictionary, the cells of the   *)
(* program's texts and terms, and the engine that reads it, "none" for the *)
(* meaning itself.  An engine reads a join with a constructor on its id    *)
(* off the dictionary instead of the constructor's rows.                   *)
(***************************************************************************)
EXTENDS IrPrograms, Terms
LOCAL INSTANCE FiniteSetsExt
LOCAL INSTANCE SequencesExt
LOCAL INSTANCE TLC

\* FoldLeft; TLC evaluates each of its values once, not at every use.
Folded(op(_, _), base, seq) ==
  LET F[i \in 0..Len(seq)] ==
        IF i = 0 THEN base ELSE CHOOSE x \in {op(t, seq[i]) : t \in {F[i - 1]}} : TRUE
  IN F[Len(seq)]

\* F(x); TLC evaluates x once, not at every use.
With(x, F(_)) == CHOOSE y \in {F(v) : v \in {x}} : TRUE

-----------------------------------------------------------------------------
(* Syntax.                                                                 *)

Source(cols)  == [kind |-> "source", cols |-> cols, functor |-> 0]
Derived(cols) == [kind |-> "derived", cols |-> cols, functor |-> 0]
Constructor(functor, cols) == [kind |-> "constructor", cols |-> cols, functor |-> functor]

TextLit(i)  == [op |-> "text", args |-> <<>>, i |-> i]
TermLit(i)  == [op |-> "term", args |-> <<>>, i |-> i]
Nil         == [op |-> "nil", args |-> <<>>]

Mint(i, functor, args)   == [op |-> "mint", in |-> <<i>>, functor |-> functor, args |-> args]
Construct(i, head, rest) == [op |-> "construct", in |-> <<i>>, head |-> head, rest |-> rest]
Decompose(i, whole)      == [op |-> "decompose", in |-> <<i>>, whole |-> whole]
Str(i, func, args)       == [op |-> "str", in |-> <<i>>, func |-> func, args |-> args]

Around(rec, inner) == [rec EXCEPT !.nested = inner]

\* An argument of a ground term: an earlier term, a text or a plain cell.
Arg(kind, v)           == [kind |-> kind, v |-> v]
Ground(functor, args)  == [functor |-> functor, args |-> args]

Typed(texts, terms, rels, nodes, strata, outputs) ==
  [texts |-> texts, terms |-> terms, rels |-> rels, nodes |-> nodes, strata |-> strata, outputs |-> outputs]

Constructors(p) == {r \in DOMAIN p.rels : p.rels[r].kind = "constructor"}
Sources(p)      == {r \in DOMAIN p.rels : p.rels[r].kind = "source"}

\* Relations a stratum binds, `binds`.
Binds(s) == {s.ids[i] : i \in DOMAIN s.ids}
            \cup (IF s.recursive THEN UNION {{q.ids[i] : i \in DOMAIN q.ids} : q \in Range(s.nested)} ELSE {})

-----------------------------------------------------------------------------
(* Types.                                                                  *)

expr_type(e, cols) ==
  CASE e.op = "col" -> cols[e.c]
    [] e.op \in {"text", "nil"} -> "text"
    [] e.op = "term" -> "id"
    [] OTHER -> "int"

Narrowed(types, project) == IF project = <<>> THEN types ELSE Columns(types, project)

\* A text an operator makes is typed as an id, a text a literal names as a text.
op_types(p, n, T) ==
  LET In(i) == T[n.in[i]]
      made == CASE n.op \in {"mint", "construct"} -> <<"id">>
                [] n.op = "decompose" -> <<"id", "id">>
                [] n.op = "str" -> CASE str_out(n.func) = "text" -> <<"id">>
                                     [] str_out(n.func) = "int" -> <<"int">>
                                     [] OTHER -> <<>>
                [] n.op = "window" -> <<"int">>
                [] OTHER -> <<>>
      agg(a) == IF a.op \in {"min", "max"} THEN In(1)[a.col] ELSE "int"
  IN CASE n.op = "get"    -> p.rels[n.rel].cols
       [] n.op = "mfp"    -> Narrowed(Folded(LAMBDA ts, e : Append(ts, expr_type(e, ts)), In(1), n.map),
                                      n.project)
       [] n.op = "join"   -> Narrowed(In(1) \o In(2), n.project)
       [] n.op = "reduce" -> Columns(In(1), n.keys) \o [i \in DOMAIN n.aggs |-> agg(n.aggs[i])]
       [] OTHER -> In(1) \o made

\* A node comes after its inputs.
node_types(p) == Folded(LAMBDA T, n : Append(T, op_types(p, n, T)), <<>>, p.nodes)

RECURSIVE reads_strings(_)
reads_strings(e) == e.op \in {"text", "nil"} \/ \E i \in DOMAIN e.args : reads_strings(e.args[i])

uses_strings(p) ==
  \/ p.texts # <<>>
  \/ \E n \in Range(p.nodes) :
       \/ n.op \in {"construct", "decompose", "str"}
       \/ n.op = "mfp" /\ \E e \in Range(n.filter) \cup Range(n.map) : reads_strings(e)

-----------------------------------------------------------------------------
(* Cells.                                                                  *)

\* Texts and terms by their place in the order; an atom keeps its number.
Places(dict) ==
  [id \in DOMAIN dict |-> Cardinality({i \in DOMAIN dict : compare(dict, i, id) <= 0})]

Place(places, type, cell) ==
  IF type # "int" /\ cell \in DOMAIN places THEN places[cell] ELSE cell
Placed(places, types, row) == [i \in DOMAIN row |-> Place(places, types[i], row[i])]
Unplaced(places, types, row) ==
  [i \in DOMAIN row |-> IF types[i] # "int" /\ \E id \in DOMAIN places : places[id] = row[i]
                        THEN CHOOSE id \in DOMAIN places : places[id] = row[i] ELSE row[i]]

\* cmp_cell, across types by their rank.
TypeRank(type) == CASE type = "int" -> 1 [] type = "text" -> 2 [] type = "id" -> 3
Compared(dict, tx, x, ty, y) ==
  Then(<<Sign(TypeRank(tx) - TypeRank(ty)),
         IF tx # ty THEN 0 ELSE IF tx = "int" THEN Sign(x - y) ELSE compare(dict, x, y)>>)

\* eval_typed_with_text.
RECURSIVE Value(_, _, _, _)
Value(e, row, types, s) ==
  LET a(i) == Value(e.args[i], row, types, s)
      t(i) == expr_type(e.args[i], types)
      order == Compared(s.dict, t(1), a(1), t(2), a(2))
  IN CASE e.op = "text"  -> s.texts[e.i]
       [] e.op = "term"  -> s.terms[e.i]
       [] e.op = "nil"   -> IdOf(s.dict, Text(<<>>))
       [] e.op = "term<" -> Bit(compare(s.dict, a(1), a(2)) < 0)
       [] e.op = "="     -> Bit(order = 0)
       [] e.op = "<"     -> Bit(order < 0)
       [] OTHER -> Evaluated([e EXCEPT !.args = [i \in DOMAIN @ |-> Constant(a(i))]], row)

-----------------------------------------------------------------------------
(* Rows.                                                                   *)

\* The row an Mfp makes of one, if its filters hold.
Widened(w, e, s) == [row |-> Append(w.row, Value(e, w.row, w.types, s)),
                     types |-> Append(w.types, expr_type(e, w.types))]
mfp_row(n, types, s, row) ==
  Projected(Folded(LAMBDA w, e : Widened(w, e, s), [row |-> row, types |-> types], n.map).row, n.project)
Filtered(n, types, s, row) == \A i \in DOMAIN n.filter : Value(n.filter[i], row, types, s) # 0

\* The dictionary with the entries interned in order, and the row with their ids.
Interned(dict, row, entries) ==
  With(Folded(mint, dict, entries),
       LAMBDA after : [dict |-> after, out |-> <<row \o [i \in DOMAIN entries |-> IdOf(after, entries[i])]>>])
Dropped(dict) == [dict |-> dict, out |-> <<>>]

mint_row(p, n, dict, row) ==
  LET rel == p.rels[n.functor]
  IN Interned(dict, row, <<Term(rel.functor, Columns(row, n.args), Tail(rel.cols))>>)

\* The first character of a text and the rest; the empty text drops the row.
str_cons_row(n, dict, row) ==
  LET characters(c) == dict[row[c]].args
      readable == \A c \in (IF n.op = "construct" THEN {n.head, n.rest} ELSE {n.whole}) : IsText(dict, row[c])
  IN CASE ~readable -> Dropped(dict)
       [] readable /\ n.op = "construct" ->
            Interned(dict, row, <<Text(characters(n.head) \o characters(n.rest))>>)
       [] readable /\ n.op = "decompose" ->
            LET whole == characters(n.whole)
            IN IF whole = <<>> THEN Dropped(dict)
               ELSE Interned(dict, row, <<Text(<<Head(whole)>>), Text(Tail(whole))>>)

str_op_row(n, dict, row) ==
  IF \E c \in Range(n.args) : ~IsText(dict, row[c]) THEN Dropped(dict)
  ELSE With(str_apply(n.func, [i \in DOMAIN n.args |-> dict[row[n.args[i]]].args]),
            LAMBDA out : CASE out.kind = "miss"  -> Dropped(dict)
                           [] out.kind = "holds" -> [dict |-> dict, out |-> <<row>>]
                           [] out.kind = "int"   -> [dict |-> dict, out |-> <<Append(row, out.v)>>]
                           [] out.kind = "text"  -> Interned(dict, row, <<Text(out.v)>>))

Scalar == {"mint", "construct", "decompose", "str"}
Emitted(p, n, dict, row) ==
  CASE n.op = "mint" -> mint_row(p, n, dict, row)
    [] n.op = "str"  -> str_op_row(n, dict, row)
    [] OTHER -> str_cons_row(n, dict, row)

\* Rows from the least on.
Listed(rows) ==
  [i \in 1..Cardinality(rows) |-> CHOOSE r \in rows : Cardinality({q \in rows : Before(q, r)}) = i - 1]

\* A scalar node over its input's rows, each of which finds what the ones before it interned.
Scanned(p, n, dict, z) ==
  LET step(t, row) ==
        With(Emitted(p, n, t.dict, row),
             LAMBDA e : [dict |-> e.dict, rows |-> [r \in Range(e.out) |-> z[row]] @@ t.rows])
  IN Folded(step, [dict |-> dict, rows |-> NoRows], Listed(DOMAIN z))

-----------------------------------------------------------------------------
(* Nodes.                                                                  *)

\* The input of a join that is a constructor read by its id, 0 if there is none.
decoded(p, n) ==
  LET reads(i, cols) == /\ p.nodes[n.in[i]].op = "get" /\ cols[1] = 1
                        /\ p.nodes[n.in[i]].rel \in Constructors(p)
  IN IF n.op # "join" \/ Len(n.left) # 1 THEN 0
     ELSE IF reads(1, n.left) THEN 1 ELSE IF reads(2, n.right) THEN 2 ELSE 0

lowered_inputs(p, k, engine) ==
  LET n == p.nodes[k]  side == decoded(p, n)
  IN IF engine # "none" /\ side # 0 THEN <<n.in[3 - side]>> ELSE n.in

\* decode: each row beside the term its column names, read when the row is.
decode_rows(p, n, dict, side, z) ==
  LET functor == p.rels[p.nodes[n.in[side]].rel].functor
      cell(r) == IF side = 1 THEN r[n.right[1]] ELSE r[n.left[1]]
      named(r) == Known(dict, cell(r)) /\ ~dict[cell(r)].text /\ dict[cell(r)].functor = functor
      pair(r) == IF side = 1 THEN Row(dict, cell(r)) \o r ELSE r \o Row(dict, cell(r))
  IN Image(Where(z, named), LAMBDA r : Projected(pair(r), n.project))

-----------------------------------------------------------------------------
(* Groups.  Rows are compared by their cells' places in the order.         *)

\* The differential engine's Reduce.  Counts and sums are weights, which add up;
\* a least or greatest cell is found among those of smaller buckets of the live
\* rows' cells, which a hash divides.
accumulable_values(n, z) ==
  LET accumulated == [r \in DOMAIN z |-> <<z[r]>> \o [i \in DOMAIN n.aggs |-> z[r] * r[n.aggs[i].col]]]
      group(g) == {r \in DOMAIN z : Columns(r, n.keys) = g}
      total(g) == [i \in 1..(1 + Len(n.aggs)) |-> MapThenSumSet(LAMBDA r : accumulated[r][i], group(g))]
  IN [g \in {k \in {Columns(r, n.keys) : r \in DOMAIN z} : total(k)[1] > 0} |->
        [i \in DOMAIN n.aggs |-> IF n.aggs[i].op = "count" THEN total(g)[1] ELSE Wrapped(total(g)[i + 1])]]

extrema(aggs, rows) ==
  [i \in DOMAIN aggs |-> LET cells == {r[i] : r \in rows}
                         IN IF aggs[i].op = "min" THEN CHOOSE x \in cells : \A y \in cells : x <= y
                            ELSE Greatest(cells)]

hierarchical_extrema(n, z) ==
  LET cells(r) == [i \in DOMAIN n.aggs |-> r[n.aggs[i].col]]
      of(g) == {cells(r) : r \in {r \in DOMAIN Positive(z) : Columns(r, n.keys) = g}}
      bucket(values, b) == {v \in values : SumSet({v[i] : i \in DOMAIN v}) % 2 = b}
      buckets(values) == {bucket(values, b) : b \in 0..1} \ {{}}
  IN [g \in {Columns(r, n.keys) : r \in DOMAIN Positive(z)} |->
        extrema(n.aggs, {extrema(n.aggs, b) : b \in buckets(of(g))})]

Merged(n, linear, extreme) ==
  LET value(g, i) == IF n.aggs[i].op \in {"min", "max"} THEN extreme[g][i] ELSE linear[g][i]
  IN [row \in {g \o [i \in DOMAIN n.aggs |-> value(g, i)] : g \in DOMAIN linear \cap DOMAIN extreme} |-> 1]
reduce(n, z) == Merged(n, accumulable_values(n, z), hierarchical_extrema(n, z))

\* Rows in the order of a TopK or Window: by its columns, then by the whole row.
rank(n, rows) ==
  [i \in 1..Cardinality(rows) |->
     CHOOSE r \in rows : Cardinality({q \in rows : Precedes(ByColumns(rows, n.order), q, r)}) = i - 1]

\* The live rows of a group in order, as many copies of each as the limit leaves.
topk_group(n, group) ==
  LET take(t, row) == Lowest(group[row], t.left)
      step(t, row) == IF t.left = 0 THEN t
                      ELSE [left |-> t.left - take(t, row), out |-> (row :> take(t, row)) @@ t.out]
  IN Folded(step, [left |-> n.limit, out |-> NoRows], rank(n, DOMAIN group)).out

\* Each copy in order with its number.
window_group(n, group) ==
  LET copies(t, row) == [r \in {Append(row, t.at + i) : i \in 1..group[row]} |-> 1]
      step(t, row) == [at |-> t.at + group[row], out |-> copies(t, row) @@ t.out]
  IN Folded(step, [at |-> 0, out |-> NoRows], rank(n, DOMAIN group)).out

\* The live rows group by group.
keyed(cols, z) == [key \in {Columns(r, cols) : r \in DOMAIN z} |-> Where(z, LAMBDA r : Columns(r, cols) = key)]
ByGroup(n, z, Rows(_, _)) ==
  LET groups == keyed(n.keys, Positive(z))
      made == [key \in DOMAIN groups |-> Rows(n, groups[key])]
  IN Folded(LAMBDA t, rows : rows @@ t, NoRows, SetToSeq(Range(made)))

\* reduce_group, topk_group, window_group.
GroupRows(n, engine, z) ==
  CASE engine = "none"  -> OpRows(n, <<IF n.op = "reduce" THEN z ELSE Positive(z)>>)
    [] engine # "none" /\ n.op = "reduce" -> IF engine = "dd" THEN reduce(n, z) ELSE OpRows(n, <<z>>)
    [] engine # "none" /\ n.op = "topk"   -> ByGroup(n, z, topk_group)
    [] engine # "none" /\ n.op = "window" -> ByGroup(n, z, window_group)
Grouped(n, types, out, s, z) ==
  With(Places(s.dict),
       LAMBDA places : Image(GroupRows(n, s.engine, Image(z, LAMBDA r : Placed(places, types, r))),
                             LAMBDA r : Unplaced(places, out, r)))

\* Two collections joined by their keys, each key's rows with each other.
join_rows(n, l, r) ==
  LET left == keyed(n.left, l)  right == keyed(n.right, r)
      pairs == UNION {(DOMAIN left[key]) \X (DOMAIN right[key]) : key \in DOMAIN left \cap DOMAIN right}
  IN Image([pair \in pairs |-> l[pair[1]] * r[pair[2]]], LAMBDA pair : Projected(pair[1] \o pair[2], n.project))

\* The left rows less those whose key the right side has.
antijoin(n, l, r) ==
  LET keys == Support(Image(r, LAMBDA row : Columns(row, n.right)))
  IN Minus(l, Where(l, LAMBDA row : Columns(row, n.left) \in DOMAIN keys))

mfp(n, types, s, z) ==
  Image(Where(z, LAMBDA r : Filtered(n, types, s, r)), LAMBDA r : mfp_row(n, types, s, r))

NodeValue(p, T, s, k, in, env) ==
  LET n == p.nodes[k]
      types == T[n.in[1]]
      same(rows) == [dict |-> s.dict, rows |-> rows]
      side == decoded(p, n)
  IN CASE n.op = "get"  -> same(env[n.rel])
       [] n.op \in Scalar -> Scanned(p, n, s.dict, in[1])
       [] n.op = "mfp"  -> same(mfp(n, types, s, in[1]))
       [] n.op \in {"reduce", "topk", "window"} -> same(Grouped(n, types, T[k], s, in[1]))
       [] n.op = "join" /\ s.engine # "none" /\ side # 0 -> same(decode_rows(p, n, s.dict, side, in[1]))
       [] n.op = "join" /\ s.engine # "none" /\ side = 0 -> same(join_rows(n, in[1], in[2]))
       [] n.op = "antijoin" /\ s.engine # "none" -> same(antijoin(n, in[1], in[2]))
       [] OTHER -> same(OpRows(n, in))

\* What `roots` reach, in ascending order, which puts inputs first.
Reached(p, roots, Inputs(_)) ==
  LET nodes == [k \in DOMAIN p.nodes |-> k]
      reached == Folded(LAMBDA R, k : IF k \in R THEN R \cup Range(Inputs(k)) ELSE R, roots, Reverse(nodes))
  IN SelectSeq(nodes, LAMBDA k : k \in reached)
Needed(p, roots, engine) == Reached(p, roots, LAMBDA k : lowered_inputs(p, k, engine))

\* The nodes' rows, and the dictionary once all of them are read.
Evaluation(p, T, s, env, roots) ==
  LET step(t, k) ==
        LET inputs == lowered_inputs(p, k, s.engine)
        IN With(NodeValue(p, T, [s EXCEPT !.dict = t.dict], k, [i \in DOMAIN inputs |-> t.v[inputs[i]]], env),
                LAMBDA e : [dict |-> e.dict, v |-> (k :> e.rows) @@ t.v])
  IN Folded(step, [dict |-> s.dict, v |-> <<>>], Needed(p, roots, s.engine))

-----------------------------------------------------------------------------
(* Strata.                                                                 *)

Empty(env, rec) == [id \in Range(rec.ids) |-> NoRows] @@ env

\* A LetRec from empty variables: the ones nested in it first, in every round.
\* It is over its limit when evaluation limit + 1 still changes a variable.
RECURSIVE Fixpoint(_, _, _, _, _, _)
NextRound(p, T, s, old, inner, e, next, rec, evaluations) ==
  LET same == \A id \in DOMAIN next : next[id] = old[id]
      over == rec.limit # 0 /\ evaluations >= rec.limit /\ ~same
  IN IF same \/ over \/ evaluations = MaxEvaluations
     THEN [dict |-> e.dict, env |-> inner.env, over |-> inner.over \/ over]
     ELSE Fixpoint(p, T, s, [dict |-> e.dict, env |-> next @@ inner.env, over |-> inner.over],
                   rec, evaluations + 1)
Fixpoint(p, T, s, t, rec, evaluations) ==
  LET nested(u, r) == Fixpoint(p, T, s, [u EXCEPT !.env = Empty(u.env, r)], r, 0)
      after(inner, e) ==
        NextRound(p, T, s, t.env, inner, e,
                  [id \in Range(rec.ids) |-> Support(BoundTo(rec, e.v)[id])], rec, evaluations)
  IN With(Folded(nested, t, rec.nested),
          LAMBDA inner : With(Evaluation(p, T, [s EXCEPT !.dict = inner.dict], inner.env, Range(rec.bodies)),
                              LAMBDA e : after(inner, e)))

StratumValue(p, T, s, t, stratum) ==
  IF stratum.recursive THEN Fixpoint(p, T, s, [t EXCEPT !.env = Empty(t.env, stratum)], stratum, 0)
  ELSE With(Evaluation(p, T, [s EXCEPT !.dict = t.dict], t.env, Range(stratum.bodies)),
            LAMBDA e : [t EXCEPT !.dict = e.dict, !.env = BoundTo(stratum, e.v) @@ t.env])

\* One evaluation of a program.
ProgramValue(p, T, s, env) ==
  Folded(LAMBDA t, stratum : StratumValue(p, T, s, t, stratum),
           [dict |-> s.dict, env |-> env, over |-> FALSE], p.strata)

\* The rows of the constructors, of the terms numbered in `ids`.
Constructed(p, dict, ids) == [r \in Constructors(p) |-> snapshot(dict, p.rels[r].functor, ids)]

\* What an engine that has read the terms in `ids` should hold: the program over
\* the sources and those constructor rows, which has nothing more to intern.
Answer(p, T, s, src, ids) ==
  With(ProgramValue(p, T, [s EXCEPT !.engine = "none"], Constructed(p, s.dict, ids) @@ src),
       LAMBDA after : [rows |-> [r \in Range(p.outputs) |-> after.env[r]],
                       complete |-> after.dict = s.dict, over |-> after.over])

-----------------------------------------------------------------------------
(* Literals.                                                               *)

\* The cells of a program's texts, then of its terms, whose arguments come before them.
Literals(p, dict) ==
  LET known == Folded(mint, dict, [i \in DOMAIN p.texts |-> Text(p.texts[i])])
      texts == [i \in DOMAIN p.texts |-> IdOf(known, Text(p.texts[i]))]
      cell(a, terms) == CASE a.kind = "term" -> terms[a.v]
                          [] a.kind = "text" -> texts[a.v]
                          [] a.kind = "raw"  -> a.v
      step(t, lit) ==
        LET rel == p.rels[lit.functor]
            args == [i \in DOMAIN lit.args |-> cell(lit.args[i], t.terms)]
            e == Interned(t.dict, <<>>, <<Term(rel.functor, args, Tail(rel.cols))>>)
        IN [dict |-> e.dict, terms |-> Append(t.terms, e.out[1][1])]
  IN With(Folded(step, [dict |-> known, terms |-> <<>>], p.terms),
          LAMBDA termed : [dict |-> termed.dict, texts |-> texts, terms |-> termed.terms])

\* Refused: a functor that is no constructor, another number of arguments, and a
\* text or a term that is not there yet.
LiteralsFit(p) ==
  \A i \in DOMAIN p.terms :
    LET lit == p.terms[i]
    IN /\ lit.functor \in Constructors(p)
       /\ Len(lit.args) = Len(p.rels[lit.functor].cols) - 1
       /\ \A a \in Range(lit.args) : CASE a.kind = "term" -> a.v \in 1..(i - 1)
                                       [] a.kind = "text" -> a.v \in DOMAIN p.texts
                                       [] a.kind = "raw"  -> TRUE

=============================================================================
