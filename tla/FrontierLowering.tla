--------------------------- MODULE FrontierLowering ---------------------------
(***************************************************************************)
(* A program of IrPrograms becomes the nodes the second engine keeps       *)
(* tables for (crates/ivm-sqlite/src/3_nodes.rs): each IR node adds nodes  *)
(* whose deltas are tables or common table expressions (`inline`), whose   *)
(* images are tables (`stored`), views over others (`viewed`) or nothing,  *)
(* and which a settle, a loop or the copies into a loop own.               *)
(*                                                                         *)
(* SQL text, indexes, work counters, terms, texts, and a LetRec nested in  *)
(* another are left out; column types are all integers.  A program has at  *)
(* most one LetRec.                                                        *)
(***************************************************************************)
EXTENDS IrPrograms
LOCAL INSTANCE FiniteSetsExt
LOCAL INSTANCE SequencesExt

CONSTANTS
  ViewTables,  \* VIEW_TABLES: stored images a view may read
  SourceReads, \* SOURCE_READS: readers a source's staged rows are read by directly
  KeyReaders   \* KEY_READERS: readers that make a test on a key worth its query

-----------------------------------------------------------------------------
(* Nodes.                                                                  *)

Pass(node, col) == [node |-> node, col |-> col]
NoPass == Pass(0, 0)
Indexes(n) == [i \in 1..n |-> i]

\* A node before its owner is known; `tables` is 0 when its image cannot be a view.
New(op, in) ==
  [op |-> op, in |-> in, arity |-> 0, rec |-> FALSE, owner |-> "settle",
   inline |-> op \in {"map", "union", "negate", "threshold"},
   stored |-> FALSE, viewed |-> FALSE, tables |-> 0, pass |-> <<>>,
   table |-> "", filter |-> <<>>, map |-> <<>>, project |-> <<>>, eq |-> <<>>,
   left |-> <<>>, right |-> <<>>, keys |-> <<>>, aggs |-> <<>>, order |-> <<>>, limit |-> 0,
   gates |-> {}]

\* The lowering as it goes: `id` is the node made or found last, memo the node
\* of each IR node, defined what each relation's name stands for.
NoLoop == [vars |-> <<>>, bodies |-> <<>>, results |-> <<>>, at |-> 0, recompute |-> FALSE, limit |-> 0]
Began(p) ==
  [nodes |-> <<>>, memo |-> [k \in DOMAIN p.nodes |-> 0], defined |-> <<>>,
   active |-> FALSE, recompute |-> FALSE, loop |-> NoLoop, id |-> 0, ok |-> TRUE]

Checked(c, p) == [c EXCEPT !.ok = @ /\ p]
Found(c, k)   == [c EXCEPT !.id = k]
Rec(c, k)     == c.nodes[k].rec
Arity(c, k)   == c.nodes[k].arity

push(c, n, arity, rec) ==
  [c EXCEPT !.nodes = Append(@, [n EXCEPT !.arity = arity, !.rec = rec,
                                          !.owner = IF rec /\ c.active THEN "loop" ELSE "settle"]),
            !.id = Len(c.nodes) + 1,
            !.ok = @ /\ arity > 0]

integrate(c, k) == [c EXCEPT !.nodes[k].stored = TRUE]

view_tables(c, inputs) ==
  MapThenSumSet(LAMBDA i : IF c.nodes[inputs[i]].tables = 0 THEN 1 ELSE c.nodes[inputs[i]].tables,
                DOMAIN inputs)

\* The node made last gets an image that is a view, unless that reads too many tables.
view(c, pass) ==
  LET in == c.nodes[c.id].in
      tables == view_tables(c, in)
  IN IF (\E i \in DOMAIN in : Rec(c, in[i])) \/ tables > ViewTables THEN c
     ELSE [c EXCEPT !.nodes[c.id].tables = tables, !.nodes[c.id].pass = pass]

\* A reader probes the image of node k on the columns `key`.  A view has no
\* table to probe: the key passes on to the images it reads, last input first,
\* and a column that is none of theirs makes the image a table.
RECURSIVE image(_, _, _)
image(c, k, key) ==
  LET n == c.nodes[k]
      first(i) == CHOOSE j \in DOMAIN n.in : n.in[j] = n.in[i] /\ \A h \in 1..(j - 1) : n.in[h] # n.in[j]
      passed(i) == SelectSeq(key, LAMBDA x : n.pass[x].node = n.in[i] /\ first(i) = i)
      part(i) == [x \in DOMAIN passed(i) |-> n.pass[passed(i)[x]].col]
  IN IF n.stored \/ n.tables = 0 \/ \E x \in DOMAIN key : n.pass[key[x]] = NoPass
     THEN integrate(c, k)
     ELSE FoldLeft(LAMBDA d, i : image(d, n.in[i], part(i)),
                   [c EXCEPT !.nodes[k].viewed = TRUE], Reverse(Indexes(Len(n.in))))

-----------------------------------------------------------------------------
(* Inputs of a loop.                                                       *)

\* A node of the lowering that is the same as n, or 0.
Made(c, P(_)) ==
  LET found == {k \in DOMAIN c.nodes : P(c.nodes[k])}
  IN IF found = {} THEN 0 ELSE Min(found)

\* What a loop reads from outside it, it reads from a copy of its own.
copy(c, k) ==
  LET known == Made(c, LAMBDA n : n.op = "copy" /\ n.in = <<k>>)
      made == push(c, [New("copy", <<k>>) EXCEPT !.stored = TRUE], Arity(c, k), FALSE)
  IN IF ~c.active THEN Found(c, k)
     ELSE IF known # 0 THEN Found(c, known)
     ELSE [made EXCEPT !.nodes[made.id].owner = "copy"]

feed(c, in) ==
  IF \A i \in DOMAIN in : ~Rec(c, in[i]) THEN [c |-> c, in |-> in]
  ELSE FoldLeft(LAMBDA f, k : IF Rec(c, k) THEN [f EXCEPT !.in = Append(@, k)]
                              ELSE LET d == copy(f.c, k) IN [c |-> d, in |-> Append(f.in, d.id)],
                [c |-> c, in |-> <<>>], in)

\* A variable may be negated or aggregated only where the loop recomputes.
flat(c, k) == Checked(c, Rec(c, k) => c.recompute)

-----------------------------------------------------------------------------
(* Operators.                                                              *)

get(c, rel) ==
  LET k == Made(c, LAMBDA n : n.op = "source" /\ n.table = rel)
  IN IF k = 0 THEN Checked(c, FALSE) ELSE Found(c, k)

\* The first equality of a column with a constant, and the node it is tested on.
EqualityOf(c, k, filter) ==
  LET of(e) == IF e.args[1].op = "col" THEN <<e.args[1], e.args[2]>> ELSE <<e.args[2], e.args[1]>>
      plain(e) == e.op = "=" /\ of(e)[1].op = "col" /\ of(e)[2].op = "lit" /\ of(e)[1].c <= Arity(c, k)
      tests == SelectSeq(filter, plain)
  IN IF tests = <<>> THEN <<>> ELSE <<k, of(tests[1])[1].c, of(tests[1])[2].v>>

mfp(c, k, filter, map, project) ==
  LET arity == Arity(c, k)
      all == Indexes(arity + Len(map))
      kept == IF project = <<>> THEN all ELSE project
      pass(x) == IF x <= arity THEN Pass(k, x)
                 ELSE IF map[x - arity].op = "col" /\ map[x - arity].c <= arity THEN Pass(k, map[x - arity].c)
                 ELSE NoPass
      made == [New("map", <<k>>) EXCEPT !.filter = filter, !.map = map, !.project = kept,
                                        !.eq = EqualityOf(c, k, filter)]
  IN IF filter = <<>> /\ map = <<>> /\ kept = all THEN Found(c, k)
     ELSE view(push(c, made, Len(kept), Rec(c, k)), [i \in DOMAIN kept |-> pass(kept[i])])

union(c, inputs) ==
  LET f == feed(c, inputs)
      arity == Arity(f.c, f.in[1])
      same == \A i \in DOMAIN f.in : Arity(f.c, f.in[i]) = arity
  IN IF Len(f.in) = 1 THEN Found(f.c, f.in[1])
     ELSE push(Checked(f.c, same), New("union", f.in), arity, \E i \in DOMAIN f.in : Rec(f.c, f.in[i]))

negate(c, k) == push(flat(c, k), New("negate", <<k>>), Arity(c, k), Rec(c, k))

\* Rules that join the same inputs on the same keys share a node.
join(c, inputs, lk, rk) ==
  LET f == feed(c, inputs)
      l == f.in[1]  r == f.in[2]
      n == [New("join", <<l, r>>) EXCEPT !.left = lk, !.right = rk]
      known == Made(f.c, LAMBDA m : m.op = "join" /\ m.in = n.in /\ m.left = lk /\ m.right = rk)
      probed == image(image(f.c, l, lk), r, rk)
      pass == [i \in 1..Arity(f.c, l) |-> Pass(l, i)] \o [i \in 1..Arity(f.c, r) |-> Pass(r, i)]
  IN IF known # 0 THEN Found(f.c, known)
     ELSE view(push(probed, n, Len(pass), Rec(f.c, l) \/ Rec(f.c, r)), pass)

threshold(c, k) ==
  LET made == push(integrate(flat(c, k), k), New("threshold", <<k>>), Arity(c, k), Rec(c, k))
  IN [made EXCEPT !.nodes[made.id].tables = 1,
                  !.nodes[made.id].pass = [i \in 1..Arity(c, k) |-> Pass(k, i)]]

\* The distinct keys of the right input; all rows have the one key 0 when there is none.
KeysOf(c, r, rk) ==
  LET made == IF rk = <<>> THEN mfp(c, r, <<>>, <<Constant(0)>>, <<Arity(c, r) + 1>>)
              ELSE mfp(c, r, <<>>, <<>>, rk)
  IN threshold(made, made.id)

\* A loop that deletes and rederives reads the keys, which it must not own,
\* beside its own rows; any other antijoin is l less the rows the keys meet.
antijoin(c, l, r, lk, rk) ==
  LET keys == KeysOf(c, r, rk)
      probed == integrate(image(keys, keys.id, Indexes(Arity(keys, keys.id))), l)
      joined == join(keys, <<l, keys.id>>, lk, Indexes(Len(lk)))
      semi == mfp(joined, joined.id, <<>>, <<>>, Indexes(Arity(c, l)))
      gone == negate(semi, semi.id)
  IN IF Rec(c, l) /\ ~c.recompute
     THEN IF Rec(c, r) THEN Found(Checked(c, FALSE), l)
          ELSE push(probed, [New("block", <<l, keys.id>>) EXCEPT !.left = lk], Arity(c, l), TRUE)
     ELSE union(gone, <<l, gone.id>>)

reduce(c, k, keys, aggs) ==
  push(flat(c, k), [New("reduce", <<k>>) EXCEPT !.keys = keys, !.aggs = aggs, !.stored = TRUE],
       Len(keys) + Len(aggs), Rec(c, k))

topk(c, k, keys, order, limit) ==
  push(Checked(integrate(c, k), ~Rec(c, k)),
       [New("topk", <<k>>) EXCEPT !.keys = keys, !.order = order, !.limit = limit, !.stored = TRUE],
       Arity(c, k), FALSE)

window(c, k, keys, order) ==
  push(Checked(integrate(c, k), ~Rec(c, k)),
       [New("window", <<k>>) EXCEPT !.keys = keys, !.order = order, !.stored = TRUE],
       Arity(c, k) + 1, FALSE)

-----------------------------------------------------------------------------
(* A program (crates/ivm-engine/src/1_rel.rs).                             *)

\* One node from its lowered inputs.
build_node(c, n) ==
  LET in(i) == c.memo[n.in[i]]
      defined == SelectSeq(c.defined, LAMBDA d : d.rel = n.rel)
      joined == join(c, <<in(1), in(2)>>, n.left, n.right)
  IN CASE n.op = "get"    -> IF defined = <<>> THEN get(c, n.rel) ELSE Found(c, defined[1].node)
       [] n.op = "mfp"    -> mfp(c, in(1), n.filter, n.map, n.project)
       [] n.op = "union"  -> union(c, [i \in DOMAIN n.in |-> in(i)])
       [] n.op = "negate" -> negate(c, in(1))
       [] n.op = "join"   -> IF n.project = <<>> THEN joined
                             ELSE mfp(joined, joined.id, <<>>, <<>>, n.project)
       [] n.op = "antijoin"  -> antijoin(c, in(1), in(2), n.left, n.right)
       [] n.op = "reduce"    -> reduce(c, in(1), n.keys, n.aggs)
       [] n.op = "threshold" -> threshold(c, in(1))
       [] n.op = "topk"      -> topk(c, in(1), n.keys, n.order, n.limit)
       [] n.op = "window"    -> window(c, in(1), n.keys, n.order)

\* Inputs first, each node once.
RECURSIVE lower_node(_, _, _)
lower_node(c, p, k) ==
  LET inputs == FoldLeft(LAMBDA d, i : lower_node(d, p, i), c, p.nodes[k].in)
      built == build_node(inputs, p.nodes[k])
  IN IF c.memo[k] # 0 THEN Found(c, c.memo[k])
     ELSE IF ~inputs.ok THEN inputs
     ELSE [built EXCEPT !.memo[k] = built.id]

Defined(c, rel) == [c EXCEPT !.defined = Append(@, [rel |-> rel, node |-> c.id])]

\* Whether a loop may have to take back what it derived from a variable: the delete
\* rounds are no match for that, so it recomputes.  Nodes come after those they read.
nonmonotone(p, s) ==
  LET Dependent[k \in DOMAIN p.nodes] ==
        LET n == p.nodes[k]
        IN IF n.op = "get" THEN \E i \in DOMAIN s.ids : s.ids[i] = n.rel
           ELSE \E i \in DOMAIN n.in : Dependent[n.in[i]]
      Reached[k \in DOMAIN p.nodes] ==
        (\E i \in DOMAIN s.bodies : s.bodies[i] = k)
          \/ \E j \in DOMAIN p.nodes : j > k /\ Reached[j] /\ \E i \in DOMAIN p.nodes[j].in : p.nodes[j].in[i] = k
      negative(n) == \/ n.op \in {"negate", "threshold", "reduce"} /\ Dependent[n.in[1]]
                     \/ n.op = "antijoin" /\ Dependent[n.in[2]]
  IN s.limit # 0 \/ \E k \in DOMAIN p.nodes : Reached[k] /\ negative(p.nodes[k])

variable(c, width) ==
  LET made == push(c, [New("var", <<>>) EXCEPT !.stored = TRUE], width, TRUE)
  IN [made EXCEPT !.loop.vars = Append(@, made.id)]

\* A body has a table of its own: the loop reads it between fills and clears.
lower_body(c, p, k) ==
  LET lowered == lower_node(c, p, k)
      own == IF Rec(lowered, lowered.id) THEN lowered ELSE copy(lowered, lowered.id)
  IN [own EXCEPT !.nodes[own.id].inline = FALSE, !.nodes[own.id].stored = TRUE,
                 !.loop.bodies = Append(@, own.id)]

result_node(c, v) ==
  LET made == push(c, New("result", <<>>), Arity(c, v), FALSE)
  IN [made EXCEPT !.loop.results = Append(@, made.id)]

close_scc(c) ==
  LET at == Len(c.nodes) + 1
      vars == c.loop.vars  bodies == c.loop.bodies
      fits == Len(vars) = Len(bodies) /\ \A i \in DOMAIN vars : Arity(c, vars[i]) = Arity(c, bodies[i])
  IN FoldLeft(result_node, [Checked(c, fits) EXCEPT !.loop.at = at], vars)

letrec(c, p, s) ==
  LET open == [c EXCEPT !.active = TRUE, !.recompute = nonmonotone(p, s),
                        !.loop.recompute = nonmonotone(p, s), !.loop.limit = s.limit]
      scope == FoldLeft(LAMBDA d, i : Defined(variable(d, s.widths[i]), s.ids[i]), open, Indexes(Len(s.ids)))
      inside == FoldLeft(LAMBDA d, k : lower_body(d, p, k), [scope EXCEPT !.memo = [k \in DOMAIN @ |-> 0]], s.bodies)
      closed == close_scc([inside EXCEPT !.active = FALSE])
      results == [i \in DOMAIN s.ids |-> [rel |-> s.ids[i], node |-> closed.loop.results[i]]]
  IN [closed EXCEPT !.memo = c.memo, !.defined = c.defined \o results]

WithSource(c, rel) ==
  push(c, [New("source", <<>>) EXCEPT !.table = rel.rel, !.stored = TRUE], rel.width, FALSE)

stratum(c, p, s) ==
  IF ~c.ok THEN c
  ELSE IF s.recursive THEN letrec(c, p, s) ELSE Defined(lower_node(c, p, s.bodies[1]), s.ids[1])

output(c, rel) ==
  integrate(Found(c, SelectSeq(c.defined, LAMBDA d : d.rel = rel)[1].node),
            SelectSeq(c.defined, LAMBDA d : d.rel = rel)[1].node)

lower(p) ==
  LET strata == FoldLeft(LAMBDA c, s : stratum(c, p, s), FoldLeft(WithSource, Began(p), p.rels), p.strata)
  IN IF strata.ok THEN output(strata, p.output) ELSE strata

-----------------------------------------------------------------------------
(* Which deltas are tables.                                                *)

Twice(s) == s \o s

\* The deltas each statement of a node names, as often as it names them.
Body(n) ==
  CASE n.op \in {"map", "negate", "copy", "threshold", "union"} -> n.in
    [] n.op = "join" -> Twice(n.in)
    [] n.op \in {"topk", "window"} -> n.in \o Twice(n.in)
    [] n.op \in {"source", "var", "result", "reduce", "block"} -> <<>>

Extremes(n) == \E i \in DOMAIN n.aggs : n.aggs[i].op \in {"min", "max"}

Statements(n) ==
  CASE n.op = "reduce" ->
         <<n.in>> \o (IF Extremes(n) THEN <<n.in, n.in>> ELSE <<>>) \o <<Twice(n.in), n.in>>
    [] n.op = "block"  -> Twice(<<n.in>>) \o Twice(<<<<n.in[2]>>>>)
    [] n.op \in {"source", "var", "result"} -> <<>>
    [] OTHER -> <<Body(n)>>

\* The kinds whose one statement consolidates a body into their table.
FillsOnce(n) == n.op \notin {"source", "var", "result", "reduce", "block"}

Count(s, k) == Cardinality({i \in DOMAIN s : s[i] = k})

\* Statement s of node k reads the deltas it names: `weight` more statements
\* hold each, and SQLite expands each once per reference.
Read(j, s, weight, times, reader) ==
  [j EXCEPT !.reads = [i \in DOMAIN @ |-> @[i] + IF Count(s, i) = 0 THEN 0 ELSE weight],
            !.expansions = [i \in DOMAIN @ |-> @[i] + times * Count(s, i)],
            !.reader = [i \in DOMAIN @ |-> IF Count(s, i) = 0 THEN @[i] ELSE reader]]

\* A join read once, by a statement that expands it once, is no table; a union
\* that several statements read is one.  A source is read directly by a few.
Chosen(j, k) ==
  LET n == j.nodes[k]
      reader == j.reader[k]
      once == reader # 0 /\ j.reads[k] = 1 /\ j.expansions[k] <= 1
      outside == n.owner = "settle" /\ ~n.rec
  IN CASE n.op = "source" -> j.reads[k] <= SourceReads
       [] n.op = "join"   -> n.inline \/ (outside /\ ~n.stored /\ once /\ FillsOnce(j.nodes[reader]))
       [] n.op = "union"  -> n.inline /\ ~(outside /\ j.reads[k] > 1)
       [] OTHER -> n.inline

WithReads(j, k) ==
  LET n == j.nodes[k]
  IN IF n.inline THEN Read(j, Body(n), j.reads[k], j.expansions[k], j.reader[k])
     ELSE FoldLeft(LAMBDA i, s : Read(i, s, IF n.owner = "loop" THEN 2 ELSE 1, 1, k), j, Statements(n))

\* Readers are decided before what they read.
InlineStep(j, k) ==
  LET kept == IF j.nodes[k].stored
              THEN [j EXCEPT !.reads[k] = @ + 2, !.expansions[k] = @ + 2] ELSE j
  IN WithReads([kept EXCEPT !.nodes[k].inline = Chosen(kept, k)], k)

inline_joins(nodes, out) ==
  LET none == [k \in DOMAIN nodes |-> 0]
      read == [none EXCEPT ![out] = 1]
  IN FoldLeft(InlineStep, [nodes |-> nodes, reads |-> read, expansions |-> read, reader |-> none],
              Reverse(Indexes(Len(nodes)))).nodes

-----------------------------------------------------------------------------
(* Gates: when a fill can be skipped.                                      *)

Active(k)      == [node |-> k, col |-> 0, v |-> 0]
Key(k, col, v) == [node |-> k, col |-> col, v |-> v]
IsTable(n)     == ~n.inline \/ n.op = "source"

\* A delta is empty unless one of its gates holds.
NodeGates(nodes) ==
  LET G[k \in DOMAIN nodes] ==
        LET n == nodes[k]
        IN IF IsTable(n) THEN {Active(k)}
           ELSE IF n.eq # <<>> /\ ~nodes[n.in[1]].inline THEN {Key(n.eq[1], n.eq[2], n.eq[3])}
           ELSE UNION {G[n.in[i]] : i \in DOMAIN n.in}
  IN G

IsKey(gate) == gate.col # 0
StepGates(nodes, k) ==
  LET n == nodes[k]
      gates == UNION {NodeGates(nodes)[n.in[i]] : i \in DOMAIN n.in}
  IN IF n.inline \/ n.owner = "loop" \/ \A gate \in gates : ~IsKey(gate) THEN {} ELSE gates

\* A test on a key that few statements ask for is the delta's own gate.
gates(nodes) ==
  LET of == [k \in DOMAIN nodes |-> StepGates(nodes, k)]
      readers(gate) ==
        MapThenSumSet(LAMBDA k : Len(Statements(nodes[k]))
                                 * Cardinality({g \in of[k] : IsKey(g) /\ g.node = gate.node /\ g.col = gate.col}),
                      DOMAIN nodes)
      kept(gate) == IF IsKey(gate) /\ readers(gate) < KeyReaders THEN Active(gate.node) ELSE gate
      after(k) == {kept(gate) : gate \in of[k]}
  IN [k \in DOMAIN nodes |->
       [nodes[k] EXCEPT !.gates = IF \E gate \in after(k) : IsKey(gate) THEN after(k) ELSE {}]]

\* NodesPlan::compile: what a settle runs.
compile(p, set) ==
  LET c == lower(p)
      \* A source's delta is read off the staged rows.
      direct == [k \in DOMAIN c.nodes |-> [c.nodes[k] EXCEPT !.inline = @ \/ c.nodes[k].op = "source"]]
  IN IF ~c.ok THEN [ok |-> FALSE]
     ELSE [ok |-> TRUE,
           plan |-> [nodes |-> gates(inline_joins(direct, c.id)), loop |-> c.loop,
                     output |-> c.id, set |-> set]]
=============================================================================
