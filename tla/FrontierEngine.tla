--------------------------- MODULE FrontierEngine ---------------------------
(***************************************************************************)
(* The second engine, crates/ivm-sqlite, on a program FrontierLowering     *)
(* made nodes of (4_engine.rs, engine.rs, 3_nodes.rs).  A settle applies   *)
(* one frontier of source changes, fills the physical deltas in node       *)
(* order, runs the loop of a LetRec where its result node stands, reads    *)
(* the output's delta, adds the deltas to the images and clears them, all  *)
(* in one savepoint.                                                       *)
(*                                                                         *)
(* An operator named Slip is the next one with a plausible mistake in it:  *)
(* nothing uses it, the runs are repeated with it in place of the original.*)
(***************************************************************************)
EXTENDS FrontierLowering
LOCAL INSTANCE FiniteSetsExt
LOCAL INSTANCE SequencesExt

CONSTANTS
  Programs,         \* the programs, by name
  Compiled(_),      \* the plan of a program, or its refusal
  AnswerTo(_, _),   \* the rows a program stands for, given the source tables
  TableRows,        \* TableRows[t]: the rows source table t can hold
  MaxChanges,       \* bound: changes of one frontier
  MaxMarkedChanges, \* bound: the same once a mark is set
  NoMark

VARIABLES
  program,    \* the installed program
  plan,       \* what compile made of it
  db,         \* what the savepoints cover: source, image, delta, groups, arr, acc, del, hold
  stage,      \* the staged changes by table, cleared when the next settle begins
  active,     \* deltas this settle marks nonempty
  outer,      \* active, as the loop found it
  evaluation, \* evaluations of a recomputed LetRec that changed its variable
  phase,
  at,         \* the node whose step is next
  emitted,    \* the output delta of this settle
  seen,       \* the host's copy of the output, kept by adding deltas
  saved,      \* db at SAVEPOINT ivm_engine_frontier
  mark        \* db and seen at SAVEPOINT ivm_engine_mark

vars == <<program, plan, db, stage, active, outer, evaluation, phase, at, emitted, seen, saved, mark>>

Nodes  == 1..Len(plan.nodes)
N(k)   == plan.nodes[k]
Loop   == plan.loop
InLoop == {k \in Nodes : N(k).owner = "loop"}
Copies == {k \in Nodes : N(k).owner = "copy"}
Scc    == InLoop \cup Copies
Outside == {k \in Nodes : N(k).owner = "settle"}
Stored(S)   == {k \in S : N(k).stored}
Physical(S) == {k \in S : ~N(k).inline}
Variables == {Loop.vars[i] : i \in DOMAIN Loop.vars}
BodyOf(v) == Loop.bodies[CHOOSE i \in DOMAIN Loop.vars : Loop.vars[i] = v]
Blocks == {k \in Nodes : N(k).op = "block"}

NoDeltas == [k \in Nodes |-> NoRows]

Ascending(S)  == SelectSeq([k \in Nodes |-> k], LAMBDA k : k \in S)
Descending(S) == Reverse(Ascending(S))

-----------------------------------------------------------------------------
(* What one statement selects.                                             *)

Negated(a) == Minus(NoRows, a)

\* Integer arithmetic of SQLite, where a result outside the word becomes REAL.
Real == MaxInt + 1
SqlAdded(x, y) == IF Real \in {x, y} \/ x + y \notin MinInt..MaxInt THEN Real ELSE x + y
SqlSubtracted(x, y) == IF Real \in {x, y} \/ x - y \notin MinInt..MaxInt THEN Real ELSE x - y

\* render: sums wrap around without ever leaving the word.
RenderedSum(x, y) ==
  CASE y > 0 /\ x > MaxInt - y -> SqlAdded(SqlAdded(x, MinInt), SqlAdded(y, MinInt))
    [] y < 0 /\ x < MinInt - y -> SqlAdded(SqlSubtracted(x, MinInt), SqlSubtracted(y, MinInt))
    [] OTHER -> SqlAdded(x, y)
RenderedDifference(x, y) ==
  CASE y < 0 /\ x > MaxInt + y -> SqlSubtracted(SqlAdded(x, MinInt), SqlSubtracted(y, MinInt))
    [] y > 0 /\ x < MinInt + y -> SqlSubtracted(SqlSubtracted(x, MinInt), SqlAdded(y, MinInt))
    [] OTHER -> SqlSubtracted(x, y)

RECURSIVE Rendered(_, _)
Rendered(e, row) ==
  LET a(i) == Rendered(e.args[i], row)
  IN CASE e.op = "+" -> RenderedSum(a(1), a(2))
       [] e.op = "-" -> RenderedDifference(a(1), a(2))
       [] OTHER -> Evaluated([e EXCEPT !.args = [i \in DOMAIN @ |-> Constant(a(i))]], row)

MapRows(n, z) ==
  LET wide(r) == FoldLeft(LAMBDA s, e : Append(s, Rendered(e, s)), r, n.map)
  IN Image(Where(z, LAMBDA r : \A i \in DOMAIN n.filter : Rendered(n.filter[i], r) # 0),
           LAMBDA r : Columns(wide(r), n.project))

Joined(n, a, b) ==
  Product(a, b, LAMBDA x, y : Columns(x, n.left) = Columns(y, n.right))

\* The images nodes store, and the views in place of the others.
Images(d) ==
  LET I[j \in Nodes] ==
        LET n == N(j)
        IN CASE n.stored -> d.image[j]
             [] ~n.stored /\ n.viewed /\ n.op = "map"  -> MapRows(n, I[n.in[1]])
             [] ~n.stored /\ n.viewed /\ n.op = "join" -> Joined(n, I[n.in[1]], I[n.in[2]])
             [] ~n.stored /\ n.viewed /\ n.op = "threshold" -> Support(I[n.in[1]])
  IN I

\* I- is the image of before the frontier, so the terms only add.
SlipJoinDelta(n, da, db_, ia, ib) == Plus(Joined(n, ia, db_), Joined(n, da, ib))
JoinDelta(n, da, db_, ia, ib) ==
  Plus(Joined(n, da, db_), Plus(Joined(n, ia, db_), Joined(n, da, ib)))

\* +1 or -1 where the accumulated weight crosses zero.
SlipCrossed(i, d) == Collect(DOMAIN d, LAMBDA r : IF At(i, r) + d[r] > 0 THEN 1 ELSE -1)
Crossed(i, d) ==
  LET w(r) == (IF At(i, r) + d[r] > 0 THEN 1 ELSE 0) - (IF At(i, r) > 0 THEN 1 ELSE 0)
  IN Collect(DOMAIN d, w)

\* of_touched: the rows of a table in the groups the delta touches.
OfTouched(n, d, table) ==
  LET touched == {Columns(r, n.keys) : r \in DOMAIN d}
  IN Where(table, LAMBDA r : Columns(r, n.keys) \in touched)

TouchedNow(n, d, old) == Positive(Plus(OfTouched(n, d, old), d))
TopDelta(n, d, old, own) ==
  LET now == TouchedNow(n, d, old)
  IN Minus(Limited(now, By(now, n.keys), By(now, n.order), n.limit, 0), OfTouched(n, d, own))
WindowDelta(n, d, old, own) ==
  LET now == TouchedNow(n, d, old)
  IN Minus(Numbered(now, By(now, n.keys), By(now, n.order)), OfTouched(n, d, own))

\* The delta of a node that no table holds, from its inputs' deltas and images.
Selected(k, I, D) ==
  LET n == N(k)
      DeltaOf(i) == D[n.in[i]]
      Old(i) == I[n.in[i]]
  IN CASE n.op = "source"    -> stage[n.table]
       [] n.op = "copy"      -> DeltaOf(1)
       [] n.op = "map"       -> MapRows(n, DeltaOf(1))
       [] n.op = "negate"    -> Negated(DeltaOf(1))
       [] n.op = "union"     -> FoldLeft(LAMBDA z, j : Plus(z, D[j]), NoRows, n.in)
       [] n.op = "join"      -> JoinDelta(n, DeltaOf(1), DeltaOf(2), Old(1), Old(2))
       [] n.op = "threshold" -> Crossed(Old(1), DeltaOf(1))
       [] n.op = "topk"      -> TopDelta(n, DeltaOf(1), Old(1), I[k])
       [] n.op = "window"    -> WindowDelta(n, DeltaOf(1), Old(1), I[k])

\* A node's delta: its table, or the expression inlined in its reader.
DeltasOf(d, I) ==
  LET D[k \in Nodes] == IF N(k).inline THEN Selected(k, I, D) ELSE d.delta[k]
  IN D

Deltas(d) == DeltasOf(d, Images(d))

-----------------------------------------------------------------------------
(* Fills.  A statement whose deltas are all empty is skipped.              *)

\* The tables a reader of k's delta reads.
Leaves(k) ==
  LET L[j \in Nodes] ==
        IF N(j).inline /\ N(j).op # "source" THEN UNION {L[N(j).in[i]] : i \in DOMAIN N(j).in}
        ELSE {j}
  IN L[k]

SlipReads(k) == IF N(k).in = <<>> THEN {} ELSE Leaves(Head(N(k).in))
Reads(k) == UNION {Leaves(N(k).in[i]) : i \in DOMAIN N(k).in}
Open(reads, act) == reads = {} \/ reads \cap act # {}

\* A gate with a key asks for a row that has it.
SlipHolds(gate, d, act) ==
  gate.node \in act /\ (IsKey(gate) => \A r \in DOMAIN d.delta[gate.node] : r[gate.col] = gate.v)
Holds(gate, d, act) ==
  gate.node \in act /\ (IsKey(gate) => \E r \in DOMAIN d.delta[gate.node] : r[gate.col] = gate.v)

FillOpens(k, d, act) ==
  IF N(k).gates = {} THEN Open(Reads(k), act) ELSE \E gate \in N(k).gates : Holds(gate, d, act)

WithDelta(d, k, rows) == [d EXCEPT !.delta[k] = Plus(@, rows)]

NoGroup(n) == [count |-> 0, sums |-> [i \in DOMAIN n.aggs |-> 0]]

\* The accumulators of a Reduce take the delta; groups that come to nothing are
\* deleted after the touched groups' rows are read.
Accumulated(n, groups, d) ==
  LET keys == {Columns(r, n.keys) : r \in DOMAIN d}
      of(g) == IF g \in DOMAIN groups THEN groups[g] ELSE NoGroup(n)
      In(g) == {r \in DOMAIN d : Columns(r, n.keys) = g}
      grown(g, i) == IF n.aggs[i].op # "sum" THEN 0
                     ELSE of(g).sums[i] + MapThenSumSet(LAMBDA r : d[r] * r[n.aggs[i].col], In(g))
  IN [g \in (DOMAIN groups) \cup keys |->
       [count |-> of(g).count + MapThenSumSet(LAMBDA r : d[r], In(g)),
        sums  |-> [i \in DOMAIN n.aggs |-> grown(g, i)]]]

Kept(n, groups) == [g \in {h \in DOMAIN groups : groups[h] # NoGroup(n)} |-> groups[g]]

\* Touched groups: their new row minus their stored row.  A least or greatest
\* value is looked up in the arrangement of the input.
ReduceDelta(n, groups, arranged, d, own) ==
  LET keys == {Columns(r, n.keys) : r \in DOMAIN d}
      values(g, col) == {r[col] : r \in {x \in DOMAIN arranged : Columns(x, n.keys) = g /\ arranged[x] > 0}}
      value(g, i) == CASE n.aggs[i].op = "count" -> groups[g].count
                       [] n.aggs[i].op = "sum"   -> groups[g].sums[i]
                       [] n.aggs[i].op = "max"   -> Max(values(g, n.aggs[i].col))
                       [] n.aggs[i].op = "min"   -> Min(values(g, n.aggs[i].col))
      row(g) == g \o [i \in DOMAIN n.aggs |-> value(g, i)]
      now == [r \in {row(g) : g \in {h \in keys : groups[h].count > 0}} |-> 1]
  IN Minus(now, Where(own, LAMBDA r : SubSeq(r, 1, Len(n.keys)) \in keys))

\* The key a row of the left input is held against; all have one without columns.
BlockKey(n, r) == IF n.left = <<>> THEN <<0>> ELSE Columns(r, n.left)

\* A recursive left input against keys the loop does not own: old keys and new
\* ones both block while deleting, the keys as they now are while inserting.
SlipBlocked(n, key, keys, change, deleting) == At(keys, key) + At(change, key) > 0
Blocked(n, key, keys, change, deleting) ==
  At(keys, key) + (IF deleting /\ At(change, key) < 0 THEN 0 ELSE At(change, key)) > 0

FillRows(d, k, I, D, deleting) ==
  LET n == N(k)
  IN CASE n.op \in {"var", "result"} -> NoRows
       [] n.op = "block"  ->
            Where(D[n.in[1]],
                  LAMBDA r : ~Blocked(n, BlockKey(n, r), I[n.in[2]], D[n.in[2]], deleting))
       [] n.op = "reduce" -> ReduceDelta(n, d.groups[k], d.arr[k], D[n.in[1]], I[k])
       [] OTHER -> Selected(k, I, D)

\* The private tables of a Reduce, before its delta is read off them.
SlipArranged(d, k, D) == [d EXCEPT !.groups[k] = Accumulated(N(k), @, D[N(k).in[1]])]
Arranged(d, k, D) ==
  IF N(k).op # "reduce" THEN d
  ELSE [d EXCEPT !.groups[k] = Accumulated(N(k), @, D[N(k).in[1]]),
                 !.arr[k] = IF Extremes(N(k)) THEN Plus(@, D[N(k).in[1]]) ELSE @]

FillFrom(d, k, I, D, deleting) ==
  [WithDelta(d, k, FillRows(d, k, I, D, deleting)) EXCEPT !.groups[k] = Kept(N(k), @)]

FillWith(d, k, I, D, deleting) == FillFrom(Arranged(d, k, D), k, I, D, deleting)

Fill(d, k, deleting) == FillWith(d, k, Images(d), Deltas(d), deleting)

\* The tables after a statement for k's delta, and the flags it leaves.
Flagged(act, k, before, after) ==
  [db |-> after, active |-> IF after.delta[k] = before.delta[k] THEN act ELSE act \cup {k}]

\* One step of a run of fills.
FillStep(s, k, deleting) ==
  IF FillOpens(k, s.db, s.active) THEN Flagged(s.active, k, s.db, Fill(s.db, k, deleting)) ELSE s

-----------------------------------------------------------------------------
(* Images and clears.                                                      *)

\* A delta may read an input's image of before the frontier: consumers first.
SlipIntegrationOrder(S) == Ascending(Stored(S))
IntegrationOrder(S) == Descending(Stored(S))

Integrated(d, S, act) ==
  FoldLeft(LAMBDA e, k : IF Open(Leaves(k), act)
                         THEN [e EXCEPT !.image[k] = Plus(@, Deltas(e)[k])]
                         ELSE e,
           d, IntegrationOrder(S))

Cleared(d, S, act) ==
  [d EXCEPT !.delta = [k \in Nodes |-> IF k \in S \cap act THEN NoRows ELSE @[k]]]

-----------------------------------------------------------------------------
(* The loop of a LetRec: delete and rederive, or recompute.                *)

Live(d, k) == {r \in DOMAIN d.image[k] : d.image[k][r] > 0}
Rows(S, w) == [r \in S |-> w]

\* over_delete, insert, step: the variable's change this round.
Changed(kind, derived, B, V) ==
  CASE kind = "delete" -> Rows({r \in V : At(derived, r) < 0}, -1)
    [] kind = "insert" -> Rows({r \in B \ V : At(derived, r) > 0}, 1)
    [] kind = "recompute" ->
         [r \in {x \in DOMAIN derived : (x \in B) # (x \in V)} |-> IF r \in B THEN 1 ELSE -1]

Staged(d, v, kind, act) ==
  LET b == BodyOf(v)
  IN IF Open(Leaves(b), act) THEN Changed(kind, Deltas(d)[b], Live(d, b), Live(d, v)) ELSE NoRows

\* The loop's deltas are cleared and each variable's change moves into its own.
Moved(d, act, kind, staged) ==
  LET cleared == Cleared(d, Physical(Scc), act)
      moved == {v \in Variables : staged[v] # NoRows}
      plus(z, k) == IF k \in moved THEN Plus(z, staged[k]) ELSE z
  IN [db |-> [cleared EXCEPT
                !.delta = [k \in Nodes |-> plus(@[k], k)],
                !.acc = [k \in Nodes |-> plus(@[k], k)],
                !.del = IF kind = "delete" THEN [k \in Nodes |-> plus(@[k], k)] ELSE @],
      active |-> (act \ Physical(Scc)) \cup moved,
      more |-> moved # {}]

\* Every variable's change is read before any of them moves.
AfterImages(d, act, kind) == Moved(d, act, kind, [v \in Variables |-> Staged(d, v, kind, act)])
AfterFills(s, kind) == AfterImages(Integrated(s.db, Scc, s.active), s.active, kind)

\* One round: fill, integrate, stage the variable's change, clear and move.
Rounded(kind) ==
  AfterFills(FoldLeft(LAMBDA t, k : FillStep(t, k, kind = "delete"),
                      [db |-> db, active |-> active], Ascending(Physical(InLoop))),
             kind)

\* Rows of the left input under keys that came, or under keys that went.
SeedOf(left, n, keys, change, deleting) ==
  IF deleting
  THEN Negated(Where(left, LAMBDA r : /\ At(change, BlockKey(n, r)) > 0
                                      /\ At(keys, BlockKey(n, r)) <= 0))
  ELSE Where(left, LAMBDA r : /\ At(change, BlockKey(n, r)) < 0
                              /\ At(keys, BlockKey(n, r)) + At(change, BlockKey(n, r)) <= 0)

SeedRows(d, k, deleting) ==
  SeedOf(d.image[N(k).in[1]], N(k), Images(d)[N(k).in[2]], Deltas(d)[N(k).in[2]], deleting)

\* A seed that wrote rows opens its delta's readers and its clear.
SlipMarked(act, k, rows) == act
Marked(act, k, rows) == IF rows = NoRows THEN act ELSE act \cup {k}

SeedStep(s, k, rows) == [db |-> WithDelta(s.db, k, rows), active |-> Marked(s.active, k, rows)]

Seeded(s, deleting) ==
  FoldLeft(LAMBDA t, k : SeedStep(t, k, SeedRows(t.db, k, deleting)), s, Ascending(Blocks))

\* stash: arrivals wait until the delete rounds are over.
SlipStashed(d) == d
Stashed(d) ==
  [d EXCEPT !.hold  = [k \in Nodes |-> IF k \in Copies THEN Positive(d.delta[k]) ELSE NoRows],
            !.delta = [k \in Nodes |-> IF k \in Copies THEN Minus(@[k], Positive(@[k])) ELSE @[k]]]

\* The deleted rows a body still derives come back, and the arrivals with them.
SlipRederived(d, v) == NoRows
Rederived(d, v) == Rows({r \in DOMAIN d.del[v] : r \in Live(d, BodyOf(v))}, 1)
RederivedVariables(d) == {v \in Variables : Rederived(d, v) # NoRows}

Restored(d) ==
  LET back(z, k) == IF k \in Variables THEN Plus(z, Rederived(d, k)) ELSE z
  IN [d EXCEPT !.acc = [k \in Nodes |-> back(@[k], k)],
               !.del = NoDeltas, !.hold = NoDeltas,
               !.delta = [k \in Nodes |-> IF k \in Copies THEN Plus(@[k], d.hold[k]) ELSE back(@[k], k)]]

\* capture and reset: the old value is retracted, the loop starts from nothing
\* and the whole of each input arrives.
Emptied(d) ==
  LET without(f, S) == [k \in Nodes |-> IF k \in S THEN NoRows ELSE f[k]]
  IN [d EXCEPT !.acc = [k \in Nodes |-> IF k \in Variables THEN Rows(Live(d, k), -1) ELSE NoRows],
               !.image = without(@, Scc), !.groups = without(@, InLoop), !.arr = without(@, InLoop),
               !.delta = [k \in Nodes |-> CASE k \in Copies -> Plus(d.image[k], @[k])
                                            [] k \in InLoop -> NoRows
                                            [] OTHER -> @[k]]]

-----------------------------------------------------------------------------
(* The engine.                                                             *)

Init ==
  /\ program \in Programs
  /\ \E compiled \in {Compiled(program)} : compiled.ok /\ plan = compiled.plan
  /\ db = [source |-> [t \in DOMAIN TableRows |-> {}], image |-> NoDeltas, delta |-> NoDeltas,
           groups |-> NoDeltas, arr |-> NoDeltas, acc |-> NoDeltas, del |-> NoDeltas, hold |-> NoDeltas]
  /\ stage = [t \in DOMAIN TableRows |-> NoRows]
  /\ active = {} /\ outer = {} /\ evaluation = 0
  /\ phase = "idle" /\ at = 0
  /\ emitted = NoRows /\ seen = NoRows
  /\ saved = db /\ mark = NoMark

\* One change: a present insert is refused, an absent delete changes nothing.
Applied(s, c) ==
  IF s.refused \/ (c.w < 0 /\ c.row \notin s.source[c.table]) THEN s
  ELSE IF c.w > 0 /\ c.row \in s.source[c.table] THEN [s EXCEPT !.refused = TRUE]
  ELSE [source |-> [s.source EXCEPT ![c.table] =
                      IF c.w > 0 THEN @ \cup {c.row} ELSE @ \ {c.row}],
        stage |-> [s.stage EXCEPT ![c.table] = Plus(@, Rows({c.row}, c.w))],
        touched |-> s.touched \cup {c.table}, refused |-> FALSE]

Change == UNION {[table : {t}, row : TableRows[t], w : {-1, 1}] : t \in DOMAIN TableRows}
Frontier(n) == BoundedSeq(Change, n)

\* The host's rows are written and staged; a staged source reads as changed
\* even when its rows come to nothing.
Submit(changes) ==
  /\ phase = "idle"
  /\ LET s == FoldLeft(Applied, [source |-> db.source, stage |-> [t \in DOMAIN TableRows |-> NoRows],
                                 touched |-> {}, refused |-> FALSE], changes)
     IN /\ ~s.refused
        /\ db' = [db EXCEPT !.source = s.source]
        /\ stage' = s.stage
        /\ active' = {k \in Nodes : N(k).op = "source" /\ N(k).table \in s.touched}
  /\ saved' = db
  /\ phase' = "fill" /\ at' = 1
  /\ UNCHANGED <<program, plan, outer, evaluation, emitted, seen, mark>>

\* The steps in node order: the fills outside the loop, the copies' and the loop.
IsFill(k) == ~N(k).inline /\ N(k).owner # "loop" /\ N(k).op # "result"
NextStep(k) == CHOOSE j \in k..(Len(plan.nodes) + 1) :
                 /\ j > Len(plan.nodes) \/ IsFill(j) \/ j = Loop.at
                 /\ \A i \in k..(j - 1) : ~IsFill(i) /\ i # Loop.at

FillNode ==
  /\ phase = "fill"
  /\ LET k == NextStep(at)
     IN /\ k <= Len(plan.nodes) /\ k # Loop.at
        /\ \E s \in {FillStep([db |-> db, active |-> active], k, FALSE)} :
             db' = s.db /\ active' = s.active
        /\ at' = k + 1
  /\ UNCHANGED <<program, plan, stage, outer, evaluation, phase, emitted, seen, saved, mark>>

\* What the loop's statements read from outside it.
LoopReads ==
  (UNION ({Reads(k) : k \in Physical(InLoop)} \cup {Leaves(k) : k \in Stored(InLoop)} \cup {Copies})) \ InLoop

AtLoop == phase = "fill" /\ NextStep(at) = Loop.at

SkipLoop ==
  /\ AtLoop /\ ~Open(LoopReads, active)
  /\ at' = Loop.at + 1
  /\ UNCHANGED <<program, plan, db, stage, active, outer, evaluation, phase, emitted, seen, saved, mark>>

EnterLoop ==
  /\ AtLoop /\ Open(LoopReads, active)
  /\ outer' = active
  /\ UNCHANGED <<program, plan, stage, at, emitted, seen, saved, mark>>

Retracts(s) == \/ s.active # active
               \/ \E k \in Copies \cap active : \E r \in DOMAIN db.delta[k] : db.delta[k][r] < 0

\* Without a retraction there is no delete phase.
StartInserts(d, act) ==
  \E t \in {Seeded([db |-> d, active |-> act \cup (outer' \cap Physical(Scc))], FALSE)} :
    db' = t.db /\ active' = t.active /\ phase' = "insert"

EnterFixpoint ==
  /\ EnterLoop /\ ~Loop.recompute
  /\ \E s \in {Seeded([db |-> db, active |-> active], TRUE)} :
       IF Retracts(s)
       THEN db' = Stashed(s.db) /\ active' = s.active /\ phase' = "delete"
       ELSE StartInserts(s.db, s.active)
  /\ UNCHANGED evaluation

DeleteRound ==
  /\ phase = "delete"
  /\ outer' = outer
  /\ \E s \in {Rounded("delete")} :
       IF s.more
       THEN db' = s.db /\ active' = s.active /\ UNCHANGED phase
       ELSE StartInserts(Restored(s.db),
                         s.active \cup RederivedVariables(s.db))
  /\ UNCHANGED <<program, plan, stage, evaluation, at, emitted, seen, saved, mark>>

\* finish: what a variable's changes come to is its result's delta.
Finished(s) ==
  LET resultOf(i) == Loop.results[i]
      change == [k \in {resultOf(i) : i \in DOMAIN Loop.results} |->
                  s.db.acc[Loop.vars[CHOOSE i \in DOMAIN Loop.results : resultOf(i) = k]]]
  IN /\ db' = [s.db EXCEPT !.acc = NoDeltas,
                           !.delta = [k \in Nodes |-> IF k \in DOMAIN change THEN change[k] ELSE @[k]]]
     /\ active' = outer \cup {k \in DOMAIN change : change[k] # NoRows}
     /\ phase' = "fill" /\ at' = Loop.at + 1
     /\ evaluation' = 0 /\ outer' = {}

InsertRound ==
  /\ phase = "insert"
  /\ \E s \in {Rounded("insert")} :
       IF s.more
       THEN db' = s.db /\ active' = s.active /\ UNCHANGED <<outer, evaluation, phase, at>>
       ELSE Finished(s)
  /\ UNCHANGED <<program, plan, stage, emitted, seen, saved, mark>>

EnterRecompute ==
  /\ EnterLoop /\ Loop.recompute
  /\ db' = Emptied(db)
  /\ active' = (active \cup Copies) \ Variables
  /\ evaluation' = 0 /\ phase' = "recompute"

LimitReached == phase = "recompute" /\ Loop.limit # 0 /\ evaluation > Loop.limit

SlipCounted == evaluation
Counted == evaluation + 1

RecomputeRound ==
  /\ phase = "recompute" /\ ~LimitReached
  /\ \E s \in {Rounded("recompute")} :
       IF s.more
       THEN /\ db' = s.db /\ active' = s.active /\ evaluation' = Counted
            /\ UNCHANGED <<outer, phase, at>>
       ELSE Finished(s)
  /\ UNCHANGED <<program, plan, stage, emitted, seen, saved, mark>>

\* The output's delta; for a set, the rows whose weight crosses zero.
SlipOutputDelta == Deltas(db)[plan.output]
OutputDelta ==
  LET d == Deltas(db)[plan.output]
  IN IF plan.set THEN Crossed(db.image[plan.output], d) ELSE d

ReadOutput ==
  /\ phase = "fill" /\ NextStep(at) > Len(plan.nodes)
  /\ emitted' = OutputDelta
  /\ phase' = "integrate" /\ at' = 0
  /\ UNCHANGED <<program, plan, db, stage, active, outer, evaluation, seen, saved, mark>>

\* Images, clears, RELEASE; the host adds the delta it is handed.
Return ==
  /\ phase = "integrate"
  /\ db' = Cleared(Integrated(db, Outside, active), Physical(Outside), active)
  /\ seen' = Plus(seen, emitted)
  /\ stage' = [t \in DOMAIN TableRows |-> NoRows]
  /\ active' = {} /\ emitted' = NoRows /\ phase' = "idle" /\ saved' = db'
  /\ UNCHANGED <<program, plan, outer, evaluation, at, mark>>

\* A statement fails, or the LetRec limit is reached: ROLLBACK TO, RELEASE.
SlipUndone == [db EXCEPT !.source = saved.source]
Undone == saved
Fail ==
  /\ phase \in {"fill", "delete", "insert", "recompute", "integrate"}
  /\ db' = Undone /\ saved' = db'
  /\ stage' = [t \in DOMAIN TableRows |-> NoRows]
  /\ active' = {} /\ outer' = {} /\ evaluation' = 0 /\ at' = 0
  /\ emitted' = NoRows /\ phase' = "idle"
  /\ UNCHANGED <<program, plan, seen, mark>>

\* A second mark replaces the first; a rewind leaves it where it is.
Mark ==
  /\ phase = "idle"
  /\ mark' = [db |-> db, seen |-> seen]
  /\ UNCHANGED <<program, plan, db, stage, active, outer, evaluation, phase, at, emitted, seen, saved>>

Rewind ==
  /\ phase = "idle" /\ mark # NoMark
  /\ db' = mark.db /\ saved' = mark.db /\ seen' = mark.seen
  /\ UNCHANGED <<program, plan, stage, active, outer, evaluation, phase, at, emitted, mark>>

Settling ==
  FillNode \/ SkipLoop \/ EnterFixpoint \/ DeleteRound \/ InsertRound
  \/ EnterRecompute \/ RecomputeRound \/ ReadOutput \/ Return

LimitFails == LimitReached /\ Fail

Next ==
  \/ \E changes \in Frontier(IF mark = NoMark THEN MaxChanges ELSE MaxMarkedChanges) : Submit(changes)
  \/ Settling \/ Fail \/ Mark \/ Rewind

Spec == Init /\ [][Next]_vars

-----------------------------------------------------------------------------
(* What the images should hold.                                            *)

\* Every node's rows from the sources, the variables and results given.
Values(src, v) ==
  LET V[k \in Nodes] ==
        LET n == N(k)
            In(i) == V[n.in[i]]
        IN CASE n.op = "source"    -> Rows(src[n.table], 1)
             [] n.op = "copy"      -> In(1)
             [] n.op = "map"       -> MapRows(n, In(1))
             [] n.op = "negate"    -> Negated(In(1))
             [] n.op = "union"     -> FoldLeft(LAMBDA z, j : Plus(z, V[j]), NoRows, n.in)
             [] n.op = "join"      -> Joined(n, In(1), In(2))
             [] n.op = "threshold" -> Support(In(1))
             [] n.op = "topk"      -> Limited(In(1), By(In(1), n.keys), By(In(1), n.order), n.limit, 0)
             [] n.op = "window"    -> Numbered(In(1), By(In(1), n.keys), By(In(1), n.order))
             [] n.op = "reduce"    -> ReduceDelta(n, Accumulated(n, NoRows, In(1)), In(1), In(1), NoRows)
             [] n.op = "block"     -> LET keys == In(2)
                                      IN Where(In(1), LAMBDA r : BlockKey(n, r) \notin DOMAIN keys)
             [] n.op = "var"       -> v[k]
             [] n.op = "result"    -> v[Loop.vars[CHOOSE i \in DOMAIN Loop.results : Loop.results[i] = k]]
  IN V

\* The variables of a LetRec are its bodies, evaluated from nothing until they
\* repeat themselves.
Fixed(src) ==
  LET step(old) == [v \in Variables |-> Support(Values(src, old)[BodyOf(v)])]
      F[n \in 0..MaxEvaluations] ==
        IF n = 0 THEN [v \in Variables |-> NoRows]
        ELSE CHOOSE new \in {step(old) : old \in {F[n - 1]}} : TRUE
  IN F[IF Variables = {} THEN 0 ELSE MaxEvaluations]

\* Between settles every stored image, the loop's own included, is what a fresh
\* evaluation of the plan over the sources gives: whatever the settles, the
\* failures and the rewinds before.
ImagesAreEvaluation ==
  phase = "idle" =>
    \E fixed \in {Fixed(db.source)} :
      LET V == Values(db.source, fixed)
      IN \A k \in Stored(Nodes) : db.image[k] = V[k]

\* A host that adds up the deltas it is handed has what the program means: the
\* SELECT it was planned from, or the IR program itself, over the source tables.
TableAnswer == phase = "idle" => seen = AnswerTo(program, db.source)

\* No settle leaves rows for the next one: deltas, `nx`, `del`, `acc` and `hold`
\* are empty, although a clear is skipped when its delta is thought empty, and
\* no accumulator of a group without rows is kept.
NothingIsLeftOver ==
  phase = "idle" => /\ \A k \in Nodes : {db.delta[k], db.hold[k], db.acc[k], db.del[k]} = {NoRows}
                    /\ \A k \in Nodes : \A g \in DOMAIN db.groups[k] : db.groups[k][g].count > 0
=============================================================================
