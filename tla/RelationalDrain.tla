--------------------------- MODULE RelationalDrain ---------------------------
(***************************************************************************)
(* One view from its SELECT on: the plan bind makes of it, its population  *)
(* from the tables, and its drains: the staged batch seeds the input       *)
(* nodes, every touched node writes the change of its rows to its out      *)
(* table, and apply_state adds the output's change to the stored rows      *)
(* (src/1d_drain.rs, src/1c_materialize.rs, src/1ca_source_reads.rs,       *)
(* src/1e_program.rs).  SqlCompiler is the compiler a run is given,        *)
(* SqlQueries the SQLite; Fixpoint models the drain of a recursive node.   *)
(*                                                                         *)
(* No operator keeps its input: a node reads its inputs' current rows from *)
(* the sources, which are already past the batch, and its inputs' former   *)
(* rows by taking the out table's change away again.  Only UNION and       *)
(* DISTINCT read a stored table.  OutTables models who clears which out    *)
(* table when, SetMembership and AggregateDelta the two stored operator    *)
(* tables in detail.                                                       *)
(*                                                                         *)
(* An operator named Slip is the next one with a plausible mistake in it:  *)
(* nothing uses it, the runs are repeated with it in place of the original.*)
(***************************************************************************)
EXTENDS ZSets

CONSTANTS
  Scalar(_, _, _), \* what SQLite makes of an expression: over a row, over a group
  Bind(_),         \* the compiler: a plan of a SELECT
  Reply(_, _),     \* the rows SQLite answers to a SELECT over tables
  Queries,   \* the SELECTs a view may be made of, by the view's name
  SourceRow, \* SourceRow[t]: the rows table t can hold
  Contents,  \* what the tables may hold when the view is made
  MaxRows,   \* bound: rows the sources grow to
  MaxBatch,  \* bound: net rows of one batch
  MaxRounds  \* bound: rounds of a recursive table

VARIABLES
  view,    \* the view's name
  plan,    \* what bind made of its SELECT: nodes in topological order
  source,  \* rows of each source table
  staged,  \* net rows staged since the last drain, per source
  member,  \* support counts of each UNION and DISTINCT node
  state,   \* the view's stored rows
  out,     \* the nodes' out tables
  at,      \* the node whose turn it is; 0 between drains
  refused  \* apply_state found a retracted row missing

vars == <<view, plan, source, staged, member, state, out, at, refused>>

SourceIds == DOMAIN SourceRow
Nodes     == DOMAIN plan
Output    == Len(plan)
Kind(k)   == plan[k].kind
Inputs(k) == plan[k].in
Has(kinds) == \E k \in Nodes : Kind(k) \in kinds

SetKinds == {"union", "distinct"}
OneInput == {"map", "distinct", "group", "limit", "window"}
TwoInputs == {"all", "union", "except", "intersect", "join"}

\* What bind makes: a node after its inputs, the last one no table.
IsPlan(p) ==
  /\ Len(p) \in Nat \ {0} /\ DOMAIN p = 1..Len(p) /\ p[Len(p)].kind # "input"
  /\ \A k \in DOMAIN p :
       /\ DOMAIN p[k].in = 1..Len(p[k].in)
       /\ \A i \in DOMAIN p[k].in : p[k].in[i] \in 1..(k - 1)
       /\ \/ p[k].kind = "input" /\ Len(p[k].in) = 0 /\ p[k].source \in SourceIds
          \/ p[k].kind \in OneInput /\ Len(p[k].in) = 1
          \/ p[k].kind \in TwoInputs /\ Len(p[k].in) = 2
          \/ p[k].kind = "fixpoint"
       /\ p[k].kind = "join" => p[k].mode \in {"inner", "left", "right", "full", "semi", "anti"}
       /\ p[k].kind = "limit" => p[k].keys = <<>> /\ p[k].limit \in Int /\ p[k].offset \in Int

ASSUME PlanAssumption ==
  \A q \in DOMAIN Queries : \A bound \in {Bind(Queries[q])} : bound.ok => IsPlan(bound.nodes)
ASSUME ContentsAssumption ==
  \A c \in Contents :
    c = [s \in SourceIds |-> c[s]] /\ \A s \in SourceIds : IsBag(c[s]) /\ DOMAIN c[s] \subseteq SourceRow[s]

-----------------------------------------------------------------------------
(* What the SQL of a node computes from full inputs: materialize.          *)

Cell(e, r) == Scalar(e, r, NoRows)
Each(s, F(_)) == [i \in DOMAIN s |-> F(s[i])]
CellsOf(es, r) == Each(es, LAMBDA e : Cell(e, r))
Nulls(fields) == [i \in DOMAIN fields |-> Null]

\* The key of an input row.
KeyOf(node, side, r) ==
  CASE node.kind = "join" -> Columns(r, IF side = 1 THEN node.left ELSE node.right)
    [] node.kind \in {"group", "limit", "window"} -> CellsOf(node.keys, r)
    [] OTHER -> r

Matched(node, l, r) ==
  Matches(Columns(l, node.left), Columns(r, node.right)) /\ Cell(node.where, l \o r) = 1

Lone(node, x, r)  == \A y \in DOMAIN r : ~Matched(node, x, y)
LoneR(node, l, y) == \A x \in DOMAIN l : ~Matched(node, x, y)

\* lf and rf are the fields of the two inputs.
Inner(node, l, r) == Product(l, r, LAMBDA x, y : Matched(node, x, y))
Padded(node, l, r, rf)  == Image(Where(l, LAMBDA x : Lone(node, x, r)), LAMBDA x : x \o Nulls(rf))
PaddedR(node, l, r, lf) == Image(Where(r, LAMBDA y : LoneR(node, l, y)), LAMBDA y : Nulls(lf) \o y)
Joined(node, l, r, lf, rf) ==
  CASE node.mode = "inner" -> Inner(node, l, r)
    [] node.mode = "left"  -> Plus(Inner(node, l, r), Padded(node, l, r, rf))
    [] node.mode = "right" -> Plus(Inner(node, l, r), PaddedR(node, l, r, lf))
    [] node.mode = "full"  -> Plus(Plus(Inner(node, l, r), Padded(node, l, r, rf)), PaddedR(node, l, r, lf))
    [] node.mode = "semi"  -> Where(l, LAMBDA x : ~Lone(node, x, r))
    [] node.mode = "anti"  -> Where(l, LAMBDA x : Lone(node, x, r))

SetOf(node, l, r) ==
  CASE node.kind = "distinct"  -> Support(l)
    [] node.kind = "union"     -> Support(Plus(l, r))
    [] node.kind = "except"    -> Where(Support(l), LAMBDA x : At(r, x) = 0)
    [] node.kind = "intersect" -> Where(Support(l), LAMBDA x : At(r, x) > 0)

\* A row per group, of all rows when there is nothing to group by.  A key is the
\* same on every row of its group.
Members(s) == {s[i] : i \in DOMAIN s}
GroupOf(node, z, key) == Where(z, LAMBDA r : CellsOf(node.keys, r) = key)
GroupsOf(node, z) ==
  IF node.keys = <<>> THEN {z} ELSE {GroupOf(node, z, key) : key \in {CellsOf(node.keys, r) : r \in DOMAIN z}}
Sample(g, fields) == IF g = NoRows THEN Nulls(fields) ELSE CHOOSE r \in DOMAIN g : TRUE
GroupRow(node, g, r) ==
  Each(node.exprs, LAMBDA e : IF e \in Members(node.keys) THEN Cell(e, r) ELSE Scalar(e, r, g))
GroupRows(node, z, fields) ==
  LET kept == {g \in GroupsOf(node, z) : Scalar(node.having, Sample(g, fields), g) = 1}
  IN Image([g \in kept |-> 1], LAMBDA g : GroupRow(node, g, Sample(g, fields)))

\* Rows in the order of some expressions; ties follow the rows' own columns.
EachRow(z, es) == Tabled([r \in DOMAIN z |-> CellsOf(es, r)])
LimitRows(node, z) ==
  Image(Limited(z, EachRow(z, <<>>), EachRow(z, node.order), node.limit, node.offset),
        LAMBDA r : CellsOf(node.exprs, r))
WindowRows(node, z) == Numbered(z, EachRow(z, node.keys), EachRow(z, node.order))

\* The members the rules of a recursive table derive from its inputs.
RuleRows(rule, in, members) ==
  LET rows(o) == IF o = 0 THEN members ELSE DOMAIN in[o]
      met[i \in 0..Len(rule.occurrences)] ==
        IF i = 0 THEN {<<>>} ELSE {p[1] \o p[2] : p \in met[i - 1] \X rows(rule.occurrences[i])}
  IN {CellsOf(rule.head, r) : r \in {r \in met[Len(rule.occurrences)] : Cell(rule.where, r) = 1}}

\* Rounds from nothing; one more finds nothing new.
Closed(rules, in) ==
  LET round[n \in 0..MaxRounds] ==
        IF n = 0 THEN {}
        ELSE LET members == round[n - 1]
             IN members \cup UNION {RuleRows(rule, in, members) : rule \in Members(rules)}
  IN [r \in round[MaxRounds] |-> 1]

\* in[i] is the full i-th input of node k.
Materialize(p, k, in) ==
  LET node == p[k]
      fields(i) == p[node.in[i]].fields
  IN CASE node.kind = "map" ->
         Image(Where(in[1], LAMBDA r : Cell(node.where, r) = 1), LAMBDA r : CellsOf(node.exprs, r))
    [] node.kind = "all"    -> Plus(in[1], in[2])
    [] node.kind = "join"   -> Joined(node, in[1], in[2], fields(1), fields(2))
    [] node.kind = "group"  -> GroupRows(node, in[1], fields(1))
    [] node.kind = "limit"  -> LimitRows(node, in[1])
    [] node.kind = "window" -> WindowRows(node, in[1])
    [] node.kind = "fixpoint" -> Closed(node.rules, in)
    [] OTHER -> SetOf(node, in[1], IF Len(node.in) = 2 THEN in[2] ELSE NoRows)

InputsFrom(node, rows) == [i \in DOMAIN node.in |-> rows[node.in[i]]]

\* The rows of every node, those in `given` as they are there.
NodeRows(p, given, k, rows) ==
  IF k \in DOMAIN given THEN given[k] ELSE Materialize(p, k, InputsFrom(p[k], rows))
RowsOf(p, given) ==
  LET upTo[k \in 0..Len(p)] ==
        IF k = 0 THEN <<>>
        ELSE LET rows == upTo[k - 1]
             IN Tabled([i \in 1..k |-> IF i < k THEN rows[i] ELSE NodeRows(p, given, k, rows)])
  IN upTo[Len(p)]

InputNodes(p) == {k \in DOMAIN p : p[k].kind = "input"}
SetNodes(p)   == {k \in DOMAIN p : p[k].kind \in SetKinds}

\* What every node computes over the given source tables.
Evaluated(p, tables) == RowsOf(p, [k \in InputNodes(p) |-> tables[p[k].source]])

\* The rows of every node as a statement of a drain reads them: those of UNION and
\* DISTINCT are stored.
Stored(p, tables, counts) ==
  RowsOf(p, [k \in InputNodes(p) \cup SetNodes(p) |->
              IF k \in InputNodes(p) THEN tables[p[k].source] ELSE Support(counts[k])])
Live == Stored(plan, source, member)

\* The rows of a set node's inputs together: its counts do not tell them apart.
Together(p, k, rows) ==
  LET n == p[k].in IN IF Len(n) = 2 THEN Plus(rows[n[1]], rows[n[2]]) ELSE rows[n[1]]

-----------------------------------------------------------------------------
(* Before and after one node's turn.                                       *)

Touches(k, side) ==
  {KeyOf(plan[k], side, r) : r \in DOMAIN out[Inputs(k)[side]]}

\* Keys of every row of every input's delta.
SlipTouched(k) == Touches(k, 1)
Touched(k) == UNION {Touches(k, side) : side \in DOMAIN Inputs(k)}

TouchedRows(node, side, z, keys) == Where(z, LAMBDA r : KeyOf(node, side, r) \in keys)

\* An input before the batch: its current rows less its delta.
SlipFormer(k) == Positive(Plus(Live[k], out[k]))
Former(k) == Positive(Minus(Live[k], out[k]))

AfterRows(k) ==
  Materialize(plan, k, [side \in DOMAIN Inputs(k) |->
    TouchedRows(plan[k], side, Live[Inputs(k)[side]], Touched(k))])
BeforeRows(k) ==
  Materialize(plan, k, [side \in DOMAIN Inputs(k) |->
    TouchedRows(plan[k], side, Former(Inputs(k)[side]), Touched(k))])

\* An output that shows all its keys finds its former rows in the state.
ReadsState(k) ==
  k = Output /\ Kind(k) \in {"group", "limit"} /\ Members(plan[k].keys) \subseteq Members(plan[k].exprs)
ShownKey(node, r) ==
  Each(node.keys, LAMBDA e : r[CHOOSE i \in DOMAIN node.exprs : node.exprs[i] = e])
StoredRows(k) == Where(state, LAMBDA r : ShownKey(plan[k], r) \in Touched(k))

\* The first node from k on with a written input; the others are skipped.
IsTouched(k, o) == \E i \in DOMAIN Inputs(k) : o[Inputs(k)[i]] # NoRows
FirstDue(k, o) ==
  CHOOSE n \in k..(Output + 1) :
    /\ n = Output + 1 \/ IsTouched(n, o)
    /\ \A earlier \in k..(n - 1) : ~IsTouched(earlier, o)

\* dL * R + L * dR - dL * dR, both inputs already past the batch.
JoinDelta(node, l, r) ==
  LET pairs(x, y) == Inner(node, x, y)
  IN Minus(Plus(pairs(out[l], Live[r]), pairs(Live[l], out[r])), pairs(out[l], out[r]))

Arrangement(k) ==
  Kind(k) \in {"group", "limit", "window", "except", "intersect"}
    \/ (Kind(k) = "join" /\ plan[k].mode # "inner")

-----------------------------------------------------------------------------
Tables == [s \in SourceIds |-> NoRows]
NoDeltas == [k \in Nodes |-> NoRows]

\* CREATE populates every node from the tables as they are.  The population of
\* UNION ALL is wrong (OutTables): such a view starts over empty tables.
Init ==
  /\ view \in DOMAIN Queries
  /\ \E bound \in {Bind(Queries[view])} : bound.ok /\ plan = bound.nodes
  /\ source \in IF Has({"all"}) THEN {Tables} ELSE Contents
  /\ staged = Tables
  /\ LET rows == Evaluated(plan, source)
     IN /\ member = [k \in Nodes |-> IF Kind(k) \in SetKinds THEN Together(plan, k, rows) ELSE NoRows]
        /\ state = rows[Output]
  /\ out = NoDeltas
  /\ at = 0 /\ refused = FALSE

\* Rows of all sources together, whatever their sign.
Magnitude(n) == IF n < 0 THEN -n ELSE n
Weight(tables) ==
  LET rows == UNION {{s} \X (DOMAIN tables[s]) : s \in SourceIds}
  IN Total([p \in rows |-> Magnitude(tables[p[1]][p[2]])])

\* One row goes into or out of a source and its trigger stages it.
Write(s, r, d) ==
  /\ at = 0 /\ ~refused
  /\ \E k \in Nodes : Kind(k) = "input" /\ plan[k].source = s
  /\ At(source[s], r) + d >= 0 /\ (d = 1 => Weight(source) < MaxRows)
  /\ staged' = [staged EXCEPT ![s] = Plus(@, [row \in {r} |-> d])]
  /\ Weight(staged') =< MaxBatch
  /\ source' = [source EXCEPT ![s] = Plus(@, [row \in {r} |-> d])]
  /\ UNCHANGED <<view, plan, member, state, out, at, refused>>

\* A read or a commit: every input node of a source gets the source's rows.
StartDrain ==
  /\ at = 0 /\ ~refused
  /\ staged # Tables
  /\ ~Has({"fixpoint"}) \* Fixpoint models the drain of these
  /\ out' = [k \in Nodes |-> IF Kind(k) = "input" THEN staged[plan[k].source] ELSE NoRows]
  /\ staged' = Tables
  /\ at' = FirstDue(1, out')
  /\ UNCHANGED <<view, plan, source, member, state, refused>>

\* apply_state refuses a retraction of a row that is not stored that often.
Apply(z) ==
  IF \A r \in DOMAIN z : At(state, r) + z[r] >= 0
  THEN state' = Plus(state, z) /\ UNCHANGED refused
  ELSE refused' = TRUE /\ UNCHANGED state

\* The node's delta, applied at once when the node is the output.
Emit(z) ==
  /\ out' = [out EXCEPT ![at] = z]
  /\ IF at = Output /\ z # NoRows THEN Apply(z) ELSE UNCHANGED <<state, refused>>
  /\ at' = FirstDue(at + 1, out')
  /\ UNCHANGED <<view, plan, source, staged>>

Running(k) == at = k /\ ~refused

\* Map and UNION ALL rewrite the delta alone.
RunLinear ==
  /\ \E k \in Nodes : Running(k) /\ Kind(k) \in {"map", "all"}
  /\ Emit(Materialize(plan, at, InputsFrom(plan[at], out)))
  /\ UNCHANGED member

RunInnerJoin ==
  /\ \E k \in Nodes : Running(k) /\ Kind(k) = "join" /\ plan[k].mode = "inner"
  /\ Emit(JoinDelta(plan[at], Inputs(at)[1], Inputs(at)[2]))
  /\ UNCHANGED member

\* UNION and DISTINCT add the deltas to the support counts; the change of the
\* rows whose count is positive is the delta.
RunSet ==
  /\ \E k \in Nodes : Running(k) /\ Kind(k) \in SetKinds
  /\ member' = [member EXCEPT ![at] = Plus(@, Together(plan, at, out))]
  /\ Emit(Minus(Support(member'[at]), Support(member[at])))

\* Every other operator shows its touched keys before and after.
RunArrangement ==
  /\ \E k \in Nodes : Running(k) /\ Arrangement(k)
  /\ Emit(Minus(AfterRows(at), IF ReadsState(at) THEN StoredRows(at) ELSE BeforeRows(at)))
  /\ UNCHANGED member

EndDrain ==
  /\ at = Output + 1 /\ ~refused
  /\ out' = NoDeltas
  /\ at' = 0
  /\ UNCHANGED <<view, plan, source, staged, member, state, refused>>

Next ==
  \/ \E s \in SourceIds : \E r \in SourceRow[s] : \E d \in {-1, 1} : Write(s, r, d)
  \/ StartDrain \/ RunLinear \/ RunInnerJoin \/ RunSet \/ RunArrangement
  \/ EndDrain

Spec == Init /\ [][Next]_vars

-----------------------------------------------------------------------------
\* The source tables as the last drain saw them.
Drained == [s \in SourceIds |-> Minus(source[s], staged[s])]

\* Between drains the stored rows are what SQLite answers to the view's SELECT
\* over the sources without the staged rows: whatever the compiler made of the
\* SELECT, the batches and the drains between them.
ResultIsQuery == at = 0 => state = Reply(Queries[view], Drained)

\* The source tables as they were before the batch that is being drained.
Readers(p, s) == {k \in InputNodes(p) : p[k].source = s}
TakenBack(p, tables, deltas) ==
  [s \in SourceIds |->
    IF Readers(p, s) = {} THEN tables[s]
    ELSE Minus(tables[s], deltas[CHOOSE k \in Readers(p, s) : TRUE])]
Prior == TakenBack(plan, source, out)

\* A node whose turn is over has written exactly the change of its rows, though
\* every row it read was read from sources past the batch, from a stored set
\* table already updated, or by taking the batch away again.
DeltaIsChange ==
  at > 0 /\ ~refused =>
    \A now \in {Evaluated(plan, source)}, then \in {Evaluated(plan, Prior)} :
      \A k \in 1..(at - 1) : out[k] = Minus(now[k], then[k])

\* apply_state finds every row it is told to retract (src/1d_drain.rs:286).
ApplyNeverRefused == ~refused
=============================================================================
