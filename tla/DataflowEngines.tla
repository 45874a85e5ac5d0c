--------------------------- MODULE DataflowEngines ---------------------------
(***************************************************************************)
(* The two engines that hand a program to a dataflow library               *)
(* (crates/ivm-dd/src/2_dd.rs on differential dataflow, crates/ivm-dbsp on *)
(* DBSP) and their host (crates/ivm-engine/src/2_host.rs).  The library is *)
(* trusted to keep every collection at what a program makes of its inputs; *)
(* the engines' own are the dictionary their operators intern into while   *)
(* the circuit runs, the constructor rows fed back to it, the source guard *)
(* and the sums of the deltas.                                             *)
(*                                                                         *)
(* Node taps, counters, `Any` sums, declared constructors and the channels *)
(* to the worker thread, which answer one call at a time, are left out.    *)
(*                                                                         *)
(* An operator named Slip is the next one with a plausible mistake in it:  *)
(* nothing uses it, the runs are repeated with it in place of the original.*)
(***************************************************************************)
EXTENDS ProgramComposition
LOCAL INSTANCE FiniteSetsExt
LOCAL INSTANCE SequencesExt

CONSTANTS
  Installs,       \* records of an engine, "dd" or "dbsp", and the name of a program
  PartsOf(_),     \* the parts of the program of a name, with their prefixes
  Client(_),      \* the rows a client may give the sources of that program
  MaxFrontier,    \* bound: changes of one frontier
  Batches(_),     \* batches of terms it may intern
  MaxDictionary   \* bound: entries from which on a client interns no more

VARIABLES
  program, \* the install
  plan,    \* the composed program, its types, texts and terms, and the constructors it reads
  db,      \* what outlives a settle: source, dict, drained, inputs, outputs, over, gone
  phase,
  emitted, \* the changes of this settle, summed over its steps
  seen     \* the host's copy of the outputs, kept by adding them

vars == <<program, plan, db, phase, emitted, seen>>

P == plan.p

-----------------------------------------------------------------------------
(* Install.                                                                *)

\* Relations a LetRec's bodies read, through every input.
rec_inputs(p, rec) ==
  LET reached == Reached(p, Range(rec.bodies), LAMBDA k : p.nodes[k].in)
  IN {p.nodes[k].rel : k \in {j \in Range(reached) : p.nodes[j].op = "get"}}

\* Such a LetRec is its bodies, each row once.
letrec_shortcut(p, rec) == rec.nested = <<>> /\ rec_inputs(p, rec) \cap Range(rec.ids) = {}

\* One engine nests a LetRec in another and counts its evaluations, one does neither.
letrec_scope(rec) == \A inner \in Range(rec.nested) : inner.nested = <<>>
root_letrec(p, rec) == letrec_shortcut(p, rec) \/ (rec.nested = <<>> /\ rec.limit = 0)

LetRecs(p) == {s \in Range(p.strata) : s.recursive}
Bodies(rec) == Range(rec.bodies) \cup UNION {Range(inner.bodies) : inner \in IF rec.recursive THEN Range(rec.nested) ELSE {}}

installs(engine, p) ==
  /\ LiteralsFit(p)
  /\ \A rec \in LetRecs(p) : IF engine = "dd" THEN letrec_scope(rec) ELSE root_letrec(p, rec)

\* Constructors some operator reads.  One the rows of which are only decoded is
\* not; the child circuit of a LetRec imports it all the same.
Reads(engine, p) ==
  LET imported == IF engine = "dd" THEN {} ELSE {rec \in LetRecs(p) : ~letrec_shortcut(p, rec)}
      lowered == Needed(p, UNION {Bodies(s) : s \in Range(p.strata) \ imported}, engine)
  IN ({p.nodes[k].rel : k \in {j \in Range(lowered) : p.nodes[j].op = "get"}}
      \cup UNION {rec_inputs(p, rec) : rec \in imported}) \cap Constructors(p)

\* The empty text first, then the texts, then the terms.
Literal(p) == Literals(p, IF uses_strings(p) THEN mint(<<>>, Text(<<>>)) ELSE <<>>)

Built(engine, p, literal) ==
  [p |-> p, types |-> node_types(p), texts |-> literal.texts, terms |-> literal.terms, reads |-> Reads(engine, p)]

Nothing(rels) == [r \in rels |-> NoRows]

\* dict is the dictionary, of which `drained` entries have been handed to the
\* circuit; source is the guard's copy of the sources, inputs what was pushed into
\* the circuit, outputs its collections; over says that a LetRec passed its limit,
\* gone that the worker of the differential engine has ended.
Installed(p, literal) ==
  /\ plan = Built(program.engine, p, literal)
  /\ db = [source |-> [r \in Sources(p) |-> {}], dict |-> literal.dict, drained |-> 0,
           inputs |-> Nothing(Sources(p) \cup Constructors(p)), outputs |-> Nothing(Range(p.outputs)),
           over |-> FALSE, gone |-> FALSE]

Init ==
  /\ program \in Installs
  /\ \E composed \in {compose(PartsOf(program.name))} :
       /\ composed.ok /\ installs(program.engine, composed.p)
       /\ \E literal \in {Literal(composed.p)} : Installed(composed.p, literal)
  /\ phase = "waiting"
  /\ emitted = Nothing(Range(P.outputs)) /\ seen = emitted

-----------------------------------------------------------------------------
(* Settle.                                                                 *)

Change(rel, row, w) == [rel |-> rel, row |-> row, w |-> w]

\* The slip asks the sets alone, which the frontier has not reached yet.
SlipWeightAt(rows, pending, c) == IF c.row \in rows[c.rel] THEN 1 ELSE 0
\* The weight a change finds its row at: in the guard's sets and in the changes of
\* the frontier accepted so far.
WeightAt(rows, pending, c) == At(pending, <<c.rel, c.row>>) + (IF c.row \in rows[c.rel] THEN 1 ELSE 0)

\* Insert of a present row refuses the whole frontier, delete of an absent one does
\* nothing; the others are accepted, in the order of the frontier.
guard(rows, changes) ==
  LET admit(g, c) ==
        LET before == WeightAt(rows, g.pending, c)
        IN IF c.w > 0 /\ before > 0 THEN [g EXCEPT !.ok = FALSE]
           ELSE IF c.w < 0 /\ before <= 0 THEN g
           ELSE [g EXCEPT !.pending = Plus(@, [key \in {<<c.rel, c.row>>} |-> c.w]),
                          !.accepted = Append(@, c)]
  IN FoldLeft(LAMBDA g, c : IF g.ok THEN admit(g, c) ELSE g,
              [ok |-> TRUE, pending |-> NoRows, accepted |-> <<>>], changes)

\* The accepted changes go into the guard's sets one after the other,
Sourced(rows, accepted) ==
  FoldLeft(LAMBDA s, c : [s EXCEPT ![c.rel] = IF c.w > 0 THEN @ \cup {c.row} ELSE @ \ {c.row}], rows, accepted)

\* and into the circuit with their weights.
Pushed(z, accepted) ==
  FoldLeft(LAMBDA s, c : [s EXCEPT ![c.rel] = Plus(@, [r \in {c.row} |-> c.w])], z, accepted)

\* feed_pending: terms interned since enter the constructors some operator reads.
Pending(entries) ==
  [r \in plan.reads |-> snapshot(entries, P.rels[r].functor, (db.drained + 1)..Len(entries))]
SlipFed(z, entries) == [r \in DOMAIN z |-> IF r \in plan.reads THEN Pending(entries)[r] ELSE z[r]]
Fed(z, entries) == [r \in DOMAIN z |-> IF r \in plan.reads THEN Plus(z[r], Pending(entries)[r]) ELSE z[r]]

Settle(changes) ==
  /\ phase = "waiting"
  /\ \E g \in {guard(db.source, changes)} :
       IF g.ok /\ ~db.gone
       THEN /\ db' = [db EXCEPT !.source = Sourced(@, g.accepted), !.drained = Len(db.dict),
                               !.inputs = Fed(Pushed(@, g.accepted), db.dict)]
            /\ phase' = "step"
       ELSE UNCHANGED <<db, phase>>
  /\ UNCHANGED <<program, plan, emitted, seen>>

Reading == [engine |-> program.engine, dict |-> db.dict, texts |-> plan.texts, terms |-> plan.terms]

\* Whether what a step interned drives a further one.
SlipAgain(entries) == FALSE
Again(entries) == \E r \in plan.reads : Pending(entries)[r] # NoRows

\* One transaction of the circuit, at the end of which its outputs are read.
Step ==
  /\ phase = "step"
  /\ \E e \in {ProgramValue(P, plan.types, Reading, db.inputs)} :
       /\ db' = [db EXCEPT !.dict = e.dict, !.drained = Len(e.dict), !.inputs = Fed(@, e.dict),
                          !.outputs = [r \in DOMAIN @ |-> e.env[r]], !.over = @ \/ e.over]
       /\ emitted' = [r \in DOMAIN emitted |-> Plus(emitted[r], Minus(e.env[r], db.outputs[r]))]
       /\ phase' = IF Again(e.dict) THEN "step" ELSE "answering"
  /\ UNCHANGED <<program, plan, seen>>

\* The engine answers; Runtime.next hands the delta to the host, which adds it.
Answered ==
  /\ phase = "answering" /\ ~db.over
  /\ seen' = [r \in DOMAIN seen |-> Plus(seen[r], emitted[r])]
  /\ emitted' = Nothing(DOMAIN emitted) /\ phase' = "waiting"
  /\ UNCHANGED <<program, plan, db>>

\* Past its limit the differential engine answers with an error and ends.
LimitHit ==
  /\ phase = "answering" /\ db.over
  /\ db' = [db EXCEPT !.gone = TRUE]
  /\ phase' = "waiting"
  /\ UNCHANGED <<program, plan, emitted, seen>>

-----------------------------------------------------------------------------
(* Interning.                                                              *)

\* A batch may name its earlier terms.  One engine mints in order, the other
\* calls intern_terms once for every depth.
Earlier(i) == [kind |-> "term", v |-> i]

Depths(batch) ==
  LET D[i \in DOMAIN batch] ==
        LET named == {a.v : a \in {b \in Range(batch[i].args) : b.kind = "term"}}
        IN IF named = {} THEN 0 ELSE 1 + Greatest({D[j] : j \in named})
  IN D
BatchOrder(engine, batch) ==
  LET at(depth) == SelectSeq([i \in DOMAIN batch |-> i], LAMBDA i : Depths(batch)[i] = depth)
  IN IF engine = "dd" THEN [i \in DOMAIN batch |-> i] ELSE FlattenSeq([d \in 1..Len(batch) |-> at(d - 1)])

Minted(p, order, batch, entries) ==
  LET step(t, i) ==
        LET rel == p.rels[batch[i].functor]
            args == [j \in DOMAIN batch[i].args |->
                      LET a == batch[i].args[j] IN IF a.kind = "term" THEN t.given[a.v] ELSE a.v]
            e == Interned(t.dict, <<>>, <<Term(rel.functor, args, Tail(rel.cols))>>)
        IN [dict |-> e.dict, given |-> [t.given EXCEPT ![i] = e.out[1][1]]]
  IN FoldLeft(step, [dict |-> entries, given |-> [i \in DOMAIN batch |-> 0]], order)

\* Between settles: the constructor's rows hold the terms from the next settle on.
Intern(batch) ==
  /\ phase = "waiting" /\ ~db.gone /\ Len(db.dict) < MaxDictionary
  /\ db' = [db EXCEPT !.dict = Minted(P, BatchOrder(program.engine, batch), batch, @).dict]
  /\ UNCHANGED <<program, plan, phase, emitted, seen>>

-----------------------------------------------------------------------------

\* What a client may give: rows of atoms and of texts and terms that are there.
Told(r, row) == \A i \in DOMAIN row : P.rels[r].cols[i] = "int" \/ row[i] < 0 \/ Known(db.dict, row[i])
Frontiers ==
  LET rows(r) == {row \in Client(program.name)[r] : Told(r, row)}
      changes == UNION {{Change(r, row, w) : row \in rows(r), w \in {1, -1}} : r \in Sources(P)}
  IN UNION {[1..n -> changes] : n \in 0..MaxFrontier}

Running == Step \/ Answered \/ LimitHit

Next ==
  \/ \E changes \in Frontiers : Settle(changes)
  \/ Running
  \/ \E batch \in Batches(program.name) : Intern(batch)

-----------------------------------------------------------------------------
(* Properties, between settles.                                            *)

Sound == phase = "waiting" /\ ~db.gone

Counted(rows) == [r \in rows |-> 1]

\* The rows a part of the program stands for, over its own sources and every term
\* drained so far.
PartAnswer(part) ==
  LET literal == Literals(part.p, db.dict)
      reading == [engine |-> "none", dict |-> db.dict, texts |-> literal.texts, terms |-> literal.terms]
  IN Answer(part.p, node_types(part.p), reading,
            [r \in Sources(part.p) |-> Counted(db.source[Renamed(part, r)])], 1..db.drained)

\* Whatever the order of the frontiers and of the interning, the deltas add up to
\* what each part means by itself, and no operator has a term left to intern.
HostHasTheAnswer ==
  Sound => \A i \in DOMAIN PartsOf(program.name) :
    LET part == PartsOf(program.name)[i]
    IN \E a \in {PartAnswer(part)} :
         /\ a.complete /\ ~a.over
         /\ \A r \in DOMAIN a.rows : seen[Renamed(part, r)] = a.rows[r]

\* What the circuit was given adds up to one of every row of the guard's sets,
\* although those take each accepted change as a row that comes or goes and the
\* circuit as a weight, and to one of every term drained so far, whichever settle,
\* step or batch minted it.
InputsAreWhole ==
  Sound => /\ \A r \in Sources(P) : db.inputs[r] = Counted(db.source[r])
           /\ \A r \in plan.reads : db.inputs[r] = snapshot(db.dict, P.rels[r].functor, 1..db.drained)

=============================================================================
