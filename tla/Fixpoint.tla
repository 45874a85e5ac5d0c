------------------------------ MODULE Fixpoint ------------------------------
(***************************************************************************)
(* One WITH RECURSIVE node of a maintained view and the drain that keeps   *)
(* its member table right: population, then delete-and-rederive, one pass  *)
(* per touched input side, then the result rows (src/1d_drain.rs,          *)
(* src/1e_program.rs, src/1c_materialize.rs, src/1e_program.rs).           *)
(*                                                                         *)
(* Rules are grounded: a Clause is one instance of one rule, with the row  *)
(* it derives, the member it reads (a step reads exactly one, an anchor    *)
(* none) and the input rows it reads, each at its input side.  A statement *)
(* that runs to completion is one step; what runs in a loop is one step    *)
(* per iteration.  Rows one statement stores share a rowid: only           *)
(* comparisons with maxima taken between statements are ever made.         *)
(*                                                                         *)
(* An operator named Slip is the next one with a plausible mistake in it:  *)
(* nothing uses it, the runs are repeated with it in place of the original.*)
(***************************************************************************)
EXTENDS Integers, FiniteSets

CONSTANTS
  Row,          \* rows a member table can hold, exact cells
  Key,          \* Key[r]: the membership key of r, named by one row of its class
  Fact,         \* exact rows of the node's inputs
  Sides,        \* number of input sides, in the order a drain visits them
  Reads,        \* Reads[s]: the input rows side s can carry
  Rules,        \* number of rules, in the order population runs them
  Clause,       \* ground rule instances
  NoMember,     \* the member of a clause of an anchor
  MaxCopies,    \* bound: copies of one input row in its source
  RoundBudget,  \* BULK_ROUND_BUDGET
  MaxDrains,    \* bound: drains of one behaviour
  AnyBatch      \* FALSE: drains begin with orderly batches only

ASSUME ShapeAssumption ==
  /\ IsFiniteSet(Row) /\ Key \in [Row -> Row]
  /\ NoMember \notin Row
  /\ Sides \in Nat /\ Rules \in Nat /\ MaxCopies \in Nat
  /\ RoundBudget \in Nat /\ MaxDrains \in Nat /\ AnyBatch \in BOOLEAN
  /\ Reads \in [1..Sides -> SUBSET Fact]
  /\ Clause \subseteq [rule : 1..Rules, head : Row, member : Row \cup {NoMember},
                       body : SUBSET ((1..Sides) \X Fact)]
  /\ \A c \in Clause : \A p \in c.body : p[2] \in Reads[p[1]]
  \* Each side is pushed for one occurrence of one rule.
  /\ \A c \in Clause : \A p, q \in c.body : p[1] = q[1] => p = q

VARIABLES
  support,   \* copies of each input row in the sources now
  pending,   \* net copies staged since the last drain
  allId,     \* member table: rowid of each stored row, 0 when absent
  allSeq,    \* its AUTOINCREMENT high-water mark
  workId,    \* work table, likewise
  workSeq,
  deleted,   \* members the delete pass dropped, as stored
  gone,      \* -1 rows of the node's out table, counted per exact row
  come,      \* +1 rows, likewise
  result,    \* copies of each row in the view's state table
  phase,     \* where the drain or the population stands
  at,        \* the side, or during population the rule, being run
  start,     \* greatest member rowid when the side's pass began
  from,      \* lower bound of the rowid range of the next round
  departed,  \* the side's pass found rows that left
  rounds,    \* rounds of the current loop
  reading,   \* the drain serves a read, not a commit
  written,   \* a side's pass wrote to the out table
  partial,   \* a failed read left the writes of its drain behind
  drains,
  saved      \* what ROLLBACK restores

sources == <<support, pending>>
tables  == <<allId, allSeq, workId, workSeq, deleted, gone, come, result>>
control == <<at, start, from, departed, rounds, reading, written>>
txn     == <<partial, drains, saved>>
vars    == <<sources, tables, phase, control, txn>>

-----------------------------------------------------------------------------
(* Tables.                                                                 *)

Held(id) == {r \in Row : id[r] > 0}
all  == Held(allId)
work == Held(workId)

HasKey(M, r) == \E m \in M : Key[m] = Key[r]

\* hi is coalesce(max(rowid),0).
IsTop(id, hi) ==
  /\ \A r \in Row : id[r] <= hi
  /\ hi = 0 \/ \E r \in Row : id[r] = hi

InRange(id, lo, hi) == {r \in Row : lo < id[r] /\ id[r] <= hi}

\* What INSERT OR IGNORE of the rows H may store in a table that holds M:
\* one row per missing key, whichever the scan meets first.
SlipStores(M, H) == {H}
Stores(M, H) ==
  {N \in SUBSET H :
     /\ \A n \in N : ~HasKey(M, n)
     /\ \A h \in H : HasKey(M \cup N, h)
     /\ \A n, m \in N : Key[n] = Key[m] => n = m}

NextId(id, seq) == seq + 1

Insert(id, seq, N) == [r \in Row |-> IF r \in N THEN NextId(id, seq) ELSE id[r]]

SlipSeqAfter(id, seq, N) == seq
SeqAfter(id, seq, N) == IF N = {} THEN seq ELSE NextId(id, seq)

Drop(id, R) == [r \in Row |-> IF r \in R THEN 0 ELSE id[r]]

NoIds == [r \in Row |-> 0]

ClearWork == workId' = NoIds

SlipClearDeleted == UNCHANGED deleted
ClearDeleted == deleted' = {}

-----------------------------------------------------------------------------
(* Inputs of the drain: before-state reads subtract the pending delta.     *)

BeforeIn == {f \in Fact : support[f] - pending[f] > 0}
AfterIn  == {f \in Fact : support[f] > 0}

\* split_side: exact rows whose support crossed zero in this batch.
Left(s)    == {f \in Reads[s] : pending[f] < 0 /\ support[f] = 0}
Arrived(s) == {f \in Reads[s] : pending[f] > 0 /\ support[f] = pending[f]}
Touched(s) == \E f \in Reads[s] : pending[f] # 0

-----------------------------------------------------------------------------
(* Derivations.                                                            *)

ReadsMember(c, M) == c.member = NoMember \/ c.member \in M

Fires(c, I, M) == (\A p \in c.body : p[2] \in I) /\ ReadsMember(c, M)

\* The occurrence at side s reads the delta D, the other occurrences read I.
FiresAt(c, s, D, I, M) ==
  /\ \E f \in D : <<s, f>> \in c.body
  /\ \A p \in c.body : p[1] # s => p[2] \in I
  /\ ReadsMember(c, M)

HeadsOf(C) == {c.head : c \in C}

\* Semi-naive round: the member occurrence reads a rowid range M.
RoundHeads(I, M) == HeadsOf({c \in Clause : c.member \in M /\ Fires(c, I, M)})

SideHeads(s, D, I) == HeadsOf({c \in Clause : FiresAt(c, s, D, I, all)})

RuleHeads(k) == HeadsOf({c \in Clause : c.rule = k /\ Fires(c, AfterIn, all)})

\* only_present: heads that are members now.
SlipPresent(H, M) == H \cap M
Present(H, M) == {h \in H : HasKey(M, h)}

SlipRestorable(H) ==
  {w \in H : \E c \in Clause : c.member = NoMember /\ Fires(c, AfterIn, all) /\ c.head = w}
Restorable(H) ==
  {w \in H : \E c \in Clause : Fires(c, AfterIn, all) /\ Key[c.head] = Key[w]}

-----------------------------------------------------------------------------
Snapshot ==
  [support |-> support, allId |-> allId, allSeq |-> allSeq, workId |-> workId,
   workSeq |-> workSeq, deleted |-> deleted, gone |-> gone, come |-> come,
   result |-> result, partial |-> partial]

Zero == [r \in Row |-> 0]

NoView(s) ==
  [support |-> s, allId |-> NoIds, allSeq |-> 0, workId |-> NoIds, workSeq |-> 0,
   deleted |-> {}, gone |-> Zero, come |-> Zero, result |-> Zero, partial |-> FALSE]

Init ==
  /\ support \in [Fact -> 0..MaxCopies]
  /\ pending = [f \in Fact |-> 0]
  /\ allId = NoIds /\ allSeq = 0 /\ workId = NoIds /\ workSeq = 0
  /\ deleted = {} /\ gone = Zero /\ come = Zero /\ result = Zero
  /\ phase = "absent"
  /\ at = 0 /\ start = 0 /\ from = 0 /\ departed = FALSE /\ rounds = 0
  /\ reading = FALSE /\ written = FALSE /\ partial = FALSE /\ drains = 0
  /\ saved = NoView(support)
-----------------------------------------------------------------------------
(* Population at CREATE VIRTUAL TABLE: every rule once over the whole      *)
(* member table, then rounds, then the members become the result rows.     *)

NoLocals == at' = 0 /\ start' = 0 /\ from' = 0 /\ departed' = FALSE
            /\ rounds' = 0 /\ reading' = FALSE /\ written' = FALSE

Create ==
  /\ phase = "absent"
  /\ phase' = "anchor" /\ at' = 1
  /\ UNCHANGED <<sources, tables, txn, start, from, departed, rounds, reading, written>>

Anchor ==
  /\ phase = "anchor" /\ at <= Rules
  /\ \E N \in Stores(all, RuleHeads(at)) :
       /\ allId' = Insert(allId, allSeq, N)
       /\ allSeq' = SeqAfter(allId, allSeq, N)
  /\ at' = at + 1
  /\ UNCHANGED <<sources, workId, workSeq, deleted, gone, come, result, phase,
                 start, from, departed, rounds, reading, written, txn>>

AnchorsDone ==
  /\ phase = "anchor" /\ at > Rules
  /\ phase' = "populate" /\ at' = 0
  /\ UNCHANGED <<sources, tables, txn, start, from, departed, rounds, reading, written>>

PopulateRound ==
  /\ phase = "populate" /\ rounds < RoundBudget
  /\ \E hi \in 0..allSeq :
       /\ IsTop(allId, hi) /\ hi # from
       /\ \E N \in Stores(all, RoundHeads(AfterIn, InRange(allId, from, hi))) :
            /\ N # {}
            /\ allId' = Insert(allId, allSeq, N)
            /\ allSeq' = SeqAfter(allId, allSeq, N)
       /\ from' = hi
  /\ rounds' = rounds + 1
  /\ UNCHANGED <<sources, workId, workSeq, deleted, gone, come, result, phase,
                 at, start, departed, reading, written, txn>>

Populated ==
  /\ phase = "populate" /\ rounds < RoundBudget
  /\ \E hi \in 0..allSeq :
       /\ IsTop(allId, hi)
       /\ \/ hi = from
          \/ {} \in Stores(all, RoundHeads(AfterIn, InRange(allId, from, hi)))
  /\ result' = [r \in Row |-> IF r \in all THEN 1 ELSE 0]
  /\ phase' = "idle" /\ NoLocals
  /\ saved' = [Snapshot EXCEPT !.result = result']
  /\ UNCHANGED <<sources, allId, allSeq, workId, workSeq, deleted, gone, come,
                 partial, drains>>

\* "fixpoint closure round budget exceeded": the CREATE is undone.
PopulateFails ==
  /\ phase = "populate" /\ rounds >= RoundBudget
  /\ allId' = NoIds /\ allSeq' = 0
  /\ phase' = "absent" /\ NoLocals
  /\ UNCHANGED <<sources, workId, workSeq, deleted, gone, come, result, txn>>

-----------------------------------------------------------------------------
(* The host's transaction.                                                 *)

\* One copy of an input row is inserted or deleted; the source hook stages it.
Write(f, d) ==
  /\ phase = "idle"
  /\ support[f] + d \in 0..MaxCopies
  /\ support' = [support EXCEPT ![f] = @ + d]
  /\ pending' = [pending EXCEPT ![f] = @ + d]
  /\ UNCHANGED <<tables, phase, control, txn>>

Staged == \E f \in Fact : pending[f] # 0

\* Batches whose sides cannot read one another's unfinished work: nothing
\* arrives, or the first touched side is the only one anything left.
Orderly ==
  (\E s \in 1..Sides : Arrived(s) # {}) =>
    \A s \in 1..Sides : Left(s) # {} => \A t \in 1..(s - 1) : ~Touched(t)

\* xOpen (a read) or xSync (a commit) with staged rows drains them.
StartDrain(read) ==
  /\ phase = "idle" /\ Staged /\ drains < MaxDrains
  /\ ~AnyBatch => Orderly
  /\ phase' = "side" /\ at' = 1 /\ reading' = read
  /\ drains' = drains + 1
  /\ UNCHANGED <<sources, tables, start, from, departed, rounds, written, partial,
                 saved>>

\* COMMIT with nothing staged since the last read.
Commit ==
  /\ phase = "idle" /\ ~Staged /\ saved # Snapshot
  /\ saved' = Snapshot
  /\ UNCHANGED <<sources, tables, phase, control, partial, drains>>

\* Maintained state kept outside the transaction.
SlipRestored ==
  /\ support' = saved.support /\ pending' = [f \in Fact |-> 0]
  /\ partial' = saved.partial /\ UNCHANGED tables
Restored ==
  /\ support' = saved.support /\ pending' = [f \in Fact |-> 0]
  /\ allId' = saved.allId /\ allSeq' = saved.allSeq
  /\ workId' = saved.workId /\ workSeq' = saved.workSeq
  /\ deleted' = saved.deleted /\ gone' = saved.gone /\ come' = saved.come
  /\ result' = saved.result /\ partial' = saved.partial

Rollback ==
  /\ phase = "idle"
  /\ Restored
  /\ UNCHANGED <<phase, control, drains, saved>>

-----------------------------------------------------------------------------
(* The drain of the node, side by side (drain_fixpoint, fixpoint).         *)

SkipSide ==
  /\ phase = "side" /\ at <= Sides /\ ~Touched(at)
  /\ at' = at + 1
  /\ UNCHANGED <<sources, tables, phase, start, from, departed, rounds, reading, written, txn>>

\* Nothing left this side: its pass starts at the arrivals.
StartArrivals ==
  /\ phase = "side" /\ at <= Sides /\ Touched(at) /\ Left(at) = {}
  /\ \E top \in 0..allSeq : IsTop(allId, top) /\ start' = top
  /\ departed' = FALSE
  /\ phase' = "arrive"
  /\ UNCHANGED <<sources, tables, at, from, rounds, reading, written, txn>>

\* Rows left: clear the scratch, derive from them the members to delete.
StartDepartures ==
  /\ phase = "side" /\ at <= Sides /\ Left(at) # {}
  /\ \E top \in 0..allSeq : IsTop(allId, top) /\ start' = top
  /\ departed' = TRUE
  /\ ClearDeleted
  /\ \E N \in Stores({}, Present(SideHeads(at, Left(at), BeforeIn), all)) :
       /\ workId' = Insert(NoIds, workSeq, N)
       /\ workSeq' = SeqAfter(NoIds, workSeq, N)
  /\ from' = 0 /\ rounds' = 0
  /\ phase' = "delete"
  /\ UNCHANGED <<sources, allId, allSeq, gone, come, result, at, reading, written, txn>>

\* One round: park and drop the members of the range, derive what they reached.
DeleteRound ==
  /\ phase = "delete" /\ rounds < RoundBudget
  /\ \E hi \in 0..workSeq :
       /\ IsTop(workId, hi) /\ hi # from
       /\ LET range == InRange(workId, from, hi)
              dropped == {r \in all : HasKey(range, r)}
          IN /\ deleted' = deleted \cup dropped
             /\ allId' = Drop(allId, dropped)
             /\ \E N \in Stores(work, Present(RoundHeads(BeforeIn, range),
                                              all \ dropped)) :
                  /\ workId' = Insert(workId, workSeq, N)
                  /\ workSeq' = SeqAfter(workId, workSeq, N)
       /\ from' = hi
  /\ rounds' = rounds + 1
  /\ UNCHANGED <<sources, allSeq, gone, come, result, phase, at, start, departed,
                 reading, written, txn>>

\* The delete rounds ended: members of the work table another rule still
\* derives come back, under fresh rowids.
Restore ==
  /\ phase = "delete" /\ rounds < RoundBudget
  /\ IsTop(workId, from)
  /\ \E top \in 0..allSeq : IsTop(allId, top) /\ from' = top
  /\ \E N \in Stores(all, Restorable(work)) :
       /\ allId' = Insert(allId, allSeq, N)
       /\ allSeq' = SeqAfter(allId, allSeq, N)
  /\ rounds' = 0
  /\ phase' = "restored"
  /\ UNCHANGED <<sources, workId, workSeq, deleted, gone, come, result, at, start,
                 departed, reading, written, txn>>

\* The lower bound stays where it was and nobody counts the rounds.
SlipDeriveRound ==
  /\ phase \in {"restored", "arrived"}
  /\ \E hi \in 0..allSeq :
       /\ IsTop(allId, hi) /\ hi # from
       /\ \E N \in Stores(all, RoundHeads(AfterIn, InRange(allId, from, hi))) :
            /\ allId' = Insert(allId, allSeq, N)
            /\ allSeq' = SeqAfter(allId, allSeq, N)
  /\ UNCHANGED <<sources, workId, workSeq, deleted, gone, come, result, phase, control,
                 txn>>

\* The closure `rounds`, after the restore and again after the arrivals.
DeriveRound ==
  /\ phase \in {"restored", "arrived"} /\ rounds < RoundBudget
  /\ \E hi \in 0..allSeq :
       /\ IsTop(allId, hi) /\ hi # from
       /\ \E N \in Stores(all, RoundHeads(AfterIn, InRange(allId, from, hi))) :
            /\ allId' = Insert(allId, allSeq, N)
            /\ allSeq' = SeqAfter(allId, allSeq, N)
       /\ from' = hi
  /\ rounds' = rounds + 1
  /\ UNCHANGED <<sources, workId, workSeq, deleted, gone, come, result, phase, at,
                 start, departed, reading, written, txn>>

RestoreDone ==
  /\ phase = "restored" /\ rounds < RoundBudget
  /\ IsTop(allId, from)
  /\ ClearWork
  /\ phase' = "arrive"
  /\ UNCHANGED <<sources, allId, allSeq, workSeq, deleted, gone, come, result,
                 control, txn>>

Arrive ==
  /\ phase = "arrive"
  /\ \E N \in Stores(all, SideHeads(at, Arrived(at), AfterIn)) :
       /\ allId' = Insert(allId, allSeq, N)
       /\ allSeq' = SeqAfter(allId, allSeq, N)
  /\ from' = start /\ rounds' = 0
  /\ phase' = "arrived"
  /\ UNCHANGED <<sources, workId, workSeq, deleted, gone, come, result, at, start,
                 departed, reading, written, txn>>

\* retract_gone, emit_stored, emit_fresh, and seed_new when nothing left.
Fresh    == {r \in Row : allId[r] > start}
SlipRetracts == IF departed THEN deleted ELSE {}
Retracts == IF departed THEN deleted \ all ELSE {}
Replaced == {r \in all : \E d \in deleted : Key[d] = Key[r] /\ d # r}
\* A member stored again as another row of its key is not emitted.
SlipEmitsFresh == IF departed THEN {r \in Fresh : ~HasKey(deleted, r)} ELSE Fresh
Emits ==
  IF departed THEN Replaced \cup {r \in Fresh : ~HasKey(deleted, r)} ELSE Fresh

CountIn(bag, R) == [r \in Row |-> IF r \in R THEN bag[r] + 1 ELSE bag[r]]

\* The side's pass ends: its delta goes to the out table.
Emit ==
  /\ phase = "arrived" /\ rounds < RoundBudget
  /\ IsTop(allId, from)
  /\ gone' = CountIn(gone, Retracts)
  /\ come' = CountIn(come, Emits)
  /\ IF departed THEN ClearDeleted ELSE UNCHANGED deleted
  /\ at' = at + 1
  /\ start' = 0 /\ from' = 0 /\ departed' = FALSE /\ rounds' = 0
  /\ written' = (written \/ Retracts \cup Emits # {})
  /\ phase' = "side"
  /\ UNCHANGED <<sources, allId, allSeq, workId, workSeq, result, reading, txn>>

-----------------------------------------------------------------------------
(* The end of the drain.                                                   *)

Applicable == written => \A r \in Row : gone[r] <= result[r]

\* apply_state and the sweep, when the drain wrote anything; a commit becomes
\* what ROLLBACK restores.
Apply ==
  /\ phase = "side" /\ at > Sides /\ Applicable
  /\ ClearWork
  /\ IF written
     THEN /\ result' = [r \in Row |-> result[r] - gone[r] + come[r]]
          /\ gone' = Zero /\ come' = Zero
     ELSE UNCHANGED <<result, gone, come>>
  /\ pending' = [f \in Fact |-> 0]
  /\ phase' = "idle" /\ NoLocals
  /\ saved' = IF reading THEN saved
              ELSE [Snapshot EXCEPT !.workId = workId', !.result = result',
                                    !.gone = gone', !.come = come']
  /\ UNCHANGED <<support, allId, allSeq, workSeq, deleted, partial, drains>>

Budgeted == {"delete", "restored", "arrived"}

\* "fixpoint closure round budget exceeded", "missing result multiplicity".
Fails ==
  \/ phase \in Budgeted /\ rounds >= RoundBudget
  \/ phase = "side" /\ at > Sides /\ ~Applicable

\* xSync reports the error: SQLite rolls the transaction back.
CommitFails ==
  /\ Fails /\ ~reading
  /\ Restored
  /\ phase' = "idle" /\ NoLocals
  /\ UNCHANGED <<drains, saved>>

\* xOpen reports the error: a SELECT has no statement journal, the writes
\* its drain already made stay (apply_state's retractions too), and the
\* staged rows are consumed.
ReadFails ==
  /\ Fails /\ reading
  /\ IF phase = "side"
     THEN /\ ClearWork
          /\ result' = [r \in Row |-> IF gone[r] <= result[r]
                                      THEN result[r] - gone[r] ELSE 0]
     ELSE UNCHANGED <<workId, result>>
  /\ pending' = [f \in Fact |-> 0]
  /\ partial' = TRUE
  /\ phase' = "idle" /\ NoLocals
  /\ UNCHANGED <<support, allId, allSeq, workSeq, deleted, gone, come,
                 drains, saved>>

DrainStep ==
  \/ SkipSide \/ StartArrivals \/ StartDepartures
  \/ DeleteRound \/ Restore \/ DeriveRound \/ RestoreDone
  \/ Arrive \/ Emit \/ Apply \/ CommitFails \/ ReadFails

Next ==
  \/ Create \/ Anchor \/ AnchorsDone \/ PopulateRound \/ Populated \/ PopulateFails
  \/ \E f \in Fact : \E d \in {-1, 1} : Write(f, d)
  \/ \E read \in BOOLEAN : StartDrain(read)
  \/ Commit \/ Rollback
  \/ DrainStep

Spec == Init /\ [][Next]_vars

\* A statement of the host, once begun, runs: nothing waits on another actor.
PopulateStep == Anchor \/ AnchorsDone \/ PopulateRound \/ Populated \/ PopulateFails
FairSpec == Spec /\ WF_vars(PopulateStep \/ DrainStep)

-----------------------------------------------------------------------------
(* What the member table should hold.                                      *)

\* The recursive query over the inputs I: from no rows, the heads of every rule
\* that fires, as many times as there are rows.
Lfp(I) ==
  LET Closure[n \in 0..Cardinality(Row)] ==
        IF n = 0 THEN {}
        ELSE LET S == Closure[n - 1]
             IN  S \cup HeadsOf({c \in Clause : Fires(c, I, S)})
  IN  Closure[Cardinality(Row)]

KeysOf(M) == {Key[r] : r \in M}

SourcesOK ==
  /\ support \in [Fact -> 0..MaxCopies]
  /\ pending \in [Fact -> Int]
  /\ \A f \in Fact : support[f] - pending[f] \in 0..MaxCopies

MembersOK ==
  /\ allId \in [Row -> Nat] /\ allSeq \in Nat
  /\ \A r \in Row : allId[r] <= allSeq

WorkOK ==
  /\ workId \in [Row -> Nat] /\ workSeq \in Nat
  /\ \A r \in Row : workId[r] <= workSeq

OutOK ==
  /\ deleted \subseteq Row
  /\ gone \in [Row -> Nat] /\ come \in [Row -> Nat] /\ result \in [Row -> Nat]

ControlOK ==
  /\ phase \in {"absent", "anchor", "populate", "idle", "side", "delete",
                "restored", "arrive", "arrived"}
  /\ at \in Nat /\ start \in Nat /\ from \in Nat /\ rounds \in Nat /\ drains \in Nat

FlagsOK == /\ departed \in BOOLEAN /\ reading \in BOOLEAN
           /\ written \in BOOLEAN /\ partial \in BOOLEAN

SavedOK ==
  /\ saved \in [support : [Fact -> 0..MaxCopies], allId : [Row -> Nat], allSeq : Nat,
                workId : [Row -> Nat], workSeq : Nat, deleted : SUBSET Row,
                gone : [Row -> Nat], come : [Row -> Nat], result : [Row -> Nat],
                partial : BOOLEAN]
  /\ \A r \in Row : saved.allId[r] <= saved.allSeq /\ saved.workId[r] <= saved.workSeq

\* Types, and rowids never above their AUTOINCREMENT mark.
TypeOK ==
  SourcesOK /\ MembersOK /\ WorkOK /\ OutOK /\ ControlOK /\ FlagsOK /\ SavedOK

Settled == phase = "idle" /\ ~partial

\* Between drains the members are, up to key equality, exactly what the
\* recursive query derives from the inputs of the last drain: delete and
\* rederive leaves no stale member, whatever cycle supported it.
MembersAreLeastFixpoint == Settled => KeysOf(all) = KeysOf(Lfp(BeforeIn))

\* Between drains no derivable member is missing, whatever batches were drained.
NoMemberLost == Settled => KeysOf(Lfp(BeforeIn)) \subseteq KeysOf(all)

\* Between drains the view's rows are the stored members, each once: the
\* deltas the passes emitted (retract_gone, emit_stored, emit_fresh, seed_new)
\* add up to the difference the drain made.
ResultIsMembers == Settled => result = [r \in Row |-> IF r \in all THEN 1 ELSE 0]

\* A drain never retracts a row the state table lacks, so apply_state never
\* refuses a legal transaction with "missing result multiplicity".
ApplyNeverRefused == phase = "side" /\ at > Sides /\ ~partial => Applicable

\* Between drains the scratch tables are empty ("its work table is cleared
\* after the drain") and nothing is left in the out table to be applied twice.
ScratchIsEmpty == Settled => work = {} /\ deleted = {} /\ gone = Zero /\ come = Zero

\* No loop runs more rounds than one per row and the one that finds nothing,
\* so BULK_ROUND_BUDGET can only stop a drain that derives that many rows.
RoundsAreBounded == rounds <= Cardinality(Row) + 1

\* The CREATE, read or commit that populates or drains returns, every staged
\* row consumed, whatever its batch and whether its loops converge or fail.
StatementReturns == phase \notin {"absent", "idle"} ~> phase \in {"absent", "idle"} /\ ~Staged

\* The state table as its reader sees it, by key; absent until populated.
Shown ==
  IF phase \in {"absent", "anchor", "populate"} THEN {<<>>}
  ELSE {<<Key[r], result[r]>> : r \in {q \in Row : result[q] > 0}}

RecursiveQuery(src) == {<<k, 1>> : k \in KeysOf(Lfp({f \in Fact : src[f] > 0}))}

\* The drain, its rounds and its emitted deltas hidden, is a view that shows
\* the recursive query over the sources at every read and every commit, and
\* goes back with them on rollback.
View == INSTANCE IncrementalView WITH
  Query <- RecursiveQuery, Uninstalled <- {<<>>},
  src <- support, committed <- saved.support, view <- Shown
ImplementsView == View!ViewSpec
=============================================================================
