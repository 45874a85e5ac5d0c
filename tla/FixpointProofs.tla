--------------------------- MODULE FixpointProofs ---------------------------
(***************************************************************************)
(* What the drain of a recursive node guarantees for every set of rules,   *)
(* rows and inputs.  First its tables and its rounds; then the member      *)
(* table against the rules it stands for.  Closed: no member is missing,   *)
(* for any batch.  Supported: no member is stale, for orderly batches.     *)
(* From both, the members are the least fixpoint between drains; when keys *)
(* tell rows apart no drain is refused, and the node implements the        *)
(* abstract view.                                                          *)
(***************************************************************************)
EXTENDS Fixpoint, FiniteSetTheorems, WellFoundedInduction, TLAPS

-----------------------------------------------------------------------------
(* Tables.                                                                 *)

\* INSERT hands out rowids above the AUTOINCREMENT mark and moves the mark.
LEMMA InsertType ==
  ASSUME NEW id \in [Row -> Nat], NEW seq \in Nat, \A r \in Row : id[r] <= seq,
         NEW N
  PROVE  /\ Insert(id, seq, N) \in [Row -> Nat]
         /\ SeqAfter(id, seq, N) \in Nat
         /\ \A r \in Row : Insert(id, seq, N)[r] <= SeqAfter(id, seq, N)
BY DEF Insert, SeqAfter, NextId

\* Dropping rows keeps the rowids of the others.
LEMMA DropType ==
  ASSUME NEW id \in [Row -> Nat], NEW seq \in Nat, \A r \in Row : id[r] <= seq,
         NEW R
  PROVE  /\ Drop(id, R) \in [Row -> Nat]
         /\ \A r \in Row : Drop(id, R)[r] <= seq
BY DEF Drop

\* Empty tables are tables.
LEMMA EmptyType == /\ NoIds \in [Row -> Nat] /\ Zero \in [Row -> Nat]
                   /\ \A r \in Row : NoIds[r] = 0
BY DEF NoIds, Zero

\* Counting emitted rows keeps the counters natural.
LEMMA CountType ==
  ASSUME NEW bag \in [Row -> Nat], NEW R
  PROVE  CountIn(bag, R) \in [Row -> Nat]
BY DEF CountIn

-----------------------------------------------------------------------------
(* Type correctness, one part of the state at a time.                      *)

\* The tables start empty.
LEMMA InitType == Init => TypeOK
<1> SUFFICES ASSUME Init PROVE TypeOK
  OBVIOUS
<1>1. SourcesOK
  BY ShapeAssumption DEF ShapeAssumption, Init, SourcesOK
<1>2. MembersOK /\ WorkOK /\ OutOK
  BY EmptyType DEF Init, MembersOK, WorkOK, OutOK
<1>3. ControlOK
  BY DEF Init, ControlOK
<1>4. FlagsOK
  BY Zenon DEF Init, FlagsOK
<1>5. SavedOK
  BY <1>1, EmptyType DEF Init, NoView, SavedOK, SourcesOK
<1> QED BY <1>1, <1>2, <1>3, <1>4, <1>5 DEF TypeOK

\* A write moves the support and the staged delta together.
LEMMA SourcesType == ASSUME TypeOK, [Next]_vars PROVE SourcesOK'
<1>1. CASE \E f \in Fact : \E d \in {-1, 1} : Write(f, d)
  BY <1>1 DEF TypeOK, SourcesOK, Write
<1>2. CASE Rollback \/ CommitFails
  BY <1>2 DEF TypeOK, SourcesOK, SavedOK, Rollback, CommitFails, Restored
<1>3. CASE Apply \/ ReadFails
  BY <1>3 DEF TypeOK, SourcesOK, Apply, ReadFails
<1>4. CASE UNCHANGED sources
  BY <1>4 DEF TypeOK, SourcesOK, sources
<1> QED
  BY <1>1, <1>2, <1>3, <1>4
  DEF Next, DrainStep, vars, Create, Anchor, AnchorsDone, PopulateRound, Populated,
      PopulateFails, StartDrain, Commit, SkipSide, StartArrivals, StartDepartures,
      DeleteRound, Restore, DeriveRound, RestoreDone, Arrive, Emit

\* A statement that stores members stores them under fresh rowids.
LEMMA MembersType == ASSUME TypeOK, [Next]_vars PROVE MembersOK'
<1>1. ASSUME NEW N, allId' = Insert(allId, allSeq, N), allSeq' = SeqAfter(allId, allSeq, N)
      PROVE  MembersOK'
  BY <1>1, InsertType DEF TypeOK, MembersOK
<1>2. CASE Anchor
  BY <1>1, <1>2 DEF Anchor
<1>3. CASE PopulateRound
  BY <1>1, <1>3 DEF PopulateRound
<1>4. CASE Restore
  BY <1>1, <1>4 DEF Restore
<1>5. CASE DeriveRound
  BY <1>1, <1>5 DEF DeriveRound
<1>6. CASE Arrive
  BY <1>1, <1>6 DEF Arrive
<1>7. CASE DeleteRound
  <2>1. PICK R : allId' = Drop(allId, R) /\ allSeq' = allSeq
    BY <1>7 DEF DeleteRound
  <2> QED BY <2>1, DropType DEF TypeOK, MembersOK
<1>8. CASE PopulateFails
  BY <1>8, EmptyType DEF MembersOK, PopulateFails
<1>9. CASE Rollback \/ CommitFails
  BY <1>9 DEF TypeOK, MembersOK, SavedOK, Rollback, CommitFails, Restored
<1>10. CASE UNCHANGED <<allId, allSeq>>
  BY <1>10 DEF TypeOK, MembersOK
<1> QED
  BY <1>2, <1>3, <1>4, <1>5, <1>6, <1>7, <1>8, <1>9, <1>10
  DEF Next, DrainStep, vars, tables, Create, AnchorsDone, Populated, Write, StartDrain,
      Commit, SkipSide, StartArrivals, StartDepartures, RestoreDone, Emit, Apply, ReadFails

\* The work table restarts from nothing at each pass, its mark does not.
LEMMA WorkType == ASSUME TypeOK, [Next]_vars PROVE WorkOK'
<1>1. CASE StartDepartures
  <2>1. PICK N : workId' = Insert(NoIds, workSeq, N) /\ workSeq' = SeqAfter(NoIds, workSeq, N)
    BY <1>1 DEF StartDepartures
  <2>2. workSeq \in Nat
    BY DEF TypeOK, WorkOK
  <2>3. \A r \in Row : NoIds[r] <= workSeq
    BY <2>2, EmptyType
  <2> QED BY <2>1, <2>2, <2>3, EmptyType, InsertType DEF WorkOK
<1>2. CASE DeleteRound
  <2>1. PICK N : workId' = Insert(workId, workSeq, N) /\ workSeq' = SeqAfter(workId, workSeq, N)
    BY <1>2 DEF DeleteRound
  <2> QED BY <2>1, InsertType DEF TypeOK, WorkOK
<1>3. CASE RestoreDone \/ Apply
  BY <1>3, EmptyType DEF TypeOK, WorkOK, RestoreDone, Apply, ClearWork
<1>4. CASE ReadFails
  <2>1. workSeq' = workSeq /\ (workId' = NoIds \/ workId' = workId)
    BY <1>4 DEF ReadFails, ClearWork
  <2> QED BY <2>1, EmptyType DEF TypeOK, WorkOK
<1>5. CASE Rollback \/ CommitFails
  BY <1>5 DEF TypeOK, WorkOK, SavedOK, Rollback, CommitFails, Restored
<1>6. CASE UNCHANGED <<workId, workSeq>>
  BY <1>6 DEF TypeOK, WorkOK
<1> QED
  BY <1>1, <1>2, <1>3, <1>4, <1>5, <1>6
  DEF Next, DrainStep, vars, tables, Create, Anchor, AnchorsDone, PopulateRound, Populated,
      PopulateFails, Write, StartDrain, Commit, SkipSide, StartArrivals, Restore,
      DeriveRound, Arrive, Emit

\* The out table and the result table only ever hold natural counts: apply
\* subtracts retractions only where the state table has them.
LEMMA OutType == ASSUME TypeOK, [Next]_vars PROVE OutOK'
<1>1. CASE StartDepartures
  BY <1>1 DEF TypeOK, OutOK, StartDepartures, ClearDeleted
<1>2. CASE DeleteRound
  <2>1. PICK R : deleted' = deleted \cup {r \in all : HasKey(R, r)}
    BY <1>2 DEF DeleteRound
  <2>2. UNCHANGED <<gone, come, result>>
    BY <1>2 DEF DeleteRound
  <2> QED BY <2>1, <2>2 DEF TypeOK, OutOK, all, Held
<1>3. CASE Emit
  <2>1. deleted' \subseteq Row
    BY <1>3 DEF TypeOK, OutOK, Emit, ClearDeleted
  <2>2. UNCHANGED result
    BY <1>3 DEF Emit
  <2> QED BY <1>3, <2>1, <2>2, CountType DEF TypeOK, OutOK, Emit
<1>4. CASE Apply
  <2>1. CASE written
    <3>1. /\ result' = [r \in Row |-> result[r] - gone[r] + come[r]]
          /\ gone' = Zero /\ come' = Zero /\ deleted' = deleted
          /\ \A r \in Row : gone[r] <= result[r]
      BY <1>4, <2>1, Zenon DEF Apply, Applicable
    <3> QED BY <3>1, EmptyType DEF TypeOK, OutOK
  <2>2. CASE ~written
    <3>1. UNCHANGED <<deleted, gone, come, result>>
      BY <1>4, <2>2, Zenon DEF Apply
    <3> QED BY <3>1 DEF TypeOK, OutOK
  <2> QED BY <2>1, <2>2
<1>5. CASE ReadFails
  <2>1. UNCHANGED <<deleted, gone, come>>
    BY <1>5 DEF ReadFails
  <2>2. \/ result' = [r \in Row |-> IF gone[r] <= result[r] THEN result[r] - gone[r] ELSE 0]
        \/ result' = result
    BY <1>5 DEF ReadFails
  <2> QED BY <2>1, <2>2 DEF TypeOK, OutOK
<1>6. CASE Rollback \/ CommitFails
  BY <1>6 DEF TypeOK, OutOK, SavedOK, Rollback, CommitFails, Restored
<1>7. CASE Populated
  BY <1>7 DEF TypeOK, OutOK, Populated
<1>8. CASE UNCHANGED <<deleted, gone, come, result>>
  BY <1>8 DEF TypeOK, OutOK
<1> QED
  BY <1>1, <1>2, <1>3, <1>4, <1>5, <1>6, <1>7, <1>8
  DEF Next, DrainStep, vars, tables, Create, Anchor, AnchorsDone, PopulateRound,
      PopulateFails, Write, StartDrain, Commit, SkipSide, StartArrivals, Restore,
      DeriveRound, RestoreDone, Arrive

\* Sides, rounds and rowid bounds are naturals.
LEMMA ControlType == ASSUME TypeOK, [Next]_vars PROVE ControlOK'
<1> USE DEF TypeOK, ControlOK
<1>1. CASE Create \/ Anchor \/ AnchorsDone
  BY <1>1 DEF Create, Anchor, AnchorsDone, txn
<1>2. CASE PopulateRound \/ Populated \/ PopulateFails
  BY <1>2 DEF PopulateRound, Populated, PopulateFails, NoLocals, txn, MembersOK
<1>3. CASE \E f \in Fact : \E d \in {-1, 1} : Write(f, d)
  BY <1>3 DEF Write, control, txn
<1>4. CASE \E read \in BOOLEAN : StartDrain(read)
  BY <1>4 DEF StartDrain
<1>5. CASE Commit \/ Rollback
  BY <1>5 DEF Commit, Rollback, control
<1>6. CASE SkipSide \/ StartArrivals \/ StartDepartures
  BY <1>6 DEF SkipSide, StartArrivals, StartDepartures, txn, MembersOK
<1>7. CASE DeleteRound \/ Restore \/ DeriveRound \/ RestoreDone
  <2>1. CASE DeleteRound
    <3>1. (\E hi \in 0..workSeq : from' = hi) /\ rounds' = rounds + 1
          /\ UNCHANGED <<phase, at, start, drains>>
      BY <2>1 DEF DeleteRound, txn
    <3> QED BY <3>1 DEF WorkOK
  <2>2. CASE Restore
    BY <2>2 DEF Restore, txn, MembersOK
  <2>3. CASE DeriveRound
    BY <2>3 DEF DeriveRound, txn, MembersOK
  <2>4. CASE RestoreDone
    BY <2>4 DEF RestoreDone, control, txn
  <2> QED BY <1>7, <2>1, <2>2, <2>3, <2>4
<1>8. CASE Arrive \/ Emit
  BY <1>8 DEF Arrive, Emit, txn
<1>9. CASE Apply \/ CommitFails \/ ReadFails
  BY <1>9 DEF Apply, CommitFails, ReadFails, NoLocals
<1>10. CASE UNCHANGED vars
  BY <1>10 DEF vars, control, txn
<1> QED
  BY <1>1, <1>2, <1>3, <1>4, <1>5, <1>6, <1>7, <1>8, <1>9, <1>10 DEF Next, DrainStep

\* Phases and flags are what they are named.
LEMMA FlagsType == ASSUME TypeOK, [Next]_vars PROVE FlagsOK'
<1>0. FlagsOK /\ saved.partial \in BOOLEAN
  <2>1. FlagsOK
    BY DEF TypeOK
  <2>2. saved.partial \in BOOLEAN
    BY SMT DEF TypeOK, SavedOK
  <2> QED BY <2>1, <2>2
<1> USE DEF FlagsOK
<1>1. CASE Create \/ Anchor \/ AnchorsDone
  BY <1>0, <1>1, Zenon DEF Create, Anchor, AnchorsDone, txn
<1>2. CASE PopulateRound \/ Populated \/ PopulateFails
  BY <1>0, <1>2, Zenon DEF PopulateRound, Populated, PopulateFails, NoLocals, txn
<1>3. CASE \E f \in Fact : \E d \in {-1, 1} : Write(f, d)
  BY <1>0, <1>3, Zenon DEF Write, control, txn
<1>4. CASE \E read \in BOOLEAN : StartDrain(read)
  BY <1>0, <1>4, Zenon DEF StartDrain
<1>5. CASE Commit \/ Rollback
  BY <1>0, <1>5, Zenon DEF Commit, Rollback, Restored, control
<1>6. CASE SkipSide \/ StartArrivals \/ StartDepartures
  BY <1>0, <1>6, Zenon DEF SkipSide, StartArrivals, StartDepartures, txn
<1>7. CASE DeleteRound \/ Restore \/ DeriveRound \/ RestoreDone
  BY <1>0, <1>7, Zenon DEF DeleteRound, Restore, DeriveRound, RestoreDone, control, txn
<1>8. CASE Arrive \/ Emit
  BY <1>0, <1>8, Zenon DEF Arrive, Emit, txn
<1>9. CASE Apply \/ CommitFails \/ ReadFails
  BY <1>0, <1>9, Zenon DEF Apply, CommitFails, ReadFails, Restored, NoLocals
<1>10. CASE UNCHANGED vars
  BY <1>0, <1>10, Zenon DEF vars, control, txn
<1> QED
  BY <1>1, <1>2, <1>3, <1>4, <1>5, <1>6, <1>7, <1>8, <1>9, <1>10, Zenon DEF Next, DrainStep

\* A commit saves the state it leaves behind.
LEMMA SavedType == ASSUME TypeOK, [Next]_vars PROVE SavedOK'
<1>1. Snapshot \in [support : [Fact -> 0..MaxCopies], allId : [Row -> Nat], allSeq : Nat,
                workId : [Row -> Nat], workSeq : Nat, deleted : SUBSET Row,
                gone : [Row -> Nat], come : [Row -> Nat], result : [Row -> Nat],
                partial : BOOLEAN]
  BY DEF TypeOK, Snapshot, SourcesOK, MembersOK, WorkOK, OutOK, FlagsOK
<1>2. \A r \in Row : Snapshot.allId[r] <= Snapshot.allSeq
                     /\ Snapshot.workId[r] <= Snapshot.workSeq
  BY DEF TypeOK, Snapshot, MembersOK, WorkOK
<1>3. CASE Commit
  BY <1>1, <1>2, <1>3 DEF SavedOK, Commit
<1>4. CASE Populated
  <2>1. result' \in [Row -> Nat]
    BY <1>4 DEF Populated
  <2>2. saved' = [Snapshot EXCEPT !.result = result']
    BY <1>4 DEF Populated
  <2> QED BY <1>1, <1>2, <2>1, <2>2 DEF SavedOK
<1>5. CASE Apply
  <2>1. result' \in [Row -> Nat] /\ gone' \in [Row -> Nat] /\ come' \in [Row -> Nat]
    BY OutType DEF OutOK
  <2>2. workId' = NoIds
    BY <1>5 DEF Apply, ClearWork
  <2>3. \/ saved' = saved
        \/ saved' = [Snapshot EXCEPT !.workId = workId', !.result = result',
                                     !.gone = gone', !.come = come']
    BY <1>5 DEF Apply
  <2>4. workSeq \in Nat
    BY DEF TypeOK, WorkOK
  <2>5. CASE saved' = saved
    BY <2>5 DEF TypeOK, SavedOK
  <2>6. CASE saved' = [Snapshot EXCEPT !.workId = workId', !.result = result',
                                       !.gone = gone', !.come = come']
    <3>1. saved'.allId = Snapshot.allId /\ saved'.allSeq = Snapshot.allSeq
          /\ saved'.workId = NoIds /\ saved'.workSeq = workSeq
      BY <1>1, <2>2, <2>6 DEF Snapshot
    <3>2. \A r \in Row : saved'.allId[r] <= saved'.allSeq /\ saved'.workId[r] <= saved'.workSeq
      BY <1>2, <2>4, <3>1, EmptyType
    <3>3. workId' \in [Row -> Nat]
      BY <2>2, EmptyType
    <3> QED BY <1>1, <2>1, <2>6, <3>2, <3>3 DEF SavedOK
  <2> QED BY <2>3, <2>5, <2>6
<1>6. CASE UNCHANGED saved
  BY <1>6 DEF TypeOK, SavedOK
<1> QED
  BY <1>3, <1>4, <1>5, <1>6
  DEF Next, DrainStep, vars, txn, Create, Anchor, AnchorsDone, PopulateRound,
      PopulateFails, Write, StartDrain, Rollback, SkipSide, StartArrivals,
      StartDepartures, DeleteRound, Restore, DeriveRound, RestoreDone, Arrive, Emit,
      CommitFails, ReadFails

\* Every step keeps every part.
LEMMA TypeStep == ASSUME TypeOK, [Next]_vars PROVE TypeOK'
BY SourcesType, MembersType, WorkType, OutType, ControlType, FlagsType, SavedType DEF TypeOK

\* Types, and rowids never above their AUTOINCREMENT mark, in every state.
THEOREM TypeInvariant == Spec => []TypeOK
<1>1. TypeOK /\ [Next]_vars => TypeOK'
  BY TypeStep
<1> QED BY <1>1, InitType, PTL DEF Spec

-----------------------------------------------------------------------------
(* Scratch tables.                                                         *)

\* A drain runs, one side's pass runs, the view is still being made.
InDrain == phase \in {"side", "delete", "restored", "arrive", "arrived"}
InPass  == phase \in {"delete", "restored", "arrive", "arrived"}
Deleting == phase \in {"delete", "restored"}

\* Where scratch rows can be: the work table only while rows that left are worked
\* off, the deleted table only in a pass over a side rows left, the out table only
\* once a pass wrote to it.
ScratchOK ==
  /\ ~partial =>
       /\ ~Deleting => workId = NoIds
       /\ ~Deleting /\ ~departed => deleted = {}
       /\ ~written => gone = Zero /\ come = Zero
  /\ ~saved.partial =>
       /\ saved.workId = NoIds /\ saved.deleted = {}
       /\ saved.gone = Zero /\ saved.come = Zero
  /\ written => InDrain
  /\ departed => InPass
  /\ Deleting => departed

\* Emitting nothing leaves the out table empty.
LEMMA CountNothing == \A bag \in [Row -> Nat] : CountIn(bag, {}) = bag
BY DEF CountIn

\* No statement has run.
LEMMA InitScratch == Init => ScratchOK
<1> SUFFICES ASSUME Init PROVE ScratchOK
  OBVIOUS
<1>1. /\ saved.workId = NoIds /\ saved.deleted = {}
      /\ saved.gone = Zero /\ saved.come = Zero
  BY DEF Init, NoView
<1> QED BY <1>1 DEF Init, ScratchOK, InDrain, InPass, Deleting

\* A pass clears the work and deleted tables before it ends, apply_state the out table.
LEMMA ScratchStep == ASSUME TypeOK, ScratchOK, [Next]_vars PROVE ScratchOK'
<1> USE DEF ScratchOK, InDrain, InPass, Deleting
<1>1. CASE Create \/ Anchor \/ AnchorsDone \/ PopulateRound
  BY <1>1 DEF Create, Anchor, AnchorsDone, PopulateRound, tables, txn
<1>2. CASE Populated
  BY <1>2 DEF Populated, NoLocals, Snapshot
<1>3. CASE PopulateFails
  BY <1>3 DEF PopulateFails, NoLocals, txn
<1>4. CASE \E f \in Fact : \E d \in {-1, 1} : Write(f, d)
  BY <1>4 DEF Write, control, txn, tables
<1>5. CASE \E read \in BOOLEAN : StartDrain(read)
  BY <1>5 DEF StartDrain, tables
<1>6. CASE Commit
  BY <1>6 DEF Commit, Snapshot, tables, control
<1>7. CASE Rollback
  BY <1>7 DEF Rollback, Restored, control
<1>8. CASE SkipSide \/ StartArrivals
  BY <1>8 DEF SkipSide, StartArrivals, txn, tables
<1>9. CASE StartDepartures
  BY <1>9 DEF StartDepartures, txn
<1>10. CASE DeleteRound
  BY <1>10 DEF DeleteRound, txn
<1>11. CASE Restore
  BY <1>11 DEF Restore, txn
<1>12. CASE DeriveRound \/ Arrive
  BY <1>12 DEF DeriveRound, Arrive, txn
<1>13. CASE RestoreDone
  BY <1>13 DEF RestoreDone, ClearWork, txn, control
<1>14. CASE Emit
  <2>1. ~written' => /\ ~written /\ Retracts = {} /\ Emits = {}
    BY <1>14 DEF Emit
  <2>2. ~written' /\ ~partial => gone' = Zero /\ come' = Zero
    BY <1>14, <2>1, CountNothing, EmptyType DEF Emit
  <2>3. ~partial => deleted' = {}
    BY <1>14 DEF Emit, ClearDeleted
  <2> QED BY <1>14, <2>2, <2>3 DEF Emit, txn
<1>15. CASE Apply
  BY <1>15 DEF Apply, ClearWork, NoLocals, Snapshot
<1>16. CASE CommitFails
  BY <1>16 DEF CommitFails, Restored, NoLocals
<1>17. CASE ReadFails
  BY <1>17 DEF ReadFails, NoLocals
<1>18. CASE UNCHANGED vars
  BY <1>18 DEF vars, tables, control, txn
<1> QED BY <1>1, <1>2, <1>3, <1>4, <1>5, <1>6, <1>7, <1>8, <1>9, <1>10, <1>11, <1>12,
           <1>13, <1>14, <1>15, <1>16, <1>17, <1>18 DEF Next, DrainStep

-----------------------------------------------------------------------------
(* Stored rows and emitted deltas.                                         *)

\* No two rows of M have one key.
KeysApart(M) == \A r, q \in M : Key[r] = Key[q] => r = q
\* The members the pass found, dropped since or not.
Old == InRange(allId, 0, start)
Was == Old \cup deleted
Once(M) == [r \in Row |-> IF r \in M THEN 1 ELSE 0]
\* What the state table holds once the out table is applied.
Owed == [r \in Row |-> result[r] - gone[r] + come[r]]

\* The state table, with what the drain still owes it, holds each member the last
\* pass ended with once; INSERT OR IGNORE keeps keys apart.
ResultOK ==
  /\ KeysApart(all) /\ KeysApart(Held(saved.allId))
  /\ ~saved.partial => saved.result = Once(Held(saved.allId))
  /\ InPass => start <= allSeq
  /\ ~partial =>
       /\ phase = "idle" => result = Once(all)
       /\ phase = "side" => Owed = Once(all)
       /\ phase = "delete" => \A r \in all : allId[r] <= start
       /\ InPass => Owed = Once(Was) /\ KeysApart(Was)

\* INSERT adds its rows and keeps the others.
LEMMA InsertHolds ==
  ASSUME NEW id \in [Row -> Nat], NEW seq \in Nat, NEW N
  PROVE  Held(Insert(id, seq, N)) = Held(id) \cup (N \cap Row)
BY DEF Held, Insert, NextId

\* What INSERT OR IGNORE stores is new by key and apart.
LEMMA StoresApart ==
  ASSUME NEW M \in SUBSET Row, KeysApart(M), NEW H, H \subseteq Row, NEW N \in Stores(M, H)
  PROVE  KeysApart(M \cup N) /\ N \subseteq H /\ N \subseteq Row
BY DEF Stores, KeysApart, HasKey

\* Stored so, keys stay apart.
LEMMA InsertApart ==
  ASSUME NEW id \in [Row -> Nat], NEW seq \in Nat, NEW H, H \subseteq Row,
         KeysApart(Held(id)), NEW N \in Stores(Held(id), H)
  PROVE  KeysApart(Held(Insert(id, seq, N)))
<1>1. Held(id) \in SUBSET Row
  BY DEF Held
<1>2. KeysApart(Held(id) \cup N) /\ N \cap Row = N
  BY <1>1, StoresApart
<1> QED BY <1>2, InsertHolds

\* Rules derive rows.
LEMMA HeadsAreRows ==
  /\ \A I, M : RoundHeads(I, M) \subseteq Row
  /\ \A s, D, I : SideHeads(s, D, I) \subseteq Row
  /\ \A k : RuleHeads(k) \subseteq Row
  /\ \A H \in SUBSET Row : Restorable(H) \subseteq Row /\ \A M : Present(H, M) \subseteq Row
<1>1. \A c \in Clause : c.head \in Row
  BY ShapeAssumption DEF ShapeAssumption
<1> QED BY <1>1 DEF RoundHeads, SideHeads, RuleHeads, HeadsOf, Restorable, Present

\* The key is unique in the member table, now and after ROLLBACK.
KeysOK == KeysApart(all) /\ KeysApart(Held(saved.allId))

\* No key is stored twice, in the member table or at a commit.
LEMMA KeysStep == ASSUME TypeOK, KeysOK, [Next]_vars PROVE KeysOK'
<1> USE DEF KeysOK, all
<1>0. allId \in [Row -> Nat] /\ allSeq \in Nat
  BY DEF TypeOK, MembersOK
<1>1. ASSUME NEW H, H \subseteq Row, NEW N \in Stores(all, H),
             allId' = Insert(allId, allSeq, N)
      PROVE  KeysApart(Held(allId)')
  BY <1>0, <1>1, InsertApart
<1>2. CASE Anchor \/ PopulateRound \/ Restore \/ DeriveRound \/ Arrive
  <2>1. saved' = saved
    BY <1>2 DEF Anchor, PopulateRound, Restore, DeriveRound, Arrive, txn
  <2>2. work \subseteq Row
    BY DEF work, Held
  <2>3. \E H \in SUBSET Row : \E N \in Stores(all, H) : allId' = Insert(allId, allSeq, N)
    BY <1>2, <2>2, HeadsAreRows DEF Anchor, PopulateRound, Restore, DeriveRound, Arrive
  <2> QED BY <1>1, <2>1, <2>3
<1>3. CASE DeleteRound
  <2>1. saved' = saved /\ \E R : allId' = Drop(allId, R)
    BY <1>3 DEF DeleteRound, txn
  <2>2. Held(allId)' \subseteq Held(allId)
    BY <1>0, <2>1 DEF Held, Drop
  <2> QED BY <2>1, <2>2 DEF KeysApart
<1>4. CASE PopulateFails
  BY <1>4 DEF PopulateFails, NoIds, Held, KeysApart, txn
<1>5. CASE Rollback \/ CommitFails
  BY <1>5 DEF Rollback, CommitFails, Restored
<1>6. CASE Commit \/ Populated \/ Apply
  <2>1. CASE Commit \/ Populated
    BY <1>6, <2>1 DEF Commit, Populated, Snapshot, tables
  <2>2. CASE Apply
    <3>1. allId' = allId
      BY <2>2 DEF Apply
    <3>2. saved'.allId = allId \/ saved' = saved
      BY <2>2 DEF Apply, Snapshot
    <3> QED BY <3>1, <3>2
  <2> QED BY <1>6, <2>1, <2>2
<1>7. CASE UNCHANGED <<allId, saved>>
  BY <1>7
<1> QED
  BY <1>2, <1>3, <1>4, <1>5, <1>6, <1>7
  DEF Next, DrainStep, vars, tables, txn, Create, AnchorsDone, Write, StartDrain,
      SkipSide, StartArrivals, StartDepartures, RestoreDone, Emit, ReadFails

\* Rows stored during a pass get rowids past its start.
LEMMA InsertKeepsOld ==
  ASSUME NEW id \in [Row -> Nat], NEW seq \in Nat, NEW lo \in Nat, lo <= seq,
         NEW N, \A n \in N : n \notin Held(id)
  PROVE  InRange(Insert(id, seq, N), 0, lo) = InRange(id, 0, lo)
<1> DEFINE new == Insert(id, seq, N)
<1>1. ASSUME NEW r \in Row PROVE 0 < new[r] /\ new[r] <= lo <=> 0 < id[r] /\ id[r] <= lo
  <2>1. id[r] \in Nat /\ (r \in N => id[r] = 0)
    BY DEF Held
  <2>2. new[r] = IF r \in N THEN seq + 1 ELSE id[r]
    BY DEF Insert, NextId
  <2> QED BY <2>1, <2>2
<1> HIDE DEF new
<1>2. InRange(new, 0, lo) = InRange(id, 0, lo)
  BY <1>1 DEF InRange
<1> QED BY <1>2 DEF new

\* A pass replaces what its members were by what they are.
LEMMA EmitOwes ==
  ASSUME TypeOK, ScratchOK, ResultOK, Emit, ~partial
  PROVE  Owed' = Once(all)
<1>1. /\ gone \in [Row -> Nat] /\ come \in [Row -> Nat] /\ result \in [Row -> Nat]
      /\ allId \in [Row -> Nat] /\ start \in Nat /\ deleted \subseteq Row
  BY DEF TypeOK, OutOK, MembersOK, ControlOK
<1>2. InPass /\ Owed = Once(Was) /\ KeysApart(Was)
  BY DEF Emit, InPass, ResultOK
<1>3. ~departed => deleted = {}
  BY DEF Emit, ScratchOK, Deleting
<1>4. ASSUME NEW r \in Row
      PROVE  /\ r \in Retracts <=> r \in Was /\ r \notin all
             /\ r \in Emits <=> r \in all /\ r \notin Was
  <2>1. r \in all <=> allId[r] > 0
    BY DEF all, Held
  <2>2. r \in Old <=> 0 < allId[r] /\ allId[r] <= start
    BY DEF Old, InRange
  <2>3. r \in Fresh <=> allId[r] > start
    BY DEF Fresh
  <2>4. allId[r] \in Nat
    BY <1>1
  <2>5. r \in Was <=> r \in Old \/ r \in deleted
    BY DEF Was
  <2>6. r \in Retracts <=> r \in Was /\ r \notin all
    <3>1. r \in Retracts <=> r \in deleted /\ r \notin all
      BY <1>3 DEF Retracts
    <3> QED BY <3>1, <2>1, <2>2, <2>5
  <2>7. \A d \in deleted : r \in Was /\ Key[d] = Key[r] => d = r
    BY <1>2 DEF KeysApart, Was
  <2>8. r \in Fresh => r \in all /\ r \notin Old
    BY <1>1, <2>1, <2>2, <2>3, <2>4
  <2>9. r \in all /\ r \notin Old => r \in Fresh
    BY <1>1, <2>1, <2>2, <2>3, <2>4
  <2>10. CASE departed
    <3>1. r \in Emits <=> \/ r \in all /\ (\E d \in deleted : Key[d] = Key[r] /\ d # r)
                          \/ r \in Fresh /\ ~(\E d \in deleted : Key[d] = Key[r])
      BY <2>10 DEF Emits, Replaced, HasKey
    <3>2. r \in Emits => r \in all /\ r \notin Was
      BY <3>1, <2>5, <2>7, <2>8
    <3>3. r \in all /\ r \notin Was => r \in Emits
      BY <3>1, <2>5, <2>9
    <3> QED BY <2>6, <3>2, <3>3
  <2>11. CASE ~departed
    BY <1>3, <2>5, <2>6, <2>8, <2>9, <2>11 DEF Emits
  <2> QED BY <2>10, <2>11
<1>5. ASSUME NEW r \in Row
      PROVE  result'[r] - gone'[r] + come'[r] = IF r \in all THEN 1 ELSE 0
  <2>1. result[r] \in Nat /\ gone[r] \in Nat /\ come[r] \in Nat
    BY <1>1
  <2>2. result[r] - gone[r] + come[r] = IF r \in Was THEN 1 ELSE 0
    BY <1>2 DEF Owed, Once
  <2>3. /\ result'[r] = result[r]
        /\ gone'[r] = IF r \in Retracts THEN gone[r] + 1 ELSE gone[r]
        /\ come'[r] = IF r \in Emits THEN come[r] + 1 ELSE come[r]
    BY DEF Emit, CountIn
  <2> QED BY <1>4, <2>1, <2>2, <2>3
<1> QED BY <1>5 DEF Owed, Once

\* Applying the out table leaves what was owed.
LEMMA ApplyPays ==
  ASSUME TypeOK, ScratchOK, ResultOK, Apply, ~partial
  PROVE  result' = Once(all)
<1>1. Owed = Once(all)
  BY DEF ResultOK, Apply
<1>2. CASE written
  BY <1>1, <1>2 DEF Apply, Owed
<1>3. CASE ~written
  <2>1. gone = Zero /\ come = Zero /\ result' = result
    BY <1>3 DEF ScratchOK, Apply
  <2>2. result \in [Row -> Nat]
    BY DEF TypeOK, OutOK
  <2>3. result = Owed
    BY <2>1, <2>2 DEF Owed, Zero
  <2> QED BY <1>1, <2>1, <2>3
<1> QED BY <1>2, <1>3

\* The rows of a pass stay those it began with.
LEMMA PassKeepsWas ==
  ASSUME TypeOK, InPass, start <= allSeq, NEW H \in SUBSET Row, NEW N \in Stores(all, H),
         allId' = Insert(allId, allSeq, N), UNCHANGED <<start, deleted>>
  PROVE  Was' = Was
<1>1. allId \in [Row -> Nat] /\ allSeq \in Nat /\ start \in Nat
  BY DEF TypeOK, MembersOK, ControlOK
<1>2. \A n \in N : n \notin Held(allId)
  BY DEF Stores, HasKey, all
<1>3. Old' = Old
  BY <1>1, <1>2, InsertKeepsOld DEF Old
<1> QED BY <1>3 DEF Was

\* A pass begins with the members there are.
LEMMA PassBegins ==
  ASSUME TypeOK, ScratchOK, StartArrivals \/ StartDepartures
  PROVE  /\ start' \in 0 .. allSeq /\ (\A r \in Row : allId[r] <= start')
         /\ UNCHANGED <<allId, allSeq, gone, come, result, partial, saved>>
         /\ ~partial => Was' = all
<1>1. /\ start' \in 0 .. allSeq /\ IsTop(allId, start')
      /\ UNCHANGED <<allId, allSeq, gone, come, result, partial, saved>>
  BY DEF StartArrivals, StartDepartures, tables, txn
<1>2. \A r \in Row : allId[r] <= start'
  BY <1>1 DEF IsTop
<1>3. ~partial => deleted' = {}
  BY DEF StartArrivals, StartDepartures, ClearDeleted, tables, ScratchOK, Deleting, InPass
<1>4. ~partial => Was' = all
  BY <1>1, <1>2, <1>3 DEF Was, Old, all, Held, InRange
<1> QED BY <1>1, <1>2, <1>4

\* A delete round moves members to the deleted table.
LEMMA DeleteKeepsWas ==
  ASSUME TypeOK, ResultOK, DeleteRound, ~partial
  PROVE  Was' = Was /\ \A r \in Row : 0 < allId'[r] => allId'[r] <= start'
<1>a. allId \in [Row -> Nat] /\ start \in Nat
  BY DEF TypeOK, MembersOK, ControlOK
<1>1. PICK R : deleted' = deleted \cup {r \in all : HasKey(R, r)}
               /\ allId' = Drop(allId, {r \in all : HasKey(R, r)})
  BY DEF DeleteRound
<1> DEFINE dropped == {r \in all : HasKey(R, r)}
<1>2. dropped \subseteq all /\ dropped \subseteq Row
  BY DEF all, Held
<1>3. \A r \in Row : 0 < allId[r] => allId[r] <= start
  BY DEF DeleteRound, ResultOK, all, Held
<1>4. start' = start /\ \A r \in Row : allId'[r] = IF r \in dropped THEN 0 ELSE allId[r]
  BY <1>1 DEF DeleteRound, Drop
<1>5. deleted' = deleted \cup dropped
  BY <1>1
<1> HIDE DEF dropped
<1>6. Old' = Old \ dropped /\ dropped \subseteq Old
  BY <1>a, <1>2, <1>3, <1>4 DEF Old, InRange, all, Held
<1>7. Was' = Was
  BY <1>5, <1>6 DEF Was
<1> QED BY <1>a, <1>3, <1>4, <1>7

\* The state table and the out table make the members up, pass by pass.
LEMMA ResultStep ==
  ASSUME TypeOK, TypeOK', ScratchOK, ResultOK, [Next]_vars
  PROVE  ResultOK'
<1> USE DEF InPass, Deleting, InDrain
<1>0. KeysOK /\ KeysOK'
  BY KeysStep DEF ResultOK, KeysOK
<1>a. /\ allId \in [Row -> Nat] /\ allSeq \in Nat /\ start \in Nat
      /\ gone \in [Row -> Nat] /\ come \in [Row -> Nat] /\ result \in [Row -> Nat]
  BY DEF TypeOK, OutOK, MembersOK, ControlOK
<1>b. ~partial /\ phase = "idle" => gone = Zero /\ come = Zero /\ deleted = {}
  BY DEF ScratchOK
<1>c. gone = Zero /\ come = Zero => Owed = result
  BY <1>a DEF Owed, Zero
<1>1. CASE Create \/ Anchor \/ AnchorsDone \/ PopulateRound \/ PopulateFails
  BY <1>0, <1>1 DEF Create, Anchor, AnchorsDone, PopulateRound, PopulateFails, txn,
                    ResultOK, KeysOK
<1>2. CASE Populated
  <2>1. /\ phase' = "idle" /\ result' = Once(all) /\ allId' = allId
        /\ saved'.result = result' /\ saved'.allId = allId
    BY <1>2 DEF Populated, Snapshot, Once
  <2> QED BY <1>0, <2>1 DEF ResultOK, KeysOK, all
<1>3. CASE \E f \in Fact : \E d \in {-1, 1} : Write(f, d)
  BY <1>0, <1>3 DEF Write, tables, control, txn, ResultOK, KeysOK, all
<1>4. CASE \E read \in BOOLEAN : StartDrain(read)
  <2>1. /\ phase = "idle" /\ phase' = "side" /\ UNCHANGED <<tables, partial, saved>>
    BY <1>4 DEF StartDrain
  <2>2. Owed' = Owed /\ all' = all
    BY <2>1 DEF Owed, all, tables
  <2> QED BY <1>0, <1>b, <1>c, <2>1, <2>2 DEF ResultOK, KeysOK
<1>5. CASE Commit
  <2>1. /\ saved'.partial = partial /\ saved'.allId = allId /\ saved'.result = result
        /\ UNCHANGED <<tables, phase, control, partial>> /\ phase = "idle"
    BY <1>5 DEF Commit, Snapshot
  <2> QED BY <1>0, <2>1 DEF ResultOK, KeysOK, tables, all
<1>6. CASE Rollback \/ CommitFails
  <2>1. /\ allId' = saved.allId /\ result' = saved.result /\ partial' = saved.partial
        /\ saved' = saved /\ phase' = "idle"
    BY <1>6 DEF Rollback, CommitFails, Restored
  <2> QED BY <1>0, <2>1 DEF ResultOK, KeysOK, all
<1>7. CASE SkipSide
  <2>1. UNCHANGED <<tables, phase, start, partial, saved>> /\ phase = "side"
    BY <1>7 DEF SkipSide, txn
  <2> QED BY <1>0, <2>1 DEF ResultOK, KeysOK, tables, Owed, all
<1>8. CASE StartArrivals \/ StartDepartures
  <2>1. phase = "side" /\ phase' \in {"arrive", "delete"}
    BY <1>8 DEF StartArrivals, StartDepartures
  <2>2. /\ start' \in 0 .. allSeq /\ (\A r \in Row : allId[r] <= start')
        /\ UNCHANGED <<allId, allSeq, gone, come, result, partial, saved>>
        /\ ~partial => Was' = all
    BY <1>8, PassBegins
  <2>3. start' <= allSeq' /\ all' = all /\ Owed' = Owed
    BY <1>a, <2>2 DEF all, Owed
  <2> QED BY <1>0, <2>1, <2>2, <2>3 DEF ResultOK, KeysOK, all, Held
<1>9. CASE DeleteRound
  <2>1. UNCHANGED <<allSeq, gone, come, result, phase, start, departed, partial, saved>>
        /\ phase = "delete"
    BY <1>9 DEF DeleteRound, txn
  <2>2. ~partial => Was' = Was /\ \A r \in all' : allId'[r] <= start'
    BY <1>9, DeleteKeepsWas DEF all, Held
  <2>3. Owed' = Owed
    BY <2>1 DEF Owed
  <2> QED BY <1>0, <2>1, <2>2, <2>3 DEF ResultOK, KeysOK
<1>10. CASE Restore \/ DeriveRound \/ Arrive
  <2>1. work \subseteq Row
    BY DEF work, Held
  <2>2. PICK H \in SUBSET Row : \E M \in Stores(all, H) :
                  allId' = Insert(allId, allSeq, M) /\ allSeq' = SeqAfter(allId, allSeq, M)
    BY <1>10, <2>1, HeadsAreRows DEF Restore, DeriveRound, Arrive
  <2>3. PICK N \in Stores(all, H) :
                  allId' = Insert(allId, allSeq, N) /\ allSeq' = SeqAfter(allId, allSeq, N)
    BY <2>2
  <2>4. CASE phase \in {"delete", "restored", "arrive", "arrived"}
    <3>1. /\ UNCHANGED <<deleted, gone, come, result, start, partial, saved>>
          /\ phase' \in {"restored", "arrived"}
      BY <1>10 DEF Restore, DeriveRound, Arrive, txn
    <3>2. start <= allSeq
      BY <2>4 DEF ResultOK
    <3>3. Was' = Was
      BY <2>3, <2>4, <3>1, <3>2, PassKeepsWas
    <3>4. allSeq' \in Nat /\ allSeq <= allSeq'
      BY <1>a, <2>3 DEF SeqAfter, NextId
    <3>5. start' <= allSeq'
      BY <1>a, <3>1, <3>2, <3>4
    <3>6. Owed' = Owed
      BY <3>1 DEF Owed
    <3> QED BY <1>0, <2>4, <3>1, <3>3, <3>5, <3>6 DEF ResultOK, KeysOK
  <2> QED BY <1>10, <2>4 DEF Restore, DeriveRound, Arrive
<1>11. CASE RestoreDone
  <2>1. /\ UNCHANGED <<allId, allSeq, deleted, gone, come, result, control, partial, saved>>
        /\ phase = "restored" /\ phase' = "arrive"
    BY <1>11 DEF RestoreDone, txn
  <2>2. Was' = Was /\ Owed' = Owed
    BY <2>1 DEF Was, Old, Owed, control
  <2> QED BY <1>0, <2>1, <2>2 DEF ResultOK, KeysOK, control
<1>12. CASE Emit
  <2>1. phase' = "side" /\ UNCHANGED <<allId, partial, saved>>
    BY <1>12 DEF Emit, txn
  <2> QED BY <1>0, <1>12, <2>1, EmitOwes DEF ResultOK, KeysOK, all
<1>13. CASE Apply
  <2>1. phase' = "idle" /\ UNCHANGED <<allId, partial>>
    BY <1>13 DEF Apply
  <2>2. \/ saved' = saved
        \/ saved'.allId = allId /\ saved'.partial = partial /\ saved'.result = result'
    BY <1>13 DEF Apply, Snapshot
  <2> QED BY <1>0, <1>13, <2>1, <2>2, ApplyPays DEF ResultOK, KeysOK, all
<1>14. CASE ReadFails
  BY <1>0, <1>14 DEF ReadFails, ResultOK, KeysOK
<1>15. CASE UNCHANGED vars
  BY <1>0, <1>15 DEF vars, tables, control, txn, ResultOK, KeysOK, all, Was, Old, Owed
<1> QED BY <1>1, <1>2, <1>3, <1>4, <1>5, <1>6, <1>7, <1>8, <1>9, <1>10, <1>11, <1>12,
           <1>13, <1>14, <1>15 DEF Next, DrainStep

-----------------------------------------------------------------------------
(* Rounds.                                                                 *)

\* No view, no result.
LEMMA InitResult == Init => ResultOK
<1> SUFFICES ASSUME Init PROVE ResultOK
  OBVIOUS
<1>1. /\ saved.allId = NoIds /\ saved.result = Zero /\ allId = NoIds /\ phase = "absent"
  BY DEF Init, NoView
<1>2. Held(NoIds) = {} /\ Zero = Once({})
  BY DEF Held, NoIds, Zero, Once
<1> QED BY <1>1, <1>2 DEF ResultOK, KeysApart, all, InPass

\* Rows of a loop's table whose rowids its rounds have gone through; the bound may
\* begin above every rowid left.
Seen(id) == InRange(id, 0, from)
Beyond(id) == from > 0 /\ \A r \in Row : id[r] < from
Counts(id) == /\ rounds <= Cardinality(Seen(id)) + 1
              /\ Beyond(id) => rounds <= Cardinality(Seen(id))

\* Each round goes through one row more, the first one possibly none.
RoundsOK ==
  /\ rounds <= Cardinality(Row) + 1
  /\ phase \in {"absent", "anchor"} => rounds = 0 /\ from = 0
  /\ phase \in {"populate", "restored", "arrived"} => Counts(allId)
  /\ phase = "delete" => Counts(workId)

\* A rowid range holds finitely many rows.
LEMMA RangeCount ==
  ASSUME NEW id, NEW lo, NEW hi
  PROVE  /\ IsFiniteSet(InRange(id, lo, hi))
         /\ Cardinality(InRange(id, lo, hi)) \in Nat
         /\ Cardinality(InRange(id, lo, hi)) <= Cardinality(Row)
<1>1. IsFiniteSet(Row)
  BY ShapeAssumption DEF ShapeAssumption
<1>2. InRange(id, lo, hi) \subseteq Row
  BY DEF InRange
<1> QED BY <1>1, <1>2, FS_Subset, FS_CardinalityType

\* A loop that goes on has moved its bound past at least one stored row a round.
LEMMA RoundCounts ==
  ASSUME NEW id \in [Row -> Nat], NEW seq \in Nat, \A r \in Row : id[r] <= seq,
         NEW lo \in Nat, NEW hi \in Nat, IsTop(id, hi), hi # lo,
         NEW N, \A n \in N : n \notin Held(id), NEW new, new = Insert(id, seq, N),
         NEW k \in Nat, k <= Cardinality(InRange(id, 0, lo)) + 1,
         lo > 0 /\ (\A r \in Row : id[r] < lo) => k <= Cardinality(InRange(id, 0, lo))
  PROVE  /\ k + 1 <= Cardinality(InRange(new, 0, hi)) + 1
         /\ ~(hi > 0 /\ \A r \in Row : new[r] < hi)
<1>1. hi <= seq
  BY DEF IsTop
<1>2. InRange(new, 0, hi) = InRange(id, 0, hi)
  BY <1>1, InsertKeepsOld
<1> DEFINE before == InRange(id, 0, lo)
           after == InRange(id, 0, hi)
<1>3. /\ IsFiniteSet(before) /\ Cardinality(before) \in Nat
      /\ IsFiniteSet(after) /\ Cardinality(after) \in Nat
  BY RangeCount
<1>4. ASSUME hi < lo PROVE k <= Cardinality(after)
  <2>1. \A r \in Row : id[r] < lo
    BY <1>4 DEF IsTop
  <2>2. before = after
    BY <1>4, <2>1 DEF IsTop, InRange
  <2>3. k <= Cardinality(before)
    BY <1>4, <2>1
  <2> HIDE DEF before, after
  <2> QED BY <2>2, <2>3
<1>5. ASSUME lo < hi PROVE k <= Cardinality(after)
  <2>1. PICK r \in Row : id[r] = hi
    BY <1>5 DEF IsTop
  <2>2. before \subseteq after /\ r \in after /\ r \notin before
    BY <1>5, <2>1 DEF InRange
  <2> HIDE DEF before, after
  <2>3. before \cup {r} \subseteq after
    BY <2>2
  <2>4. Cardinality(before \cup {r}) = Cardinality(before) + 1
    BY <1>3, <2>2, FS_AddElement
  <2>5. Cardinality(before \cup {r}) <= Cardinality(after)
    BY <1>3, <2>3, FS_Subset
  <2>6. k <= Cardinality(before) + 1
    BY DEF before
  <2> QED BY <1>3, <2>4, <2>5, <2>6
<1>6. k + 1 <= Cardinality(InRange(new, 0, hi)) + 1
  <2>1. k <= Cardinality(after)
    BY <1>4, <1>5
  <2>2. InRange(new, 0, hi) = after
    BY <1>2
  <2> HIDE DEF after
  <2> QED BY <1>3, <2>1, <2>2
<1>7. hi > 0 => \E r \in Row : new[r] = hi
  <2> SUFFICES ASSUME hi > 0 PROVE \E r \in Row : new[r] = hi
    OBVIOUS
  <2>1. PICK r \in Row : id[r] = hi
    BY DEF IsTop
  <2>2. r \notin N
    BY <2>1 DEF Held
  <2>3. new[r] = hi
    BY <2>1, <2>2 DEF Insert
  <2> QED BY <2>3
<1>8. \A r \in Row : new[r] = hi => ~(new[r] < hi)
  OBVIOUS
<1> QED BY <1>6, <1>7, <1>8

\* A round of a loop over the rowids of id.
LEMMA LoopCounts ==
  ASSUME TypeOK, Counts(allId), NEW H, NEW hi \in Nat, IsTop(allId, hi), hi # from,
         NEW N \in Stores(all, H), allId' = Insert(allId, allSeq, N), from' = hi,
         rounds' = rounds + 1
  PROVE  Counts(allId)'
<1>1. allId \in [Row -> Nat] /\ allSeq \in Nat /\ from \in Nat /\ rounds \in Nat
      /\ \A r \in Row : allId[r] <= allSeq
  BY DEF TypeOK, MembersOK, ControlOK
<1>2. \A n \in N : n \notin Held(allId)
  BY DEF Stores, HasKey, all
<1>3. /\ rounds + 1 <= Cardinality(InRange(allId', 0, hi)) + 1
      /\ ~(hi > 0 /\ \A r \in Row : allId'[r] < hi)
  BY <1>1, <1>2, RoundCounts DEF Counts, Seen, Beyond
<1> QED BY <1>3 DEF Counts, Seen, Beyond

\* So has the delete loop, over the work table.
LEMMA DeleteCounts ==
  ASSUME TypeOK, Counts(workId), NEW H, NEW hi \in Nat, IsTop(workId, hi), hi # from,
         NEW N \in Stores(work, H), workId' = Insert(workId, workSeq, N), from' = hi,
         rounds' = rounds + 1
  PROVE  Counts(workId)'
<1>1. workId \in [Row -> Nat] /\ workSeq \in Nat /\ from \in Nat /\ rounds \in Nat
      /\ \A r \in Row : workId[r] <= workSeq
  BY DEF TypeOK, WorkOK, ControlOK
<1>2. \A n \in N : n \notin Held(workId)
  BY DEF Stores, HasKey, work
<1>3. /\ rounds + 1 <= Cardinality(InRange(workId', 0, hi)) + 1
      /\ ~(hi > 0 /\ \A r \in Row : workId'[r] < hi)
  BY <1>1, <1>2, RoundCounts DEF Counts, Seen, Beyond
<1> QED BY <1>3 DEF Counts, Seen, Beyond

\* No loop counts more rounds than the rows its bound has passed, and one.
LEMMA RoundsStep ==
  ASSUME TypeOK, RoundsOK, [Next]_vars
  PROVE  RoundsOK'
<1>1. /\ rounds \in Nat /\ from \in Nat /\ Cardinality(Row) \in Nat
      /\ \A id, k : Cardinality(InRange(id, 0, k)) \in Nat
                    /\ Cardinality(InRange(id, 0, k)) <= Cardinality(Row)
  BY RangeCount, FS_CardinalityType, ShapeAssumption DEF TypeOK, ControlOK, ShapeAssumption
<1>2. \A id : rounds' = 0 => Counts(id)'
  BY <1>1 DEF Counts, Seen
<1>3. \A id : Counts(id)' /\ rounds' \in Nat => rounds' <= Cardinality(Row) + 1
  BY <1>1 DEF Counts, Seen
<1>4. CASE rounds' = 0 /\ (phase' \in {"absent", "anchor"} => from' = 0)
  <2>1. Counts(allId)' /\ Counts(workId)'
    BY <1>1, <1>4 DEF Counts, Seen
  <2> QED BY <1>1, <1>4, <2>1 DEF RoundsOK
<1>5. CASE Create \/ Anchor \/ AnchorsDone
  BY <1>4, <1>5 DEF Create, Anchor, AnchorsDone, RoundsOK
<1>6. CASE PopulateRound \/ DeriveRound
  <2>1. /\ phase \in {"populate", "restored", "arrived"} /\ phase' = phase
        /\ rounds' = rounds + 1
        /\ \E hi \in 0 .. allSeq : IsTop(allId, hi) /\ hi # from /\ from' = hi
             /\ \E N \in Stores(all, RoundHeads(AfterIn, InRange(allId, from, hi))) :
                  allId' = Insert(allId, allSeq, N)
    BY <1>6 DEF PopulateRound, DeriveRound
  <2>2. allSeq \in Nat /\ Counts(allId)
    BY <2>1 DEF TypeOK, MembersOK, RoundsOK
  <2>3. Counts(allId)'
    BY <2>1, <2>2, LoopCounts
  <2>4. rounds' <= Cardinality(Row) + 1
    BY <1>1, <2>1, <2>3 DEF Counts, Seen
  <2> QED BY <2>1, <2>3, <2>4 DEF RoundsOK
<1>7. CASE DeleteRound
  <2>1. /\ phase = "delete" /\ phase' = phase /\ rounds' = rounds + 1
        /\ \E hi \in 0 .. workSeq : IsTop(workId, hi) /\ hi # from /\ from' = hi
             /\ \E H : \E N \in Stores(work, H) : workId' = Insert(workId, workSeq, N)
    BY <1>7 DEF DeleteRound
  <2>2. workSeq \in Nat /\ Counts(workId)
    BY <2>1 DEF TypeOK, WorkOK, RoundsOK
  <2>3. Counts(workId)'
    BY <2>1, <2>2, DeleteCounts
  <2>4. rounds' <= Cardinality(Row) + 1
    BY <1>1, <2>1, <2>3 DEF Counts, Seen
  <2> QED BY <2>1, <2>3, <2>4 DEF RoundsOK
<1>8. CASE Populated \/ PopulateFails \/ Apply \/ CommitFails \/ ReadFails
  BY <1>4, <1>8 DEF Populated, PopulateFails, Apply, CommitFails, ReadFails, NoLocals
<1>9. CASE StartDepartures \/ Restore \/ Arrive \/ Emit
  BY <1>4, <1>9 DEF StartDepartures, Restore, Arrive, Emit
<1>10. CASE RestoreDone
  BY <1>10 DEF RestoreDone, control, RoundsOK
<1>11. CASE (\E read \in BOOLEAN : StartDrain(read)) \/ SkipSide \/ StartArrivals
  BY <1>11 DEF StartDrain, SkipSide, StartArrivals, RoundsOK
<1>12. CASE (\E f \in Fact : \E d \in {-1, 1} : Write(f, d)) \/ Commit \/ Rollback
  BY <1>12 DEF Write, Commit, Rollback, control, RoundsOK
<1>13. CASE UNCHANGED vars
  <2>1. UNCHANGED <<allId, workId, rounds, from, phase>>
    BY <1>13 DEF vars, tables, control
  <2> QED BY <2>1 DEF RoundsOK, Counts, Seen, Beyond
<1> QED BY <1>5, <1>6, <1>7, <1>8, <1>9, <1>10, <1>11, <1>12, <1>13 DEF Next, DrainStep

\* No loop has run.
LEMMA InitRounds == Init => RoundsOK
<1>1. Cardinality(Row) \in Nat
  BY FS_CardinalityType, ShapeAssumption DEF ShapeAssumption
<1> QED BY <1>1 DEF Init, RoundsOK

IInv == TypeOK /\ ScratchOK /\ ResultOK /\ RoundsOK

\* Scratch rows, stored rows and rounds in every state, whatever the batches.
THEOREM Invariance == Spec => []IInv
<1>1. Init => IInv
  BY InitType, InitScratch, InitResult, InitRounds DEF IInv
<1>2. IInv /\ [Next]_vars => IInv'
  <2> SUFFICES ASSUME IInv, [Next]_vars PROVE IInv'
    OBVIOUS
  <2>1. TypeOK'
    BY TypeStep DEF IInv
  <2> QED BY <2>1, ScratchStep, ResultStep, RoundsStep DEF IInv
<1> QED BY <1>1, <1>2, PTL DEF Spec

\* Between drains no scratch row is left (1d_drain.rs: clear_work, clear_deleted, the sweep).
THEOREM Scratch == Spec => []ScratchIsEmpty
<1>1. IInv => ScratchIsEmpty
  <2> SUFFICES ASSUME IInv PROVE ScratchIsEmpty
    OBVIOUS
  <2>1. Held(NoIds) = {}
    BY DEF Held, NoIds
  <2> QED BY <2>1 DEF IInv, ScratchOK, ScratchIsEmpty, Settled, work, InDrain, InPass, Deleting
<1> QED BY <1>1, Invariance, PTL

\* Whatever was drained, the view's rows are the stored members, each once
\* (1e_program.rs: retract_gone, emit_stored, emit_fresh, seed_new, apply_state).
THEOREM Results == Spec => []ResultIsMembers
<1>1. IInv => ResultIsMembers
  BY DEF IInv, ResultOK, ResultIsMembers, Settled, Once
<1> QED BY <1>1, Invariance, PTL

\* No loop runs more rounds than rows can be stored (1d_drain.rs: rounds).
THEOREM Rounds == Spec => []RoundsAreBounded
<1>1. IInv => RoundsAreBounded
  BY DEF IInv, RoundsOK, RoundsAreBounded
<1> QED BY <1>1, Invariance, PTL

-----------------------------------------------------------------------------
(* The recursive query.                                                    *)

\* A set of naturals that holds zero and with each number the next holds all.
LEMMA Upward ==
  ASSUME NEW Good, 0 \in Good, \A n \in Nat : n \in Good => n + 1 \in Good
  PROVE  Nat \subseteq Good
<1> DEFINE Bad == Nat \ Good
<1> SUFFICES ASSUME Bad # {} PROVE FALSE
  OBVIOUS
<1> DEFINE less == OpToRel(<, Nat)
<1>1. IsWellFoundedOn(less, Nat)
  BY NatLessThanWellFounded
<1>2. \A x, y \in Nat : x < y => <<x, y>> \in less
  BY DEF OpToRel
<1> HIDE DEF less
<1>3. PICK n \in Bad : \A m \in Bad : <<m, n>> \notin less
  BY <1>1, WFMin
<1>4. n \in Nat \ {0}
  OBVIOUS
<1>5. n - 1 \in Nat /\ n - 1 < n /\ (n - 1) + 1 = n
  BY <1>4
<1>6. n - 1 \in Good
  BY <1>2, <1>3, <1>5
<1> QED BY <1>5, <1>6

\* One more round of every rule.
Grow(I, S) == S \cup HeadsOf({c \in Clause : Fires(c, I, S)})

\* g lists the first k rounds of the query over the input rows I.
Iterates(I, g, k) ==
  /\ g \in [0 .. k -> SUBSET Row]
  /\ \A n \in 0 .. k : g[n] = IF n = 0 THEN {} ELSE Grow(I, g[n - 1])

\* A round stays among the rows and loses none.
LEMMA GrowRows == \A I : \A S \in SUBSET Row : Grow(I, S) \in SUBSET Row /\ S \subseteq Grow(I, S)
<1>1. \A c \in Clause : c.head \in Row
  BY ShapeAssumption DEF ShapeAssumption
<1> QED BY <1>1 DEF Grow, HeadsOf

\* The iteration goes as far as one likes.
LEMMA CanIterate ==
  ASSUME NEW I, NEW k \in Nat
  PROVE  \E g : Iterates(I, g, k)
<1> DEFINE Good == {n \in Nat : \E g : Iterates(I, g, n)}
<1>1. 0 \in Good
  <2> DEFINE g == [n \in 0 .. 0 |-> {}]
  <2>1. Iterates(I, g, 0)
    BY DEF Iterates
  <2> QED BY <2>1
<1>2. ASSUME NEW n \in Nat, n \in Good
      PROVE  n + 1 \in Good
  <2>1. PICK g : Iterates(I, g, n)
    BY <1>2
  <2> DEFINE h == [m \in 0 .. n + 1 |-> IF m = n + 1 THEN Grow(I, g[n]) ELSE g[m]]
  <2>2. h \in [0 .. n + 1 -> SUBSET Row]
    BY <2>1, GrowRows DEF Iterates
  <2>3. ASSUME NEW m \in 0 .. n + 1
        PROVE  h[m] = IF m = 0 THEN {} ELSE Grow(I, h[m - 1])
    <3>1. CASE m = n + 1
      <4>1. h[m] = Grow(I, g[n]) /\ m - 1 = n /\ n \in 0 .. n + 1 /\ n # n + 1 /\ m # 0
        BY <3>1
      <4>2. h[m - 1] = g[n]
        BY <4>1
      <4> QED BY <4>1, <4>2
    <3>2. CASE m # n + 1
      <4>1. m \in 0 .. n /\ h[m] = g[m]
        BY <3>2
      <4>2. m # 0 => m - 1 \in 0 .. n /\ h[m - 1] = g[m - 1]
        BY <4>1
      <4> HIDE DEF h
      <4> QED BY <2>1, <4>1, <4>2 DEF Iterates
    <3> QED BY <3>1, <3>2
  <2>4. Iterates(I, h, n + 1)
    BY <2>2, <2>3 DEF Iterates
  <2> QED BY <2>4
<1> HIDE DEF Good
<1>3. k \in Good
  BY <1>1, <1>2, Upward
<1> QED BY <1>3 DEF Good

\* The recursion that defines the query is one.
LEMMA LfpIterates ==
  ASSUME NEW I
  PROVE  \E g : Iterates(I, g, Cardinality(Row)) /\ Lfp(I) = g[Cardinality(Row)]
<1> DEFINE K == Cardinality(Row)
           g == CHOOSE g : g = [n \in 0 .. K |->
                                 IF n = 0 THEN {}
                                 ELSE LET S == g[n - 1]
                                      IN  S \cup HeadsOf({c \in Clause : Fires(c, I, S)})]
<1>1. K \in Nat
  BY FS_CardinalityType, ShapeAssumption DEF ShapeAssumption
<1>2. PICK f : Iterates(I, f, K)
  BY <1>1, CanIterate
<1>3. f = [n \in 0 .. K |-> IF n = 0 THEN {}
                            ELSE LET S == f[n - 1]
                                 IN  S \cup HeadsOf({c \in Clause : Fires(c, I, S)})]
  BY <1>2 DEF Iterates, Grow
<1>4. g = [n \in 0 .. K |-> IF n = 0 THEN {}
                            ELSE LET S == g[n - 1]
                                 IN  S \cup HeadsOf({c \in Clause : Fires(c, I, S)})]
  BY <1>3
<1>5. Lfp(I) = g[K]
  BY DEF Lfp
<1> HIDE DEF g
<1>6. \A n \in 0 .. K : g[n] = IF n = 0 THEN {} ELSE Grow(I, g[n - 1])
  BY <1>4 DEF Grow
<1> DEFINE Good == {n \in Nat : n \in 0 .. K => g[n] \in SUBSET Row}
<1>7. 0 \in Good
  BY <1>1, <1>6
<1>8. ASSUME NEW n \in Nat, n \in Good
      PROVE  n + 1 \in Good
  <2> SUFFICES ASSUME n + 1 \in 0 .. K PROVE g[n + 1] \in SUBSET Row
    OBVIOUS
  <2>1. n \in 0 .. K /\ (n + 1) - 1 = n /\ n + 1 # 0
    BY <1>1
  <2>2. g[n] \in SUBSET Row
    BY <1>8, <2>1
  <2>3. g[n + 1] = Grow(I, g[n])
    BY <1>6, <2>1
  <2> QED BY <2>2, <2>3, GrowRows
<1>9. \A n \in 0 .. K : g[n] \in SUBSET Row
  <2> HIDE DEF Good
  <2>1. Nat \subseteq Good
    BY <1>7, <1>8, Upward
  <2> QED BY <2>1 DEF Good
<1>10. g \in [0 .. K -> SUBSET Row]
  BY <1>4, <1>9
<1> QED BY <1>5, <1>6, <1>10 DEF Iterates

\* The query derives nothing a closed set lacks.
LEMMA LfpLeast ==
  ASSUME NEW I, NEW Y, \A c \in Clause : Fires(c, I, Y) => c.head \in Y
  PROVE  Lfp(I) \subseteq Y /\ Lfp(I) \subseteq Row
<1> DEFINE K == Cardinality(Row)
<1>1. K \in Nat
  BY FS_CardinalityType, ShapeAssumption DEF ShapeAssumption
<1>2. PICK g : Iterates(I, g, K) /\ Lfp(I) = g[K]
  BY LfpIterates
<1> HIDE DEF K
<1> DEFINE Good == {n \in Nat : n \in 0 .. K => g[n] \subseteq Y}
<1>3. 0 \in Good
  BY <1>2 DEF Iterates
<1>4. ASSUME NEW n \in Nat, n \in Good
      PROVE  n + 1 \in Good
  <2> SUFFICES ASSUME n + 1 \in 0 .. K PROVE g[n + 1] \subseteq Y
    OBVIOUS
  <2>1. n \in 0 .. K /\ (n + 1) - 1 = n /\ n + 1 # 0
    BY <1>1
  <2>2. g[n] \subseteq Y
    BY <1>4, <2>1
  <2>3. g[n + 1] = Grow(I, g[n])
    BY <1>2, <2>1 DEF Iterates
  <2>4. \A c \in Clause : Fires(c, I, g[n]) => Fires(c, I, Y)
    BY <2>2 DEF Fires, ReadsMember
  <2> QED BY <2>2, <2>3, <2>4 DEF Grow, HeadsOf
<1>5. Nat \subseteq Good
  <2> HIDE DEF Good
  <2> QED BY <1>3, <1>4, Upward
<1> QED BY <1>1, <1>2, <1>5 DEF Iterates

\* As many rounds as there are rows derive everything: each but the last ones
\* derives a new row.
LEMMA LfpClosed ==
  ASSUME NEW I, NEW c \in Clause, Fires(c, I, Lfp(I))
  PROVE  c.head \in Lfp(I)
<1> DEFINE K == Cardinality(Row)
<1>1. K \in Nat /\ IsFiniteSet(Row)
  BY FS_CardinalityType, ShapeAssumption DEF ShapeAssumption
<1>2. PICK g : Iterates(I, g, K) /\ Lfp(I) = g[K]
  BY LfpIterates
<1> DEFINE Good == {n \in Nat : n \in 0 .. K =>
                      Grow(I, g[n]) = g[n] \/ n <= Cardinality(g[n])}
<1>3. 0 \in Good
  BY <1>2, FS_EmptySet DEF Iterates
<1>4. ASSUME NEW n \in Nat, n \in Good
      PROVE  n + 1 \in Good
  <2> SUFFICES ASSUME n + 1 \in 0 .. K
               PROVE  Grow(I, g[n + 1]) = g[n + 1] \/ n + 1 <= Cardinality(g[n + 1])
    OBVIOUS
  <2>1. n \in 0 .. K /\ (n + 1) - 1 = n /\ n + 1 # 0
    BY <1>1
  <2>2. g[n + 1] = Grow(I, g[n])
    BY <1>2, <2>1 DEF Iterates
  <2>3. Grow(I, g[n]) = g[n] \/ n <= Cardinality(g[n])
    BY <1>4, <2>1
  <2>4. g[n] \in SUBSET Row /\ g[n + 1] \in SUBSET Row /\ g[n] \subseteq g[n + 1]
    BY <1>2, <2>1, <2>2, GrowRows DEF Iterates
  <2>5. CASE Grow(I, g[n]) = g[n]
    BY <2>2, <2>5
  <2>6. CASE Grow(I, g[n]) # g[n]
    <3>1. PICK r \in g[n + 1] : r \notin g[n]
      BY <2>2, <2>4, <2>6
    <3> DEFINE A == g[n]
               B == g[n + 1]
    <3>2. IsFiniteSet(A) /\ IsFiniteSet(B) /\ A \cup {r} \subseteq B /\ r \notin A
      BY <1>1, <2>4, <3>1, FS_Subset
    <3>3. n <= Cardinality(A)
      BY <2>3, <2>6
    <3> HIDE DEF A, B
    <3>4. /\ Cardinality(A \cup {r}) = Cardinality(A) + 1
          /\ Cardinality(A \cup {r}) <= Cardinality(B)
          /\ Cardinality(A) \in Nat /\ Cardinality(B) \in Nat
      BY <3>2, FS_AddElement, FS_Subset, FS_CardinalityType
    <3>5. n + 1 <= Cardinality(B)
      BY <3>3, <3>4
    <3> QED BY <3>5 DEF B
  <2> QED BY <2>5, <2>6
<1>5. K \in Good
  <2> HIDE DEF Good
  <2> QED BY <1>1, <1>3, <1>4, Upward
<1>6. Grow(I, g[K]) = g[K]
  <2>1. g[K] \in SUBSET Row
    BY <1>1, <1>2 DEF Iterates
  <2>2. CASE K <= Cardinality(g[K])
    <3>1. IsFiniteSet(g[K]) /\ Cardinality(g[K]) \in Nat /\ Cardinality(g[K]) <= K
      BY <1>1, <2>1, FS_Subset, FS_CardinalityType
    <3>2. Cardinality(g[K]) = K
      BY <1>1, <2>2, <3>1
    <3>3. g[K] = Row
      BY <1>1, <2>1, <3>2, FS_Subset
    <3> QED BY <2>1, <3>3, GrowRows
  <2> QED BY <1>1, <1>5, <2>2
<1> QED BY <1>2, <1>6 DEF Grow, HeadsOf

-----------------------------------------------------------------------------
(* Inputs.                                                                 *)

\* An input row at each side that can read it.
On(I) == (1 .. Sides) \X I

\* What the sides before s have arrived at and the others have not lost.
Mixed(s) == {p \in On(AfterIn) : p[1] >= s => p[2] \in BeforeIn}

\* Every clause that fires from I and a member of M has its head, by key, in H.
Closed(I, M, H) ==
  \A c \in Clause : c.body \subseteq I /\ ReadsMember(c, M) => HasKey(H, c.head)

\* Input rows a source has.
Stocked(src) == {f \in Fact : src[f] > 0}

\* A ground rule as the compiler makes it, at most one row of an input per occurrence.
LEMMA ClauseShape ==
  /\ Sides \in Nat /\ Rules \in Nat /\ NoMember \notin Row /\ Key \in [Row -> Row]
  /\ \A c \in Clause :
       /\ c.rule \in 1 .. Rules /\ c.head \in Row
       /\ c.member \in Row \cup {NoMember}
       /\ c.body \subseteq On(Fact)
       /\ \A p \in c.body : p[1] \in 1 .. Sides /\ p[2] \in Fact /\ p[2] \in Reads[p[1]]
                            /\ p = <<p[1], p[2]>>
       /\ \A p, q \in c.body : p[1] = q[1] => p = q
BY ShapeAssumption DEF ShapeAssumption, On

\* A clause fires from input rows when its body is among them at their sides.
LEMMA FiresOn ==
  ASSUME NEW c \in Clause, NEW I \in SUBSET Fact, NEW M
  PROVE  Fires(c, I, M) <=> c.body \subseteq On(I) /\ ReadsMember(c, M)
BY ClauseShape DEF Fires, On

\* A batch is what arrives and what leaves.
LEMMA Batches ==
  ASSUME SourcesOK, NEW s \in 1 .. Sides, NEW f \in Fact, f \in Reads[s]
  PROVE  /\ f \in AfterIn /\ f \notin BeforeIn => f \in Arrived(s)
         /\ f \in BeforeIn /\ f \notin AfterIn => f \in Left(s)
         /\ ~Touched(s) => (f \in AfterIn <=> f \in BeforeIn)
         /\ f \in Left(s) => f \notin AfterIn /\ f \in BeforeIn
         /\ f \in Arrived(s) => f \in AfterIn /\ f \notin BeforeIn
<1>1. support[f] \in Nat /\ pending[f] \in Int /\ support[f] - pending[f] \in Nat
  BY ShapeAssumption DEF SourcesOK, ShapeAssumption
<1> QED BY <1>1 DEF AfterIn, BeforeIn, Arrived, Left, Touched

\* A side that rows leave is not skipped.
LEMMA LeftIsTouched == ASSUME NEW s, Left(s) # {} PROVE Touched(s)
BY DEF Left, Touched

\* Past the last side only the new inputs count, at the first only rows that stay.
LEMMA MixedLast == ASSUME NEW s \in Nat, s > Sides PROVE Mixed(s) = On(AfterIn)
BY ClauseShape DEF Mixed, On

\* At the first side only rows of the last drain count.
LEMMA MixedFirst == Mixed(1) \subseteq On(BeforeIn)
BY DEF Mixed, On, BeforeIn

\* No side reads a row that left the inputs.
LEMMA MixedAfter == \A s : Mixed(s) \subseteq On(AfterIn)
BY DEF Mixed

\* Fewer inputs, fewer clauses to be closed under.
LEMMA ClosedLess ==
  ASSUME NEW I, NEW J, NEW M, NEW H, Closed(I, M, H),
         \A c \in Clause : c.body \subseteq J => c.body \subseteq I
  PROVE  Closed(J, M, H)
BY DEF Closed

\* Nothing moved at an untouched side.
LEMMA MixedSkip ==
  ASSUME SourcesOK, NEW s \in 1 .. Sides, ~Touched(s), NEW c \in Clause,
         c.body \subseteq Mixed(s + 1)
  PROVE  c.body \subseteq Mixed(s)
<1> SUFFICES ASSUME NEW p \in c.body PROVE p \in Mixed(s)
  OBVIOUS
<1>1. p \in On(AfterIn) /\ (p[1] >= s + 1 => p[2] \in BeforeIn)
  BY DEF Mixed
<1>2. p[1] \in 1 .. Sides /\ p[2] \in Fact /\ p[2] \in Reads[p[1]] /\ p[2] \in AfterIn
  BY <1>1, ClauseShape DEF On
<1>3. p[1] = s => p[2] \in BeforeIn
  BY <1>2, Batches
<1> QED BY <1>1, <1>2, <1>3 DEF Mixed

-----------------------------------------------------------------------------
(* Rounds close the table.                                                 *)

\* Up to the highest rowid is everything stored.
LEMMA TopIsAll ==
  ASSUME NEW id \in [Row -> Nat], NEW hi, IsTop(id, hi)
  PROVE  InRange(id, 0, hi) = Held(id)
BY DEF InRange, Held, IsTop

\* Inserting rows that conflict by key leaves every key stored.
LEMMA StoresKeys ==
  ASSUME NEW M, NEW H, NEW N \in Stores(M, H)
  PROVE  /\ \A h \in H : HasKey(M \cup N, h)
         /\ \A n \in N : n \notin M /\ n \in H
BY DEF Stores, HasKey

\* A larger table has every key of a smaller.
LEMMA HasMore == ASSUME NEW M, NEW H, NEW r, HasKey(M, r), M \subseteq H PROVE HasKey(H, r)
BY DEF HasKey

\* What a statement stores in the member table.
LEMMA Stored ==
  ASSUME TypeOK, NEW H \in SUBSET Row, NEW N \in Stores(all, H),
         allId' = Insert(allId, allSeq, N)
  PROVE  /\ all' = all \cup N /\ N \subseteq H
         /\ \A h \in H : HasKey(all', h)
         /\ \A k \in Nat : k <= allSeq => InRange(allId', 0, k) = InRange(allId, 0, k)
<1>1. allId \in [Row -> Nat] /\ allSeq \in Nat
  BY DEF TypeOK, MembersOK
<1>2. (\A n \in N : n \notin all /\ n \in H) /\ \A h \in H : HasKey(all \cup N, h)
  BY StoresKeys
<1>3. all' = all \cup N
  BY <1>1, <1>2, InsertHolds DEF all
<1>4. \A k \in Nat : k <= allSeq => InRange(allId', 0, k) = InRange(allId, 0, k)
  BY <1>1, <1>2, InsertKeepsOld DEF all
<1> QED BY <1>2, <1>3, <1>4

\* A round extends what its loop has closed to the rowids it goes through.
LEMMA RoundCloses ==
  ASSUME TypeOK, NEW I, I \subseteq On(AfterIn), Closed(I, Seen(allId), all),
         NEW hi \in Nat, IsTop(allId, hi),
         NEW N \in Stores(all, RoundHeads(AfterIn, InRange(allId, from, hi))),
         allId' = Insert(allId, allSeq, N), from' = hi
  PROVE  Closed(I, Seen(allId)', all')
<1>1. allId \in [Row -> Nat] /\ allSeq \in Nat /\ \A r \in Row : allId[r] <= allSeq
      /\ from \in Nat
  BY DEF TypeOK, MembersOK, ControlOK
<1>2. hi <= allSeq
  BY <1>1 DEF IsTop
<1> DEFINE H == RoundHeads(AfterIn, InRange(allId, from, hi))
<1>3. H \in SUBSET Row
  BY HeadsAreRows
<1>4. /\ all' = all \cup N /\ \A h \in H : HasKey(all', h)
      /\ InRange(allId', 0, hi) = InRange(allId, 0, hi)
  BY <1>2, <1>3, Stored
<1>5. Seen(allId)' = InRange(allId, 0, hi)
  BY <1>4 DEF Seen
<1>6. ASSUME NEW c \in Clause, c.body \subseteq I, ReadsMember(c, InRange(allId, 0, hi))
      PROVE  HasKey(all', c.head)
  <2>1. CASE ReadsMember(c, Seen(allId))
    BY <1>4, <1>6, <2>1, HasMore DEF Closed
  <2>2. CASE ~ReadsMember(c, Seen(allId))
    <3>1. c.member \in InRange(allId, from, hi)
      BY <1>1, <1>6, <2>2 DEF ReadsMember, Seen, InRange
    <3>2. AfterIn \in SUBSET Fact
      BY DEF AfterIn
    <3>3. Fires(c, AfterIn, InRange(allId, from, hi))
      BY <1>6, <3>1, <3>2, FiresOn DEF ReadsMember
    <3>4. c.head \in H
      BY <3>1, <3>3 DEF RoundHeads, HeadsOf
    <3> QED BY <1>4, <3>4
  <2> QED BY <2>1, <2>2
<1> QED BY <1>5, <1>6 DEF Closed

\* A loop that ends has closed the table.
LEMMA EndCloses ==
  ASSUME TypeOK, NEW I, Closed(I, Seen(allId), all), IsTop(allId, from)
  PROVE  Closed(I, all, all)
<1>1. Seen(allId) = all
  BY TopIsAll DEF Seen, all, TypeOK, MembersOK
<1> QED BY <1>1

-----------------------------------------------------------------------------
(* No member is missing.                                                   *)

Making == phase \in {"absent", "anchor", "populate"}

\* While the view is made nothing is staged; a drain visits its sides in order.
PlaceOK ==
  /\ Making => pending = [f \in Fact |-> 0] /\ ~partial
  /\ InDrain \/ phase = "anchor" => at >= 1
  /\ InPass => at <= Sides

\* Population: the anchors run so far have their heads, the rounds theirs.
MadeClosed ==
  /\ phase = "anchor" =>
       \A c \in Clause : c.rule < at /\ c.member = NoMember /\ c.body \subseteq On(AfterIn)
                           => HasKey(all, c.head)
  /\ phase = "populate" => Closed(On(AfterIn), Seen(allId), all)

\* What ROLLBACK restores is closed.
SavedClosed ==
  ~Making /\ ~saved.partial =>
    Closed(On(Stocked(saved.support)), Held(saved.allId), Held(saved.allId))

\* A drain closes the members for one side's new rows after the other.
HeldClosed ==
  ~partial =>
    /\ phase = "idle" => Closed(On(BeforeIn), all, all)
    /\ phase \in {"side", "arrive"} => Closed(Mixed(at), all, all)
    /\ phase = "delete" => /\ Closed(Mixed(at), Was, Was)
                           /\ \A d \in deleted : HasKey(work, d)
    /\ phase = "restored" => Closed(Mixed(at), Seen(allId), all)
    /\ phase = "arrived" => Closed(Mixed(at + 1), Seen(allId), all)

ClosedOK == PlaceOK /\ MadeClosed /\ SavedClosed /\ HeldClosed

\* Before the view is made there is nothing to close.
LEMMA InitClosed == Init => ClosedOK
<1> SUFFICES ASSUME Init PROVE ClosedOK
  OBVIOUS
<1>1. phase = "absent" /\ ~partial /\ pending = [f \in Fact |-> 0]
  BY Zenon DEF Init
<1> QED BY <1>1 DEF ClosedOK, PlaceOK, MadeClosed, SavedClosed, HeldClosed, Making,
                    InDrain, InPass

\* The turn of the sides: 1, then each next, in a drain that starts from a made view.
LEMMA PlaceStep == ASSUME TypeOK, PlaceOK, [Next]_vars PROVE PlaceOK'
<1> USE DEF PlaceOK, Making, InDrain, InPass
<1>a. at \in Nat /\ Sides \in Nat
  BY ClauseShape DEF TypeOK, ControlOK
<1>1. CASE Create \/ Anchor \/ AnchorsDone \/ PopulateRound \/ PopulateFails
  BY <1>a, <1>1 DEF Create, Anchor, AnchorsDone, PopulateRound, PopulateFails, sources, txn
<1>2. CASE Populated \/ Apply \/ CommitFails \/ ReadFails
  BY <1>2 DEF Populated, Apply, CommitFails, ReadFails
<1>3. CASE (\E f \in Fact : \E d \in {-1, 1} : Write(f, d)) \/ Commit \/ Rollback
  BY <1>3 DEF Write, Commit, Rollback
<1>4. CASE (\E read \in BOOLEAN : StartDrain(read)) \/ SkipSide \/ Emit
  BY <1>a, <1>4 DEF StartDrain, SkipSide, Emit
<1>5. CASE StartArrivals \/ StartDepartures
  BY <1>a, <1>5 DEF StartArrivals, StartDepartures
<1>6. CASE DeleteRound \/ Restore \/ DeriveRound \/ RestoreDone \/ Arrive
  BY <1>a, <1>6 DEF DeleteRound, Restore, DeriveRound, RestoreDone, Arrive, control
<1>7. CASE UNCHANGED vars
  BY <1>7 DEF vars, sources, control, txn
<1> QED BY <1>1, <1>2, <1>3, <1>4, <1>5, <1>6, <1>7 DEF Next, DrainStep

\* Inputs move with the sources and the batch alone.
LEMMA SameInputs ==
  ASSUME UNCHANGED sources
  PROVE  AfterIn' = AfterIn /\ BeforeIn' = BeforeIn /\ \A s : Mixed(s)' = Mixed(s)
BY DEF sources, AfterIn, BeforeIn, Mixed, On

\* Nothing staged: the inputs of the last drain are the inputs.
LEMMA NothingStaged ==
  ASSUME SourcesOK, \A f \in Fact : pending[f] = 0
  PROVE  BeforeIn = AfterIn /\ AfterIn = Stocked(support)
BY ShapeAssumption DEF SourcesOK, BeforeIn, AfterIn, Stocked, ShapeAssumption

\* A population that ends has closed the table.
LEMMA PopulateCloses ==
  ASSUME TypeOK, Closed(On(AfterIn), Seen(allId), all), NEW hi, IsTop(allId, hi),
         hi = from \/ {} \in Stores(all, RoundHeads(AfterIn, InRange(allId, from, hi)))
  PROVE  Closed(On(AfterIn), all, all)
<1>1. CASE hi = from
  BY <1>1, EndCloses
<1>2. CASE {} \in Stores(all, RoundHeads(AfterIn, InRange(allId, from, hi)))
  <2>1. \A h \in RoundHeads(AfterIn, InRange(allId, from, hi)) : HasKey(all, h)
    BY <1>2 DEF Stores
  <2>2. ASSUME NEW c \in Clause, c.body \subseteq On(AfterIn), ReadsMember(c, all),
               ~ReadsMember(c, Seen(allId))
        PROVE  HasKey(all, c.head)
    <3>1. c.member \in InRange(allId, from, hi)
      <4>1. c.member \in all /\ c.member \notin Seen(allId)
        BY <2>2 DEF ReadsMember
      <4>2. allId \in [Row -> Nat] /\ from \in Nat
        BY DEF TypeOK, MembersOK, ControlOK
      <4> QED BY <4>1, <4>2 DEF Seen, InRange, all, Held, IsTop
    <3>2. AfterIn \in SUBSET Fact
      BY DEF AfterIn
    <3>3. Fires(c, AfterIn, InRange(allId, from, hi))
      BY <2>2, <3>1, <3>2, FiresOn DEF ReadsMember
    <3>4. c.head \in RoundHeads(AfterIn, InRange(allId, from, hi))
      BY <3>1, <3>3 DEF RoundHeads, HeadsOf
    <3> QED BY <2>1, <3>4
  <2> QED BY <2>2 DEF Closed
<1> QED BY <1>1, <1>2

\* Each rule's anchors, then each rowid, once.
LEMMA MadeStep ==
  ASSUME TypeOK, RoundsOK, PlaceOK, MadeClosed, [Next]_vars
  PROVE  MadeClosed'
<1>1. CASE Create
  <2>1. phase' = "anchor" /\ at' = 1
    BY <1>1 DEF Create
  <2> QED BY <2>1, ClauseShape DEF MadeClosed
<1>2. CASE Anchor
  <2>1. phase = "anchor" /\ phase' = "anchor" /\ at' = at + 1 /\ UNCHANGED sources
    BY <1>2 DEF Anchor
  <2>2. PICK N \in Stores(all, RuleHeads(at)) : allId' = Insert(allId, allSeq, N)
    BY <1>2 DEF Anchor
  <2>3. RuleHeads(at) \in SUBSET Row
    BY HeadsAreRows
  <2>4. /\ all' = all \cup N
        /\ \A h \in RuleHeads(at) : HasKey(all', h)
    BY <2>2, <2>3, Stored
  <2>5. AfterIn' = AfterIn /\ AfterIn \in SUBSET Fact
    BY <2>1, SameInputs DEF AfterIn
  <2>6. ASSUME NEW c \in Clause, c.rule < at + 1, c.member = NoMember,
               c.body \subseteq On(AfterIn)
        PROVE  HasKey(all', c.head)
    <3>1. CASE c.rule < at
      BY <2>1, <2>4, <2>6, <3>1, HasMore DEF MadeClosed
    <3>2. CASE ~(c.rule < at)
      <4>1. c.rule \in Nat /\ at \in Nat
        BY ClauseShape DEF TypeOK, ControlOK
      <4>2. c.rule = at
        BY <2>6, <3>2, <4>1
      <4>3. Fires(c, AfterIn, all)
        BY <2>5, <2>6, FiresOn DEF ReadsMember
      <4>4. c.head \in RuleHeads(at)
        BY <4>2, <4>3 DEF RuleHeads, HeadsOf
      <4> QED BY <2>4, <4>4
    <3> QED BY <3>1, <3>2
  <2>7. On(AfterIn)' = On(AfterIn)
    BY <2>5 DEF On
  <2> QED BY <2>1, <2>6, <2>7 DEF MadeClosed
<1>3. CASE AnchorsDone
  <2>1. /\ phase = "anchor" /\ at > Rules /\ phase' = "populate"
        /\ UNCHANGED <<sources, allId, from>>
    BY <1>3 DEF AnchorsDone, tables
  <2>2. from = 0
    BY <2>1 DEF RoundsOK
  <2>3. Seen(allId)' = {} /\ all' = all /\ On(AfterIn)' = On(AfterIn)
    BY <2>1, <2>2, SameInputs DEF Seen, InRange, all, On, TypeOK, MembersOK
  <2>4. ASSUME NEW c \in Clause, c.body \subseteq On(AfterIn), ReadsMember(c, {})
        PROVE  HasKey(all, c.head)
    <3>1. c.member = NoMember /\ c.rule < at
      BY <2>1, <2>4, ClauseShape DEF ReadsMember, TypeOK, ControlOK
    <3> QED BY <2>1, <2>4, <3>1 DEF MadeClosed
  <2> QED BY <2>1, <2>3, <2>4 DEF MadeClosed, Closed
<1>4. CASE PopulateRound
  <2>1. /\ phase = "populate" /\ phase' = "populate" /\ UNCHANGED sources
        /\ \E hi \in 0 .. allSeq : IsTop(allId, hi) /\ from' = hi
             /\ \E N \in Stores(all, RoundHeads(AfterIn, InRange(allId, from, hi))) :
                  allId' = Insert(allId, allSeq, N)
    BY <1>4 DEF PopulateRound
  <2>2. allSeq \in Nat
    BY DEF TypeOK, MembersOK
  <2>3. Closed(On(AfterIn), Seen(allId), all)
    BY <2>1 DEF MadeClosed
  <2>4. Closed(On(AfterIn), Seen(allId)', all')
    BY <2>1, <2>2, <2>3, RoundCloses
  <2>5. On(AfterIn)' = On(AfterIn)
    BY <2>1, SameInputs DEF On
  <2> QED BY <2>1, <2>4, <2>5 DEF MadeClosed, Closed
<1>5. CASE phase' \notin {"anchor", "populate"}
  BY <1>5 DEF MadeClosed
<1>6. CASE UNCHANGED vars
  BY <1>6, SameInputs
  DEF vars, sources, tables, control, MadeClosed, Closed, On, Seen, all, AfterIn
<1>7. Populated \/ PopulateFails \/ (\E f \in Fact : \E d \in {-1, 1} : Write(f, d))
      \/ (\E read \in BOOLEAN : StartDrain(read)) \/ Commit \/ Rollback \/ DrainStep
        => phase' \notin {"anchor", "populate"}
  BY DEF Populated, PopulateFails, Write, StartDrain, Commit, Rollback, DrainStep, SkipSide,
         StartArrivals, StartDepartures, DeleteRound, Restore, DeriveRound, RestoreDone,
         Arrive, Emit, Apply, CommitFails, ReadFails
<1> QED BY <1>1, <1>2, <1>3, <1>4, <1>5, <1>6, <1>7 DEF Next

\* A commit keeps what is between drains for ROLLBACK, nothing else does.
LEMMA SavedMoves ==
  ASSUME [Next]_vars
  PROVE  Populated \/ Commit \/ Apply \/ (UNCHANGED saved /\ (Making => Making'))
<1>1. Create \/ Anchor \/ AnchorsDone \/ PopulateRound \/ PopulateFails
      \/ (\E f \in Fact : \E d \in {-1, 1} : Write(f, d))
      \/ (\E read \in BOOLEAN : StartDrain(read)) \/ Rollback
        => UNCHANGED saved /\ (Making => Making')
  BY DEF Create, Anchor, AnchorsDone, PopulateRound, PopulateFails, Write, StartDrain,
         Rollback, txn, control, Making
<1>2. DrainStep => Apply \/ (UNCHANGED saved /\ ~Making)
  BY DEF DrainStep, SkipSide, StartArrivals, StartDepartures, DeleteRound, Restore,
         DeriveRound, RestoreDone, Arrive, Emit, CommitFails, ReadFails, Fails, Budgeted,
         txn, Making
<1>3. UNCHANGED vars => UNCHANGED saved /\ (Making => Making')
  BY DEF vars, txn, Making
<1> QED BY <1>1, <1>2, <1>3 DEF Next

\* Every commit leaves closed members behind.
LEMMA SavedStep ==
  ASSUME TypeOK, PlaceOK, MadeClosed, SavedClosed, HeldClosed, [Next]_vars
  PROVE  SavedClosed'
<1>1. CASE Populated
  <2>1. /\ saved'.support = support /\ saved'.allId = allId /\ phase = "populate"
        /\ \E hi : IsTop(allId, hi)
             /\ \/ hi = from
                \/ {} \in Stores(all, RoundHeads(AfterIn, InRange(allId, from, hi)))
    BY <1>1 DEF Populated, Snapshot
  <2>2. On(Stocked(support)) = On(AfterIn)
    BY DEF On, Stocked, AfterIn
  <2>3. Closed(On(AfterIn), all, all)
    BY <2>1, PopulateCloses DEF MadeClosed
  <2> QED BY <2>1, <2>2, <2>3 DEF SavedClosed, all
<1>2. CASE Commit
  <2>1. /\ phase = "idle" /\ saved'.support = support /\ saved'.allId = allId
        /\ saved'.partial = partial /\ \A f \in Fact : pending[f] = 0
    BY <1>2 DEF Commit, Snapshot, Staged
  <2>2. BeforeIn = Stocked(support)
    BY <2>1, NothingStaged DEF TypeOK
  <2> QED BY <2>1, <2>2 DEF SavedClosed, HeldClosed, all
<1>3. CASE Apply
  <2>1. \/ saved' = saved
        \/ /\ saved'.support = support /\ saved'.allId = allId /\ saved'.partial = partial
    BY <1>3 DEF Apply, Snapshot
  <2>2. CASE saved' = saved
    BY <1>3, <2>2 DEF Apply, SavedClosed, Making
  <2>3. CASE saved'.support = support /\ saved'.allId = allId /\ saved'.partial = partial
    <3>1. phase = "side" /\ at > Sides /\ at \in Nat
      BY <1>3 DEF Apply, TypeOK, ControlOK
    <3>2. Mixed(at) = On(Stocked(support))
      BY <3>1, MixedLast DEF Stocked, AfterIn
    <3> QED BY <2>3, <3>1, <3>2 DEF SavedClosed, HeldClosed, all
  <2> QED BY <2>1, <2>2, <2>3
<1>4. CASE UNCHANGED saved /\ (Making => Making')
  BY <1>4 DEF SavedClosed
<1> QED BY <1>1, <1>2, <1>3, <1>4, SavedMoves

\* A clause that newly fires for side s reads a row that arrived there.
LEMMA ArrivalFires ==
  ASSUME SourcesOK, NEW s \in 1 .. Sides, NEW c \in Clause, c.body \subseteq Mixed(s + 1),
         ~(c.body \subseteq Mixed(s)), ReadsMember(c, all)
  PROVE  c.head \in SideHeads(s, Arrived(s), AfterIn)
<1>1. PICK p \in c.body : p \notin Mixed(s)
  OBVIOUS
<1>2. p \in On(AfterIn) /\ (p[1] >= s + 1 => p[2] \in BeforeIn)
  BY DEF Mixed
<1>3. /\ p[1] \in 1 .. Sides /\ p[2] \in Fact /\ p[2] \in Reads[p[1]] /\ p = <<p[1], p[2]>>
      /\ p[2] \in AfterIn
  BY <1>2, ClauseShape DEF On
<1>4. p[1] = s /\ p[2] \notin BeforeIn
  BY <1>1, <1>2, <1>3 DEF Mixed
<1>5. p[2] \in Arrived(s)
  BY <1>3, <1>4, Batches
<1>6. \A q \in c.body : q[2] \in AfterIn
  BY ClauseShape DEF Mixed, On
<1>7. FiresAt(c, s, Arrived(s), AfterIn, all)
  BY <1>3, <1>4, <1>5, <1>6 DEF FiresAt
<1> QED BY <1>7 DEF SideHeads, HeadsOf

\* Arrivals: what the pass found before keeps its heads, the new rows have theirs.
LEMMA ArriveCloses ==
  ASSUME TypeOK, at \in 1 .. Sides, Closed(Mixed(at), all, all), Arrive, start <= allSeq
  PROVE  Closed(Mixed(at + 1), Seen(allId)', all')
<1>1. PICK N \in Stores(all, SideHeads(at, Arrived(at), AfterIn)) :
            allId' = Insert(allId, allSeq, N)
  BY DEF Arrive
<1>2. SideHeads(at, Arrived(at), AfterIn) \in SUBSET Row
  BY HeadsAreRows
<1>3. start \in Nat /\ from' = start /\ SourcesOK
  BY DEF TypeOK, ControlOK, Arrive
<1>4. /\ all' = all \cup N
      /\ \A h \in SideHeads(at, Arrived(at), AfterIn) : HasKey(all', h)
      /\ InRange(allId', 0, start) = InRange(allId, 0, start)
  BY <1>1, <1>2, <1>3, Stored
<1>5. Seen(allId)' \subseteq all
  BY <1>3, <1>4 DEF Seen, InRange, all, Held
<1>6. ASSUME NEW c \in Clause, c.body \subseteq Mixed(at + 1), ReadsMember(c, all)
      PROVE  HasKey(all', c.head)
  BY <1>3, <1>4, <1>6, ArrivalFires, HasMore DEF Closed
<1> QED BY <1>5, <1>6 DEF Closed, ReadsMember

\* Restore: a member that lost one derivation and keeps another comes back.
LEMMA RestoreCloses ==
  ASSUME TypeOK, ResultOK, phase = "delete", ~partial, Restore, NEW I, I \subseteq On(AfterIn),
         Closed(I, Was, Was), \A d \in deleted : HasKey(work, d)
  PROVE  Closed(I, Seen(allId)', all')
<1>1. PICK N \in Stores(all, Restorable(work)) : allId' = Insert(allId, allSeq, N)
  BY DEF Restore
<1>2. work \in SUBSET Row
  BY DEF work, Held
<1>3. PICK top \in 0 .. allSeq : IsTop(allId, top) /\ from' = top
  BY DEF Restore
<1>4. /\ allId \in [Row -> Nat] /\ allSeq \in Nat /\ start \in Nat
      /\ Restorable(work) \in SUBSET Row
  BY <1>2, HeadsAreRows DEF TypeOK, MembersOK, ControlOK
<1>5. /\ all' = all \cup N /\ \A h \in Restorable(work) : HasKey(all', h)
      /\ InRange(allId', 0, top) = InRange(allId, 0, top)
  BY <1>1, <1>3, <1>4, Stored
<1>6. Seen(allId)' = all
  BY <1>3, <1>4, <1>5, TopIsAll DEF Seen, all
<1>7. all \subseteq Was /\ Old \subseteq all
  BY <1>4 DEF ResultOK, Was, Old, InRange, all, Held
<1>8. ASSUME NEW c \in Clause, c.body \subseteq I, ReadsMember(c, all)
      PROVE  HasKey(all', c.head)
  <2>1. PICK m \in Was : Key[m] = Key[c.head]
    BY <1>7, <1>8 DEF Closed, ReadsMember, HasKey
  <2>2. CASE m \in Old
    BY <1>5, <1>7, <2>1, <2>2 DEF HasKey
  <2>3. CASE m \in deleted
    <3>1. PICK w \in work : Key[w] = Key[c.head]
      BY <2>1, <2>3 DEF HasKey
    <3>2. AfterIn \in SUBSET Fact
      BY DEF AfterIn
    <3>3. Fires(c, AfterIn, all)
      BY <1>8, <3>2, FiresOn
    <3>4. w \in Restorable(work)
      BY <3>1, <3>3 DEF Restorable
    <3> QED BY <1>5, <3>1, <3>4 DEF HasKey
  <2> QED BY <2>1, <2>2, <2>3 DEF Was
<1> QED BY <1>6, <1>8 DEF Closed

\* A step of a drain extends or restores what its phase has closed.
LEMMA HeldStep ==
  ASSUME TypeOK, ScratchOK, ResultOK, PlaceOK, MadeClosed, SavedClosed, HeldClosed, [Next]_vars
  PROVE  HeldClosed'
<1> USE DEF InPass
<1>a. /\ allId \in [Row -> Nat] /\ allSeq \in Nat /\ at \in Nat /\ start \in Nat
      /\ Sides \in Nat /\ SourcesOK
  BY ClauseShape DEF TypeOK, MembersOK, ControlOK
<1>1. CASE Create \/ Anchor \/ AnchorsDone \/ PopulateRound \/ PopulateFails
  BY <1>1 DEF Create, Anchor, AnchorsDone, PopulateRound, PopulateFails, HeldClosed
<1>2. CASE Populated
  <2>1. /\ phase = "populate" /\ phase' = "idle" /\ UNCHANGED <<sources, allId>>
        /\ \E hi : IsTop(allId, hi)
             /\ \/ hi = from
                \/ {} \in Stores(all, RoundHeads(AfterIn, InRange(allId, from, hi)))
    BY <1>2 DEF Populated
  <2>2. Closed(On(AfterIn), all, all)
    BY <2>1, PopulateCloses DEF MadeClosed
  <2>3. BeforeIn = AfterIn
    BY <1>a, <2>1, NothingStaged DEF PlaceOK, Making
  <2>4. all' = all /\ On(BeforeIn)' = On(AfterIn)
    BY <2>1, <2>3, SameInputs DEF all, On
  <2> QED BY <2>1, <2>2, <2>4 DEF HeldClosed, Closed
<1>3. CASE \E f \in Fact : \E d \in {-1, 1} : Write(f, d)
  <2>1. /\ phase = "idle" /\ phase' = "idle" /\ UNCHANGED <<allId, partial>>
        /\ \A f \in Fact : support'[f] - pending'[f] = support[f] - pending[f]
    BY <1>a, <1>3, ShapeAssumption DEF Write, tables, txn, SourcesOK, ShapeAssumption
  <2>2. all' = all /\ BeforeIn' = BeforeIn
    BY <2>1 DEF all, BeforeIn
  <2>3. On(BeforeIn)' = On(BeforeIn)
    BY <2>2 DEF On
  <2> QED BY <2>1, <2>2, <2>3 DEF HeldClosed, Closed
<1>4. CASE \E read \in BOOLEAN : StartDrain(read)
  <2>1. /\ phase = "idle" /\ phase' = "side" /\ at' = 1
        /\ UNCHANGED <<sources, allId, partial>>
    BY <1>4 DEF StartDrain, tables
  <2>2. all' = all /\ Mixed(at)' \subseteq On(BeforeIn)
    BY <2>1, MixedFirst, SameInputs DEF all, Mixed, On
  <2> QED BY <2>1, <2>2 DEF HeldClosed, Closed
<1>5. CASE Commit
  <2>1. phase = "idle" /\ UNCHANGED <<sources, allId, phase, partial>>
    BY <1>5 DEF Commit, tables
  <2>2. all' = all /\ On(BeforeIn)' = On(BeforeIn)
    BY <2>1, SameInputs DEF all, On
  <2> QED BY <2>1, <2>2 DEF HeldClosed, Closed
<1>6. CASE Rollback \/ CommitFails
  <2>1. /\ allId' = saved.allId /\ partial' = saved.partial /\ phase' = "idle"
        /\ support' = saved.support /\ pending' = [f \in Fact |-> 0] /\ ~Making
    BY <1>6 DEF Rollback, CommitFails, Restored, Fails, Budgeted, Making
  <2>2. saved.support \in [Fact -> 0 .. MaxCopies]
    BY DEF TypeOK, SavedOK
  <2>3. BeforeIn' = Stocked(saved.support)
    BY <2>1, <2>2, ShapeAssumption DEF BeforeIn, Stocked, ShapeAssumption
  <2>4. all' = Held(saved.allId) /\ On(BeforeIn)' = On(Stocked(saved.support))
    BY <2>1, <2>3 DEF all, On
  <2> QED BY <2>1, <2>4 DEF HeldClosed, SavedClosed, Closed
<1>7. CASE SkipSide
  <2>1. /\ phase = "side" /\ phase' = "side" /\ at' = at + 1 /\ at <= Sides /\ ~Touched(at)
        /\ UNCHANGED <<sources, allId, partial>>
    BY <1>7 DEF SkipSide, tables, txn
  <2>2. at \in 1 .. Sides
    BY <1>a, <2>1 DEF PlaceOK, InDrain
  <2>3. all' = all /\ Mixed(at)' = Mixed(at + 1)
    BY <2>1, SameInputs DEF all, Mixed, On
  <2>4. ~partial => Closed(Mixed(at + 1), all, all)
    BY <1>a, <2>1, <2>2, ClosedLess, MixedSkip DEF HeldClosed
  <2> QED BY <2>1, <2>3, <2>4 DEF HeldClosed, Closed
<1>8. CASE StartArrivals
  <2>1. /\ phase = "side" /\ phase' = "arrive" /\ UNCHANGED <<sources, allId, at, partial>>
    BY <1>8 DEF StartArrivals, tables, txn
  <2>2. all' = all /\ Mixed(at)' = Mixed(at)
    BY <2>1, SameInputs DEF all, Mixed, On
  <2> QED BY <2>1, <2>2 DEF HeldClosed, Closed
<1>9. CASE StartDepartures
  <2>1. /\ phase = "side" /\ phase' = "delete" /\ UNCHANGED <<sources, allId, at, partial>>
        /\ deleted' = {}
    BY <1>9 DEF StartDepartures, ClearDeleted, txn
  <2>2. (~partial => Was' = all) /\ Mixed(at)' = Mixed(at)
    BY <1>9, <2>1, PassBegins, SameInputs DEF Mixed, On
  <2> QED BY <2>1, <2>2 DEF HeldClosed, Closed
<1>10. CASE DeleteRound
  <2>1. /\ phase = "delete" /\ phase' = "delete" /\ UNCHANGED <<sources, at, partial>>
    BY <1>10 DEF DeleteRound, txn
  <2>2. (~partial => Was' = Was) /\ Mixed(at)' = Mixed(at)
    BY <1>10, <2>1, DeleteKeepsWas, SameInputs DEF Mixed, On
  <2>3. PICK R \in SUBSET work : /\ deleted' = deleted \cup {r \in all : HasKey(R, r)}
                                 /\ work \subseteq work'
    <3>1. workId \in [Row -> Nat] /\ workSeq \in Nat
      BY DEF TypeOK, WorkOK
    <3>2. PICK hi \in 0 .. workSeq :
            /\ deleted' = deleted \cup {r \in all : HasKey(InRange(workId, from, hi), r)}
            /\ \E N : workId' = Insert(workId, workSeq, N)
      BY <1>10 DEF DeleteRound
    <3>3. InRange(workId, from, hi) \subseteq work
      BY <3>1, <1>10 DEF InRange, work, Held, TypeOK, ControlOK
    <3>4. work \subseteq work'
      BY <3>1, <3>2, InsertHolds DEF work
    <3> QED BY <3>2, <3>3, <3>4
  <2>4. (\A d \in deleted : HasKey(work, d)) => \A d \in deleted' : HasKey(work', d)
    BY <2>3 DEF HasKey
  <2> QED BY <2>1, <2>2, <2>4 DEF HeldClosed, Closed
<1>11. CASE Restore
  <2>1. phase = "delete" /\ phase' = "restored" /\ UNCHANGED <<sources, at, partial>>
    BY <1>11 DEF Restore, txn
  <2>2. ~partial => Closed(Mixed(at), Seen(allId)', all')
    BY <1>11, <2>1, RestoreCloses, MixedAfter DEF HeldClosed
  <2>3. Mixed(at)' = Mixed(at)
    BY <2>1, SameInputs DEF Mixed, On
  <2> QED BY <2>1, <2>2, <2>3 DEF HeldClosed, Closed
<1>12. CASE DeriveRound
  <2>1. /\ phase \in {"restored", "arrived"} /\ phase' = phase
        /\ UNCHANGED <<sources, at, partial>>
        /\ \E hi \in 0 .. allSeq : IsTop(allId, hi) /\ from' = hi
             /\ \E N \in Stores(all, RoundHeads(AfterIn, InRange(allId, from, hi))) :
                  allId' = Insert(allId, allSeq, N)
    BY <1>12 DEF DeriveRound, txn
  <2>2. \A I \in SUBSET On(AfterIn) :
          Closed(I, Seen(allId), all) => Closed(I, Seen(allId)', all')
    BY <1>a, <2>1, RoundCloses
  <2>3. Mixed(at)' = Mixed(at) /\ Mixed(at + 1)' = Mixed(at + 1)
    BY <2>1, SameInputs DEF Mixed, On
  <2> QED BY <2>1, <2>2, <2>3, MixedAfter DEF HeldClosed, Closed
<1>13. CASE RestoreDone
  <2>1. /\ phase = "restored" /\ phase' = "arrive" /\ UNCHANGED <<sources, allId, at, partial>>
        /\ IsTop(allId, from)
    BY <1>13 DEF RestoreDone, control, txn
  <2>2. ~partial => Closed(Mixed(at), all, all)
    BY <2>1, EndCloses DEF HeldClosed
  <2>3. all' = all /\ Mixed(at)' = Mixed(at)
    BY <2>1, SameInputs DEF all, Mixed, On
  <2> QED BY <2>1, <2>2, <2>3 DEF HeldClosed, Closed
<1>14. CASE Arrive
  <2>1. phase = "arrive" /\ phase' = "arrived" /\ UNCHANGED <<sources, at, partial>>
    BY <1>14 DEF Arrive, txn
  <2>2. at \in 1 .. Sides /\ start <= allSeq
    BY <1>a, <2>1 DEF PlaceOK, InDrain, ResultOK
  <2>3. ~partial => Closed(Mixed(at + 1), Seen(allId)', all')
    BY <1>14, <2>1, <2>2, ArriveCloses DEF HeldClosed
  <2>4. Mixed(at + 1)' = Mixed(at + 1)
    BY <2>1, SameInputs DEF Mixed, On
  <2> QED BY <2>1, <2>3, <2>4 DEF HeldClosed, Closed
<1>15. CASE Emit
  <2>1. /\ phase = "arrived" /\ phase' = "side" /\ at' = at + 1 /\ IsTop(allId, from)
        /\ UNCHANGED <<sources, allId, partial>>
    BY <1>15 DEF Emit, txn
  <2>2. ~partial => Closed(Mixed(at + 1), all, all)
    BY <2>1, EndCloses DEF HeldClosed
  <2>3. all' = all /\ Mixed(at)' = Mixed(at + 1)
    BY <2>1, SameInputs DEF all, Mixed, On
  <2> QED BY <2>1, <2>2, <2>3 DEF HeldClosed, Closed
<1>16. CASE Apply
  <2>1. /\ phase = "side" /\ at > Sides /\ phase' = "idle" /\ pending' = [f \in Fact |-> 0]
        /\ UNCHANGED <<support, allId, partial>>
    BY <1>16 DEF Apply
  <2>2. BeforeIn' = AfterIn
    BY <1>a, <2>1, ShapeAssumption DEF BeforeIn, AfterIn, SourcesOK, ShapeAssumption
  <2>3. all' = all /\ On(BeforeIn)' = Mixed(at)
    BY <1>a, <2>1, <2>2, MixedLast DEF all, On
  <2> QED BY <2>1, <2>3 DEF HeldClosed, Closed
<1>17. CASE ReadFails
  BY <1>17 DEF ReadFails, HeldClosed
<1>18. CASE UNCHANGED vars
  <2>1. UNCHANGED <<sources, allId, workId, deleted, phase, at, start, from, partial>>
    BY <1>18 DEF vars, tables, control, txn
  <2>2. /\ AfterIn' = AfterIn /\ BeforeIn' = BeforeIn /\ all' = all /\ work' = work
        /\ Was' = Was /\ Seen(allId)' = Seen(allId)
    BY <2>1, SameInputs DEF all, work, Was, Old, Seen
  <2> QED BY <2>1, <2>2 DEF HeldClosed, Closed, Mixed, On
<1> QED BY <1>1, <1>2, <1>3, <1>4, <1>5, <1>6, <1>7, <1>8, <1>9, <1>10, <1>11, <1>12,
           <1>13, <1>14, <1>15, <1>16, <1>17, <1>18 DEF Next, DrainStep

\* The invariant behind completeness.
MInv == IInv /\ ClosedOK

\* Whatever batch is drained, the member table is closed under the rules for what the
\* side loop of `drain_fixpoint` has read so far, as are the members a commit keeps.
THEOREM Completeness == Spec => []MInv
<1>1. Init => MInv
  BY InitType, InitScratch, InitResult, InitRounds, InitClosed DEF IInv, MInv
<1>2. MInv /\ [Next]_vars => MInv'
  <2> SUFFICES ASSUME MInv, [Next]_vars PROVE MInv'
    OBVIOUS
  <2>1. TypeOK'
    BY TypeStep DEF IInv, MInv
  <2> QED BY <2>1, ScratchStep, ResultStep, RoundsStep, PlaceStep, MadeStep, SavedStep,
             HeldStep
          DEF MInv, IInv, ClosedOK
<1> QED BY <1>1, <1>2, PTL DEF Spec

\* Rules tell no two rows of one key apart: what a rule derives from a member it
\* derives, by key, from every row of its class.
Congruent ==
  \A c \in Clause : \A m \in Row :
    c.member # NoMember /\ Key[m] = Key[c.member] =>
      \E d \in Clause : d.member = m /\ d.body = c.body /\ Key[d.head] = Key[c.head]

\* The rows of M and every other row of their keys.
Like(M) == {r \in Row : HasKey(M, r)}

\* Closed by key, closed: what a rule derives from any spelling of a member has its key
\* among the members.
LEMMA LikeClosed ==
  ASSUME Congruent, NEW I \in SUBSET Fact, NEW M \in SUBSET Row, Closed(On(I), M, M),
         NEW c \in Clause, Fires(c, I, Like(M))
  PROVE  c.head \in Like(M)
<1>1. c.body \subseteq On(I) /\ ReadsMember(c, Like(M)) /\ c.head \in Row
  BY FiresOn, ClauseShape
<1>2. CASE c.member = NoMember
  BY <1>1, <1>2 DEF Closed, ReadsMember, Like
<1>3. CASE c.member # NoMember
  <2>1. PICK m \in M : Key[m] = Key[c.member]
    BY <1>1, <1>3 DEF ReadsMember, Like, HasKey
  <2>2. PICK d \in Clause : d.member = m /\ d.body = c.body /\ Key[d.head] = Key[c.head]
    BY <1>3, <2>1 DEF Congruent
  <2>3. HasKey(M, d.head)
    BY <1>1, <2>1, <2>2 DEF Closed, ReadsMember
  <2> QED BY <1>1, <2>2, <2>3 DEF Like, HasKey
<1> QED BY <1>2, <1>3

\* No row the recursive query derives is ever missing from the members, be the batch
\* orderly or not: rounds of `fixpoint` skip no rowid, `restore` brings back every deleted
\* member that keeps a derivation, and arrivals meet the members of every pass.
THEOREM NoneLost == ASSUME Congruent PROVE Spec => []NoMemberLost
<1>1. MInv => NoMemberLost
  <2> SUFFICES ASSUME MInv, Settled
               PROVE  KeysOf(Lfp(BeforeIn)) \subseteq KeysOf(all)
    BY DEF NoMemberLost
  <2>1. Closed(On(BeforeIn), all, all) /\ BeforeIn \in SUBSET Fact /\ all \in SUBSET Row
    BY DEF MInv, ClosedOK, HeldClosed, Settled, BeforeIn, all, Held
  <2>2. Lfp(BeforeIn) \subseteq Like(all)
    BY <2>1, LikeClosed, LfpLeast
  <2> QED BY <2>2 DEF KeysOf, Like, HasKey
<1> QED BY <1>1, Completeness, PTL

-----------------------------------------------------------------------------
(* No member is stale.                                                     *)

\* Derivations of members of M from I do not leave Y once they read a row of Y.
Leads(I, M, Y) ==
  \A c \in Clause : c.body \subseteq I /\ ReadsMember(c, Y) /\ c.head \in Like(M) => c.head \in Y

\* Every member has a derivation from I that does not lead back to itself: sets of
\* keys that derivations of members cannot leave hold all members.
Supported(I, M) ==
  \A Y \in SUBSET Row : Like(Y) = Y /\ Leads(I, M, Y) => M \subseteq Y

\* The inputs a drain's side s derives from: while rows still leave, the rest of
\* its sides read what they read before the batch.
Remaining(s) == \E t \in s .. Sides : Left(t) # {}
Feed(s) ==
  IF Remaining(s)
  THEN {p \in On(Fact) : p[2] \in IF p[1] < s THEN AfterIn ELSE BeforeIn}
  ELSE On(AfterIn)

\* Orderly batches.  A side is visited because it was touched, members are deleted
\* because rows left it.
TurnOK ==
  /\ InDrain => Orderly
  /\ InPass => Touched(at)
  /\ phase = "delete" => Left(at) # {}

\* A drain of an orderly batch stays one, and passes only over what it touched.
LEMMA TurnStep ==
  ASSUME ~AnyBatch, TurnOK, [Next]_vars
  PROVE  TurnOK'
<1> USE DEF TurnOK, InDrain, InPass
<1>a. UNCHANGED sources =>
        Orderly' = Orderly /\ \A s : Touched(s)' = Touched(s) /\ Left(s)' = Left(s)
  BY DEF sources, Orderly, Touched, Left, Arrived
<1>1. CASE Create \/ Anchor \/ AnchorsDone \/ PopulateRound \/ PopulateFails \/ Populated
  BY <1>1 DEF Create, Anchor, AnchorsDone, PopulateRound, PopulateFails, Populated
<1>2. CASE (\E f \in Fact : \E d \in {-1, 1} : Write(f, d)) \/ Commit \/ Rollback
  BY <1>2 DEF Write, Commit, Rollback
<1>3. CASE \E read \in BOOLEAN : StartDrain(read)
  BY <1>a, <1>3 DEF StartDrain
<1>4. CASE SkipSide \/ StartArrivals \/ Emit
  BY <1>a, <1>4 DEF SkipSide, StartArrivals, Emit
<1>5. CASE StartDepartures
  BY <1>a, <1>5, LeftIsTouched DEF StartDepartures
<1>6. CASE DeleteRound
  BY <1>a, <1>6 DEF DeleteRound
<1>7. CASE Restore \/ DeriveRound \/ RestoreDone \/ Arrive
  <2>1. UNCHANGED <<sources, at>> /\ InPass /\ phase' \in {"restored", "arrive", "arrived"}
    BY <1>7 DEF Restore, DeriveRound, RestoreDone, Arrive, control
  <2>2. Orderly' /\ Touched(at)'
    BY <1>a, <2>1 DEF Touched
  <2> QED BY <2>1, <2>2
<1>8. CASE Apply \/ CommitFails \/ ReadFails
  BY <1>8 DEF Apply, CommitFails, ReadFails
<1>9. CASE UNCHANGED vars
  <2>1. UNCHANGED <<sources, at, phase>>
    BY <1>9 DEF vars, control
  <2> QED BY <1>a, <2>1 DEF Touched, Left
<1> QED BY <1>1, <1>2, <1>3, <1>4, <1>5, <1>6, <1>7, <1>8, <1>9 DEF Next, DrainStep

\* More rows are like more rows.
LEMMA LikeGrows ==
  ASSUME NEW M, NEW H, M \subseteq H
  PROVE  Like(M) \subseteq Like(H)
BY DEF Like, HasKey

\* Being like is an equivalence: rows are like themselves, and once is enough.
LEMMA LikeHolds ==
  ASSUME NEW M \in SUBSET Row
  PROVE  /\ M \subseteq Like(M) /\ Like(M) \in SUBSET Row /\ Like(Like(M)) = Like(M)
         /\ \A r \in Row : r \in Like(M) <=> HasKey(M, r)
BY DEF Like, HasKey

\* Larger inputs support as much.
LEMMA SupportedFrom ==
  ASSUME NEW I, NEW J, NEW M, Supported(I, M),
         \A c \in Clause : c.body \subseteq I => c.body \subseteq J
  PROVE  Supported(J, M)
BY DEF Supported, Leads

\* So is what a clause derives from supported members.
LEMMA SupportGrows ==
  ASSUME NEW I, NEW M \in SUBSET Row, NEW N \in SUBSET Row, Supported(I, M),
         \A n \in N : \E c \in Clause :
            c.body \subseteq I /\ ReadsMember(c, M) /\ Key[c.head] = Key[n]
  PROVE  Supported(I, M \cup N)
<1> SUFFICES ASSUME NEW Y \in SUBSET Row, Like(Y) = Y, Leads(I, M \cup N, Y)
             PROVE  M \cup N \subseteq Y
  BY DEF Supported
<1>1. Leads(I, M, Y)
  BY LikeGrows DEF Leads
<1>2. M \subseteq Y
  BY <1>1 DEF Supported
<1>3. ASSUME NEW n \in N PROVE n \in Y
  <2>1. PICK c \in Clause : c.body \subseteq I /\ ReadsMember(c, M) /\ Key[c.head] = Key[n]
    OBVIOUS
  <2>2. c.head \in Like(M \cup N) /\ ReadsMember(c, Y)
    BY <1>2, <2>1, ClauseShape DEF Like, HasKey, ReadsMember
  <2>3. c.head \in Y
    BY <2>1, <2>2 DEF Leads
  <2> QED BY <2>1, <2>3 DEF Like, HasKey
<1> QED BY <1>2, <1>3

-----------------------------------------------------------------------------
(* What a side derives from, as the drain goes on.                         *)

\* Rows that leave go first: a drain with rows still to leave has seen none arrive.
LEMMA OrderlyTurn ==
  ASSUME SourcesOK, Orderly, NEW s \in 1 .. Sides, NEW t \in 1 .. Sides, t < s,
         Left(s) # {}, NEW f \in Fact, f \in Reads[t], f \in AfterIn
  PROVE  f \in BeforeIn
<1> SUFFICES ASSUME f \notin BeforeIn PROVE FALSE
  OBVIOUS
<1>1. f \in Arrived(t) /\ Touched(t)
  BY Batches
<1>2. \A u \in 1 .. (s - 1) : ~Touched(u)
  BY <1>1 DEF Orderly
<1>3. t \in 1 .. (s - 1)
  OBVIOUS
<1> QED BY <1>1, <1>2, <1>3

\* What it means for a clause to fire from a side's inputs.
LEMMA FeedShape ==
  ASSUME NEW s, NEW c \in Clause
  PROVE  /\ Remaining(s) => (c.body \subseteq Feed(s) <=>
              \A p \in c.body : p[2] \in IF p[1] < s THEN AfterIn ELSE BeforeIn)
         /\ ~Remaining(s) => (c.body \subseteq Feed(s) <=> \A p \in c.body : p[2] \in AfterIn)
<1>1. c.body \subseteq On(Fact) /\ \A p \in c.body : p[1] \in 1 .. Sides /\ p = <<p[1], p[2]>>
  BY ClauseShape
<1>2. CASE Remaining(s)
  BY <1>1, <1>2 DEF Feed
<1>3. CASE ~Remaining(s)
  BY <1>1, <1>3 DEF Feed, On
<1> QED BY <1>2, <1>3

\* A drain begins with what the last one ended with.
LEMMA FeedFirst ==
  ASSUME SourcesOK, NEW c \in Clause, c.body \subseteq On(BeforeIn)
  PROVE  c.body \subseteq Feed(1)
<1>1. \A p \in c.body : p[1] \in 1 .. Sides /\ p[2] \in Fact /\ p[2] \in Reads[p[1]]
                        /\ p[2] \in BeforeIn
  BY ClauseShape DEF On
<1>2. CASE Remaining(1)
  BY <1>1, <1>2, FeedShape
<1>3. CASE ~Remaining(1)
  <2>1. \A s \in 1 .. Sides : Left(s) = {}
    BY <1>3 DEF Remaining
  <2>2. \A p \in c.body : p[2] \in AfterIn
    BY <1>1, <2>1, Batches
  <2> QED BY <1>3, <2>2, FeedShape
<1> QED BY <1>2, <1>3

\* Past a side, unless a clause reads a row that left it.
LEMMA FeedPast ==
  ASSUME SourcesOK, NEW s \in 1 .. Sides, NEW c \in Clause, c.body \subseteq Feed(s),
         \A f \in Left(s) : <<s, f>> \notin c.body
  PROVE  c.body \subseteq Feed(s + 1)
<1>1. \A p \in c.body : /\ p[1] \in 1 .. Sides /\ p[2] \in Fact /\ p[2] \in Reads[p[1]]
                        /\ p = <<p[1], p[2]>>
  BY ClauseShape
<1>2. Remaining(s + 1) => Remaining(s)
  BY ClauseShape DEF Remaining
<1>3. CASE ~Remaining(s)
  BY <1>2, <1>3, FeedShape
<1>4. CASE Remaining(s)
  <2>1. \A p \in c.body : p[2] \in IF p[1] < s THEN AfterIn ELSE BeforeIn
    BY <1>4, FeedShape
  <2>2. \A p \in c.body : p[1] < s + 1 => p[2] \in AfterIn
    <3> SUFFICES ASSUME NEW p \in c.body, p[1] < s + 1 PROVE p[2] \in AfterIn
      OBVIOUS
    <3>1. CASE p[1] < s
      BY <2>1, <3>1
    <3>2. CASE p[1] = s
      BY <1>1, <2>1, <3>2, Batches
    <3> QED BY <1>1, <3>1, <3>2
  <2>3. \A p \in c.body : ~(p[1] < s + 1) => p[2] \in BeforeIn
    BY <1>1, <2>1
  <2>4. CASE Remaining(s + 1)
    BY <2>2, <2>3, <2>4, FeedShape
  <2>5. CASE ~Remaining(s + 1)
    <3>1. \A t \in (s + 1) .. Sides : Left(t) = {}
      BY <2>5 DEF Remaining
    <3>2. ASSUME NEW p \in c.body, ~(p[1] < s + 1) PROVE p[2] \in AfterIn
      BY <1>1, <2>3, <3>1, <3>2, Batches
    <3> QED BY <2>2, <2>5, <3>2, FeedShape
  <2> QED BY <2>4, <2>5
<1> QED BY <1>3, <1>4

\* Once a touched side is dealt with, the new inputs are all read.
LEMMA FeedNew ==
  ASSUME SourcesOK, Orderly, NEW s \in 1 .. Sides, Touched(s), NEW c \in Clause,
         \A p \in c.body : p[2] \in AfterIn
  PROVE  c.body \subseteq Feed(s + 1)
<1>1. \A p \in c.body : p[1] \in 1 .. Sides /\ p[2] \in Fact /\ p[2] \in Reads[p[1]]
  BY ClauseShape
<1>2. CASE ~Remaining(s + 1)
  BY <1>2, FeedShape
<1>3. CASE Remaining(s + 1)
  <2>1. PICK t \in (s + 1) .. Sides : Left(t) # {}
    BY <1>3 DEF Remaining
  <2>2. t \in 1 .. Sides /\ s \in 1 .. (t - 1)
    BY ClauseShape
  <2>3. \A u \in 1 .. Sides : Arrived(u) = {}
    BY <2>1, <2>2 DEF Orderly
  <2>4. \A p \in c.body : p[2] \in BeforeIn
    BY <1>1, <2>3, Batches
  <2> QED BY <1>3, <2>4, FeedShape
<1> QED BY <1>2, <1>3

\* While rows leave a side, everything is read as before the batch.
LEMMA FeedOld ==
  ASSUME SourcesOK, Orderly, NEW s \in 1 .. Sides, Left(s) # {}, NEW c \in Clause,
         c.body \subseteq Feed(s)
  PROVE  \A p \in c.body : p[2] \in BeforeIn
<1>1. \A p \in c.body : p[1] \in 1 .. Sides /\ p[2] \in Fact /\ p[2] \in Reads[p[1]]
  BY ClauseShape
<1>2. Remaining(s)
  BY ClauseShape DEF Remaining
<1>3. \A p \in c.body : p[2] \in IF p[1] < s THEN AfterIn ELSE BeforeIn
  BY <1>2, FeedShape
<1> QED BY <1>1, <1>3, OrderlyTurn

-----------------------------------------------------------------------------
(* Delete and rederive.                                                    *)

\* Members of the work table whose rounds are done.
Done == InRange(workId, 0, from)

\* The delete rounds: no member is left that one of them reached, and whatever
\* reads a row that left or a member they reached waits in the work table.
DeleteSound ==
  /\ Supported(Feed(at), Was)
  /\ \A r \in all : r \notin Like(Done)
  /\ \A c \in Clause :
       /\ c.body \subseteq Feed(at) /\ c.head \in Like(Was)
       /\ \/ c.member \in Like(Done)
          \/ ReadsMember(c, Like(Was)) /\ \E f \in Left(at) : <<at, f>> \in c.body
       => HasKey(work, c.head)

\* A population supports its members by the inputs.
MadeSound == Making => Supported(On(AfterIn), all)

\* So does what ROLLBACK restores.
SavedSound ==
  ~Making /\ ~saved.partial => Supported(On(Stocked(saved.support)), Held(saved.allId))

\* A drain supports them by what the side at hand has left to read.
HeldSound ==
  ~partial =>
    /\ phase = "idle" => Supported(On(BeforeIn), all)
    /\ phase = "side" => Supported(Feed(at), all)
    /\ phase = "delete" => DeleteSound
    /\ phase \in {"restored", "arrive", "arrived"} => Supported(Feed(at + 1), all)

SoundOK == TurnOK /\ MadeSound /\ SavedSound /\ HeldSound

\* A clause that reads a member has one like it for each row of the member's key.
LEMMA ReadsLike ==
  ASSUME Congruent, NEW M \in SUBSET Row, NEW c \in Clause, ReadsMember(c, Like(M))
  PROVE  \E d \in Clause : ReadsMember(d, M) /\ d.body = c.body /\ Key[d.head] = Key[c.head]
                           /\ (c.member # NoMember => d.member \in M)
<1>1. CASE c.member = NoMember
  BY <1>1 DEF ReadsMember
<1>2. CASE c.member # NoMember
  <2>1. PICK m \in M : Key[m] = Key[c.member]
    BY <1>2 DEF ReadsMember, Like, HasKey
  <2>2. PICK d \in Clause : d.member = m /\ d.body = c.body /\ Key[d.head] = Key[c.head]
    BY <1>2, <2>1 DEF Congruent
  <2> QED BY <2>1, <2>2 DEF ReadsMember
<1> QED BY <1>1, <1>2

\* The delete pass begins with the heads of what reads a row that left.
LEMMA DeleteBegins ==
  ASSUME Congruent, TypeOK, ScratchOK, at \in Nat, at >= 1, Orderly,
         Supported(Feed(at), all), StartDepartures, ~partial
  PROVE  DeleteSound'
<1>1. /\ SourcesOK /\ at \in 1 .. Sides /\ Left(at) # {} /\ from' = 0
      /\ UNCHANGED <<sources, allId, at>>
  BY ClauseShape DEF TypeOK, StartDepartures
<1>2. PICK N \in Stores({}, Present(SideHeads(at, Left(at), BeforeIn), all)) :
            workId' = Insert(NoIds, workSeq, N)
  BY DEF StartDepartures
<1>3. Was' = all /\ all' = all
  BY <1>1, PassBegins DEF all
<1>4. /\ Present(SideHeads(at, Left(at), BeforeIn), all) \in SUBSET Row /\ all \in SUBSET Row
      /\ workSeq \in Nat
  BY HeadsAreRows DEF all, Held, TypeOK, WorkOK
<1>5. work' = N
  <2>1. N \subseteq Row
    BY <1>4 DEF Stores
  <2>2. Held(NoIds) = {} /\ NoIds \in [Row -> Nat]
    BY DEF Held, NoIds
  <2>3. Held(Insert(NoIds, workSeq, N)) = Held(NoIds) \cup (N \cap Row)
    BY <1>4, <2>2, InsertHolds
  <2> QED BY <1>2, <2>1, <2>2, <2>3 DEF work
<1>6. \A h \in Present(SideHeads(at, Left(at), BeforeIn), all) : HasKey(work', h)
  BY <1>2, <1>5, StoresKeys
<1>7. Done' = {} /\ Like({}) = {}
  <2>1. Done' = InRange(workId', 0, 0)
    BY <1>1 DEF Done
  <2>2. \A r \in Row : ~(0 < workId'[r] /\ workId'[r] <= 0)
    <3>1. workId' \in [Row -> Nat]
      BY <1>2, <1>4 DEF Insert, NextId, NoIds
    <3> QED BY <3>1
  <2> QED BY <2>1, <2>2 DEF InRange, Like, HasKey
<1>8. ASSUME NEW c \in Clause, c.body \subseteq Feed(at), c.head \in Like(all),
             ReadsMember(c, Like(all)), NEW f \in Left(at), <<at, f>> \in c.body
      PROVE  HasKey(work', c.head)
  <2>1. PICK d \in Clause : /\ ReadsMember(d, all) /\ d.body = c.body
                            /\ Key[d.head] = Key[c.head]
    BY <1>4, <1>8, ReadsLike
  <2>2. \A p \in d.body : p[2] \in BeforeIn
    BY <1>1, <1>8, <2>1, FeedOld
  <2>3. FiresAt(d, at, Left(at), BeforeIn, all)
    BY <1>8, <2>1, <2>2 DEF FiresAt
  <2>4. d.head \in Present(SideHeads(at, Left(at), BeforeIn), all)
    BY <1>8, <2>1, <2>3 DEF Present, SideHeads, HeadsOf, Like, HasKey
  <2> QED BY <1>6, <2>1, <2>4 DEF HasKey
<1>9. Feed(at)' = Feed(at) /\ Left(at)' = Left(at)
  BY <1>1, SameInputs DEF Feed, Remaining, Left, On, sources
<1>10. Like(Done)' = {} /\ Like(Was)' = Like(all)
  BY <1>3, <1>7 DEF Like, HasKey
<1>11. Supported(Feed(at), Was)'
  BY <1>3, <1>9 DEF Supported, Leads, Like, HasKey
<1>12. ASSUME NEW c \in Clause, c.body \subseteq Feed(at)', c.head \in Like(Was)',
              \/ c.member \in Like(Done)'
              \/ ReadsMember(c, Like(Was)') /\ \E f \in Left(at)' : <<at, f>> \in c.body
       PROVE  HasKey(work', c.head)
  BY <1>8, <1>9, <1>10, <1>12
<1>13. (\A r \in all : r \notin Like(Done))'
  BY <1>10
<1> QED BY <1>1, <1>11, <1>12, <1>13 DEF DeleteSound

\* A round drops the members it reaches and parks what reads them.
LEMMA DeleteGoesOn ==
  ASSUME Congruent, TypeOK, ResultOK, at \in Nat, at >= 1, at <= Sides, Orderly,
         Left(at) # {}, \A d \in deleted : HasKey(work, d), DeleteSound, DeleteRound, ~partial
  PROVE  DeleteSound'
<1>1. /\ SourcesOK /\ at \in 1 .. Sides /\ UNCHANGED <<sources, at>>
      /\ workId \in [Row -> Nat] /\ workSeq \in Nat /\ from \in Nat
      /\ \A r \in Row : workId[r] <= workSeq
  BY ClauseShape DEF TypeOK, WorkOK, ControlOK, DeleteRound
<1>2. PICK hi \in 0 .. workSeq :
        /\ IsTop(workId, hi) /\ from' = hi
        /\ LET range == InRange(workId, from, hi)
               dropped == {r \in all : HasKey(range, r)}
           IN /\ allId' = Drop(allId, dropped)
              /\ \E N \in Stores(work, Present(RoundHeads(BeforeIn, range), all \ dropped)) :
                   workId' = Insert(workId, workSeq, N)
  BY DEF DeleteRound
<1> DEFINE range == InRange(workId, from, hi)
           dropped == {r \in all : HasKey(range, r)}
           heads == Present(RoundHeads(BeforeIn, range), all \ dropped)
<1>3. PICK N \in Stores(work, heads) : workId' = Insert(workId, workSeq, N)
  BY <1>2
<1>4. /\ Was' = Was /\ Was \in SUBSET Row /\ heads \in SUBSET Row /\ range \in SUBSET Row
      /\ work \in SUBSET Row /\ Done \in SUBSET Row /\ all \in SUBSET Row
  BY DeleteKeepsWas, HeadsAreRows
  DEF Was, Old, InRange, TypeOK, OutOK, work, Done, all, Held
<1> HIDE DEF heads
<1>5. work' = work \cup N /\ \A h \in heads : HasKey(work', h)
  <2>1. N \subseteq Row /\ \A h \in heads : HasKey(work \cup N, h)
    BY <1>4, StoresKeys
  <2>2. work' = work \cup N
    BY <1>1, <1>3, <2>1, InsertHolds DEF work
  <2> QED BY <2>1, <2>2
<1>6. Done' = Done \cup range
  <2>1. \A n \in N : n \notin Held(workId)
    BY StoresKeys DEF work
  <2>2. hi \in Nat /\ hi <= workSeq
    BY <1>1
  <2>3. Done' = InRange(workId, 0, hi)
    BY <1>1, <1>2, <1>3, <2>1, <2>2, InsertKeepsOld DEF Done
  <2>4. \A r \in Row : (0 < workId[r] /\ workId[r] <= hi) <=>
          ((0 < workId[r] /\ workId[r] <= from) \/ (from < workId[r] /\ workId[r] <= hi))
    BY <1>1, <1>2, <2>2 DEF IsTop
  <2> QED BY <2>3, <2>4 DEF Done, InRange
<1>7. all' = all \ dropped /\ range \subseteq work
  BY <1>1, <1>2 DEF all, work, Held, Drop, InRange
<1>8. \A r \in all' : r \notin Like(Done')
  BY <1>6, <1>7 DEF DeleteSound, Like, HasKey
<1>9. ASSUME NEW c \in Clause, c.body \subseteq Feed(at), c.head \in Like(Was),
             c.member \in Like(range)
      PROVE  HasKey(work', c.head)
  <2>1. c.member # NoMember /\ ReadsMember(c, Like(range))
    BY <1>4, <1>9, ClauseShape DEF Like, ReadsMember
  <2>2. PICK d \in Clause : d.member \in range /\ d.body = c.body /\ Key[d.head] = Key[c.head]
    BY <1>4, <2>1, ReadsLike
  <2>3. \A p \in d.body : p[2] \in BeforeIn
    BY <1>1, <1>9, <2>2, FeedOld
  <2>4. d.head \in RoundHeads(BeforeIn, range)
    BY <2>2, <2>3 DEF RoundHeads, HeadsOf, Fires, ReadsMember
  <2>5. PICK m \in Was : Key[m] = Key[c.head]
    BY <1>9 DEF Like, HasKey
  <2>6. CASE m \in all \ dropped
    <3>1. d.head \in heads
      BY <2>2, <2>4, <2>5, <2>6 DEF heads, Present, HasKey
    <3> QED BY <1>5, <2>2, <3>1 DEF HasKey
  <2>7. CASE m \in dropped
    <3>1. HasKey(range, m)
      BY <2>7
    <3> HIDE DEF range
    <3> QED BY <1>5, <1>7, <2>5, <3>1 DEF HasKey
  <2>8. CASE m \in deleted
    BY <1>5, <2>5, <2>8 DEF HasKey
  <2>9. Old \subseteq all
    BY DEF Old, InRange, all, Held, TypeOK, MembersOK, ControlOK
  <2> QED BY <2>5, <2>6, <2>7, <2>8, <2>9 DEF Was
<1>10. Like(Done') = Like(Done) \cup Like(range)
  BY <1>6 DEF Like, HasKey
<1>11. work \subseteq work'
  BY <1>5
<1>12. ASSUME NEW c \in Clause, c.body \subseteq Feed(at), c.head \in Like(Was),
              \/ c.member \in Like(Done')
              \/ ReadsMember(c, Like(Was)) /\ \E f \in Left(at) : <<at, f>> \in c.body
       PROVE  HasKey(work', c.head)
  <2>1. CASE c.member \in Like(range)
    BY <1>9, <1>12, <2>1
  <2>2. CASE c.member \notin Like(range)
    BY <1>10, <1>11, <1>12, <2>2, HasMore DEF DeleteSound
  <2> QED BY <2>1, <2>2
<1>13. Feed(at)' = Feed(at) /\ Left(at)' = Left(at)
  BY <1>1, SameInputs DEF Feed, Remaining, Left, On, sources
<1>14. Supported(Feed(at), Was)' /\ Like(Was)' = Like(Was)
  <2>1. Supported(Feed(at), Was)
    BY DEF DeleteSound
  <2>2. Like(Was)' = Like(Was)
    BY <1>4 DEF Like, HasKey
  <2>3. Supported(Feed(at), Was)'
    BY <1>4, <1>13, <2>1, <2>2 DEF Supported, Leads
  <2> QED BY <2>2, <2>3
<1>15. Like(Done)' = Like(Done')
  BY DEF Like, HasKey
<1> QED BY <1>1, <1>8, <1>12, <1>13, <1>14, <1>15 DEF DeleteSound

\* When the rounds end, the members left stand without the rows that left and
\* without the members that were dropped: whatever needed one was dropped too.
LEMMA SurvivorsStand ==
  ASSUME Congruent, TypeOK, at \in 1 .. Sides, Left(at) # {},
         \A d \in deleted : HasKey(work, d), DeleteSound, phase = "delete", ResultOK, ~partial,
         IsTop(workId, from)
  PROVE  Supported(Feed(at + 1), all)
<1>1. /\ SourcesOK /\ workId \in [Row -> Nat] /\ allId \in [Row -> Nat] /\ start \in Nat
      /\ deleted \subseteq Row
  BY DEF TypeOK, WorkOK, MembersOK, ControlOK, OutOK
<1>2. Done = work /\ work \in SUBSET Row /\ all \in SUBSET Row /\ Was \in SUBSET Row
  BY <1>1, TopIsAll DEF Done, work, all, Held, Was, Old, InRange
<1>3. Old = all
  BY <1>1 DEF Old, InRange, all, Held, ResultOK
<1> SUFFICES ASSUME NEW Y \in SUBSET Row, Like(Y) = Y, Leads(Feed(at + 1), all, Y)
             PROVE  all \subseteq Y
  BY DEF Supported
<1> DEFINE Z == (Y \cap Like(all)) \cup (Like(work) \cap Like(Was))
<1>4. Z \in SUBSET Row /\ Like(Z) = Z
  <2>1. Z \in SUBSET Row
    BY DEF Like
  <2>2. \A r, q \in Row : r \in Z /\ Key[r] = Key[q] => q \in Z
    BY DEF Like, HasKey
  <2> HIDE DEF Z
  <2> QED BY <2>1, <2>2 DEF Like, HasKey
<1>5. ASSUME NEW c \in Clause, c.body \subseteq Feed(at), ReadsMember(c, Z), c.head \in Like(Was)
      PROVE  c.head \in Z
  <2>1. c.head \in Row
    BY ClauseShape
  <2>2. CASE HasKey(work, c.head)
    BY <1>5, <2>1, <2>2 DEF Like
  <2>3. CASE ~HasKey(work, c.head)
    <3>1. c.member \notin Like(work)
      BY <1>2, <1>5, <2>3 DEF DeleteSound
    <3>2. c.member = NoMember \/ (c.member \in Y /\ c.member \in Like(all))
      BY <1>5, <3>1 DEF ReadsMember
    <3>3. ReadsMember(c, Like(Was)) /\ ReadsMember(c, Y)
      BY <1>3, <3>2, LikeGrows DEF Was, ReadsMember
    <3>4. \A f \in Left(at) : <<at, f>> \notin c.body
      BY <1>5, <2>3, <3>3 DEF DeleteSound
    <3>5. c.body \subseteq Feed(at + 1)
      BY <1>1, <1>5, <3>4, FeedPast
    <3>6. PICK m \in Was : Key[m] = Key[c.head]
      BY <1>5 DEF Like, HasKey
    <3>7. m \notin deleted
      BY <2>3, <3>6 DEF HasKey
    <3>8. c.head \in Like(all)
      BY <1>3, <2>1, <3>6, <3>7 DEF Was, Like, HasKey
    <3>9. c.head \in Y
      BY <3>3, <3>5, <3>8 DEF Leads
    <3> QED BY <3>8, <3>9
  <2> QED BY <2>2, <2>3
<1>6. Was \subseteq Z
  <2>1. Leads(Feed(at), Was, Z)
    BY <1>5 DEF Leads
  <2>2. Supported(Feed(at), Was)
    BY DEF DeleteSound
  <2> HIDE DEF Z
  <2> QED BY <1>4, <2>1, <2>2 DEF Supported
<1>7. \A r \in all : r \notin Like(work)
  BY <1>2 DEF DeleteSound
<1> QED BY <1>3, <1>6, <1>7 DEF Was

\* What a statement of the drain stores follows from the members and the inputs
\* its side derives from by then.
LEMMA StoreSound ==
  ASSUME TypeOK, NEW I, Supported(I, all), NEW H \in SUBSET Row,
         \A h \in H : \E c \in Clause :
            c.body \subseteq I /\ ReadsMember(c, all) /\ Key[c.head] = Key[h],
         NEW N \in Stores(all, H), allId' = Insert(allId, allSeq, N)
  PROVE  Supported(I, all')
<1>1. all' = all \cup N /\ N \subseteq H /\ all \in SUBSET Row
  BY Stored DEF all, Held
<1>2. Supported(I, all \cup N)
  BY <1>1, SupportGrows
<1> QED BY <1>1, <1>2

\* A member that is restored has a derivation from members that stayed.
LEMMA RestoreSound ==
  ASSUME Congruent, TypeOK, ResultOK, at \in 1 .. Sides, Orderly, Left(at) # {},
         \A d \in deleted : HasKey(work, d), DeleteSound, Restore, ~partial
  PROVE  Supported(Feed(at + 1), all')
<1>1. /\ SourcesOK /\ phase = "delete" /\ IsTop(workId, from) /\ Touched(at)
      /\ work \in SUBSET Row
  BY LeftIsTouched DEF TypeOK, Restore, work, Held
<1>2. Supported(Feed(at + 1), all)
  BY <1>1, SurvivorsStand
<1>3. ASSUME NEW w \in Restorable(work)
      PROVE  \E c \in Clause : /\ c.body \subseteq Feed(at + 1) /\ ReadsMember(c, all)
                               /\ Key[c.head] = Key[w]
  <2>1. PICK c \in Clause : Fires(c, AfterIn, all) /\ Key[c.head] = Key[w]
    BY DEF Restorable
  <2>2. c.body \subseteq Feed(at + 1)
    BY <1>1, <2>1, FeedNew DEF Fires
  <2> QED BY <2>1, <2>2 DEF Fires
<1>4. Restorable(work) \in SUBSET Row
  BY <1>1, HeadsAreRows
<1>5. PICK N \in Stores(all, Restorable(work)) : allId' = Insert(allId, allSeq, N)
  BY DEF Restore
<1> QED BY <1>2, <1>3, <1>4, <1>5, StoreSound

\* A derive round stores heads of clauses that read members.
LEMMA RoundSound ==
  ASSUME TypeOK, NEW I, Supported(I, all), NEW hi,
         \A c \in Clause : (\A p \in c.body : p[2] \in AfterIn) => c.body \subseteq I,
         NEW N \in Stores(all, RoundHeads(AfterIn, InRange(allId, from, hi))),
         allId' = Insert(allId, allSeq, N)
  PROVE  Supported(I, all')
<1>1. InRange(allId, from, hi) \subseteq all
  BY DEF InRange, all, Held, TypeOK, MembersOK, ControlOK
<1>2. ASSUME NEW h \in RoundHeads(AfterIn, InRange(allId, from, hi))
      PROVE  \E c \in Clause : /\ c.body \subseteq I /\ ReadsMember(c, all)
                               /\ Key[c.head] = Key[h]
  BY <1>1 DEF RoundHeads, HeadsOf, Fires, ReadsMember
<1> QED BY <1>2, HeadsAreRows, StoreSound

\* Arrivals store heads of clauses that read members and rows that are there.
LEMMA ArriveSound ==
  ASSUME TypeOK, at \in 1 .. Sides, Orderly, Touched(at), Supported(Feed(at + 1), all), Arrive
  PROVE  Supported(Feed(at + 1), all')
<1>1. PICK N \in Stores(all, SideHeads(at, Arrived(at), AfterIn)) :
            allId' = Insert(allId, allSeq, N)
  BY DEF Arrive
<1>2. ASSUME NEW h \in SideHeads(at, Arrived(at), AfterIn)
      PROVE  \E c \in Clause : /\ c.body \subseteq Feed(at + 1) /\ ReadsMember(c, all)
                               /\ Key[c.head] = Key[h]
  <2>1. PICK c \in Clause : FiresAt(c, at, Arrived(at), AfterIn, all) /\ c.head = h
    BY DEF SideHeads, HeadsOf
  <2>2. PICK f \in Arrived(at) : <<at, f>> \in c.body
    BY <2>1 DEF FiresAt
  <2>3. f \in AfterIn
    <3>1. f \in Fact /\ f \in Reads[at]
      BY <2>2, ClauseShape
    <3> QED BY <2>2, <3>1, Batches DEF TypeOK
  <2>4. \A p \in c.body : p[2] \in AfterIn
    BY <2>1, <2>2, <2>3, ClauseShape DEF FiresAt
  <2>5. c.body \subseteq Feed(at + 1)
    BY <2>4, FeedNew DEF TypeOK
  <2> QED BY <2>1, <2>5 DEF FiresAt
<1> QED BY <1>1, <1>2, HeadsAreRows, StoreSound

\* Nothing stored, nothing to support.
LEMMA InitSound == Init => SoundOK
<1> SUFFICES ASSUME Init PROVE SoundOK
  OBVIOUS
<1>1. phase = "absent" /\ all = {}
  BY DEF Init, all, Held, NoIds
<1>2. \A I : Supported(I, {})
  BY DEF Supported
<1> QED BY <1>1, <1>2 DEF SoundOK, TurnOK, MadeSound, SavedSound, HeldSound, Making, InDrain,
                          InPass

\* A population only stores what its rules derive.
LEMMA MadeSoundStep ==
  ASSUME TypeOK, MadeSound, [Next]_vars
  PROVE  MadeSound'
<1>1. CASE Create \/ AnchorsDone
  <2>1. Making /\ all' = all /\ On(AfterIn)' = On(AfterIn)
    BY <1>1, SameInputs DEF Create, AnchorsDone, Making, tables, all, On
  <2>2. Like(all)' = Like(all)
    BY <2>1 DEF Like, HasKey
  <2> QED BY <2>1, <2>2 DEF MadeSound, Supported, Leads
<1>2. CASE Anchor \/ PopulateRound
  <2>1. Making /\ UNCHANGED sources
    BY <1>2 DEF Anchor, PopulateRound, Making
  <2>2. ASSUME Anchor PROVE Supported(On(AfterIn), all')
    <3>1. PICK N \in Stores(all, RuleHeads(at)) : allId' = Insert(allId, allSeq, N)
      BY <2>2 DEF Anchor
    <3>2. AfterIn \in SUBSET Fact
      BY DEF AfterIn
    <3>3. ASSUME NEW h \in RuleHeads(at)
          PROVE  \E c \in Clause : /\ c.body \subseteq On(AfterIn) /\ ReadsMember(c, all)
                                   /\ Key[c.head] = Key[h]
      <4>1. PICK c \in Clause : Fires(c, AfterIn, all) /\ c.head = h
        BY DEF RuleHeads, HeadsOf
      <4> QED BY <3>2, <4>1, FiresOn
    <3> QED BY <2>1, <3>1, <3>3, HeadsAreRows, StoreSound DEF MadeSound
  <2>3. ASSUME PopulateRound PROVE Supported(On(AfterIn), all')
    <3>1. PICK hi \in 0 .. allSeq :
            \E N \in Stores(all, RoundHeads(AfterIn, InRange(allId, from, hi))) :
              allId' = Insert(allId, allSeq, N)
      BY <2>3 DEF PopulateRound
    <3>2. \A c \in Clause : (\A p \in c.body : p[2] \in AfterIn) => c.body \subseteq On(AfterIn)
      BY ClauseShape DEF On
    <3> QED BY <2>1, <3>1, <3>2, RoundSound DEF MadeSound
  <2>4. Supported(On(AfterIn), all')
    BY <1>2, <2>2, <2>3
  <2>5. On(AfterIn)' = On(AfterIn)
    BY <2>1, SameInputs DEF On
  <2>6. Like(all)' = Like(all')
    BY DEF Like, HasKey
  <2> QED BY <2>4, <2>5, <2>6 DEF MadeSound, Supported, Leads
<1>3. CASE PopulateFails
  <2>1. all' = {}
    BY <1>3 DEF PopulateFails, all, Held, NoIds
  <2> QED BY <2>1 DEF MadeSound, Supported
<1>4. CASE ~Making'
  BY <1>4 DEF MadeSound
<1>5. CASE UNCHANGED vars
  <2>1. UNCHANGED <<sources, allId, phase>>
    BY <1>5 DEF vars, tables
  <2>2. all' = all /\ On(AfterIn)' = On(AfterIn) /\ Making' = Making
    BY <2>1, SameInputs DEF all, On, Making
  <2>3. Like(all)' = Like(all)
    BY <2>2 DEF Like, HasKey
  <2> QED BY <2>2, <2>3 DEF MadeSound, Supported, Leads
<1>6. Populated \/ (\E f \in Fact : \E d \in {-1, 1} : Write(f, d))
      \/ (\E read \in BOOLEAN : StartDrain(read)) \/ Commit \/ Rollback \/ DrainStep
        => ~Making'
  BY DEF Populated, Write, StartDrain, Commit, Rollback, DrainStep, SkipSide, StartArrivals,
         StartDepartures, DeleteRound, Restore, DeriveRound, RestoreDone, Arrive, Emit, Apply,
         CommitFails, ReadFails, Making
<1> QED BY <1>1, <1>2, <1>3, <1>4, <1>5, <1>6 DEF Next

\* Past the last side only the new inputs support members.
LEMMA FeedLast == ASSUME NEW s \in Nat, s > Sides PROVE Feed(s) = On(AfterIn)
BY ClauseShape DEF Feed, Remaining

\* Every commit leaves supported members behind.
LEMMA SavedSoundStep ==
  ASSUME TypeOK, MadeSound, SavedSound, HeldSound, [Next]_vars
  PROVE  SavedSound'
<1>1. CASE Populated
  <2>1. saved'.support = support /\ saved'.allId = allId /\ phase = "populate"
    BY <1>1 DEF Populated, Snapshot
  <2>2. On(Stocked(support)) = On(AfterIn)
    BY DEF On, Stocked, AfterIn
  <2> QED BY <2>1, <2>2 DEF SavedSound, MadeSound, Making, all
<1>2. CASE Commit
  <2>1. /\ phase = "idle" /\ saved'.support = support /\ saved'.allId = allId
        /\ saved'.partial = partial /\ \A f \in Fact : pending[f] = 0
    BY <1>2 DEF Commit, Snapshot, Staged
  <2>2. BeforeIn = Stocked(support)
    BY <2>1, NothingStaged DEF TypeOK
  <2> QED BY <2>1, <2>2 DEF SavedSound, HeldSound, all
<1>3. CASE Apply
  <2>1. \/ saved' = saved
        \/ /\ saved'.support = support /\ saved'.allId = allId /\ saved'.partial = partial
    BY <1>3 DEF Apply, Snapshot
  <2>2. CASE saved' = saved
    BY <1>3, <2>2 DEF Apply, SavedSound, Making
  <2>3. CASE saved'.support = support /\ saved'.allId = allId /\ saved'.partial = partial
    <3>1. phase = "side" /\ at > Sides /\ at \in Nat
      BY <1>3 DEF Apply, TypeOK, ControlOK
    <3>2. Feed(at) = On(Stocked(support))
      BY <3>1, FeedLast DEF Stocked, AfterIn
    <3> QED BY <2>3, <3>1, <3>2 DEF SavedSound, HeldSound, all
  <2> QED BY <2>1, <2>2, <2>3
<1>4. CASE UNCHANGED saved /\ (Making => Making')
  BY <1>4 DEF SavedSound
<1> QED BY <1>1, <1>2, <1>3, <1>4, SavedMoves

\* A step that writes no source and stages nothing leaves the inputs of the sides alone.
LEMMA SameFeed ==
  ASSUME UNCHANGED sources
  PROVE  \A s : Feed(s)' = Feed(s)
<1>1. \A s : Remaining(s)' = Remaining(s)
  BY DEF sources, Remaining, Left
<1> QED BY <1>1, SameInputs DEF Feed, On

\* A step of a drain keeps its members supported, a delete pass in three movements.
LEMMA HeldSoundStep ==
  ASSUME Congruent, TypeOK, ScratchOK, ResultOK, PlaceOK, HeldClosed,
         TurnOK, MadeSound, SavedSound, HeldSound, [Next]_vars
  PROVE  HeldSound'
<1> USE DEF HeldSound
<1>a. /\ allId \in [Row -> Nat] /\ allSeq \in Nat /\ at \in Nat
      /\ Sides \in Nat /\ SourcesOK
  BY ClauseShape DEF TypeOK, MembersOK, ControlOK
<1>b. Like(all)' = Like(all')
  BY DEF Like, HasKey
<1>1. CASE Create \/ Anchor \/ AnchorsDone \/ PopulateRound \/ PopulateFails
  BY <1>1 DEF Create, Anchor, AnchorsDone, PopulateRound, PopulateFails
<1>2. CASE Populated
  <2>1. phase = "populate" /\ phase' = "idle" /\ UNCHANGED <<sources, allId>>
    BY <1>2 DEF Populated
  <2>2. BeforeIn = AfterIn
    BY <1>a, <2>1, NothingStaged DEF PlaceOK, Making
  <2>3. all' = all /\ On(BeforeIn)' = On(AfterIn)
    BY <2>1, <2>2, SameInputs DEF all, On
  <2> QED BY <1>b, <2>1, <2>3 DEF MadeSound, Making, Supported, Leads
<1>3. CASE \E f \in Fact : \E d \in {-1, 1} : Write(f, d)
  <2>1. /\ phase = "idle" /\ phase' = "idle" /\ UNCHANGED <<allId, partial>>
        /\ \A f \in Fact : support'[f] - pending'[f] = support[f] - pending[f]
    BY <1>a, <1>3, ShapeAssumption DEF Write, tables, txn, SourcesOK, ShapeAssumption
  <2>2. all' = all /\ BeforeIn' = BeforeIn
    BY <2>1 DEF all, BeforeIn
  <2>3. On(BeforeIn)' = On(BeforeIn)
    BY <2>2 DEF On
  <2> QED BY <1>b, <2>1, <2>2, <2>3 DEF Supported, Leads
<1>4. CASE \E read \in BOOLEAN : StartDrain(read)
  <2>1. /\ phase = "idle" /\ phase' = "side" /\ at' = 1
        /\ UNCHANGED <<sources, allId, partial>>
    BY <1>4 DEF StartDrain, tables
  <2>2. all' = all /\ Feed(at)' = Feed(1)
    BY <2>1, SameFeed, SameInputs DEF all, Feed, Remaining, Left, On, sources
  <2>3. ~partial => Supported(Feed(1), all)
    BY <1>a, <2>1, FeedFirst, SupportedFrom
  <2> QED BY <1>b, <2>1, <2>2, <2>3 DEF Supported, Leads
<1>5. CASE Commit
  <2>1. phase = "idle" /\ UNCHANGED <<sources, allId, phase, partial>>
    BY <1>5 DEF Commit, tables
  <2>2. all' = all /\ On(BeforeIn)' = On(BeforeIn)
    BY <2>1, SameInputs DEF all, On
  <2> QED BY <1>b, <2>1, <2>2 DEF Supported, Leads
<1>6. CASE Rollback \/ CommitFails
  <2>1. /\ allId' = saved.allId /\ partial' = saved.partial /\ phase' = "idle"
        /\ support' = saved.support /\ pending' = [f \in Fact |-> 0] /\ ~Making
    BY <1>6 DEF Rollback, CommitFails, Restored, Fails, Budgeted, Making
  <2>2. saved.support \in [Fact -> 0 .. MaxCopies]
    BY DEF TypeOK, SavedOK
  <2>3. BeforeIn' = Stocked(saved.support)
    BY <2>1, <2>2, ShapeAssumption DEF BeforeIn, Stocked, ShapeAssumption
  <2>4. all' = Held(saved.allId) /\ On(BeforeIn)' = On(Stocked(saved.support))
    BY <2>1, <2>3 DEF all, On
  <2> QED BY <1>b, <2>1, <2>4 DEF SavedSound, Supported, Leads
<1>7. CASE SkipSide
  <2>1. /\ phase = "side" /\ phase' = "side" /\ at' = at + 1 /\ at <= Sides /\ ~Touched(at)
        /\ UNCHANGED <<sources, allId, partial>>
    BY <1>7 DEF SkipSide, tables, txn
  <2>2. at \in 1 .. Sides /\ Left(at) = {}
    BY <1>a, <2>1, LeftIsTouched DEF PlaceOK, InDrain
  <2>3. all' = all /\ Feed(at)' = Feed(at + 1)
    BY <2>1, SameInputs DEF all, Feed, Remaining, Left, On, sources
  <2>4. ~partial => Supported(Feed(at + 1), all)
    BY <1>a, <2>1, <2>2, FeedPast, SupportedFrom
  <2> QED BY <1>b, <2>1, <2>3, <2>4 DEF Supported, Leads
<1>8. CASE StartArrivals
  <2>1. /\ phase = "side" /\ phase' = "arrive" /\ UNCHANGED <<sources, allId, at, partial>>
        /\ at \in 1 .. Sides /\ Left(at) = {}
    BY <1>a, <1>8 DEF StartArrivals, tables, txn, PlaceOK, InDrain
  <2>2. all' = all /\ Feed(at + 1)' = Feed(at + 1)
    BY <2>1, SameFeed, SameInputs DEF all, Feed, Remaining, Left, On, sources
  <2>3. ~partial => Supported(Feed(at + 1), all)
    BY <1>a, <2>1, FeedPast, SupportedFrom
  <2> QED BY <1>b, <2>1, <2>2, <2>3 DEF Supported, Leads
<1>9. CASE StartDepartures
  <2>1. /\ phase = "side" /\ phase' = "delete" /\ partial' = partial /\ at >= 1
    BY <1>9 DEF StartDepartures, txn, PlaceOK, InDrain
  <2>2. ~partial => DeleteSound'
    BY <1>a, <1>9, <2>1, DeleteBegins DEF TurnOK, InDrain
  <2> QED BY <2>1, <2>2
<1>10. CASE DeleteRound
  <2>1. /\ phase = "delete" /\ phase' = "delete" /\ partial' = partial
        /\ at >= 1 /\ at <= Sides /\ Orderly /\ Left(at) # {}
        /\ ~partial => \A d \in deleted : HasKey(work, d)
    BY <1>10 DEF DeleteRound, txn, PlaceOK, InDrain, InPass, TurnOK, HeldClosed
  <2>2. ~partial => DeleteSound'
    BY <1>a, <1>10, <2>1, DeleteGoesOn
  <2> QED BY <2>1, <2>2
<1>11. CASE Restore
  <2>1. /\ phase = "delete" /\ phase' = "restored" /\ UNCHANGED <<sources, at, partial>>
        /\ at \in 1 .. Sides /\ Orderly /\ Left(at) # {}
        /\ ~partial => \A d \in deleted : HasKey(work, d)
    BY <1>a, <1>11 DEF Restore, txn, PlaceOK, InDrain, InPass, TurnOK, HeldClosed
  <2>2. ~partial => Supported(Feed(at + 1), all')
    BY <1>11, <2>1, RestoreSound
  <2>3. Feed(at + 1)' = Feed(at + 1)
    BY <2>1, SameInputs DEF Feed, Remaining, Left, On, sources
  <2> QED BY <1>b, <2>1, <2>2, <2>3 DEF Supported, Leads
<1>12. CASE DeriveRound
  <2>1. /\ phase \in {"restored", "arrived"} /\ phase' = phase
        /\ UNCHANGED <<sources, at, partial>> /\ at \in 1 .. Sides /\ Orderly /\ Touched(at)
        /\ \E hi \in 0 .. allSeq :
             \E N \in Stores(all, RoundHeads(AfterIn, InRange(allId, from, hi))) :
               allId' = Insert(allId, allSeq, N)
    BY <1>a, <1>12 DEF DeriveRound, txn, PlaceOK, InDrain, InPass, TurnOK
  <2>2. \A c \in Clause : (\A p \in c.body : p[2] \in AfterIn) => c.body \subseteq Feed(at + 1)
    BY <1>a, <2>1, FeedNew
  <2>3. ~partial => Supported(Feed(at + 1), all')
    BY <2>1, <2>2, RoundSound
  <2>4. Feed(at + 1)' = Feed(at + 1)
    BY <2>1, SameInputs DEF Feed, Remaining, Left, On, sources
  <2> QED BY <1>b, <2>1, <2>3, <2>4 DEF Supported, Leads
<1>13. CASE RestoreDone
  <2>1. /\ phase = "restored" /\ phase' = "arrive" /\ UNCHANGED <<sources, allId, at, partial>>
    BY <1>13 DEF RestoreDone, control, txn
  <2>2. all' = all /\ Feed(at + 1)' = Feed(at + 1)
    BY <2>1, SameInputs DEF all, Feed, Remaining, Left, On, sources
  <2> QED BY <1>b, <2>1, <2>2 DEF Supported, Leads
<1>14. CASE Arrive
  <2>1. /\ phase = "arrive" /\ phase' = "arrived" /\ UNCHANGED <<sources, at, partial>>
        /\ at \in 1 .. Sides /\ Orderly /\ Touched(at)
    BY <1>a, <1>14 DEF Arrive, txn, PlaceOK, InDrain, InPass, TurnOK
  <2>2. ~partial => Supported(Feed(at + 1), all')
    BY <1>14, <2>1, ArriveSound
  <2>3. Feed(at + 1)' = Feed(at + 1)
    BY <2>1, SameInputs DEF Feed, Remaining, Left, On, sources
  <2> QED BY <1>b, <2>1, <2>2, <2>3 DEF Supported, Leads
<1>15. CASE Emit
  <2>1. /\ phase = "arrived" /\ phase' = "side" /\ at' = at + 1
        /\ UNCHANGED <<sources, allId, partial>>
    BY <1>15 DEF Emit, txn
  <2>2. all' = all /\ Feed(at)' = Feed(at + 1)
    BY <2>1, SameInputs DEF all, Feed, Remaining, Left, On, sources
  <2> QED BY <1>b, <2>1, <2>2 DEF Supported, Leads
<1>16. CASE Apply
  <2>1. /\ phase = "side" /\ at > Sides /\ phase' = "idle" /\ pending' = [f \in Fact |-> 0]
        /\ UNCHANGED <<support, allId, partial>>
    BY <1>16 DEF Apply
  <2>2. BeforeIn' = AfterIn
    BY <1>a, <2>1, ShapeAssumption DEF BeforeIn, AfterIn, SourcesOK, ShapeAssumption
  <2>3. all' = all /\ On(BeforeIn)' = Feed(at)
    BY <1>a, <2>1, <2>2, FeedLast DEF all, On
  <2> QED BY <1>b, <2>1, <2>3 DEF Supported, Leads
<1>17. CASE ReadFails
  BY <1>17 DEF ReadFails
<1>18. CASE UNCHANGED vars
  <2>1. UNCHANGED <<sources, allId, workId, deleted, phase, at, start, from, partial>>
    BY <1>18 DEF vars, tables, control, txn
  <2>2. /\ all' = all /\ work' = work /\ Was' = Was /\ Done' = Done /\ On(BeforeIn)' = On(BeforeIn)
        /\ Feed(at)' = Feed(at) /\ Feed(at + 1)' = Feed(at + 1) /\ Left(at)' = Left(at)
    BY <2>1, SameInputs DEF all, work, Was, Old, Done, Feed, Remaining, Left, On, sources
  <2>3. Like(Was)' = Like(Was) /\ Like(Done)' = Like(Done)
    BY <2>2 DEF Like, HasKey
  <2> QED BY <1>b, <2>1, <2>2, <2>3 DEF Supported, Leads, DeleteSound
<1> QED BY <1>1, <1>2, <1>3, <1>4, <1>5, <1>6, <1>7, <1>8, <1>9, <1>10, <1>11, <1>12,
           <1>13, <1>14, <1>15, <1>16, <1>17, <1>18 DEF Next, DrainStep

\* The invariant behind exactness.
ExactInv == MInv /\ SoundOK

\* Completeness is inductive.
LEMMA MembersStep == ASSUME MInv, [Next]_vars PROVE MInv'
<1>1. TypeOK'
  BY TypeStep DEF IInv, MInv
<1> QED BY <1>1, ScratchStep, ResultStep, RoundsStep, PlaceStep, MadeStep, SavedStep, HeldStep
        DEF MInv, IInv, ClosedOK

\* It holds at first.
LEMMA InitMembers == Init => MInv
BY InitType, InitScratch, InitResult, InitRounds, InitClosed DEF IInv, MInv

\* With congruent rules and orderly batches so is exactness.
LEMMA ExactStep ==
  ASSUME Congruent, ~AnyBatch, ExactInv, [Next]_vars
  PROVE  ExactInv'
<1>1. MInv'
  BY MembersStep DEF ExactInv
<1>2. SoundOK'
  BY TurnStep, MadeSoundStep, SavedSoundStep, HeldSoundStep
  DEF ExactInv, MInv, IInv, ClosedOK, SoundOK
<1> QED BY <1>1, <1>2 DEF ExactInv

\* Orderly batches leave no member without a derivation: the delete rounds of `fixpoint`
\* drop whatever reads a row that left or a member they dropped, the restore takes back
\* what still has a derivation from the members left.
THEOREM Exactness == ASSUME Congruent, ~AnyBatch PROVE Spec => []ExactInv
<1>1. Init => ExactInv
  BY InitMembers, InitSound DEF ExactInv
<1>2. ExactInv /\ [Next]_vars => ExactInv'
  BY ExactStep
<1> QED BY <1>1, <1>2, PTL DEF Spec

\* Supported members are derived by the query.
LEMMA SupportedDerived ==
  ASSUME Congruent, NEW I \in SUBSET Fact, NEW M \in SUBSET Row, Supported(On(I), M)
  PROVE  M \subseteq Like(Lfp(I))
<1> DEFINE L == Lfp(I)
<1>1. L \in SUBSET Row
  BY LfpLeast, ClauseShape
<1>2. Closed(On(I), L, L)
  BY LfpClosed, FiresOn DEF Closed, HasKey
<1> HIDE DEF L
<1>3. Leads(On(I), M, Like(L))
  BY <1>1, <1>2, LikeClosed, FiresOn DEF Leads
<1> QED BY <1>1, <1>3, LikeHolds DEF Supported, L

\* Closed and supported: the members are the query's rows, by key.
LEMMA ExactMembers ==
  ASSUME Congruent, ExactInv PROVE MembersAreLeastFixpoint
<1> SUFFICES ASSUME Settled
             PROVE  KeysOf(all) = KeysOf(Lfp(BeforeIn))
  BY DEF MembersAreLeastFixpoint
<1>1. /\ Closed(On(BeforeIn), all, all) /\ Supported(On(BeforeIn), all)
      /\ BeforeIn \in SUBSET Fact /\ all \in SUBSET Row
  BY DEF ExactInv, MInv, ClosedOK, SoundOK, HeldClosed, HeldSound, Settled, BeforeIn, all, Held
<1>2. Lfp(BeforeIn) \subseteq Like(all)
  BY <1>1, LikeClosed, LfpLeast
<1>3. all \subseteq Like(Lfp(BeforeIn))
  BY <1>1, SupportedDerived
<1> QED BY <1>2, <1>3 DEF KeysOf, Like, HasKey

\* Between drains the member table of `fixpoint_statements` holds the rows of the recursive
\* query over the inputs of the last drain, by key, whatever cycles the members form: for
\* every set of rules, when each batch is orderly.
THEOREM MembersExact ==
  ASSUME Congruent, ~AnyBatch PROVE Spec => []MembersAreLeastFixpoint
<1>1. ExactInv => MembersAreLeastFixpoint
  BY ExactMembers
<1> QED BY <1>1, Exactness, PTL

-----------------------------------------------------------------------------
(* No drain is refused.                                                    *)

\* No two rows have one key: no member is ever stored again in another spelling.
Injective == \A r, q \in Row : Key[r] = Key[q] => r = q

\* The batch adds a row to some input.
Arrivals == \E s \in 1 .. Sides : Arrived(s) # {}

\* Through a pass the members it found are closed under what is read on both sides of
\* the batch.
WasClosed == ~partial /\ InPass => Closed(Mixed(at), Was, Was)

\* Nothing is retracted that the state table lacks.  A drain without arrivals only
\* deletes; one with arrivals has nothing in the out table while rows may still leave.
RefusalOK ==
  /\ InPass /\ departed => Left(at) # {}
  /\ ~partial /\ InDrain =>
       /\ \A r \in Row : gone[r] <= result[r]
       /\ ~Arrivals => come = Zero /\ (InPass => all \subseteq Was)
       /\ ~Arrivals /\ phase = "delete" => \A w \in work : HasKey(Was, w)
       /\ Arrivals /\ Remaining(at) => gone = Zero /\ come = Zero

\* Rules cannot tell spellings apart where there are none.
LEMMA InjectiveCongruent == Injective => Congruent
<1> SUFFICES ASSUME Injective, NEW c \in Clause, NEW m \in Row,
                    c.member # NoMember, Key[m] = Key[c.member]
             PROVE  \E d \in Clause : d.member = m /\ d.body = c.body
                                      /\ Key[d.head] = Key[c.head]
  BY DEF Congruent
<1>1. m = c.member
  BY ClauseShape DEF Injective
<1> QED BY <1>1

\* The steps of a pass keep what it found.
LEMMA PassStep ==
  ASSUME TypeOK, ResultOK, InPass, InPass', ~partial, ~partial', [Next]_vars
  PROVE  Was' = Was /\ UNCHANGED <<sources, at>>
<1> USE DEF InPass
<1>1. CASE DeleteRound
  BY <1>1, DeleteKeepsWas DEF DeleteRound
<1>2. CASE Restore \/ DeriveRound \/ Arrive
  <2>1. UNCHANGED <<sources, at, start, deleted>> /\ start <= allSeq
    BY <1>2 DEF Restore, DeriveRound, Arrive, ResultOK
  <2>2. PICK H \in SUBSET Row : \E N \in Stores(all, H) : allId' = Insert(allId, allSeq, N)
    <3>1. work \in SUBSET Row
      BY DEF work, Held
    <3> QED BY <1>2, <3>1, HeadsAreRows DEF Restore, DeriveRound, Arrive
  <2> QED BY <2>1, <2>2, PassKeepsWas
<1>3. CASE RestoreDone
  BY <1>3 DEF RestoreDone, control, Was, Old
<1>4. CASE UNCHANGED vars
  BY <1>4 DEF vars, tables, control, Was, Old
<1>5. InPass /\ InPass' /\ [Next]_vars =>
        DeleteRound \/ Restore \/ DeriveRound \/ Arrive \/ RestoreDone \/ UNCHANGED vars
  BY DEF Next, DrainStep, Create, Anchor, AnchorsDone, PopulateRound, Populated, PopulateFails,
         Write, StartDrain, Commit, Rollback, SkipSide, StartArrivals, StartDepartures, Emit,
         Apply, CommitFails, ReadFails
<1> QED BY <1>1, <1>2, <1>3, <1>4, <1>5

\* A pass is entered from the side's turn.
LEMMA PassEntered ==
  ASSUME [Next]_vars, InPass'
  PROVE  InPass \/ StartArrivals \/ StartDepartures
BY DEF InPass, vars, Next, DrainStep, Create, Anchor, AnchorsDone, PopulateRound, Populated,
       PopulateFails, Write, StartDrain, Commit, Rollback, SkipSide, StartArrivals,
       StartDepartures, DeleteRound, Restore, DeriveRound, RestoreDone, Arrive, Emit, Apply,
       CommitFails, ReadFails

\* What a pass found stays closed for as long as the pass lasts.
LEMMA WasStep ==
  ASSUME TypeOK, ScratchOK, ResultOK, HeldClosed, WasClosed, [Next]_vars
  PROVE  WasClosed'
<1> SUFFICES ASSUME ~partial', InPass' PROVE Closed(Mixed(at), Was, Was)'
  BY DEF WasClosed
<1>1. CASE StartArrivals \/ StartDepartures
  <2>1. /\ UNCHANGED <<sources, at, partial>> /\ phase = "side"
    BY <1>1 DEF StartArrivals, StartDepartures, txn
  <2>2. Was' = all /\ Mixed(at)' = Mixed(at)
    BY <1>1, <2>1, PassBegins, SameInputs DEF Mixed, On
  <2> QED BY <2>1, <2>2 DEF HeldClosed, Closed
<1>2. CASE InPass
  <2>1. ~partial
    BY <1>2 DEF InPass, Next, DrainStep, vars, Create, Anchor, AnchorsDone, PopulateRound,
       Populated, PopulateFails, Write, StartDrain, Commit, Rollback, SkipSide, StartArrivals,
       StartDepartures, DeleteRound, Restore, DeriveRound, RestoreDone, Arrive, Emit, Apply,
       CommitFails, ReadFails, txn
  <2>2. Was' = Was /\ UNCHANGED <<sources, at>>
    BY <1>2, <2>1, PassStep
  <2>3. Mixed(at)' = Mixed(at)
    BY <2>2, SameInputs DEF Mixed, On
  <2> QED BY <1>2, <2>1, <2>2, <2>3 DEF WasClosed, Closed
<1> QED BY <1>1, <1>2, PassEntered

\* Without arrivals the new inputs were all there before.
LEMMA NothingNew ==
  ASSUME SourcesOK, ~Arrivals, NEW c \in Clause, \A p \in c.body : p[2] \in AfterIn
  PROVE  c.body \subseteq Mixed(at)
<1>1. \A p \in c.body : /\ p[1] \in 1 .. Sides /\ p[2] \in Fact /\ p[2] \in Reads[p[1]]
                        /\ p = <<p[1], p[2]>>
  BY ClauseShape
<1>2. \A p \in c.body : p[2] \in BeforeIn
  BY <1>1, Batches DEF Arrivals
<1> QED BY <1>1, <1>2 DEF Mixed, On

\* Then a drain derives nothing it did not find.
LEMMA DeletesOnly ==
  ASSUME Injective, TypeOK, ~Arrivals, Closed(Mixed(at), Was, Was), all \subseteq Was,
         at \in 1 .. Sides, phase = "delete" => \A w \in work : HasKey(Was, w),
         Restore \/ DeriveRound \/ Arrive
  PROVE  all' \subseteq Was
<1>1. SourcesOK /\ Was \in SUBSET Row /\ work \in SUBSET Row
  BY DEF TypeOK, OutOK, Was, Old, InRange, work, Held
<1>2. ASSUME NEW H \in SUBSET Row, H \subseteq Was, NEW N \in Stores(all, H),
             allId' = Insert(allId, allSeq, N)
      PROVE  all' \subseteq Was
  BY <1>2, Stored
<1>3. \A r \in Row : HasKey(Was, r) => r \in Was
  BY <1>1 DEF HasKey, Injective
<1>4. CASE Restore
  <2>1. Restorable(work) \subseteq Was /\ Restorable(work) \in SUBSET Row
    BY <1>1, <1>3, <1>4 DEF Restorable, Restore
  <2> QED BY <1>2, <1>4, <2>1 DEF Restore
<1>5. CASE DeriveRound
  <2>1. PICK hi \in 0 .. allSeq :
          \E N \in Stores(all, RoundHeads(AfterIn, InRange(allId, from, hi))) :
            allId' = Insert(allId, allSeq, N)
    BY <1>5 DEF DeriveRound
  <2>2. InRange(allId, from, hi) \subseteq all
    BY DEF InRange, all, Held, TypeOK, MembersOK, ControlOK
  <2>3. ASSUME NEW h \in RoundHeads(AfterIn, InRange(allId, from, hi)) PROVE h \in Was
    <3>1. PICK c \in Clause : c.head = h /\ c.member \in Was /\ \A p \in c.body : p[2] \in AfterIn
      BY <2>2 DEF RoundHeads, HeadsOf, Fires
    <3>2. HasKey(Was, h)
      BY <1>1, <3>1, NothingNew DEF Closed, ReadsMember
    <3> QED BY <1>3, <3>1, <3>2, ClauseShape
  <2> QED BY <1>2, <2>1, <2>3, HeadsAreRows
<1>6. CASE Arrive
  <2>1. SideHeads(at, Arrived(at), AfterIn) = {}
    BY DEF Arrivals, SideHeads, HeadsOf, FiresAt
  <2> QED BY <1>2, <1>6, <2>1 DEF Arrive
<1> QED BY <1>4, <1>5, <1>6

\* What a pass over a side retracts is there to be retracted.
LEMMA EmitAllowed ==
  ASSUME TypeOK, ScratchOK, ResultOK, PlaceOK, TurnOK, RefusalOK, Emit, ~partial
  PROVE  /\ \A r \in Row : gone'[r] <= result'[r]
         /\ ~Arrivals => come' = Zero
         /\ Arrivals => ~Remaining(at + 1)
<1>a. /\ gone \in [Row -> Nat] /\ come \in [Row -> Nat] /\ result \in [Row -> Nat]
      /\ allId \in [Row -> Nat] /\ start \in Nat /\ at \in Nat /\ Sides \in Nat
  BY ClauseShape DEF TypeOK, OutOK, MembersOK, ControlOK
<1>b. InPass /\ InDrain /\ phase = "arrived" /\ Touched(at) /\ Orderly /\ at \in 1 .. Sides
  BY <1>a DEF Emit, InPass, InDrain, TurnOK, PlaceOK
<1>1. /\ result' = result
      /\ \A r \in Row : gone'[r] = IF r \in Retracts THEN gone[r] + 1 ELSE gone[r]
      /\ come' = CountIn(come, Emits)
  BY DEF Emit, CountIn
<1>2. \A r \in Row : result[r] - gone[r] + come[r] = IF r \in Was THEN 1 ELSE 0
  BY <1>b DEF ResultOK, Owed, Once
<1>3. Arrivals => ~Remaining(at + 1)
  <2> SUFFICES ASSUME Arrivals, NEW t \in (at + 1) .. Sides, Left(t) # {} PROVE FALSE
    BY DEF Remaining
  <2>1. t \in 1 .. Sides /\ at \in 1 .. (t - 1)
    BY <1>b
  <2> QED BY <1>b, <2>1 DEF Orderly, Arrivals
<1>4. Retracts \subseteq Was /\ (Retracts # {} => departed)
  BY DEF Retracts, Was
<1>5. ASSUME ~Arrivals
      PROVE  /\ come = Zero /\ Emits = {}
             /\ \A r \in Retracts : r \in Row => gone[r] + 1 <= result[r]
  <2>1. come = Zero /\ all \subseteq Was
    BY <1>5, <1>b DEF RefusalOK
  <2>2. Emits = {}
    <3>1. ~departed => deleted = {}
      BY <1>b DEF ScratchOK, Deleting
    <3>2. \A r \in Fresh : r \in all /\ r \notin Old
      BY <1>a DEF Fresh, all, Held, Old, InRange
    <3>3. \A r \in Fresh : r \in deleted
      BY <2>1, <3>2 DEF Was
    <3>4. Replaced = {}
      <4>1. KeysApart(Was)
        BY <1>b DEF ResultOK
      <4> QED BY <2>1, <4>1 DEF Replaced, KeysApart, Was
    <3> QED BY <3>1, <3>3, <3>4 DEF Emits, HasKey
  <2>3. ASSUME NEW r \in Retracts, r \in Row PROVE gone[r] + 1 <= result[r]
    <3>1. result[r] - gone[r] + come[r] = 1 /\ come[r] = 0
      BY <1>2, <1>4, <2>1, <2>3 DEF Zero
    <3> QED BY <1>a, <2>3, <3>1
  <2> QED BY <2>1, <2>2, <2>3
<1>6. ASSUME Arrivals
      PROVE  \A r \in Retracts : r \in Row => gone[r] + 1 <= result[r]
  <2> SUFFICES ASSUME NEW r \in Retracts, r \in Row PROVE gone[r] + 1 <= result[r]
    OBVIOUS
  <2>1. Left(at) # {}
    BY <1>4, <1>b DEF RefusalOK
  <2>2. Remaining(at)
    BY <1>b, <2>1 DEF Remaining
  <2>3. gone = Zero /\ come = Zero
    BY <1>6, <1>b, <2>2 DEF RefusalOK
  <2>4. result[r] - gone[r] + come[r] = 1 /\ come[r] = 0 /\ gone[r] = 0
    BY <1>2, <1>4, <2>3 DEF Zero
  <2> QED BY <1>a, <2>4
<1>7. \A r \in Row : gone[r] <= result[r]
  BY <1>b DEF RefusalOK
<1>8. \A r \in Row : gone'[r] <= result'[r]
  <2> SUFFICES ASSUME NEW r \in Row PROVE gone'[r] <= result'[r]
    OBVIOUS
  <2>1. CASE r \in Retracts
    BY <1>1, <1>5, <1>6, <2>1
  <2>2. CASE r \notin Retracts
    BY <1>1, <1>7, <2>2
  <2> QED BY <2>1, <2>2
<1>9. ~Arrivals => come' = Zero
  BY <1>a, <1>1, <1>5, CountNothing
<1> QED BY <1>3, <1>8, <1>9

\* Each step keeps the out table within the state table.
LEMMA RefusalStep ==
  ASSUME Injective, TypeOK, TypeOK', ScratchOK, ScratchOK', ResultOK, PlaceOK, TurnOK, WasClosed,
         RefusalOK, [Next]_vars
  PROVE  RefusalOK'
<1> USE DEF RefusalOK, InDrain, InPass
<1>a. UNCHANGED sources => /\ Arrivals' = Arrivals
                           /\ \A s : Remaining(s)' = Remaining(s) /\ Left(s)' = Left(s)
  BY DEF sources, Arrivals, Arrived, Remaining, Left
<1>b. at \in Nat /\ Sides \in Nat /\ (InDrain => at >= 1)
  BY ClauseShape DEF TypeOK, ControlOK, PlaceOK
<1>1. CASE ~InDrain'
  BY <1>1
<1>2. CASE \E read \in BOOLEAN : StartDrain(read)
  <2>1. /\ UNCHANGED <<tables, partial, departed>> /\ phase = "idle" /\ phase' = "side"
    BY <1>2 DEF StartDrain
  <2>2. ~partial => gone = Zero /\ come = Zero
    BY <2>1 DEF ScratchOK
  <2>3. ~partial => \A r \in Row : gone[r] <= result[r]
    BY <2>2 DEF Zero, TypeOK, OutOK
  <2> QED BY <2>1, <2>2, <2>3 DEF tables
<1>3. CASE SkipSide
  <2>1. /\ UNCHANGED <<sources, tables, partial, departed>> /\ at' = at + 1
        /\ phase = "side" /\ phase' = "side"
    BY <1>3 DEF SkipSide, txn
  <2>2. Remaining(at)' => Remaining(at)
    BY <1>b, <2>1 DEF Remaining, Left, sources
  <2> QED BY <1>a, <2>1, <2>2 DEF tables
<1>4. CASE StartArrivals \/ StartDepartures
  <2>1. /\ UNCHANGED <<sources, allId, gone, come, result, partial, at>> /\ phase = "side"
        /\ phase' \in {"arrive", "delete"} /\ (departed' => Left(at) # {})
    BY <1>4 DEF StartArrivals, StartDepartures, tables, txn
  <2>2. ~partial => Was' = all
    BY <1>4, PassBegins
  <2>3. Left(at)' = Left(at) /\ Remaining(at)' = Remaining(at) /\ all' = all
    BY <1>a, <2>1 DEF all, Remaining, Left
  <2>4. ASSUME ~partial, phase' = "delete" PROVE \A w \in work' : HasKey(Was', w)
    <3>1. StartDepartures
      BY <1>4, <2>4 DEF StartArrivals
    <3>2. PICK N \in Stores({}, Present(SideHeads(at, Left(at), BeforeIn), all)) :
                workId' = Insert(NoIds, workSeq, N)
      BY <3>1 DEF StartDepartures
    <3>3. work' \subseteq N
      BY <3>2 DEF work, Held, Insert, NoIds
    <3>4. \A n \in N : HasKey(all, n)
      BY <3>2 DEF Stores, Present
    <3> QED BY <2>2, <2>4, <3>3, <3>4
  <2> QED BY <1>a, <2>1, <2>2, <2>3, <2>4
<1>5. CASE DeleteRound
  <2>1. /\ UNCHANGED <<sources, gone, come, result, partial, at, departed>>
        /\ phase = "delete" /\ phase' = "delete"
    BY <1>5 DEF DeleteRound, txn
  <2>2. ~partial => Was' = Was
    BY <1>5, DeleteKeepsWas
  <2>3. Left(at)' = Left(at) /\ Remaining(at)' = Remaining(at)
    BY <1>a, <2>1 DEF Remaining, Left
  <2>4. \E R, S : \E N \in Stores(work, Present(S, all \ R)) :
               allId' = Drop(allId, R) /\ workId' = Insert(workId, workSeq, N)
    BY <1>5 DEF DeleteRound
  <2>p. PICK R, S : \E N \in Stores(work, Present(S, all \ R)) :
               allId' = Drop(allId, R) /\ workId' = Insert(workId, workSeq, N)
    BY <2>4
  <2>5. all' \subseteq all
    BY <2>p DEF all, Held, Drop
  <2>6. ASSUME ~partial, all \subseteq Was, \A w \in work : HasKey(Was, w)
        PROVE  \A w \in work' : HasKey(Was, w)
    <3>1. PICK N \in Stores(work, Present(S, all \ R)) : workId' = Insert(workId, workSeq, N)
      BY <2>p
    <3>2. \A n \in N : HasKey(Was, n)
      BY <2>6 DEF Stores, Present, HasKey
    <3>3. \A w \in work' : w \in work \/ w \in N
      BY <3>1 DEF work, Held, Insert
    <3> QED BY <2>6, <3>2, <3>3
  <2> QED BY <1>a, <2>1, <2>2, <2>3, <2>5, <2>6
<1>6. CASE Restore \/ DeriveRound \/ Arrive
  <2>1. /\ UNCHANGED <<sources, gone, come, result, partial, at, departed>>
        /\ phase' \in {"restored", "arrived"} /\ phase \in {"delete", "restored", "arrive", "arrived"}
    BY <1>6 DEF Restore, DeriveRound, Arrive, txn
  <2>2. ~partial => Was' = Was
    BY <2>1, PassStep
  <2>3. Left(at)' = Left(at) /\ Remaining(at)' = Remaining(at)
    BY <1>a, <2>1 DEF Remaining, Left
  <2>4. at \in 1 .. Sides
    BY <1>b, <2>1 DEF PlaceOK
  <2>5. ~partial /\ ~Arrivals => all' \subseteq Was
    BY <1>6, <2>1, <2>4, DeletesOnly DEF WasClosed
  <2> QED BY <1>a, <2>1, <2>2, <2>3, <2>5
<1>7. CASE RestoreDone
  <2>1. /\ UNCHANGED <<sources, allId, deleted, gone, come, result, control, partial>>
        /\ phase = "restored" /\ phase' = "arrive"
    BY <1>7 DEF RestoreDone, txn
  <2>2. /\ all' = all /\ Was' = Was /\ Left(at)' = Left(at) /\ Remaining(at)' = Remaining(at)
    BY <1>a, <2>1 DEF all, Was, Old, control, Remaining, Left
  <2> QED BY <1>a, <2>1, <2>2 DEF control
<1>8. CASE Emit
  <2>1. /\ UNCHANGED <<sources, partial>> /\ at' = at + 1 /\ phase' = "side" /\ ~departed'
    BY <1>8 DEF Emit, txn
  <2>2. Remaining(at)' = Remaining(at + 1)
    BY <2>1 DEF Remaining, Left, sources
  <2> QED BY <1>8, <1>a, <2>1, <2>2, EmitAllowed
<1>9. CASE UNCHANGED vars
  <2>1. UNCHANGED <<sources, tables, control, partial, phase>>
    BY <1>9 DEF vars, txn
  <2>2. /\ all' = all /\ work' = work /\ Was' = Was /\ Left(at)' = Left(at)
        /\ Remaining(at)' = Remaining(at)
    BY <1>a, <2>1 DEF all, work, tables, Was, Old, control, Remaining, Left
  <2> QED BY <1>a, <2>1, <2>2 DEF tables, control
<1>10. Create \/ Anchor \/ AnchorsDone \/ PopulateRound \/ PopulateFails \/ Populated
       \/ (\E f \in Fact : \E d \in {-1, 1} : Write(f, d)) \/ Commit \/ Rollback
       \/ Apply \/ CommitFails \/ ReadFails => ~InDrain'
  BY DEF Create, Anchor, AnchorsDone, PopulateRound, PopulateFails, Populated, Write, Commit,
         Rollback, Apply, CommitFails, ReadFails
<1> QED BY <1>1, <1>2, <1>3, <1>4, <1>5, <1>6, <1>7, <1>8, <1>9, <1>10 DEF Next, DrainStep

\* The invariant behind the view.
ViewInv == ExactInv /\ WasClosed /\ RefusalOK

\* It holds at first.
LEMMA InitView == Init => ViewInv
<1>1. Init => WasClosed /\ RefusalOK
  BY DEF Init, WasClosed, RefusalOK, InPass, InDrain
<1> QED BY <1>1, InitMembers, InitSound DEF ViewInv, ExactInv

\* It is inductive for keys that tell rows apart and orderly batches.
LEMMA ViewStep ==
  ASSUME Injective, ~AnyBatch, ViewInv, [Next]_vars
  PROVE  ViewInv'
<1>1. ExactInv'
  BY InjectiveCongruent, ExactStep DEF ViewInv
<1>2. WasClosed'
  BY WasStep DEF ViewInv, ExactInv, MInv, IInv, ClosedOK
<1>3. RefusalOK'
  BY <1>1, RefusalStep DEF ViewInv, ExactInv, MInv, IInv, ClosedOK, SoundOK
<1> QED BY <1>1, <1>2, <1>3 DEF ViewInv

\* What is retracted is stored.
LEMMA NeverRefused == ViewInv => ApplyNeverRefused
BY DEF ViewInv, RefusalOK, InDrain, ApplyNeverRefused, Applicable

\* `apply_state` never refuses a recursive node's out table (missing result multiplicity):
\* when keys tell rows apart and each batch is orderly, every retraction of a drain, all
\* its sides together, finds its row in the state table.
THEOREM Accepted ==
  ASSUME Injective, ~AnyBatch PROVE Spec => []ApplyNeverRefused
BY InitView, ViewStep, NeverRefused, PTL DEF Spec

-----------------------------------------------------------------------------
(* The view.                                                               *)

\* A budget that no loop over the rows there can be reaches.
Ample == RoundBudget > Cardinality(Row) + 1

\* No statement fails; until the view is made there is nothing to take back.
SteadyOK ==
  /\ ~partial /\ ~saved.partial
  /\ Making => saved.support = support

\* With an ample budget nothing fails, so every drain ends in `apply_state`.
LEMMA SteadyStep ==
  ASSUME Ample, ViewInv, SteadyOK, [Next]_vars
  PROVE  SteadyOK' /\ ~ReadFails /\ ~CommitFails
<1>1. ~Fails
  <2>1. rounds \in Nat /\ rounds <= Cardinality(Row) + 1 /\ Cardinality(Row) \in Nat
        /\ RoundBudget \in Nat
    BY ShapeAssumption, FS_CardinalityType
    DEF ViewInv, ExactInv, MInv, IInv, RoundsOK, TypeOK, ControlOK, ShapeAssumption
  <2>2. ~(rounds >= RoundBudget)
    BY <2>1 DEF Ample
  <2>3. ApplyNeverRefused
    BY NeverRefused
  <2> QED BY <2>2, <2>3 DEF Fails, ApplyNeverRefused, SteadyOK
<1>2. ~ReadFails /\ ~CommitFails
  BY <1>1 DEF ReadFails, CommitFails
<1>3. ~partial'
  BY <1>2 DEF SteadyOK, vars, txn, Next, DrainStep, Create, Anchor, AnchorsDone, PopulateRound,
         Populated, PopulateFails, Write, StartDrain, Commit, Rollback, Restored, SkipSide,
         StartArrivals, StartDepartures, DeleteRound, Restore, DeriveRound, RestoreDone,
         Arrive, Emit, Apply
<1>4. ~saved'.partial
  <2>1. CASE Populated \/ Commit \/ Apply
    <3>1. saved' = saved \/ saved'.partial = partial
      <4>1. CASE Populated \/ Commit
        BY <4>1 DEF Populated, Commit, Snapshot
      <4>2. CASE Apply
        BY <4>2 DEF Apply, Snapshot
      <4> QED BY <2>1, <4>1, <4>2
    <3> QED BY <3>1 DEF SteadyOK
  <2>2. CASE UNCHANGED saved
    BY <2>2 DEF SteadyOK
  <2> QED BY <2>1, <2>2, SavedMoves
<1>5. Making' => saved'.support = support'
  <2> SUFFICES ASSUME Making' PROVE saved'.support = support'
    OBVIOUS
  <2>1. Making /\ UNCHANGED <<support, saved>>
    BY <1>2 DEF Making, vars, sources, txn, Next, DrainStep, Create, Anchor, AnchorsDone,
         PopulateRound, Populated, PopulateFails, Write, StartDrain, Commit, Rollback, SkipSide,
         StartArrivals, StartDepartures, DeleteRound, Restore, DeriveRound, RestoreDone,
         Arrive, Emit, Apply
  <2> QED BY <2>1 DEF SteadyOK
<1> QED BY <1>2, <1>3, <1>4, <1>5 DEF SteadyOK

\* Nothing staged: the reader sees the query over the sources.
Answers == phase = "idle" /\ ~partial /\ ~Staged => Shown = RecursiveQuery(support)

\* The state table is the query's rows, once each.
LEMMA ShownIsQuery == ASSUME Congruent, ExactInv PROVE Answers
<1> SUFFICES ASSUME phase = "idle", ~partial, ~Staged
             PROVE  Shown = RecursiveQuery(support)
  BY DEF Answers
<1>1. BeforeIn = Stocked(support)
  BY NothingStaged DEF ExactInv, MInv, IInv, TypeOK, Staged
<1>2. KeysOf(all) = KeysOf(Lfp(BeforeIn))
  BY ExactMembers DEF Settled, MembersAreLeastFixpoint
<1>3. result = Once(all) /\ all \subseteq Row
  BY DEF ExactInv, MInv, IInv, ResultOK, all, Held
<1>4. \A r \in Row : (result[r] > 0 <=> r \in all) /\ (r \in all => result[r] = 1)
  BY <1>3 DEF Once
<1>5. Shown = {<<k, 1>> : k \in KeysOf(all)}
  BY <1>3, <1>4 DEF Shown, KeysOf
<1> QED BY <1>1, <1>2, <1>5 DEF RecursiveQuery, Stocked

\* Between statements the reader sees what the last drain or population left.
LEMMA ViewImplements ==
  ASSUME Ample, ViewInv, SteadyOK, SteadyOK', Answers', [Next]_vars
  PROVE  [View!NextView]_(View!ivars)
<1> DEFINE Stutter == UNCHANGED <<support, saved.support, Shown>>
<1>a. ASSUME phase' = "idle", ~Staged' PROVE Shown' = RecursiveQuery(support')
  BY <1>a DEF Answers, SteadyOK
<1>b. ~Making => Shown # {<<>>}
  BY DEF Shown, Making
<1>1. CASE Create \/ Anchor \/ AnchorsDone \/ PopulateRound \/ PopulateFails
  <2>1. Stutter
    BY <1>1 DEF Create, Anchor, AnchorsDone, PopulateRound, PopulateFails, Shown, sources, txn
  <2> QED BY <2>1 DEF View!ivars
<1>2. CASE Populated
  <2>1. /\ phase = "populate" /\ phase' = "idle" /\ UNCHANGED sources
        /\ saved'.support = support
    BY <1>2 DEF Populated, Snapshot
  <2>2. ~Staged' /\ saved.support = support
    BY <2>1 DEF ViewInv, ExactInv, MInv, ClosedOK, PlaceOK, Making, Staged, sources, SteadyOK
  <2>3. Shown = {<<>>} /\ Shown' = RecursiveQuery(support) /\ support' = support
    BY <1>a, <2>1, <2>2 DEF Shown, sources
  <2> QED BY <2>1, <2>2, <2>3 DEF View!NextView, View!Install
<1>3. CASE \E f \in Fact : \E d \in {-1, 1} : Write(f, d)
  <2>1. PICK f \in Fact, d \in {-1, 1} : Write(f, d)
    BY <1>3
  <2>2. ~Making /\ Shown' = Shown /\ saved' = saved
    BY <2>1 DEF Write, Making, Shown, tables, txn
  <2>3. View!Change(f, d)
    BY <1>b, <2>1, <2>2 DEF View!Change, Write
  <2> QED BY <2>3 DEF View!NextView
<1>4. CASE \E read \in BOOLEAN : StartDrain(read)
  <2>1. Stutter
    BY <1>4 DEF StartDrain, Shown, sources, tables
  <2> QED BY <2>1 DEF View!ivars
<1>5. CASE Commit
  <2>1. /\ phase = "idle" /\ phase' = "idle" /\ ~Staged' /\ saved'.support = support
        /\ UNCHANGED <<support, Shown>> /\ ~Making
    BY <1>5 DEF Commit, Snapshot, Staged, sources, tables, Shown, Making
  <2> QED BY <1>a, <1>b, <2>1 DEF View!NextView, View!CommitView
<1>6. CASE Rollback
  <2>1. /\ phase = "idle" /\ phase' = "idle" /\ ~Staged' /\ support' = saved.support
        /\ saved' = saved /\ ~Making
    BY <1>6 DEF Rollback, Restored, Staged, Making
  <2> QED BY <1>a, <1>b, <2>1 DEF View!NextView, View!RollbackView
<1>7. CASE SkipSide \/ StartArrivals \/ StartDepartures \/ DeleteRound \/ Restore
           \/ DeriveRound \/ RestoreDone \/ Arrive \/ Emit
  <2>1. ~Making /\ ~Making' /\ UNCHANGED <<support, saved, result>>
    BY <1>7 DEF SkipSide, StartArrivals, StartDepartures, DeleteRound, Restore, DeriveRound,
                RestoreDone, Arrive, Emit, Making, sources, tables, txn
  <2>2. Stutter
    BY <2>1 DEF Shown, Making
  <2> QED BY <2>2 DEF View!ivars
<1>8. CASE Apply
  <2>1. /\ phase' = "idle" /\ ~Staged' /\ support' = support /\ ~Making
        /\ (saved' = saved \/ saved'.support = support)
    BY <1>8 DEF Apply, Snapshot, Staged, Making
  <2>2. Shown # {<<>>} /\ Shown' = RecursiveQuery(support)
    BY <1>a, <1>b, <2>1
  <2> QED BY <2>1, <2>2 DEF View!NextView, View!Refresh, View!CommitView
<1>9. CASE UNCHANGED vars
  <2>1. Stutter
    BY <1>9 DEF vars, sources, tables, txn, Shown
  <2> QED BY <2>1 DEF View!ivars
<1>10. ~ReadFails /\ ~CommitFails
  BY SteadyStep
<1> QED BY <1>1, <1>2, <1>3, <1>4, <1>5, <1>6, <1>7, <1>8, <1>9, <1>10 DEF Next, DrainStep

\* A reader of the view sees the abstract view: nothing before it is made, then after each
\* read or commit the recursive query over the sources, and what the last drain left in
\* between; a drain's passes and rounds are stutters, ROLLBACK restores the commit.
THEOREM Implements ==
  ASSUME Injective, ~AnyBatch, Ample PROVE Spec => ImplementsView
<1>1. Init => View!InitView
  <2> SUFFICES ASSUME Init PROVE View!InitView
    OBVIOUS
  <2>1. support \in [Fact -> 0 .. MaxCopies] /\ saved.support = support /\ Shown = {<<>>}
    BY DEF Init, Shown, NoView
  <2> QED BY <2>1 DEF View!InitView
<1>2. Init => ViewInv /\ SteadyOK
  <2>1. Init => SteadyOK
    BY DEF Init, NoView, SteadyOK
  <2> QED BY <2>1, InitView
<1>3. ViewInv /\ SteadyOK /\ [Next]_vars => ViewInv' /\ SteadyOK'
  BY ViewStep, SteadyStep
<1>4. ViewInv => Answers
  BY ShownIsQuery, InjectiveCongruent DEF ViewInv
<1>5. ViewInv /\ SteadyOK /\ SteadyOK' /\ Answers' /\ [Next]_vars
        => [View!NextView]_(View!ivars)
  BY ViewImplements
<1> QED BY <1>1, <1>2, <1>3, <1>4, <1>5, PTL DEF Spec, ImplementsView, View!ViewSpec
=============================================================================
