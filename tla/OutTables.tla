------------------------------ MODULE OutTables ------------------------------
(***************************************************************************)
(* The scratch out tables the nodes of a view's plan share: how the        *)
(* compiler assigns them (assign_out_slots), how population and the drain  *)
(* fill and clear them (src/1a_relational.rs, src/1b_state.rs,             *)
(* src/1d_drain.rs).                                                       *)
(*                                                                         *)
(* A row of a node's delta is only the node that wrote it: a table is the  *)
(* set of the nodes whose rows it holds.  Nodes are numbered from 1, so    *)
(* that 0 is the seed boundary and n + 1 the end of the drain.             *)
(*                                                                         *)
(* An operator named Slip is the next one with a plausible mistake in it:  *)
(* nothing uses it, the runs are repeated with it in place of the original.*)
(***************************************************************************)
EXTENDS Integers, Sequences, FiniteSets

CONSTANT Plans  \* the plans the compiler may lower a view to

\* arrange: a node that consolidates its delta in its out table; append: a
\* recursive node, or a join whose groups consolidate for it.
Kinds == {"input", "map", "all", "arrange", "append"}

\* push appends after its inputs; the output is pushed last; `keeps` is
\* aggregate_sum_inputs: the output is a group that reads its input again.
ASSUME PlanAssumption ==
  \A p \in Plans :
    /\ p.n \in Nat \ {0}
    /\ p.kind \in [1..p.n -> Kinds]
    /\ p.width \in [1..p.n -> Nat]
    /\ p.inputs \in [1..p.n -> Seq(Nat)]
    /\ p.arity \in Nat /\ \A k \in 1..p.n : Len(p.inputs[k]) <= p.arity
    /\ p.keeps \in BOOLEAN
    /\ \A k \in 1..p.n : \A i \in DOMAIN p.inputs[k] : p.inputs[k][i] \in 1..(k - 1)
    /\ \A k \in 1..p.n : p.kind[k] = "input" => p.inputs[k] = <<>>
    /\ \A k \in 1..p.n : p.kind[k] \in {"map", "all"} => p.inputs[k] # <<>>
    /\ p.keeps => p.kind[p.n] = "arrange" /\ p.inputs[p.n] # <<>>

VARIABLES
  plan,      \* the plan being compiled, populated and drained
  phase,     \* which loop runs
  at,        \* its cursor over the nodes
  lastRead,  \* out_last_reads
  slot,      \* out_slots
  end,       \* the last read of the node a slot was last given to
  table,     \* contents of each slot's temp table
  wrote,     \* out_rows, materialized_rows: the node wrote rows
  reads,     \* population: readers of a node that have not run
  reading,   \* the drain serves a read, not a commit
  dirty,     \* a failed read left rows in the tables
  saved      \* what ROLLBACK restores

vars == <<plan, phase, at, lastRead, slot, end, table, wrote, reads, reading, dirty, saved>>
layout == <<plan, lastRead, slot, end>>

Nodes  == 1..plan.n
Output == plan.n
Kind(k) == plan.kind[k]
InputsOf(k) == {plan.inputs[k][i] : i \in DOMAIN plan.inputs[k]}
Kept == IF plan.keeps THEN {plan.inputs[Output][1]} ELSE {}

NoRows == [k \in Nodes |-> FALSE]

Clear(t, K) == [s \in Nodes |-> IF \E k \in K : slot[k] = s THEN {} ELSE t[s]]
Empty == [s \in Nodes |-> {}]

Init ==
  /\ plan \in Plans
  /\ phase = "reads" /\ at = 1
  /\ lastRead = [k \in Nodes |-> k]
  /\ slot = [k \in Nodes |-> 0] /\ end = [k \in Nodes |-> 0]
  /\ table = Empty
  /\ wrote = NoRows /\ reads = [k \in Nodes |-> 0]
  /\ reading = FALSE /\ dirty = FALSE
  /\ saved = [table |-> Empty, dirty |-> FALSE]

-----------------------------------------------------------------------------
(* assign_out_slots.                                                       *)

CountReads ==
  /\ phase = "reads" /\ at <= plan.n
  /\ lastRead' = [k \in Nodes |-> IF k \in InputsOf(at) THEN at ELSE lastRead[k]]
  /\ at' = at + 1
  /\ UNCHANGED <<plan, phase, slot, end, table, wrote, reads, reading, dirty, saved>>

\* The output, the input a kept aggregate reads again and an input nobody
\* reads live until the end of the drain.
SlipUnread(k) == FALSE
Unread(k) == Kind(k) = "input" /\ lastRead[k] = k

ExtendReads ==
  /\ phase = "reads" /\ at > plan.n
  /\ lastRead' = [k \in Nodes |-> IF k = Output \/ k \in Kept \/ Unread(k)
                                  THEN plan.n + 1 ELSE lastRead[k]]
  /\ phase' = "slots" /\ at' = 1
  /\ UNCHANGED <<plan, slot, end, table, wrote, reads, reading, dirty, saved>>

Start(k) == IF Kind(k) = "input" THEN 0 ELSE k

\* Slots of the width whose last holder is read no more when k starts.
SlipFreeSlots(k) ==
  {s \in 1..(k - 1) : slot[s] = s /\ plan.width[s] = plan.width[k] /\ end[s] <= Start(k)}
FreeSlots(k) ==
  {s \in 1..(k - 1) : slot[s] = s /\ plan.width[s] = plan.width[k] /\ end[s] < Start(k)}

\* The first of them, or a new slot.
SlotFor(k) ==
  IF FreeSlots(k) = {} THEN {k}
  ELSE {s \in FreeSlots(k) : \A t \in FreeSlots(k) : s <= t}

AssignSlot ==
  /\ phase = "slots" /\ at <= plan.n
  /\ \E s \in SlotFor(at) :
       /\ slot' = [slot EXCEPT ![at] = s]
       /\ end' = [end EXCEPT ![s] = lastRead[at]]
  /\ at' = at + 1
  /\ UNCHANGED <<plan, phase, lastRead, table, wrote, reads, reading, dirty, saved>>

SlotsAssigned ==
  /\ phase = "slots" /\ at > plan.n
  /\ phase' = "planned" /\ at' = 1
  /\ UNCHANGED <<layout, table, wrote, reads, reading, dirty, saved>>

-----------------------------------------------------------------------------
(* Population.                                                             *)

\* map and UNION ALL count a read of their first input only.
Counted(k) ==
  IF Kind(k) \in {"map", "all"} THEN {1} ELSE DOMAIN plan.inputs[k]

ReadBy(k) == {plan.inputs[k][j] : j \in Counted(k)}

\* The places where nodes of K read i.
UsesIn(K, i) == {u \in K \X (1..plan.arity) : u[2] \in Counted(u[1]) /\ plan.inputs[u[1]][u[2]] = i}

\* One per use, one for the state table, one for the counts of a kept aggregate.
SlipReaders(i) ==
  Cardinality({k \in Nodes : i \in ReadBy(k)})
  + (IF i = Output THEN 1 ELSE 0) + (IF i \in Kept THEN 1 ELSE 0)
SlipReadersOnce(i) ==
  Cardinality(UsesIn(Nodes, i)) + (IF i = Output THEN 1 ELSE 0)
Readers(i) ==
  Cardinality(UsesIn(Nodes, i)) + (IF i = Output THEN 1 ELSE 0) + (IF i \in Kept THEN 1 ELSE 0)

Install ==
  /\ phase = "planned"
  /\ table' = Empty
  /\ wrote' = NoRows
  /\ reads' = [i \in Nodes |-> Readers(i)]
  /\ phase' = "populate" /\ at' = 1
  /\ UNCHANGED <<layout, reading, dirty, saved>>

\* What a node can write: a map nothing for no rows, UNION ALL the rows of
\* the one input it copies.
Materialized(k, rows) ==
  CASE Kind(k) = "map" -> rows => wrote[plan.inputs[k][1]]
    [] Kind(k) = "all" -> rows = wrote[plan.inputs[k][1]]
    [] OTHER -> TRUE

PopulateNode(rows) ==
  /\ phase = "populate" /\ at <= plan.n
  /\ Materialized(at, rows)
  /\ LET filled == [table EXCEPT ![slot[at]] = IF rows THEN @ \cup {at} ELSE @]
         left   == [k \in Nodes |-> reads[k] - Cardinality(UsesIn({at}, k))
                                      - (IF k = at /\ at = Output THEN 1 ELSE 0)]
         done   == {k \in ReadBy(at) \cup {at} : left[k] = 0}
     IN /\ table' = Clear(filled, done)
        /\ reads' = left
  /\ wrote' = [wrote EXCEPT ![at] = rows]
  /\ at' = at + 1
  /\ UNCHANGED <<layout, phase, reading, dirty, saved>>

\* A kept aggregate reads its input's rows once more for its support counts.
Populated ==
  /\ phase = "populate" /\ at > plan.n
  /\ LET left == [k \in Nodes |-> reads[k] - (IF k \in Kept THEN 1 ELSE 0)]
     IN /\ reads' = left
        /\ table' = Clear(table, {k \in Kept : left[k] = 0})
  /\ wrote' = NoRows
  /\ phase' = "idle" /\ at' = 1
  /\ saved' = [table |-> table', dirty |-> FALSE]
  /\ UNCHANGED <<layout, reading, dirty>>

\* A budget or an overflow stops the population: the CREATE is undone.
PopulateFails ==
  /\ phase = "populate"
  /\ table' = Empty /\ wrote' = NoRows /\ reads' = [k \in Nodes |-> 0]
  /\ phase' = "planned" /\ at' = 1
  /\ UNCHANGED <<layout, reading, dirty, saved>>

-----------------------------------------------------------------------------
(* The drain of one batch.                                                 *)

\* The batch seeds the input nodes of the sources it touches.  What a drain
\* does with the rows a failed read left in the tables is not followed.
StartDrain(read, touched) ==
  /\ phase = "idle" /\ ~dirty
  /\ touched # {} /\ \A k \in touched : Kind(k) = "input"
  /\ wrote' = [k \in Nodes |-> k \in touched]
  /\ table' = [s \in Nodes |-> table[s] \cup {k \in touched : slot[k] = s}]
  /\ reading' = read
  /\ phase' = "drain" /\ at' = 1
  /\ UNCHANGED <<layout, reads, dirty, saved>>

IsTouched(k) == Kind(k) # "input" /\ \E i \in InputsOf(k) : wrote[i]

SkipNode ==
  /\ phase = "drain" /\ at <= plan.n /\ ~IsTouched(at)
  /\ at' = at + 1
  /\ UNCHANGED <<layout, phase, table, wrote, reads, reading, dirty, saved>>

\* A consolidating node empties its out table before it emits, the others append.
\* UNION ALL copies every input; the others may find that nothing changes.
RunNode(rows) ==
  /\ phase = "drain" /\ at <= plan.n /\ IsTouched(at)
  /\ Kind(at) = "all" => rows
  /\ LET base   == IF Kind(at) = "arrange" THEN Clear(table, {at}) ELSE table
         filled == [base EXCEPT ![slot[at]] = IF rows THEN @ \cup {at} ELSE @]
         read   == {k \in InputsOf(at) : lastRead[k] = at /\ wrote[k]}
         own    == IF lastRead[at] = at /\ rows THEN {at} ELSE {}
     IN table' = Clear(filled, read \cup own)
  /\ wrote' = [wrote EXCEPT ![at] = rows]
  /\ at' = at + 1
  /\ UNCHANGED <<layout, phase, reads, reading, dirty, saved>>

DrainReturns == phase' = "idle" /\ at' = 1 /\ wrote' = NoRows /\ reading' = FALSE

\* The final sweep; a commit becomes what ROLLBACK restores.
DrainEnds ==
  /\ phase = "drain" /\ at > plan.n
  /\ table' = Clear(table, {k \in Nodes : wrote[k] /\ lastRead[k] = plan.n + 1})
  /\ saved' = IF reading THEN saved ELSE [table |-> table', dirty |-> dirty]
  /\ DrainReturns
  /\ UNCHANGED <<layout, reads, dirty>>

\* A node fails part way.  A commit rolls back; a read keeps what its drain
\* wrote so far, the failing node's partial rows included.
DrainFails(rows) ==
  /\ phase = "drain" /\ at <= plan.n
  /\ IF reading
     THEN /\ table' = [table EXCEPT ![slot[at]] = IF rows THEN @ \cup {at} ELSE @]
          /\ dirty' = TRUE
     ELSE /\ ~rows
          /\ table' = saved.table /\ dirty' = saved.dirty
  /\ DrainReturns
  /\ UNCHANGED <<layout, reads, saved>>

Commit ==
  /\ phase = "idle" /\ saved # [table |-> table, dirty |-> dirty]
  /\ saved' = [table |-> table, dirty |-> dirty]
  /\ UNCHANGED <<layout, phase, at, table, wrote, reads, reading, dirty>>

Rollback ==
  /\ phase = "idle"
  /\ table' = saved.table /\ dirty' = saved.dirty
  /\ UNCHANGED <<layout, phase, at, wrote, reads, reading, saved>>

Next ==
  \/ CountReads \/ ExtendReads \/ AssignSlot \/ SlotsAssigned
  \/ Install \/ Populated \/ PopulateFails
  \/ \E rows \in BOOLEAN : PopulateNode(rows) \/ RunNode(rows) \/ DrainFails(rows)
  \/ \E read \in BOOLEAN : \E touched \in SUBSET Nodes : StartDrain(read, touched)
  \/ SkipNode \/ DrainEnds
  \/ Commit \/ Rollback

Spec == Init /\ [][Next]_vars

-----------------------------------------------------------------------------
TypeOK ==
  /\ plan \in Plans
  /\ phase \in {"reads", "slots", "planned", "populate", "idle", "drain"}
  /\ at \in 1..(plan.n + 1)
  /\ lastRead \in [Nodes -> 1..(plan.n + 1)]
  /\ slot \in [Nodes -> 0..plan.n] /\ end \in [Nodes -> 0..(plan.n + 1)]
  /\ table \in [Nodes -> SUBSET Nodes]
  /\ wrote \in [Nodes -> BOOLEAN]
  /\ reads \in [Nodes -> Nat]
  /\ reading \in BOOLEAN /\ dirty \in BOOLEAN
  /\ saved \in [table : [Nodes -> SUBSET Nodes], dirty : BOOLEAN]

\* A node's table holds that node's rows of this run and no other's.
Holds(k) == table[slot[k]] = IF wrote[k] THEN {k} ELSE {}

\* When a node of the drain runs, each input's table is exactly the delta that
\* input wrote in this drain, and its own is empty: no node reads or clears
\* rows of another that shares the table.
DrainReadsItsInputs ==
  phase = "drain" /\ at <= plan.n /\ IsTouched(at) /\ ~dirty =>
    /\ \A i \in InputsOf(at) : Holds(i)
    /\ table[slot[at]] = {}

\* So does each step of population, its last look at a kept input included.
PopulationReadsItsInputs ==
  phase = "populate" =>
    /\ at <= plan.n => \A i \in ReadBy(at) : Holds(i)
    /\ at <= plan.n => table[slot[at]] = {}
    /\ at > plan.n => \A i \in Kept : Holds(i)

\* Between drains every out table is empty, so the next drain's deltas are
\* its own.
TablesAreCleared == phase = "idle" /\ ~dirty => table = Empty

\* UNION ALL shows the rows of every branch from the start.
EveryBranchIsPopulated ==
  phase = "populate" =>
    \A k \in 1..(at - 1) : Kind(k) = "all" => (wrote[k] <=> \E i \in InputsOf(k) : wrote[i])
=============================================================================
