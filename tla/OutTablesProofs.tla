-------------------------- MODULE OutTablesProofs --------------------------
(***************************************************************************)
(* The nodes of any plan share their scratch out tables without ever       *)
(* reading or clearing each other's rows.                                  *)
(*                                                                         *)
(* The argument: nodes that share a slot have lifetimes one after the      *)
(* other (Apart).  At any point of a population or a drain the nodes that  *)
(* still have a reader are alive at once, so no two of them share a slot   *)
(* (Alone) and the tables hold exactly their rows (Rows).                  *)
(***************************************************************************)
EXTENDS OutTables, FiniteSetTheorems, TLAPS

-----------------------------------------------------------------------------
(* The inductive invariant.                                                *)

\* Consumers before m have been counted.
LastReadsOK(m) ==
  /\ \A k \in Nodes : k <= lastRead[k]
  /\ \A k \in Nodes : k < m => \A i \in InputsOf(k) : k <= lastRead[i]
  /\ \A k \in Nodes : lastRead[k] \in {k, plan.n + 1} \/ k \in InputsOf(lastRead[k])

Extended ==
  /\ \A k \in Nodes : Kind(k) = "input" => k < lastRead[k]
  /\ lastRead[Output] = plan.n + 1
  /\ \A k \in Kept : lastRead[k] = plan.n + 1

\* Nodes before m have a slot.
SlotsOK(m) == \A k \in Nodes : k < m => slot[k] \in 1..k /\ lastRead[k] <= end[slot[k]]

\* Of two nodes that share a slot, the second starts after the last read of the first.
Apart(m) ==
  \A a, b \in Nodes : a < b /\ b < m /\ slot[a] = slot[b] => lastRead[a] < Start(b)

LayoutOK ==
  /\ phase = "reads" => LastReadsOK(at)
  /\ phase # "reads" => LastReadsOK(plan.n + 1) /\ Extended
  /\ phase = "slots" => SlotsOK(at) /\ Apart(at)
  /\ phase \notin {"reads", "slots"} => SlotsOK(plan.n + 1) /\ Apart(plan.n + 1)

\* The tables when exactly the nodes of A have rows in them.
Rows(A) == [s \in Nodes |-> {k \in A : slot[k] = s}]

\* Readers of i still to run, counted as populate counts them.
Remaining(i) ==
  Cardinality(UsesIn(at..plan.n, i))
  + (IF i = Output /\ at <= Output THEN 1 ELSE 0) + (IF i \in Kept THEN 1 ELSE 0)

PopulationOK ==
  phase = "populate" =>
    /\ \A i \in Nodes : reads[i] = Remaining(i)
    /\ \A k \in Nodes : wrote[k] => k < at
    /\ table = Rows({k \in Nodes : wrote[k] /\ 0 < reads[k]})

DrainOK ==
  phase = "drain" =>
    /\ ~dirty
    /\ \A k \in Nodes : wrote[k] /\ Kind(k) # "input" => k < at
    /\ table = Rows({k \in Nodes : wrote[k] /\ at <= lastRead[k]})

RestOK ==
  /\ TablesAreCleared
  /\ ~saved.dirty => saved.table = Empty

Inv == TypeOK /\ LayoutOK /\ PopulationOK /\ DrainOK /\ RestOK

\* The nodes that may hold or take rows when node m runs.
Alive(m) == {k \in Nodes : Start(k) <= m /\ m <= lastRead[k]}

-----------------------------------------------------------------------------
(* The plan.                                                               *)

LEMMA PlanShape ==
  ASSUME plan \in Plans
  PROVE  /\ plan.n \in Nat \ {0} /\ Output \in Nodes
         /\ \A k \in Nodes : k \in Nat /\ 1 <= k /\ k <= plan.n
         /\ \A k \in Nodes : Start(k) \in {0, k}
         /\ \A k \in Nodes : \A i \in InputsOf(k) : i \in Nodes /\ i < k
         /\ \A k \in Nodes : Kind(k) = "input" => InputsOf(k) = {}
         /\ \A k \in Nodes : Kind(k) = "input" <=> Start(k) = 0
         /\ Kept \subseteq Nodes /\ Output \notin Kept
<1>1. plan.n \in Nat \ {0} /\ Output \in Nodes
  BY PlanAssumption DEF Output, Nodes
<1>2. \A k \in Nodes : k \in Nat /\ 1 <= k /\ k <= plan.n
  BY <1>1 DEF Nodes
<1>3. ASSUME NEW k \in Nodes
      PROVE  \A i \in InputsOf(k) : i \in Nodes /\ i < k
  <2>1. \A j \in DOMAIN plan.inputs[k] : plan.inputs[k][j] \in 1..(k - 1)
    BY PlanAssumption DEF Nodes
  <2> QED BY <2>1, <1>1, <1>2 DEF InputsOf, Nodes
<1>4. ASSUME NEW k \in Nodes, Kind(k) = "input"
      PROVE  InputsOf(k) = {}
  <2>1. plan.inputs[k] = <<>>
    BY <1>4, PlanAssumption DEF Nodes, Kind
  <2> QED BY <2>1 DEF InputsOf
<1>5. Kept \subseteq Nodes /\ Output \notin Kept
  <2>1. CASE ~plan.keeps
    BY <2>1 DEF Kept
  <2>2. CASE plan.keeps
    <3>1. plan.inputs[Output] # <<>> /\ plan.inputs[Output] \in Seq(Nat)
      BY <2>2, <1>1, PlanAssumption DEF Output, Nodes
    <3>2. 1 \in DOMAIN plan.inputs[Output]
      BY <3>1
    <3>3. plan.inputs[Output][1] \in InputsOf(Output)
      BY <3>2 DEF InputsOf
    <3> QED BY <3>3, <1>1, <1>2, <1>3 DEF Kept
  <2> QED BY <2>1, <2>2
<1> QED BY <1>1, <1>2, <1>3, <1>4, <1>5 DEF Start

\* A node counts reads of its own inputs only, at places up to the arity.
LEMMA ReadByInputs ==
  ASSUME plan \in Plans, NEW k \in Nodes
  PROVE  /\ ReadBy(k) \subseteq InputsOf(k)
         /\ Counted(k) \subseteq 1..plan.arity
<1>1. /\ plan.inputs[k] \in Seq(Nat) /\ plan.arity \in Nat
      /\ Len(plan.inputs[k]) <= plan.arity
  BY PlanAssumption DEF Nodes
<1>2. Kind(k) \in {"map", "all"} => plan.inputs[k] # <<>>
  BY PlanAssumption DEF Nodes, Kind
<1>3. Counted(k) \subseteq DOMAIN plan.inputs[k]
  BY <1>1, <1>2 DEF Counted
<1> QED BY <1>1, <1>3 DEF ReadBy, InputsOf

LEMMA SamePlan ==
  ASSUME plan' = plan
  PROVE  /\ Nodes' = Nodes /\ Output' = Output /\ Kept' = Kept
         /\ \A k : Kind(k)' = Kind(k) /\ InputsOf(k)' = InputsOf(k) /\ Start(k)' = Start(k)
         /\ \A K, i : UsesIn(K, i)' = UsesIn(K, i)
         /\ Empty' = Empty
BY DEF Nodes, Output, Kept, Kind, InputsOf, Start, UsesIn, Counted, Empty

-----------------------------------------------------------------------------
(* The tables.                                                             *)

\* Two nodes that are alive when a third one runs have different slots.
LEMMA Alone ==
  ASSUME TypeOK, Apart(plan.n + 1), NEW m \in Nat,
         NEW a \in Alive(m), NEW b \in Alive(m), slot[a] = slot[b]
  PROVE  a = b
<1>1. /\ a \in Nodes /\ b \in Nodes /\ a \in Nat /\ b \in Nat /\ plan.n \in Nat
      /\ a < plan.n + 1 /\ b < plan.n + 1
      /\ Start(a) \in Nat /\ Start(b) \in Nat
      /\ lastRead[a] \in Nat /\ lastRead[b] \in Nat
  BY PlanShape DEF TypeOK, Alive
<1>2. /\ a < b => lastRead[a] < Start(b)
      /\ b < a => lastRead[b] < Start(a)
  BY <1>1 DEF Apart
<1> QED BY <1>1, <1>2 DEF Alive

LEMMA ClearRemoves ==
  ASSUME NEW B, NEW A \in SUBSET B, NEW D \in SUBSET B,
         \A a, b \in B : slot[a] = slot[b] => a = b
  PROVE  Clear(Rows(A), D) = Rows(A \ D)
BY DEF Clear, Rows

LEMMA FillAdds ==
  ASSUME NEW A, NEW a, slot[a] \in Nodes, NEW rows \in BOOLEAN
  PROVE  [Rows(A) EXCEPT ![slot[a]] = IF rows THEN @ \cup {a} ELSE @]
           = Rows(A \cup (IF rows THEN {a} ELSE {}))
BY DEF Rows

LEMMA NoRowsNoTable == Rows({}) = Empty
BY DEF Rows, Empty

\* The table of a node that is alive with all of A holds its own rows only.
LEMMA OwnRows ==
  ASSUME TypeOK, Apart(plan.n + 1), NEW m \in Nat, NEW A \in SUBSET Alive(m),
         NEW k \in Alive(m), slot[k] \in Nodes
  PROVE  Rows(A)[slot[k]] = A \cap {k}
BY Alone DEF Rows

LEMMA SlotIsNode ==
  ASSUME TypeOK, SlotsOK(plan.n + 1), NEW k \in Nodes
  PROVE  slot[k] \in Nodes
<1>1. plan.n \in Nat /\ k \in Nat /\ k <= plan.n
  BY PlanShape DEF TypeOK
<1> QED BY <1>1 DEF SlotsOK, Nodes

LEMMA TableTypes ==
  ASSUME NEW A \in SUBSET Nodes, NEW t \in [Nodes -> SUBSET Nodes], NEW D
  PROVE  /\ Rows(A) \in [Nodes -> SUBSET Nodes]
         /\ Clear(t, D) \in [Nodes -> SUBSET Nodes]
         /\ Empty \in [Nodes -> SUBSET Nodes]
BY DEF Rows, Clear, Empty
-----------------------------------------------------------------------------
(* The readers that are left.                                              *)

LEMMA UsesFinite ==
  ASSUME plan \in Plans, NEW m \in Nat, NEW i
  PROVE  IsFiniteSet(UsesIn(m..plan.n, i))
<1>1. plan.n \in Nat /\ plan.arity \in Nat
  BY PlanAssumption
<1>2. IsFiniteSet(m..plan.n) /\ IsFiniteSet(1..plan.arity)
  <2>1. m \in Int /\ plan.n \in Int /\ 1 \in Int /\ plan.arity \in Int
    BY <1>1
  <2>2. IsFiniteSet(m..plan.n)
    BY <2>1, FS_Interval
  <2>3. IsFiniteSet(1..plan.arity)
    BY <2>1, FS_Interval
  <2> QED BY <2>2, <2>3
<1>3. IsFiniteSet((m..plan.n) \X (1..plan.arity))
  BY <1>2, FS_Product
<1>4. UsesIn(m..plan.n, i) \subseteq (m..plan.n) \X (1..plan.arity)
  BY DEF UsesIn
<1> QED BY <1>3, <1>4, FS_Subset

LEMMA RemainingIsNat ==
  ASSUME TypeOK, NEW i
  PROVE  Cardinality(UsesIn(at..plan.n, i)) \in Nat /\ Remaining(i) \in Nat
<1>1. IsFiniteSet(UsesIn(at..plan.n, i))
  BY UsesFinite DEF TypeOK
<1>2. Cardinality(UsesIn(at..plan.n, i)) \in Nat
  BY <1>1, FS_CardinalityType
<1> QED BY <1>2 DEF Remaining

\* The uses of i by the nodes from at on are those of at and those after it.
LEMMA UsesSplit ==
  ASSUME TypeOK, at <= plan.n, NEW i
  PROVE  /\ Cardinality(UsesIn({at}, i)) \in Nat
         /\ Cardinality(UsesIn((at + 1)..plan.n, i)) \in Nat
         /\ Cardinality(UsesIn(at..plan.n, i))
              = Cardinality(UsesIn({at}, i)) + Cardinality(UsesIn((at + 1)..plan.n, i))
<1>1. at \in Nat /\ plan.n \in Nat
  BY PlanShape DEF TypeOK
<1>2. /\ IsFiniteSet(UsesIn(at..plan.n, i))
      /\ IsFiniteSet(UsesIn((at + 1)..plan.n, i))
  BY <1>1, UsesFinite DEF TypeOK
<1>3. UsesIn({at}, i) \subseteq UsesIn(at..plan.n, i)
  BY <1>1 DEF UsesIn
<1>4. IsFiniteSet(UsesIn({at}, i))
  BY <1>2, <1>3, FS_Subset
<1>5. UsesIn(at..plan.n, i) = UsesIn({at}, i) \cup UsesIn((at + 1)..plan.n, i)
  <2>1. at..plan.n = {at} \cup ((at + 1)..plan.n)
    BY <1>1
  <2> QED BY <2>1 DEF UsesIn
<1>6. UsesIn({at}, i) \cap UsesIn((at + 1)..plan.n, i) = {}
  BY <1>1 DEF UsesIn
<1>7. Cardinality({}) = 0
  BY FS_EmptySet
<1>8. /\ Cardinality(UsesIn({at}, i)) \in Nat
      /\ Cardinality(UsesIn((at + 1)..plan.n, i)) \in Nat
  BY <1>2, <1>4, FS_CardinalityType
<1>9. Cardinality(UsesIn(at..plan.n, i))
        = Cardinality(UsesIn({at}, i)) + Cardinality(UsesIn((at + 1)..plan.n, i))
            - Cardinality(UsesIn({at}, i) \cap UsesIn((at + 1)..plan.n, i))
  BY <1>2, <1>4, <1>5, FS_Union
<1>10. Cardinality(UsesIn({at}, i) \cap UsesIn((at + 1)..plan.n, i)) = 0
  BY <1>6, <1>7
<1> QED BY <1>8, <1>9, <1>10

\* A node that does not read i has no use of it.
LEMMA NoUse ==
  ASSUME NEW k, NEW i, i \notin ReadBy(k)
  PROVE  Cardinality(UsesIn({k}, i)) = 0
<1>1. UsesIn({k}, i) = {}
  BY DEF UsesIn, ReadBy
<1> QED BY <1>1, FS_EmptySet

\* A node that some reader is left for is alive.
LEMMA ReadLater ==
  ASSUME TypeOK, LastReadsOK(plan.n + 1), Extended, NEW i \in Nodes, 0 < Remaining(i)
  PROVE  at <= lastRead[i]
<1>1. /\ at \in Nat /\ plan.n \in Nat /\ at <= plan.n + 1 /\ lastRead[i] \in Nat
  BY PlanShape DEF TypeOK
<1>2. CASE i = Output \/ i \in Kept
  BY <1>1, <1>2 DEF Extended
<1>3. CASE ~(i = Output \/ i \in Kept)
  <2>1. Cardinality(UsesIn(at..plan.n, i)) # 0
    BY <1>3, RemainingIsNat DEF Remaining
  <2>2. UsesIn(at..plan.n, i) # {}
    BY <2>1, FS_EmptySet
  <2>3. PICK u \in UsesIn(at..plan.n, i) : TRUE
    BY <2>2
  <2>4. u[1] \in at..plan.n /\ i \in ReadBy(u[1])
    BY <2>3 DEF UsesIn, ReadBy
  <2>5. u[1] \in Nodes /\ u[1] \in Nat /\ at <= u[1] /\ u[1] < plan.n + 1
    BY <2>4, <1>1 DEF Nodes, TypeOK
  <2>6. i \in InputsOf(u[1])
    BY <2>4, <2>5, ReadByInputs DEF TypeOK
  <2>7. u[1] <= lastRead[i]
    BY <2>5, <2>6 DEF LastReadsOK
  <2> QED BY <2>5, <2>7, <1>1
<1> QED BY <1>2, <1>3

\* The node that runs is a reader that is left for what it reads.
LEMMA ReadNow ==
  ASSUME TypeOK, at <= plan.n, NEW i \in ReadBy(at)
  PROVE  0 < Remaining(i)
<1>1. at \in Nodes /\ at \in Nat /\ plan.n \in Nat
  BY PlanShape DEF TypeOK, Nodes
<1>2. PICK j \in Counted(at) : plan.inputs[at][j] = i
  BY DEF ReadBy
<1>3. j \in 1..plan.arity
  BY <1>1, <1>2, ReadByInputs DEF TypeOK
<1>4. <<at, j>> \in UsesIn(at..plan.n, i)
  BY <1>1, <1>2, <1>3 DEF UsesIn
<1>5. IsFiniteSet(UsesIn(at..plan.n, i))
  BY <1>1, UsesFinite DEF TypeOK
<1>6. Cardinality(UsesIn(at..plan.n, i)) # 0
  BY <1>4, <1>5, FS_EmptySet
<1> QED BY <1>6, RemainingIsNat DEF Remaining

-----------------------------------------------------------------------------
(* The steps of the assignment.                                            *)

LEMMA Start0 == Init => Inv
<1> SUFFICES ASSUME Init PROVE Inv
  OBVIOUS
<1>1. /\ plan \in Plans /\ plan.n \in Nat \ {0}
      /\ \A k \in Nodes : k \in Nat /\ 1 <= k /\ k <= plan.n
      /\ \A k \in Nodes : \A i \in InputsOf(k) : i \in Nodes /\ i < k
  BY PlanShape DEF Init
<1>2. TypeOK
  <2>1. Empty \in [Nodes -> SUBSET Nodes]
    BY DEF Empty
  <2>2. lastRead \in [Nodes -> 1..(plan.n + 1)]
    BY <1>1 DEF Init, Nodes
  <2>3. at \in 1..(plan.n + 1) /\ 0 \in 0..plan.n /\ 0 \in 0..(plan.n + 1)
    BY <1>1 DEF Init
  <2>4. /\ slot \in [Nodes -> 0..plan.n] /\ end \in [Nodes -> 0..(plan.n + 1)]
        /\ reads \in [Nodes -> Nat]
    BY <2>3 DEF Init
  <2>5. wrote \in [Nodes -> BOOLEAN]
    BY DEF Init, NoRows
  <2> QED BY <2>1, <2>2, <2>3, <2>4, <2>5 DEF Init, TypeOK
<1>3. LayoutOK
  BY <1>1 DEF Init, LayoutOK, LastReadsOK
<1> QED BY <1>2, <1>3 DEF Init, Inv, PopulationOK, DrainOK, RestOK, TablesAreCleared

\* No step of the assignment touches the tables or a saved state.
LEMMA AssignmentRests ==
  ASSUME Inv, plan' = plan, phase' \in {"reads", "slots", "planned"},
         saved' = saved
  PROVE  PopulationOK' /\ DrainOK' /\ RestOK'
<1>1. Empty' = Empty
  BY SamePlan
<1> QED BY <1>1 DEF Inv, PopulationOK, DrainOK, RestOK, TablesAreCleared

LEMMA CountReadsKeeps == Inv /\ CountReads => Inv'
<1> SUFFICES ASSUME Inv, CountReads PROVE Inv'
  OBVIOUS
<1>1. /\ plan \in Plans /\ plan.n \in Nat \ {0} /\ at \in Nat /\ at \in Nodes
      /\ \A k \in Nodes : k \in Nat /\ 1 <= k /\ k <= plan.n
      /\ \A k \in Nodes : \A i \in InputsOf(k) : i \in Nodes /\ i < k
  BY PlanShape DEF Inv, TypeOK, CountReads, Nodes
<1>2. /\ Nodes' = Nodes /\ Output' = Output /\ Kept' = Kept /\ plan' = plan
      /\ \A k : Kind(k)' = Kind(k) /\ InputsOf(k)' = InputsOf(k)
  BY SamePlan DEF CountReads
<1>3. TypeOK'
  BY <1>1, <1>2 DEF Inv, TypeOK, CountReads, Nodes
<1>4. LastReadsOK(at)
  BY DEF Inv, LayoutOK, CountReads
<1>5. \A k \in Nodes : lastRead[k] \in Nat
  BY <1>1 DEF Inv, TypeOK
<1>6. \A k \in Nodes : lastRead[k] <= lastRead'[k] \/ k \in InputsOf(at)
  BY <1>5 DEF CountReads
<1>7. \A k \in Nodes : k <= lastRead'[k]
  BY <1>1, <1>4 DEF CountReads, LastReadsOK
<1>8. ASSUME NEW k \in Nodes, k < at + 1, NEW i \in InputsOf(k)
      PROVE  k <= lastRead'[i]
  <2>1. i \in Nodes /\ k \in Nat
    BY <1>1
  <2>2. CASE i \in InputsOf(at)
    BY <2>1, <2>2, <1>1, <1>8 DEF CountReads
  <2>3. CASE i \notin InputsOf(at)
    <3>1. k # at /\ k < at
      BY <2>1, <2>3, <1>1, <1>8
    <3>2. k <= lastRead[i]
      BY <3>1, <2>1, <1>4 DEF LastReadsOK
    <3> QED BY <3>2, <2>1, <2>3 DEF CountReads
  <2> QED BY <2>2, <2>3
<1>9. \A k \in Nodes : lastRead'[k] \in {k, plan.n + 1} \/ k \in InputsOf(lastRead'[k])
  BY <1>1, <1>4 DEF CountReads, LastReadsOK
<1>10. (LastReadsOK(at))'
  <2>1. at' = at + 1
    BY DEF CountReads
  <2> QED BY <2>1, <1>2, <1>7, <1>8, <1>9 DEF LastReadsOK
<1>11. LayoutOK'
  BY <1>10 DEF LayoutOK, CountReads
<1> QED BY <1>3, <1>11, AssignmentRests DEF CountReads, Inv

LEMMA ExtendReadsKeeps == Inv /\ ExtendReads => Inv'
<1> SUFFICES ASSUME Inv, ExtendReads PROVE Inv'
  OBVIOUS
<1>1. /\ plan \in Plans /\ plan.n \in Nat \ {0} /\ at = plan.n + 1
      /\ Output \in Nodes /\ Kept \subseteq Nodes
      /\ \A k \in Nodes : k \in Nat /\ 1 <= k /\ k <= plan.n
      /\ \A k \in Nodes : \A i \in InputsOf(k) : i \in Nodes /\ i < k
  <2>1. plan \in Plans /\ plan.n \in Nat \ {0} /\ at \in 1..(plan.n + 1) /\ ~(at <= plan.n)
    BY PlanShape DEF Inv, TypeOK, ExtendReads
  <2>2. at = plan.n + 1
    BY <2>1
  <2> QED BY <2>1, <2>2, PlanShape
<1>2. /\ Nodes' = Nodes /\ Output' = Output /\ Kept' = Kept /\ plan' = plan
      /\ \A k : Kind(k)' = Kind(k) /\ InputsOf(k)' = InputsOf(k)
  BY SamePlan DEF ExtendReads
<1>3. TypeOK'
  BY <1>1, <1>2 DEF Inv, TypeOK, ExtendReads, Nodes
<1>4. LastReadsOK(plan.n + 1)
  BY <1>1 DEF Inv, LayoutOK, ExtendReads
<1>5. \A k \in Nodes : lastRead[k] \in Nat /\ lastRead[k] <= plan.n + 1
  BY <1>1 DEF Inv, TypeOK
<1>6. \A k \in Nodes : \/ lastRead'[k] = lastRead[k]
                       \/ lastRead'[k] = plan.n + 1
  BY DEF ExtendReads
<1>7. \A k \in Nodes : lastRead[k] <= lastRead'[k] /\ lastRead'[k] \in Nat
  BY <1>1, <1>5, <1>6
<1>8. ASSUME NEW m, m = plan.n + 1
      PROVE  /\ \A k \in Nodes : k <= lastRead'[k]
             /\ \A k \in Nodes : k < m => \A i \in InputsOf(k) : k <= lastRead'[i]
             /\ \A k \in Nodes : lastRead'[k] \in {k, plan.n + 1}
                                   \/ k \in InputsOf(lastRead'[k])
  <2>1. ASSUME NEW k \in Nodes PROVE k <= lastRead'[k]
    <3>1. k <= lastRead[k]
      BY <1>4 DEF LastReadsOK
    <3> QED BY <3>1, <1>1, <1>5, <1>7
  <2>2. ASSUME NEW k \in Nodes, NEW i \in InputsOf(k) PROVE k <= lastRead'[i]
    <3>1. k < plan.n + 1 /\ i \in Nodes
      BY <1>1
    <3>2. k <= lastRead[i]
      BY <3>1, <1>4 DEF LastReadsOK
    <3> QED BY <3>1, <3>2, <1>1, <1>5, <1>7
  <2>3. ASSUME NEW k \in Nodes
        PROVE  lastRead'[k] \in {k, plan.n + 1} \/ k \in InputsOf(lastRead'[k])
    BY <1>4, <1>6 DEF LastReadsOK
  <2> QED BY <2>1, <2>2, <2>3
<1>9. (LastReadsOK(plan.n + 1))'
  BY <1>2, <1>8 DEF LastReadsOK
<1>10. Extended'
  <2>1. lastRead'[Output] = plan.n + 1 /\ \A k \in Kept : lastRead'[k] = plan.n + 1
    BY <1>1 DEF ExtendReads
  <2>2. ASSUME NEW k \in Nodes, Kind(k) = "input" PROVE k < lastRead'[k]
    <3>1. CASE lastRead[k] = k
      BY <3>1, <2>2, <1>1 DEF ExtendReads, Unread
    <3>2. CASE lastRead[k] # k
      <4>1. k <= lastRead[k]
        BY <1>4 DEF LastReadsOK
      <4> QED BY <4>1, <3>2, <1>1, <1>5, <1>7
    <3> QED BY <3>1, <3>2
  <2> QED BY <2>1, <2>2, <1>2 DEF Extended
<1>11. SlotsOK(at)' /\ Apart(at)'
  <2>1. at' = 1 /\ \A k \in Nodes' : ~(k < 1)
    BY <1>1, <1>2 DEF ExtendReads
  <2> QED BY <2>1 DEF SlotsOK, Apart
<1>12. LayoutOK'
  BY <1>9, <1>10, <1>11 DEF LayoutOK, ExtendReads
<1> QED BY <1>3, <1>12, AssignmentRests DEF ExtendReads, Inv

LEMMA AssignSlotKeeps == Inv /\ AssignSlot => Inv'
<1> SUFFICES ASSUME Inv, AssignSlot PROVE Inv'
  OBVIOUS
<1>1. /\ plan \in Plans /\ plan.n \in Nat \ {0} /\ at \in Nat /\ at \in Nodes
      /\ at <= lastRead[at] /\ lastRead[at] \in Nat /\ lastRead[at] \in 1..(plan.n + 1)
      /\ Start(at) \in Nat /\ Start(at) <= at
      /\ \A k \in Nodes : k \in Nat /\ 1 <= k /\ k <= plan.n
  <2>1. /\ plan \in Plans /\ plan.n \in Nat \ {0} /\ at \in Nat /\ at \in Nodes
        /\ \A k \in Nodes : k \in Nat /\ 1 <= k /\ k <= plan.n
        /\ lastRead[at] \in 1..(plan.n + 1)
    <3>1. plan \in Plans /\ plan.n \in Nat \ {0} /\ at \in 1..(plan.n + 1) /\ at <= plan.n
      BY PlanShape DEF Inv, TypeOK, AssignSlot
    <3>2. at \in Nat /\ at \in Nodes
      BY <3>1 DEF Nodes
    <3> QED BY <3>1, <3>2, PlanShape DEF Inv, TypeOK
  <2>2. at <= lastRead[at]
    BY <2>1 DEF Inv, LayoutOK, LastReadsOK, AssignSlot
  <2>3. Start(at) \in {0, at}
    BY <2>1, PlanShape
  <2> QED BY <2>1, <2>2, <2>3
<1>2. /\ Nodes' = Nodes /\ Output' = Output /\ Kept' = Kept /\ plan' = plan
      /\ \A k : Kind(k)' = Kind(k) /\ InputsOf(k)' = InputsOf(k) /\ Start(k)' = Start(k)
  BY SamePlan DEF AssignSlot
<1>3. PICK s \in SlotFor(at) : /\ slot' = [slot EXCEPT ![at] = s]
                               /\ end' = [end EXCEPT ![s] = lastRead[at]]
  BY DEF AssignSlot
<1>4. \/ s = at
      \/ s \in 1..(at - 1) /\ slot[s] = s /\ end[s] < Start(at)
  BY <1>3 DEF SlotFor, FreeSlots
<1>5. s \in 1..at /\ s \in Nodes /\ s \in 0..plan.n
  BY <1>1, <1>4 DEF Nodes
<1>6. TypeOK'
  BY <1>1, <1>2, <1>3, <1>5 DEF Inv, TypeOK, AssignSlot
<1>7. SlotsOK(at) /\ Apart(at)
  BY DEF Inv, LayoutOK, AssignSlot
\* An earlier holder of the slot is read no more when this node starts.
<1>8. ASSUME NEW a \in Nodes, a < at, slot[a] = s
      PROVE  lastRead[a] < Start(at) /\ lastRead[a] < lastRead[at]
  <2>1. slot[a] \in 1..a /\ lastRead[a] <= end[s]
    BY <1>7, <1>8 DEF SlotsOK
  <2>2. s # at
    BY <2>1, <1>8, <1>1
  <2>3. end[s] < Start(at) /\ end[s] \in Nat /\ lastRead[a] \in Nat
    BY <2>2, <1>4, <1>5, <1>1 DEF Inv, TypeOK
  <2> QED BY <2>1, <2>3, <1>1
<1>9. slot \in [Nodes -> 0..plan.n] /\ end \in [Nodes -> 0..(plan.n + 1)]
  BY DEF Inv, TypeOK
<1>10. \A k \in Nodes : slot'[k] = IF k = at THEN s ELSE slot[k]
  BY <1>3, <1>9
<1>11. \A k \in Nodes : end'[k] = IF k = s THEN lastRead[at] ELSE end[k]
  BY <1>3, <1>9
<1>12. ASSUME NEW k \in Nodes, k < at + 1
       PROVE  slot'[k] \in 1..k /\ lastRead[k] <= end'[slot'[k]]
  <2>1. CASE k = at
    BY <2>1, <1>1, <1>5, <1>10, <1>11
  <2>2. CASE k # at
    <3>1. k < at /\ slot'[k] = slot[k]
      BY <2>2, <1>1, <1>10, <1>12
    <3>2. slot[k] \in 1..k /\ lastRead[k] <= end[slot[k]]
      BY <3>1, <1>7 DEF SlotsOK
    <3>3. slot[k] \in Nodes
      BY <3>2, <1>1 DEF Nodes
    <3>4. CASE slot[k] = s
      <4>1. lastRead[k] < lastRead[at] /\ lastRead[k] \in Nat
        BY <3>1, <3>4, <1>8, <1>1 DEF Inv, TypeOK
      <4> QED BY <4>1, <3>1, <3>2, <3>3, <3>4, <1>11, <1>1
    <3>5. CASE slot[k] # s
      BY <3>1, <3>2, <3>3, <3>5, <1>11
    <3> QED BY <3>4, <3>5
  <2> QED BY <2>1, <2>2
<1>13. ASSUME NEW a \in Nodes, NEW b \in Nodes, a < b, b < at + 1, slot'[a] = slot'[b]
       PROVE  lastRead[a] < Start(b)
  <2>1. a < at /\ a # at /\ slot'[a] = slot[a]
    <3>1. a \in Nat /\ b \in Nat /\ at \in Nat
      BY <1>1
    <3>2. a < at /\ a # at
      BY <3>1, <1>13
    <3> QED BY <3>2, <1>10
  <2>2. CASE b = at
    BY <2>1, <2>2, <1>8, <1>10, <1>13
  <2>3. CASE b # at
    <3>1. b < at /\ slot'[b] = slot[b]
      BY <2>3, <1>1, <1>10, <1>13
    <3> QED BY <3>1, <2>1, <1>7, <1>13 DEF Apart
  <2> QED BY <2>2, <2>3
<1>14. at' = at + 1 /\ lastRead' = lastRead
  BY DEF AssignSlot
<1>15. SlotsOK(at)' /\ Apart(at)'
  BY <1>2, <1>12, <1>13, <1>14 DEF SlotsOK, Apart
<1>16. LayoutOK'
  <2>1. LastReadsOK(plan.n + 1) /\ Extended
    BY DEF Inv, LayoutOK, AssignSlot
  <2>2. LastReadsOK(plan.n + 1)' /\ Extended'
    BY <2>1, <1>2, <1>14 DEF LastReadsOK, Extended
  <2> QED BY <2>2, <1>15 DEF LayoutOK, AssignSlot
<1> QED BY <1>6, <1>16, AssignmentRests DEF AssignSlot, Inv

LEMMA SlotsAssignedKeeps == Inv /\ SlotsAssigned => Inv'
<1> SUFFICES ASSUME Inv, SlotsAssigned PROVE Inv'
  OBVIOUS
<1>1. plan.n \in Nat \ {0} /\ at \in 1..(plan.n + 1) /\ ~(at <= plan.n)
  BY PlanShape DEF Inv, TypeOK, SlotsAssigned
<1>2. at = plan.n + 1
  BY <1>1
<1>3. /\ Nodes' = Nodes /\ Output' = Output /\ Kept' = Kept /\ plan' = plan
      /\ \A k : Kind(k)' = Kind(k) /\ InputsOf(k)' = InputsOf(k) /\ Start(k)' = Start(k)
  BY SamePlan DEF SlotsAssigned, layout
<1>4. TypeOK'
  BY <1>1, <1>3 DEF Inv, TypeOK, SlotsAssigned, layout
<1>5. LastReadsOK(plan.n + 1) /\ Extended /\ SlotsOK(plan.n + 1) /\ Apart(plan.n + 1)
  BY <1>2 DEF Inv, LayoutOK, SlotsAssigned
<1>6. /\ LastReadsOK(plan.n + 1)' /\ Extended'
      /\ SlotsOK(plan.n + 1)' /\ Apart(plan.n + 1)'
  BY <1>3, <1>5 DEF SlotsAssigned, layout, LastReadsOK, Extended, SlotsOK, Apart
<1>7. LayoutOK'
  BY <1>6 DEF LayoutOK, SlotsAssigned
<1> QED BY <1>4, <1>7, AssignmentRests DEF SlotsAssigned, layout, Inv

-----------------------------------------------------------------------------
(* The steps of a population.                                              *)

LEMMA Planned ==
  ASSUME Inv, phase \notin {"reads", "slots"}
  PROVE  /\ LastReadsOK(plan.n + 1) /\ Extended
         /\ SlotsOK(plan.n + 1) /\ Apart(plan.n + 1)
BY DEF Inv, LayoutOK

LEMMA LayoutStays ==
  ASSUME Inv, phase \notin {"reads", "slots"}, phase' \notin {"reads", "slots"},
         UNCHANGED layout
  PROVE  LayoutOK'
<1>1. /\ Nodes' = Nodes /\ Output' = Output /\ Kept' = Kept /\ plan' = plan
      /\ \A k : Kind(k)' = Kind(k) /\ InputsOf(k)' = InputsOf(k) /\ Start(k)' = Start(k)
  BY SamePlan DEF layout
<1>2. /\ LastReadsOK(plan.n + 1)' /\ Extended'
      /\ SlotsOK(plan.n + 1)' /\ Apart(plan.n + 1)'
  BY <1>1, Planned DEF layout, LastReadsOK, Extended, SlotsOK, Apart
<1> QED BY <1>2 DEF LayoutOK

\* What every step after the assignment has to show besides the layout.
LEMMA StepKeeps ==
  ASSUME Inv, phase \notin {"reads", "slots"}, UNCHANGED layout,
         phase' \in {"planned", "populate", "idle", "drain"},
         at' \in 1..(plan.n + 1),
         table' \in [Nodes -> SUBSET Nodes], wrote' \in [Nodes -> BOOLEAN],
         reads' \in [Nodes -> Nat], reading' \in BOOLEAN, dirty' \in BOOLEAN,
         saved' \in [table : [Nodes -> SUBSET Nodes], dirty : BOOLEAN],
         PopulationOK', DrainOK', RestOK'
  PROVE  Inv'
<1>1. Nodes' = Nodes /\ plan' = plan
  BY SamePlan DEF layout
<1>2. TypeOK'
  BY <1>1 DEF Inv, TypeOK, layout
<1>3. LayoutOK'
  BY LayoutStays
<1> QED BY <1>2, <1>3 DEF Inv

LEMMA InstallKeeps == Inv /\ Install => Inv'
<1> SUFFICES ASSUME Inv, Install PROVE Inv'
  OBVIOUS
<1>1. /\ Nodes' = Nodes /\ Output' = Output /\ Kept' = Kept /\ plan' = plan
      /\ \A K, i : UsesIn(K, i)' = UsesIn(K, i)
      /\ Empty' = Empty
  BY SamePlan DEF Install, layout
<1>2. plan.n \in Nat \ {0} /\ Output \in Nat /\ 1 <= Output /\ Nodes = 1..plan.n /\ 1 \in Nat
  BY PlanShape DEF Inv, TypeOK, Nodes
<1>3. Empty \in [Nodes -> SUBSET Nodes] /\ NoRows \in [Nodes -> BOOLEAN]
  BY DEF Empty, NoRows
<1>4. ASSUME NEW i PROVE Readers(i) \in Nat /\ Readers(i) = Remaining(i)'
  <2>1. Cardinality(UsesIn(Nodes, i)) \in Nat
    <3>1. IsFiniteSet(UsesIn(Nodes, i))
      BY <1>2, UsesFinite DEF Inv, TypeOK
    <3> QED BY <3>1, FS_CardinalityType
  <2>2. at' = 1 /\ Nodes = at'..plan'.n
    BY <1>1, <1>2 DEF Install
  <2>3. UsesIn(at..plan.n, i)' = UsesIn(Nodes, i)
    BY <1>1, <2>2 DEF UsesIn, Counted, Kind
  <2>4. Remaining(i)' = Cardinality(UsesIn(Nodes, i)) + (IF i = Output THEN 1 ELSE 0)
                          + (IF i \in Kept THEN 1 ELSE 0)
    BY <1>1, <1>2, <2>2, <2>3 DEF Remaining
  <2> QED BY <2>1, <2>4 DEF Readers
<1>5. /\ reads' = [i \in Nodes |-> Readers(i)] /\ wrote' = NoRows /\ table' = Empty
      /\ phase' = "populate" /\ at' = 1
  BY DEF Install
<1>6. reads' \in [Nodes -> Nat]
  BY <1>4, <1>5
<1>7. PopulationOK'
  <2>1. \A i \in Nodes : reads'[i] = Remaining(i)'
    BY <1>4, <1>5
  <2>2. \A k \in Nodes : wrote'[k] = FALSE
    BY <1>5 DEF NoRows
  <2>3. Rows({k \in Nodes : wrote[k] /\ 0 < reads[k]})' = Empty
    BY <1>1, <2>2 DEF Rows, Empty
  <2> QED BY <1>1, <1>5, <2>1, <2>2, <2>3 DEF PopulationOK
<1>8. DrainOK' /\ RestOK'
  BY <1>1, <1>5 DEF Install, Inv, DrainOK, RestOK, TablesAreCleared
<1>9. at' \in 1..(plan.n + 1)
  BY <1>2, <1>5
<1> QED BY <1>3, <1>5, <1>6, <1>7, <1>8, <1>9, StepKeeps DEF Install, Inv, TypeOK

LEMMA PopulateFailsKeeps == Inv /\ PopulateFails => Inv'
<1> SUFFICES ASSUME Inv, PopulateFails PROVE Inv'
  OBVIOUS
<1>1. Empty' = Empty
  BY SamePlan DEF PopulateFails, layout
<1>2. Empty \in [Nodes -> SUBSET Nodes] /\ NoRows \in [Nodes -> BOOLEAN]
  BY DEF Empty, NoRows
<1>3. PopulationOK' /\ DrainOK' /\ RestOK'
  BY <1>1 DEF PopulateFails, Inv, PopulationOK, DrainOK, RestOK, TablesAreCleared
<1>4. 1 \in 1..(plan.n + 1) /\ [k \in Nodes |-> 0] \in [Nodes -> Nat]
  BY PlanShape DEF Inv, TypeOK
<1> QED BY <1>2, <1>3, <1>4, StepKeeps DEF PopulateFails, Inv, TypeOK

\* The nodes whose rows are in the tables are alive, and so are the node that
\* runs and those it reads.
LEMMA PopulationAlive ==
  ASSUME Inv, phase = "populate"
  PROVE  /\ {k \in Nodes : wrote[k] /\ 0 < reads[k]} \subseteq Alive(at)
         /\ at <= plan.n => ReadBy(at) \subseteq Alive(at) /\ at \in Alive(at)
         /\ plan.n < at => Kept \subseteq Alive(at)
<1>1. /\ plan \in Plans /\ plan.n \in Nat /\ at \in Nat /\ at <= plan.n + 1
      /\ LastReadsOK(plan.n + 1) /\ Extended /\ Kept \subseteq Nodes
      /\ \A k \in Nodes : k \in Nat /\ 1 <= k /\ k <= plan.n
      /\ \A k \in Nodes : Start(k) \in {0, k}
      /\ \A k \in Nodes : lastRead[k] \in Nat
  BY PlanShape, Planned DEF Inv, TypeOK
<1>2. ASSUME NEW k \in Nodes, wrote[k], 0 < reads[k]
      PROVE  k \in Alive(at)
  <2>1. k < at /\ 0 < Remaining(k)
    BY <1>2 DEF Inv, PopulationOK
  <2>2. at <= lastRead[k]
    BY <1>1, <2>1, ReadLater DEF Inv
  <2> QED BY <1>1, <2>1, <2>2 DEF Alive
<1>3. ASSUME at <= plan.n, NEW k \in ReadBy(at)
      PROVE  k \in Alive(at)
  <2>1. at \in Nodes
    BY <1>1, <1>3 DEF Nodes, Inv, TypeOK
  <2>2. k \in Nodes /\ k < at
    BY <1>1, <2>1, ReadByInputs, PlanShape
  <2>3. 0 < Remaining(k)
    BY <1>3, ReadNow DEF Inv
  <2>4. at <= lastRead[k]
    BY <1>1, <2>2, <2>3, ReadLater DEF Inv
  <2> QED BY <1>1, <2>2, <2>4 DEF Alive
<1>4. ASSUME at <= plan.n
      PROVE  at \in Alive(at)
  <2>1. at \in Nodes
    BY <1>1, <1>4 DEF Nodes, Inv, TypeOK
  <2>2. at <= lastRead[at]
    BY <1>1, <2>1 DEF LastReadsOK
  <2> QED BY <1>1, <2>1, <2>2 DEF Alive
<1>5. ASSUME plan.n < at, NEW k \in Kept
      PROVE  k \in Alive(at)
  <2>1. k \in Nodes /\ lastRead[k] = plan.n + 1 /\ Start(k) <= at
    BY <1>1, <1>5 DEF Extended
  <2> QED BY <2>1, <1>1 DEF Alive
<1> QED BY <1>2, <1>3, <1>4, <1>5

LEMMA PopulateNodeKeeps ==
  ASSUME NEW rows \in BOOLEAN
  PROVE  Inv /\ PopulateNode(rows) => Inv'
<1> SUFFICES ASSUME Inv, PopulateNode(rows) PROVE Inv'
  OBVIOUS
<1> DEFINE A      == {k \in Nodes : wrote[k] /\ 0 < reads[k]}
           ran    == IF rows THEN {at} ELSE {}
           filled == [table EXCEPT ![slot[at]] = IF rows THEN @ \cup {at} ELSE @]
           left   == [k \in Nodes |-> reads[k] - Cardinality(UsesIn({at}, k))
                                        - (IF k = at /\ at = Output THEN 1 ELSE 0)]
           done   == {k \in ReadBy(at) \cup {at} : left[k] = 0}
<1>1. /\ table' = Clear(filled, done) /\ reads' = left
      /\ wrote' = [wrote EXCEPT ![at] = rows]
      /\ at' = at + 1 /\ at <= plan.n /\ phase = "populate" /\ phase' = "populate"
      /\ UNCHANGED layout /\ UNCHANGED <<reading, dirty, saved>>
  BY DEF PopulateNode
<1> HIDE DEF filled, done, left, A, ran
<1>2. /\ plan \in Plans /\ plan.n \in Nat \ {0} /\ at \in Nat /\ at \in Nodes
      /\ Output = plan.n
      /\ \A k \in Nodes : k \in Nat /\ 1 <= k /\ k <= plan.n
      /\ ReadBy(at) \subseteq Nodes /\ at \notin ReadBy(at)
      /\ Kept \subseteq Nodes
  <2>1. at \in 1..(plan.n + 1) /\ plan.n \in Nat \ {0} /\ at <= plan.n
    BY <1>1, PlanShape DEF Inv, TypeOK
  <2>2. at \in Nodes /\ at \in Nat
    BY <2>1 DEF Nodes
  <2>3. \A k \in ReadBy(at) : k \in Nodes /\ k < at
    BY <2>2, ReadByInputs, PlanShape DEF Inv, TypeOK
  <2> QED BY <2>1, <2>2, <2>3, PlanShape DEF Inv, TypeOK, Output
<1>3. /\ Nodes' = Nodes /\ Output' = Output /\ Kept' = Kept /\ plan' = plan
      /\ slot' = slot /\ Empty' = Empty
      /\ \A K, i : UsesIn(K, i)' = UsesIn(K, i)
  BY <1>1, SamePlan DEF layout
<1>4. \A k \in Nodes : reads[k] = Remaining(k) /\ (wrote[k] => k < at)
  BY <1>1 DEF Inv, PopulationOK
<1>5. ASSUME NEW k \in Nodes
      PROVE  /\ left[k] = Remaining(k)' /\ left[k] \in Nat
             /\ left[k] <= reads[k]
             /\ k \notin ReadBy(at) /\ k # at => left[k] = reads[k]
  <2> DEFINE now   == Cardinality(UsesIn({at}, k))
             later == Cardinality(UsesIn((at + 1)..plan.n, k))
  <2>1. /\ now \in Nat /\ later \in Nat
        /\ Cardinality(UsesIn(at..plan.n, k)) = now + later
    BY <1>1, UsesSplit DEF Inv
  <2>2. UsesIn(at..plan.n, k)' = UsesIn((at + 1)..plan.n, k)
    BY <1>1, <1>3 DEF UsesIn, Counted, Kind
  <2>3. Remaining(k)' = later + (IF k = Output /\ at + 1 <= Output THEN 1 ELSE 0)
                          + (IF k \in Kept THEN 1 ELSE 0)
    BY <1>1, <1>3, <2>2 DEF Remaining
  <2>4. reads[k] = now + later + (IF k = Output /\ at <= Output THEN 1 ELSE 0)
                     + (IF k \in Kept THEN 1 ELSE 0)
    BY <1>4, <2>1 DEF Remaining
  <2>5. left[k] = reads[k] - now - (IF k = at /\ at = Output THEN 1 ELSE 0)
    BY DEF left
  <2>6. k \notin ReadBy(at) => now = 0
    BY NoUse
  <2> HIDE DEF now, later
  <2> QED BY <2>1, <2>3, <2>4, <2>5, <2>6, <1>2
<1>6. A \subseteq Alive(at) /\ ReadBy(at) \subseteq Alive(at) /\ at \in Alive(at)
  BY <1>1, PopulationAlive DEF Inv, A
<1>7. table = Rows(A)
  BY <1>1 DEF Inv, PopulationOK, A
<1>8. slot[at] \in Nodes /\ SlotsOK(plan.n + 1) /\ Apart(plan.n + 1)
  BY <1>1, <1>2, Planned, SlotIsNode DEF Inv
<1>9. filled = Rows(A \cup ran)
  BY <1>7, <1>8, FillAdds DEF filled, ran
<1>10. table' = Rows((A \cup ran) \ done)
  <2>1. A \cup ran \subseteq Alive(at) /\ done \subseteq Alive(at)
    BY <1>6 DEF ran, done
  <2>2. \A a, b \in Alive(at) : slot[a] = slot[b] => a = b
    BY <1>2, <1>8, Alone DEF Inv
  <2> QED BY <1>1, <1>9, <2>1, <2>2, ClearRemoves
<1>11. wrote \in [Nodes -> BOOLEAN] /\ reads \in [Nodes -> Nat]
  BY DEF Inv, TypeOK
<1>12. \A k \in Nodes : wrote'[k] = IF k = at THEN rows ELSE wrote[k]
  BY <1>1, <1>11
<1>13. ASSUME NEW k \in Nodes
       PROVE  k \in (A \cup ran) \ done <=> wrote'[k] /\ 0 < left[k]
  <2>1. CASE k = at
    <3>1. k \notin A
      BY <2>1, <1>2, <1>4 DEF A
    <3>2. k \in done <=> left[k] = 0
      BY <2>1 DEF done
    <3>3. left[k] \in Nat
      BY <1>5
    <3>4. k \in done <=> ~(0 < left[k])
      BY <3>2, <3>3
    <3>5. k \in ran <=> rows
      BY <2>1 DEF ran
    <3>6. wrote'[k] = rows
      BY <2>1, <1>12
    <3> QED BY <3>1, <3>4, <3>5, <3>6
  <2>2. CASE k # at
    <3>1. k \notin ran /\ wrote'[k] = wrote[k]
      BY <2>2, <1>12 DEF ran
    <3>2. k \in A <=> wrote[k] /\ 0 < reads[k]
      BY DEF A
    <3>3. k \in done <=> k \in ReadBy(at) /\ left[k] = 0
      BY <2>2 DEF done
    <3>4. /\ 0 < left[k] => 0 < reads[k] /\ k \notin done
          /\ 0 < reads[k] /\ k \notin done => 0 < left[k]
      <4>1. /\ left[k] \in Nat /\ reads[k] \in Nat /\ left[k] <= reads[k]
            /\ k \notin ReadBy(at) => left[k] = reads[k]
        BY <2>2, <1>5, <1>11
      <4> QED BY <3>3, <4>1
    <3> QED BY <3>1, <3>2, <3>4
  <2> QED BY <2>1, <2>2
<1>14. (A \cup ran) \ done = {k \in Nodes : wrote'[k] /\ 0 < left[k]}
  <2>1. A \cup ran \subseteq Nodes
    BY <1>2 DEF A, ran
  <2> QED BY <2>1, <1>13
<1>15. table' = Rows({k \in Nodes : wrote[k] /\ 0 < reads[k]})'
  BY <1>1, <1>3, <1>10, <1>14 DEF Rows
<1>16. PopulationOK'
  <2>1. \A k \in Nodes : reads'[k] = Remaining(k)'
    BY <1>1, <1>5
  <2>2. \A k \in Nodes : wrote'[k] => k < at'
    <3>1. ASSUME NEW k \in Nodes, wrote'[k] PROVE k < at'
      <4>1. k = at \/ k < at
        BY <3>1, <1>4, <1>12
      <4> QED BY <4>1, <1>1, <1>2
    <3> QED BY <3>1
  <2> QED BY <2>1, <2>2, <1>3, <1>15 DEF PopulationOK
<1>17. DrainOK' /\ RestOK'
  BY <1>1, <1>3 DEF Inv, DrainOK, RestOK, TablesAreCleared
<1>18. table' \in [Nodes -> SUBSET Nodes]
  <2>1. (A \cup ran) \ done \subseteq Nodes
    BY <1>14
  <2> QED BY <2>1, <1>10 DEF Rows
<1>19. reads' \in [Nodes -> Nat]
  <2>1. reads' = [k \in Nodes |-> left[k]]
    BY <1>1 DEF left
  <2> QED BY <2>1, <1>5
<1>20. at' \in 1..(plan.n + 1) /\ wrote' \in [Nodes -> BOOLEAN]
  BY <1>1, <1>2, <1>11
<1> QED BY <1>1, <1>16, <1>17, <1>18, <1>19, <1>20, StepKeeps DEF Inv, TypeOK

LEMMA PopulatedKeeps == Inv /\ Populated => Inv'
<1> SUFFICES ASSUME Inv, Populated PROVE Inv'
  OBVIOUS
<1> DEFINE left == [k \in Nodes |-> reads[k] - (IF k \in Kept THEN 1 ELSE 0)]
           A    == {k \in Nodes : wrote[k] /\ 0 < reads[k]}
           done == {k \in Kept : left[k] = 0}
<1>1. /\ reads' = left /\ table' = Clear(table, done) /\ wrote' = NoRows
      /\ phase = "populate" /\ phase' = "idle" /\ at' = 1 /\ at > plan.n
      /\ saved' = [table |-> table', dirty |-> FALSE]
      /\ UNCHANGED layout /\ UNCHANGED <<reading, dirty>>
  BY DEF Populated
<1>2. plan \in Plans /\ plan.n \in Nat \ {0} /\ at = plan.n + 1 /\ Kept \subseteq Nodes
  <2>1. plan \in Plans /\ plan.n \in Nat \ {0} /\ at \in 1..(plan.n + 1) /\ Kept \subseteq Nodes
    BY PlanShape DEF Inv, TypeOK
  <2> QED BY <2>1, <1>1
<1>3. ASSUME NEW k \in Nodes
      PROVE  reads[k] = IF k \in Kept THEN 1 ELSE 0
  <2>1. at..plan.n = {}
    BY <1>2
  <2>2. UsesIn(at..plan.n, k) = {}
    BY <2>1 DEF UsesIn
  <2>3. Cardinality(UsesIn(at..plan.n, k)) = 0
    BY <2>2, FS_EmptySet
  <2>4. Remaining(k) = IF k \in Kept THEN 1 ELSE 0
    BY <2>3, <1>2 DEF Remaining, Output
  <2> QED BY <2>4, <1>1 DEF Inv, PopulationOK
<1>4. \A k \in Nodes : left[k] = 0
  BY <1>3
<1>5. done = Kept /\ A \subseteq Kept
  BY <1>2, <1>3, <1>4
<1>6. table = Rows(A)
  BY <1>1 DEF Inv, PopulationOK
<1> HIDE DEF left, A, done
<1>7. table' = Empty
  BY <1>1, <1>5, <1>6 DEF Clear, Rows, Empty
<1>8. Empty' = Empty
  BY <1>1, SamePlan DEF layout
<1>9. PopulationOK' /\ DrainOK' /\ RestOK'
  BY <1>1, <1>7, <1>8 DEF PopulationOK, DrainOK, RestOK, TablesAreCleared
<1>10. reads' \in [Nodes -> Nat]
  <2>1. reads' = [k \in Nodes |-> left[k]]
    BY <1>1 DEF left
  <2> QED BY <2>1, <1>4
<1>11. 1 \in 1..(plan.n + 1)
  BY <1>2
<1>12. table' \in [Nodes -> SUBSET Nodes] /\ wrote' \in [Nodes -> BOOLEAN]
  BY <1>1, <1>7 DEF Empty, NoRows
<1> QED BY <1>1, <1>9, <1>10, <1>11, <1>12, StepKeeps DEF Inv, TypeOK

-----------------------------------------------------------------------------
(* The steps of a drain.                                                   *)

LEMMA StartDrainKeeps ==
  ASSUME NEW read \in BOOLEAN, NEW touched \in SUBSET Nodes
  PROVE  Inv /\ StartDrain(read, touched) => Inv'
<1> SUFFICES ASSUME Inv, StartDrain(read, touched) PROVE Inv'
  OBVIOUS
<1>1. /\ phase = "idle" /\ phase' = "drain" /\ at' = 1 /\ ~dirty /\ reading' = read
      /\ \A k \in touched : Kind(k) = "input"
      /\ wrote' = [k \in Nodes |-> k \in touched]
      /\ table' = [s \in Nodes |-> table[s] \cup {k \in touched : slot[k] = s}]
      /\ UNCHANGED layout /\ UNCHANGED <<reads, dirty, saved>>
  BY DEF StartDrain
<1>2. /\ Nodes' = Nodes /\ plan' = plan /\ slot' = slot /\ lastRead' = lastRead
      /\ \A k : Kind(k)' = Kind(k)
      /\ Empty' = Empty
  BY <1>1, SamePlan DEF layout
<1>3. plan.n \in Nat \ {0} /\ LastReadsOK(plan.n + 1)
      /\ \A k \in Nodes : k \in Nat /\ 1 <= k /\ lastRead[k] \in Nat
  BY <1>1, PlanShape, Planned DEF Inv, TypeOK
<1>4. table = Empty
  BY <1>1 DEF Inv, RestOK, TablesAreCleared
<1>5. \A k \in Nodes : 1 <= lastRead[k]
  BY <1>3 DEF LastReadsOK
<1>6. touched = {k \in Nodes : wrote'[k] /\ at' <= lastRead'[k]}
  BY <1>1, <1>2, <1>5
<1>7. table' = [s \in Nodes |-> {k \in touched : slot[k] = s}]
  BY <1>1, <1>4 DEF Empty
<1>8. DrainOK'
  <2>1. \A k \in Nodes : wrote'[k] => Kind(k) = "input"
    BY <1>1
  <2>2. table' = Rows({k \in Nodes : wrote[k] /\ at <= lastRead[k]})'
    BY <1>2, <1>6, <1>7 DEF Rows
  <2> QED BY <1>1, <1>2, <2>1, <2>2 DEF DrainOK
<1>9. PopulationOK' /\ RestOK'
  BY <1>1, <1>2 DEF Inv, PopulationOK, RestOK, TablesAreCleared
<1>10. table' \in [Nodes -> SUBSET Nodes] /\ wrote' \in [Nodes -> BOOLEAN]
  BY <1>1, <1>7
<1>11. 1 \in 1..(plan.n + 1)
  BY <1>3
<1> QED BY <1>1, <1>8, <1>9, <1>10, <1>11, StepKeeps DEF Inv, TypeOK

\* What a node of the drain finds.
LEMMA DrainAlive ==
  ASSUME Inv, phase = "drain", at <= plan.n
  PROVE  /\ at \in Nodes /\ at \in Nat /\ at + 1 \in 1..(plan.n + 1)
         /\ {k \in Nodes : wrote[k] /\ at <= lastRead[k]} \subseteq Alive(at)
         /\ InputsOf(at) \subseteq Alive(at) /\ at \in Alive(at)
         /\ at \notin InputsOf(at)
         /\ Kind(at) # "input" => ~wrote[at]
         /\ \A k \in Nodes : lastRead[k] = at => k = at \/ k \in InputsOf(at)
         /\ Kind(at) = "input" => lastRead[at] # at /\ InputsOf(at) = {}
         /\ \A k \in Nodes : lastRead[k] \in Nat
<1>1. /\ at \in 1..(plan.n + 1) /\ plan \in Plans /\ plan.n \in Nat \ {0}
      /\ \A k \in Nodes : lastRead[k] \in Nat
  BY PlanShape DEF Inv, TypeOK
<1>2. at \in Nodes /\ at \in Nat /\ at + 1 \in 1..(plan.n + 1) /\ at # plan.n + 1
  BY <1>1 DEF Nodes
<1>3. /\ LastReadsOK(plan.n + 1) /\ Extended
      /\ \A k \in Nodes : k \in Nat /\ 1 <= k /\ k <= plan.n
      /\ \A k \in Nodes : Start(k) \in {0, k} /\ (Kind(k) = "input" <=> Start(k) = 0)
      /\ \A i \in InputsOf(at) : i \in Nodes /\ i < at
      /\ Kind(at) = "input" => InputsOf(at) = {}
  BY <1>1, <1>2, PlanShape, Planned
<1>4. ASSUME NEW k \in Nodes, wrote[k], at <= lastRead[k]
      PROVE  k \in Alive(at)
  <2>1. Kind(k) # "input" => k < at
    BY <1>4 DEF Inv, DrainOK
  <2>2. Start(k) <= at
    BY <2>1, <1>2, <1>3
  <2> QED BY <2>2, <1>4 DEF Alive
<1>5. ASSUME NEW k \in InputsOf(at)
      PROVE  k \in Alive(at)
  <2>1. k \in Nodes /\ k < at /\ at <= lastRead[k]
    <3>1. at < plan.n + 1
      BY <1>1, <1>2
    <3> QED BY <3>1, <1>2, <1>3 DEF LastReadsOK
  <2>2. Start(k) <= at
    BY <2>1, <1>2, <1>3
  <2> QED BY <2>1, <2>2 DEF Alive
<1>6. at \in Alive(at)
  BY <1>2, <1>3 DEF Alive, LastReadsOK
<1>7. Kind(at) # "input" => ~wrote[at]
  BY <1>2 DEF Inv, DrainOK
<1>8. \A k \in Nodes : lastRead[k] = at => k = at \/ k \in InputsOf(at)
  BY <1>2, <1>3 DEF LastReadsOK
<1>9. Kind(at) = "input" => lastRead[at] # at
  BY <1>1, <1>2, <1>3 DEF Extended
<1>10. at \notin InputsOf(at)
  BY <1>2, <1>3
<1>11. {k \in Nodes : wrote[k] /\ at <= lastRead[k]} \subseteq Alive(at)
  BY <1>4
<1>12. InputsOf(at) \subseteq Alive(at)
  BY <1>5
<1>13. Kind(at) = "input" => InputsOf(at) = {}
  BY <1>3
<1> QED BY <1>1, <1>2, <1>6, <1>7, <1>8, <1>9, <1>10, <1>11, <1>12, <1>13

LEMMA SkipNodeKeeps == Inv /\ SkipNode => Inv'
<1> SUFFICES ASSUME Inv, SkipNode PROVE Inv'
  OBVIOUS
<1>1. /\ phase = "drain" /\ phase' = "drain" /\ at <= plan.n /\ ~IsTouched(at) /\ at' = at + 1
      /\ UNCHANGED layout /\ UNCHANGED <<table, wrote, reads, reading, dirty, saved>>
  BY DEF SkipNode
<1>2. /\ Nodes' = Nodes /\ plan' = plan /\ slot' = slot /\ lastRead' = lastRead
      /\ \A k : Kind(k)' = Kind(k)
      /\ Empty' = Empty
  BY <1>1, SamePlan DEF layout
<1>3. ASSUME NEW k \in Nodes, wrote[k] PROVE lastRead[k] # at
  <2>1. ~(k \in InputsOf(at) /\ Kind(at) # "input")
    BY <1>1, <1>3 DEF IsTouched
  <2> QED BY <2>1, <1>1, <1>3, DrainAlive
<1>4. ASSUME NEW k \in Nodes, wrote[k]
      PROVE  at <= lastRead[k] <=> at + 1 <= lastRead[k]
  <2>1. at \in Nat /\ lastRead[k] \in Nat /\ lastRead[k] # at
    BY <1>1, <1>3, <1>4, DrainAlive
  <2> QED BY <2>1
<1>5. {k \in Nodes : wrote[k] /\ at <= lastRead[k]}
        = {k \in Nodes : wrote'[k] /\ at' <= lastRead'[k]}
  BY <1>1, <1>2, <1>4
<1>6. DrainOK'
  <2>1. \A k \in Nodes : wrote[k] /\ Kind(k) # "input" => k < at + 1
    <3>1. at \in Nat /\ \A k \in Nodes : k \in Nat
      BY <1>1, DrainAlive, PlanShape DEF Inv, TypeOK
    <3>2. \A k \in Nodes : wrote[k] /\ Kind(k) # "input" => k < at
      BY <1>1 DEF Inv, DrainOK
    <3> QED BY <3>1, <3>2
  <2>2. table = Rows({k \in Nodes : wrote[k] /\ at <= lastRead[k]})
    BY <1>1 DEF Inv, DrainOK
  <2>3. table' = Rows({k \in Nodes : wrote[k] /\ at <= lastRead[k]})'
    BY <2>2, <1>1, <1>2, <1>5 DEF Rows
  <2>4. ~dirty'
    BY <1>1 DEF Inv, DrainOK
  <2> QED BY <2>1, <2>3, <2>4, <1>1, <1>2 DEF DrainOK
<1>7. PopulationOK' /\ RestOK'
  BY <1>1, <1>2 DEF Inv, PopulationOK, RestOK, TablesAreCleared
<1>8. at' \in 1..(plan.n + 1)
  BY <1>1, DrainAlive
<1> QED BY <1>1, <1>6, <1>7, <1>8, StepKeeps DEF Inv, TypeOK

LEMMA RunNodeKeeps ==
  ASSUME NEW rows \in BOOLEAN
  PROVE  Inv /\ RunNode(rows) => Inv'
<1> SUFFICES ASSUME Inv, RunNode(rows) PROVE Inv'
  OBVIOUS
<1> DEFINE A      == {k \in Nodes : wrote[k] /\ at <= lastRead[k]}
           ran    == IF rows THEN {at} ELSE {}
           base   == IF Kind(at) = "arrange" THEN Clear(table, {at}) ELSE table
           filled == [base EXCEPT ![slot[at]] = IF rows THEN @ \cup {at} ELSE @]
           read   == {k \in InputsOf(at) : lastRead[k] = at /\ wrote[k]}
           own    == IF lastRead[at] = at /\ rows THEN {at} ELSE {}
<1>1. /\ table' = Clear(filled, read \cup own)
      /\ phase = "drain" /\ phase' = "drain" /\ at <= plan.n /\ IsTouched(at) /\ at' = at + 1
      /\ wrote' = [wrote EXCEPT ![at] = rows]
      /\ UNCHANGED layout /\ UNCHANGED <<reads, reading, dirty, saved>>
  BY DEF RunNode
<1> HIDE DEF A, ran, base, filled, read, own
<1>2. /\ Nodes' = Nodes /\ plan' = plan /\ slot' = slot /\ lastRead' = lastRead
      /\ \A k : Kind(k)' = Kind(k)
      /\ Empty' = Empty
  BY <1>1, SamePlan DEF layout
<1>3. /\ at \in Nodes /\ at \in Nat /\ ~wrote[at]
      /\ A \subseteq Alive(at) /\ InputsOf(at) \subseteq Alive(at) /\ at \in Alive(at)
      /\ at \notin InputsOf(at)
  BY <1>1, DrainAlive DEF A, IsTouched
<1>4. table = Rows(A)
  BY <1>1 DEF Inv, DrainOK, A
<1>5. SlotsOK(plan.n + 1) /\ Apart(plan.n + 1) /\ slot[at] \in Nodes
  BY <1>1, <1>3, Planned, SlotIsNode DEF Inv
<1>6. \A a, b \in Alive(at) : slot[a] = slot[b] => a = b
  BY <1>3, <1>5, Alone DEF Inv
<1>7. base = Rows(A)
  <2>1. at \notin A
    BY <1>3 DEF A
  <2>2. Clear(Rows(A), {at}) = Rows(A \ {at})
    BY <1>3, <1>6, ClearRemoves
  <2> QED BY <2>1, <2>2, <1>4 DEF base
<1>8. filled = Rows(A \cup ran)
  BY <1>5, <1>7, FillAdds DEF filled, ran
<1>9. table' = Rows((A \cup ran) \ (read \cup own))
  <2>1. A \cup ran \subseteq Alive(at) /\ read \cup own \subseteq Alive(at)
    BY <1>3 DEF ran, read, own
  <2> QED BY <1>1, <1>6, <1>8, <2>1, ClearRemoves
<1>10. wrote \in [Nodes -> BOOLEAN]
  BY DEF Inv, TypeOK
<1>11. \A k \in Nodes : wrote'[k] = IF k = at THEN rows ELSE wrote[k]
  BY <1>1, <1>10
<1>12. ASSUME NEW k \in Nodes
       PROVE  k \in (A \cup ran) \ (read \cup own) <=> wrote'[k] /\ at + 1 <= lastRead[k]
  <2>1. /\ lastRead[k] \in Nat
        /\ lastRead[k] = at => k = at \/ k \in InputsOf(at)
        /\ k = at => at <= lastRead[k]
    BY <1>1, <1>3, DrainAlive DEF Alive
  <2>2. at + 1 <= lastRead[k] <=> at <= lastRead[k] /\ lastRead[k] # at
    BY <2>1, <1>3
  <2>3. CASE k = at
    <3>1. k \notin A /\ k \notin read /\ wrote'[k] = rows
      BY <2>3, <1>3, <1>11 DEF A, read
    <3>2. (k \in ran <=> rows) /\ (k \in own <=> lastRead[k] = at /\ rows)
      BY <2>3 DEF ran, own
    <3> QED BY <2>1, <2>2, <2>3, <3>1, <3>2
  <2>4. CASE k # at
    <3>1. k \notin ran /\ k \notin own /\ wrote'[k] = wrote[k]
      BY <2>4, <1>11 DEF ran, own
    <3>2. k \in A <=> wrote[k] /\ at <= lastRead[k]
      BY DEF A
    <3>3. k \in read <=> k \in InputsOf(at) /\ lastRead[k] = at /\ wrote[k]
      BY DEF read
    <3> QED BY <2>1, <2>2, <2>4, <3>1, <3>2, <3>3
  <2> QED BY <2>3, <2>4
<1>13. (A \cup ran) \ (read \cup own) = {k \in Nodes : wrote'[k] /\ at + 1 <= lastRead[k]}
  <2>1. A \cup ran \subseteq Nodes
    BY <1>3 DEF A, ran
  <2> QED BY <2>1, <1>12
<1>14. table' = Rows({k \in Nodes : wrote[k] /\ at <= lastRead[k]})'
  BY <1>1, <1>2, <1>9, <1>13 DEF Rows
<1>15. DrainOK'
  <2>1. ASSUME NEW k \in Nodes, wrote'[k], Kind(k) # "input" PROVE k < at + 1
    <3>1. k \in Nat
      BY PlanShape DEF Inv, TypeOK
    <3>2. k = at \/ k < at
      BY <2>1, <1>1, <1>11 DEF Inv, DrainOK
    <3> QED BY <3>1, <3>2, <1>3
  <2>2. ~dirty'
    BY <1>1 DEF Inv, DrainOK
  <2> QED BY <2>1, <2>2, <1>1, <1>2, <1>14 DEF DrainOK
<1>16. PopulationOK' /\ RestOK'
  BY <1>1, <1>2 DEF Inv, PopulationOK, RestOK, TablesAreCleared
<1>17. table' \in [Nodes -> SUBSET Nodes]
  <2>1. (A \cup ran) \ (read \cup own) \subseteq Nodes
    BY <1>13
  <2> QED BY <2>1, <1>9 DEF Rows
<1>18. at' \in 1..(plan.n + 1) /\ wrote' \in [Nodes -> BOOLEAN]
  BY <1>1, <1>10, DrainAlive
<1> QED BY <1>1, <1>15, <1>16, <1>17, <1>18, StepKeeps DEF Inv, TypeOK

LEMMA DrainEndsKeeps == Inv /\ DrainEnds => Inv'
<1> SUFFICES ASSUME Inv, DrainEnds PROVE Inv'
  OBVIOUS
<1>1. /\ phase = "drain" /\ phase' = "idle" /\ at > plan.n /\ at' = 1
      /\ table' = Clear(table, {k \in Nodes : wrote[k] /\ lastRead[k] = plan.n + 1})
      /\ saved' = IF reading THEN saved ELSE [table |-> table', dirty |-> dirty]
      /\ wrote' = NoRows /\ reading' = FALSE
      /\ UNCHANGED layout /\ UNCHANGED <<reads, dirty>>
  BY DEF DrainEnds, DrainReturns
<1>2. plan.n \in Nat /\ at = plan.n + 1 /\ \A k \in Nodes : lastRead[k] \in 1..(plan.n + 1)
  <2>1. at \in 1..(plan.n + 1) /\ plan.n \in Nat \ {0}
        /\ \A k \in Nodes : lastRead[k] \in 1..(plan.n + 1)
    BY PlanShape DEF Inv, TypeOK
  <2> QED BY <2>1, <1>1
<1>3. {k \in Nodes : wrote[k] /\ at <= lastRead[k]}
        = {k \in Nodes : wrote[k] /\ lastRead[k] = plan.n + 1}
  BY <1>2
<1>4. table = Rows({k \in Nodes : wrote[k] /\ lastRead[k] = plan.n + 1})
  BY <1>1, <1>3 DEF Inv, DrainOK
<1>5. table' = Empty
  BY <1>1, <1>4 DEF Clear, Rows, Empty
<1>6. Empty' = Empty
  BY <1>1, SamePlan DEF layout
<1>7. table' \in [Nodes -> SUBSET Nodes] /\ wrote' \in [Nodes -> BOOLEAN]
  BY <1>1, <1>5 DEF Empty, NoRows
<1>8. saved' \in [table : [Nodes -> SUBSET Nodes], dirty : BOOLEAN]
  <2>1. CASE reading
    BY <2>1, <1>1 DEF Inv, TypeOK
  <2>2. CASE ~reading
    <3>1. dirty \in BOOLEAN
      BY DEF Inv, TypeOK
    <3> QED BY <2>2, <3>1, <1>1, <1>7
  <2> QED BY <2>1, <2>2
<1>9. ~saved'.dirty => saved'.table = Empty
  <2>1. CASE reading
    BY <2>1, <1>1 DEF Inv, RestOK
  <2>2. CASE ~reading
    BY <2>2, <1>1, <1>5
  <2> QED BY <2>1, <2>2
<1>10. PopulationOK' /\ DrainOK' /\ RestOK'
  BY <1>1, <1>5, <1>6, <1>9 DEF PopulationOK, DrainOK, RestOK, TablesAreCleared
<1>11. 1 \in 1..(plan.n + 1)
  BY <1>2
<1> QED BY <1>1, <1>7, <1>8, <1>10, <1>11, StepKeeps DEF Inv, TypeOK

LEMMA DrainFailsKeeps ==
  ASSUME NEW rows \in BOOLEAN
  PROVE  Inv /\ DrainFails(rows) => Inv'
<1> SUFFICES ASSUME Inv, DrainFails(rows) PROVE Inv'
  OBVIOUS
<1>1. /\ phase = "drain" /\ phase' = "idle" /\ at <= plan.n /\ at' = 1
      /\ wrote' = NoRows /\ reading' = FALSE
      /\ UNCHANGED layout /\ UNCHANGED <<reads, saved>>
  BY DEF DrainFails, DrainReturns
<1>2. at \in Nodes /\ plan.n \in Nat \ {0}
  BY <1>1, DrainAlive, PlanShape DEF Inv, TypeOK
<1>3. \/ /\ table' = [table EXCEPT ![slot[at]] = IF rows THEN @ \cup {at} ELSE @]
         /\ dirty' = TRUE
      \/ table' = saved.table /\ dirty' = saved.dirty
  BY DEF DrainFails
<1>4. Empty' = Empty
  BY <1>1, SamePlan DEF layout
<1>5. table \in [Nodes -> SUBSET Nodes]
      /\ saved \in [table : [Nodes -> SUBSET Nodes], dirty : BOOLEAN]
  BY DEF Inv, TypeOK
<1>6. CASE /\ table' = [table EXCEPT ![slot[at]] = IF rows THEN @ \cup {at} ELSE @]
           /\ dirty' = TRUE
  <2>1. table' \in [Nodes -> SUBSET Nodes] /\ dirty' \in BOOLEAN
    BY <1>2, <1>5, <1>6
  <2>2. PopulationOK' /\ DrainOK' /\ RestOK'
    BY <1>1, <1>4, <1>6 DEF Inv, PopulationOK, DrainOK, RestOK, TablesAreCleared
  <2>3. 1 \in 1..(plan.n + 1) /\ wrote' \in [Nodes -> BOOLEAN]
    BY <1>1, <1>2 DEF NoRows
  <2> QED BY <1>1, <1>5, <2>1, <2>2, <2>3, StepKeeps DEF Inv, TypeOK
<1>7. CASE table' = saved.table /\ dirty' = saved.dirty
  <2>1. table' \in [Nodes -> SUBSET Nodes] /\ dirty' \in BOOLEAN
    BY <1>5, <1>7
  <2>2. PopulationOK' /\ DrainOK' /\ RestOK'
    BY <1>1, <1>4, <1>7 DEF Inv, PopulationOK, DrainOK, RestOK, TablesAreCleared
  <2>3. 1 \in 1..(plan.n + 1) /\ wrote' \in [Nodes -> BOOLEAN]
    BY <1>1, <1>2 DEF NoRows
  <2> QED BY <1>1, <1>5, <2>1, <2>2, <2>3, StepKeeps DEF Inv, TypeOK
<1> QED BY <1>3, <1>6, <1>7

LEMMA CommitKeeps == Inv /\ Commit => Inv'
<1> SUFFICES ASSUME Inv, Commit PROVE Inv'
  OBVIOUS
<1>1. /\ phase = "idle" /\ phase' = phase
      /\ saved' = [table |-> table, dirty |-> dirty]
      /\ UNCHANGED layout /\ UNCHANGED <<at, table, wrote, reads, reading, dirty>>
  BY DEF Commit
<1>2. Empty' = Empty
  BY <1>1, SamePlan DEF layout
<1>3. table \in [Nodes -> SUBSET Nodes] /\ dirty \in BOOLEAN
  BY DEF Inv, TypeOK
<1>4. saved' \in [table : [Nodes -> SUBSET Nodes], dirty : BOOLEAN]
  BY <1>1, <1>3
<1>5. PopulationOK' /\ DrainOK' /\ RestOK'
  BY <1>1, <1>2 DEF Inv, PopulationOK, DrainOK, RestOK, TablesAreCleared
<1> QED BY <1>1, <1>4, <1>5, StepKeeps DEF Inv, TypeOK

LEMMA RollbackKeeps == Inv /\ Rollback => Inv'
<1> SUFFICES ASSUME Inv, Rollback PROVE Inv'
  OBVIOUS
<1>1. /\ phase = "idle" /\ phase' = phase /\ table' = saved.table /\ dirty' = saved.dirty
      /\ UNCHANGED layout /\ UNCHANGED <<at, wrote, reads, reading, saved>>
  BY DEF Rollback
<1>2. Empty' = Empty
  BY <1>1, SamePlan DEF layout
<1>3. saved \in [table : [Nodes -> SUBSET Nodes], dirty : BOOLEAN]
  BY DEF Inv, TypeOK
<1>4. table' \in [Nodes -> SUBSET Nodes] /\ dirty' \in BOOLEAN
  BY <1>1, <1>3
<1>5. PopulationOK' /\ DrainOK' /\ RestOK'
  BY <1>1, <1>2 DEF Inv, PopulationOK, DrainOK, RestOK, TablesAreCleared
<1> QED BY <1>1, <1>4, <1>5, StepKeeps DEF Inv, TypeOK

LEMMA StutterKeeps == Inv /\ UNCHANGED vars => Inv'
<1> SUFFICES ASSUME Inv, UNCHANGED vars PROVE Inv'
  OBVIOUS
<1>1. /\ plan' = plan /\ phase' = phase /\ at' = at /\ lastRead' = lastRead
      /\ slot' = slot /\ end' = end /\ table' = table /\ wrote' = wrote
      /\ reads' = reads /\ reading' = reading /\ dirty' = dirty /\ saved' = saved
  BY DEF vars
<1>2. /\ Nodes' = Nodes /\ Output' = Output /\ Kept' = Kept
      /\ \A k : Kind(k)' = Kind(k) /\ InputsOf(k)' = InputsOf(k) /\ Start(k)' = Start(k)
      /\ \A K, i : UsesIn(K, i)' = UsesIn(K, i)
      /\ Empty' = Empty
  BY <1>1, SamePlan
<1>3. TypeOK'
  BY <1>1, <1>2 DEF Inv, TypeOK
<1>4. LayoutOK'
  <2>1. LastReadsOK(at) => LastReadsOK(at)'
    BY <1>1, <1>2 DEF LastReadsOK
  <2>2. LastReadsOK(plan.n + 1) => LastReadsOK(plan.n + 1)'
    BY <1>1, <1>2 DEF LastReadsOK
  <2>3. Extended => Extended'
    BY <1>1, <1>2 DEF Extended
  <2>4. /\ SlotsOK(at) => SlotsOK(at)'
        /\ SlotsOK(plan.n + 1) => SlotsOK(plan.n + 1)'
    BY <1>1, <1>2 DEF SlotsOK
  <2>5. /\ Apart(at) => Apart(at)'
        /\ Apart(plan.n + 1) => Apart(plan.n + 1)'
    BY <1>1, <1>2 DEF Apart
  <2> QED BY <1>1, <2>1, <2>2, <2>3, <2>4, <2>5 DEF Inv, LayoutOK
<1>5. \A A : Rows(A)' = Rows(A)
  BY <1>1, <1>2 DEF Rows
<1>6. \A i : Remaining(i)' = Remaining(i)
  BY <1>1, <1>2 DEF Remaining
<1>7. PopulationOK'
  BY <1>1, <1>2, <1>5, <1>6 DEF Inv, PopulationOK
<1>8. DrainOK'
  BY <1>1, <1>2, <1>5 DEF Inv, DrainOK
<1>9. RestOK'
  BY <1>1, <1>2 DEF Inv, RestOK, TablesAreCleared
<1> QED BY <1>3, <1>4, <1>7, <1>8, <1>9 DEF Inv

LEMMA NextKeeps == Inv /\ [Next]_vars => Inv'
<1> SUFFICES ASSUME Inv, [Next]_vars PROVE Inv'
  OBVIOUS
<1>1. CASE CountReads \/ ExtendReads \/ AssignSlot \/ SlotsAssigned
  BY <1>1, CountReadsKeeps, ExtendReadsKeeps, AssignSlotKeeps, SlotsAssignedKeeps
<1>2. CASE Install \/ Populated \/ PopulateFails
  BY <1>2, InstallKeeps, PopulatedKeeps, PopulateFailsKeeps
<1>3. CASE \E rows \in BOOLEAN : PopulateNode(rows) \/ RunNode(rows) \/ DrainFails(rows)
  BY <1>3, PopulateNodeKeeps, RunNodeKeeps, DrainFailsKeeps
<1>4. CASE \E read \in BOOLEAN : \E touched \in SUBSET Nodes : StartDrain(read, touched)
  BY <1>4, StartDrainKeeps
<1>5. CASE SkipNode \/ DrainEnds \/ Commit \/ Rollback
  BY <1>5, SkipNodeKeeps, DrainEndsKeeps, CommitKeeps, RollbackKeeps
<1>6. CASE UNCHANGED vars
  BY <1>6, StutterKeeps
<1> QED BY <1>1, <1>2, <1>3, <1>4, <1>5, <1>6 DEF Next

-----------------------------------------------------------------------------
(* The theorems.                                                           *)

\* The invariant of the assignment, the population and the drain.
THEOREM Invariance == Spec => []Inv
<1> QED BY Start0, NextKeeps, PTL DEF Spec

\* Every variable keeps its type; the counts of readers never go below zero.
THEOREM TypeCorrect == Spec => []TypeOK
<1>1. Inv => TypeOK
  BY DEF Inv
<1> QED BY <1>1, Invariance, PTL

\* Whatever plan is drained and whatever its nodes write, a node of the drain
\* finds its inputs' deltas of this drain in their tables and its own empty.
THEOREM DrainReads == Spec => []DrainReadsItsInputs
<1>1. Inv => DrainReadsItsInputs
  <2> SUFFICES ASSUME Inv, phase = "drain", at <= plan.n, IsTouched(at)
               PROVE  (\A i \in InputsOf(at) : Holds(i)) /\ table[slot[at]] = {}
    BY DEF DrainReadsItsInputs
  <2> DEFINE A == {k \in Nodes : wrote[k] /\ at <= lastRead[k]}
  <2>1. /\ at \in Nat /\ at \in Alive(at) /\ A \subseteq Alive(at)
        /\ InputsOf(at) \subseteq Alive(at) /\ ~wrote[at]
    BY DrainAlive DEF IsTouched
  <2>2. table = Rows(A)
    BY DEF Inv, DrainOK
  <2>3. SlotsOK(plan.n + 1) /\ Apart(plan.n + 1) /\ TypeOK
    BY Planned DEF Inv
  <2>4. ASSUME NEW k \in Alive(at) PROVE table[slot[k]] = A \cap {k}
    <3>1. slot[k] \in Nodes
      BY <2>3, SlotIsNode DEF Alive
    <3> QED BY <2>1, <2>2, <2>3, <3>1, OwnRows
  <2>5. ASSUME NEW i \in InputsOf(at) PROVE Holds(i)
    <3>1. i \in Alive(at)
      BY <2>1
    <3>2. i \in A <=> wrote[i]
      BY <3>1 DEF Alive
    <3>3. table[slot[i]] = A \cap {i}
      BY <2>4, <3>1
    <3> QED BY <3>2, <3>3 DEF Holds
  <2>6. table[slot[at]] = {}
    <3>1. at \notin A
      BY <2>1
    <3> QED BY <2>1, <2>4, <3>1
  <2> QED BY <2>5, <2>6
<1> QED BY <1>1, Invariance, PTL

\* Population frees a table when its last reader has run, never before one.
THEOREM PopulationReads == Spec => []PopulationReadsItsInputs
<1>1. Inv => PopulationReadsItsInputs
  <2> SUFFICES ASSUME Inv, phase = "populate"
               PROVE  /\ at <= plan.n => \A i \in ReadBy(at) : Holds(i)
                      /\ at <= plan.n => table[slot[at]] = {}
                      /\ at > plan.n => \A i \in Kept : Holds(i)
    BY DEF PopulationReadsItsInputs
  <2> DEFINE A == {k \in Nodes : wrote[k] /\ 0 < reads[k]}
  <2>1. /\ A \subseteq Alive(at)
        /\ at <= plan.n => ReadBy(at) \subseteq Alive(at) /\ at \in Alive(at)
        /\ plan.n < at => Kept \subseteq Alive(at)
    BY PopulationAlive
  <2>2. table = Rows(A)
    BY DEF Inv, PopulationOK
  <2>3. /\ SlotsOK(plan.n + 1) /\ Apart(plan.n + 1) /\ TypeOK
        /\ at \in Nat /\ plan.n \in Nat
    BY Planned, PlanShape DEF Inv, TypeOK
  <2>4. ASSUME NEW k \in Alive(at) PROVE table[slot[k]] = A \cap {k}
    <3>1. slot[k] \in Nodes
      BY <2>3, SlotIsNode DEF Alive
    <3> QED BY <2>1, <2>2, <2>3, <3>1, OwnRows
  <2>5. ASSUME NEW i \in Alive(at), 0 < Remaining(i) PROVE Holds(i)
    <3>1. i \in Nodes /\ 0 < reads[i]
      BY <2>5 DEF Alive, Inv, PopulationOK
    <3>2. i \in A <=> wrote[i]
      BY <3>1
    <3>3. table[slot[i]] = A \cap {i}
      BY <2>4
    <3> QED BY <3>2, <3>3 DEF Holds
  <2>6. ASSUME at <= plan.n, NEW i \in ReadBy(at) PROVE Holds(i)
    BY <2>1, <2>3, <2>5, <2>6, ReadNow
  <2>7. ASSUME at <= plan.n PROVE table[slot[at]] = {}
    <3>1. at \notin A
      BY <2>3 DEF Inv, PopulationOK
    <3> QED BY <2>1, <2>4, <2>7, <3>1
  <2>8. ASSUME at > plan.n, NEW i \in Kept PROVE Holds(i)
    <3>1. i \in Alive(at)
      BY <2>1, <2>3, <2>8
    <3>2. 0 < Remaining(i)
      BY <2>3, RemainingIsNat DEF Remaining
    <3> QED BY <2>5, <3>1, <3>2
  <2> QED BY <2>6, <2>7, <2>8
<1> QED BY <1>1, Invariance, PTL

\* The sweeps of the drain leave nothing behind, in any table.
THEOREM Cleared == Spec => []TablesAreCleared
<1>1. Inv => TablesAreCleared
  BY DEF Inv, RestOK
<1> QED BY <1>1, Invariance, PTL
=============================================================================
