-------------------------- MODULE AggregateProofs --------------------------
(***************************************************************************)
(* Row counts, the safe flag, the non-null counts and the sums of          *)
(* AggregateDelta, for every set of copies, every grouping and all bounds. *)
(***************************************************************************)
EXTENDS AggregateDelta, SumsProofs

MetaOK == meta \in [Groups -> [safe : BOOLEAN, nn : Int]]

\* A stored row is there and counts what the query would.
RowCounts ==
  created => \A g \in Groups :
    /\ result[g].shown = (keyed => Of(live, g) # {})
    /\ result[g].n = Cardinality(Of(live, g))

\* What the proofs carry from step to step.
Inv ==
  /\ keyed \in BOOLEAN /\ live \subseteq Copies
  /\ MetaOK
  /\ RowCounts
  /\ SafeGroupsAreSmall
  /\ NonNullCounts

\* The input once a drain has run.
After(come, gone) == (live \cup come) \ gone

-----------------------------------------------------------------------------
(* Counting copies.                                                        *)

\* Sets of copies are finite, and the empty one is the one that counts 0.
LEMMA Countable ==
  ASSUME NEW S, S \subseteq Copies
  PROVE /\ IsFiniteSet(S)
        /\ Cardinality(S) \in Nat
        /\ Cardinality(S) = 0 <=> S = {}
<1>1. IsFiniteSet(S)
  BY AggregateAssumption, FS_Subset
<1> QED BY <1>1, FS_CardinalityType, FS_EmptySet

\* A part of a set counts no more than the set.
LEMMA PartCounts ==
  ASSUME NEW S, S \subseteq Copies, NEW P, P \subseteq S
  PROVE Cardinality(P) <= Cardinality(S)
BY Countable, FS_Subset

\* A batch adds copies that were not there and takes copies that are.
LEMMA BatchCount ==
  ASSUME NEW S, NEW C, NEW G,
         S \subseteq Copies, C \subseteq Copies \ S, G \subseteq S \cup C
  PROVE /\ Cardinality((S \cup C) \ G) = Cardinality(S) + Cardinality(C) - Cardinality(G)
        /\ Cardinality(S) \in Nat /\ Cardinality(C) \in Nat /\ Cardinality(G) \in Nat
        /\ Cardinality((S \cup C) \ G) \in Nat
<1>1. S \cap C = {} /\ (S \cup C) \cap G = G
  OBVIOUS
<1>2. /\ IsFiniteSet(S) /\ IsFiniteSet(C) /\ IsFiniteSet(G) /\ IsFiniteSet(S \cup C)
      /\ Cardinality(S) \in Nat /\ Cardinality(C) \in Nat /\ Cardinality(G) \in Nat
      /\ Cardinality(S \cup C) \in Nat /\ Cardinality((S \cup C) \ G) \in Nat
  <2>1. /\ C \subseteq Copies /\ G \subseteq Copies
        /\ S \cup C \subseteq Copies /\ (S \cup C) \ G \subseteq Copies
    OBVIOUS
  <2> QED BY <2>1, Countable
<1>3. Cardinality(S \cup C) = Cardinality(S) + Cardinality(C) - Cardinality({})
  BY <1>1, <1>2, FS_Union
<1>4. Cardinality((S \cup C) \ G) = Cardinality(S \cup C) - Cardinality(G)
  BY <1>1, <1>2, FS_Difference
<1> QED BY <1>2, <1>3, <1>4, FS_EmptySet

-----------------------------------------------------------------------------
(* A drain's inputs, restricted to one group.                              *)

\* A group's copies after the batch, and its non-null ones, are those before it
\* changed by its part of the batch; the counts change by as much.
ChangedBy(come, gone, g) ==
  /\ Of(After(come, gone), g) = (Of(live, g) \cup Of(come, g)) \ Of(gone, g)
  /\ Cardinality(Of(After(come, gone), g))
       = Cardinality(Of(live, g)) + Cardinality(Of(come, g)) - Cardinality(Of(gone, g))
  /\ Cardinality(NonNull(Of(After(come, gone), g)))
       = Cardinality(NonNull(Of(live, g))) + Cardinality(NonNull(Of(come, g)))
           - Cardinality(NonNull(Of(gone, g)))
  /\ \A S \in {Of(live, g), Of(come, g), Of(gone, g), Of(After(come, gone), g)} :
       Cardinality(S) \in Nat /\ Cardinality(NonNull(S)) \in Nat

\* So it is for every legal batch.
LEMMA GroupAfterBatch ==
  ASSUME live \subseteq Copies,
         NEW come, come \subseteq Copies \ live,
         NEW gone, gone \subseteq live \cup come,
         NEW g
  PROVE ChangedBy(come, gone, g)
<1>1. /\ Of(live, g) \subseteq Copies
      /\ Of(come, g) \subseteq Copies \ Of(live, g)
      /\ Of(gone, g) \subseteq Of(live, g) \cup Of(come, g)
      /\ Of(After(come, gone), g) = (Of(live, g) \cup Of(come, g)) \ Of(gone, g)
  BY DEF Of, After
<1>2. /\ NonNull(Of(live, g)) \subseteq Copies
      /\ NonNull(Of(come, g)) \subseteq Copies \ NonNull(Of(live, g))
      /\ NonNull(Of(gone, g)) \subseteq NonNull(Of(live, g)) \cup NonNull(Of(come, g))
      /\ NonNull(Of(After(come, gone), g))
           = (NonNull(Of(live, g)) \cup NonNull(Of(come, g))) \ NonNull(Of(gone, g))
  BY <1>1 DEF NonNull
<1>3. /\ Cardinality(Of(After(come, gone), g))
           = Cardinality(Of(live, g)) + Cardinality(Of(come, g)) - Cardinality(Of(gone, g))
      /\ \A S \in {Of(live, g), Of(come, g), Of(gone, g), Of(After(come, gone), g)} :
           Cardinality(S) \in Nat
  <2> DEFINE L == Of(live, g)
             C == Of(come, g)
             G == Of(gone, g)
             A == Of(After(come, gone), g)
  <2>1. L \subseteq Copies /\ C \subseteq Copies \ L /\ G \subseteq L \cup C
    BY <1>1
  <2>2. A = (L \cup C) \ G
    BY <1>1
  <2> HIDE DEF L, C, G, A
  <2>3. /\ Cardinality((L \cup C) \ G) = Cardinality(L) + Cardinality(C) - Cardinality(G)
        /\ Cardinality(L) \in Nat /\ Cardinality(C) \in Nat /\ Cardinality(G) \in Nat
        /\ Cardinality((L \cup C) \ G) \in Nat
    BY <2>1, BatchCount
  <2>4. /\ Cardinality(A) = Cardinality(L) + Cardinality(C) - Cardinality(G)
        /\ Cardinality(A) \in Nat
    BY <2>2, <2>3
  <2> QED BY <2>3, <2>4 DEF L, C, G, A
<1>4. /\ Cardinality(NonNull(Of(After(come, gone), g)))
           = Cardinality(NonNull(Of(live, g))) + Cardinality(NonNull(Of(come, g)))
               - Cardinality(NonNull(Of(gone, g)))
      /\ \A S \in {Of(live, g), Of(come, g), Of(gone, g), Of(After(come, gone), g)} :
           Cardinality(NonNull(S)) \in Nat
  <2> DEFINE L == NonNull(Of(live, g))
             C == NonNull(Of(come, g))
             G == NonNull(Of(gone, g))
             A == NonNull(Of(After(come, gone), g))
  <2>1. L \subseteq Copies /\ C \subseteq Copies \ L /\ G \subseteq L \cup C
    BY <1>2
  <2>2. A = (L \cup C) \ G
    BY <1>2
  <2> HIDE DEF L, C, G, A
  <2>3. /\ Cardinality((L \cup C) \ G) = Cardinality(L) + Cardinality(C) - Cardinality(G)
        /\ Cardinality(L) \in Nat /\ Cardinality(C) \in Nat /\ Cardinality(G) \in Nat
        /\ Cardinality((L \cup C) \ G) \in Nat
    BY <2>1, BatchCount
  <2>4. /\ Cardinality(A) = Cardinality(L) + Cardinality(C) - Cardinality(G)
        /\ Cardinality(A) \in Nat
    BY <2>2, <2>3
  <2> QED BY <2>3, <2>4 DEF L, C, G, A
<1> QED BY <1>1, <1>3, <1>4 DEF ChangedBy

\* A batch leaves the groups it does not touch as they are.
LEMMA Untouched ==
  ASSUME NEW come, NEW gone, NEW g, g \notin Touched(come \cup gone)
  PROVE Of(After(come, gone), g) = Of(live, g)
BY DEF Touched, Of, After

-----------------------------------------------------------------------------
(* The three steps.                                                        *)

\* populate counts the rows and marks the small groups (1b_state.rs).
LEMMA PopulateKeepsInv ==
  ASSUME Inv, Populate
  PROVE Inv'
<1>1. \A g \in Groups :
        /\ Of(live, g) \subseteq Copies
        /\ Cardinality(Of(live, g)) \in Nat
        /\ Cardinality(NonNull(Of(live, g))) \in Nat
        /\ Of(live, g) = {} => Cardinality(Of(live, g)) = 0
        /\ Of(live, g) = {} => Cardinality(NonNull(Of(live, g))) = 0
  <2> SUFFICES ASSUME NEW g \in Groups
               PROVE /\ Of(live, g) \subseteq Copies
                     /\ Cardinality(Of(live, g)) \in Nat
                     /\ Cardinality(NonNull(Of(live, g))) \in Nat
                     /\ Of(live, g) = {} => Cardinality(Of(live, g)) = 0
                     /\ Of(live, g) = {} => Cardinality(NonNull(Of(live, g))) = 0
    OBVIOUS
  <2>1. /\ Of(live, g) \subseteq Copies /\ NonNull(Of(live, g)) \subseteq Copies
        /\ Of(live, g) = {} => NonNull(Of(live, g)) = {}
    BY DEF Inv, Of, NonNull
  <2> QED BY <2>1, Countable
<1>2. /\ keyed' = keyed /\ live' = live /\ created'
      /\ Groups' = Groups /\ \A g : Of(live, g)' = Of(live, g)
  BY DEF Populate, Groups, Of, GroupOf
<1>3. MetaOK'
  BY <1>1, <1>2 DEF Populate, MetaOK, NoEntry, Plain
<1>4. RowCounts'
  BY <1>1, <1>2 DEF Populate, RowCounts, Aggregated
<1>5. SafeGroupsAreSmall'
  BY <1>1, <1>2, AggregateAssumption DEF Populate, SafeGroupsAreSmall, NoEntry
<1>6. NonNullCounts'
  BY <1>1, <1>2 DEF Populate, NonNullCounts, NoEntry
<1> QED BY <1>2, <1>3, <1>4, <1>5, <1>6 DEF Inv

\* A batch that is added keeps the counts (1e_program.rs: update_counts, apply).
LEMMA AddDeltaKeepsInv ==
  ASSUME Inv,
         NEW come, come \subseteq Copies \ live,
         NEW gone, gone \subseteq live \cup come,
         AddDelta(come, gone)
  PROVE Inv'
<1> DEFINE T == Touched(come \cup gone)
<1>1. /\ keyed' = keyed /\ live' = After(come, gone) /\ created /\ created'
      /\ Groups' = Groups /\ \A g : Of(live, g)' = Of(After(come, gone), g)
  BY DEF AddDelta, Groups, Of, GroupOf, After
<1>2. /\ \A g \in Groups :
           /\ meta[g] \in [safe : BOOLEAN, nn : Int]
           /\ meta'[g] = IF g \in T THEN UpdateCounts(come, gone, g) ELSE meta[g]
           /\ result'[g] = IF g \in T THEN Apply(come, gone, g, meta'[g].nn) ELSE result[g]
      /\ meta' = [g \in Groups |-> meta'[g]]
  BY DEF Inv, MetaOK, AddDelta
<1>3. \A g : /\ Of(After(come, gone), g) = (Of(live, g) \cup Of(come, g)) \ Of(gone, g)
             /\ Cardinality(Of(After(come, gone), g))
                  = Cardinality(Of(live, g)) + Cardinality(Of(come, g)) - Cardinality(Of(gone, g))
             /\ Cardinality(NonNull(Of(After(come, gone), g)))
                  = Cardinality(NonNull(Of(live, g))) + Cardinality(NonNull(Of(come, g)))
                      - Cardinality(NonNull(Of(gone, g)))
             /\ \A S \in {Of(live, g), Of(come, g), Of(gone, g), Of(After(come, gone), g)} :
                  Cardinality(S) \in Nat /\ Cardinality(NonNull(S)) \in Nat
  <2>1. \A g : ChangedBy(come, gone, g)
    BY GroupAfterBatch DEF Inv
  <2> QED BY <2>1 DEF ChangedBy
<1>4. ASSUME NEW g \in Groups, g \in T
      PROVE /\ meta[g].safe
            /\ result[g].n + Cardinality(come) + Cardinality(gone) <= MaxRows
            /\ \A c \in come \cup gone : Plain(c)
  BY <1>4 DEF AddDelta, Eligible
<1>5. ASSUME NEW g \in Groups, g \in T
      PROVE /\ meta'[g] \in [safe : BOOLEAN, nn : Int]
            /\ meta'[g].nn = meta[g].nn + Cardinality(NonNull(Of(come, g)))
                              - Cardinality(NonNull(Of(gone, g)))
  <2> DEFINE nn == meta[g].nn + Cardinality(NonNull(Of(come, g)))
                     - Cardinality(NonNull(Of(gone, g)))
             safe == meta[g].safe
  <2>1. nn \in Int /\ safe \in BOOLEAN
    <3>1. meta[g].nn \in Int /\ meta[g].safe \in BOOLEAN
      BY <1>2
    <3>2. /\ Cardinality(NonNull(Of(come, g))) \in Nat
          /\ Cardinality(NonNull(Of(gone, g))) \in Nat
      BY <1>3
    <3> QED BY <3>1, <3>2
  <2>2. meta'[g] = [safe |-> safe, nn |-> nn]
    BY <1>2, <1>5 DEF UpdateCounts
  <2>3. meta'[g].nn = nn
    <3> HIDE DEF nn, safe
    <3> QED BY <2>2
  <2>4. meta'[g] \in [safe : BOOLEAN, nn : Int]
    <3> HIDE DEF nn, safe
    <3> QED BY <2>1, <2>2
  <2> QED BY <2>3, <2>4
<1>6. MetaOK'
  BY <1>1, <1>2, <1>5 DEF MetaOK
<1>7. RowCounts'
  <2> SUFFICES ASSUME NEW g \in Groups
               PROVE /\ result'[g].shown = (keyed => Of(After(come, gone), g) # {})
                     /\ result'[g].n = Cardinality(Of(After(come, gone), g))
    BY <1>1 DEF RowCounts
  <2>1. /\ result[g].shown = (keyed => Of(live, g) # {})
        /\ result[g].n = Cardinality(Of(live, g))
    BY <1>1 DEF Inv, RowCounts
  <2>2. CASE g \notin T
    BY <1>2, <2>1, <2>2, Untouched
  <2>3. CASE g \in T
    <3> DEFINE n == result[g].n + Cardinality(Of(come, g)) - Cardinality(Of(gone, g))
    <3>1. n = Cardinality(Of(After(come, gone), g)) /\ n \in Nat
      BY <1>3, <2>1
    <3>2. n = 0 <=> Of(After(come, gone), g) = {}
      <4>1. Of(After(come, gone), g) \subseteq Copies
        BY DEF Inv, Of, After
      <4> QED BY <3>1, <4>1, Countable
    <3>3. result'[g] = Apply(come, gone, g, meta'[g].nn)
      BY <1>2, <2>3
    <3>4. CASE keyed /\ n <= 0
      <4>1. n = 0
        BY <3>1, <3>4
      <4>2. result'[g].shown = FALSE /\ result'[g].n = 0
        BY <3>3, <3>4 DEF Apply, NoRow
      <4>3. (keyed => Of(After(come, gone), g) # {}) = FALSE
        BY <3>2, <3>4, <4>1
      <4> QED BY <3>1, <4>1, <4>2, <4>3
    <3>5. CASE ~(keyed /\ n <= 0)
      <4>1. result'[g].shown = TRUE /\ result'[g].n = n
        BY <3>3, <3>5 DEF Apply
      <4>2. keyed => n # 0
        BY <3>1, <3>5
      <4>3. (keyed => Of(After(come, gone), g) # {}) = TRUE
        BY <3>2, <4>2
      <4> QED BY <3>1, <4>1, <4>3
    <3> QED BY <3>4, <3>5
  <2> QED BY <2>2, <2>3
<1>8. SafeGroupsAreSmall'
  <2> SUFFICES ASSUME NEW g \in Groups, meta'[g].safe
               PROVE /\ Cardinality(Of(After(come, gone), g)) <= MaxRows
                     /\ \A c \in Of(After(come, gone), g) : Plain(c)
    BY <1>1 DEF SafeGroupsAreSmall, Plain
  <2>1. meta[g].safe =>
          /\ Cardinality(Of(live, g)) <= MaxRows
          /\ \A c \in Of(live, g) : Plain(c)
    BY <1>1 DEF Inv, SafeGroupsAreSmall
  <2>2. CASE g \notin T
    BY <1>2, <2>1, <2>2, Untouched
  <2>3. CASE g \in T
    <3>1. /\ result[g].n = Cardinality(Of(live, g))
          /\ result[g].n + Cardinality(come) + Cardinality(gone) <= MaxRows
      BY <1>1, <1>4, <2>3 DEF Inv, RowCounts
    <3>2. Cardinality(Of(come, g)) <= Cardinality(come)
      <4>1. come \subseteq Copies /\ Of(come, g) \subseteq come
        BY DEF Of
      <4> QED BY <4>1, PartCounts
    <3>3. Cardinality(come) \in Nat /\ Cardinality(gone) \in Nat
      BY Countable DEF Inv
    <3>4. Cardinality(Of(After(come, gone), g)) <= MaxRows
      BY <1>3, <3>1, <3>2, <3>3, AggregateAssumption
    <3>5. \A c \in Of(After(come, gone), g) : c \in Of(live, g) \/ c \in come
      BY <1>3 DEF Of
    <3> QED BY <1>4, <2>1, <2>3, <3>4, <3>5
  <2> QED BY <2>2, <2>3
<1>9. NonNullCounts'
  <2> SUFFICES ASSUME NEW g \in Groups, meta'[g].safe
               PROVE meta'[g].nn = Cardinality(NonNull(Of(After(come, gone), g)))
    BY <1>1 DEF NonNullCounts, NonNull
  <2>1. meta[g].safe => meta[g].nn = Cardinality(NonNull(Of(live, g)))
    BY <1>1 DEF Inv, NonNullCounts
  <2>2. CASE g \notin T
    BY <1>2, <2>1, <2>2, Untouched
  <2>3. CASE g \in T
    <3>1. meta'[g].nn = meta[g].nn + Cardinality(NonNull(Of(come, g)))
                          - Cardinality(NonNull(Of(gone, g)))
      BY <1>5, <2>3
    <3>2. meta[g].nn = Cardinality(NonNull(Of(live, g)))
      BY <1>4, <2>1, <2>3
    <3> QED BY <1>3, <3>1, <3>2
  <2> QED BY <2>2, <2>3
<1>10. live' \subseteq Copies
  BY <1>1 DEF Inv, After
<1> QED BY <1>1, <1>6, <1>7, <1>8, <1>9, <1>10 DEF Inv

\* A batch that is recomputed unmarks the groups it touches (1e_program.rs: invalidate).
LEMMA RecomputeKeepsInv ==
  ASSUME Inv,
         NEW come, come \subseteq Copies \ live,
         NEW gone, gone \subseteq live \cup come,
         Recompute(come, gone)
  PROVE Inv'
<1> DEFINE T == Touched(come \cup gone)
<1>1. /\ keyed' = keyed /\ live' = After(come, gone) /\ created /\ created'
      /\ Groups' = Groups /\ \A g : Of(live, g)' = Of(After(come, gone), g)
  BY DEF Recompute, Groups, Of, GroupOf, After
<1>2. /\ \A g \in Groups :
           /\ meta[g] \in [safe : BOOLEAN, nn : Int]
           /\ g \notin T => meta'[g] = meta[g] /\ result'[g] = result[g]
           /\ g \in T => /\ meta'[g] = [safe |-> FALSE, nn |-> meta[g].nn]
                         /\ result'[g] = Aggregated(Of(After(come, gone), g))
      /\ meta' = [g \in Groups |-> meta'[g]]
  <2>1. /\ meta' = [g \in Groups |-> IF g \in T THEN Invalidate(g) ELSE meta[g]]
        /\ result' = [g \in Groups |->
                        IF g \in T THEN Aggregated(Of(live', g)) ELSE result[g]]
    BY DEF Recompute
  <2>2. ASSUME NEW g \in Groups
        PROVE /\ meta[g] \in [safe : BOOLEAN, nn : Int]
              /\ Invalidate(g) = [safe |-> FALSE, nn |-> meta[g].nn]
    BY DEF Inv, MetaOK, Invalidate
  <2> QED BY <1>1, <2>1, <2>2
<1>3. \A g : g \notin T => Of(After(come, gone), g) = Of(live, g)
  BY Untouched
<1>4. ASSUME NEW g \in Groups, g \in T
      PROVE /\ meta'[g] \in [safe : BOOLEAN, nn : Int]
            /\ meta'[g].safe = FALSE
            /\ result'[g].shown = (keyed => Of(After(come, gone), g) # {})
            /\ result'[g].n = Cardinality(Of(After(come, gone), g))
  <2>1. meta[g].nn \in Int
    BY <1>2
  <2>2. meta'[g] = [safe |-> FALSE, nn |-> meta[g].nn]
    BY <1>2, <1>4
  <2>3. result'[g] = Aggregated(Of(After(come, gone), g))
    BY <1>2, <1>4
  <2> QED BY <2>1, <2>2, <2>3 DEF Aggregated
<1>5. MetaOK'
  BY <1>1, <1>2, <1>4 DEF MetaOK
<1>6. RowCounts'
  <2> SUFFICES ASSUME NEW g \in Groups
               PROVE /\ result'[g].shown = (keyed => Of(After(come, gone), g) # {})
                     /\ result'[g].n = Cardinality(Of(After(come, gone), g))
    BY <1>1 DEF RowCounts
  <2>1. CASE g \notin T
    BY <1>1, <1>2, <1>3, <2>1 DEF Inv, RowCounts
  <2>2. CASE g \in T
    BY <1>4, <2>2
  <2> QED BY <2>1, <2>2
<1>7. SafeGroupsAreSmall'
  <2> SUFFICES ASSUME NEW g \in Groups, meta'[g].safe
               PROVE /\ Cardinality(Of(After(come, gone), g)) <= MaxRows
                     /\ \A c \in Of(After(come, gone), g) : Plain(c)
    BY <1>1 DEF SafeGroupsAreSmall, Plain
  <2>1. g \notin T
    BY <1>4
  <2>2. meta[g].safe /\ Of(After(come, gone), g) = Of(live, g)
    BY <1>2, <1>3, <2>1
  <2> QED BY <1>1, <2>2 DEF Inv, SafeGroupsAreSmall
<1>8. NonNullCounts'
  <2> SUFFICES ASSUME NEW g \in Groups, meta'[g].safe
               PROVE meta'[g].nn = Cardinality(NonNull(Of(After(come, gone), g)))
    BY <1>1 DEF NonNullCounts, NonNull
  <2>1. g \notin T
    BY <1>4
  <2>2. meta'[g] = meta[g] /\ Of(After(come, gone), g) = Of(live, g)
    BY <1>2, <1>3, <2>1
  <2>3. meta[g].nn = Cardinality(NonNull(Of(live, g)))
    BY <1>1, <2>2 DEF Inv, NonNullCounts
  <2> QED BY <2>2, <2>3
<1>9. live' \subseteq Copies
  BY <1>1 DEF Inv, After
<1> QED BY <1>1, <1>5, <1>6, <1>7, <1>8, <1>9 DEF Inv

-----------------------------------------------------------------------------
\* Creation, every drain on either path, and stuttering keep Inv.
THEOREM Invariance == Spec => []Inv
<1>1. Init => Inv
  BY DEF Init, Inv, MetaOK, RowCounts, SafeGroupsAreSmall, NonNullCounts, NoEntry
<1>2. Inv /\ [Next]_vars => Inv'
  <2> SUFFICES ASSUME Inv, [Next]_vars PROVE Inv'
    OBVIOUS
  <2>1. CASE Populate
    BY <2>1, PopulateKeepsInv
  <2>2. ASSUME NEW come \in SUBSET (Copies \ live), NEW gone \in SUBSET (live \cup come),
               AddDelta(come, gone)
        PROVE Inv'
    BY <2>2, AddDeltaKeepsInv
  <2>3. ASSUME NEW come \in SUBSET (Copies \ live), NEW gone \in SUBSET (live \cup come),
               Recompute(come, gone)
        PROVE Inv'
    BY <2>3, RecomputeKeepsInv
  <2>4. CASE UNCHANGED vars
    <3>1. /\ keyed' = keyed /\ created' = created /\ live' = live
          /\ meta' = meta /\ result' = result
          /\ Groups' = Groups /\ \A g : Of(live, g)' = Of(live, g)
      BY <2>4 DEF vars, Groups, Of, GroupOf
    <3>2. MetaOK'
      BY <3>1 DEF Inv, MetaOK
    <3>3. RowCounts'
      BY <3>1 DEF Inv, RowCounts
    <3>4. SafeGroupsAreSmall'
      BY <3>1 DEF Inv, SafeGroupsAreSmall, Plain
    <3>5. NonNullCounts'
      BY <3>1 DEF Inv, NonNullCounts, NonNull
    <3> QED BY <3>1, <3>2, <3>3, <3>4, <3>5 DEF Inv
  <2> QED BY <2>1, <2>2, <2>3, <2>4 DEF Next
<1> QED BY <1>1, <1>2, PTL DEF Spec

\* The engine adds to a group only what small integers and NULLs can make up
\* (aggregate_delta_statements: eligible, invalidate; populate).
THEOREM SafeGroups == Spec => []SafeGroupsAreSmall
<1>1. Inv => SafeGroupsAreSmall
  BY DEF Inv
<1> QED BY <1>1, Invariance, PTL

\* The non-null counts kept by adding deltas are those of the rows
\* (aggregate_delta_statements: update_counts).
THEOREM Counts == Spec => []NonNullCounts
<1>1. Inv => NonNullCounts
  BY DEF Inv
<1> QED BY <1>1, Invariance, PTL

\* On either path a group's row is there, and counts its rows, exactly when and
\* as the query would (aggregate_delta_statements: apply, its WHERE new_count > 0).
THEOREM Rows == Spec => []RowCounts
<1>1. Inv => RowCounts
  BY DEF Inv
<1> QED BY <1>1, Invariance, PTL

-----------------------------------------------------------------------------
(* Sums.                                                                   *)

\* What a part of a batch adds is an integer, 0 when no value is in it.
LEMMA TotalOf ==
  ASSUME NEW S, S \subseteq Copies
  PROVE  Total(S) \in Int /\ (NonNull(S) = {} => Total(S) = 0)
<1>1. IsFiniteSet(NonNull(S)) /\ \A c \in NonNull(S) : Amount[c] \in Int
  BY Countable, AggregateAssumption DEF NonNull, Amount
<1> QED BY <1>1, SumIsInteger, SumOfNone DEF Total

\* The sum after a batch is the sum before it, with what came and without what went.
LEMMA TotalAfterBatch ==
  ASSUME NEW S, S \subseteq Copies,
         NEW C, C \subseteq Copies \ S,
         NEW G, G \subseteq S \cup C
  PROVE  Total((S \cup C) \ G) = Total(S) + (Total(C) - Total(G))
<1> DEFINE s == NonNull(S)
           c == NonNull(C)
           g == NonNull(G)
           a == NonNull((S \cup C) \ G)
<1>1. /\ s \cap c = {} /\ a \cap g = {} /\ s \cup c = a \cup g
      /\ s \subseteq Copies /\ c \subseteq Copies /\ g \subseteq Copies /\ a \subseteq Copies
  BY DEF NonNull
<1>2. /\ IsFiniteSet(s) /\ IsFiniteSet(c) /\ IsFiniteSet(g) /\ IsFiniteSet(a)
      /\ \A x \in s \cup c \cup g \cup a : Amount[x] \in Int
  <2>1. \A x \in Copies : Amount[x] \in Int
    BY AggregateAssumption DEF Amount
  <2> HIDE DEF s, c, g, a
  <2> QED BY <1>1, <2>1, Countable
<1>3. /\ Total(S) = SumOf(Amount, s) /\ Total(C) = SumOf(Amount, c)
      /\ Total(G) = SumOf(Amount, g) /\ Total((S \cup C) \ G) = SumOf(Amount, a)
  BY DEF Total
<1> HIDE DEF s, c, g, a
<1>4. SumOf(Amount, s \cup c) = SumOf(Amount, s) + SumOf(Amount, c)
  BY <1>1, <1>2, SumOfUnion
<1>5. SumOf(Amount, a \cup g) = SumOf(Amount, a) + SumOf(Amount, g)
  BY <1>1, <1>2, SumOfUnion
<1>6. /\ SumOf(Amount, s) \in Int /\ SumOf(Amount, c) \in Int
      /\ SumOf(Amount, g) \in Int /\ SumOf(Amount, a) \in Int
  BY <1>2, SumIsInteger
<1> DEFINE ss == SumOf(Amount, s)
           sc == SumOf(Amount, c)
           sg == SumOf(Amount, g)
           sa == SumOf(Amount, a)
<1>7. ss + sc = sa + sg
  BY <1>1, <1>4, <1>5
<1>8. ss \in Int /\ sc \in Int /\ sg \in Int /\ sa \in Int
  BY <1>6
<1>9. Total(S) = ss /\ Total(C) = sc /\ Total(G) = sg /\ Total((S \cup C) \ G) = sa
  BY <1>3
<1> HIDE DEF ss, sc, sg, sa
<1>10. sa = ss + (sc - sg)
  BY <1>7, <1>8
<1> QED BY <1>9, <1>10

\* Sets of plain copies have no REAL among them.
LEMMA PlainIsNotReal ==
  ASSUME NEW S, \A c \in S : Plain(c)
  PROVE  AnyReal(S) = FALSE
BY DEF AnyReal, NonNull, Plain

\* A signed sum as the engine adds it: NULL counts as an integer 0.
LEMMA PlainSum ==
  ASSUME NEW come, come \subseteq Copies, NEW gone, gone \subseteq Copies,
         \A c \in come \cup gone : Plain(c)
  PROVE  OrZero(SignedSum(come, gone)) = [v |-> Total(come) - Total(gone), real |-> FALSE]
<1>1. Total(come) \in Int /\ Total(gone) \in Int
  BY TotalOf
<1>2. CASE NonNull(come \cup gone) = {}
  <2>1. NonNull(come) = {} /\ NonNull(gone) = {}
    BY <1>2 DEF NonNull
  <2>2. Total(come) = 0 /\ Total(gone) = 0
    BY <2>1, TotalOf
  <2> QED BY <1>2, <2>2 DEF OrZero, SignedSum
<1>3. CASE NonNull(come \cup gone) # {}
  <2> DEFINE n == Total(come) - Total(gone)
             sum == [v |-> n, real |-> FALSE]
  <2>1. n \in Int
    BY <1>1
  <2>2. SignedSum(come, gone) = sum
    BY <1>3, PlainIsNotReal DEF SignedSum
  <2> HIDE DEF n
  <2>3. sum \in [v : Int, real : BOOLEAN]
    BY <2>1
  <2>4. sum # Null
    BY <2>3, AggregateAssumption
  <2> QED BY <2>2, <2>4 DEF OrZero, n
<1> QED BY <1>2, <1>3

\* A group whose old and new values are plain is stored as the query computes it.
LEMMA AddedIsAggregate ==
  ASSUME NEW S, S \subseteq Copies,
         NEW C, C \subseteq Copies \ S,
         NEW G, G \subseteq S \cup C,
         \A c \in S \cup C : Plain(c)
  PROVE  LET A == (S \cup C) \ G
         IN  Aggregated(A).sum
               = IF Cardinality(NonNull(A)) = 0 THEN Null
                 ELSE Add(Aggregated(S).sum, SignedSum(C, G))
<1> DEFINE A == (S \cup C) \ G
<1>1. A \subseteq Copies /\ G \subseteq Copies /\ NonNull(A) \subseteq Copies
  BY DEF NonNull
<1>2. Aggregated(S).sum = SignedSum(S, {}) /\ Aggregated(A).sum = SignedSum(A, {})
  BY DEF Aggregated
<1>3. Cardinality(NonNull(A)) = 0 <=> NonNull(A) = {}
  BY <1>1, Countable
<1>4. CASE NonNull(A) = {}
  <2>1. A \cup {} = A
    OBVIOUS
  <2>2. SignedSum(A, {}) = Null
    BY <1>4, <2>1 DEF SignedSum
  <2> QED BY <1>2, <1>3, <1>4, <2>2
<1>5. CASE NonNull(A) # {}
  <2>1. A \cup {} = A /\ Total({}) = 0
    BY TotalOf DEF NonNull
  <2>2. Total(A) = Total(S) + (Total(C) - Total(G))
    BY TotalAfterBatch
  <2>3. /\ Total(A) \in Int /\ Total(S) \in Int /\ Total(C) \in Int /\ Total(G) \in Int
    <3> HIDE DEF A
    <3> QED BY <1>1, TotalOf
  <2>4. AnyReal(A) = FALSE
    BY PlainIsNotReal
  <2>5. SignedSum(A, {}) = [v |-> Total(A), real |-> FALSE]
    <3>1. SignedSum(A, {}) = [v |-> Total(A) - Total({}), real |-> AnyReal(A)]
      <4> HIDE DEF A
      <4> QED BY <1>5, <2>1 DEF SignedSum
    <3>2. Total(A) - Total({}) = Total(A)
      <4> HIDE DEF A
      <4> QED BY <2>1, <2>3
    <3> QED BY <3>1, <3>2, <2>4
  <2>6. OrZero(SignedSum(S, {})) = [v |-> Total(S), real |-> FALSE]
    <3>1. OrZero(SignedSum(S, {})) = [v |-> Total(S) - Total({}), real |-> FALSE]
      BY PlainSum
    <3> QED BY <2>1, <2>3, <3>1
  <2>7. OrZero(SignedSum(C, G)) = [v |-> Total(C) - Total(G), real |-> FALSE]
    BY <1>1, PlainSum
  <2>8. Add(SignedSum(S, {}), SignedSum(C, G)) = [v |-> Total(A), real |-> FALSE]
    <3> DEFINE t == SignedSum(S, {})
               u == SignedSum(C, G)
    <3>1. OrZero(t).v = Total(S) /\ OrZero(t).real = FALSE
      BY <2>6
    <3>2. OrZero(u).v = Total(C) - Total(G) /\ OrZero(u).real = FALSE
      BY <2>7
    <3>3. Add(t, u) = [v |-> OrZero(t).v + OrZero(u).v,
                       real |-> OrZero(t).real \/ OrZero(u).real]
      BY DEF Add
    <3>4. OrZero(t).v + OrZero(u).v = Total(A)
      BY <2>2, <3>1, <3>2
    <3>5. (OrZero(t).real \/ OrZero(u).real) = FALSE
      BY <3>1, <3>2
    <3> HIDE DEF t, u
    <3>6. Add(t, u) = [v |-> Total(A), real |-> FALSE]
      BY <3>3, <3>4, <3>5
    <3> QED BY <3>6 DEF t, u
  <2> HIDE DEF A
  <2>9. Aggregated(A).sum = Add(Aggregated(S).sum, SignedSum(C, G))
    BY <1>2, <2>5, <2>8
  <2> QED BY <1>3, <1>5, <2>9 DEF A
<1> QED BY <1>4, <1>5

-----------------------------------------------------------------------------
(* The stored rows.                                                        *)

\* A batch that is added leaves the rows the query computes (1e_program.rs: apply).
LEMMA AddDeltaStoresAggregate ==
  ASSUME Inv, ResultIsAggregate, Inv',
         NEW come, come \subseteq Copies \ live,
         NEW gone, gone \subseteq live \cup come,
         AddDelta(come, gone)
  PROVE  ResultIsAggregate'
<1> DEFINE T == Touched(come \cup gone)
<1>1. /\ keyed' = keyed /\ live' = After(come, gone) /\ created /\ created'
      /\ Groups' = Groups /\ \A g : Of(live, g)' = Of(After(come, gone), g)
      /\ \A S : Aggregated(S)' = Aggregated(S)
  BY DEF AddDelta, Groups, Of, GroupOf, After, Aggregated, SignedSum, NonNull, Total, AnyReal
<1>2. SUFFICES ASSUME NEW g \in Groups
               PROVE  result'[g] = Aggregated(Of(After(come, gone), g))
  BY <1>1 DEF ResultIsAggregate
<1>3. result[g] = Aggregated(Of(live, g))
  BY <1>1 DEF ResultIsAggregate
<1>4. CASE g \notin T
  <2>1. result'[g] = result[g]
    BY <1>4 DEF AddDelta
  <2> QED BY <1>3, <1>4, <2>1, Untouched
<1>5. CASE g \in T
  <2> DEFINE S == Of(live, g)
             C == Of(come, g)
             G == Of(gone, g)
             A == Of(After(come, gone), g)
  <2>1. /\ S \subseteq Copies /\ C \subseteq Copies \ S /\ G \subseteq S \cup C
        /\ A = (S \cup C) \ G /\ A \subseteq Copies
    BY DEF Inv, Of, After
  <2>2. \A c \in S \cup C : Plain(c)
    <3>1. meta[g].safe /\ \A c \in come \cup gone : Plain(c)
      BY <1>5 DEF AddDelta, Eligible
    <3>2. \A c \in S : Plain(c)
      BY <1>1, <3>1 DEF Inv, SafeGroupsAreSmall
    <3> QED BY <3>1, <3>2 DEF Of
  <2>3. Cardinality(A) = Cardinality(S) + Cardinality(C) - Cardinality(G)
    <3>1. ChangedBy(come, gone, g)
      BY GroupAfterBatch DEF Inv
    <3> QED BY <3>1 DEF ChangedBy
  <2>4. meta'[g].safe /\ meta'[g].nn = Cardinality(NonNull(A))
    <3>1. meta'[g].safe
      BY <1>5 DEF AddDelta, Eligible, UpdateCounts
    <3> QED BY <1>1, <3>1 DEF Inv, NonNullCounts, NonNull
  <2>5. result'[g] = Apply(come, gone, g, meta'[g].nn)
    BY <1>5 DEF AddDelta
  <2>6. Cardinality(A) \in Nat /\ (Cardinality(A) = 0 <=> A = {})
    <3> HIDE DEF A
    <3> QED BY <2>1, Countable
  <2>7. result[g].n + Cardinality(C) - Cardinality(G) = Cardinality(A)
    BY <1>3, <2>3 DEF Aggregated
  <2>8. result[g].sum = Aggregated(S).sum
    BY <1>3
  <2>9. Aggregated(A).sum
          = IF Cardinality(NonNull(A)) = 0 THEN Null
            ELSE Add(Aggregated(S).sum, SignedSum(C, G))
    <3> HIDE DEF S, C, G, A
    <3> QED BY <2>1, <2>2, AddedIsAggregate
  <2>10. CASE keyed /\ Cardinality(A) <= 0
    <3>1. A = {} /\ Cardinality(A) = 0
      BY <2>6, <2>10
    <3>2. result'[g] = NoRow
      BY <2>5, <2>7, <2>10 DEF Apply
    <3>3. NonNull({} \cup {}) = {}
      BY DEF NonNull
    <3> HIDE DEF A
    <3>4. Aggregated(A) = NoRow
      BY <2>10, <3>1, <3>3 DEF Aggregated, NoRow, SignedSum
    <3> QED BY <3>2, <3>4 DEF A
  <2>11. CASE ~(keyed /\ Cardinality(A) <= 0)
    <3>1. result'[g] = [shown |-> TRUE, n |-> Cardinality(A),
                        sum |-> Added(g, meta'[g].nn, SignedSum(C, G))]
      BY <2>5, <2>7, <2>11 DEF Apply
    <3>2. Added(g, meta'[g].nn, SignedSum(C, G)) = Aggregated(A).sum
      BY <2>4, <2>8, <2>9 DEF Added
    <3>3. (keyed => A # {}) = TRUE
      BY <2>6, <2>11
    <3>4. Aggregated(A) = [shown |-> TRUE, n |-> Cardinality(A), sum |-> Aggregated(A).sum]
      <4> HIDE DEF A
      <4> QED BY <3>3 DEF Aggregated
    <3> QED BY <3>1, <3>2, <3>4
  <2> QED BY <2>10, <2>11
<1> QED BY <1>4, <1>5

\* Whichever path the drains took, a group's stored row is the one the query computes
\* over its rows (aggregate_delta_statements: apply; materialize of the recomputed).
THEOREM Aggregates == Spec => []ResultIsAggregate
<1>1. Init => ResultIsAggregate
  BY DEF Init, ResultIsAggregate
<1>2. Inv /\ Inv' /\ ResultIsAggregate /\ [Next]_vars => ResultIsAggregate'
  <2> SUFFICES ASSUME Inv, Inv', ResultIsAggregate, [Next]_vars PROVE ResultIsAggregate'
    OBVIOUS
  <2>1. CASE Populate
    BY <2>1 DEF Populate, ResultIsAggregate, Groups, Of, GroupOf, Aggregated, SignedSum,
                NonNull, Total, AnyReal
  <2>2. ASSUME NEW come \in SUBSET (Copies \ live), NEW gone \in SUBSET (live \cup come),
               AddDelta(come, gone)
        PROVE ResultIsAggregate'
    BY <2>2, AddDeltaStoresAggregate
  <2>3. ASSUME NEW come \in SUBSET (Copies \ live), NEW gone \in SUBSET (live \cup come),
               Recompute(come, gone)
        PROVE ResultIsAggregate'
    <3>1. /\ keyed' = keyed /\ live' = After(come, gone) /\ created /\ created'
          /\ Groups' = Groups /\ \A g : Of(live, g)' = Of(After(come, gone), g)
          /\ \A S : Aggregated(S)' = Aggregated(S)
      BY <2>3 DEF Recompute, Groups, Of, GroupOf, After, Aggregated, SignedSum, NonNull,
                  Total, AnyReal
    <3>2. \A g \in Groups :
            result'[g] = IF g \in Touched(come \cup gone) THEN Aggregated(Of(live', g)) ELSE result[g]
      BY <2>3 DEF Recompute
    <3>3. \A g \in Groups : result[g] = Aggregated(Of(live, g))
      BY <3>1 DEF ResultIsAggregate
    <3>4. \A g : g \notin Touched(come \cup gone) => Of(After(come, gone), g) = Of(live, g)
      BY Untouched
    <3> QED BY <3>1, <3>2, <3>3, <3>4 DEF ResultIsAggregate
  <2>4. CASE UNCHANGED vars
    <3>1. /\ created' = created /\ live' = live /\ result' = result
          /\ Groups' = Groups /\ \A g : Of(live, g)' = Of(live, g)
          /\ \A S : Aggregated(S)' = Aggregated(S)
      BY <2>4 DEF vars, Groups, Of, GroupOf, Aggregated, SignedSum, NonNull, Total, AnyReal
    <3> QED BY <3>1 DEF ResultIsAggregate
  <2> QED BY <2>1, <2>2, <2>3, <2>4 DEF Next
<1> QED BY <1>1, <1>2, Invariance, PTL DEF Spec
=============================================================================
