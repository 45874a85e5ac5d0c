------------------------- MODULE SetMembershipProofs -------------------------
(***************************************************************************)
(* Support counts and representatives, for every set of copies, rows and   *)
(* keys.                                                                   *)
(***************************************************************************)
EXTENDS SetMembership, FiniteSetTheorems, TLAPS

\* What the proofs carry from step to step.
Inv ==
  /\ TypeOK
  /\ CountsAreSupport
  /\ RepresentativeIsLive
  /\ ResultIsTheSet
  /\ NeverRefused

Entries == [n : Int, left : Int, right : Int, row : Rows \cup {NoRow}]

\* The entry e is right for the copies S of its key.
Supports(e, S) ==
  /\ e \in Entries
  /\ e.left = Cardinality(On(S, 0))
  /\ e.right = Cardinality(On(S, 1))
  /\ e.n = Cardinality(S)
  /\ e.row = NoRow <=> S = {}
  /\ S # {} => e.row \in RowsOf(LeftFirst(S))

\* What the update statement may rank first for each touched key.
Rankings(come, gone) ==
  {ranked \in [KeysOf(come \cup gone) -> Rows] :
     \A k \in KeysOf(come \cup gone) : ranked[k] \in Ranked(come, gone, k)}

\* The inputs once a drain has run.
After(come, gone) == (live \cup come) \ gone

-----------------------------------------------------------------------------
(* Counting copies.                                                        *)

\* Sets of copies are finite, and the empty one is the one that counts 0.
LEMMA Countable ==
  ASSUME NEW S, S \subseteq Copies
  PROVE /\ IsFiniteSet(S)
        /\ Cardinality(S) \in Nat
        /\ Cardinality(S) = 0 <=> S = {}
<1>1. IsFiniteSet(S)
  BY CopiesAssumption, FS_Subset
<1> QED BY <1>1, FS_CardinalityType, FS_EmptySet

\* A set that counts more than 0 has a copy.
LEMMA Counted ==
  ASSUME NEW S, NEW n, n = Cardinality(S), n > 0
  PROVE S # {}
<1> SUFFICES ASSUME S = {} PROVE FALSE
  OBVIOUS
<1>1. Cardinality(S) = 0
  BY FS_EmptySet
<1> QED BY <1>1

\* A copy is on one side: the counts of the two sides add up.
LEMMA SidesAddUp ==
  ASSUME NEW S, S \subseteq Copies
  PROVE Cardinality(S) = Cardinality(On(S, 0)) + Cardinality(On(S, 1))
<1>1. /\ On(S, 0) \subseteq Copies /\ On(S, 1) \subseteq Copies
      /\ S = On(S, 0) \cup On(S, 1)
      /\ On(S, 0) \cap On(S, 1) = {}
  BY CopiesAssumption DEF On
<1>2. Cardinality(S) = Cardinality(On(S, 0)) + Cardinality(On(S, 1)) - Cardinality({})
  BY <1>1, FS_Union, Countable
<1> QED BY <1>1, <1>2, Countable, FS_EmptySet

\* A batch adds copies that were not there and takes copies that are.
LEMMA BatchCount ==
  ASSUME NEW S, NEW C, NEW G,
         S \subseteq Copies, C \subseteq Copies \ S, G \subseteq S \cup C
  PROVE Cardinality((S \cup C) \ G) = Cardinality(S) + Cardinality(C) - Cardinality(G)
<1>1. S \cap C = {} /\ (S \cup C) \cap G = G
  OBVIOUS
<1>2. /\ IsFiniteSet(S) /\ IsFiniteSet(C) /\ IsFiniteSet(G) /\ IsFiniteSet(S \cup C)
      /\ Cardinality(S) \in Nat /\ Cardinality(C) \in Nat /\ Cardinality(G) \in Nat
      /\ Cardinality(S \cup C) \in Nat
  <2>1. C \subseteq Copies /\ G \subseteq Copies /\ S \cup C \subseteq Copies
    OBVIOUS
  <2> QED BY <2>1, Countable
<1>3. Cardinality(S \cup C) = Cardinality(S) + Cardinality(C) - Cardinality({})
  BY <1>1, <1>2, FS_Union
<1>4. Cardinality((S \cup C) \ G) = Cardinality(S \cup C) - Cardinality(G)
  BY <1>1, <1>2, FS_Difference
<1> QED BY <1>2, <1>3, <1>4, FS_EmptySet

-----------------------------------------------------------------------------
(* A drain's inputs, restricted to one key and one side.                   *)

\* A key's copies after the batch, and each side's, are its copies before it
\* changed by its part of the batch.
LEMMA AfterBatch ==
  ASSUME TypeOK,
         NEW come, come \subseteq Copies \ live,
         NEW gone, gone \subseteq live \cup come,
         NEW k, NEW s
  PROVE /\ After(come, gone) \subseteq Copies
        /\ Of(After(come, gone), k) \subseteq Copies
        /\ Of(live, k) \subseteq Copies
        /\ Of(After(come, gone), k) = (Of(live, k) \cup Of(come, k)) \ Of(gone, k)
        /\ On(Of(After(come, gone), k), s)
             = (On(Of(live, k), s) \cup On(Of(come, k), s)) \ On(Of(gone, k), s)
  BY DEF TypeOK, After, Of, On

\* The update statement's counts are the support after the batch.
LEMMA CountsAfterBatch ==
  ASSUME Inv, created,
         NEW come, come \subseteq Copies \ live,
         NEW gone, gone \subseteq live \cup come,
         NEW k \in Keys
  PROVE /\ \A s \in {0, 1} :
             /\ ChangeOn(come, gone, k, s) \in Int
             /\ Cardinality(On(Of(After(come, gone), k), s))
                  = Cardinality(On(Of(live, k), s)) + ChangeOn(come, gone, k, s)
        /\ Change(come, gone, k) \in Int
        /\ Cardinality(Of(After(come, gone), k))
             = Cardinality(Of(live, k)) + Change(come, gone, k)
<1>0. TypeOK
  BY DEF Inv
<1>1. /\ Of(live, k) \subseteq Copies
      /\ Of(come, k) \subseteq Copies \ Of(live, k)
      /\ Of(gone, k) \subseteq Of(live, k) \cup Of(come, k)
  BY <1>0 DEF TypeOK, Of
<1>2. ASSUME NEW s \in {0, 1}
      PROVE /\ On(Of(live, k), s) \subseteq Copies
            /\ On(Of(come, k), s) \subseteq Copies \ On(Of(live, k), s)
            /\ On(Of(gone, k), s) \subseteq On(Of(live, k), s) \cup On(Of(come, k), s)
  BY <1>1 DEF On
<1>3. ASSUME NEW s \in {0, 1}
      PROVE /\ ChangeOn(come, gone, k, s) \in Int
            /\ Cardinality(On(Of(After(come, gone), k), s))
                 = Cardinality(On(Of(live, k), s)) + ChangeOn(come, gone, k, s)
  <2> DEFINE L == On(Of(live, k), s)
             C == On(Of(come, k), s)
             G == On(Of(gone, k), s)
  <2>1. /\ L \subseteq Copies /\ C \subseteq Copies /\ G \subseteq Copies
        /\ C \subseteq Copies \ L /\ G \subseteq L \cup C
    BY <1>2
  <2>2. Cardinality(L) \in Nat /\ Cardinality(C) \in Nat /\ Cardinality(G) \in Nat
    BY <2>1, Countable
  <2>3. Cardinality((L \cup C) \ G) = Cardinality(L) + Cardinality(C) - Cardinality(G)
    BY <2>1, BatchCount
  <2>4. On(Of(After(come, gone), k), s) = (L \cup C) \ G
    BY DEF After, Of, On
  <2>5. ChangeOn(come, gone, k, s) = Cardinality(C) - Cardinality(G)
    BY DEF ChangeOn
  <2> QED BY <2>2, <2>3, <2>4, <2>5
<1>4. /\ Change(come, gone, k) \in Int
      /\ Cardinality(Of(After(come, gone), k))
           = Cardinality(Of(live, k)) + Change(come, gone, k)
  <2> DEFINE L == Of(live, k)
             C == Of(come, k)
             G == Of(gone, k)
  <2>1. /\ L \subseteq Copies /\ C \subseteq Copies /\ G \subseteq Copies
        /\ C \subseteq Copies \ L /\ G \subseteq L \cup C
    BY <1>1
  <2>2. Cardinality(L) \in Nat /\ Cardinality(C) \in Nat /\ Cardinality(G) \in Nat
    BY <2>1, Countable
  <2>3. Cardinality((L \cup C) \ G) = Cardinality(L) + Cardinality(C) - Cardinality(G)
    BY <2>1, BatchCount
  <2>4. Of(After(come, gone), k) = (L \cup C) \ G
    BY <1>0, AfterBatch
  <2>5. Change(come, gone, k) = Cardinality(C) - Cardinality(G)
    BY DEF Change
  <2> QED BY <2>2, <2>3, <2>4, <2>5
<1> QED BY <1>3, <1>4

-----------------------------------------------------------------------------
(* The rows a drain leaves.                                                *)

\* The update statement before anything is replaced or removed: typed entries
\* whose counts are the support of their keys, and the checks accept them.
LEMMA UpdatedIsSupport ==
  ASSUME Inv, created,
         NEW come, come \subseteq Copies \ live,
         NEW gone, gone \subseteq live \cup come,
         NEW ranked \in [KeysOf(come \cup gone) -> Rows],
         NEW new, new = Updated(come, gone, ranked),
         NEW k \in Keys
  PROVE /\ new[k].left = Cardinality(On(Of(After(come, gone), k), 0))
        /\ new[k].right = Cardinality(On(Of(After(come, gone), k), 1))
        /\ new[k].n = Cardinality(Of(After(come, gone), k))
        /\ new[k] \in [n : Int, left : Int, right : Int, row : Rows \cup {NoRow}]
        /\ ~Bad(new[k])
<1> DEFINE S == Of(After(come, gone), k)
           K == KeysOf(come \cup gone)
<1>1. TypeOK /\ CountsAreSupport
  BY DEF Inv
<1>2. S \subseteq Copies /\ On(S, 0) \subseteq Copies /\ On(S, 1) \subseteq Copies
  BY <1>1 DEF TypeOK, After, Of, On
<1>3. /\ Cardinality(S) \in Nat /\ Cardinality(On(S, 0)) \in Nat /\ Cardinality(On(S, 1)) \in Nat
      /\ Cardinality(S) = Cardinality(On(S, 0)) + Cardinality(On(S, 1))
  BY <1>2, Countable, SidesAddUp
<1>4. /\ state[k].left = Cardinality(On(Of(live, k), 0))
      /\ state[k].right = Cardinality(On(Of(live, k), 1))
      /\ state[k].n = Cardinality(Of(live, k))
      /\ state[k] \in [n : Int, left : Int, right : Int, row : Rows \cup {NoRow}]
  BY <1>1 DEF CountsAreSupport, TypeOK
<1>5. /\ new[k].left = Cardinality(On(S, 0))
      /\ new[k].right = Cardinality(On(S, 1))
      /\ new[k].n = Cardinality(S)
      /\ new[k] \in [n : Int, left : Int, right : Int, row : Rows \cup {NoRow}]
  <2>1. CASE k \in K
    <3>1. new[k] = [n |-> state[k].n + Change(come, gone, k),
                    left |-> state[k].left + ChangeOn(come, gone, k, 0),
                    right |-> state[k].right + ChangeOn(come, gone, k, 1),
                    row |-> IF TakesOver(k, ChangeOn(come, gone, k, 0)) THEN ranked[k]
                            ELSE state[k].row]
      BY <2>1 DEF Updated
    <3>2. /\ Cardinality(On(S, 0)) = state[k].left + ChangeOn(come, gone, k, 0)
          /\ Cardinality(On(S, 1)) = state[k].right + ChangeOn(come, gone, k, 1)
          /\ Cardinality(S) = state[k].n + Change(come, gone, k)
      BY <1>4, CountsAfterBatch
    <3>3. ranked[k] \in Rows /\ state[k].row \in Rows \cup {NoRow}
      BY <1>4, <2>1
    <3> QED BY <1>3, <3>1, <3>2, <3>3
  <2>2. CASE k \notin K
    <3>1. new[k] = state[k]
      BY <2>2 DEF Updated
    <3>2. S = Of(live, k)
      BY <2>2 DEF After, Of, KeysOf
    <3> QED BY <1>4, <3>1, <3>2
  <2> QED BY <2>1, <2>2
<1>6. ~Bad(new[k])
  BY <1>3, <1>5 DEF Bad
<1> QED BY <1>5, <1>6

\* A row that wins for a key, by taking over or by staying, is held by an
\* input unless the batch removed a copy of it.
LEMMA UpdatedRowIsLive ==
  ASSUME Inv, created,
         NEW come, come \subseteq Copies \ live,
         NEW gone, gone \subseteq live \cup come,
         NEW ranked \in [KeysOf(come \cup gone) -> Rows],
         \A j \in KeysOf(come \cup gone) : ranked[j] \in Ranked(come, gone, j),
         NEW k \in KeysOf(come \cup gone), k \in Keys,
         Of(After(come, gone), k) # {},
         \A c \in gone : Row[c] # Updated(come, gone, ranked)[k].row
  PROVE Updated(come, gone, ranked)[k].row \in RowsOf(LeftFirst(Of(After(come, gone), k)))
<1> DEFINE S == Of(After(come, gone), k)
           r == Updated(come, gone, ranked)[k].row
           leftChange == ChangeOn(come, gone, k, 0)
<1>1. TypeOK /\ CountsAreSupport /\ RepresentativeIsLive
  BY DEF Inv
<1>2. r = IF TakesOver(k, leftChange) THEN ranked[k] ELSE state[k].row
  BY DEF Updated
<1>3. /\ state[k].left = Cardinality(On(Of(live, k), 0))
      /\ state[k].row = NoRow <=> Of(live, k) = {}
  BY <1>1 DEF CountsAreSupport
<1>4. /\ Cardinality(On(S, 0)) = state[k].left + leftChange
      /\ leftChange \in Int
  BY <1>3, CountsAfterBatch
<1>5. /\ Cardinality(On(Of(live, k), 0)) \in Nat
      /\ Cardinality(On(Of(live, k), 0)) = 0 <=> On(Of(live, k), 0) = {}
      /\ Cardinality(On(S, 0)) \in Nat
      /\ Cardinality(On(S, 0)) = 0 <=> On(S, 0) = {}
  <2>1. On(Of(live, k), 0) \subseteq Copies /\ On(S, 0) \subseteq Copies
    BY <1>1 DEF TypeOK, After, Of, On
  <2> QED BY <2>1, Countable
<1>6. S \subseteq Copies
  BY <1>1 DEF TypeOK, After, Of
\* It is enough to find a copy of r that stays, on the left if anything is.
<1>7. SUFFICES \E c \in S : Row[c] = r /\ (Side[c] = 0 \/ On(S, 0) = {})
  BY DEF RowsOf, LeftFirst, On
<1>8. CASE TakesOver(k, leftChange)
  <2>1. Of(come, k) # {}
    <3>1. CASE state[k].row = NoRow
      BY <1>3, <3>1 DEF After, Of
    <3>2. CASE leftChange > 0
      <4>1. SUFFICES ASSUME Of(come, k) = {} PROVE FALSE
        OBVIOUS
      <4>2. On(Of(come, k), 0) = {} /\ On(Of(gone, k), 0) \subseteq Copies
        BY <1>1, <4>1 DEF On, TypeOK, Of
      <4>3. Cardinality(On(Of(come, k), 0)) = 0 /\ Cardinality(On(Of(gone, k), 0)) \in Nat
        BY <4>2, Countable, FS_EmptySet
      <4> QED BY <3>2, <4>3 DEF ChangeOn
    <3> QED BY <1>8, <3>1, <3>2 DEF TakesOver
  <2>2. r \in RowsOf(LeftFirst(Of(come, k)))
    BY <1>2, <1>8, <2>1 DEF Ranked
  <2>3. PICK c \in LeftFirst(Of(come, k)) : Row[c] = r
    BY <2>2 DEF RowsOf
  <2>4. c \in Of(come, k) /\ c \in S
    BY <2>3 DEF LeftFirst, On, After, Of
  <2>5. CASE Side[c] = 0
    BY <2>3, <2>4, <2>5
  <2>6. CASE Side[c] # 0
    <3>1. On(Of(come, k), 0) = {}
      BY <2>3, <2>6 DEF LeftFirst, On
    <3>2. ~(leftChange > 0)
      <4>1. On(Of(gone, k), 0) \subseteq Copies
        BY <1>1 DEF On, TypeOK, Of
      <4>2. Cardinality(On(Of(come, k), 0)) = 0 /\ Cardinality(On(Of(gone, k), 0)) \in Nat
        BY <3>1, <4>1, Countable, FS_EmptySet
      <4> QED BY <4>2 DEF ChangeOn
    <3>3. Of(live, k) = {}
      BY <1>3, <1>8, <3>2 DEF TakesOver
    <3>4. On(S, 0) = {}
      BY <3>1, <3>3 DEF On, After, Of
    <3> QED BY <2>3, <2>4, <3>4
  <2> QED BY <2>5, <2>6
<1>9. CASE ~TakesOver(k, leftChange)
  <2>1. r = state[k].row /\ Of(live, k) # {}
    BY <1>2, <1>3, <1>9 DEF TakesOver
  <2>2. r \in RowsOf(LeftFirst(Of(live, k)))
    BY <1>1, <2>1 DEF RepresentativeIsLive
  <2>3. PICK c \in LeftFirst(Of(live, k)) : Row[c] = r
    BY <2>2 DEF RowsOf
  <2>4. c \in Of(live, k) /\ c \in S
    BY <2>3 DEF LeftFirst, On, After, Of
  <2>5. CASE Side[c] = 0
    BY <2>3, <2>4, <2>5
  <2>6. CASE Side[c] # 0
    <3>1. On(Of(live, k), 0) = {}
      BY <2>3, <2>6 DEF LeftFirst, On
    <3>2. state[k].left = 0
      BY <1>3, <1>5, <3>1
    <3>3. ~(leftChange > 0)
      BY <1>9, <3>2 DEF TakesOver
    <3>4. Cardinality(On(S, 0)) = 0
      BY <1>4, <1>5, <3>2, <3>3
    <3> QED BY <1>5, <2>3, <2>4, <3>4
  <2> QED BY <2>5, <2>6
<1> QED BY <1>8, <1>9

\* The entries a drain stores: the support of every key, a live row for the
\* keys that have any, nothing for the others, nothing new for untouched keys.
LEMMA StoredEntries ==
  ASSUME Inv, created,
         NEW come, come \subseteq Copies \ live,
         NEW gone, gone \subseteq live \cup come,
         NEW ranked \in Rankings(come, gone),
         NEW final \in
           Replacements(Updated(come, gone, ranked), KeysOf(come \cup gone), come, gone),
         NEW k \in Keys
  PROVE /\ Supports(RemoveEmpty(final)[k], Of(After(come, gone), k))
        /\ k \notin KeysOf(come \cup gone) =>
             /\ RemoveEmpty(final)[k].n = state[k].n
             /\ RemoveEmpty(final)[k].row = state[k].row
<1> DEFINE K == KeysOf(come \cup gone)
           new == Updated(come, gone, ranked)
           S == Of(After(come, gone), k)
           e == RemoveEmpty(final)[k]
<1>0. /\ ranked \in [K -> Rows]
      /\ \A j \in K : ranked[j] \in Ranked(come, gone, j)
  BY DEF Rankings
<1>1. TypeOK /\ CountsAreSupport /\ RepresentativeIsLive
  BY DEF Inv
<1>2. /\ new[k].left = Cardinality(On(S, 0))
      /\ new[k].right = Cardinality(On(S, 1))
      /\ new[k].n = Cardinality(S)
      /\ new[k] \in [n : Int, left : Int, right : Int, row : Rows \cup {NoRow}]
  BY <1>0, UpdatedIsSupport
<1>3. /\ S \subseteq Copies /\ Cardinality(S) \in Nat
      /\ Cardinality(S) = 0 <=> S = {}
  <2>1. S \subseteq Copies
    BY <1>1 DEF TypeOK, After, Of
  <2> QED BY <2>1, Countable
<1>4. S # {} => RowsOf(LeftFirst(S)) \subseteq Rows
  BY <1>3 DEF RowsOf, LeftFirst, On, Rows
<1>5. k \notin K => new[k] = state[k] /\ S = Of(live, k)
  BY DEF Updated, After, Of, KeysOf
\* The counts are those of the update; the row is a live one.
<1>6. /\ final[k].left = new[k].left /\ final[k].right = new[k].right /\ final[k].n = new[k].n
      /\ k \notin K => final[k].row = state[k].row
      /\ S # {} => final[k].row \in RowsOf(LeftFirst(S))
      /\ final[k] \in [n : Int, left : Int, right : Int, row : Rows \cup {NoRow}]
  <2>1. CASE k \notin K
    <3>1. final[k] = new[k]
      BY <2>1 DEF Replacements, Replaced
    <3>2. S # {} => state[k].row \in RowsOf(LeftFirst(S))
      BY <1>1, <1>5, <2>1 DEF RepresentativeIsLive
    <3> QED BY <1>2, <1>5, <2>1, <3>1, <3>2
  <2>2. CASE k \in K /\ ~RepresentativeRemoved(new, gone)
    <3>1. final[k] = new[k]
      BY <2>2 DEF Replacements
    <3>2. ASSUME S # {} PROVE new[k].row \in RowsOf(LeftFirst(S))
      <4>1. new[k].n > 0
        BY <1>2, <1>3, <3>2
      <4>2. new[k].row \in Present(new, Keys)
        BY <4>1 DEF Present
      <4>3. \A c \in gone : Row[c] # new[k].row
        BY <2>2, <4>2 DEF RepresentativeRemoved
      <4> QED BY <1>0, <2>2, <3>2, <4>3, UpdatedRowIsLive
    <3> QED BY <1>2, <2>2, <3>1, <3>2
  <2>3. CASE k \in K /\ RepresentativeRemoved(new, gone)
    <3>1. PICK f \in Chosen(After(come, gone), {j \in K : new[j].n > 0}) :
            final = Replaced(new, K, f)
      BY <2>3 DEF Replacements, After
    <3>2. CASE new[k].n > 0
      <4>1. f[k] \in RowsOf(LeftFirst(S))
        BY <2>3, <3>1, <3>2 DEF Chosen
      <4>2. final[k] = [new[k] EXCEPT !.row = f[k]]
        BY <2>3, <3>1, <3>2 DEF Replaced
      <4>3. S # {}
        BY <1>2, <1>3, <3>2
      <4>4. f[k] \in Rows
        BY <1>4, <4>1, <4>3
      <4> QED BY <1>2, <2>3, <4>1, <4>2, <4>4
    <3>3. CASE ~(new[k].n > 0)
      <4>1. final[k] = new[k]
        BY <3>1, <3>3 DEF Replaced
      <4>2. S = {}
        BY <1>2, <1>3, <3>3
      <4> QED BY <1>2, <2>3, <4>1, <4>2
    <3> QED BY <3>2, <3>3
  <2> QED BY <2>1, <2>2, <2>3
<1>7. CASE S = {}
  <2>1. Cardinality(S) = 0 /\ Cardinality(On(S, 0)) = 0 /\ Cardinality(On(S, 1)) = 0
    <3>1. On(S, 0) = {} /\ On(S, 1) = {}
      BY <1>7 DEF On
    <3> QED BY <1>7, <3>1, FS_EmptySet
  <2>2. e = Absent
    BY <1>2, <1>6, <2>1 DEF RemoveEmpty
  <2>3. k \notin K => state[k].n = 0 /\ state[k].row = NoRow
    BY <1>1, <1>5, <1>7, <2>1 DEF CountsAreSupport
  <2> QED BY <1>7, <2>1, <2>2, <2>3 DEF Absent, Supports, Entries
<1>8. CASE S # {}
  <2>1. e = final[k]
    BY <1>2, <1>3, <1>6, <1>8 DEF RemoveEmpty
  <2>2. final[k].row # NoRow
    BY <1>4, <1>6, <1>8, CopiesAssumption
  <2> QED BY <1>2, <1>5, <1>6, <1>8, <2>1, <2>2 DEF Supports, Entries
<1> QED BY <1>7, <1>8

\* The rows present after a drain are those before it, less the touched keys'
\* rows before, plus the touched keys' rows after: a row has one key.
LEMMA DeltasAddUp ==
  ASSUME NEW old, NEW fresh, NEW K, K \subseteq Keys,
         \A k \in Keys : old[k].n > 0 => Key[old[k].row] = k,
         \A k \in Keys : fresh[k].n > 0 => Key[fresh[k].row] = k,
         \A k \in Keys \ K : fresh[k].n = old[k].n /\ fresh[k].row = old[k].row,
         result = Present(old, Keys)
  PROVE Emitted(Present(old, K), Present(fresh, K)) = Present(fresh, Keys)
<1>1. ASSUME NEW x \in Present(fresh, Keys)
      PROVE x \in Emitted(Present(old, K), Present(fresh, K))
  <2>1. PICK k \in Keys : fresh[k].n > 0 /\ x = fresh[k].row
    BY <1>1 DEF Present
  <2>2. CASE k \in K
    <3>1. x \in Present(fresh, K)
      BY <2>1, <2>2 DEF Present
    <3>2. x \in Present(old, K) => x \in result
      BY DEF Present
    <3> QED BY <3>1, <3>2 DEF Emitted
  <2>3. CASE k \notin K
    <3>1. x \in result
      BY <2>1, <2>3 DEF Present
    <3>2. x \notin Present(old, K)
      BY <2>1, <2>3 DEF Present
    <3> QED BY <3>1, <3>2 DEF Emitted
  <2> QED BY <2>2, <2>3
<1>2. ASSUME NEW x \in Emitted(Present(old, K), Present(fresh, K))
      PROVE x \in Present(fresh, Keys)
  <2>1. CASE x \in Present(fresh, K)
    BY <2>1 DEF Present
  <2>2. CASE x \notin Present(fresh, K)
    <3>1. x \in result /\ x \notin Present(old, K)
      BY <1>2, <2>2 DEF Emitted
    <3>2. PICK k \in Keys : old[k].n > 0 /\ x = old[k].row
      BY <3>1 DEF Present
    <3>3. k \notin K
      BY <3>1, <3>2 DEF Present
    <3> QED BY <3>2, <3>3 DEF Present
  <2> QED BY <2>1, <2>2
<1> QED BY <1>1, <1>2

\* The row that stands for a key has that key.
LEMMA RowHasKey ==
  ASSUME NEW S, NEW k, NEW r \in RowsOf(LeftFirst(Of(S, k)))
  PROVE Key[r] = k
BY DEF RowsOf, LeftFirst, On, Of

-----------------------------------------------------------------------------
(* The actions.                                                            *)

\* Population stores the support of every key and a row of its input.
LEMMA PopulateKeeps ==
  ASSUME Inv, Populate
  PROVE Inv'
<1> DEFINE K == KeysOf(live)
<1>1. TypeOK /\ NeverRefused /\ live' = live /\ refused' = refused /\ created' = TRUE
  BY DEF Inv, Populate
<1>2. PICK f \in Chosen(live, K) :
        state' = [k \in Keys |->
                    IF k \in K
                    THEN [n |-> Cardinality(Of(live, k)),
                          left |-> Cardinality(On(Of(live, k), 0)),
                          right |-> Cardinality(On(Of(live, k), 1)),
                          row |-> f[k]]
                    ELSE Absent]
  BY DEF Populate
<1>3. ASSUME NEW k \in Keys
      PROVE Supports(state'[k], Of(live, k))
  <2> DEFINE S == Of(live, k)
  <2>1. /\ S \subseteq Copies /\ On(S, 0) \subseteq Copies /\ On(S, 1) \subseteq Copies
        /\ k \in K <=> S # {}
    BY <1>1 DEF TypeOK, Of, On, KeysOf
  <2>2. /\ Cardinality(S) \in Nat /\ Cardinality(On(S, 0)) \in Nat
        /\ Cardinality(On(S, 1)) \in Nat
    BY <2>1, Countable
  <2>3. CASE S = {}
    <3>1. On(S, 0) = {} /\ On(S, 1) = {}
      BY <2>3 DEF On
    <3>2. Cardinality(S) = 0 /\ Cardinality(On(S, 0)) = 0 /\ Cardinality(On(S, 1)) = 0
      BY <2>3, <3>1, FS_EmptySet
    <3>3. state'[k] = Absent
      BY <1>2, <2>1, <2>3
    <3> QED BY <2>3, <3>2, <3>3 DEF Absent, Supports, Entries
  <2>4. CASE S # {}
    <3>1. /\ state'[k].n = Cardinality(S)
          /\ state'[k].left = Cardinality(On(S, 0))
          /\ state'[k].right = Cardinality(On(S, 1))
          /\ state'[k].row = f[k]
          /\ state'[k] = [n |-> Cardinality(S), left |-> Cardinality(On(S, 0)),
                          right |-> Cardinality(On(S, 1)), row |-> f[k]]
      BY <1>2, <2>1, <2>4
    <3>2. f[k] \in RowsOf(LeftFirst(S))
      BY <2>1, <2>4 DEF Chosen
    <3>3. f[k] \in Rows /\ f[k] # NoRow
      BY <2>1, <3>2, CopiesAssumption DEF RowsOf, LeftFirst, On, Rows
    <3> QED BY <2>2, <2>4, <3>1, <3>2, <3>3 DEF Supports, Entries
  <2> QED BY <2>3, <2>4
<1>4. CountsAreSupport' /\ RepresentativeIsLive'
  BY <1>1, <1>3 DEF CountsAreSupport, RepresentativeIsLive, Supports
<1>5. ResultIsTheSet'
  BY DEF Populate, ResultIsTheSet, Present
<1>6. result' \subseteq Rows
  <2>1. ASSUME NEW x \in result' PROVE x \in Rows
    <3>1. PICK k \in Keys : state'[k].n > 0 /\ x = state'[k].row
      BY <2>1 DEF Populate, Present
    <3>2. Of(live, k) # {}
      BY <1>3, <3>1, Counted DEF Supports
    <3>3. x \in RowsOf(LeftFirst(Of(live, k)))
      BY <1>3, <3>1, <3>2 DEF Supports
    <3> QED BY <1>1, <3>3 DEF RowsOf, LeftFirst, On, Of, Rows, TypeOK
  <2> QED BY <2>1
<1>7. state' \in [Keys -> Entries]
  BY <1>2, <1>3 DEF Supports
<1> QED BY <1>1, <1>4, <1>5, <1>6, <1>7 DEF Inv, TypeOK, NeverRefused, Entries

\* A drain is never refused and leaves the support of the changed inputs.
LEMMA DrainKeeps ==
  ASSUME Inv,
         NEW come \in SUBSET (Copies \ live),
         NEW gone \in SUBSET (live \cup come),
         Drain(come, gone)
  PROVE Inv'
<1> DEFINE K == KeysOf(come \cup gone)
<1>1. TypeOK /\ ResultIsTheSet /\ RepresentativeIsLive /\ NeverRefused
  BY DEF Inv
<1>2. created /\ created' = created
  BY DEF Drain
<1>3. K \subseteq Keys
  BY <1>1 DEF KeysOf, Keys, Rows, TypeOK
<1>4. PICK ranked \in [K -> Rows] :
        /\ \A k \in K : ranked[k] \in Ranked(come, gone, k)
        /\ LET new == Updated(come, gone, ranked)
           IN IF \E k \in K : Bad(new[k])
              THEN refused' = TRUE /\ UNCHANGED <<live, state, result>>
              ELSE /\ \E final \in Replacements(new, K, come, gone) :
                        state' = RemoveEmpty(final)
                   /\ result' = Emitted(Present(state, K), Present(state', K))
                   /\ live' = (live \cup come) \ gone
                   /\ UNCHANGED refused
  BY DEF Drain
<1> DEFINE new == Updated(come, gone, ranked)
<1>4a. /\ come \subseteq Copies \ live /\ gone \subseteq live \cup come
       /\ ranked \in Rankings(come, gone)
  BY <1>4 DEF Rankings
<1>5. \A k \in K : ~Bad(new[k])
  BY <1>2, <1>3, UpdatedIsSupport
<1>6. /\ result' = Emitted(Present(state, K), Present(state', K))
      /\ live' = After(come, gone) /\ refused' = refused
  BY <1>4, <1>5 DEF After
<1>7. PICK final \in Replacements(new, K, come, gone) : state' = RemoveEmpty(final)
  BY <1>4, <1>5
<1>8. ASSUME NEW k \in Keys
      PROVE /\ Supports(state'[k], Of(live', k))
            /\ k \notin K => state'[k].n = state[k].n /\ state'[k].row = state[k].row
  <2>1. final \in Replacements(Updated(come, gone, ranked), KeysOf(come \cup gone), come, gone)
    OBVIOUS
  <2>2. /\ Supports(RemoveEmpty(final)[k], Of(After(come, gone), k))
        /\ k \notin K =>
             RemoveEmpty(final)[k].n = state[k].n /\ RemoveEmpty(final)[k].row = state[k].row
    BY <1>2, <1>4a, <2>1, StoredEntries
  <2> QED BY <1>6, <1>7, <2>2
<1>9. CountsAreSupport' /\ RepresentativeIsLive'
  BY <1>8 DEF CountsAreSupport, RepresentativeIsLive, Supports
<1>10. ASSUME NEW k \in Keys
       PROVE /\ state[k].n > 0 => Key[state[k].row] = k
             /\ state'[k].n > 0 => Key[state'[k].row] = k
  <2>1. state[k].n > 0 => Of(live, k) # {}
    BY <1>2, Counted DEF Inv, CountsAreSupport
  <2>2. state'[k].n > 0 => Of(live', k) # {}
    BY <1>8, Counted DEF Supports
  <2>3. Of(live, k) # {} => state[k].row \in RowsOf(LeftFirst(Of(live, k)))
    BY <1>1, <1>2 DEF RepresentativeIsLive
  <2> QED BY <1>8, <2>1, <2>2, <2>3, RowHasKey DEF Supports
<1>11. result' = Present(state', Keys)
  <2>1. result = Present(state, Keys)
    BY <1>1, <1>2 DEF ResultIsTheSet
  <2>2. \A k \in Keys \ K : state'[k].n = state[k].n /\ state'[k].row = state[k].row
    BY <1>8
  <2> QED BY <1>3, <1>6, <1>10, <2>1, <2>2, DeltasAddUp
<1>12. live' \subseteq Copies
  BY <1>1, <1>6 DEF After, TypeOK
<1>13. result' \subseteq Rows
  <2>1. ASSUME NEW x \in result' PROVE x \in Rows
    <3>1. PICK k \in Keys : state'[k].n > 0 /\ x = state'[k].row
      BY <1>11, <2>1 DEF Present
    <3>2. Of(live', k) # {}
      BY <1>8, <3>1, Counted DEF Supports
    <3>3. x \in RowsOf(LeftFirst(Of(live', k)))
      BY <1>8, <3>1, <3>2 DEF Supports
    <3> QED BY <1>12, <3>3 DEF RowsOf, LeftFirst, On, Of, Rows
  <2> QED BY <2>1
<1>14. state' \in [Keys -> Entries]
  BY <1>7, <1>8 DEF RemoveEmpty, Supports, Entries
<1>15. TypeOK'
  BY <1>1, <1>2, <1>6, <1>12, <1>13, <1>14 DEF TypeOK, Entries
<1> QED BY <1>1, <1>6, <1>9, <1>11, <1>15 DEF Inv, ResultIsTheSet, NeverRefused

-----------------------------------------------------------------------------
(* The theorems.                                                           *)

\* Every reachable state satisfies Inv.
THEOREM Invariance == Spec => []Inv
<1>1. Init => Inv
  <2> SUFFICES ASSUME Init PROVE Inv
    OBVIOUS
  <2>1. state = [k \in Keys |-> Absent] /\ Absent \in Entries
    BY DEF Init, Absent, Entries
  <2>2. TypeOK
    BY <2>1 DEF Init, TypeOK, Entries
  <2> QED
    BY <2>2 DEF Init, Inv, CountsAreSupport, RepresentativeIsLive, ResultIsTheSet, NeverRefused
<1>2. Inv /\ [Next]_vars => Inv'
  <2> SUFFICES ASSUME Inv, [Next]_vars PROVE Inv'
    OBVIOUS
  <2>1. CASE Populate
    BY <2>1, PopulateKeeps
  <2>2. ASSUME NEW come \in SUBSET (Copies \ live), NEW gone \in SUBSET (live \cup come),
               Drain(come, gone)
        PROVE Inv'
    BY <2>2, DrainKeeps
  <2>3. CASE UNCHANGED vars
    BY <2>3 DEF vars, Inv, TypeOK, CountsAreSupport, RepresentativeIsLive, ResultIsTheSet,
                NeverRefused, Present
  <2> QED BY <2>1, <2>2, <2>3 DEF Next
<1> QED BY <1>1, <1>2, PTL DEF Spec

\* The counts the statements keep by adding deltas are the support of each key
\* in each input (update, remove_empty).
THEOREM Counts == Spec => []CountsAreSupport
<1>1. Inv => CountsAreSupport
  BY DEF Inv
<1> QED BY <1>1, Invariance, PTL

\* The row that stands for a key is one an input still holds, from the left
\* input while that holds any (side_change, representative_removed, the fallback).
THEOREM Representatives == Spec => []RepresentativeIsLive
<1>1. Inv => RepresentativeIsLive
  BY DEF Inv
<1> QED BY <1>1, Invariance, PTL

\* The deltas add up to one row for each key that has support (before, after).
THEOREM TheSet == Spec => []ResultIsTheSet
<1>1. Inv => ResultIsTheSet
  BY DEF Inv
<1> QED BY <1>1, Invariance, PTL

\* "set support count outside integer domain" is never raised: the checks of
\* `bad` reject no change of the inputs.
THEOREM Accepted == Spec => []NeverRefused
<1>1. Inv => NeverRefused
  BY DEF Inv
<1> QED BY <1>1, Invariance, PTL

\* Counts and rows have their types; only rows of the inputs are emitted.
THEOREM TypeCorrect == Spec => []TypeOK
<1>1. Inv => TypeOK
  BY DEF Inv
<1> QED BY <1>1, Invariance, PTL
=============================================================================
