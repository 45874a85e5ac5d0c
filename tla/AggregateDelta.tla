--------------------------- MODULE AggregateDelta ---------------------------
(***************************************************************************)
(* The output node of a view SELECT key, count(1), sum(value) ... GROUP BY *)
(* key, or of the same query without a key (src/1e_program.rs,             *)
(* src/1d_drain.rs, src/1b_state.rs): a sum is kept by adding the batch's  *)
(* contribution while every value seen is a small integer, and recomputed  *)
(* from the sources from the first batch on that breaks this.              *)
(*                                                                         *)
(* A copy is one occurrence of an input row, so a multiplicity is a        *)
(* cardinality. A sum is an integer or, as soon as one value is, a REAL    *)
(* number: 1 and 1.0 are different results.                                *)
(*                                                                         *)
(* An operator named Slip is the next one with a plausible mistake in it:  *)
(* nothing uses it, the runs are repeated with it in place of the original.*)
(***************************************************************************)
EXTENDS Sums

CONSTANTS
  Copies,  \* every copy of a row the input can hold
  KeyOf,   \* the group key of a copy's row
  Value,   \* what it adds to the sum: Null or [v, real]
  Null,
  Whole,   \* the group of a query without a key
  MaxRows, \* 1000000 in the code
  MaxAbs   \* 1000000 in the code

ASSUME AggregateAssumption ==
  /\ IsFiniteSet(Copies)
  /\ Null \notin [v : Int, real : BOOLEAN]
  /\ \A c \in Copies : Value[c] \in [v : Int, real : BOOLEAN] \cup {Null}
  /\ MaxRows \in Nat /\ MaxAbs \in Nat

VARIABLES
  keyed,    \* the query has a GROUP BY key
  created,  \* the view is populated
  live,     \* the copies in the input, as of the last drain
  meta,     \* main.<view>_op<id>x1: safe flag and non-null count of each group
  result    \* the stored row of each group, shown if there is one

vars == <<keyed, created, live, meta, result>>

GroupOf(c) == IF keyed THEN KeyOf[c] ELSE Whole
Groups == IF keyed THEN {KeyOf[c] : c \in Copies} ELSE {Whole}
Of(S, g) == {c \in S : GroupOf(c) = g}
Touched(S) == {GroupOf(c) : c \in S}
NonNull(S) == {c \in S : Value[c] # Null}

-----------------------------------------------------------------------------
(* SQL's sum, over rows and of two partial sums.                           *)

Amount == [c \in Copies |-> IF Value[c] = Null THEN 0 ELSE Value[c].v]
Total(S) == SumOf(Amount, NonNull(S))
AnyReal(S) == \E c \in NonNull(S) : Value[c].real

\* The sum over added and removed rows, NULL when no value is there.
SignedSum(come, gone) ==
  IF NonNull(come \cup gone) = {} THEN Null
  ELSE [v |-> Total(come) - Total(gone), real |-> AnyReal(come \cup gone)]

OrZero(s) == IF s = Null THEN [v |-> 0, real |-> FALSE] ELSE s
Add(s, t) == [v |-> OrZero(s).v + OrZero(t).v, real |-> OrZero(s).real \/ OrZero(t).real]

\* What materializing the group from its rows stores.
Aggregated(S) ==
  [shown |-> keyed => S # {}, n |-> Cardinality(S), sum |-> SignedSum(S, {})]

\* A group without a row in either table.
NoEntry == [safe |-> TRUE, nn |-> 0]
NoRow == [shown |-> FALSE, n |-> 0, sum |-> Null]

\* The typeof and abs tests on one value.
Plain(c) == Value[c] # Null => ~Value[c].real /\ Value[c].v \in -MaxAbs..MaxAbs

Init ==
  /\ keyed \in BOOLEAN /\ created = FALSE
  /\ live \in SUBSET Copies
  /\ meta = [g \in Groups |-> NoEntry]
  /\ result = [g \in Groups |-> NoRow]

Populate ==
  /\ ~created
  /\ created' = TRUE
  /\ meta' = [g \in Groups |->
                IF Of(live, g) = {} THEN NoEntry
                ELSE [safe |-> /\ Cardinality(Of(live, g)) <= MaxRows
                               /\ \A c \in Of(live, g) : Plain(c),
                      nn |-> Cardinality(NonNull(Of(live, g)))]]
  /\ result' = [g \in Groups |-> Aggregated(Of(live, g))]
  /\ UNCHANGED <<keyed, live>>

-----------------------------------------------------------------------------
(* A drain, of the copies in come and gone: the +1 and -1 rows of the      *)
(* input's out table, which may hold a row under both signs.               *)

SlipEligible(come, gone) ==
  /\ \A g \in Touched(come \cup gone) : meta[g].safe
  /\ \A c \in come : Plain(c)
Eligible(come, gone) ==
  /\ \A g \in Touched(come \cup gone) :
       /\ meta[g].safe
       /\ result[g].n + Cardinality(come) + Cardinality(gone) <= MaxRows
  /\ \A c \in come \cup gone : Plain(c)

SlipUpdateCounts(come, gone, g) ==
  [safe |-> meta[g].safe,
   nn |-> meta[g].nn + Cardinality(Of(come, g)) - Cardinality(Of(gone, g))]
UpdateCounts(come, gone, g) ==
  [safe |-> meta[g].safe,
   nn |-> meta[g].nn + Cardinality(NonNull(Of(come, g)))
            - Cardinality(NonNull(Of(gone, g)))]

Invalidate(g) == [safe |-> FALSE, nn |-> meta[g].nn]

SlipAdded(g, nn, change) == Add(result[g].sum, change)
Added(g, nn, change) == IF nn = 0 THEN Null ELSE Add(result[g].sum, change)

Apply(come, gone, g, nn) ==
  LET n == result[g].n + Cardinality(Of(come, g)) - Cardinality(Of(gone, g))
  IN IF keyed /\ n <= 0 THEN NoRow
     ELSE [shown |-> TRUE, n |-> n, sum |-> Added(g, nn, SignedSum(Of(come, g), Of(gone, g)))]

\* The touched groups' rows are added to: every value seen is a small integer.
AddDelta(come, gone) ==
  LET T == Touched(come \cup gone)
  IN /\ created /\ come \cup gone # {}
     /\ Eligible(come, gone)
     /\ meta' = [g \in Groups |-> IF g \in T THEN UpdateCounts(come, gone, g) ELSE meta[g]]
     /\ result' = [g \in Groups |->
                     IF g \in T THEN Apply(come, gone, g, meta'[g].nn) ELSE result[g]]
     /\ live' = (live \cup come) \ gone
     /\ UNCHANGED <<keyed, created>>

\* They are recomputed, in this drain and in every later one.
Recompute(come, gone) ==
  LET T == Touched(come \cup gone)
  IN /\ created /\ come \cup gone # {}
     /\ ~Eligible(come, gone)
     /\ live' = (live \cup come) \ gone
     /\ meta' = [g \in Groups |-> IF g \in T THEN Invalidate(g) ELSE meta[g]]
     /\ result' = [g \in Groups |-> IF g \in T THEN Aggregated(Of(live', g)) ELSE result[g]]
     /\ UNCHANGED <<keyed, created>>

Next ==
  \/ Populate
  \/ \E come \in SUBSET (Copies \ live) : \E gone \in SUBSET (live \cup come) :
       AddDelta(come, gone) \/ Recompute(come, gone)

Spec == Init /\ [][Next]_vars

-----------------------------------------------------------------------------
\* A group the engine adds to holds small integers and NULLs only, and not too
\* many of them (aggregate_delta_statements: eligible, invalidate; populate).
SafeGroupsAreSmall ==
  created => \A g \in Groups : meta[g].safe =>
    /\ Cardinality(Of(live, g)) <= MaxRows
    /\ \A c \in Of(live, g) : Plain(c)

\* The non-null count of such a group is that of its rows, which is what makes
\* an empty sum NULL again (update_counts).
NonNullCounts ==
  created => \A g \in Groups : meta[g].safe => meta[g].nn = Cardinality(NonNull(Of(live, g)))

\* Whichever path the drains took, the stored row is the one the query computes
\* over the rows: same count, same sum, same type, NULL and absent when it should be.
ResultIsAggregate ==
  created => \A g \in Groups : result[g] = Aggregated(Of(live, g))
=============================================================================
