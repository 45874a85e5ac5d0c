---------------------------- MODULE SetMembership ----------------------------
(***************************************************************************)
(* One UNION or DISTINCT node: its support counts and the row that stands  *)
(* for each key (src/1cb_set_membership.rs, src/1d_drain.rs).              *)
(*                                                                         *)
(* A copy is one occurrence of a row in one of the node's two inputs, so   *)
(* an input is a set of copies and a sum of multiplicities a cardinality.  *)
(* DISTINCT has no copies on side 1.  Rows of one key are spellings that   *)
(* compare equal under the columns' collations.                            *)
(*                                                                         *)
(* An operator named Slip is the next one with a plausible mistake in it:  *)
(* nothing uses it, the runs are repeated with it in place of the original.*)
(***************************************************************************)
EXTENDS Integers, FiniteSets

CONSTANTS
  Copies,  \* every copy of a row an input can hold
  Side,    \* the input of a copy, 0 or 1
  Row,     \* the row a copy is of
  Key,     \* the key of a row
  NoRow    \* the key has no entry in the state table

Rows == {Row[c] : c \in Copies}
Keys == {Key[r] : r \in Rows}

ASSUME CopiesAssumption ==
  /\ IsFiniteSet(Copies)
  /\ Side \in [Copies -> {0, 1}]
  /\ NoRow \notin Rows

VARIABLES
  live,     \* copies in the inputs, as of the last drain
  created,  \* the view is populated
  state,    \* main.<view>_op<id>x0: counts and representative of each key
  result,   \* the rows the node's deltas add up to
  refused   \* "set support count outside integer domain"

vars == <<live, created, state, result, refused>>

Absent == [n |-> 0, left |-> 0, right |-> 0, row |-> NoRow]

Of(S, k) == {c \in S : Key[Row[c]] = k}
On(S, s) == {c \in S : Side[c] = s}
RowsOf(S) == {Row[c] : c \in S}
KeysOf(S) == {Key[Row[c]] : c \in S}

\* The left copies, or the right ones where there is no left one.
LeftFirst(S) == IF On(S, 0) # {} THEN On(S, 0) ELSE S

\* The rows an entry of `entries` stands for, among the keys of K.
Present(entries, K) == {entries[k].row : k \in {j \in K : entries[j].n > 0}}

Init ==
  /\ live \in SUBSET Copies
  /\ created = FALSE /\ refused = FALSE
  /\ state = [k \in Keys |-> Absent] /\ result = {}

\* materialize: one row of each key; the left side wins.
Chosen(S, K) == {f \in [K -> Rows] : \A k \in K : f[k] \in RowsOf(LeftFirst(Of(S, k)))}

Populate ==
  /\ ~created
  /\ \E f \in Chosen(live, KeysOf(live)) :
       state' = [k \in Keys |->
                   IF k \in KeysOf(live)
                   THEN [n |-> Cardinality(Of(live, k)),
                         left |-> Cardinality(On(Of(live, k), 0)),
                         right |-> Cardinality(On(Of(live, k), 1)),
                         row |-> f[k]]
                   ELSE Absent]
  /\ result' = Present(state', Keys)
  /\ created' = TRUE
  /\ UNCHANGED <<live, refused>>

-----------------------------------------------------------------------------
(* A drain, of the copies in come and gone: the +1 and -1 rows of the      *)
(* inputs' out tables, which may hold a row under both signs.              *)

\* The rows that can rank first in a key's delta: additions, then the left.
Ranked(come, gone, k) ==
  RowsOf(LeftFirst(IF Of(come, k) # {} THEN Of(come, k) ELSE Of(gone, k)))

Change(come, gone, k) == Cardinality(Of(come, k)) - Cardinality(Of(gone, k))
SlipChangeOn(come, gone, k, s) ==
  Cardinality(On(Of(come, k), 1 - s)) - Cardinality(On(Of(gone, k), 1 - s))
ChangeOn(come, gone, k, s) ==
  Cardinality(On(Of(come, k), s)) - Cardinality(On(Of(gone, k), s))

\* A first left row takes over from a right one; a new key takes what ranks first.
SlipTakesOver(k, leftChange) == state[k].left = 0 /\ leftChange > 0
TakesOver(k, leftChange) == state[k].row = NoRow \/ (state[k].left = 0 /\ leftChange > 0)

Updated(come, gone, ranked) ==
  [k \in Keys |->
     IF k \in KeysOf(come \cup gone)
     THEN [n |-> state[k].n + Change(come, gone, k),
           left |-> state[k].left + ChangeOn(come, gone, k, 0),
           right |-> state[k].right + ChangeOn(come, gone, k, 1),
           row |-> IF TakesOver(k, ChangeOn(come, gone, k, 0)) THEN ranked[k] ELSE state[k].row]
     ELSE state[k]]

SlipBad(e) == e.n <= 0 \/ e.left < 0 \/ e.right < 0 \/ e.n # e.left + e.right
Bad(e) == e.n < 0 \/ e.left < 0 \/ e.right < 0 \/ e.n # e.left + e.right

SlipRepresentativeRemoved(new, gone) == FALSE
RepresentativeRemoved(new, gone) == \E c \in gone : Row[c] \in Present(new, Keys)

\* One removed representative makes the fallback choose for every touched key.
Replaced(new, K, f) ==
  [k \in Keys |-> IF k \in K /\ new[k].n > 0 THEN [new[k] EXCEPT !.row = f[k]] ELSE new[k]]

Replacements(new, K, come, gone) ==
  IF RepresentativeRemoved(new, gone)
  THEN {Replaced(new, K, f) : f \in Chosen((live \cup come) \ gone, {k \in K : new[k].n > 0})}
  ELSE {new}

RemoveEmpty(new) == [k \in Keys |-> IF new[k].n = 0 THEN Absent ELSE new[k]]

\* The delta emitted: the touched keys' rows after, less those before.
SlipEmitted(before, after) == (result \ before) \cup (after \ before)
Emitted(before, after) == (result \ (before \ after)) \cup (after \ before)

Drain(come, gone) ==
  /\ created
  /\ LET K == KeysOf(come \cup gone)
     IN \E ranked \in [K -> Rows] :
          /\ \A k \in K : ranked[k] \in Ranked(come, gone, k)
          /\ LET new == Updated(come, gone, ranked)
             IN IF \E k \in K : Bad(new[k])
                THEN refused' = TRUE /\ UNCHANGED <<live, state, result>>
                ELSE /\ \E final \in Replacements(new, K, come, gone) :
                          state' = RemoveEmpty(final)
                     /\ result' = Emitted(Present(state, K), Present(state', K))
                     /\ live' = (live \cup come) \ gone
                     /\ UNCHANGED refused
  /\ UNCHANGED created

Next ==
  \/ Populate
  \/ \E come \in SUBSET (Copies \ live) : \E gone \in SUBSET (live \cup come) :
       come \cup gone # {} /\ Drain(come, gone)

Spec == Init /\ [][Next]_vars

-----------------------------------------------------------------------------
TypeOK ==
  /\ live \subseteq Copies
  /\ created \in BOOLEAN /\ refused \in BOOLEAN
  /\ state \in [Keys -> [n : Int, left : Int, right : Int, row : Rows \cup {NoRow}]]
  /\ result \subseteq Rows

\* The stored counts are the support of each key in each input, and a key has
\* an entry exactly when it has support.
CountsAreSupport ==
  created => \A k \in Keys :
    /\ state[k].left = Cardinality(On(Of(live, k), 0))
    /\ state[k].right = Cardinality(On(Of(live, k), 1))
    /\ state[k].n = Cardinality(Of(live, k))
    /\ state[k].row = NoRow <=> Of(live, k) = {}

\* The row that stands for a key is one an input still holds, and a left one
\* while the left input holds any.
RepresentativeIsLive ==
  created => \A k \in Keys : Of(live, k) # {} => state[k].row \in RowsOf(LeftFirst(Of(live, k)))

\* The deltas emitted so far add up to one row for each key with support.
ResultIsTheSet == created => result = Present(state, Keys)

\* No change of the inputs makes the counts leave their domain.
NeverRefused == ~refused
=============================================================================
