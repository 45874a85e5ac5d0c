------------------------- MODULE MCViewTransactions -------------------------
(* Bounds for ViewTransactions: two names each for the source and the view. *)
EXTENDS ViewTransactions, TLC

CONSTANTS farms, growers, total, moved
Sources == {farms, growers}
Views == {total, moved}

\* No action names a particular table or view.
Names == Permutations(Sources) \cup Permutations(Views)
=============================================================================
