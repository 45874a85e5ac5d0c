--------------------------- MODULE IncrementalView ---------------------------
(***************************************************************************)
(* What a maintained view promises its reader: its rows are the query over *)
(* the sources as of the last drain, a commit keeps them with the sources, *)
(* a rollback takes both back.                                             *)
(***************************************************************************)
EXTENDS Integers

CONSTANTS
  Fact,       \* source rows
  MaxCopies,  \* bound: copies of one row
  Query(_),   \* Query(src): the view's rows over the sources src
  Uninstalled      \* the view is not installed

VARIABLES
  src,        \* copies of each source row
  committed,  \* what ROLLBACK restores
  view        \* the view's rows

ivars == <<src, committed, view>>

InitView ==
  /\ src \in [Fact -> 0..MaxCopies]
  /\ committed = src
  /\ view = Uninstalled

Install ==
  /\ view = Uninstalled
  /\ view' = Query(src)
  /\ UNCHANGED <<src, committed>>

Change(f, d) ==
  /\ view # Uninstalled
  /\ src[f] + d \in 0..MaxCopies
  /\ src' = [src EXCEPT ![f] = @ + d]
  /\ UNCHANGED <<committed, view>>

\* A read inside the transaction.
Refresh ==
  /\ view # Uninstalled
  /\ view' = Query(src)
  /\ UNCHANGED <<src, committed>>

CommitView ==
  /\ view # Uninstalled
  /\ view' = Query(src)
  /\ committed' = src
  /\ UNCHANGED src

RollbackView ==
  /\ view # Uninstalled
  /\ src' = committed
  /\ view' = Query(committed)
  /\ UNCHANGED committed

NextView ==
  \/ Install
  \/ \E f \in Fact, d \in {-1, 1} : Change(f, d)
  \/ Refresh \/ CommitView \/ RollbackView

ViewSpec == InitView /\ [][NextView]_ivars
=============================================================================
