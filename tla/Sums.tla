--------------------------------- MODULE Sums ---------------------------------
(***************************************************************************)
(* The sum of a function over a finite set, in a form that can be reasoned *)
(* about: the community modules fold with an operator as parameter.        *)
(***************************************************************************)
EXTENDS Integers, FiniteSets

\* The sum of f[x] over the x of S.
SumOf(f, S) ==
  LET sum[T \in SUBSET S] ==
        IF T = {} THEN 0
        ELSE LET x == CHOOSE x \in T : TRUE IN f[x] + sum[T \ {x}]
  IN sum[S]
===============================================================================
