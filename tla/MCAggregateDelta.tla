--------------------------- MODULE MCAggregateDelta ---------------------------
(* Two groups with integers, a NULL, a REAL and an integer beyond the bound.   *)
EXTENDS AggregateDelta

Integer(n) == [v |-> n, real |-> FALSE]

MCValues == <<Integer(1), Integer(-2), Null, [v |-> 1, real |-> TRUE], Integer(3), Integer(1)>>
MCCopies == DOMAIN MCValues
MCKeyOf == [c \in MCCopies |-> IF c < 6 THEN 1 ELSE 2]
===============================================================================
