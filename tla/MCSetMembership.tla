--------------------------- MODULE MCSetMembership ---------------------------
(* Two inputs with two spellings of one key, and a key of its own, for TLC.  *)
EXTENDS SetMembership

CONSTANTS A, a, B, KA, KB

MCCopies == {<<0, A, 1>>, <<0, A, 2>>, <<0, a, 1>>, <<0, B, 1>>, <<1, A, 1>>, <<1, a, 1>>, <<1, B, 1>>}
MCSide == [c \in MCCopies |-> c[1]]
MCRow == [c \in MCCopies |-> c[2]]
MCKey == [r \in {A, a, B} |-> IF r = B THEN KB ELSE KA]
=============================================================================
