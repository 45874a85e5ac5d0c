----------------------------- MODULE MCOutTables -----------------------------
(* Every plan of a given size, for TLC.                                    *)
EXTENDS OutTables

CONSTANTS Size, Width

Shapes(k) ==
  {[kind |-> "input", inputs |-> <<>>]}
  \cup {[kind |-> t, inputs |-> <<a>>] : t \in {"map", "append"}, a \in 1..(k - 1)}
  \cup {[kind |-> "all", inputs |-> <<a, b>>] : a, b \in 1..(k - 1)}
  \cup {[kind |-> "arrange", inputs |-> <<p[1], p[2]>>] :
          p \in {q \in (1..(k - 1)) \X (1..(k - 1)) : q[1] <= q[2]}}

AllPlans ==
  {[n |-> Size, kind |-> [k \in 1..Size |-> f[k].kind],
    inputs |-> [k \in 1..Size |-> f[k].inputs],
    width |-> [k \in 1..Size |-> w[k]], arity |-> 2, keeps |-> q] :
     f \in {g \in [1..Size -> UNION {Shapes(k) : k \in 1..Size}] :
              \A k \in 1..Size : g[k] \in Shapes(k)},
     w \in [1..Size -> 1..Width], q \in BOOLEAN}

MCPlans == {p \in AllPlans : p.keeps => p.kind[Size] = "arrange"}
=============================================================================
