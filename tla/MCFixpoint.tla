----------------------------- MODULE MCFixpoint -----------------------------
(* Instances of Fixpoint for TLC.                                          *)
EXTENDS Fixpoint

Clauses(rule, side, edges) ==
  {[rule |-> rule, head |-> e[3], member |-> e[2], body |-> {<<side, e[1]>>}] : e \in edges}

Identity == [r \in Row |-> r]

\* r(n) AS (SELECT n FROM seeds UNION SELECT e.b FROM r JOIN edges e ON e.a=r.n)
ReachRow  == {"s", "m", "z"}
ReachFact == {"seed_s", "seed_z", "s_m", "m_z", "z_m"}
ReachReads == <<{"seed_s", "seed_z"}, {"s_m", "m_z", "z_m"}>>
ReachClause ==
  Clauses(1, 1, {<<"seed_s", NoMember, "s">>, <<"seed_z", NoMember, "z">>})
  \cup Clauses(2, 2, {<<"s_m", "s", "m">>, <<"m_z", "m", "z">>, <<"z_m", "z", "m">>})

\* The reachability view over TEXT COLLATE NOCASE, where n stands for two
\* spellings of one node: the edges m->n and m->N store one member between
\* them, and the edge n->m joins either.
SpelledRow  == {"s", "m", "n", "N"}
SpelledKey  == [r \in SpelledRow |-> IF r = "N" THEN "n" ELSE r]
SpelledFact == {"seed_s", "s_m", "m_n", "m_N", "n_m"}
SpelledReads == <<{"seed_s"}, SpelledFact \ {"seed_s"}>>
SpelledClause ==
  Clauses(1, 1, {<<"seed_s", NoMember, "s">>})
  \cup Clauses(2, 2, {<<"s_m", "s", "m">>, <<"m_n", "m", "n">>, <<"m_N", "m", "N">>,
                      <<"n_m", "n", "m">>, <<"n_m", "N", "m">>})

\* p(x,y) AS (SELECT a,b FROM t UNION SELECT p.x,t.b FROM p JOIN t ON t.a=p.y)
\* over a ring of four integers and a chord: both sides read t, a batch moves
\* both at once, and only a whole ring takes more than two rounds to populate.
ClosureFact  == {<<1, 2>>, <<2, 3>>, <<3, 4>>, <<4, 1>>, <<1, 3>>}
ClosureRow   == (1..4) \X (1..4)
ClosureReads == <<ClosureFact, ClosureFact>>
ClosureClause ==
  Clauses(1, 1, {<<t, NoMember, t>> : t \in ClosureFact})
  \cup Clauses(2, 2, {<<t, <<x, t[1]>>, <<x, t[2]>>>> : x \in 1..4, t \in ClosureFact})
=============================================================================
