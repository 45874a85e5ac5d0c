-------------------------------- MODULE ZSets --------------------------------
(***************************************************************************)
(* Weighted rows.  A row is a sequence of integer cells, a Z-set a         *)
(* function from rows to nonzero weights: a table of rows with a count, or *)
(* a delta of signed rows.  The operators are what the SQL of both engines *)
(* computes from such tables (src/1c_materialize.rs,                       *)
(* crates/ivm-sqlite/src/3_nodes.rs); ties in an ORDER BY follow the other *)
(* columns of a row.                                                       *)
(***************************************************************************)
EXTENDS Sums, Sequences

Null == -1

NoRows == [r \in {} |-> 0]

\* f itself; TLC evaluates each of its values once, not at every use.
Tabled(f) == CHOOSE x \in {f} : x = x

At(z, r) == IF r \in DOMAIN z THEN z[r] ELSE 0

\* Finitely many rows, each with a weight; in a bag with a positive one.
IsZSet(z) ==
  /\ z = [r \in DOMAIN z |-> z[r]] /\ IsFiniteSet(DOMAIN z)
  /\ \A r \in DOMAIN z : z[r] \in Int \ {0}
IsBag(z) == IsZSet(z) /\ \A r \in DOMAIN z : z[r] > 0

Collect(S, W(_)) == Tabled([r \in {s \in S : W(s) # 0} |-> W(r)])

Plus(a, b)  == LET w(r) == At(a, r) + At(b, r) IN Collect(DOMAIN a \cup DOMAIN b, w)
Minus(a, b) == LET w(r) == At(a, r) - At(b, r) IN Collect(DOMAIN a \cup DOMAIN b, w)
Within(a, S) == Tabled([r \in S \cap DOMAIN a |-> a[r]])
Where(a, P(_)) == Within(a, {r \in DOMAIN a : P(r)})
Positive(a) == Within(a, {r \in DOMAIN a : a[r] > 0})
Support(a)  == Tabled([r \in {s \in DOMAIN a : a[s] > 0} |-> 1])
Total(a)    == SumOf(a, DOMAIN a)

\* The rows f makes, each with the weights of the rows it is made of.
Gathered(a, f) ==
  LET w(y) == SumOf(a, {r \in DOMAIN a : f[r] = y})
  IN Collect({f[r] : r \in DOMAIN a}, w)
Image(a, F(_)) == Gathered(a, Tabled([r \in DOMAIN a |-> F(r)]))

Columns(r, cols) == [i \in DOMAIN cols |-> r[cols[i]]]

\* The pairs of rows that M matches, with the product of their weights.
Product(a, b, M(_, _)) ==
  LET pairs == {p \in (DOMAIN a) \X (DOMAIN b) : M(p[1], p[2])}
  IN Image([p \in pairs |-> a[p[1]] * b[p[2]]], LAMBDA p : p[1] \o p[2])

\* SQL equality: a NULL cell equals nothing.
Matches(x, y) == x = y /\ \A i \in DOMAIN x : x[i] # Null

Before(x, y) ==
  \E i \in DOMAIN x : x[i] < y[i] /\ \A j \in 1..(i - 1) : x[j] = y[j]

\* ORDER BY: rank[r] is what a row is ordered by.
Precedes(rank, r, s) == Before(rank[r], rank[s]) \/ (rank[r] = rank[s] /\ Before(r, s))

\* The columns of every row, to partition or to order them by.
ByColumns(rows, cols) == [r \in rows |-> Columns(r, cols)]

\* Copies of the rows that come before r in its partition, which key names.
CopiesBefore(a, key, rank, r) ==
  SumOf(a, {s \in DOMAIN a : key[s] = key[r] /\ Precedes(rank, s, r)})

\* LIMIT and OFFSET in each partition.
Lowest(lo, hi) == IF lo < hi THEN lo ELSE hi
Limited(a, key, rank, limit, offset) ==
  LET first(r) == CopiesBefore(a, key, rank, r)
      w(r) == Lowest(first(r) + a[r], offset + limit)
              - (IF first(r) > offset THEN first(r) ELSE offset)
  IN Tabled([r \in {s \in DOMAIN a : w(s) > 0} |-> w(r)])

\* row_number() appended to every copy.
Numbered(a, key, rank) ==
  LET copies == UNION {{r} \X (1..a[r]) : r \in DOMAIN a}
  IN Image([c \in copies |-> 1],
           LAMBDA c : Append(c[1], CopiesBefore(a, key, rank, c[1]) + c[2]))

Greatest(S) == CHOOSE x \in S : \A y \in S : y <= x
=============================================================================
