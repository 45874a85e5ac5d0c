------------------------ MODULE RelationalDrainProofs ------------------------
(***************************************************************************)
(* The drains of a view come to what its plan computes, for every plan,    *)
(* every table and every batch.  The argument goes from weighted rows to   *)
(* the operators (a Z-set's operators add: what an operator makes of two   *)
(* parts without a common key is the sum of what it makes of each, so the  *)
(* change of its rows is the change over the touched keys), from the       *)
(* operators to a node's turn (a node whose inputs' out tables hold the    *)
(* change of their rows writes the change of its own), and from the turns  *)
(* to the inductive invariant of the drain.                                *)
(***************************************************************************)
EXTENDS RelationalDrain, SumsProofs

-----------------------------------------------------------------------------
(* Weighted rows.                                                          *)

\* The image of a finite set is finite.
LEMMA FiniteImage ==
  ASSUME NEW S, IsFiniteSet(S), NEW f
  PROVE  IsFiniteSet({f[x] : x \in S})
<1> DEFINE T == {f[x] : x \in S}
           g == [x \in S |-> f[x]]
<1>1. g \in Surjection(S, T)
  BY DEF Surjection
<1> HIDE DEF g, T
<1>2. IsFiniteSet(T)
  BY <1>1, FS_Surjection
<1> QED BY <1>2 DEF T

\* Tabled changes nothing.
LEMMA TabledIs == \A f : Tabled(f) = f
BY DEF Tabled

\* What a Z-set is, row by row.
LEMMA ZSetAt ==
  ASSUME NEW z, IsZSet(z)
  PROVE  /\ \A r : At(z, r) \in Int
         /\ \A r : r \in DOMAIN z <=> At(z, r) # 0
         /\ \A r \in DOMAIN z : At(z, r) = z[r]
         /\ IsFiniteSet(DOMAIN z)
BY DEF IsZSet, At

\* Two with the same weights are one.
LEMMA ZSetsEqual ==
  ASSUME NEW a, IsZSet(a), NEW b, IsZSet(b), \A r : At(a, r) = At(b, r)
  PROVE  a = b
<1>1. DOMAIN a = DOMAIN b
  BY ZSetAt
<1>2. \A r \in DOMAIN a : a[r] = b[r]
  BY <1>1, ZSetAt
<1>3. a = [r \in DOMAIN a |-> a[r]] /\ b = [r \in DOMAIN b |-> b[r]]
  BY DEF IsZSet
<1>4. [r \in DOMAIN a |-> a[r]] = [r \in DOMAIN b |-> b[r]]
  BY <1>1, <1>2
<1> QED BY <1>3, <1>4

\* The empty Z-set, which is a bag too.
LEMMA NoRowsZ == IsZSet(NoRows) /\ IsBag(NoRows) /\ \A r : At(NoRows, r) = 0
BY FS_EmptySet DEF IsZSet, IsBag, NoRows, At

\* A function of weights without its zeros.
LEMMA NonZero ==
  ASSUME NEW S, IsFiniteSet(S), NEW w, \A r \in S : w[r] \in Int,
         NEW z, z = [r \in {s \in S : w[s] # 0} |-> w[r]]
  PROVE  IsZSet(z) /\ \A r : At(z, r) = IF r \in S THEN w[r] ELSE 0
<1>1. DOMAIN z = {s \in S : w[s] # 0} /\ \A r \in DOMAIN z : z[r] = w[r]
  OBVIOUS
<1>2. IsFiniteSet(DOMAIN z)
  BY <1>1, FS_Subset
<1>3. z = [r \in DOMAIN z |-> z[r]]
  BY <1>1
<1> QED BY <1>1, <1>2, <1>3 DEF IsZSet, At

\* Plus, row by row.
LEMMA PlusZ ==
  ASSUME NEW a, IsZSet(a), NEW b, IsZSet(b)
  PROVE  IsZSet(Plus(a, b)) /\ \A r : At(Plus(a, b), r) = At(a, r) + At(b, r)
<1> DEFINE S == DOMAIN a \cup DOMAIN b
           w == [r \in S |-> At(a, r) + At(b, r)]
<1>1. IsFiniteSet(S) /\ \A r \in S : w[r] \in Int
  <2>1. IsFiniteSet(S)
    BY ZSetAt, FS_Union
  <2>2. (\A r : At(a, r) \in Int) /\ (\A r : At(b, r) \in Int)
    BY ZSetAt
  <2> QED BY <2>1, <2>2
<1>2. Plus(a, b) = [r \in {s \in S : w[s] # 0} |-> w[r]]
  BY TabledIs DEF Plus, Collect
<1>3. IsZSet(Plus(a, b)) /\ \A r : At(Plus(a, b), r) = IF r \in S THEN w[r] ELSE 0
  <2> HIDE DEF w, S
  <2> QED BY <1>1, <1>2, NonZero
<1>4. \A r : r \notin S => At(a, r) + At(b, r) = 0
  BY ZSetAt
<1> QED BY <1>3, <1>4

\* Minus, row by row.
LEMMA MinusZ ==
  ASSUME NEW a, IsZSet(a), NEW b, IsZSet(b)
  PROVE  IsZSet(Minus(a, b)) /\ \A r : At(Minus(a, b), r) = At(a, r) - At(b, r)
<1> DEFINE S == DOMAIN a \cup DOMAIN b
           w == [r \in S |-> At(a, r) - At(b, r)]
<1>1. IsFiniteSet(S) /\ \A r \in S : w[r] \in Int
  <2>1. IsFiniteSet(S)
    BY ZSetAt, FS_Union
  <2>2. (\A r : At(a, r) \in Int) /\ (\A r : At(b, r) \in Int)
    BY ZSetAt
  <2> QED BY <2>1, <2>2
<1>2. Minus(a, b) = [r \in {s \in S : w[s] # 0} |-> w[r]]
  BY TabledIs DEF Minus, Collect
<1>3. IsZSet(Minus(a, b)) /\ \A r : At(Minus(a, b), r) = IF r \in S THEN w[r] ELSE 0
  <2> HIDE DEF w, S
  <2> QED BY <1>1, <1>2, NonZero
<1>4. \A r : r \notin S => At(a, r) - At(b, r) = 0
  BY ZSetAt
<1> QED BY <1>3, <1>4

\* A Z-set within a set of rows.
LEMMA WithinZ ==
  ASSUME NEW z, IsZSet(z), NEW S
  PROVE  /\ IsZSet(Within(z, S)) /\ DOMAIN Within(z, S) = S \cap DOMAIN z
         /\ \A r : At(Within(z, S), r) = IF r \in S THEN At(z, r) ELSE 0
         /\ IsBag(z) => IsBag(Within(z, S))
<1>1. Within(z, S) = [r \in S \cap DOMAIN z |-> z[r]]
  BY TabledIs DEF Within
<1>2. IsFiniteSet(S \cap DOMAIN z)
  BY ZSetAt, FS_Subset
<1> QED BY <1>1, <1>2 DEF IsZSet, IsBag, At

\* Support: each row with a positive weight, once.
LEMMA SupportZ ==
  ASSUME NEW z, IsZSet(z)
  PROVE  IsBag(Support(z)) /\ \A r : At(Support(z), r) = IF At(z, r) > 0 THEN 1 ELSE 0
<1> DEFINE S == {s \in DOMAIN z : z[s] > 0}
<1>1. Support(z) = [r \in S |-> 1]
  BY TabledIs DEF Support
<1>2. IsFiniteSet(S)
  BY ZSetAt, FS_Subset
<1>3. \A r : r \in S <=> At(z, r) > 0
  BY ZSetAt DEF At
<1> HIDE DEF S
<1> QED BY <1>1, <1>2, <1>3 DEF IsZSet, IsBag, At

\* A bag has no other rows than its positive ones.
LEMMA BagAt ==
  ASSUME NEW z, IsBag(z)
  PROVE  /\ IsZSet(z) /\ \A r : At(z, r) \in Nat
         /\ Positive(z) = z
<1>1. IsZSet(z) /\ \A r : At(z, r) \in Nat
  BY DEF IsBag, IsZSet, At
<1>2. {r \in DOMAIN z : z[r] > 0} \cap DOMAIN z = DOMAIN z
  BY DEF IsBag
<1>3. Positive(z) = [r \in DOMAIN z |-> z[r]]
  BY <1>2, TabledIs DEF Positive, Within
<1> QED BY <1>1, <1>3 DEF IsZSet

\* A Z-set without negative weights is a bag.
LEMMA NaturalIsBag ==
  ASSUME NEW z, IsZSet(z), \A r : At(z, r) >= 0
  PROVE  IsBag(z)
BY DEF IsBag, IsZSet, At

-----------------------------------------------------------------------------
(* Sums of weights.                                                        *)

\* A sum of zeros.
LEMMA SumOfZeros ==
  ASSUME NEW S, IsFiniteSet(S), NEW f, \A x \in S : f[x] = 0
  PROVE  SumOf(f, S) = 0
<1> DEFINE Good == {T \in SUBSET S : SumOf(f, T) = 0}
<1>1. ASSUME NEW T \in SUBSET S, \A x \in T : T \ {x} \in Good
      PROVE  T \in Good
  <2>1. IsFiniteSet(T)
    BY FS_Subset
  <2>2. CASE T = {}
    BY <2>2, SumOfNone
  <2>3. CASE T # {}
    <3>1. PICK x \in T : TRUE
      BY <2>3
    <3>2. SumOf(f, T) = f[x] + SumOf(f, T \ {x})
      BY <2>1, SumTakesOut
    <3> QED BY <1>1, <3>1, <3>2
  <2> QED BY <2>2, <2>3
<1> HIDE DEF Good
<1>2. S \in Good
  BY <1>1, AllParts
<1> QED BY <1>2 DEF Good

\* Sums add term by term.
LEMMA SumsAdd ==
  ASSUME NEW S, IsFiniteSet(S), NEW f, NEW g, NEW h,
         \A x \in S : f[x] \in Int /\ g[x] \in Int /\ h[x] = f[x] + g[x]
  PROVE  SumOf(h, S) = SumOf(f, S) + SumOf(g, S)
<1> DEFINE Good == {T \in SUBSET S : SumOf(h, T) = SumOf(f, T) + SumOf(g, T)}
<1>1. ASSUME NEW T \in SUBSET S, \A x \in T : T \ {x} \in Good
      PROVE  T \in Good
  <2>1. IsFiniteSet(T)
    BY FS_Subset
  <2>2. CASE T = {}
    BY <2>2, SumOfNone
  <2>3. CASE T # {}
    <3>1. PICK x \in T : TRUE
      BY <2>3
    <3>2. IsFiniteSet(T \ {x})
      BY <2>1, FS_Subset
    <3>3. /\ SumOf(f, T) = f[x] + SumOf(f, T \ {x})
          /\ SumOf(g, T) = g[x] + SumOf(g, T \ {x})
          /\ SumOf(h, T) = h[x] + SumOf(h, T \ {x})
      BY <2>1, SumTakesOut
    <3>4. SumOf(f, T \ {x}) \in Int /\ SumOf(g, T \ {x}) \in Int
      BY <3>2, SumIsInteger
    <3>5. SumOf(h, T \ {x}) = SumOf(f, T \ {x}) + SumOf(g, T \ {x})
      BY <1>1, <3>1
    <3>6. f[x] \in Int /\ g[x] \in Int /\ h[x] = f[x] + g[x]
      OBVIOUS
    <3>7. SumOf(h, T) = SumOf(f, T) + SumOf(g, T)
      BY <3>3, <3>4, <3>5, <3>6
    <3> QED BY <3>7
  <2> QED BY <2>2, <2>3
<1> HIDE DEF Good
<1>2. S \in Good
  BY <1>1, AllParts
<1> QED BY <1>2 DEF Good

\* A sum of naturals is one.
LEMMA SumOfNaturals ==
  ASSUME NEW S, IsFiniteSet(S), NEW f, \A x \in S : f[x] \in Nat
  PROVE  SumOf(f, S) \in Nat
<1> DEFINE Good == {T \in SUBSET S : SumOf(f, T) \in Nat}
<1>1. ASSUME NEW T \in SUBSET S, \A x \in T : T \ {x} \in Good
      PROVE  T \in Good
  <2>1. IsFiniteSet(T)
    BY FS_Subset
  <2>2. CASE T = {}
    BY <2>2, SumOfNone
  <2>3. CASE T # {}
    <3>1. PICK x \in T : TRUE
      BY <2>3
    <3>2. SumOf(f, T) = f[x] + SumOf(f, T \ {x})
      BY <2>1, SumTakesOut
    <3> QED BY <1>1, <3>1, <3>2
  <2> QED BY <2>2, <2>3
<1> HIDE DEF Good
<1>2. S \in Good
  BY <1>1, AllParts
<1> QED BY <1>2 DEF Good

\* The weights of the rows in S together.
Mass(z, S) == SumOf(z, S \cap DOMAIN z)

\* The same with a weight, perhaps 0, for each row of a larger set.
LEMMA MassOver ==
  ASSUME NEW z, IsZSet(z), NEW S, NEW D, IsFiniteSet(D), DOMAIN z \subseteq D
  PROVE  /\ Mass(z, S) = SumOf([r \in D |-> At(z, r)], S \cap D)
         /\ Mass(z, S) \in Int
<1> DEFINE w == [r \in D |-> At(z, r)]
           in == S \cap DOMAIN z
           rest == (S \cap D) \ DOMAIN z
<1>1. IsFiniteSet(in) /\ IsFiniteSet(rest) /\ in \cap rest = {} /\ S \cap D = in \cup rest
  <2>1. IsFiniteSet(S \cap D)
    BY FS_Subset
  <2>2. in \subseteq S \cap D /\ rest \subseteq S \cap D
    OBVIOUS
  <2>3. IsFiniteSet(in) /\ IsFiniteSet(rest)
    BY <2>1, <2>2, FS_Subset
  <2> QED BY <2>3
<1>2. \A r \in in : z[r] \in Int /\ w[r] = z[r]
  BY DEF IsZSet, At
<1>3. \A r \in rest : w[r] = 0
  BY DEF At
<1>4. \A r \in in \cup rest : w[r] \in Int
  BY <1>2, <1>3
<1>5. Mass(z, S) = SumOf(z, in)
  BY DEF Mass
<1> HIDE DEF w, in, rest
<1>6. SumOf(w, in) = SumOf(z, in)
  BY <1>1, <1>2, SumsAgree
<1>7. SumOf(w, rest) = 0
  BY <1>1, <1>3, SumOfZeros
<1>8. SumOf(w, in \cup rest) = SumOf(w, in) + SumOf(w, rest)
  BY <1>1, <1>4, SumOfUnion
<1>9. SumOf(z, in) \in Int
  BY <1>1, <1>2, SumIsInteger
<1>10. SumOf(w, S \cap D) = SumOf(z, in) + 0
  BY <1>1, <1>6, <1>7, <1>8
<1>11. Mass(z, S) = SumOf(w, S \cap D)
  BY <1>5, <1>9, <1>10
<1> QED BY <1>5, <1>9, <1>11 DEF w

\* The weight of a set of rows is additive.
LEMMA MassAdds ==
  ASSUME NEW a, IsZSet(a), NEW b, IsZSet(b), NEW c, IsZSet(c),
         \A r : At(c, r) = At(a, r) + At(b, r), NEW S
  PROVE  Mass(c, S) = Mass(a, S) + Mass(b, S)
<1> DEFINE D == DOMAIN a \cup DOMAIN b \cup DOMAIN c
           f == [r \in D |-> At(a, r)]
           g == [r \in D |-> At(b, r)]
           h == [r \in D |-> At(c, r)]
<1>1. IsFiniteSet(D)
  BY ZSetAt, FS_Union
<1>2. DOMAIN a \subseteq D /\ DOMAIN b \subseteq D /\ DOMAIN c \subseteq D
  OBVIOUS
<1>3. (\A r : At(a, r) \in Int) /\ (\A r : At(b, r) \in Int)
  BY ZSetAt
<1>4. \A r \in S \cap D : f[r] \in Int /\ g[r] \in Int /\ h[r] = f[r] + g[r]
  BY <1>3
<1> HIDE DEF D
<1>5. Mass(a, S) = SumOf(f, S \cap D) /\ Mass(b, S) = SumOf(g, S \cap D) /\ Mass(c, S) = SumOf(h, S \cap D)
  BY <1>1, <1>2, MassOver
<1>6. IsFiniteSet(S \cap D)
  BY <1>1, FS_Subset
<1> HIDE DEF f, g, h
<1> QED BY <1>4, <1>5, <1>6, SumsAdd

-----------------------------------------------------------------------------
(* Rows made of rows.                                                      *)

\* The rows f makes y of.
Makers(z, f, y) == {r \in DOMAIN z : f[r] = y}

\* What Gathered makes of a Z-set, row by row: it keeps bags.
LEMMA GatheredZ ==
  ASSUME NEW z, IsZSet(z), NEW f
  PROVE  /\ IsZSet(Gathered(z, f))
         /\ \A y : At(Gathered(z, f), y) = SumOf(z, Makers(z, f, y))
         /\ IsBag(z) => IsBag(Gathered(z, f))
<1> DEFINE S == {f[r] : r \in DOMAIN z}
           w == [y \in S |-> SumOf(z, Makers(z, f, y))]
<1>1. \A y : IsFiniteSet(Makers(z, f, y)) /\ \A r \in Makers(z, f, y) : z[r] \in Int
  <2> SUFFICES ASSUME NEW y PROVE IsFiniteSet(Makers(z, f, y)) /\ \A r \in Makers(z, f, y) : z[r] \in Int
    OBVIOUS
  <2>1. Makers(z, f, y) \subseteq DOMAIN z
    BY DEF Makers
  <2> QED BY <2>1, FS_Subset DEF IsZSet
<1>2. IsFiniteSet(S)
  BY FiniteImage DEF IsZSet
<1>3. \A y \in S : w[y] \in Int
  BY <1>1, SumIsInteger
<1>4. Gathered(z, f) = [y \in {s \in S : w[s] # 0} |-> w[y]]
  BY TabledIs DEF Gathered, Collect, Makers
<1>5. \A y : y \notin S => SumOf(z, Makers(z, f, y)) = 0
  <2> SUFFICES ASSUME NEW y, y \notin S PROVE SumOf(z, Makers(z, f, y)) = 0
    OBVIOUS
  <2>1. Makers(z, f, y) = {}
    BY DEF Makers
  <2> QED BY <2>1, SumOfNone
<1>6. IsZSet(Gathered(z, f)) /\ \A y : At(Gathered(z, f), y) = IF y \in S THEN w[y] ELSE 0
  <2> HIDE DEF S, w
  <2> QED BY <1>2, <1>3, <1>4, NonZero
<1>7. \A y : At(Gathered(z, f), y) = SumOf(z, Makers(z, f, y))
  BY <1>5, <1>6
<1>8. ASSUME IsBag(z) PROVE IsBag(Gathered(z, f))
  <2>1. \A r \in DOMAIN z : z[r] \in Nat
    BY <1>8 DEF IsBag, IsZSet
  <2>2. \A y : SumOf(z, Makers(z, f, y)) \in Nat
    BY <1>1, <2>1, SumOfNaturals DEF Makers
  <2>3. \A y : At(Gathered(z, f), y) >= 0
    BY <1>7, <2>2
  <2> QED BY <1>6, <2>3, NaturalIsBag
<1> QED BY <1>6, <1>7, <1>8

\* What rows are made of adds up.
LEMMA GatheredAdds ==
  ASSUME NEW a, IsZSet(a), NEW b, IsZSet(b), NEW c, IsZSet(c),
         \A r : At(c, r) = At(a, r) + At(b, r),
         NEW g, NEW f, NEW h, NEW e,
         \A r \in DOMAIN a : f[r] = g[r], \A r \in DOMAIN b : h[r] = g[r],
         \A r \in DOMAIN c : e[r] = g[r]
  PROVE  \A y : At(Gathered(c, e), y) = At(Gathered(a, f), y) + At(Gathered(b, h), y)
<1> SUFFICES ASSUME NEW y
             PROVE  At(Gathered(c, e), y) = At(Gathered(a, f), y) + At(Gathered(b, h), y)
  OBVIOUS
<1> DEFINE S == {r \in DOMAIN a \cup DOMAIN b \cup DOMAIN c : g[r] = y}
<1>1. /\ Makers(a, f, y) = S \cap DOMAIN a /\ Makers(b, h, y) = S \cap DOMAIN b
      /\ Makers(c, e, y) = S \cap DOMAIN c
  BY DEF Makers
<1>2. Mass(c, S) = Mass(a, S) + Mass(b, S)
  <2> HIDE DEF S
  <2> QED BY MassAdds
<1>3. /\ At(Gathered(a, f), y) = Mass(a, S) /\ At(Gathered(b, h), y) = Mass(b, S)
      /\ At(Gathered(c, e), y) = Mass(c, S)
  <2>1. /\ At(Gathered(a, f), y) = SumOf(a, Makers(a, f, y))
        /\ At(Gathered(b, h), y) = SumOf(b, Makers(b, h, y))
        /\ At(Gathered(c, e), y) = SumOf(c, Makers(c, e, y))
    BY GatheredZ
  <2> HIDE DEF S
  <2> QED BY <1>1, <2>1 DEF Mass
<1> QED BY <1>2, <1>3

-----------------------------------------------------------------------------
(* Z-sets made of Z-sets.                                                  *)

\* Two bags add up to a bag.
LEMMA BagsAdd ==
  ASSUME NEW a, IsBag(a), NEW b, IsBag(b)
  PROVE  IsBag(Plus(a, b))
<1>1. IsZSet(Plus(a, b)) /\ \A r : At(Plus(a, b), r) = At(a, r) + At(b, r)
  BY PlusZ, BagAt
<1>2. (\A r : At(a, r) \in Nat) /\ (\A r : At(b, r) \in Nat)
  BY BagAt
<1> QED BY <1>1, <1>2, NaturalIsBag

\* The rows that g makes y of.
Fiber(g, y) == {r \in DOMAIN g : g[r] = y}

\* The weight of a gathered row is the weight of the rows it is made of.
LEMMA GatheredFiber ==
  ASSUME NEW z, IsZSet(z), NEW f, NEW g, DOMAIN z \subseteq DOMAIN g,
         \A r \in DOMAIN z : f[r] = g[r], NEW y
  PROVE  At(Gathered(z, f), y) = Mass(z, Fiber(g, y))
<1>1. Makers(z, f, y) = Fiber(g, y) \cap DOMAIN z
  BY DEF Makers, Fiber
<1>2. At(Gathered(z, f), y) = SumOf(z, Makers(z, f, y))
  BY GatheredZ
<1> QED BY <1>1, <1>2 DEF Mass

-----------------------------------------------------------------------------
(* Arithmetic.                                                             *)

\* A product of weights is no zero.
LEMMA Nonzero ==
  ASSUME NEW a \in Int, NEW b \in Int
  PROVE  /\ a * b \in Int
         /\ a # 0 /\ b # 0 => a * b # 0
         /\ a > 0 /\ b > 0 => a * b > 0
         /\ 0 * b = 0 /\ a * 0 = 0
OBVIOUS

\* The product rule of two differences.
LEMMA ProductRule ==
  ASSUME NEW n \in Int, NEW m \in Int, NEW p \in Int, NEW q \in Int
  PROVE  ((n - p) * m + n * (m - q)) + p * q = n * m + (n - p) * (m - q)
OBVIOUS

-----------------------------------------------------------------------------
(* Joins.                                                                  *)

\* The matched pairs of rows with their weights.
Met(node, l, r) ==
  [p \in {p \in (DOMAIN l) \X (DOMAIN r) : Matched(node, p[1], p[2])} |-> l[p[1]] * r[p[2]]]

Concatenated(D) == [p \in D |-> p[1] \o p[2]]

\* The inner join gathers the matched pairs.
LEMMA InnerIs ==
  ASSUME NEW node, NEW l, NEW r
  PROVE  Inner(node, l, r) = Gathered(Met(node, l, r), Concatenated(DOMAIN Met(node, l, r)))
BY TabledIs DEF Inner, Product, Image, Met, Concatenated

\* The matched pairs of two Z-sets, each with the product of the weights.
LEMMA MetZ ==
  ASSUME NEW node, NEW l, IsZSet(l), NEW r, IsZSet(r)
  PROVE  /\ IsZSet(Met(node, l, r))
         /\ DOMAIN Met(node, l, r) = {p \in (DOMAIN l) \X (DOMAIN r) : Matched(node, p[1], p[2])}
         /\ \A p \in DOMAIN Met(node, l, r) : Met(node, l, r)[p] = l[p[1]] * r[p[2]]
         /\ IsBag(l) /\ IsBag(r) => IsBag(Met(node, l, r))
<1> DEFINE S == {p \in (DOMAIN l) \X (DOMAIN r) : Matched(node, p[1], p[2])}
<1>1. IsFiniteSet(S)
  <2>1. IsFiniteSet((DOMAIN l) \X (DOMAIN r))
    BY FS_Product DEF IsZSet
  <2> QED BY <2>1, FS_Subset
<1>2. /\ DOMAIN Met(node, l, r) = S
      /\ \A p \in S : Met(node, l, r)[p] = l[p[1]] * r[p[2]]
      /\ Met(node, l, r) = [p \in S |-> Met(node, l, r)[p]]
  BY DEF Met
<1>3. \A p \in S : /\ l[p[1]] \in Int /\ l[p[1]] # 0 /\ r[p[2]] \in Int /\ r[p[2]] # 0
                   /\ IsBag(l) => l[p[1]] > 0
                   /\ IsBag(r) => r[p[2]] > 0
  BY DEF IsZSet, IsBag
<1> HIDE DEF S
<1>4. IsZSet(Met(node, l, r))
  BY <1>1, <1>2, <1>3, Nonzero DEF IsZSet
<1>5. IsBag(l) /\ IsBag(r) => IsBag(Met(node, l, r))
  BY <1>2, <1>3, <1>4, Nonzero DEF IsBag
<1> QED BY <1>2, <1>4, <1>5 DEF S

\* The weight of a pair, matched or not.
LEMMA MetAt ==
  ASSUME NEW node, NEW l, IsZSet(l), NEW r, IsZSet(r), NEW x, NEW y
  PROVE  At(Met(node, l, r), <<x, y>>) = IF Matched(node, x, y) THEN At(l, x) * At(r, y) ELSE 0
<1>1. At(l, x) \in Int /\ At(r, y) \in Int
  BY ZSetAt
<1>2. /\ <<x, y>>[1] = x /\ <<x, y>>[2] = y
      /\ <<x, y>> \in (DOMAIN l) \X (DOMAIN r) <=> x \in DOMAIN l /\ y \in DOMAIN r
  OBVIOUS
<1>3. /\ <<x, y>> \in DOMAIN Met(node, l, r)
           <=> x \in DOMAIN l /\ y \in DOMAIN r /\ Matched(node, x, y)
      /\ <<x, y>> \in DOMAIN Met(node, l, r) => Met(node, l, r)[<<x, y>>] = l[x] * r[y]
  <2> DEFINE S == {p \in (DOMAIN l) \X (DOMAIN r) : Matched(node, p[1], p[2])}
  <2>1. /\ DOMAIN Met(node, l, r) = S
        /\ \A p \in DOMAIN Met(node, l, r) : Met(node, l, r)[p] = l[p[1]] * r[p[2]]
    BY DEF Met
  <2>2. <<x, y>> \in S <=> x \in DOMAIN l /\ y \in DOMAIN r /\ Matched(node, x, y)
    BY <1>2
  <2> HIDE DEF S
  <2>3. <<x, y>> \in S => Met(node, l, r)[<<x, y>>] = l[<<x, y>>[1]] * r[<<x, y>>[2]]
    BY <2>1
  <2> QED BY <1>2, <2>1, <2>2, <2>3
<1>4. CASE x \in DOMAIN l /\ y \in DOMAIN r
  BY <1>3, <1>4 DEF At
<1>5. CASE ~(x \in DOMAIN l /\ y \in DOMAIN r)
  <2>1. At(l, x) = 0 \/ At(r, y) = 0
    BY <1>5 DEF At
  <2>2. At(l, x) * At(r, y) = 0
    BY <1>1, <2>1, Nonzero
  <2>3. At(Met(node, l, r), <<x, y>>) = 0
    BY <1>3, <1>5 DEF At
  <2> QED BY <2>2, <2>3
<1> QED BY <1>4, <1>5

\* What is not a pair has no weight.
LEMMA MetOfPairs ==
  ASSUME NEW node, NEW l, NEW r, NEW p, p # <<p[1], p[2]>>
  PROVE  At(Met(node, l, r), p) = 0
<1>1. DOMAIN Met(node, l, r) \subseteq (DOMAIN l) \X (DOMAIN r)
  BY DEF Met
<1>2. p \notin (DOMAIN l) \X (DOMAIN r)
  OBVIOUS
<1> QED BY <1>1, <1>2 DEF At

\* An inner join is a sum over the pairs each row is concatenated from.
LEMMA InnerAt ==
  ASSUME NEW node, NEW l, IsZSet(l), NEW r, IsZSet(r), NEW D,
         DOMAIN Met(node, l, r) \subseteq D
  PROVE  /\ IsZSet(Inner(node, l, r))
         /\ IsBag(l) /\ IsBag(r) => IsBag(Inner(node, l, r))
         /\ \A y : At(Inner(node, l, r), y) = Mass(Met(node, l, r), Fiber(Concatenated(D), y))
<1> DEFINE z == Met(node, l, r)
           f == Concatenated(DOMAIN z)
<1>1. IsZSet(z) /\ (IsBag(l) /\ IsBag(r) => IsBag(z))
  BY MetZ
<1>2. Inner(node, l, r) = Gathered(z, f)
  BY InnerIs
<1>3. \A p \in DOMAIN z : f[p] = Concatenated(D)[p]
  BY DEF Concatenated
<1>4. DOMAIN Concatenated(D) = D
  BY DEF Concatenated
<1> HIDE DEF z, f
<1>5. IsZSet(Gathered(z, f)) /\ (IsBag(z) => IsBag(Gathered(z, f)))
  BY <1>1, GatheredZ
<1>6. DOMAIN z \subseteq DOMAIN Concatenated(D)
  BY <1>4 DEF z
<1>7. \A y : At(Gathered(z, f), y) = Mass(z, Fiber(Concatenated(D), y))
  BY <1>1, <1>3, <1>6, GatheredFiber
<1> QED BY <1>1, <1>2, <1>5, <1>7 DEF z

\* dL * R + L * dR - dL * dR is the change of L * R, L and R already changed.
LEMMA InnerDelta ==
  ASSUME NEW node, NEW nl, IsZSet(nl), NEW pl, IsZSet(pl), NEW nr, IsZSet(nr), NEW pr, IsZSet(pr),
         NEW dl, dl = Minus(nl, pl), NEW dr, dr = Minus(nr, pr)
  PROVE  Minus(Plus(Inner(node, dl, nr), Inner(node, nl, dr)), Inner(node, dl, dr))
           = Minus(Inner(node, nl, nr), Inner(node, pl, pr))
<1> DEFINE A == Met(node, dl, nr)
           B == Met(node, nl, dr)
           C == Met(node, dl, dr)
           N == Met(node, nl, nr)
           P == Met(node, pl, pr)
           D == UNION {DOMAIN A, DOMAIN B, DOMAIN C, DOMAIN N, DOMAIN P}
           S(y) == Fiber(Concatenated(D), y)
<1>1. /\ IsZSet(dl) /\ \A x : At(dl, x) = At(nl, x) - At(pl, x)
      /\ IsZSet(dr) /\ \A x : At(dr, x) = At(nr, x) - At(pr, x)
  BY MinusZ
<1>2. IsZSet(A) /\ IsZSet(B) /\ IsZSet(C) /\ IsZSet(N) /\ IsZSet(P)
  BY <1>1, MetZ
<1>3. \A p : (At(A, p) + At(B, p)) + At(P, p) = At(N, p) + At(C, p)
  <2> SUFFICES ASSUME NEW p
               PROVE  (At(A, p) + At(B, p)) + At(P, p) = At(N, p) + At(C, p)
    OBVIOUS
  <2>1. CASE p # <<p[1], p[2]>>
    <3>1. At(A, p) = 0 /\ At(B, p) = 0 /\ At(C, p) = 0 /\ At(N, p) = 0 /\ At(P, p) = 0
      BY <2>1, MetOfPairs
    <3> QED BY <3>1
  <2>2. CASE p = <<p[1], p[2]>>
    <3> DEFINE x == p[1]
               y == p[2]
               m == Matched(node, x, y)
    <3>1. /\ At(A, p) = IF m THEN At(dl, x) * At(nr, y) ELSE 0
          /\ At(B, p) = IF m THEN At(nl, x) * At(dr, y) ELSE 0
          /\ At(C, p) = IF m THEN At(dl, x) * At(dr, y) ELSE 0
          /\ At(N, p) = IF m THEN At(nl, x) * At(nr, y) ELSE 0
          /\ At(P, p) = IF m THEN At(pl, x) * At(pr, y) ELSE 0
      BY <1>1, <2>2, MetAt
    <3>2. /\ At(nl, x) \in Int /\ At(pl, x) \in Int /\ At(nr, y) \in Int /\ At(pr, y) \in Int
      BY ZSetAt
    <3>3. /\ At(dl, x) = At(nl, x) - At(pl, x)
          /\ At(dr, y) = At(nr, y) - At(pr, y)
      BY <1>1
    <3> HIDE DEF x, y, m
    <3>4. ((At(dl, x) * At(nr, y)) + (At(nl, x) * At(dr, y))) + (At(pl, x) * At(pr, y))
            = (At(nl, x) * At(nr, y)) + (At(dl, x) * At(dr, y))
      BY <3>2, <3>3, ProductRule
    <3>5. CASE m
      BY <3>1, <3>4, <3>5
    <3>6. CASE ~m
      BY <3>1, <3>6
    <3> QED BY <3>5, <3>6
  <2> QED BY <2>1, <2>2
<1>4. \A y : /\ At(Inner(node, dl, nr), y) = Mass(A, S(y)) /\ IsZSet(Inner(node, dl, nr))
             /\ At(Inner(node, nl, dr), y) = Mass(B, S(y)) /\ IsZSet(Inner(node, nl, dr))
             /\ At(Inner(node, dl, dr), y) = Mass(C, S(y)) /\ IsZSet(Inner(node, dl, dr))
             /\ At(Inner(node, nl, nr), y) = Mass(N, S(y)) /\ IsZSet(Inner(node, nl, nr))
             /\ At(Inner(node, pl, pr), y) = Mass(P, S(y)) /\ IsZSet(Inner(node, pl, pr))
  <2>1. /\ DOMAIN Met(node, dl, nr) \subseteq D /\ DOMAIN Met(node, nl, dr) \subseteq D
        /\ DOMAIN Met(node, dl, dr) \subseteq D /\ DOMAIN Met(node, nl, nr) \subseteq D
        /\ DOMAIN Met(node, pl, pr) \subseteq D
    OBVIOUS
  <2> HIDE DEF D
  <2> QED BY <1>1, <2>1, InnerAt
<1> HIDE DEF A, B, C, N, P, S
<1>5. \A y : (Mass(A, S(y)) + Mass(B, S(y))) + Mass(P, S(y)) = Mass(N, S(y)) + Mass(C, S(y))
  <2> DEFINE X == Plus(A, B)
             Y == Plus(X, P)
  <2>1. IsZSet(X) /\ \A p : At(X, p) = At(A, p) + At(B, p)
    BY <1>2, PlusZ
  <2>2. IsZSet(Y) /\ \A p : At(Y, p) = At(X, p) + At(P, p)
    BY <1>2, <2>1, PlusZ
  <2>3. \A p : At(Y, p) = At(N, p) + At(C, p)
    BY <1>3, <2>1, <2>2
  <2> HIDE DEF X, Y
  <2> TAKE y
  <2>4. Mass(X, S(y)) = Mass(A, S(y)) + Mass(B, S(y))
    BY <1>2, <2>1, MassAdds
  <2>5. Mass(Y, S(y)) = Mass(X, S(y)) + Mass(P, S(y))
    BY <1>2, <2>1, <2>2, MassAdds
  <2>6. Mass(Y, S(y)) = Mass(N, S(y)) + Mass(C, S(y))
    BY <1>2, <2>2, <2>3, MassAdds
  <2> QED BY <2>4, <2>5, <2>6
<1>6. \A y : /\ Mass(A, S(y)) \in Int /\ Mass(B, S(y)) \in Int /\ Mass(C, S(y)) \in Int
             /\ Mass(N, S(y)) \in Int /\ Mass(P, S(y)) \in Int
  BY <1>2, MassOver DEF IsZSet
<1> DEFINE L == Plus(Inner(node, dl, nr), Inner(node, nl, dr))
           Left == Minus(L, Inner(node, dl, dr))
           Right == Minus(Inner(node, nl, nr), Inner(node, pl, pr))
<1>7. IsZSet(L) /\ \A y : At(L, y) = Mass(A, S(y)) + Mass(B, S(y))
  BY <1>4, PlusZ
<1>8. IsZSet(Left) /\ \A y : At(Left, y) = At(L, y) - Mass(C, S(y))
  BY <1>4, <1>7, MinusZ
<1>9. IsZSet(Right) /\ \A y : At(Right, y) = Mass(N, S(y)) - Mass(P, S(y))
  BY <1>4, MinusZ
<1> HIDE DEF L, Left, Right
<1>10. \A y : At(Left, y) = At(Right, y)
  BY <1>5, <1>6, <1>7, <1>8, <1>9
<1>11. Left = Right
  BY <1>8, <1>9, <1>10, ZSetsEqual
<1> QED BY <1>11 DEF L, Left, Right

-----------------------------------------------------------------------------
(* An input in two parts that have nothing to do with each other.          *)

\* Row by row, c is a and b together.
Adds(c, a, b) == \A r : At(c, r) = At(a, r) + At(b, r)

Splits(c, a, b) ==
  /\ DOMAIN c = DOMAIN a \cup DOMAIN b /\ DOMAIN a \cap DOMAIN b = {}
  /\ \A r \in DOMAIN a : a[r] = c[r]
  /\ \A r \in DOMAIN b : b[r] = c[r]

\* The parts of a split, row by row.
LEMMA SplitsAt ==
  ASSUME NEW c, IsZSet(c), NEW a, IsZSet(a), NEW b, IsZSet(b), Splits(c, a, b)
  PROVE  \A r : At(c, r) = At(a, r) + At(b, r)
<1> SUFFICES ASSUME NEW r PROVE At(c, r) = At(a, r) + At(b, r)
  OBVIOUS
<1>1. CASE r \in DOMAIN a
  <2>1. r \notin DOMAIN b /\ r \in DOMAIN c /\ a[r] = c[r]
    BY <1>1 DEF Splits
  <2>2. c[r] \in Int
    BY <2>1 DEF IsZSet
  <2> QED BY <1>1, <2>1, <2>2 DEF At
<1>2. CASE r \in DOMAIN b
  <2>1. r \notin DOMAIN a /\ r \in DOMAIN c /\ b[r] = c[r]
    BY <1>2 DEF Splits
  <2>2. c[r] \in Int
    BY <2>1 DEF IsZSet
  <2> QED BY <1>2, <2>1, <2>2 DEF At
<1>3. CASE r \notin DOMAIN a /\ r \notin DOMAIN b
  BY <1>3 DEF At, Splits
<1> QED BY <1>1, <1>2, <1>3

\* The two parts of an input's rows.
LEMMA PartsSplit ==
  ASSUME NEW z, IsZSet(z), NEW R, NEW Q, R \cap Q = {}, DOMAIN z \subseteq R \cup Q
  PROVE  Splits(z, Within(z, R), Within(z, Q))
<1>1. /\ Within(z, R) = [r \in R \cap DOMAIN z |-> z[r]]
      /\ Within(z, Q) = [r \in Q \cap DOMAIN z |-> z[r]]
  BY TabledIs DEF Within
<1> QED BY <1>1 DEF Splits

\* No row of one part matches a row of the other part.
Apart(node, la, lb, ra, rb) ==
  /\ \A x \in DOMAIN la : \A y \in DOMAIN rb : ~Matched(node, x, y)
  /\ \A x \in DOMAIN lb : \A y \in DOMAIN ra : ~Matched(node, x, y)

\* Pairs of apart parts: no row of one matches a row of the other.
LEMMA MetSplits ==
  ASSUME NEW node,
         NEW l, IsZSet(l), NEW la, IsZSet(la), NEW lb, IsZSet(lb), Splits(l, la, lb),
         NEW r, IsZSet(r), NEW ra, IsZSet(ra), NEW rb, IsZSet(rb), Splits(r, ra, rb),
         Apart(node, la, lb, ra, rb)
  PROVE  \A p : At(Met(node, l, r), p) = At(Met(node, la, ra), p) + At(Met(node, lb, rb), p)
<1> SUFFICES ASSUME NEW p
             PROVE  At(Met(node, l, r), p) = At(Met(node, la, ra), p) + At(Met(node, lb, rb), p)
  OBVIOUS
<1>1. CASE p # <<p[1], p[2]>>
  <2>1. At(Met(node, l, r), p) = 0 /\ At(Met(node, la, ra), p) = 0 /\ At(Met(node, lb, rb), p) = 0
    BY <1>1, MetOfPairs
  <2> QED BY <2>1
<1>2. CASE p = <<p[1], p[2]>>
  <2> DEFINE x == p[1]
             y == p[2]
             m == Matched(node, x, y)
  <2>1. /\ At(Met(node, l, r), p) = IF m THEN At(l, x) * At(r, y) ELSE 0
        /\ At(Met(node, la, ra), p) = IF m THEN At(la, x) * At(ra, y) ELSE 0
        /\ At(Met(node, lb, rb), p) = IF m THEN At(lb, x) * At(rb, y) ELSE 0
    BY <1>2, MetAt
  <2>2. /\ At(la, x) \in Int /\ At(lb, x) \in Int /\ At(ra, y) \in Int /\ At(rb, y) \in Int
    BY ZSetAt
  <2>3. At(l, x) = At(la, x) + At(lb, x) /\ At(r, y) = At(ra, y) + At(rb, y)
    BY SplitsAt
  <2>4. CASE ~m
    BY <2>1, <2>4
  <2>5. CASE m
    <3>1. /\ At(la, x) = 0 \/ At(rb, y) = 0
          /\ At(lb, x) = 0 \/ At(ra, y) = 0
          /\ At(la, x) = 0 \/ At(lb, x) = 0
          /\ At(ra, y) = 0 \/ At(rb, y) = 0
      BY <2>5 DEF Apart, At, Splits
    <3> HIDE DEF x, y, m
    <3>2. At(l, x) * At(r, y) = (At(la, x) * At(ra, y)) + (At(lb, x) * At(rb, y))
      <4>1. CASE At(la, x) = 0 /\ At(lb, x) = 0
        BY <2>2, <2>3, <4>1, Nonzero
      <4>2. CASE At(la, x) = 0 /\ At(lb, x) # 0
        <5>1. At(ra, y) = 0
          BY <3>1, <4>2
        <5>2. At(l, x) = At(lb, x) /\ At(r, y) = At(rb, y)
          BY <2>2, <2>3, <4>2, <5>1
        <5> QED BY <2>2, <4>2, <5>1, <5>2, Nonzero
      <4>3. CASE At(la, x) # 0
        <5>1. At(lb, x) = 0 /\ At(rb, y) = 0
          BY <3>1, <4>3
        <5>2. At(l, x) = At(la, x) /\ At(r, y) = At(ra, y)
          BY <2>2, <2>3, <5>1
        <5> QED BY <2>2, <5>1, <5>2, Nonzero
      <4> QED BY <4>1, <4>2, <4>3
    <3> QED BY <2>1, <2>5, <3>2
  <2> QED BY <2>4, <2>5
<1> QED BY <1>1, <1>2

\* The inner join of two parts that do not meet is the sum of the joins.
LEMMA InnerSplits ==
  ASSUME NEW node,
         NEW l, IsZSet(l), NEW la, IsZSet(la), NEW lb, IsZSet(lb), Splits(l, la, lb),
         NEW r, IsZSet(r), NEW ra, IsZSet(ra), NEW rb, IsZSet(rb), Splits(r, ra, rb),
         Apart(node, la, lb, ra, rb)
  PROVE  Adds(Inner(node, l, r), Inner(node, la, ra), Inner(node, lb, rb))
<1> DEFINE N == Met(node, l, r)
           A == Met(node, la, ra)
           B == Met(node, lb, rb)
           D == UNION {DOMAIN N, DOMAIN A, DOMAIN B}
<1>1. IsZSet(N) /\ IsZSet(A) /\ IsZSet(B)
  BY MetZ
<1>2. \A p : At(N, p) = At(A, p) + At(B, p)
  BY MetSplits
<1>3. \A y : /\ At(Inner(node, l, r), y) = Mass(N, Fiber(Concatenated(D), y))
             /\ At(Inner(node, la, ra), y) = Mass(A, Fiber(Concatenated(D), y))
             /\ At(Inner(node, lb, rb), y) = Mass(B, Fiber(Concatenated(D), y))
  <2>1. DOMAIN Met(node, l, r) \subseteq D /\ DOMAIN Met(node, la, ra) \subseteq D
          /\ DOMAIN Met(node, lb, rb) \subseteq D
    OBVIOUS
  <2> HIDE DEF D
  <2> QED BY <2>1, InnerAt
<1> HIDE DEF N, A, B, D
<1> QED BY <1>1, <1>2, <1>3, MassAdds DEF Adds

\* The rows that match nothing, and the others.
LoneIn(node, l, r)  == {x \in DOMAIN l : Lone(node, x, r)}
LoneInR(node, l, r) == {y \in DOMAIN r : LoneR(node, l, y)}

\* Whether a row matches any is decided in its part.
SameLone(node, l, la, lb, r, ra, rb) ==
  /\ \A x \in DOMAIN la : x \in LoneIn(node, l, r) <=> x \in LoneIn(node, la, ra)
  /\ \A x \in DOMAIN lb : x \in LoneIn(node, l, r) <=> x \in LoneIn(node, lb, rb)
  /\ \A y \in DOMAIN ra : y \in LoneInR(node, l, r) <=> y \in LoneInR(node, la, ra)
  /\ \A y \in DOMAIN rb : y \in LoneInR(node, l, r) <=> y \in LoneInR(node, lb, rb)

\* A row without a match in its own part has none in the whole.
LEMMA LoneSplits ==
  ASSUME NEW node,
         NEW l, NEW la, NEW lb, Splits(l, la, lb),
         NEW r, NEW ra, NEW rb, Splits(r, ra, rb),
         Apart(node, la, lb, ra, rb)
  PROVE  SameLone(node, l, la, lb, r, ra, rb)
<1>1. DOMAIN l = DOMAIN la \cup DOMAIN lb /\ DOMAIN r = DOMAIN ra \cup DOMAIN rb
  BY DEF Splits
<1>2. /\ \A x \in DOMAIN la : Lone(node, x, r) <=> Lone(node, x, ra)
      /\ \A x \in DOMAIN lb : Lone(node, x, r) <=> Lone(node, x, rb)
      /\ \A y \in DOMAIN ra : LoneR(node, l, y) <=> LoneR(node, la, y)
      /\ \A y \in DOMAIN rb : LoneR(node, l, y) <=> LoneR(node, lb, y)
  BY <1>1 DEF Lone, LoneR, Apart
<1> QED BY <1>1, <1>2 DEF SameLone, LoneIn, LoneInR

\* A choice of rows that is made part by part.
LEMMA ChoiceSplits ==
  ASSUME NEW c, IsZSet(c), NEW a, IsZSet(a), NEW b, IsZSet(b), Splits(c, a, b),
         NEW C, NEW A, NEW B,
         \A r \in DOMAIN a : r \in C <=> r \in A,
         \A r \in DOMAIN b : r \in C <=> r \in B
  PROVE  Adds(Within(c, C), Within(a, A), Within(b, B))
<1> SUFFICES ASSUME NEW r
             PROVE  At(Within(c, C), r) = At(Within(a, A), r) + At(Within(b, B), r)
  BY DEF Adds
<1>1. /\ At(Within(c, C), r) = IF r \in C THEN At(c, r) ELSE 0
      /\ At(Within(a, A), r) = IF r \in A THEN At(a, r) ELSE 0
      /\ At(Within(b, B), r) = IF r \in B THEN At(b, r) ELSE 0
  BY WithinZ
<1>2. At(c, r) = At(a, r) + At(b, r) /\ At(a, r) \in Int /\ At(b, r) \in Int
  BY SplitsAt, ZSetAt
<1>3. (r \notin DOMAIN a => At(a, r) = 0) /\ (r \notin DOMAIN b => At(b, r) = 0)
  BY DEF At
<1>4. r \notin DOMAIN a \/ r \notin DOMAIN b
  BY DEF Splits
<1>5. CASE r \in DOMAIN a
  <2>1. (r \in C <=> r \in A) /\ At(b, r) = 0
    BY <1>3, <1>4, <1>5
  <2> QED BY <1>1, <1>2, <2>1
<1>6. CASE r \in DOMAIN b
  <2>1. (r \in C <=> r \in B) /\ At(a, r) = 0
    BY <1>3, <1>4, <1>6
  <2> QED BY <1>1, <1>2, <2>1
<1>7. CASE r \notin DOMAIN a /\ r \notin DOMAIN b
  BY <1>1, <1>2, <1>3, <1>7
<1> QED BY <1>5, <1>6, <1>7

\* What an outer join adds for the rows that match nothing.
PaddedRow(rf, D)  == [x \in D |-> x \o Nulls(rf)]
PaddedRowR(lf, D) == [y \in D |-> Nulls(lf) \o y]

\* The padded rows of an outer join gather the rows without a match.
LEMMA PaddedIs ==
  ASSUME NEW node, NEW l, NEW r, NEW fields
  PROVE  /\ Padded(node, l, r, fields)
              = Gathered(Within(l, LoneIn(node, l, r)),
                         PaddedRow(fields, DOMAIN Within(l, LoneIn(node, l, r))))
         /\ PaddedR(node, l, r, fields)
              = Gathered(Within(r, LoneInR(node, l, r)),
                         PaddedRowR(fields, DOMAIN Within(r, LoneInR(node, l, r))))
BY TabledIs DEF Padded, PaddedR, Image, Where, LoneIn, LoneInR, PaddedRow, PaddedRowR

\* They are a Z-set, and a bag if their input is one.
LEMMA PaddedZ ==
  ASSUME NEW node, NEW l, IsZSet(l), NEW r, IsZSet(r), NEW fields
  PROVE  /\ IsZSet(Padded(node, l, r, fields)) /\ IsZSet(PaddedR(node, l, r, fields))
         /\ IsBag(l) => IsBag(Padded(node, l, r, fields))
         /\ IsBag(r) => IsBag(PaddedR(node, l, r, fields))
<1> DEFINE A == Within(l, LoneIn(node, l, r))
           B == Within(r, LoneInR(node, l, r))
<1>1. IsZSet(A) /\ (IsBag(l) => IsBag(A)) /\ IsZSet(B) /\ (IsBag(r) => IsBag(B))
  BY WithinZ
<1>2. /\ Padded(node, l, r, fields) = Gathered(A, PaddedRow(fields, DOMAIN A))
      /\ PaddedR(node, l, r, fields) = Gathered(B, PaddedRowR(fields, DOMAIN B))
  BY PaddedIs
<1> HIDE DEF A, B
<1> QED BY <1>1, <1>2, GatheredZ

\* They add over parts that do not meet.
LEMMA PaddedSplits ==
  ASSUME NEW node, NEW fields,
         NEW l, IsZSet(l), NEW la, IsZSet(la), NEW lb, IsZSet(lb), Splits(l, la, lb),
         NEW r, IsZSet(r), NEW ra, IsZSet(ra), NEW rb, IsZSet(rb), Splits(r, ra, rb),
         Apart(node, la, lb, ra, rb)
  PROVE  /\ Adds(Padded(node, l, r, fields), Padded(node, la, ra, fields), Padded(node, lb, rb, fields))
         /\ Adds(PaddedR(node, l, r, fields), PaddedR(node, la, ra, fields),
                 PaddedR(node, lb, rb, fields))
<1>0. SameLone(node, l, la, lb, r, ra, rb)
  BY LoneSplits
<1>1. Adds(Padded(node, l, r, fields), Padded(node, la, ra, fields), Padded(node, lb, rb, fields))
  <2> DEFINE N == Within(l, LoneIn(node, l, r))
             A == Within(la, LoneIn(node, la, ra))
             B == Within(lb, LoneIn(node, lb, rb))
             D == UNION {DOMAIN N, DOMAIN A, DOMAIN B}
             g == PaddedRow(fields, D)
  <2>1. IsZSet(N) /\ IsZSet(A) /\ IsZSet(B)
    BY WithinZ
  <2>2. Adds(N, A, B)
    BY <1>0, ChoiceSplits DEF SameLone
  <2>3. /\ \A x \in DOMAIN N : PaddedRow(fields, DOMAIN N)[x] = g[x]
        /\ \A x \in DOMAIN A : PaddedRow(fields, DOMAIN A)[x] = g[x]
        /\ \A x \in DOMAIN B : PaddedRow(fields, DOMAIN B)[x] = g[x]
    BY DEF PaddedRow
  <2>4. /\ Padded(node, l, r, fields) = Gathered(N, PaddedRow(fields, DOMAIN N))
        /\ Padded(node, la, ra, fields) = Gathered(A, PaddedRow(fields, DOMAIN A))
        /\ Padded(node, lb, rb, fields) = Gathered(B, PaddedRow(fields, DOMAIN B))
    BY PaddedIs
  <2> HIDE DEF N, A, B, g
  <2> QED BY <2>1, <2>2, <2>3, <2>4, GatheredAdds DEF Adds
<1>2. Adds(PaddedR(node, l, r, fields), PaddedR(node, la, ra, fields), PaddedR(node, lb, rb, fields))
  <2> DEFINE N == Within(r, LoneInR(node, l, r))
             A == Within(ra, LoneInR(node, la, ra))
             B == Within(rb, LoneInR(node, lb, rb))
             D == UNION {DOMAIN N, DOMAIN A, DOMAIN B}
             g == PaddedRowR(fields, D)
  <2>1. IsZSet(N) /\ IsZSet(A) /\ IsZSet(B)
    BY WithinZ
  <2>2. Adds(N, A, B)
    BY <1>0, ChoiceSplits DEF SameLone
  <2>3. /\ \A x \in DOMAIN N : PaddedRowR(fields, DOMAIN N)[x] = g[x]
        /\ \A x \in DOMAIN A : PaddedRowR(fields, DOMAIN A)[x] = g[x]
        /\ \A x \in DOMAIN B : PaddedRowR(fields, DOMAIN B)[x] = g[x]
    BY DEF PaddedRowR
  <2>4. /\ PaddedR(node, l, r, fields) = Gathered(N, PaddedRowR(fields, DOMAIN N))
        /\ PaddedR(node, la, ra, fields) = Gathered(A, PaddedRowR(fields, DOMAIN A))
        /\ PaddedR(node, lb, rb, fields) = Gathered(B, PaddedRowR(fields, DOMAIN B))
    BY PaddedIs
  <2> HIDE DEF N, A, B, g
  <2> QED BY <2>1, <2>2, <2>3, <2>4, GatheredAdds DEF Adds
<1> QED BY <1>1, <1>2

Modes == {"inner", "left", "right", "full", "semi", "anti"}

\* The join modes (src/1c_materialize.rs:135): inner,
LEMMA JoinedInner ==
  ASSUME NEW node, node.mode = "inner", NEW l, NEW r, NEW lf, NEW rf
  PROVE  Joined(node, l, r, lf, rf) = Inner(node, l, r)
BY DEF Joined

\* left,
LEMMA JoinedLeft ==
  ASSUME NEW node, node.mode = "left", NEW l, NEW r, NEW lf, NEW rf
  PROVE  Joined(node, l, r, lf, rf) = Plus(Inner(node, l, r), Padded(node, l, r, rf))
BY DEF Joined

\* right,
LEMMA JoinedRight ==
  ASSUME NEW node, node.mode = "right", NEW l, NEW r, NEW lf, NEW rf
  PROVE  Joined(node, l, r, lf, rf) = Plus(Inner(node, l, r), PaddedR(node, l, r, lf))
BY DEF Joined

\* full,
LEMMA JoinedFull ==
  ASSUME NEW node, node.mode = "full", NEW l, NEW r, NEW lf, NEW rf
  PROVE  Joined(node, l, r, lf, rf)
           = Plus(Plus(Inner(node, l, r), Padded(node, l, r, rf)), PaddedR(node, l, r, lf))
BY DEF Joined

\* semi,
LEMMA JoinedSemi ==
  ASSUME NEW node, node.mode = "semi", NEW l, NEW r, NEW lf, NEW rf
  PROVE  Joined(node, l, r, lf, rf) = Within(l, DOMAIN l \ LoneIn(node, l, r))
<1>1. DOMAIN l \ LoneIn(node, l, r) = {x \in DOMAIN l : ~Lone(node, x, r)}
  BY DEF LoneIn
<1> QED BY <1>1 DEF Joined, Where

\* and anti.
LEMMA JoinedAnti ==
  ASSUME NEW node, node.mode = "anti", NEW l, NEW r, NEW lf, NEW rf
  PROVE  Joined(node, l, r, lf, rf) = Within(l, LoneIn(node, l, r))
BY DEF Joined, Where, LoneIn

\* A join of bags is a bag.
LEMMA JoinedZ ==
  ASSUME NEW node, node.mode \in Modes, NEW l, IsBag(l), NEW r, IsBag(r), NEW lf, NEW rf
  PROVE  IsBag(Joined(node, l, r, lf, rf))
<1>1. IsZSet(l) /\ IsZSet(r)
  BY DEF IsBag
<1>2. IsBag(Inner(node, l, r))
  BY <1>1, InnerAt
<1>3. IsBag(Padded(node, l, r, rf)) /\ IsBag(PaddedR(node, l, r, lf))
  BY <1>1, PaddedZ
<1>4. IsBag(Within(l, DOMAIN l \ LoneIn(node, l, r))) /\ IsBag(Within(l, LoneIn(node, l, r)))
  BY <1>1, WithinZ
<1>5. IsBag(Plus(Inner(node, l, r), Padded(node, l, r, rf)))
        /\ IsBag(Plus(Inner(node, l, r), PaddedR(node, l, r, lf)))
  BY <1>2, <1>3, BagsAdd
<1>6. IsBag(Plus(Plus(Inner(node, l, r), Padded(node, l, r, rf)), PaddedR(node, l, r, lf)))
  BY <1>3, <1>5, BagsAdd
<1>7. CASE node.mode = "inner"
  BY <1>2, <1>7, JoinedInner
<1>8. CASE node.mode = "left"
  BY <1>5, <1>8, JoinedLeft
<1>9. CASE node.mode = "right"
  BY <1>5, <1>9, JoinedRight
<1>10. CASE node.mode = "full"
  BY <1>6, <1>10, JoinedFull
<1>11. CASE node.mode = "semi"
  BY <1>4, <1>11, JoinedSemi
<1>12. CASE node.mode = "anti"
  BY <1>4, <1>12, JoinedAnti
<1> QED BY <1>7, <1>8, <1>9, <1>10, <1>11, <1>12 DEF Modes

\* Sums of parts.
LEMMA PlusSplits ==
  ASSUME NEW a, IsZSet(a), NEW aa, IsZSet(aa), NEW ab, IsZSet(ab),
         Adds(a, aa, ab),
         NEW b, IsZSet(b), NEW ba, IsZSet(ba), NEW bb, IsZSet(bb),
         Adds(b, ba, bb)
  PROVE  Adds(Plus(a, b), Plus(aa, ba), Plus(ab, bb))
<1>1. \A y : /\ At(Plus(a, b), y) = At(a, y) + At(b, y)
             /\ At(Plus(aa, ba), y) = At(aa, y) + At(ba, y)
             /\ At(Plus(ab, bb), y) = At(ab, y) + At(bb, y)
  BY PlusZ
<1>2. \A y : At(aa, y) \in Int /\ At(ab, y) \in Int /\ At(ba, y) \in Int /\ At(bb, y) \in Int
  BY ZSetAt
<1> QED BY <1>1, <1>2 DEF Adds

\* A join of inputs in two parts is the join of each.
LEMMA JoinedSplits ==
  ASSUME NEW node, node.mode \in Modes, NEW lf, NEW rf,
         NEW l, IsZSet(l), NEW la, IsZSet(la), NEW lb, IsZSet(lb), Splits(l, la, lb),
         NEW r, IsZSet(r), NEW ra, IsZSet(ra), NEW rb, IsZSet(rb), Splits(r, ra, rb),
         Apart(node, la, lb, ra, rb)
  PROVE  Adds(Joined(node, l, r, lf, rf),
            Joined(node, la, ra, lf, rf),
            Joined(node, lb, rb, lf, rf))
<1>1. Adds(Inner(node, l, r),
            Inner(node, la, ra),
            Inner(node, lb, rb))
  BY InnerSplits
<1>2. Adds(Padded(node, l, r, rf),
            Padded(node, la, ra, rf),
            Padded(node, lb, rb, rf))
  BY PaddedSplits
<1>3. Adds(PaddedR(node, l, r, lf),
            PaddedR(node, la, ra, lf),
            PaddedR(node, lb, rb, lf))
  BY PaddedSplits
<1>4. /\ IsZSet(Inner(node, l, r)) /\ IsZSet(Inner(node, la, ra)) /\ IsZSet(Inner(node, lb, rb))
  BY InnerAt
<1>5. /\ IsZSet(Padded(node, l, r, rf)) /\ IsZSet(Padded(node, la, ra, rf))
      /\ IsZSet(Padded(node, lb, rb, rf))
      /\ IsZSet(PaddedR(node, l, r, lf)) /\ IsZSet(PaddedR(node, la, ra, lf))
      /\ IsZSet(PaddedR(node, lb, rb, lf))
  BY PaddedZ
<1>6. CASE node.mode = "inner"
  BY <1>1, <1>6, JoinedInner
<1>7. CASE node.mode = "left"
  <2>1. Adds(Plus(Inner(node, l, r), Padded(node, l, r, rf)),
            Plus(Inner(node, la, ra), Padded(node, la, ra, rf)),
            Plus(Inner(node, lb, rb), Padded(node, lb, rb, rf)))
    BY <1>1, <1>2, <1>4, <1>5, PlusSplits
  <2> QED BY <1>7, <2>1, JoinedLeft
<1>8. CASE node.mode = "right"
  <2>1. Adds(Plus(Inner(node, l, r), PaddedR(node, l, r, lf)),
            Plus(Inner(node, la, ra), PaddedR(node, la, ra, lf)),
            Plus(Inner(node, lb, rb), PaddedR(node, lb, rb, lf)))
    BY <1>1, <1>3, <1>4, <1>5, PlusSplits
  <2> QED BY <1>8, <2>1, JoinedRight
<1>9. CASE node.mode = "full"
  <2> DEFINE c == Plus(Inner(node, l, r), Padded(node, l, r, rf))
             a == Plus(Inner(node, la, ra), Padded(node, la, ra, rf))
             b == Plus(Inner(node, lb, rb), Padded(node, lb, rb, rf))
  <2>1. Adds(c,
            a,
            b)
    BY <1>1, <1>2, <1>4, <1>5, PlusSplits
  <2>2. IsZSet(a) /\ IsZSet(b) /\ IsZSet(c)
    BY <1>4, <1>5, PlusZ
  <2>3. /\ Joined(node, l, r, lf, rf) = Plus(c, PaddedR(node, l, r, lf))
        /\ Joined(node, la, ra, lf, rf) = Plus(a, PaddedR(node, la, ra, lf))
        /\ Joined(node, lb, rb, lf, rf) = Plus(b, PaddedR(node, lb, rb, lf))
    BY <1>9, JoinedFull
  <2> HIDE DEF a, b, c
  <2> QED BY <1>3, <1>5, <2>1, <2>2, <2>3, PlusSplits
<1>10. CASE node.mode \in {"semi", "anti"}
  <2>1. SameLone(node, l, la, lb, r, ra, rb)
    BY LoneSplits
  <2>2. Adds(Within(l, LoneIn(node, l, r)),
            Within(la, LoneIn(node, la, ra)),
            Within(lb, LoneIn(node, lb, rb)))
    BY <2>1, ChoiceSplits DEF SameLone
  <2> DEFINE C == DOMAIN l \ LoneIn(node, l, r)
             A == DOMAIN la \ LoneIn(node, la, ra)
             B == DOMAIN lb \ LoneIn(node, lb, rb)
  <2>3. /\ \A x \in DOMAIN la : x \in C <=> x \in A
        /\ \A x \in DOMAIN lb : x \in C <=> x \in B
    BY <2>1 DEF SameLone, Splits
  <2> HIDE DEF A, B, C
  <2>4. Adds(Within(l, C),
            Within(la, A),
            Within(lb, B))
    BY <2>3, ChoiceSplits
  <2>5. CASE node.mode = "semi"
    BY <2>4, <2>5, JoinedSemi DEF A, B, C
  <2>6. CASE node.mode = "anti"
    BY <2>2, <2>6, JoinedAnti
  <2> QED BY <1>10, <2>5, <2>6
<1> QED BY <1>6, <1>7, <1>8, <1>9, <1>10 DEF Modes

-----------------------------------------------------------------------------
(* The rows of the touched keys, and the rest.                             *)

Rest(node, side, z, keys) == Within(z, {r \in DOMAIN z : KeyOf(node, side, r) \notin keys})

\* The rows of the touched keys and the rest are the two parts of an input.
LEMMA TouchedSplits ==
  ASSUME NEW node, NEW side, NEW keys, NEW z, IsZSet(z)
  PROVE  /\ Splits(z, TouchedRows(node, side, z, keys), Rest(node, side, z, keys))
         /\ IsZSet(TouchedRows(node, side, z, keys)) /\ IsZSet(Rest(node, side, z, keys))
         /\ IsBag(z) => IsBag(TouchedRows(node, side, z, keys)) /\ IsBag(Rest(node, side, z, keys))
         /\ \A r : r \in DOMAIN TouchedRows(node, side, z, keys)
                     <=> r \in DOMAIN z /\ KeyOf(node, side, r) \in keys
         /\ \A r : r \in DOMAIN Rest(node, side, z, keys)
                     <=> r \in DOMAIN z /\ KeyOf(node, side, r) \notin keys
<1> DEFINE R == {r \in DOMAIN z : KeyOf(node, side, r) \in keys}
           Q == {r \in DOMAIN z : KeyOf(node, side, r) \notin keys}
<1>1. TouchedRows(node, side, z, keys) = Within(z, R) /\ Rest(node, side, z, keys) = Within(z, Q)
  BY DEF TouchedRows, Rest, Where
<1>2. R \cap Q = {} /\ DOMAIN z \subseteq R \cup Q /\ R \cap DOMAIN z = R /\ Q \cap DOMAIN z = Q
  OBVIOUS
<1> HIDE DEF R, Q
<1>3. Splits(z, Within(z, R), Within(z, Q))
  BY <1>2, PartsSplit
<1>4. /\ IsZSet(Within(z, R)) /\ DOMAIN Within(z, R) = R /\ (IsBag(z) => IsBag(Within(z, R)))
      /\ IsZSet(Within(z, Q)) /\ DOMAIN Within(z, Q) = Q /\ (IsBag(z) => IsBag(Within(z, Q)))
  BY <1>2, WithinZ
<1> QED BY <1>1, <1>3, <1>4 DEF R, Q

\* What a batch leaves alone.
SameElsewhere(node, side, n, p, keys) ==
  \A r : KeyOf(node, side, r) \notin keys => At(n, r) = At(p, r)

\* Outside the touched keys the rows before and after the batch are the same.
LEMMA RestIsSame ==
  ASSUME NEW node, NEW side, NEW keys, NEW n, IsZSet(n), NEW p, IsZSet(p),
         SameElsewhere(node, side, n, p, keys)
  PROVE  Rest(node, side, n, keys) = Rest(node, side, p, keys)
<1> DEFINE a == Rest(node, side, n, keys)
           b == Rest(node, side, p, keys)
           A == {r \in DOMAIN n : KeyOf(node, side, r) \notin keys}
           B == {r \in DOMAIN p : KeyOf(node, side, r) \notin keys}
<1>1. IsZSet(a) /\ IsZSet(b)
  BY TouchedSplits
<1>2. /\ \A r : At(a, r) = IF r \in A THEN At(n, r) ELSE 0
      /\ \A r : At(b, r) = IF r \in B THEN At(p, r) ELSE 0
  BY WithinZ DEF Rest
<1>3. \A r : At(a, r) = At(b, r)
  BY <1>2 DEF SameElsewhere, At
<1> HIDE DEF a, b
<1>4. a = b
  BY <1>1, <1>3, ZSetsEqual
<1> QED BY <1>4 DEF a, b

\* The change of the part that changes is the whole change.
LEMMA ChangeOfPart ==
  ASSUME NEW n, IsZSet(n), NEW na, IsZSet(na), NEW p, IsZSet(p), NEW pa, IsZSet(pa),
         NEW b, IsZSet(b), Adds(n, na, b), Adds(p, pa, b)
  PROVE  Minus(na, pa) = Minus(n, p)
<1>1. /\ IsZSet(Minus(na, pa)) /\ \A r : At(Minus(na, pa), r) = At(na, r) - At(pa, r)
      /\ IsZSet(Minus(n, p)) /\ \A r : At(Minus(n, p), r) = At(n, r) - At(p, r)
  BY MinusZ
<1>2. \A r : At(na, r) \in Int /\ At(pa, r) \in Int /\ At(b, r) \in Int
  BY ZSetAt
<1>3. \A r : At(Minus(na, pa), r) = At(Minus(n, p), r)
  BY <1>1, <1>2 DEF Adds
<1> QED BY <1>1, <1>3, ZSetsEqual

\* Rows of a touched key match rows of touched keys only.
LEMMA KeysApart ==
  ASSUME NEW node, node.kind = "join", NEW l, IsZSet(l), NEW r, IsZSet(r), NEW keys
  PROVE  Apart(node, TouchedRows(node, 1, l, keys), Rest(node, 1, l, keys),
                     TouchedRows(node, 2, r, keys), Rest(node, 2, r, keys))
<1>1. /\ \A x \in DOMAIN TouchedRows(node, 1, l, keys) : KeyOf(node, 1, x) \in keys
      /\ \A x \in DOMAIN Rest(node, 1, l, keys) : KeyOf(node, 1, x) \notin keys
      /\ \A x \in DOMAIN TouchedRows(node, 2, r, keys) : KeyOf(node, 2, x) \in keys
      /\ \A x \in DOMAIN Rest(node, 2, r, keys) : KeyOf(node, 2, x) \notin keys
  BY TouchedSplits
<1>2. \A x, y : Matched(node, x, y) => KeyOf(node, 1, x) = KeyOf(node, 2, y)
  BY DEF Matched, Matches, KeyOf
<1> QED BY <1>1, <1>2 DEF Apart

\* The change of a join is its change over the touched keys.
LEMMA JoinChange ==
  ASSUME NEW node, node.kind = "join", node.mode \in Modes, NEW lf, NEW rf, NEW keys,
         NEW nl, IsBag(nl), NEW nr, IsBag(nr), NEW pl, IsBag(pl), NEW pr, IsBag(pr),
         SameElsewhere(node, 1, nl, pl, keys), SameElsewhere(node, 2, nr, pr, keys)
  PROVE  Minus(Joined(node, TouchedRows(node, 1, nl, keys), TouchedRows(node, 2, nr, keys), lf, rf),
               Joined(node, TouchedRows(node, 1, pl, keys), TouchedRows(node, 2, pr, keys), lf, rf))
           = Minus(Joined(node, nl, nr, lf, rf), Joined(node, pl, pr, lf, rf))
<1> DEFINE nla == TouchedRows(node, 1, nl, keys)
           nra == TouchedRows(node, 2, nr, keys)
           pla == TouchedRows(node, 1, pl, keys)
           pra == TouchedRows(node, 2, pr, keys)
           lb == Rest(node, 1, nl, keys)
           rb == Rest(node, 2, nr, keys)
<1>1. IsZSet(nl) /\ IsZSet(nr) /\ IsZSet(pl) /\ IsZSet(pr)
  BY DEF IsBag
<1>2. lb = Rest(node, 1, pl, keys) /\ rb = Rest(node, 2, pr, keys)
  BY <1>1, RestIsSame
<1>3. /\ Splits(nl, nla, lb) /\ IsBag(nla) /\ IsBag(lb)
      /\ Splits(nr, nra, rb) /\ IsBag(nra) /\ IsBag(rb)
      /\ Splits(pl, pla, lb) /\ IsBag(pla)
      /\ Splits(pr, pra, rb) /\ IsBag(pra)
  BY <1>1, <1>2, TouchedSplits
<1>4. Apart(node, nla, lb, nra, rb) /\ Apart(node, pla, lb, pra, rb)
  BY <1>1, <1>2, KeysApart
<1> HIDE DEF nla, nra, pla, pra, lb, rb
<1>5. IsZSet(nla) /\ IsZSet(nra) /\ IsZSet(pla) /\ IsZSet(pra) /\ IsZSet(lb) /\ IsZSet(rb)
  BY <1>3 DEF IsBag
<1>6. /\ Adds(Joined(node, nl, nr, lf, rf), Joined(node, nla, nra, lf, rf), Joined(node, lb, rb, lf, rf))
      /\ Adds(Joined(node, pl, pr, lf, rf), Joined(node, pla, pra, lf, rf), Joined(node, lb, rb, lf, rf))
  BY <1>1, <1>3, <1>4, <1>5, JoinedSplits
<1>7. /\ IsBag(Joined(node, nl, nr, lf, rf)) /\ IsBag(Joined(node, nla, nra, lf, rf))
      /\ IsBag(Joined(node, pl, pr, lf, rf)) /\ IsBag(Joined(node, pla, pra, lf, rf))
      /\ IsBag(Joined(node, lb, rb, lf, rf))
  BY <1>3, JoinedZ
<1>8. Minus(Joined(node, nla, nra, lf, rf), Joined(node, pla, pra, lf, rf))
        = Minus(Joined(node, nl, nr, lf, rf), Joined(node, pl, pr, lf, rf))
  BY <1>6, <1>7, ChangeOfPart DEF IsBag
<1> QED BY <1>8 DEF nla, nra, pla, pra

-----------------------------------------------------------------------------
(* Sets.                                                                   *)

\* The rows of the touched keys, row by row.
LEMMA TouchedAt ==
  ASSUME NEW node, NEW side, NEW keys, NEW z, IsZSet(z)
  PROVE  \A r : At(TouchedRows(node, side, z, keys), r)
                  = IF KeyOf(node, side, r) \in keys THEN At(z, r) ELSE 0
<1> DEFINE R == {r \in DOMAIN z : KeyOf(node, side, r) \in keys}
<1>1. TouchedRows(node, side, z, keys) = Within(z, R)
  BY DEF TouchedRows, Where
<1>2. \A r : At(Within(z, R), r) = IF r \in R THEN At(z, r) ELSE 0
  BY WithinZ
<1>3. \A r : r \notin DOMAIN z => At(z, r) = 0
  BY DEF At
<1> QED BY <1>1, <1>2, <1>3

InSet(node, l, r, x) ==
  CASE node.kind = "distinct"  -> At(l, x) > 0
    [] node.kind = "union"     -> At(l, x) + At(r, x) > 0
    [] node.kind = "except"    -> At(l, x) > 0 /\ At(r, x) = 0
    [] node.kind = "intersect" -> At(l, x) > 0 /\ At(r, x) > 0

\* The set operators (src/1c_materialize.rs:98): DISTINCT,
LEMMA DistinctIs ==
  ASSUME NEW node, node.kind = "distinct", NEW l, NEW r
  PROVE  SetOf(node, l, r) = Support(l)
BY DEF SetOf

\* UNION,
LEMMA UnionIs ==
  ASSUME NEW node, node.kind = "union", NEW l, NEW r
  PROVE  SetOf(node, l, r) = Support(Plus(l, r))
BY DEF SetOf

\* EXCEPT,
LEMMA ExceptIs ==
  ASSUME NEW node, node.kind = "except", NEW l, NEW r
  PROVE  SetOf(node, l, r) = Within(Support(l), {x \in DOMAIN Support(l) : At(r, x) = 0})
BY DEF SetOf, Where

\* and INTERSECT.
LEMMA IntersectIs ==
  ASSUME NEW node, node.kind = "intersect", NEW l, NEW r
  PROVE  SetOf(node, l, r) = Within(Support(l), {x \in DOMAIN Support(l) : At(r, x) > 0})
BY DEF SetOf, Where

\* They answer a row once when it is in the set they compute.
LEMMA SetOfZ ==
  ASSUME NEW node, node.kind \in {"distinct", "union", "except", "intersect"},
         NEW l, IsZSet(l), NEW r, IsZSet(r)
  PROVE  /\ IsBag(SetOf(node, l, r))
         /\ \A x : At(SetOf(node, l, r), x) = IF InSet(node, l, r, x) THEN 1 ELSE 0
<1>1. CASE node.kind = "distinct"
  <2>1. SetOf(node, l, r) = Support(l)
    BY <1>1, DistinctIs
  <2>2. \A x : InSet(node, l, r, x) <=> At(l, x) > 0
    BY <1>1 DEF InSet
  <2> QED BY <2>1, <2>2, SupportZ
<1>2. CASE node.kind = "union"
  <2>1. SetOf(node, l, r) = Support(Plus(l, r))
    BY <1>2, UnionIs
  <2>2. \A x : InSet(node, l, r, x) <=> At(Plus(l, r), x) > 0
    BY <1>2, PlusZ DEF InSet
  <2>3. IsZSet(Plus(l, r))
    BY PlusZ
  <2> QED BY <2>1, <2>2, <2>3, SupportZ
<1>3. CASE node.kind \in {"except", "intersect"}
  <2> DEFINE s == Support(l)
             S == {x \in DOMAIN s : InSet(node, l, r, x)}
  <2>1. /\ IsBag(s) /\ IsZSet(s)
        /\ \A x : At(s, x) = IF At(l, x) > 0 THEN 1 ELSE 0
    BY SupportZ DEF IsBag
  <2>2. \A x \in DOMAIN s : At(l, x) > 0
    BY <2>1, ZSetAt
  <2>3. SetOf(node, l, r) = Within(s, S)
    <3>1. CASE node.kind = "except"
      <4>1. {x \in DOMAIN s : At(r, x) = 0} = S
        BY <2>2, <3>1 DEF InSet
      <4> QED BY <3>1, <4>1, ExceptIs
    <3>2. CASE node.kind = "intersect"
      <4>1. {x \in DOMAIN s : At(r, x) > 0} = S
        BY <2>2, <3>2 DEF InSet
      <4> QED BY <3>2, <4>1, IntersectIs
    <3> QED BY <1>3, <3>1, <3>2
  <2>4. IsBag(Within(s, S)) /\ \A x : At(Within(s, S), x) = IF x \in S THEN At(s, x) ELSE 0
    BY <2>1, WithinZ
  <2>5. \A x : InSet(node, l, r, x) => At(l, x) > 0
    BY <1>3 DEF InSet
  <2>6. \A x : x \in S <=> InSet(node, l, r, x)
    <3>1. \A x : At(s, x) # 0 => x \in DOMAIN s
      BY DEF At
    <3> QED BY <2>1, <2>5, <3>1
  <2> HIDE DEF s, S
  <2> QED BY <2>1, <2>3, <2>4, <2>5, <2>6
<1> QED BY <1>1, <1>2, <1>3

\* The change of EXCEPT and INTERSECT is their change over the touched rows.
LEMMA SetChange ==
  ASSUME NEW node, node.kind \in {"except", "intersect"}, NEW keys,
         NEW nl, IsBag(nl), NEW nr, IsBag(nr), NEW pl, IsBag(pl), NEW pr, IsBag(pr),
         SameElsewhere(node, 1, nl, pl, keys), SameElsewhere(node, 2, nr, pr, keys)
  PROVE  Minus(SetOf(node, TouchedRows(node, 1, nl, keys), TouchedRows(node, 2, nr, keys)),
               SetOf(node, TouchedRows(node, 1, pl, keys), TouchedRows(node, 2, pr, keys)))
           = Minus(SetOf(node, nl, nr), SetOf(node, pl, pr))
<1> DEFINE nla == TouchedRows(node, 1, nl, keys)
           nra == TouchedRows(node, 2, nr, keys)
           pla == TouchedRows(node, 1, pl, keys)
           pra == TouchedRows(node, 2, pr, keys)
           left == Minus(SetOf(node, nla, nra), SetOf(node, pla, pra))
           right == Minus(SetOf(node, nl, nr), SetOf(node, pl, pr))
<1>1. IsZSet(nl) /\ IsZSet(nr) /\ IsZSet(pl) /\ IsZSet(pr)
  BY DEF IsBag
<1>2. IsZSet(nla) /\ IsZSet(nra) /\ IsZSet(pla) /\ IsZSet(pra)
  BY <1>1, TouchedSplits
<1>3. \A x : KeyOf(node, 1, x) = x /\ KeyOf(node, 2, x) = x
  BY DEF KeyOf
<1>4. \A x : /\ At(nla, x) = IF x \in keys THEN At(nl, x) ELSE 0
             /\ At(nra, x) = IF x \in keys THEN At(nr, x) ELSE 0
             /\ At(pla, x) = IF x \in keys THEN At(pl, x) ELSE 0
             /\ At(pra, x) = IF x \in keys THEN At(pr, x) ELSE 0
  BY <1>1, <1>3, TouchedAt
<1>5. \A x : x \notin keys => At(nl, x) = At(pl, x) /\ At(nr, x) = At(pr, x)
  BY <1>3 DEF SameElsewhere
<1> HIDE DEF nla, nra, pla, pra
<1>6. /\ IsZSet(SetOf(node, nla, nra)) /\ IsZSet(SetOf(node, pla, pra))
      /\ IsZSet(SetOf(node, nl, nr)) /\ IsZSet(SetOf(node, pl, pr))
  BY <1>1, <1>2, SetOfZ DEF IsBag
<1>7. \A x : /\ At(SetOf(node, nla, nra), x) = IF InSet(node, nla, nra, x) THEN 1 ELSE 0
             /\ At(SetOf(node, pla, pra), x) = IF InSet(node, pla, pra, x) THEN 1 ELSE 0
             /\ At(SetOf(node, nl, nr), x) = IF InSet(node, nl, nr, x) THEN 1 ELSE 0
             /\ At(SetOf(node, pl, pr), x) = IF InSet(node, pl, pr, x) THEN 1 ELSE 0
  BY <1>1, <1>2, SetOfZ
<1>8. /\ IsZSet(left) /\ \A x : At(left, x) = At(SetOf(node, nla, nra), x) - At(SetOf(node, pla, pra), x)
      /\ IsZSet(right) /\ \A x : At(right, x) = At(SetOf(node, nl, nr), x) - At(SetOf(node, pl, pr), x)
  BY <1>6, MinusZ
<1>9. \A x : x \in keys => /\ InSet(node, nla, nra, x) <=> InSet(node, nl, nr, x)
                           /\ InSet(node, pla, pra, x) <=> InSet(node, pl, pr, x)
  BY <1>4 DEF InSet
<1>10. \A x : x \notin keys => /\ ~InSet(node, nla, nra, x) /\ ~InSet(node, pla, pra, x)
                               /\ InSet(node, nl, nr, x) <=> InSet(node, pl, pr, x)
  <2> SUFFICES ASSUME NEW x, x \notin keys
               PROVE  /\ ~InSet(node, nla, nra, x) /\ ~InSet(node, pla, pra, x)
                      /\ InSet(node, nl, nr, x) <=> InSet(node, pl, pr, x)
    OBVIOUS
  <2>1. /\ At(nla, x) = 0 /\ At(pla, x) = 0
        /\ At(nl, x) = At(pl, x) /\ At(nr, x) = At(pr, x)
    BY <1>4, <1>5
  <2>2. CASE node.kind = "except"
    BY <2>1, <2>2 DEF InSet
  <2>3. CASE node.kind = "intersect"
    BY <2>1, <2>3 DEF InSet
  <2> QED BY <2>2, <2>3
<1> HIDE DEF left, right
<1>11. \A x : At(left, x) = At(right, x)
  BY <1>7, <1>8, <1>9, <1>10
<1>12. left = right
  BY <1>8, <1>11, ZSetsEqual
<1> QED BY <1>12 DEF left, right, nla, nra, pla, pra

-----------------------------------------------------------------------------
(* Windows.                                                                *)

Ones(S) == [x \in S |-> 1]

\* Each member of a finite set once.
LEMMA OnesBag ==
  ASSUME NEW S, IsFiniteSet(S)
  PROVE  IsBag(Ones(S)) /\ DOMAIN Ones(S) = S /\ \A x : At(Ones(S), x) = IF x \in S THEN 1 ELSE 0
BY DEF Ones, IsBag, IsZSet, At

\* Sets that share no element, as bags.
LEMMA OnesAdd ==
  ASSUME NEW A, NEW B, A \cap B = {}
  PROVE  Adds(Ones(A \cup B), Ones(A), Ones(B))
BY DEF Adds, Ones, At

Copies(a) == UNION {{r} \X (1..a[r]) : r \in DOMAIN a}

\* A copy of a row names the row.
LEMMA CopyOf ==
  ASSUME NEW a, NEW c
  PROVE  c \in Copies(a) <=> c[1] \in DOMAIN a /\ c[2] \in 1..a[c[1]] /\ c = <<c[1], c[2]>>
BY DEF Copies

\* A bag has finitely many copies.
LEMMA CopiesFinite ==
  ASSUME NEW a, IsZSet(a)
  PROVE  IsFiniteSet(Copies(a))
<1> DEFINE f == [r \in DOMAIN a |-> {r} \X (1..a[r])]
<1>1. Copies(a) = UNION {f[r] : r \in DOMAIN a}
  BY DEF Copies
<1>2. IsFiniteSet({f[r] : r \in DOMAIN a})
  <2> HIDE DEF f
  <2>1. IsFiniteSet(DOMAIN a)
    BY DEF IsZSet
  <2> QED BY <2>1, FiniteImage
<1>3. \A r \in DOMAIN a : IsFiniteSet(f[r])
  <2> TAKE r \in DOMAIN a
  <2>1. a[r] \in Int
    BY DEF IsZSet
  <2>2. IsFiniteSet(1..a[r])
    BY <2>1, FS_Interval
  <2>3. IsFiniteSet({r})
    BY FS_Singleton
  <2> QED BY <2>2, <2>3, FS_Product
<1> HIDE DEF f
<1> QED BY <1>1, <1>2, <1>3, FS_UNION

\* The copies of two parts are those of the whole.
LEMMA CopiesSplit ==
  ASSUME NEW c, NEW a, NEW b, Splits(c, a, b)
  PROVE  Copies(c) = Copies(a) \cup Copies(b) /\ Copies(a) \cap Copies(b) = {}
<1>1. \A x : x \in Copies(c) <=> x \in Copies(a) \/ x \in Copies(b)
  BY CopyOf DEF Splits
<1>2. \A x : ~(x \in Copies(a) /\ x \in Copies(b))
  BY CopyOf DEF Splits
<1> QED BY <1>1, <1>2

\* What numbers the copies of a row.
NumberedRow(a, key, rank) ==
  [c \in Copies(a) |-> Append(c[1], CopiesBefore(a, key, rank, c[1]) + c[2])]

\* row_number() gathers the numbered copies.
LEMMA NumberedIs ==
  ASSUME NEW a, NEW key, NEW rank
  PROVE  Numbered(a, key, rank) = Gathered(Ones(Copies(a)), NumberedRow(a, key, rank))
BY TabledIs DEF Numbered, Image, Ones, Copies, NumberedRow

\* Rows of another key do not come before.
LEMMA BeforeInPart ==
  ASSUME NEW z, NEW a, NEW b, NEW kz, NEW ka, NEW rz, NEW ra, NEW r,
         IsZSet(z), IsZSet(a), Splits(z, a, b), r \in DOMAIN a,
         \A s \in DOMAIN a : ka[s] = kz[s] /\ ra[s] = rz[s],
         \A t \in DOMAIN a : \A s \in DOMAIN b : kz[s] # kz[t]
  PROVE  CopiesBefore(z, kz, rz, r) = CopiesBefore(a, ka, ra, r)
<1> DEFINE S == {s \in DOMAIN z : kz[s] = kz[r] /\ Precedes(rz, s, r)}
           T == {s \in DOMAIN a : ka[s] = ka[r] /\ Precedes(ra, s, r)}
<1>1. \A s \in DOMAIN a : Precedes(rz, s, r) <=> Precedes(ra, s, r)
  BY DEF Precedes
<1>2. S = T
  BY <1>1 DEF Splits
<1>3. IsFiniteSet(T) /\ \A s \in T : z[s] \in Int /\ a[s] = z[s]
  <2>1. IsFiniteSet(T)
    BY FS_Subset DEF IsZSet
  <2> QED BY <2>1 DEF Splits, IsZSet
<1> HIDE DEF S, T
<1>4. SumOf(a, T) = SumOf(z, T)
  BY <1>3, SumsAgree
<1> QED BY <1>2, <1>4 DEF CopiesBefore, S, T

\* Numbered rows are a bag.
LEMMA NumberedZ ==
  ASSUME NEW a, IsZSet(a), NEW key, NEW rank
  PROVE  IsBag(Numbered(a, key, rank))
<1>1. IsBag(Ones(Copies(a)))
  BY CopiesFinite, OnesBag
<1> QED BY <1>1, NumberedIs, GatheredZ DEF IsBag

\* Partitions of different keys are numbered apart.
LEMMA NumberedSplits ==
  ASSUME NEW z, IsZSet(z), NEW a, IsZSet(a), NEW b, IsZSet(b), Splits(z, a, b),
         NEW kz, NEW ka, NEW kb, NEW rz, NEW ra, NEW rb,
         \A r \in DOMAIN a : ka[r] = kz[r] /\ ra[r] = rz[r],
         \A r \in DOMAIN b : kb[r] = kz[r] /\ rb[r] = rz[r],
         \A r \in DOMAIN a : \A s \in DOMAIN b : kz[s] # kz[r]
  PROVE  Adds(Numbered(z, kz, rz), Numbered(a, ka, ra), Numbered(b, kb, rb))
<1> DEFINE N == Ones(Copies(z))
           A == Ones(Copies(a))
           B == Ones(Copies(b))
           g == NumberedRow(z, kz, rz)
<1>1. /\ Copies(z) = Copies(a) \cup Copies(b) /\ Copies(a) \cap Copies(b) = {}
  BY CopiesSplit
<1>2. IsZSet(N) /\ IsZSet(A) /\ IsZSet(B)
  BY CopiesFinite, OnesBag DEF IsBag
<1>3. Adds(N, A, B)
  BY <1>1, OnesAdd
<1>4. /\ \A r \in DOMAIN a : CopiesBefore(z, kz, rz, r) = CopiesBefore(a, ka, ra, r)
      /\ \A r \in DOMAIN b : CopiesBefore(z, kz, rz, r) = CopiesBefore(b, kb, rb, r)
  <2>1. Splits(z, b, a) /\ \A r \in DOMAIN b : \A s \in DOMAIN a : kz[s] # kz[r]
    BY DEF Splits
  <2>2. \A r \in DOMAIN a : CopiesBefore(z, kz, rz, r) = CopiesBefore(a, ka, ra, r)
    <3> TAKE r \in DOMAIN a
    <3> HIDE DEF N, A, B, g
    <3> QED BY BeforeInPart
  <2>3. \A r \in DOMAIN b : CopiesBefore(z, kz, rz, r) = CopiesBefore(b, kb, rb, r)
    <3> TAKE r \in DOMAIN b
    <3> HIDE DEF N, A, B, g
    <3> QED BY <2>1, BeforeInPart
  <2> QED BY <2>2, <2>3
<1>5. /\ \A c \in Copies(a) : NumberedRow(a, ka, ra)[c] = g[c]
      /\ \A c \in Copies(b) : NumberedRow(b, kb, rb)[c] = g[c]
  <2>1. /\ \A c \in Copies(a) : c[1] \in DOMAIN a
        /\ \A c \in Copies(b) : c[1] \in DOMAIN b
    BY CopyOf
  <2> QED BY <1>1, <1>4, <2>1 DEF NumberedRow
<1>6. DOMAIN N = Copies(z) /\ DOMAIN A = Copies(a) /\ DOMAIN B = Copies(b)
  BY DEF Ones
<1>7. /\ Numbered(z, kz, rz) = Gathered(N, g)
      /\ Numbered(a, ka, ra) = Gathered(A, NumberedRow(a, ka, ra))
      /\ Numbered(b, kb, rb) = Gathered(B, NumberedRow(b, kb, rb))
  BY NumberedIs
<1> HIDE DEF N, A, B, g
<1> QED BY <1>2, <1>3, <1>5, <1>6, <1>7, GatheredAdds DEF Adds

\* A window over whole partitions is the sum of the windows.
LEMMA WindowSplits ==
  ASSUME NEW node, node.kind = "window", NEW keys, NEW z, IsZSet(z)
  PROVE  Adds(WindowRows(node, z), WindowRows(node, TouchedRows(node, 1, z, keys)),
              WindowRows(node, Rest(node, 1, z, keys)))
<1> DEFINE a == TouchedRows(node, 1, z, keys)
           b == Rest(node, 1, z, keys)
           kz == EachRow(z, node.keys)
           ka == EachRow(a, node.keys)
           kb == EachRow(b, node.keys)
           rz == EachRow(z, node.order)
           ra == EachRow(a, node.order)
           rb == EachRow(b, node.order)
<1>1. IsZSet(a) /\ IsZSet(b) /\ Splits(z, a, b)
  BY TouchedSplits
<1>2. /\ \A r \in DOMAIN a : r \in DOMAIN z /\ KeyOf(node, 1, r) \in keys
      /\ \A r \in DOMAIN b : r \in DOMAIN z /\ KeyOf(node, 1, r) \notin keys
  BY TouchedSplits
<1> HIDE DEF a, b
<1>3. /\ kz = [r \in DOMAIN z |-> CellsOf(node.keys, r)] /\ rz = [r \in DOMAIN z |-> CellsOf(node.order, r)]
      /\ ka = [r \in DOMAIN a |-> CellsOf(node.keys, r)] /\ ra = [r \in DOMAIN a |-> CellsOf(node.order, r)]
      /\ kb = [r \in DOMAIN b |-> CellsOf(node.keys, r)] /\ rb = [r \in DOMAIN b |-> CellsOf(node.order, r)]
  BY TabledIs DEF EachRow
<1>4. \A r : KeyOf(node, 1, r) = CellsOf(node.keys, r)
  BY DEF KeyOf
<1> HIDE DEF kz, ka, kb, rz, ra, rb
<1>5. /\ \A r \in DOMAIN a : ka[r] = kz[r] /\ ra[r] = rz[r]
      /\ \A r \in DOMAIN b : kb[r] = kz[r] /\ rb[r] = rz[r]
      /\ \A r \in DOMAIN a : \A s \in DOMAIN b : kz[s] # kz[r]
  BY <1>2, <1>3, <1>4
<1>6. Adds(Numbered(z, kz, rz), Numbered(a, ka, ra), Numbered(b, kb, rb))
  BY <1>1, <1>5, NumberedSplits
<1> QED BY <1>6 DEF WindowRows, a, b, kz, ka, kb, rz, ra, rb

\* A window over a bag is a bag.
LEMMA WindowZ ==
  ASSUME NEW node, NEW z, IsZSet(z)
  PROVE  IsBag(WindowRows(node, z))
BY NumberedZ DEF WindowRows

\* The change of a window is its change over the touched partitions.
LEMMA WindowChange ==
  ASSUME NEW node, node.kind = "window", NEW keys, NEW n, IsZSet(n), NEW p, IsZSet(p),
         SameElsewhere(node, 1, n, p, keys)
  PROVE  Minus(WindowRows(node, TouchedRows(node, 1, n, keys)),
               WindowRows(node, TouchedRows(node, 1, p, keys)))
           = Minus(WindowRows(node, n), WindowRows(node, p))
<1> DEFINE na == TouchedRows(node, 1, n, keys)
           pa == TouchedRows(node, 1, p, keys)
           b == Rest(node, 1, n, keys)
<1>1. b = Rest(node, 1, p, keys)
  BY RestIsSame
<1>2. IsZSet(na) /\ IsZSet(pa) /\ IsZSet(b)
  BY TouchedSplits
<1>3. /\ Adds(WindowRows(node, n), WindowRows(node, na), WindowRows(node, b))
      /\ Adds(WindowRows(node, p), WindowRows(node, pa), WindowRows(node, b))
  BY <1>1, WindowSplits
<1> HIDE DEF na, pa, b
<1>4. /\ IsZSet(WindowRows(node, n)) /\ IsZSet(WindowRows(node, na)) /\ IsZSet(WindowRows(node, b))
      /\ IsZSet(WindowRows(node, p)) /\ IsZSet(WindowRows(node, pa))
  BY <1>2, WindowZ DEF IsBag
<1>5. Minus(WindowRows(node, na), WindowRows(node, pa)) = Minus(WindowRows(node, n), WindowRows(node, p))
  BY <1>3, <1>4, ChangeOfPart
<1> QED BY <1>5 DEF na, pa

-----------------------------------------------------------------------------
(* Limits.                                                                 *)

\* LIMIT keeps at most the copies there are.
LEMMA LimitedZ ==
  ASSUME NEW a, IsZSet(a), NEW key, NEW rank, NEW limit \in Int, NEW offset \in Int
  PROVE  IsBag(Limited(a, key, rank, limit, offset))
<1> DEFINE first(r) == CopiesBefore(a, key, rank, r)
           w(r) == Lowest(first(r) + a[r], offset + limit)
                   - (IF first(r) > offset THEN first(r) ELSE offset)
           S == {s \in DOMAIN a : w(s) > 0}
<1>1. Limited(a, key, rank, limit, offset) = [r \in S |-> w(r)]
  BY TabledIs DEF Limited
<1>2. IsFiniteSet(S)
  BY FS_Subset DEF IsZSet
<1>3. ASSUME NEW r \in S
      PROVE  w(r) \in Int /\ w(r) > 0
  <2>1. a[r] \in Int
    BY DEF IsZSet
  <2>2. first(r) \in Int
    <3> DEFINE T == {s \in DOMAIN a : key[s] = key[r] /\ Precedes(rank, s, r)}
    <3>1. IsFiniteSet(T) /\ \A s \in T : a[s] \in Int
      BY FS_Subset DEF IsZSet
    <3> HIDE DEF T
    <3>2. SumOf(a, T) \in Int
      BY <3>1, SumIsInteger
    <3> QED BY <3>2 DEF CopiesBefore, T
  <2>3. w(r) > 0
    OBVIOUS
  <2> HIDE DEF first
  <2>4. w(r) \in Int
    BY <2>1, <2>2 DEF Lowest
  <2> QED BY <2>3, <2>4
<1> HIDE DEF S, w
<1> QED BY <1>1, <1>2, <1>3 DEF IsBag, IsZSet

\* A limit over a bag is a bag.
LEMMA LimitZ ==
  ASSUME NEW node, node.limit \in Int, node.offset \in Int, NEW z, IsZSet(z)
  PROVE  IsBag(LimitRows(node, z))
<1> DEFINE a == Limited(z, EachRow(z, <<>>), EachRow(z, node.order), node.limit, node.offset)
<1>1. IsBag(a)
  BY LimitedZ
<1>2. LimitRows(node, z) = Gathered(a, [r \in DOMAIN a |-> CellsOf(node.exprs, r)])
  BY TabledIs DEF LimitRows, Image
<1> HIDE DEF a
<1> QED BY <1>1, <1>2, GatheredZ DEF IsBag

\* When every row has a touched key, the touched rows are all rows.
LEMMA AllTouched ==
  ASSUME NEW node, NEW side, NEW keys, NEW z, IsZSet(z),
         \A r \in DOMAIN z : KeyOf(node, side, r) \in keys
  PROVE  TouchedRows(node, side, z, keys) = z
<1> DEFINE a == TouchedRows(node, side, z, keys)
<1>1. IsZSet(a)
  BY TouchedSplits
<1>2. \A r : At(a, r) = IF KeyOf(node, side, r) \in keys THEN At(z, r) ELSE 0
  BY TouchedAt
<1> HIDE DEF a
<1>3. \A r : At(a, r) = At(z, r)
  BY <1>2 DEF At
<1>4. a = z
  BY <1>1, <1>3, ZSetsEqual
<1> QED BY <1>4 DEF a

\* Nothing to group by: every row has the same key.
LEMMA NoKeys ==
  ASSUME NEW node, node.kind \in {"group", "limit", "window"}, node.keys = <<>>, NEW r
  PROVE  KeyOf(node, 1, r) = <<>>
BY DEF KeyOf, CellsOf, Each

-----------------------------------------------------------------------------
(* Groups.                                                                 *)

GroupKey(node, r) == CellsOf(node.keys, r)
Kept(node, z, fields) ==
  {g \in GroupsOf(node, z) : Scalar(node.having, Sample(g, fields), g) = 1}
RowOfGroup(node, fields, S) == [g \in S |-> GroupRow(node, g, Sample(g, fields))]

\* The rows of a group node, of the groups that HAVING keeps.
LEMMA GroupRowsIs ==
  ASSUME NEW node, NEW z, NEW fields
  PROVE  GroupRows(node, z, fields)
           = Gathered(Ones(Kept(node, z, fields)), RowOfGroup(node, fields, Kept(node, z, fields)))
BY TabledIs DEF GroupRows, Image, Ones, Kept, RowOfGroup

Sharing(node, z, key) == {r \in DOMAIN z : GroupKey(node, r) = key}

\* A group is the rows of its key.
LEMMA GroupIs ==
  ASSUME NEW node, NEW z, NEW key
  PROVE  /\ GroupOf(node, z, key) = [r \in Sharing(node, z, key) |-> z[r]]
         /\ \A r : r \in DOMAIN GroupOf(node, z, key) <=> r \in DOMAIN z /\ GroupKey(node, r) = key
<1>1. Sharing(node, z, key) \cap DOMAIN z = Sharing(node, z, key)
  BY DEF Sharing
<1>2. GroupOf(node, z, key) = Within(z, Sharing(node, z, key))
  BY DEF GroupOf, Where, Sharing, GroupKey
<1>3. Within(z, Sharing(node, z, key)) = [r \in Sharing(node, z, key) \cap DOMAIN z |-> z[r]]
  BY TabledIs DEF Within
<1>4. GroupOf(node, z, key) = [r \in Sharing(node, z, key) |-> z[r]]
  BY <1>1, <1>2, <1>3
<1> QED BY <1>4 DEF Sharing

\* The groups, by their keys.
LEMMA GroupsAre ==
  ASSUME NEW node, node.keys # <<>>, NEW z
  PROVE  \A g : g \in GroupsOf(node, z)
                  <=> \E r \in DOMAIN z : g = GroupOf(node, z, GroupKey(node, r))
BY DEF GroupsOf, GroupKey

\* A bag has finitely many groups.
LEMMA GroupsFinite ==
  ASSUME NEW node, NEW z, IsZSet(z)
  PROVE  IsFiniteSet(GroupsOf(node, z))
<1>1. CASE node.keys = <<>>
  BY <1>1, FS_Singleton DEF GroupsOf
<1>2. CASE node.keys # <<>>
  <2> DEFINE f == [r \in DOMAIN z |-> GroupOf(node, z, GroupKey(node, r))]
  <2>1. GroupsOf(node, z) = {f[r] : r \in DOMAIN z}
    <3>1. \A g : g \in GroupsOf(node, z) <=> g \in {f[r] : r \in DOMAIN z}
      BY <1>2, GroupsAre
    <3> HIDE DEF f
    <3> QED BY <3>1
  <2> HIDE DEF f
  <2>2. IsFiniteSet(DOMAIN z)
    BY DEF IsZSet
  <2> QED BY <2>1, <2>2, FiniteImage
<1> QED BY <1>1, <1>2

\* A row per group is a bag.
LEMMA GroupZ ==
  ASSUME NEW node, NEW z, IsZSet(z), NEW fields
  PROVE  /\ IsFiniteSet(Kept(node, z, fields))
         /\ IsBag(GroupRows(node, z, fields))
<1>1. IsFiniteSet(Kept(node, z, fields))
  BY GroupsFinite, FS_Subset DEF Kept
<1>2. IsBag(Ones(Kept(node, z, fields)))
  BY <1>1, OnesBag
<1> QED BY <1>1, <1>2, GroupRowsIs, GatheredZ DEF IsBag

\* The groups of two parts that share no key.
LEMMA GroupInPart ==
  ASSUME NEW node, NEW z, NEW a, NEW b, Splits(z, a, b),
         \A r \in DOMAIN a : \A s \in DOMAIN b : GroupKey(node, s) # GroupKey(node, r)
  PROVE  \A r \in DOMAIN a : GroupOf(node, z, GroupKey(node, r)) = GroupOf(node, a, GroupKey(node, r))
<1> SUFFICES ASSUME NEW r \in DOMAIN a
             PROVE  GroupOf(node, z, GroupKey(node, r)) = GroupOf(node, a, GroupKey(node, r))
  OBVIOUS
<1> DEFINE S == Sharing(node, z, GroupKey(node, r))
           T == Sharing(node, a, GroupKey(node, r))
<1>1. S = T
  BY DEF Splits, Sharing
<1>2. \A x \in T : a[x] = z[x]
  BY DEF Splits, Sharing
<1>3. GroupOf(node, z, GroupKey(node, r)) = [x \in S |-> z[x]]
  BY GroupIs
<1>4. GroupOf(node, a, GroupKey(node, r)) = [x \in T |-> a[x]]
  BY GroupIs
<1> HIDE DEF S, T
<1> QED BY <1>1, <1>2, <1>3, <1>4

\* Parts without a common key have no common group.
LEMMA GroupsSplit ==
  ASSUME NEW node, node.keys # <<>>, NEW z, NEW a, NEW b, Splits(z, a, b),
         \A r \in DOMAIN a : \A s \in DOMAIN b : GroupKey(node, s) # GroupKey(node, r)
  PROVE  /\ GroupsOf(node, z) = GroupsOf(node, a) \cup GroupsOf(node, b)
         /\ GroupsOf(node, a) \cap GroupsOf(node, b) = {}
<1>1. Splits(z, b, a) /\ \A r \in DOMAIN b : \A s \in DOMAIN a : GroupKey(node, s) # GroupKey(node, r)
  BY DEF Splits
<1>2. /\ \A r \in DOMAIN a : GroupOf(node, z, GroupKey(node, r)) = GroupOf(node, a, GroupKey(node, r))
      /\ \A r \in DOMAIN b : GroupOf(node, z, GroupKey(node, r)) = GroupOf(node, b, GroupKey(node, r))
  BY <1>1, GroupInPart
<1>3. DOMAIN z = DOMAIN a \cup DOMAIN b /\ DOMAIN a \cap DOMAIN b = {}
  BY DEF Splits
<1>4. /\ \A g : g \in GroupsOf(node, z) <=> \E r \in DOMAIN z : g = GroupOf(node, z, GroupKey(node, r))
      /\ \A g : g \in GroupsOf(node, a) <=> \E r \in DOMAIN a : g = GroupOf(node, a, GroupKey(node, r))
      /\ \A g : g \in GroupsOf(node, b) <=> \E r \in DOMAIN b : g = GroupOf(node, b, GroupKey(node, r))
  BY GroupsAre
<1>5. \A g : g \in GroupsOf(node, z) <=> g \in GroupsOf(node, a) \/ g \in GroupsOf(node, b)
  BY <1>2, <1>3, <1>4
<1>6. ASSUME NEW g, g \in GroupsOf(node, a), g \in GroupsOf(node, b)
      PROVE  FALSE
  <2>1. PICK r \in DOMAIN a : g = GroupOf(node, a, GroupKey(node, r))
    BY <1>4, <1>6
  <2>2. PICK s \in DOMAIN b : g = GroupOf(node, b, GroupKey(node, s))
    BY <1>4, <1>6
  <2>3. r \in DOMAIN g
    BY <2>1, GroupIs
  <2>4. DOMAIN g \subseteq DOMAIN b
    BY <2>2, GroupIs
  <2> QED BY <1>3, <2>3, <2>4
<1> QED BY <1>5, <1>6

\* The rows of the groups add over such parts.
LEMMA GroupSplits ==
  ASSUME NEW node, node.keys # <<>>, NEW fields,
         NEW z, IsZSet(z), NEW a, IsZSet(a), NEW b, IsZSet(b), Splits(z, a, b),
         \A r \in DOMAIN a : \A s \in DOMAIN b : GroupKey(node, s) # GroupKey(node, r)
  PROVE  Adds(GroupRows(node, z, fields), GroupRows(node, a, fields), GroupRows(node, b, fields))
<1> DEFINE kz == Kept(node, z, fields)
           ka == Kept(node, a, fields)
           kb == Kept(node, b, fields)
           g == RowOfGroup(node, fields, kz)
<1>1. kz = ka \cup kb /\ ka \cap kb = {}
  BY GroupsSplit DEF Kept
<1>2. /\ GroupRows(node, z, fields) = Gathered(Ones(kz), RowOfGroup(node, fields, kz))
      /\ GroupRows(node, a, fields) = Gathered(Ones(ka), RowOfGroup(node, fields, ka))
      /\ GroupRows(node, b, fields) = Gathered(Ones(kb), RowOfGroup(node, fields, kb))
  BY GroupRowsIs
<1>3. IsFiniteSet(kz) /\ IsFiniteSet(ka) /\ IsFiniteSet(kb)
  BY GroupZ
<1> HIDE DEF kz, ka, kb
<1>4. /\ IsZSet(Ones(kz)) /\ IsZSet(Ones(ka)) /\ IsZSet(Ones(kb))
      /\ DOMAIN Ones(kz) = kz /\ DOMAIN Ones(ka) = ka /\ DOMAIN Ones(kb) = kb
  BY <1>3, OnesBag DEF IsBag
<1>5. Adds(Ones(kz), Ones(ka), Ones(kb))
  BY <1>1, OnesAdd
<1>6. /\ \A x \in ka : RowOfGroup(node, fields, ka)[x] = g[x]
      /\ \A x \in kb : RowOfGroup(node, fields, kb)[x] = g[x]
  BY <1>1 DEF RowOfGroup
<1> HIDE DEF g
<1>7. /\ \A x \in DOMAIN Ones(kz) : RowOfGroup(node, fields, kz)[x] = g[x]
      /\ \A x \in DOMAIN Ones(ka) : RowOfGroup(node, fields, ka)[x] = g[x]
      /\ \A x \in DOMAIN Ones(kb) : RowOfGroup(node, fields, kb)[x] = g[x]
  BY <1>4, <1>6 DEF g
<1> QED BY <1>2, <1>4, <1>5, <1>7, GatheredAdds DEF Adds

\* The groups of the touched rows are the touched groups.
LEMMA TouchedGroups ==
  ASSUME NEW node, node.kind = "group", node.keys # <<>>, NEW fields, NEW keys, NEW z, IsZSet(z)
  PROVE  Adds(GroupRows(node, z, fields), GroupRows(node, TouchedRows(node, 1, z, keys), fields),
              GroupRows(node, Rest(node, 1, z, keys), fields))
<1> DEFINE a == TouchedRows(node, 1, z, keys)
           b == Rest(node, 1, z, keys)
<1>1. IsZSet(a) /\ IsZSet(b) /\ Splits(z, a, b)
  BY TouchedSplits
<1>2. /\ \A r \in DOMAIN a : KeyOf(node, 1, r) \in keys
      /\ \A r \in DOMAIN b : KeyOf(node, 1, r) \notin keys
  BY TouchedSplits
<1>3. \A r : KeyOf(node, 1, r) = GroupKey(node, r)
  BY DEF KeyOf, GroupKey
<1> HIDE DEF a, b
<1>4. \A r \in DOMAIN a : \A s \in DOMAIN b : GroupKey(node, s) # GroupKey(node, r)
  BY <1>2, <1>3
<1>5. Adds(GroupRows(node, z, fields), GroupRows(node, a, fields), GroupRows(node, b, fields))
  BY <1>1, <1>4, GroupSplits
<1> QED BY <1>5 DEF a, b

\* The change of a group node is its change over the touched keys.
LEMMA GroupChange ==
  ASSUME NEW node, node.kind = "group", node.keys # <<>>, NEW fields, NEW keys,
         NEW n, IsZSet(n), NEW p, IsZSet(p), SameElsewhere(node, 1, n, p, keys)
  PROVE  Minus(GroupRows(node, TouchedRows(node, 1, n, keys), fields),
               GroupRows(node, TouchedRows(node, 1, p, keys), fields))
           = Minus(GroupRows(node, n, fields), GroupRows(node, p, fields))
<1> DEFINE na == TouchedRows(node, 1, n, keys)
           pa == TouchedRows(node, 1, p, keys)
           b == Rest(node, 1, n, keys)
<1>1. b = Rest(node, 1, p, keys)
  BY RestIsSame
<1>2. IsZSet(na) /\ IsZSet(pa) /\ IsZSet(b)
  BY TouchedSplits
<1>3. /\ Adds(GroupRows(node, n, fields), GroupRows(node, na, fields), GroupRows(node, b, fields))
      /\ Adds(GroupRows(node, p, fields), GroupRows(node, pa, fields), GroupRows(node, b, fields))
  BY <1>1, TouchedGroups
<1> HIDE DEF na, pa, b
<1>4. /\ IsZSet(GroupRows(node, n, fields)) /\ IsZSet(GroupRows(node, na, fields))
      /\ IsZSet(GroupRows(node, b, fields))
      /\ IsZSet(GroupRows(node, p, fields)) /\ IsZSet(GroupRows(node, pa, fields))
  BY <1>2, GroupZ DEF IsBag
<1>5. Minus(GroupRows(node, na, fields), GroupRows(node, pa, fields))
        = Minus(GroupRows(node, n, fields), GroupRows(node, p, fields))
  BY <1>3, <1>4, ChangeOfPart
<1> QED BY <1>5 DEF na, pa

\* The row of a group shows the key of the group.
LEMMA RowShowsKey ==
  ASSUME NEW node, Members(node.keys) \subseteq Members(node.exprs), NEW g, NEW r
  PROVE  ShownKey(node, GroupRow(node, g, r)) = GroupKey(node, r)
<1> DEFINE row == GroupRow(node, g, r)
           spot(e) == CHOOSE i \in DOMAIN node.exprs : node.exprs[i] = e
<1>1. /\ ShownKey(node, row) = [j \in DOMAIN node.keys |-> row[spot(node.keys[j])]]
      /\ GroupKey(node, r) = [j \in DOMAIN node.keys |-> Cell(node.keys[j], r)]
  BY DEF ShownKey, GroupKey, CellsOf, Each
<1>2. ASSUME NEW j \in DOMAIN node.keys
      PROVE  row[spot(node.keys[j])] = Cell(node.keys[j], r)
  <2> DEFINE e == node.keys[j]
  <2>1. e \in Members(node.keys)
    BY DEF Members
  <2>2. \E i \in DOMAIN node.exprs : node.exprs[i] = e
    BY <2>1 DEF Members
  <2>3. spot(e) \in DOMAIN node.exprs /\ node.exprs[spot(e)] = e
    BY <2>2
  <2> HIDE DEF spot, e
  <2>4. row[spot(e)] = IF node.exprs[spot(e)] \in Members(node.keys) THEN Cell(node.exprs[spot(e)], r)
                     ELSE Scalar(node.exprs[spot(e)], r, g)
    BY <2>3 DEF GroupRow, Each
  <2>5. row[spot(e)] = Cell(e, r)
    BY <2>1, <2>3, <2>4
  <2> QED BY <2>5 DEF e
<1> HIDE DEF row, spot
<1>3. [j \in DOMAIN node.keys |-> row[spot(node.keys[j])]] = [j \in DOMAIN node.keys |-> Cell(node.keys[j], r)]
  BY <1>2
<1> QED BY <1>1, <1>3 DEF row

\* A row of a group that shows its keys shows the key of the group.
LEMMA GroupRowsShow ==
  ASSUME NEW node, node.keys # <<>>, Members(node.keys) \subseteq Members(node.exprs), NEW fields,
         NEW z, IsZSet(z), NEW y, At(GroupRows(node, z, fields), y) # 0
  PROVE  \E r \in DOMAIN z : ShownKey(node, y) = GroupKey(node, r)
<1> DEFINE k == Kept(node, z, fields)
           f == RowOfGroup(node, fields, k)
<1>1. GroupRows(node, z, fields) = Gathered(Ones(k), f)
  BY GroupRowsIs
<1>2. IsZSet(Ones(k)) /\ DOMAIN Ones(k) = k
  BY GroupZ, OnesBag DEF IsBag
<1>3. \E g \in k : f[g] = y
  <2>1. SumOf(Ones(k), Makers(Ones(k), f, y)) # 0
    <3> HIDE DEF k, f
    <3> QED BY <1>1, <1>2, GatheredZ
  <2>2. Makers(Ones(k), f, y) # {}
    BY <2>1, SumOfNone
  <2> QED BY <1>2, <2>2 DEF Makers
<1>4. PICK g \in k : f[g] = y
  BY <1>3
<1>5. y = GroupRow(node, g, Sample(g, fields))
  BY <1>4 DEF RowOfGroup
<1>6. PICK r \in DOMAIN z : g = GroupOf(node, z, GroupKey(node, r))
  <2>1. g \in GroupsOf(node, z)
    BY DEF Kept
  <2> QED BY <2>1, GroupsAre
<1>7. /\ r \in DOMAIN g
      /\ \A s \in DOMAIN g : GroupKey(node, s) = GroupKey(node, r)
  BY <1>6, GroupIs
<1>8. Sample(g, fields) \in DOMAIN g
  <2>1. g # NoRows
    BY <1>7 DEF NoRows
  <2> QED BY <1>7, <2>1 DEF Sample
<1>9. ShownKey(node, y) = GroupKey(node, Sample(g, fields))
  BY <1>5, RowShowsKey
<1> QED BY <1>7, <1>8, <1>9

\* The rows that show one of the keys.
Showing(node, z, keys) == Where(z, LAMBDA r : ShownKey(node, r) \in keys)

\* The stored rows of the touched groups are the rows of the touched groups.
LEMMA StoredGroups ==
  ASSUME NEW node, node.kind = "group", node.keys # <<>>,
         Members(node.keys) \subseteq Members(node.exprs), NEW fields, NEW keys, NEW z, IsZSet(z)
  PROVE  Showing(node, GroupRows(node, z, fields), keys)
           = GroupRows(node, TouchedRows(node, 1, z, keys), fields)
<1> DEFINE c == GroupRows(node, z, fields)
           a == GroupRows(node, TouchedRows(node, 1, z, keys), fields)
           b == GroupRows(node, Rest(node, 1, z, keys), fields)
           S == {r \in DOMAIN c : ShownKey(node, r) \in keys}
           w == Within(c, S)
<1>1. /\ IsZSet(TouchedRows(node, 1, z, keys)) /\ IsZSet(Rest(node, 1, z, keys))
      /\ \A r \in DOMAIN TouchedRows(node, 1, z, keys) : KeyOf(node, 1, r) \in keys
      /\ \A r \in DOMAIN Rest(node, 1, z, keys) : KeyOf(node, 1, r) \notin keys
  BY TouchedSplits
<1>2. IsZSet(a) /\ IsZSet(b) /\ IsZSet(c)
  BY <1>1, GroupZ DEF IsBag
<1>3. Adds(c, a, b)
  BY TouchedGroups
<1>4. \A r : KeyOf(node, 1, r) = GroupKey(node, r)
  BY DEF KeyOf, GroupKey
<1>5. \A y : /\ At(a, y) # 0 => ShownKey(node, y) \in keys
             /\ At(b, y) # 0 => ShownKey(node, y) \notin keys
  <2> TAKE y
  <2>1. ASSUME At(a, y) # 0 PROVE ShownKey(node, y) \in keys
    <3>1. \E r \in DOMAIN TouchedRows(node, 1, z, keys) : ShownKey(node, y) = GroupKey(node, r)
      BY <1>1, <2>1, GroupRowsShow
    <3> QED BY <1>1, <1>4, <3>1
  <2>2. ASSUME At(b, y) # 0 PROVE ShownKey(node, y) \notin keys
    <3>1. \E r \in DOMAIN Rest(node, 1, z, keys) : ShownKey(node, y) = GroupKey(node, r)
      BY <1>1, <2>2, GroupRowsShow
    <3> QED BY <1>1, <1>4, <3>1
  <2> QED BY <2>1, <2>2
<1> HIDE DEF a, b, c
<1>6. \A y : At(c, y) = At(a, y) + At(b, y) /\ At(a, y) \in Int /\ At(b, y) \in Int
  BY <1>2, <1>3, ZSetAt DEF Adds
<1>7. IsZSet(w) /\ \A y : At(w, y) = IF y \in S THEN At(c, y) ELSE 0
  BY <1>2, WithinZ
<1>8. \A y : At(c, y) # 0 => (y \in S <=> ShownKey(node, y) \in keys)
  BY <1>2, ZSetAt
<1>9. \A y : At(w, y) = At(a, y)
  BY <1>5, <1>6, <1>7, <1>8
<1> HIDE DEF w
<1>10. w = a
  BY <1>2, <1>7, <1>9, ZSetsEqual
<1> QED BY <1>10 DEF Showing, Where, a, c, w

-----------------------------------------------------------------------------
(* Maps.                                                                   *)

Passes(node, z) == {r \in DOMAIN z : Cell(node.where, r) = 1}
MappedRow(node, S) == [r \in S |-> CellsOf(node.exprs, r)]
MapRows(node, z) ==
  Gathered(Within(z, Passes(node, z)), MappedRow(node, DOMAIN Within(z, Passes(node, z))))

\* The rows WHERE lets through.
LEMMA PassesZ ==
  ASSUME NEW node, NEW z, IsZSet(z)
  PROVE  /\ IsZSet(Within(z, Passes(node, z))) /\ (IsBag(z) => IsBag(Within(z, Passes(node, z))))
         /\ \A r : At(Within(z, Passes(node, z)), r) = IF Cell(node.where, r) = 1 THEN At(z, r) ELSE 0
<1>1. \A r : At(Within(z, Passes(node, z)), r) = IF r \in Passes(node, z) THEN At(z, r) ELSE 0
  BY WithinZ
<1>2. \A r : At(Within(z, Passes(node, z)), r) = IF Cell(node.where, r) = 1 THEN At(z, r) ELSE 0
  BY <1>1 DEF Passes, At
<1> QED BY <1>2, WithinZ

\* A map keeps Z-sets and bags.
LEMMA MapZ ==
  ASSUME NEW node, NEW z, IsZSet(z)
  PROVE  IsZSet(MapRows(node, z)) /\ (IsBag(z) => IsBag(MapRows(node, z)))
BY PassesZ, GatheredZ DEF MapRows

\* It is additive: of a delta it makes the change of its rows.
LEMMA MapAdds ==
  ASSUME NEW node, NEW c, IsZSet(c), NEW a, IsZSet(a), NEW b, IsZSet(b), Adds(c, a, b)
  PROVE  Adds(MapRows(node, c), MapRows(node, a), MapRows(node, b))
<1> DEFINE N == Within(c, Passes(node, c))
           A == Within(a, Passes(node, a))
           B == Within(b, Passes(node, b))
           D == UNION {DOMAIN N, DOMAIN A, DOMAIN B}
           g == MappedRow(node, D)
<1>1. IsZSet(N) /\ IsZSet(A) /\ IsZSet(B)
  BY PassesZ
<1>2. \A r : At(c, r) = At(a, r) + At(b, r)
  BY DEF Adds
<1>3. \A r : /\ At(N, r) = IF Cell(node.where, r) = 1 THEN At(c, r) ELSE 0
             /\ At(A, r) = IF Cell(node.where, r) = 1 THEN At(a, r) ELSE 0
             /\ At(B, r) = IF Cell(node.where, r) = 1 THEN At(b, r) ELSE 0
  BY PassesZ
<1>4. \A r : At(N, r) = At(A, r) + At(B, r)
  BY <1>2, <1>3
<1>5. /\ \A r \in DOMAIN N : MappedRow(node, DOMAIN N)[r] = g[r]
      /\ \A r \in DOMAIN A : MappedRow(node, DOMAIN A)[r] = g[r]
      /\ \A r \in DOMAIN B : MappedRow(node, DOMAIN B)[r] = g[r]
  BY DEF MappedRow
<1>6. /\ MapRows(node, c) = Gathered(N, MappedRow(node, DOMAIN N))
      /\ MapRows(node, a) = Gathered(A, MappedRow(node, DOMAIN A))
      /\ MapRows(node, b) = Gathered(B, MappedRow(node, DOMAIN B))
  BY DEF MapRows
<1> HIDE DEF N, A, B, g
<1> QED BY <1>1, <1>4, <1>5, <1>6, GatheredAdds DEF Adds

-----------------------------------------------------------------------------
(* The nodes of a plan.                                                    *)

\* What materialize does by the kind of a node (src/1c_materialize.rs:80): map,
LEMMA MapIs ==
  ASSUME NEW p, NEW k, NEW in, p[k].kind = "map"
  PROVE  Materialize(p, k, in) = MapRows(p[k], in[1])
<1>1. Materialize(p, k, in)
        = Image(Where(in[1], LAMBDA r : Cell(p[k].where, r) = 1), LAMBDA r : CellsOf(p[k].exprs, r))
  BY DEF Materialize
<1> QED BY <1>1, TabledIs DEF Image, Where, MapRows, Passes, MappedRow

\* UNION ALL,
LEMMA AllIs ==
  ASSUME NEW p, NEW k, NEW in, p[k].kind = "all"
  PROVE  Materialize(p, k, in) = Plus(in[1], in[2])
BY DEF Materialize

\* join,
LEMMA JoinIs ==
  ASSUME NEW p, NEW k, NEW in, p[k].kind = "join"
  PROVE  Materialize(p, k, in)
           = Joined(p[k], in[1], in[2], p[p[k].in[1]].fields, p[p[k].in[2]].fields)
BY DEF Materialize

\* group,
LEMMA GroupNodeIs ==
  ASSUME NEW p, NEW k, NEW in, p[k].kind = "group"
  PROVE  Materialize(p, k, in) = GroupRows(p[k], in[1], p[p[k].in[1]].fields)
BY DEF Materialize

\* limit,
LEMMA LimitIs ==
  ASSUME NEW p, NEW k, NEW in, p[k].kind = "limit"
  PROVE  Materialize(p, k, in) = LimitRows(p[k], in[1])
BY DEF Materialize

\* window,
LEMMA WindowIs ==
  ASSUME NEW p, NEW k, NEW in, p[k].kind = "window"
  PROVE  Materialize(p, k, in) = WindowRows(p[k], in[1])
BY DEF Materialize

\* and the sets.
LEMMA SetIs ==
  ASSUME NEW p, NEW k, NEW in, p[k].kind \in {"union", "distinct", "except", "intersect"}
  PROVE  Materialize(p, k, in) = SetOf(p[k], in[1], IF Len(p[k].in) = 2 THEN in[2] ELSE NoRows)
BY DEF Materialize

\* What a plan says of a node that computes.
LEMMA PlanNode ==
  ASSUME NEW p, IsPlan(p), NEW k \in DOMAIN p, p[k].kind \notin {"input", "fixpoint"}
  PROVE  /\ k \in 1..Len(p) /\ Len(p) \in Nat
         /\ \/ p[k].kind \in OneInput /\ Len(p[k].in) = 1 /\ DOMAIN p[k].in = {1}
            \/ p[k].kind \in TwoInputs /\ Len(p[k].in) = 2 /\ DOMAIN p[k].in = {1, 2}
         /\ p[k].kind \in {"map", "distinct", "group", "limit", "window",
                           "all", "union", "except", "intersect", "join"}
         /\ \A i \in DOMAIN p[k].in : p[k].in[i] \in 1..(k - 1) /\ p[k].in[i] \in DOMAIN p
         /\ p[k].kind = "join" => p[k].mode \in Modes
         /\ p[k].kind = "limit" => p[k].keys = <<>> /\ p[k].limit \in Int /\ p[k].offset \in Int
<1>1. /\ Len(p) \in Nat /\ DOMAIN p = 1..Len(p)
      /\ DOMAIN p[k].in = 1..Len(p[k].in)
      /\ \A i \in DOMAIN p[k].in : p[k].in[i] \in 1..(k - 1)
      /\ p[k].kind = "join" => p[k].mode \in Modes
      /\ p[k].kind = "limit" => p[k].keys = <<>> /\ p[k].limit \in Int /\ p[k].offset \in Int
  BY DEF IsPlan, Modes
<1>2. \/ p[k].kind \in OneInput /\ Len(p[k].in) = 1
      \/ p[k].kind \in TwoInputs /\ Len(p[k].in) = 2
  BY DEF IsPlan
<1>3. p[k].kind \in {"map", "distinct", "group", "limit", "window",
                     "all", "union", "except", "intersect", "join"}
  BY <1>2 DEF OneInput, TwoInputs
<1>4. \A i \in DOMAIN p[k].in : p[k].in[i] \in DOMAIN p
  BY <1>1
<1>5. (1..1 = {1}) /\ (1..2 = {1, 2})
  OBVIOUS
<1> QED BY <1>1, <1>2, <1>3, <1>4, <1>5

\* A node makes a bag of bags.
LEMMA NodeBag ==
  ASSUME NEW p, IsPlan(p), NEW k \in DOMAIN p, p[k].kind \notin {"input", "fixpoint"},
         NEW in, \A i \in DOMAIN p[k].in : IsBag(in[i])
  PROVE  IsBag(Materialize(p, k, in))
<1>1. IsBag(in[1]) /\ IsZSet(in[1])
  BY PlanNode DEF IsBag
<1>2. Len(p[k].in) = 2 => IsBag(in[2]) /\ IsZSet(in[2])
  BY PlanNode DEF IsBag
<1>3. /\ p[k].kind \in {"map", "distinct", "group", "limit", "window",
                        "all", "union", "except", "intersect", "join"}
      /\ p[k].kind \in {"all", "join"} => Len(p[k].in) = 2
      /\ p[k].kind = "join" => p[k].mode \in Modes
      /\ p[k].kind = "limit" => p[k].limit \in Int /\ p[k].offset \in Int
  BY PlanNode DEF OneInput, TwoInputs
<1>4. CASE p[k].kind = "map"
  BY <1>1, <1>4, MapIs, MapZ
<1>5. CASE p[k].kind = "all"
  BY <1>1, <1>2, <1>3, <1>5, AllIs, BagsAdd
<1>6. CASE p[k].kind = "join"
  BY <1>1, <1>2, <1>3, <1>6, JoinIs, JoinedZ
<1>7. CASE p[k].kind = "group"
  BY <1>1, <1>7, GroupNodeIs, GroupZ
<1>8. CASE p[k].kind = "limit"
  BY <1>1, <1>3, <1>8, LimitIs, LimitZ
<1>9. CASE p[k].kind = "window"
  BY <1>1, <1>9, WindowIs, WindowZ
<1>10. CASE p[k].kind \in {"union", "distinct", "except", "intersect"}
  <2> DEFINE other == IF Len(p[k].in) = 2 THEN in[2] ELSE NoRows
  <2>1. IsZSet(other)
    BY <1>2, NoRowsZ
  <2>2. Materialize(p, k, in) = SetOf(p[k], in[1], other)
    BY <1>10, SetIs
  <2> HIDE DEF other
  <2> QED BY <1>1, <1>10, <2>1, <2>2, SetOfZ
<1> QED BY <1>3, <1>4, <1>5, <1>6, <1>7, <1>8, <1>9, <1>10

\* The inputs of a node restricted to the touched keys.
TouchedIn(node, in, keys) == [side \in DOMAIN node.in |-> TouchedRows(node, side, in[side], keys)]

IsArrangement(node) ==
  \/ node.kind \in {"group", "limit", "window", "except", "intersect"}
  \/ node.kind = "join" /\ node.mode # "inner"

\* Before and after on the touched keys is the whole change, when nothing else changed.
LEMMA ArrangementChange ==
  ASSUME NEW p, IsPlan(p), NEW k \in DOMAIN p, IsArrangement(p[k]), NEW keys,
         NEW n, \A i \in DOMAIN p[k].in : IsBag(n[i]),
         NEW q, \A i \in DOMAIN p[k].in : IsBag(q[i]),
         \A i \in DOMAIN p[k].in : SameElsewhere(p[k], i, n[i], q[i], keys),
         \E i \in DOMAIN p[k].in : \E r : KeyOf(p[k], i, r) \in keys
  PROVE  Minus(Materialize(p, k, TouchedIn(p[k], n, keys)), Materialize(p, k, TouchedIn(p[k], q, keys)))
           = Minus(Materialize(p, k, n), Materialize(p, k, q))
<1> DEFINE node == p[k]
           nt == TouchedIn(node, n, keys)
           qt == TouchedIn(node, q, keys)
<1> SUFFICES Minus(Materialize(p, k, nt), Materialize(p, k, qt))
               = Minus(Materialize(p, k, n), Materialize(p, k, q))
  OBVIOUS
<1>0. node.kind \notin {"input", "fixpoint"}
  BY DEF IsArrangement
<1>1. 1 \in DOMAIN node.in /\ (Len(node.in) = 2 => 2 \in DOMAIN node.in)
  BY <1>0, PlanNode
<1>2. /\ nt[1] = TouchedRows(node, 1, n[1], keys) /\ qt[1] = TouchedRows(node, 1, q[1], keys)
      /\ Len(node.in) = 2 => /\ nt[2] = TouchedRows(node, 2, n[2], keys)
                             /\ qt[2] = TouchedRows(node, 2, q[2], keys)
  BY <1>1 DEF TouchedIn
<1>3. /\ IsBag(n[1]) /\ IsZSet(n[1]) /\ IsBag(q[1]) /\ IsZSet(q[1])
      /\ SameElsewhere(node, 1, n[1], q[1], keys)
  BY <1>1 DEF IsBag
<1>4. Len(node.in) = 2 => /\ IsBag(n[2]) /\ IsZSet(n[2]) /\ IsBag(q[2]) /\ IsZSet(q[2])
                          /\ SameElsewhere(node, 2, n[2], q[2], keys)
  BY <1>1 DEF IsBag
<1>5. /\ node.kind \in {"join", "except", "intersect"} => Len(node.in) = 2
      /\ node.kind \in {"group", "limit", "window"} => DOMAIN node.in = {1}
      /\ node.kind = "join" => node.mode \in Modes
      /\ node.kind = "limit" => node.keys = <<>>
  BY <1>0, PlanNode DEF OneInput, TwoInputs
<1> HIDE DEF nt, qt
<1>6. CASE node.kind = "join"
  <2> DEFINE lf == p[node.in[1]].fields
             rf == p[node.in[2]].fields
  <2>1. /\ Materialize(p, k, nt) = Joined(node, nt[1], nt[2], lf, rf)
        /\ Materialize(p, k, qt) = Joined(node, qt[1], qt[2], lf, rf)
        /\ Materialize(p, k, n) = Joined(node, n[1], n[2], lf, rf)
        /\ Materialize(p, k, q) = Joined(node, q[1], q[2], lf, rf)
    BY <1>6, JoinIs
  <2> HIDE DEF lf, rf
  <2> QED BY <1>2, <1>3, <1>4, <1>5, <1>6, <2>1, JoinChange
<1>7. CASE node.kind \in {"except", "intersect"}
  <2>1. /\ Materialize(p, k, nt) = SetOf(node, nt[1], nt[2])
        /\ Materialize(p, k, qt) = SetOf(node, qt[1], qt[2])
        /\ Materialize(p, k, n) = SetOf(node, n[1], n[2])
        /\ Materialize(p, k, q) = SetOf(node, q[1], q[2])
    BY <1>5, <1>7, SetIs
  <2> QED BY <1>2, <1>3, <1>4, <1>5, <1>7, <2>1, SetChange
<1>8. CASE node.kind = "window"
  <2>1. /\ Materialize(p, k, nt) = WindowRows(node, nt[1])
        /\ Materialize(p, k, qt) = WindowRows(node, qt[1])
        /\ Materialize(p, k, n) = WindowRows(node, n[1])
        /\ Materialize(p, k, q) = WindowRows(node, q[1])
    BY <1>8, WindowIs
  <2> QED BY <1>2, <1>3, <1>8, <2>1, WindowChange
<1>9. CASE node.kind = "group" /\ node.keys # <<>>
  <2> DEFINE fields == p[node.in[1]].fields
  <2>1. /\ Materialize(p, k, nt) = GroupRows(node, nt[1], fields)
        /\ Materialize(p, k, qt) = GroupRows(node, qt[1], fields)
        /\ Materialize(p, k, n) = GroupRows(node, n[1], fields)
        /\ Materialize(p, k, q) = GroupRows(node, q[1], fields)
    BY <1>9, GroupNodeIs
  <2> HIDE DEF fields
  <2> QED BY <1>2, <1>3, <1>9, <2>1, GroupChange
<1>10. CASE node.kind \in {"group", "limit"} /\ node.keys = <<>>
  <2>1. \A r : KeyOf(node, 1, r) = <<>>
    BY <1>10, NoKeys
  <2>2. <<>> \in keys
    BY <1>5, <1>10, <2>1
  <2>3. nt[1] = n[1] /\ qt[1] = q[1]
    BY <1>2, <1>3, <2>1, <2>2, AllTouched
  <2>4. Materialize(p, k, nt) = Materialize(p, k, n) /\ Materialize(p, k, qt) = Materialize(p, k, q)
    BY <1>10, <2>3, GroupNodeIs, LimitIs
  <2> QED BY <2>4
<1>11. \/ node.kind = "join" \/ node.kind \in {"except", "intersect"} \/ node.kind = "window"
       \/ node.kind = "group" /\ node.keys # <<>>
       \/ node.kind \in {"group", "limit"} /\ node.keys = <<>>
  BY <1>5 DEF IsArrangement
<1> HIDE DEF node
<1> QED BY <1>6, <1>7, <1>8, <1>9, <1>10, <1>11

-----------------------------------------------------------------------------
(* The rows of all nodes.                                                  *)

\* A set of naturals that holds zero and with each number the next holds all.
LEMMA Upward ==
  ASSUME NEW Good, 0 \in Good, \A n \in Nat : n \in Good => n + 1 \in Good
  PROVE  Nat \subseteq Good
<1> DEFINE Bad == Nat \ Good
<1> SUFFICES ASSUME Bad # {} PROVE FALSE
  OBVIOUS
<1> DEFINE less == OpToRel(<, Nat)
<1>1. IsWellFoundedOn(less, Nat)
  BY NatLessThanWellFounded
<1>2. \A x, y \in Nat : x < y => <<x, y>> \in less
  BY DEF OpToRel
<1> HIDE DEF less
<1>3. PICK n \in Bad : \A m \in Bad : <<m, n>> \notin less
  BY <1>1, WFMin
<1>4. n \in Nat \ {0}
  OBVIOUS
<1>5. n - 1 \in Nat /\ n - 1 < n /\ (n - 1) + 1 = n
  BY <1>4
<1>6. n - 1 \in Good
  BY <1>2, <1>3, <1>5
<1> QED BY <1>5, <1>6

\* What holds of a node when it holds of all earlier ones holds of all nodes.
LEMMA NodeByNode ==
  ASSUME NEW m \in Nat, NEW Good,
         \A k \in 1..m : (\A j \in 1..(k - 1) : j \in Good) => k \in Good
  PROVE  1..m \subseteq Good
<1> DEFINE So == {n \in Nat : \A j \in 1..m : j <= n => j \in Good}
<1>1. 0 \in So
  OBVIOUS
<1>2. ASSUME NEW n \in Nat, n \in So
      PROVE  n + 1 \in So
  <2>1. ASSUME NEW j \in 1..m, j <= n + 1
        PROVE  j \in Good
    <3>1. \A i \in 1..(j - 1) : i \in 1..m /\ i <= n
      BY <2>1
    <3>2. \A i \in 1..(j - 1) : i \in Good
      BY <1>2, <3>1
    <3> QED BY <3>2
  <2> QED BY <2>1
<1> HIDE DEF So
<1>3. m \in So
  BY <1>1, <1>2, Upward
<1> QED BY <1>3 DEF So

\* The rows of the first k nodes, from those of the first k - 1.
NextRows(p, given, k, rows) ==
  Tabled([i \in 1..k |-> IF i < k THEN rows[i] ELSE NodeRows(p, given, k, rows)])

\* f lists the rows of the first 0, 1, ... n nodes.
ListsRows(p, given, f, n) ==
  f = [k \in 0..n |-> IF k = 0 THEN <<>> ELSE NextRows(p, given, k, f[k - 1])]

\* The rows of the nodes, one node after the other, as a function.
LEMMA RowsListed ==
  ASSUME NEW p, NEW given, NEW n \in Nat
  PROVE  \E f : ListsRows(p, given, f, n)
<1> DEFINE Good == {k \in Nat : \E f : ListsRows(p, given, f, k)}
<1>1. 0 \in Good
  <2> DEFINE g == [k \in 0..0 |-> <<>>]
  <2>1. ListsRows(p, given, g, 0)
    BY DEF ListsRows
  <2> QED BY <2>1
<1>2. ASSUME NEW k \in Nat, k \in Good
      PROVE  k + 1 \in Good
  <2>1. PICK f : ListsRows(p, given, f, k)
    BY <1>2
  <2> DEFINE h == [j \in 0..(k + 1) |-> IF j = k + 1 THEN NextRows(p, given, k + 1, f[k]) ELSE f[j]]
  <2>2. \A j \in 0..k : f[j] = IF j = 0 THEN <<>> ELSE NextRows(p, given, j, f[j - 1])
    BY <2>1 DEF ListsRows
  <2>3. ASSUME NEW j \in 0..(k + 1)
        PROVE  h[j] = IF j = 0 THEN <<>> ELSE NextRows(p, given, j, h[j - 1])
    <3>1. CASE j = k + 1
      <4>1. h[j] = NextRows(p, given, j, f[k]) /\ j - 1 = k /\ k \in 0..(k + 1) /\ k # k + 1 /\ j # 0
        BY <3>1
      <4>2. h[j - 1] = f[k]
        BY <4>1
      <4> QED BY <4>1, <4>2
    <3>2. CASE j # k + 1
      <4>1. j \in 0..k /\ h[j] = f[j]
        BY <3>2
      <4>2. j # 0 => j - 1 \in 0..k /\ h[j - 1] = f[j - 1]
        BY <4>1
      <4> HIDE DEF h
      <4> QED BY <2>2, <4>1, <4>2
    <3> QED BY <3>1, <3>2
  <2>4. h = [j \in 0..(k + 1) |-> h[j]]
    OBVIOUS
  <2> HIDE DEF h
  <2>5. h = [j \in 0..(k + 1) |-> IF j = 0 THEN <<>> ELSE NextRows(p, given, j, h[j - 1])]
    BY <2>3, <2>4
  <2>6. ListsRows(p, given, h, k + 1)
    BY <2>5 DEF ListsRows
  <2> QED BY <2>6
<1> HIDE DEF Good
<1>3. n \in Good
  BY <1>1, <1>2, Upward
<1> QED BY <1>3 DEF Good

\* RowsOf is such a function.
LEMMA RowsOfLists ==
  ASSUME NEW p, NEW given, Len(p) \in Nat
  PROVE  \E f : ListsRows(p, given, f, Len(p)) /\ RowsOf(p, given) = f[Len(p)]
<1> DEFINE f == CHOOSE f : f = [k \in 0..Len(p) |->
                                 IF k = 0 THEN <<>>
                                 ELSE LET rows == f[k - 1]
                                      IN Tabled([i \in 1..k |->
                                           IF i < k THEN rows[i] ELSE NodeRows(p, given, k, rows)])]
<1>1. PICK g : ListsRows(p, given, g, Len(p))
  BY RowsListed
<1>2. g = [k \in 0..Len(p) |->
            IF k = 0 THEN <<>>
            ELSE LET rows == g[k - 1]
                 IN Tabled([i \in 1..k |-> IF i < k THEN rows[i] ELSE NodeRows(p, given, k, rows)])]
  BY <1>1 DEF ListsRows, NextRows
<1>3. f = [k \in 0..Len(p) |->
            IF k = 0 THEN <<>>
            ELSE LET rows == f[k - 1]
                 IN Tabled([i \in 1..k |-> IF i < k THEN rows[i] ELSE NodeRows(p, given, k, rows)])]
  BY <1>2
<1>4. RowsOf(p, given) = f[Len(p)]
  BY DEF RowsOf
<1> HIDE DEF f
<1>5. ListsRows(p, given, f, Len(p))
  BY <1>3 DEF ListsRows, NextRows
<1> QED BY <1>4, <1>5

\* Every node has the rows made of the rows of its inputs.
LEMMA RowsOfIs ==
  ASSUME NEW p, IsPlan(p), NEW given
  PROVE  \A k \in DOMAIN p : RowsOf(p, given)[k] = NodeRows(p, given, k, RowsOf(p, given))
<1> DEFINE n == Len(p)
<1>0. n \in Nat /\ DOMAIN p = 1..n
  BY DEF IsPlan
<1>1. PICK f : ListsRows(p, given, f, n) /\ RowsOf(p, given) = f[n]
  BY <1>0, RowsOfLists
<1>2. \A k \in 1..n : f[k] = NextRows(p, given, k, f[k - 1])
  BY <1>0, <1>1 DEF ListsRows
<1>3. \A k \in 1..n : \A i \in 1..k : f[k][i] = IF i < k THEN f[k - 1][i] ELSE NodeRows(p, given, k, f[k - 1])
  BY <1>2, TabledIs DEF NextRows
<1> HIDE DEF n
<1>4. \A k \in 1..n : \A i \in 1..k : f[k][i] = f[i][i]
  <2> DEFINE Good == {k \in 1..n : \A i \in 1..k : f[k][i] = f[i][i]}
  <2>1. ASSUME NEW k \in 1..n, \A j \in 1..(k - 1) : j \in Good
        PROVE  k \in Good
    <3>1. ASSUME NEW i \in 1..k, i < k
          PROVE  f[k][i] = f[i][i]
      <4>1. f[k][i] = f[k - 1][i]
        BY <1>3, <3>1
      <4>2. k - 1 \in 1..(k - 1) /\ i \in 1..(k - 1)
        BY <1>0, <3>1
      <4> QED BY <2>1, <4>1, <4>2
    <3> QED BY <1>0, <3>1
  <2> HIDE DEF Good
  <2>2. 1..n \subseteq Good
    BY <1>0, <2>1, NodeByNode
  <2> QED BY <2>2 DEF Good
<1>5. ASSUME NEW k \in 1..n
      PROVE  f[n][k] = NodeRows(p, given, k, f[n])
  <2>1. n \in 1..n /\ k \in 1..k /\ ~(k < k)
    BY <1>0
  <2>2. f[n][k] = NodeRows(p, given, k, f[k - 1])
    BY <1>3, <1>4, <2>1
  <2>3. k \in DOMAIN given \/ InputsFrom(p[k], f[k - 1]) = InputsFrom(p[k], f[n])
    <3>1. \A i \in DOMAIN p[k].in : p[k].in[i] \in 1..(k - 1)
      BY <1>0 DEF IsPlan, n
    <3>2. \A j \in 1..(k - 1) : k - 1 \in 1..n /\ j \in 1..n /\ f[k - 1][j] = f[n][j]
      <4> TAKE j \in 1..(k - 1)
      <4>1. k - 1 \in 1..n /\ n \in 1..n /\ j \in 1..n
        BY <1>0
      <4>2. f[k - 1][j] = f[j][j] /\ f[n][j] = f[j][j]
        BY <1>4, <4>1
      <4> QED BY <4>1, <4>2
    <3> QED BY <3>1, <3>2 DEF InputsFrom
  <2> QED BY <2>2, <2>3 DEF NodeRows
<1> QED BY <1>0, <1>1, <1>5

\* What each node computes over the tables.
LEMMA EvaluatedIs ==
  ASSUME NEW p, IsPlan(p), NEW tables, NEW k \in DOMAIN p
  PROVE  /\ p[k].kind = "input" => Evaluated(p, tables)[k] = tables[p[k].source]
         /\ p[k].kind # "input" =>
              Evaluated(p, tables)[k] = Materialize(p, k, InputsFrom(p[k], Evaluated(p, tables)))
<1> DEFINE given == [j \in InputNodes(p) |-> tables[p[j].source]]
<1>1. Evaluated(p, tables) = RowsOf(p, given)
  BY DEF Evaluated
<1>2. k \in DOMAIN given <=> p[k].kind = "input"
  BY DEF InputNodes
<1>3. k \in DOMAIN given => given[k] = tables[p[k].source]
  OBVIOUS
<1> HIDE DEF given
<1>4. RowsOf(p, given)[k] = NodeRows(p, given, k, RowsOf(p, given))
  BY RowsOfIs
<1> QED BY <1>1, <1>2, <1>3, <1>4 DEF NodeRows

\* What a statement of a drain reads, node by node.
LEMMA StoredIs ==
  ASSUME NEW p, IsPlan(p), NEW tables, NEW counts, NEW k \in DOMAIN p
  PROVE  /\ p[k].kind = "input" => Stored(p, tables, counts)[k] = tables[p[k].source]
         /\ p[k].kind \in SetKinds => Stored(p, tables, counts)[k] = Support(counts[k])
         /\ p[k].kind \notin SetKinds \cup {"input"} =>
              Stored(p, tables, counts)[k]
                = Materialize(p, k, InputsFrom(p[k], Stored(p, tables, counts)))
<1> DEFINE given == [j \in InputNodes(p) \cup SetNodes(p) |->
                      IF j \in InputNodes(p) THEN tables[p[j].source] ELSE Support(counts[j])]
<1>1. Stored(p, tables, counts) = RowsOf(p, given)
  BY DEF Stored
<1>2. /\ k \in DOMAIN given <=> p[k].kind \in SetKinds \cup {"input"}
      /\ k \in InputNodes(p) <=> p[k].kind = "input"
  BY DEF InputNodes, SetNodes
<1>3. k \in DOMAIN given =>
        given[k] = IF k \in InputNodes(p) THEN tables[p[k].source] ELSE Support(counts[k])
  OBVIOUS
<1> HIDE DEF given
<1>4. RowsOf(p, given)[k] = NodeRows(p, given, k, RowsOf(p, given))
  BY RowsOfIs
<1>5. "input" \notin SetKinds
  BY DEF SetKinds
<1> QED BY <1>1, <1>2, <1>3, <1>4, <1>5 DEF NodeRows

NoFixpoint(p) == \A k \in DOMAIN p : p[k].kind # "fixpoint"
AreBags(tables) == \A s \in SourceIds : IsBag(tables[s])

\* Nodes over tables of rows have rows.
LEMMA EvaluatedBags ==
  ASSUME NEW p, IsPlan(p), NoFixpoint(p), NEW tables, AreBags(tables)
  PROVE  \A k \in DOMAIN p : IsBag(Evaluated(p, tables)[k])
<1> DEFINE E == Evaluated(p, tables)
           Good == {k \in DOMAIN p : IsBag(E[k])}
<1>1. Len(p) \in Nat /\ DOMAIN p = 1..Len(p)
  BY DEF IsPlan
<1>2. ASSUME NEW k \in 1..Len(p), \A j \in 1..(k - 1) : j \in Good
      PROVE  k \in Good
  <2>1. CASE p[k].kind = "input"
    <3>1. p[k].source \in SourceIds
      BY <1>1, <2>1 DEF IsPlan, OneInput, TwoInputs
    <3> QED BY <1>1, <2>1, <3>1, EvaluatedIs DEF AreBags
  <2>2. CASE p[k].kind # "input"
    <3>1. p[k].kind \notin {"input", "fixpoint"}
      BY <1>1, <2>2 DEF NoFixpoint
    <3>2. \A i \in DOMAIN p[k].in : InputsFrom(p[k], E)[i] = E[p[k].in[i]]
      BY DEF InputsFrom
    <3>3. \A i \in DOMAIN p[k].in : IsBag(InputsFrom(p[k], E)[i])
      BY <1>1, <1>2, <3>1, <3>2, PlanNode
    <3>4. IsBag(Materialize(p, k, InputsFrom(p[k], E)))
      BY <1>1, <3>1, <3>3, NodeBag
    <3> QED BY <1>1, <2>2, <3>4, EvaluatedIs
  <2> QED BY <2>1, <2>2
<1> HIDE DEF Good
<1>3. 1..Len(p) \subseteq Good
  BY <1>1, <1>2, NodeByNode
<1> QED BY <1>1, <1>3 DEF Good

\* Where the stored sets are right, a statement reads the right rows.
LEMMA StoredAgrees ==
  ASSUME NEW p, IsPlan(p), NEW tables, NEW counts, NEW m \in Nat, m <= Len(p),
         \A k \in 1..m : p[k].kind \in SetKinds => Support(counts[k]) = Evaluated(p, tables)[k]
  PROVE  \A k \in 1..m : Stored(p, tables, counts)[k] = Evaluated(p, tables)[k]
<1> DEFINE E == Evaluated(p, tables)
           L == Stored(p, tables, counts)
           Good == {k \in 1..m : L[k] = E[k]}
<1>1. Len(p) \in Nat /\ DOMAIN p = 1..Len(p) /\ 1..m \subseteq DOMAIN p
  BY DEF IsPlan
<1>2. ASSUME NEW k \in 1..m, \A j \in 1..(k - 1) : j \in Good
      PROVE  k \in Good
  <2>1. CASE p[k].kind = "input"
    BY <1>1, <2>1, EvaluatedIs, StoredIs
  <2>2. CASE p[k].kind \in SetKinds
    BY <1>1, <2>2, StoredIs
  <2>3. CASE p[k].kind \notin SetKinds \cup {"input"}
    <3>1. L[k] = Materialize(p, k, InputsFrom(p[k], L)) /\ E[k] = Materialize(p, k, InputsFrom(p[k], E))
      BY <1>1, <2>3, EvaluatedIs, StoredIs
    <3>2. \A i \in DOMAIN p[k].in : p[k].in[i] \in 1..(k - 1)
      BY <1>1 DEF IsPlan
    <3>3. InputsFrom(p[k], L) = InputsFrom(p[k], E)
      BY <1>2, <3>2 DEF InputsFrom
    <3> QED BY <3>1, <3>3
  <2> QED BY <2>1, <2>2, <2>3
<1> HIDE DEF Good
<1>3. 1..m \subseteq Good
  BY <1>2, NodeByNode
<1> QED BY <1>3 DEF Good

\* A set node has the rows that its inputs have together.
LEMMA SetNodeIs ==
  ASSUME NEW p, IsPlan(p), NEW tables, NEW k \in DOMAIN p, p[k].kind \in SetKinds
  PROVE  Evaluated(p, tables)[k] = Support(Together(p, k, Evaluated(p, tables)))
<1> DEFINE E == Evaluated(p, tables)
           in == InputsFrom(p[k], E)
<1>1. p[k].kind \in {"union", "distinct"} /\ p[k].kind \notin {"input", "fixpoint"}
  BY DEF SetKinds
<1>2. E[k] = Materialize(p, k, in)
  BY <1>1, EvaluatedIs
<1>3. \/ p[k].kind = "union" /\ Len(p[k].in) = 2 /\ DOMAIN p[k].in = {1, 2}
      \/ p[k].kind = "distinct" /\ Len(p[k].in) = 1 /\ DOMAIN p[k].in = {1}
  BY <1>1, PlanNode DEF OneInput, TwoInputs
<1>4. CASE p[k].kind = "union"
  <2>1. Len(p[k].in) = 2 /\ in[1] = E[p[k].in[1]] /\ in[2] = E[p[k].in[2]]
    BY <1>3, <1>4 DEF InputsFrom
  <2>2. Materialize(p, k, in) = SetOf(p[k], in[1], in[2])
    BY <1>4, <2>1, SetIs
  <2>3. Materialize(p, k, in) = Support(Plus(in[1], in[2]))
    BY <1>4, <2>2, UnionIs
  <2> QED BY <1>2, <2>1, <2>3 DEF Together
<1>5. CASE p[k].kind = "distinct"
  <2>1. Len(p[k].in) # 2 /\ in[1] = E[p[k].in[1]]
    BY <1>3, <1>5 DEF InputsFrom
  <2>2. Materialize(p, k, in) = SetOf(p[k], in[1], NoRows)
    BY <1>5, <2>1, SetIs
  <2>3. Materialize(p, k, in) = Support(in[1])
    BY <1>5, <2>2, DistinctIs
  <2> QED BY <1>2, <2>1, <2>3 DEF Together
<1> QED BY <1>1, <1>4, <1>5

-----------------------------------------------------------------------------
(* Changes.                                                                *)

\* Nothing changed when the change is empty.
LEMMA NoChange ==
  ASSUME NEW n, IsZSet(n), NEW p, IsZSet(p)
  PROVE  Minus(n, p) = NoRows <=> n = p
<1>1. IsZSet(Minus(n, p)) /\ \A r : At(Minus(n, p), r) = At(n, r) - At(p, r)
  BY MinusZ
<1>2. \A r : At(n, r) \in Int /\ At(p, r) \in Int
  BY ZSetAt
<1>3. ASSUME Minus(n, p) = NoRows PROVE n = p
  <2>1. \A r : At(n, r) - At(p, r) = 0
    BY <1>1, <1>3, NoRowsZ
  <2>2. \A r : At(n, r) = At(p, r)
    BY <1>2, <2>1
  <2> QED BY <2>2, ZSetsEqual
<1>4. ASSUME n = p PROVE Minus(n, p) = NoRows
  <2>1. \A r : At(Minus(n, p), r) = 0
    BY <1>1, <1>2, <1>4
  <2> QED BY <1>1, <2>1, NoRowsZ, ZSetsEqual
<1> QED BY <1>3, <1>4

\* What there was is what there is less the change; and what there is, the other
\* way round.
LEMMA TakeBack ==
  ASSUME NEW n, IsZSet(n), NEW p, IsZSet(p)
  PROVE  Minus(n, Minus(n, p)) = p /\ Plus(p, Minus(n, p)) = n
<1>1. IsZSet(Minus(n, p)) /\ \A r : At(Minus(n, p), r) = At(n, r) - At(p, r)
  BY MinusZ
<1>2. \A r : At(n, r) \in Int /\ At(p, r) \in Int
  BY ZSetAt
<1>3. /\ IsZSet(Minus(n, Minus(n, p)))
      /\ \A r : At(Minus(n, Minus(n, p)), r) = At(n, r) - At(Minus(n, p), r)
  BY <1>1, MinusZ
<1>4. /\ IsZSet(Plus(p, Minus(n, p)))
      /\ \A r : At(Plus(p, Minus(n, p)), r) = At(p, r) + At(Minus(n, p), r)
  BY <1>1, PlusZ
<1>5. \A r : At(Minus(n, Minus(n, p)), r) = At(p, r)
  BY <1>1, <1>2, <1>3
<1>6. \A r : At(Plus(p, Minus(n, p)), r) = At(n, r)
  BY <1>1, <1>2, <1>4
<1> QED BY <1>3, <1>4, <1>5, <1>6, ZSetsEqual

\* The new rows are the former ones and the change.
LEMMA AddsChange ==
  ASSUME NEW n, IsZSet(n), NEW p, IsZSet(p)
  PROVE  IsZSet(Minus(n, p)) /\ Adds(n, p, Minus(n, p))
<1>1. IsZSet(Minus(n, p)) /\ \A r : At(Minus(n, p), r) = At(n, r) - At(p, r)
  BY MinusZ
<1>2. \A r : At(n, r) \in Int /\ At(p, r) \in Int
  BY ZSetAt
<1>3. \A r : At(n, r) = At(p, r) + At(Minus(n, p), r)
  BY <1>1, <1>2
<1> QED BY <1>1, <1>3 DEF Adds

\* What makes the new rows of the former ones is the change.
LEMMA ChangeOf ==
  ASSUME NEW n, IsZSet(n), NEW p, IsZSet(p), NEW d, IsZSet(d), Adds(n, p, d)
  PROVE  d = Minus(n, p)
<1>1. IsZSet(Minus(n, p)) /\ \A r : At(Minus(n, p), r) = At(n, r) - At(p, r)
  BY MinusZ
<1>2. \A r : At(d, r) \in Int /\ At(p, r) \in Int
  BY ZSetAt
<1>3. \A r : At(Minus(n, p), r) = At(d, r)
  BY <1>1, <1>2 DEF Adds
<1> QED BY <1>1, <1>3, ZSetsEqual

\* A change of sums is the sum of the changes.
LEMMA ChangeOfSum ==
  ASSUME NEW a, IsZSet(a), NEW b, IsZSet(b), NEW c, IsZSet(c), NEW d, IsZSet(d)
  PROVE  Plus(Minus(a, b), Minus(c, d)) = Minus(Plus(a, c), Plus(b, d))
<1>1. /\ IsZSet(Minus(a, b)) /\ \A r : At(Minus(a, b), r) = At(a, r) - At(b, r)
      /\ IsZSet(Minus(c, d)) /\ \A r : At(Minus(c, d), r) = At(c, r) - At(d, r)
  BY MinusZ
<1>2. /\ IsZSet(Plus(a, c)) /\ \A r : At(Plus(a, c), r) = At(a, r) + At(c, r)
      /\ IsZSet(Plus(b, d)) /\ \A r : At(Plus(b, d), r) = At(b, r) + At(d, r)
  BY PlusZ
<1> DEFINE left == Plus(Minus(a, b), Minus(c, d))
           right == Minus(Plus(a, c), Plus(b, d))
<1>3. IsZSet(left) /\ \A r : At(left, r) = (At(a, r) - At(b, r)) + (At(c, r) - At(d, r))
  BY <1>1, PlusZ
<1>4. IsZSet(right) /\ \A r : At(right, r) = (At(a, r) + At(c, r)) - (At(b, r) + At(d, r))
  BY <1>2, MinusZ
<1>5. \A r : At(a, r) \in Int /\ At(b, r) \in Int /\ At(c, r) \in Int /\ At(d, r) \in Int
  BY ZSetAt
<1> HIDE DEF left, right
<1>6. \A r : At(left, r) = At(right, r)
  BY <1>3, <1>4, <1>5
<1>7. left = right
  BY <1>3, <1>4, <1>6, ZSetsEqual
<1> QED BY <1>7 DEF left, right

-----------------------------------------------------------------------------
(* The turn of one node: n and q are the rows of all nodes after and       *)
(* before the batch, o the out tables.                                     *)

\* The inputs of node k are bags and their out tables their changes.
Changed(p, k, o, n, q) ==
  \A i \in DOMAIN p[k].in :
    LET j == p[k].in[i] IN IsBag(n[j]) /\ IsBag(q[j]) /\ o[j] = Minus(n[j], q[j])

\* Map and UNION ALL make of the deltas the change of their rows.
LEMMA LinearTurn ==
  ASSUME NEW p, IsPlan(p), NEW k \in DOMAIN p, p[k].kind \in {"map", "all"},
         NEW o, NEW n, NEW q, Changed(p, k, o, n, q)
  PROVE  Materialize(p, k, InputsFrom(p[k], o))
           = Minus(Materialize(p, k, InputsFrom(p[k], n)), Materialize(p, k, InputsFrom(p[k], q)))
<1> DEFINE l == p[k].in[1]
           r == p[k].in[2]
           io == InputsFrom(p[k], o)
           in == InputsFrom(p[k], n)
           iq == InputsFrom(p[k], q)
<1>1. 1 \in DOMAIN p[k].in /\ (p[k].kind = "all" => 2 \in DOMAIN p[k].in)
  BY PlanNode DEF OneInput, TwoInputs
<1>2. /\ io[1] = o[l] /\ in[1] = n[l] /\ iq[1] = q[l]
      /\ p[k].kind = "all" => io[2] = o[r] /\ in[2] = n[r] /\ iq[2] = q[r]
  BY <1>1 DEF InputsFrom
<1>3. /\ IsZSet(n[l]) /\ IsZSet(q[l]) /\ o[l] = Minus(n[l], q[l])
      /\ p[k].kind = "all" => IsZSet(n[r]) /\ IsZSet(q[r]) /\ o[r] = Minus(n[r], q[r])
  BY <1>1 DEF Changed, IsBag
<1> HIDE DEF l, r, io, in, iq
<1>4. CASE p[k].kind = "all"
  <2>1. /\ Materialize(p, k, io) = Plus(o[l], o[r])
        /\ Materialize(p, k, in) = Plus(n[l], n[r])
        /\ Materialize(p, k, iq) = Plus(q[l], q[r])
    BY <1>2, <1>4, AllIs
  <2>2. Materialize(p, k, io) = Minus(Materialize(p, k, in), Materialize(p, k, iq))
    BY <1>3, <1>4, <2>1, ChangeOfSum
  <2> QED BY <2>2 DEF io, in, iq
<1>5. CASE p[k].kind = "map"
  <2>1. /\ Materialize(p, k, io) = MapRows(p[k], o[l])
        /\ Materialize(p, k, in) = MapRows(p[k], n[l])
        /\ Materialize(p, k, iq) = MapRows(p[k], q[l])
    BY <1>2, <1>5, MapIs
  <2>2. IsZSet(o[l]) /\ Adds(n[l], q[l], o[l])
    BY <1>3, AddsChange
  <2>3. Adds(MapRows(p[k], n[l]), MapRows(p[k], q[l]), MapRows(p[k], o[l]))
    BY <1>3, <2>2, MapAdds
  <2>4. IsZSet(MapRows(p[k], n[l])) /\ IsZSet(MapRows(p[k], q[l])) /\ IsZSet(MapRows(p[k], o[l]))
    BY <1>3, <2>2, MapZ
  <2>5. Materialize(p, k, io) = Minus(Materialize(p, k, in), Materialize(p, k, iq))
    BY <2>1, <2>3, <2>4, ChangeOf
  <2> QED BY <2>5 DEF io, in, iq
<1> QED BY <1>4, <1>5

\* dL * R + L * dR - dL * dR, both inputs past the batch, is the change of the join.
LEMMA JoinTurn ==
  ASSUME NEW p, IsPlan(p), NEW k \in DOMAIN p, p[k].kind = "join", p[k].mode = "inner",
         NEW o, NEW n, NEW q, Changed(p, k, o, n, q), NEW l, l = p[k].in[1], NEW r, r = p[k].in[2]
  PROVE  Minus(Plus(Inner(p[k], o[l], n[r]), Inner(p[k], n[l], o[r])), Inner(p[k], o[l], o[r]))
           = Minus(Materialize(p, k, InputsFrom(p[k], n)), Materialize(p, k, InputsFrom(p[k], q)))
<1> DEFINE in == InputsFrom(p[k], n)
           iq == InputsFrom(p[k], q)
<1>1. 1 \in DOMAIN p[k].in /\ 2 \in DOMAIN p[k].in
  BY PlanNode DEF OneInput, TwoInputs
<1>2. in[1] = n[l] /\ in[2] = n[r] /\ iq[1] = q[l] /\ iq[2] = q[r]
  BY <1>1 DEF InputsFrom
<1>3. /\ IsZSet(n[l]) /\ IsZSet(q[l]) /\ o[l] = Minus(n[l], q[l])
      /\ IsZSet(n[r]) /\ IsZSet(q[r]) /\ o[r] = Minus(n[r], q[r])
  BY <1>1 DEF Changed, IsBag
<1>4. /\ Materialize(p, k, in) = Joined(p[k], n[l], n[r], p[l].fields, p[r].fields)
      /\ Materialize(p, k, iq) = Joined(p[k], q[l], q[r], p[l].fields, p[r].fields)
  BY <1>2, JoinIs
<1>5. /\ Materialize(p, k, in) = Inner(p[k], n[l], n[r])
      /\ Materialize(p, k, iq) = Inner(p[k], q[l], q[r])
  BY <1>4, JoinedInner
<1> HIDE DEF in, iq
<1>6. Minus(Plus(Inner(p[k], o[l], n[r]), Inner(p[k], n[l], o[r])), Inner(p[k], o[l], o[r]))
        = Minus(Inner(p[k], n[l], n[r]), Inner(p[k], q[l], q[r]))
  BY <1>3, InnerDelta
<1> QED BY <1>5, <1>6 DEF in, iq

\* The support counts, and the change of the rows that are in.
LEMMA SetTurn ==
  ASSUME NEW p, IsPlan(p), NEW k \in DOMAIN p, p[k].kind \in SetKinds,
         NEW o, NEW n, NEW q, Changed(p, k, o, n, q)
  PROVE  Plus(Together(p, k, q), Together(p, k, o)) = Together(p, k, n)
<1> DEFINE l == p[k].in[1]
           r == p[k].in[2]
<1>1. 1 \in DOMAIN p[k].in /\ (Len(p[k].in) = 2 => 2 \in DOMAIN p[k].in)
  BY PlanNode DEF SetKinds, OneInput, TwoInputs
<1>2. /\ IsZSet(n[l]) /\ IsZSet(q[l]) /\ o[l] = Minus(n[l], q[l])
      /\ Len(p[k].in) = 2 => IsZSet(n[r]) /\ IsZSet(q[r]) /\ o[r] = Minus(n[r], q[r])
  BY <1>1 DEF Changed, IsBag
<1> HIDE DEF l, r
<1>3. CASE Len(p[k].in) = 2
  <2>1. /\ Together(p, k, q) = Plus(q[l], q[r]) /\ Together(p, k, n) = Plus(n[l], n[r])
        /\ Together(p, k, o) = Plus(o[l], o[r])
    BY <1>3 DEF Together, l, r
  <2>2. Plus(o[l], o[r]) = Minus(Plus(n[l], n[r]), Plus(q[l], q[r]))
    BY <1>2, <1>3, ChangeOfSum
  <2>3. IsZSet(Plus(n[l], n[r])) /\ IsZSet(Plus(q[l], q[r]))
    BY <1>2, <1>3, PlusZ
  <2> QED BY <2>1, <2>2, <2>3, TakeBack
<1>4. CASE Len(p[k].in) # 2
  <2>1. Together(p, k, q) = q[l] /\ Together(p, k, n) = n[l] /\ Together(p, k, o) = o[l]
    BY <1>4 DEF Together, l
  <2> QED BY <1>2, <2>1, TakeBack
<1> QED BY <1>3, <1>4

\* The keys of every row of every input's change.
KeysOf(p, k, o) ==
  UNION {{KeyOf(p[k], side, r) : r \in DOMAIN o[p[k].in[side]]} : side \in DOMAIN p[k].in}
IsDue(p, k, o) == \E i \in DOMAIN p[k].in : o[p[k].in[i]] # NoRows

\* Every row of a delta has its key touched.
LEMMA KeyTouched ==
  ASSUME NEW p, NEW k, NEW o, NEW i \in DOMAIN p[k].in, NEW r \in DOMAIN o[p[k].in[i]]
  PROVE  KeyOf(p[k], i, r) \in KeysOf(p, k, o)
BY DEF KeysOf

\* An input is the same before and after outside the touched keys.
LEMMA ElsewhereSame ==
  ASSUME NEW p, NEW k, NEW o, NEW n, NEW q, Changed(p, k, o, n, q)
  PROVE  \A i \in DOMAIN p[k].in :
           SameElsewhere(p[k], i, n[p[k].in[i]], q[p[k].in[i]], KeysOf(p, k, o))
<1> SUFFICES ASSUME NEW i \in DOMAIN p[k].in, NEW r, KeyOf(p[k], i, r) \notin KeysOf(p, k, o)
             PROVE  At(n[p[k].in[i]], r) = At(q[p[k].in[i]], r)
  BY DEF SameElsewhere
<1> DEFINE j == p[k].in[i]
<1>1. IsZSet(n[j]) /\ IsZSet(q[j]) /\ o[j] = Minus(n[j], q[j])
  BY DEF Changed, IsBag
<1>2. r \notin DOMAIN o[j]
  BY KeyTouched
<1>3. At(o[j], r) = 0
  BY <1>2 DEF At
<1>4. At(o[j], r) = At(n[j], r) - At(q[j], r)
  BY <1>1, MinusZ
<1>5. At(n[j], r) \in Int /\ At(q[j], r) \in Int
  BY <1>1, ZSetAt
<1> QED BY <1>3, <1>4, <1>5

\* A node that is due has a touched key.
LEMMA SomeKey ==
  ASSUME NEW p, NEW k, NEW o, NEW n, NEW q, Changed(p, k, o, n, q), IsDue(p, k, o)
  PROVE  \E i \in DOMAIN p[k].in : \E r : KeyOf(p[k], i, r) \in KeysOf(p, k, o)
<1>1. PICK i \in DOMAIN p[k].in : o[p[k].in[i]] # NoRows
  BY DEF IsDue
<1> DEFINE j == p[k].in[i]
<1>2. IsZSet(n[j]) /\ IsZSet(q[j]) /\ o[j] = Minus(n[j], q[j])
  BY DEF Changed, IsBag
<1>3. IsZSet(o[j])
  BY <1>2, MinusZ
<1>4. DOMAIN o[j] # {}
  <2>1. ASSUME DOMAIN o[j] = {} PROVE FALSE
    <3>1. \A r : At(o[j], r) = 0
      BY <2>1 DEF At
    <3>2. o[j] = NoRows
      BY <1>3, <3>1, NoRowsZ, ZSetsEqual
    <3> QED BY <1>1, <3>2
  <2> QED BY <2>1
<1>5. PICK r : r \in DOMAIN o[j]
  BY <1>4
<1> QED BY <1>5, KeyTouched

\* The change over the touched keys is the change of the rows.
LEMMA ArrangementTurn ==
  ASSUME NEW p, IsPlan(p), NEW k \in DOMAIN p, IsArrangement(p[k]),
         NEW o, NEW n, NEW q, Changed(p, k, o, n, q), IsDue(p, k, o),
         NEW keys, keys = KeysOf(p, k, o)
  PROVE  Minus(Materialize(p, k, TouchedIn(p[k], InputsFrom(p[k], n), keys)),
               Materialize(p, k, TouchedIn(p[k], InputsFrom(p[k], q), keys)))
           = Minus(Materialize(p, k, InputsFrom(p[k], n)), Materialize(p, k, InputsFrom(p[k], q)))
<1> DEFINE in == InputsFrom(p[k], n)
           iq == InputsFrom(p[k], q)
<1>1. \A i \in DOMAIN p[k].in : in[i] = n[p[k].in[i]] /\ iq[i] = q[p[k].in[i]]
  BY DEF InputsFrom
<1>2. \A i \in DOMAIN p[k].in : IsBag(in[i]) /\ IsBag(iq[i])
  BY <1>1 DEF Changed
<1> HIDE DEF in, iq
<1>3. \A i \in DOMAIN p[k].in : SameElsewhere(p[k], i, in[i], iq[i], keys)
  BY <1>1, ElsewhereSame
<1>4. \E i \in DOMAIN p[k].in : \E r : KeyOf(p[k], i, r) \in keys
  BY SomeKey
<1>5. Minus(Materialize(p, k, TouchedIn(p[k], in, keys)), Materialize(p, k, TouchedIn(p[k], iq, keys)))
        = Minus(Materialize(p, k, in), Materialize(p, k, iq))
  BY <1>2, <1>3, <1>4, ArrangementChange
<1> QED BY <1>5 DEF in, iq

\* What the state shows of the touched keys is what the former inputs make of them.
LEMMA StoredTurn ==
  ASSUME NEW p, IsPlan(p), NEW k \in DOMAIN p, p[k].kind \in {"group", "limit"},
         Members(p[k].keys) \subseteq Members(p[k].exprs),
         NEW o, NEW n, NEW q, Changed(p, k, o, n, q), IsDue(p, k, o),
         NEW keys, keys = KeysOf(p, k, o)
  PROVE  Showing(p[k], Materialize(p, k, InputsFrom(p[k], q)), keys)
           = Materialize(p, k, TouchedIn(p[k], InputsFrom(p[k], q), keys))
<1> DEFINE node == p[k]
           z == q[node.in[1]]
           iq == InputsFrom(node, q)
           it == TouchedIn(node, iq, keys)
<1>1. 1 \in DOMAIN node.in /\ DOMAIN node.in = {1} /\ (node.kind = "limit" => node.keys = <<>>)
        /\ node.kind \notin {"input", "fixpoint"}
  BY PlanNode DEF OneInput, TwoInputs
<1>2. iq[1] = z /\ it[1] = TouchedRows(node, 1, z, keys)
  BY <1>1 DEF InputsFrom, TouchedIn
<1>3. IsBag(z) /\ IsZSet(z)
  BY <1>1 DEF Changed, IsBag
<1>4. IsBag(Materialize(p, k, iq))
  BY <1>1, <1>2, <1>3, NodeBag
<1> SUFFICES Showing(node, Materialize(p, k, iq), keys) = Materialize(p, k, it)
  OBVIOUS
<1> HIDE DEF z, iq, it
<1>5. CASE node.keys = <<>>
  <2>1. \A r : KeyOf(node, 1, r) = <<>>
    BY <1>5, NoKeys
  <2>2. <<>> \in keys
    <3>1. \E i \in DOMAIN p[k].in : \E r : KeyOf(p[k], i, r) \in KeysOf(p, k, o)
      BY SomeKey
    <3> QED BY <1>1, <2>1, <3>1
  <2>3. TouchedRows(node, 1, z, keys) = z
    BY <1>3, <2>1, <2>2, AllTouched
  <2>4. Materialize(p, k, it) = Materialize(p, k, iq)
    BY <1>2, <2>3, GroupNodeIs, LimitIs
  <2>5. \A r : ShownKey(node, r) = <<>>
    BY <1>5 DEF ShownKey, Each
  <2> DEFINE s == Materialize(p, k, iq)
             S == {r \in DOMAIN s : ShownKey(node, r) \in keys}
  <2>6. S = DOMAIN s
    BY <2>2, <2>5
  <2>7. Showing(node, s, keys) = Within(s, S)
    BY DEF Showing, Where
  <2>8. s = [r \in DOMAIN s |-> s[r]]
    BY <1>4 DEF IsBag, IsZSet
  <2> HIDE DEF s, S
  <2>9. Within(s, DOMAIN s) = s
    BY <2>8, TabledIs DEF Within
  <2> QED BY <2>4, <2>6, <2>7, <2>9 DEF s
<1>6. CASE node.keys # <<>>
  <2> DEFINE fields == p[node.in[1]].fields
  <2>1. node.kind = "group"
    BY <1>1, <1>6
  <2>2. /\ Materialize(p, k, iq) = GroupRows(node, z, fields)
        /\ Materialize(p, k, it) = GroupRows(node, TouchedRows(node, 1, z, keys), fields)
    BY <1>2, <2>1, GroupNodeIs
  <2> HIDE DEF fields
  <2>3. Showing(node, GroupRows(node, z, fields), keys)
          = GroupRows(node, TouchedRows(node, 1, z, keys), fields)
    BY <1>3, <1>6, <2>1, StoredGroups
  <2> QED BY <2>2, <2>3
<1> QED BY <1>5, <1>6

-----------------------------------------------------------------------------
(* The nodes that are skipped.                                             *)

\* The out tables when the nodes before m have had their turn.
Settled(p, o, n, q, m) ==
  /\ \A k \in DOMAIN p : k < m \/ p[k].kind = "input" => o[k] = Minus(n[k], q[k])
  /\ \A k \in DOMAIN p : k >= m /\ p[k].kind # "input" => o[k] = NoRows

\* When the nodes before m are done, the inputs of m hold their changes.
LEMMA SettledChanges ==
  ASSUME NEW p, IsPlan(p), NEW o, NEW n, NEW q,
         \A k \in DOMAIN p : IsBag(n[k]) /\ IsBag(q[k]),
         NEW m \in Nat, NEW k \in DOMAIN p, k <= m, Settled(p, o, n, q, m)
  PROVE  Changed(p, k, o, n, q)
<1>1. DOMAIN p = 1..Len(p) /\ Len(p) \in Nat /\ \A i \in DOMAIN p[k].in : p[k].in[i] \in 1..(k - 1)
  BY DEF IsPlan
<1>2. \A i \in DOMAIN p[k].in : p[k].in[i] \in DOMAIN p /\ p[k].in[i] < k
  BY <1>1
<1> SUFFICES ASSUME NEW i \in DOMAIN p[k].in, NEW j, j = p[k].in[i]
             PROVE  IsBag(n[j]) /\ IsBag(q[j]) /\ o[j] = Minus(n[j], q[j])
  BY DEF Changed
<1>3. j \in DOMAIN p /\ j < k /\ j < m
  <2>1. j \in DOMAIN p /\ j < k
    BY <1>2
  <2>2. j \in Int /\ k \in Int
    BY <1>1, <2>1
  <2> QED BY <2>1, <2>2
<1> QED BY <1>3 DEF Settled

\* A node none of whose inputs changed.
LEMMA Untouched ==
  ASSUME NEW p, IsPlan(p), NEW a, NEW b, NEW n, n = Evaluated(p, a), NEW q, q = Evaluated(p, b),
         NEW k \in DOMAIN p, NEW o, Changed(p, k, o, n, q), ~IsDue(p, k, o)
  PROVE  /\ p[k].kind # "input" => n[k] = q[k]
         /\ p[k].kind \in SetKinds => Together(p, k, n) = Together(p, k, q)
<1>1. \A i \in DOMAIN p[k].in : n[p[k].in[i]] = q[p[k].in[i]]
  <2> TAKE i \in DOMAIN p[k].in
  <2> DEFINE j == p[k].in[i]
  <2>1. IsZSet(n[j]) /\ IsZSet(q[j]) /\ o[j] = Minus(n[j], q[j])
    BY DEF Changed, IsBag
  <2>2. o[j] = NoRows
    BY DEF IsDue
  <2> QED BY <2>1, <2>2, NoChange
<1>2. InputsFrom(p[k], n) = InputsFrom(p[k], q)
  BY <1>1 DEF InputsFrom
<1>3. p[k].kind # "input" => n[k] = q[k]
  BY <1>2, EvaluatedIs
<1>4. p[k].kind \in SetKinds => Together(p, k, n) = Together(p, k, q)
  <2>1. p[k].kind \in SetKinds => 1 \in DOMAIN p[k].in /\ (Len(p[k].in) = 2 => 2 \in DOMAIN p[k].in)
    BY PlanNode DEF SetKinds, OneInput, TwoInputs
  <2> QED BY <1>1, <2>1 DEF Together
<1> QED BY <1>3, <1>4

\* Nodes that are skipped keep their rows: their empty out tables are their changes.
LEMMA Skipped ==
  ASSUME NEW p, IsPlan(p), NEW a, NEW b, NEW n, n = Evaluated(p, a), NEW q, q = Evaluated(p, b),
         \A k \in DOMAIN p : IsBag(n[k]) /\ IsBag(q[k]),
         NEW o, NEW m \in Nat, NEW m2 \in Nat, Settled(p, o, n, q, m), m <= m2, m2 <= Len(p) + 1,
         \A k \in m..(m2 - 1) : ~IsDue(p, k, o)
  PROVE  /\ Settled(p, o, n, q, m2)
         /\ \A k \in DOMAIN p : k >= m /\ k < m2 =>
              /\ p[k].kind # "input" => n[k] = q[k]
              /\ p[k].kind \in SetKinds => Together(p, k, n) = Together(p, k, q)
<1> DEFINE Good == {k \in DOMAIN p : k < m2 => o[k] = Minus(n[k], q[k])}
<1>1. /\ Len(p) \in Nat /\ DOMAIN p = 1..Len(p)
      /\ \A k \in DOMAIN p : \A i \in DOMAIN p[k].in : p[k].in[i] \in 1..(k - 1)
  BY DEF IsPlan
<1>2. ASSUME NEW k \in DOMAIN p, \A j \in 1..(k - 1) : j \in Good, k < m2
      PROVE  Changed(p, k, o, n, q)
  <2>1. \A i \in DOMAIN p[k].in : /\ p[k].in[i] \in DOMAIN p
                                  /\ o[p[k].in[i]] = Minus(n[p[k].in[i]], q[p[k].in[i]])
    <3> TAKE i \in DOMAIN p[k].in
    <3>1. p[k].in[i] \in 1..(k - 1)
      BY <1>1
    <3>2. p[k].in[i] \in Good /\ p[k].in[i] < m2
      BY <1>1, <1>2, <3>1
    <3> QED BY <3>2
  <2> QED BY <2>1 DEF Changed
<1>3. ASSUME NEW k \in DOMAIN p, \A j \in 1..(k - 1) : j \in Good, k >= m, k < m2
      PROVE  /\ p[k].kind # "input" => n[k] = q[k]
             /\ p[k].kind \in SetKinds => Together(p, k, n) = Together(p, k, q)
  <2>1. Changed(p, k, o, n, q)
    BY <1>2, <1>3
  <2>2. ~IsDue(p, k, o)
    <3>1. k \in m..(m2 - 1)
      BY <1>1, <1>3
    <3> QED BY <3>1
  <2> HIDE DEF Good
  <2>3. n = Evaluated(p, a) /\ q = Evaluated(p, b) /\ k \in DOMAIN p /\ IsPlan(p)
    BY <1>3
  <2> QED BY ONLY <2>1, <2>2, <2>3, Untouched
<1>4. ASSUME NEW k \in 1..Len(p), \A j \in 1..(k - 1) : j \in Good
      PROVE  k \in Good
  <2>1. CASE k < m \/ p[k].kind = "input"
    BY <1>1, <2>1 DEF Settled
  <2>2. CASE k >= m /\ p[k].kind # "input"
    <3>1. k < m2 => n[k] = q[k]
      BY <1>1, <1>3, <1>4, <2>2
    <3>2. o[k] = NoRows
      BY <1>1, <2>2 DEF Settled
    <3>3. IsZSet(n[k]) /\ IsZSet(q[k])
      BY <1>1 DEF IsBag
    <3>4. k < m2 => Minus(n[k], q[k]) = NoRows
      BY <3>1, <3>3, NoChange
    <3> QED BY <1>1, <3>2, <3>4
  <2> QED BY <1>1, <2>1, <2>2
<1>5. 1..Len(p) \subseteq Good
  <2> HIDE DEF Good
  <2> QED BY <1>1, <1>4, NodeByNode
<1>6. Settled(p, o, n, q, m2)
  <2>1. \A k \in DOMAIN p : k < m2 \/ p[k].kind = "input" => o[k] = Minus(n[k], q[k])
    BY <1>1, <1>5 DEF Settled
  <2>2. \A k \in DOMAIN p : k >= m2 /\ p[k].kind # "input" => o[k] = NoRows
    <3>1. \A k \in DOMAIN p : k >= m2 => k >= m
      BY <1>1
    <3> QED BY <3>1 DEF Settled
  <2> QED BY <2>1, <2>2 DEF Settled
<1>7. \A k \in DOMAIN p : \A j \in 1..(k - 1) : j \in Good
  <2>1. \A k \in DOMAIN p : \A j \in 1..(k - 1) : j \in 1..Len(p)
    BY <1>1
  <2> QED BY <1>5, <2>1
<1> HIDE DEF Good
<1> QED BY <1>3, <1>6, <1>7

-----------------------------------------------------------------------------
(* The drain.                                                              *)

\* FirstDue: what lies before it is not due, and it is, unless no node is.
LEMMA FirstDueIs ==
  ASSUME IsPlan(plan), NEW k \in 1..(Output + 1), NEW o, NEW n, n = FirstDue(k, o)
  PROVE  /\ n \in k..(Output + 1)
         /\ n <= Output => IsDue(plan, n, o)
         /\ \A e \in k..(n - 1) : ~IsDue(plan, e, o)
<1> DEFINE Fits(f) == /\ f = Output + 1 \/ IsTouched(f, o)
                      /\ \A e \in k..(f - 1) : ~IsTouched(e, o)
           Good == {i \in Nat : k + i <= Output + 1 => \A e \in k..(k + i - 1) : ~IsTouched(e, o)}
<1>1. Output \in Nat
  BY DEF IsPlan, Output
<1>2. \E f \in k..(Output + 1) : Fits(f)
  <2> SUFFICES ASSUME \A f \in k..(Output + 1) : ~Fits(f)
               PROVE  FALSE
    OBVIOUS
  <2>1. 0 \in Good
    BY <1>1
  <2>2. ASSUME NEW i \in Nat, i \in Good
        PROVE  i + 1 \in Good
    <3> SUFFICES ASSUME k + i + 1 <= Output + 1, NEW e \in k..(k + i)
                 PROVE  ~IsTouched(e, o)
      BY <1>1
    <3>1. \A f \in k..(k + i - 1) : ~IsTouched(f, o)
      BY <1>1, <2>2
    <3>2. k + i \in k..(Output + 1)
      BY <1>1
    <3>3. ~IsTouched(k + i, o)
      BY <3>1, <3>2
    <3>4. e = k + i \/ e \in k..(k + i - 1)
      BY <1>1
    <3> QED BY <3>1, <3>3, <3>4
  <2>3. Nat \subseteq Good
    <3> HIDE DEF Good
    <3> QED BY <2>1, <2>2, Upward
  <2>4. Output + 1 - k \in Nat /\ k + (Output + 1 - k) = Output + 1
    BY <1>1
  <2>5. \A e \in k..Output : ~IsTouched(e, o)
    <3>1. Output + 1 - k \in Good
      BY <2>3, <2>4
    <3>2. \A e \in k..(k + (Output + 1 - k) - 1) : ~IsTouched(e, o)
      BY <1>1, <2>4, <3>1
    <3>3. k + (Output + 1 - k) - 1 = Output
      BY <1>1
    <3> QED BY <3>2, <3>3
  <2>6. Fits(Output + 1)
    BY <1>1, <2>5
  <2>7. Output + 1 \in k..(Output + 1)
    BY <1>1
  <2> QED BY <2>6, <2>7
<1>3. n \in k..(Output + 1) /\ Fits(n)
  <2>1. FirstDue(k, o) = CHOOSE f \in k..(Output + 1) : Fits(f)
    BY DEF FirstDue
  <2> HIDE DEF Fits
  <2> QED BY <1>2, <2>1
<1>4. \A f : IsTouched(f, o) <=> IsDue(plan, f, o)
  BY DEF IsTouched, IsDue, Inputs
<1> QED BY <1>1, <1>3, <1>4

\* The nodes before m have had their turn: their set tables count the new rows.
InTurn(p, a, b, o, mem, st, m) ==
  LET n == Evaluated(p, a)
      q == Evaluated(p, b)
  IN /\ Settled(p, o, n, q, m)
     /\ \A k \in SetNodes(p) : mem[k] = Together(p, k, IF k < m THEN n ELSE q)
     /\ st = (IF Len(p) < m THEN n ELSE q)[Len(p)]

\* So skipping them is as good as their turn.
LEMMA SkippedTurns ==
  ASSUME NEW p, IsPlan(p), NoFixpoint(p), NEW a, AreBags(a), NEW b, AreBags(b),
         NEW o, NEW mem, NEW st, NEW m \in Nat, NEW m2 \in Nat, m <= m2, m2 <= Len(p) + 1,
         InTurn(p, a, b, o, mem, st, m), \A k \in m..(m2 - 1) : ~IsDue(p, k, o)
  PROVE  InTurn(p, a, b, o, mem, st, m2)
<1> DEFINE n == Evaluated(p, a)
           q == Evaluated(p, b)
           Same(k) == /\ p[k].kind # "input" => n[k] = q[k]
                      /\ p[k].kind \in SetKinds => Together(p, k, n) = Together(p, k, q)
<1>1. /\ Settled(p, o, n, q, m)
      /\ \A k \in SetNodes(p) : mem[k] = Together(p, k, IF k < m THEN n ELSE q)
      /\ st = (IF Len(p) < m THEN n ELSE q)[Len(p)]
  BY DEF InTurn
<1>2. \A k \in DOMAIN p : IsBag(n[k]) /\ IsBag(q[k])
  BY EvaluatedBags
<1>3. Len(p) \in Nat \ {0} /\ DOMAIN p = 1..Len(p) /\ p[Len(p)].kind # "input"
  BY DEF IsPlan
<1> SUFFICES /\ Settled(p, o, n, q, m2)
             /\ \A k \in SetNodes(p) : mem[k] = Together(p, k, IF k < m2 THEN n ELSE q)
             /\ st = (IF Len(p) < m2 THEN n ELSE q)[Len(p)]
  BY DEF InTurn
<1>4. n = Evaluated(p, a) /\ q = Evaluated(p, b)
  OBVIOUS
<1>5. Settled(p, o, n, q, m2) /\ \A k \in DOMAIN p : k >= m /\ k < m2 => Same(k)
  <2> HIDE DEF n, q
  <2> QED BY <1>1, <1>2, <1>4, Skipped
<1> HIDE DEF n, q
<1>6. ASSUME NEW k \in SetNodes(p)
      PROVE  mem[k] = Together(p, k, IF k < m2 THEN n ELSE q)
  <2>1. k \in DOMAIN p /\ p[k].kind \in SetKinds /\ k \in Int
    BY <1>3 DEF SetNodes
  <2>2. mem[k] = Together(p, k, IF k < m THEN n ELSE q)
    BY <1>1
  <2>3. CASE k < m
    BY <2>1, <2>2, <2>3
  <2>4. CASE k >= m /\ k < m2
    BY <1>5, <2>1, <2>2, <2>4
  <2>5. CASE k >= m2
    BY <2>1, <2>2, <2>5
  <2> QED BY <2>1, <2>3, <2>4, <2>5
<1>7. st = (IF Len(p) < m2 THEN n ELSE q)[Len(p)]
  <2>1. Len(p) \in DOMAIN p
    BY <1>3
  <2>2. CASE Len(p) < m
    BY <1>1, <1>3, <2>2
  <2>3. CASE Len(p) >= m /\ Len(p) < m2
    <3>1. n[Len(p)] = q[Len(p)]
      BY <1>3, <1>5, <2>1, <2>3
    <3> QED BY <1>1, <1>3, <2>3, <3>1
  <2>4. CASE Len(p) >= m2
    BY <1>1, <1>3, <2>4
  <2> QED BY <1>3, <2>2, <2>3, <2>4
<1> QED BY <1>5, <1>6, <1>7

\* Node m writes the change of its rows; a set node counts the new ones.
TakesTurn(p, a, b, o, mem, st, m, o2, mem2, st2, m2) ==
  /\ m \in DOMAIN p /\ p[m].kind # "input" /\ DOMAIN o = DOMAIN p /\ m2 = m + 1
  /\ o2 = [o EXCEPT ![m] = Minus(Evaluated(p, a)[m], Evaluated(p, b)[m])]
  /\ \A k \in SetNodes(p) : mem2[k] = IF k = m THEN Together(p, m, Evaluated(p, a)) ELSE mem[k]
  /\ st2 = IF m = Len(p) THEN Evaluated(p, a)[m] ELSE st

\* A turn moves the boundary by one.
LEMMA OneTurn ==
  ASSUME NEW p, NEW a, NEW b, NEW o, NEW mem, NEW st, NEW m, NEW o2, NEW mem2, NEW st2, NEW m2,
         IsPlan(p), InTurn(p, a, b, o, mem, st, m),
         TakesTurn(p, a, b, o, mem, st, m, o2, mem2, st2, m2)
  PROVE  InTurn(p, a, b, o2, mem2, st2, m2)
<1> DEFINE n == Evaluated(p, a)
           q == Evaluated(p, b)
<1>0. /\ m \in DOMAIN p /\ p[m].kind # "input" /\ DOMAIN o = DOMAIN p /\ m2 = m + 1
      /\ o2 = [o EXCEPT ![m] = Minus(n[m], q[m])]
      /\ \A k \in SetNodes(p) : mem2[k] = IF k = m THEN Together(p, m, n) ELSE mem[k]
      /\ st2 = IF m = Len(p) THEN n[m] ELSE st
  BY DEF TakesTurn
<1> SUFFICES /\ Settled(p, o2, n, q, m + 1)
             /\ \A k \in SetNodes(p) : mem2[k] = Together(p, k, IF k < m + 1 THEN n ELSE q)
             /\ st2 = (IF Len(p) < m + 1 THEN n ELSE q)[Len(p)]
  BY <1>0 DEF InTurn
<1>1. /\ Settled(p, o, n, q, m)
      /\ \A k \in SetNodes(p) : mem[k] = Together(p, k, IF k < m THEN n ELSE q)
      /\ st = (IF Len(p) < m THEN n ELSE q)[Len(p)]
  BY DEF InTurn
<1> HIDE DEF n, q
<1>2. Len(p) \in Nat /\ DOMAIN p = 1..Len(p) /\ m \in Int /\ m <= Len(p)
  BY <1>0 DEF IsPlan
<1>3. \A k \in DOMAIN p : k \in Int /\ o2[k] = IF k = m THEN Minus(n[m], q[m]) ELSE o[k]
  BY <1>0, <1>2
<1>4. Settled(p, o2, n, q, m + 1)
  <2>1. ASSUME NEW k \in DOMAIN p, k < m + 1 \/ p[k].kind = "input"
        PROVE  o2[k] = Minus(n[k], q[k])
    <3>1. CASE k = m
      BY <1>3, <3>1
    <3>2. CASE k # m
      <4>1. k < m \/ p[k].kind = "input"
        BY <1>2, <1>3, <2>1, <3>2
      <4> QED BY <1>1, <1>3, <3>2, <4>1 DEF Settled
    <3> QED BY <3>1, <3>2
  <2>2. ASSUME NEW k \in DOMAIN p, k >= m + 1, p[k].kind # "input"
        PROVE  o2[k] = NoRows
    <3>1. k # m /\ k >= m
      BY <1>2, <1>3, <2>2
    <3> QED BY <1>1, <1>3, <2>2, <3>1 DEF Settled
  <2> QED BY <2>1, <2>2 DEF Settled
<1>5. ASSUME NEW k \in SetNodes(p)
      PROVE  mem2[k] = Together(p, k, IF k < m + 1 THEN n ELSE q)
  <2>1. k \in Int
    BY <1>3 DEF SetNodes
  <2>2. CASE k = m
    BY <1>0, <1>2, <2>2
  <2>3. CASE k # m
    <3>1. k < m <=> k < m + 1
      BY <1>2, <2>1, <2>3
    <3> QED BY <1>0, <1>1, <2>3, <3>1
  <2> QED BY <2>2, <2>3
<1>6. st2 = (IF Len(p) < m + 1 THEN n ELSE q)[Len(p)]
  BY <1>0, <1>1, <1>2
<1> QED BY <1>4, <1>5, <1>6

-----------------------------------------------------------------------------
(* The inductive invariant.                                                *)

Prepared ==
  /\ view \in DOMAIN Queries /\ Bind(Queries[view]).ok /\ plan = Bind(Queries[view]).nodes
  /\ IsPlan(plan)
  /\ source = [s \in SourceIds |-> source[s]] /\ AreBags(source)
  /\ staged = [s \in SourceIds |-> staged[s]]
  /\ \A s \in SourceIds : IsZSet(staged[s])
  /\ \A s \in SourceIds : DOMAIN source[s] \subseteq SourceRow[s] /\ DOMAIN staged[s] \subseteq SourceRow[s]
  /\ \A s \in SourceIds : staged[s] # NoRows => \E k \in InputNodes(plan) : plan[k].source = s
  /\ DOMAIN member = Nodes /\ DOMAIN out = Nodes
  /\ at \in 0..(Output + 1) /\ ~refused

\* Between drains the state and the set tables are those of the drained tables.
Settles(p, n, mem, st) ==
  /\ \A k \in SetNodes(p) : mem[k] = Together(p, k, n)
  /\ st = n[Len(p)]
Between ==
  at = 0 => out = NoDeltas /\ AreBags(Drained)
              /\ Settles(plan, Evaluated(plan, Drained), member, state)

\* In a drain they are on the way from the former tables to the present ones.
During ==
  at > 0 => /\ NoFixpoint(plan) /\ staged = Tables /\ AreBags(Prior)
            /\ at <= Output => IsDue(plan, at, out)
            /\ InTurn(plan, source, Prior, out, member, state, at)

DrainInv == Prepared /\ Between /\ During

\* Everything the turn of a node reads.
LEMMA InTheDrain ==
  ASSUME DrainInv, at \in Nodes, NEW n, n = Evaluated(plan, source), NEW q, q = Evaluated(plan, Prior)
  PROVE  /\ IsPlan(plan) /\ Nodes = 1..Output /\ Output \in Nat /\ at \in Nat /\ at > 0
         /\ \A k \in Nodes : IsBag(n[k]) /\ IsBag(q[k])
         /\ Settled(plan, out, n, q, at)
         /\ Changed(plan, at, out, n, q)
         /\ IsDue(plan, at, out)
<1>1. IsPlan(plan) /\ Nodes = 1..Output /\ Output \in Nat /\ at \in Nat /\ at > 0 /\ at <= Output
  BY DEF DrainInv, Prepared, IsPlan, Nodes, Output
<1>2. NoFixpoint(plan) /\ AreBags(Prior) /\ AreBags(source) /\ IsDue(plan, at, out)
        /\ InTurn(plan, source, Prior, out, member, state, at)
  BY <1>1 DEF DrainInv, Prepared, During
<1>3. \A k \in Nodes : IsBag(n[k]) /\ IsBag(q[k])
  BY <1>1, <1>2, EvaluatedBags DEF Nodes
<1>4. Settled(plan, out, n, q, at)
  BY <1>2 DEF InTurn
<1>5. Changed(plan, at, out, n, q)
  BY <1>1, <1>3, <1>4, SettledChanges DEF Nodes
<1> QED BY <1>1, <1>2, <1>3, <1>4, <1>5

\* A statement reads the present rows of an input, or takes its delta away for the former.
LEMMA LiveIs ==
  ASSUME DrainInv, at \in Nodes, NEW n, n = Evaluated(plan, source), NEW q, q = Evaluated(plan, Prior),
         NEW i \in DOMAIN plan[at].in, NEW j, j = plan[at].in[i]
  PROVE  Live[j] = n[j] /\ Former(j) = q[j]
<1>1. /\ IsPlan(plan) /\ Nodes = 1..Output /\ Output \in Nat /\ at \in Nat /\ at > 0
      /\ Changed(plan, at, out, n, q)
  BY InTheDrain
<1>2. InTurn(plan, source, Prior, out, member, state, at)
  BY <1>1 DEF DrainInv, During
<1>3. j \in 1..(at - 1)
  BY DEF DrainInv, Prepared, IsPlan, Nodes
<1>4. \A k \in 1..(at - 1) : plan[k].kind \in SetKinds => Support(member[k]) = Evaluated(plan, source)[k]
  <2> SUFFICES ASSUME NEW k \in 1..(at - 1), plan[k].kind \in SetKinds
               PROVE  Support(member[k]) = Evaluated(plan, source)[k]
    OBVIOUS
  <2>1. k \in Nodes /\ k < at
    BY <1>1
  <2>2. member[k] = Together(plan, k, Evaluated(plan, source))
    BY <1>2, <2>1 DEF InTurn, SetNodes, Nodes
  <2> QED BY <1>1, <2>1, <2>2, SetNodeIs DEF Nodes
<1>5. at - 1 \in Nat /\ at - 1 <= Len(plan)
  BY <1>1 DEF Output
<1>6. \A k \in 1..(at - 1) : Live[k] = Evaluated(plan, source)[k]
  BY <1>1, <1>4, <1>5, StoredAgrees DEF Live
<1>7. Live[j] = n[j]
  BY <1>3, <1>6
<1>8. IsBag(n[j]) /\ IsBag(q[j]) /\ out[j] = Minus(n[j], q[j])
  BY <1>1 DEF Changed
<1>9. Minus(n[j], out[j]) = q[j]
  BY <1>8, TakeBack DEF IsBag
<1> QED BY <1>7, <1>8, <1>9, BagAt DEF Former

\* Prior reads the out tables of input nodes only.
LEMMA PriorStays ==
  ASSUME plan' = plan, source' = source, \A k \in InputNodes(plan) : out'[k] = out[k]
  PROVE  Prior' = Prior
<1>1. Prior' = TakenBack(plan, source, out')
  BY DEF Prior
<1>2. \A s \in SourceIds : Readers(plan, s) # {} =>
        (CHOOSE k \in Readers(plan, s) : TRUE) \in InputNodes(plan)
  BY DEF Readers
<1>3. \A s \in SourceIds : TakenBack(plan, source, out')[s] = TakenBack(plan, source, out)[s]
  BY <1>2 DEF TakenBack
<1>4. TakenBack(plan, source, out') = TakenBack(plan, source, out)
  BY <1>3 DEF TakenBack
<1> QED BY <1>1, <1>4 DEF Prior

\* A node that writes the change of its rows keeps the invariant.
LEMMA Emitted ==
  ASSUME DrainInv, at \in Nodes, Kind(at) # "input",
         NEW n, n = Evaluated(plan, source), NEW q, q = Evaluated(plan, Prior),
         NEW z, z = Minus(n[at], q[at]), Emit(z), DOMAIN member' = Nodes,
         \A k \in SetNodes(plan) :
           member'[k] = IF k = at THEN Together(plan, at, n) ELSE member[k]
  PROVE  DrainInv'
<1>1. /\ IsPlan(plan) /\ Nodes = 1..Output /\ Output \in Nat /\ at \in Nat /\ at > 0
      /\ \A k \in Nodes : IsBag(n[k]) /\ IsBag(q[k])
  BY InTheDrain
<1>2. /\ NoFixpoint(plan) /\ staged = Tables /\ AreBags(Prior) /\ AreBags(source)
      /\ InTurn(plan, source, Prior, out, member, state, at) /\ DOMAIN out = Nodes
  BY <1>1 DEF DrainInv, Prepared, During
<1>3. /\ out' = [out EXCEPT ![at] = z] /\ at' = FirstDue(at + 1, out')
      /\ plan' = plan /\ source' = source /\ staged' = staged
      /\ IF at = Output /\ z # NoRows THEN Apply(z) ELSE UNCHANGED <<state, refused>>
  BY DEF Emit
<1>4. refused' = refused /\ state' = IF at = Output THEN n[at] ELSE state
  <2>1. CASE at # Output
    BY <1>3, <2>1
  <2>2. CASE at = Output
    <3>1. state = q[at]
      BY <1>1, <1>2, <2>2 DEF InTurn, Output
    <3>2. IsZSet(n[at]) /\ IsZSet(q[at]) /\ IsBag(n[at])
      BY <1>1 DEF IsBag
    <3>3. CASE z = NoRows
      <4>1. n[at] = q[at]
        BY <3>2, <3>3, NoChange
      <4> QED BY <1>3, <2>2, <3>1, <3>3, <4>1
    <3>4. CASE z # NoRows
      <4>1. IsZSet(z) /\ \A r : At(z, r) = At(n[at], r) - At(q[at], r)
        BY <3>2, MinusZ
      <4>2. \A r \in DOMAIN z : At(state, r) + z[r] >= 0
        <5> TAKE r \in DOMAIN z
        <5>1. z[r] = At(n[at], r) - At(q[at], r)
          BY <4>1, ZSetAt
        <5>2. At(n[at], r) \in Nat /\ At(q[at], r) \in Int
          BY <3>2, BagAt, ZSetAt
        <5> QED BY <3>1, <5>1, <5>2
      <4>3. state' = Plus(state, z) /\ refused' = refused
        BY <1>3, <2>2, <3>4, <4>2 DEF Apply
      <4>4. Plus(q[at], z) = n[at]
        BY <3>2, TakeBack
      <4> QED BY <2>2, <3>1, <4>3, <4>4
    <3> QED BY <3>3, <3>4
  <2> QED BY <2>1, <2>2
<1>5. InTurn(plan, source, Prior, out', member', state', at + 1)
  <2>1. TakesTurn(plan, source, Prior, out, member, state, at, out', member', state', at + 1)
    <3>1. plan[at].kind # "input" /\ at \in DOMAIN plan /\ DOMAIN out = DOMAIN plan
      BY <1>2 DEF Kind, Nodes
    <3>2. state' = IF at = Len(plan) THEN Evaluated(plan, source)[at] ELSE state
      BY <1>4 DEF Output
    <3>3. out' = [out EXCEPT ![at] = Minus(Evaluated(plan, source)[at], Evaluated(plan, Prior)[at])]
      BY <1>3
    <3> QED BY <3>1, <3>2, <3>3 DEF TakesTurn
  <2> QED BY <1>1, <1>2, <2>1, OneTurn
<1>6. Prior' = Prior
  <2>1. \A k \in InputNodes(plan) : out'[k] = out[k]
    BY <1>2, <1>3 DEF InputNodes, Nodes, Kind
  <2> QED BY <1>3, <2>1, PriorStays
<1>7. /\ at' \in (at + 1)..(Output + 1)
      /\ at' <= Output => IsDue(plan, at', out')
      /\ \A e \in (at + 1)..(at' - 1) : ~IsDue(plan, e, out')
  <2>1. at + 1 \in 1..(Output + 1)
    BY <1>1
  <2> QED BY <1>1, <1>3, <2>1, FirstDueIs
<1>8. InTurn(plan, source, Prior, out', member', state', at')
  <2>1. at' \in Nat /\ at + 1 \in Nat /\ at + 1 <= at' /\ at' <= Len(plan) + 1
    BY <1>1, <1>7 DEF Output
  <2> QED BY <1>1, <1>2, <1>5, <1>7, <2>1, SkippedTurns
<1>9. Prepared'
  <2>1. Nodes' = Nodes /\ Output' = Output
    BY <1>3 DEF Nodes, Output
  <2>2. DOMAIN out' = Nodes /\ DOMAIN member' = Nodes
    BY <1>2, <1>3
  <2>3. at' \in 0..(Output + 1) /\ ~refused'
    BY <1>1, <1>4, <1>7 DEF DrainInv, Prepared
  <2> QED BY <1>3, <2>1, <2>2, <2>3 DEF DrainInv, Prepared, Emit
<1>10. Between'
  BY <1>1, <1>7 DEF Between
<1>11. During'
  <2>1. Output' = Output /\ staged' = Tables
    BY <1>2, <1>3 DEF Output
  <2> QED BY <1>2, <1>3, <1>6, <1>7, <1>8, <2>1 DEF During
<1> QED BY <1>9, <1>10, <1>11 DEF DrainInv

\* The change of a node's rows, by its inputs.
LEMMA ChangeIs ==
  ASSUME DrainInv, at \in Nodes, Kind(at) # "input",
         NEW n, n = Evaluated(plan, source), NEW q, q = Evaluated(plan, Prior)
  PROVE  Minus(Materialize(plan, at, InputsFrom(plan[at], n)), Materialize(plan, at, InputsFrom(plan[at], q)))
           = Minus(n[at], q[at])
<1>1. IsPlan(plan) /\ at \in DOMAIN plan /\ plan[at].kind # "input"
  BY DEF DrainInv, Prepared, Nodes, Kind
<1>2. n[at] = Materialize(plan, at, InputsFrom(plan[at], n))
  BY <1>1, EvaluatedIs
<1>3. q[at] = Materialize(plan, at, InputsFrom(plan[at], q))
  BY <1>1, EvaluatedIs
<1> QED BY <1>2, <1>3

\* The steps of Next: the linear nodes,
LEMMA LinearStep ==
  ASSUME DrainInv, RunLinear
  PROVE  DrainInv'
<1> DEFINE n == Evaluated(plan, source)
           q == Evaluated(plan, Prior)
           z == Materialize(plan, at, InputsFrom(plan[at], out))
<1>1. at \in Nodes /\ Kind(at) \in {"map", "all"} /\ Emit(z) /\ member' = member
  BY DEF RunLinear, Running
<1>2. n = Evaluated(plan, source) /\ q = Evaluated(plan, Prior)
  OBVIOUS
<1> HIDE DEF n, q, z
<1>3. IsPlan(plan) /\ Changed(plan, at, out, n, q)
  BY <1>1, <1>2, InTheDrain
<1>4. at \in DOMAIN plan /\ plan[at].kind \in {"map", "all"}
  BY <1>1 DEF Nodes, Kind
<1>5. z = Minus(Materialize(plan, at, InputsFrom(plan[at], n)), Materialize(plan, at, InputsFrom(plan[at], q)))
  BY <1>3, <1>4, LinearTurn DEF z
<1>6. z = Minus(n[at], q[at])
  BY <1>1, <1>2, <1>5, ChangeIs
<1>7. DOMAIN member' = Nodes
  BY <1>1 DEF DrainInv, Prepared
<1>8. \A k \in SetNodes(plan) : member'[k] = IF k = at THEN Together(plan, at, n) ELSE member[k]
  BY <1>1, <1>4 DEF SetNodes, SetKinds
<1> QED BY <1>1, <1>2, <1>6, <1>7, <1>8, Emitted

\* the inner join, whose inputs are read past the batch,
LEMMA InnerJoinStep ==
  ASSUME DrainInv, RunInnerJoin
  PROVE  DrainInv'
<1> DEFINE n == Evaluated(plan, source)
           q == Evaluated(plan, Prior)
           l == plan[at].in[1]
           r == plan[at].in[2]
           z == JoinDelta(plan[at], Inputs(at)[1], Inputs(at)[2])
<1>1. at \in Nodes /\ Kind(at) = "join" /\ plan[at].mode = "inner" /\ Emit(z) /\ member' = member
  BY DEF RunInnerJoin, Running
<1>2. n = Evaluated(plan, source) /\ q = Evaluated(plan, Prior) /\ l = plan[at].in[1] /\ r = plan[at].in[2]
  OBVIOUS
<1>3. z = Minus(Plus(Inner(plan[at], out[l], Live[r]), Inner(plan[at], Live[l], out[r])),
                Inner(plan[at], out[l], out[r]))
  BY DEF JoinDelta, Inputs
<1> HIDE DEF n, q, z, l, r
<1>4. IsPlan(plan) /\ Changed(plan, at, out, n, q)
  BY <1>1, <1>2, InTheDrain
<1>5. at \in DOMAIN plan /\ plan[at].kind = "join"
  BY <1>1 DEF Nodes, Kind
<1>6. 1 \in DOMAIN plan[at].in /\ 2 \in DOMAIN plan[at].in
  BY <1>4, <1>5, PlanNode DEF OneInput, TwoInputs
<1>7. Live[l] = n[l] /\ Live[r] = n[r]
  <2>1. Live[l] = n[l]
    BY <1>1, <1>2, <1>6, LiveIs
  <2>2. Live[r] = n[r]
    BY <1>1, <1>2, <1>6, LiveIs
  <2> QED BY <2>1, <2>2
<1>8. Minus(Plus(Inner(plan[at], out[l], n[r]), Inner(plan[at], n[l], out[r])), Inner(plan[at], out[l], out[r]))
        = Minus(Materialize(plan, at, InputsFrom(plan[at], n)), Materialize(plan, at, InputsFrom(plan[at], q)))
  BY <1>1, <1>2, <1>4, <1>5, JoinTurn
<1>9. z = Minus(n[at], q[at])
  BY <1>1, <1>2, <1>3, <1>7, <1>8, ChangeIs
<1>10. DOMAIN member' = Nodes
  BY <1>1 DEF DrainInv, Prepared
<1>11. \A k \in SetNodes(plan) : member'[k] = IF k = at THEN Together(plan, at, n) ELSE member[k]
  BY <1>1, <1>5 DEF SetNodes, SetKinds
<1> QED BY <1>1, <1>2, <1>9, <1>10, <1>11, Emitted

\* UNION and DISTINCT, whose support counts become those of the present rows,
LEMMA SetStep ==
  ASSUME DrainInv, RunSet
  PROVE  DrainInv'
<1> DEFINE n == Evaluated(plan, source)
           q == Evaluated(plan, Prior)
           z == Minus(Support(member'[at]), Support(member[at]))
<1>1. /\ at \in Nodes /\ Kind(at) \in SetKinds /\ Emit(z)
      /\ member' = [member EXCEPT ![at] = Plus(@, Together(plan, at, out))]
  BY DEF RunSet, Running
<1>2. n = Evaluated(plan, source) /\ q = Evaluated(plan, Prior)
  OBVIOUS
<1> HIDE DEF n, q, z
<1>3. IsPlan(plan) /\ Changed(plan, at, out, n, q) /\ Nodes = 1..Output /\ at > 0
  BY <1>1, <1>2, InTheDrain
<1>4. at \in DOMAIN plan /\ plan[at].kind \in SetKinds
  BY <1>1 DEF Nodes, Kind
<1>5. DOMAIN member = Nodes
  BY DEF DrainInv, Prepared
<1>6. member[at] = Together(plan, at, q)
  <2>1. InTurn(plan, source, Prior, out, member, state, at)
    BY <1>3 DEF DrainInv, During
  <2>2. ~(at < at)
    BY <1>1, <1>3 DEF DrainInv, Prepared
  <2> QED BY <1>2, <1>4, <2>1, <2>2 DEF InTurn, SetNodes
<1>7. member'[at] = Together(plan, at, n)
  <2>1. member'[at] = Plus(Together(plan, at, q), Together(plan, at, out))
    BY <1>1, <1>5, <1>6
  <2> QED BY <1>3, <1>4, <2>1, SetTurn
<1>8. z = Minus(n[at], q[at])
  <2>1. Support(Together(plan, at, n)) = n[at]
    BY <1>2, <1>3, <1>4, SetNodeIs
  <2>2. Support(Together(plan, at, q)) = q[at]
    BY <1>2, <1>3, <1>4, SetNodeIs
  <2> QED BY <1>6, <1>7, <2>1, <2>2 DEF z
<1>9. DOMAIN member' = Nodes
  BY <1>1, <1>5
<1>10. \A k \in SetNodes(plan) : member'[k] = IF k = at THEN Together(plan, at, n) ELSE member[k]
  <2>1. \A k \in SetNodes(plan) : k \in DOMAIN member
    BY <1>5 DEF SetNodes, Nodes
  <2> QED BY <1>1, <1>7, <2>1
<1>11. Kind(at) # "input"
  BY <1>1 DEF SetKinds
<1> QED BY <1>1, <1>2, <1>8, <1>9, <1>10, <1>11, Emitted

\* and the others, before and after over the touched keys.
LEMMA ArrangementStep ==
  ASSUME DrainInv, RunArrangement
  PROVE  DrainInv'
<1> DEFINE n == Evaluated(plan, source)
           q == Evaluated(plan, Prior)
           node == plan[at]
           keys == Touched(at)
           z == Minus(AfterRows(at), IF ReadsState(at) THEN StoredRows(at) ELSE BeforeRows(at))
           after == Materialize(plan, at, TouchedIn(node, InputsFrom(node, n), keys))
           before == Materialize(plan, at, TouchedIn(node, InputsFrom(node, q), keys))
<1>1. at \in Nodes /\ Arrangement(at) /\ Emit(z) /\ member' = member
  BY DEF RunArrangement, Running
<1>2. n = Evaluated(plan, source) /\ q = Evaluated(plan, Prior)
  OBVIOUS
<1>3. keys = KeysOf(plan, at, out)
  BY DEF Touched, Touches, KeysOf, Inputs
<1> HIDE DEF n, q
<1>4. IsPlan(plan) /\ Changed(plan, at, out, n, q) /\ IsDue(plan, at, out)
  BY <1>1, <1>2, InTheDrain
<1>5. at \in DOMAIN plan /\ IsArrangement(plan[at])
  BY <1>1 DEF Nodes, Arrangement, IsArrangement, Kind
<1>6. \A i \in DOMAIN plan[at].in : Live[plan[at].in[i]] = n[plan[at].in[i]] /\ Former(plan[at].in[i]) = q[plan[at].in[i]]
  <2> TAKE i \in DOMAIN plan[at].in
  <2>1. Live[plan[at].in[i]] = n[plan[at].in[i]] /\ Former(plan[at].in[i]) = q[plan[at].in[i]]
    BY <1>1, <1>2, LiveIs
  <2> QED BY <2>1
<1>7. AfterRows(at) = after
  BY <1>6 DEF AfterRows, TouchedIn, InputsFrom, Inputs
<1>8. BeforeRows(at) = before
  BY <1>6 DEF BeforeRows, TouchedIn, InputsFrom, Inputs
<1>9. ASSUME ReadsState(at)
      PROVE  StoredRows(at) = before
  <2>1. at = Output /\ plan[at].kind \in {"group", "limit"} /\ Members(plan[at].keys) \subseteq Members(plan[at].exprs)
    BY <1>9 DEF ReadsState, Kind
  <2>2. state = q[at]
    BY <1>1, <1>2, <2>1, InTheDrain DEF DrainInv, During, InTurn, Output
  <2>3. q[at] = Materialize(plan, at, InputsFrom(plan[at], q))
    BY <1>2, <1>4, <1>5, <2>1, EvaluatedIs
  <2>4. StoredRows(at) = Showing(plan[at], state, keys)
    BY DEF StoredRows, Showing
  <2>5. Showing(plan[at], Materialize(plan, at, InputsFrom(plan[at], q)), keys) = before
    <3> HIDE DEF keys
    <3> QED BY <1>3, <1>4, <1>5, <2>1, StoredTurn
  <2> QED BY <2>2, <2>3, <2>4, <2>5
<1>10. z = Minus(after, before)
  BY <1>7, <1>8, <1>9
<1>11. Minus(after, before)
         = Minus(Materialize(plan, at, InputsFrom(plan[at], n)), Materialize(plan, at, InputsFrom(plan[at], q)))
  <2> HIDE DEF keys
  <2> QED BY <1>3, <1>4, <1>5, ArrangementTurn
<1>12. Kind(at) # "input" /\ Kind(at) \notin SetKinds
  BY <1>5 DEF IsArrangement, Kind, SetKinds
<1> HIDE DEF z, after, before
<1>13. z = Minus(n[at], q[at])
  BY <1>1, <1>2, <1>10, <1>11, <1>12, ChangeIs
<1>14. DOMAIN member' = Nodes
  BY <1>1 DEF DrainInv, Prepared
<1>15. \A k \in SetNodes(plan) : member'[k] = IF k = at THEN Together(plan, at, n) ELSE member[k]
  BY <1>1, <1>12 DEF SetNodes, Kind
<1> QED BY <1>1, <1>2, <1>12, <1>13, <1>14, <1>15, Emitted

\* Taking nothing away.
LEMMA MinusNothing ==
  ASSUME NEW z, IsZSet(z)
  PROVE  Minus(z, NoRows) = z
<1>1. IsZSet(NoRows) /\ \A r : At(NoRows, r) = 0
  BY NoRowsZ
<1>2. IsZSet(Minus(z, NoRows)) /\ \A r : At(Minus(z, NoRows), r) = At(z, r) - At(NoRows, r)
  BY <1>1, MinusZ
<1>3. \A r : At(Minus(z, NoRows), r) = At(z, r)
  BY <1>1, <1>2, ZSetAt
<1> QED BY <1>2, <1>3, ZSetsEqual

\* The delta of one row.
LEMMA OneRow ==
  ASSUME NEW r, NEW d \in {-1, 1}, NEW z, z = [row \in {r} |-> d]
  PROVE  IsZSet(z) /\ DOMAIN z = {r} /\ \A x : At(z, x) = IF x = r THEN d ELSE 0
<1>1. IsFiniteSet({r})
  BY FS_Singleton
<1> QED BY <1>1 DEF IsZSet, At

\* A row written and staged changes neither what was drained.
LEMMA SameDifference ==
  ASSUME NEW a, IsZSet(a), NEW b, IsZSet(b), NEW e, IsZSet(e)
  PROVE  Minus(Plus(a, e), Plus(b, e)) = Minus(a, b)
<1>1. /\ IsZSet(Plus(a, e)) /\ \A r : At(Plus(a, e), r) = At(a, r) + At(e, r)
      /\ IsZSet(Plus(b, e)) /\ \A r : At(Plus(b, e), r) = At(b, r) + At(e, r)
  BY PlusZ
<1>2. /\ IsZSet(Minus(Plus(a, e), Plus(b, e)))
      /\ \A r : At(Minus(Plus(a, e), Plus(b, e)), r) = At(Plus(a, e), r) - At(Plus(b, e), r)
  BY <1>1, MinusZ
<1>3. IsZSet(Minus(a, b)) /\ \A r : At(Minus(a, b), r) = At(a, r) - At(b, r)
  BY MinusZ
<1>4. \A r : At(Minus(Plus(a, e), Plus(b, e)), r) = At(Minus(a, b), r)
  <2> TAKE r
  <2>1. At(a, r) \in Int /\ At(b, r) \in Int /\ At(e, r) \in Int
    BY ZSetAt
  <2> QED BY <1>1, <1>2, <1>3, <2>1
<1> QED BY <1>2, <1>3, <1>4, ZSetsEqual

\* With nothing staged the drained tables are the sources.
LEMMA NothingStaged ==
  ASSUME source = [s \in SourceIds |-> source[s]], AreBags(source), staged = Tables
  PROVE  Drained = source
<1>1. \A s \in SourceIds : Minus(source[s], staged[s]) = source[s]
  BY MinusNothing DEF AreBags, IsBag, Tables
<1> QED BY <1>1 DEF Drained

\* The population leaves the state of the drained tables.
LEMMA InitInv ==
  ASSUME Init
  PROVE  DrainInv
<1>1. /\ view \in DOMAIN Queries /\ Bind(Queries[view]).ok /\ plan = Bind(Queries[view]).nodes
      /\ staged = Tables /\ out = NoDeltas /\ at = 0 /\ refused = FALSE
      /\ member = [k \in Nodes |-> IF Kind(k) \in SetKinds
                                   THEN Together(plan, k, Evaluated(plan, source)) ELSE NoRows]
      /\ state = Evaluated(plan, source)[Output]
      /\ source \in IF Has({"all"}) THEN {Tables} ELSE Contents
  BY DEF Init
<1>2. IsPlan(plan)
  BY <1>1, PlanAssumption
<1>3. IsBag(NoRows) /\ IsZSet(NoRows) /\ DOMAIN NoRows = {}
  BY NoRowsZ DEF NoRows
<1>4. /\ source = [s \in SourceIds |-> source[s]] /\ AreBags(source)
      /\ \A s \in SourceIds : DOMAIN source[s] \subseteq SourceRow[s]
  <2>1. CASE Has({"all"})
    BY <1>1, <1>3, <2>1 DEF Tables, AreBags
  <2>2. CASE ~Has({"all"})
    BY <1>1, <2>2, ContentsAssumption DEF AreBags
  <2> QED BY <2>1, <2>2
<1>5. Drained = source
  BY <1>1, <1>4, NothingStaged
<1>6. Prepared
  <2>1. DOMAIN member = Nodes /\ DOMAIN out = Nodes
    BY <1>1 DEF NoDeltas
  <2>2. at \in 0..(Output + 1)
    BY <1>1, <1>2 DEF IsPlan, Output
  <2>3. \A s \in SourceIds : staged[s] = NoRows
    BY <1>1 DEF Tables
  <2>4. staged = [s \in SourceIds |-> staged[s]]
    BY <1>1 DEF Tables
  <2> QED BY <1>1, <1>2, <1>3, <1>4, <2>1, <2>2, <2>3, <2>4 DEF Prepared
<1>7. Settles(plan, Evaluated(plan, source), member, state)
  BY <1>1 DEF Settles, SetNodes, Nodes, Kind, Output
<1> QED BY <1>1, <1>4, <1>5, <1>6, <1>7 DEF DrainInv, Between, During

\* A row that is written and staged leaves the drained tables as they were.
LEMMA WriteStep ==
  ASSUME DrainInv, NEW s \in SourceIds, NEW r \in SourceRow[s], NEW d \in {-1, 1}, Write(s, r, d)
  PROVE  DrainInv'
<1> DEFINE e == [row \in {r} |-> d]
<1>1. /\ at = 0 /\ at' = at /\ view' = view /\ plan' = plan /\ member' = member
      /\ state' = state /\ out' = out /\ refused' = refused
      /\ \E k \in Nodes : Kind(k) = "input" /\ plan[k].source = s
      /\ At(source[s], r) + d >= 0
      /\ staged' = [staged EXCEPT ![s] = Plus(@, e)]
      /\ source' = [source EXCEPT ![s] = Plus(@, e)]
  BY DEF Write
<1>2. IsZSet(e) /\ DOMAIN e = {r} /\ \A x : At(e, x) = IF x = r THEN d ELSE 0
  BY OneRow
<1> HIDE DEF e
<1>3. /\ source = [t \in SourceIds |-> source[t]] /\ AreBags(source)
      /\ staged = [t \in SourceIds |-> staged[t]]
      /\ \A t \in SourceIds : IsZSet(staged[t]) /\ IsZSet(source[t])
      /\ \A t \in SourceIds : DOMAIN source[t] \subseteq SourceRow[t] /\ DOMAIN staged[t] \subseteq SourceRow[t]
  BY DEF DrainInv, Prepared, AreBags, IsBag
<1>4. /\ source' = [t \in SourceIds |-> source'[t]] /\ staged' = [t \in SourceIds |-> staged'[t]]
      /\ source'[s] = Plus(source[s], e) /\ staged'[s] = Plus(staged[s], e)
      /\ \A t \in SourceIds \ {s} : source'[t] = source[t] /\ staged'[t] = staged[t]
  BY <1>1, <1>3
<1>5. IsBag(source'[s])
  <2>1. IsZSet(source'[s]) /\ \A x : At(source'[s], x) = At(source[s], x) + At(e, x)
    BY <1>2, <1>3, <1>4, PlusZ
  <2>2. \A x : At(source[s], x) \in Nat
    BY <1>3, BagAt DEF AreBags
  <2>3. \A x : At(source'[s], x) >= 0
    BY <1>1, <1>2, <2>1, <2>2
  <2> QED BY <2>1, <2>3, NaturalIsBag
<1>6. AreBags(source') /\ \A t \in SourceIds : IsZSet(staged'[t])
  <2>1. IsZSet(staged'[s])
    BY <1>2, <1>3, <1>4, PlusZ
  <2> QED BY <1>3, <1>4, <1>5, <2>1 DEF AreBags
<1>7. \A t \in SourceIds : DOMAIN source'[t] \subseteq SourceRow[t] /\ DOMAIN staged'[t] \subseteq SourceRow[t]
  <2>1. \A a, b : DOMAIN Plus(a, b) \subseteq DOMAIN a \cup DOMAIN b
    BY TabledIs DEF Plus, Collect
  <2>2. DOMAIN source'[s] \subseteq SourceRow[s] /\ DOMAIN staged'[s] \subseteq SourceRow[s]
    BY <1>2, <1>3, <1>4, <2>1
  <2> QED BY <1>3, <1>4, <2>2
<1>8. \A t \in SourceIds : staged'[t] # NoRows => \E k \in InputNodes(plan) : plan[k].source = t
  <2>1. \E k \in InputNodes(plan) : plan[k].source = s
    BY <1>1 DEF InputNodes, Nodes, Kind
  <2> QED BY <1>4, <2>1 DEF DrainInv, Prepared
<1>9. Drained' = Drained
  <2>1. Minus(source'[s], staged'[s]) = Minus(source[s], staged[s])
    BY <1>2, <1>3, <1>4, SameDifference
  <2>2. \A t \in SourceIds : Minus(source'[t], staged'[t]) = Minus(source[t], staged[t])
    BY <1>4, <2>1
  <2> QED BY <2>2 DEF Drained
<1>10. Prepared'
  <2>1. Nodes' = Nodes /\ Output' = Output
    BY <1>1 DEF Nodes, Output
  <2>2. /\ view \in DOMAIN Queries /\ Bind(Queries[view]).ok /\ plan = Bind(Queries[view]).nodes
        /\ IsPlan(plan) /\ DOMAIN member = Nodes /\ DOMAIN out = Nodes
        /\ at \in 0..(Output + 1) /\ ~refused
    BY DEF DrainInv, Prepared
  <2> QED BY <1>1, <1>4, <1>6, <1>7, <1>8, <2>1, <2>2 DEF Prepared
<1>11. Between'
  <2>1. out' = NoDeltas' /\ AreBags(Drained) /\ Settles(plan, Evaluated(plan, Drained), member, state)
    BY <1>1 DEF DrainInv, Between, NoDeltas, Nodes
  <2> QED BY <1>1, <1>9, <2>1 DEF Between
<1>12. During'
  BY <1>1 DEF During
<1> QED BY <1>10, <1>11, <1>12 DEF DrainInv

\* The seeded input nodes hold the batch: it is what Prior takes back.
LEMMA StartStep ==
  ASSUME DrainInv, StartDrain
  PROVE  DrainInv'
<1> DEFINE n == Evaluated(plan, source)
           q == Evaluated(plan, Drained)
<1>1. /\ at = 0 /\ ~Has({"fixpoint"}) /\ staged' = Tables
      /\ out' = [k \in Nodes |-> IF Kind(k) = "input" THEN staged[plan[k].source] ELSE NoRows]
      /\ at' = FirstDue(1, out')
      /\ view' = view /\ plan' = plan /\ source' = source /\ member' = member
      /\ state' = state /\ refused' = refused
  BY DEF StartDrain
<1>2. n = Evaluated(plan, source) /\ q = Evaluated(plan, Drained)
  OBVIOUS
<1> HIDE DEF n, q
<1>3. /\ IsPlan(plan) /\ source = [s \in SourceIds |-> source[s]] /\ AreBags(source)
      /\ \A s \in SourceIds : IsZSet(staged[s]) /\ IsZSet(source[s])
      /\ \A s \in SourceIds : staged[s] # NoRows => Readers(plan, s) # {}
  BY DEF DrainInv, Prepared, AreBags, IsBag, Readers
<1>4. AreBags(Drained) /\ Settles(plan, q, member, state)
  BY <1>1, <1>2 DEF DrainInv, Between
<1>5. Output \in Nat \ {0} /\ Nodes = 1..Output /\ Output = Len(plan) /\ Nodes = DOMAIN plan
  BY <1>3 DEF IsPlan, Output, Nodes
<1>6. NoFixpoint(plan)
  BY <1>1 DEF NoFixpoint, Has, Nodes, Kind
<1>7. \A k \in InputNodes(plan) : k \in Nodes /\ plan[k].source \in SourceIds /\ out'[k] = staged[plan[k].source]
  <2> SUFFICES ASSUME NEW k \in InputNodes(plan)
               PROVE  k \in Nodes /\ plan[k].source \in SourceIds /\ out'[k] = staged[plan[k].source]
    OBVIOUS
  <2>1. k \in Nodes /\ k \in DOMAIN plan /\ plan[k].kind = "input" /\ Kind(k) = "input"
    BY DEF InputNodes, Nodes, Kind
  <2>2. plan[k].source \in SourceIds
    BY <1>3, <2>1 DEF IsPlan, OneInput, TwoInputs
  <2> QED BY <1>1, <2>1, <2>2
<1>8. Prior' = Drained
  <2>1. Prior' = TakenBack(plan, source, out')
    BY <1>1 DEF Prior
  <2>2. ASSUME NEW s \in SourceIds
        PROVE  TakenBack(plan, source, out')[s] = Minus(source[s], staged[s])
    <3>1. CASE Readers(plan, s) = {}
      <4>1. staged[s] = NoRows
        BY <1>3, <3>1
      <4>2. Minus(source[s], staged[s]) = source[s]
        BY <1>3, <4>1, MinusNothing
      <4> QED BY <3>1, <4>2 DEF TakenBack
    <3>2. CASE Readers(plan, s) # {}
      <4> DEFINE k == CHOOSE k \in Readers(plan, s) : TRUE
      <4>1. k \in Readers(plan, s)
        BY <3>2
      <4>2. out'[k] = staged[s]
        BY <1>7, <4>1 DEF Readers
      <4>3. TakenBack(plan, source, out')[s] = Minus(source[s], out'[k])
        BY <3>2 DEF TakenBack
      <4> QED BY <4>2, <4>3
    <3> QED BY <3>1, <3>2
  <2>3. TakenBack(plan, source, out') = [s \in SourceIds |-> TakenBack(plan, source, out')[s]]
    BY DEF TakenBack
  <2> HIDE DEF TakenBack
  <2> QED BY <2>1, <2>2, <2>3 DEF Drained
<1>9. InTurn(plan, source, Drained, out', member, state, 1)
  <2>1. Settled(plan, out', n, q, 1)
    <3>1. ASSUME NEW k \in DOMAIN plan, k < 1 \/ plan[k].kind = "input"
          PROVE  out'[k] = Minus(n[k], q[k])
      <4>1. k \in InputNodes(plan) /\ plan[k].kind = "input"
        BY <1>5, <3>1 DEF InputNodes
      <4> DEFINE s == plan[k].source
      <4>2. s \in SourceIds /\ out'[k] = staged[s]
        BY <1>7, <4>1
      <4>3. n[k] = source[s] /\ q[k] = Drained[s]
        BY <1>2, <1>3, <4>1, EvaluatedIs
      <4>4. Drained[s] = Minus(source[s], staged[s])
        BY <4>2 DEF Drained
      <4> HIDE DEF s
      <4>5. Minus(source[s], Minus(source[s], staged[s])) = staged[s]
        <5>1. IsZSet(source[s]) /\ IsZSet(staged[s])
          BY <1>3, <4>2
        <5>2. IsZSet(Drained[s]) /\ Adds(source[s], Drained[s], staged[s])
          <6>1. IsZSet(Minus(source[s], staged[s]))
                  /\ \A r : At(Minus(source[s], staged[s]), r) = At(source[s], r) - At(staged[s], r)
            BY <5>1, MinusZ
          <6>2. \A r : At(source[s], r) = At(Drained[s], r) + At(staged[s], r)
            <7> TAKE r
            <7>1. At(source[s], r) \in Int /\ At(staged[s], r) \in Int
              BY <5>1, ZSetAt
            <7> QED BY <4>4, <6>1, <7>1
          <6> QED BY <4>4, <6>1, <6>2 DEF Adds
        <5>3. staged[s] = Minus(source[s], Drained[s])
          BY <5>1, <5>2, ChangeOf
        <5> QED BY <4>4, <5>3
      <4> QED BY <4>2, <4>3, <4>4, <4>5
    <3>2. ASSUME NEW k \in DOMAIN plan, plan[k].kind # "input"
          PROVE  out'[k] = NoRows
      BY <1>1, <1>5, <3>2 DEF Kind
    <3> QED BY <3>1, <3>2 DEF Settled
  <2>2. \A k \in SetNodes(plan) : ~(k < 1)
    BY <1>5 DEF SetNodes
  <2>3. ~(Len(plan) < 1)
    BY <1>5
  <2> QED BY <1>2, <1>4, <2>1, <2>2, <2>3 DEF InTurn, Settles
<1>10. /\ at' \in 1..(Output + 1)
       /\ at' <= Output => IsDue(plan, at', out')
       /\ \A e \in 1..(at' - 1) : ~IsDue(plan, e, out')
  <2>1. 1 \in 1..(Output + 1)
    BY <1>5
  <2> QED BY <1>1, <1>3, <2>1, FirstDueIs
<1>11. InTurn(plan, source, Drained, out', member, state, at')
  <2>1. at' \in Nat /\ 1 \in Nat /\ 1 <= at' /\ at' <= Len(plan) + 1
    BY <1>5, <1>10
  <2> QED BY <1>3, <1>4, <1>6, <1>9, <1>10, <2>1, SkippedTurns
<1>12. Prepared'
  <2>1. Nodes' = Nodes /\ Output' = Output
    BY <1>1 DEF Nodes, Output
  <2>2. DOMAIN out' = Nodes /\ at' \in 0..(Output + 1)
    BY <1>1, <1>5, <1>10
  <2>3. /\ staged' = [s \in SourceIds |-> staged'[s]] /\ \A s \in SourceIds : staged'[s] = NoRows
        /\ IsZSet(NoRows) /\ DOMAIN NoRows = {}
    BY <1>1, NoRowsZ DEF Tables, NoRows
  <2>4. /\ view \in DOMAIN Queries /\ Bind(Queries[view]).ok /\ plan = Bind(Queries[view]).nodes
        /\ DOMAIN member = Nodes /\ ~refused
        /\ \A s \in SourceIds : DOMAIN source[s] \subseteq SourceRow[s]
    BY DEF DrainInv, Prepared
  <2>5. \A s \in SourceIds : IsZSet(staged'[s]) /\ DOMAIN staged'[s] \subseteq SourceRow[s]
    BY <2>3
  <2> QED BY <1>1, <1>3, <2>1, <2>2, <2>3, <2>4, <2>5 DEF Prepared
<1>13. Between'
  BY <1>5, <1>10 DEF Between
<1>14. During'
  <2>1. Output' = Output
    BY <1>1 DEF Output
  <2> QED BY <1>1, <1>4, <1>6, <1>8, <1>10, <1>11, <2>1 DEF During
<1> QED BY <1>12, <1>13, <1>14 DEF DrainInv

\* Clearing the out tables ends the batch: what was present is what is drained.
LEMMA EndStep ==
  ASSUME DrainInv, EndDrain
  PROVE  DrainInv'
<1>1. /\ at = Output + 1 /\ out' = NoDeltas /\ at' = 0
      /\ view' = view /\ plan' = plan /\ source' = source /\ staged' = staged /\ member' = member
      /\ state' = state /\ refused' = refused
  BY DEF EndDrain
<1>2. /\ IsPlan(plan) /\ Output \in Nat \ {0} /\ Output = Len(plan) /\ Nodes = DOMAIN plan
      /\ DOMAIN plan = 1..Len(plan)
  BY DEF DrainInv, Prepared, IsPlan, Output, Nodes
<1>3. staged = Tables /\ InTurn(plan, source, Prior, out, member, state, Output + 1)
  BY <1>1, <1>2 DEF DrainInv, During
<1>4. source = [s \in SourceIds |-> source[s]] /\ AreBags(source)
  BY DEF DrainInv, Prepared
<1>5. Drained = source /\ Drained' = source
  <2>1. Drained = source
    BY <1>3, <1>4, NothingStaged
  <2>2. Drained' = Drained
    BY <1>1 DEF Drained
  <2> QED BY <2>1, <2>2
<1>6. Settles(plan, Evaluated(plan, source), member, state)
  <2>1. \A k \in SetNodes(plan) : k < Output + 1
    BY <1>2 DEF SetNodes
  <2>2. Len(plan) < Output + 1
    BY <1>2
  <2> QED BY <1>3, <2>1, <2>2 DEF InTurn, Settles
<1>7. Prepared'
  <2>1. Nodes' = Nodes /\ Output' = Output /\ NoDeltas' = NoDeltas
    BY <1>1 DEF Nodes, Output, NoDeltas
  <2>2. DOMAIN out' = Nodes /\ at' \in 0..(Output + 1)
    BY <1>1, <1>2 DEF NoDeltas
  <2> QED BY <1>1, <2>1, <2>2 DEF DrainInv, Prepared
<1>8. Between'
  <2>1. out' = NoDeltas'
    BY <1>1 DEF NoDeltas, Nodes
  <2> QED BY <1>1, <1>4, <1>5, <1>6, <2>1 DEF Between
<1>9. During'
  BY <1>1 DEF During
<1> QED BY <1>7, <1>8, <1>9 DEF DrainInv

\* Init => IInv and IInv /\ [Next]_vars => IInv'.
LEMMA DrainInvStep ==
  ASSUME DrainInv, [Next]_vars
  PROVE  DrainInv'
<1>1. ASSUME NEW s \in SourceIds, NEW r \in SourceRow[s], NEW d \in {-1, 1}, Write(s, r, d)
      PROVE  DrainInv'
  BY <1>1, WriteStep
<1>2. CASE StartDrain
  BY <1>2, StartStep
<1>3. CASE RunLinear
  BY <1>3, LinearStep
<1>4. CASE RunInnerJoin
  BY <1>4, InnerJoinStep
<1>5. CASE RunSet
  BY <1>5, SetStep
<1>6. CASE RunArrangement
  BY <1>6, ArrangementStep
<1>7. CASE EndDrain
  BY <1>7, EndStep
<1>8. CASE UNCHANGED vars
  <2>1. /\ view' = view /\ plan' = plan /\ source' = source /\ staged' = staged /\ member' = member
        /\ state' = state /\ refused' = refused /\ out' = out /\ at' = at
    BY <1>8 DEF vars
  <2>2. Nodes' = Nodes /\ Output' = Output /\ Drained' = Drained /\ Prior' = Prior /\ NoDeltas' = NoDeltas
    BY <2>1 DEF Nodes, Output, Drained, Prior, NoDeltas
  <2>3. Prepared'
    BY <2>1, <2>2 DEF DrainInv, Prepared
  <2>4. Between'
    BY <2>1, <2>2 DEF DrainInv, Between
  <2>5. During'
    BY <2>1, <2>2 DEF DrainInv, During
  <2> QED BY <2>3, <2>4, <2>5 DEF DrainInv
<1> QED BY <1>1, <1>2, <1>3, <1>4, <1>5, <1>6, <1>7, <1>8 DEF Next

\* DrainInv is an invariant.
LEMMA DrainInvariant == Spec => []DrainInv
<1>1. Init => DrainInv
  BY InitInv
<1>2. DrainInv /\ [Next]_vars => DrainInv'
  BY DrainInvStep
<1> QED BY <1>1, <1>2, PTL DEF Spec

-----------------------------------------------------------------------------
(* The theorems.                                                           *)

\* Whatever the compiler binds, every node of every drain writes the exact change
\* of its rows (the out tables of src/1d_drain.rs).
THEOREM EveryDeltaIsItsChange == Spec => []DeltaIsChange
<1>1. DrainInv => DeltaIsChange
  <2> SUFFICES ASSUME DrainInv, at > 0, NEW k \in 1..(at - 1)
               PROVE  out[k] = Minus(Evaluated(plan, source)[k], Evaluated(plan, Prior)[k])
    BY DEF DeltaIsChange
  <2>1. DOMAIN plan = 1..Output /\ Output \in Nat /\ at \in 0..(Output + 1)
    BY DEF DrainInv, Prepared, IsPlan, Output
  <2>2. k \in DOMAIN plan /\ k < at
    BY <2>1
  <2>3. InTurn(plan, source, Prior, out, member, state, at)
    BY DEF DrainInv, During
  <2> QED BY <2>2, <2>3 DEF InTurn, Settled
<1> QED BY <1>1, DrainInvariant, PTL

\* apply_state finds every row it retracts.
THEOREM ApplyIsNeverRefused == Spec => []ApplyNeverRefused
<1>1. DrainInv => ApplyNeverRefused
  BY DEF DrainInv, Prepared, ApplyNeverRefused
<1> QED BY <1>1, DrainInvariant, PTL

\* The stored rows are what the plan computes from the tables without the staged.
StateIsEvaluation == at = 0 => state = Evaluated(plan, Drained)[Output]

\* A sequence of batches and drains comes to the same as one population from the
\* tables, for every plan bind makes (src/1d_drain.rs:184).
THEOREM DrainsAreAPopulation == Spec => []StateIsEvaluation
<1>1. DrainInv => StateIsEvaluation
  BY DEF DrainInv, Between, Settles, StateIsEvaluation, Output
<1> QED BY <1>1, DrainInvariant, PTL

\* The compiler's plan of a SELECT computes what SQLite answers, over all tables.
Holdable(tables) ==
  /\ tables = [s \in SourceIds |-> tables[s]]
  /\ \A s \in SourceIds : IsBag(tables[s]) /\ DOMAIN tables[s] \subseteq SourceRow[s]
Answers(q) ==
  \A p \in {Bind(Queries[q]).nodes} : \A tables :
    Holdable(tables) => Evaluated(p, tables)[Len(p)] = Reply(Queries[q], tables)

\* With such a compiler no batch and no drain makes the view differ from its SELECT.
THEOREM ViewsAnswerTheirSelect ==
  ASSUME \A q \in DOMAIN Queries : Bind(Queries[q]).ok => Answers(q)
  PROVE  Spec => []ResultIsQuery
<1>1. DrainInv => ResultIsQuery
  <2> SUFFICES ASSUME DrainInv, at = 0
               PROVE  state = Reply(Queries[view], Drained)
    BY DEF ResultIsQuery
  <2>1. state = Evaluated(plan, Drained)[Len(plan)] /\ AreBags(Drained)
    BY DEF DrainInv, Between, Settles
  <2>2. /\ view \in DOMAIN Queries /\ Bind(Queries[view]).ok /\ plan = Bind(Queries[view]).nodes
        /\ \A s \in SourceIds : DOMAIN source[s] \subseteq SourceRow[s] /\ DOMAIN staged[s] \subseteq SourceRow[s]
    BY DEF DrainInv, Prepared
  <2>3. Holdable(Drained)
    <3>1. \A a, b : DOMAIN Minus(a, b) \subseteq DOMAIN a \cup DOMAIN b
      BY TabledIs DEF Minus, Collect
    <3>2. \A s \in SourceIds : Drained[s] = Minus(source[s], staged[s])
      BY DEF Drained
    <3>3. \A s \in SourceIds : DOMAIN Drained[s] \subseteq SourceRow[s]
      BY <2>2, <3>1, <3>2
    <3>4. Drained = [s \in SourceIds |-> Drained[s]]
      BY DEF Drained
    <3> QED BY <2>1, <3>3, <3>4 DEF Holdable, AreBags
  <2> QED BY <2>1, <2>2, <2>3 DEF Answers
<1> QED BY <1>1, DrainInvariant, PTL
=============================================================================
