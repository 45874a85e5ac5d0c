----------------------------- MODULE SumsProofs -----------------------------
(***************************************************************************)
(* What Sums!SumOf returns, for every finite set and every integer         *)
(* function.  The induction theorems of the library take an operator as    *)
(* parameter; here a property is the set of those that have it, and a set  *)
(* that misses one has a least one to miss.                                *)
(***************************************************************************)
EXTENDS Sums, FiniteSetTheorems, WellFoundedInduction, TLAPS

\* A set of parts of S to which a part belongs when it does without any one of
\* its elements has all parts of S.
LEMMA AllParts ==
  ASSUME NEW S, IsFiniteSet(S), NEW Good,
         \A T \in SUBSET S : (\A x \in T : T \ {x} \in Good) => T \in Good
  PROVE  SUBSET S \subseteq Good
<1> DEFINE Bad == {T \in SUBSET S : T \notin Good}
<1> SUFFICES ASSUME Bad # {} PROVE FALSE
  OBVIOUS
<1>1. Bad \subseteq FiniteSubsetsOf(S)
  BY FS_Subset DEF FiniteSubsetsOf
<1>2. PICK T \in Bad : \A U \in Bad : <<U, T>> \notin StrictSubsetOrdering(S)
  BY <1>1, WFMin, FS_StrictSubsetOrderingWellFounded
<1>3. ASSUME NEW x \in T
      PROVE  T \ {x} \in Good
  <2>1. <<T \ {x}, T>> \in StrictSubsetOrdering(S)
    BY <1>3 DEF StrictSubsetOrdering
  <2> QED BY <1>2, <2>1
<1> QED BY <1>2, <1>3

-----------------------------------------------------------------------------
(* The recursion has a solution.                                           *)

Chosen(T) == CHOOSE x \in T : TRUE

SumStep(f, g, T) == IF T = {} THEN 0 ELSE f[Chosen(T)] + g[T \ {Chosen(T)}]

\* g solves the recursion for the parts of S with at most n elements.
SumsTo(f, g, S, n) ==
  /\ g \in [SUBSET S -> Int]
  /\ \A T \in SUBSET S : Cardinality(T) <= n => g[T] = SumStep(f, g, T)

\* The chosen element leaves a part with one element less.
LEMMA Smaller ==
  ASSUME NEW T, IsFiniteSet(T), T # {}
  PROVE  /\ Chosen(T) \in T
         /\ Cardinality(T \ {Chosen(T)}) = Cardinality(T) - 1
         /\ Cardinality(T) \in Nat \ {0}
<1>1. Chosen(T) \in T
  BY DEF Chosen
<1>2. Cardinality(T) \in Nat /\ Cardinality(T) # 0
  BY FS_CardinalityType, FS_EmptySet
<1> QED BY <1>1, <1>2, FS_RemoveElement

\* A solution for parts of n elements extends to those of n + 1.
LEMMA SolutionTo ==
  ASSUME NEW S, IsFiniteSet(S), NEW f, \A x \in S : f[x] \in Int,
         NEW n \in Nat, NEW g, SumsTo(f, g, S, n)
  PROVE  \E h : SumsTo(f, h, S, n + 1)
<1> DEFINE h == [T \in SUBSET S |-> SumStep(f, g, T)]
<1>1. ASSUME NEW T \in SUBSET S
      PROVE  SumStep(f, g, T) \in Int
  <2>1. T # {} => Chosen(T) \in T
    BY DEF Chosen
  <2> QED BY <2>1 DEF SumStep, SumsTo
<1>2. ASSUME NEW T \in SUBSET S, Cardinality(T) <= n + 1, T # {}
      PROVE  h[T \ {Chosen(T)}] = g[T \ {Chosen(T)}]
  <2>1. IsFiniteSet(T)
    BY FS_Subset
  <2>2. Cardinality(T \ {Chosen(T)}) <= n
    BY <1>2, <2>1, Smaller
  <2> QED BY <2>2 DEF SumsTo
<1>3. ASSUME NEW T \in SUBSET S, Cardinality(T) <= n + 1
      PROVE  h[T] = SumStep(f, h, T)
  <2>1. h[T] = SumStep(f, g, T)
    OBVIOUS
  <2> QED BY <1>2, <1>3, <2>1 DEF SumStep
<1>4. h \in [SUBSET S -> Int]
  BY <1>1
<1> HIDE DEF h
<1> QED BY <1>3, <1>4 DEF SumsTo

\* Hence there is one for all parts.
LEMMA Solution ==
  ASSUME NEW S, IsFiniteSet(S), NEW f, \A x \in S : f[x] \in Int
  PROVE  \E g : g \in [SUBSET S -> Int] /\ \A T \in SUBSET S : g[T] = SumStep(f, g, T)
<1> DEFINE Good == {T \in SUBSET S : \E g : SumsTo(f, g, S, Cardinality(T))}
<1>1. {} \in Good
  <2> DEFINE g == [T \in SUBSET S |-> 0]
  <2>1. ASSUME NEW T \in SUBSET S, Cardinality(T) <= 0
        PROVE  T = {}
    <3>1. IsFiniteSet(T)
      BY FS_Subset
    <3> QED BY <2>1, <3>1, FS_CardinalityType, FS_EmptySet
  <2>2. SumsTo(f, g, S, 0)
    BY <2>1 DEF SumsTo, SumStep
  <2> QED BY <2>2, FS_EmptySet
<1>2. ASSUME NEW T \in SUBSET S, \A x \in T : T \ {x} \in Good
      PROVE  T \in Good
  <2>1. CASE T = {}
    BY <1>1, <2>1
  <2>2. CASE T # {}
    <3>1. IsFiniteSet(T)
      BY FS_Subset
    <3>2. /\ Cardinality(T \ {Chosen(T)}) \in Nat
          /\ Cardinality(T) = Cardinality(T \ {Chosen(T)}) + 1
      BY <2>2, <3>1, Smaller
    <3>3. PICK g : SumsTo(f, g, S, Cardinality(T \ {Chosen(T)}))
      BY <1>2, <2>2, <3>1, Smaller
    <3> QED BY <3>2, <3>3, SolutionTo
  <2> QED BY <2>1, <2>2
<1>3. S \in Good
  <2> HIDE DEF Good
  <2> QED BY <1>2, AllParts
<1>4. PICK g : SumsTo(f, g, S, Cardinality(S))
  BY <1>3
<1> QED BY <1>4, FS_Subset DEF SumsTo

-----------------------------------------------------------------------------
(* Sums.                                                                   *)

\* The function SumOf(f, S) takes its value from.
SumFrom(f, S) ==
  CHOOSE g : g = [T \in SUBSET S |->
                    IF T = {} THEN 0
                    ELSE LET x == CHOOSE x \in T : TRUE IN f[x] + g[T \ {x}]]

\* And the recursion that defines SumOf is one.
LEMMA SumSolves ==
  ASSUME NEW S, IsFiniteSet(S), NEW f, \A x \in S : f[x] \in Int
  PROVE  /\ SumOf(f, S) = SumFrom(f, S)[S]
         /\ SumFrom(f, S) \in [SUBSET S -> Int]
         /\ \A T \in SUBSET S : SumFrom(f, S)[T] = SumStep(f, SumFrom(f, S), T)
<1>1. PICK g : g \in [SUBSET S -> Int] /\ \A T \in SUBSET S : g[T] = SumStep(f, g, T)
  BY Solution
<1>2. g = [T \in SUBSET S |->
             IF T = {} THEN 0
             ELSE LET x == CHOOSE x \in T : TRUE IN f[x] + g[T \ {x}]]
  BY <1>1 DEF SumStep, Chosen
<1> DEFINE s == SumFrom(f, S)
<1>3. s = [T \in SUBSET S |->
             IF T = {} THEN 0
             ELSE LET x == CHOOSE x \in T : TRUE IN f[x] + s[T \ {x}]]
  BY <1>2 DEF SumFrom
<1>4. SumOf(f, S) = s[S]
  BY DEF SumOf, SumFrom
<1> HIDE DEF s
<1>5. \A T \in SUBSET S : s[T] = SumStep(f, s, T)
  BY <1>3 DEF SumStep, Chosen
<1>6. DOMAIN s = SUBSET S /\ s = [T \in SUBSET S |-> s[T]]
  BY <1>3
<1>7. \A T \in SUBSET S : s[T] = g[T]
  <2> DEFINE Good == {T \in SUBSET S : s[T] = g[T]}
  <2>1. ASSUME NEW T \in SUBSET S, \A x \in T : T \ {x} \in Good
        PROVE  T \in Good
    <3>1. T # {} => Chosen(T) \in T
      BY DEF Chosen
    <3> QED BY <1>1, <1>5, <2>1, <3>1 DEF SumStep
  <2>2. SUBSET S \subseteq Good
    <3> HIDE DEF Good
    <3> QED BY <2>1, AllParts
  <2> QED BY <2>2
<1> QED BY <1>1, <1>4, <1>5, <1>6, <1>7 DEF s

\* The sum over a set is the same taken as part of a larger one.
LEMMA SumOfPart ==
  ASSUME NEW S, IsFiniteSet(S), NEW f, \A x \in S : f[x] \in Int,
         NEW T \in SUBSET S
  PROVE  SumOf(f, T) = SumFrom(f, S)[T]
<1> DEFINE s == SumFrom(f, S)
           t == SumFrom(f, T)
           Good == {U \in SUBSET T : t[U] = s[U]}
<1>1. IsFiniteSet(T) /\ \A x \in T : f[x] \in Int
  BY FS_Subset
<1>2. /\ SumOf(f, T) = t[T]
      /\ \A U \in SUBSET T : t[U] = SumStep(f, t, U)
      /\ \A U \in SUBSET T : s[U] = SumStep(f, s, U)
  <2>1. \A U \in SUBSET S : s[U] = SumStep(f, s, U)
    BY SumSolves
  <2>2. SumOf(f, T) = t[T] /\ \A U \in SUBSET T : t[U] = SumStep(f, t, U)
    BY <1>1, SumSolves
  <2> QED BY <2>1, <2>2
<1> HIDE DEF s, t
<1>3. ASSUME NEW U \in SUBSET T, \A x \in U : U \ {x} \in Good
      PROVE  U \in Good
  <2>1. U # {} => Chosen(U) \in U
    BY DEF Chosen
  <2> QED BY <1>2, <1>3, <2>1 DEF SumStep
<1>4. T \in Good
  <2> HIDE DEF Good
  <2> QED BY <1>1, <1>3, AllParts
<1> QED BY <1>2, <1>4 DEF s

\* A sum is an integer, of nothing 0, and any element may be taken out of it.
THEOREM SumOfNone == \A f : SumOf(f, {}) = 0
<1> SUFFICES ASSUME NEW f PROVE SumOf(f, {}) = 0
  OBVIOUS
<1> QED BY SumSolves, FS_EmptySet DEF SumStep

\* A sum of integers is an integer.
THEOREM SumIsInteger ==
  ASSUME NEW S, IsFiniteSet(S), NEW f, \A x \in S : f[x] \in Int
  PROVE  SumOf(f, S) \in Int
<1>1. SumOf(f, S) = SumFrom(f, S)[S] /\ SumFrom(f, S) \in [SUBSET S -> Int]
  BY SumSolves
<1> QED BY <1>1

\* Any element can be taken out of a sum first.
THEOREM SumTakesOut ==
  ASSUME NEW S, IsFiniteSet(S), NEW f, \A x \in S : f[x] \in Int, NEW y \in S
  PROVE  SumOf(f, S) = f[y] + SumOf(f, S \ {y})
<1> DEFINE s == SumFrom(f, S)
           Good == {T \in SUBSET S : \A x \in T : s[T] = f[x] + s[T \ {x}]}
<1>1. /\ SumOf(f, S) = s[S] /\ SumOf(f, S \ {y}) = s[S \ {y}]
      /\ s \in [SUBSET S -> Int]
      /\ \A T \in SUBSET S : s[T] = SumStep(f, s, T)
  <2>1. S \ {y} \in SUBSET S
    OBVIOUS
  <2>2. SumOf(f, S \ {y}) = s[S \ {y}]
    BY <2>1, SumOfPart
  <2>3. /\ SumOf(f, S) = s[S] /\ s \in [SUBSET S -> Int]
        /\ \A T \in SUBSET S : s[T] = SumStep(f, s, T)
    BY SumSolves
  <2> HIDE DEF s
  <2> QED BY <2>2, <2>3
<1> HIDE DEF s
<1>2. ASSUME NEW T \in SUBSET S, \A x \in T : T \ {x} \in Good, NEW x \in T
      PROVE  s[T] = f[x] + s[T \ {x}]
  <2> DEFINE p == Chosen(T)
  <2>1. p \in T
    BY DEF Chosen
  <2>2. s[T] = f[p] + s[T \ {p}]
    BY <1>1 DEF SumStep
  <2> HIDE DEF p
  <2>3. CASE x = p
    BY <2>2, <2>3
  <2>4. CASE x # p
    <3>1. s[T \ {p}] = f[x] + s[(T \ {p}) \ {x}]
      BY <1>2, <2>1, <2>4
    <3>2. s[T \ {x}] = f[p] + s[(T \ {x}) \ {p}]
      BY <1>2, <2>1, <2>4
    <3>3. (T \ {p}) \ {x} = (T \ {x}) \ {p}
      OBVIOUS
    <3> DEFINE rest == s[(T \ {x}) \ {p}]
    <3>4. rest \in Int /\ f[p] \in Int /\ f[x] \in Int
      BY <1>1, <2>1
    <3>5. s[T] = f[p] + (f[x] + rest) /\ s[T \ {x}] = f[p] + rest
      BY <2>2, <3>1, <3>2, <3>3
    <3> HIDE DEF rest
    <3> QED BY <3>4, <3>5
  <2> QED BY <2>3, <2>4
<1>3. S \in Good
  <2>1. \A T \in SUBSET S : (\A x \in T : T \ {x} \in Good) => T \in Good
    BY <1>2
  <2> HIDE DEF Good
  <2> QED BY <2>1, AllParts
<1> QED BY <1>1, <1>3

\* The sum over one element is its value.
THEOREM SumOfOne ==
  ASSUME NEW x, NEW f, f[x] \in Int
  PROVE  SumOf(f, {x}) = f[x]
<1>1. SumOf(f, {x}) = f[x] + SumOf(f, {x} \ {x})
  BY SumTakesOut, FS_Singleton
<1>2. {x} \ {x} = {}
  OBVIOUS
<1> QED BY <1>1, <1>2, SumOfNone

\* Functions that agree on a set have one sum there.
THEOREM SumsAgree ==
  ASSUME NEW S, IsFiniteSet(S), NEW f, NEW g, \A x \in S : f[x] \in Int /\ g[x] = f[x]
  PROVE  SumOf(g, S) = SumOf(f, S)
<1> DEFINE Good == {T \in SUBSET S : SumOf(g, T) = SumOf(f, T)}
<1>1. ASSUME NEW T \in SUBSET S, \A x \in T : T \ {x} \in Good
      PROVE  T \in Good
  <2>1. IsFiniteSet(T)
    BY FS_Subset
  <2>2. CASE T = {}
    BY <2>2, SumOfNone
  <2>3. CASE T # {}
    <3>1. PICK x \in T : TRUE
      BY <2>3
    <3>2. SumOf(f, T) = f[x] + SumOf(f, T \ {x})
      BY <2>1, SumTakesOut
    <3>3. SumOf(g, T) = g[x] + SumOf(g, T \ {x})
      BY <2>1, SumTakesOut
    <3> QED BY <1>1, <3>2, <3>3
  <2> QED BY <2>2, <2>3
<1> HIDE DEF Good
<1>2. S \in Good
  BY <1>1, AllParts
<1> QED BY <1>2 DEF Good

\* The sum over two sets without a common element.
THEOREM SumOfUnion ==
  ASSUME NEW S, IsFiniteSet(S), NEW R, IsFiniteSet(R), R \cap S = {},
         NEW f, \A x \in R \cup S : f[x] \in Int
  PROVE  SumOf(f, R \cup S) = SumOf(f, R) + SumOf(f, S)
<1> DEFINE Good == {T \in SUBSET S : SumOf(f, R \cup T) = SumOf(f, R) + SumOf(f, T)}
<1>1. ASSUME NEW T \in SUBSET S, \A x \in T : T \ {x} \in Good
      PROVE  T \in Good
  <2>1. IsFiniteSet(T) /\ IsFiniteSet(R \cup T)
    BY FS_Subset, FS_Union
  <2>2. SumOf(f, R) \in Int
    BY SumIsInteger
  <2>3. CASE T = {}
    BY <2>2, <2>3, SumOfNone
  <2>4. CASE T # {}
    <3>1. PICK x \in T : TRUE
      BY <2>4
    <3>2. SumOf(f, T) = f[x] + SumOf(f, T \ {x})
      BY <2>1, SumTakesOut
    <3>3. SumOf(f, R \cup T) = f[x] + SumOf(f, (R \cup T) \ {x})
      BY <2>1, SumTakesOut
    <3>4. (R \cup T) \ {x} = R \cup (T \ {x})
      OBVIOUS
    <3>5. SumOf(f, R \cup (T \ {x})) = SumOf(f, R) + SumOf(f, T \ {x})
      BY <1>1
    <3>6. SumOf(f, T \ {x}) \in Int /\ f[x] \in Int
      <4>1. IsFiniteSet(T \ {x})
        BY <2>1, FS_Subset
      <4> QED BY <4>1, SumIsInteger
    <3> DEFINE rest == SumOf(f, T \ {x})
               a == SumOf(f, R)
    <3>7. SumOf(f, R \cup T) = f[x] + (a + rest) /\ SumOf(f, T) = f[x] + rest
      BY <3>2, <3>3, <3>4, <3>5
    <3>8. rest \in Int /\ a \in Int /\ f[x] \in Int
      BY <2>2, <3>6
    <3> HIDE DEF rest, a
    <3>9. SumOf(f, R \cup T) = a + SumOf(f, T)
      BY <3>7, <3>8
    <3> QED BY <3>9 DEF a
  <2> QED BY <2>3, <2>4
<1> HIDE DEF Good
<1>2. S \in Good
  BY <1>1, AllParts
<1> QED BY <1>2 DEF Good
=============================================================================
