----------------------------- MODULE SumProofs -----------------------------
(***************************************************************************)
(* The sum of the values of a function over a finite set, and what becomes *)
(* of it when one value changes.                                           *)
(***************************************************************************)
EXTENDS Integers, FiniteSets, FiniteSetsExt, FiniteSetTheorems, NaturalsInduction, TLAPS

SumOver(f, S) == MapThenSumSet(LAMBDA x : f[x], S)

Chosen(T)     == CHOOSE x \in T : TRUE
Part(f, g, T) == IF T = {} THEN 0 ELSE f[Chosen(T)] + g[T \ {Chosen(T)}]
Parts(f, S)   == CHOOSE g : g = [T \in SUBSET S |-> Part(f, g, T)]


\* Some number of a set of natural numbers is the least.
LEMMA LeastOf ==
    ASSUME NEW T, T \subseteq Nat, T # {}
    PROVE  \E x \in T : \A y \in T : x <= y
<1> DEFINE R == OpToRel(<, Nat)
<1>1. IsWellFoundedOn(R, Nat)
  BY NatLessThanWellFounded
<1>2. \A x, y \in Nat : x < y => <<x, y>> \in R
  BY DEF OpToRel
<1> HIDE DEF R
<1>3. PICK x \in T : \A y \in T : ~(<<y, x>> \in R)
  BY <1>1, WFMin
<1>4. ASSUME NEW y \in T
      PROVE  x <= y
  <2>1. x \in Nat /\ y \in Nat /\ ~(y < x)
    BY <1>2, <1>3, <1>4
  <2> QED
    BY <2>1
<1> QED
  BY <1>4

\* What is left when the chosen element is gone is smaller.
LEMMA ChosenGone ==
    ASSUME NEW S, IsFiniteSet(S), NEW T \in SUBSET S, T # {}
    PROVE  /\ Chosen(T) \in T /\ T \ {Chosen(T)} \in SUBSET S
           /\ Cardinality(T) \in Nat /\ Cardinality(T \ {Chosen(T)}) = Cardinality(T) - 1
<1>1. Chosen(T) \in T
  BY DEF Chosen
<1>2. IsFiniteSet(T)
  BY FS_Subset
<1> QED
  BY <1>1, <1>2, FS_RemoveElement, FS_CardinalityType

\* The equation of the sum is solved as far as sets of n elements.
Solves(g, f, S, n) ==
    /\ g = [T \in SUBSET S |-> g[T]]
    /\ \A T \in SUBSET S : Cardinality(T) <= n => g[T] = Part(f, g, T)
\* What is solved for n is solved for one more.
LEMMA OneFurther ==
    ASSUME NEW f, NEW S, IsFiniteSet(S), NEW n \in Nat, NEW g, Solves(g, f, S, n)
    PROVE  Solves([T \in SUBSET S |-> Part(f, g, T)], f, S, n + 1)
<1> DEFINE h == [T \in SUBSET S |-> Part(f, g, T)]
<1>1. ASSUME NEW T \in SUBSET S, Cardinality(T) <= n + 1
      PROVE  h[T] = Part(f, h, T)
  <2>1. CASE T = {}
    BY <2>1 DEF Part
  <2>2. CASE T # {}
    <3> DEFINE U == T \ {Chosen(T)}
    <3>1. U \in SUBSET S /\ Cardinality(U) <= n
      BY <1>1, <2>2, ChosenGone
    <3>2. g[U] = Part(f, g, U)
      BY <3>1 DEF Solves
    <3>3. h[U] = g[U]
      BY <3>1, <3>2
    <3> QED
      BY <2>2, <3>3 DEF Part
  <2> QED
    BY <2>1, <2>2
<1> QED
  BY <1>1 DEF Solves
\* So the equation has a solution for every finite set.
LEMMA Solved ==
    ASSUME NEW f, NEW S, IsFiniteSet(S)
    PROVE  \E g : g = [T \in SUBSET S |-> Part(f, g, T)]
<1> DEFINE Open == {n \in Nat : ~\E g : Solves(g, f, S, n)}
<1>1. Open = {}
  <2> SUFFICES ASSUME Open # {} PROVE FALSE
    OBVIOUS
  <2>1. PICK n \in Open : \A m \in Open : n <= m
    BY LeastOf
  <2>2. CASE n = 0
    <3> DEFINE z == [T \in SUBSET S |-> 0]
    <3>1. ASSUME NEW T \in SUBSET S, Cardinality(T) <= 0
          PROVE  z[T] = Part(f, z, T)
      <4>1. T = {}
        BY <3>1, FS_Subset, FS_EmptySet, FS_CardinalityType
      <4> QED
        BY <4>1 DEF Part
    <3>2. Solves(z, f, S, 0)
      BY <3>1 DEF Solves
    <3> QED
      BY <2>1, <2>2, <3>2
  <2>3. CASE n # 0
    <3>1. n - 1 \in Nat /\ n - 1 \notin Open
      BY <2>1, <2>3
    <3>2. PICK g : Solves(g, f, S, n - 1)
      BY <3>1
    <3>3. Solves([T \in SUBSET S |-> Part(f, g, T)], f, S, (n - 1) + 1)
      BY <3>1, <3>2, OneFurther
    <3>4. n = (n - 1) + 1
      BY <2>1
    <3> QED
      BY <2>1, <3>3, <3>4
  <2> QED
    BY <2>2, <2>3
<1>2. Cardinality(S) \in Nat
  BY FS_CardinalityType
<1>3. PICK g : Solves(g, f, S, Cardinality(S))
  BY <1>1, <1>2
<1>4. ASSUME NEW T \in SUBSET S
      PROVE  g[T] = Part(f, g, T)
  BY <1>3, <1>4, FS_Subset DEF Solves
<1>5. g = [T \in SUBSET S |-> g[T]]
  BY <1>3 DEF Solves
<1>6. g = [T \in SUBSET S |-> Part(f, g, T)]
  BY <1>4, <1>5
<1> QED
  BY <1>6

\* The sum of a set is what the chosen element has and the sum of the rest.
LEMMA SumIsPart ==
    ASSUME NEW f, NEW S, IsFiniteSet(S)
    PROVE  /\ SumOver(f, S) = Parts(f, S)[S]
           /\ \A T \in SUBSET S : Parts(f, S)[T] = Part(f, Parts(f, S), T)
<1>1. SumOver(f, S) = Parts(f, S)[S]
  BY DEF SumOver, MapThenSumSet, MapThenFoldSet, Parts, Part, Chosen
<1>2. PICK g : g = [T \in SUBSET S |-> Part(f, g, T)]
  BY Solved
<1>3. Parts(f, S) = [T \in SUBSET S |-> Part(f, Parts(f, S), T)]
  BY <1>2 DEF Parts
<1> QED
  BY <1>1, <1>3

\* Whatever holds of the parts of a sum when it holds of the smaller parts,
\* holds of all: if some part fails, so does one with no smaller failing.
LEMMA SmallestPart ==
    ASSUME NEW S, IsFiniteSet(S), NEW Bad \in SUBSET (SUBSET S), Bad # {}
    PROVE  \E T \in Bad : T # {} => T \ {Chosen(T)} \notin Bad
<1> DEFINE Sizes == {Cardinality(T) : T \in Bad}
<1>1. \A T \in Bad : Cardinality(T) \in Nat
  BY FS_Subset, FS_CardinalityType
<1>a. Sizes \subseteq Nat /\ Sizes # {}
  BY <1>1
<1>2. PICK n \in Sizes : \A m \in Sizes : n <= m
  <2> HIDE DEF Sizes
  <2> QED
    BY <1>a, LeastOf
<1>3. PICK T \in Bad : Cardinality(T) = n
  BY <1>2
<1>4. ASSUME T # {}, T \ {Chosen(T)} \in Bad
      PROVE  FALSE
  <2>1. Cardinality(T \ {Chosen(T)}) = n - 1 /\ n \in Nat
    BY <1>3, <1>4, ChosenGone
  <2>2. n <= n - 1
    BY <1>2, <1>4, <2>1
  <2> QED
    BY <2>1, <2>2
<1> QED
  BY <1>4

\* A sum of integers is an integer.
LEMMA PartsAreNumbers ==
    ASSUME NEW S, IsFiniteSet(S), NEW f \in [S -> Int]
    PROVE  \A T \in SUBSET S : Parts(f, S)[T] \in Int
<1> DEFINE Bad == {T \in SUBSET S : Parts(f, S)[T] \notin Int}
<1> SUFFICES ASSUME Bad # {} PROVE FALSE
  OBVIOUS
<1>1. PICK T \in Bad : T # {} => T \ {Chosen(T)} \notin Bad
  BY SmallestPart
<1>2. Parts(f, S)[T] = Part(f, Parts(f, S), T)
  BY SumIsPart
<1>3. T # {}
  BY <1>1, <1>2 DEF Part
<1>4. Chosen(T) \in S /\ Parts(f, S)[T \ {Chosen(T)}] \in Int
  BY <1>1, <1>3, ChosenGone
<1>5. f[Chosen(T)] + Parts(f, S)[T \ {Chosen(T)}] \in Int
  BY <1>4
<1> QED
  BY <1>1, <1>2, <1>3, <1>5 DEF Part

\* A sum of numbers over a finite set is a number, and not some value left open by the
\* fold.
THEOREM SumIsNumber ==
    ASSUME NEW S, IsFiniteSet(S), NEW f \in [S -> Int]
    PROVE  SumOver(f, S) \in Int
BY SumIsPart, PartsAreNumbers

\* A sum of naturals is a natural.
THEOREM SumIsNatural ==
    ASSUME NEW S, IsFiniteSet(S), NEW f \in [S -> Nat]
    PROVE  SumOver(f, S) >= 0
<1> DEFINE Bad == {T \in SUBSET S : ~(Parts(f, S)[T] >= 0)}
<1>1. Bad = {}
  <2> SUFFICES ASSUME Bad # {} PROVE FALSE
    OBVIOUS
  <2>1. PICK T \in Bad : T # {} => T \ {Chosen(T)} \notin Bad
    BY SmallestPart
  <2>2. Parts(f, S)[T] = Part(f, Parts(f, S), T)
    BY SumIsPart
  <2>3. T # {}
    BY <2>1, <2>2 DEF Part
  <2>4. Chosen(T) \in S /\ T \ {Chosen(T)} \in SUBSET S
    BY <2>1, <2>3, ChosenGone
  <2>5. f \in [S -> Int]
    OBVIOUS
  <2>6. Parts(f, S)[T \ {Chosen(T)}] \in Int /\ Parts(f, S)[T \ {Chosen(T)}] >= 0
    BY <2>1, <2>3, <2>4, <2>5, PartsAreNumbers
  <2>7. f[Chosen(T)] + Parts(f, S)[T \ {Chosen(T)}] >= 0
    BY <2>4, <2>6
  <2> QED
    BY <2>1, <2>2, <2>3, <2>7 DEF Part
<1> QED
  BY <1>1, SumIsPart

\* A sum of nothing but zeros is zero.
THEOREM SumOfZeros ==
    ASSUME NEW S, IsFiniteSet(S), NEW f, \A x \in S : f[x] = 0
    PROVE  SumOver(f, S) = 0
<1> DEFINE Bad == {T \in SUBSET S : Parts(f, S)[T] # 0}
<1>1. Bad = {}
  <2> SUFFICES ASSUME Bad # {} PROVE FALSE
    OBVIOUS
  <2>1. PICK T \in Bad : T # {} => T \ {Chosen(T)} \notin Bad
    BY SmallestPart
  <2>2. Parts(f, S)[T] = Part(f, Parts(f, S), T)
    BY SumIsPart
  <2>3. T # {}
    BY <2>1, <2>2 DEF Part
  <2>4. f[Chosen(T)] = 0 /\ Parts(f, S)[T \ {Chosen(T)}] = 0
    BY <2>1, <2>3, ChosenGone
  <2> QED
    BY <2>1, <2>2, <2>3, <2>4 DEF Part
<1> QED
  BY <1>1, SumIsPart

\* When one value changes, the sum changes by as much.
THEOREM SumOfOneChanged ==
    ASSUME NEW S, IsFiniteSet(S), NEW f \in [S -> Int], NEW g \in [S -> Int],
           NEW x \in S, \A y \in S \ {x} : g[y] = f[y]
    PROVE  SumOver(g, S) = SumOver(f, S) + (g[x] - f[x])
<1> DEFINE F == Parts(f, S)
           G == Parts(g, S)
           Bad == {T \in SUBSET S : G[T] # F[T] + (IF x \in T THEN g[x] - f[x] ELSE 0)}
<1>1. Bad = {}
  <2> SUFFICES ASSUME Bad # {} PROVE FALSE
    OBVIOUS
  <2>1. PICK T \in Bad : T # {} => T \ {Chosen(T)} \notin Bad
    BY SmallestPart
  <2>2. F[T] = Part(f, F, T) /\ G[T] = Part(g, G, T)
    BY SumIsPart
  <2> HIDE DEF F, G
  <2>3. T # {}
    BY <2>1, <2>2 DEF Part
  <2> DEFINE y == Chosen(T)
             U == T \ {y}
  <2>4. y \in T /\ y \in S /\ U \in SUBSET S /\ U \notin Bad
    BY <2>1, <2>3, ChosenGone
  <2>5. F[T] = f[y] + F[U] /\ G[T] = g[y] + G[U]
    BY <2>2, <2>3 DEF Part
  <2>6. G[U] = F[U] + (IF x \in U THEN g[x] - f[x] ELSE 0)
    BY <2>4
  <2>7. F[U] \in Int /\ f[x] \in Int /\ g[x] \in Int /\ f[y] \in Int /\ g[y] \in Int
    BY <2>4, PartsAreNumbers DEF F
  <2> HIDE DEF y
  <2>8. CASE x = y
    <3>1. x \in T /\ x \notin U
      BY <2>4, <2>8
    <3>2. G[T] = F[T] + (g[x] - f[x])
      BY <2>5, <2>6, <2>7, <2>8, <3>1
    <3> QED
      BY <2>1, <3>1, <3>2
  <2>9. CASE x # y
    <3>1. (x \in U) <=> (x \in T)
      BY <2>9
    <3>2. g[y] = f[y]
      BY <2>4, <2>9
    <3>3. G[T] = F[T] + (IF x \in T THEN g[x] - f[x] ELSE 0)
      BY <2>5, <2>6, <2>7, <3>1, <3>2
    <3> QED
      BY <2>1, <3>3
  <2> QED
    BY <2>8, <2>9
<1>2. G[S] = F[S] + (g[x] - f[x])
  BY <1>1
<1> QED
  BY <1>2, SumIsPart
=============================================================================
