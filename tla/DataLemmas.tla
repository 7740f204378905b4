----------------------------- MODULE DataLemmas ----------------------------
(***************************************************************************)
(* The data the models compute with: sums over finite sets, as they follow *)
(* their terms, and the array heaps of MinHeap, whose operations rearrange *)
(* the slots and keep them ordered.  The library's induction theorems take *)
(* an operator; the two inductions here are over a set instead, and rest   *)
(* on the least element of a set of natural numbers.                       *)
(***************************************************************************)
EXTENDS Integers, FiniteSets, Functions, MinHeap, FiniteSetTheorems,
        WellFoundedInduction, TLAPS

\* A nonempty set of natural numbers has a least element.
LEMMA LeastElement ==
  ASSUME NEW T \in SUBSET Nat, T # {}
  PROVE  \E m \in T : \A n \in T : m <= n
<1> DEFINE R == {p \in Nat \X Nat : p[1] < p[2]}
<1>1. IsWellFoundedOn(R, Nat)
  BY NatLessThanWellFounded, Zenon DEF OpToRel
<1>2. \A m, n \in Nat : <<n, m>> \in R <=> n < m
  BY Zenon
<1>3. PICK m \in T : \A n \in T : ~(<<n, m>> \in R)
  <2> HIDE DEF R
  <2>1. QED
    BY <1>1, WFMin, Zenon
<1>4. \A n \in T : ~(n < m)
  BY <1>2, <1>3, Zenon
<1>5. QED
  BY <1>4

\* Induction over the natural numbers, for a set instead of a predicate.
LEMMA NatSetInduction ==
  ASSUME NEW W \in SUBSET Nat, 0 \in W, \A n \in W : n + 1 \in W
  PROVE  W = Nat
<1>1. SUFFICES ASSUME Nat \ W # {} PROVE FALSE
  OBVIOUS
<1>2. PICK m \in Nat \ W : \A n \in Nat \ W : m <= n
  BY <1>1, LeastElement
<1>3. m # 0 /\ m - 1 \in Nat
  BY <1>2
<1>4. m - 1 \in W
  BY <1>2, <1>3
<1>5. QED
  BY <1>2, <1>4

\* Induction over the subsets of a finite set, one element at a time.
LEMMA SubsetInduction ==
  ASSUME NEW S, IsFiniteSet(S), NEW W \in SUBSET (SUBSET S),
         {} \in W,
         \A T \in SUBSET S : \A x \in T : T \ {x} \in W => T \in W
  PROVE  W = SUBSET S
<1> DEFINE V == {n \in Nat : \A T \in SUBSET S : Cardinality(T) = n => T \in W}
<1>0. \A T \in SUBSET S : IsFiniteSet(T) /\ Cardinality(T) \in Nat
  BY FS_Subset, FS_CardinalityType
<1>1. 0 \in V
  BY <1>0, FS_EmptySet
<1>2. ASSUME NEW n \in V PROVE n + 1 \in V
  <2>1. SUFFICES ASSUME NEW T \in SUBSET S, Cardinality(T) = n + 1 PROVE T \in W
    OBVIOUS
  <2>2. PICK x : x \in T
    BY <1>0, <2>1, FS_EmptySet
  <2>3. Cardinality(T \ {x}) = n /\ T \ {x} \in SUBSET S
    BY <1>0, <2>1, <2>2, FS_RemoveElement
  <2>4. QED
    BY <2>2, <2>3
<1>3. V = Nat
  <2> HIDE DEF V
  <2>1. V \in SUBSET Nat
    BY DEF V
  <2>2. QED
    BY <1>1, <1>2, <2>1, NatSetInduction
<1>4. QED
  BY <1>0, <1>3

-----------------------------------------------------------------------------
(* SumFunctionOnSet                                                        *)

\* g sums f over every subset of S, taking the elements in the order of the
\* fold.
Sums(g, f, S) ==
  g = [T \in SUBSET S |->
         IF T = {} THEN 0
         ELSE f[CHOOSE x \in T : TRUE] + g[T \ {CHOOSE x \in T : TRUE}]]

\* The sums exist, so that the fold computes them.
LEMMA SumsExist ==
  ASSUME NEW S, IsFiniteSet(S), NEW f
  PROVE  \E g : Sums(g, f, S)
<1> DEFINE c(T) == CHOOSE x \in T : TRUE
           Sub(n) == {T \in SUBSET S : Cardinality(T) <= n}
           Upto(g, n) == g = [T \in Sub(n) |-> IF T = {} THEN 0 ELSE f[c(T)] + g[T \ {c(T)}]]
           V == {n \in Nat : \E g : Upto(g, n)}
<1>0. \A T \in SUBSET S : IsFiniteSet(T) /\ Cardinality(T) \in Nat
  BY FS_Subset, FS_CardinalityType
<1>1. \A T \in SUBSET S : T # {} =>
        /\ c(T) \in T /\ T \ {c(T)} \in SUBSET S
        /\ Cardinality(T \ {c(T)}) = Cardinality(T) - 1
  BY <1>0, FS_RemoveElement
<1>2. 0 \in V
  <2>1. \A T \in Sub(0) : T = {}
    BY <1>0, FS_EmptySet
  <2>2. Upto([T \in Sub(0) |-> 0], 0)
    BY <2>1
  <2>3. QED
    BY <2>2
<1>3. ASSUME NEW n \in V PROVE n + 1 \in V
  <2>1. PICK g : Upto(g, n)
    OBVIOUS
  <2> DEFINE h == [T \in Sub(n + 1) |-> IF T = {} THEN 0 ELSE f[c(T)] + g[T \ {c(T)}]]
  <2>2. \A T \in Sub(n) : h[T] = g[T]
    <3> SUFFICES ASSUME NEW T \in Sub(n) PROVE h[T] = g[T]
      OBVIOUS
    <3>1. T \in Sub(n + 1)
      BY <1>0
    <3>2. g[T] = IF T = {} THEN 0 ELSE f[c(T)] + g[T \ {c(T)}]
      BY <2>1
    <3>3. QED
      BY <3>1, <3>2
  <2>3. \A T \in Sub(n + 1) : T # {} => T \ {c(T)} \in Sub(n)
    BY <1>0, <1>1
  <2>4. \A T \in Sub(n + 1) : T # {} => h[T \ {c(T)}] = g[T \ {c(T)}]
    BY <2>2, <2>3
  <2>5. \A T \in Sub(n + 1) : h[T] = IF T = {} THEN 0 ELSE f[c(T)] + h[T \ {c(T)}]
    <3> HIDE DEF c, Sub
    <3>1. \A T \in Sub(n + 1) : h[T] = IF T = {} THEN 0 ELSE f[c(T)] + g[T \ {c(T)}]
      OBVIOUS
    <3> HIDE DEF h
    <3>2. QED
      BY <2>4, <3>1
  <2>6. \E h1 : Upto(h1, n + 1)
    <3>1. h = [T \in Sub(n + 1) |-> h[T]]
      OBVIOUS
    <3> HIDE DEF h, c, Sub
    <3>2. h = [T \in Sub(n + 1) |-> IF T = {} THEN 0 ELSE f[c(T)] + h[T \ {c(T)}]]
      BY <2>5, <3>1
    <3>3. QED
      BY <3>2
  <2>7. n + 1 \in Nat
    OBVIOUS
  <2> HIDE DEF Upto
  <2>8. QED
    BY <2>6, <2>7
<1>4. Cardinality(S) \in V
  <2> HIDE DEF V
  <2>1. V \in SUBSET Nat
    BY DEF V
  <2>2. V = Nat
    BY <1>2, <1>3, <2>1, NatSetInduction
  <2>3. QED
    BY <1>0, <2>2
<1>5. Sub(Cardinality(S)) = SUBSET S
  BY <1>0, FS_Subset
<1>6. QED
  BY <1>4, <1>5 DEF Sums

\* The order of the elements does not matter.
LEMMA SumsRemove ==
  ASSUME NEW S, IsFiniteSet(S), NEW f, \A x \in S : f[x] \in Int,
         NEW g, Sums(g, f, S)
  PROVE  \A T \in SUBSET S :
           g[T] \in Int /\ \A x \in T : g[T] = f[x] + g[T \ {x}]
<1> DEFINE c(T) == CHOOSE x \in T : TRUE
           Good(T) == g[T] \in Int /\ \A x \in T : g[T] = f[x] + g[T \ {x}]
           V == {n \in Nat : \A T \in SUBSET S : Cardinality(T) <= n => Good(T)}
<1>0. \A T \in SUBSET S : IsFiniteSet(T) /\ Cardinality(T) \in Nat
  BY FS_Subset, FS_CardinalityType
<1>1. g[{}] = 0 /\ \A T \in SUBSET S : T # {} => g[T] = f[c(T)] + g[T \ {c(T)}]
  BY DEF Sums
<1>2. \A T \in SUBSET S : T # {} => c(T) \in T
  OBVIOUS
<1>3. \A T \in SUBSET S : \A x \in T :
        T \ {x} \in SUBSET S /\ Cardinality(T \ {x}) = Cardinality(T) - 1
  BY <1>0, FS_RemoveElement
<1> HIDE DEF c
<1>4. 0 \in V
  <2>1. \A T \in SUBSET S : Cardinality(T) <= 0 => T = {}
    BY <1>0, FS_EmptySet
  <2>2. Good({})
    BY <1>1
  <2> HIDE DEF Good
  <2>3. QED
    BY <2>1, <2>2
<1>5. ASSUME NEW n \in V PROVE n + 1 \in V
  <2>1. SUFFICES ASSUME NEW T \in SUBSET S, Cardinality(T) <= n + 1, T # {}
                 PROVE  Good(T)
    <3>1. Good({}) /\ n + 1 \in Nat
      BY <1>1
    <3> HIDE DEF Good
    <3>2. QED
      BY <3>1
  <2> DEFINE y == c(T)
  <2>2. y \in T /\ g[T] = f[y] + g[T \ {y}] /\ f[y] \in Int
    BY <1>1, <1>2, <2>1
  <2>3. \A x \in T : T \ {x} \in SUBSET S /\ Cardinality(T \ {x}) <= n
    BY <1>0, <1>3, <2>1
  <2> HIDE DEF y
  <2>4. \A x \in T : Good(T \ {x})
    BY <2>3
  <2>5. ASSUME NEW x \in T, x # y PROVE g[T] = f[x] + g[T \ {x}]
    <3>1. g[T \ {y}] = f[x] + g[(T \ {y}) \ {x}]
      BY <2>2, <2>4, <2>5
    <3>2. g[T \ {x}] = f[y] + g[(T \ {x}) \ {y}]
      BY <2>2, <2>4, <2>5
    <3>3. (T \ {y}) \ {x} = (T \ {x}) \ {y}
      OBVIOUS
    <3>4. g[T \ {y}] \in Int /\ g[T \ {x}] \in Int
      BY <2>2, <2>4
    <3>5. y \in T \ {x} /\ T \ {x} \in SUBSET S
      BY <2>2, <2>3, <2>5
    <3>6. (T \ {x}) \ {y} \in SUBSET S /\ Cardinality((T \ {x}) \ {y}) <= n
      <4>1. Cardinality((T \ {x}) \ {y}) = Cardinality(T \ {x}) - 1
        BY <1>3, <3>5
      <4>2. Cardinality(T \ {x}) \in Nat /\ Cardinality(T \ {x}) <= n /\ n \in Nat
        BY <1>0, <2>3, <3>5
      <4>3. QED
        BY <4>1, <4>2
    <3>8. g[(T \ {x}) \ {y}] \in Int /\ f[x] \in Int
      BY <3>6
    <3> DEFINE z == g[(T \ {x}) \ {y}]
    <3>7. g[T \ {y}] = f[x] + z /\ g[T \ {x}] = f[y] + z
      BY <3>1, <3>2, <3>3
    <3>9. z \in Int /\ f[x] \in Int
      BY <3>8
    <3> HIDE DEF z
    <3>10. QED
      BY <2>2, <3>7, <3>9
  <2>6. g[T] \in Int
    <3>1. g[T \ {y}] \in Int
      BY <2>2, <2>4
    <3>2. QED
      BY <2>2, <3>1
  <2>7. QED
    BY <2>2, <2>5, <2>6
<1>6. V = Nat
  <2> HIDE DEF V
  <2>1. V \in SUBSET Nat
    BY DEF V
  <2>2. QED
    BY <1>4, <1>5, <2>1, NatSetInduction
<1>7. QED
  <2>1. SUFFICES ASSUME NEW T \in SUBSET S PROVE Good(T)
    OBVIOUS
  <2>2. Cardinality(T) \in V
    BY <1>0, <1>6
  <2>3. QED
    BY <1>0, <2>2

\* A sum over a subset is the same whatever set the fold started from.
LEMMA SumsAgree ==
  ASSUME NEW S, IsFiniteSet(S), NEW f, NEW g, Sums(g, f, S),
         NEW T \in SUBSET S, NEW h, Sums(h, f, T)
  PROVE  g[T] = h[T]
<1> DEFINE W == {U \in SUBSET T : g[U] = h[U]}
           c(U) == CHOOSE x \in U : TRUE
           V == {n \in Nat : \A U \in SUBSET T : Cardinality(U) = n => g[U] = h[U]}
<1>0. \A U \in SUBSET S : IsFiniteSet(U) /\ Cardinality(U) \in Nat
  BY FS_Subset, FS_CardinalityType
<1>1. g[{}] = 0 /\ \A U \in SUBSET S : U # {} => g[U] = f[c(U)] + g[U \ {c(U)}]
  BY DEF Sums
<1>2. h[{}] = 0 /\ \A U \in SUBSET T : U # {} => h[U] = f[c(U)] + h[U \ {c(U)}]
  BY DEF Sums
<1>3. \A U \in SUBSET T : U # {} =>
        U \ {c(U)} \in SUBSET T /\ Cardinality(U \ {c(U)}) = Cardinality(U) - 1
  BY <1>0, FS_RemoveElement
<1> HIDE DEF c
<1>4. 0 \in V
  BY <1>0, <1>1, <1>2, FS_EmptySet
<1>5. ASSUME NEW n \in V PROVE n + 1 \in V
  <2>1. SUFFICES ASSUME NEW U \in SUBSET T, Cardinality(U) = n + 1 PROVE g[U] = h[U]
    OBVIOUS
  <2>2. U # {}
    BY <2>1, FS_EmptySet
  <2>3. g[U \ {c(U)}] = h[U \ {c(U)}]
    BY <1>3, <2>1, <2>2
  <2>4. QED
    BY <1>1, <1>2, <2>2, <2>3
<1>6. V = Nat
  <2> HIDE DEF V
  <2>1. V \in SUBSET Nat
    BY DEF V
  <2>2. QED
    BY <1>4, <1>5, <2>1, NatSetInduction
<1>7. Cardinality(T) \in V
  BY <1>0, <1>6
<1>8. QED
  BY <1>7

LEMMA FoldSums ==
  ASSUME NEW S, IsFiniteSet(S), NEW f
  PROVE  \E g : Sums(g, f, S) /\ SumFunctionOnSet(f, S) = g[S]
<1>1. \E g : Sums(g, f, S)
  BY SumsExist
<1>2. QED
  BY <1>1 DEF Sums, SumFunctionOnSet, FoldFunctionOnSet, MapThenFoldSet

-----------------------------------------------------------------------------
(* What the models' proofs use                                             *)

Sum(f, S) == SumFunctionOnSet(f, S)

LEMMA SumStep ==
  ASSUME NEW S, IsFiniteSet(S), NEW f, \A x \in S : f[x] \in Int
  PROVE  /\ Sum(f, S) \in Int
         /\ \A x \in S : Sum(f, S) = f[x] + Sum(f, S \ {x})
<1>1. PICK g : Sums(g, f, S) /\ Sum(f, S) = g[S]
  BY FoldSums DEF Sum
<1>2. g[S] \in Int /\ \A x \in S : g[S] = f[x] + g[S \ {x}]
  BY <1>1, SumsRemove
<1>3. ASSUME NEW x \in S PROVE g[S \ {x}] = Sum(f, S \ {x})
  <2>1. IsFiniteSet(S \ {x})
    BY FS_RemoveElement
  <2>2. PICK h : Sums(h, f, S \ {x}) /\ Sum(f, S \ {x}) = h[S \ {x}]
    BY <2>1, FoldSums DEF Sum
  <2>3. S \ {x} \in SUBSET S
    OBVIOUS
  <2>4. QED
    BY <1>1, <2>2, <2>3, SumsAgree
<1>4. QED
  BY <1>1, <1>2, <1>3

LEMMA SumEmpty == \A f : Sum(f, {}) = 0
<1> TAKE f
<1>1. PICK g : Sums(g, f, {}) /\ Sum(f, {}) = g[{}]
  BY FS_EmptySet, FoldSums DEF Sum
<1>2. QED
  BY <1>1 DEF Sums

\* Larger terms, larger sum.
LEMMA SumMonotonic ==
  ASSUME NEW S, IsFiniteSet(S), NEW f, NEW g,
         \A x \in S : f[x] \in Int /\ g[x] \in Int /\ f[x] <= g[x]
  PROVE  Sum(f, S) <= Sum(g, S)
<1> DEFINE W == {T \in SUBSET S : Sum(f, T) <= Sum(g, T)}
<1>1. {} \in W
  BY SumEmpty
<1>2. ASSUME NEW T \in SUBSET S, NEW x \in T, T \ {x} \in W PROVE T \in W
  <2>1. IsFiniteSet(T) /\ IsFiniteSet(T \ {x})
    BY FS_Subset, FS_RemoveElement
  <2>2. Sum(f, T) = f[x] + Sum(f, T \ {x}) /\ Sum(f, T \ {x}) \in Int
    BY <2>1, SumStep
  <2>3. Sum(g, T) = g[x] + Sum(g, T \ {x}) /\ Sum(g, T \ {x}) \in Int
    BY <2>1, SumStep
  <2>4. f[x] \in Int /\ g[x] \in Int /\ f[x] <= g[x]
    OBVIOUS
  <2>5. QED
    BY <1>2, <2>2, <2>3, <2>4
<1>3. W = SUBSET S
  <2> HIDE DEF W
  <2>1. W \in SUBSET (SUBSET S)
    BY DEF W
  <2>2. QED
    BY <1>1, <1>2, <2>1, SubsetInduction
<1>4. QED
  BY <1>3

\* The sum of the sums of the terms.
LEMMA SumAdd ==
  ASSUME NEW S, IsFiniteSet(S), NEW f, NEW g, NEW h,
         \A x \in S : f[x] \in Int /\ g[x] \in Int /\ h[x] = f[x] + g[x]
  PROVE  Sum(h, S) = Sum(f, S) + Sum(g, S)
<1> DEFINE W == {T \in SUBSET S : Sum(h, T) = Sum(f, T) + Sum(g, T)}
<1>1. {} \in W
  BY SumEmpty
<1>2. ASSUME NEW T \in SUBSET S, NEW x \in T, T \ {x} \in W PROVE T \in W
  <2>1. IsFiniteSet(T) /\ IsFiniteSet(T \ {x})
    BY FS_Subset, FS_RemoveElement
  <2>2. Sum(f, T) = f[x] + Sum(f, T \ {x}) /\ Sum(f, T \ {x}) \in Int
    BY <2>1, SumStep
  <2>3. Sum(g, T) = g[x] + Sum(g, T \ {x}) /\ Sum(g, T \ {x}) \in Int
    BY <2>1, SumStep
  <2>4. f[x] \in Int /\ g[x] \in Int /\ h[x] = f[x] + g[x] /\ h[x] \in Int
    OBVIOUS
  <2>5. Sum(h, T) = h[x] + Sum(h, T \ {x}) /\ Sum(h, T \ {x}) \in Int
    BY <2>1, SumStep
  <2>6. Sum(h, T \ {x}) = Sum(f, T \ {x}) + Sum(g, T \ {x})
    BY <1>2
  <2>7. QED
    BY <2>2, <2>3, <2>4, <2>5, <2>6
<1>3. W = SUBSET S
  <2> HIDE DEF W
  <2>1. W \in SUBSET (SUBSET S)
    BY DEF W
  <2>2. QED
    BY <1>1, <1>2, <2>1, SubsetInduction
<1>4. QED
  BY <1>3

\* The sum of a constant over a subset.
LEMMA SumConstant ==
  ASSUME NEW S, IsFiniteSet(S), NEW d \in Int, NEW f, NEW T \in SUBSET S,
         \A x \in S : f[x] = IF x \in T THEN d ELSE 0
  PROVE  Sum(f, S) = d * Cardinality(T)
<1> DEFINE W == {U \in SUBSET S : Sum(f, U) = d * Cardinality(T \cap U)}
<1>0. \A A : IsFiniteSet(A) =>
        /\ Cardinality(A) \in Nat
        /\ \A y \in A : Cardinality(A \ {y}) = Cardinality(A) - 1
  BY FS_CardinalityType, FS_RemoveElement
<1>1. {} \in W
  <2>1. Sum(f, {}) = 0 /\ Cardinality(T \cap {}) = 0
    BY SumEmpty, FS_EmptySet
  <2>2. QED
    BY <2>1
<1>2. ASSUME NEW U \in SUBSET S, NEW x \in U, U \ {x} \in W PROVE U \in W
  <2>1. IsFiniteSet(U) /\ IsFiniteSet(T \cap U)
    BY FS_Subset
  <2>2. \A y \in U : f[y] \in Int
    OBVIOUS
  <2>3. Sum(f, U) = f[x] + d * Cardinality(T \cap (U \ {x}))
    BY <1>2, <2>1, <2>2, SumStep
  <2>4. CASE x \in T
    <3>1. T \cap (U \ {x}) = (T \cap U) \ {x} /\ x \in T \cap U
      BY <2>4
    <3>2. /\ Cardinality(T \cap (U \ {x})) = Cardinality(T \cap U) - 1
          /\ Cardinality(T \cap U) \in Nat
      BY <1>0, <2>1, <3>1
    <3>3. f[x] = d
      BY <2>4
    <3>4. \A n \in Nat : d + d * (n - 1) = d * n
      OBVIOUS
    <3>5. QED
      BY <2>3, <3>2, <3>3, <3>4
  <2>5. CASE x \notin T
    <3>1. T \cap (U \ {x}) = T \cap U /\ f[x] = 0
      BY <2>5
    <3> DEFINE p == d * Cardinality(T \cap U)
    <3>2. p \in Int
      BY <1>0, <2>1
    <3>3. Sum(f, U) = 0 + p
      BY <2>3, <3>1
    <3> HIDE DEF p
    <3>4. Sum(f, U) = p
      BY <3>2, <3>3
    <3>5. QED
      BY <3>4 DEF p
  <2>6. QED
    BY <2>4, <2>5
<1>3. W = SUBSET S
  <2> HIDE DEF W
  <2>1. W \in SUBSET (SUBSET S)
    BY DEF W
  <2>2. QED
    BY <1>1, <1>2, <2>1, SubsetInduction
<1>4. T \cap S = T
  OBVIOUS
<1>5. QED
  BY <1>3, <1>4

\* What a sum loses when each term of a subset T loses d.
LEMMA SumDrop ==
  ASSUME NEW S, IsFiniteSet(S), NEW d \in Int, NEW T \in SUBSET S, NEW f, NEW g,
         \A x \in S : /\ f[x] \in Int /\ g[x] \in Int
                      /\ f[x] + (IF x \in T THEN d ELSE 0) <= g[x]
  PROVE  Sum(f, S) + d * Cardinality(T) <= Sum(g, S)
<1> DEFINE e == [x \in S |-> IF x \in T THEN d ELSE 0]
           h == [x \in S |-> f[x] + e[x]]
<1>1. \A x \in S : e[x] = (IF x \in T THEN d ELSE 0) /\ e[x] \in Int
  OBVIOUS
<1>2. \A x \in S : h[x] = f[x] + e[x] /\ h[x] \in Int /\ h[x] <= g[x]
  OBVIOUS
<1> HIDE DEF e, h
<1>3. Sum(h, S) = Sum(f, S) + Sum(e, S)
  BY <1>1, <1>2, SumAdd
<1>4. Sum(e, S) = d * Cardinality(T)
  BY <1>1, SumConstant
<1>5. Sum(h, S) <= Sum(g, S)
  BY <1>2, SumMonotonic
<1>6. QED
  BY <1>3, <1>4, <1>5

\* A sum in which one term has changed.
Raised(g, f, S, x, d) == \A y \in S : g[y] = IF y = x THEN f[y] + d ELSE f[y]

LEMMA SumIncrement ==
  ASSUME NEW S, IsFiniteSet(S), NEW x \in S, NEW d \in Int,
         NEW f, \A y \in S : f[y] \in Int,
         NEW g, Raised(g, f, S, x, d)
  PROVE  Sum(g, S) = Sum(f, S) + d
<1>0. \A y \in S : g[y] = IF y = x THEN f[y] + d ELSE f[y]
  BY DEF Raised
<1>1. IsFiniteSet(S \ {x}) /\ \A y \in S : g[y] \in Int
  BY <1>0, FS_RemoveElement
<1>2. Sum(f, S \ {x}) \in Int /\ Sum(g, S \ {x}) \in Int
  BY <1>1, SumStep
<1>3. /\ Sum(f, S \ {x}) <= Sum(g, S \ {x})
      /\ Sum(g, S \ {x}) <= Sum(f, S \ {x})
  BY <1>0, <1>1, SumMonotonic
<1>4. /\ Sum(f, S) = f[x] + Sum(f, S \ {x})
      /\ Sum(g, S) = g[x] + Sum(g, S \ {x})
  BY <1>1, SumStep
<1>5. g[x] = f[x] + d /\ f[x] \in Int
  BY <1>0
<1>6. QED
  BY <1>2, <1>3, <1>4, <1>5

-----------------------------------------------------------------------------
(* The least and the greatest element                                      *)

LEMMA MinIsLeast ==
  ASSUME NEW S \in SUBSET Nat, S # {}
  PROVE  Min(S) \in S /\ \A y \in S : Min(S) <= y
<1>1. PICK m \in S : \A y \in S : m <= y
  BY LeastElement
<1>2. QED
  BY <1>1 DEF Min

LEMMA MaxIsGreatest ==
  ASSUME NEW n \in Nat, NEW S \in SUBSET (1 .. n), S # {}
  PROVE  Max(S) \in S /\ \A y \in S : y <= Max(S)
<1> DEFINE T == {n - y : y \in S}
<1>1. T \in SUBSET Nat /\ T # {}
  <2>1. \A y \in S : n - y \in Nat
    OBVIOUS
  <2>2. PICK y \in S : TRUE
    OBVIOUS
  <2>3. QED
    BY <2>1, <2>2
<1>2. PICK m \in T : \A y \in T : m <= y
  <2> HIDE DEF T
  <2>1. QED
    BY <1>1, LeastElement
<1>3. PICK x \in S : m = n - x
  BY <1>2
<1>4. \A y \in S : y <= x
  <2>1. SUFFICES ASSUME NEW y \in S PROVE y <= x
    OBVIOUS
  <2>2. n - y \in T
    OBVIOUS
  <2>3. m <= n - y
    BY <1>2, <2>2
  <2>4. QED
    BY <1>3, <2>3
<1>5. \A y \in S : x >= y
  BY <1>4
<1>6. Max(S) \in S /\ \A y \in S : Max(S) >= y
  BY <1>5 DEF Max
<1>7. QED
  BY <1>6

-----------------------------------------------------------------------------
(* The slots above a slot of a heap                                        *)

\* The slots above i, as a smallest set: what the recursion of Chain yields.
Ancestors(i) ==
  {j \in 1 .. i : \A S \in SUBSET (1 .. i) :
     i \in S /\ (\A k \in S : k > 1 => k \div 2 \in S) => j \in S}

LEMMA AncestorsClosed ==
  ASSUME NEW i \in Nat \ {0}
  PROVE  /\ i \in Ancestors(i) /\ Ancestors(i) \in SUBSET (1 .. i)
         /\ \A k \in Ancestors(i) : k > 1 => k \div 2 \in Ancestors(i)
<1>1. i \in 1 .. i
  OBVIOUS
<1>2. ASSUME NEW k \in Ancestors(i), k > 1 PROVE k \div 2 \in Ancestors(i)
  <2>1. k \in 1 .. i /\ k \div 2 \in 1 .. i
    BY <1>2 DEF Ancestors
  <2>2. QED
    BY <1>2, <2>1 DEF Ancestors
<1>3. QED
  BY <1>1, <1>2 DEF Ancestors

LEMMA AncestorsStep ==
  ASSUME NEW i \in Nat \ {0}
  PROVE  Ancestors(i) = IF i = 1 THEN {1} ELSE {i} \cup Ancestors(i \div 2)
<1>1. CASE i = 1
  BY <1>1, AncestorsClosed
<1>2. CASE i # 1
  <2>1. PICK p \in Nat \ {0} : p = i \div 2 /\ p < i
    BY <1>2
  <2>2. Ancestors(i) \subseteq {i} \cup Ancestors(p)
    <3>1. PICK S : S = {i} \cup Ancestors(p)
      OBVIOUS
    <3>2. /\ p \in Ancestors(p) /\ Ancestors(p) \in SUBSET (1 .. p)
          /\ \A k \in Ancestors(p) : k > 1 => k \div 2 \in Ancestors(p)
      BY AncestorsClosed
    <3>3. S \in SUBSET (1 .. i) /\ i \in S /\ \A k \in S : k > 1 => k \div 2 \in S
      BY <2>1, <3>1, <3>2
    <3>4. QED
      BY <3>1, <3>3 DEF Ancestors
  <2>3. ASSUME NEW j \in Ancestors(p), NEW S \in SUBSET (1 .. i), i \in S,
               \A k \in S : k > 1 => k \div 2 \in S
        PROVE  j \in S
    <3>1. PICK R : R = S \cap (1 .. p)
      OBVIOUS
    <3>2. p \in R
      BY <1>2, <2>1, <2>3, <3>1
    <3>3. \A k \in R : k > 1 => k \div 2 \in R
      <4>1. ASSUME NEW k \in R, k > 1 PROVE k \div 2 \in R
        <5>1. k \in S /\ k \in 1 .. p /\ k \div 2 \in S
          BY <2>3, <3>1, <4>1
        <5>2. k \div 2 \in 1 .. p
          BY <5>1, <4>1
        <5>3. QED
          BY <3>1, <5>1, <5>2
      <4>2. QED
        BY <4>1
    <3>4. R \in SUBSET (1 .. p)
      BY <3>1
    <3>5. j \in R
      BY <2>3, <3>2, <3>3, <3>4 DEF Ancestors
    <3>6. QED
      BY <3>1, <3>5
  <2>4. Ancestors(p) \in SUBSET (1 .. i)
    <3>1. Ancestors(p) \in SUBSET (1 .. p)
      BY AncestorsClosed
    <3>2. QED
      BY <2>1, <3>1
  <2>5. Ancestors(p) \subseteq Ancestors(i)
    BY <2>3, <2>4 DEF Ancestors
  <2>6. QED
    BY <1>2, <2>1, <2>2, <2>5, AncestorsClosed
<1>3. QED
  BY <1>1, <1>2

LEMMA ChainEquation ==
  ASSUME NEW i \in Nat \ {0}
  PROVE  Chain[i] = IF i = 1 THEN {1} ELSE {i} \cup Chain[i \div 2]
<1> DEFINE D == Nat \ {0}
           Fits(f) == f = [j \in D |-> IF j = 1 THEN {1} ELSE {j} \cup f[j \div 2]]
           g == [j \in D |-> Ancestors(j)]
<1>1. Fits(g)
  <2>1. ASSUME NEW j \in D
        PROVE  Ancestors(j) = IF j = 1 THEN {1} ELSE {j} \cup g[j \div 2]
    <3>1. CASE j = 1
      BY <3>1, AncestorsStep
    <3>2. CASE j # 1
      <4>1. j \div 2 \in D
        BY <3>2
      <4>2. g[j \div 2] = Ancestors(j \div 2)
        BY <4>1
      <4> HIDE DEF g
      <4>3. QED
        BY <3>2, <4>2, AncestorsStep
    <3>3. QED
      BY <3>1, <3>2
  <2>2. QED
    BY <2>1
<1>2. Chain = CHOOSE f : Fits(f)
  BY DEF Chain
<1>3. Fits(Chain)
  <2> HIDE DEF Fits
  <2>1. QED
    BY <1>1, <1>2
<1>4. QED
  BY <1>3

\* What a chain is: the slot itself, its parents up to slot 1, no two on one
\* level.
IsChain(C, i) ==
  /\ C \in SUBSET (1 .. i) /\ i \in C
  /\ \A j \in C : j > 1 => j \div 2 \in C
  /\ \A j, k \in C : j < k => j <= k \div 2
  /\ \A j \in C : j < i => \E k \in C : k \div 2 = j /\ k > j

LEMMA ChainIs ==
  ASSUME NEW i \in Nat \ {0}
  PROVE  IsChain(Chain[i], i)
<1> DEFINE W == {n \in Nat : \A m \in 1 .. n : IsChain(Chain[m], m)}
<1>1. 0 \in W
  OBVIOUS
<1>2. ASSUME NEW n \in W PROVE n + 1 \in W
  <2>1. PICK m \in Nat \ {0} : m = n + 1
    OBVIOUS
  <2>2. SUFFICES IsChain(Chain[m], m)
    BY <2>1
  <2>3. CASE m = 1
    <3>1. Chain[m] = {1}
      BY <2>3, ChainEquation
    <3>2. QED
      BY <2>3, <3>1 DEF IsChain
  <2>4. CASE m # 1
    <3>1. PICK p \in Nat \ {0} : p = m \div 2 /\ p < m
      BY <2>4
    <3>2. p \in 1 .. n
      BY <2>1, <3>1
    <3>3. PICK B : B = Chain[p]
      OBVIOUS
    <3>4. IsChain(B, p)
      BY <3>2, <3>3
    <3>5. PICK C : C = Chain[m]
      OBVIOUS
    <3>6. C = {m} \cup B
      BY <2>4, <3>1, <3>3, <3>5, ChainEquation
    <3>7. B \in SUBSET (1 .. p) /\ p \in B
      BY <3>4 DEF IsChain
    <3>8. \A j \in C : j > 1 => j \div 2 \in C
      BY <3>1, <3>4, <3>6 DEF IsChain
    <3>9. \A j, k \in C : j < k => j <= k \div 2
      <4>1. ASSUME NEW j \in C, NEW k \in C, j < k PROVE j <= k \div 2
        <5>1. CASE k = m
          BY <3>1, <3>6, <3>7, <4>1, <5>1
        <5>2. CASE k # m
          BY <3>1, <3>4, <3>6, <3>7, <4>1, <5>2 DEF IsChain
        <5>3. QED
          BY <5>1, <5>2
      <4>2. QED
        BY <4>1
    <3>10. \A j \in C : j < m => \E k \in C : k \div 2 = j /\ k > j
      <4>1. ASSUME NEW j \in C, j < m PROVE \E k \in C : k \div 2 = j /\ k > j
        <5>1. CASE j = p
          BY <3>1, <3>6, <5>1
        <5>2. CASE j # p
          <6>1. j \in B /\ j < p
            BY <3>6, <3>7, <4>1, <5>2
          <6>2. QED
            BY <3>4, <3>6, <6>1 DEF IsChain
        <5>3. QED
          BY <5>1, <5>2
      <4>2. QED
        BY <4>1
    <3>11. C \in SUBSET (1 .. m) /\ m \in C
      BY <3>1, <3>6, <3>7
    <3>12. QED
      BY <3>5, <3>8, <3>9, <3>10, <3>11 DEF IsChain
  <2>5. QED
    BY <2>3, <2>4
<1>3. W = Nat
  <2> HIDE DEF W
  <2>1. W \in SUBSET Nat
    BY DEF W
  <2>2. QED
    BY <1>1, <1>2, <2>1, NatSetInduction
<1>4. QED
  BY <1>3

-----------------------------------------------------------------------------
(* The heaps: what is moved, and that it is only moved                     *)

NoRepeat(h) == \A j, k \in 1 .. Len(h) : h[j] = h[k] => j = k

Items(h) == {h[j] : j \in 1 .. Len(h)}

\* g holds the items of h in some order.
Rearranged(g, h) ==
  /\ Len(g) = Len(h) /\ Items(g) = Items(h)
  /\ NoRepeat(h) => NoRepeat(g)

Permutes(p, n) ==
  /\ p \in [1 .. n -> 1 .. n]
  /\ \A j, k \in 1 .. n : p[j] = p[k] => j = k
  /\ \A k \in 1 .. n : \E j \in 1 .. n : p[j] = k

LEMMA PermutedIsRearranged ==
  ASSUME NEW X, NEW h \in Seq(X), NEW n \in Nat, n = Len(h), NEW p, Permutes(p, n),
         NEW g, g = [j \in 1 .. n |-> h[p[j]]]
  PROVE  g \in Seq(X) /\ Rearranged(g, h)
<1>0. /\ p \in [1 .. n -> 1 .. n]
      /\ \A j, k \in 1 .. n : p[j] = p[k] => j = k
      /\ \A k \in 1 .. n : \E j \in 1 .. n : p[j] = k
  BY DEF Permutes
<1>1. h \in [1 .. n -> X] /\ \A j \in 1 .. n : p[j] \in 1 .. n
  <2>1. h \in [1 .. n -> X]
    OBVIOUS
  <2>2. \A j \in 1 .. n : p[j] \in 1 .. n
    BY ONLY <1>0
  <2>3. QED
    BY <2>1, <2>2
<1>2. g \in [1 .. n -> X]
  BY <1>1
<1>3. g \in Seq(X) /\ Len(g) = n
  BY <1>2
<1>4. \A j \in 1 .. n : g[j] = h[p[j]]
  OBVIOUS
<1>5. Items(g) = Items(h)
  <2>1. \A j \in 1 .. n : g[j] \in Items(h)
    BY <1>1, <1>4 DEF Items
  <2>2. \A k \in 1 .. n : h[k] \in Items(g)
    <3>1. SUFFICES ASSUME NEW k \in 1 .. n PROVE h[k] \in Items(g)
      OBVIOUS
    <3>2. PICK j \in 1 .. n : p[j] = k
      BY <1>0
    <3>3. g[j] = h[k]
      BY <1>4, <3>2
    <3>4. QED
      BY <1>3, <3>3 DEF Items
  <2>3. Items(g) \subseteq Items(h)
    BY <1>3, <2>1 DEF Items
  <2>4. Items(h) \subseteq Items(g)
    <3>1. SUFFICES ASSUME NEW y \in Items(h) PROVE y \in Items(g)
      OBVIOUS
    <3>2. PICK k \in 1 .. n : y = h[k]
      BY DEF Items
    <3>3. QED
      BY <2>2, <3>2
  <2>5. QED
    BY <2>3, <2>4
<1>6. NoRepeat(h) => NoRepeat(g)
  <2>1. SUFFICES ASSUME NoRepeat(h), NEW j \in 1 .. n, NEW k \in 1 .. n, g[j] = g[k]
                 PROVE  j = k
    BY <1>3 DEF NoRepeat
  <2>2. h[p[j]] = h[p[k]] /\ p[j] \in 1 .. n /\ p[k] \in 1 .. n
    BY <1>1, <1>4, <2>1
  <2>3. p[j] = p[k]
    BY <2>1, <2>2 DEF NoRepeat
  <2>4. QED
    BY <1>0, <2>3
<1>7. QED
  BY <1>3, <1>5, <1>6 DEF Rearranged

\* The item of slot i went up to slot t of its chain C.
Lifted(g, h, i, C, t) ==
  g = [j \in 1 .. Len(h) |-> IF j = t THEN h[i]
                             ELSE IF j \in C /\ j > t THEN h[j \div 2] ELSE h[j]]

\* t is as far up as the item of slot i goes.
TopOf(h, key, i, C, t) ==
  /\ IsChain(C, i) /\ t \in C
  /\ \A k \in C : k > t => key[h[i]] < key[h[k \div 2]]
  /\ t > 1 => ~(key[h[i]] < key[h[t \div 2]])

LEMMA PushUpLifts ==
  ASSUME NEW h, NEW key, NEW i \in Nat \ {0}
  PROVE  \E C, t : TopOf(h, key, i, C, t) /\ Lifted(PushUp(h, key, i), h, i, C, t)
<1>1. PICK C : C = Chain[i]
  OBVIOUS
<1>2. IsChain(C, i)
  BY <1>1, ChainIs
<1>3. PICK T : T = {j \in C : \A k \in C : k > j => key[h[i]] < key[h[k \div 2]]}
  OBVIOUS
<1>4. C \in SUBSET (1 .. i) /\ i \in C
  BY <1>2 DEF IsChain
<1>5. i \in T /\ T \in SUBSET Nat
  <2>1. \A k \in C : k \in Nat /\ ~(k > i)
    BY <1>4
  <2>2. QED
    BY <1>3, <1>4, <2>1
<1>6. PICK t : t = Min(T)
  OBVIOUS
<1>7. t \in T /\ \A y \in T : t <= y
  BY <1>5, <1>6, MinIsLeast
<1>8. t > 1 => ~(key[h[i]] < key[h[t \div 2]])
  <2>1. SUFFICES ASSUME t > 1, key[h[i]] < key[h[t \div 2]] PROVE FALSE
    OBVIOUS
  <2>2. t \in C /\ t \in 1 .. i
    BY <1>3, <1>4, <1>7
  <2>3. t \div 2 \in C /\ t \div 2 < t
    BY <1>2, <2>1, <2>2 DEF IsChain
  <2>4. ASSUME NEW k \in C, k > t \div 2 PROVE key[h[i]] < key[h[k \div 2]]
    <3>1. CASE k > t
      BY <1>3, <1>7, <3>1
    <3>2. CASE k = t
      BY <2>1, <3>2
    <3>3. CASE k < t
      <4>1. k <= t \div 2
        BY <1>2, <2>2, <3>3 DEF IsChain
      <4>2. QED
        BY <1>4, <2>2, <2>4, <4>1
    <3>4. QED
      BY <1>4, <2>2, <3>1, <3>2, <3>3
  <2>5. t \div 2 \in T
    BY <1>3, <2>3, <2>4
  <2>6. QED
    BY <1>7, <2>2, <2>3, <2>5
<1>9. TopOf(h, key, i, C, t)
  BY <1>2, <1>3, <1>7, <1>8 DEF TopOf
<1>10. Lifted(PushUp(h, key, i), h, i, C, t)
  BY <1>1, <1>3, <1>6 DEF PushUp, Lifted
<1>11. QED
  BY <1>9, <1>10

LEMMA LiftedRearranges ==
  ASSUME NEW X, NEW h \in Seq(X), NEW i \in 1 .. Len(h),
         NEW C, IsChain(C, i), NEW t \in C, NEW g, Lifted(g, h, i, C, t)
  PROVE  g \in Seq(X) /\ Rearranged(g, h)
<1>1. PICK n \in Nat : n = Len(h)
  OBVIOUS
<1>2. C \in SUBSET (1 .. i) /\ i \in C /\ i \in 1 .. n /\ t \in 1 .. i
  BY <1>1 DEF IsChain
<1>3. PICK p : p = [j \in 1 .. n |-> IF j = t THEN i
                                     ELSE IF j \in C /\ j > t THEN j \div 2 ELSE j]
  OBVIOUS
<1>4. p \in [1 .. n -> 1 .. n]
  BY <1>2, <1>3
\* Between t and i the chain is moved within itself.
<1>5. ASSUME NEW j \in C, j > t PROVE j \div 2 \in C /\ t <= j \div 2 /\ j \div 2 < j /\ j <= i
  <2>1. j > 1 /\ j <= i
    BY <1>2, <1>5
  <2>2. QED
    BY <1>2, <1>5, <2>1 DEF IsChain
<1>6. ASSUME NEW j \in 1 .. n, NEW k \in 1 .. n, p[j] = p[k] PROVE j = k
  <2>1. ASSUME NEW a \in 1 .. n, NEW b \in 1 .. n, a = t, b # t, p[a] = p[b] PROVE FALSE
    BY <1>2, <1>3, <1>5, <2>1
  <2>2. ASSUME NEW a \in C, NEW b \in C, a > t, b > t, a \div 2 = b \div 2 PROVE a = b
    <3>1. ASSUME NEW y \in C, NEW z \in C, y < z, y > t, y \div 2 = z \div 2 PROVE FALSE
      <4>1. y <= z \div 2
        BY <1>2, <3>1 DEF IsChain
      <4>2. QED
        BY <1>2, <1>5, <3>1, <4>1
    <3>2. QED
      BY <1>2, <2>2, <3>1
  <2>3. ASSUME NEW a \in 1 .. n, NEW b \in 1 .. n, a # t, a \in C /\ a > t, b # t,
               ~(b \in C /\ b > t), p[a] = p[b]
        PROVE  FALSE
    <3>1. a \div 2 = b
      BY <1>3, <2>3
    <3>2. b \in C /\ t <= b
      BY <1>5, <2>3, <3>1
    <3>3. QED
      BY <1>2, <2>3, <3>2
  <2>4. ASSUME j # t, k # t PROVE j = k
    BY <1>3, <1>6, <2>2, <2>3, <2>4
  <2>5. QED
    BY <1>6, <2>1, <2>4
<1>7. ASSUME NEW k \in 1 .. n PROVE \E j \in 1 .. n : p[j] = k
  <2>1. CASE k = i
    BY <1>2, <1>3, <2>1
  <2>2. CASE k \in C /\ t <= k /\ k # i
    <3>1. k < i
      BY <1>2, <2>2
    <3>2. PICK j \in C : j \div 2 = k /\ j > k
      BY <2>2, <3>1 DEF IsChain
    <3>3. QED
      BY <1>2, <1>3, <2>2, <3>2
  <2>3. CASE ~(k \in C /\ t <= k)
    BY <1>2, <1>3, <2>3
  <2>4. QED
    BY <2>1, <2>2, <2>3
<1>8. \A j \in 1 .. n : h[p[j]] = IF j = t THEN h[i]
                                  ELSE IF j \in C /\ j > t THEN h[j \div 2] ELSE h[j]
  BY <1>3
<1>9. g = [j \in 1 .. n |-> h[p[j]]]
  BY <1>1, <1>8 DEF Lifted
<1>10. Permutes(p, n)
  BY <1>4, <1>6, <1>7 DEF Permutes
<1>11. QED
  BY <1>1, <1>9, <1>10, PermutedIsRearranged

\* The item of slot i went down to slot b, whose chain is C.
Sunk(g, h, key, i, C, b) ==
  g = [j \in 1 .. Len(h) |-> IF j = b THEN h[i]
                             ELSE IF j \in C /\ j >= i THEN h[SmallerChild(h, key, j)] ELSE h[j]]

\* The path from slot i to slot b goes to the smaller child, and passes
\* smaller items only.
PathTo(h, key, i, C, b) ==
  /\ b \in 1 .. Len(h) /\ IsChain(C, b) /\ i \in C
  /\ \A k \in C : k > i => k = SmallerChild(h, key, k \div 2) /\ key[h[k]] < key[h[i]]

BottomOf(h, key, i, C, b) ==
  /\ PathTo(h, key, i, C, b)
  /\ LET c == SmallerChild(h, key, b) IN c <= Len(h) => ~(key[h[c]] < key[h[i]])

LEMMA SmallerChildIs ==
  ASSUME NEW h, NEW key, NEW j \in Nat \ {0}
  PROVE  LET c == SmallerChild(h, key, j)
         IN c \in Nat \ {0} /\ c > j /\ c \div 2 = j /\ (c = 2 * j \/ c = 2 * j + 1)
BY DEF SmallerChild

LEMMA PushDownSinks ==
  ASSUME NEW h, NEW key, Len(h) \in Nat, NEW i \in 1 .. Len(h)
  PROVE  \E C, b : BottomOf(h, key, i, C, b) /\ Sunk(PushDown(h, key, i), h, key, i, C, b)
<1>1. PICK S : S = {j \in 1 .. Len(h) :
                      /\ i \in Chain[j]
                      /\ \A k \in Chain[j] : k > i => /\ k = SmallerChild(h, key, k \div 2)
                                                      /\ key[h[k]] < key[h[i]]}
  OBVIOUS
<1>2. PICK b : b = Max(S)
  OBVIOUS
<1>3. i \in S
  <2>1. IsChain(Chain[i], i)
    BY ChainIs
  <2>2. i \in Chain[i] /\ \A k \in Chain[i] : k \in Nat /\ ~(k > i)
    BY <2>1 DEF IsChain
  <2>3. QED
    BY <1>1, <2>2
<1>4. b \in S /\ \A y \in S : y <= b
  <2>1. S \in SUBSET (1 .. Len(h)) /\ S # {}
    BY <1>1, <1>3
  <2>2. QED
    BY <1>2, <2>1, MaxIsGreatest
<1>5. PICK C : C = Chain[b]
  OBVIOUS
<1>6. PathTo(h, key, i, C, b)
  <2>1. b \in 1 .. Len(h) /\ IsChain(C, b)
    BY <1>1, <1>4, <1>5, ChainIs
  <2>2. QED
    BY <1>1, <1>4, <1>5, <2>1 DEF PathTo
<1>7. PICK c : c = SmallerChild(h, key, b)
  OBVIOUS
<1>8. c <= Len(h) => ~(key[h[c]] < key[h[i]])
  <2>1. SUFFICES ASSUME c <= Len(h), key[h[c]] < key[h[i]] PROVE FALSE
    OBVIOUS
  <2>2. b \in Nat \ {0} /\ b \in 1 .. Len(h)
    BY <1>1, <1>4
  <2>3. c \in Nat \ {0} /\ c > b /\ c \div 2 = b
    BY <1>7, <2>2, SmallerChildIs
  <2>4. c # 1
    BY <2>2, <2>3
  <2>5. Chain[c] = {c} \cup C
    BY <1>5, <2>3, <2>4, ChainEquation
  <2>6. ASSUME NEW k \in Chain[c], k > i
        PROVE  k = SmallerChild(h, key, k \div 2) /\ key[h[k]] < key[h[i]]
    <3>1. CASE k = c
      BY <1>7, <2>1, <2>3, <3>1
    <3>2. CASE k \in C
      BY <1>6, <2>6, <3>2 DEF PathTo
    <3>3. QED
      BY <2>5, <3>1, <3>2
  <2>7. i \in Chain[c]
    BY <1>6, <2>5 DEF PathTo
  <2>8. c \in 1 .. Len(h)
    BY <2>1, <2>3
  <2>9. c \in S
    BY <1>1, <2>6, <2>7, <2>8
  <2>10. QED
    BY <1>4, <2>2, <2>3, <2>9
<1>9. BottomOf(h, key, i, C, b)
  BY <1>6, <1>7, <1>8 DEF BottomOf
<1>10. Sunk(PushDown(h, key, i), h, key, i, C, b)
  BY <1>1, <1>2, <1>5 DEF PushDown, Sunk
<1>11. QED
  BY <1>9, <1>10

\* What the path from i to b is made of.
LEMMA PathIs ==
  ASSUME NEW h, NEW key, NEW i, NEW C, NEW b, PathTo(h, key, i, C, b), Len(h) \in Nat
  PROVE  /\ i \in 1 .. b /\ b \in 1 .. Len(h) /\ b \in C /\ C \in SUBSET (1 .. b)
         /\ \A j \in C : j > i => j \div 2 \in C /\ i <= j \div 2 /\ j \div 2 < j
         /\ \A j \in C : i <= j /\ j < b =>
              /\ SmallerChild(h, key, j) \in C
              /\ j < SmallerChild(h, key, j) /\ SmallerChild(h, key, j) <= b
              /\ key[h[SmallerChild(h, key, j)]] < key[h[i]]
<1>1. /\ IsChain(C, b) /\ b \in 1 .. Len(h) /\ i \in C
      /\ C \in SUBSET (1 .. b) /\ b \in C
  BY DEF PathTo, IsChain
<1>2. i \in 1 .. b
  BY <1>1
<1>3. ASSUME NEW j \in C, j > i PROVE j \div 2 \in C /\ i <= j \div 2 /\ j \div 2 < j
  <2>1. j > 1 /\ j \in 1 .. b
    BY <1>1, <1>2, <1>3
  <2>2. j \div 2 \in C /\ i <= j \div 2
    BY <1>1, <1>3, <2>1 DEF IsChain
  <2>3. QED
    BY <2>1, <2>2
<1>4. ASSUME NEW j \in C, i <= j, j < b
      PROVE  /\ SmallerChild(h, key, j) \in C
             /\ j < SmallerChild(h, key, j) /\ SmallerChild(h, key, j) <= b
             /\ key[h[SmallerChild(h, key, j)]] < key[h[i]]
  <2>1. PICK k \in C : k \div 2 = j /\ k > j
    BY <1>1, <1>4 DEF IsChain
  <2>2. k \in 1 .. b /\ k > i
    BY <1>1, <1>2, <1>4, <2>1
  <2>3. k = SmallerChild(h, key, j) /\ key[h[k]] < key[h[i]]
    BY <2>1, <2>2 DEF PathTo
  <2>4. QED
    BY <2>1, <2>2, <2>3
<1>5. QED
  BY <1>1, <1>2, <1>3, <1>4

LEMMA SunkRearranges ==
  ASSUME NEW X, NEW h \in Seq(X), NEW key, NEW i, NEW C, NEW b, PathTo(h, key, i, C, b),
         NEW g, Sunk(g, h, key, i, C, b)
  PROVE  g \in Seq(X) /\ Rearranged(g, h)
<1>1. PICK n \in Nat : n = Len(h)
  OBVIOUS
<1>2. PICK D : D = [j \in 1 .. n |-> SmallerChild(h, key, j)]
  OBVIOUS
<1>3. /\ i \in 1 .. b /\ b \in 1 .. n /\ b \in C /\ C \in SUBSET (1 .. b) /\ i \in C
      /\ \A j \in C : j > i => j \div 2 \in C /\ i <= j \div 2 /\ j \div 2 < j
      /\ \A j \in C : i <= j /\ j < b => D[j] \in C /\ j < D[j] /\ D[j] <= b
  <2>1. C \in SUBSET (1 .. n)
    BY <1>1, PathIs
  <2>2. \A j \in C : D[j] = SmallerChild(h, key, j)
    BY <1>2, <2>1
  <2>3. i \in C
    BY DEF PathTo
  <2>4. /\ i \in 1 .. b /\ b \in 1 .. n /\ b \in C /\ C \in SUBSET (1 .. b)
        /\ \A j \in C : j > i => j \div 2 \in C /\ i <= j \div 2 /\ j \div 2 < j
    BY <1>1, PathIs
  <2>5. ASSUME NEW j \in C, i <= j, j < b PROVE D[j] \in C /\ j < D[j] /\ D[j] <= b
    BY <1>1, <2>2, <2>5, PathIs
  <2>6. QED
    BY <2>3, <2>4, <2>5
<1>4. \A j \in 1 .. n : D[j] \in Nat /\ D[j] \div 2 = j
  BY <1>2, SmallerChildIs
<1>5. \A k \in C : k > i => k = D[k \div 2]
  <2>1. ASSUME NEW k \in C, k > i PROVE k = D[k \div 2]
    <3>1. k \div 2 \in 1 .. n
      BY <1>3, <2>1
    <3>2. k = SmallerChild(h, key, k \div 2)
      BY <2>1 DEF PathTo
    <3>3. QED
      BY <1>2, <3>1, <3>2
  <2>2. QED
    BY <2>1
<1>6. PICK p : p = [j \in 1 .. n |-> IF j = b THEN i
                                     ELSE IF j \in C /\ j >= i THEN D[j] ELSE j]
  OBVIOUS
<1>7. \A j \in 1 .. n : p[j] = IF j = b THEN i ELSE IF j \in C /\ j >= i THEN D[j] ELSE j
  BY <1>6
<1>8. p \in [1 .. n -> 1 .. n]
  <2>0. \A j \in C : j <= b
    BY <1>3
  <2>1. ASSUME NEW j \in 1 .. n PROVE p[j] \in 1 .. n
    <3>1. CASE j = b
      BY <1>3, <1>7, <3>1
    <3>2. CASE j # b /\ j \in C /\ j >= i
      <4>1. j < b
        BY <1>3, <2>0, <3>2
      <4>2. D[j] \in Nat /\ j < D[j] /\ D[j] <= b
        BY <1>3, <1>4, <3>2, <4>1
      <4>3. QED
        BY <1>3, <1>7, <3>2, <4>2
    <3>3. CASE j # b /\ ~(j \in C /\ j >= i)
      BY <1>7, <3>3
    <3>4. QED
      BY <3>1, <3>2, <3>3
  <2>2. QED
    BY <1>6, <2>1
<1>9. ASSUME NEW j \in 1 .. n, NEW k \in 1 .. n, p[j] = p[k] PROVE j = k
  <2>1. ASSUME NEW y \in 1 .. n, NEW z \in 1 .. n, y = b, z # b, p[y] = p[z] PROVE FALSE
    BY <1>3, <1>7, <2>1
  <2>2. ASSUME NEW y \in 1 .. n, NEW z \in 1 .. n, y # b, y \in C /\ y >= i, z # b,
               ~(z \in C /\ z >= i), p[y] = p[z]
        PROVE  FALSE
    <3>1. D[y] = z
      BY <1>7, <2>2
    <3>2. z \in C /\ z >= i
      BY <1>3, <2>2, <3>1
    <3>3. QED
      BY <2>2, <3>2
  <2>3. ASSUME j # b, k # b PROVE j = k
    <3>1. CASE (j \in C /\ j >= i) /\ (k \in C /\ k >= i)
      BY <1>4, <1>7, <1>9, <2>3, <3>1
    <3>2. CASE ~(j \in C /\ j >= i) /\ ~(k \in C /\ k >= i)
      BY <1>7, <1>9, <2>3, <3>2
    <3>3. QED
      BY <1>9, <2>2, <2>3, <3>1, <3>2
  <2>4. QED
    BY <1>9, <2>1, <2>3
<1>10. ASSUME NEW k \in 1 .. n PROVE \E j \in 1 .. n : p[j] = k
  <2>1. CASE k = i
    BY <1>3, <1>7, <2>1
  <2>2. CASE k \in C /\ k > i
    <3>1. PICK j \in 1 .. n : j = k \div 2 /\ j \in C /\ j >= i /\ j # b
      BY <1>3, <2>2
    <3>2. p[j] = k
      BY <1>5, <1>7, <2>2, <3>1
    <3>3. QED
      BY <3>2
  <2>3. CASE k # i /\ ~(k \in C /\ k > i)
    <3>1. k # b /\ ~(k \in C /\ k >= i)
      BY <1>3, <2>3
    <3>2. QED
      BY <1>7, <3>1
  <2>4. QED
    BY <2>1, <2>2, <2>3
<1>11. Permutes(p, n)
  BY <1>8, <1>9, <1>10 DEF Permutes
<1>12. \A j \in 1 .. n : h[p[j]] = IF j = b THEN h[i]
                                   ELSE IF j \in C /\ j >= i THEN h[SmallerChild(h, key, j)] ELSE h[j]
  BY <1>2, <1>7
<1>13. g = [j \in 1 .. n |-> h[p[j]]]
  BY <1>1, <1>12 DEF Sunk
<1>14. QED
  BY <1>1, <1>11, <1>13, PermutedIsRearranged

-----------------------------------------------------------------------------
(* The heaps: order                                                        *)

\* The order of slot j with its parent.
Fine(h, key, j) == key[h[j \div 2]] <= key[h[j]]

\* A heap but for the item of slot i, which may be too small or too large.
HeapBut(h, key, i) ==
  /\ \A j \in 2 .. Len(h) : j # i /\ j \div 2 # i => Fine(h, key, j)
  /\ i > 1 => \A j \in 2 .. Len(h) : j \div 2 = i => key[h[i \div 2]] <= key[h[j]]

NotTooLarge(h, key, i) == \A j \in 2 .. Len(h) : j \div 2 = i => Fine(h, key, j)
NotTooSmall(h, key, i) == i > 1 => Fine(h, key, i)

LEMMA HeapIsFine ==
  ASSUME NEW h, NEW key
  PROVE  IsHeap(h, key) <=> \A j \in 2 .. Len(h) : Fine(h, key, j)
BY DEF IsHeap, Fine

\* Going up repairs an item that was too small, and leaves one that is at
\* most too large.
LEMMA LiftedOrder ==
  ASSUME NEW X, NEW h \in Seq(X), NEW key \in [X -> Int], NEW i \in 1 .. Len(h),
         HeapBut(h, key, i), NEW C, NEW t, TopOf(h, key, i, C, t),
         NEW g, Lifted(g, h, i, C, t)
  PROVE  /\ HeapBut(g, key, i) /\ NotTooSmall(g, key, i)
         /\ t < i \/ NotTooLarge(h, key, i) => IsHeap(g, key)
<1>1. PICK n \in Nat : n = Len(h)
  OBVIOUS
<1>2. PICK w : w = [j \in 1 .. n |-> key[h[j]]]
  OBVIOUS
<1>3. \A j \in 1 .. n : w[j] = key[h[j]] /\ w[j] \in Int
  BY <1>1, <1>2
<1>4. /\ C \in SUBSET (1 .. i) /\ i \in C /\ t \in C /\ i \in 1 .. n /\ t \in 1 .. i
      /\ \A j \in C : j > 1 => j \div 2 \in C
      /\ \A j, k \in C : j < k => j <= k \div 2
      /\ \A j \in C : j < i => \E k \in C : k \div 2 = j /\ k > j
  <2>1. C \in SUBSET (1 .. i) /\ i \in C /\ t \in C /\ i \in 1 .. n
    BY <1>1 DEF TopOf, IsChain
  <2>2. t \in 1 .. i
    BY <2>1
  <2>3. QED
    BY <2>1, <2>2 DEF TopOf, IsChain
<1>5. /\ \A k \in C : k > t => w[i] < w[k \div 2]
      /\ t > 1 => w[t \div 2] <= w[i]
  <2>1. ASSUME NEW k \in C, k > t PROVE w[i] < w[k \div 2]
    <3>1. k \div 2 \in 1 .. n
      BY <1>4, <2>1
    <3>2. key[h[i]] < key[h[k \div 2]]
      BY <2>1 DEF TopOf
    <3>3. QED
      BY <1>3, <1>4, <3>1, <3>2
  <2>2. ASSUME t > 1 PROVE w[t \div 2] <= w[i]
    <3>1. t \div 2 \in 1 .. n
      BY <1>4, <2>2
    <3>2. ~(key[h[i]] < key[h[t \div 2]])
      BY <2>2 DEF TopOf
    <3>3. QED
      BY <1>3, <1>4, <3>1, <3>2
  <2>3. QED
    BY <2>1, <2>2
<1>6. /\ \A j \in 2 .. n : j # i /\ j \div 2 # i => w[j \div 2] <= w[j]
      /\ i > 1 => \A j \in 2 .. n : j \div 2 = i => w[i \div 2] <= w[j]
  <2>1. ASSUME NEW j \in 2 .. n, j # i, j \div 2 # i PROVE w[j \div 2] <= w[j]
    <3>1. j \in 1 .. n /\ j \div 2 \in 1 .. n
      OBVIOUS
    <3>2. QED
      BY <1>1, <1>3, <2>1, <3>1 DEF HeapBut, Fine
  <2>2. ASSUME i > 1, NEW j \in 2 .. n, j \div 2 = i PROVE w[i \div 2] <= w[j]
    <3>1. j \in 1 .. n /\ i \div 2 \in 1 .. n
      BY <1>4, <2>2
    <3>2. QED
      BY <1>1, <1>3, <2>2, <3>1 DEF HeapBut
  <2>3. QED
    BY <2>1, <2>2
<1>7. PICK v : v = [j \in 1 .. n |-> IF j = t THEN w[i]
                                     ELSE IF j \in C /\ j > t THEN w[j \div 2] ELSE w[j]]
  OBVIOUS
<1>8. \A j \in 1 .. n : v[j] = IF j = t THEN w[i]
                               ELSE IF j \in C /\ j > t THEN w[j \div 2] ELSE w[j]
  BY <1>7
<1>9. Len(g) = n /\ \A j \in 1 .. n : key[g[j]] = v[j]
  <2>1. g = [j \in 1 .. n |-> IF j = t THEN h[i]
                              ELSE IF j \in C /\ j > t THEN h[j \div 2] ELSE h[j]]
    BY <1>1 DEF Lifted
  <2>2. ASSUME NEW j \in 1 .. n PROVE key[g[j]] = v[j]
    <3>1. CASE j = t
      BY <1>3, <1>4, <1>8, <2>1, <3>1
    <3>2. CASE j # t /\ j \in C /\ j > t
      <4>1. j \div 2 \in 1 .. n
        BY <1>4, <3>2
      <4>2. QED
        BY <1>3, <1>8, <2>1, <3>2, <4>1
    <3>3. CASE j # t /\ ~(j \in C /\ j > t)
      BY <1>3, <1>8, <2>1, <3>3
    <3>4. QED
      BY <3>1, <3>2, <3>3
  <2>3. QED
    BY <2>1, <2>2
\* Every slot but the children of i is in order; those too, if the item
\* moved or was not too large.
<1>10. ASSUME NEW j \in 2 .. n, j \div 2 # i \/ t < i \/ NotTooLarge(h, key, i)
       PROVE  v[j \div 2] <= v[j]
  <2>1. PICK k \in 1 .. n : k = j \div 2 /\ k < j /\ j \in 1 .. n
    OBVIOUS
  <2>2. CASE j = t
    <3>1. k \notin C \/ k < t
      BY <2>1, <2>2
    <3>2. v[k] = w[k] /\ v[j] = w[i]
      BY <1>8, <2>1, <2>2, <3>1
    <3>3. QED
      BY <1>5, <2>1, <2>2, <3>2
  <2>3. CASE j \in C /\ j > t
    <3>1. v[j] = w[k] /\ k \in C /\ t <= k
      <4>1. j > 1 /\ j # t
        BY <1>4, <2>3
      <4>2. v[j] = w[k]
        BY <1>8, <2>1, <2>3, <4>1
      <4>3. k \in C
        BY <1>4, <2>1, <2>3, <4>1
      <4>4. t <= k
        BY <1>4, <2>1, <2>3
      <4>5. QED
        BY <4>2, <4>3, <4>4
    <3>2. CASE k = t
      <4>1. v[k] = w[i] /\ w[i] < w[k] /\ w[k] \in Int /\ w[i] \in Int
        BY <1>3, <1>4, <1>5, <1>8, <2>1, <2>3, <3>2
      <4>2. QED
        BY <2>1, <3>1, <4>1
    <3>3. CASE k > t
      <4>1. v[k] = w[k \div 2]
        BY <1>8, <2>1, <3>1, <3>3
      <4>2. k # i /\ k \div 2 # i /\ k \in 2 .. n
        BY <1>4, <2>1, <2>3, <3>3
      <4>3. w[k \div 2] <= w[k]
        BY <1>6, <4>2
      <4>4. QED
        BY <2>1, <3>1, <4>1, <4>3
    <3>4. QED
      BY <1>4, <2>1, <3>1, <3>2, <3>3
  <2>4. CASE j # t /\ ~(j \in C /\ j > t)
    <3>1. v[j] = w[j] /\ j # i
      <4>1. v[j] = w[j]
        BY <1>8, <2>1, <2>4
      <4>2. i = t \/ i > t
        BY <1>4
      <4>3. QED
        BY <1>4, <2>4, <4>1, <4>2
    <3>2. CASE k = t
      <4>1. v[k] = w[i]
        BY <1>8, <2>1, <3>2
      <4>2. CASE t = i
        <5>1. NotTooLarge(h, key, i)
          BY <1>10, <2>1, <3>2, <4>2
        <5>2. key[h[j \div 2]] <= key[h[j]]
          BY <1>1, <2>1, <3>2, <4>2, <5>1 DEF NotTooLarge, Fine
        <5>3. w[i] <= w[j]
          BY <1>3, <2>1, <3>2, <4>2, <5>2
        <5>4. QED
          BY <2>1, <3>1, <4>1, <5>3
      <4>3. CASE t < i
        <5>1. PICK m \in C : m \div 2 = t /\ m > t
          BY <1>4, <4>3
        <5>2. w[i] < w[t]
          BY <1>5, <5>1
        <5>3. w[t] <= w[j]
          BY <1>6, <2>1, <3>1, <3>2, <4>3
        <5>4. w[i] \in Int /\ w[t] \in Int /\ w[j] \in Int
          BY <1>3, <1>4, <2>1, <3>2
        <5>5. QED
          BY <2>1, <3>1, <4>1, <5>2, <5>3, <5>4
      <4>4. QED
        BY <1>4, <4>2, <4>3
    <3>3. CASE k \in C /\ k > t
      <4>1. v[k] = w[k \div 2] /\ k \in 2 .. n
        BY <1>4, <1>8, <2>1, <3>3
      <4>2. CASE k = i
        BY <1>4, <1>6, <2>1, <3>1, <3>3, <4>1, <4>2
      <4>3. CASE k # i
        <5>1. k \div 2 # i
          BY <1>4, <3>3, <4>1
        <5>2. w[k \div 2] <= w[k] /\ w[k] <= w[j]
          BY <1>6, <2>1, <3>1, <4>1, <4>3, <5>1
        <5>3. w[k \div 2] \in Int /\ w[k] \in Int /\ w[j] \in Int
          BY <1>3, <2>1, <4>1
        <5>4. QED
          BY <2>1, <3>1, <4>1, <5>2, <5>3
      <4>4. QED
        BY <4>2, <4>3
    <3>4. CASE k # t /\ ~(k \in C /\ k > t)
      <4>1. v[k] = w[k]
        BY <1>8, <2>1, <3>4
      <4>2. k # i
        BY <1>4, <3>4
      <4>3. QED
        BY <1>6, <2>1, <3>1, <4>1, <4>2
    <3>5. QED
      BY <3>2, <3>3, <3>4
  <2>5. QED
    BY <2>2, <2>3, <2>4
<1>11. \A j \in 2 .. n : Fine(g, key, j) <=> v[j \div 2] <= v[j]
  <2>1. ASSUME NEW j \in 2 .. n PROVE Fine(g, key, j) <=> v[j \div 2] <= v[j]
    <3>1. j \in 1 .. n /\ j \div 2 \in 1 .. n
      OBVIOUS
    <3>2. QED
      BY <1>9, <3>1 DEF Fine
  <2>2. QED
    BY <2>1
<1>12. t < i \/ NotTooLarge(h, key, i) => IsHeap(g, key)
  BY <1>9, <1>10, <1>11, HeapIsFine
<1>13. \A j \in 2 .. Len(g) : j \div 2 # i => Fine(g, key, j)
  BY <1>9, <1>10, <1>11
<1>14. NotTooSmall(g, key, i)
  <2>1. i > 1 => i \in 2 .. n /\ i \div 2 # i
    BY <1>4
  <2>2. QED
    BY <1>9, <1>13, <2>1 DEF NotTooSmall
<1>15. ASSUME i > 1, NEW j \in 2 .. n, j \div 2 = i
       PROVE  key[g[i \div 2]] <= key[g[j]]
  <2>1. i \div 2 \in 1 .. n /\ j \in 1 .. n /\ i \div 2 < i /\ i < j
    BY <1>4, <1>15
  <2>2. j # t /\ j \notin C
    BY <1>4, <2>1
  <2>3. v[j] = w[j]
    BY <1>8, <2>1, <2>2
  <2>4. CASE t < i
    <3>1. v[i \div 2] <= v[i] /\ v[i] <= v[j]
      <4>1. i \in 2 .. n /\ i \div 2 # i
        BY <1>4, <1>15, <2>1
      <4>2. v[i \div 2] <= v[i]
        BY <1>10, <4>1
      <4>3. v[j \div 2] <= v[j]
        BY <1>10, <2>4
      <4>4. QED
        BY <1>15, <4>2, <4>3
    <3>2. v[i \div 2] \in Int /\ v[i] \in Int /\ v[j] \in Int
      <4>1. \A y \in 1 .. n : v[y] \in Int
        <5>1. ASSUME NEW y \in 1 .. n, y \in C, y > t PROVE y \div 2 \in 1 .. n
          BY <1>4, <5>1
        <5>2. QED
          BY <1>3, <1>4, <1>8, <5>1
      <4>2. QED
        BY <1>4, <2>1, <4>1
    <3>3. QED
      BY <1>9, <2>1, <3>1, <3>2
  <2>5. CASE t = i
    <3>1. v[i \div 2] = w[i \div 2]
      BY <1>8, <2>1, <2>5
    <3>2. QED
      BY <1>6, <1>9, <1>15, <2>1, <2>3, <3>1
  <2>6. QED
    BY <1>4, <2>4, <2>5
<1>16. HeapBut(g, key, i)
  BY <1>9, <1>13, <1>15 DEF HeapBut
<1>17. QED
  BY <1>12, <1>14, <1>16

\* Going down repairs an item that is not too small.
LEMMA SunkOrder ==
  ASSUME NEW X, NEW h \in Seq(X), NEW key \in [X -> Int], NEW i,
         HeapBut(h, key, i), NotTooSmall(h, key, i),
         NEW C, NEW b, BottomOf(h, key, i, C, b),
         NEW g, Sunk(g, h, key, i, C, b)
  PROVE  IsHeap(g, key)
<1>1. PICK n \in Nat : n = Len(h)
  OBVIOUS
<1>2. PICK w, D : /\ w = [j \in 1 .. n |-> key[h[j]]]
                  /\ D = [j \in 1 .. n |-> SmallerChild(h, key, j)]
  OBVIOUS
<1>3. \A j \in 1 .. n : w[j] = key[h[j]] /\ w[j] \in Int /\ D[j] = SmallerChild(h, key, j)
  BY <1>1, <1>2
<1>4. PathTo(h, key, i, C, b)
  BY DEF BottomOf
<1>5. /\ i \in 1 .. n /\ i <= b /\ b \in 1 .. n /\ b \in C /\ C \in SUBSET (1 .. n) /\ i \in C
      /\ C \in SUBSET (1 .. b)
      /\ \A j \in C : j > i => j \div 2 \in C /\ i <= j \div 2 /\ j \div 2 < j
  <2>1. i \in C
    BY <1>4 DEF PathTo
  <2>2. /\ i \in 1 .. b /\ b \in 1 .. n /\ b \in C /\ C \in SUBSET (1 .. b)
        /\ \A j \in C : j > i => j \div 2 \in C /\ i <= j \div 2 /\ j \div 2 < j
    BY <1>1, <1>4, PathIs
  <2>3. C \in SUBSET (1 .. n) /\ i \in 1 .. n
    BY <2>2
  <2>4. QED
    BY <2>1, <2>2, <2>3
<1>6. \A j \in C : i <= j /\ j < b => D[j] \in C /\ j < D[j] /\ D[j] <= b /\ w[D[j]] < w[i]
  <2>1. ASSUME NEW j \in C, i <= j, j < b
        PROVE  D[j] \in C /\ j < D[j] /\ D[j] <= b /\ w[D[j]] < w[i]
    <3>1. /\ SmallerChild(h, key, j) \in C
          /\ j < SmallerChild(h, key, j) /\ SmallerChild(h, key, j) <= b
          /\ key[h[SmallerChild(h, key, j)]] < key[h[i]]
      BY <1>1, <1>4, <2>1, PathIs
    <3>2. j \in 1 .. n /\ D[j] = SmallerChild(h, key, j)
      BY <1>3, <1>5
    <3>3. D[j] \in 1 .. n
      <4>1. D[j] \in C
        BY <3>1, <3>2
      <4>2. QED
        BY <1>5, <4>1
    <3>4. QED
      BY <1>3, <1>5, <3>1, <3>2, <3>3
  <2>2. QED
    BY <2>1
<1>7. \A k \in C : k > i => k = D[k \div 2]
  <2>1. ASSUME NEW k \in C, k > i PROVE k = D[k \div 2]
    <3>1. k \div 2 \in 1 .. n
      BY <1>5, <2>1
    <3>2. k = SmallerChild(h, key, k \div 2)
      BY <1>4, <2>1 DEF PathTo
    <3>3. QED
      BY <1>3, <3>1, <3>2
  <2>2. QED
    BY <2>1
\* The smaller child is one.
<1>8. \A j \in 2 .. n : D[j \div 2] \in 1 .. n /\ D[j \div 2] \div 2 = j \div 2
                        /\ w[D[j \div 2]] <= w[j]
  <2>1. ASSUME NEW j \in 2 .. n
        PROVE  D[j \div 2] \in 1 .. n /\ D[j \div 2] \div 2 = j \div 2
               /\ w[D[j \div 2]] <= w[j]
    <3>1. PICK k \in 1 .. n : k = j \div 2 /\ (j = 2 * k \/ j = 2 * k + 1) /\ 2 * k <= n
      BY <2>1
    <3>2. D[k] = IF 2 * k < n /\ key[h[2 * k + 1]] < key[h[2 * k]] THEN 2 * k + 1 ELSE 2 * k
      BY <1>1, <1>3 DEF SmallerChild
    <3>3. w[2 * k] = key[h[2 * k]] /\ w[2 * k] \in Int
      BY <1>3, <3>1
    <3>4. 2 * k < n => w[2 * k + 1] = key[h[2 * k + 1]] /\ w[2 * k + 1] \in Int
      BY <1>3, <3>1
    <3>5. D[k] \in 1 .. n /\ D[k] \div 2 = k
      BY <3>1, <3>2
    <3>6. w[D[k]] <= w[j]
      <4>0. PICK l \in Int : l = 2 * k
        BY <3>1
      <4>1. CASE 2 * k < n /\ w[2 * k + 1] < w[2 * k]
        <5>1. D[k] = l + 1
          BY <3>2, <3>3, <3>4, <4>0, <4>1
        <5>2. w[l + 1] < w[l] /\ (j = l \/ j = l + 1)
          BY <3>1, <4>0, <4>1
        <5>3. w[l] \in Int /\ w[l + 1] \in Int
          BY <3>3, <3>4, <4>0, <4>1
        <5>4. QED
          BY <5>1, <5>2, <5>3
      <4>2. CASE 2 * k < n /\ ~(w[2 * k + 1] < w[2 * k])
        <5>1. D[k] = l
          BY <3>2, <3>3, <3>4, <4>0, <4>2
        <5>2. ~(w[l + 1] < w[l]) /\ (j = l \/ j = l + 1)
          BY <3>1, <4>0, <4>2
        <5>3. w[l] \in Int /\ w[l + 1] \in Int
          BY <3>3, <3>4, <4>0, <4>2
        <5>4. QED
          BY <5>1, <5>2, <5>3
      <4>3. CASE ~(2 * k < n)
        BY <3>1, <3>2, <3>3, <4>3
      <4>4. QED
        BY <4>1, <4>2, <4>3
    <3>7. QED
      BY <3>1, <3>5, <3>6
  <2>2. QED
    BY <2>1
<1>9. D[b] \in 1 .. n => w[i] <= w[D[b]]
  <2>1. SUFFICES ASSUME D[b] \in 1 .. n PROVE w[i] <= w[D[b]]
    OBVIOUS
  <2>2. PICK c : c = D[b] /\ c = SmallerChild(h, key, b)
    BY <1>3, <1>5
  <2>3. c <= Len(h) => ~(key[h[c]] < key[h[i]])
    BY <2>2 DEF BottomOf
  <2>4. QED
    BY <1>1, <1>3, <1>5, <2>1, <2>2, <2>3
<1>10. \A j \in 2 .. n : j \div 2 # i => w[j \div 2] <= w[j]
  <2>1. ASSUME NEW j \in 2 .. n, j \div 2 # i PROVE w[j \div 2] <= w[j]
    <3>1. j \in 1 .. n /\ j \div 2 \in 1 .. n /\ j > 1
      OBVIOUS
    <3>2. key[h[j \div 2]] <= key[h[j]]
      BY <1>1, <2>1, <3>1 DEF HeapBut, NotTooSmall, Fine
    <3>3. QED
      BY <1>3, <3>1, <3>2
  <2>2. QED
    BY <2>1
<1>11. i > 1 => \A j \in 2 .. n : j \div 2 = i => w[i \div 2] <= w[j]
  <2>1. ASSUME i > 1, NEW j \in 2 .. n, j \div 2 = i PROVE w[i \div 2] <= w[j]
    <3>1. j \in 1 .. n /\ i \div 2 \in 1 .. n
      BY <1>5, <2>1
    <3>2. QED
      BY <1>1, <1>3, <2>1, <3>1 DEF HeapBut
  <2>2. QED
    BY <2>1
<1>12. PICK v : v = [j \in 1 .. n |-> IF j = b THEN w[i]
                                      ELSE IF j \in C /\ j >= i THEN w[D[j]] ELSE w[j]]
  OBVIOUS
<1>13. \A j \in 1 .. n : v[j] = IF j = b THEN w[i]
                                ELSE IF j \in C /\ j >= i THEN w[D[j]] ELSE w[j]
  BY <1>12
<1>14. \A j \in C : j <= b
  BY <1>5
<1>15. Len(g) = n /\ \A j \in 1 .. n : key[g[j]] = v[j]
  <2>1. g = [j \in 1 .. n |-> IF j = b THEN h[i]
                              ELSE IF j \in C /\ j >= i THEN h[SmallerChild(h, key, j)] ELSE h[j]]
    BY <1>1 DEF Sunk
  <2>2. ASSUME NEW j \in 1 .. n PROVE key[g[j]] = v[j]
    <3>1. CASE j = b
      BY <1>3, <1>5, <1>13, <2>1, <3>1
    <3>2. CASE j # b /\ j \in C /\ j >= i
      <4>1. j < b
        BY <1>5, <1>14, <3>2
      <4>2. D[j] \in C
        BY <1>6, <3>2, <4>1
      <4>3. D[j] \in 1 .. n
        BY <1>5, <4>2
      <4>4. g[j] = h[D[j]]
        BY <1>3, <2>1, <3>2
      <4>5. QED
        BY <1>3, <1>13, <3>2, <4>3, <4>4
    <3>3. CASE j # b /\ ~(j \in C /\ j >= i)
      BY <1>3, <1>13, <2>1, <3>3
    <3>4. QED
      BY <3>1, <3>2, <3>3
  <2>3. QED
    BY <2>1, <2>2
<1>16. ASSUME NEW j \in 2 .. n PROVE v[j \div 2] <= v[j]
  <2>1. PICK k \in 1 .. n : k = j \div 2 /\ k < j /\ j \in 1 .. n
    OBVIOUS
  <2>2. D[k] \in 1 .. n /\ D[k] \div 2 = k /\ w[D[k]] <= w[j] /\ w[D[k]] \in Int
    BY <1>3, <1>8, <2>1
  <2>3. CASE j = b
    <3>1. CASE b = i
      <4>1. v[j] = w[j] /\ v[k] = w[k] /\ k # i
        BY <1>5, <1>13, <2>1, <2>3, <3>1
      <4>2. QED
        BY <1>10, <2>1, <4>1
    <3>2. CASE b > i
      <4>1. k \in C /\ i <= k /\ k < b /\ b = D[k]
        BY <1>5, <1>7, <2>1, <2>3, <3>2
      <4>2. v[k] = w[b] /\ v[j] = w[i]
        BY <1>13, <2>1, <2>3, <4>1
      <4>3. w[b] < w[i] /\ w[b] \in Int /\ w[i] \in Int
        BY <1>3, <1>5, <1>6, <4>1
      <4>4. QED
        BY <2>1, <4>2, <4>3
    <3>3. QED
      BY <1>5, <3>1, <3>2
  <2>4. CASE j # b /\ j \in C /\ j >= i
    <3>1. j < b
      BY <1>5, <1>14, <2>1, <2>4
    <3>2. v[j] = w[D[j]]
      BY <1>13, <2>1, <2>4
    <3>3. D[j] \in C /\ j < D[j]
      BY <1>6, <2>4, <3>1
    <3>4. D[j] \in 2 .. n /\ D[j] \div 2 = j
      <4>1. D[j] \in 1 .. b
        BY <1>5, <3>3
      <4>2. D[j] \div 2 = j
        BY <1>3, <2>1, SmallerChildIs
      <4>3. QED
        BY <1>5, <2>1, <3>3, <4>1, <4>2
    <3>5. CASE j = i
      <4>1. v[k] = w[k] /\ i > 1
        <5>1. k < i /\ i > 1 /\ k # b
          BY <1>5, <2>1, <3>5
        <5>2. ~(k >= i)
          BY <1>5, <2>1, <5>1
        <5>3. QED
          BY <1>13, <2>1, <5>1, <5>2
      <4>2. w[i \div 2] <= w[D[j]]
        BY <1>11, <3>4, <3>5, <4>1
      <4>3. QED
        BY <2>1, <3>2, <3>5, <4>1, <4>2
    <3>6. CASE j > i
      <4>1. k \in C /\ i <= k /\ j = D[k] /\ k < b
        BY <1>5, <1>7, <2>1, <2>4, <3>1, <3>6
      <4>2. v[k] = w[j]
        BY <1>13, <2>1, <4>1
      <4>3. w[j] <= w[D[j]]
        BY <1>10, <3>4, <3>6
      <4>4. QED
        BY <2>1, <3>2, <4>2, <4>3
    <3>7. QED
      BY <1>5, <2>1, <2>4, <3>5, <3>6
  <2>5. CASE j # b /\ ~(j \in C /\ j >= i)
    <3>1. v[j] = w[j]
      BY <1>13, <2>1, <2>5
    <3>2. CASE k = b
      <4>1. v[k] = w[i] /\ w[i] <= w[D[k]]
        BY <1>9, <1>13, <2>1, <2>2, <3>2
      <4>2. w[i] \in Int /\ w[j] \in Int
        BY <1>3, <1>5, <2>1
      <4>3. QED
        BY <2>1, <2>2, <3>1, <4>1, <4>2
    <3>3. CASE k # b /\ k \in C /\ k >= i
      BY <1>13, <2>1, <2>2, <3>1, <3>3
    <3>4. CASE k # b /\ ~(k \in C /\ k >= i)
      <4>1. v[k] = w[k]
        BY <1>13, <2>1, <3>4
      <4>2. k # i
        BY <1>5, <3>4
      <4>3. QED
        BY <1>10, <2>1, <3>1, <4>1, <4>2
    <3>5. QED
      BY <3>2, <3>3, <3>4
  <2>6. QED
    BY <2>3, <2>4, <2>5
<1>17. ASSUME NEW j \in 2 .. n PROVE Fine(g, key, j)
  <2>1. j \in 1 .. n /\ j \div 2 \in 1 .. n
    OBVIOUS
  <2>2. QED
    BY <1>15, <1>16, <2>1 DEF Fine
<1>18. QED
  BY <1>15, <1>17, HeapIsFine

-----------------------------------------------------------------------------
(* The operations on heaps                                                 *)

LEMMA PositionIs ==
  ASSUME NEW h, NEW x \in Items(h)
  PROVE  Position(h, x) \in 1 .. Len(h) /\ h[Position(h, x)] = x
<1>1. \E i \in 1 .. Len(h) : h[i] = x
  BY DEF Items
<1>2. QED
  BY <1>1 DEF Position

LEMMA PushUpIs ==
  ASSUME NEW X, NEW h \in Seq(X), NEW key, NEW i \in 1 .. Len(h)
  PROVE  /\ PushUp(h, key, i) \in Seq(X) /\ Rearranged(PushUp(h, key, i), h)
         /\ key \in [X -> Int] /\ HeapBut(h, key, i) /\ NotTooLarge(h, key, i)
              => IsHeap(PushUp(h, key, i), key)
<1>1. PICK g : g = PushUp(h, key, i)
  OBVIOUS
<1>2. i \in Nat \ {0}
  OBVIOUS
<1>3. PICK C, t : TopOf(h, key, i, C, t) /\ Lifted(g, h, i, C, t)
  BY <1>1, <1>2, PushUpLifts
<1>4. IsChain(C, i) /\ t \in C
  BY <1>3 DEF TopOf
<1>5. g \in Seq(X) /\ Rearranged(g, h)
  BY <1>3, <1>4, LiftedRearranges
<1>6. key \in [X -> Int] /\ HeapBut(h, key, i) /\ NotTooLarge(h, key, i) => IsHeap(g, key)
  BY <1>3, LiftedOrder
<1>7. QED
  BY <1>1, <1>5, <1>6

LEMMA MarkUpdatedIs ==
  ASSUME NEW X, NEW h \in Seq(X), NEW key, NEW i \in 1 .. Len(h)
  PROVE  /\ MarkUpdated(h, key, i) \in Seq(X) /\ Rearranged(MarkUpdated(h, key, i), h)
         /\ key \in [X -> Int] /\ HeapBut(h, key, i) => IsHeap(MarkUpdated(h, key, i), key)
<1>1. PICK u, g : u = PushUp(h, key, i) /\ g = PushDown(u, key, i)
  OBVIOUS
<1>2. i \in Nat \ {0}
  OBVIOUS
<1>3. PICK C, t : TopOf(h, key, i, C, t) /\ Lifted(u, h, i, C, t)
  BY <1>1, <1>2, PushUpLifts
<1>4. IsChain(C, i) /\ t \in C
  BY <1>3 DEF TopOf
<1>5. u \in Seq(X) /\ Rearranged(u, h)
  BY <1>3, <1>4, LiftedRearranges
<1>6. i \in 1 .. Len(u) /\ Len(u) \in Nat
  BY <1>5 DEF Rearranged
<1>7. PICK D, b : BottomOf(u, key, i, D, b) /\ Sunk(g, u, key, i, D, b)
  BY <1>1, <1>6, PushDownSinks
<1>8. PathTo(u, key, i, D, b)
  BY <1>7 DEF BottomOf
<1>9. g \in Seq(X) /\ Rearranged(g, u)
  BY <1>5, <1>7, <1>8, SunkRearranges
<1>10. Rearranged(g, h)
  BY <1>5, <1>9 DEF Rearranged
<1>11. key \in [X -> Int] /\ HeapBut(h, key, i) => IsHeap(g, key)
  <2>1. SUFFICES ASSUME key \in [X -> Int], HeapBut(h, key, i) PROVE IsHeap(g, key)
    OBVIOUS
  <2>2. HeapBut(u, key, i) /\ NotTooSmall(u, key, i)
    BY <1>3, <2>1, LiftedOrder
  <2>3. QED
    BY <1>5, <1>7, <2>1, <2>2, SunkOrder
<1>12. QED
  BY <1>1, <1>9, <1>10, <1>11 DEF MarkUpdated

\* A heap stays one, but for one item, when the key of that item changes.
LEMMA KeyChanged ==
  ASSUME NEW X, NEW h \in Seq(X), NoRepeat(h), NEW key \in [X -> Int], IsHeap(h, key),
         NEW i \in 1 .. Len(h), NEW new,
         \A y \in X : y # h[i] => new[y] = key[y]
  PROVE  /\ HeapBut(h, new, i)
         /\ new[h[i]] \in Int /\ new[h[i]] <= key[h[i]] => NotTooLarge(h, new, i)
<1>1. PICK n \in Nat : n = Len(h)
  OBVIOUS
<1>2. \A j \in 1 .. n : h[j] \in X /\ key[h[j]] \in Int /\ (j # i => new[h[j]] = key[h[j]])
  BY <1>1 DEF NoRepeat
<1>3. \A j \in 2 .. n : key[h[j \div 2]] <= key[h[j]]
  BY <1>1 DEF IsHeap
<1>4. ASSUME NEW j \in 2 .. n, j # i, j \div 2 # i PROVE Fine(h, new, j)
  <2>1. j \in 1 .. n /\ j \div 2 \in 1 .. n
    OBVIOUS
  <2>2. QED
    BY <1>2, <1>3, <1>4, <2>1 DEF Fine
<1>5. ASSUME i > 1, NEW j \in 2 .. n, j \div 2 = i PROVE new[h[i \div 2]] <= new[h[j]]
  <2>1. /\ j \in 1 .. n /\ i \div 2 \in 1 .. n /\ i \in 2 .. n /\ i \in 1 .. n
        /\ j # i /\ i \div 2 # i
    BY <1>1, <1>5
  <2>2. key[h[i \div 2]] <= key[h[i]] /\ key[h[i]] <= key[h[j]]
    BY <1>3, <1>5, <2>1
  <2>3. /\ new[h[j]] = key[h[j]] /\ new[h[i \div 2]] = key[h[i \div 2]]
        /\ key[h[j]] \in Int /\ key[h[i]] \in Int /\ key[h[i \div 2]] \in Int
    BY <1>2, <2>1
  <2>4. QED
    BY <2>2, <2>3
<1>6. HeapBut(h, new, i)
  BY <1>1, <1>4, <1>5 DEF HeapBut
<1>7. ASSUME new[h[i]] \in Int, new[h[i]] <= key[h[i]], NEW j \in 2 .. n, j \div 2 = i
      PROVE  Fine(h, new, j)
  <2>1. j \in 1 .. n /\ i \in 1 .. n /\ j # i
    BY <1>1, <1>7
  <2>2. key[h[i]] <= key[h[j]]
    BY <1>3, <1>7
  <2>3. new[h[j]] = key[h[j]] /\ key[h[j]] \in Int /\ key[h[i]] \in Int
    BY <1>2, <2>1
  <2>4. new[h[i]] <= new[h[j]]
    BY <1>7, <2>2, <2>3
  <2>5. QED
    BY <1>7, <2>4 DEF Fine
<1>8. QED
  BY <1>1, <1>6, <1>7 DEF NotTooLarge

LEMMA HeapInsertIs ==
  ASSUME NEW X, NEW h \in Seq(X), NEW key, NEW x \in X
  PROVE  LET g == HeapInsert(h, key, x)
         IN /\ g \in Seq(X) /\ Items(g) = Items(h) \cup {x}
            /\ NoRepeat(h) /\ x \notin Items(h) => NoRepeat(g)
            /\ key \in [X -> Int] /\ IsHeap(h, key) => IsHeap(g, key)
<1>1. PICK n \in Nat : n = Len(h)
  OBVIOUS
<1>2. PICK a : a = Append(h, x)
  OBVIOUS
<1>3. /\ a \in Seq(X) /\ Len(a) = n + 1 /\ a[n + 1] = x
      /\ \A j \in 1 .. n : a[j] = h[j]
  BY <1>1, <1>2
<1>4. PICK g : g = PushUp(a, key, n + 1) /\ g = HeapInsert(h, key, x)
  BY <1>1, <1>2 DEF HeapInsert
<1>5. n + 1 \in 1 .. Len(a)
  BY <1>3
<1>6. g \in Seq(X) /\ Rearranged(g, a)
  BY <1>3, <1>4, <1>5, PushUpIs
<1>7. Items(a) = Items(h) \cup {x}
  <2>1. \A y \in Items(a) : y \in Items(h) \cup {x}
    <3>1. SUFFICES ASSUME NEW j \in 1 .. n + 1 PROVE a[j] \in Items(h) \cup {x}
      BY <1>3 DEF Items
    <3>2. CASE j = n + 1
      BY <1>3, <3>2
    <3>3. CASE j \in 1 .. n
      BY <1>1, <1>3, <3>3 DEF Items
    <3>4. QED
      BY <3>2, <3>3
  <2>2. \A y \in Items(h) : y \in Items(a)
    <3>1. SUFFICES ASSUME NEW j \in 1 .. n PROVE h[j] \in Items(a)
      BY <1>1 DEF Items
    <3>2. j \in 1 .. Len(a) /\ a[j] = h[j]
      BY <1>3
    <3>3. QED
      BY <3>2 DEF Items
  <2>3. x \in Items(a)
    BY <1>3, <1>5 DEF Items
  <2>4. QED
    BY <2>1, <2>2, <2>3
<1>8. NoRepeat(h) /\ x \notin Items(h) => NoRepeat(a)
  <2>1. SUFFICES ASSUME NoRepeat(h), x \notin Items(h),
                        NEW j \in 1 .. n + 1, NEW k \in 1 .. n + 1, a[j] = a[k]
                 PROVE  j = k
    BY <1>3 DEF NoRepeat
  <2>2. \A m \in 1 .. n : a[m] # x
    BY <1>1, <1>3, <2>1 DEF Items
  <2>3. CASE j \in 1 .. n /\ k \in 1 .. n
    BY <1>1, <1>3, <2>1, <2>3 DEF NoRepeat
  <2>4. CASE j = n + 1 \/ k = n + 1
    BY <1>3, <2>1, <2>2, <2>4
  <2>5. QED
    BY <2>3, <2>4
<1>9. key \in [X -> Int] /\ IsHeap(h, key) => IsHeap(g, key)
  <2>1. SUFFICES ASSUME key \in [X -> Int], IsHeap(h, key) PROVE IsHeap(g, key)
    OBVIOUS
  <2>2. ASSUME NEW j \in 2 .. n + 1 PROVE j \div 2 # n + 1 /\ (j # n + 1 => Fine(a, key, j))
    <3>1. j \div 2 \in 1 .. n
      OBVIOUS
    <3>2. ASSUME j # n + 1 PROVE Fine(a, key, j)
      <4>1. j \in 2 .. n /\ j \in 1 .. n
        BY <3>2
      <4>2. key[h[j \div 2]] <= key[h[j]]
        BY <1>1, <2>1, <4>1 DEF IsHeap
      <4>3. QED
        BY <1>3, <3>1, <4>1, <4>2 DEF Fine
    <3>3. QED
      BY <3>1, <3>2
  <2>3. HeapBut(a, key, n + 1) /\ NotTooLarge(a, key, n + 1)
    BY <1>3, <2>2 DEF HeapBut, NotTooLarge
  <2>4. QED
    BY <1>3, <1>4, <1>5, <2>1, <2>3, PushUpIs
<1>10. Items(g) = Items(h) \cup {x} /\ (NoRepeat(h) /\ x \notin Items(h) => NoRepeat(g))
  BY <1>6, <1>7, <1>8 DEF Rearranged
<1>11. QED
  BY <1>4, <1>6, <1>9, <1>10

LEMMA HeapRemoveIs ==
  ASSUME NEW X, NEW h \in Seq(X), NoRepeat(h), NEW key, NEW i \in 1 .. Len(h)
  PROVE  LET g == HeapRemove(h, key, i)
         IN /\ g \in Seq(X) /\ Items(g) = Items(h) \ {h[i]} /\ NoRepeat(g)
            /\ key \in [X -> Int] /\ IsHeap(h, key) => IsHeap(g, key)
<1>1. PICK n \in Nat : n = Len(h) /\ i \in 1 .. n
  OBVIOUS
<1>2. PICK s : s = SubSeq(h, 1, n - 1)
  OBVIOUS
<1>3. s \in Seq(X) /\ Len(s) = n - 1 /\ \A j \in 1 .. n - 1 : s[j] = h[j]
  BY <1>1, <1>2
<1>4. \A j, k \in 1 .. n : h[j] = h[k] => j = k
  BY <1>1 DEF NoRepeat
<1>5. CASE i = n
  <2>1. HeapRemove(h, key, i) = s
    BY <1>1, <1>2, <1>5 DEF HeapRemove
  <2>2. Items(s) = Items(h) \ {h[i]}
    <3>1. \A j \in 1 .. n - 1 : h[j] \in Items(h) /\ h[j] # h[n]
      BY <1>1, <1>4 DEF Items
    <3>2. ASSUME NEW y \in Items(s) PROVE y \in Items(h) \ {h[i]}
      <4>1. PICK j \in 1 .. n - 1 : y = s[j]
        BY <1>3 DEF Items
      <4>2. QED
        BY <1>3, <1>5, <3>1, <4>1
    <3>3. ASSUME NEW y \in Items(h), y # h[i] PROVE y \in Items(s)
      <4>1. PICK j \in 1 .. n : y = h[j]
        BY <1>1 DEF Items
      <4>2. j \in 1 .. n - 1
        BY <1>5, <3>3, <4>1
      <4>3. QED
        BY <1>3, <4>1, <4>2 DEF Items
    <3>4. QED
      BY <3>2, <3>3
  <2>3. NoRepeat(s)
    BY <1>3, <1>4 DEF NoRepeat
  <2>4. ASSUME IsHeap(h, key) PROVE IsHeap(s, key)
    <3>1. SUFFICES ASSUME NEW j \in 2 .. n - 1 PROVE key[s[j \div 2]] <= key[s[j]]
      BY <1>3 DEF IsHeap
    <3>2. j \in 1 .. n - 1 /\ j \div 2 \in 1 .. n - 1 /\ j \in 2 .. n
      OBVIOUS
    <3>3. key[h[j \div 2]] <= key[h[j]]
      BY <1>1, <2>4, <3>2 DEF IsHeap
    <3>4. QED
      BY <1>3, <3>2, <3>3
  <2>5. QED
    BY <1>3, <2>1, <2>2, <2>3, <2>4
<1>6. CASE i # n
  <2>0. n - 1 \in Nat /\ i \in 1 .. n - 1
    BY <1>1, <1>6
  <2>1. PICK m \in Nat : m = n - 1 /\ i \in 1 .. m
    BY <2>0
  <2>2. PICK a : a = [s EXCEPT ![i] = h[n]]
    OBVIOUS
  <2>3. PICK g : g = MarkUpdated(a, key, i) /\ g = HeapRemove(h, key, i)
    BY <1>1, <1>2, <1>6, <2>2 DEF HeapRemove
  <2>4. s \in [1 .. m -> X] /\ h[n] \in X
    <3>1. s \in [1 .. m -> X]
      BY <1>3, <2>1
    <3>2. n \in 1 .. n
      BY <1>1
    <3>3. QED
      BY <1>1, <3>1, <3>2
  <2>5. a \in [1 .. m -> X] /\ \A j \in 1 .. m : a[j] = IF j = i THEN h[n] ELSE h[j]
    BY <1>3, <2>1, <2>2, <2>4
  <2>6. a \in Seq(X) /\ Len(a) = m
    BY <2>5
  <2>61. i \in 1 .. Len(a)
    BY <2>1, <2>6
  <2>7. g \in Seq(X) /\ Rearranged(g, a)
    <3>1. MarkUpdated(a, key, i) \in Seq(X) /\ Rearranged(MarkUpdated(a, key, i), a)
      BY ONLY <2>6, <2>61, MarkUpdatedIs
    <3>2. QED
      BY <2>3, <3>1
  <2>8. Items(a) = Items(h) \ {h[i]}
    <3>1. ASSUME NEW y \in Items(a) PROVE y \in Items(h) \ {h[i]}
      <4>1. PICK j \in 1 .. m : y = a[j]
        BY <2>6 DEF Items
      <4>2. PICK k \in 1 .. n : k # i /\ y = h[k]
        <5>1. n \in 1 .. n /\ j \in 1 .. n
          BY <1>1, <2>1
        <5>2. QED
          BY <1>6, <2>5, <4>1, <5>1
      <4>3. QED
        BY <1>1, <1>4, <4>2 DEF Items
    <3>2. ASSUME NEW y \in Items(h), y # h[i] PROVE y \in Items(a)
      <4>1. PICK k \in 1 .. n : y = h[k]
        BY <1>1 DEF Items
      <4>2. PICK j \in 1 .. m : y = a[j]
        <5>1. CASE k = n
          BY <2>1, <2>5, <4>1, <5>1
        <5>2. CASE k # n
          <6>1. k \in 1 .. m /\ k # i
            BY <2>1, <3>2, <4>1, <5>2
          <6>2. QED
            BY <2>5, <4>1, <6>1
        <5>3. QED
          BY <5>1, <5>2
      <4>3. QED
        BY <2>6, <4>2 DEF Items
    <3>3. QED
      BY <3>1, <3>2
  <2>9. NoRepeat(a)
    <3>1. SUFFICES ASSUME NEW j \in 1 .. m, NEW k \in 1 .. m, a[j] = a[k] PROVE j = k
      BY <2>6 DEF NoRepeat
    <3>2. \A l \in 1 .. m : l \in 1 .. n /\ h[l] # h[n]
      BY <1>4, <2>1
    <3>3. QED
      BY <1>4, <2>5, <3>1, <3>2
  <2>10. key \in [X -> Int] /\ IsHeap(h, key) => IsHeap(g, key)
    <3>1. SUFFICES ASSUME key \in [X -> Int], IsHeap(h, key) PROVE IsHeap(g, key)
      OBVIOUS
    <3>2. \A j \in 1 .. n : h[j] \in X /\ key[h[j]] \in Int
      BY <1>1, <3>1
    <3>3. \A j \in 2 .. n : key[h[j \div 2]] <= key[h[j]]
      BY <1>1, <3>1 DEF IsHeap
    <3>4. ASSUME NEW j \in 2 .. m, j # i, j \div 2 # i PROVE Fine(a, key, j)
      <4>1. j \in 1 .. m /\ j \div 2 \in 1 .. m /\ j \in 2 .. n
        BY <2>1
      <4>2. QED
        BY <2>5, <3>3, <3>4, <4>1 DEF Fine
    <3>5. ASSUME i > 1, NEW j \in 2 .. m, j \div 2 = i PROVE key[a[i \div 2]] <= key[a[j]]
      <4>1. /\ j \in 1 .. m /\ i \div 2 \in 1 .. m /\ i \in 2 .. n /\ j \in 2 .. n
            /\ j \in 1 .. n /\ i \in 1 .. n /\ i \div 2 \in 1 .. n /\ j # i /\ i \div 2 # i
        BY <2>1, <3>5
      <4>2. key[h[i \div 2]] <= key[h[i]] /\ key[h[i]] <= key[h[j]]
        BY <3>3, <3>5, <4>1
      <4>3. a[j] = h[j] /\ a[i \div 2] = h[i \div 2]
        BY <2>5, <4>1
      <4>4. QED
        BY <3>2, <4>1, <4>2, <4>3
    <3>6. HeapBut(a, key, i)
      BY <2>6, <3>4, <3>5 DEF HeapBut
    <3>7. IsHeap(MarkUpdated(a, key, i), key)
      BY <2>6, <2>61, <3>1, <3>6, MarkUpdatedIs
    <3>8. QED
      BY <2>3, <3>7
  <2>11. Items(g) = Items(h) \ {h[i]} /\ NoRepeat(g)
    BY <2>7, <2>8, <2>9 DEF Rearranged
  <2>12. QED
    BY <2>3, <2>7, <2>10, <2>11
<1>7. QED
  BY <1>5, <1>6

\* A heap's least key is at its top.
LEMMA HeapTop ==
  ASSUME NEW X, NEW h \in Seq(X), NEW key \in [X -> Int], IsHeap(h, key)
  PROVE  \A x \in Items(h) : key[h[1]] <= key[x]
<1>1. Len(h) \in Nat /\ \A j \in 1 .. Len(h) : h[j] \in X /\ key[h[j]] \in Int
  OBVIOUS
<1> DEFINE W == {n \in Nat : \A j \in 1 .. n : j <= Len(h) => key[h[1]] <= key[h[j]]}
<1>2. 0 \in W
  OBVIOUS
<1>3. ASSUME NEW n \in W PROVE n + 1 \in W
  <2>1. SUFFICES ASSUME NEW j \in 1 .. n + 1, j <= Len(h) PROVE key[h[1]] <= key[h[j]]
    OBVIOUS
  <2>2. n \in Nat /\ \A k \in 1 .. n : k <= Len(h) => key[h[1]] <= key[h[k]]
    OBVIOUS
  <2>3. CASE j = 1
    BY <1>1, <2>1, <2>3
  <2>4. CASE j # 1
    <3>1. j \in 2 .. Len(h) /\ j \in 1 .. Len(h) /\ 1 \in 1 .. Len(h)
      BY <1>1, <2>1, <2>4
    <3>2. j \div 2 \in 1 .. n /\ j \div 2 <= Len(h) /\ j \div 2 \in 1 .. Len(h)
      BY <1>1, <2>1, <2>2, <3>1
    <3>3. key[h[j \div 2]] <= key[h[j]]
      BY <3>1 DEF IsHeap
    <3>4. key[h[1]] <= key[h[j \div 2]]
      BY <2>2, <3>2
    <3>5. QED
      BY <1>1, <3>1, <3>2, <3>3, <3>4
  <2>5. QED
    BY <2>3, <2>4
<1>4. W = Nat
  <2>1. W \in SUBSET Nat
    OBVIOUS
  <2> HIDE DEF W
  <2>2. QED
    BY <1>2, <1>3, <2>1, NatSetInduction
<1>5. Len(h) \in W
  BY <1>1, <1>4
<1>6. \A j \in 1 .. Len(h) : key[h[1]] <= key[h[j]]
  BY <1>1, <1>5
<1>7. QED
  BY <1>6 DEF Items

\* A heap without repetition has as many slots as items.
LEMMA HeapSize ==
  ASSUME NEW X, NEW h \in Seq(X), NoRepeat(h)
  PROVE  IsFiniteSet(Items(h)) /\ Cardinality(Items(h)) = Len(h)
<1>1. PICK n \in Nat : n = Len(h)
  OBVIOUS
<1>2. PICK T, f : T = Items(h) /\ f = [j \in 1 .. n |-> h[j]]
  OBVIOUS
<1>3. f \in [1 .. n -> T] /\ \A j \in 1 .. n : f[j] = h[j]
  BY <1>1, <1>2 DEF Items
<1>4. \A y \in T : \E j \in 1 .. n : f[j] = y
  BY <1>1, <1>2, <1>3 DEF Items
<1>5. f \in Surjection(1 .. n, T)
  BY <1>3, <1>4 DEF Surjection
<1>6. f \in Injection(1 .. n, T)
  BY <1>1, <1>3 DEF Injection, IsInjective, NoRepeat
<1>7. IsFiniteSet(1 .. n) /\ Cardinality(1 .. n) = n
  <2>1. Cardinality(1 .. n) = IF 1 > n THEN 0 ELSE n - 1 + 1
    BY FS_Interval
  <2>2. (IF 1 > n THEN 0 ELSE n - 1 + 1) = n
    OBVIOUS
  <2>3. QED
    BY <2>1, <2>2, FS_Interval
<1>8. IsFiniteSet(T) /\ Cardinality(T) = Cardinality(1 .. n)
  BY <1>5, <1>6, <1>7, FS_Surjection
<1>9. QED
  BY <1>1, <1>2, <1>7, <1>8
=============================================================================
