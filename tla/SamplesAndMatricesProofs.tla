---------------------- MODULE SamplesAndMatricesProofs ----------------------
(***************************************************************************)
(* What SamplesAndMatrices says of FD_ATTP, of the exact baselines and of  *)
(* the samples of slots, proved for every size and every stream.           *)
(***************************************************************************)
EXTENDS SamplesAndMatrices, DataLemmas, SequenceTheorems

Line == [axis : Axis, norm : Nat]
Matrix == [Axis -> Nat]

LEMMA AxisFacts ==
  /\ Cardinality(Axis) \in Nat /\ IsFiniteSet(Axis)
  /\ Axis = 1 .. Cardinality(Axis)
  /\ \A a \in Axis : a \in Nat
  /\ HalfSizes \subseteq 1 .. Cardinality(Axis)
<1>1. IsFiniteSet(Axis) /\ Axis = 1 .. Cardinality(Axis)
      /\ HalfSizes \subseteq 1 .. Cardinality(Axis)
  BY HalfSizesAssumption
<1>2. Cardinality(Axis) \in Nat
  BY <1>1, FS_CardinalityType
<1>3. \A a \in 1 .. Cardinality(Axis) : a \in Nat
  BY <1>2
<1> QED BY <1>1, <1>2, <1>3

-----------------------------------------------------------------------------
(* The sum of a sequence of rows *)

\* m is the matrix after each of the first n lines of B.
Adding(m, B, n) ==
  m = [k \in 0 .. n |-> IF k = 0 THEN FD!Zero ELSE FD!Dspr(m[k - 1], B[k])]

LEMMA AddingExists ==
  ASSUME NEW B, NEW n \in Nat
  PROVE  \E m : Adding(m, B, n)
<1> DEFINE W == {k \in Nat : \E m : Adding(m, B, k)}
<1>1. 0 \in W
  <2>1. Adding([k \in 0 .. 0 |-> FD!Zero], B, 0)
    BY DEF Adding
  <2> QED BY <2>1
<1>2. ASSUME NEW k \in W PROVE k + 1 \in W
  <2>1. PICK m : Adding(m, B, k)
    OBVIOUS
  <2>2. PICK g : g = [i \in 0 .. (k + 1) |->
                        IF i = k + 1 THEN FD!Dspr(m[k], B[k + 1]) ELSE m[i]]
    OBVIOUS
  <2>3. ASSUME NEW i \in 0 .. (k + 1)
        PROVE  g[i] = IF i = 0 THEN FD!Zero ELSE FD!Dspr(g[i - 1], B[i])
    <3>1. CASE i = k + 1
      <4>1. i # 0 /\ i - 1 = k /\ k \in 0 .. (k + 1) /\ k # k + 1
        BY <3>1
      <4>2. g[k] = m[k]
        BY <2>2, <4>1
      <4> QED BY <2>2, <3>1, <4>1, <4>2
    <3>2. CASE i # k + 1
      <4>1. i \in 0 .. k
        BY <3>2
      <4>2. g[i] = m[i]
        BY <2>2, <3>2
      <4>3. m[i] = IF i = 0 THEN FD!Zero ELSE FD!Dspr(m[i - 1], B[i])
        BY <2>1, <4>1 DEF Adding
      <4>4. i # 0 => g[i - 1] = m[i - 1]
        BY <2>2, <4>1
      <4> QED BY <4>2, <4>3, <4>4
    <3> QED BY <3>1, <3>2
  <2>4. Adding(g, B, k + 1)
    BY <2>2, <2>3 DEF Adding
  <2> QED BY <2>4
<1> HIDE DEF W
<1>3. W = Nat
  <2>1. W \in SUBSET Nat
    BY DEF W
  <2> QED BY <1>1, <1>2, <2>1, NatSetInduction
<1> QED BY <1>3 DEF W

LEMMA SummedIs ==
  ASSUME NEW B, Len(B) \in Nat
  PROVE  \E m : Adding(m, B, Len(B)) /\ FD!Summed(B) = m[Len(B)]
<1>1. \E m : Adding(m, B, Len(B))
  BY AddingExists
<1> DEFINE m == CHOOSE f : Adding(f, B, Len(B))
<1>2. Adding(m, B, Len(B))
  BY <1>1
<1>3. FD!Summed(B) = m[Len(B)]
  BY DEF FD!Summed, Adding
<1> QED BY <1>2, <1>3

Agree(B, D, n) == \A k \in 1 .. n : B[k] = D[k]

LEMMA AddingAgree ==
  ASSUME NEW B, NEW D, NEW p \in Nat, NEW n \in Nat, n <= p, Agree(B, D, n),
         NEW m, Adding(m, B, p), NEW h, Adding(h, D, n)
  PROVE  m[n] = h[n]
<1> DEFINE W == {k \in Nat : k <= n => m[k] = h[k]}
<1>1. 0 \in W
  <2>1. 0 \in 0 .. p /\ 0 \in 0 .. n
    OBVIOUS
  <2>2. m[0] = FD!Zero /\ h[0] = FD!Zero
    BY <2>1 DEF Adding
  <2> QED BY <2>2
<1>2. ASSUME NEW k \in W PROVE k + 1 \in W
  <2>1. SUFFICES ASSUME k + 1 <= n PROVE m[k + 1] = h[k + 1]
    OBVIOUS
  <2>2. /\ k + 1 \in 0 .. p /\ k + 1 \in 0 .. n /\ k + 1 # 0 /\ (k + 1) - 1 = k
        /\ k + 1 \in 1 .. n /\ k <= n
    BY <2>1
  <2>3. m[k + 1] = FD!Dspr(m[k], B[k + 1]) /\ h[k + 1] = FD!Dspr(h[k], D[k + 1])
    BY <2>2 DEF Adding
  <2>4. m[k] = h[k] /\ B[k + 1] = D[k + 1]
    BY <2>2 DEF Agree
  <2> QED BY <2>3, <2>4
<1> HIDE DEF W
<1>3. W = Nat
  <2>1. W \in SUBSET Nat
    BY DEF W
  <2> QED BY <1>1, <1>2, <2>1, NatSetInduction
<1> QED BY <1>3 DEF W

LEMMA SummedEmpty == FD!Summed(<<>>) = FD!Zero
<1>1. PICK m : Adding(m, <<>>, Len(<<>>)) /\ FD!Summed(<<>>) = m[Len(<<>>)]
  BY SummedIs
<1>2. Len(<<>>) = 0
  OBVIOUS
<1> QED BY <1>1, <1>2 DEF Adding

LEMMA SummedAppend ==
  ASSUME NEW B \in Seq(Line), NEW row \in Line, NEW D, D = Append(B, row)
  PROVE  FD!Summed(D) = FD!Dspr(FD!Summed(B), row)
<1>1. PICK n \in Nat : n = Len(B)
  OBVIOUS
<1>2. Len(D) = n + 1 /\ D[n + 1] = row /\ \A k \in 1 .. n : D[k] = B[k]
  BY <1>1
<1>3. PICK m : Adding(m, D, n + 1) /\ FD!Summed(D) = m[n + 1]
  <2>1. Len(D) \in Nat
    BY <1>2
  <2>2. PICK f : Adding(f, D, Len(D)) /\ FD!Summed(D) = f[Len(D)]
    BY ONLY <2>1, SummedIs
  <2> QED BY <1>2, <2>2
<1>4. PICK h : Adding(h, B, n) /\ FD!Summed(B) = h[n]
  BY <1>1, SummedIs
<1>5. m[n] = h[n]
  <2>1. n <= n + 1 /\ n + 1 \in Nat
    OBVIOUS
  <2>2. PICK p \in Nat : p = n + 1 /\ n <= p
    BY <2>1
  <2>3. Agree(D, B, n)
    BY <1>2 DEF Agree
  <2>4. Adding(m, D, p) /\ Adding(h, B, n)
    BY <1>3, <1>4, <2>2
  <2>5. n \in Nat /\ p \in Nat /\ n <= p
    BY <2>2
  <2> QED BY ONLY <2>3, <2>4, <2>5, AddingAgree
<1>6. m[n + 1] = FD!Dspr(m[n], D[n + 1])
  <2>1. n + 1 \in 0 .. (n + 1) /\ n + 1 # 0 /\ (n + 1) - 1 = n
    OBVIOUS
  <2> QED BY <1>3, <2>1 DEF Adding
<1> QED BY <1>2, <1>3, <1>4, <1>5, <1>6

LEMMA DsprType ==
  ASSUME NEW m \in Matrix, NEW row \in Line
  PROVE  /\ FD!Dspr(m, row) \in Matrix
         /\ \A a \in Axis : FD!Dspr(m, row)[a] =
                              IF a = row.axis THEN m[a] + row.norm ELSE m[a]
BY DEF FD!Dspr, Matrix, Line

LEMMA SummedType ==
  ASSUME NEW B \in Seq(Line)
  PROVE  FD!Summed(B) \in Matrix
<1>1. PICK n \in Nat : n = Len(B)
  OBVIOUS
<1>2. PICK m : Adding(m, B, n) /\ FD!Summed(B) = m[n]
  BY <1>1, SummedIs
<1> DEFINE W == {k \in Nat : k <= n => m[k] \in Matrix}
<1>3. 0 \in W
  <2>1. m[0] = FD!Zero
    BY <1>2 DEF Adding
  <2> QED BY <2>1 DEF FD!Zero, Matrix
<1>4. ASSUME NEW k \in W PROVE k + 1 \in W
  <2>1. SUFFICES ASSUME k + 1 <= n PROVE m[k + 1] \in Matrix
    OBVIOUS
  <2>2. k + 1 \in 0 .. n /\ k + 1 # 0 /\ (k + 1) - 1 = k /\ k + 1 \in 1 .. n /\ k <= n
    BY <2>1
  <2>3. m[k + 1] = FD!Dspr(m[k], B[k + 1])
    BY <1>2, <2>2 DEF Adding
  <2>4. m[k] \in Matrix /\ B[k + 1] \in Line
    BY <1>1, <2>2
  <2> QED BY <2>3, <2>4, DsprType
<1> HIDE DEF W
<1>5. W = Nat
  <2>1. W \in SUBSET Nat
    BY DEF W
  <2> QED BY <1>3, <1>4, <2>1, NatSetInduction
<1> QED BY <1>2, <1>5 DEF W

-----------------------------------------------------------------------------
(* The longest directions *)

LEMMA HeaviestOf ==
  ASSUME NEW m \in Matrix, NEW S \in SUBSET Axis, S # {}
  PROVE  \E b \in S : \A c \in S : m[c] <= m[b]
<1> DEFINE W == {k \in Nat : \A R \in SUBSET Axis :
                   R # {} /\ R \subseteq 1 .. k =>
                     \E b \in R : \A c \in R : m[c] <= m[b]}
<1>1. 0 \in W
  OBVIOUS
<1>2. ASSUME NEW k \in W PROVE k + 1 \in W
  <2>1. k \in Nat
    OBVIOUS
  <2>2. SUFFICES ASSUME NEW R \in SUBSET Axis, R # {}, R \subseteq 1 .. (k + 1)
                 PROVE  \E b \in R : \A c \in R : m[c] <= m[b]
    BY <2>1
  <2>3. \A c \in R : m[c] \in Nat
    BY DEF Matrix
  <2>4. CASE k + 1 \notin R
    <3>1. R \subseteq 1 .. k
      BY <2>1, <2>2, <2>4
    <3> QED BY <2>2, <3>1
  <2>5. CASE R = {k + 1}
    BY <2>3, <2>5
  <2>6. CASE k + 1 \in R /\ R # {k + 1}
    <3>1. PICK Q : Q = R \ {k + 1}
      OBVIOUS
    <3>2. Q \in SUBSET Axis /\ Q # {} /\ Q \subseteq 1 .. k
      BY <2>1, <2>2, <2>6, <3>1
    <3>3. PICK b \in Q : \A c \in Q : m[c] <= m[b]
      BY <3>2
    <3>4. CASE m[k + 1] <= m[b]
      BY <3>1, <3>3, <3>4
    <3>5. CASE ~(m[k + 1] <= m[b])
      <4>1. \A c \in R : m[c] <= m[k + 1]
        BY <2>3, <2>6, <3>1, <3>3, <3>5
      <4> QED BY <2>6, <4>1
    <3> QED BY <3>4, <3>5
  <2> QED BY <2>2, <2>4, <2>5, <2>6
<1> HIDE DEF W
<1>3. W = Nat
  <2>1. W \in SUBSET Nat
    BY DEF W
  <2> QED BY <1>1, <1>2, <2>1, NatSetInduction
<1>4. Cardinality(Axis) \in W /\ S \subseteq 1 .. Cardinality(Axis)
  BY <1>3, AxisFacts
<1> QED BY <1>4 DEF W

LEMMA TopIs ==
  ASSUME NEW B \in Seq(Line), Axis # {}
  PROVE  /\ FD!TopOf(B) \in Nat
         /\ \A a \in Axis : FD!Summed(B)[a] <= FD!TopOf(B)
         /\ \E a \in Axis : FD!Summed(B)[a] = FD!TopOf(B)
<1>1. PICK m \in Matrix : m = FD!Summed(B)
  BY SummedType
<1>2. PICK b \in Axis : \A c \in Axis : m[c] <= m[b]
  BY HeaviestOf
<1>3. PICK S : S = {m[a] : a \in Axis}
  OBVIOUS
<1>4. \A c \in Axis : m[c] \in Nat
  BY DEF Matrix
<1>5. m[b] \in S /\ \A y \in S : m[b] >= y
  BY <1>2, <1>3, <1>4
<1>6. FD!Max(S) = CHOOSE x \in S : \A y \in S : x >= y
  BY DEF FD!Max
<1>7. FD!Max(S) \in S /\ \A y \in S : FD!Max(S) >= y
  BY <1>5, <1>6
<1>8. FD!TopOf(B) = FD!Max(S)
  BY <1>1, <1>3 DEF FD!TopOf, FD!Covariance
<1>9. PICK t \in S : t = FD!TopOf(B) /\ \A y \in S : t >= y
  BY <1>7, <1>8
<1>10. PICK a \in Axis : t = m[a]
  BY <1>3, <1>9
<1>11. t \in Nat /\ \A c \in Axis : m[c] <= t
  BY <1>3, <1>4, <1>9, <1>10
<1> QED BY <1>1, <1>9, <1>10, <1>11

LEMMA TopBelow ==
  ASSUME NEW B \in Seq(Line), Axis # {}, NEW t \in Int,
         \A a \in Axis : FD!Summed(B)[a] <= t
  PROVE  FD!TopOf(B) <= t
BY TopIs

\* a comes before b when the axes are sorted by m.
Before(m, a, b) == m[a] > m[b] \/ (m[a] = m[b] /\ a < b)

Sorted(m, s, n) == \A i, j \in 1 .. n : i < j => Before(m, s[i], s[j])

LEMMA LongestOf ==
  ASSUME NEW m \in Matrix, NEW S \in SUBSET Axis, S # {}
  PROVE  \E b \in S : \A c \in S \ {b} : Before(m, b, c)
<1>1. PICK b \in S : \A c \in S : m[c] <= m[b]
  BY HeaviestOf
<1>2. PICK T : T = {c \in S : m[c] = m[b]}
  OBVIOUS
<1>3. T \in SUBSET Nat /\ T # {} /\ \A c \in S : m[c] \in Nat /\ c \in Nat
  BY <1>2, AxisFacts DEF Matrix
<1>4. PICK d \in T : \A c \in T : d <= c
  BY <1>3, LeastElement
<1>5. \A c \in S \ {d} : Before(m, d, c)
  BY <1>1, <1>2, <1>3, <1>4 DEF Before
<1> QED BY <1>2, <1>5

\* The axes no s[i] is.
Rest(s, n) == {a \in Axis : \A i \in 1 .. n : s[i] # a}

LEMMA RestIsLeft ==
  ASSUME NEW k \in Nat, k < Cardinality(Axis), NEW s \in [1 .. k -> Axis]
  PROVE  Rest(s, k) # {}
<1> SUFFICES ASSUME Rest(s, k) = {} PROVE FALSE
  OBVIOUS
<1>1. \A a \in Axis : \E i \in 1 .. k : s[i] = a
  BY DEF Rest
<1>2. s \in Surjection(1 .. k, Axis)
  BY <1>1 DEF Surjection
<1>3. IsFiniteSet(1 .. k) /\ Cardinality(1 .. k) = k
  <2>1. 1 \in Int /\ k \in Int
    OBVIOUS
  <2>2. IsFiniteSet(1 .. k) /\ Cardinality(1 .. k) = IF 1 > k THEN 0 ELSE k - 1 + 1
    BY <2>1, FS_Interval
  <2> QED BY <2>2
<1>4. Cardinality(Axis) <= Cardinality(1 .. k)
  BY <1>2, <1>3, FS_Surjection
<1> QED BY <1>3, <1>4, AxisFacts

LEMMA SortedExists ==
  ASSUME NEW m \in Matrix
  PROVE  \E s \in [1 .. Cardinality(Axis) -> Axis] : Sorted(m, s, Cardinality(Axis))
<1> DEFINE N == Cardinality(Axis)
           First(s, n) == Sorted(m, s, n) /\ \A a \in Rest(s, n) : \A i \in 1 .. n : Before(m, s[i], a)
           W == {k \in Nat : k <= N => \E s \in [1 .. k -> Axis] : First(s, k)}
<1>0. N \in Nat
  BY AxisFacts
<1>1. 0 \in W
  <2>1. First(<<>>, 0) /\ <<>> \in [1 .. 0 -> Axis]
    BY DEF Sorted
  <2> QED BY <2>1
<1>2. ASSUME NEW k \in W PROVE k + 1 \in W
  <2>1. k \in Nat
    OBVIOUS
  <2>2. SUFFICES ASSUME k + 1 <= N PROVE \E s \in [1 .. (k + 1) -> Axis] : First(s, k + 1)
    BY <2>1
  <2>3. PICK s \in [1 .. k -> Axis] : First(s, k)
    BY <1>0, <2>1, <2>2
  <2>4. PICK S : S = Rest(s, k)
    OBVIOUS
  <2>5. S \in SUBSET Axis /\ S # {}
    <3>1. k \in Nat /\ k < Cardinality(Axis)
      BY <1>0, <2>1, <2>2
    <3>2. Rest(s, k) # {}
      BY <3>1, RestIsLeft
    <3> QED BY <2>4, <3>2 DEF Rest
  <2>6. PICK b \in S : \A c \in S \ {b} : Before(m, b, c)
    BY <2>5, LongestOf
  <2>7. PICK t : t = [i \in 1 .. (k + 1) |-> IF i = k + 1 THEN b ELSE s[i]]
    OBVIOUS
  <2>8. /\ t[k + 1] = b /\ \A i \in 1 .. k : t[i] = s[i]
        /\ \A i \in 1 .. (k + 1) : i # k + 1 => i \in 1 .. k
    BY <2>1, <2>7
  <2>9. t \in [1 .. (k + 1) -> Axis]
    BY <2>5, <2>7, <2>8
  <2>10. \A i \in 1 .. k : Before(m, s[i], b)
    BY <2>3, <2>4, <2>6
  <2>11. ASSUME NEW i \in 1 .. (k + 1), NEW j \in 1 .. (k + 1), i < j
         PROVE  Before(m, t[i], t[j])
    <3>1. i \in 1 .. k
      BY <2>1, <2>11
    <3>2. CASE j = k + 1
      <4>1. t[i] = s[i] /\ t[j] = b
        BY <2>8, <3>1, <3>2
      <4>2. Before(m, s[i], b)
        BY <2>10, <3>1
      <4> QED BY <4>1, <4>2
    <3>3. CASE j # k + 1
      <4>1. j \in 1 .. k /\ t[i] = s[i] /\ t[j] = s[j]
        BY <2>8, <3>1, <3>3
      <4>2. Before(m, s[i], s[j])
        BY <2>3, <2>11, <3>1, <4>1 DEF Sorted
      <4> QED BY <4>1, <4>2
    <3> QED BY <3>2, <3>3
  <2>12. ASSUME NEW a \in Rest(t, k + 1), NEW i \in 1 .. (k + 1)
         PROVE  Before(m, t[i], a)
    <3>1. k + 1 \in 1 .. (k + 1) /\ \A j \in 1 .. k : j \in 1 .. (k + 1)
      BY <2>1
    <3>2. a \in S \ {b}
      BY <2>4, <2>8, <3>1 DEF Rest
    <3>3. CASE i = k + 1
      <4>1. Before(m, b, a)
        BY <2>6, <3>2
      <4> QED BY <2>8, <3>3, <4>1
    <3>4. CASE i # k + 1
      <4>1. i \in 1 .. k /\ t[i] = s[i]
        BY <2>8, <3>4
      <4>2. Before(m, s[i], a)
        BY <2>3, <2>4, <3>2, <4>1
      <4> QED BY <4>1, <4>2
    <3> QED BY <3>3, <3>4
  <2>13. First(t, k + 1)
    BY <2>11, <2>12 DEF Sorted
  <2> QED BY <2>9, <2>13
<1> HIDE DEF W
<1>3. W = Nat
  <2>1. W \in SUBSET Nat
    BY DEF W
  <2> QED BY <1>1, <1>2, <2>1, NatSetInduction
<1>4. N \in W
  BY <1>0, <1>3
<1> QED BY <1>0, <1>4 DEF W

LEMMA SameSize == \A S : FD!Cardinality(S) = Cardinality(S)
BY DEF FD!Cardinality, Cardinality

LEMMA LongestSorts ==
  ASSUME NEW m \in Matrix
  PROVE  /\ FD!Longest(m) \in [1 .. Cardinality(Axis) -> Axis]
         /\ Sorted(m, FD!Longest(m), Cardinality(Axis))
<1> DEFINE N == Cardinality(Axis)
           Goal(s) == \A i, j \in 1 .. N :
                        i < j => m[s[i]] > m[s[j]] \/ (m[s[i]] = m[s[j]] /\ s[i] < s[j])
<1>1. PICK s \in [1 .. N -> Axis] : Goal(s)
  BY SortedExists DEF Sorted, Before
<1>2. FD!Longest(m) = CHOOSE t \in [1 .. N -> Axis] : Goal(t)
  BY SameSize DEF FD!Longest
<1> HIDE DEF Goal
<1>3. FD!Longest(m) \in [1 .. N -> Axis] /\ Goal(FD!Longest(m))
  BY <1>1, <1>2
<1> QED BY <1>3 DEF Goal, Sorted, Before

\* What is left of the matrix m: n directions, each shortened by cut.
Shortened(D, m, s, n, cut) ==
  /\ D = [i \in 1 .. n |-> [axis |-> s[i], norm |-> m[s[i]] - cut]]
  /\ \A i \in 1 .. n : s[i] \in Axis /\ m[s[i]] > cut
  /\ \A i, j \in 1 .. n : i < j => s[i] # s[j]

LEMMA CompressedIs ==
  ASSUME NEW B \in Seq(Line), l \in 1 .. Cardinality(Axis)
  PROVE  \E s : \E n \in Nat : \E cut \in Nat :
           Shortened(FD!Compressed(B), FD!Summed(B), s, n, cut)
<1>1. PICK m \in Matrix : m = FD!Summed(B)
  BY SummedType
<1>2. PICK N \in Nat : N = Cardinality(Axis)
  BY AxisFacts
<1>3. PICK s \in [1 .. N -> Axis] : s = FD!Longest(m) /\ Sorted(m, s, N)
  BY <1>2, LongestSorts
<1>4. l \in Nat /\ l >= 1 /\ l <= N /\ l \in 1 .. N
  BY <1>2
<1>5. PICK cut \in Nat : cut = m[s[l]]
  BY <1>4 DEF Matrix
<1>6. PICK Z : Z = {i \in 1 .. l - 1 : m[s[i]] = cut} \cup {l}
  OBVIOUS
<1>7. Z \in SUBSET Nat /\ Z # {} /\ \A i \in Z : i >= 1 /\ i <= l
  BY <1>4, <1>6
<1>8. PICK z \in Z : \A i \in Z : z <= i
  BY <1>7, LeastElement
<1>9. FD!Min(Z) = z
  <2>1. FD!Min(Z) = CHOOSE x \in Z : \A y \in Z : x <= y
    BY DEF FD!Min
  <2>2. FD!Min(Z) \in Z /\ \A y \in Z : FD!Min(Z) <= y
    BY <1>8, <2>1
  <2>3. PICK y \in Z : y = FD!Min(Z) /\ y <= z
    BY <1>8, <2>2
  <2>4. z <= y /\ y \in Nat /\ z \in Nat
    BY <1>7, <1>8
  <2> QED BY <2>3, <2>4
<1>10. PICK n \in Nat : n = z - 1
  BY <1>7
<1>11. FD!Compressed(B) = [i \in 1 .. n |-> [axis |-> s[i], norm |-> m[s[i]] - cut]]
  BY <1>1, <1>3, <1>5, <1>6, <1>9, <1>10 DEF FD!Compressed, FD!Covariance
<1>12. ASSUME NEW i \in 1 .. n
       PROVE  s[i] \in Axis /\ m[s[i]] > cut
  <2>1. i \in 1 .. N /\ i < l /\ i \in 1 .. l - 1 /\ i < z
    BY <1>4, <1>7, <1>10
  <2>2. i \notin Z
    BY <1>7, <1>8, <2>1
  <2>3. m[s[i]] # cut
    BY <1>6, <2>1, <2>2
  <2>4. Before(m, s[i], s[l])
    BY <1>3, <1>4, <2>1 DEF Sorted
  <2>5. m[s[i]] \in Nat /\ s[i] \in Axis
    BY <2>1 DEF Matrix
  <2> QED BY <1>5, <2>3, <2>4, <2>5 DEF Before
<1>13. ASSUME NEW i \in 1 .. n, NEW j \in 1 .. n, i < j
       PROVE  s[i] # s[j]
  <2>1. i \in 1 .. N /\ j \in 1 .. N
    BY <1>4, <1>7, <1>10
  <2>2. Before(m, s[i], s[j])
    BY <1>3, <1>13, <2>1 DEF Sorted
  <2>3. m[s[i]] \in Nat /\ s[i] \in Nat
    BY <2>1, AxisFacts DEF Matrix
  <2> QED BY <2>2, <2>3 DEF Before
<1>14. Shortened(FD!Compressed(B), m, s, n, cut)
  BY <1>11, <1>12, <1>13 DEF Shortened
<1> QED BY <1>1, <1>14

\* A compression makes no direction longer.
LEMMA CompressedPays ==
  ASSUME NEW B \in Seq(Line), l \in 1 .. Cardinality(Axis)
  PROVE  /\ FD!Compressed(B) \in Seq(Line)
         /\ \A a \in Axis : FD!Summed(FD!Compressed(B))[a] <= FD!Summed(B)[a]
<1>1. PICK m \in Matrix : m = FD!Summed(B)
  BY SummedType
<1>2. PICK D : D = FD!Compressed(B)
  OBVIOUS
<1>3. \E s : \E n \in Nat : \E cut \in Nat : Shortened(D, m, s, n, cut)
  <2>1. \E s : \E n \in Nat : \E cut \in Nat :
          Shortened(FD!Compressed(B), FD!Summed(B), s, n, cut)
    BY CompressedIs
  <2> QED BY <1>1, <1>2, <2>1
<1>3a. PICK s : \E n \in Nat : \E cut \in Nat : Shortened(D, m, s, n, cut)
  BY <1>3
<1>3b. PICK n \in Nat, cut \in Nat : Shortened(D, m, s, n, cut)
  BY <1>3a
<1>4. ASSUME NEW i \in 1 .. n
      PROVE  /\ s[i] \in Axis /\ m[s[i]] \in Nat /\ m[s[i]] - cut \in Nat
             /\ D[i] = [axis |-> s[i], norm |-> m[s[i]] - cut]
  <2>1. s[i] \in Axis /\ m[s[i]] > cut
    BY <1>3b DEF Shortened
  <2>2. m[s[i]] \in Nat
    BY <2>1 DEF Matrix
  <2>3. D[i] = [axis |-> s[i], norm |-> m[s[i]] - cut]
    BY <1>3b DEF Shortened
  <2> QED BY <2>1, <2>2, <2>3
<1>5. D \in Seq(Line) /\ Len(D) = n
  <2>1. ASSUME NEW i \in 1 .. n PROVE D[i] \in Line
    <3>1. PICK a, w : a = s[i] /\ w = m[s[i]] - cut
      OBVIOUS
    <3>2. D[i] = [axis |-> a, norm |-> w] /\ a \in Axis /\ w \in Nat
      BY <1>4, <3>1
    <3> QED BY <3>2 DEF Line
  <2>2. D = [i \in 1 .. n |-> D[i]]
    BY <1>3b DEF Shortened
  <2>3. D \in [1 .. n -> Line]
    BY <2>1, <2>2
  <2> QED BY <2>3
<1>6. PICK h : Adding(h, D, n) /\ FD!Summed(D) = h[n]
  BY <1>5, SummedIs
<1> DEFINE Partial(k) == /\ h[k] \in Matrix
                         /\ \A a \in Axis :
                              \/ h[k][a] = 0
                              \/ (\E i \in 1 .. k : s[i] = a) /\ h[k][a] = m[a] - cut
           W == {k \in Nat : k <= n => Partial(k)}
<1>7. 0 \in W
  <2>1. h[0] = FD!Zero
    BY <1>6 DEF Adding
  <2> QED BY <2>1 DEF FD!Zero, Matrix
<1>8. ASSUME NEW k \in W PROVE k + 1 \in W
  <2>1. SUFFICES ASSUME k + 1 <= n PROVE Partial(k + 1)
    OBVIOUS
  <2>2. k + 1 \in 0 .. n /\ k + 1 # 0 /\ (k + 1) - 1 = k /\ k + 1 \in 1 .. n /\ k <= n
    BY <2>1
  <2>3. h[k + 1] = FD!Dspr(h[k], D[k + 1])
    BY <1>6, <2>2 DEF Adding
  <2>4. Partial(k) /\ D[k + 1] \in Line
    BY <1>5, <2>2
  <2>5. PICK b \in Axis, w \in Nat : D[k + 1] = [axis |-> b, norm |-> w]
                                /\ b = s[k + 1] /\ w = m[b] - cut
    BY <1>4, <2>2
  <2>6. D[k + 1].axis = b /\ D[k + 1].norm = w
    BY <2>5
  <2>7. h[k][b] = 0
    <3>1. ASSUME NEW i \in 1 .. k PROVE s[i] # b
      <4>1. i \in 1 .. n /\ i < k + 1
        BY <2>2
      <4> QED BY <1>3b, <2>2, <2>5, <4>1 DEF Shortened
    <3> QED BY <2>4, <3>1
  <2>8. PICK g \in Matrix : /\ g = h[k + 1]
                          /\ \A a \in Axis : g[a] = IF a = b THEN h[k][a] + w ELSE h[k][a]
    <3>1. PICK row \in Line, q \in Matrix : row = D[k + 1] /\ q = h[k]
      BY <2>4
    <3>2. /\ FD!Dspr(q, row) \in Matrix
          /\ \A a \in Axis : FD!Dspr(q, row)[a] =
                               IF a = row.axis THEN q[a] + row.norm ELSE q[a]
      BY DsprType
    <3> QED BY <2>3, <2>6, <3>1, <3>2
  <2>9. ASSUME NEW a \in Axis
        PROVE  g[a] = 0 \/ ((\E i \in 1 .. (k + 1) : s[i] = a) /\ g[a] = m[a] - cut)
    <3>1. CASE a = b
      <4>1. k + 1 \in 1 .. (k + 1) /\ s[k + 1] = a
        BY <2>2, <2>5, <3>1
      <4>2. g[a] = m[a] - cut
        BY <2>5, <2>7, <2>8, <3>1
      <4> QED BY <4>1, <4>2
    <3>2. CASE a # b
      <4>1. g[a] = h[k][a] /\ \A i \in 1 .. k : i \in 1 .. (k + 1)
        BY <2>2, <2>8, <3>2
      <4> QED BY <2>4, <4>1
    <3> QED BY <3>1, <3>2
  <2> QED BY <2>8, <2>9
<1> HIDE DEF W
<1>9. W = Nat
  <2>1. W \in SUBSET Nat
    BY DEF W
  <2> QED BY <1>7, <1>8, <2>1, NatSetInduction
<1>10. Partial(n)
  BY <1>9 DEF W
<1>11. \A a \in Axis : h[n][a] <= m[a]
  BY <1>10 DEF Matrix
<1> QED BY <1>1, <1>2, <1>5, <1>6, <1>11

-----------------------------------------------------------------------------
(* A row, and the rows that are popped *)

LEMMA EmptyTop ==
  ASSUME Axis # {}
  PROVE  <<>> \in Seq(Line) /\ FD!TopOf(<<>>) = 0
<1>1. <<>> \in Seq(Line)
  OBVIOUS
<1>2. PICK a \in Axis : FD!Summed(<<>>)[a] = FD!TopOf(<<>>)
  BY <1>1, TopIs
<1>3. FD!Zero[a] = 0
  BY DEF FD!Zero
<1> QED BY <1>1, <1>2, <1>3, SummedEmpty

LEMMA RowLengthens ==
  ASSUME NEW B \in Seq(Line), NEW row \in Line, l \in 1 .. Cardinality(Axis), Axis # {}
  PROVE  /\ FD!FDUpdate(B, row) \in Seq(Line)
         /\ FD!TopOf(FD!FDUpdate(B, row)) <= FD!TopOf(B) + row.norm
<1>1. PICK A : A = IF Len(B) = 2 * l THEN FD!Compressed(B) ELSE B
  OBVIOUS
<1>2. A \in Seq(Line) /\ \A a \in Axis : FD!Summed(A)[a] <= FD!Summed(B)[a]
  <2>1. \A a \in Axis : FD!Summed(B)[a] <= FD!Summed(B)[a]
    BY SummedType DEF Matrix
  <2> QED BY <1>1, <2>1, CompressedPays
<1>3. PICK D : D = Append(A, row) /\ D = FD!FDUpdate(B, row)
  BY <1>1 DEF FD!FDUpdate
<1>4. D \in Seq(Line)
  <2>1. A \in Seq(Line)
    BY <1>2
  <2>2. Append(A, row) \in Seq(Line)
    BY ONLY <2>1, row \in Line
  <2> QED BY <1>3, <2>2
<1>5. PICK m \in Matrix : m = FD!Summed(A)
  BY <1>2, SummedType
<1>6. FD!Summed(D) = FD!Dspr(m, row)
  BY <1>2, <1>3, <1>5, SummedAppend
<1>7. PICK t \in Nat : t = FD!TopOf(B) /\ \A a \in Axis : FD!Summed(B)[a] <= t
  BY TopIs
<1>8. PICK w \in Nat : w = row.norm
  BY DEF Line
<1>9. ASSUME NEW a \in Axis
      PROVE  FD!Summed(D)[a] <= t + w
  <2>1. PICK u \in Nat, v \in Nat : u = m[a] /\ v = FD!Summed(B)[a]
    BY SummedType DEF Matrix
  <2>2. u <= v /\ v <= t
    BY <1>2, <1>5, <1>7, <2>1
  <2>3. FD!Summed(D)[a] = IF a = row.axis THEN u + w ELSE u
    BY <1>6, <1>8, <2>1, DsprType
  <2> QED BY <2>2, <2>3
<1>10. FD!TopOf(D) <= t + w
  <2>1. t + w \in Int
    OBVIOUS
  <2> QED BY <1>4, <1>9, <2>1, TopBelow
<1> QED BY <1>3, <1>4, <1>7, <1>8, <1>10

LEMMA PoppedLines ==
  ASSUME NEW B \in Seq(Line), NEW k \in 0 .. Len(B)
  PROVE  /\ FD!Popped(B, k) \in Seq(Line)
         /\ FD!Popped(B, Len(B)) = <<>>
<1>1. Len(B) \in Nat /\ k \in Nat /\ k <= Len(B)
  OBVIOUS
<1>2. FD!Popped(B, k) \in Seq(Line)
  BY <1>1 DEF FD!Popped
<1>3. FD!Popped(B, Len(B)) = <<>>
  BY <1>1 DEF FD!Popped
<1> QED BY <1>2, <1>3

\* The loop runs out of rows only while all rows are zero; otherwise what is
\* left of B is short enough.
LEMMA PopsEnd ==
  ASSUME NEW B \in Seq(Line), NEW af2 \in Nat, l \in 1 .. Cardinality(Axis), Axis # {}
  PROVE  /\ FD!Pops(B, af2) = {} => af2 = 0
         /\ FD!Pops(B, af2) # {} =>
              \E rest \in Seq(Line) :
                /\ rest = FD!Popped(B, FD!Min(FD!Pops(B, af2)))
                /\ FD!TopOf(rest) * l < af2
<1>1. Len(B) \in Nat /\ Len(B) \in 0 .. Len(B)
  OBVIOUS
<1>2. PICK P : P = FD!Pops(B, af2)
  OBVIOUS
<1>3. ASSUME P = {} PROVE af2 = 0
  <2>1. ~(FD!TopOf(FD!Popped(B, Len(B))) * l < af2)
    BY <1>1, <1>2, <1>3 DEF FD!Pops
  <2>2. FD!TopOf(FD!Popped(B, Len(B))) = 0
    BY <1>1, PoppedLines, EmptyTop
  <2>3. 0 * l = 0
    BY AxisFacts
  <2> QED BY <2>1, <2>2, <2>3
<1>4. ASSUME P # {}
      PROVE  \E rest \in Seq(Line) : rest = FD!Popped(B, FD!Min(P)) /\ FD!TopOf(rest) * l < af2
  <2>1. P \in SUBSET Nat
    BY <1>1, <1>2 DEF FD!Pops
  <2>2. PICK k \in P : \A n \in P : k <= n
    BY <1>4, <2>1, LeastElement
  <2>3. FD!Min(P) = CHOOSE x \in P : \A y \in P : x <= y
    BY DEF FD!Min
  <2>4. PICK j \in P : j = FD!Min(P)
    BY <2>2, <2>3
  <2>5. j \in 0 .. Len(B) /\ FD!TopOf(FD!Popped(B, j)) * l < af2
    BY <1>2, <2>4 DEF FD!Pops
  <2>6. FD!Popped(B, j) \in Seq(Line)
    BY <2>5, PoppedLines
  <2> QED BY <2>4, <2>5, <2>6
<1> QED BY <1>2, <1>3, <1>4

-----------------------------------------------------------------------------
(* The inductive invariant of FD_ATTP *)

Entry == [ts : Nat, axis : Axis, norm : Nat]

DirectionTypes ==
  /\ l \in HalfSizes
  /\ AF2 \in Nat /\ nxt_target \in Int
  /\ C \in Seq(Line) /\ stream \in Seq(Entry)

\* nxt_target bounds what the directions other than the longest add up to,
\* as every row since it was set lengthens the longest by its own norm at
\* most, and a compression only shortens it.
TargetSound ==
  ~reused /\ ~aborted =>
    /\ nxt_target <= AF2 - FD!TopOf(C)
    /\ stream = <<>> => AF2 = 0 /\ C = <<>> /\ nxt_target = 0

DirectionInv == DirectionTypes /\ TargetSound /\ FD!ShareKept

LEMMA HalfSizeFacts ==
  ASSUME l \in HalfSizes
  PROVE  l \in Nat /\ l >= 1 /\ l \in 1 .. Cardinality(Axis) /\ Axis # {}
<1>1. l \in 1 .. Cardinality(Axis) /\ Cardinality(Axis) \in Nat
  BY AxisFacts
<1>2. l \in Axis
  BY <1>1, AxisFacts
<1> QED BY <1>1, <1>2

LEMMA InitDirections == FD!Init => DirectionInv
<1> SUFFICES ASSUME FD!Init PROVE DirectionInv
  OBVIOUS
<1>1. /\ l \in HalfSizes /\ AF2 = 0 /\ nxt_target = 0 /\ C = <<>> /\ stream = <<>>
      /\ aborted = FALSE
  BY DEF FD!Init, FD!InitExact
<1>2. FD!TopOf(C) = 0
  BY <1>1, HalfSizeFacts, EmptyTop
<1>3. <<>> \in Seq(Line) /\ <<>> \in Seq(Entry)
  OBVIOUS
<1> QED BY <1>1, <1>2, <1>3 DEF DirectionInv, DirectionTypes, TargetSound, FD!ShareKept

\* The early return: what has been added since the target was set cannot
\* have made the longest direction a share.
LEMMA EarlyReturn ==
  ASSUME NEW n \in Nat, n >= 1, NEW total \in Nat, NEW top \in Nat, NEW target \in Int,
         target <= total - top, total * (n - 1) < target * n
  PROVE  top * n < total
<1>1. target * n <= (total - top) * n
  OBVIOUS
<1>2. (total - top) * n = total * n - top * n /\ total * (n - 1) = total * n - total
  OBVIOUS
<1> QED BY <1>1, <1>2

LEMMA RowFacts ==
  ASSUME DirectionTypes, NEW row \in FD!Row, NEW ts \in 1 .. DirectedMaxTs, NEW item,
         item = [ts |-> ts, axis |-> row.axis, norm |-> row.norm], FD!Feed(ts, row, item)
  PROVE  row \in Line /\ stream' \in Seq(Entry) /\ stream' # <<>>
<1>1. row \in Line
  <2>1. DirectedRowsAt \in Seq(SUBSET Line)
    BY RowsAssumption DEF Line
  <2>2. Len(stream) \in Nat /\ Len(stream) < Len(DirectedRowsAt)
        /\ row \in DirectedRowsAt[Len(stream) + 1]
    BY DEF FD!Row, DirectionTypes
  <2>3. DirectedRowsAt[Len(stream) + 1] \in SUBSET Line
    BY <2>1, <2>2
  <2> QED BY <2>2, <2>3
<1>2. item \in Entry
  <2>1. ts \in Nat
    BY SamplersAssumption
  <2>2. row.axis \in Axis /\ row.norm \in Nat
    BY <1>1 DEF Line
  <2> QED BY <2>1, <2>2 DEF Entry
<1>3. stream' = Append(stream, item) /\ stream \in Seq(Entry)
  BY DEF FD!Feed, DirectionTypes
<1> QED BY <1>1, <1>2, <1>3

LEMMA TopNext == FD!TopOf(C)' = FD!TopOf(C')
BY DEF FD!TopOf, FD!Covariance, FD!Summed, FD!Zero, FD!Dspr

LEMMA DirectionUpdate ==
  ASSUME DirectionInv, NEW ts \in 1 .. DirectedMaxTs, NEW row \in FD!Row, FD!Update(ts, row)
  PROVE  DirectionInv'
<1>1. /\ l \in Nat /\ l >= 1 /\ l \in 1 .. Cardinality(Axis) /\ Axis # {}
      /\ l \in HalfSizes /\ AF2 \in Nat /\ nxt_target \in Int /\ C \in Seq(Line)
  BY HalfSizeFacts DEF DirectionInv, DirectionTypes
<1>2. row \in Line /\ stream' \in Seq(Entry) /\ stream' # <<>>
  <2>1. PICK item :
          /\ item = [ts |-> ts, axis |-> row.axis, norm |-> row.norm]
          /\ FD!Feed(ts, row, item)
    BY DEF FD!Update
  <2> QED BY <2>1, RowFacts DEF DirectionInv
<1>3. PICK B, af2 : B = FD!FDUpdate(C, row) /\ af2 = AF2 + row.norm
  OBVIOUS
<1>4. /\ ~aborted /\ AF2' = af2 /\ l' = l /\ reused' = reused
      /\ \/ /\ af2 * (l - 1) < nxt_target * l
            /\ C' = B /\ nxt_target' = nxt_target /\ aborted' = aborted
         \/ /\ ~(af2 * (l - 1) < nxt_target * l) /\ FD!Pops(B, af2) = {}
            /\ aborted' = TRUE /\ nxt_target' = nxt_target /\ C' = C
         \/ /\ ~(af2 * (l - 1) < nxt_target * l) /\ FD!Pops(B, af2) # {}
            /\ C' = FD!Popped(B, FD!Min(FD!Pops(B, af2)))
            /\ nxt_target' = FD!Target(af2, FD!TopOf(FD!Popped(B, FD!Min(FD!Pops(B, af2)))))
            /\ aborted' = aborted
  BY <1>3 DEF FD!Update
<1>5. PICK w \in Nat : w = row.norm
  BY <1>2 DEF Line
<1>6. PICK t \in Nat : t = FD!TopOf(C)
  BY <1>1, TopIs
<1>7. B \in Seq(Line) /\ FD!TopOf(B) <= t + w
  BY <1>1, <1>2, <1>3, <1>5, <1>6, RowLengthens
<1>8. af2 \in Nat /\ af2 = AF2 + w
  BY <1>1, <1>3, <1>5
<1>9. l' \in HalfSizes /\ AF2' \in Nat
  BY <1>1, <1>4, <1>8
<1>10. CASE af2 * (l - 1) < nxt_target * l
  <2>1. C' = B /\ nxt_target' = nxt_target /\ aborted' = aborted
    BY <1>4, <1>10
  <2>2. DirectionTypes'
    BY <1>1, <1>2, <1>7, <1>9, <2>1 DEF DirectionTypes
  <2>3. PICK top \in Nat : top = FD!TopOf(B)
    BY <1>1, <1>7, TopIs
  <2>4. ASSUME ~reused
        PROVE  nxt_target <= af2 - top /\ top * l < af2
    <3>1. nxt_target <= AF2 - t
      BY <1>4, <1>6, <2>4 DEF DirectionInv, TargetSound
    <3>2. nxt_target <= af2 - top
      BY <1>1, <1>7, <1>8, <2>3, <3>1
    <3>3. top * l < af2
      BY <1>1, <1>8, <1>10, <3>2, EarlyReturn
    <3> QED BY <3>2, <3>3
  <2>5. FD!TopOf(C)' = top
    BY <2>1, <2>3, TopNext
  <2> QED BY <1>2, <1>4, <2>1, <2>2, <2>4, <2>5 DEF DirectionInv, TargetSound, FD!ShareKept
<1>11. CASE ~(af2 * (l - 1) < nxt_target * l) /\ FD!Pops(B, af2) = {}
  <2>1. aborted' = TRUE /\ nxt_target' = nxt_target /\ C' = C
    BY <1>4, <1>11
  <2>2. AF2' = 0
    BY <1>1, <1>4, <1>7, <1>8, <1>11, PopsEnd
  <2>3. DirectionTypes'
    BY <1>1, <1>2, <1>9, <2>1 DEF DirectionTypes
  <2> QED BY <2>1, <2>2, <2>3 DEF DirectionInv, TargetSound, FD!ShareKept
<1>12. CASE ~(af2 * (l - 1) < nxt_target * l) /\ FD!Pops(B, af2) # {}
  <2>1. PICK rest \in Seq(Line) :
          /\ rest = FD!Popped(B, FD!Min(FD!Pops(B, af2)))
          /\ FD!TopOf(rest) * l < af2
    BY <1>1, <1>7, <1>8, <1>12, PopsEnd
  <2>2. C' = rest /\ nxt_target' = FD!Target(af2, FD!TopOf(rest)) /\ aborted' = aborted
    BY <1>4, <1>12, <2>1
  <2>3. PICK top \in Nat : top = FD!TopOf(rest)
    BY <1>1, TopIs
  <2>4. nxt_target' = af2 - top
    BY <2>2, <2>3 DEF FD!Target
  <2>5. DirectionTypes'
    BY <1>1, <1>2, <1>8, <1>9, <2>2, <2>4 DEF DirectionTypes
  <2>6. FD!TopOf(C)' = top
    BY <2>2, <2>3, TopNext
  <2>7. nxt_target' <= af2 - top /\ top * l < af2
    BY <1>8, <2>1, <2>3, <2>4
  <2> QED BY <1>2, <1>4, <2>2, <2>5, <2>6, <2>7 DEF DirectionInv, TargetSound, FD!ShareKept
<1> QED BY <1>10, <1>11, <1>12

LEMMA DirectionClear ==
  ASSUME DirectionInv, FD!Clear
  PROVE  DirectionInv'
<1>1. /\ l \in HalfSizes /\ nxt_target \in Int
  BY DEF DirectionInv, DirectionTypes
<1>2. /\ ~aborted /\ AF2' = 0 /\ C' = <<>> /\ stream' = <<>>
      /\ reused' = (reused \/ stream # <<>>)
      /\ l' = l /\ nxt_target' = nxt_target /\ aborted' = aborted
  BY DEF FD!Clear, FD!ClearExact
<1>3. <<>> \in Seq(Line) /\ <<>> \in Seq(Entry)
  OBVIOUS
<1>4. DirectionTypes'
  BY <1>1, <1>2, <1>3 DEF DirectionTypes
<1>5. FD!TopOf(<<>>) = 0
  BY <1>1, HalfSizeFacts, EmptyTop
<1>6. FD!TopOf(C)' = 0
  BY <1>2, <1>5, TopNext
<1>7. ~reused' => nxt_target' = 0
  BY <1>2 DEF DirectionInv, TargetSound
<1> QED BY <1>2, <1>4, <1>6, <1>7 DEF DirectionInv, TargetSound, FD!ShareKept

-----------------------------------------------------------------------------
(* The rows of a stream up to a timestamp *)

\* m is the matrix of the rows up to ts after each of the first n of B.
Filtering(m, B, n, ts) ==
  m = [k \in 0 .. n |->
         IF k = 0 THEN EM!Zero
         ELSE IF B[k].ts <= ts THEN EM!Dspr(m[k - 1], B[k]) ELSE m[k - 1]]

LEMMA FilteringExists ==
  ASSUME NEW B, NEW ts, NEW n \in Nat
  PROVE  \E m : Filtering(m, B, n, ts)
<1> DEFINE W == {k \in Nat : \E m : Filtering(m, B, k, ts)}
<1>1. 0 \in W
  <2>1. Filtering([k \in 0 .. 0 |-> EM!Zero], B, 0, ts)
    BY DEF Filtering
  <2> QED BY <2>1
<1>2. ASSUME NEW k \in W PROVE k + 1 \in W
  <2>1. PICK m : Filtering(m, B, k, ts)
    OBVIOUS
  <2>2. PICK v : v = IF B[k + 1].ts <= ts THEN EM!Dspr(m[k], B[k + 1]) ELSE m[k]
    OBVIOUS
  <2>3. PICK g : g = [i \in 0 .. (k + 1) |-> IF i = k + 1 THEN v ELSE m[i]]
    OBVIOUS
  <2>4. ASSUME NEW i \in 0 .. (k + 1)
        PROVE  g[i] = IF i = 0 THEN EM!Zero
                      ELSE IF B[i].ts <= ts THEN EM!Dspr(g[i - 1], B[i]) ELSE g[i - 1]
    <3>1. CASE i = k + 1
      <4>1. i # 0 /\ i - 1 = k /\ k \in 0 .. (k + 1) /\ k # k + 1
        BY <3>1
      <4>2. g[k] = m[k]
        BY <2>3, <4>1
      <4> QED BY <2>2, <2>3, <3>1, <4>1, <4>2
    <3>2. CASE i # k + 1
      <4>1. i \in 0 .. k
        BY <3>2
      <4>2. g[i] = m[i]
        BY <2>3, <3>2
      <4>3. m[i] = IF i = 0 THEN EM!Zero
                   ELSE IF B[i].ts <= ts THEN EM!Dspr(m[i - 1], B[i]) ELSE m[i - 1]
        BY <2>1, <4>1 DEF Filtering
      <4>4. i # 0 => g[i - 1] = m[i - 1]
        BY <2>3, <4>1
      <4> QED BY <4>2, <4>3, <4>4
    <3> QED BY <3>1, <3>2
  <2>5. Filtering(g, B, k + 1, ts)
    BY <2>3, <2>4 DEF Filtering
  <2> QED BY <2>5
<1> HIDE DEF W
<1>3. W = Nat
  <2>1. W \in SUBSET Nat
    BY DEF W
  <2> QED BY <1>1, <1>2, <2>1, NatSetInduction
<1> QED BY <1>3 DEF W

LEMMA FilteringAgree ==
  ASSUME NEW B, NEW D, NEW ts, NEW p \in Nat, NEW n \in Nat, n <= p, Agree(B, D, n),
         NEW m, Filtering(m, B, p, ts), NEW h, Filtering(h, D, n, ts)
  PROVE  m[n] = h[n]
<1> DEFINE W == {k \in Nat : k <= n => m[k] = h[k]}
<1>1. 0 \in W
  <2>1. 0 \in 0 .. p /\ 0 \in 0 .. n
    OBVIOUS
  <2>2. m[0] = EM!Zero /\ h[0] = EM!Zero
    BY <2>1 DEF Filtering
  <2> QED BY <2>2
<1>2. ASSUME NEW k \in W PROVE k + 1 \in W
  <2>1. SUFFICES ASSUME k + 1 <= n PROVE m[k + 1] = h[k + 1]
    OBVIOUS
  <2>2. /\ k + 1 \in 0 .. p /\ k + 1 \in 0 .. n /\ k + 1 # 0 /\ (k + 1) - 1 = k
        /\ k + 1 \in 1 .. n /\ k <= n
    BY <2>1
  <2>3. m[k + 1] = IF B[k + 1].ts <= ts THEN EM!Dspr(m[k], B[k + 1]) ELSE m[k]
    BY <2>2 DEF Filtering
  <2>4. h[k + 1] = IF D[k + 1].ts <= ts THEN EM!Dspr(h[k], D[k + 1]) ELSE h[k]
    BY <2>2 DEF Filtering
  <2>5. m[k] = h[k] /\ B[k + 1] = D[k + 1]
    BY <2>2 DEF Agree
  <2> QED BY <2>3, <2>4, <2>5
<1> HIDE DEF W
<1>3. W = Nat
  <2>1. W \in SUBSET Nat
    BY DEF W
  <2> QED BY <1>1, <1>2, <2>1, NatSetInduction
<1> QED BY <1>3 DEF W

\* SummedUpTo of the stream B.
UpTo(B, ts) == (CHOOSE m : Filtering(m, B, Len(B), ts))[Len(B)]

LEMMA UpToIs ==
  ASSUME NEW B, Len(B) \in Nat, NEW ts
  PROVE  \E m : Filtering(m, B, Len(B), ts) /\ UpTo(B, ts) = m[Len(B)]
BY FilteringExists DEF UpTo

LEMMA UpToEmpty ==
  ASSUME NEW ts
  PROVE  UpTo(<<>>, ts) = EM!Zero
<1>1. PICK m : Filtering(m, <<>>, Len(<<>>), ts) /\ UpTo(<<>>, ts) = m[Len(<<>>)]
  BY UpToIs
<1>2. Len(<<>>) = 0
  OBVIOUS
<1> QED BY <1>1, <1>2 DEF Filtering

\* The entry e adds to the sum of B what it adds to that of D.
OneMore(D, B, e, ts) ==
  UpTo(D, ts) = IF e.ts <= ts THEN EM!Dspr(UpTo(B, ts), e) ELSE UpTo(B, ts)

LEMMA UpToAppend ==
  ASSUME NEW B \in Seq(Entry), NEW e \in Entry, NEW ts
  PROVE  OneMore(Append(B, e), B, e, ts)
<1>0. PICK D : D = Append(B, e)
  OBVIOUS
<1>1. PICK n \in Nat : n = Len(B)
  OBVIOUS
<1>2. Len(D) = n + 1 /\ D[n + 1] = e /\ \A k \in 1 .. n : D[k] = B[k]
  BY <1>0, <1>1
<1>3. PICK m : Filtering(m, D, n + 1, ts) /\ UpTo(D, ts) = m[n + 1]
  <2>1. Len(D) \in Nat
    BY <1>2
  <2>2. PICK f : Filtering(f, D, Len(D), ts) /\ UpTo(D, ts) = f[Len(D)]
    BY ONLY <2>1, UpToIs
  <2> QED BY <1>2, <2>2
<1>4. PICK h : Filtering(h, B, n, ts) /\ UpTo(B, ts) = h[n]
  BY <1>1, UpToIs
<1>5. m[n] = h[n]
  <2>1. PICK p \in Nat : p = n + 1 /\ n <= p
    OBVIOUS
  <2>2. Agree(D, B, n)
    BY <1>2 DEF Agree
  <2>3. Filtering(m, D, p, ts) /\ Filtering(h, B, n, ts)
    BY <1>3, <1>4, <2>1
  <2>4. n \in Nat /\ p \in Nat /\ n <= p
    BY <2>1
  <2> QED BY ONLY <2>2, <2>3, <2>4, FilteringAgree
<1>6. m[n + 1] = IF D[n + 1].ts <= ts THEN EM!Dspr(m[n], D[n + 1]) ELSE m[n]
  <2>1. n + 1 \in 0 .. (n + 1) /\ n + 1 # 0 /\ (n + 1) - 1 = n
    OBVIOUS
  <2> QED BY <1>3, <2>1 DEF Filtering
<1> QED BY <1>0, <1>2, <1>3, <1>4, <1>5, <1>6 DEF OneMore

-----------------------------------------------------------------------------
(* What a list of <<timestamp, value>> holds as of a timestamp *)

Upto(s, ts) == {i \in 1 .. Len(s) : s[i][1] <= ts}
Pos(s, ts) == EM!Max({0} \cup Upto(s, ts))

LEMMA GreatestIs ==
  ASSUME NEW n \in Nat, NEW T \in SUBSET (1 .. n)
  PROVE  /\ EM!Max({0} \cup T) \in {0} \cup T
         /\ \A i \in T : i <= EM!Max({0} \cup T)
         /\ EM!Max({0} \cup T) \in Nat /\ EM!Max({0} \cup T) <= n
<1>1. PICK S : S = {0} \cup T
  OBVIOUS
<1>2. \A i \in S : i \in Nat /\ i <= n
  BY <1>1
<1> DEFINE D == {n - i : i \in S}
<1>3. D \in SUBSET Nat /\ D # {}
  <2>1. \A i \in S : n - i \in Nat
    BY <1>2
  <2>2. 0 \in S
    BY <1>1
  <2> QED BY <2>1, <2>2
<1>4. PICK m \in D : \A d \in D : m <= d
  <2> HIDE DEF D
  <2> QED BY <1>3, LeastElement
<1>5. PICK x \in S : m = n - x
  BY <1>4
<1>6. \A y \in S : x >= y
  <2> SUFFICES ASSUME NEW y \in S PROVE x >= y
    OBVIOUS
  <2>1. m <= n - y
    BY <1>4
  <2> QED BY <1>2, <1>5, <2>1
<1>7. EM!Max(S) = CHOOSE z \in S : \A y \in S : z >= y
  BY DEF EM!Max
<1>8. EM!Max(S) \in S /\ \A y \in S : EM!Max(S) >= y
  BY <1>6, <1>7
<1>9. PICK z \in S : z = EM!Max({0} \cup T) /\ \A y \in S : z >= y
  BY <1>1, <1>8
<1> QED BY <1>1, <1>2, <1>9

LEMMA PosIs ==
  ASSUME NEW s, Len(s) \in Nat, NEW ts
  PROVE  /\ Pos(s, ts) \in {0} \cup Upto(s, ts)
         /\ \A i \in Upto(s, ts) : i <= Pos(s, ts)
         /\ Pos(s, ts) \in Nat /\ Pos(s, ts) <= Len(s)
<1>1. Upto(s, ts) \in SUBSET (1 .. Len(s))
  BY DEF Upto
<1> QED BY <1>1, GreatestIs DEF Pos

LEMMA PosUnique ==
  ASSUME NEW s, Len(s) \in Nat, NEW ts, NEW k \in Upto(s, ts), \A i \in Upto(s, ts) : i <= k
  PROVE  Pos(s, ts) = k
<1>1. PICK p : p = Pos(s, ts)
  OBVIOUS
<1>2. /\ p \in {0} \cup Upto(s, ts) /\ \A i \in Upto(s, ts) : i <= p
      /\ p \in Nat
  BY <1>1, PosIs
<1>3. k \in Nat /\ k >= 1 /\ k <= p
  BY <1>2 DEF Upto
<1>4. p \in Upto(s, ts)
  BY <1>2, <1>3
<1> QED BY <1>1, <1>2, <1>3, <1>4

LEMMA PosLast ==
  ASSUME NEW n \in Nat, n >= 1, NEW s, Len(s) = n, NEW ts, s[n][1] <= ts
  PROVE  Pos(s, ts) = n
<1>1. n \in Upto(s, ts) /\ \A i \in Upto(s, ts) : i <= n
  BY DEF Upto
<1> QED BY <1>1, PosUnique

\* t is the list s of n entries and one more, of a timestamp after ts.
AndLater(s, t, n, ts) ==
  /\ n \in Nat /\ Len(s) = n /\ Len(t) = n + 1
  /\ \A i \in 1 .. n : t[i] = s[i]
  /\ ~(t[n + 1][1] <= ts)

LEMMA PosEarlier ==
  ASSUME NEW n, NEW s, NEW t, NEW ts, AndLater(s, t, n, ts)
  PROVE  Pos(t, ts) = Pos(s, ts)
<1>1. /\ n \in Nat /\ Len(s) = n /\ Len(t) = n + 1
      /\ \A i \in 1 .. n : t[i] = s[i]
      /\ ~(t[n + 1][1] <= ts)
  BY DEF AndLater
<1>2. ASSUME NEW i PROVE i \in Upto(t, ts) <=> i \in Upto(s, ts)
  <2>1. CASE i \in 1 .. n
    BY <1>1, <2>1 DEF Upto
  <2>2. CASE i = n + 1
    BY <1>1, <2>2 DEF Upto
  <2> QED BY <1>1, <2>1, <2>2 DEF Upto
<1> QED BY <1>2 DEF Pos

LEMMA SameSum == \A f, S : EM!SumFunctionOnSet(f, S) = Sum(f, S)
BY DEF Sum, SumFunctionOnSet, EM!SumFunctionOnSet, EM!FoldFunctionOnSet, FoldFunctionOnSet,
       EM!MapThenFoldSet, MapThenFoldSet

LEMMA TraceAdds ==
  ASSUME NEW m \in Matrix, NEW row, row.axis \in Axis, row.norm \in Nat
  PROVE  /\ EM!Trace(m) \in Int
         /\ EM!Dspr(m, row) \in Matrix
         /\ EM!Trace(EM!Dspr(m, row)) = EM!Trace(m) + row.norm
<1>1. PICK g : g = EM!Dspr(m, row)
  OBVIOUS
<1>2. g \in Matrix /\ \A a \in Axis : g[a] = IF a = row.axis THEN m[a] + row.norm ELSE m[a]
  BY <1>1 DEF EM!Dspr, Matrix
<1>3. \A a \in Axis : m[a] \in Int
  BY DEF Matrix
<1>4. EM!Trace(m) = Sum(m, Axis) /\ EM!Trace(g) = Sum(g, Axis)
  BY SameSum DEF EM!Trace
<1>5. Sum(m, Axis) \in Int
  BY <1>3, AxisFacts, SumStep
<1>6. Sum(g, Axis) = Sum(m, Axis) + row.norm
  <2>1. PICK b \in Axis, d \in Int : b = row.axis /\ d = row.norm
    OBVIOUS
  <2>2. \A a \in Axis : g[a] = IF a = b THEN m[a] + d ELSE m[a]
    BY <1>2, <2>1
  <2>3. Sum(g, Axis) = Sum(m, Axis) + d
    BY <1>3, <2>2, AxisFacts, SumIncrement DEF Raised
  <2> QED BY <2>1, <2>3
<1> QED BY <1>1, <1>2, <1>4, <1>5, <1>6

LEMMA TraceZero == EM!Zero \in Matrix /\ EM!Trace(EM!Zero) = 0
<1>1. PICK z : z = EM!Zero
  OBVIOUS
<1>2. z \in Matrix /\ \A a \in Axis : z[a] = 0
  BY <1>1 DEF EM!Zero, Matrix
<1>3. EM!Trace(z) = Sum(z, Axis)
  BY SameSum DEF EM!Trace
<1>4. Sum(z, Axis) = 0 * Cardinality({})
  <2>1. \A a \in Axis : z[a] = IF a \in {} THEN 0 ELSE 0
    BY <1>2
  <2>2. 0 \in Int /\ {} \in SUBSET Axis
    OBVIOUS
  <2> QED BY <2>1, <2>2, AxisFacts, SumConstant
<1> QED BY <1>1, <1>2, <1>3, <1>4, FS_EmptySet

-----------------------------------------------------------------------------
(* The exact matrix and the exact norm *)

MatrixAt(last, cur, ms, ts) ==
  IF ts >= last THEN cur ELSE IF Pos(ms, ts) = 0 THEN EM!Zero ELSE ms[Pos(ms, ts)][2]
NormAt(fs, ts) == fs[Pos(fs, ts)][2]

LEMMA AnswersAre ==
  ASSUME NEW ts
  PROVE  /\ EM!ExactAt(ts) = MatrixAt(exact_last_ts, cur_matrix, matrices, ts)
         /\ EM!ExactFnormSqr(ts) = NormAt(fnorm_sqr, ts)
         /\ EM!SummedUpTo(ts) = UpTo(stream, ts)
BY DEF EM!ExactAt, EM!ExactFnormSqr, EM!LastAt, MatrixAt, NormAt, Pos, Upto,
       EM!SummedUpTo, UpTo, Filtering

LEMMA AnswersWillBe ==
  ASSUME NEW ts
  PROVE  /\ EM!ExactAt(ts)' = MatrixAt(exact_last_ts', cur_matrix', matrices', ts)
         /\ EM!ExactFnormSqr(ts)' = NormAt(fnorm_sqr', ts)
         /\ EM!SummedUpTo(ts)' = UpTo(stream', ts)
BY DEF EM!ExactAt, EM!ExactFnormSqr, EM!LastAt, MatrixAt, NormAt, Pos, Upto,
       EM!SummedUpTo, UpTo, Filtering, EM!Zero, EM!Dspr

NormList == fnorm_sqr \in Seq(Nat \X Int) /\ Len(fnorm_sqr) >= 1 /\ fnorm_sqr[1][1] = 0

BaselineTypes ==
  /\ exact_last_ts \in Nat /\ cur_matrix \in Matrix
  /\ matrices \in Seq(Nat \X Matrix) /\ stream \in Seq(Entry)
  /\ NormList

\* The matrices filed are those of timestamps that are over.
Filing ==
  /\ exact_last_ts = EM!Newest
  /\ exact_last_ts = 0 => cur_matrix = EM!Zero /\ matrices = <<>>
  /\ \A i \in 1 .. Len(matrices) : matrices[i][1] < exact_last_ts

BaselineInv == BaselineTypes /\ Filing /\ EM!BaselinesAgree

\* A timestamp the driver may come with, given what the norm has counted.
Due(now) == now \in Nat /\ now > 0 /\ now >= EM!Last(fnorm_sqr)[1]

\* The list g counts w more from now on than the list the driver has.
Counts(g, now, w) ==
  /\ g \in Seq(Nat \X Int) /\ Len(g) >= 1 /\ g[1][1] = 0
  /\ \A ts \in Nat :
       /\ NormAt(fnorm_sqr, ts) \in Int
       /\ NormAt(g, ts) =
            IF now <= ts THEN NormAt(fnorm_sqr, ts) + w ELSE NormAt(fnorm_sqr, ts)

LEMMA CountedIs ==
  ASSUME NormList, NEW now, Due(now), NEW w \in Nat
  PROVE  Counts(EM!Counted(now, w), now, w)
<1>0. now \in Nat /\ now >= EM!Last(fnorm_sqr)[1] /\ now > 0
  BY DEF Due
<1>g. PICK g : g = EM!Counted(now, w)
  OBVIOUS
<1>1. PICK fs \in Seq(Nat \X Int) : fs = fnorm_sqr /\ Len(fs) >= 1 /\ fs[1][1] = 0
  BY DEF NormList
<1>2. PICK n \in Nat : n = Len(fs) /\ n >= 1
  BY <1>1
<1>3. fs[n] \in Nat \X Int
  BY <1>2
<1>4. PICK t \in Nat, v \in Int : fs[n] = <<t, v>> /\ fs[n][1] = t /\ fs[n][2] = v
  BY <1>3
<1>5. EM!Last(fnorm_sqr) = fs[n] /\ now >= t
  BY <1>0, <1>1, <1>2, <1>4 DEF EM!Last
<1>6. PICK e \in Nat \X Int : e = <<now, v + w>> /\ e[1] = now /\ e[2] = v + w
  <2>1. v + w \in Int /\ now \in Nat
    BY <1>0
  <2>2. <<now, v + w>> \in Nat \X Int
    BY <2>1
  <2> QED BY <2>2
<1>7. g = IF t = now THEN [fs EXCEPT ![n] = e] ELSE Append(fs, e)
  BY <1>g, <1>1, <1>2, <1>4, <1>5, <1>6 DEF EM!Counted
<1>8. ASSUME NEW ts \in Nat
      PROVE  Pos(fs, ts) \in 1 .. n /\ NormAt(fs, ts) \in Int
  <2>1. 1 \in Upto(fs, ts)
    BY <1>1, <1>2 DEF Upto
  <2>2. Pos(fs, ts) \in 1 .. n
    <3>1. PICK p : p = Pos(fs, ts)
      OBVIOUS
    <3>2. p \in Nat /\ p <= Len(fs) /\ 1 <= p
      BY <1>2, <2>1, <3>1, PosIs
    <3> QED BY <1>2, <3>1, <3>2
  <2>3. fs[Pos(fs, ts)] \in Nat \X Int
    BY <1>2, <2>2
  <2> QED BY <2>2, <2>3 DEF NormAt
<1>9. CASE t = now
  <2>1. g = [fs EXCEPT ![n] = e]
    BY <1>7, <1>9
  <2>2. /\ g \in Seq(Nat \X Int) /\ Len(g) = n /\ g[n] = e
        /\ \A i \in 1 .. n : i # n => g[i] = fs[i]
    BY <1>2, <2>1
  <2>3. n # 1 /\ g[1] = fs[1]
    <3>1. fs[n][1] # 0
      BY <1>0, <1>4, <1>9
    <3>2. n # 1
      BY <1>1, <3>1
    <3> QED BY <1>2, <2>2, <3>2
  <2>4. ASSUME NEW ts \in Nat
        PROVE  NormAt(g, ts) = IF now <= ts THEN NormAt(fs, ts) + w ELSE NormAt(fs, ts)
    <3>1. CASE now <= ts
      <4>1. g[n][1] <= ts /\ fs[n][1] <= ts
        BY <1>0, <1>4, <1>6, <1>9, <2>2, <3>1
      <4>2. Pos(g, ts) = n /\ Pos(fs, ts) = n
        <5>1. Len(g) = n /\ Len(fs) = n /\ n >= 1
          BY <1>2, <2>2
        <5> QED BY ONLY <1>2, <5>1, <4>1, PosLast
      <4> QED BY <1>0, <1>4, <1>6, <2>2, <3>1, <4>2 DEF NormAt
    <3>2. CASE ~(now <= ts)
      <4>1. ASSUME NEW i PROVE i \in Upto(g, ts) <=> i \in Upto(fs, ts)
        <5>1. i = n => i \notin Upto(g, ts) /\ i \notin Upto(fs, ts)
          BY <1>0, <1>4, <1>6, <1>9, <2>2, <3>2 DEF Upto
        <5> QED BY <1>2, <2>2, <5>1 DEF Upto
      <4>2. Pos(g, ts) = Pos(fs, ts)
        BY <4>1 DEF Pos
      <4>3. PICK p \in 1 .. n : p = Pos(fs, ts)
        BY <1>8
      <4>4. p # n
        <5>1. p \in {0} \cup Upto(fs, ts) /\ p # 0
          BY <1>2, <4>3, PosIs
        <5>2. fs[p][1] <= ts
          BY <5>1 DEF Upto
        <5> QED BY <1>0, <1>4, <1>9, <3>2, <5>2
      <4> QED BY <2>2, <3>2, <4>2, <4>3, <4>4 DEF NormAt
    <3> QED BY <3>1, <3>2
  <2>5. Len(g) >= 1 /\ g[1][1] = 0
    BY <1>1, <1>2, <2>2, <2>3
  <2> QED BY <1>g, <1>1, <1>8, <2>2, <2>4, <2>5 DEF Counts
<1>10. CASE t # now
  <2>1. g = Append(fs, e)
    BY <1>7, <1>10
  <2>2. /\ g \in Seq(Nat \X Int) /\ Len(g) = n + 1 /\ g[n + 1] = e
        /\ \A i \in 1 .. n : g[i] = fs[i]
    BY <1>2, <2>1
  <2>3. g[1] = fs[1]
    BY <1>2, <2>2
  <2>4. ASSUME NEW ts \in Nat
        PROVE  NormAt(g, ts) = IF now <= ts THEN NormAt(fs, ts) + w ELSE NormAt(fs, ts)
    <3>1. CASE now <= ts
      <4>1. Pos(g, ts) = n + 1
        <5>1. g[n + 1][1] <= ts /\ n + 1 \in Nat /\ n + 1 >= 1 /\ Len(g) = n + 1
          BY <1>2, <1>6, <2>2, <3>1
        <5> QED BY ONLY <5>1, PosLast
      <4>2. Pos(fs, ts) = n
        <5>1. fs[n][1] <= ts
          BY <1>0, <1>4, <1>5, <3>1
        <5>2. Len(fs) = n /\ n >= 1
          BY <1>2
        <5> QED BY ONLY <1>2, <5>1, <5>2, PosLast
      <4> QED BY <1>0, <1>4, <1>6, <2>2, <3>1, <4>1, <4>2 DEF NormAt
    <3>2. CASE ~(now <= ts)
      <4>1. Pos(g, ts) = Pos(fs, ts)
        <5>1. AndLater(fs, g, n, ts)
          BY <1>2, <1>6, <2>2, <3>2 DEF AndLater
        <5> QED BY <5>1, PosEarlier
      <4>2. PICK p \in 1 .. n : p = Pos(fs, ts)
        BY <1>8
      <4> QED BY <2>2, <3>2, <4>1, <4>2 DEF NormAt
    <3> QED BY <3>1, <3>2
  <2>5. Len(g) >= 1 /\ g[1][1] = 0
    BY <1>1, <1>2, <2>2, <2>3
  <2> QED BY <1>g, <1>1, <1>8, <2>2, <2>4, <2>5 DEF Counts
<1> QED BY <1>9, <1>10

\* Filing leaves every answer about the past what it was.
Files(ms, now, cur) ==
  /\ ms \in Seq(Nat \X Matrix)
  /\ \A i \in 1 .. Len(ms) : ms[i][1] < now
  /\ \A ts \in Nat :
       MatrixAt(now, cur, ms, ts) =
         IF now <= ts THEN cur ELSE MatrixAt(exact_last_ts, cur_matrix, matrices, ts)

LEMMA FiledIs ==
  ASSUME BaselineTypes, Filing, NEW now, Due(now), now >= exact_last_ts, NEW cur
  PROVE  Files(EM!Filed(now), now, cur)
<1>0. now \in Nat /\ now > 0
  BY DEF Due
<1>m. PICK ms : ms = EM!Filed(now)
  OBVIOUS
<1>1. PICK last \in Nat, filed \in Seq(Nat \X Matrix), was \in Matrix :
        last = exact_last_ts /\ filed = matrices /\ was = cur_matrix
  BY DEF BaselineTypes
<1>2. /\ last = 0 => was = EM!Zero /\ filed = <<>>
      /\ \A i \in 1 .. Len(filed) : filed[i][1] < last
      /\ now >= last
  BY <1>1 DEF Filing
<1>3. PICK n \in Nat : n = Len(filed)
  OBVIOUS
<1>4. ms = IF last # 0 /\ now # last THEN Append(filed, <<last, was>>) ELSE filed
  BY <1>m, <1>1 DEF EM!Filed
<1>5. ASSUME NEW i \in 1 .. Len(filed) PROVE filed[i][1] \in Nat /\ filed[i][1] < now
  <2>1. filed[i] \in Nat \X Matrix
    OBVIOUS
  <2>2. filed[i][1] \in Nat
    BY <2>1
  <2> QED BY <1>0, <1>2, <2>2
<1>6. CASE last = 0
  <2>1. ms = <<>> /\ filed = <<>> /\ was = EM!Zero
    BY <1>2, <1>4, <1>6
  <2>2. ASSUME NEW ts \in Nat PROVE Pos(ms, ts) = 0
    <3>1. Len(ms) \in Nat /\ Len(ms) = 0
      BY <2>1
    <3>2. PICK p \in Nat : p = Pos(ms, ts) /\ p <= 0
      BY <3>1, PosIs
    <3> QED BY <3>2
  <2> QED BY <1>m, <1>0, <1>1, <1>5, <1>6, <2>1, <2>2 DEF MatrixAt, Files
<1>7. CASE now = last
  <2>1. ms = filed
    BY <1>4, <1>7
  <2> QED BY <1>m, <1>0, <1>1, <1>5, <1>7, <2>1 DEF MatrixAt, Files
<1>8. CASE last # 0 /\ now # last
  <2>1. PICK e \in Nat \X Matrix : e = <<last, was>> /\ e[1] = last /\ e[2] = was
    <3>1. <<last, was>> \in Nat \X Matrix
      OBVIOUS
    <3> QED BY <3>1
  <2>2. /\ ms \in Seq(Nat \X Matrix) /\ Len(ms) = n + 1 /\ ms[n + 1] = e
        /\ \A i \in 1 .. n : ms[i] = filed[i]
    BY <1>3, <1>4, <1>8, <2>1
  <2>3. ASSUME NEW i \in 1 .. Len(ms) PROVE ms[i][1] < now
    <3>1. CASE i = n + 1
      BY <1>0, <1>2, <1>8, <2>1, <2>2, <3>1
    <3>2. CASE i \in 1 .. n
      BY <1>3, <1>5, <2>2, <3>2
    <3> QED BY <2>2, <3>1, <3>2
  <2>4. ASSUME NEW ts \in Nat, ~(now <= ts)
        PROVE  MatrixAt(now, cur, ms, ts) = MatrixAt(last, was, filed, ts)
    <3>1. CASE last <= ts
      <4>1. Pos(ms, ts) = n + 1
        <5>1. n + 1 \in Nat /\ n + 1 >= 1 /\ Len(ms) = n + 1 /\ ms[n + 1][1] <= ts
          BY <2>1, <2>2, <3>1
        <5> QED BY ONLY <5>1, PosLast
      <4> QED BY <2>1, <2>2, <2>4, <3>1, <4>1 DEF MatrixAt
    <3>2. CASE ~(last <= ts)
      <4>1. Pos(ms, ts) = Pos(filed, ts)
        <5>1. AndLater(filed, ms, n, ts)
          BY <1>3, <2>1, <2>2, <3>2 DEF AndLater
        <5> QED BY <5>1, PosEarlier
      <4>2. PICK p \in 0 .. n : p = Pos(filed, ts)
        <5>1. Len(filed) \in Nat
          OBVIOUS
        <5> QED BY <1>3, <5>1, PosIs
      <4>3. p # 0 => ms[p] = filed[p]
        BY <2>2
      <4> QED BY <2>4, <3>2, <4>1, <4>2, <4>3 DEF MatrixAt
    <3> QED BY <3>1, <3>2
  <2> QED BY <1>m, <1>0, <1>1, <2>2, <2>3, <2>4 DEF MatrixAt, Files
<1> QED BY <1>6, <1>7, <1>8

\* The property in the words of the lemmas, now and after a step.
LEMMA AgreementIs ==
  EM!BaselinesAgree <=>
    \A ts \in 1 .. MatrixMaxTs :
      /\ MatrixAt(exact_last_ts, cur_matrix, matrices, ts) = UpTo(stream, ts)
      /\ ~astray => NormAt(fnorm_sqr, ts)
                      = EM!Trace(MatrixAt(exact_last_ts, cur_matrix, matrices, ts))
BY AnswersAre DEF EM!BaselinesAgree

LEMMA AgreementWillBe ==
  EM!BaselinesAgree' <=>
    \A ts \in 1 .. MatrixMaxTs :
      /\ MatrixAt(exact_last_ts', cur_matrix', matrices', ts) = UpTo(stream', ts)
      /\ ~astray' => NormAt(fnorm_sqr', ts)
                      = EM!Trace(MatrixAt(exact_last_ts', cur_matrix', matrices', ts))
BY AnswersWillBe DEF EM!BaselinesAgree, EM!Trace

LEMMA NothingYet ==
  ASSUME NEW ts \in Nat
  PROVE  /\ MatrixAt(0, EM!Zero, <<>>, ts) = UpTo(<<>>, ts)
         /\ NormAt(<< <<0, 0>> >>, ts) = EM!Trace(MatrixAt(0, EM!Zero, <<>>, ts))
<1>1. MatrixAt(0, EM!Zero, <<>>, ts) = EM!Zero
  BY DEF MatrixAt
<1>2. PICK fs : fs = << <<0, 0>> >>
  OBVIOUS
<1>3. Len(fs) = 1 /\ fs[1] = <<0, 0>>
  BY <1>2
<1>4. fs[1][1] <= ts /\ fs[1][2] = 0 /\ 1 \in Nat /\ 1 >= 1
  BY <1>3
<1>5. Pos(fs, ts) = 1
  BY ONLY <1>3, <1>4, PosLast
<1>6. NormAt(fs, ts) = 0
  BY <1>4, <1>5 DEF NormAt
<1> QED BY <1>1, <1>2, <1>6, UpToEmpty, TraceZero

LEMMA InitBaseline == EM!InitExact => BaselineInv
<1> SUFFICES ASSUME EM!InitExact PROVE BaselineInv
  OBVIOUS
<1>1. /\ exact_last_ts = 0 /\ cur_matrix = EM!Zero /\ matrices = <<>>
      /\ fnorm_sqr = << <<0, 0>> >> /\ stream = <<>>
  BY DEF EM!InitExact
<1>2. NormList
  BY <1>1 DEF NormList
<1>3. BaselineTypes
  <2>1. <<>> \in Seq(Nat \X Matrix) /\ <<>> \in Seq(Entry)
    OBVIOUS
  <2> QED BY <1>1, <1>2, <2>1, TraceZero DEF BaselineTypes
<1>4. Filing
  BY <1>1 DEF Filing, EM!Newest, EM!Zero
<1>5. \A ts \in 1 .. MatrixMaxTs : ts \in Nat
  OBVIOUS
<1> QED BY <1>1, <1>3, <1>4, <1>5, NothingYet, AgreementIs DEF BaselineInv

LEMMA ClearBaseline ==
  ASSUME EM!ClearExact
  PROVE  BaselineInv'
<1>1. /\ exact_last_ts' = 0 /\ cur_matrix' = EM!Zero /\ matrices' = <<>>
      /\ fnorm_sqr' = << <<0, 0>> >> /\ stream' = <<>>
  BY DEF EM!ClearExact
<1>2. NormList'
  BY <1>1 DEF NormList
<1>3. BaselineTypes'
  <2>1. <<>> \in Seq(Nat \X Matrix) /\ <<>> \in Seq(Entry)
    OBVIOUS
  <2> QED BY <1>1, <1>2, <2>1, TraceZero DEF BaselineTypes
<1>4. Filing'
  BY <1>1 DEF Filing, EM!Newest, EM!Zero
<1>5. \A ts \in 1 .. MatrixMaxTs : ts \in Nat
  OBVIOUS
<1> QED BY <1>1, <1>3, <1>4, <1>5, NothingYet, AgreementWillBe DEF BaselineInv

LEMMA MatrixRow ==
  ASSUME BaselineTypes, NEW row \in EM!Row
  PROVE  row \in Line
<1>1. SampledRowsAt \in Seq(SUBSET Line)
  BY RowsAssumption DEF Line
<1>2. /\ Len(stream) \in Nat /\ Len(stream) < Len(SampledRowsAt)
      /\ row \in SampledRowsAt[Len(stream) + 1]
  BY DEF EM!Row, BaselineTypes
<1>3. SampledRowsAt[Len(stream) + 1] \in SUBSET Line
  BY <1>1, <1>2
<1> QED BY <1>2, <1>3

LEMMA FeedBaseline ==
  ASSUME BaselineInv, NEW now \in 1 .. MatrixMaxTs, NEW row \in EM!Row, NEW item,
         item = [ts |-> now, axis |-> row.axis, norm |-> row.norm], EM!Feed(now, row, item)
  PROVE  BaselineInv'
<1>1. BaselineTypes /\ Filing /\ NormList /\ EM!BaselinesAgree
  BY DEF BaselineInv, BaselineTypes
<1>2. /\ now \in Nat /\ now > 0 /\ now >= EM!Last(fnorm_sqr)[1] /\ now >= exact_last_ts
      /\ fnorm_sqr' = EM!Counted(now, row.norm) /\ matrices' = EM!Filed(now)
      /\ cur_matrix' = EM!Dspr(cur_matrix, row) /\ exact_last_ts' = now
      /\ stream' = Append(stream, item) /\ astray' = astray
  BY <1>1 DEF EM!Feed, Filing
<1>3. row.axis \in Axis /\ row.norm \in Nat
  BY <1>1, MatrixRow DEF Line
<1>4. PICK a \in Axis, w \in Nat : a = row.axis /\ w = row.norm
  BY <1>3
<1>5. item \in Entry /\ item.ts = now /\ item.axis = a /\ item.norm = w
  BY <1>2, <1>3, <1>4 DEF Entry
<1>6. PICK B \in Seq(Entry), D \in Seq(Entry) :
        B = stream /\ D = stream' /\ D = Append(B, item) /\ D # <<>> /\ D[Len(D)] = item
  <2>1. PICK B \in Seq(Entry) : B = stream
    BY <1>1 DEF BaselineTypes
  <2>2. PICK D : D = Append(B, item)
    OBVIOUS
  <2>3. D \in Seq(Entry) /\ D # <<>> /\ D[Len(D)] = item
    BY ONLY <1>5, <2>1, <2>2
  <2> QED BY <1>2, <2>1, <2>2, <2>3
<1>7. PICK was \in Matrix, cur \in Matrix :
        /\ was = cur_matrix /\ cur = cur_matrix' /\ cur = EM!Dspr(was, item)
        /\ EM!Trace(was) \in Int /\ EM!Trace(cur) = EM!Trace(was) + w
  <2>1. PICK was \in Matrix : was = cur_matrix
    BY <1>1 DEF BaselineTypes
  <2>2. EM!Dspr(was, row) = EM!Dspr(was, item)
    BY <1>4, <1>5 DEF EM!Dspr
  <2>3. /\ EM!Trace(was) \in Int /\ EM!Dspr(was, row) \in Matrix
        /\ EM!Trace(EM!Dspr(was, row)) = EM!Trace(was) + w
    BY <1>3, <1>4, TraceAdds
  <2> QED BY <1>2, <2>1, <2>2, <2>3
<1>8. Files(matrices', now, cur)
  <2>1. Due(now) /\ now >= exact_last_ts
    BY <1>2 DEF Due
  <2>2. Files(EM!Filed(now), now, cur)
    BY ONLY <1>1, <2>1, FiledIs
  <2> QED BY <1>2, <2>2
<1>9. Counts(fnorm_sqr', now, w)
  <2>1. Due(now)
    BY <1>2 DEF Due
  <2>2. Counts(EM!Counted(now, w), now, w)
    BY ONLY <1>1, <1>4, <2>1, CountedIs
  <2> QED BY <1>2, <1>4, <2>2
<1>10. BaselineTypes'
  BY <1>2, <1>6, <1>7, <1>8, <1>9 DEF BaselineTypes, NormList, Files, Counts
<1>11. Filing'
  <2>1. EM!Last(D) = D[Len(D)]
    BY DEF EM!Last
  <2>2. EM!Newest' = now
    BY <1>5, <1>6, <2>1 DEF EM!Newest, EM!Last
  <2> QED BY <1>2, <1>8, <2>2 DEF Filing, Files
<1>12. ASSUME NEW ts \in 1 .. MatrixMaxTs
       PROVE  /\ MatrixAt(exact_last_ts', cur_matrix', matrices', ts) = UpTo(stream', ts)
              /\ ~astray' => NormAt(fnorm_sqr', ts)
                   = EM!Trace(MatrixAt(exact_last_ts', cur_matrix', matrices', ts))
  <2>1. ts \in Nat
    OBVIOUS
  <2>2. PICK m : m = MatrixAt(exact_last_ts, cur_matrix, matrices, ts)
    OBVIOUS
  <2>3. m = UpTo(B, ts) /\ (~astray => NormAt(fnorm_sqr, ts) = EM!Trace(m))
    BY <1>1, <1>6, <2>2, AgreementIs
  <2>4. UpTo(D, ts) = IF now <= ts THEN EM!Dspr(UpTo(B, ts), item) ELSE UpTo(B, ts)
    <3>1. item \in Entry
      BY <1>5
    <3>2. OneMore(Append(B, item), B, item, ts)
      BY ONLY <1>6, <3>1, UpToAppend
    <3> QED BY <1>5, <1>6, <3>2 DEF OneMore
  <2>5. now <= ts => m = was
    BY <1>1, <1>2, <1>7, <2>1, <2>2 DEF MatrixAt, BaselineTypes
  <2>6. MatrixAt(exact_last_ts', cur_matrix', matrices', ts) = IF now <= ts THEN cur ELSE m
    BY <1>2, <1>7, <1>8, <2>1, <2>2 DEF Files
  <2> QED BY <1>2, <1>6, <1>7, <1>9, <2>1, <2>3, <2>4, <2>5, <2>6 DEF Counts
<1> QED BY <1>10, <1>11, <1>12, AgreementWillBe DEF BaselineInv

LEMMA MalformedBaseline ==
  ASSUME BaselineInv, NEW now \in 1 .. MatrixMaxTs, NEW w \in Nat, EM!MalformedLine(now, w)
  PROVE  BaselineInv'
<1>1. BaselineTypes /\ Filing /\ NormList /\ EM!BaselinesAgree
  BY DEF BaselineInv, BaselineTypes
<1>2. /\ now \in Nat /\ now > 0 /\ now >= EM!Last(fnorm_sqr)[1]
      /\ fnorm_sqr' = EM!Counted(now, w) /\ ~astray /\ astray' = (w # 0)
      /\ exact_last_ts' = exact_last_ts /\ cur_matrix' = cur_matrix
      /\ matrices' = matrices /\ stream' = stream
  BY DEF EM!MalformedLine
<1>3. Counts(fnorm_sqr', now, w)
  <2>1. Due(now)
    BY <1>2 DEF Due
  <2>2. Counts(EM!Counted(now, w), now, w)
    BY ONLY <1>1, <2>1, CountedIs
  <2> QED BY <1>2, <2>2
<1>4. BaselineTypes'
  BY <1>1, <1>2, <1>3 DEF BaselineTypes, NormList, Counts
<1>5. Filing'
  <2>1. EM!Newest' = EM!Newest
    BY <1>2 DEF EM!Newest, EM!Last
  <2> QED BY <1>1, <1>2, <2>1 DEF Filing, EM!Zero
<1>6. ASSUME NEW ts \in 1 .. MatrixMaxTs
      PROVE  /\ MatrixAt(exact_last_ts', cur_matrix', matrices', ts) = UpTo(stream', ts)
             /\ ~astray' => NormAt(fnorm_sqr', ts)
                  = EM!Trace(MatrixAt(exact_last_ts', cur_matrix', matrices', ts))
  <2>1. ~astray' => NormAt(fnorm_sqr', ts) = NormAt(fnorm_sqr, ts)
    <3>1. ts \in Nat
      OBVIOUS
    <3>2. PICK a \in Int : a = NormAt(fnorm_sqr, ts)
      BY <1>3, <3>1 DEF Counts
    <3>4. NormAt(fnorm_sqr', ts) = IF now <= ts THEN a + w ELSE a
      BY <1>3, <3>1, <3>2 DEF Counts
    <3>3. ~astray' => w = 0
      BY <1>2
    <3> QED BY <3>2, <3>3, <3>4
  <2> QED BY <1>1, <1>2, <2>1, AgreementIs
<1> QED BY <1>4, <1>5, <1>6, AgreementWillBe DEF BaselineInv

-----------------------------------------------------------------------------
(* What a slot of SAMPLING held at a time *)

\* The newest version not after ts, if any.
Shown(v, ts) == ATTP!LastOf(v, ts)
NotAfter(v, ts) == {k \in 1 .. Len(v) : v[k].ts <= ts}

ShownIs(v, ts) ==
  \/ NotAfter(v, ts) = {} /\ Shown(v, ts) = ATTP!None
  \/ \E k \in NotAfter(v, ts) :
       (\A j \in NotAfter(v, ts) : j <= k) /\ Shown(v, ts) = v[k]

LEMMA ShownFound ==
  ASSUME NEW v, Len(v) \in Nat, NEW ts
  PROVE  ShownIs(v, ts)
<1>1. PICK T : T = NotAfter(v, ts)
  OBVIOUS
<1>2. T \in SUBSET (1 .. Len(v))
  BY <1>1 DEF NotAfter
<1>3. PICK m : m = EM!Max({0} \cup T)
  OBVIOUS
<1>4. m \in {0} \cup T /\ \A i \in T : i <= m
  BY <1>2, <1>3, GreatestIs
<1>5. Shown(v, ts) = IF m = 0 THEN ATTP!None ELSE v[m]
  BY <1>1, <1>3 DEF Shown, ATTP!LastOf, ATTP!LastAt, NotAfter, ATTP!Max, EM!Max
<1>6. CASE m = 0
  <2>1. T = {}
    BY <1>2, <1>4, <1>6
  <2> QED BY <1>1, <1>5, <1>6, <2>1 DEF ShownIs
<1>7. CASE m # 0
  <2>1. m \in T
    BY <1>4, <1>7
  <2> QED BY <1>1, <1>4, <1>5, <1>7, <2>1 DEF ShownIs
<1> QED BY <1>6, <1>7

LEMMA ShownUnique ==
  ASSUME NEW v, Len(v) \in Nat, NEW ts, NEW k \in NotAfter(v, ts),
         \A j \in NotAfter(v, ts) : j <= k
  PROVE  Shown(v, ts) = v[k]
<1>1. PICK m \in NotAfter(v, ts) : (\A j \in NotAfter(v, ts) : j <= m) /\ Shown(v, ts) = v[m]
  BY ShownFound DEF ShownIs
<1>2. m <= k /\ k <= m /\ m \in Nat /\ k \in Nat
  BY <1>1 DEF NotAfter
<1>3. m = k
  BY ONLY <1>2
<1> QED BY <1>1, <1>3

LEMMA ShownEmpty ==
  ASSUME NEW ts
  PROVE  Shown(<<>>, ts) = ATTP!None
<1>1. Len(<<>>) = 0 /\ Len(<<>>) \in Nat
  OBVIOUS
<1>2. NotAfter(<<>>, ts) = {}
  BY <1>1 DEF NotAfter
<1> QED BY <1>1, <1>2, ShownFound DEF ShownIs

LEMMA ShownLast ==
  ASSUME NEW v, NEW n \in Nat, Len(v) = n, n >= 1, NEW ts, v[n].ts <= ts
  PROVE  Shown(v, ts) = v[n]
<1>1. n \in NotAfter(v, ts) /\ \A j \in NotAfter(v, ts) : j <= n
  BY DEF NotAfter
<1> QED BY <1>1, ShownUnique

LEMMA ShownAppend ==
  ASSUME NEW X, NEW v \in Seq(X), NEW e \in X, NEW ts
  PROVE  Shown(Append(v, e), ts) = IF e.ts <= ts THEN e ELSE Shown(v, ts)
<1>1. PICK w : w = Append(v, e)
  OBVIOUS
<1>2. PICK n \in Nat : n = Len(v)
  OBVIOUS
<1>3. Len(w) = n + 1 /\ w[n + 1] = e /\ \A k \in 1 .. n : w[k] = v[k]
  BY <1>1, <1>2
<1>4. CASE e.ts <= ts
  <2>1. PICK p \in Nat : p = n + 1 /\ p >= 1
    OBVIOUS
  <2>2. Len(w) = p /\ w[p] = e /\ w[p].ts <= ts
    BY <1>3, <1>4, <2>1
  <2>3. Shown(w, ts) = w[p]
    BY <2>1, <2>2, ShownLast
  <2> QED BY <1>1, <1>4, <2>2, <2>3
<1>5. CASE ~(e.ts <= ts)
  <2>1. NotAfter(w, ts) = NotAfter(v, ts)
    <3>1. ASSUME NEW k PROVE k \in NotAfter(w, ts) <=> k \in NotAfter(v, ts)
      <4>1. CASE k \in 1 .. n
        BY <1>2, <1>3, <4>1 DEF NotAfter
      <4>2. CASE k = n + 1
        BY <1>2, <1>3, <1>5, <4>2 DEF NotAfter
      <4> QED BY <1>2, <1>3, <4>1, <4>2 DEF NotAfter
    <3> QED BY <3>1
  <2>2. CASE NotAfter(v, ts) = {} /\ Shown(v, ts) = ATTP!None
    <3>1. Shown(w, ts) = ATTP!None
      BY <1>3, <2>1, <2>2, ShownFound DEF ShownIs
    <3> QED BY <1>1, <1>5, <2>2, <3>1
  <2>3. CASE \E k \in NotAfter(v, ts) :
               (\A j \in NotAfter(v, ts) : j <= k) /\ Shown(v, ts) = v[k]
    <3>1. PICK k \in NotAfter(v, ts) :
                 (\A j \in NotAfter(v, ts) : j <= k) /\ Shown(v, ts) = v[k]
      BY <2>3
    <3>2. k \in NotAfter(w, ts) /\ (\A j \in NotAfter(w, ts) : j <= k) /\ Len(w) \in Nat
      BY <1>3, <2>1, <3>1
    <3>3. Shown(w, ts) = w[k]
      BY ONLY <3>2, ShownUnique
    <3>4. w[k] = v[k]
      BY <1>2, <1>3, <3>1 DEF NotAfter
    <3> QED BY <1>1, <1>5, <3>1, <3>3, <3>4
  <2> QED BY <1>2, <2>2, <2>3, ShownFound DEF ShownIs
<1> QED BY <1>4, <1>5

-----------------------------------------------------------------------------
(* The sample of SAMPLING after the first n arrivals of the sequence S     *)

Item == [ts : Nat \ {0}, value : Value, arrival : Nat]

\* The first n of S are numbered, in the order of time.
Numbered(S, n) ==
  /\ \A k \in 1 .. n : S[k] \in Item /\ S[k].arrival = k
  /\ \A j, k \in 1 .. n : j <= k => S[j].ts <= S[k].ts

\* h is what the slots hold of the m arrivals up to ts.
Sampled(h, S, n, ts, m) ==
  /\ m \in 0 .. n
  /\ \A k \in 1 .. n : S[k].ts <= ts <=> k <= m
  /\ \A i \in ATTP!Slot : i > m => h[i] = ATTP!None
  /\ \A i \in ATTP!Slot : i <= m => h[i].arrival \in 1 .. m /\ h[i] = S[h[i].arrival]
  /\ \A i, j \in ATTP!Slot : i <= m /\ j <= m /\ i # j => h[i].arrival # h[j].arrival
  /\ m <= sample_size => \A i \in 1 .. m : h[i] = S[i]

LEMMA SampledNothing ==
  ASSUME sample_size \in Nat, NEW S, NEW ts, NEW h, \A i \in ATTP!Slot : h[i] = ATTP!None
  PROVE  Sampled(h, S, 0, ts, 0)
<1>1. \A i \in ATTP!Slot : i \in Nat /\ i >= 1 /\ i <= sample_size
  BY DEF ATTP!Slot
<1> QED BY <1>1 DEF Sampled

LEMMA SampledLater ==
  ASSUME NEW n \in Nat, NEW S, NEW ts \in Nat, NEW m, NEW h, Sampled(h, S, n, ts, m),
         S[n + 1].ts \in Nat, S[n + 1].ts > ts
  PROVE  Sampled(h, S, n + 1, ts, m)
<1>1. m \in 0 .. n /\ m \in 0 .. (n + 1)
  BY DEF Sampled
<1>2. \A k \in 1 .. (n + 1) : S[k].ts <= ts <=> k <= m
  <2> SUFFICES ASSUME NEW k \in 1 .. (n + 1) PROVE S[k].ts <= ts <=> k <= m
    OBVIOUS
  <2>1. CASE k \in 1 .. n
    BY <2>1 DEF Sampled
  <2>2. CASE k = n + 1
    BY <1>1, <2>2
  <2> QED BY <2>1, <2>2
<1> QED BY <1>1, <1>2 DEF Sampled

\* The arrival e goes to the slot at, if that is one.
Replaced(h, g, at, e) ==
  \A i \in ATTP!Slot : g[i] = IF i = at THEN e ELSE h[i]

\* Where the arrival after n others goes.
Goes(at, n) == at \in Nat /\ at >= 1 /\ (n < sample_size => at = n + 1)

LEMMA SampledMore ==
  ASSUME sample_size \in Nat, NEW n \in Nat, NEW S, NEW ts \in Nat, NEW m, NEW h,
         Sampled(h, S, n, ts, m), Numbered(S, n + 1), S[n + 1].ts <= ts,
         NEW at, Goes(at, n), NEW g, Replaced(h, g, at, S[n + 1])
  PROVE  Sampled(g, S, n + 1, ts, n + 1)
<1>1. /\ S[n + 1].arrival = n + 1
      /\ \A k \in 1 .. (n + 1) : S[k].ts <= ts
  <2>1. n + 1 \in 1 .. (n + 1)
    OBVIOUS
  <2>2. \A k \in 1 .. (n + 1) : S[k].ts <= S[n + 1].ts /\ S[k].ts \in Nat
    BY <2>1 DEF Numbered, Item
  <2> QED BY <2>1, <2>2 DEF Numbered, Item
<1>2. m = n
  <2>1. m \in 0 .. n /\ (\A k \in 1 .. n : k <= m)
    BY <1>1 DEF Sampled
  <2> QED BY <2>1
<1>3. \A i \in ATTP!Slot : i \in Nat /\ i >= 1 /\ i <= sample_size
  BY DEF ATTP!Slot
<1>4. \A k \in 1 .. (n + 1) : S[k].ts <= ts <=> k <= n + 1
  BY <1>1
<1>5. ASSUME NEW i \in ATTP!Slot, i > n + 1 PROVE g[i] = ATTP!None
  BY <1>2, <1>3, <1>5 DEF Sampled, Replaced, Goes
<1>6. ASSUME NEW i \in ATTP!Slot, i <= n + 1
      PROVE  /\ i = at => g[i] = S[n + 1] /\ g[i].arrival = n + 1
             /\ i # at => i <= n /\ g[i] = h[i] /\ g[i].arrival \in 1 .. n
                          /\ g[i] = S[g[i].arrival]
  <2>1. CASE i = at
    BY <1>1, <2>1 DEF Replaced
  <2>2. CASE i # at
    <3>1. i <= n
      <4>1. n < sample_size => at = n + 1
        BY DEF Goes
      <4> QED BY <1>3, <1>6, <2>2, <4>1
    <3>2. g[i] = h[i]
      BY <2>2 DEF Replaced
    <3> QED BY <1>2, <2>2, <3>1, <3>2 DEF Sampled
  <2> QED BY <2>1, <2>2
<1>7. ASSUME NEW i \in ATTP!Slot, i <= n + 1
      PROVE  g[i].arrival \in 1 .. (n + 1) /\ g[i] = S[g[i].arrival]
  BY <1>6, <1>7
<1>8. ASSUME NEW i \in ATTP!Slot, NEW j \in ATTP!Slot, i <= n + 1, j <= n + 1, i # j
      PROVE  g[i].arrival # g[j].arrival
  <2>1. CASE i = at
    <3>1. g[i].arrival = n + 1 /\ g[j].arrival \in 1 .. n
      BY <1>6, <1>8, <2>1
    <3> QED BY <3>1
  <2>2. CASE j = at
    <3>1. g[j].arrival = n + 1 /\ g[i].arrival \in 1 .. n
      BY <1>6, <1>8, <2>2
    <3> QED BY <3>1
  <2>3. CASE i # at /\ j # at
    <3>1. i <= n /\ g[i] = h[i] /\ j <= n /\ g[j] = h[j]
      BY <1>6, <1>8, <2>3
    <3> QED BY <1>2, <1>8, <3>1 DEF Sampled
  <2> QED BY <2>1, <2>2, <2>3
<1>9. ASSUME n + 1 <= sample_size, NEW i \in 1 .. (n + 1) PROVE g[i] = S[i]
  <2>1. at = n + 1 /\ i \in ATTP!Slot
    BY <1>9 DEF Goes, ATTP!Slot
  <2>2. CASE i = at
    BY <1>6, <2>1, <2>2
  <2>3. CASE i # at
    <3>1. i \in 1 .. n /\ n <= sample_size
      BY <1>9, <2>1, <2>3
    <3>2. g[i] = h[i]
      BY <2>1, <2>3 DEF Replaced
    <3> QED BY <1>2, <3>1, <3>2 DEF Sampled
  <2> QED BY <2>2, <2>3
<1>10. n + 1 \in 0 .. (n + 1)
  OBVIOUS
<1> QED BY <1>4, <1>5, <1>7, <1>8, <1>9, <1>10 DEF Sampled

\* r is what update_loop makes of the slots with the first n arrivals of S.
Kept(r, S, n) ==
  /\ r \in [ATTP!Slot -> Seq(Item)]
  /\ n = 0 => \A i \in ATTP!Slot : r[i] = <<>>
  /\ \A i \in ATTP!Slot : r[i] # <<>> => n >= 1 /\ r[i][Len(r[i])].ts <= S[n].ts
  /\ \A ts \in Nat : \E m : Sampled([i \in ATTP!Slot |-> Shown(r[i], ts)], S, n, ts, m)

LEMMA KeptNothing ==
  ASSUME sample_size \in Nat, NEW S
  PROVE  Kept([i \in ATTP!Slot |-> <<>>], S, 0)
<1>1. PICK r : r = [i \in ATTP!Slot |-> <<>>]
  OBVIOUS
<1>2. r \in [ATTP!Slot -> Seq(Item)] /\ \A i \in ATTP!Slot : r[i] = <<>>
  <2>1. <<>> \in Seq(Item)
    OBVIOUS
  <2> QED BY <1>1, <2>1
<1>3. ASSUME NEW ts \in Nat
      PROVE  Sampled([i \in ATTP!Slot |-> Shown(r[i], ts)], S, 0, ts, 0)
  <2>1. \A i \in ATTP!Slot : [j \in ATTP!Slot |-> Shown(r[j], ts)][i] = ATTP!None
    BY <1>2, ShownEmpty
  <2> QED BY <2>1, SampledNothing
<1> QED BY <1>1, <1>2, <1>3 DEF Kept

LEMMA KeptAgrees ==
  ASSUME NEW n \in Nat, NEW r, NEW S, NEW T, \A k \in 1 .. n : S[k] = T[k], Kept(r, S, n)
  PROVE  Kept(r, T, n)
<1>1. ASSUME NEW h, NEW ts \in Nat, NEW m, Sampled(h, S, n, ts, m)
      PROVE  Sampled(h, T, n, ts, m)
  <2>1. m \in 0 .. n
    BY <1>1 DEF Sampled
  <2>2. \A k \in 1 .. m : S[k] = T[k]
    BY <2>1
  <2>3. \A k \in 1 .. n : T[k].ts <= ts <=> k <= m
    BY <1>1 DEF Sampled
  <2>4. \A i \in ATTP!Slot : i <= m => h[i].arrival \in 1 .. m /\ h[i] = T[h[i].arrival]
    BY <1>1, <2>2 DEF Sampled
  <2>5. m <= sample_size => \A i \in 1 .. m : h[i] = T[i]
    BY <1>1, <2>2 DEF Sampled
  <2> QED BY <1>1, <2>1, <2>3, <2>4, <2>5 DEF Sampled
<1>2. ASSUME n >= 1 PROVE S[n] = T[n]
  BY <1>2
<1> QED BY <1>1, <1>2 DEF Kept

LEMMA TakenKeeps ==
  ASSUME sample_size \in Nat, NEW n \in Nat, NEW r, NEW S, Kept(r, S, n), Numbered(S, n + 1),
         NEW slot \in 1 .. (sample_size + 1)
  PROVE  Kept(ATTP!Taken(r, n, S[n + 1], slot), S, n + 1)
<1>1. PICK e : e = S[n + 1]
  OBVIOUS
<1>2. e \in Item /\ e.ts \in Nat
  <2>1. n + 1 \in 1 .. (n + 1)
    OBVIOUS
  <2> QED BY <1>1, <2>1 DEF Numbered, Item
<1>3. PICK at : at = IF n < sample_size THEN n + 1 ELSE slot
  OBVIOUS
<1>4. Goes(at, n)
  BY <1>3 DEF Goes
<1>5. PICK q : q = ATTP!Taken(r, n, e, slot)
  OBVIOUS
<1>6. q = IF at \in ATTP!Slot THEN [r EXCEPT ![at] = Append(@, e)] ELSE r
  BY <1>3, <1>5 DEF ATTP!Taken
<1>7. \A i \in ATTP!Slot : r[i] \in Seq(Item)
  BY DEF Kept
<1>8. /\ q \in [ATTP!Slot -> Seq(Item)]
      /\ \A i \in ATTP!Slot : q[i] = IF i = at THEN Append(r[i], e) ELSE r[i]
  <2>1. \A i \in ATTP!Slot : Append(r[i], e) \in Seq(Item)
    BY <1>2, <1>7
  <2> QED BY <1>6, <2>1 DEF Kept
<1>9. ASSUME NEW i \in ATTP!Slot, q[i] # <<>>
      PROVE  n + 1 >= 1 /\ q[i][Len(q[i])].ts <= e.ts
  <2>1. CASE i = at
    <3>1. q[i] = Append(r[i], e)
      BY <1>8, <2>1
    <3>2. q[i][Len(q[i])] = e
      BY <1>2, <1>7, <3>1
    <3> QED BY <1>2, <3>2
  <2>2. CASE i # at
    <3>1. q[i] = r[i]
      BY <1>8, <2>2
    <3>2. n >= 1 /\ q[i][Len(q[i])].ts <= S[n].ts
      BY <1>9, <3>1 DEF Kept
    <3>3. S[n].ts <= e.ts /\ S[n].ts \in Nat
      <4>1. n \in 1 .. (n + 1) /\ n + 1 \in 1 .. (n + 1) /\ n <= n + 1
        BY <3>2
      <4> QED BY <1>1, <4>1 DEF Numbered, Item
    <3>4. q[i][Len(q[i])].ts \in Nat
      <4>1. Len(r[i]) \in 1 .. Len(r[i])
        BY <1>7, <1>9, <3>1
      <4>2. r[i][Len(r[i])] \in Item
        BY <1>7, <4>1
      <4> QED BY <3>1, <4>2 DEF Item
    <3>5. \A x, y, z \in Nat : x <= y /\ y <= z => x <= z
      OBVIOUS
    <3>6. q[i][Len(q[i])].ts <= e.ts
      BY <1>2, <3>2, <3>3, <3>4, <3>5
    <3> QED BY <3>2, <3>6
  <2> QED BY <2>1, <2>2
<1>10. ASSUME NEW ts \in Nat
       PROVE  \E m : Sampled([i \in ATTP!Slot |-> Shown(q[i], ts)], S, n + 1, ts, m)
  <2>1. PICK h, g : /\ h = [i \in ATTP!Slot |-> Shown(r[i], ts)]
                    /\ g = [i \in ATTP!Slot |-> Shown(q[i], ts)]
    OBVIOUS
  <2>2. PICK m : Sampled(h, S, n, ts, m)
    BY <2>1 DEF Kept
  <2>3. \A i \in ATTP!Slot :
          g[i] = IF i = at THEN IF e.ts <= ts THEN e ELSE h[i] ELSE h[i]
    <3> SUFFICES ASSUME NEW i \in ATTP!Slot
                 PROVE  g[i] = IF i = at THEN IF e.ts <= ts THEN e ELSE h[i] ELSE h[i]
      OBVIOUS
    <3>1. Shown(Append(r[i], e), ts) = IF e.ts <= ts THEN e ELSE Shown(r[i], ts)
      BY <1>2, <1>7, ShownAppend
    <3> QED BY <1>8, <2>1, <3>1
  <2>4. CASE e.ts <= ts
    <3>1. Replaced(h, g, at, S[n + 1])
      BY <1>1, <2>3, <2>4 DEF Replaced
    <3>2. Sampled(g, S, n + 1, ts, n + 1)
      BY <1>1, <1>4, <2>2, <2>4, <3>1, SampledMore
    <3> QED BY <2>1, <3>2
  <2>5. CASE e.ts > ts
    <3>1. \A i \in ATTP!Slot : g[i] = h[i]
      BY <1>2, <2>3, <2>5
    <3>2. g = h
      BY <2>1, <3>1
    <3>3. Sampled(h, S, n + 1, ts, m)
      BY <1>1, <1>2, <2>2, <2>5, SampledLater
    <3> QED BY <2>1, <3>2, <3>3
  <2> QED BY <1>2, <2>4, <2>5
<1>11. Kept(q, S, n + 1)
  <2>1. n + 1 # 0 /\ n + 1 >= 1
    OBVIOUS
  <2>2. \A i \in ATTP!Slot : q[i] # <<>> => n + 1 >= 1 /\ q[i][Len(q[i])].ts <= S[n + 1].ts
    BY <1>1, <1>9
  <2>3. q \in [ATTP!Slot -> Seq(Item)]
    BY <1>8
  <2> QED BY ONLY <1>10, <2>1, <2>2, <2>3 DEF Kept
<1> QED BY <1>1, <1>5, <1>11

\* r and q show the same before ts.
SameBefore(r, q, ts) ==
  \A t \in Nat, i \in ATTP!Slot : t < ts => Shown(q[i], t) = Shown(r[i], t)

LEMMA TakenBefore ==
  ASSUME NEW n \in Nat, NEW r, r \in [ATTP!Slot -> Seq(Item)], NEW e \in Item, NEW slot
  PROVE  SameBefore(r, ATTP!Taken(r, n, e, slot), e.ts)
<1>1. PICK at, q : /\ at = IF n < sample_size THEN n + 1 ELSE slot
                   /\ q = ATTP!Taken(r, n, e, slot)
  OBVIOUS
<1>2. \A i \in ATTP!Slot : r[i] \in Seq(Item) /\ q[i] = IF i = at THEN Append(r[i], e) ELSE r[i]
  BY <1>1 DEF ATTP!Taken
<1>3. ASSUME NEW t \in Nat, NEW i \in ATTP!Slot, t < e.ts
      PROVE  Shown(q[i], t) = Shown(r[i], t)
  <2>1. ~(e.ts <= t)
    BY <1>3 DEF Item
  <2>2. Shown(Append(r[i], e), t) = Shown(r[i], t)
    BY <1>2, <2>1, ShownAppend
  <2> QED BY <1>2, <2>2
<1> QED BY <1>1, <1>3 DEF SameBefore

\* f is m_reservoir after each turn of update_loop.
Taking(f, items, slots, c) ==
  f = [j \in 0 .. c |->
         IF j = 0 THEN reservoir
         ELSE ATTP!Taken(f[j - 1], seen + j - 1, items[j], slots[j])]

LEMMA TakingExists ==
  ASSUME NEW items, NEW slots, NEW n \in Nat
  PROVE  \E f : Taking(f, items, slots, n)
<1> DEFINE W == {k \in Nat : \E f : Taking(f, items, slots, k)}
<1>1. 0 \in W
  <2>1. Taking([k \in 0 .. 0 |-> reservoir], items, slots, 0)
    BY DEF Taking
  <2> QED BY <2>1
<1>2. ASSUME NEW k \in W PROVE k + 1 \in W
  <2>1. PICK f : Taking(f, items, slots, k)
    OBVIOUS
  <2>2. PICK g : g = [i \in 0 .. (k + 1) |->
                        IF i = k + 1
                        THEN ATTP!Taken(f[k], seen + (k + 1) - 1, items[k + 1], slots[k + 1])
                        ELSE f[i]]
    OBVIOUS
  <2>3. ASSUME NEW i \in 0 .. (k + 1)
        PROVE  g[i] = IF i = 0 THEN reservoir
                      ELSE ATTP!Taken(g[i - 1], seen + i - 1, items[i], slots[i])
    <3>1. CASE i = k + 1
      <4>1. i # 0 /\ i - 1 = k /\ k \in 0 .. (k + 1) /\ k # k + 1
        BY <3>1
      <4>2. g[k] = f[k]
        BY <2>2, <4>1
      <4> QED BY <2>2, <3>1, <4>1, <4>2
    <3>2. CASE i # k + 1
      <4>1. i \in 0 .. k
        BY <3>2
      <4>2. g[i] = f[i]
        BY <2>2, <3>2
      <4>3. f[i] = IF i = 0 THEN reservoir
                   ELSE ATTP!Taken(f[i - 1], seen + i - 1, items[i], slots[i])
        BY <2>1, <4>1 DEF Taking
      <4>4. i # 0 => g[i - 1] = f[i - 1]
        <5>1. i # 0 => i - 1 \in 0 .. (k + 1) /\ i - 1 # k + 1
          BY <4>1
        <5> QED BY <2>2, <5>1
      <4> QED BY <4>2, <4>3, <4>4
    <3> QED BY <3>1, <3>2
  <2>4. Taking(g, items, slots, k + 1)
    BY <2>2, <2>3 DEF Taking
  <2>5. k + 1 \in Nat
    BY DEF W
  <2> QED BY <2>4, <2>5
<1>3. W = Nat
  <2>1. W \in SUBSET Nat
    BY DEF W
  <2> QED BY <1>1, <1>2, <2>1, NatSetInduction
<1> QED BY <1>3 DEF W

\* S continues the arrivals with c items.
Continued(S, items, c) ==
  /\ \A k \in 1 .. seen : S[k] = stream[k]
  /\ \A j \in 1 .. c : S[seen + j] = items[j]
  /\ \A n \in 0 .. (seen + c) : Numbered(S, n)

LEMMA TakenAllKeeps ==
  ASSUME sample_size \in Nat, seen \in Nat, Kept(reservoir, stream, seen),
         NEW items, NEW c \in Nat, NEW slots \in [1 .. c -> 1 .. (sample_size + 1)],
         NEW S, Continued(S, items, c), NEW ts, \A j \in 1 .. c : items[j].ts = ts
  PROVE  /\ Kept(ATTP!TakenAll(items, slots, c), S, seen + c)
         /\ SameBefore(reservoir, ATTP!TakenAll(items, slots, c), ts)
<1>1. PICK f : Taking(f, items, slots, c) /\ ATTP!TakenAll(items, slots, c) = f[c]
  <2>1. ATTP!TakenAll(items, slots, c) = (CHOOSE f : Taking(f, items, slots, c))[c]
    BY DEF ATTP!TakenAll, Taking
  <2> QED BY <2>1, TakingExists
<1> DEFINE W == {j \in Nat : j <= c => Kept(f[j], S, seen + j)
                                    /\ SameBefore(reservoir, f[j], ts)}
<1>2. 0 \in W
  <2>1. f[0] = reservoir
    BY <1>1 DEF Taking
  <2>2. \A k \in 1 .. seen : stream[k] = S[k]
    BY DEF Continued
  <2>3. Kept(reservoir, S, seen)
    BY <2>2, KeptAgrees
  <2>4. SameBefore(reservoir, reservoir, ts)
    BY DEF SameBefore
  <2> QED BY <2>1, <2>3, <2>4
<1>3. ASSUME NEW j \in W PROVE j + 1 \in W
  <2>1. j \in Nat
    OBVIOUS
  <2> SUFFICES ASSUME j + 1 <= c
               PROVE  Kept(f[j + 1], S, seen + (j + 1)) /\ SameBefore(reservoir, f[j + 1], ts)
    BY <2>1
  <2>2. PICK n \in Nat : n = seen + j
    BY <2>1
  <2>3. Kept(f[j], S, n) /\ SameBefore(reservoir, f[j], ts)
    BY <2>1, <2>2
  <2>4. f[j + 1] = ATTP!Taken(f[j], n, items[j + 1], slots[j + 1])
    <3>1. j + 1 \in 0 .. c /\ j + 1 # 0 /\ (j + 1) - 1 = j /\ seen + (j + 1) - 1 = n
      BY <2>1, <2>2
    <3> HIDE DEF W
    <3> QED BY <1>1, <3>1 DEF Taking
  <2>5. /\ items[j + 1] = S[n + 1] /\ Numbered(S, n + 1)
        /\ slots[j + 1] \in 1 .. (sample_size + 1) /\ items[j + 1].ts = ts
    <3>1. j + 1 \in 1 .. c /\ seen + (j + 1) = n + 1 /\ n + 1 \in 0 .. (seen + c)
      BY <2>1, <2>2
    <3> QED BY <3>1 DEF Continued
  <2>6. Kept(f[j + 1], S, n + 1)
    BY <2>3, <2>4, <2>5, TakenKeeps
  <2>7. n + 1 = seen + (j + 1)
    BY <2>1, <2>2
  <2>8. S[n + 1] \in Item
    <3>1. n + 1 \in 1 .. (n + 1)
      OBVIOUS
    <3> QED BY <2>5, <3>1 DEF Numbered
  <2>9. SameBefore(f[j], f[j + 1], ts)
    <3>1. f[j] \in [ATTP!Slot -> Seq(Item)]
      BY <2>3 DEF Kept
    <3> HIDE DEF W
    <3> QED BY <2>4, <2>5, <2>8, <3>1, TakenBefore
  <2>10. SameBefore(reservoir, f[j + 1], ts)
    BY <2>3, <2>9 DEF SameBefore
  <2> QED BY <2>6, <2>7, <2>10
<1>4. c \in W
  <2>1. W \in SUBSET Nat
    BY DEF W
  <2>2. W = Nat
    <3> HIDE DEF W
    <3> QED BY <1>2, <1>3, <2>1, NatSetInduction
  <2> QED BY <2>2
<1> QED BY <1>1, <1>4

-----------------------------------------------------------------------------
(* The steps of SAMPLING                                                   *)

NewestOf(s) == IF s = <<>> THEN 0 ELSE s[Len(s)].ts

\* What all slots held at ts.
AllShown(r, ts) == [i \in ATTP!Slot |-> Shown(r[i], ts)]

ReservoirTypes ==
  /\ sample_size \in Nat \ {0} /\ frequency \in BOOLEAN
  /\ stream \in Seq(Item) /\ seen = Len(stream)

History ==
  /\ Numbered(stream, seen)
  /\ Kept(reservoir, stream, seen)
  /\ past = [t \in 1 .. NewestOf(stream) |-> AllShown(reservoir, t)]

LEMMA NewestIs ==
  /\ ATTP!Newest = NewestOf(stream)
  /\ ReservoirTypes /\ Numbered(stream, seen) =>
       /\ NewestOf(stream) \in Nat
       /\ \A k \in 1 .. seen : stream[k].ts <= NewestOf(stream)
       /\ seen # 0 => NewestOf(stream) = stream[seen].ts
<1>1. ATTP!Newest = NewestOf(stream)
  BY DEF ATTP!Newest, ATTP!Last, NewestOf
<1>2. ASSUME ReservoirTypes, Numbered(stream, seen)
      PROVE  /\ NewestOf(stream) \in Nat
             /\ \A k \in 1 .. seen : stream[k].ts <= NewestOf(stream)
             /\ seen # 0 => NewestOf(stream) = stream[seen].ts
  <2>1. stream \in Seq(Item) /\ seen = Len(stream) /\ seen \in Nat
    BY <1>2 DEF ReservoirTypes
  <2>2. seen = 0 => stream = <<>>
    BY <2>1, EmptySeq
  <2>3. seen # 0 => /\ NewestOf(stream) = stream[seen].ts /\ seen \in 1 .. seen
                    /\ stream # <<>>
    BY <2>1 DEF NewestOf
  <2>4. seen = 0 => NewestOf(stream) = 0
    BY <2>2 DEF NewestOf
  <2>5. \A k \in 1 .. seen : seen # 0 /\ k <= seen
    BY <2>1
  <2> QED BY <1>2, <2>1, <2>3, <2>4, <2>5 DEF Numbered, Item
<1> QED BY <1>1, <1>2

\* The stream grows by c items of ts.
Fed(items, ts, c) ==
  /\ ts \in Nat /\ ts >= 1 /\ ts >= NewestOf(stream) /\ c \in Nat /\ c >= 1
  /\ items \in Seq(Item) /\ Len(items) = c
  /\ \A j \in 1 .. c : items[j].ts = ts /\ items[j].arrival = seen + j
  /\ stream' = stream \o items /\ seen' = seen + c

LEMMA FedStream ==
  ASSUME ReservoirTypes, Numbered(stream, seen), NEW items, NEW ts, NEW c, Fed(items, ts, c)
  PROVE  /\ stream' \in Seq(Item) /\ seen' = Len(stream')
         /\ Continued(stream', items, c)
         /\ NewestOf(stream') = ts /\ stream'[seen'].ts = ts
<1>1. PICK S : S = stream'
  OBVIOUS
<1>2. /\ ts \in Nat /\ ts >= NewestOf(stream) /\ c \in Nat /\ c >= 1
      /\ items \in Seq(Item) /\ Len(items) = c
      /\ \A j \in 1 .. c : items[j].ts = ts /\ items[j].arrival = seen + j
      /\ S = stream \o items /\ seen' = seen + c
  BY <1>1 DEF Fed
<1>3. stream \in Seq(Item) /\ seen = Len(stream) /\ seen \in Nat
  BY DEF ReservoirTypes
<1>4. /\ S \in Seq(Item) /\ Len(S) = seen + c
      /\ \A i \in 1 .. (seen + c) : S[i] = IF i <= seen THEN stream[i] ELSE items[i - seen]
  <2>1. PICK X : X = Item /\ stream \in Seq(X) /\ items \in Seq(X)
    BY <1>2, <1>3
  <2>2. stream \o items \in Seq(X) /\ Len(stream \o items) = Len(stream) + Len(items)
    BY ONLY <2>1, ConcatProperties
  <2>3. \A i \in 1 .. Len(stream) + Len(items) :
          (stream \o items)[i] = IF i <= Len(stream) THEN stream[i] ELSE items[i - Len(stream)]
    BY ONLY <2>1, ConcatProperties
  <2> QED BY <1>2, <1>3, <2>1, <2>2, <2>3
<1>5. \A k \in 1 .. seen : S[k] = stream[k]
  BY <1>2, <1>3, <1>4
<1>6. ASSUME NEW j \in 1 .. c PROVE S[seen + j] = items[j]
  <2>1. seen + j \in 1 .. (seen + c) /\ ~(seen + j <= seen) /\ (seen + j) - seen = j
    BY <1>2, <1>3
  <2> QED BY <1>4, <2>1
<1>7. ASSUME NEW k \in 1 .. (seen + c)
      PROVE  /\ S[k] \in Item /\ S[k].arrival = k
             /\ k <= seen => S[k] = stream[k] /\ S[k].ts <= ts
             /\ k > seen => S[k].ts = ts
  <2>1. CASE k <= seen
    <3>1. k \in 1 .. seen /\ S[k] = stream[k]
      BY <1>3, <1>5, <2>1
    <3>2. stream[k] \in Item /\ stream[k].arrival = k
      BY <3>1 DEF Numbered
    <3>3. stream[k].ts <= NewestOf(stream) /\ NewestOf(stream) \in Nat
      BY <3>1, NewestIs
    <3>4. stream[k].ts \in Nat
      BY <3>2 DEF Item
    <3> QED BY <1>2, <1>3, <2>1, <3>1, <3>2, <3>3, <3>4
  <2>2. CASE k > seen
    <3>1. PICK j \in 1 .. c : j = k - seen
      BY <1>2, <1>3, <2>2
    <3>2. S[k] = items[j] /\ k = seen + j
      BY <1>3, <1>6, <3>1
    <3>3. items[j] \in Item
      BY <1>2, <3>1
    <3> QED BY <1>2, <1>3, <2>2, <3>2, <3>3
  <2> QED BY <1>2, <1>3, <2>1, <2>2
<1>8. ASSUME NEW n \in 0 .. (seen + c) PROVE Numbered(S, n)
  <2>1. ASSUME NEW j \in 1 .. n, NEW k \in 1 .. n, j <= k PROVE S[j].ts <= S[k].ts
    <3>1. j \in 1 .. (seen + c) /\ k \in 1 .. (seen + c)
      BY <1>2, <1>3
    <3>2. CASE k <= seen
      <4>1. j \in 1 .. seen /\ k \in 1 .. seen
        BY <1>3, <2>1, <3>2
      <4> QED BY <1>5, <2>1, <4>1 DEF Numbered
    <3>3. CASE k > seen
      <4>1. S[k].ts = ts
        BY <1>7, <3>1, <3>3
      <4>2. S[j].ts <= ts
        BY <1>2, <1>3, <1>7, <3>1
      <4> QED BY <4>1, <4>2
    <3> QED BY <1>3, <3>2, <3>3
  <2>2. \A k \in 1 .. n : k \in 1 .. (seen + c)
    BY <1>2, <1>3
  <2> QED BY <1>7, <2>1, <2>2 DEF Numbered
<1>9. seen + c \in 1 .. (seen + c) /\ seen + c > seen /\ S # <<>>
  BY <1>2, <1>3, <1>4
<1>10. S[seen + c].ts = ts /\ NewestOf(S) = ts
  BY <1>4, <1>7, <1>9 DEF NewestOf
<1>11. Continued(S, items, c)
  BY <1>5, <1>6, <1>8 DEF Continued
<1> QED BY <1>1, <1>2, <1>4, <1>10, <1>11

\* What was filed for the times before now is what r shows of them.
LEMMA PastGoesOn ==
  ASSUME ReservoirTypes, History, NEW now \in Nat, now >= 1, now >= NewestOf(stream),
         NEW r, SameBefore(reservoir, r, now),
         NEW t \in Nat, t >= 1, t < now
  PROVE  AllShown(r, t) = IF t \in DOMAIN past THEN past[t]
                          ELSE IF past = <<>> THEN [i \in ATTP!Slot |-> ATTP!None]
                          ELSE ATTP!Last(past)
<1>1. AllShown(r, t) = AllShown(reservoir, t)
  BY DEF AllShown, SameBefore
<1>2. PICK n \in Nat : n = NewestOf(stream)
  BY NewestIs DEF History
<1>3. past = [u \in 1 .. n |-> AllShown(reservoir, u)]
  BY <1>2 DEF History
<1>4. CASE t <= n
  BY <1>1, <1>3, <1>4
<1>5. CASE t > n
  <2>1. t \notin DOMAIN past
    BY <1>2, <1>3, <1>5
  <2>2. CASE n = 0
    <3>1. past = <<>>
      BY <1>3, <2>2
    <3>2. \A i \in ATTP!Slot : reservoir[i] = <<>>
      <4>1. seen = 0
        <5>1. seen # 0 => n = stream[seen].ts /\ seen \in 1 .. seen
          BY <1>2, NewestIs DEF History, ReservoirTypes
        <5> QED BY <1>2, <2>2, <5>1 DEF History, Numbered, Item, Kept
      <4> QED BY <4>1 DEF History, Kept
    <3>3. AllShown(reservoir, t) = [i \in ATTP!Slot |-> ATTP!None]
      BY <3>2, ShownEmpty DEF AllShown
    <3> QED BY <1>1, <2>1, <3>1, <3>3
  <2>3. CASE n # 0
    <3>1. n >= 1 /\ n \in 1 .. n
      BY <1>2, <2>3
    <3>2. past # <<>> /\ ATTP!Last(past) = AllShown(reservoir, n)
      <4>1. past[n] = AllShown(reservoir, n) /\ DOMAIN past = 1 .. n
        BY <1>3, <3>1
      <4>2. DOMAIN <<>> = {}
        OBVIOUS
      <4>3. Len(past) = n
        BY <1>2, <1>3
      <4> QED BY <3>1, <4>1, <4>2, <4>3 DEF ATTP!Last
    <3>3. ASSUME NEW i \in ATTP!Slot PROVE Shown(reservoir[i], t) = Shown(reservoir[i], n)
      <4>1. CASE reservoir[i] = <<>>
        BY <4>1, ShownEmpty
      <4>2. CASE reservoir[i] # <<>>
        <5>1. PICK v : v = reservoir[i]
          OBVIOUS
        <5>2. v \in Seq(Item) /\ v # <<>>
          BY <4>2, <5>1 DEF History, Kept
        <5>3. PICK p \in Nat : p = Len(v) /\ p >= 1
          BY <5>2, EmptySeq
        <5>4. v[p] \in Item
          BY <5>2, <5>3
        <5>5. seen >= 1 /\ v[p].ts <= stream[seen].ts
          BY <4>2, <5>1, <5>3 DEF History, Kept
        <5>6. n = stream[seen].ts
          BY <1>2, <5>5, NewestIs DEF History
        <5>7. v[p].ts <= n /\ v[p].ts <= t
          BY <1>2, <1>5, <5>4, <5>5, <5>6 DEF Item
        <5>8. Shown(v, n) = v[p] /\ Shown(v, t) = v[p]
          BY <5>3, <5>7, ShownLast
        <5> QED BY <5>1, <5>8
      <4> QED BY <4>1, <4>2
    <3>4. AllShown(reservoir, t) = AllShown(reservoir, n)
      BY <3>3 DEF AllShown
    <3> QED BY <1>1, <2>1, <3>2, <3>4
  <2> QED BY <2>2, <2>3
<1> QED BY <1>2, <1>4, <1>5

\* The newest versions are what the slots show now.
LEMMA ShownNow ==
  ASSUME NEW r, NEW S, NEW n \in Nat, Kept(r, S, n), NEW now \in Nat, n >= 1, S[n].ts = now
  PROVE  AllShown(r, now) =
           [i \in ATTP!Slot |-> IF r[i] = <<>> THEN ATTP!None ELSE ATTP!Last(r[i])]
<1>1. ASSUME NEW i \in ATTP!Slot
      PROVE  Shown(r[i], now) = IF r[i] = <<>> THEN ATTP!None ELSE ATTP!Last(r[i])
  <2>1. CASE r[i] = <<>>
    BY <2>1, ShownEmpty
  <2>2. CASE r[i] # <<>>
    <3>1. PICK v : v = r[i]
      OBVIOUS
    <3>2. v \in Seq(Item) /\ v # <<>>
      BY <2>2, <3>1 DEF Kept
    <3>3. PICK p \in Nat : p = Len(v) /\ p >= 1
      BY <3>2, EmptySeq
    <3>4. v[p].ts <= now
      BY <2>2, <3>1, <3>3 DEF Kept
    <3>5. Shown(v, now) = v[p]
      BY <3>3, <3>4, ShownLast
    <3> QED BY <2>2, <3>1, <3>3, <3>5 DEF ATTP!Last
  <2> QED BY <2>1, <2>2
<1> QED BY <1>1 DEF AllShown

\* What SAMPLING does with c items of one timestamp.
Stored(items, ts, c) ==
  /\ Fed(items, ts, c)
  /\ Kept(reservoir', stream', seen') /\ SameBefore(reservoir, reservoir', ts)
  /\ Numbered(stream', seen')
  /\ past' = [t \in 1 .. ts |-> AllShown(reservoir', t)]
  /\ sample_size' = sample_size /\ frequency' = frequency

LEMMA UpdateStores ==
  ASSUME ReservoirTypes, History, NEW ts \in 1 .. MaxTs, NEW value \in Value,
         NEW c \in 1 .. MaxCount, ATTP!Update(ts, value, c)
  PROVE  \E items : Stored(items, ts, c)
<1>1. MaxTs \in Nat /\ MaxCount \in Nat
  BY SamplersAssumption
<1> DEFINE list == [j \in 1 .. c |->
                      [ts |-> ts, value |-> value, arrival |-> Len(stream) + j]]
<1>15. PICK chosen \in [1 .. c -> 1 .. sample_size + 1] :
         /\ ts >= ATTP!Newest
         /\ seen' = seen + c
         /\ reservoir' = ATTP!TakenAll(list, chosen, c)
         /\ stream' = stream \o list
         /\ past' = [t \in 1 .. ts |->
                       IF t = ts
                       THEN [i \in ATTP!Slot |->
                               IF ATTP!TakenAll(list, chosen, c)[i] = <<>> THEN ATTP!None
                               ELSE ATTP!Last(ATTP!TakenAll(list, chosen, c)[i])]
                       ELSE IF t \in DOMAIN past THEN past[t]
                       ELSE IF past = <<>> THEN [i \in ATTP!Slot |-> ATTP!None]
                       ELSE ATTP!Last(past)]
  BY ZenonT(60) DEF ATTP!Update
<1>2. PICK items : items = list
  OBVIOUS
<1> HIDE DEF list
<1>3. PICK slots : \E r :
        /\ slots \in [1 .. c -> 1 .. sample_size + 1]
        /\ r = ATTP!TakenAll(items, slots, c)
        /\ ts >= ATTP!Newest
        /\ seen' = seen + c
        /\ reservoir' = r
        /\ stream' = stream \o items
        /\ past' = [t \in 1 .. ts |->
                      IF t = ts
                      THEN [i \in ATTP!Slot |-> IF r[i] = <<>> THEN ATTP!None ELSE ATTP!Last(r[i])]
                      ELSE IF t \in DOMAIN past THEN past[t]
                      ELSE IF past = <<>> THEN [i \in ATTP!Slot |-> ATTP!None]
                      ELSE ATTP!Last(past)]
  BY <1>2, <1>15
<1>16. slots \in [1 .. c -> 1 .. sample_size + 1]
  BY <1>3
<1>4. /\ seen' = seen + c /\ ts >= ATTP!Newest /\ stream' = stream \o items
      /\ reservoir' = ATTP!TakenAll(items, slots, c)
  BY <1>3
<1>5. sample_size' = sample_size /\ frequency' = frequency
  BY DEF ATTP!Update
<1>6. seen \in Nat /\ seen = Len(stream) /\ sample_size \in Nat
  BY DEF ReservoirTypes
<1>7. ts \in Nat /\ ts >= 1 /\ c \in Nat /\ c >= 1
  BY <1>1
<1>8. /\ items \in Seq(Item) /\ Len(items) = c
      /\ \A j \in 1 .. c : items[j].ts = ts /\ items[j].arrival = seen + j
  <2>1. \A j \in 1 .. c : [ts |-> ts, value |-> value, arrival |-> Len(stream) + j] \in Item
    BY <1>6, <1>7 DEF Item
  <2>2. list \in Seq(Item)
    <3>1. PICK f, X : f = list /\ X = Item
      OBVIOUS
    <3>2. f \in [1 .. c -> X]
      BY <2>1, <3>1 DEF list
    <3>3. f \in Seq(X)
      BY ONLY <1>7, <3>2
    <3> QED BY <3>1, <3>3
  <2>3. Len(list) = c
    BY <1>7 DEF list
  <2>4. \A j \in 1 .. c : list[j].ts = ts /\ list[j].arrival = seen + j
    BY <1>6 DEF list
  <2> QED BY <1>2, <2>2, <2>3, <2>4
<1>9. Fed(items, ts, c)
  BY <1>4, <1>7, <1>8, NewestIs DEF Fed
<1>10. /\ seen' = Len(stream') /\ Continued(stream', items, c)
       /\ NewestOf(stream') = ts /\ stream'[seen'].ts = ts
  BY <1>9, FedStream DEF History
<1>11. /\ Kept(reservoir', stream', seen + c)
       /\ SameBefore(reservoir, reservoir', ts)
  <2>1. Kept(reservoir, stream, seen)
    BY DEF History
  <2>2. slots \in [1 .. c -> 1 .. (sample_size + 1)]
    BY <1>16
  <2>3. \A j \in 1 .. c : items[j].ts = ts
    BY <1>8
  <2>4. /\ Kept(ATTP!TakenAll(items, slots, c), stream', seen + c)
        /\ SameBefore(reservoir, ATTP!TakenAll(items, slots, c), ts)
    BY <1>6, <1>7, <1>10, <2>1, <2>2, <2>3, TakenAllKeeps
  <2> QED BY <1>4, <2>4
<1>12. Numbered(stream', seen')
  <2>1. seen + c \in 0 .. (seen + c)
    BY <1>6, <1>7
  <2> QED BY <1>4, <1>10, <2>1 DEF Continued
<1>13. ASSUME NEW t \in 1 .. ts PROVE past'[t] = AllShown(reservoir', t)
  <2>1. CASE t = ts
    <3>1. past'[t] = [i \in ATTP!Slot |-> IF reservoir'[i] = <<>> THEN ATTP!None
                                          ELSE ATTP!Last(reservoir'[i])]
      BY <1>3, <2>1
    <3>2. seen + c >= 1 /\ seen + c \in Nat /\ stream'[seen + c].ts = ts
      BY <1>4, <1>6, <1>7, <1>10
    <3> QED BY <1>7, <1>11, <2>1, <3>1, <3>2, ShownNow
  <2>2. CASE t # ts
    <3>1. past'[t] = IF t \in DOMAIN past THEN past[t]
                     ELSE IF past = <<>> THEN [i \in ATTP!Slot |-> ATTP!None]
                     ELSE ATTP!Last(past)
      BY <1>3, <2>2
    <3>2. t \in Nat /\ t >= 1 /\ t < ts
      BY <1>7, <2>2
    <3>3. ts >= NewestOf(stream)
      BY <1>4, NewestIs
    <3> QED BY <1>7, <1>11, <3>1, <3>2, <3>3, PastGoesOn
  <2> QED BY <2>1, <2>2
<1>14. past' = [t \in 1 .. ts |-> AllShown(reservoir', t)]
  <2>1. past' = [t \in 1 .. ts |-> past'[t]]
    BY <1>3
  <2> QED BY <1>13, <2>1
<1> QED BY <1>4, <1>5, <1>9, <1>11, <1>12, <1>14 DEF Stored

-----------------------------------------------------------------------------
(* The counts SAMPLING scales its frequencies to *)

\* The list map has for every time before last how many of the first n
\* arrivals of S there were.
CountedTill(map, S, n, last) ==
  /\ map \in Seq(Nat \X Nat)
  /\ \A ts \in Nat : ts < last =>
       /\ Pos(map, ts) \in 1 .. Len(map)
       /\ map[Pos(map, ts)][2] \in 0 .. n
       /\ \A k \in 1 .. n : S[k].ts <= ts <=> k <= map[Pos(map, ts)][2]

\* T is S and, up to the m-th, arrivals of the time now.
FollowedBy(S, n, T, m, now) ==
  /\ n \in Nat /\ m \in Nat /\ n <= m
  /\ \A k \in 1 .. n : T[k] = S[k]
  /\ \A k \in 1 .. m : k > n => T[k].ts = now

LEMMA RecordedBefore ==
  ASSUME NEW map, NEW last \in Nat, NEW now \in Nat, NEW n \in Nat, NEW S,
         CountedTill(map, S, n, last), NEW t \in Nat, t < last
  PROVE  /\ Pos(ATTP!Recorded(map, last, now, n), t) = Pos(map, t)
         /\ ATTP!Recorded(map, last, now, n)[Pos(map, t)] = map[Pos(map, t)]
<1>1. PICK g : g = ATTP!Recorded(map, last, now, n)
  OBVIOUS
<1>2. g = IF now = last THEN map ELSE Append(map, <<last, n>>)
  BY <1>1 DEF ATTP!Recorded
<1>3. map \in Seq(Nat \X Nat) /\ Pos(map, t) \in 1 .. Len(map)
  BY DEF CountedTill
<1>4. CASE now = last
  BY <1>1, <1>2, <1>4
<1>5. CASE now # last
  <2>1. PICK p \in Nat : p = Len(map)
    BY <1>3
  <2>2. Len(g) = p + 1 /\ g[p + 1] = <<last, n>> /\ \A i \in 1 .. p : g[i] = map[i]
    BY <1>2, <1>3, <1>5, <2>1
  <2>3. AndLater(map, g, p, t)
    BY <2>1, <2>2 DEF AndLater
  <2>4. Pos(g, t) = Pos(map, t)
    BY <2>3, PosEarlier
  <2> QED BY <1>1, <1>3, <2>1, <2>2, <2>4
<1> QED BY <1>4, <1>5

LEMMA RecordedCounts ==
  ASSUME NEW map, NEW last \in Nat, NEW now \in Nat, now >= last, NEW n, NEW S, NEW T, NEW m,
         CountedTill(map, S, n, last), \A k \in 1 .. n : S[k].ts \in Nat /\ S[k].ts <= last,
         FollowedBy(S, n, T, m, now)
  PROVE  CountedTill(ATTP!Recorded(map, last, now, n), T, m, now)
<1>1. PICK g : g = ATTP!Recorded(map, last, now, n)
  OBVIOUS
<1>2. g = IF now = last THEN map ELSE Append(map, <<last, n>>)
  BY <1>1 DEF ATTP!Recorded
<1>3. /\ n \in Nat /\ m \in Nat /\ n <= m
      /\ \A k \in 1 .. n : T[k] = S[k]
      /\ \A k \in 1 .. m : k > n => T[k].ts = now
  BY DEF FollowedBy
<1>4. map \in Seq(Nat \X Nat)
  BY DEF CountedTill
<1>5. PICK p \in Nat : p = Len(map)
  BY <1>4
<1>6. g \in Seq(Nat \X Nat)
  <2>1. <<last, n>> \in Nat \X Nat
    BY <1>3
  <2> QED BY <1>2, <1>4, <2>1
<1>7. Len(g) \in Nat /\ Len(g) >= p
  BY <1>2, <1>4, <1>5
<1>8. ASSUME NEW ts \in Nat, ts < now
      PROVE  /\ Pos(g, ts) \in 1 .. Len(g)
             /\ g[Pos(g, ts)][2] \in 0 .. n
             /\ \A k \in 1 .. n : S[k].ts <= ts <=> k <= g[Pos(g, ts)][2]
  <2>1. CASE ts < last
    <3>1. /\ Pos(map, ts) \in 1 .. p
          /\ map[Pos(map, ts)][2] \in 0 .. n
          /\ \A k \in 1 .. n : S[k].ts <= ts <=> k <= map[Pos(map, ts)][2]
      BY <1>5, <2>1 DEF CountedTill
    <3>2. Pos(g, ts) = Pos(map, ts) /\ g[Pos(map, ts)] = map[Pos(map, ts)]
      BY <1>1, <1>3, <2>1, RecordedBefore
    <3> QED BY <1>5, <1>7, <3>1, <3>2
  <2>2. CASE ts >= last
    <3>1. now # last
      BY <1>8, <2>2
    <3>2. PICK q \in Nat : q = p + 1 /\ q >= 1
      OBVIOUS
    <3>3. Len(g) = q /\ g[q] = <<last, n>>
      BY <1>2, <1>4, <1>5, <3>1, <3>2
    <3>4. g[q][1] <= ts /\ g[q][2] = n
      BY <2>2, <3>3
    <3>5. Pos(g, ts) = q
      BY <3>2, <3>3, <3>4, PosLast
    <3>6. \A k \in 1 .. n : S[k].ts <= ts
      BY <2>2
    <3> QED BY <1>3, <3>2, <3>3, <3>4, <3>5, <3>6
  <2> QED BY <2>1, <2>2
<1>9. ASSUME NEW ts \in Nat, ts < now
      PROVE  /\ g[Pos(g, ts)][2] \in 0 .. m
             /\ \A k \in 1 .. m : T[k].ts <= ts <=> k <= g[Pos(g, ts)][2]
  <2>1. PICK x \in 0 .. n : x = g[Pos(g, ts)][2]
    BY <1>8, <1>9
  <2>2. \A k \in 1 .. n : S[k].ts <= ts <=> k <= x
    BY <1>8, <1>9, <2>1
  <2>3. ASSUME NEW k \in 1 .. m PROVE T[k].ts <= ts <=> k <= x
    <3>1. CASE k <= n
      <4>1. k \in 1 .. n
        BY <1>3, <3>1
      <4> QED BY <1>3, <2>2, <4>1
    <3>2. CASE k > n
      BY <1>3, <1>9, <3>2
    <3> QED BY <1>3, <3>1, <3>2
  <2> QED BY <1>3, <2>1, <2>3
<1>10. CountedTill(g, T, m, now)
  BY <1>6, <1>8, <1>9 DEF CountedTill
<1> QED BY <1>1, <1>10

LEMMA TotalIs == \A map, ts : ATTP!TotalAt(map, ts) = map[Pos(map, ts)][2]
BY DEF ATTP!TotalAt, ATTP!LastAt, Pos, Upto, ATTP!Max, EM!Max

\* The frequencies a sample h is scaled to.
SampleOf(h) == [i \in {j \in ATTP!Slot : h[j] # ATTP!None} |-> h[i]]
EstimatesOf(h, total) ==
  [v \in Value |->
     IF DOMAIN SampleOf(h) = {} THEN 0
     ELSE ATTP!Scaled(ATTP!CountsOf(SampleOf(h), Value)[v], total,
                      ATTP!Cardinality(DOMAIN SampleOf(h)))]

LEMMA EstimatesAre ==
  ASSUME NEW ts
  PROVE  ATTP!Estimates(ts) =
           EstimatesOf(AllShown(reservoir, ts), ATTP!TotalAt(ts2cnt_map, ts))
<1>1. PICK h : h = AllShown(reservoir, ts)
  OBVIOUS
<1>2. \A i \in ATTP!Slot : h[i] = ATTP!LastOf(reservoir[i], ts)
  BY <1>1 DEF AllShown, Shown
<1>3. {j \in ATTP!Slot : ATTP!LastOf(reservoir[j], ts) # ATTP!None}
        = {j \in ATTP!Slot : h[j] # ATTP!None}
  BY <1>2
<1>4. ATTP!SampleAt(ts) = SampleOf(h)
  BY <1>2, <1>3 DEF ATTP!SampleAt, SampleOf
<1> QED BY <1>1, <1>4 DEF ATTP!Estimates, EstimatesOf

LEMMA SizeIs == \A S : ATTP!Cardinality(S) = Cardinality(S)
BY DEF ATTP!Cardinality, Cardinality

LEMMA ScaledExactly ==
  ASSUME NEW c \in Nat, NEW m \in Nat, m > 0
  PROVE  ATTP!Scaled(c, m, m) = c
<1>1. PICK d \in Nat : d = 2 * m /\ d > m /\ d > 0
  OBVIOUS
<1>2. 2 * c * m + m = d * c + m
  BY <1>1
<1>3. (d * c + m) \div d = c
  BY <1>1
<1> QED BY <1>1, <1>2, <1>3 DEF ATTP!Scaled

\* A reservoir that held all m arrivals estimates exactly.
LEMMA EstimatesExactly ==
  ASSUME NEW h, NEW S, NEW n \in Nat, NEW ts, NEW m, Sampled(h, S, n, ts, m),
         Numbered(S, n), sample_size \in Nat, m <= sample_size
  PROVE  EstimatesOf(h, m) = ATTP!CountsOf([j \in 1 .. m |-> S[j]], Value)
<1>1. m \in 0 .. n /\ m \in Nat
  BY DEF Sampled
<1>2. \A i \in 1 .. m : i \in ATTP!Slot /\ h[i] = S[i] /\ h[i] # ATTP!None
  <2> SUFFICES ASSUME NEW i \in 1 .. m
               PROVE  i \in ATTP!Slot /\ h[i] = S[i] /\ h[i] # ATTP!None
    OBVIOUS
  <2>1. i \in ATTP!Slot /\ h[i] = S[i]
    BY <1>1 DEF Sampled, ATTP!Slot
  <2>2. S[i].arrival = i /\ i # 0
    BY <1>1 DEF Numbered
  <2>3. ATTP!None.arrival = 0
    BY DEF ATTP!None
  <2> QED BY <2>1, <2>2, <2>3
<1>3. \A i \in ATTP!Slot : h[i] # ATTP!None => i \in 1 .. m
  BY <1>1 DEF Sampled, ATTP!Slot
<1>4. {j \in ATTP!Slot : h[j] # ATTP!None} = 1 .. m
  BY <1>2, <1>3
<1>5. PICK sample : sample = [j \in 1 .. m |-> S[j]]
  OBVIOUS
<1>6. SampleOf(h) = sample
  BY <1>2, <1>4, <1>5 DEF SampleOf
<1>7. DOMAIN sample = 1 .. m /\ Cardinality(1 .. m) = m /\ IsFiniteSet(1 .. m)
  BY <1>1, <1>5, FS_Interval
<1>8. ASSUME NEW v \in Value
      PROVE  /\ ATTP!CountsOf(sample, Value)[v] \in Nat
             /\ m = 0 => ATTP!CountsOf(sample, Value)[v] = 0
  <2>1. PICK D : D = {i \in DOMAIN sample : sample[i].value = v}
    OBVIOUS
  <2>2. D \in SUBSET (1 .. m)
    BY <1>7, <2>1
  <2>3. IsFiniteSet(D) /\ Cardinality(D) \in Nat
    BY <1>7, <2>2, FS_Subset, FS_CardinalityType
  <2>4. ATTP!CountsOf(sample, Value)[v] = Cardinality(D)
    BY <2>1, SizeIs DEF ATTP!CountsOf
  <2>5. m = 0 => Cardinality(D) = 0
    <3>1. m = 0 => D = {}
      BY <1>1, <2>2
    <3> QED BY <3>1, FS_EmptySet
  <2> QED BY <2>3, <2>4, <2>5
<1>9. ASSUME NEW v \in Value
      PROVE  EstimatesOf(h, m)[v] = ATTP!CountsOf(sample, Value)[v]
  <2>1. CASE m = 0
    <3>1. DOMAIN sample = {}
      BY <1>7, <2>1
    <3> QED BY <1>6, <1>8, <2>1, <3>1 DEF EstimatesOf
  <2>2. CASE m > 0
    <3>1. 1 \in DOMAIN sample
      BY <1>1, <1>7, <2>2
    <3>2. EstimatesOf(h, m)[v] = ATTP!Scaled(ATTP!CountsOf(sample, Value)[v], m, m)
      BY <1>6, <1>7, <3>1, SizeIs DEF EstimatesOf
    <3> QED BY <1>1, <1>8, <2>2, <3>2, ScaledExactly
  <2> QED BY <1>1, <2>1, <2>2
<1>10. EstimatesOf(h, m) = ATTP!CountsOf(sample, Value)
  BY <1>9 DEF EstimatesOf, ATTP!CountsOf
<1> QED BY <1>5, <1>10

-----------------------------------------------------------------------------
(* The invariant of SAMPLING and what it says *)

Frequencies ==
  frequency =>
    /\ last_ts = NewestOf(stream)
    /\ CountedTill(ts2cnt_map, stream, seen, last_ts)
    /\ tmp_cnt_ts \in Nat /\ asked \in Nat
    /\ tmp_cnt_ts # 0 => asked <= NewestOf(stream)
    /\ tmp_cnt_ts \in 1 .. asked - 1 =>
         tmp_cnt_map = EstimatesOf(AllShown(reservoir, tmp_cnt_ts),
                                   ATTP!TotalAt(ts2cnt_map, tmp_cnt_ts))

ReservoirInv == ReservoirTypes /\ History /\ asked \in Nat /\ Frequencies

LEMMA NothingCounted ==
  CountedTill(<<>>, <<>>, 0, 0)
<1>1. <<>> \in Seq(Nat \X Nat)
  OBVIOUS
<1>2. \A ts \in Nat : ~(ts < 0)
  OBVIOUS
<1> QED BY <1>1, <1>2 DEF CountedTill

LEMMA NothingNumbered ==
  /\ <<>> \in Seq(Item) /\ Len(<<>>) = 0 /\ NewestOf(<<>>) = 0
  /\ \A S : Numbered(S, 0)
BY DEF NewestOf, Numbered

LEMMA InitReservoir == ATTP!Init => ReservoirInv
<1> SUFFICES ASSUME ATTP!Init PROVE ReservoirInv
  OBVIOUS
<1>1. /\ sample_size \in SampleSizes /\ frequency \in BOOLEAN /\ seen = 0
      /\ reservoir = [i \in ATTP!Slot |-> <<>>] /\ last_ts = 0
      /\ tmp_cnt_ts = 0 /\ ts2cnt_map = <<>> /\ stream = <<>> /\ past = <<>> /\ asked = 0
  BY DEF ATTP!Init
<1>2. sample_size \in Nat \ {0}
  BY <1>1, SamplersAssumption
<1>3. ReservoirTypes
  BY <1>1, <1>2, NothingNumbered DEF ReservoirTypes
<1>4. past = [t \in 1 .. NewestOf(stream) |-> AllShown(reservoir, t)]
  <2>1. NewestOf(stream) = 0 /\ 1 .. 0 = {}
    BY <1>1, NothingNumbered
  <2> QED BY <1>1, <2>1
<1>5. History
  <2>1. Kept(reservoir, stream, seen)
    BY <1>1, <1>2, KeptNothing
  <2> QED BY <1>1, <1>4, <2>1, NothingNumbered DEF History
<1>6. Frequencies
  <2>1. CountedTill(ts2cnt_map, stream, seen, last_ts)
    BY <1>1, NothingCounted
  <2> QED BY <1>1, <2>1, NothingNumbered DEF Frequencies
<1> QED BY <1>1, <1>3, <1>5, <1>6 DEF ReservoirInv

\* A step that does not change the size keeps what is said of the slots.
LEMMA SlotsStay ==
  ASSUME sample_size' = sample_size
  PROVE  /\ ATTP!Slot' = ATTP!Slot
         /\ Kept(reservoir', stream', seen') => Kept(reservoir, stream, seen)'
         /\ Numbered(stream', seen') => Numbered(stream, seen)'
         /\ NewestOf(stream)' = NewestOf(stream')
         /\ \A t : AllShown(reservoir, t)' = AllShown(reservoir', t)
<1>1. ATTP!Slot' = ATTP!Slot
  BY DEF ATTP!Slot
<1>2. ASSUME Kept(reservoir', stream', seen') PROVE Kept(reservoir, stream, seen)'
  <2>1. ASSUME NEW ts \in Nat
        PROVE  \E m : Sampled([i \in ATTP!Slot |-> Shown(reservoir[i], ts)],
                              stream, seen, ts, m)'
    <3>1. PICK h : h = [i \in ATTP!Slot |-> Shown(reservoir'[i], ts)]
      OBVIOUS
    <3>2. PICK m : Sampled(h, stream', seen', ts, m)
      BY <1>2, <3>1 DEF Kept
    <3>3. [i \in ATTP!Slot |-> Shown(reservoir[i], ts)]' = h
      BY <1>1, <3>1
    <3>4. Sampled([i \in ATTP!Slot |-> Shown(reservoir[i], ts)], stream, seen, ts, m)'
      BY <1>1, <3>2, <3>3 DEF Sampled
    <3> QED BY <3>4
  <2>2. Kept(reservoir', stream', seen')
    BY <1>2
  <2>3. /\ reservoir' \in [ATTP!Slot' -> Seq(Item)]
        /\ seen' = 0 => \A i \in ATTP!Slot' : reservoir'[i] = <<>>
        /\ \A i \in ATTP!Slot' : reservoir'[i] # <<>> =>
             seen' >= 1 /\ reservoir'[i][Len(reservoir'[i])].ts <= stream'[seen'].ts
    BY <1>1, <2>2 DEF Kept
  <2> QED BY <2>1, <2>3 DEF Kept
<1>3. \A t : AllShown(reservoir, t)' = AllShown(reservoir', t)
  BY <1>1 DEF AllShown
<1> QED BY <1>1, <1>2, <1>3 DEF Numbered, NewestOf

LEMMA HistoryHere ==
  ASSUME sample_size' = sample_size, frequency' = frequency, sample_size \in Nat \ {0},
         frequency \in BOOLEAN, stream' \in Seq(Item), seen' = Len(stream'),
         Numbered(stream', seen'), Kept(reservoir', stream', seen'),
         past' = [t \in 1 .. NewestOf(stream') |-> AllShown(reservoir', t)]
  PROVE  ReservoirTypes' /\ History'
<1>1. ReservoirTypes'
  BY DEF ReservoirTypes
<1>2. past' = [t \in 1 .. NewestOf(stream) |-> AllShown(reservoir, t)]'
  <2>1. \A t : AllShown(reservoir, t)' = AllShown(reservoir', t)
    BY SlotsStay
  <2>2. NewestOf(stream)' = NewestOf(stream')
    BY SlotsStay
  <2> QED BY <2>1, <2>2
<1>3. Numbered(stream, seen)' /\ Kept(reservoir, stream, seen)'
  BY SlotsStay
<1> QED BY <1>1, <1>2, <1>3 DEF History

LEMMA FrequenciesHere ==
  ASSUME sample_size' = sample_size, frequency' = frequency,
         frequency =>
           /\ last_ts' = NewestOf(stream')
           /\ CountedTill(ts2cnt_map', stream', seen', last_ts')
           /\ tmp_cnt_ts' \in Nat /\ asked' \in Nat
           /\ tmp_cnt_ts' # 0 => asked' <= NewestOf(stream')
           /\ tmp_cnt_ts' \in 1 .. asked' - 1 =>
                tmp_cnt_map' = EstimatesOf(AllShown(reservoir', tmp_cnt_ts'),
                                           ATTP!TotalAt(ts2cnt_map', tmp_cnt_ts'))
  PROVE  Frequencies'
<1>1. NewestOf(stream)' = NewestOf(stream') /\ ATTP!Slot' = ATTP!Slot
  BY SlotsStay
<1>2. CountedTill(ts2cnt_map, stream, seen, last_ts)'
        <=> CountedTill(ts2cnt_map', stream', seen', last_ts')
  BY DEF CountedTill
<1>3. EstimatesOf(AllShown(reservoir, tmp_cnt_ts), ATTP!TotalAt(ts2cnt_map, tmp_cnt_ts))'
        = EstimatesOf(AllShown(reservoir', tmp_cnt_ts'), ATTP!TotalAt(ts2cnt_map', tmp_cnt_ts'))
  <2>1. PICK h : h = AllShown(reservoir', tmp_cnt_ts')
    OBVIOUS
  <2>2. AllShown(reservoir, tmp_cnt_ts)' = h
    BY <1>1, <2>1 DEF AllShown
  <2>3. SampleOf(AllShown(reservoir, tmp_cnt_ts))' = SampleOf(h)
    BY <1>1, <2>2 DEF SampleOf
  <2> QED BY <2>1, <2>3 DEF EstimatesOf
<1> QED BY <1>1, <1>2, <1>3 DEF Frequencies

LEMMA UpdateReservoir ==
  ASSUME ReservoirInv, NEW ts \in 1 .. MaxTs, NEW value \in Value, NEW c \in 1 .. MaxCount,
         ATTP!Update(ts, value, c)
  PROVE  ReservoirInv'
<1>1. ReservoirTypes /\ History /\ asked \in Nat /\ Frequencies
  BY DEF ReservoirInv
<1>2. PICK items : Stored(items, ts, c)
  BY <1>1, UpdateStores
<1>3. /\ Fed(items, ts, c)
      /\ Kept(reservoir', stream', seen') /\ SameBefore(reservoir, reservoir', ts)
      /\ Numbered(stream', seen')
      /\ past' = [t \in 1 .. ts |-> AllShown(reservoir', t)]
      /\ sample_size' = sample_size /\ frequency' = frequency
  BY <1>2 DEF Stored
<1>4. /\ stream' \in Seq(Item) /\ seen' = Len(stream')
      /\ Continued(stream', items, c)
      /\ NewestOf(stream') = ts
  BY <1>1, <1>3, FedStream DEF History
<1>5. ReservoirTypes' /\ History'
  BY <1>1, <1>3, <1>4, HistoryHere DEF ReservoirTypes
<1>6. asked' = asked
  BY DEF ATTP!Update
<1>7. /\ ts \in Nat /\ ts >= 1 /\ ts >= NewestOf(stream) /\ c \in Nat /\ seen' = seen + c
      /\ seen \in Nat /\ \A j \in 1 .. c : items[j].ts = ts
  <2>1. seen \in Nat
    BY <1>1 DEF ReservoirTypes
  <2>2. /\ ts \in Nat /\ ts >= 1 /\ ts >= NewestOf(stream) /\ c \in Nat /\ seen' = seen + c
        /\ \A j \in 1 .. c : items[j].ts = ts
    BY <1>3 DEF Fed
  <2> QED BY <2>1, <2>2
<1>8. ASSUME frequency
      PROVE  /\ last_ts' = NewestOf(stream')
             /\ CountedTill(ts2cnt_map', stream', seen', last_ts')
             /\ tmp_cnt_ts' \in Nat /\ asked' \in Nat
             /\ tmp_cnt_ts' # 0 => asked' <= NewestOf(stream')
             /\ tmp_cnt_ts' \in 1 .. asked' - 1 =>
                  tmp_cnt_map' = EstimatesOf(AllShown(reservoir', tmp_cnt_ts'),
                                             ATTP!TotalAt(ts2cnt_map', tmp_cnt_ts'))
  <2>1. /\ ts2cnt_map' = ATTP!Recorded(ts2cnt_map, last_ts, ts, seen) /\ last_ts' = ts
        /\ \/ tmp_cnt_ts' = 0
           \/ tmp_cnt_ts' = tmp_cnt_ts /\ tmp_cnt_map' = tmp_cnt_map
    BY <1>8 DEF ATTP!Update
  <2>2. /\ last_ts = NewestOf(stream)
        /\ CountedTill(ts2cnt_map, stream, seen, last_ts)
        /\ tmp_cnt_ts \in Nat /\ asked \in Nat
        /\ tmp_cnt_ts # 0 => asked <= NewestOf(stream)
        /\ tmp_cnt_ts \in 1 .. asked - 1 =>
             tmp_cnt_map = EstimatesOf(AllShown(reservoir, tmp_cnt_ts),
                                       ATTP!TotalAt(ts2cnt_map, tmp_cnt_ts))
    BY <1>1, <1>8 DEF Frequencies
  <2>3. last_ts \in Nat /\ \A k \in 1 .. seen : stream[k].ts \in Nat /\ stream[k].ts <= last_ts
    BY <1>1, <2>2, NewestIs DEF History, Numbered, Item
  <2>4. FollowedBy(stream, seen, stream', seen', ts)
    <3>1. \A k \in 1 .. seen : stream'[k] = stream[k]
      BY <1>4 DEF Continued
    <3>2. ASSUME NEW k \in 1 .. seen', k > seen PROVE stream'[k].ts = ts
      <4>1. PICK j \in 1 .. c : j = k - seen
        BY <1>7, <3>2
      <4>2. k = seen + j
        BY <1>7, <4>1
      <4> QED BY <1>4, <1>7, <4>2 DEF Continued
    <3>3. seen' \in Nat /\ seen <= seen'
      BY <1>7
    <3> QED BY <1>7, <3>1, <3>2, <3>3 DEF FollowedBy
  <2>5. CountedTill(ts2cnt_map', stream', seen', ts)
    BY <1>7, <2>1, <2>2, <2>3, <2>4, RecordedCounts
  <2>6. CASE tmp_cnt_ts' = 0
    BY <1>4, <1>6, <2>1, <2>2, <2>5, <2>6
  <2>7. CASE tmp_cnt_ts' = tmp_cnt_ts /\ tmp_cnt_map' = tmp_cnt_map /\ tmp_cnt_ts # 0
    <3>1. asked' <= NewestOf(stream')
      BY <1>4, <1>6, <1>7, <2>2, <2>3, <2>7
    <3>2. ASSUME tmp_cnt_ts \in 1 .. asked - 1
          PROVE  tmp_cnt_map = EstimatesOf(AllShown(reservoir', tmp_cnt_ts),
                                           ATTP!TotalAt(ts2cnt_map', tmp_cnt_ts))
      <4>1. tmp_cnt_ts \in Nat /\ tmp_cnt_ts < last_ts /\ tmp_cnt_ts < ts
        BY <1>7, <2>2, <2>3, <2>7, <3>2
      <4>2. AllShown(reservoir', tmp_cnt_ts) = AllShown(reservoir, tmp_cnt_ts)
        BY <1>3, <4>1 DEF AllShown, SameBefore
      <4>3. ATTP!TotalAt(ts2cnt_map', tmp_cnt_ts) = ATTP!TotalAt(ts2cnt_map, tmp_cnt_ts)
        BY <1>7, <2>1, <2>2, <2>3, <4>1, RecordedBefore, TotalIs
      <4> QED BY <2>2, <3>2, <4>2, <4>3
    <3> QED BY <1>4, <1>6, <2>1, <2>2, <2>5, <2>7, <3>1, <3>2
  <2> QED BY <2>1, <2>6, <2>7
<1>9. Frequencies'
  BY <1>3, <1>8, FrequenciesHere
<1> QED BY <1>1, <1>5, <1>6, <1>9 DEF ReservoirInv

LEMMA AskReservoir ==
  ASSUME ReservoirInv, NEW ts \in 1 .. MaxTs, ATTP!EstimateFrequency(ts)
  PROVE  ReservoirInv'
<1>1. ReservoirTypes /\ History /\ asked \in Nat /\ Frequencies
  BY DEF ReservoirInv
<1>2. /\ frequency /\ tmp_cnt_ts' = ts /\ tmp_cnt_map' = ATTP!Estimates(ts)
      /\ asked' = ATTP!Newest
      /\ sample_size' = sample_size /\ frequency' = frequency /\ seen' = seen
      /\ reservoir' = reservoir /\ last_ts' = last_ts /\ ts2cnt_map' = ts2cnt_map
      /\ stream' = stream /\ past' = past
  BY DEF ATTP!EstimateFrequency
<1>3. ReservoirTypes' /\ History'
  BY <1>1, <1>2, HistoryHere DEF ReservoirTypes, History
<1>4. ts \in Nat /\ asked' = NewestOf(stream) /\ asked' \in Nat
  BY <1>1, <1>2, NewestIs, SamplersAssumption DEF History
<1>5. Frequencies'
  <2>1. last_ts = NewestOf(stream) /\ CountedTill(ts2cnt_map, stream, seen, last_ts)
    BY <1>1, <1>2 DEF Frequencies
  <2>2. tmp_cnt_map' = EstimatesOf(AllShown(reservoir, ts), ATTP!TotalAt(ts2cnt_map, ts))
    BY <1>2, EstimatesAre
  <2> QED BY <1>2, <1>4, <2>1, <2>2, FrequenciesHere
<1> QED BY <1>3, <1>4, <1>5 DEF ReservoirInv

LEMMA ClearReservoir ==
  ASSUME ReservoirInv, ATTP!Clear
  PROVE  ReservoirInv'
<1>1. ReservoirTypes /\ asked \in Nat /\ Frequencies
  BY DEF ReservoirInv
<1>2. /\ reservoir' = [i \in ATTP!Slot |-> <<>>] /\ seen' = 0 /\ stream' = <<>> /\ past' = <<>>
      /\ frequency => last_ts' = 0 /\ tmp_cnt_ts' = 0 /\ ts2cnt_map' = <<>>
      /\ sample_size' = sample_size /\ frequency' = frequency /\ asked' = asked
  BY DEF ATTP!Clear
<1>3. sample_size \in Nat \ {0} /\ frequency \in BOOLEAN
  BY <1>1 DEF ReservoirTypes
<1>4. past' = [t \in 1 .. NewestOf(stream') |-> AllShown(reservoir', t)]
  <2>1. NewestOf(stream') = 0 /\ 1 .. 0 = {}
    BY <1>2, NothingNumbered
  <2> QED BY <1>2, <2>1
<1>5. ReservoirTypes' /\ History'
  <2>1. Kept(reservoir', stream', seen')
    BY <1>2, <1>3, KeptNothing
  <2>2. stream' \in Seq(Item) /\ seen' = Len(stream') /\ Numbered(stream', seen')
    BY <1>2, NothingNumbered
  <2> QED BY <1>2, <1>3, <1>4, <2>1, <2>2, HistoryHere
<1>6. Frequencies'
  <2>1. frequency => CountedTill(ts2cnt_map', stream', seen', last_ts')
    BY <1>2, NothingCounted
  <2>2. NewestOf(stream') = 0
    BY <1>2, NothingNumbered
  <2> QED BY <1>1, <1>2, <2>1, <2>2, FrequenciesHere
<1> QED BY <1>1, <1>2, <1>5, <1>6 DEF ReservoirInv

LEMMA ReservoirStep ==
  ASSUME ReservoirInv, ATTP!Next
  PROVE  ReservoirInv'
BY UpdateReservoir, AskReservoir, ClearReservoir DEF ATTP!Next

LEMMA ReservoirStays ==
  ASSUME ReservoirInv,
         UNCHANGED <<sample_size, frequency, seen, reservoir, last_ts, tmp_cnt_ts, tmp_cnt_map,
                     ts2cnt_map, stream, past, asked>>
  PROVE  ReservoirInv'
<1>1. ReservoirTypes /\ History /\ asked \in Nat /\ Frequencies
  BY DEF ReservoirInv
<1>2. ReservoirTypes' /\ History'
  BY <1>1, HistoryHere DEF ReservoirTypes, History
<1>3. Frequencies'
  BY <1>1, FrequenciesHere DEF Frequencies
<1> QED BY <1>1, <1>2, <1>3 DEF ReservoirInv

\* How many arrivals there were up to ts.
LEMMA ArrivedIs ==
  ASSUME ReservoirTypes, NEW ts, NEW m, NEW h, Sampled(h, stream, seen, ts, m)
  PROVE  ATTP!Upto(ts) = [j \in 1 .. m |-> stream[j]] /\ ATTP!Arrived(ts) = m /\ m \in Nat
<1>1. /\ seen \in Nat /\ seen = Len(stream) /\ m \in 0 .. seen /\ m \in Nat
      /\ \A k \in 1 .. seen : stream[k].ts <= ts <=> k <= m
  BY DEF ReservoirTypes, Sampled
<1>2. {k \in 1 .. Len(stream) : stream[k].ts <= ts} = 1 .. m
  BY <1>1
<1>3. ATTP!Upto(ts) = [j \in 1 .. m |-> stream[j]]
  BY <1>2 DEF ATTP!Upto
<1>4. Cardinality(1 .. m) = m
  BY <1>1, FS_Interval
<1> QED BY <1>1, <1>3, <1>4, SizeIs DEF ATTP!Arrived

LEMMA SamplesKept ==
  ASSUME ReservoirInv
  PROVE  ATTP!PastSampleKept
<1>1. ReservoirTypes /\ History
  BY DEF ReservoirInv
<1>2. NewestOf(stream) \in Nat /\ sample_size \in Nat
  BY <1>1, NewestIs DEF History, ReservoirTypes
<1> SUFFICES ASSUME NEW ts \in DOMAIN past
             PROVE  LET then == [i \in ATTP!Slot |-> ATTP!LastOf(reservoir[i], ts)]
                        arrivals == {then[i].arrival : i \in ATTP!Slot} \ {0}
                        n == ATTP!Arrived(ts)
                    IN /\ then = past[ts]
                       /\ ATTP!Cardinality(arrivals) = IF n < sample_size THEN n ELSE sample_size
                       /\ arrivals \subseteq 1 .. n
  BY Zenon DEF ATTP!PastSampleKept
<1>14. PICK then : then = [i \in ATTP!Slot |-> ATTP!LastOf(reservoir[i], ts)]
  OBVIOUS
<1>15. PICK A : A = {then[i].arrival : i \in ATTP!Slot} \ {0}
  OBVIOUS
<1>3. then = AllShown(reservoir, ts) /\ ts \in Nat /\ past[ts] = AllShown(reservoir, ts)
  <2>1. ts \in 1 .. NewestOf(stream)
    BY <1>1 DEF History
  <2> QED BY <1>1, <1>2, <1>14, <2>1 DEF History, AllShown, Shown
<1>4. PICK m : Sampled(then, stream, seen, ts, m)
  BY <1>1, <1>3 DEF History, Kept, AllShown
<1>5. ATTP!Arrived(ts) = m /\ m \in Nat
  BY <1>1, <1>4, ArrivedIs
<1>6. PICK q \in Nat : q = IF m < sample_size THEN m ELSE sample_size
  BY <1>2, <1>5
<1>7. \A i \in ATTP!Slot : i \in Nat /\ i >= 1 /\ i <= sample_size /\ (i <= m <=> i \in 1 .. q)
  BY <1>2, <1>5, <1>6 DEF ATTP!Slot
<1>8. \A i \in 1 .. q : i \in ATTP!Slot /\ i <= m
  BY <1>2, <1>5, <1>6 DEF ATTP!Slot
<1>9. PICK f : f = [i \in 1 .. q |-> then[i].arrival]
  OBVIOUS
<1>10. A = {f[i] : i \in 1 .. q}
  <2>1. \A i \in 1 .. q : f[i] = then[i].arrival /\ f[i] \in 1 .. m
    BY <1>4, <1>8, <1>9 DEF Sampled
  <2>2. \A i \in ATTP!Slot : ~(i <= m) => then[i].arrival = 0
    BY <1>4, <1>5, <1>7 DEF Sampled, ATTP!None
  <2>3. \A x : x \in A <=> \E i \in 1 .. q : x = f[i]
    <3> SUFFICES ASSUME NEW x PROVE x \in A <=> \E i \in 1 .. q : x = f[i]
      OBVIOUS
    <3>1. ASSUME x \in A PROVE \E i \in 1 .. q : x = f[i]
      <4>1. PICK i \in ATTP!Slot : x = then[i].arrival /\ x # 0
        BY <1>15, <3>1
      <4>2. i \in 1 .. q
        BY <1>7, <2>2, <4>1
      <4> QED BY <2>1, <4>1, <4>2
    <3>2. ASSUME NEW i \in 1 .. q, x = f[i] PROVE x \in A
      <4>1. x = then[i].arrival /\ x \in 1 .. m /\ i \in ATTP!Slot
        BY <1>8, <2>1, <3>2
      <4>2. x # 0
        BY <1>5, <4>1
      <4> QED BY <1>15, <4>1, <4>2
    <3> QED BY <3>1, <3>2
  <2> QED BY <2>3
<1>11. A \subseteq 1 .. m
  BY <1>4, <1>8, <1>9, <1>10 DEF Sampled
<1>12. f \in Bijection(1 .. q, A)
  <2>1. f \in Surjection(1 .. q, A)
    BY <1>9, <1>10 DEF Surjection
  <2>2. \A i, j \in 1 .. q : f[i] = f[j] => i = j
    BY <1>4, <1>8, <1>9 DEF Sampled
  <2>3. f \in Injection(1 .. q, A)
    BY <2>1, <2>2 DEF Surjection, Injection, IsInjective
  <2> QED BY <2>1, <2>3 DEF Bijection
<1>13. Cardinality(A) = q
  <2>1. IsFiniteSet(1 .. q) /\ Cardinality(1 .. q) = q
    <3>1. \A x \in Nat : IsFiniteSet(1 .. x) /\ Cardinality(1 .. x) = x
      BY FS_Interval
    <3> QED BY <3>1
  <2>2. ExistsBijection(1 .. q, A)
    BY <1>12 DEF ExistsBijection
  <2> HIDE DEF ExistsBijection
  <2> QED BY <2>1, <2>2, FS_Bijection
<1>16. /\ then = past[ts]
       /\ ATTP!Cardinality(A) = IF ATTP!Arrived(ts) < sample_size
                                THEN ATTP!Arrived(ts) ELSE sample_size
       /\ A \subseteq 1 .. ATTP!Arrived(ts)
  BY <1>3, <1>5, <1>6, <1>11, <1>13, SizeIs
<1> QED BY <1>14, <1>15, <1>16

LEMMA FrequenciesHold ==
  ASSUME ReservoirInv
  PROVE  ATTP!PastFrequenciesHold
<1>1. ReservoirTypes /\ History /\ Frequencies
  BY DEF ReservoirInv
<1> SUFFICES ASSUME frequency
             PROVE  /\ \A ts \in 1 .. last_ts - 1 :
                         /\ ATTP!Arrived(ts) > 0 =>
                              ATTP!TotalAt(ts2cnt_map, ts) = ATTP!Arrived(ts)
                         /\ ATTP!Arrived(ts) <= sample_size =>
                              ATTP!Estimates(ts) = ATTP!CountsOf(ATTP!Upto(ts), Value)
                    /\ tmp_cnt_ts \in 1 .. asked - 1 =>
                         tmp_cnt_map = ATTP!Estimates(tmp_cnt_ts)
  BY DEF ATTP!PastFrequenciesHold
<1>2. /\ last_ts = NewestOf(stream)
      /\ CountedTill(ts2cnt_map, stream, seen, last_ts)
      /\ tmp_cnt_ts \in 1 .. asked - 1 => tmp_cnt_map = ATTP!Estimates(tmp_cnt_ts)
  BY <1>1, EstimatesAre DEF Frequencies
<1>3. last_ts \in Nat /\ seen \in Nat /\ sample_size \in Nat
  BY <1>1, <1>2, NewestIs DEF History, ReservoirTypes
<1>4. ASSUME NEW ts \in 1 .. last_ts - 1
      PROVE  /\ ATTP!TotalAt(ts2cnt_map, ts) = ATTP!Arrived(ts)
             /\ ATTP!Arrived(ts) <= sample_size =>
                  ATTP!Estimates(ts) = ATTP!CountsOf(ATTP!Upto(ts), Value)
  <2>1. ts \in Nat /\ ts < last_ts
    BY <1>3
  <2>2. PICK h : h = AllShown(reservoir, ts)
    OBVIOUS
  <2>3. PICK m : Sampled(h, stream, seen, ts, m)
    BY <1>1, <2>1, <2>2 DEF History, Kept, AllShown
  <2>4. /\ ATTP!Arrived(ts) = m /\ m \in Nat
        /\ ATTP!Upto(ts) = [j \in 1 .. m |-> stream[j]]
    BY <1>1, <2>3, ArrivedIs
  <2>5. ATTP!TotalAt(ts2cnt_map, ts) = m
    <3>1. PICK x \in 0 .. seen : /\ x = ATTP!TotalAt(ts2cnt_map, ts)
                                 /\ \A k \in 1 .. seen : stream[k].ts <= ts <=> k <= x
      BY <1>2, <2>1, TotalIs DEF CountedTill
    <3>2. m \in 0 .. seen /\ \A k \in 1 .. seen : k <= x <=> k <= m
      BY <2>3, <3>1 DEF Sampled
    <3>3. ~(x < m)
      <4>1. x < m => m \in 1 .. seen
        BY <1>3, <3>2
      <4> QED BY <3>2, <4>1
    <3>4. ~(m < x)
      <4>1. m < x => x \in 1 .. seen
        BY <1>3, <3>2
      <4> QED BY <3>2, <4>1
    <3> QED BY <1>3, <3>1, <3>2, <3>3, <3>4
  <2>6. ASSUME m <= sample_size
        PROVE  ATTP!Estimates(ts) = ATTP!CountsOf(ATTP!Upto(ts), Value)
    <3>1. Numbered(stream, seen)
      BY <1>1 DEF History
    <3>2. EstimatesOf(h, m) = ATTP!CountsOf([j \in 1 .. m |-> stream[j]], Value)
      BY <1>3, <2>3, <2>6, <3>1, EstimatesExactly
    <3>3. ATTP!Estimates(ts) = EstimatesOf(h, m)
      BY <2>2, <2>5, EstimatesAre
    <3> QED BY <2>4, <3>2, <3>3
  <2> QED BY <2>4, <2>5, <2>6
<1> QED BY <1>2, <1>4

-----------------------------------------------------------------------------
(* The rows NORM_SAMPLING_WR drew                                          *)

DrawnItem == [ts : Nat \ {0}, norm : Nat, slots : SUBSET WR!Slot, arrival : Nat \ {0}]

\* The rows among the first n of S that were drawn into slot i up to ts.
DrawnInto(S, n, i, ts) == {j \in 1 .. n : S[j].ts <= ts /\ i \in S[j].slots}

\* Slot i shows the newest of them, and one of them as long as a row counts.
DrawnRight(x, S, n, i, ts) ==
  /\ x = 0 => DrawnInto(S, n, i, ts) = {}
  /\ x # 0 => x \in DrawnInto(S, n, i, ts) /\ \A j \in DrawnInto(S, n, i, ts) : j <= x
  /\ x = 0 => \A j \in 1 .. n : S[j].ts <= ts => S[j].norm = 0

DrawnTypes ==
  /\ sample_size \in Nat \ {0} /\ stream \in Seq(DrawnItem)
  /\ reservoir \in [WR!Slot -> Seq(DrawnItem)] /\ tot_weight \in Nat

DrawnRows ==
  /\ \A j \in 1 .. Len(stream) :
       /\ stream[j].ts <= NewestOf(stream)
       /\ stream[j].norm # 0 => tot_weight # 0
       /\ stream[j].norm = 0 => stream[j].slots = {}
  /\ tot_weight # 0 => \E j \in 1 .. Len(stream) : stream[j].norm # 0
  /\ \A ts \in Nat, i \in WR!Slot :
       DrawnRight(Shown(reservoir[i], ts).arrival, stream, Len(stream), i, ts)

DrawnInv == DrawnTypes /\ DrawnRows

LEMMA NoneIs == ATTP!None.arrival = 0
BY DEF ATTP!None

LEMMA RowShownIs ==
  ASSUME NEW i, NEW ts, Len(reservoir[i]) \in Nat
  PROVE  WR!LastOf(i, ts) = Shown(reservoir[i], ts).arrival
<1>1. PICK v : v = reservoir[i]
  OBVIOUS
<1>2. PICK p : p = EM!Max({0} \cup {k \in 1 .. Len(v) : v[k].ts <= ts})
  OBVIOUS
<1>3. WR!LastOf(i, ts) = IF p = 0 THEN 0 ELSE v[p].arrival
  BY <1>1, <1>2 DEF WR!LastOf, WR!LastAt, WR!Max, EM!Max
<1>4. Shown(v, ts) = IF p = 0 THEN ATTP!None ELSE v[p]
  BY <1>2 DEF Shown, ATTP!LastOf, ATTP!LastAt, ATTP!Max, EM!Max
<1> QED BY <1>1, <1>3, <1>4, NoneIs

LEMMA NothingDrawn ==
  ASSUME NEW i, NEW ts
  PROVE  DrawnRight(Shown(<<>>, ts).arrival, <<>>, 0, i, ts)
<1>1. Shown(<<>>, ts).arrival = 0
  BY ShownEmpty, NoneIs
<1> QED BY <1>1 DEF DrawnRight, DrawnInto

LEMMA DrawnFirst ==
  ASSUME sample_size \in Nat \ {0}, stream = <<>>, tot_weight = 0,
         reservoir = [i \in WR!Slot |-> <<>>]
  PROVE  DrawnInv
<1>1. Len(stream) = 0 /\ stream \in Seq(DrawnItem) /\ <<>> \in Seq(DrawnItem)
  OBVIOUS
<1>2. DrawnTypes
  BY <1>1 DEF DrawnTypes
<1>3. ASSUME NEW ts \in Nat, NEW i \in WR!Slot
      PROVE  DrawnRight(Shown(reservoir[i], ts).arrival, stream, Len(stream), i, ts)
  BY <1>1, NothingDrawn
<1> QED BY <1>1, <1>2, <1>3 DEF DrawnInv, DrawnRows

LEMMA InitDrawn == WR!Init => DrawnInv
<1> SUFFICES ASSUME WR!Init PROVE DrawnInv
  OBVIOUS
<1>1. /\ sample_size \in NormSampleSizes /\ stream = <<>> /\ tot_weight = 0
      /\ reservoir = [i \in WR!Slot |-> <<>>]
  BY DEF WR!Init, WR!InitExact
<1>2. sample_size \in Nat \ {0}
  BY <1>1, SamplersAssumption
<1> QED BY <1>1, <1>2, DrawnFirst

\* The row e of the time now is drawn into the slots e.slots.
LEMMA DrawnMore ==
  ASSUME DrawnInv, NEW e \in DrawnItem, e.ts >= NewestOf(stream), e.arrival = Len(stream) + 1,
         e.norm = 0 => e.slots = {}, e.norm # 0 /\ tot_weight = 0 => e.slots = WR!Slot,
         NEW S, S = Append(stream, e), NEW i \in WR!Slot, NEW v,
         v = IF i \in e.slots THEN Append(reservoir[i], e) ELSE reservoir[i],
         NEW ts \in Nat
  PROVE  DrawnRight(Shown(v, ts).arrival, S, Len(stream) + 1, i, ts)
<1>1. PICK n \in Nat : n = Len(stream)
  BY DEF DrawnInv, DrawnTypes
<1>2. S[n + 1] = e /\ \A j \in 1 .. n : S[j] = stream[j] /\ stream[j] \in DrawnItem
  BY <1>1 DEF DrawnInv, DrawnTypes
<1>3. PICK x : x = Shown(reservoir[i], ts).arrival
  OBVIOUS
<1>4. DrawnRight(x, stream, n, i, ts)
  BY <1>1, <1>3 DEF DrawnInv, DrawnRows
<1>5. e.ts \in Nat /\ e.norm \in Nat /\ e.arrival = n + 1
  BY <1>1 DEF DrawnItem
<1>6. \A j \in 1 .. (n + 1) : j \in 1 .. n \/ j = n + 1
  OBVIOUS
<1>7. Shown(v, ts) = IF i \in e.slots /\ e.ts <= ts THEN e ELSE Shown(reservoir[i], ts)
  <2>1. reservoir[i] \in Seq(DrawnItem)
    BY DEF DrawnInv, DrawnTypes
  <2>2. Shown(Append(reservoir[i], e), ts) = IF e.ts <= ts THEN e ELSE Shown(reservoir[i], ts)
    BY <2>1, ShownAppend
  <2> QED BY <2>2
<1>8. ASSUME NEW j \in 1 .. n
      PROVE  j \in DrawnInto(S, n + 1, i, ts) <=> j \in DrawnInto(stream, n, i, ts)
  BY <1>1, <1>2 DEF DrawnInto
<1>9. CASE i \in e.slots /\ e.ts <= ts
  <2>1. Shown(v, ts).arrival = n + 1
    BY <1>5, <1>7, <1>9
  <2>2. n + 1 \in DrawnInto(S, n + 1, i, ts)
    <3>1. n + 1 \in 1 .. (n + 1)
      OBVIOUS
    <3> QED BY <1>2, <1>9, <3>1 DEF DrawnInto
  <2>3. \A j \in DrawnInto(S, n + 1, i, ts) : j <= n + 1
    BY DEF DrawnInto
  <2> QED BY <1>1, <2>1, <2>2, <2>3 DEF DrawnRight
<1>10. CASE ~(i \in e.slots /\ e.ts <= ts)
  <2>1. Shown(v, ts).arrival = x
    BY <1>3, <1>7, <1>10
  <2>2. n + 1 \notin DrawnInto(S, n + 1, i, ts)
    BY <1>2, <1>10 DEF DrawnInto
  <2>3. DrawnInto(S, n + 1, i, ts) = DrawnInto(stream, n, i, ts)
    <3>1. \A j : j \in DrawnInto(S, n + 1, i, ts) => j \in 1 .. n
      BY <1>6, <2>2 DEF DrawnInto
    <3>2. \A j : j \in DrawnInto(stream, n, i, ts) => j \in 1 .. n
      BY DEF DrawnInto
    <3> QED BY <1>8, <3>1, <3>2
  <2>4. ASSUME x = 0, NEW j \in 1 .. (n + 1), S[j].ts <= ts PROVE S[j].norm = 0
    <3>1. CASE j \in 1 .. n
      BY <1>2, <1>4, <2>4, <3>1 DEF DrawnRight
    <3>2. CASE j = n + 1
      <4>1. S[j] = e /\ e.ts <= ts /\ i \notin e.slots
        BY <1>2, <1>10, <2>4, <3>2
      <4>2. CASE e.norm # 0
        <5>1. tot_weight # 0
          BY <4>1, <4>2
        <5>2. PICK k \in 1 .. n : stream[k].norm # 0 /\ stream[k].ts <= NewestOf(stream)
          BY <1>1, <5>1 DEF DrawnInv, DrawnRows
        <5>3. stream[k].ts \in Nat /\ NewestOf(stream) \in Nat
          <6>1. stream[k].ts \in Nat
            BY <1>2 DEF DrawnItem
          <6>2. n \in 1 .. n /\ NewestOf(stream) = stream[n].ts
            BY <1>1 DEF NewestOf, DrawnInv, DrawnTypes
          <6>3. stream[n] \in DrawnItem
            BY <1>2, <6>2
          <6> QED BY <6>1, <6>2, <6>3 DEF DrawnItem
        <5>4. stream[k].ts <= ts
          BY <1>5, <4>1, <5>2, <5>3
        <5> QED BY <1>4, <2>4, <5>2, <5>4 DEF DrawnRight
      <4> QED BY <4>1, <4>2
    <3> QED BY <1>6, <3>1, <3>2
  <2> QED BY <1>1, <1>4, <2>1, <2>3, <2>4 DEF DrawnRight
<1> QED BY <1>9, <1>10

LEMMA DrawnRow ==
  ASSUME DrawnTypes, NEW row \in WR!Row
  PROVE  row.norm \in Nat
<1>1. SampledRowsAt \in Seq(SUBSET [axis : Axis, norm : Nat])
  BY RowsAssumption
<1>2. /\ Len(stream) \in Nat /\ Len(stream) < Len(SampledRowsAt)
      /\ row \in SampledRowsAt[Len(stream) + 1]
  BY DEF WR!Row, DrawnTypes
<1>3. SampledRowsAt[Len(stream) + 1] \in SUBSET [axis : Axis, norm : Nat]
  BY <1>1, <1>2
<1> QED BY <1>2, <1>3

LEMMA UpdateDrawn ==
  ASSUME DrawnInv, NEW ts \in 1 .. MatrixMaxTs, NEW row \in WR!Row, WR!Update(ts, row)
  PROVE  DrawnInv'
<1>1. DrawnTypes
  BY DEF DrawnInv
<1>2. row.norm \in Nat /\ tot_weight \in Nat /\ ts \in Nat \ {0}
  BY <1>1, DrawnRow, SamplersAssumption DEF DrawnTypes
<1> DEFINE Row(slots) == [ts |-> ts, norm |-> row.norm, slots |-> slots,
                          arrival |-> Len(stream) + 1]
<1>17. PICK slots \in WR!Drawn(row.norm, tot_weight + row.norm) :
         /\ tot_weight' = tot_weight + row.norm
         /\ reservoir' = [i \in WR!Slot |-> IF i \in slots
                                            THEN WR!Appended(reservoir[i], Row(slots))
                                            ELSE reservoir[i]]
         /\ WR!Feed(ts, row, Row(slots)) /\ sample_size' = sample_size
  BY Zenon DEF WR!Update
<1>18. PICK e : e = Row(slots)
  OBVIOUS
<1>3. /\ e = [ts |-> ts, norm |-> row.norm, slots |-> slots, arrival |-> Len(stream) + 1]
      /\ tot_weight' = tot_weight + row.norm
      /\ reservoir' = [i \in WR!Slot |-> IF i \in slots THEN WR!Appended(reservoir[i], e)
                                         ELSE reservoir[i]]
      /\ WR!Feed(ts, row, e) /\ sample_size' = sample_size
  BY Zenon, <1>17, <1>18
<1>4. /\ slots \in SUBSET WR!Slot
      /\ row.norm = 0 => slots = {}
      /\ row.norm # 0 /\ tot_weight = 0 => slots = WR!Slot
  BY <1>2, <1>3 DEF WR!Drawn
<1>5. PICK n \in Nat : n = Len(stream)
  BY <1>1 DEF DrawnTypes
<1>6. /\ e \in DrawnItem /\ e.ts = ts /\ e.norm = row.norm /\ e.slots = slots
      /\ e.arrival = n + 1
  BY <1>2, <1>3, <1>4, <1>5 DEF DrawnItem
<1>7. ts >= NewestOf(stream) /\ stream' = Append(stream, e)
  BY <1>3 DEF WR!Feed, WR!Newest, WR!Last, NewestOf
<1>8. \A i \in WR!Slot : reservoir'[i] = IF i \in e.slots THEN Append(reservoir[i], e)
                                         ELSE reservoir[i]
  BY <1>3, <1>6 DEF WR!Appended
<1>9. WR!Slot' = WR!Slot /\ DrawnItem' = DrawnItem
  BY <1>3 DEF WR!Slot, DrawnItem
<1>10. /\ stream' \in Seq(DrawnItem) /\ Len(stream') = n + 1 /\ stream'[n + 1] = e
       /\ \A j \in 1 .. n : stream'[j] = stream[j] /\ stream[j] \in DrawnItem
  BY <1>1, <1>5, <1>6, <1>7 DEF DrawnTypes
<1>11. DrawnTypes'
  <2>1. \A i \in WR!Slot : reservoir'[i] \in Seq(DrawnItem)
    <3> SUFFICES ASSUME NEW i \in WR!Slot PROVE reservoir'[i] \in Seq(DrawnItem)
      OBVIOUS
    <3>1. reservoir[i] \in Seq(DrawnItem)
      BY <1>1 DEF DrawnTypes
    <3>2. Append(reservoir[i], e) \in Seq(DrawnItem)
      BY <1>6, <3>1
    <3> QED BY <1>8, <3>1, <3>2
  <2>2. reservoir' \in [WR!Slot -> Seq(DrawnItem)]
    BY <1>3, <2>1
  <2>3. tot_weight' \in Nat
    BY <1>2, <1>3
  <2> QED BY <1>1, <1>3, <1>9, <1>10, <2>2, <2>3 DEF DrawnTypes
<1>12. NewestOf(stream)' = ts
  <2>1. stream' # <<>>
    BY <1>10
  <2> QED BY <1>6, <1>10, <2>1 DEF NewestOf
<1>13. ASSUME NEW j \in 1 .. (n + 1)
       PROVE  /\ stream'[j].ts <= ts
              /\ stream'[j].norm # 0 => tot_weight' # 0
              /\ stream'[j].norm = 0 => stream'[j].slots = {}
  <2>1. CASE j = n + 1
    BY <1>2, <1>3, <1>4, <1>6, <1>10, <2>1
  <2>2. CASE j \in 1 .. n
    <3>1. /\ stream'[j] = stream[j] /\ stream[j].ts \in Nat
          /\ stream[j].ts <= NewestOf(stream)
          /\ stream[j].norm # 0 => tot_weight # 0
          /\ stream[j].norm = 0 => stream[j].slots = {}
      BY <1>5, <1>10, <2>2 DEF DrawnInv, DrawnRows, DrawnItem
    <3>2. NewestOf(stream) \in Nat
      <4>1. n \in 1 .. n /\ NewestOf(stream) = stream[n].ts
        BY <1>1, <1>5, <2>2 DEF NewestOf, DrawnTypes
      <4>2. stream[n] \in DrawnItem
        BY <1>10, <4>1
      <4> QED BY <4>1, <4>2 DEF DrawnItem
    <3>3. stream[j].ts <= ts
      BY <1>2, <1>7, <3>1, <3>2
    <3>4. tot_weight # 0 => tot_weight' # 0
      BY <1>2, <1>3
    <3> QED BY <3>1, <3>3, <3>4
  <2> QED BY <2>1, <2>2
<1>14. tot_weight' # 0 => \E j \in 1 .. (n + 1) : stream'[j].norm # 0
  <2>1. CASE row.norm # 0
    <3>1. n + 1 \in 1 .. (n + 1) /\ stream'[n + 1].norm # 0
      BY <1>6, <1>10, <2>1
    <3> QED BY <3>1
  <2>2. CASE tot_weight # 0
    <3>1. PICK j \in 1 .. n : stream[j].norm # 0
      BY <1>5, <2>2 DEF DrawnInv, DrawnRows
    <3>2. j \in 1 .. (n + 1) /\ stream'[j].norm # 0
      BY <1>10, <3>1
    <3> QED BY <3>2
  <2> QED BY <1>2, <1>3, <2>1, <2>2
<1>15. ASSUME NEW t \in Nat, NEW i \in WR!Slot
       PROVE  DrawnRight(Shown(reservoir'[i], t).arrival, stream', n + 1, i, t)
  <2>1. e.ts >= NewestOf(stream) /\ e.arrival = Len(stream) + 1
    BY <1>5, <1>6, <1>7
  <2>2. /\ e.norm = 0 => e.slots = {}
        /\ e.norm # 0 /\ tot_weight = 0 => e.slots = WR!Slot
    BY <1>4, <1>6
  <2>3. reservoir'[i] = IF i \in e.slots THEN Append(reservoir[i], e) ELSE reservoir[i]
    BY <1>8
  <2> QED BY <1>5, <1>6, <1>7, <2>1, <2>2, <2>3, DrawnMore
<1>16. DrawnRows'
  <2>1. /\ \A j \in 1 .. Len(stream') :
             /\ stream'[j].ts <= NewestOf(stream)'
             /\ stream'[j].norm # 0 => tot_weight' # 0
             /\ stream'[j].norm = 0 => stream'[j].slots = {}
        /\ tot_weight' # 0 => \E j \in 1 .. Len(stream') : stream'[j].norm # 0
    BY <1>10, <1>12, <1>13, <1>14
  <2>2. \A t \in Nat, i \in WR!Slot' :
          DrawnRight(Shown(reservoir'[i], t).arrival, stream', Len(stream'), i, t)
    BY <1>9, <1>10, <1>15
  <2> QED BY <2>1, <2>2 DEF DrawnRows
<1> QED BY <1>11, <1>16 DEF DrawnInv

LEMMA ClearDrawn ==
  ASSUME DrawnInv, WR!Clear
  PROVE  DrawnInv'
<1>1. /\ tot_weight' = 0 /\ reservoir' = [i \in WR!Slot |-> <<>>] /\ stream' = <<>>
      /\ sample_size' = sample_size
  BY DEF WR!Clear, WR!ClearExact
<1>2. WR!Slot' = WR!Slot /\ DrawnItem' = DrawnItem
  BY <1>1 DEF WR!Slot, DrawnItem
<1>3. /\ Len(stream') = 0 /\ stream' \in Seq(DrawnItem)
      /\ reservoir' \in [WR!Slot -> Seq(DrawnItem)]
  <2>1. <<>> \in Seq(DrawnItem)
    OBVIOUS
  <2> QED BY <1>1, <2>1
<1>4. DrawnTypes'
  BY <1>1, <1>2, <1>3 DEF DrawnInv, DrawnTypes
<1>5. \A t \in Nat, i \in WR!Slot' :
        DrawnRight(Shown(reservoir'[i], t).arrival, stream', Len(stream'), i, t)
  BY <1>1, <1>2, <1>3, NothingDrawn
<1> QED BY <1>1, <1>3, <1>4, <1>5 DEF DrawnInv, DrawnRows

LEMMA DrawnStep ==
  ASSUME DrawnInv, WR!Next
  PROVE  DrawnInv'
BY UpdateDrawn, ClearDrawn DEF WR!Next

LEMMA RowsKept ==
  ASSUME DrawnInv
  PROVE  WR!PastRowsKept
<1>1. PICK n \in Nat : n = Len(stream)
  BY DEF DrawnInv, DrawnTypes
<1> SUFFICES ASSUME NEW ts \in 1 .. WR!Newest, NEW i \in WR!Slot
             PROVE  /\ WR!LastOf(i, ts) = WR!Max({0} \cup {j \in 1 .. Len(stream) :
                                            stream[j].ts <= ts /\ i \in stream[j].slots})
                    /\ WR!LastOf(i, ts) = 0 <=> \A j \in 1 .. Len(stream) :
                                                 stream[j].ts <= ts => stream[j].norm = 0
  BY DEF WR!PastRowsKept
<1>2. ts \in Nat
  <2>1. ts \in Int /\ ts >= 1
    OBVIOUS
  <2> QED BY <2>1
<1>3. PICK x : x = WR!LastOf(i, ts)
  OBVIOUS
<1>4. DrawnRight(x, stream, n, i, ts)
  <2>1. reservoir[i] \in Seq(DrawnItem)
    BY DEF DrawnInv, DrawnTypes
  <2>2. x = Shown(reservoir[i], ts).arrival
    BY <1>3, <2>1, RowShownIs
  <2> QED BY <1>1, <1>2, <2>2 DEF DrawnInv, DrawnRows
<1>5. PICK D : D = DrawnInto(stream, n, i, ts)
  OBVIOUS
<1>6. D \in SUBSET (1 .. n)
  BY <1>5 DEF DrawnInto
<1>7. PICK m : m = EM!Max({0} \cup D)
  OBVIOUS
<1>8. m \in {0} \cup D /\ (\A j \in D : j <= m) /\ m \in Nat
  BY <1>1, <1>6, <1>7, GreatestIs
<1>9. x = m
  <2>1. CASE x = 0
    BY <1>4, <1>5, <1>8, <2>1 DEF DrawnRight
  <2>2. CASE x # 0
    <3>1. x \in D /\ \A j \in D : j <= x
      BY <1>4, <1>5, <2>2 DEF DrawnRight
    <3>2. x \in Nat /\ x >= 1 /\ x <= m
      BY <1>6, <1>8, <3>1
    <3>3. m \in D
      BY <1>8, <3>2
    <3> QED BY <1>8, <3>1, <3>2, <3>3
  <2> QED BY <2>1, <2>2
<1>10. {j \in 1 .. Len(stream) : stream[j].ts <= ts /\ i \in stream[j].slots} = D
  BY <1>1, <1>5 DEF DrawnInto
<1>11. WR!Max({0} \cup D) = EM!Max({0} \cup D)
  BY DEF WR!Max, EM!Max
<1>12. x # 0 => \E j \in 1 .. n : stream[j].ts <= ts /\ stream[j].norm # 0
  <2>1. x # 0 => x \in 1 .. n /\ stream[x].ts <= ts /\ i \in stream[x].slots
    BY <1>4 DEF DrawnRight, DrawnInto
  <2>2. x # 0 => stream[x].norm # 0
    BY <1>1, <2>1 DEF DrawnInv, DrawnRows
  <2> QED BY <2>1, <2>2
<1>13. x = 0 => \A j \in 1 .. n : stream[j].ts <= ts => stream[j].norm = 0
  BY <1>4 DEF DrawnRight
<1> QED BY <1>1, <1>3, <1>7, <1>9, <1>10, <1>11, <1>12, <1>13

-----------------------------------------------------------------------------
(* The classes together: each step is one of the class of the sketch       *)

SketchInv ==
  /\ class = "PFD" => DirectionInv
  /\ class = "EXACT_MS" => BaselineInv
  /\ class = "SAMPLING" => ReservoirInv
  /\ class = "NORM_SAMPLING_WR" => DrawnInv

LEMMA SketchInitially == Init => SketchInv
<1> SUFFICES ASSUME Init PROVE SketchInv
  OBVIOUS
<1>1. class = "PFD" => FD!Init
  BY DEF Init
<1>2. class = "EXACT_MS" => EM!InitExact
  BY DEF Init
<1>3. class = "SAMPLING" => ATTP!Init
  BY DEF Init
<1>4. class = "NORM_SAMPLING_WR" => WR!Init
  BY DEF Init
<1> QED BY <1>1, <1>2, <1>3, <1>4, InitDirections, InitBaseline, InitReservoir, InitDrawn
        DEF SketchInv

LEMMA DirectionStep ==
  ASSUME DirectionInv, FD!Next
  PROVE  DirectionInv'
<1>1. ASSUME NEW ts \in 1 .. DirectedMaxTs, NEW row \in FD!Row, FD!Update(ts, row)
      PROVE  DirectionInv'
  BY <1>1, DirectionUpdate
<1>2. ASSUME FD!Clear PROVE DirectionInv'
  BY <1>2, DirectionClear
<1> QED BY <1>1, <1>2 DEF FD!Next

LEMMA BaselineStep ==
  ASSUME BaselineInv, EM!NextExact
  PROVE  BaselineInv'
<1>1. ASSUME NEW ts \in 1 .. MatrixMaxTs, NEW row \in EM!Row,
             EM!Feed(ts, row, [ts |-> ts, axis |-> row.axis, norm |-> row.norm])
      PROVE  BaselineInv'
  BY <1>1, FeedBaseline
<1>2. ASSUME NEW ts \in 1 .. MatrixMaxTs, NEW row \in EM!Row, NEW norm \in {0, row.norm},
             EM!MalformedLine(ts, norm)
      PROVE  BaselineInv'
  <2>1. norm \in Nat
    BY <1>2, MatrixRow DEF BaselineInv, Line
  <2> QED BY <1>2, <2>1, MalformedBaseline
<1> QED BY <1>1, <1>2, ClearBaseline DEF EM!NextExact

LEMMA SketchStep ==
  ASSUME SketchInv, [Next]_vars
  PROVE  SketchInv'
<1>1. CASE Next
  <2>1. class' = class
    BY <1>1 DEF Next
  <2>2. class = "PFD" => FD!Next
    BY <1>1 DEF Next
  <2>3. class = "EXACT_MS" => EM!NextExact
    BY <1>1 DEF Next
  <2>4. class = "SAMPLING" => ATTP!Next
    BY <1>1 DEF Next
  <2>5. class = "NORM_SAMPLING_WR" => WR!Next
    BY <1>1 DEF Next
  <2> QED BY <2>1, <2>2, <2>3, <2>4, <2>5, DirectionStep, BaselineStep, ReservoirStep, DrawnStep
          DEF SketchInv
<1>2. CASE UNCHANGED vars
  <2>1. /\ class' = class /\ stream' = stream /\ aborted' = aborted
        /\ exact_last_ts' = exact_last_ts /\ cur_matrix' = cur_matrix
        /\ matrices' = matrices /\ fnorm_sqr' = fnorm_sqr /\ astray' = astray
        /\ l' = l /\ AF2' = AF2 /\ nxt_target' = nxt_target /\ C' = C /\ reused' = reused
    BY <1>2 DEF vars, ofExact, ofFD, ofOne
  <2>2. DirectionInv => DirectionInv'
    BY <2>1, TopNext DEF DirectionInv, DirectionTypes, TargetSound, FD!ShareKept
  <2>3. BaselineInv => BaselineInv'
    <3>1. BaselineTypes => BaselineTypes'
      BY <2>1 DEF BaselineTypes, NormList
    <3>2. Filing => Filing'
      BY <2>1 DEF Filing, EM!Newest, EM!Last, EM!Zero
    <3>3. EM!BaselinesAgree => EM!BaselinesAgree'
      BY <2>1, AgreementIs, AgreementWillBe
    <3> QED BY <3>1, <3>2, <3>3 DEF BaselineInv
  <2>4. /\ sample_size' = sample_size /\ frequency' = frequency /\ seen' = seen
        /\ reservoir' = reservoir /\ last_ts' = last_ts /\ tmp_cnt_ts' = tmp_cnt_ts
        /\ tmp_cnt_map' = tmp_cnt_map /\ ts2cnt_map' = ts2cnt_map /\ past' = past
        /\ asked' = asked /\ tot_weight' = tot_weight
    BY <1>2 DEF vars, ofSlots, ofFrequencies, ofATTP, ofOne, ofWR
  <2>5. ReservoirInv => ReservoirInv'
    BY <2>1, <2>4, ReservoirStays
  <2>6. DrawnInv => DrawnInv'
    <3>1. WR!Slot' = WR!Slot /\ DrawnItem' = DrawnItem /\ NewestOf(stream)' = NewestOf(stream)
      BY <2>1, <2>4 DEF WR!Slot, DrawnItem, NewestOf
    <3> QED BY <2>1, <2>4, <3>1 DEF DrawnInv, DrawnTypes, DrawnRows
  <2> QED BY <2>1, <2>2, <2>3, <2>5, <2>6 DEF SketchInv
<1> QED BY <1>1, <1>2

\* What a step of the sketch keeps: the next target of PFD is low enough for
\* the rows it lets pass without a look at the lengths, and the lists of the
\* exact baselines are in the order of time.
THEOREM SketchInvariance == Spec => []SketchInv
<1> QED BY SketchInitially, SketchStep, PTL DEF Spec

\* FD_ATTP::update returns early while nxt_target is not reached: all the
\* same no direction left outside the checkpoints has outgrown its share of
\* the norm seen, whatever rows come and in whatever directions.
THEOREM ShareIsKept == Spec => []ShareKept
<1>1. SketchInv => ShareKept
  BY DEF SketchInv, DirectionInv, ShareKept
<1> QED BY <1>1, SketchInvariance, PTL

\* ExactMatrix and the norm of QueryMatrixSketchImpl answer for every past
\* timestamp what the rows up to it add up to, and agree with one another
\* unless the driver met a line it cannot read.
THEOREM BaselinesDoAgree == Spec => []BaselinesAgree
<1>1. SketchInv => BaselinesAgree
  BY DEF SketchInv, BaselineInv, BaselinesAgree
<1> QED BY <1>1, SketchInvariance, PTL

\* List::last_of and dvec_last_of: whatever random slots the arrivals went
\* to, the sample of SAMPLING as of a past time is the reservoir of that time,
\* with as many distinct arrivals as there is room for, and a slot of
\* NORM_SAMPLING_WR shows the last row drawn into it by then, if any counts.
THEOREM SampleOfPastIsKept == Spec => []PastSampleKept
<1>1. SketchInv => PastSampleKept
  BY SamplesKept, RowsKept DEF SketchInv, PastSampleKept
<1> QED BY <1>1, SketchInvariance, PTL

\* SamplingSketch::estimate_frequency: the number a sample of the past is
\* scaled to is that of the arrivals by then, the frequencies are the exact
\* counts while the reservoir held every arrival, and those cached for a
\* timestamp that is over stay what would be computed now.
THEOREM FrequenciesOfPastHold == Spec => []PastFrequenciesHold
<1>1. SketchInv => PastFrequenciesHold
  BY FrequenciesHold DEF SketchInv, PastFrequenciesHold
<1> QED BY <1>1, SketchInvariance, PTL

=============================================================================
