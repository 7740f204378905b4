--------------------------- MODULE MGSketchProofs ---------------------------
(***************************************************************************)
(* What the operators of a Misra-Gries sketch do, for every key set,       *)
(* capacity and value of the sketch: which facts update_impl, reset_delta  *)
(* and merge keep.  The proofs of the classes that hold such sketches cite *)
(* these lemmas.                                                           *)
(***************************************************************************)
EXTENDS MGSketch, DataLemmas


-----------------------------------------------------------------------------
(* Lemmas about the operators of a sketch                                  *)

\* MinOf is a natural number and a lower bound of the counters in the table.
LEMMA MinOfBounds ==
  ASSUME NEW cnt \in [Key -> Nat]
  PROVE  /\ MinOf(cnt) \in Nat \ {0}
         /\ \A x \in InTable(cnt) : MinOf(cnt) <= cnt[x]
<1> DEFINE V == {cnt[x] : x \in InTable(cnt)} \cup {NoMin}
<1>1. V \in SUBSET (Nat \ {0}) /\ V # {}
  BY SketchAssumption DEF InTable
<1>2. \E m \in V : \A n \in V : m <= n
  BY <1>1, LeastElement
<1>3. MinOf(cnt) \in V /\ \A n \in V : MinOf(cnt) <= n
  BY <1>2 DEF MinOf
<1>4. QED
  BY <1>1, <1>3

\* What one pass of subtraction leaves, and what it keeps true.
LEMMA SubtractMinSpec ==
  ASSUME NEW q \in SketchValue, q.min <= q.delta,
         \A x \in InTable(q.cnt) : q.min <= q.cnt[x]
  PROVE  LET r == SubtractMin(q) IN
         /\ r \in SketchValue
         /\ r.min > 0
         /\ r.delta = q.delta - q.min
         /\ \A x \in InTable(r.cnt) : r.min <= r.cnt[x]
         /\ \A x \in Key : r.cnt[x] = IF x \in InTable(q.cnt)
                                      THEN q.cnt[x] - q.min ELSE 0
<1> DEFINE left == [x \in Key |-> IF x \in InTable(q.cnt)
                                  THEN q.cnt[x] - q.min ELSE 0]
<1>1. q.cnt \in [Key -> Nat] /\ q.min \in Nat /\ q.delta \in Nat
  BY DEF SketchValue
<1>2. left \in [Key -> Nat]
  BY <1>1 DEF InTable
<1>3. /\ MinOf(left) \in Nat \ {0}
      /\ \A x \in InTable(left) : MinOf(left) <= left[x]
  BY <1>2, MinOfBounds
<1>4. SubtractMin(q) = [cnt |-> left, min |-> MinOf(left), delta |-> q.delta - q.min]
  BY DEF SubtractMin
<1> HIDE DEF left
<1>5. q.delta - q.min \in Nat
  BY <1>1
<1>6. SubtractMin(q) \in SketchValue
  BY <1>2, <1>3, <1>4, <1>5 DEF SketchValue
<1>7. \A x \in Key : left[x] = IF x \in InTable(q.cnt)
                                THEN q.cnt[x] - q.min ELSE 0
  BY DEF left
<1>8. QED
  BY <1>1, <1>3, <1>4, <1>6, <1>7

\* The passes together: some amount m, at least the old min, was taken from
\* every counter (a counter of at most m is gone) and off the pending weight.
LEMMA SubtractPassesSpec ==
  ASSUME NEW q \in SketchValue, q.min <= q.delta,
         \A x \in InTable(q.cnt) : q.min <= q.cnt[x]
  PROVE  LET r == SubtractPasses(q) IN
         /\ r \in SketchValue
         /\ r.min > 0
         /\ \A x \in InTable(r.cnt) : r.min <= r.cnt[x]
         /\ \E m \in Nat :
              /\ q.min <= m
              /\ r.delta = q.delta - m
              /\ \A x \in Key :
                   IF r.cnt[x] = 0 THEN q.cnt[x] <= m ELSE r.cnt[x] = q.cnt[x] - m
<1> DEFINE once == SubtractMin(q)
<1>1. /\ once \in SketchValue
      /\ once.min > 0
      /\ once.delta = q.delta - q.min
      /\ \A x \in InTable(once.cnt) : once.min <= once.cnt[x]
      /\ \A x \in Key : once.cnt[x] = IF x \in InTable(q.cnt)
                                       THEN q.cnt[x] - q.min ELSE 0
  BY SubtractMinSpec
<1>2. \A x \in Key : IF once.cnt[x] = 0 THEN q.cnt[x] <= q.min
                     ELSE once.cnt[x] = q.cnt[x] - q.min
  BY <1>1 DEF SketchValue, InTable
<1>3. CASE ~ (once.delta > 0 /\ once.delta >= once.min)
  <2>1. SubtractPasses(q) = once
    BY <1>3 DEF SubtractPasses
  <2>2. q.min \in Nat /\ q.min <= q.min
    BY DEF SketchValue
  <2> HIDE DEF once
  <2>3. QED
    BY <1>1, <1>2, <2>1, <2>2
<1>4. CASE once.delta > 0 /\ once.delta >= once.min
  <2> DEFINE twice == SubtractMin(once)
  <2>1. SubtractPasses(q) = twice
    BY <1>4 DEF SubtractPasses
  <2>2. once.min <= once.delta
    BY <1>1, <1>4 DEF SketchValue
  <2> HIDE DEF once
  <2>3. /\ twice \in SketchValue
        /\ twice.min > 0
        /\ twice.delta = once.delta - once.min
        /\ \A x \in InTable(twice.cnt) : twice.min <= twice.cnt[x]
        /\ \A x \in Key : twice.cnt[x] = IF x \in InTable(once.cnt)
                                          THEN once.cnt[x] - once.min ELSE 0
    BY <1>1, <2>2, SubtractMinSpec
  <2> DEFINE m == q.min + once.min
  <2>4. m \in Nat /\ q.min <= m /\ twice.delta = q.delta - m
    BY <1>1, <2>3 DEF SketchValue
  <2>5. \A x \in Key : IF twice.cnt[x] = 0 THEN q.cnt[x] <= m
                       ELSE twice.cnt[x] = q.cnt[x] - m
    <3> TAKE x \in Key
    <3>1. q.cnt[x] \in Nat /\ once.cnt[x] \in Nat /\ q.min \in Nat /\ once.min \in Nat
      BY <1>1 DEF SketchValue
    <3>2. CASE x \in InTable(once.cnt)
      <4>1. once.cnt[x] # 0 /\ twice.cnt[x] = once.cnt[x] - once.min
        BY <2>3, <3>2 DEF InTable
      <4>2. once.cnt[x] = q.cnt[x] - q.min
        BY <1>2, <4>1
      <4>3. QED
        BY <3>1, <4>1, <4>2
    <3>3. CASE x \notin InTable(once.cnt)
      <4>1. once.cnt[x] = 0 /\ twice.cnt[x] = 0
        BY <2>3, <3>3 DEF InTable
      <4>2. q.cnt[x] <= q.min
        BY <1>2, <4>1
      <4>3. QED
        BY <3>1, <4>1, <4>2
    <3>4. QED
      BY <3>2, <3>3
  <2> HIDE DEF m, twice
  <2>6. QED
    BY <2>1, <2>3, <2>4, <2>5
<1>5. QED
  BY <1>3, <1>4

\* An update of a sound, lazily consistent sketch leaves it so, with the
\* history the specification keeps: the four branches of update_impl.
LEMMA UpdateKeeps ==
  ASSUME NEW q \in SketchValue, NEW f \in [Key -> Nat], NEW e \in Nat,
         Sound(q, f, e), LazyMin(q),
         NEW x \in Key, NEW c \in Nat \ {0}
  PROVE  LET r  == UpdateImpl(q, x, c)
             ff == [f EXCEPT ![x] = @ + c]
             ee == e + c - (r.cnt[x] - q.cnt[x])
         IN /\ r \in SketchValue /\ Sound(r, ff, ee) /\ LazyMin(r)
            /\ ee \in Nat /\ e <= ee /\ ee <= e + c
<1> DEFINE r  == UpdateImpl(q, x, c)
           ff == [f EXCEPT ![x] = @ + c]
           ee == e + c - (r.cnt[x] - q.cnt[x])
           p  == [q EXCEPT !.delta = @ + c]
<1>1. /\ q.cnt \in [Key -> Nat] /\ q.min \in Nat /\ q.delta \in Nat
      /\ q = [cnt |-> q.cnt, min |-> q.min, delta |-> q.delta]
  BY DEF SketchValue
<1>2. /\ ff \in [Key -> Nat]
      /\ \A y \in Key : ff[y] = IF y = x THEN f[y] + c ELSE f[y]
  OBVIOUS
<1>3. CASE x \in InTable(q.cnt)
  <2>1. r = [q EXCEPT !.cnt[x] = @ + c]
    BY <1>3 DEF UpdateImpl
  <2>2. /\ r.min = q.min /\ r.delta = q.delta
        /\ r.cnt = [q.cnt EXCEPT ![x] = @ + c]
        /\ r \in SketchValue
    BY <1>1, <2>1 DEF SketchValue
  <2>3. \A y \in Key : r.cnt[y] = IF y = x THEN q.cnt[y] + c ELSE q.cnt[y]
    BY <1>1, <2>2
  <2>4. InTable(r.cnt) = InTable(q.cnt)
    BY <1>1, <1>3, <2>3 DEF InTable
  <2>5. ee = e
    BY <1>1, <2>3
  <2> HIDE DEF r, ff, ee
  <2>6. Sound(r, ff, ee)
    BY <1>1, <1>2, <1>3, <2>2, <2>3, <2>4, <2>5 DEF Sound, InTable
  <2>7. LazyMin(r)
    <3>1. \A y \in InTable(q.cnt) : q.cnt[y] \in Nat /\ r.cnt[y] \in Nat /\ q.cnt[y] <= r.cnt[y]
      BY <1>1, <2>2, <2>3 DEF InTable, SketchValue
    <3>2. QED
      BY <1>1, <2>2, <2>4, <3>1 DEF LazyMin
  <2>8. QED
    BY <2>2, <2>5, <2>6, <2>7 DEF r, ff, ee
<1>4. CASE x \notin InTable(q.cnt) /\ HasRoom(q.cnt)
  <2>1. r = [q EXCEPT !.cnt[x] = c, !.min = Lesser(c, @)]
    BY <1>4 DEF UpdateImpl
  <2> HIDE DEF r
  <2>2. /\ r.min = Lesser(c, q.min) /\ r.delta = q.delta
        /\ r.cnt = [q.cnt EXCEPT ![x] = c]
        /\ r \in SketchValue
    <3>1. r = [cnt |-> [q.cnt EXCEPT ![x] = c], min |-> Lesser(c, q.min), delta |-> q.delta]
      BY <1>1, <2>1
    <3>2. [q.cnt EXCEPT ![x] = c] \in [Key -> Nat] /\ Lesser(c, q.min) \in Nat
      BY <1>1 DEF Lesser
    <3>3. QED
      BY <1>1, <3>1, <3>2 DEF SketchValue
  <2>3. \A y \in Key : r.cnt[y] = IF y = x THEN c ELSE q.cnt[y]
    BY <1>1, <2>2
  <2>4. InTable(r.cnt) = InTable(q.cnt) \cup {x} /\ q.cnt[x] = 0
    BY <1>1, <1>4, <2>3 DEF InTable
  <2>5. ee = e
    BY <1>1, <2>3, <2>4
  <2>6. q.delta = 0
    <3>1. Cardinality(InTable(q.cnt)) \in Nat
      <4>1. IsFiniteSet(InTable(q.cnt))
        BY SketchAssumption, FS_Subset DEF InTable
      <4>2. QED
        BY <4>1, FS_CardinalityType
    <3>2. QED
      BY <1>1, <1>4, <3>1, SketchAssumption DEF HasRoom, LazyMin
  <2> HIDE DEF r, ff, ee
  <2>7. Sound(r, ff, ee)
    BY <1>1, <1>2, <1>4, <2>2, <2>3, <2>4, <2>5, <2>6 DEF Sound, InTable
  <2>8. LazyMin(r)
    BY <1>1, <2>2, <2>3, <2>4, <2>6 DEF LazyMin, InTable, Lesser
  <2>9. QED
    BY <2>2, <2>5, <2>7, <2>8 DEF r, ff, ee
<1>5. CASE x \notin InTable(q.cnt) /\ ~ HasRoom(q.cnt) /\ p.delta < q.min
  <2>1. r = p
    BY <1>5 DEF UpdateImpl
  <2>2. r.min = q.min /\ r.delta = q.delta + c /\ r.cnt = q.cnt /\ r \in SketchValue
    BY <1>1, <2>1 DEF SketchValue
  <2>3. q.cnt[x] = 0 /\ ee = e + c
    BY <1>1, <1>5, <2>2 DEF InTable
  <2>4. Cardinality(InTable(q.cnt)) >= K - 1
    <3>1. IsFiniteSet(InTable(q.cnt))
      BY SketchAssumption, FS_Subset DEF InTable
    <3>2. Cardinality(InTable(q.cnt)) \in Nat
      BY <3>1, FS_CardinalityType
    <3>3. QED
      BY <1>5, <3>2, SketchAssumption DEF HasRoom
  <2>5. r.delta < q.min
    BY <1>1, <1>5, <2>1
  <2> HIDE DEF r, ff, ee, p
  <2>6. Sound(r, ff, ee)
    BY <1>1, <1>2, <1>5, <2>2, <2>3, <2>5 DEF Sound, LazyMin, InTable
  <2>7. LazyMin(r)
    BY <1>1, <2>2, <2>4, <2>5 DEF LazyMin
  <2>8. QED
    BY <2>2, <2>3, <2>6, <2>7 DEF r, ff, ee
<1>6. CASE x \notin InTable(q.cnt) /\ ~ HasRoom(q.cnt) /\ ~ (p.delta < q.min)
  <2> DEFINE w == SubtractPasses(p)
  <2>1. r = InsertLeftover(w, x)
    BY <1>6 DEF UpdateImpl
  <2>2. p \in SketchValue /\ p.cnt = q.cnt /\ p.min = q.min /\ p.delta = q.delta + c
    BY <1>1 DEF SketchValue
  <2>3. p.min <= p.delta /\ \A y \in InTable(p.cnt) : p.min <= p.cnt[y]
    BY <1>1, <1>6, <2>2 DEF LazyMin
  <2> HIDE DEF p
  <2>4. /\ w \in SketchValue
        /\ w.min > 0
        /\ \A y \in InTable(w.cnt) : w.min <= w.cnt[y]
        /\ \E m \in Nat :
             /\ p.min <= m
             /\ w.delta = p.delta - m
             /\ \A y \in Key :
                  IF w.cnt[y] = 0 THEN p.cnt[y] <= m ELSE w.cnt[y] = p.cnt[y] - m
    BY <2>2, <2>3, SubtractPassesSpec
  <2> HIDE DEF w, r, ff, ee
  <2>5. PICK m \in Nat :
             /\ q.min <= m
             /\ w.delta = (q.delta + c) - m
             /\ \A y \in Key :
                  IF w.cnt[y] = 0 THEN q.cnt[y] <= m ELSE w.cnt[y] = q.cnt[y] - m
    <3>1. PICK m \in Nat :
             /\ p.min <= m
             /\ w.delta = p.delta - m
             /\ \A y \in Key :
                  IF w.cnt[y] = 0 THEN p.cnt[y] <= m ELSE w.cnt[y] = p.cnt[y] - m
      BY <2>4
    <3>2. q.min <= m /\ w.delta = (q.delta + c) - m
      BY <2>2, <3>1
    <3>3. \A y \in Key : IF w.cnt[y] = 0 THEN q.cnt[y] <= m ELSE w.cnt[y] = q.cnt[y] - m
      BY <2>2, <3>1
    <3>4. QED
      BY <3>2, <3>3
  <2>6. w.cnt \in [Key -> Nat] /\ w.delta \in Nat /\ w.min \in Nat
    BY <2>4 DEF SketchValue
  <2>7. q.cnt[x] = 0
    BY <1>6 DEF InTable
  <2>8. w.cnt[x] = 0
    BY <1>1, <2>5, <2>6, <2>7
  <2>9. /\ r.delta = 0 /\ r \in SketchValue /\ r.min > 0
        /\ \A y \in Key : r.cnt[y] = IF y = x THEN w.delta ELSE w.cnt[y]
        /\ r.min <= w.min /\ (w.delta # 0 => r.min <= w.delta)
    <3>1. CASE w.delta = 0
      BY <2>1, <2>4, <2>6, <2>8, <3>1 DEF InsertLeftover
    <3>2. CASE w.delta # 0
      <4>1. r = [cnt   |-> [w.cnt EXCEPT ![x] = w.delta],
                 min   |-> Lesser(w.delta, w.min),
                 delta |-> 0]
        BY <2>1, <3>2 DEF InsertLeftover
      <4> HIDE DEF r
      <4>2. r \in SketchValue /\ r.min <= w.min /\ r.min <= w.delta /\ r.min > 0
        BY <2>4, <2>6, <3>2, <4>1 DEF SketchValue, Lesser
      <4>3. QED
        BY <2>6, <4>1, <4>2
    <3>3. QED
      BY <3>1, <3>2
  <2>10. ee = e + c - w.delta /\ w.delta <= c
    BY <1>1, <2>5, <2>6, <2>7, <2>9 DEF LazyMin, ee
  <2>11. ee \in Nat /\ e <= ee /\ ee <= e + c
    BY <2>6, <2>10
  <2>12. Sound(r, ff, ee)
    <3>1. r.delta <= ee
      BY <2>9, <2>11
    <3>2. ASSUME NEW y \in Key
          PROVE  /\ r.cnt[y] <= ff[y]
                 /\ r.cnt[y] # 0 => 0 < r.cnt[y]
                 /\ ff[y] <= r.cnt[y] + ee
      <4>1. r.cnt[y] \in Nat /\ q.cnt[y] \in Nat /\ w.cnt[y] \in Nat /\ f[y] \in Nat
        BY <1>1, <2>6, <2>9 DEF SketchValue
      <4>2. /\ q.cnt[y] <= f[y] /\ q.delta <= e
            /\ q.cnt[y] # 0 => f[y] <= q.cnt[y] + e - q.delta
            /\ q.cnt[y] = 0 => f[y] <= e
        BY DEF Sound, InTable
      <4>3. ee = e - q.delta + m
        BY <1>1, <2>5, <2>10
      <4>4. CASE y = x
        BY <1>1, <1>2, <2>6, <2>7, <2>9, <2>10, <4>1, <4>2, <4>4
      <4>5. CASE y # x
        <5>1. r.cnt[y] = w.cnt[y] /\ ff[y] = f[y]
          BY <1>2, <2>9, <4>5
        <5>2. q.delta <= m /\ e <= ee
          BY <1>1, <2>5, <4>3 DEF LazyMin
        <5>3. QED
          BY <1>1, <2>5, <2>11, <4>1, <4>2, <4>3, <5>1, <5>2
      <4>6. QED
        BY <4>4, <4>5
    <3>3. QED
      BY <2>9, <2>11, <3>1, <3>2 DEF Sound, InTable, SketchValue
  <2>13. LazyMin(r)
    <3>1. \A y \in InTable(r.cnt) : r.min <= r.cnt[y]
      <4> TAKE y \in InTable(r.cnt)
      <4>1. y \in Key /\ r.cnt[y] # 0 /\ r.min \in Nat
        BY <2>9 DEF InTable, SketchValue
      <4>2. CASE y = x
        BY <2>9, <4>1, <4>2
      <4>3. CASE y # x
        BY <2>4, <2>6, <2>9, <4>1, <4>3 DEF InTable
      <4>4. QED
        BY <4>2, <4>3
    <3>2. QED
      BY <2>9, <3>1 DEF LazyMin
  <2>14. QED
    BY <2>9, <2>11, <2>12, <2>13 DEF r, ff, ee
<1>7. QED
  BY <1>3, <1>4, <1>5, <1>6

\* Settling the pending delta keeps a sketch sound with the same error and
\* never erases a key; afterwards nothing is pending.
LEMMA ResetDeltaKeeps ==
  ASSUME NEW q \in SketchValue, NEW f \in [Key -> Nat], NEW e \in Nat,
         Sound(q, f, e)
  PROVE  LET r == ResetDelta(q) IN
         /\ r \in SketchValue
         /\ r.delta = 0
         /\ Sound(r, f, e)
         /\ LazyMin(q) => LazyMin(r)
<1>1. q.cnt \in [Key -> Nat] /\ q.min \in Nat /\ q.delta \in Nat
  BY DEF SketchValue
<1>2. CASE q.delta = 0
  BY <1>2 DEF ResetDelta
<1>3. CASE q.delta # 0
  <2> DEFINE left == [x \in Key |-> IF x \in InTable(q.cnt)
                                    THEN q.cnt[x] - q.delta ELSE 0]
             r    == ResetDelta(q)
  <2>1. r = [cnt |-> left, min |-> MinOf(left), delta |-> 0]
    BY <1>3 DEF ResetDelta
  <2>2. \A x \in Key : /\ left[x] = IF x \in InTable(q.cnt)
                                    THEN q.cnt[x] - q.delta ELSE 0
                       /\ x \in InTable(q.cnt) => left[x] > 0
    BY <1>1 DEF Sound, InTable
  <2>3. left \in [Key -> Nat]
    BY <1>1 DEF Sound, InTable
  <2>4. MinOf(left) \in Nat \ {0} /\ \A x \in InTable(left) : MinOf(left) <= left[x]
    BY <2>3, MinOfBounds
  <2> HIDE DEF left, r
  <2>5. r.cnt = left /\ r.delta = 0 /\ r.min = MinOf(left) /\ r \in SketchValue
    BY <2>1, <2>3, <2>4 DEF SketchValue
  <2>6. Sound(r, f, e)
    <3>1. ASSUME NEW x \in Key
          PROVE  /\ left[x] <= f[x]
                 /\ left[x] # 0 => 0 < left[x] /\ f[x] <= left[x] + e
                 /\ left[x] = 0 => f[x] <= e
      <4>1. left[x] \in Nat /\ q.cnt[x] \in Nat /\ f[x] \in Nat
        BY <1>1, <2>3
      <4>2. CASE x \in InTable(q.cnt)
        BY <1>1, <2>2, <4>1, <4>2 DEF Sound
      <4>3. CASE x \notin InTable(q.cnt)
        BY <1>1, <2>2, <4>1, <4>3 DEF Sound
      <4>4. QED
        BY <4>2, <4>3
    <3>2. QED
      BY <2>5, <3>1 DEF Sound, InTable
  <2>7. LazyMin(r)
    BY <2>4, <2>5 DEF LazyMin
  <2>8. QED
    BY <2>5, <2>6, <2>7 DEF r
<1>4. QED
  BY <1>2, <1>3

\* The amount merge subtracts is a natural number.
LEMMA CutsAreNat ==
  ASSUME NEW cnt \in [Key -> Nat], NEW d \in Cuts(cnt)
  PROVE  d \in Nat
BY DEF Cuts, InTable

\* Whatever the joint table, there is an amount for merge to subtract: the
\* least one that at most K counters exceed.
LEMMA CutsExist ==
  ASSUME NEW cnt \in [Key -> Nat]
  PROVE  Cuts(cnt) # {}
<1> DEFINE Above(n) == {x \in Key : cnt[x] > n}
           Low == {n \in Nat : Cardinality(Above(n)) <= K}
<1>1. CASE Cardinality(InTable(cnt)) <= K
  BY <1>1 DEF Cuts
<1>2. CASE ~(Cardinality(InTable(cnt)) <= K)
  <2>1. PICK m \in Nat : \A x \in Key : cnt[x] <= m
    <3> DEFINE W == {T \in SUBSET Key : \E m \in Nat : \A x \in T : cnt[x] <= m}
    <3>1. {} \in W
      OBVIOUS
    <3>2. ASSUME NEW T \in SUBSET Key, NEW x \in T, T \ {x} \in W PROVE T \in W
      <4>1. PICK m \in Nat : \A y \in T \ {x} : cnt[y] <= m
        BY <3>2
      <4>2. PICK n \in Nat : n = IF cnt[x] <= m THEN m ELSE cnt[x]
        OBVIOUS
      <4>3. \A y \in T : cnt[y] <= n
        <5> SUFFICES ASSUME NEW y \in T PROVE cnt[y] <= n
          OBVIOUS
        <5>1. cnt[y] \in Nat /\ cnt[x] \in Nat
          OBVIOUS
        <5>2. CASE y = x
          BY <4>2, <5>1, <5>2
        <5>3. CASE y # x
          BY <4>1, <4>2, <5>1, <5>3
        <5> QED BY <5>2, <5>3
      <4> QED BY <4>3
    <3> HIDE DEF W
    <3>3. W = SUBSET Key
      <4>1. W \in SUBSET (SUBSET Key)
        BY DEF W
      <4> QED BY <3>1, <3>2, <4>1, SketchAssumption, SubsetInduction
    <3> QED BY <3>3 DEF W
  <2>2. Above(m) = {}
    BY <2>1
  <2>3. m \in Low
    BY <2>2, FS_EmptySet, SketchAssumption
  <2>4. PICK d \in Low : \A n \in Low : d <= n
    <3>1. Low \in SUBSET Nat /\ Low # {}
      BY <2>3
    <3> HIDE DEF Low
    <3> QED BY <3>1, LeastElement
  <2>5. InTable(cnt) = Above(0)
    BY DEF InTable
  <2>6. d # 0 /\ d \in Nat /\ d - 1 \in Nat
    BY <1>2, <2>5
  <2>7. d - 1 \notin Low
    BY <2>4, <2>6
  <2>8. Above(d - 1) = {x \in Key : cnt[x] >= d}
    BY <2>6
  <2>9. IsFiniteSet(Above(d - 1)) /\ Cardinality(Above(d - 1)) \in Nat
    BY SketchAssumption, FS_Subset, FS_CardinalityType
  <2>10. Cardinality({x \in Key : cnt[x] >= d}) > K
    <3>1. PICK n : n = Cardinality(Above(d - 1))
      OBVIOUS
    <3>2. ~(n <= K)
      BY <2>6, <2>7, <3>1
    <3>3. n = Cardinality({x \in Key : cnt[x] >= d})
      BY <2>8, <3>1
    <3> QED BY <2>9, <3>1, <3>2, <3>3, SketchAssumption
  <2>11. Cardinality({x \in Key : cnt[x] > d}) <= K
    BY <2>4
  <2>12. PICK x \in Key : cnt[x] = d
    <3>1. CASE \A x \in Key : cnt[x] # d
      <4>1. {x \in Key : cnt[x] >= d} = {x \in Key : cnt[x] > d}
        BY <2>6, <3>1
      <4> QED BY <2>9, <2>10, <2>11, <4>1, <2>8, SketchAssumption
    <3> QED BY <3>1
  <2>13. d \in {cnt[y] : y \in InTable(cnt)}
    BY <2>6, <2>12 DEF InTable
  <2>14. d \in Cuts(cnt)
    BY <1>2, <2>10, <2>11, <2>13 DEF Cuts
  <2> QED BY <2>14
<1> QED BY <1>1, <1>2

\* Errors add up in a merge, plus the amount cut off the joint table.
LEMMA MergeKeeps ==
  ASSUME NEW a \in SketchValue, NEW f \in [Key -> Nat], NEW e \in Nat, Sound(a, f, e),
         NEW b \in SketchValue, NEW g \in [Key -> Nat], NEW h \in Nat, Sound(b, g, h),
         NEW d \in Nat
  PROVE  LET r == MergeInto(a, b, d) IN
         /\ r \in SketchValue
         /\ r.delta = 0
         /\ Sound(r, CntSum(f, g), e + h + d)
<1> DEFINE ra == ResetDelta(a)
           rb == ResetDelta(b)
           r  == MergeInto(a, b, d)
<1>1. /\ ra \in SketchValue /\ ra.delta = 0 /\ Sound(ra, f, e)
      /\ rb \in SketchValue /\ rb.delta = 0 /\ Sound(rb, g, h)
  BY ResetDeltaKeeps
<1>2. r = [ra EXCEPT !.cnt = CutTable(CntSum(@, rb.cnt), d)]
  BY DEF MergeInto
<1> HIDE DEF ra, rb, r
<1>3. ra.cnt \in [Key -> Nat] /\ rb.cnt \in [Key -> Nat]
  BY <1>1 DEF SketchValue
<1>4. \A x \in Key : CntSum(ra.cnt, rb.cnt)[x] = ra.cnt[x] + rb.cnt[x]
  BY DEF CntSum
<1>5. \A x \in Key : CutTable(CntSum(ra.cnt, rb.cnt), d)[x] =
                       IF ra.cnt[x] + rb.cnt[x] <= d THEN 0
                       ELSE ra.cnt[x] + rb.cnt[x] - d
  <2> TAKE x \in Key
  <2> DEFINE j == CntSum(ra.cnt, rb.cnt)
  <2>1. CutTable(j, d)[x] = IF j[x] <= d THEN 0 ELSE j[x] - d
    BY DEF CutTable
  <2>2. j[x] = ra.cnt[x] + rb.cnt[x]
    BY <1>4
  <2> HIDE DEF j
  <2>3. CutTable(j, d)[x] = IF ra.cnt[x] + rb.cnt[x] <= d THEN 0
                            ELSE ra.cnt[x] + rb.cnt[x] - d
    <3>1. ra.cnt[x] \in Nat /\ rb.cnt[x] \in Nat
      BY <1>3
    <3>2. CASE j[x] <= d
      BY <2>1, <2>2, <3>1, <3>2
    <3>3. CASE ~ (j[x] <= d)
      BY <2>1, <2>2, <3>1, <3>3
    <3>4. QED
      BY <3>2, <3>3
  <2>4. QED
    BY <2>3 DEF j
<1>6. CutTable(CntSum(ra.cnt, rb.cnt), d) \in [Key -> Nat]
  <2>1. \A x \in Key : CutTable(CntSum(ra.cnt, rb.cnt), d)[x] \in Nat
    BY <1>3, <1>5
  <2>2. QED
    BY <2>1 DEF CutTable
<1>7. /\ r \in SketchValue /\ r.delta = 0
      /\ r.cnt = CutTable(CntSum(ra.cnt, rb.cnt), d)
  BY <1>1, <1>2, <1>6 DEF SketchValue
<1>8. Sound(r, CntSum(f, g), e + h + d)
  <2>1. ASSUME NEW x \in Key
        PROVE  /\ r.cnt[x] <= f[x] + g[x]
               /\ r.cnt[x] # 0 => 0 < r.cnt[x] /\ f[x] + g[x] <= r.cnt[x] + (e + h + d)
               /\ r.cnt[x] = 0 => f[x] + g[x] <= e + h + d
    <3>1. ra.cnt[x] \in Nat /\ rb.cnt[x] \in Nat /\ f[x] \in Nat /\ g[x] \in Nat
      BY <1>3
    <3>2. ra.cnt[x] <= f[x] /\ f[x] <= ra.cnt[x] + e
      BY <1>1, <3>1 DEF Sound, InTable
    <3>3. rb.cnt[x] <= g[x] /\ g[x] <= rb.cnt[x] + h
      BY <1>1, <3>1 DEF Sound, InTable
    <3>4. QED
      BY <1>5, <1>7, <3>1, <3>2, <3>3
  <2>2. \A x \in Key : CntSum(f, g)[x] = f[x] + g[x]
    BY DEF CntSum
  <2> DEFINE tot == e + h + d
  <2>3. tot \in Nat /\ 0 <= tot
    OBVIOUS
  <2>4. \A x \in Key : r.cnt[x] \in Nat /\ f[x] + g[x] \in Nat
    BY <1>7 DEF SketchValue
  <2>5. ASSUME NEW x \in Key
        PROVE  /\ r.cnt[x] <= CntSum(f, g)[x]
               /\ r.cnt[x] # 0 => 0 < r.cnt[x] /\ CntSum(f, g)[x] <= r.cnt[x] + tot - 0
               /\ r.cnt[x] = 0 => CntSum(f, g)[x] <= tot
    BY <2>1, <2>2, <2>3, <2>4
  <2> HIDE DEF tot
  <2>6. Sound(r, CntSum(f, g), tot)
    BY <1>7, <2>3, <2>5 DEF Sound, InTable
  <2>7. QED
    BY <2>6 DEF tot
<1>9. QED
  BY <1>7, <1>8 DEF r

\* A fresh object satisfies every per-object part of the invariant.
LEMMA EmptyIsSound ==
  ASSUME NEW f \in [Key -> Nat], \A x \in Key : f[x] = 0
  PROVE  EmptySketch \in SketchValue /\ Sound(EmptySketch, f, 0) /\ LazyMin(EmptySketch)
<1>1. /\ EmptySketch \in SketchValue
      /\ EmptySketch.delta = 0 /\ EmptySketch.min = NoMin
      /\ \A x \in Key : EmptySketch.cnt[x] = 0
  BY SketchAssumption DEF EmptySketch, SketchValue
<1>2. QED
  BY <1>1, SketchAssumption DEF Sound, LazyMin, InTable

-----------------------------------------------------------------------------
(* Weight.  Whatever is subtracted from the pending weight is subtracted   *)
(* from other counters too: from at least one with any weights, from K - 1 *)
(* with unit weights.  Both are one induction, over J - 1 that pay.        *)

\* Weight is charged J times where it was subtracted, once where it is held.
Mass(q, e, t, J) == J * (e - q.delta) + q.delta + Sum(q.cnt, Key) <= t

Rate(J) == J = 2 \/ J = K

-----------------------------------------------------------------------------
(* Sums of counters                                                        *)

LEMMA CountSum ==
  ASSUME NEW cnt \in [Key -> Nat]
  PROVE  /\ Sum(cnt, Key) \in Nat
         /\ InTable(cnt) \in SUBSET Key
         /\ IsFiniteSet(InTable(cnt)) /\ Cardinality(InTable(cnt)) \in Nat
<1> DEFINE none == [x \in Key |-> 0]
<1>1. IsFiniteSet(Key) /\ \A x \in Key : cnt[x] \in Int /\ 0 <= cnt[x]
  BY SketchAssumption
<1>2. /\ \A x \in Key : none[x] = IF x \in {} THEN 0 ELSE 0
      /\ \A x \in Key : none[x] \in Int /\ cnt[x] \in Int /\ none[x] <= cnt[x]
  BY <1>1
<1> HIDE DEF none
<1>3. Sum(none, Key) = 0 * Cardinality({})
  BY <1>1, <1>2, SumConstant
<1>4. Sum(none, Key) = 0
  BY <1>3, FS_EmptySet
<1>5. Sum(none, Key) <= Sum(cnt, Key)
  BY <1>1, <1>2, SumMonotonic
<1>6. Sum(cnt, Key) \in Int
  BY <1>1, SumStep
<1>7. InTable(cnt) \in SUBSET Key
  BY DEF InTable
<1>8. IsFiniteSet(InTable(cnt)) /\ Cardinality(InTable(cnt)) \in Nat
  BY <1>1, <1>7, FS_Subset, FS_CardinalityType
<1>9. QED
  BY <1>4, <1>5, <1>6, <1>7, <1>8

\* A table whose n counters of a set T each lose at least m.
LEMMA CountersPay ==
  ASSUME NEW cnt \in [Key -> Nat], NEW left \in [Key -> Nat], NEW m \in Nat,
         NEW n \in Nat, NEW T \in SUBSET Key, n <= Cardinality(T),
         \A x \in Key : left[x] <= cnt[x],
         \A x \in T : left[x] + m <= cnt[x]
  PROVE  Sum(left, Key) + n * m <= Sum(cnt, Key)
<1>1. IsFiniteSet(Key) /\ m \in Int
  BY SketchAssumption
<1>2. \A x \in Key : /\ left[x] \in Int /\ cnt[x] \in Int
                     /\ left[x] + (IF x \in T THEN m ELSE 0) <= cnt[x]
  OBVIOUS
<1>3. Sum(left, Key) + m * Cardinality(T) <= Sum(cnt, Key)
  BY ONLY <1>1, <1>2, T \in SUBSET Key, SumDrop
<1>4. Cardinality(T) \in Nat
  BY <1>1, FS_Subset, FS_CardinalityType
<1>5. \A k \in Nat : n <= k => n * m <= m * k
  OBVIOUS
<1>6. n * m <= m * Cardinality(T)
  BY <1>4, <1>5
<1>7. n * m \in Nat /\ m * Cardinality(T) \in Nat
  BY <1>4
<1>8. Sum(left, Key) \in Nat /\ Sum(cnt, Key) \in Nat
  BY CountSum
<1>9. QED
  BY <1>3, <1>6, <1>7, <1>8

\* A counter that has grown.
LEMMA CounterGrows ==
  ASSUME NEW cnt \in [Key -> Nat], NEW more \in [Key -> Nat], NEW d \in Nat,
         NEW x \in Key, Raised(more, cnt, Key, x, d)
  PROVE  Sum(more, Key) = Sum(cnt, Key) + d
<1>1. IsFiniteSet(Key) /\ d \in Int
  BY SketchAssumption
<1>2. \A y \in Key : cnt[y] \in Int
  OBVIOUS
<1>3. QED
  BY <1>1, <1>2, SumIncrement

-----------------------------------------------------------------------------
(* What the operations do to the weight                                    *)

\* One pass takes the minimum from J - 1 counters.
LEMMA PassPays ==
  ASSUME NEW q \in SketchValue, q.min <= q.delta,
         \A x \in InTable(q.cnt) : q.min <= q.cnt[x],
         NEW n \in Nat, n <= Cardinality(InTable(q.cnt))
  PROVE  Sum(SubtractMin(q).cnt, Key) + n * (q.delta - SubtractMin(q).delta)
           <= Sum(q.cnt, Key)
<1> DEFINE r == SubtractMin(q)
<1>1. /\ r \in SketchValue /\ r.delta = q.delta - q.min
      /\ \A x \in Key : r.cnt[x] = IF x \in InTable(q.cnt) THEN q.cnt[x] - q.min ELSE 0
  BY SubtractMinSpec
<1> HIDE DEF r
<1>2. /\ q.cnt \in [Key -> Nat] /\ r.cnt \in [Key -> Nat]
      /\ q.min \in Nat /\ q.delta \in Nat
  BY <1>1 DEF SketchValue
<1>3. InTable(q.cnt) \in SUBSET Key
  BY DEF InTable
<1>4. \A x \in Key : r.cnt[x] <= q.cnt[x]
  BY <1>1, <1>2
<1>5. \A x \in InTable(q.cnt) : r.cnt[x] + q.min <= q.cnt[x]
  BY <1>1, <1>2, <1>3
<1>6. Sum(r.cnt, Key) + n * q.min <= Sum(q.cnt, Key)
  BY <1>2, <1>3, <1>4, <1>5, CountersPay
<1>7. q.delta - r.delta = q.min
  BY <1>1, <1>2
<1>8. QED
  BY <1>6, <1>7 DEF r

\* A minimum that is not NoMin is a counter's, so the second pass finds one.
LEMMA PassAgainPays ==
  ASSUME NEW q \in SketchValue, q.min = MinOf(q.cnt), q.min <= q.delta, q.delta < NoMin
  PROVE  1 <= Cardinality(InTable(q.cnt))
<1> DEFINE V == {q.cnt[x] : x \in InTable(q.cnt)} \cup {NoMin}
<1>1. q.cnt \in [Key -> Nat] /\ q.min \in Nat /\ q.delta \in Nat /\ NoMin \in Nat
  BY SketchAssumption DEF SketchValue
<1>2. V \in SUBSET Nat /\ V # {}
  BY <1>1 DEF InTable
<1>3. \E m \in V : \A n \in V : m <= n
  BY <1>2, LeastElement
<1>4. MinOf(q.cnt) \in V
  BY <1>3 DEF MinOf
<1>5. InTable(q.cnt) # {}
  BY <1>1, <1>4
<1>6. QED
  BY <1>1, <1>5, CountSum, FS_EmptySet

\* The passes together.
LEMMA PassesPay ==
  ASSUME NEW J, Rate(J), NEW q \in SketchValue, q.min <= q.delta, q.delta < NoMin,
         \A x \in InTable(q.cnt) : q.min <= q.cnt[x],
         K - 1 <= Cardinality(InTable(q.cnt)),
         J # 2 => q.delta = q.min
  PROVE  /\ SubtractPasses(q).delta \in 0 .. q.delta
         /\ Sum(SubtractPasses(q).cnt, Key) + (J - 1) * (q.delta - SubtractPasses(q).delta)
              <= Sum(q.cnt, Key)
<1> DEFINE once == SubtractMin(q)
<1>0. J - 1 \in Nat /\ J - 1 <= K - 1
  BY SketchAssumption DEF Rate
<1>1. /\ once \in SketchValue /\ once.delta = q.delta - q.min /\ once.min = MinOf(once.cnt)
      /\ \A x \in InTable(once.cnt) : once.min <= once.cnt[x]
  BY SubtractMinSpec DEF SubtractMin
<1>2. /\ q.delta \in Nat /\ q.min \in Nat /\ once.delta \in Nat /\ once.min \in Nat
      /\ q.cnt \in [Key -> Nat] /\ once.cnt \in [Key -> Nat] /\ K \in Nat /\ NoMin \in Nat
  BY <1>1, SketchAssumption DEF SketchValue
<1>3. Cardinality(InTable(q.cnt)) \in Nat /\ Sum(q.cnt, Key) \in Nat /\ Sum(once.cnt, Key) \in Nat
  BY <1>2, CountSum
<1>4. Sum(once.cnt, Key) + (J - 1) * (q.delta - once.delta) <= Sum(q.cnt, Key)
  <2>1. J - 1 <= Cardinality(InTable(q.cnt))
    BY <1>0, <1>2, <1>3
  <2>2. QED
    BY <1>0, <2>1, PassPays
<1>5. CASE ~ (once.delta > 0 /\ once.delta >= once.min)
  <2>1. SubtractPasses(q) = once
    BY <1>5 DEF SubtractPasses
  <2> HIDE DEF once
  <2>2. QED
    BY <1>1, <1>2, <1>4, <2>1
<1>6. CASE once.delta > 0 /\ once.delta >= once.min
  <2> DEFINE twice == SubtractMin(once)
  <2>1. SubtractPasses(q) = twice
    BY <1>6 DEF SubtractPasses
  <2>2. J = 2
    BY <1>1, <1>2, <1>6
  <2>3. once.min <= once.delta /\ once.delta < NoMin
    BY <1>1, <1>2, <1>6
  <2> HIDE DEF once
  <2>4. 1 <= Cardinality(InTable(once.cnt))
    BY <1>1, <2>3, PassAgainPays
  <2>5. Sum(twice.cnt, Key) + 1 * (once.delta - twice.delta) <= Sum(once.cnt, Key)
    BY <1>1, <2>3, <2>4, PassPays
  <2>6. twice \in SketchValue /\ twice.delta = once.delta - once.min
    BY <1>1, <2>3, SubtractMinSpec
  <2>7. twice.cnt \in [Key -> Nat] /\ twice.delta \in Nat
    BY <2>6 DEF SketchValue
  <2>8. Sum(twice.cnt, Key) \in Nat
    BY <2>7, CountSum
  <2> HIDE DEF twice
  <2>9. QED
    BY <1>1, <1>2, <1>3, <1>4, <2>1, <2>2, <2>3, <2>5, <2>6, <2>7, <2>8
<1>7. QED
  BY <1>5, <1>6

\* update_impl keeps the balance, whichever branch it takes.
LEMMA UpdateBalances ==
  ASSUME NEW J, Rate(J), NEW q \in SketchValue, LazyMin(q),
         NEW e \in Nat, q.delta <= e, NEW t \in Nat, Mass(q, e, t, J),
         NEW x \in Key, NEW c \in Nat \ {0}, t + c < NoMin, J # 2 => c = 1
  PROVE  LET r == UpdateImpl(q, x, c)
         IN Mass(r, e + c - (r.cnt[x] - q.cnt[x]), t + c, J)
<1> DEFINE r == UpdateImpl(q, x, c)
           ee == e + c - (r.cnt[x] - q.cnt[x])
           sum == Sum(q.cnt, Key)
<1>1. /\ q.cnt \in [Key -> Nat] /\ q.delta \in Nat /\ q.min \in Nat
      /\ q.cnt[x] \in Nat /\ sum \in Nat /\ c \in Nat \ {0} /\ J \in Nat /\ 2 <= J
      /\ t + c < NoMin /\ NoMin \in Nat
  BY CountSum, SketchAssumption DEF SketchValue, Rate
<1>2. J * (e - q.delta) + q.delta + sum <= t
  BY DEF Mass
<1>3. q.delta + c < NoMin
  <2>1. e - q.delta \in Nat
    BY <1>1
  <2>2. J * (e - q.delta) \in Nat
    BY <1>1, <2>1
  <2>3. QED
    BY <1>1, <1>2, <2>2
<1>4. ASSUME NEW y \in Key
      PROVE  y \in InTable(q.cnt) <=> q.cnt[y] # 0
  BY DEF InTable
<1> HIDE DEF sum
<1> SUFFICES J * (ee - r.delta) + r.delta + Sum(r.cnt, Key) <= t + c
  BY DEF Mass
<1>5. ASSUME r.delta = q.delta, r.cnt \in [Key -> Nat],
             \A y \in Key : r.cnt[y] = IF y = x THEN q.cnt[y] + c ELSE q.cnt[y]
      PROVE  J * (ee - r.delta) + r.delta + Sum(r.cnt, Key) <= t + c
  <2>1. Sum(r.cnt, Key) = sum + c
    <3> HIDE DEF r
    <3>1. q.cnt \in [Key -> Nat] /\ c \in Nat
      BY <1>1
    <3>2. r.cnt \in [Key -> Nat] /\ Raised(r.cnt, q.cnt, Key, x, c)
      BY <1>5 DEF Raised
    <3>3. Sum(r.cnt, Key) = Sum(q.cnt, Key) + c
      BY ONLY <3>1, <3>2, x \in Key, CounterGrows
    <3>4. QED
      BY <3>3 DEF sum
  <2>2. ee = e
    BY <1>1, <1>5
  <2> HIDE DEF r, ee
  <2>3. QED
    BY <1>1, <1>2, <1>5, <2>1, <2>2
<1>6. CASE x \in InTable(q.cnt)
  <2>1. r = [q EXCEPT !.cnt = [q.cnt EXCEPT ![x] = q.cnt[x] + c]]
    BY <1>6 DEF UpdateImpl
  <2>2. r.delta = q.delta /\ r.cnt = [q.cnt EXCEPT ![x] = q.cnt[x] + c]
    BY <2>1 DEF SketchValue
  <2> HIDE DEF r
  <2>3. /\ r.cnt \in [Key -> Nat]
        /\ \A y \in Key : r.cnt[y] = IF y = x THEN q.cnt[y] + c ELSE q.cnt[y]
    BY <1>1, <2>2
  <2>4. QED
    BY <1>5, <2>2, <2>3 DEF r
<1>7. CASE x \notin InTable(q.cnt) /\ HasRoom(q.cnt)
  <2>1. r = [q EXCEPT !.cnt = [q.cnt EXCEPT ![x] = c], !.min = Lesser(c, q.min)]
    BY <1>7 DEF UpdateImpl
  <2>2. r.delta = q.delta /\ r.cnt = [q.cnt EXCEPT ![x] = c]
    BY <2>1 DEF SketchValue
  <2>3. q.cnt[x] = 0
    BY <1>4, <1>7
  <2> HIDE DEF r
  <2>4. /\ r.cnt \in [Key -> Nat]
        /\ \A y \in Key : r.cnt[y] = IF y = x THEN q.cnt[y] + c ELSE q.cnt[y]
    BY <1>1, <2>2, <2>3
  <2>5. QED
    BY <1>5, <2>2, <2>4 DEF r
<1> DEFINE p == [q EXCEPT !.delta = q.delta + c]
<1>8. /\ p \in SketchValue /\ p.cnt = q.cnt /\ p.min = q.min /\ p.delta = q.delta + c
  BY <1>1 DEF SketchValue
<1>9. CASE x \notin InTable(q.cnt) /\ ~HasRoom(q.cnt) /\ p.delta < q.min
  <2>1. r = p
    BY <1>9 DEF UpdateImpl
  <2>2. ee = e + c
    BY <1>1, <1>8, <2>1
  <2> HIDE DEF r, ee, p
  <2>3. Sum(r.cnt, Key) = sum
    BY <1>8, <2>1 DEF sum
  <2>4. ee - r.delta = e - q.delta /\ r.delta = q.delta + c
    BY <1>1, <1>8, <2>1, <2>2
  <2>5. J * (e - q.delta) \in Int
    BY <1>1
  <2>6. QED
    BY <1>1, <1>2, <2>3, <2>4, <2>5
<1>10. CASE x \notin InTable(q.cnt) /\ ~HasRoom(q.cnt) /\ ~ (p.delta < q.min)
  <2> DEFINE w == SubtractPasses(p)
  <2>1. r = InsertLeftover(w, x)
    BY <1>10 DEF UpdateImpl
  <2> HIDE DEF r, p
  <2>2. /\ p.min <= p.delta /\ p.delta < NoMin
        /\ \A y \in InTable(p.cnt) : p.min <= p.cnt[y]
        /\ K - 1 <= Cardinality(InTable(p.cnt))
    <3>1. Cardinality(InTable(q.cnt)) \in Nat /\ K \in Nat
      BY <1>1, CountSum, SketchAssumption
    <3>2. ~ (Cardinality(InTable(q.cnt)) < K - 1)
      BY <1>10 DEF HasRoom
    <3>3. QED
      BY <1>1, <1>3, <1>8, <1>10, <3>1, <3>2 DEF LazyMin
  <2>3. J # 2 => p.delta = p.min
    <3>1. q.delta < q.min
      BY DEF LazyMin
    <3>2. QED
      BY <1>1, <1>8, <1>10, <3>1
  <2>4. /\ w.delta \in 0 .. p.delta
        /\ Sum(w.cnt, Key) + (J - 1) * (p.delta - w.delta) <= Sum(p.cnt, Key)
    BY <1>8, <2>2, <2>3, PassesPay
  <2>5. w \in SketchValue /\ \A y \in Key : w.cnt[y] <= p.cnt[y]
    <3>1. /\ w \in SketchValue
          /\ \E m \in Nat : \A y \in Key :
               IF w.cnt[y] = 0 THEN p.cnt[y] <= m ELSE w.cnt[y] = p.cnt[y] - m
      BY <1>8, <2>2, SubtractPassesSpec
    <3>2. \A y \in Key : w.cnt[y] \in Nat /\ p.cnt[y] \in Nat
      BY <1>8, <3>1 DEF SketchValue
    <3> HIDE DEF w
    <3>3. QED
      BY <3>1, <3>2
  <2>6. /\ w.cnt \in [Key -> Nat] /\ w.delta \in Nat /\ w.cnt[x] = 0 /\ q.cnt[x] = 0
    <3>1. q.cnt[x] = 0
      BY <1>4, <1>10
    <3> HIDE DEF w
    <3>2. w.cnt \in [Key -> Nat] /\ w.delta \in Nat
      BY <2>5 DEF SketchValue
    <3>3. QED
      BY <1>8, <2>5, <3>1, <3>2
  <2> HIDE DEF w
  <2>7. /\ r.delta = 0 /\ r.cnt[x] = w.delta /\ r.cnt \in [Key -> Nat]
        /\ \A y \in Key : r.cnt[y] = IF y = x THEN w.cnt[y] + w.delta ELSE w.cnt[y]
    <3>1. CASE w.delta = 0
      <4>1. r = w
        BY <2>1, <3>1 DEF InsertLeftover
      <4>2. QED
        BY <2>6, <3>1, <4>1
    <3>2. CASE w.delta # 0
      <4>1. r.cnt = [w.cnt EXCEPT ![x] = w.delta] /\ r.delta = 0
        BY <2>1, <3>2 DEF InsertLeftover
      <4>2. QED
        BY <2>6, <4>1
    <3>3. QED
      BY <3>1, <3>2
  <2>8. Sum(r.cnt, Key) = Sum(w.cnt, Key) + w.delta
    BY <2>6, <2>7, CounterGrows DEF Raised
  <2>9. Sum(w.cnt, Key) \in Nat /\ Sum(p.cnt, Key) = sum
    BY <1>8, <2>6, CountSum DEF sum
  <2>10. ee = e + c - w.delta
    BY <1>1, <2>6, <2>7
  <2> DEFINE m == p.delta - w.delta
  <2>11. m \in Nat /\ w.delta = q.delta + c - m
    BY <1>1, <1>8, <2>4, <2>6
  <2>12. Sum(w.cnt, Key) + (J - 1) * m <= sum
    BY <2>4, <2>9
  <2> HIDE DEF m, ee
  <2>13. ee - r.delta = (e - q.delta) + m
    BY <1>1, <2>6, <2>7, <2>10, <2>11
  <2>14. J * ((e - q.delta) + m) = J * (e - q.delta) + (J - 1) * m + m
    BY <1>1, <2>11
  <2>15. J * (e - q.delta) \in Int /\ (J - 1) * m \in Int
    BY <1>1, <2>11
  <2>16. J * (ee - r.delta) = J * (e - q.delta) + (J - 1) * m + m
    BY <2>13, <2>14
  <2> DEFINE a == J * (e - q.delta)
             b == (J - 1) * m
             lhs == J * (ee - r.delta)
  <2>17. /\ lhs = a + b + m /\ a \in Int /\ b \in Int /\ a + q.delta + sum <= t
         /\ Sum(w.cnt, Key) + b <= sum
    BY <1>2, <2>12, <2>15, <2>16
  <2> HIDE DEF a, b, lhs
  <2>18. lhs + r.delta + Sum(r.cnt, Key) <= t + c
    BY <1>1, <2>6, <2>7, <2>8, <2>9, <2>11, <2>17
  <2>19. QED
    BY <2>18 DEF lhs
<1>11. QED
  BY <1>6, <1>7, <1>9, <1>10

\* reset_delta takes the pending weight from a full table, so it pays for
\* what it turns into error.
LEMMA ResetBalances ==
  ASSUME NEW J, Rate(J), NEW q \in SketchValue, q.delta = 0 \/ LazyMin(q),
         NEW f \in [Key -> Nat], NEW e \in Nat, Sound(q, f, e),
         NEW t \in Nat, Mass(q, e, t, J)
  PROVE  J * e + Sum(ResetDelta(q).cnt, Key) <= t
<1>1. /\ q.cnt \in [Key -> Nat] /\ q.delta \in Nat /\ J \in Nat /\ 2 <= J /\ J <= K
      /\ K \in Nat
  BY SketchAssumption DEF SketchValue, Rate
<1>2. J * (e - q.delta) + q.delta + Sum(q.cnt, Key) <= t
  BY DEF Mass
<1>3. CASE q.delta = 0
  BY <1>1, <1>2, <1>3 DEF ResetDelta
<1>4. CASE q.delta # 0
  <2> DEFINE r == ResetDelta(q)
  <2>1. r \in SketchValue
    BY ResetDeltaKeeps
  <2>2. \A x \in Key : r.cnt[x] = IF x \in InTable(q.cnt) THEN q.cnt[x] - q.delta ELSE 0
    BY <1>4 DEF ResetDelta
  <2> HIDE DEF r
  <2>3. r.cnt \in [Key -> Nat]
    BY <2>1 DEF SketchValue
  <2>4. InTable(q.cnt) \in SUBSET Key /\ Cardinality(InTable(q.cnt)) \in Nat
    BY <1>1, CountSum
  <2>5. J - 1 <= Cardinality(InTable(q.cnt)) /\ J - 1 \in Nat
    BY <1>1, <1>4, <2>4 DEF LazyMin
  <2>6. \A x \in Key : r.cnt[x] <= q.cnt[x]
    BY <1>1, <2>2
  <2>7. \A x \in InTable(q.cnt) : r.cnt[x] + q.delta <= q.cnt[x]
    BY <1>1, <2>2, <2>4
  <2>8. Sum(r.cnt, Key) + (J - 1) * q.delta <= Sum(q.cnt, Key)
    BY <1>1, <2>3, <2>4, <2>5, <2>6, <2>7, CountersPay
  <2>9. Sum(r.cnt, Key) \in Nat /\ Sum(q.cnt, Key) \in Nat
    BY <1>1, <2>3, CountSum
  <2>10. J * (e - q.delta) + q.delta = J * e - (J - 1) * q.delta
    <3>1. PICK d \in Int : d = q.delta
      BY <1>1
    <3>2. J \in Int /\ e \in Int
      BY <1>1
    <3>3. J * (e - d) = J * e - J * d
      BY ONLY <3>2, d \in Int
    <3>4. (J - 1) * d = J * d - d
      BY ONLY <3>2, d \in Int
    <3>5. J * e \in Int /\ J * d \in Int
      BY ONLY <3>2, d \in Int
    <3>6. QED
      BY ONLY <3>1, <3>3, <3>4, <3>5, d \in Int
  <2>11. J * e \in Int /\ (J - 1) * q.delta \in Int
    BY <1>1
  <2> DEFINE a == J * e
             b == (J - 1) * q.delta
  <2>12. a - b + Sum(q.cnt, Key) <= t /\ Sum(r.cnt, Key) + b <= Sum(q.cnt, Key)
    BY <1>2, <2>8, <2>10
  <2>13. a \in Int /\ b \in Int
    BY <2>11
  <2> HIDE DEF a, b
  <2>14. a + Sum(r.cnt, Key) <= t
    BY <2>9, <2>12, <2>13
  <2>15. QED
    BY <2>14 DEF a, r
<1>5. QED
  BY <1>3, <1>4

\* merge's cut is taken from more than K counters.
LEMMA CutPays ==
  ASSUME NEW J, Rate(J), NEW cnt \in [Key -> Nat], NEW d \in Cuts(cnt)
  PROVE  Sum(CutTable(cnt, d), Key) + J * d <= Sum(cnt, Key)
<1> DEFINE left == CutTable(cnt, d)
           T == {x \in Key : cnt[x] >= d}
<1>1. d \in Nat /\ J \in Nat /\ J <= K /\ K \in Nat
  BY CutsAreNat, SketchAssumption DEF Rate
<1>2. \A x \in Key : cnt[x] \in Nat /\ left[x] = IF cnt[x] <= d THEN 0 ELSE cnt[x] - d
  BY DEF CutTable
<1>3. left \in [Key -> Nat]
  <2>1. \A x \in Key : left[x] \in Nat
    BY <1>1, <1>2
  <2>2. QED
    BY <2>1 DEF CutTable
<1>4. T \in SUBSET Key /\ IsFiniteSet(T) /\ Cardinality(T) \in Nat
  BY SketchAssumption, FS_Subset, FS_CardinalityType
<1>5. \A x \in Key : left[x] <= cnt[x]
  <2> HIDE DEF left
  <2>1. QED
    BY <1>1, <1>2
<1>6. \A x \in T : left[x] + d <= cnt[x]
  <2> HIDE DEF left
  <2>1. QED
    BY <1>1, <1>2
<1>7. CASE Cardinality(InTable(cnt)) <= K
  <2>1. d = 0
    BY <1>7 DEF Cuts
  <2>2. Sum(left, Key) + 0 * 0 <= Sum(cnt, Key)
    <3> HIDE DEF left
    <3>1. {} \in SUBSET Key /\ 0 <= Cardinality({})
      BY FS_EmptySet
    <3>2. QED
      BY <1>3, <1>5, <3>1, CountersPay
  <2> HIDE DEF left
  <2>3. Sum(left, Key) \in Nat /\ J * d = 0
    BY <1>1, <1>3, <2>1, CountSum
  <2>4. QED
    BY <2>2, <2>3 DEF left
<1>8. CASE ~ (Cardinality(InTable(cnt)) <= K)
  <2>1. Cardinality(T) > K
    BY <1>8 DEF Cuts
  <2>2. J <= Cardinality(T)
    BY <1>1, <1>4, <2>1
  <2> HIDE DEF left, T
  <2>3. Sum(left, Key) + J * d <= Sum(cnt, Key)
    BY <1>1, <1>3, <1>4, <1>5, <1>6, <2>2, CountersPay
  <2>4. QED
    BY <2>3 DEF left
<1>9. QED
  BY <1>7, <1>8

\* A merge adds two balances, minus the cut.
LEMMA MergeBalances ==
  ASSUME NEW J, Rate(J),
         NEW a \in SketchValue, a.delta = 0 \/ LazyMin(a),
         NEW f \in [Key -> Nat], NEW e \in Nat, Sound(a, f, e),
         NEW t \in Nat, Mass(a, e, t, J),
         NEW b \in SketchValue, b.delta = 0 \/ LazyMin(b),
         NEW g \in [Key -> Nat], NEW h \in Nat, Sound(b, g, h),
         NEW u \in Nat, Mass(b, h, u, J),
         NEW d \in Cuts(CntSum(ResetDelta(a).cnt, ResetDelta(b).cnt))
  PROVE  /\ Mass(MergeInto(a, b, d), e + h + d, t + u, J)
         /\ Mass(ResetDelta(b), h, u, J)
<1> DEFINE ra == ResetDelta(a)
           rb == ResetDelta(b)
           joint == CntSum(ra.cnt, rb.cnt)
<1>1. ra \in SketchValue /\ rb \in SketchValue /\ ra.delta = 0 /\ rb.delta = 0
  BY ResetDeltaKeeps
<1>2. J * e + Sum(ra.cnt, Key) <= t
  BY ResetBalances
<1>3. J * h + Sum(rb.cnt, Key) <= u
  BY ResetBalances
<1>4. MergeInto(a, b, d).cnt = CutTable(joint, d) /\ MergeInto(a, b, d).delta = 0
  BY <1>1 DEF MergeInto, SketchValue
<1>5. d \in Cuts(joint)
  OBVIOUS
<1> HIDE DEF ra, rb
<1>6. ra.cnt \in [Key -> Nat] /\ rb.cnt \in [Key -> Nat]
  BY <1>1 DEF SketchValue
<1>7. /\ joint \in [Key -> Nat]
      /\ \A x \in Key : joint[x] = ra.cnt[x] + rb.cnt[x]
  BY <1>6 DEF CntSum
<1> HIDE DEF joint
<1>8. Sum(joint, Key) = Sum(ra.cnt, Key) + Sum(rb.cnt, Key)
  <2>1. \A x \in Key : /\ ra.cnt[x] \in Int /\ rb.cnt[x] \in Int
                       /\ joint[x] = ra.cnt[x] + rb.cnt[x]
    BY <1>6, <1>7
  <2>2. IsFiniteSet(Key)
    BY SketchAssumption
  <2>3. QED
    BY ONLY <2>1, <2>2, SumAdd
<1>9. d \in Nat /\ J \in Nat
  BY <1>5, <1>7, CutsAreNat, SketchAssumption DEF Rate
<1>10. Sum(CutTable(joint, d), Key) + J * d <= Sum(joint, Key)
  BY <1>5, <1>7, CutPays
<1>11. /\ Sum(ra.cnt, Key) \in Nat /\ Sum(rb.cnt, Key) \in Nat
  BY <1>6, CountSum
<1>12. Sum(CutTable(joint, d), Key) \in Int
  <2>1. \A x \in Key : CutTable(joint, d)[x] \in Int
    BY <1>7, <1>9 DEF CutTable
  <2>2. QED
    BY <2>1, SketchAssumption, SumStep
<1>13. Mass(MergeInto(a, b, d), e + h + d, t + u, J)
  <2>1. J * ((e + h + d) - 0) = J * e + J * h + J * d
    BY <1>9
  <2>2. J * e \in Int /\ J * h \in Int /\ J * d \in Int
    BY <1>9
  <2> DEFINE je == J * e
             jh == J * h
             jd == J * d
             all == J * ((e + h + d) - 0)
  <2>3. /\ all = je + jh + jd /\ je \in Int /\ jh \in Int /\ jd \in Int
        /\ je + Sum(ra.cnt, Key) <= t /\ jh + Sum(rb.cnt, Key) <= u
        /\ Sum(CutTable(joint, d), Key) + jd <= Sum(joint, Key)
    BY <1>2, <1>3, <1>10, <2>1, <2>2
  <2> HIDE DEF je, jh, jd, all
  <2>4. all + 0 + Sum(CutTable(joint, d), Key) <= t + u
    BY <1>8, <1>11, <1>12, <2>3
  <2>5. J * ((e + h + d) - 0) + 0 + Sum(CutTable(joint, d), Key) <= t + u
    BY <2>4 DEF all
  <2> DEFINE m == MergeInto(a, b, d)
  <2>6. m.cnt = CutTable(joint, d) /\ m.delta = 0
    BY <1>4
  <2> HIDE DEF m
  <2>7. Mass(m, e + h + d, t + u, J)
    BY ONLY <2>5, <2>6 DEF Mass
  <2>8. QED
    BY <2>7 DEF m
<1>14. Mass(rb, h, u, J)
  <2>1. J * (h - 0) + 0 + Sum(rb.cnt, Key) <= u
    BY <1>3, <1>9, <1>11
  <2>2. QED
    BY <1>1, <2>1 DEF Mass
<1>15. QED
  BY <1>13, <1>14 DEF rb

-----------------------------------------------------------------------------
(* The balance is an invariant                                             *)

LEMMA EmptyBalances ==
  ASSUME NEW J, Rate(J)
  PROVE  Mass(EmptySketch, 0, 0, J)
<1>1. J \in Nat /\ IsFiniteSet(Key)
  BY SketchAssumption DEF Rate
<1>2. EmptySketch.delta = 0
  BY DEF EmptySketch
<1> DEFINE f == EmptySketch.cnt
<1>3. \A x \in Key : f[x] = IF x \in {} THEN 0 ELSE 0
  BY DEF EmptySketch
<1> HIDE DEF f
<1>4. Sum(f, Key) = 0 * Cardinality({})
  BY <1>1, <1>3, SumConstant
<1>5. Sum(EmptySketch.cnt, Key) = 0
  BY <1>4, FS_EmptySet DEF f
<1>6. QED
  BY <1>1, <1>2, <1>5 DEF Mass

-----------------------------------------------------------------------------
(* The size of the table                                                   *)

LEMMA FewerCounters ==
  ASSUME NEW a \in [Key -> Nat], NEW b \in [Key -> Nat], InTable(a) \subseteq InTable(b)
  PROVE  Cardinality(InTable(a)) <= Cardinality(InTable(b))
BY CountSum, FS_Subset

\* An update with unit weight never makes a table of K - 1 counters larger:
\* the pending weight it turns into a counter would have to exceed the
\* minimum, and it only ever reaches it.
LEMMA UpdateFits ==
  ASSUME NEW q \in SketchValue, LazyMin(q),
         Cardinality(InTable(q.cnt)) <= K - 1, NEW x \in Key
  PROVE  Cardinality(InTable(UpdateImpl(q, x, 1).cnt)) <= K - 1
<1> DEFINE r == UpdateImpl(q, x, 1)
           p == [q EXCEPT !.delta = q.delta + 1]
<1>1. /\ q.cnt \in [Key -> Nat] /\ q.delta \in Nat /\ q.min \in Nat /\ K \in Nat
      /\ Cardinality(InTable(q.cnt)) \in Nat /\ IsFiniteSet(InTable(q.cnt))
  BY CountSum, SketchAssumption DEF SketchValue
<1>2. /\ p \in SketchValue /\ p.cnt = q.cnt /\ p.min = q.min /\ p.delta = q.delta + 1
  BY <1>1 DEF SketchValue
<1>3. CASE x \in InTable(q.cnt)
  <2>1. r.cnt = [q.cnt EXCEPT ![x] = q.cnt[x] + 1]
    BY <1>3 DEF UpdateImpl, SketchValue
  <2> HIDE DEF r
  <2>2. r.cnt \in [Key -> Nat] /\ InTable(r.cnt) \subseteq InTable(q.cnt)
    BY <1>1, <1>3, <2>1 DEF InTable
  <2>3. Cardinality(InTable(r.cnt)) <= Cardinality(InTable(q.cnt))
    BY <1>1, <2>2, FewerCounters
  <2>4. Cardinality(InTable(r.cnt)) \in Nat
    BY <2>2, CountSum
  <2>5. QED
    BY <1>1, <2>3, <2>4 DEF r
<1>4. CASE x \notin InTable(q.cnt) /\ HasRoom(q.cnt)
  <2>1. r.cnt = [q.cnt EXCEPT ![x] = 1]
    BY <1>4 DEF UpdateImpl, SketchValue
  <2> HIDE DEF r
  <2>2. InTable(r.cnt) = InTable(q.cnt) \cup {x}
    BY <1>1, <2>1 DEF InTable
  <2>3. Cardinality(InTable(r.cnt)) = Cardinality(InTable(q.cnt)) + 1
    BY <1>1, <1>4, <2>2, FS_AddElement
  <2>4. QED
    BY <1>1, <1>4, <2>3 DEF HasRoom, r
<1>5. CASE x \notin InTable(q.cnt) /\ ~HasRoom(q.cnt) /\ p.delta < q.min
  <2>1. r = p
    BY <1>5 DEF UpdateImpl
  <2>2. QED
    BY <1>2, <2>1
<1>6. CASE x \notin InTable(q.cnt) /\ ~HasRoom(q.cnt) /\ ~ (p.delta < q.min)
  <2> DEFINE w == SubtractPasses(p)
  <2>1. r = InsertLeftover(w, x)
    BY <1>6 DEF UpdateImpl
  <2> HIDE DEF r, p
  <2>2. p.delta = p.min /\ p.min <= p.delta /\ \A y \in InTable(p.cnt) : p.min <= p.cnt[y]
    BY <1>1, <1>2, <1>6 DEF LazyMin
  <2>3. /\ w \in SketchValue
        /\ \E m \in Nat : /\ p.min <= m /\ w.delta = p.delta - m
                         /\ \A y \in Key : IF w.cnt[y] = 0 THEN p.cnt[y] <= m
                                           ELSE w.cnt[y] = p.cnt[y] - m
    BY <1>2, <2>2, SubtractPassesSpec
  <2> HIDE DEF w
  <2>4. w.cnt \in [Key -> Nat] /\ w.delta \in Nat /\ p.min \in Nat
    BY <1>1, <1>2, <2>3 DEF SketchValue
  <2>5. w.delta = 0
    BY <2>2, <2>3, <2>4
  <2>6. r = w
    BY <2>1, <2>5 DEF InsertLeftover
  <2>7. InTable(w.cnt) \subseteq InTable(q.cnt)
    <3>1. \A y \in Key : w.cnt[y] # 0 => q.cnt[y] # 0
      BY <1>1, <1>2, <2>3, <2>4
    <3>2. QED
      BY <3>1 DEF InTable
  <2>8. Cardinality(InTable(w.cnt)) <= Cardinality(InTable(q.cnt))
    BY <1>1, <2>4, <2>7, FewerCounters
  <2>9. Cardinality(InTable(w.cnt)) \in Nat
    BY <2>4, CountSum
  <2>10. QED
    BY <1>1, <2>6, <2>8, <2>9 DEF r
<1>7. QED
  BY <1>3, <1>4, <1>5, <1>6

\* reset_delta only removes counters, and merge's cut leaves at most K.
LEMMA MergeFits ==
  ASSUME NEW a \in SketchValue, NEW f \in [Key -> Nat], NEW e \in Nat, Sound(a, f, e),
         NEW b \in SketchValue, NEW g \in [Key -> Nat], NEW h \in Nat, Sound(b, g, h),
         NEW d \in Cuts(CntSum(ResetDelta(a).cnt, ResetDelta(b).cnt))
  PROVE  /\ Cardinality(InTable(MergeInto(a, b, d).cnt)) <= K
         /\ Cardinality(InTable(ResetDelta(b).cnt)) <= Cardinality(InTable(b.cnt))
<1> DEFINE ra == ResetDelta(a)
           rb == ResetDelta(b)
           joint == CntSum(ra.cnt, rb.cnt)
           left == CutTable(joint, d)
<1>1. ra \in SketchValue /\ rb \in SketchValue
  BY ResetDeltaKeeps
<1>2. MergeInto(a, b, d).cnt = left
  BY <1>1 DEF MergeInto, SketchValue
<1>3. d \in Cuts(joint)
  OBVIOUS
<1>4. InTable(rb.cnt) \subseteq InTable(b.cnt)
  BY DEF ResetDelta, InTable
<1> HIDE DEF ra, rb
<1>5. ra.cnt \in [Key -> Nat] /\ rb.cnt \in [Key -> Nat] /\ b.cnt \in [Key -> Nat]
  BY <1>1 DEF SketchValue
<1>6. joint \in [Key -> Nat]
  BY <1>5 DEF CntSum
<1> HIDE DEF joint
<1>7. d \in Nat /\ K \in Nat
  BY <1>3, <1>6, CutsAreNat, SketchAssumption
<1>8. /\ left \in [Key -> Nat]
      /\ InTable(left) = {x \in Key : joint[x] > d}
  <2>1. \A x \in Key : /\ left[x] = IF joint[x] <= d THEN 0 ELSE joint[x] - d
                       /\ joint[x] \in Nat
    BY <1>6 DEF CutTable
  <2>2. \A x \in Key : left[x] \in Nat /\ (left[x] # 0 <=> joint[x] > d)
    <3> HIDE DEF left
    <3>1. QED
      BY <1>7, <2>1
  <2>3. left \in [Key -> Nat]
    BY <2>2 DEF CutTable
  <2>4. QED
    BY <2>2, <2>3 DEF InTable
<1> HIDE DEF left
<1>9. Cardinality(InTable(left)) <= K
  <2>1. CASE Cardinality(InTable(joint)) <= K
    <3>1. d = 0
      BY <1>3, <2>1 DEF Cuts
    <3>2. InTable(left) \subseteq InTable(joint)
      BY <1>6, <1>8, <3>1 DEF InTable
    <3>3. Cardinality(InTable(left)) <= Cardinality(InTable(joint))
      BY <1>6, <1>8, <3>2, FewerCounters
    <3>4. Cardinality(InTable(left)) \in Nat /\ Cardinality(InTable(joint)) \in Nat
      BY <1>6, <1>8, CountSum
    <3>5. QED
      BY <1>7, <2>1, <3>3, <3>4
  <2>2. CASE ~ (Cardinality(InTable(joint)) <= K)
    BY <1>3, <1>8, <2>2 DEF Cuts
  <2>3. QED
    BY <2>1, <2>2
<1>10. Cardinality(InTable(rb.cnt)) <= Cardinality(InTable(b.cnt))
  BY <1>4, <1>5, FewerCounters
<1>11. QED
  BY <1>2, <1>9, <1>10 DEF rb

\* An update takes the same amount from every counter it leaves in the table:
\* what it charges, which is nothing when the key has a counter.
LEMMA UpdateTakes ==
  ASSUME NEW q \in SketchValue, LazyMin(q), NEW x \in Key, NEW c \in Nat \ {0}
  PROVE  LET r == UpdateImpl(q, x, c)
             s == q.cnt[x] + c - r.cnt[x] + q.delta - r.delta
         IN /\ r \in SketchValue /\ s \in Nat
            /\ \A y \in InTable(r.cnt) : y # x => y \in InTable(q.cnt) /\ r.cnt[y] = q.cnt[y] - s
            /\ x \in InTable(q.cnt) =>
                 s = 0 /\ r.cnt[x] = q.cnt[x] + c /\ InTable(r.cnt) = InTable(q.cnt)
<1>1. PICK r : r = UpdateImpl(q, x, c)
  OBVIOUS
<1>2. /\ q.cnt \in [Key -> Nat] /\ q.min \in Nat /\ q.delta \in Nat
      /\ q = [cnt |-> q.cnt, min |-> q.min, delta |-> q.delta]
  BY DEF SketchValue
<1>3. \A y : y \in InTable(q.cnt) <=> y \in Key /\ q.cnt[y] # 0
  BY DEF InTable
<1>4. CASE x \in InTable(q.cnt)
  <2>1. r = [q EXCEPT !.cnt[x] = @ + c]
    BY <1>1, <1>4 DEF UpdateImpl
  <2>2. r.cnt = [q.cnt EXCEPT ![x] = @ + c] /\ r.min = q.min /\ r.delta = q.delta
    BY <1>2, <2>1
  <2>3. r \in SketchValue
    BY <1>2, <2>1, <2>2 DEF SketchValue
  <2>4. r.cnt[x] = q.cnt[x] + c /\ \A y \in Key : y # x => r.cnt[y] = q.cnt[y]
    BY <1>2, <2>2
  <2>5. q.cnt[x] + c - r.cnt[x] + q.delta - r.delta = 0
    BY <1>2, <2>2, <2>4
  <2>6. \A y \in Key : r.cnt[y] # 0 <=> q.cnt[y] # 0
    BY <1>2, <1>3, <1>4, <2>4
  <2>7. InTable(r.cnt) = InTable(q.cnt)
    BY <2>6 DEF InTable
  <2>8. \A y \in InTable(r.cnt) : y # x => y \in InTable(q.cnt) /\ r.cnt[y] = q.cnt[y] - 0
    BY <1>2, <1>3, <2>4, <2>7
  <2>9. QED
    BY <1>1, <2>3, <2>4, <2>5, <2>7, <2>8
<1>5. CASE x \notin InTable(q.cnt)
  <2>1. q.cnt[x] = 0
    BY <1>2, <1>3, <1>5
  <2>2. SUFFICES /\ r \in SketchValue
                 /\ \E s \in Nat :
                      /\ s = c - r.cnt[x] + q.delta - r.delta
                      /\ \A y \in Key : y # x /\ r.cnt[y] # 0 =>
                           q.cnt[y] # 0 /\ r.cnt[y] = q.cnt[y] - s
    <3>1. PICK s \in Nat :
            /\ r \in SketchValue
            /\ s = c - r.cnt[x] + q.delta - r.delta
            /\ \A y \in Key : y # x /\ r.cnt[y] # 0 => q.cnt[y] # 0 /\ r.cnt[y] = q.cnt[y] - s
      BY <2>2
    <3>2. r.cnt[x] \in Nat /\ r.delta \in Nat
      BY <3>1 DEF SketchValue
    <3>3. s = q.cnt[x] + c - r.cnt[x] + q.delta - r.delta
      BY <1>2, <2>1, <3>1, <3>2
    <3>4. \A y \in InTable(r.cnt) : y \in Key /\ r.cnt[y] # 0
      BY DEF InTable
    <3>5. QED
      BY <1>1, <1>3, <1>5, <3>1, <3>3, <3>4
  <2>3. CASE HasRoom(q.cnt)
    <3>1. r = [q EXCEPT !.cnt[x] = c, !.min = Lesser(c, @)]
      BY <1>1, <1>5, <2>3 DEF UpdateImpl
    <3>2. /\ r = [cnt |-> r.cnt, min |-> r.min, delta |-> q.delta] /\ r.delta = q.delta
          /\ r.cnt = [q.cnt EXCEPT ![x] = c] /\ r.min = Lesser(c, q.min)
      BY <1>2, <3>1
    <3>3. r \in SketchValue
      BY <1>2, <3>2 DEF SketchValue, Lesser
    <3>4. r.cnt[x] = c /\ \A y \in Key : y # x => r.cnt[y] = q.cnt[y]
      BY <1>2, <3>2
    <3>5. 0 = c - r.cnt[x] + q.delta - r.delta
      BY <1>2, <3>2, <3>4
    <3>6. QED
      BY <1>2, <3>3, <3>4, <3>5
  <2>4. PICK p : p = [q EXCEPT !.delta = @ + c]
    OBVIOUS
  <2>5. /\ p \in SketchValue /\ p.cnt = q.cnt /\ p.min = q.min /\ p.delta = q.delta + c
    BY <1>2, <2>4 DEF SketchValue
  <2>6. CASE ~HasRoom(q.cnt) /\ p.delta < q.min
    <3>1. r = p
      BY <1>1, <1>5, <2>4, <2>6 DEF UpdateImpl
    <3>2. 0 = c - r.cnt[x] + q.delta - r.delta
      BY <1>2, <2>1, <2>5, <3>1
    <3>3. QED
      BY <1>2, <2>5, <3>1, <3>2
  <2>7. CASE ~HasRoom(q.cnt) /\ ~(p.delta < q.min)
    <3>1. PICK w : w = SubtractPasses(p)
      OBVIOUS
    <3>2. r = InsertLeftover(w, x)
      BY <1>1, <1>5, <2>4, <2>7, <3>1 DEF UpdateImpl
    <3>3. p.min <= p.delta
      BY <1>2, <2>5, <2>7
    <3>4. \A y \in InTable(p.cnt) : p.min <= p.cnt[y]
      BY <2>5 DEF LazyMin
    <3>5. /\ w \in SketchValue
          /\ \E m \in Nat :
               /\ p.min <= m
               /\ w.delta = p.delta - m
               /\ \A y \in Key : IF w.cnt[y] = 0 THEN p.cnt[y] <= m ELSE w.cnt[y] = p.cnt[y] - m
      BY <2>5, <3>1, <3>3, <3>4, SubtractPassesSpec
    <3>6. PICK m \in Nat :
            /\ w.delta = p.delta - m
            /\ \A y \in Key : IF w.cnt[y] = 0 THEN p.cnt[y] <= m ELSE w.cnt[y] = p.cnt[y] - m
      BY <3>5
    <3>7. /\ w.cnt \in [Key -> Nat] /\ w.min \in Nat /\ w.delta \in Nat
          /\ w = [cnt |-> w.cnt, min |-> w.min, delta |-> w.delta]
      BY <3>5 DEF SketchValue
    <3>8. w.delta = q.delta + c - m
      <4>1. PICK d : d = p.delta
        OBVIOUS
      <4>2. w.delta = d - m
        BY <3>6, <4>1
      <4>3. d = q.delta + c
        BY <2>5, <4>1
      <4>4. d \in Int /\ w.delta \in Int /\ q.delta \in Int
        BY <1>2, <3>7, <4>3
      <4>5. QED
        BY <4>2, <4>3, <4>4
    <3>9. w.cnt[x] = 0
      <4>1. w.cnt[x] \in Nat
        BY <3>7
      <4>2. w.cnt[x] # 0 => w.cnt[x] = p.cnt[x] - m
        BY <3>6
      <4>3. p.cnt[x] = 0
        BY <2>1, <2>5
      <4>4. QED
        BY <4>1, <4>2, <4>3
    <3>10. \A y \in Key : w.cnt[y] # 0 => q.cnt[y] # 0 /\ w.cnt[y] = q.cnt[y] - m
      <4>1. SUFFICES ASSUME NEW y \in Key, w.cnt[y] # 0
                     PROVE  q.cnt[y] # 0 /\ w.cnt[y] = q.cnt[y] - m
        OBVIOUS
      <4>2. w.cnt[y] = q.cnt[y] - m /\ w.cnt[y] \in Nat /\ q.cnt[y] \in Nat
        BY <1>2, <2>5, <3>6, <3>7, <4>1
      <4>3. QED
        BY <4>1, <4>2
    <3>11. CASE w.delta = 0
      <4>1. r = w
        BY <3>2, <3>11 DEF InsertLeftover
      <4>2. m = c - r.cnt[x] + q.delta - r.delta
        BY <1>2, <3>8, <3>9, <3>11, <4>1
      <4>3. QED
        BY <3>5, <3>10, <4>1, <4>2
    <3>12. CASE w.delta # 0
      <4>1. r = [cnt |-> [w.cnt EXCEPT ![x] = w.delta], min |-> Lesser(w.delta, w.min), delta |-> 0]
        BY <3>2, <3>12 DEF InsertLeftover
      <4>2. r.cnt = [w.cnt EXCEPT ![x] = w.delta] /\ r.delta = 0
        BY <4>1
      <4>3. r \in SketchValue
        BY <3>7, <4>1 DEF SketchValue, Lesser
      <4>4. r.cnt[x] = w.delta /\ \A y \in Key : y # x => r.cnt[y] = w.cnt[y]
        BY <3>7, <4>2
      <4>5. m = c - r.cnt[x] + q.delta - r.delta
        BY <1>2, <3>7, <3>8, <4>2, <4>4
      <4>6. QED
        BY <3>10, <4>3, <4>4, <4>5
    <3>13. QED
      BY <3>11, <3>12
  <2>8. QED
    BY <2>3, <2>6, <2>7
<1>6. QED
  BY <1>4, <1>5
=============================================================================
