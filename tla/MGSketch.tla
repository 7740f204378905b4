------------------------------ MODULE MGSketch ------------------------------
(***************************************************************************)
(* The Misra-Gries sketch of misra_gries.{h,cpp} as operators on a value.  *)
(*                                                                         *)
(* A sketch is a record with the three fields the algorithm changes:       *)
(*   cnt    m_cnt, the counter table, as a total function: a key that is   *)
(*          not in the table has count 0 (the code never stores a 0);      *)
(*   min    m_min_cnt, a lazily maintained lower bound of the counters,    *)
(*          NoMin (the code's ~0ul) when the table is empty;               *)
(*   delta  m_delta, weight that was taken from keys outside the table and *)
(*          is not subtracted from the counters yet.                       *)
(*                                                                         *)
(* The build modelled is the default one (-DNDEBUG): the assertions of the *)
(* code are not guards here, they are properties of module MisraGries.     *)
(***************************************************************************)
EXTENDS Integers, FiniteSets

CONSTANTS
  Key,    \* the stream's items (uint32_t in the code)
  K,      \* m_k: the table is meant to hold at most K - 1 counters
  NoMin   \* ~0ul, larger than any weight the sketch ever sees

ASSUME SketchAssumption ==
  /\ IsFiniteSet(Key)
  /\ K \in Nat /\ K >= 2          \* MisraGries(double) takes max(.., 2u)
  /\ NoMin \in Nat \ {0}

SketchValue == [cnt : [Key -> Nat], min : Nat, delta : Nat]

EmptySketch == [cnt |-> [x \in Key |-> 0], min |-> NoMin, delta |-> 0]

InTable(cnt) == {x \in Key : cnt[x] # 0}

Lesser(a, b) == IF a < b THEN a ELSE b

\* The smallest counter of a table, NoMin if it is empty: what the loops of
\* update_impl and reset_delta leave in new_min_cnt / m_min_cnt.
MinOf(cnt) ==
  LET V == {cnt[x] : x \in InTable(cnt)} \cup {NoMin}
  IN CHOOSE m \in V : \A n \in V : m <= n

-----------------------------------------------------------------------------
(* update_impl                                                             *)

\* Room for another counter (l.72).  The two variants are the off-by-one
\* slips the properties have to notice.
HasRoomForOneMore(cnt) == Cardinality(InTable(cnt)) < K
HasRoomOneTooFew(cnt) == Cardinality(InTable(cnt)) < K - 2

HasRoom(cnt) == Cardinality(InTable(cnt)) < K - 1

\* Variant: a pass that forgets to take min off the pending weight.
SubtractMinKeepsDelta(sk) ==
  LET left == [x \in Key |-> IF x \in InTable(sk.cnt)
                             THEN sk.cnt[x] - sk.min ELSE 0]
  IN [cnt |-> left, min |-> MinOf(left), delta |-> sk.delta]

\* One pass over the table: subtract min from every counter, erase those
\* that reach 0, recompute min, and take min off the pending weight.
SubtractMin(sk) ==
  LET left == [x \in Key |-> IF x \in InTable(sk.cnt)
                             THEN sk.cnt[x] - sk.min ELSE 0]
  IN [cnt |-> left, min |-> MinOf(left), delta |-> sk.delta - sk.min]

\* Variant: the second pass does not look at the recomputed minimum.
SubtractPassesUnguarded(sk) ==
  LET once == SubtractMin(sk)
  IN IF once.delta > 0 THEN SubtractMin(once) ELSE once

\* The first pass, and the second one when pending weight is left that the
\* recomputed min does not exceed (whether or not a spot was vacated).
SubtractPasses(sk) ==
  LET once == SubtractMin(sk)
  IN IF once.delta > 0 /\ once.delta >= once.min THEN SubtractMin(once) ELSE once

\* Variant: the new counter does not lower m_min_cnt.
InsertLeftoverKeepsMin(sk, x) ==
  IF sk.delta = 0 THEN sk
  ELSE [sk EXCEPT !.cnt[x] = sk.delta, !.delta = 0]

\* What is left of the pending weight becomes the counter of x; the code
\* does not look at the size of the table here.
InsertLeftover(sk, x) ==
  IF sk.delta = 0 THEN sk
  ELSE [cnt   |-> [sk.cnt EXCEPT ![x] = sk.delta],
        min   |-> Lesser(sk.delta, sk.min),
        delta |-> 0]

UpdateImpl(sk, x, c) ==
  LET pending == [sk EXCEPT !.delta = @ + c]
  IN CASE x \in InTable(sk.cnt) -> [sk EXCEPT !.cnt[x] = @ + c]
       [] x \notin InTable(sk.cnt) /\ HasRoom(sk.cnt) ->
            [sk EXCEPT !.cnt[x] = c, !.min = Lesser(c, @)]
       [] x \notin InTable(sk.cnt) /\ ~HasRoom(sk.cnt) /\ pending.delta < sk.min ->
            pending
       [] OTHER -> InsertLeftover(SubtractPasses(pending), x)

-----------------------------------------------------------------------------
(* reset_delta and merge                                                   *)

\* Variants: the pending weight is forgotten instead of subtracted; the
\* wrong field is subtracted.
ResetDeltaForgets(sk) == [sk EXCEPT !.delta = 0]
ResetDeltaTakesMin(sk) ==
  IF sk.delta = 0 THEN sk
  ELSE LET left == [x \in Key |-> IF x \in InTable(sk.cnt)
                                  THEN sk.cnt[x] - sk.min ELSE 0]
       IN [cnt |-> left, min |-> MinOf(left), delta |-> 0]

ResetDelta(sk) ==
  IF sk.delta = 0 THEN sk     \* the callers test m_delta != 0
  ELSE LET left == [x \in Key |-> IF x \in InTable(sk.cnt)
                                  THEN sk.cnt[x] - sk.delta ELSE 0]
       IN [cnt |-> left, min |-> MinOf(left), delta |-> 0]

CntSum(a, b) == [x \in Key |-> a[x] + b[x]]

\* merge's delta: 0 when the joint table has at most K counters, else the
\* (K+1)-th largest counter (nth_element at index m_k, descending).
Cuts(cnt) ==
  IF Cardinality(InTable(cnt)) <= K THEN {0}
  ELSE {d \in {cnt[x] : x \in InTable(cnt)} :
          /\ Cardinality({x \in Key : cnt[x] > d}) <= K
          /\ Cardinality({x \in Key : cnt[x] >= d}) > K}

\* Counters up to the cut d are erased, the others lose d; m_min_cnt keeps
\* the value it had.
CutTable(cnt, d) == [x \in Key |-> IF cnt[x] <= d THEN 0 ELSE cnt[x] - d]

MergeInto(sk, other, d) ==
  LET mine == ResetDelta(sk)
  IN [mine EXCEPT !.cnt = CutTable(CntSum(@, ResetDelta(other).cnt), d)]

-----------------------------------------------------------------------------
(* What a sketch has to satisfy                                            *)

\* The estimate of a key is never above its true count, and short of it by
\* no more than the weight the sketch declined to credit; a counter in the
\* table is moreover larger than the pending delta (assert in reset_delta),
\* so settling the delta never erases a key.
Sound(q, f, e) ==
  /\ q.delta <= e
  /\ \A x \in Key :
       /\ q.cnt[x] <= f[x]
       /\ x \in InTable(q.cnt) => q.delta < q.cnt[x] /\ f[x] <= q.cnt[x] + e - q.delta
       /\ x \notin InTable(q.cnt) => f[x] <= e

\* The laziness of m_min_cnt is safe in an object that can still be updated:
\* it exceeds m_delta, is a lower bound of every counter, and weight is held
\* back only while the table is full (the asserts of update_impl on entry,
\* on insertion and in both passes).
LazyMin(q) ==
  /\ q.delta < q.min
  /\ \A x \in InTable(q.cnt) : q.min <= q.cnt[x]
  /\ q.delta > 0 => Cardinality(InTable(q.cnt)) >= K - 1
=============================================================================
