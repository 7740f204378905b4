----------------------------- MODULE MisraGries -----------------------------
(***************************************************************************)
(* A collection of MisraGries objects under every public operation of the  *)
(* class: update, merge, clone (and copy assignment) and clear.  Objects   *)
(* that absorbed another one are not updated again, as in the program: the *)
(* tree sketches merge clones and finished tree nodes only.                *)
(***************************************************************************)
EXTENDS MGSketch, Functions

CONSTANTS
  Sketch,     \* the objects
  Weights,    \* the weights an update may carry (the driver always passes 1)
  MaxTotal    \* bound on the weight one object has seen

ASSUME StreamAssumption ==
  /\ Weights \subseteq Nat \ {0}     \* assert(cnt > 0)
  /\ MaxTotal \in Nat
  /\ MaxTotal < NoMin                \* 64-bit counters do not overflow

VARIABLES
  sk,       \* sk[s]: the object's m_cnt, m_min_cnt, m_delta
  merged,   \* the objects that absorbed another one and are read-only now
  total,    \* total[s]: the weight seen (m_tot_cnt of the object's owner)
  exact,    \* history: exact[s][x] is the true count of x
  err       \* history: weight s declined to credit to the item it came with

vars == <<sk, merged, total, exact, err>>

NoCounts == [x \in Key |-> 0]

Init ==
  /\ sk = [s \in Sketch |-> EmptySketch]
  /\ merged = {}
  /\ total = [s \in Sketch |-> 0]
  /\ exact = [s \in Sketch |-> NoCounts]
  /\ err = [s \in Sketch |-> 0]

Update(s, x, c) ==
  /\ s \notin merged
  /\ total[s] + c <= MaxTotal
  /\ sk' = [sk EXCEPT ![s] = UpdateImpl(@, x, c)]
  /\ total' = [total EXCEPT ![s] = @ + c]
  /\ exact' = [exact EXCEPT ![s][x] = @ + c]
  /\ err' = [err EXCEPT ![s] = @ + c - (sk'[s].cnt[x] - sk[s].cnt[x])]
  /\ UNCHANGED merged

\* s.merge(t): t's pending delta is settled too, even when t lives on.
Merge(s, t) ==
  /\ s # t
  /\ total[s] + total[t] <= MaxTotal
  /\ \E d \in Cuts(CntSum(ResetDelta(sk[s]).cnt, ResetDelta(sk[t]).cnt)) :
       /\ sk' = [sk EXCEPT ![s] = MergeInto(sk[s], sk[t], d), ![t] = ResetDelta(@)]
       /\ err' = [err EXCEPT ![s] = @ + err[t] + d]
  /\ merged' = merged \cup {s}
  /\ total' = [total EXCEPT ![s] = @ + total[t]]
  /\ exact' = [exact EXCEPT ![s] = CntSum(@, exact[t])]

\* t = s.clone(), or *t = *s.
Clone(s, t) ==
  /\ s # t
  /\ sk' = [sk EXCEPT ![t] = sk[s]]
  /\ merged' = IF s \in merged THEN merged \cup {t} ELSE merged \ {t}
  /\ total' = [total EXCEPT ![t] = total[s]]
  /\ exact' = [exact EXCEPT ![t] = exact[s]]
  /\ err' = [err EXCEPT ![t] = err[s]]

Clear(s) ==
  /\ sk' = [sk EXCEPT ![s] = EmptySketch]
  /\ merged' = merged \ {s}
  /\ total' = [total EXCEPT ![s] = 0]
  /\ exact' = [exact EXCEPT ![s] = NoCounts]
  /\ err' = [err EXCEPT ![s] = 0]

Next ==
  \/ \E s \in Sketch, x \in Key, c \in Weights : Update(s, x, c)
  \/ \E s, t \in Sketch : Merge(s, t)
  \/ \E s, t \in Sketch : Clone(s, t)
  \/ \E s \in Sketch : Clear(s)

Spec == Init /\ [][Next]_vars

-----------------------------------------------------------------------------
(* Properties                                                              *)

\* Every field has its type: in particular no unsigned counter, no minimum
\* and no pending weight ever goes below zero (it would wrap around in C++).
TypeOK ==
  /\ sk \in [Sketch -> SketchValue]
  /\ merged \subseteq Sketch
  /\ total \in [Sketch -> Nat]
  /\ exact \in [Sketch -> [Key -> Nat]]
  /\ err \in [Sketch -> Nat]

\* No estimate is above the true count, and none is short of it by more than
\* the weight its object declined to credit.
EstimateSound == \A s \in Sketch : Sound(sk[s], exact[s], err[s])

\* m_min_cnt and m_delta keep to what the asserts of update_impl say, in every
\* object that can still be updated.
LazyMinSound == \A s \in Sketch \ merged : LazyMin(sk[s])

\* Where the weight went: what is still in counters, plus what is pending,
\* plus twice what was subtracted, never exceeds what came in, because each
\* subtraction takes the same amount from the new item and from at least one
\* counter.  Hence an item with more than half of the weight is never lost,
\* through any mix of updates and merges.
MassAccounted ==
  \A s \in Sketch :
    2 * err[s] - sk[s].delta + SumFunction(sk[s].cnt) <= total[s]

\* The accuracy heavy-hitter queries rely on (their threshold is lowered by
\* m_eps = 1/K): no count is short by more than total/K.
EpsBound ==
  \A s \in Sketch, x \in Key : K * (exact[s][x] - sk[s].cnt[x]) <= total[s]

\* The table never outgrows what the class provides for: K - 1 counters
\* while it is updated, K after a merge.
TableFits ==
  \A s \in Sketch :
    Cardinality(InTable(sk[s].cnt)) <= IF s \in merged THEN K ELSE K - 1

Summary == INSTANCE FrequencySummary WITH
  f <- exact,
  est <- [s \in Sketch |-> sk[s].cnt],
  err <- err

\* The collection behaves as the abstract frequency summaries.
SummarySpec == Summary!Spec
=============================================================================
