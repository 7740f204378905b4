-------------------------- MODULE MisraGriesProofs --------------------------
(***************************************************************************)
(* Proofs about MisraGries for every key set, capacity, set of weights and *)
(* collection of objects.  The inductive invariant is the conjunction of   *)
(* TypeOK, EstimateSound, LazyMinSound and "a merged object holds no       *)
(* pending delta"; none of the four is inductive without the others.       *)
(***************************************************************************)
EXTENDS MisraGries, MGSketchProofs

MergedSettled == \A s \in merged : sk[s].delta = 0

IInv == TypeOK /\ EstimateSound /\ LazyMinSound /\ MergedSettled

-----------------------------------------------------------------------------
(* The inductive invariant                                                 *)

LEMMA InitIInv == Init => IInv
<1> SUFFICES ASSUME Init PROVE IInv
  OBVIOUS
<1>1. \A s \in Sketch : sk[s] = EmptySketch /\ exact[s] = NoCounts /\ err[s] = 0
  BY DEF Init
<1>2. /\ EmptySketch \in SketchValue /\ NoCounts \in [Key -> Nat]
      /\ EmptySketch.delta = 0 /\ EmptySketch.min = NoMin
      /\ \A x \in Key : EmptySketch.cnt[x] = 0 /\ NoCounts[x] = 0
  BY SketchAssumption DEF EmptySketch, SketchValue, NoCounts
<1>3. TypeOK
  BY <1>1, <1>2 DEF Init, TypeOK
<1>4. EstimateSound
  BY <1>1, <1>2 DEF EstimateSound, Sound, InTable
<1>5. LazyMinSound
  BY <1>1, <1>2, SketchAssumption DEF LazyMinSound, LazyMin, InTable
<1>6. MergedSettled
  BY DEF Init, MergedSettled
<1>7. QED
  BY <1>3, <1>4, <1>5, <1>6 DEF IInv

LEMMA UpdateStep ==
  ASSUME IInv, NEW s \in Sketch, NEW x \in Key, NEW c \in Weights, Update(s, x, c)
  PROVE  IInv'
<1>1. /\ sk[s] \in SketchValue /\ exact[s] \in [Key -> Nat] /\ err[s] \in Nat
      /\ Sound(sk[s], exact[s], err[s]) /\ LazyMin(sk[s]) /\ c \in Nat \ {0}
      /\ total[s] \in Nat /\ s \notin merged
  BY StreamAssumption DEF IInv, TypeOK, EstimateSound, LazyMinSound, Update
<1> DEFINE r  == UpdateImpl(sk[s], x, c)
           ff == [exact[s] EXCEPT ![x] = @ + c]
           ee == err[s] + c - (r.cnt[x] - sk[s].cnt[x])
<1>2. r \in SketchValue /\ ee \in Nat /\ Sound(r, ff, ee) /\ LazyMin(r)
  BY <1>1, UpdateKeeps
<1>3. ff \in [Key -> Nat]
  BY <1>1
<1>4. /\ sk' = [sk EXCEPT ![s] = r]
      /\ total' = [total EXCEPT ![s] = @ + c]
      /\ exact' = [exact EXCEPT ![s] = ff]
      /\ merged' = merged
  BY DEF Update
<1>5. sk'[s] = r
  BY <1>4 DEF IInv, TypeOK
<1>6. err' = [err EXCEPT ![s] = ee]
  BY <1>5 DEF Update
<1> HIDE DEF r, ff, ee
<1>7. \A t \in Sketch : /\ sk'[t] = IF t = s THEN r ELSE sk[t]
                        /\ exact'[t] = IF t = s THEN ff ELSE exact[t]
                        /\ err'[t] = IF t = s THEN ee ELSE err[t]
  BY <1>4, <1>6 DEF IInv, TypeOK
<1>8. TypeOK'
  BY <1>1, <1>2, <1>3, <1>4, <1>6 DEF IInv, TypeOK
<1>9. EstimateSound'
  BY <1>2, <1>7 DEF IInv, EstimateSound
<1>10. LazyMinSound'
  BY <1>2, <1>4, <1>7 DEF IInv, LazyMinSound
<1>11. MergedSettled'
  BY <1>1, <1>4, <1>7 DEF IInv, TypeOK, MergedSettled
<1>12. QED
  BY <1>8, <1>9, <1>10, <1>11 DEF IInv

LEMMA MergeStep ==
  ASSUME IInv, NEW s \in Sketch, NEW t \in Sketch, Merge(s, t)
  PROVE  IInv'
<1> DEFINE a == sk[s]
           b == sk[t]
<1>1. /\ a \in SketchValue /\ exact[s] \in [Key -> Nat] /\ err[s] \in Nat
      /\ b \in SketchValue /\ exact[t] \in [Key -> Nat] /\ err[t] \in Nat
      /\ Sound(a, exact[s], err[s]) /\ Sound(b, exact[t], err[t])
      /\ total[s] \in Nat /\ total[t] \in Nat /\ s # t
      /\ t \notin merged => LazyMin(b)
  BY DEF IInv, TypeOK, EstimateSound, LazyMinSound, Merge
<1>2. PICK d \in Cuts(CntSum(ResetDelta(a).cnt, ResetDelta(b).cnt)) :
        /\ sk' = [sk EXCEPT ![s] = MergeInto(a, b, d), ![t] = ResetDelta(@)]
        /\ err' = [err EXCEPT ![s] = @ + err[t] + d]
  BY DEF Merge
<1>3. ResetDelta(a) \in SketchValue
  BY <1>1, ResetDeltaKeeps
<1>4. /\ ResetDelta(b) \in SketchValue /\ ResetDelta(b).delta = 0
      /\ Sound(ResetDelta(b), exact[t], err[t])
      /\ LazyMin(b) => LazyMin(ResetDelta(b))
  BY <1>1, ResetDeltaKeeps
<1>5. d \in Nat
  <2>1. CntSum(ResetDelta(a).cnt, ResetDelta(b).cnt) \in [Key -> Nat]
    BY <1>3, <1>4 DEF CntSum, SketchValue
  <2>2. QED
    BY <1>2, <2>1, CutsAreNat
<1> DEFINE r  == MergeInto(a, b, d)
           rb == ResetDelta(b)
           ff == CntSum(exact[s], exact[t])
           ee == err[s] + err[t] + d
<1>6. /\ r \in SketchValue /\ r.delta = 0 /\ Sound(r, ff, ee)
  BY <1>1, <1>5, MergeKeeps
<1>7. ff \in [Key -> Nat] /\ ee \in Nat
  BY <1>1, <1>5 DEF CntSum
<1>8. /\ sk' = [sk EXCEPT ![s] = r, ![t] = rb]
      /\ err' = [err EXCEPT ![s] = ee]
  BY <1>1, <1>2 DEF IInv, TypeOK
<1>9. /\ merged' = merged \cup {s}
      /\ total' = [total EXCEPT ![s] = @ + total[t]]
      /\ exact' = [exact EXCEPT ![s] = ff]
  BY DEF Merge
<1> HIDE DEF a, b, r, rb, ff, ee
<1>10. \A u \in Sketch :
         /\ sk'[u] = IF u = t THEN rb ELSE IF u = s THEN r ELSE sk[u]
         /\ exact'[u] = IF u = s THEN ff ELSE exact[u]
         /\ err'[u] = IF u = s THEN ee ELSE err[u]
  BY <1>1, <1>8, <1>9 DEF IInv, TypeOK
<1>11. TypeOK'
  BY <1>1, <1>4, <1>6, <1>7, <1>8, <1>9 DEF IInv, TypeOK, rb
<1>12. EstimateSound'
  BY <1>1, <1>4, <1>6, <1>10 DEF IInv, EstimateSound, rb
<1>13. LazyMinSound'
  BY <1>1, <1>4, <1>9, <1>10 DEF IInv, LazyMinSound, rb
<1>14. MergedSettled'
  BY <1>1, <1>4, <1>6, <1>9, <1>10 DEF IInv, TypeOK, MergedSettled, rb
<1>15. QED
  BY <1>11, <1>12, <1>13, <1>14 DEF IInv

LEMMA CloneStep ==
  ASSUME IInv, NEW s \in Sketch, NEW t \in Sketch, Clone(s, t)
  PROVE  IInv'
<1>1. \A u \in Sketch : /\ sk'[u] = IF u = t THEN sk[s] ELSE sk[u]
                        /\ exact'[u] = IF u = t THEN exact[s] ELSE exact[u]
                        /\ err'[u] = IF u = t THEN err[s] ELSE err[u]
  BY DEF Clone, IInv, TypeOK
<1>2. TypeOK'
  BY DEF Clone, IInv, TypeOK
<1>3. EstimateSound'
  BY <1>1 DEF IInv, EstimateSound
<1>4. \A u \in Sketch : u \in merged' <=> IF u = t THEN s \in merged ELSE u \in merged
  BY DEF Clone
<1>5. LazyMinSound'
  BY <1>1, <1>4 DEF IInv, LazyMinSound
<1>6. MergedSettled'
  BY <1>1, <1>2, <1>4 DEF IInv, TypeOK, MergedSettled
<1>7. QED
  BY <1>2, <1>3, <1>5, <1>6 DEF IInv

LEMMA ClearStep ==
  ASSUME IInv, NEW s \in Sketch, Clear(s)
  PROVE  IInv'
<1>0. /\ NoCounts \in [Key -> Nat] /\ EmptySketch \in SketchValue
      /\ Sound(EmptySketch, NoCounts, 0) /\ LazyMin(EmptySketch)
  <2>1. NoCounts \in [Key -> Nat] /\ \A x \in Key : NoCounts[x] = 0
    BY DEF NoCounts
  <2>2. QED
    BY <2>1, EmptyIsSound
<1>1. \A u \in Sketch : /\ sk'[u] = IF u = s THEN EmptySketch ELSE sk[u]
                        /\ exact'[u] = IF u = s THEN NoCounts ELSE exact[u]
                        /\ err'[u] = IF u = s THEN 0 ELSE err[u]
  BY DEF Clear, IInv, TypeOK
<1>2. TypeOK'
  BY <1>0 DEF Clear, IInv, TypeOK
<1>3. EstimateSound'
  BY <1>0, <1>1 DEF IInv, EstimateSound
<1>4. merged' = merged \ {s}
  BY DEF Clear
<1>5. LazyMinSound'
  BY <1>0, <1>1, <1>4 DEF IInv, LazyMinSound
<1>6. MergedSettled'
  BY <1>1, <1>4 DEF IInv, TypeOK, MergedSettled
<1>7. QED
  BY <1>2, <1>3, <1>5, <1>6 DEF IInv

LEMMA NextIInv == IInv /\ [Next]_vars => IInv'
<1> SUFFICES ASSUME IInv, [Next]_vars PROVE IInv'
  OBVIOUS
<1>1. CASE \E s \in Sketch, x \in Key, c \in Weights : Update(s, x, c)
  BY <1>1, UpdateStep
<1>2. CASE \E s, t \in Sketch : Merge(s, t)
  BY <1>2, MergeStep
<1>3. CASE \E s, t \in Sketch : Clone(s, t)
  BY <1>3, CloneStep
<1>4. CASE \E s \in Sketch : Clear(s)
  BY <1>4, ClearStep
<1>5. CASE UNCHANGED vars
  BY <1>5 DEF vars, IInv, TypeOK, EstimateSound, LazyMinSound, MergedSettled
<1>6. QED
  BY <1>1, <1>2, <1>3, <1>4, <1>5 DEF Next

THEOREM Invariance == Spec => []IInv
<1>1. QED
  BY InitIInv, NextIInv, PTL DEF Spec

\* No counter, minimum or pending weight ever wraps around.
THEOREM TypeCorrect == Spec => []TypeOK
<1>1. IInv => TypeOK
  BY DEF IInv
<1>2. QED
  BY <1>1, Invariance, PTL

\* No estimate exceeds the true count, and none is short of it by more than
\* the weight the object declined to credit.
THEOREM EstimatesAreSound == Spec => []EstimateSound
<1>1. IInv => EstimateSound
  BY DEF IInv
<1>2. QED
  BY <1>1, Invariance, PTL

\* The lazily maintained minimum of an object that can still be updated is
\* a lower bound above the pending weight.
THEOREM LazyMinIsSound == Spec => []LazyMinSound
<1>1. IInv => LazyMinSound
  BY DEF IInv
<1>2. QED
  BY <1>1, Invariance, PTL

-----------------------------------------------------------------------------
(* MisraGries implements FrequencySummary                                  *)

LEMMA SoundIsWithin ==
  ASSUME NEW q \in SketchValue, NEW g \in [Key -> Nat], NEW e \in Nat, Sound(q, g, e)
  PROVE  Summary!Within(g, q.cnt, e)
<1> SUFFICES ASSUME NEW x \in Key
             PROVE  q.cnt[x] <= g[x] /\ g[x] <= q.cnt[x] + e
  BY DEF Summary!Within
<1>1. q.cnt[x] \in Nat /\ q.delta \in Nat /\ g[x] \in Nat
  BY DEF SketchValue
<1>2. QED
  BY <1>1 DEF Sound, InTable

LEMMA SummaryInit == Init => Summary!Init
BY DEF Init, Summary!Init, EmptySketch, NoCounts

LEMMA SummaryUpdate ==
  ASSUME IInv, IInv', NEW s \in Sketch, NEW x \in Key, NEW c \in Weights, Update(s, x, c)
  PROVE  Summary!Add(s, x, c)
<1> DEFINE q  == sk[s]
           r  == UpdateImpl(q, x, c)
           ee == err[s] + c - (r.cnt[x] - q.cnt[x])
<1>1. /\ q \in SketchValue /\ exact[s] \in [Key -> Nat] /\ err[s] \in Nat
      /\ Sound(q, exact[s], err[s]) /\ LazyMin(q) /\ c \in Nat \ {0}
  BY StreamAssumption DEF IInv, TypeOK, EstimateSound, LazyMinSound, Update
<1>2. ee \in Nat /\ err[s] <= ee /\ ee <= err[s] + c
  BY <1>1, UpdateKeeps
<1>3. sk'[s] = r
  BY DEF Update, IInv, TypeOK
<1>4. err'[s] = ee
  BY <1>3 DEF Update, IInv, TypeOK
<1>5. exact'[s] = [exact[s] EXCEPT ![x] = @ + c]
  BY DEF Update, IInv, TypeOK
<1>6. \A t \in Sketch \ {s} : exact'[t] = exact[t] /\ sk'[t] = sk[t] /\ err'[t] = err[t]
  BY DEF Update, IInv, TypeOK
<1>7. Summary!Within(exact'[s], sk'[s].cnt, err'[s])
  <2>1. sk'[s] \in SketchValue /\ exact'[s] \in [Key -> Nat] /\ err'[s] \in Nat
    BY DEF IInv, TypeOK
  <2>2. Sound(sk'[s], exact'[s], err'[s])
    BY DEF IInv, EstimateSound
  <2>3. QED
    BY <2>1, <2>2, SoundIsWithin
<1>8. Summary!OthersKeep({s})
  BY <1>6 DEF Summary!OthersKeep
<1> HIDE DEF q, r, ee
<1>9. err[s] <= err'[s] /\ err'[s] <= err[s] + c
  BY <1>2, <1>4
<1>10. QED
  BY <1>5, <1>7, <1>8, <1>9 DEF Summary!Add

LEMMA SummaryMerge ==
  ASSUME IInv, IInv', NEW s \in Sketch, NEW t \in Sketch, Merge(s, t)
  PROVE  s # t /\ Summary!Combine(s, t)
<1>1. /\ sk[s] \in SketchValue /\ exact[s] \in [Key -> Nat] /\ err[s] \in Nat
      /\ sk[t] \in SketchValue /\ exact[t] \in [Key -> Nat] /\ err[t] \in Nat
      /\ Sound(sk[s], exact[s], err[s]) /\ Sound(sk[t], exact[t], err[t]) /\ s # t
  BY DEF IInv, TypeOK, EstimateSound, Merge
<1>2. PICK d \in Cuts(CntSum(ResetDelta(sk[s]).cnt, ResetDelta(sk[t]).cnt)) :
        /\ sk' = [sk EXCEPT ![s] = MergeInto(sk[s], sk[t], d), ![t] = ResetDelta(@)]
        /\ err' = [err EXCEPT ![s] = @ + err[t] + d]
  BY DEF Merge
<1>3. d \in Nat
  <2>1. ResetDelta(sk[s]) \in SketchValue /\ ResetDelta(sk[t]) \in SketchValue
    BY <1>1, ResetDeltaKeeps
  <2>2. CntSum(ResetDelta(sk[s]).cnt, ResetDelta(sk[t]).cnt) \in [Key -> Nat]
    BY <2>1 DEF CntSum, SketchValue
  <2>3. QED
    BY <1>2, <2>2, CutsAreNat
<1>4. err'[s] = err[s] + err[t] + d /\ err'[t] = err[t]
  BY <1>1, <1>2 DEF IInv, TypeOK
<1>5. err'[s] >= err[s] + err[t]
  BY <1>1, <1>3, <1>4
<1>6. exact'[s] = [x \in Key |-> exact[s][x] + exact[t][x]] /\ exact'[t] = exact[t]
  BY <1>1 DEF Merge, CntSum, IInv, TypeOK
<1>7. \A u \in Sketch \ {s, t} : exact'[u] = exact[u] /\ sk'[u] = sk[u] /\ err'[u] = err[u]
  BY <1>2 DEF Merge, IInv, TypeOK
<1>8. /\ Summary!Within(exact'[s], sk'[s].cnt, err'[s])
      /\ Summary!Within(exact'[t], sk'[t].cnt, err'[t])
  <2> SUFFICES ASSUME NEW u \in Sketch
               PROVE  Summary!Within(exact'[u], sk'[u].cnt, err'[u])
    OBVIOUS
  <2>1. sk'[u] \in SketchValue /\ exact'[u] \in [Key -> Nat] /\ err'[u] \in Nat
    BY DEF IInv, TypeOK
  <2>2. Sound(sk'[u], exact'[u], err'[u])
    BY DEF IInv, EstimateSound
  <2>3. QED
    BY <2>1, <2>2, SoundIsWithin
<1>9. Summary!OthersKeep({s, t})
  BY <1>7 DEF Summary!OthersKeep
<1>10. QED
  BY <1>1, <1>4, <1>5, <1>6, <1>8, <1>9 DEF Summary!Combine

LEMMA SummaryClone ==
  ASSUME IInv, NEW s \in Sketch, NEW t \in Sketch, Clone(s, t)
  PROVE  s # t /\ Summary!Copy(s, t)
BY DEF IInv, TypeOK, Clone, Summary!Copy, Summary!OthersKeep

LEMMA SummaryClear ==
  ASSUME IInv, NEW s \in Sketch, Clear(s)
  PROVE  Summary!Forget(s)
BY DEF IInv, TypeOK, Clear, Summary!Forget, Summary!OthersKeep, EmptySketch, NoCounts

LEMMA SummaryNext == IInv /\ IInv' /\ [Next]_vars => [Summary!Next]_(Summary!vars)
<1> SUFFICES ASSUME IInv, IInv', [Next]_vars
             PROVE  [Summary!Next]_(Summary!vars)
  OBVIOUS
<1>1. CASE \E s \in Sketch, x \in Key, c \in Weights : Update(s, x, c)
  BY <1>1, SummaryUpdate DEF Summary!Next
<1>2. CASE \E s, t \in Sketch : Merge(s, t)
  BY <1>2, SummaryMerge DEF Summary!Next
<1>3. CASE \E s, t \in Sketch : Clone(s, t)
  BY <1>3, SummaryClone DEF Summary!Next
<1>4. CASE \E s \in Sketch : Clear(s)
  BY <1>4, SummaryClear DEF Summary!Next
<1>5. CASE UNCHANGED vars
  BY <1>5 DEF vars, Summary!vars
<1>6. QED
  BY <1>1, <1>2, <1>3, <1>4, <1>5 DEF Next

\* The sketch objects behave as abstract frequency summaries, whatever the
\* key set, the capacity, the weights and the pattern of merges and clones.
THEOREM ImplementsSummary == Spec => SummarySpec
<1>1. Init => Summary!Init
  BY SummaryInit
<1>2. IInv /\ IInv' /\ [Next]_vars => [Summary!Next]_(Summary!vars)
  BY SummaryNext
<1>3. QED
  BY <1>1, <1>2, Invariance, PTL DEF Spec, SummarySpec, Summary!Spec
-----------------------------------------------------------------------------
(* Accuracy.  Weight is accounted for in every object, see MGSketchProofs. *)

MassInv(J) ==
  /\ \A s \in Sketch : Mass(sk[s], err[s], total[s], J)
  /\ \A s \in Sketch : total[s] <= MaxTotal

\* What IInv says of one object.
LEMMA ObjectFacts ==
  ASSUME IInv, NEW s \in Sketch
  PROVE  /\ sk[s] \in SketchValue /\ exact[s] \in [Key -> Nat]
         /\ err[s] \in Nat /\ total[s] \in Nat
         /\ Sound(sk[s], exact[s], err[s]) /\ sk[s].delta <= err[s]
         /\ sk[s].delta = 0 \/ LazyMin(sk[s])
         /\ s \notin merged => LazyMin(sk[s])
         /\ s \in merged => sk[s].delta = 0
BY DEF IInv, TypeOK, EstimateSound, LazyMinSound, MergedSettled, Sound

LEMMA InitMass ==
  ASSUME NEW J, Rate(J), Init
  PROVE  MassInv(J)
<1>1. \A s \in Sketch : sk[s] = EmptySketch /\ err[s] = 0 /\ total[s] = 0
  BY DEF Init
<1>2. \A s \in Sketch : Mass(sk[s], err[s], total[s], J)
  BY <1>1, EmptyBalances
<1>3. QED
  BY <1>1, <1>2, StreamAssumption DEF MassInv

LEMMA UpdateMass ==
  ASSUME IInv, NEW J, Rate(J), MassInv(J), J # 2 => Weights = {1},
         NEW s \in Sketch, NEW x \in Key, NEW c \in Weights, Update(s, x, c)
  PROVE  MassInv(J)'
<1> DEFINE q == sk[s]
           r == UpdateImpl(q, x, c)
           ee == err[s] + c - (r.cnt[x] - q.cnt[x])
<1>1. /\ s \notin merged /\ total[s] + c <= MaxTotal
      /\ sk' = [sk EXCEPT ![s] = r]
      /\ total' = [total EXCEPT ![s] = total[s] + c]
  BY DEF Update
<1>2. sk'[s] = r
  BY <1>1 DEF IInv, TypeOK
<1>3. err' = [err EXCEPT ![s] = ee]
  BY <1>2 DEF Update
<1>4. Mass(r, ee, total[s] + c, J)
  <2>1. /\ c \in Nat \ {0} /\ total[s] + c < NoMin /\ (J # 2 => c = 1)
    BY <1>1, ObjectFacts, StreamAssumption, SketchAssumption
  <2>2. QED
    BY <1>1, <2>1, ObjectFacts, UpdateBalances DEF MassInv
<1> HIDE DEF r, ee
<1>5. \A u \in Sketch : /\ sk'[u] = IF u = s THEN r ELSE sk[u]
                        /\ err'[u] = IF u = s THEN ee ELSE err[u]
                        /\ total'[u] = IF u = s THEN total[s] + c ELSE total[u]
  BY <1>1, <1>3 DEF IInv, TypeOK
<1>6. \A u \in Sketch : Mass(sk'[u], err'[u], total'[u], J)
  BY <1>4, <1>5 DEF MassInv
<1>7. QED
  BY <1>1, <1>5, <1>6 DEF MassInv

LEMMA MergeMass ==
  ASSUME IInv, NEW J, Rate(J), MassInv(J),
         NEW s \in Sketch, NEW t \in Sketch, Merge(s, t)
  PROVE  MassInv(J)'
<1>1. PICK d \in Cuts(CntSum(ResetDelta(sk[s]).cnt, ResetDelta(sk[t]).cnt)) :
        /\ sk' = [sk EXCEPT ![s] = MergeInto(sk[s], sk[t], d), ![t] = ResetDelta(sk[t])]
        /\ err' = [err EXCEPT ![s] = err[s] + err[t] + d]
  BY DEF Merge, IInv, TypeOK
<1> DEFINE r == MergeInto(sk[s], sk[t], d)
           rb == ResetDelta(sk[t])
           ee == err[s] + err[t] + d
<1>2. s # t /\ total[s] + total[t] <= MaxTotal
      /\ total' = [total EXCEPT ![s] = total[s] + total[t]]
  BY DEF Merge
<1>3. Mass(sk[s], err[s], total[s], J) /\ Mass(sk[t], err[t], total[t], J)
  BY DEF MassInv
<1>4. Mass(r, ee, total[s] + total[t], J) /\ Mass(rb, err[t], total[t], J)
  BY <1>3, ObjectFacts, MergeBalances
<1>5. sk' = [sk EXCEPT ![s] = r, ![t] = rb] /\ err' = [err EXCEPT ![s] = ee]
  BY <1>1
<1> HIDE DEF r, rb, ee
<1>6. \A u \in Sketch :
         /\ sk'[u] = IF u = t THEN rb ELSE IF u = s THEN r ELSE sk[u]
         /\ err'[u] = IF u = s THEN ee ELSE err[u]
         /\ total'[u] = IF u = s THEN total[s] + total[t] ELSE total[u]
  BY <1>2, <1>5 DEF IInv, TypeOK
<1>7. \A u \in Sketch : Mass(sk'[u], err'[u], total'[u], J)
  BY <1>2, <1>4, <1>6 DEF MassInv
<1>8. QED
  BY <1>2, <1>6, <1>7 DEF MassInv

LEMMA CloneMass ==
  ASSUME IInv, NEW J, Rate(J), MassInv(J),
         NEW s \in Sketch, NEW t \in Sketch, Clone(s, t)
  PROVE  MassInv(J)'
<1>1. \A u \in Sketch : /\ sk'[u] = IF u = t THEN sk[s] ELSE sk[u]
                        /\ err'[u] = IF u = t THEN err[s] ELSE err[u]
                        /\ total'[u] = IF u = t THEN total[s] ELSE total[u]
  BY DEF Clone, IInv, TypeOK
<1>2. \A u \in Sketch : Mass(sk'[u], err'[u], total'[u], J)
  BY <1>1 DEF MassInv
<1>3. QED
  BY <1>1, <1>2 DEF MassInv

LEMMA ClearMass ==
  ASSUME IInv, NEW J, Rate(J), MassInv(J), NEW s \in Sketch, Clear(s)
  PROVE  MassInv(J)'
<1>1. \A u \in Sketch : /\ sk'[u] = IF u = s THEN EmptySketch ELSE sk[u]
                        /\ err'[u] = IF u = s THEN 0 ELSE err[u]
                        /\ total'[u] = IF u = s THEN 0 ELSE total[u]
  BY DEF Clear, IInv, TypeOK
<1>2. \A u \in Sketch : Mass(sk'[u], err'[u], total'[u], J)
  BY <1>1, EmptyBalances DEF MassInv
<1>3. QED
  BY <1>1, <1>2, StreamAssumption DEF MassInv

LEMMA NextMass ==
  ASSUME IInv, NEW J, Rate(J), MassInv(J), J # 2 => Weights = {1}, [Next]_vars
  PROVE  MassInv(J)'
<1>1. ASSUME NEW s \in Sketch, NEW x \in Key, NEW c \in Weights, Update(s, x, c)
      PROVE  MassInv(J)'
  BY <1>1, UpdateMass
<1>2. ASSUME NEW s \in Sketch, NEW t \in Sketch, Merge(s, t) PROVE MassInv(J)'
  BY <1>2, MergeMass
<1>3. ASSUME NEW s \in Sketch, NEW t \in Sketch, Clone(s, t) PROVE MassInv(J)'
  BY <1>3, CloneMass
<1>4. ASSUME NEW s \in Sketch, Clear(s) PROVE MassInv(J)'
  BY <1>4, ClearMass
<1>5. CASE UNCHANGED vars
  BY <1>5 DEF vars, MassInv
<1>6. QED
  BY <1>1, <1>2, <1>3, <1>4, <1>5 DEF Next

\* With any weights: what is in counters, what is pending and twice what was
\* subtracted never exceed what came in, so that an item with more than half
\* of the weight is never lost, through any mix of updates and merges.
THEOREM MassIsAccounted == Spec => []MassAccounted
<1>1. Rate(2)
  BY DEF Rate
<1>2. Init => MassInv(2)
  BY <1>1, InitMass
<1>3. IInv /\ MassInv(2) /\ [Next]_vars => MassInv(2)'
  BY <1>1, NextMass
<1>4. IInv /\ MassInv(2) => MassAccounted
  <2> SUFFICES ASSUME IInv, MassInv(2), NEW s \in Sketch
               PROVE  2 * err[s] - sk[s].delta + SumFunction(sk[s].cnt) <= total[s]
    BY DEF MassAccounted
  <2>1. /\ sk[s].cnt \in [Key -> Nat] /\ sk[s].delta \in Nat
        /\ err[s] \in Nat /\ total[s] \in Nat
    BY ObjectFacts DEF SketchValue
  <2>2. SumFunction(sk[s].cnt) = Sum(sk[s].cnt, Key)
    BY <2>1 DEF SumFunction, Sum
  <2>3. 2 * (err[s] - sk[s].delta) + sk[s].delta + Sum(sk[s].cnt, Key) <= total[s]
    BY DEF MassInv, Mass
  <2>4. Sum(sk[s].cnt, Key) \in Nat
    BY <2>1, CountSum
  <2>5. QED
    BY <2>1, <2>2, <2>3, <2>4
<1>5. QED
  BY <1>2, <1>3, <1>4, Invariance, PTL DEF Spec

\* With unit weights, the only ones the driver passes: no count is short by
\* more than total/K, the m_eps that the heavy-hitter threshold allows for.
THEOREM ErrorIsEps == Weights = {1} /\ Spec => []EpsBound
<1> SUFFICES ASSUME Weights = {1} PROVE Spec => []EpsBound
  OBVIOUS
<1>1. Rate(K)
  BY DEF Rate
<1>2. Init => MassInv(K)
  BY <1>1, InitMass
<1>3. IInv /\ MassInv(K) /\ [Next]_vars => MassInv(K)'
  BY <1>1, NextMass
<1>4. IInv /\ MassInv(K) => EpsBound
  <2> SUFFICES ASSUME IInv, MassInv(K), NEW s \in Sketch, NEW x \in Key
               PROVE  K * (exact[s][x] - sk[s].cnt[x]) <= total[s]
    BY DEF EpsBound
  <2> DEFINE q == sk[s]
             f == exact[s][x]
             e == err[s]
             d == q.delta
             sum == Sum(q.cnt, Key)
  <2>1. /\ q.cnt \in [Key -> Nat] /\ d \in Nat /\ e \in Nat /\ total[s] \in Nat
        /\ f \in Nat /\ K \in Nat /\ d <= e /\ q.cnt[x] \in Nat /\ sum \in Nat
    BY ObjectFacts, CountSum, SketchAssumption DEF SketchValue
  <2>2. K * (e - d) + d + sum <= total[s]
    BY DEF MassInv, Mass
  <2>3. Sound(q, exact[s], e)
    BY ObjectFacts
  <2>4. CASE x \in InTable(q.cnt)
    <3>1. f <= q.cnt[x] + e - d
      BY <2>3, <2>4 DEF Sound
    <3> HIDE DEF q, f, e, d, sum
    <3>2. f - q.cnt[x] <= e - d /\ f - q.cnt[x] \in Int /\ e - d \in Int
      BY <2>1, <3>1
    <3>3. \A a, b \in Int : a <= b => K * a <= K * b
      BY <2>1
    <3>4. K * (f - q.cnt[x]) <= K * (e - d) /\ K * (f - q.cnt[x]) \in Int /\ K * (e - d) \in Int
      BY <2>1, <3>2, <3>3
    <3>5. K * (f - q.cnt[x]) <= total[s]
      BY <2>1, <2>2, <3>4
    <3>6. QED
      BY <3>5 DEF q, f
  <2>5. CASE x \notin InTable(q.cnt)
    <3>1. f <= e /\ q.cnt[x] = 0
      BY <2>3, <2>5 DEF Sound, InTable
    <3>2. (K - 1) * d <= sum
      <4>1. CASE d = 0
        <5>1. (K - 1) * d = 0
          BY <2>1, <4>1
        <5>2. QED
          BY <2>1, <5>1
      <4>2. CASE d # 0
        <5>1. LazyMin(q)
          BY <4>2, ObjectFacts
        <5>2. K - 1 <= Cardinality(InTable(q.cnt)) /\ K - 1 \in Nat
          BY <2>1, <4>2, <5>1, CountSum, SketchAssumption DEF LazyMin
        <5> DEFINE none == [y \in Key |-> 0]
        <5>3. none \in [Key -> Nat] /\ \A y \in Key : none[y] = 0
          OBVIOUS
        <5>4. InTable(q.cnt) \in SUBSET Key
          BY DEF InTable
        <5>5. \A y \in InTable(q.cnt) : d < q.cnt[y] /\ q.cnt[y] \in Nat
          BY <2>1, <2>3, <5>4 DEF Sound
        <5> HIDE DEF none, q
        <5>6. /\ \A y \in Key : none[y] <= q.cnt[y]
              /\ \A y \in InTable(q.cnt) : none[y] + d <= q.cnt[y]
          BY <2>1, <5>3, <5>4, <5>5
        <5>7. Sum(none, Key) + (K - 1) * d <= Sum(q.cnt, Key)
          BY <2>1, <5>2, <5>3, <5>4, <5>6, CountersPay
        <5>8. Sum(none, Key) \in Nat
          BY <5>3, CountSum
        <5>9. (K - 1) * d \in Int
          BY <2>1
        <5>10. QED
          BY <2>1, <5>7, <5>8, <5>9
      <4>3. QED
        BY <4>1, <4>2
    <3> HIDE DEF q, f, e, d, sum
    <3>3. K * e = K * (e - d) + (K - 1) * d + d
      BY <2>1
    <3>4. K * e \in Int /\ K * (e - d) \in Int /\ (K - 1) * d \in Int
      BY <2>1
    <3>5. K * e <= total[s]
      BY <2>1, <2>2, <3>2, <3>3, <3>4
    <3>6. \A a, b \in Int : a <= b => K * a <= K * b
      BY <2>1
    <3>7. K * f <= K * e /\ K * f \in Int
      BY <2>1, <3>1, <3>6
    <3>8. f - q.cnt[x] = f
      BY <2>1, <3>1
    <3>9. K * (f - q.cnt[x]) <= total[s]
      BY <2>1, <3>4, <3>5, <3>7, <3>8
    <3>10. QED
      BY <3>9 DEF q, f
  <2>6. QED
    BY <2>4, <2>5
<1>5. QED
  BY <1>2, <1>3, <1>4, Invariance, PTL DEF Spec

-----------------------------------------------------------------------------
(* The size of the table                                                   *)

LEMMA TableFitsStep ==
  ASSUME IInv, TableFits, Weights = {1}, [Next]_vars
  PROVE  TableFits'
<1> DEFINE Limit(s) == IF s \in merged THEN K ELSE K - 1
<1>0. K \in Nat /\ \A s \in Sketch : Cardinality(InTable(sk[s].cnt)) \in Nat
  BY ObjectFacts, CountSum, SketchAssumption DEF SketchValue
<1>1. ASSUME NEW s \in Sketch, NEW x \in Key, NEW c \in Weights, Update(s, x, c)
      PROVE  TableFits'
  <2>1. c = 1 /\ s \notin merged /\ merged' = merged
    BY <1>1 DEF Update
  <2>2. \A u \in Sketch : sk'[u] = IF u = s THEN UpdateImpl(sk[s], x, 1) ELSE sk[u]
    BY <1>1, <2>1 DEF Update, IInv, TypeOK
  <2>3. Cardinality(InTable(UpdateImpl(sk[s], x, 1).cnt)) <= K - 1
    BY <2>1, ObjectFacts, UpdateFits DEF TableFits
  <2>4. QED
    BY <2>1, <2>2, <2>3 DEF TableFits
<1>2. ASSUME NEW s \in Sketch, NEW t \in Sketch, Merge(s, t) PROVE TableFits'
  <2>1. PICK d \in Cuts(CntSum(ResetDelta(sk[s]).cnt, ResetDelta(sk[t]).cnt)) :
          sk' = [sk EXCEPT ![s] = MergeInto(sk[s], sk[t], d), ![t] = ResetDelta(sk[t])]
    BY <1>2 DEF Merge, IInv, TypeOK
  <2> DEFINE r == MergeInto(sk[s], sk[t], d)
             rb == ResetDelta(sk[t])
  <2>2. /\ Cardinality(InTable(r.cnt)) <= K
        /\ Cardinality(InTable(rb.cnt)) <= Cardinality(InTable(sk[t].cnt))
    BY ObjectFacts, MergeFits
  <2>3. rb.cnt \in [Key -> Nat]
    BY ObjectFacts, ResetDeltaKeeps DEF SketchValue
  <2> HIDE DEF r, rb
  <2>4. Cardinality(InTable(rb.cnt)) \in Nat
    BY <2>3, CountSum
  <2>5. s # t /\ merged' = merged \cup {s}
    BY <1>2 DEF Merge
  <2>6. \A u \in Sketch : sk'[u] = IF u = t THEN rb ELSE IF u = s THEN r ELSE sk[u]
    BY <2>1, <2>5 DEF IInv, TypeOK, r, rb
  <2>7. ASSUME NEW u \in Sketch
        PROVE  Cardinality(InTable(sk'[u].cnt)) <= IF u \in merged' THEN K ELSE K - 1
    <3>1. Cardinality(InTable(sk[u].cnt)) <= IF u \in merged THEN K ELSE K - 1
      BY DEF TableFits
    <3>2. CASE u = s
      BY <2>2, <2>5, <2>6, <3>2
    <3>3. CASE u = t
      BY <1>0, <2>2, <2>4, <2>5, <2>6, <3>1, <3>3
    <3>4. CASE u # s /\ u # t
      BY <2>5, <2>6, <3>1, <3>4
    <3>5. QED
      BY <3>2, <3>3, <3>4
  <2>8. QED
    BY <2>7 DEF TableFits
<1>3. ASSUME NEW s \in Sketch, NEW t \in Sketch, Clone(s, t) PROVE TableFits'
  <2>1. \A u \in Sketch : /\ sk'[u] = IF u = t THEN sk[s] ELSE sk[u]
                          /\ u \in merged' <=> IF u = t THEN s \in merged ELSE u \in merged
    BY <1>3 DEF Clone, IInv, TypeOK
  <2>2. QED
    BY <2>1 DEF TableFits
<1>4. ASSUME NEW s \in Sketch, Clear(s) PROVE TableFits'
  <2>1. \A u \in Sketch : /\ sk'[u] = IF u = s THEN EmptySketch ELSE sk[u]
                          /\ u \in merged' <=> u # s /\ u \in merged
    BY <1>4 DEF Clear, IInv, TypeOK
  <2>2. InTable(EmptySketch.cnt) = {}
    BY DEF InTable, EmptySketch
  <2>3. Cardinality(InTable(EmptySketch.cnt)) <= K - 1
    BY <2>2, FS_EmptySet, SketchAssumption
  <2>4. QED
    BY <2>1, <2>3 DEF TableFits
<1>5. CASE UNCHANGED vars
  BY <1>5 DEF vars, TableFits
<1>6. QED
  BY <1>1, <1>2, <1>3, <1>4, <1>5 DEF Next

\* With unit weights the table never outgrows what the class provides for.
THEOREM TableAlwaysFits == Weights = {1} /\ Spec => []TableFits
<1> SUFFICES ASSUME Weights = {1} PROVE Spec => []TableFits
  OBVIOUS
<1>1. Init => TableFits
  <2>1. InTable(EmptySketch.cnt) = {}
    BY DEF InTable, EmptySketch
  <2>2. QED
    BY <2>1, FS_EmptySet, SketchAssumption DEF Init, TableFits
<1>2. IInv /\ TableFits /\ [Next]_vars => TableFits'
  BY TableFitsStep
<1>3. QED
  BY <1>1, <1>2, Invariance, PTL DEF Spec
=============================================================================
