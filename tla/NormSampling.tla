---------------------------- MODULE NormSampling ----------------------------
(***************************************************************************)
(* NormSamplingSketch of norm_sampling.cpp: a priority sample of rows that *)
(* remembers what each slot held.  A row's weight is its squared length    *)
(* over a random number in (0, 1].  Versions in a slot carry their weight, *)
(* of which the code keeps only the newest, and arrival for the history.   *)
(***************************************************************************)
EXTENDS ExactMatrix, MinHeap

CONSTANTS
  NormSampleSizes,   \* the values of NORM_SAMPLING.sample_size tried
  RowWeights         \* the weights that can come up

VARIABLES
  sample_size,       \* m_sample_size
  seen,              \* m_seen
  reservoir,         \* m_reservoir: of each slot the items and m_weight
  weight_min_heap    \* m_weight_min_heap: slots

vars == <<exactVars, sample_size, seen, reservoir, weight_min_heap>>

Slot == 1 .. sample_size
EmptyList == [items |-> <<>>, weight |-> 0]
WeightOf(r) == [i \in Slot |-> r[i].weight]

Init ==
  /\ InitExact
  /\ sample_size \in NormSampleSizes
  /\ seen = 0
  /\ reservoir = [i \in Slot |-> EmptyList]
  /\ weight_min_heap = [i \in Slot |-> i]

\* Variant: the threshold of a version is its own weight.
AppendedOwnWeight(list, item) ==
  [items |-> Append(list.items, item @@ [threshold |-> item.weight]), weight |-> item.weight]

\* List::append: the weight that gives way is the threshold of what follows.
Appended(list, item) ==
  [items |-> Append(list.items, item @@ [threshold |-> list.weight]), weight |-> item.weight]

\* min_heap_make
Made(heap, key) ==
  LET half == Len(heap) \div 2
  IN FoldLeft(LAMBDA h, i : PushDown(h, key, half + 1 - i), heap, [i \in 1 .. half |-> i])

Fill(item) ==
  LET r == [reservoir EXCEPT ![seen + 1] = Appended(@, item)] IN
  /\ seen < sample_size
  /\ reservoir' = r
  /\ weight_min_heap' =
       IF seen + 1 = sample_size THEN Made(weight_min_heap, WeightOf(r)) ELSE weight_min_heap

Displace(item) ==
  LET least == weight_min_heap[1]
      r == [reservoir EXCEPT ![least] = Appended(@, item)]
  IN /\ seen >= sample_size
     /\ item.weight > reservoir[least].weight
     /\ reservoir' = r
     /\ weight_min_heap' = PushDown(weight_min_heap, WeightOf(r), 1)

Reject(item) ==
  /\ seen >= sample_size
  /\ item.weight <= reservoir[weight_min_heap[1]].weight
  /\ UNCHANGED <<reservoir, weight_min_heap>>

Update(ts, row) ==
  \E w \in RowWeights :
    LET item == [ts |-> ts, norm |-> row.norm, weight |-> w, arrival |-> Len(stream) + 1] IN
    /\ IF row.norm = 0 THEN w = 0 ELSE w >= row.norm
    /\ Fill(item) \/ Displace(item) \/ Reject(item)
    /\ seen' = seen + 1
    /\ Feed(ts, row, item)
    /\ UNCHANGED sample_size

\* The heap keeps the order of the slots it had.
Clear ==
  /\ reservoir' = [i \in Slot |-> EmptyList]
  /\ seen' = 0
  /\ ClearExact
  /\ UNCHANGED <<sample_size, weight_min_heap>>

Next ==
  \/ \E ts \in 1 .. MaxTs, row \in Row : Update(ts, row)
  \/ Clear

Spec == Init /\ [][Next]_vars

\* List::last_of on every slot that held something at ts.
ItemsAt(ts) ==
  LET At(i) == LastAt(reservoir[i].items, ts, LAMBDA e : e.ts)
  IN {reservoir[i].items[At(i)] : i \in {j \in Slot : At(j) > 0}}

\* The threshold get_covariance_matrix scales short rows up to.
ThresholdAt(ts) == Max({0} \cup {item.threshold : item \in ItemsAt(ts)})

-----------------------------------------------------------------------------
(* Properties                                                              *)

\* HeaviestSampled: whatever rows came and in whichever slots they went, also
\* after clear(), the rows sampled as of ts are the sample_size heaviest of
\* the rows up to ts, and the threshold is the weight of the heaviest row that
\* once was sampled and had given way by then.
HeaviestSampled ==
  \A ts \in 1 .. Newest :
    LET rows == {i \in 1 .. Len(stream) : stream[i].ts <= ts}
        kept == {item.arrival : item \in ItemsAt(ts)}
        displaced == {i \in rows \ kept : \E s \in Slot :
                        \E v \in 1 .. Len(reservoir[s].items) : reservoir[s].items[v].arrival = i}
    IN /\ kept \subseteq rows
       /\ Cardinality(kept) = IF Cardinality(rows) < sample_size THEN Cardinality(rows)
                              ELSE sample_size
       /\ \A i \in kept, j \in rows \ kept : stream[i].weight >= stream[j].weight
       /\ ThresholdAt(ts) = Max({0} \cup {stream[i].weight : i \in displaced})
=============================================================================
