---------------------------- MODULE SamplingBITP ----------------------------
(***************************************************************************)
(* SamplingSketchBITP of sampling.cpp: for every start time, a sample of   *)
(* what has arrived since.  Each arrival gets a random weight and the      *)
(* sample of a suffix is its sample_size heaviest arrivals.  Two of the    *)
(* three implementations are modelled: the old one (use_new_impl = 0)      *)
(* keeps the most recent items in a ring and of the older ones exactly     *)
(* those some suffix still needs; the batched one (2) keeps a list and     *)
(* thins it out when it has grown to a target.  A tree of the code is the  *)
(* sequence of its elements in order (see AVLContainer).                   *)
(***************************************************************************)
EXTENDS TsCounts, FiniteSets

CONSTANTS
  Configs,     \* [impl, sample_size, frequency] and, as bounds, the values,
               \* the random numbers as ranks (weights), whether one may come
               \* twice (ties), the number of arrivals and the last timestamp
  MaxCount     \* bound on the count of one update

VARIABLES
  config,
  old,         \* the state of implementation 0
  batch,       \* the state of implementation 2
  last_ts, tmp_cnt_ts, tmp_cnt_map, ts2cnt_map,
  cleared,     \* clear() has been called
  stream       \* history: the arrivals since the last clear()

vars == <<config, old, batch, last_ts, tmp_cnt_ts, tmp_cnt_map, ts2cnt_map, cleared, stream>>

sample_size == config.sample_size
NoTs == config.until + 1                  \* ~0ul
NoItem == [ts |-> 0, value |-> 0, weight |-> 0]
NoCounts == [v \in config.values |-> 0]
Newest == IF stream = <<>> THEN 0 ELSE Last(stream).ts

EmptyOld(size) ==
  [recent |-> [i \in 0 .. size - 1 |-> NoItem],  \* m_most_recent_items, a ring
   start |-> 0,                \* m_most_recent_items_start, the newest
   byWeight |-> <<>>,          \* m_most_recent_items_weight_map
   byMin |-> <<>>,             \* m_min_weight_map: items with their min_weight_list
   byTs |-> <<>>,              \* m_ts_map
   items |-> 0,                \* m_num_items_alloced
   mins |-> 0]                 \* m_num_mwlistnodes_alloced

CeilLog(n) ==                  \* ceil(ln n), n <= 20
  IF n = 1 THEN 0 ELSE IF n = 2 THEN 1 ELSE IF n <= 7 THEN 2 ELSE 3

EmptyBatch(target) ==
  [list |-> <<>>,              \* m_item3_head and what follows, newest first
   alloced |-> 0,              \* m_num_item3_alloced
   target |-> target,          \* m_num_item3_alloced_target
   seen |-> 0,                 \* m_tot_seen
   peak |-> 0]                 \* m_max_num_item3_alloced

Init ==
  /\ config \in Configs
  /\ old = EmptyOld(sample_size)
  /\ batch = EmptyBatch(2 * sample_size * CeilLog(sample_size + 1))
  /\ last_ts = 0 /\ tmp_cnt_ts = NoTs /\ tmp_cnt_map = NoCounts /\ ts2cnt_map = <<>>
  /\ cleared = FALSE
  /\ stream = <<>>

-----------------------------------------------------------------------------
(* Implementation 0                                                        *)

Ith(s, i) ==                       \* ith_most_recent_item
  s.recent[IF s.start < i THEN s.start + sample_size - i ELSE s.start - i]

\* e goes into the tree s behind the elements with the same key.
Placed(s, e, KeyOf(_)) ==
  LET ahead == Len(SelectSeq(s, LAMBDA x : KeyOf(x) <= KeyOf(e)))
  IN InsertAt(s, ahead + 1, e)
WeightsOf(s) == [i \in 1 .. Len(s) |-> s[i].weight]
ByWeight(e) == e.weight
ByTs(e) == e.ts
ByHead(e) == e.mins[1]

\* p leaves the ring as w arrives: it is kept, with the weights that stand
\* between it and being dispensable, unless w already makes it so.
Retired(s, p, w) ==
  LET others  == Remove(s.byWeight, p)
      lighter == SelectSeq(others, LAMBDA e : e.weight < p.weight)
      entry   == [item |-> p, mins |-> Append(WeightsOf(lighter), p.weight)]
      left    == [s EXCEPT !.byWeight = others]
  IN IF lighter = <<>> /\ p.weight < w THEN [left EXCEPT !.items = @ - 1]
     ELSE [left EXCEPT !.byMin = Placed(@, entry, ByHead),
                       !.byTs = Placed(@, p, ByTs),
                       !.mins = @ + Len(lighter)]

\* Variant: the new weight is not added to the list of a heavier item.
LightenedOnly(e, w) == [e EXCEPT !.mins = Tail(@)]

\* w is heavier than the head of e's list, which has others behind it.
Lightened(e, w) ==
  LET rest == Tail(e.mins)
  IN IF w < e.item.weight
     THEN [e EXCEPT !.mins =
             InsertAt(rest, Len(SelectSeq(rest, LAMBDA m : m < w)) + 1, w)]
     ELSE [e EXCEPT !.mins = rest]

\* The walk over m_min_weight_map from its start, changing keys in place,
\* stops at the first head not below w.
Purged(s, w) ==
  LET n == Len(SelectSeq([i \in 1 .. Len(s.byMin) |-> i],
                         LAMBDA i : \A j \in 1 .. i : ByHead(s.byMin[j]) < w))
      met  == SubSeq(s.byMin, 1, n)
      kept == SelectSeq(met, LAMBDA e : Len(e.mins) > 1)
      gone == {met[i].item : i \in {i \in 1 .. n : Len(met[i].mins) = 1}}
      less == Len(SelectSeq(kept, LAMBDA e : w >= e.item.weight))
  IN [s EXCEPT !.byMin = [i \in 1 .. Len(kept) |-> Lightened(kept[i], w)]
                           \o SubSeq(@, n + 1, Len(@)),
               !.byTs = SelectSeq(@, LAMBDA x : x \notin gone),
               !.items = @ - (n - Len(kept)),
               !.mins = @ - less]

\* One turn of update_loop of update_old.
ArriveOld(s, item) ==
  LET p    == Ith(s, sample_size - 1)
      one  == [s EXCEPT !.items = @ + 1]
      rid  == Purged(IF p = NoItem THEN one ELSE Retired(one, p, item.weight), item.weight)
      next == IF s.start = sample_size - 1 THEN 0 ELSE s.start + 1
  IN [rid EXCEPT !.start = next, !.recent[next] = item,
                 !.byWeight = Placed(@, item, ByWeight)]

-----------------------------------------------------------------------------
(* Samples by a walk over the rest of a suffix                             *)

Ascending(s) == SortSeq(s, LAMBDA a, b : a.weight < b.weight)

\* heap[0] is replaced by item.
Pushed(heap, item) == Ascending(<<item>> \o Tail(heap))

-----------------------------------------------------------------------------
(* Implementation 2                                                        *)

\* Variant: each item is compared with the sample of the newest ones only,
\* and the target is not raised to what was kept.
CompactedByNewest(s) ==
  LET newest == SubSeq(s.list, 1, sample_size)
      kept == newest \o SelectSeq(SubSeq(s.list, sample_size + 1, Len(s.list)),
                                  LAMBDA e : e.weight >= Last(Ascending(newest)).weight)
  IN [s EXCEPT !.list = kept, !.alloced = Len(kept),
               !.target = 2 * sample_size * CeilLog(s.seen + 1)]

\* The list from the newest on: an item lighter than the sample_size heaviest
\* met before it goes.
Compacted(s) ==
  LET start == [heap |-> Ascending(SubSeq(s.list, 1, sample_size)),
                kept |-> SubSeq(s.list, 1, sample_size)]
      Walk(acc, e) ==
        IF e.weight < acc.heap[1].weight THEN acc
        ELSE [heap |-> Pushed(acc.heap, e), kept |-> Append(acc.kept, e)]
      kept == FoldLeft(Walk, start, SubSeq(s.list, sample_size + 1, Len(s.list))).kept
      target == 2 * sample_size * CeilLog(s.seen + 1)
  IN [s EXCEPT !.list = kept, !.alloced = Len(kept),
               !.target = IF target < 2 * Len(kept) THEN 2 * Len(kept) ELSE target]

\* One turn of update_loop of update_batched.
ArriveBatched(s, item) ==
  LET n == s.alloced + 1
      pushed == [s EXCEPT !.list = <<item>> \o @, !.alloced = n, !.seen = @ + 1,
                          !.peak = IF n > @ THEN n ELSE @]
  IN IF n = s.target THEN Compacted(pushed) ELSE pushed

-----------------------------------------------------------------------------
(* Operations                                                              *)

Update(ts, value, c) ==
  \E weights \in [1 .. c -> config.weights] :
    LET items == [j \in 1 .. c |-> [ts |-> ts, value |-> value, weight |-> weights[j]]]
    IN /\ ts >= Newest
       /\ Len(stream) + c <= config.arrivals
       /\ ~config.ties =>
            /\ \A j \in 1 .. c : \A i \in 1 .. Len(stream) : stream[i].weight # weights[j]
            /\ IsInjective(weights)
       /\ IF config.impl = 0
          THEN old' = FoldLeft(ArriveOld, old, items) /\ UNCHANGED batch
          ELSE batch' = FoldLeft(ArriveBatched, batch, items) /\ UNCHANGED old
       /\ IF config.frequency
          THEN /\ ts2cnt_map' = Recorded(ts2cnt_map, last_ts, ts, batch.seen)
               /\ last_ts' = ts
               /\ IF ts = tmp_cnt_ts THEN tmp_cnt_ts' = NoTs /\ tmp_cnt_map' = NoCounts
                  ELSE UNCHANGED <<tmp_cnt_ts, tmp_cnt_map>>
          ELSE UNCHANGED <<ts2cnt_map, last_ts, tmp_cnt_ts, tmp_cnt_map>>
       /\ stream' = stream \o items
       /\ UNCHANGED <<config, cleared>>

\* The samples of both heavy-hitter queries: the newest items of the suffix,
\* and while older ones belong to it, each that is heavier than the lightest
\* takes its place.
SampleOld(ts) ==
  LET new == [i \in 1 .. sample_size |-> Ith(old, i - 1)]
      n == Len(SelectSeq([i \in 1 .. sample_size |-> i],
                         LAMBDA i : \A j \in 1 .. i : new[j] # NoItem /\ new[j].ts > ts))
      older == Reverse(SelectSeq(old.byTs, LAMBDA e : e.ts > ts))
      Walk(heap, e) == IF e.weight > heap[1].weight THEN Pushed(heap, e) ELSE heap
  IN IF n < sample_size THEN SubSeq(new, 1, n) ELSE FoldLeft(Walk, Ascending(new), older)

SampleBatched(ts) ==
  LET suffix == SelectSeq(batch.list, LAMBDA e : e.ts > ts)
      n == IF Len(suffix) < sample_size THEN Len(suffix) ELSE sample_size
      Walk(heap, e) == IF e.weight >= heap[1].weight THEN Pushed(heap, e) ELSE heap
  IN FoldLeft(Walk, Ascending(SubSeq(suffix, 1, n)), SubSeq(suffix, n + 1, Len(suffix)))

Estimates(ts) ==
  LET sample == SampleBatched(ts)
  IN [v \in config.values |->
        IF sample = <<>> THEN 0
        ELSE Scaled(CountsOf(sample, config.values)[v], TotalAt(ts2cnt_map, ts), Len(sample))]

EstimateFrequency(ts) ==
  /\ config.frequency /\ ts # tmp_cnt_ts
  /\ tmp_cnt_ts' = ts /\ tmp_cnt_map' = Estimates(ts)
  /\ UNCHANGED <<config, old, batch, last_ts, ts2cnt_map, cleared, stream>>

Clear ==
  /\ stream # <<>>
  /\ IF config.impl = 0
     THEN old' = [EmptyOld(sample_size) EXCEPT !.start = old.start] /\ UNCHANGED batch
     ELSE batch' = EmptyBatch(2 * sample_size * CeilLog(sample_size)) /\ UNCHANGED old
  /\ IF config.frequency
     THEN last_ts' = 0 /\ tmp_cnt_ts' = NoTs /\ tmp_cnt_map' = NoCounts /\ ts2cnt_map' = <<>>
     ELSE UNCHANGED <<last_ts, tmp_cnt_ts, tmp_cnt_map, ts2cnt_map>>
  /\ cleared' = TRUE
  /\ stream' = <<>>
  /\ UNCHANGED config

Next ==
  \/ \E ts \in 1 .. config.until, v \in config.values, c \in 1 .. MaxCount : Update(ts, v, c)
  \/ \E ts \in 0 .. config.until : EstimateFrequency(ts)
  \/ Clear

Spec == Init /\ [][Next]_vars

-----------------------------------------------------------------------------
(* Properties                                                              *)

Since(ts) == SelectSeq(stream, LAMBDA e : e.ts > ts)
Heaviest(s) ==
  LET sorted == Ascending(s)
      n == Len(s)
  IN IF n <= sample_size THEN sorted ELSE SubSeq(sorted, n - sample_size + 1, n)

\* SuffixSampled: for every start time, however the arrivals were weighted
\* and whatever has been purged or compacted away, the sample both
\* implementations find is the sample_size heaviest of all that arrived since.
SuffixSampled ==
  \A ts \in 0 .. config.until :
    LET sample == IF config.impl = 0 THEN SampleOld(ts) ELSE SampleBatched(ts)
    IN /\ WeightsOf(Ascending(sample)) = WeightsOf(Heaviest(Since(ts)))
       /\ ToSet(sample) \subseteq ToSet(Since(ts))

\* MinListsExact: the ring aside, the old implementation keeps exactly the
\* arrivals fewer than sample_size heavier ones followed; each carries the
\* weights of its own suffix's sample up to its own; the tree keyed by the
\* first of them stays in order although the keys change in place; and the
\* allocation counters behind memory_usage agree.
MinListsExact ==
  config.impl = 0 =>
    LET n == Len(stream)
        Suffix(i) == SubSeq(stream, i, n)
        needed == {i \in 1 .. n - sample_size : stream[i] \in ToSet(Heaviest(Suffix(i)))}
        MinsOf(i) == SelectSeq(Heaviest(Suffix(i)), LAMBDA e : e.weight <= stream[i].weight)
        InRing == {i \in 0 .. sample_size - 1 : old.recent[i] # NoItem}
    IN /\ ToSet(old.byTs) = {stream[i] : i \in needed}
       /\ ToSet(old.byMin) =
            {[item |-> stream[i],
              mins |-> WeightsOf(MinsOf(i))] : i \in needed}
       /\ \A i \in 1 .. Len(old.byMin) - 1 : ByHead(old.byMin[i]) < ByHead(old.byMin[i + 1])
       /\ old.items = Cardinality(InRing) + Len(old.byTs)
       /\ old.mins = FoldLeft(LAMBDA sum, e : sum + Len(e.mins) - 1, 0, old.byMin)

\* BatchBounded: the list never reaches its target between updates, so the
\* next arrival is always within the assertion of update_batched, and it is
\* as long as its counter says.  (After clear() a sample of one is excepted.)
BatchBounded ==
  config.impl = 2 =>
    /\ batch.alloced = Len(batch.list) /\ batch.alloced <= batch.peak
    /\ ~(cleared /\ sample_size = 1) => batch.alloced < batch.target

\* FrequencyOfInterval: with every arrival of the interval (ts, now] in the
\* sample, the estimated frequency is the exact one.
FrequencyOfInterval ==
  config.frequency =>
    \A ts \in 0 .. config.until :
      Len(Since(ts)) \in 1 .. sample_size => Estimates(ts) = CountsOf(Since(ts), config.values)
=============================================================================
