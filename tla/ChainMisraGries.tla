-------------------------- MODULE ChainMisraGries --------------------------
(***************************************************************************)
(* ChainMisraGries of pmmg.{h,cpp}: a Misra-Gries sketch whose past can be *)
(* queried.  At the first update of a new timestamp the state at the end   *)
(* of the previous one is recorded: a full checkpoint of the counters, or  *)
(* a chain of delta nodes for the counters that moved by more than eps/3   *)
(* of the weight seen when they were recorded last.                        *)
(*                                                                         *)
(* Both implementations are modelled: update_old compares every counter;   *)
(* update_new keeps two heaps over "counter minus recorded value" so that  *)
(* it only looks at counters that left their range.                        *)
(*                                                                         *)
(* The delta nodes of one timestamp are one batch, a function from the     *)
(* recorded keys to the counts, because their order in the list is never   *)
(* observed.                                                               *)
(***************************************************************************)
EXTENDS MGSketch, MinHeap, SequencesExt

CONSTANTS
  EpsNum, EpsDen,   \* m_epsilon_over_3
  Weights,          \* the weights of updates (the driver always passes 1)
  MaxTotal,         \* bound on the weight of the stream
  MaxTs             \* bound on the timestamps

VARIABLES
  useNew,      \* m_use_update_new
  sk,          \* m_cur_sketch
  tot,         \* m_tot_cnt
  lastTs,      \* m_last_ts, 0 before the first update
  chkpts,      \* m_checkpoints, each with its delta batches
  numDeltas,   \* m_num_delta_nodes_since_last_chkpt
  snap,        \* what is recorded of a key: m_snapshot_cnt_map, or what a
               \* counter's m_in_last_snapshot and m_prev_*_node stand for
  ctr,         \* the counters of update_new: m_sub_amount, c1 and c2 of each
               \* key, m_c1_max_heap, m_c2_min_heap and the keys of
               \* m_deleted_counters
  exact,       \* history: the true counts
  closed       \* history: for each recorded timestamp, the true counts, the
               \* sketch's counts and the total at its end

vars == <<useNew, sk, tot, lastTs, chkpts, numDeltas, snap, ctr, exact, closed>>

NoCounts == [x \in Key |-> 0]
Unrecorded == [in |-> FALSE, cnt |-> 0, tot |-> 0]
EmptyCtr == [sub |-> 0, c1 |-> NoCounts, c2 |-> NoCounts,
             heap1 |-> <<>>, heap2 |-> <<>>, gone |-> {}]

Init ==
  /\ useNew \in BOOLEAN
  /\ sk = EmptySketch
  /\ tot = 0 /\ lastTs = 0
  /\ chkpts = <<>> /\ numDeltas = 0
  /\ snap = [x \in Key |-> Unrecorded]
  /\ ctr = EmptyCtr
  /\ exact = NoCounts
  /\ closed = <<>>

-----------------------------------------------------------------------------
(* Helpers                                                                 *)

\* floor(n * eps / 3): how far a counter may drift from what was recorded.
Allow(n) == (n * EpsNum) \div EpsDen

Log2(n) == CHOOSE e \in 0 .. n : 2^e <= n /\ n < 2^(e + 1)

\* The most delta nodes between two checkpoints.
MaxDeltas == IF useNew THEN (Log2(tot) * EpsDen) \div EpsNum ELSE Log2(tot)

\* get_cnt_prime: the counter with the pending delta subtracted.
CntPrime(q) == [x \in Key |-> IF q.cnt[x] < q.delta THEN 0 ELSE q.cnt[x] - q.delta]

TotAtLastChkpt == IF chkpts = <<>> THEN 0 ELSE Last(chkpts).tot

Negated(c) == [x \in Key |-> -c[x]]

\* What an update works on, as one value: it passes through the end of the
\* old timestamp before the arrival is counted.
Now == [sk |-> sk, chkpts |-> chkpts, num |-> numDeltas, snap |-> snap, ctr |-> ctr]

\* A checkpoint of the sketch q, from which everything is recorded.
Checkpointed(q, c) ==
  [sk     |-> q,
   chkpts |-> Append(chkpts, [ts |-> lastTs, tot |-> tot, cnt |-> q.cnt, deltas |-> <<>>]),
   num    |-> 0,
   snap   |-> [x \in Key |-> IF x \in InTable(q.cnt)
                             THEN [in |-> TRUE, cnt |-> q.cnt[x], tot |-> tot]
                             ELSE Unrecorded],
   ctr    |-> c]

\* Variant: the nodes carry the timestamp before the one they close.
ChainedEarly(q, batch, num, c) ==
  [sk     |-> q,
   chkpts |-> IF DOMAIN batch = {} THEN chkpts
              ELSE [chkpts EXCEPT ![Len(chkpts)].deltas =
                      Append(@, [ts |-> lastTs - 1, tot |-> tot, new |-> batch])],
   num    |-> num,
   snap   |-> [x \in Key |-> IF x \notin DOMAIN batch THEN snap[x]
                             ELSE IF batch[x] = 0 THEN Unrecorded
                             ELSE [in |-> TRUE, cnt |-> batch[x], tot |-> tot]],
   ctr    |-> c]

\* The delta nodes of one timestamp; a node with count 0 says the key is gone.
Chained(q, batch, num, c) ==
  [sk     |-> q,
   chkpts |-> IF DOMAIN batch = {} THEN chkpts
              ELSE [chkpts EXCEPT ![Len(chkpts)].deltas =
                      Append(@, [ts |-> lastTs, tot |-> tot, new |-> batch])],
   num    |-> num,
   snap   |-> [x \in Key |-> IF x \notin DOMAIN batch THEN snap[x]
                             ELSE IF batch[x] = 0 THEN Unrecorded
                             ELSE [in |-> TRUE, cnt |-> batch[x], tot |-> tot]],
   ctr    |-> c]

-----------------------------------------------------------------------------
(* The end of a timestamp, update_old                                      *)

\* Variant: the lower limit is one too low.
OutOfRangeLoose(x, cnt) ==
  IF snap[x].in
  THEN \/ cnt[x] + Allow(snap[x].tot) + 1 < snap[x].cnt
       \/ cnt[x] > snap[x].cnt + Allow(snap[x].tot)
  ELSE cnt[x] > Allow(TotAtLastChkpt)

\* A counter that has to be recorded again.
OutOfRange(x, cnt) ==
  IF snap[x].in
  THEN \/ cnt[x] + Allow(snap[x].tot) < snap[x].cnt
       \/ cnt[x] > snap[x].cnt + Allow(snap[x].tot)
  ELSE cnt[x] > Allow(TotAtLastChkpt)

CloseOld ==
  LET q == ResetDelta(sk)
      vanished == {x \in Key \ InTable(q.cnt) : snap[x].in}
      moved == {x \in InTable(q.cnt) : OutOfRange(x, q.cnt)}
      num == numDeltas + Cardinality(vanished) + Cardinality(moved)
  IN IF chkpts = <<>> \/ num > MaxDeltas THEN Checkpointed(q, ctr)
     ELSE Chained(q, [x \in vanished \cup moved |-> q.cnt[x]], num, ctr)

-----------------------------------------------------------------------------
(* The end of a timestamp, update_new                                      *)

\* Variant: a counter one above its limit is left alone.
AboveRangeLoose(c1, d) == c1 > d + 1

AboveRange(c1, d) == c1 > d
BelowRange(c2, d) == c2 < d

\* A loop state st is the counters, the keys recorded so far and whether the
\* limit on delta nodes was hit.  One turn of either loop records x.
Record(st, x, d) ==
  IF numDeltas + Cardinality(st.batch) + 1 > MaxDeltas THEN [st EXCEPT !.full = TRUE]
  ELSE LET c1 == [st.c1 EXCEPT ![x] = d - Allow(tot)]
           c2 == [st.c2 EXCEPT ![x] = d + Allow(tot)]
       IN [st EXCEPT !.c1 = c1, !.c2 = c2, !.batch = @ \cup {x},
             !.heap1 = MarkUpdated(@, Negated(c1), Position(@, x)),
             !.heap2 = MarkUpdated(@, c2, Position(@, x))]

AboveTurn(st, d) ==
  IF ~st.full /\ AboveRange(st.c1[st.heap1[1]], d) THEN Record(st, st.heap1[1], d) ELSE st

BelowTurn(st, d) ==
  IF ~st.full /\ BelowRange(st.c2[st.heap2[1]], d) THEN Record(st, st.heap2[1], d) ELSE st

\* The while loops over the two heap tops, as the states after i turns.  Each
\* turn takes a counter back into its range, so there are at most as many
\* turns as counters.
RecordAbove(start, d) ==
  LET turn[i \in 0 .. Len(start.heap1)] ==
        IF i = 0 THEN start ELSE AboveTurn(turn[i - 1], d)
  IN turn[Len(start.heap1)]

RecordBelow(start, d) ==
  LET turn[i \in 0 .. Len(start.heap2)] ==
        IF i = 0 THEN start ELSE BelowTurn(turn[i - 1], d)
  IN turn[Len(start.heap2)]

\* With no counter left the loops read slot 0 of an empty vector, where the
\* pointer to the counter that was removed last still is.  That one is never
\* above its range; if it is below, a second deletion node is made for it.
Phantoms ==
  IF ctr.heap2 = <<>> /\ \E x \in ctr.gone : BelowRange(ctr.c2[x], ctr.sub + sk.delta)
  THEN {0, 1} ELSE {0}

\* Variant: m_sub_amount survives the checkpoint.
RestartedCtrKeepsSub(st) ==
  [sub   |-> ctr.sub,
   c1    |-> [x \in Key |-> IF x \in ToSet(st.heap1) THEN -Allow(tot) ELSE 0],
   c2    |-> [x \in Key |-> IF x \in ToSet(st.heap1) THEN Allow(tot) ELSE 0],
   heap1 |-> st.heap1, heap2 |-> st.heap2, gone |-> {}]

\* make_checkpoint: all counters start from the recorded values again.
RestartedCtr(st) ==
  [sub   |-> 0,
   c1    |-> [x \in Key |-> IF x \in ToSet(st.heap1) THEN -Allow(tot) ELSE 0],
   c2    |-> [x \in Key |-> IF x \in ToSet(st.heap1) THEN Allow(tot) ELSE 0],
   heap1 |-> st.heap1, heap2 |-> st.heap2, gone |-> {}]

\* The counters when delta nodes were enough: the deleted ones are freed.
ChainedCtr(st) ==
  [sub   |-> ctr.sub, c1 |-> st.c1,
   c2    |-> [x \in Key |-> IF x \in ctr.gone THEN 0 ELSE st.c2[x]],
   heap1 |-> st.heap1, heap2 |-> st.heap2, gone |-> {}]

CloseNew(phantom) ==
  LET d == ctr.sub + sk.delta
      start == [c1 |-> ctr.c1, c2 |-> ctr.c2, heap1 |-> ctr.heap1,
                heap2 |-> ctr.heap2, batch |-> {}, full |-> FALSE]
      st == RecordBelow(RecordAbove(start, d), d)
      recorded == st.batch \cup ctr.gone
      num == numDeltas + Cardinality(recorded) + phantom
  IN IF chkpts = <<>> THEN Checkpointed(ResetDelta(sk), RestartedCtr(start))
     ELSE IF st.full \/ num > MaxDeltas
     THEN Checkpointed(ResetDelta(sk), RestartedCtr(st))
     ELSE Chained(sk, [x \in recorded |-> CntPrime(sk)[x]], num, ChainedCtr(st))

-----------------------------------------------------------------------------
(* Counting an arrival                                                     *)

CountOld(now, x, c) == [now EXCEPT !.sk = UpdateImpl(@, x, c)]

\* The items of gone leave the heap h one by one.
RemoveAll(h, key, gone) ==
  LET left[i \in 0 .. Len(gone)] ==
        IF i = 0 THEN h ELSE HeapRemove(left[i - 1], key, Position(left[i - 1], gone[i]))
  IN left[Len(gone)]

\* Variant: every dropped counter waits, also one that is not recorded.
DropCountersKeepsAll(ct, dropped, recorded) ==
  [ct EXCEPT
    !.heap1 = RemoveAll(@, Negated(ct.c1), dropped),
    !.heap2 = RemoveAll(@, ct.c2, dropped),
    !.c1 = [x \in Key |-> IF x \in ToSet(dropped) THEN 0 ELSE @[x]],
    !.c2 = [x \in Key |-> IF x \in ToSet(dropped) \ recorded THEN 0 ELSE @[x]],
    !.gone = @ \cup ToSet(dropped)]

\* The counters of the keys the sketch dropped leave the heaps, in the order
\* of the deleted list; those that are recorded wait in m_deleted_counters.
DropCounters(ct, dropped, recorded) ==
  [ct EXCEPT
    !.heap1 = RemoveAll(@, Negated(ct.c1), dropped),
    !.heap2 = RemoveAll(@, ct.c2, dropped),
    !.c1 = [x \in Key |-> IF x \in ToSet(dropped) THEN 0 ELSE @[x]],
    !.c2 = [x \in Key |-> IF x \in ToSet(dropped) \ recorded THEN 0 ELSE @[x]],
    !.gone = @ \cup (ToSet(dropped) \cap recorded)]

\* Variant: a deleted counter comes back as if it had never been recorded.
RangeBaseForgets(ct, sn, cps, x) ==
  [cnt |-> 0, tot |-> IF cps = <<>> THEN 0 ELSE Last(cps).tot]

\* The recorded value the range of a new counter of x starts from.
RangeBase(ct, sn, cps, x) ==
  IF x \in ct.gone THEN [cnt |-> sn[x].cnt, tot |-> sn[x].tot]
  ELSE [cnt |-> 0, tot |-> IF cps = <<>> THEN 0 ELSE Last(cps).tot]

AddCounter(ct, x, level, base) ==
  LET c1 == [ct.c1 EXCEPT ![x] = level - base.cnt - Allow(base.tot)]
      c2 == [ct.c2 EXCEPT ![x] = level - base.cnt + Allow(base.tot)]
  IN [ct EXCEPT !.c1 = c1, !.c2 = c2, !.gone = @ \ {x},
                !.heap1 = HeapInsert(@, Negated(c1), x),
                !.heap2 = HeapInsert(@, c2, x)]

\* Both heaps are repaired upwards, also the min heap of the raised c2.
RaiseCounter(ct, x, c) ==
  LET c1 == [ct.c1 EXCEPT ![x] = @ + c]
      c2 == [ct.c2 EXCEPT ![x] = @ + c]
  IN [ct EXCEPT !.c1 = c1, !.c2 = c2,
                !.heap1 = PushUp(@, Negated(c1), Position(@, x)),
                !.heap2 = PushUp(@, c2, Position(@, x))]

\* dropped is the deleted list of update_impl.
CountNew(now, x, c, dropped) ==
  LET q == now.sk
      r == UpdateImpl(q, x, c)
      sub == now.ctr.sub + q.cnt[x] + c - r.cnt[x] + q.delta - r.delta
      ct == [DropCounters(now.ctr, dropped, {y \in Key : now.snap[y].in}) EXCEPT !.sub = sub]
  IN [now EXCEPT
       !.sk = r,
       !.ctr = IF r.cnt[x] = 0 THEN ct
               ELSE IF q.cnt[x] > 0 THEN RaiseCounter(ct, x, c)
               ELSE AddCounter(ct, x, r.cnt[x] + sub,
                               RangeBase(ct, now.snap, now.chkpts, x))]

DeletedLists(q, x, c) ==
  SetToSeqs(InTable(q.cnt) \ InTable(UpdateImpl(q, x, c).cnt))

-----------------------------------------------------------------------------
(* The operations                                                          *)

Become(now) ==
  /\ sk' = now.sk /\ chkpts' = now.chkpts /\ numDeltas' = now.num
  /\ snap' = now.snap /\ ctr' = now.ctr

Count(now, x, c) ==
  /\ IF useNew THEN \E l \in DeletedLists(now.sk, x, c) : Become(CountNew(now, x, c, l))
     ELSE Become(CountOld(now, x, c))
  /\ tot' = tot + c
  /\ exact' = [exact EXCEPT ![x] = @ + c]
  /\ UNCHANGED useNew

\* update(ts, x, c) within the running timestamp, or the very first one.
UpdateSameTs(x, c) ==
  /\ tot + c <= MaxTotal
  /\ lastTs' = IF lastTs = 0 THEN 1 ELSE lastTs
  /\ Count(Now, x, c)
  /\ UNCHANGED closed

\* update(ts, x, c) at a later timestamp.
UpdateNextTs(x, c) ==
  /\ lastTs > 0 /\ lastTs < MaxTs /\ tot + c <= MaxTotal
  /\ IF useNew THEN \E phantom \in Phantoms : Count(CloseNew(phantom), x, c)
     ELSE Count(CloseOld, x, c)
  /\ lastTs' = lastTs + 1
  /\ closed' = Append(closed, [exact |-> exact, mg |-> CntPrime(sk), tot |-> tot])

Clear ==
  /\ sk' = EmptySketch /\ tot' = 0 /\ lastTs' = 0
  /\ chkpts' = <<>> /\ numDeltas' = 0
  /\ snap' = [x \in Key |-> Unrecorded]
  /\ ctr' = EmptyCtr
  /\ exact' = NoCounts /\ closed' = <<>>
  /\ UNCHANGED useNew

Next ==
  \/ \E x \in Key, c \in Weights : UpdateSameTs(x, c) \/ UpdateNextTs(x, c)
  \/ Clear

Spec == Init /\ [][Next]_vars

-----------------------------------------------------------------------------
(* Queries about the past: create_tmp_cnt_at                               *)

\* The last record of x at or before ts: a node of the chain that starts at
\* the last checkpoint by then, or the checkpoint itself.
RecordAt(ts, x) ==
  LET chkpt == chkpts[Max({j \in DOMAIN chkpts : chkpts[j].ts <= ts})]
      nodes == {j \in DOMAIN chkpt.deltas : /\ chkpt.deltas[j].ts <= ts
                                           /\ x \in DOMAIN chkpt.deltas[j].new}
      newest == chkpt.deltas[Max(nodes)]
  IN IF nodes = {} THEN [cnt |-> chkpt.cnt[x], tot |-> chkpt.tot]
     ELSE [cnt |-> newest.new[x], tot |-> newest.tot]

\* The entry of x in m_tmp_cnt_map, 0 for none.
TmpCnt(ts, x) ==
  LET r == RecordAt(ts, x) IN IF r.cnt > Allow(r.tot) THEN r.cnt - Allow(r.tot) ELSE 0

Closed == 1 .. Len(closed)

-----------------------------------------------------------------------------
(* Properties                                                              *)

\* The answer about a past timestamp is never above the true count at its
\* end, and below it by at most the sketch's own error (1/k of the weight
\* seen by then) plus twice the drift that goes unrecorded, so by at most
\* eps times the weight, however many counters were dropped, recorded or
\* left alone since the checkpoint.
PastWithinEps ==
  \A ts \in Closed, x \in Key :
    LET short == closed[ts].exact[x] - TmpCnt(ts, x)
    IN short >= 0 /\ K * (short - 2 * Allow(closed[ts].tot)) <= closed[ts].tot

\* The record of a counter is within eps/3 of the weight seen at that record
\* of what the sketch held at the end of every later timestamp it answers
\* for; update_new only ensures that the counter did not rise above it.
PastTracksSketch ==
  \A ts \in Closed, x \in Key :
    LET r == RecordAt(ts, x)
    IN /\ closed[ts].mg[x] <= r.cnt + Allow(r.tot)
       /\ ~useNew => r.cnt <= closed[ts].mg[x] + Allow(r.tot)

\* The incrementally maintained c1 and c2 of every counter are what the
\* comment on struct Counter says: the counter with all pending subtractions
\* added, minus the recorded value, minus or plus the allowed drift; both
\* heaps hold just the counters of the table; and the max heap over c1 is
\* ordered.  The min heap over c2 is not: it is repaired in the wrong
\* direction after a hit, which FallsRecorded shows.
CountersInSync ==
  useNew =>
    /\ ToSet(ctr.heap1) = InTable(sk.cnt) /\ ToSet(ctr.heap2) = InTable(sk.cnt)
    /\ \A x \in InTable(sk.cnt) :
         LET base == IF snap[x].in THEN snap[x] ELSE [cnt |-> 0, tot |-> TotAtLastChkpt]
         IN /\ ctr.c1[x] = sk.cnt[x] + ctr.sub - base.cnt - Allow(base.tot)
            /\ ctr.c2[x] = sk.cnt[x] + ctr.sub - base.cnt + Allow(base.tot)
    /\ IsHeap(ctr.heap1, Negated(ctr.c1))

\* The 2 * (k - 1) preallocated counters are never used up: those of the
\* table, plus those of dropped keys that are still recorded, which wait for
\* the end of the timestamp.
CountersSuffice ==
  /\ Len(ctr.heap1) + Cardinality(ctr.gone) <= 2 * (K - 1)
  /\ ctr.gone \cap ToSet(ctr.heap1) = {}

\* The comment on struct Counter, for the lower limit: a counter that fell
\* below its range is recorded at the end of that timestamp.
FallsRecorded ==
  \A ts \in Closed, x \in Key :
    LET r == RecordAt(ts, x) IN r.cnt <= closed[ts].mg[x] + Allow(r.tot)

\* The comment on m_tmp_cnt_map: its entries are at most 2 * eps/3 * N below
\* the true counts.
PastWithinTwoThirds ==
  \A ts \in Closed, x \in Key :
    EpsDen * (closed[ts].exact[x] - TmpCnt(ts, x)) <= 2 * EpsNum * closed[ts].tot
=============================================================================
