--------------------------- MODULE SamplingSketch ---------------------------
(***************************************************************************)
(* SamplingSketch of sampling.cpp: a reservoir sample that remembers what  *)
(* each slot held at every past time, and the frequencies estimated from   *)
(* it.  An item carries the number of its arrival, which the code does not *)
(* keep: it tells equal values apart and shows what a slot held.           *)
(***************************************************************************)
EXTENDS TsCounts, FiniteSets

CONSTANTS
  SampleSizes,   \* the values of SAMPLING.sample_size tried
  Value,
  MaxTs,         \* bound on timestamps
  MaxSeen,       \* bound on arrivals
  MaxWeight      \* bound on the count of one update

VARIABLES
  sample_size,   \* m_sample_size
  frequency,     \* m_enable_frequency_estimation
  seen,          \* m_seen
  reservoir,     \* m_reservoir: the versions of each slot, oldest first
  freed,         \* slots whose m_items points to memory reset() has freed
  last_ts,       \* m_last_ts
  tmp_cnt_ts,    \* m_tmp_cnt_ts, 0 for none
  tmp_cnt_map,   \* m_tmp_cnt_map
  ts2cnt_map,    \* m_ts2cnt_map
  aborted,       \* freed memory was freed again
  stream,        \* history: the arrivals since the last clear()
  past,          \* history: the sample at the end of each timestamp
  asked          \* history: the newest timestamp when tmp_cnt_map was filled

vars == <<sample_size, frequency, seen, reservoir, freed, last_ts, tmp_cnt_ts,
          tmp_cnt_map, ts2cnt_map, aborted, stream, past, asked>>

Slot == 1 .. sample_size
None == [value |-> 0, arrival |-> 0]
NoCounts == [v \in Value |-> 0]
Newest == IF stream = <<>> THEN 0 ELSE Last(stream).ts

Init ==
  /\ sample_size \in SampleSizes
  /\ frequency \in BOOLEAN
  /\ seen = 0
  /\ reservoir = [i \in Slot |-> <<>>]
  /\ freed = {}
  /\ last_ts = 0
  /\ tmp_cnt_ts = 0 /\ tmp_cnt_map = NoCounts /\ ts2cnt_map = <<>>
  /\ aborted = FALSE
  /\ stream = <<>> /\ past = <<>> /\ asked = 0

\* Variant: the slot forgets what it held.
TakenOver(r, n, item, slot) ==
  LET at == IF n < sample_size THEN n + 1 ELSE slot
  IN IF at \in Slot THEN [r EXCEPT ![at] = <<item>>] ELSE r

\* One turn of update_loop with n items seen: the first ones fill the slots,
\* later ones go to a random slot or, above sample_size, to none.
Taken(r, n, item, slot) ==
  LET at == IF n < sample_size THEN n + 1 ELSE slot
  IN IF at \in Slot THEN [r EXCEPT ![at] = Append(@, item)] ELSE r

\* List::last_of
LastOf(versions, ts) ==
  LET i == LastAt(versions, ts, LAMBDA e : e.ts) IN IF i = 0 THEN None ELSE versions[i]

\* The items the slots held, of those that held one.
SampleAt(ts) ==
  [i \in {j \in Slot : LastOf(reservoir[j], ts) # None} |-> LastOf(reservoir[i], ts)]

\* update_loop: c turns, each with its item and its slot.
TakenAll(items, slots, c) ==
  LET r[j \in 0 .. c] ==
        IF j = 0 THEN reservoir ELSE Taken(r[j - 1], seen + j - 1, items[j], slots[j])
  IN r[c]

Update(ts, value, c) ==
  LET items == [j \in 1 .. c |-> [ts |-> ts, value |-> value, arrival |-> Len(stream) + j]]
  IN \E slots \in [1 .. c -> 1 .. sample_size + 1] :
       LET r == TakenAll(items, slots, c)
           touched == {i \in Slot : r[i] # reservoir[i]}
           now == [i \in Slot |-> IF r[i] = <<>> THEN None ELSE Last(r[i])]
       IN /\ ~aborted
          /\ ts >= Newest /\ ts > 0
          /\ seen + c <= MaxSeen
          /\ \A j \in 1 .. c : seen + j <= sample_size => slots[j] = 1
          /\ aborted' = (touched \cap freed # {})
          /\ seen' = seen + c
          /\ reservoir' = r
          /\ IF frequency
             THEN /\ ts2cnt_map' = Recorded(ts2cnt_map, last_ts, ts, seen)
                  /\ last_ts' = ts
                  /\ IF ts = tmp_cnt_ts THEN tmp_cnt_ts' = 0 /\ tmp_cnt_map' = NoCounts
                     ELSE UNCHANGED <<tmp_cnt_ts, tmp_cnt_map>>
             ELSE UNCHANGED <<ts2cnt_map, last_ts, tmp_cnt_ts, tmp_cnt_map>>
          /\ stream' = stream \o items
          /\ past' = [t \in 1 .. ts |->
                        IF t = ts THEN now
                        ELSE IF t \in DOMAIN past THEN past[t]
                        ELSE IF past = <<>> THEN [i \in Slot |-> None] ELSE Last(past)]
  /\ UNCHANGED <<sample_size, frequency, freed, asked>>

\* What estimate_frequency computes when nothing is cached for ts.
Estimates(ts) ==
  LET sample == SampleAt(ts)
  IN [v \in Value |->
        IF DOMAIN sample = {} THEN 0
        ELSE Scaled(CountsOf(sample, Value)[v], TotalAt(ts2cnt_map, ts),
                    Cardinality(DOMAIN sample))]

EstimateFrequency(ts) ==
  /\ ~aborted /\ frequency /\ ts # tmp_cnt_ts
  /\ tmp_cnt_ts' = ts /\ tmp_cnt_map' = Estimates(ts)
  /\ asked' = Newest
  /\ UNCHANGED <<sample_size, frequency, seen, reservoir, freed, last_ts, ts2cnt_map,
                 aborted, stream, past>>

\* reset() frees each list's arrays and forgets their size, not the pointers.
Clear ==
  /\ ~aborted
  /\ freed' = freed \cup {i \in Slot : reservoir[i] # <<>>}
  /\ aborted' = (freed # {})
  /\ reservoir' = [i \in Slot |-> <<>>]
  /\ seen' = 0
  /\ IF frequency
     THEN last_ts' = 0 /\ tmp_cnt_ts' = 0 /\ tmp_cnt_map' = NoCounts /\ ts2cnt_map' = <<>>
     ELSE UNCHANGED <<last_ts, tmp_cnt_ts, tmp_cnt_map, ts2cnt_map>>
  /\ stream' = <<>> /\ past' = <<>>
  /\ UNCHANGED <<sample_size, frequency, asked>>

Next ==
  \/ \E ts \in 1 .. MaxTs, v \in Value, c \in 1 .. MaxWeight : Update(ts, v, c)
  \/ \E ts \in 1 .. MaxTs : EstimateFrequency(ts)
  \/ Clear

Spec == Init /\ [][Next]_vars

-----------------------------------------------------------------------------
(* Properties                                                              *)

\* The arrivals up to ts, and how many they are.
Upto(ts) == [j \in {k \in 1 .. Len(stream) : stream[k].ts <= ts} |-> stream[j]]
Arrived(ts) == Cardinality(DOMAIN Upto(ts))

\* PastSampleKept: however many updates followed, the slots as of a past
\* time are exactly the reservoir that existed then, and they hold as many
\* distinct arrivals of that time as the reservoir has room for.
PastSampleKept ==
  ~aborted =>
    \A ts \in DOMAIN past :
      LET then == [i \in Slot |-> LastOf(reservoir[i], ts)]
          arrivals == {then[i].arrival : i \in Slot} \ {0}
          n == Arrived(ts)
      IN /\ then = past[ts]
         /\ Cardinality(arrivals) = IF n < sample_size THEN n ELSE sample_size
         /\ arrivals \subseteq 1 .. n

\* PastFrequenciesHold: an answer about a timestamp that is over, cached or
\* not, is the sample of that time scaled to the number of its arrivals; it is
\* the exact count when the reservoir held them all.
PastFrequenciesHold ==
  frequency /\ ~aborted =>
    /\ \A ts \in 1 .. last_ts - 1 :
         LET n == Arrived(ts) IN
         /\ n > 0 => TotalAt(ts2cnt_map, ts) = n
         /\ n <= sample_size => Estimates(ts) = CountsOf(Upto(ts), Value)
    /\ tmp_cnt_ts \in 1 .. asked - 1 => tmp_cnt_map = Estimates(tmp_cnt_ts)
=============================================================================
