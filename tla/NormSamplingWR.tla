--------------------------- MODULE NormSamplingWR ---------------------------
(***************************************************************************)
(* NormSamplingWRSketch of norm_sampling_wr.cpp: slots that each sample    *)
(* one row with a chance proportional to its squared length.  A slot keeps *)
(* the rows it held; which of several slots owns the copy of a row is left *)
(* out, as all of them are freed together.                                 *)
(***************************************************************************)
EXTENDS ExactMatrix

CONSTANT NormSampleSizes   \* the values of NORM_SAMPLING_WR.sample_size tried

VARIABLES
  sample_size,  \* m_sample_size
  last_ts,      \* m_last_ts
  tot_weight,   \* m_tot_weight
  reservoir,    \* m_reservoir: the versions of each slot, oldest first
  sqr_fnorms    \* m_sqr_fnorms, in the order of its keys

vars == <<exactVars, sample_size, last_ts, tot_weight, reservoir, sqr_fnorms>>

Slot == 1 .. sample_size

Init ==
  /\ InitExact
  /\ sample_size \in NormSampleSizes
  /\ last_ts = 0 /\ tot_weight = 0
  /\ reservoir = [i \in Slot |-> <<>>]
  /\ sqr_fnorms = <<>>

\* Variant: a slot replaces the version of the same timestamp.
AppendedOnce(versions, item) ==
  IF versions # <<>> /\ Last(versions).ts = item.ts THEN versions
  ELSE Append(versions, item)

\* List::append
Appended(versions, item) == Append(versions, item)

\* The slots a row can go to: r < l2_sqr for r random in [0, tot_weight).
Drawn(norm, total) ==
  IF norm = 0 THEN {{}} ELSE IF norm = total THEN {Slot} ELSE SUBSET Slot

Update(ts, row) ==
  LET total == tot_weight + row.norm IN
  \E slots \in Drawn(row.norm, total) :
    LET item == [ts |-> ts, norm |-> row.norm, slots |-> slots, arrival |-> Len(stream) + 1] IN
    /\ tot_weight' = total
    /\ sqr_fnorms' = IF last_ts # ts THEN Append(sqr_fnorms, <<last_ts, total>>)
                     ELSE sqr_fnorms
    /\ last_ts' = ts
    /\ reservoir' = [i \in Slot |-> IF i \in slots THEN Appended(reservoir[i], item)
                                    ELSE reservoir[i]]
    /\ Feed(ts, row, item)
    /\ UNCHANGED sample_size

Clear ==
  /\ last_ts' = 0 /\ tot_weight' = 0
  /\ reservoir' = [i \in Slot |-> <<>>]
  /\ sqr_fnorms' = <<>>
  /\ ClearExact
  /\ UNCHANGED sample_size

Next ==
  \/ \E ts \in 1 .. MaxTs, row \in Row : Update(ts, row)
  \/ Clear

Spec == Init /\ [][Next]_vars

\* List::dvec_last_of, 0 for none: the arrival of the row.
LastOf(i, ts) ==
  LET at == LastAt(reservoir[i], ts, LAMBDA e : e.ts)
  IN IF at = 0 THEN 0 ELSE reservoir[i][at].arrival

NoEntry == -1   \* what upper_bound finds is the end of the map

\* The squared norm get_covariance_matrix scales the sample to.
TotFnormSqr(ts) ==
  LET at == LastAt(sqr_fnorms, ts, LAMBDA e : e[1]) + 1
  IN IF ts >= last_ts THEN tot_weight
     ELSE IF at > Len(sqr_fnorms) THEN NoEntry ELSE sqr_fnorms[at][2]

-----------------------------------------------------------------------------
(* Properties                                                              *)

\* PastRowsKept: the row of a slot as of ts is the last one drawn into it up
\* to ts, and as long as there was any row to draw, every slot has one: the
\* early return of get_covariance_matrix means that nothing was seen.
PastRowsKept ==
  \A ts \in 1 .. Newest, i \in Slot :
    /\ LastOf(i, ts) = Max({0} \cup {j \in 1 .. Len(stream) :
                                       stream[j].ts <= ts /\ i \in stream[j].slots})
    /\ LastOf(i, ts) = 0 <=> \A j \in 1 .. Len(stream) :
                               stream[j].ts <= ts => stream[j].norm = 0

\* NormOfInterval: "Intervals are in the form of (ts_s, ts_e]" (sketch.h): the
\* matrix answered for ts has the squared norm of the rows up to ts.
NormOfInterval ==
  \A ts \in 1 .. Newest : TotFnormSqr(ts) = Trace(ExactAt(ts))
=============================================================================
