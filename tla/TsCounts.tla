------------------------------ MODULE TsCounts ------------------------------
(***************************************************************************)
(* What both sampling sketches keep for frequency estimation: m_ts2cnt_map,*)
(* the number of items seen when each timestamp was left behind, and the   *)
(* scaling of a sample's counts to such a number.                          *)
(***************************************************************************)
EXTENDS Integers, SequencesExt

\* Variant: recorded under the timestamp that begins.
RecordedUnderNew(map, lastTs, ts, seen) ==
  IF ts = lastTs THEN map ELSE Append(map, <<ts, seen>>)

\* The first update of a timestamp records what was seen up to the one before.
Recorded(map, lastTs, ts, seen) == IF ts = lastTs THEN map ELSE Append(map, <<lastTs, seen>>)

\* The position of the last of the sequence s whose timestamp is not above
\* ts, 0 if there is none: upper_bound minus one.
LastAt(s, ts, TsOf(_)) == Max({0} \cup {i \in 1 .. Len(s) : TsOf(s[i]) <= ts})

TotalAt(map, ts) == map[LastAt(map, ts, LAMBDA e : e[1])][2]

\* std::round(count * (double) total / valid), valid > 0.
Scaled(count, total, valid) == (2 * count * total + valid) \div (2 * valid)

\* How many of the items of a sample have each value.
CountsOf(sample, Value) ==
  [v \in Value |-> Cardinality({i \in DOMAIN sample : sample[i].value = v})]
=============================================================================
