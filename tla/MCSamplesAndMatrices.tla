------------------------ MODULE MCSamplesAndMatrices ------------------------
(* Constants of the model-checked instances of SamplesAndMatrices. *)
EXTENDS SamplesAndMatrices, Sequences

\* The old implementation with samples of 1, 2 and 3.
OldConfigs ==
  {[impl |-> 0, sample_size |-> s, frequency |-> FALSE, values |-> {1},
    weights |-> 1 .. 6, ties |-> FALSE, arrivals |-> 6, until |-> 2] : s \in 1 .. 3}

\* The batched one: compaction at every second arrival, and at the eighth
\* with equal weights.
BatchedConfigs ==
  {[impl |-> 2, sample_size |-> 1, frequency |-> FALSE, values |-> {1},
    weights |-> 1 .. 6, ties |-> FALSE, arrivals |-> 6, until |-> 2],
   [impl |-> 2, sample_size |-> 2, frequency |-> FALSE, values |-> {1},
    weights |-> 1 .. 3, ties |-> TRUE, arrivals |-> 8, until |-> 2]}

FrequencyConfigs ==
  {[impl |-> 2, sample_size |-> 2, frequency |-> TRUE, values |-> {1, 2},
    weights |-> 1 .. 3, ties |-> FALSE, arrivals |-> 3, until |-> 3]}

Rows(axes, norms) == [axis : axes, norm : norms]

\* For the samples only the norms matter; perhaps a zero row first.
FewRows == <<Rows({1}, {0, 1, 2})>> \o <<Rows({1, 2}, {1})>> \o [i \in 1 .. 3 |-> Rows({1}, {1})]

\* A heavy row, then enough light ones to fill the six lines of C.
ManyRows == <<Rows({1}, {0, 1, 16}), Rows({2}, {1, 16})>>
            \o [i \in 1 .. 6 |-> Rows({1, 2, 3}, {1})]

AllConfigs == OldConfigs \cup BatchedConfigs \cup FrequencyConfigs
=============================================================================
