------------------------- MODULE SamplesAndMatrices -------------------------
(***************************************************************************)
(* A sampling or matrix sketch of any class, as the driver holds it:       *)
(* SAMPLING and SAMPLING_BITP are fed values, NORM_SAMPLING,               *)
(* NORM_SAMPLING_WR and PFD rows, together with the exact matrix and the   *)
(* driver's norm.  EXACT_MS stands for these alone, with lines the driver  *)
(* cannot read.  Fields several classes declare are the same variables.    *)
(***************************************************************************)
EXTENDS Integers, FiniteSets, Sequences

CONSTANTS
  MaxTs,
  SampleSizes, Value, MaxSeen, MaxCount,       \* of SamplingSketch
  Configs,                                     \* of SamplingBITP
  Axis, NormSampleSizes, RowWeights, HalfSizes, RowsAgain,
  MatrixMaxTs, SampledRowsAt,                  \* of the matrix sketches
  DirectedMaxTs, DirectedRowsAt                \* the same for PFD

ASSUME SamplersAssumption ==
  /\ SampleSizes \subseteq Nat \ {0} /\ NormSampleSizes \subseteq Nat \ {0}
  /\ {MaxTs, MatrixMaxTs, DirectedMaxTs, MaxSeen, MaxCount, RowsAgain} \subseteq Nat
  /\ \A c \in Configs : c.impl \in {0, 2} /\ c.sample_size \in Nat \ {0}

ASSUME HalfSizesAssumption ==   \* S[l - 1] exists
  /\ IsFiniteSet(Axis) /\ Axis = 1 .. Cardinality(Axis)
  /\ HalfSizes \subseteq 1 .. Cardinality(Axis)

ASSUME RowsAssumption ==        \* a row is a multiple of a unit vector
  {SampledRowsAt, DirectedRowsAt} \subseteq Seq(SUBSET [axis : Axis, norm : Nat])

VARIABLES
  class,
  stream,                                                  \* all classes
  sample_size, reservoir,                                  \* sketches of slots
  seen, last_ts,                                           \* some of them
  tmp_cnt_ts, tmp_cnt_map, ts2cnt_map,                     \* SAMPLING*
  frequency, freed, aborted, past, asked,                  \* SAMPLING
  config, old, batch, cleared,                             \* SAMPLING_BITP
  exact_last_ts, cur_matrix, matrices, fnorm_sqr, astray,  \* exact matrix
  weight_min_heap,                                         \* NORM_SAMPLING
  tot_weight, sqr_fnorms,                                  \* NORM_SAMPLING_WR
  l, AF2, nxt_target, C, partial_ckpt, full_ckpt, reused   \* PFD

ofSlots == <<sample_size, reservoir>>
ofFrequencies == <<tmp_cnt_ts, tmp_cnt_map, ts2cnt_map>>
ofATTP == <<frequency, freed, past, asked>>
ofBITP == <<config, old, batch, cleared>>
ofExact == <<exact_last_ts, cur_matrix, matrices, fnorm_sqr, astray>>
ofWR == <<tot_weight, sqr_fnorms>>
ofFD == <<l, AF2, nxt_target, C, partial_ckpt, full_ckpt, reused>>
ofOne == <<seen, last_ts, aborted, weight_min_heap>>
vars == <<class, stream, ofSlots, ofFrequencies, ofATTP, ofBITP, ofExact, ofWR, ofFD, ofOne>>

ATTP == INSTANCE SamplingSketch WITH MaxWeight <- MaxCount
BITP == INSTANCE SamplingBITP
EM == INSTANCE ExactMatrix WITH RowsAt <- SampledRowsAt, MaxTs <- MatrixMaxTs
NS == INSTANCE NormSampling WITH RowsAt <- SampledRowsAt, MaxTs <- MatrixMaxTs
WR == INSTANCE NormSamplingWR WITH RowsAt <- SampledRowsAt, MaxTs <- MatrixMaxTs
FD == INSTANCE FrequentDirections WITH RowsAt <- DirectedRowsAt, MaxTs <- DirectedMaxTs

-----------------------------------------------------------------------------
\* The fields of the classes a sketch does not have.
NoSlots == sample_size = 0 /\ reservoir = <<>>
NoFrequencies == tmp_cnt_ts = 0 /\ tmp_cnt_map = <<>> /\ ts2cnt_map = <<>>
NoATTP == frequency = FALSE /\ freed = {} /\ past = <<>> /\ asked = 0
NoBITP == config = 0 /\ old = 0 /\ batch = 0 /\ cleared = FALSE
NoExact == /\ exact_last_ts = 0 /\ cur_matrix = <<>> /\ matrices = <<>>
           /\ fnorm_sqr = <<>> /\ astray = FALSE
NoWR == tot_weight = 0 /\ sqr_fnorms = <<>>
NoFD == /\ l = 0 /\ AF2 = 0 /\ nxt_target = 0 /\ C = <<>>
        /\ partial_ckpt = <<>> /\ full_ckpt = <<>> /\ reused = FALSE

Init ==
  \/ /\ class = "SAMPLING" /\ ATTP!Init
     /\ NoBITP /\ NoExact /\ NoWR /\ NoFD /\ weight_min_heap = <<>>
  \/ /\ class = "SAMPLING_BITP" /\ BITP!Init
     /\ NoSlots /\ NoATTP /\ NoExact /\ NoWR /\ NoFD
     /\ seen = 0 /\ aborted = FALSE /\ weight_min_heap = <<>>
  \/ /\ class = "EXACT_MS" /\ EM!InitExact
     /\ NoSlots /\ NoFrequencies /\ NoATTP /\ NoBITP /\ NoWR /\ NoFD
     /\ seen = 0 /\ last_ts = 0 /\ aborted = FALSE /\ weight_min_heap = <<>>
  \/ /\ class = "NORM_SAMPLING" /\ NS!Init
     /\ NoFrequencies /\ NoATTP /\ NoBITP /\ NoWR /\ NoFD
     /\ last_ts = 0 /\ aborted = FALSE
  \/ /\ class = "NORM_SAMPLING_WR" /\ WR!Init
     /\ NoFrequencies /\ NoATTP /\ NoBITP /\ NoFD
     /\ seen = 0 /\ aborted = FALSE /\ weight_min_heap = <<>>
  \/ /\ class = "PFD" /\ FD!Init
     /\ NoSlots /\ NoFrequencies /\ NoATTP /\ NoBITP /\ NoWR
     /\ seen = 0 /\ last_ts = 0 /\ weight_min_heap = <<>>

Next ==
  /\ UNCHANGED class
  /\ \/ /\ class = "SAMPLING" /\ ATTP!Next
        /\ UNCHANGED <<ofBITP, ofExact, ofWR, ofFD, weight_min_heap>>
     \/ /\ class = "SAMPLING_BITP" /\ BITP!Next
        /\ UNCHANGED <<ofSlots, ofATTP, ofExact, ofWR, ofFD, seen, aborted, weight_min_heap>>
     \/ /\ class = "EXACT_MS" /\ EM!NextExact
        /\ UNCHANGED <<ofSlots, ofFrequencies, ofATTP, ofBITP, ofWR, ofFD, ofOne>>
     \/ /\ class = "NORM_SAMPLING" /\ NS!Next
        /\ UNCHANGED <<ofFrequencies, ofATTP, ofBITP, ofWR, ofFD, last_ts, aborted>>
     \/ /\ class = "NORM_SAMPLING_WR" /\ WR!Next
        /\ UNCHANGED <<ofFrequencies, ofATTP, ofBITP, ofFD, seen, aborted, weight_min_heap>>
     \/ /\ class = "PFD" /\ FD!Next
        /\ UNCHANGED <<ofSlots, ofFrequencies, ofATTP, ofBITP, ofWR, seen, last_ts,
                       weight_min_heap>>

Spec == Init /\ [][Next]_vars

-----------------------------------------------------------------------------
(* Properties: those of the classes, each about its own sketches           *)

\* Whatever random slots the arrivals went to, the sample of a past time
\* (last_of on every slot) stays what it was, and so do the rows drawn.
PastSampleKept ==
  /\ class = "SAMPLING" => ATTP!PastSampleKept
  /\ class = "NORM_SAMPLING_WR" => WR!PastRowsKept

\* An answer about a timestamp that is over is right and stays cached right.
PastFrequenciesHold == class = "SAMPLING" => ATTP!PastFrequenciesHold

\* The sample of every suffix is its heaviest arrivals, in both
\* implementations of the back-in-time sketch.
SuffixSampled == class = "SAMPLING_BITP" => BITP!SuffixSampled

\* The old implementation keeps what it must, no more, and counts it; the
\* batched one stays within the assertion on its length.
SuffixStoreExact ==
  class = "SAMPLING_BITP" => BITP!MinListsExact /\ BITP!BatchBounded

\* A priority sample as of any time is the heaviest rows of that time.
HeaviestSampled == class = "NORM_SAMPLING" => NS!HeaviestSampled

\* The exact matrix and the driver's exact norm agree with the rows.
BaselinesAgree == class = "EXACT_MS" => EM!BaselinesAgree

\* No direction outside the checkpoints of PFD outgrows its share unseen.
ShareKept == class = "PFD" => FD!ShareKept

\* A covariance answered by PFD about any time is within two shares.
CovarianceWithin == class = "PFD" => FD!CovarianceWithin

\* A back-in-time frequency is that of the interval asked about.
FrequencyOfInterval == class = "SAMPLING_BITP" => BITP!FrequencyOfInterval

\* A sampled covariance has the norm of the interval asked about.
NormOfInterval == class = "NORM_SAMPLING_WR" => WR!NormOfInterval
=============================================================================
