------------------------ MODULE PersistentMisraGries ------------------------
(***************************************************************************)
(* A persistent Misra-Gries sketch of any class of pmmg.h, as the driver   *)
(* holds it: created as a ChainMisraGries (CMG), a TreeMisraGries (TMG) or *)
(* a TreeMisraGriesBITP (TMG_BITP), and fed one stream.  Fields that       *)
(* several classes declare are the same variables here.                    *)
(***************************************************************************)
EXTENDS Integers, FiniteSets

CONSTANTS
  Key, K, NoMin, EpsNum, EpsDen,     \* see MGSketch and the classes
  ChainWeights, ChainMaxTotal, ChainMaxTs,              \* of ChainMisraGries
  TreeLevels, TreeMaxTotal, TreeMaxFree, TreeMaxSame,   \* of TreeMisraGries
  BackLevels, BackMaxTs, BackMaxFree, BackMaxHeavy, BackMaxAgain
                                                        \* of TreeMisraGriesBITP

TwoTo[n \in Nat] == IF n = 0 THEN 1 ELSE 2 * TwoTo[n - 1]

ASSUME SketchesAssumption ==
  /\ IsFiniteSet(Key)
  /\ K \in Nat /\ K >= 2 /\ NoMin \in Nat
  /\ EpsNum \in Nat \ {0} /\ EpsDen \in Nat /\ EpsNum < EpsDen
  /\ (K - 1) * EpsNum < EpsDen /\ EpsDen <= K * EpsNum   \* K = ceil(3 / eps)
  /\ ChainWeights \subseteq Nat \ {0}
  /\ {TreeLevels, BackLevels} \subseteq Nat \ {0}        \* no "Too many items":
  /\ 2 * TreeMaxTotal < TwoTo[TreeLevels] /\ BackMaxTs < TwoTo[BackLevels]
  /\ {ChainMaxTotal, ChainMaxTs, TreeMaxTotal, TreeMaxFree, TreeMaxSame,
      BackMaxTs, BackMaxFree, BackMaxHeavy, BackMaxAgain} \subseteq Nat
  /\ ChainMaxTotal < NoMin /\ TreeMaxTotal < NoMin /\ BackMaxTs + BackMaxHeavy < NoMin

VARIABLES
  class,
  lastTs, tot, sk, exact, closed,                       \* all classes
  tree, level, remaining,                               \* both trees
  useNew, chkpts, numDeltas, snap, ctr,                 \* CMG
  target, perNode,                                      \* TMG
  nodes, row, size, tmp, fault, cleared                 \* TMG_BITP

shared == <<lastTs, tot, sk, exact, closed>>
ofTrees == <<tree, level, remaining>>
ofCMG == <<useNew, chkpts, numDeltas, snap, ctr>>
ofTMG == <<target, perNode>>
ofBITP == <<nodes, row, size, tmp, fault, cleared>>
vars == <<class, shared, ofTrees, ofCMG, ofTMG, ofBITP>>

CMG == INSTANCE ChainMisraGries WITH
  Weights <- ChainWeights, MaxTotal <- ChainMaxTotal, MaxTs <- ChainMaxTs
TMG == INSTANCE TreeMisraGries WITH
  Levels <- TreeLevels, MaxTotal <- TreeMaxTotal, MaxFree <- TreeMaxFree,
  MaxSame <- TreeMaxSame
BITP == INSTANCE TreeMisraGriesBITP WITH
  Levels <- BackLevels, MaxTs <- BackMaxTs, MaxFree <- BackMaxFree,
  MaxHeavy <- BackMaxHeavy, MaxAgain <- BackMaxAgain

\* The fields of the classes a sketch does not have.
NoTrees == tree = <<>> /\ level = 0 /\ remaining = 0
NoCMG == useNew = FALSE /\ chkpts = <<>> /\ numDeltas = 0 /\ snap = <<>> /\ ctr = <<>>
NoTMG == target = 0 /\ perNode = 0
NoBITP == /\ nodes = <<>> /\ row = <<>> /\ size = 0 /\ tmp = <<>>
          /\ fault = FALSE /\ cleared = FALSE

Init ==
  \/ class = "CMG" /\ CMG!Init /\ NoTrees /\ NoTMG /\ NoBITP
  \/ class = "TMG" /\ TMG!Init /\ NoCMG /\ NoBITP
  \/ class = "TMG_BITP" /\ BITP!Init /\ NoCMG /\ NoTMG

Next ==
  \/ class = "CMG" /\ CMG!Next /\ UNCHANGED <<class, ofTrees, ofTMG, ofBITP>>
  \/ class = "TMG" /\ TMG!Next /\ UNCHANGED <<class, ofCMG, ofBITP>>
  \/ class = "TMG_BITP" /\ BITP!Next /\ UNCHANGED <<class, ofCMG, ofTMG>>

Spec == Init /\ [][Next]_vars

-----------------------------------------------------------------------------
(* Properties: those of the classes, each about its own sketches           *)

\* The counters of a past timestamp, of the chain or of the forest, are never
\* above the true counts, and short of them by a bounded share of the weight:
\* for the chain 1/k and twice eps/3, eps in all, which is more than the
\* 2 eps/3 its heavy-hitter threshold is lowered by (pmmg.cpp:680); for the
\* forest 1/k and eps/3, just what its threshold is lowered by, apart from
\* what arrived after the last tree or leaf it can use.
PastWithinEps ==
  (class = "CMG" => CMG!PastWithinEps) /\ (class = "TMG" => TMG!PastWithinEps)

\* CMG: a recorded counter stays within eps/3 of what the sketch held.
PastTracksSketch == class = "CMG" => CMG!PastTracksSketch

\* CMG: c1 and c2 mean what the comment on Counter says, both heaps hold the
\* counters of the table and the max heap is in order (the min heap is not).
CountersInSync == class = "CMG" => CMG!CountersInSync

\* CMG: the preallocated counters are never used up.
CountersSuffice == class = "CMG" => CMG!CountersSuffice

\* CMG: the record of a counter that a finished timestamp is answered from
\* stays the same ever after, whatever is added to the chain.  (The answer
\* also relates it to an interpolated total, which later arrivals move.)
PastRecordsFixed ==
  [][class = "CMG" /\ lastTs' >= lastTs /\ chkpts # <<>> /\ chkpts' # chkpts =>
       \A ts \in CMG!Closed, x \in Key : CMG!RecordAt(ts, x)' = CMG!RecordAt(ts, x)]_vars

\* TMG: no tree is left below m_level, where neither queries nor carries look.
NothingBelowLevel == class = "TMG" => TMG!NothingBelowLevel

\* TMG: the forest is ordered in time, as the walk of a query assumes.
Chronological == class = "TMG" => TMG!Chronological

\* TMG_BITP: the pruning step meets only the nodes it assumes.
PruningSound == class = "TMG_BITP" => BITP!PruningSound

\* TMG_BITP: the per-level lists, through which nodes are freed, and the
\* trees agree.
RowsMirrorTrees == class = "TMG_BITP" => BITP!RowsMirrorTrees

\* TMG_BITP: an answer about a suffix is within the error it claims.
SuffixWithinEps == class = "TMG_BITP" => BITP!SuffixWithinEps

\* TMG_BITP: the memory reported is that of the nodes and their sketches.
SizeCounted == class = "TMG_BITP" => BITP!SizeCounted
=============================================================================
