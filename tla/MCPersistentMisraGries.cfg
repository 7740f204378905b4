SPECIFICATION Spec
CONSTANTS
  k1 = k1  k2 = k2  k3 = k3  k4 = k4  k5 = k5  k6 = k6  k7 = k7
  Key <- SevenKeys
  K = 4
  NoMin = 100
  EpsNum = 3
  EpsDen = 10
  ChainWeights <- UnitWeight
  ChainMaxTotal = 9
  ChainMaxTs = 8
  TreeLevels = 6
  TreeMaxTotal = 14
  TreeMaxFree = 6
  TreeMaxSame = 1
  BackLevels = 5
  BackMaxTs = 25
  BackMaxFree = 3
  BackMaxHeavy = 2
  BackMaxAgain = 3
SYMMETRY SymFive
ACTION_CONSTRAINTS LastTwo Lean
INVARIANTS PastWithinEps PastTracksSketch CountersInSync CountersSuffice NothingBelowLevel Chronological PruningSound RowsMirrorTrees SuffixWithinEps SizeCounted
PROPERTY PastRecordsFixed
CHECK_DEADLOCK FALSE
