SPECIFICATION Spec
CONSTANTS
  k1 = k1  k2 = k2  k3 = k3  k4 = k4  k5 = k5
  Key <- FiveKeys
  K = 5
  NoMin = 100
  EpsNum = 1
  EpsDen = 5
  Weights <- UnitWeight
  MaxTotal = 8
  MaxTs = 3
SYMMETRY SymFive
INVARIANT PastWithinTwoThirds
