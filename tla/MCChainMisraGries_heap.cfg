SPECIFICATION Spec
CONSTANTS
  k1 = k1  k2 = k2  k3 = k3  k4 = k4  k5 = k5
  Key <- FourKeys
  K = 4
  NoMin = 100
  EpsNum = 3
  EpsDen = 10
  Weights <- UnitWeight
  MaxTotal = 7
  MaxTs = 8
SYMMETRY SymFour
INVARIANT FallsRecorded
