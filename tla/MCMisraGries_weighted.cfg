SPECIFICATION Spec
CONSTANTS
  k1 = k1  k2 = k2  k3 = k3  k4 = k4  s1 = s1  s2 = s2
  Key <- FourKeys
  Sketch <- TwoSketches
  Weights <- OneOrTwo
  K = 3
  MaxTotal = 8
  NoMin = 100
SYMMETRY SymFour
INVARIANTS TypeOK EstimateSound LazyMinSound MassAccounted
PROPERTY SummarySpec
