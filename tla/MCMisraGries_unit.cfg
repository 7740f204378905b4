SPECIFICATION Spec
CONSTANTS
  k1 = k1  k2 = k2  k3 = k3  k4 = k4  s1 = s1  s2 = s2
  Key <- FourKeys
  Sketch <- TwoSketches
  Weights <- UnitWeight
  K = 3
  MaxTotal = 7
  NoMin = 100
SYMMETRY SymFour
INVARIANTS EpsBound TableFits
