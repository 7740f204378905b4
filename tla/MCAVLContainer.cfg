SPECIFICATION Spec
CONSTANTS
  Small <- MCSmall
  Node <- MCNode
  KeyOf <- MCKeyOf
  WeightOf <- MCWeightOf
  Ranges <- MCRanges
  MaxMerged = 2
CONSTRAINT Bounded
INVARIANTS Balanced AggregatesExact SearchesAgree
PROPERTY ImplementsBag
