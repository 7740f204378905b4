SPECIFICATION Spec
CONSTANTS
  SampleSizes = {1, 2}
  Value = {1, 2}
  MaxTs = 3
  MaxSeen = 4
  MaxCount = 2
  Configs <- AllConfigs
  Axis = {1, 2, 3}
  NormSampleSizes = {2, 3}
  RowWeights = {0, 1, 2, 3, 4}
  HalfSizes = {2, 3}
  RowsAgain = 1
  MatrixMaxTs = 3
  DirectedMaxTs = 2
  SampledRowsAt <- FewRows
  DirectedRowsAt <- ManyRows
INVARIANT NormOfInterval
CHECK_DEADLOCK FALSE
