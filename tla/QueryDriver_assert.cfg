SPECIFICATION Spec
CONSTANTS
  MaxFiles = 1
  MaxLines = 2
  Wrap = 16
INVARIANT ContinueFindsPause
