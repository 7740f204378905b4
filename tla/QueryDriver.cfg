SPECIFICATION Spec
CONSTANTS
  MaxFiles = 2
  MaxLines = 2
  Wrap = 16
INVARIANTS TypeOK PauseExcludesBar FinalReportComplete ReportCoherent
PROPERTIES RefusedOnlyAtStart RunEnds
