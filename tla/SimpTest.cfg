CONSTANTS
  NProcs = 4
  Status <- OddFail
SPECIFICATION Spec
INVARIANTS
  CountExact
  ReportIsRight
PROPERTIES
  MainEnds
