CONSTANTS
  Clients = 3
  Rank <- OneNamespace
  Early = {1, 2}
  TimeLimit = FALSE
  LaunchMayFail = FALSE
SPECIFICATION Spec
INVARIANTS
  CleanRun
  FreedOnce
PROPERTIES
  StageOrder
  FailureNoticed
  MainEnds
