CONSTANTS
  Clients = 2
  Rank <- TwoNamespaces
  Early = {1}
  TimeLimit = TRUE
  LaunchMayFail = TRUE
SPECIFICATION Spec
INVARIANTS
  TermMeansDead

  
