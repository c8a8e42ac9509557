CONSTANTS
  N = 4
  Left = 2
  Failing = {1, 3, 4}
SPECIFICATION Spec
INVARIANTS
  FailuresCounted
  LeavesLast
PROPERTY WaitEnds
