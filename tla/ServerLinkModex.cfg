CONSTANTS
  N = 3
  Local = 2
  Fences = 1
  Askers = {1}
  Denials = 1
  Finalize = FALSE
  Cap = 4
SPECIFICATION Spec
CHECK_DEADLOCK FALSE
INVARIANTS
  CallbacksMatch
  RanksKnown
PROPERTIES
  AllComplete
