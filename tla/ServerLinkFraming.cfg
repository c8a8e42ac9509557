CONSTANTS
  N = 2
  Local = 1
  Fences = 1
  Askers = {0, 1}
  Denials = 0
  Finalize = TRUE
  Cap = 20
SPECIFICATION Spec
INVARIANTS
  NoMisframing
