CONSTANTS
  N = 3
  Local = 2
  Fences = 2
  Askers = {}
  Denials = 0
  Finalize = TRUE
  Cap = 4
SPECIFICATION Spec
INVARIANTS
  NoMisframing
  FenceSafety
PROPERTIES
  AllComplete
  ImplementsServerBarrier
