CONSTANTS
  N = 4
  Rounds = 2
  MayFail = {1, 2}
SPECIFICATION Spec
CHECK_DEADLOCK FALSE
INVARIANTS
  IInv
  BarrierSafety
  CounterIsExact
PROPERTY ImplementsBarrier
