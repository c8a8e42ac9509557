SPECIFICATION Spec
CONSTANTS
  i1 = i1
  i2 = i2
  i3 = i3
  l1 = l1
  l2 = l2
  Items = {i1, i2, i3}
  Lists = {l1, l2}
  Null = Null
  Rank <- MCRank
  MaxFront <- MCMaxFront
INVARIANTS DoublyLinked SpotChecks LoopVisitsAll
PROPERTY Contract
CHECK_DEADLOCK FALSE
