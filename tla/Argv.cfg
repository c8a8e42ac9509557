SPECIFICATION Spec
CONSTANTS
  Delimiter = ";"
  Arguments <- MCArguments
  Strings <- MCStrings
  MaxCount = 3
INVARIANTS
  MemorySafe
  SplitUndoesJoin
PROPERTIES
  Contract
