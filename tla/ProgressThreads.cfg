SPECIFICATION Spec
CONSTANTS
  Names = {"shared", "own"}
  MaxRefs = 2
  Break = "loopexit"
INVARIANTS BaseInUse ActiveMeansRuns
PROPERTY CallsReturn
