SPECIFICATION Spec
CONSTANTS
  PointCount = 2
CHECK_DEADLOCK FALSE
INVARIANTS
  IndInv
  NothingOutlivesRun
  CopiesAreComplete
