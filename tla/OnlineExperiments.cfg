SPECIFICATION Spec
CONSTANTS
  r1 = r1
  p1 = p1
  p2 = p2
  MaxExperiments = 2
  Requests <- MCRequests
  Points <- MCPoints
  Home <- MCHome
  Label <- MCLabel
  MaxEntries = 2
  MaxFailures = 2
CHECK_DEADLOCK FALSE
INVARIANTS
  DeadlineVerdictIsRight
  CountedFlowsClosedTheirLoop
  SampleMissesRowOnlyByOverlap
PROPERTIES
  LifecycleUnlessCarried
