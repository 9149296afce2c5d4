SPECIFICATION Spec
CONSTANTS
  f1 = f1
  f2 = f2
  Stop = Stop
  NoFlow = NoFlow
  Flows <- OneFlow
  Published <- OneFlow
  Label <- OneLabel
  FeaturePacketCount = 1
  MaxPackets = 3
  MaxCleanFailures = 1
  MaxHalfFailures = 1
  Lossy = TRUE
CHECK_DEADLOCK FALSE
INVARIANTS
  NoFlowIsPublishedTwice
