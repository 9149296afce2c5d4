SPECIFICATION FairSpec
CONSTANTS
  f1 = f1
  f2 = f2
  Stop = Stop
  NoFlow = NoFlow
  Flows <- TwoFlows
  Published <- TwoFlows
  Label <- MCLabel
  FeaturePacketCount = 2
  MaxPackets = 3
  MaxCleanFailures = 1
  MaxHalfFailures = 1
  Lossy = TRUE
CHECK_DEADLOCK FALSE
INVARIANTS
  IndInv
  OneRequestInHand
  CompletedPublishIsFinal
  PendingAwaitsAnswer
  StoppedPublisherLeftNothing
PROPERTIES
  LifecycleSpec
  PendingResolves
  ShutdownCompletes
