SPECIFICATION FairSpec
CONSTANTS
  c1 = c1
  Connections <- OneConnection
  FlowCount = 3
  Size <- ThreeSize
  MetaSize = 1
  MaxSegment = 2
  FeaturePacketCount = 2
  MaxDrops = 2
  MaxDuplicates = 1
  MaxEventLosses = 1
CHECK_DEADLOCK FALSE
INVARIANTS
  IndInv
  MixedOnlyAfterLostHead
  UndisturbedFlowIsExact
PROPERTIES
  UndisturbedFlowBecomesReady
