SPECIFICATION Spec
CONSTANTS
  c1 = c1
  Connections <- OneConnection
  FlowCount = 2
  Size <- OneSize
  MetaSize = 1
  MaxSegment = 2
  FeaturePacketCount = 2
  MaxDrops = 2
  MaxDuplicates = 0
  MaxEventLosses = 0
CHECK_DEADLOCK FALSE
INVARIANTS
  RequestsDoNotMix
