SPECIFICATION FairSpec
CONSTANTS
  w1 = w1
  w2 = w2
  Workers <- TwoWorkers
  ReadCount = 2
  MaxEntries = 3
  MaxStarts = 3
  IdleTimeout = TRUE
  Trimmed = TRUE
CHECK_DEADLOCK FALSE
INVARIANTS
  IndInv
  AcknowledgedWasAnswered
  LogIsBehindAck
PROPERTIES
  StrandedStaysStranded
  ServiceSpec
  EveryRequestSettles
