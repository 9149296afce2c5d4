SPECIFICATION FairSpec
CONSTANTS
  w1 = w1
  w2 = w2
  Workers <- OneWorker
  ReadCount = 1
  MaxEntries = 2
  MaxStarts = 2
  IdleTimeout = FALSE
  Trimmed = FALSE
CHECK_DEADLOCK FALSE
PROPERTIES
  PendingIsRedelivered

