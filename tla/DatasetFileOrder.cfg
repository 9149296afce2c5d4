SPECIFICATION Spec
CONSTANTS
  c1 = c1
  Connections <- OneConnection
  RequestCount = 2
  Size <- TwoSizes
  PacketCount = 2
  Lengths = {0, 1}
  Schedules <- TwoSchedules
  Filters = {"both", "dst_to_src"}
  Captures <- FiveCaptures
  MaxTime = 4
  MaxPackets = 3
  MaxRecords = 6
  MaxOdd = 0
CHECK_DEADLOCK FALSE
INVARIANTS
  RequestSampleIsEarliest
