SPECIFICATION Spec
CONSTANTS
  c1 = c1
  c2 = c2
  NoIPv4 = NoIPv4
  Connections <- MCConnections
  Lengths = {0, 1, 2}
  PacketCount = 2
  Directory <- MCDirectory
  Quantiles <- MCQuantiles
  Threshold = 2
  MaxPackets = 4
  MaxRelabels = 2
SYMMETRY Symmetry
CHECK_DEADLOCK FALSE
INVARIANTS
  SamplesAreExact
  ClientIsSourceUnlessCut
  CdfFollowsSizes
  SummaryDescribesFiles
  LabelsFollowChosenSize
