SPECIFICATION Spec
CONSTANTS
  K = 4
  Late <- LateSwitches
  Pairs <- SomePairs
  MaxConnects = 2
CHECK_DEADLOCK FALSE
INVARIANTS
  IndInv
  UpThenDown
  ReachesAddressee
  AnnouncedWhenAllSent
PROPERTIES
  SetUpSwitchDropsNothing
