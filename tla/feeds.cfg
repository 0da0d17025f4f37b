CONSTANTS
  BASE = 1
  CAP = 3
  ChannelCapacity = 1
  MaxTrades = 2
  MaxMessage = 2
  MaxInbox = 1
  MaxEnded = 3
  SnapshotAfter = {1, 2}
SPECIFICATION Spec
INVARIANTS
  TypeOK
  InOrderOnce
  FlawCostsItself
  WaitsDouble
PROPERTY ComesBack
CHECK_DEADLOCK FALSE
