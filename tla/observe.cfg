CONSTANTS
  None = None
  Days = {0, 1}
  Values = {100, 104, 108}
  YesPrices = {40, 43}
  MOVE = 7
  REPRICE = 1
  LEAD = 1
  PRINT = 5
  PERIOD = 2
  DayLength = 2
  MaxClock = 3
  MaxTicks = 3
  MaxFaults = 2
SPECIFICATION Spec
INVARIANTS
  TypeOK
  FiledByDay
  DamageIsLocal
  LeadIsBacked
  DriftIsPrinted
CHECK_DEADLOCK FALSE
