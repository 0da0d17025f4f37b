CONSTANTS
  t1 = t1
  t2 = t2
  t3 = t3
  None = None
  Tickers = {t1}
  Opps <- Refused
  Bids = {10, 35}
  Balances = {0, 100000}
  EnvFaults = {"Resting", "LostReply", "ErrorBody"}
  ClosesAt <- CloseAtTwo
  MaxOpen = 2
  MaxDailyLoss = 5
  MaxContracts = 1
  MaxClock = 3
  MaxCrashes = 1
  INTERVAL = 2
  MinConfidence = 45
  MinEdge = 5
  DayLength = 3
  ReversalThreshold = 30
  NearExpiry = 3
  MaxPosition = 2000
  KellyDivisor = 4
  ReentryLoss = 10
  THESIS_COOLDOWN = 4
  TRADE_WINDOW = 1
  Forever = 99
SPECIFICATION Spec
INVARIANTS
  TypeOK
  GateNeverOvercounts
  GateExact
  HaltLetsOneThrough
  LossesSuppressReentry
PROPERTY RefinesPositionBook
