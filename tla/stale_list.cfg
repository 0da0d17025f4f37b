CONSTANTS
  t1 = t1
  t2 = t2
  t3 = t3
  None = None
  Tickers = {t1}
  Opps <- OneYes
  Bids = {41}
  Balances = {0, 100000}
  EnvFaults = {}
  ClosesAt <- CloseNever
  MaxOpen = 1
  MaxDailyLoss = 5000
  MaxContracts = 1
  MaxClock = 2
  MaxCrashes = 0
  INTERVAL = 1
  MinConfidence = 45
  MinEdge = 5
  DayLength = 2880
  ReversalThreshold = 30
  NearExpiry = 3
  MaxPosition = 2000
  KellyDivisor = 4
  ReentryLoss = 10
  THESIS_COOLDOWN = 4
  TRADE_WINDOW = 1
  Forever = 99
SPECIFICATION Spec
PROPERTY OnlySettledAreDropped
