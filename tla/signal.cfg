CONSTANTS
  None = None
  Tickers = {"KXBTC15M"}
  Strike <- NearStrike
  ClosesAt <- CloseLater
  Values = {70000, 70020, 70030}
  Quotes = {0, 40}
  Synthetic = {40}
  Probs = {44, 46}
  SAMPLES = 3
  WINDOW = 2
  UP = 15
  DOWN = 25
  CONFIRMS = 2
  CountMax = 3
  COOLDOWN = 2
  TOO_LATE = 20
  MAX_DISTANCE = 30
  MIN_EDGE = 5
  RingSize = 1
  MaxLag = 1
  MaxClock = 3
  MaxEstimates = 5
SPECIFICATION Spec
INVARIANTS
  TypeOK
  SupportedTwice
  OpportunitiesSpaced
  SpikeWithinWindow
PROPERTY ConfirmationLasts
CHECK_DEADLOCK FALSE
