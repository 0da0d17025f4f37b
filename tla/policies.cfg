CONSTANTS
  None = None
  Tickers = {"KXBTC"}
  ClosesAt <- CloseAtTen
  ReversalThreshold = 30
  NearExpiry = 3
  Entries = {6, 21, 41, 85, 96}
  Indices = {500, 530, 531, 469}
  Times = {0, 7, 8, 10}
  MaxBid = 99
  MaxMove = 2
  MaxPosition = 2000
  MaxContracts = 100
  KellyDivisor = 4
  Prices = {0, 1, 5, 6, 7, 19, 20, 21, 29, 33, 50, 57, 58, 66, 67, 95, 99, 100}
  MaxEdge = 40
  MaxBalance = 40000
  BalanceStep = 2000
SPECIFICATION PoliciesSpec
INVARIANTS
  ArmedExitKeepsGain
  HoldBandConvex
  CostWithinCap
  OrderIsAffordable
  OrderReachesMarket
  KellyIsEdgeOverOdds
PROPERTY SizeGrows
CHECK_DEADLOCK FALSE
