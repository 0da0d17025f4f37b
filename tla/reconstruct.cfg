CONSTANTS
  Coinbase = Coinbase
  Kraken = Kraken
  Gemini = Gemini
  Exchanges = {Coinbase, Kraken, Gemini}
  Prices = {1, 2}
  Sizes = {0, 1, 3}
  WINDOW = 2
  STALE = 1
  MIN_EXCHANGES = 2
  ChannelCapacity = 1
  TradeCapacity = 1
  IndexCapacity = 1
  MaxMessage = 2
  MaxTrades = 3
  MaxClock = 4
SPECIFICATION Spec
SYMMETRY Alike
INVARIANTS
  TypeOK
  WindowIsExact
  VwmpIsMedian
  QuorumIsFresh
  IndexFromRecentTrades
CHECK_DEADLOCK FALSE
