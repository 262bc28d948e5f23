CONSTANTS
  NoQty = NoQty
  InitialStates = {"PENDING", "FAILED"}
  Quantities <- SmallQuantities
  FillQtys <- SmallFills
  FillPrices <- SmallPrices
  Orders = {o1, o2}
  OrderQty = 2
  PassIds = {1, 2}
  MaxPasses = 2
  MaxRetries = 3
  CancelLimit = 2
  MaxPlaced = 5
  MaxClose = 6500
  TickPrices = {8, 10, 13}
  Brackets = {1, 3}
  Capital = 30
  Leverages = {1, 2}
  Slip = 1
  Fee = 1
  BrokerCut = 1
  Maintenance = 3
  MaxTicks = 4
  MaxEpisodes = 2
  NoEntryPrice = NoEntryPrice
  Capacity = 3
  TdErrors = {0, 2}
  Epsilon = 1
  Boost = 2
  BatchSize = 2
  MaxCalls = 6
  Rewards = {0, 1, 3}
  MinSamples = 1
  Threshold = 1
  MaxRewards = 4
  NoExp = NoExp
  sa = sa
  sb = sb
  Symbols <- SymbolsMC
  Quotes = {3, 4}
  StartingCash = 40
  LotSize = 2
  Parts = 10
  Commission = 1
  MaxShare = 8
  Steps = 3
  TotalLots = {3, 11, 35}
  Slices = 7
  SimQty = {1, 3}
  OrderPrices = {2, 3}
  EntryQty = 3
  Pairs <- SymbolsMC
  Capital0 = 40
  MaxLeverage = 2
  FeeParts = 40
  Directions <- DirectionsMC
  MarketPrices = {0, 2, 5}
  Sentiments <- SentimentsMC
  RiskMultipliers = {2, 4}
  MaxDecisions = 3
  BatchLen = 2
  MaxPending = 4
  WindowSize = 3
  MinReturns = 2
  QuotePrices = {0, 100, 102, 140}
  CalmVolatility = 20
  TrendLimit = 5
  CrashLimit = 100
  HiddenCounts = {2, 3}
  Probabilities = {70, 71}
  BasePositions = {100, 250}
  MaxQuotes = 8
  MaxDays = 4
  MaxFits = 2
SPECIFICATION MCSpec
CHECK_DEADLOCK FALSE
INVARIANTS
  OrderSound
  ReconciledRight
  CallsAccountedFor
  LimitsAreRight
  LearnersSound
  SlicesSound
