CONSTANTS
  loop = loop
  feed = feed
  worker = worker
  bkr = bkr
  A = A
  B = B
  None = None
  Threads = {loop, feed, worker}
  Role <- ConcurrentRole
  Symbols = {A}
  Qtys = {3}
  Prices = {100, 140}
  PrevCloses = {0}
  StartingCash = 1000
  MaxPosition = 5
  MaxNotional = 800
  LossLimitPct = 10
  RequireSync = FALSE
  BrokerIds = {}
  ActiveOrders = {}
  SyncAnswers = {}
  SyncLimit = 2
  BrokerFaults = {}
  OutOfBand = FALSE
  MaxCalls = 4
  MaxRestarts = 0
SPECIFICATION FairSpec
CHECK_DEADLOCK FALSE
INVARIANTS
  PositionLimit
  ExpectedTracksBroker
  HandledOnce
PROPERTIES
  TriggeredSettles
