CONSTANTS
  loop = loop
  feed = feed
  worker = worker
  bkr = bkr
  A = A
  B = B
  None = None
  Threads = {loop, feed, worker}
  Role <- StartupRole
  Symbols = {A}
  Qtys = {2}
  Prices = {100}
  PrevCloses = {0}
  StartingCash = 1000
  MaxPosition = 5
  MaxNotional = 2000
  LossLimitPct = 10
  RequireSync = TRUE
  BrokerIds = {bkr}
  ActiveOrders <- OpenOrderLists
  SyncAnswers = {"orders", "error", "unavailable"}
  SyncLimit = 2
  BrokerFaults = {}
  OutOfBand = FALSE
  MaxCalls = 5
  MaxRestarts = 1
SPECIFICATION Spec
CHECK_DEADLOCK FALSE
PROPERTIES
  StartupSafe
