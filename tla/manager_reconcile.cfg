CONSTANTS
  loop = loop
  feed = feed
  worker = worker
  bkr = bkr
  A = A
  B = B
  None = None
  Threads = {loop, worker}
  Role <- ReconcileRole
  Symbols = {A, B}
  Qtys = {2}
  Prices = {100, 140}
  PrevCloses = {0}
  StartingCash = 1000
  MaxPosition = 5
  MaxNotional = 2000
  LossLimitPct = 10
  RequireSync = FALSE
  BrokerIds = {}
  ActiveOrders = {}
  SyncAnswers = {}
  SyncLimit = 2
  BrokerFaults = {"refused", "lost_ack"}
  OutOfBand = TRUE
  MaxCalls = 4
  MaxRestarts = 0
SPECIFICATION Spec
CHECK_DEADLOCK FALSE
INVARIANTS
  CleanReportIsTrue
