CONSTANTS
  loop = loop
  feed = feed
  worker = worker
  bkr = bkr
  A = A
  B = B
  None = None
  Threads = {loop}
  Role <- SerialRole
  Symbols = {A}
  Qtys = {3}
  Prices = {100, 140}
  PrevCloses = {0, 100}
  StartingCash = 484
  MaxPosition = 5
  MaxNotional = 1000
  LossLimitPct = 25
  RequireSync = FALSE
  BrokerIds = {}
  ActiveOrders = {}
  SyncAnswers = {}
  SyncLimit = 2
  BrokerFaults = {}
  OutOfBand = FALSE
  MaxCalls = 4
  MaxRestarts = 0
SPECIFICATION Spec
CHECK_DEADLOCK FALSE
INVARIANTS
  TypeOK
  Solvent
  NoFalseDrift
PROPERTIES
  FreezeHolds
  LifecycleSpec
