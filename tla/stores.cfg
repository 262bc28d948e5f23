CONSTANTS
  loop = loop
  worker = worker
  StoreThreads = {loop, worker}
  StoreConfigs <- StoreConfigsMC
  MaxSets = 2
  MaxOutages = 1
  MaxMigrations = 1
  NoCopy = NoCopy
  Garbled = Garbled
  LogThreads = {loop, worker}
  MaxEntries = 2
  MaxPgFaults = 2
  MaxLogMigrations = 2
  MaxBoots = 2
  NoEntry = NoEntry
  p = p
  q = q
  x = x
  y = y
  ProcessSets <- ProcessSetsMC
  Paths = {x, y}
  MaxChanges = 4
  MaxKills = 1
  NoModel = NoModel
  Timeframes = {1, 2, 3}
  MaxWait = 2
  Magnitudes = {0, 100}
  MaxClock = 7
  MaxRequests = 4
  PriceLevels = {1000, 1004, 1030, 980}
  Horizon = 2
  MinHistory = 1
  MaxSeries = 6
  RowCounts <- RowCountsMC
  SeqLen = 3
  Purges = {0, 2}
  TrainSizes = {2, 5}
  FoldSizes = {1, 3}
  Losses = {1, 2}
  Epochs = 4
  Patience = 2
  CvSizes = 12
  TableSizes = {1, 4, 9, 20}
  TuneLoops = {loop}
  Caller = worker
  EpisodeReturns <- EpisodeReturnsMC
  Baselines <- BaselinesMC
  Kept = 2
  MaxTuneRuns = 3
  MaxDeaths = 1
  Interval = 2
  Grace = 2
  MarkEvery = 2
  Threshold = 55
  RecentWindow = 2
  MaxSamples = 5
  MaxOnlineSteps = 4
  MaxLives = 2
SPECIFICATION Spec
CHECK_DEADLOCK FALSE
INVARIANTS
  ActivityLogKept
  RegistryKept
  LearningIsHonest
  ModelsSound
PROPERTIES
  SecureStateKept
  TrainingSound
