CONSTANTS
  t1 = t1
  t2 = t2
  A = A
  B = B
  momentum = momentum
  rotation = rotation
  bull = bull
  bear = bear
  SuspendThreads = {t1, t2}
  MaxStamp = 4
  Providers = {A, B}
  Adapters = {A}
  CancelThreads = {t1}
  MaxHandlers = 4
  NoProvider = NoProvider
  ProfileNames = {momentum, rotation}
  Markets = {bull, bear}
  InferThreads = {t1, t2}
  MaxChoices = 3
  MaxInfers = 4
  AutoProfile = AutoProfile
  Unknown = Unknown
  Levels0 <- StartLevels
  Expiry = 2
  MaxPending = 2
  MaxDrafts = 4
  MaxTime = 5
  MaxAuto = 1
  ann = ann
  bob = bob
  m1 = m1
  free = free
  pro = pro
  Names = {ann, bob}
  Mails = {m1}
  MaxSecrets = 2
  MaxTokens = 2
  MaxResets = 2
  SessionTtl = 1
  ResetTtl = 1
  MaxAuthTime = 2
  Nobody = Nobody
  NoMail = NoMail
  Torn = Torn
  Clients = {ann}
  Tiers = {free, pro}
  Minute = 1
  Hour = 3
  MaxQuotaTime = 5
  MaxCallsMade = 4
  MaxSteps = 1
  gold = gold
  tok1 = tok1
  tok2 = tok2
  Absent = Absent
  LiveSessions <- SessionsMC
  CsrfTokens = {tok1, tok2}
  AdminLists = {{}, {"ann"}}
  KillAdminLists = {{}, {"kim"}}
  Allowed = {"trader"}
  TierNames = {free, pro}
  FreeTier = free
  TierOfRole <- TierOfRoleMC
  Hints = {free, pro, gold}
  MaxWaiting = 2
  Fractions <- FractionsMC
  MaxEvaluations = 3
  NoResult = NoResult
  Readers = {ann, bob}
  Editors = {ann}
  Emitters = {t1, t2}
  Series = {m1}
  Keys = {bull, bear}
  MaxQueueSize = 2
  PageSize = 1
  MaxMade = 3
  DayLength = 4
  AlertKeys = {m1}
  Cooldown = 2
  Retries = 2
  Empty = Empty
  MaxClock = 5
  MaxAcks = 2
  MaxCrashes = 1
  Calls = {t1, t2}
  Symbols = {m1}
  MaxSockets = 2
  MaxRequests = 2
  MaxTicks = 2
  MaxTraffic = 3
  CacheSize = 1
  ChartKeys = {A, B}
  Askers = {t1}
  Casters = {t1}
  Viewers = {ann, bob}
  Ttl = 1
  MaxNow = 2
  MaxCandles = 2
  Currencies = {"USD", "EUR", "JPY"}
  Coins <- CoinsMC
  TrainRequests = {"r1", "r2"}
  InitialBalance = 512000
  Closes <- ClosesMC
  NoNumber <- NoNumberMC
  MaxRows = 5
  KeptRuns = 2
  MaxRuns = 4
  Frames = {"1d", "1h"}
  MaxAsked = 3
SPECIFICATION MCSpec
CHECK_DEADLOCK FALSE
PROPERTY NoOrdersWhenActive
