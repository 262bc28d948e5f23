CONSTANTS
  a = a
  b = b
  c1 = c1
  c2 = c2
  u1 = u1
  u2 = u2
  Callers = {c1, c2}
  MaxLoops = 1
  MaxTrials = 1
  NoCaller = NoCaller
  Instances = {a, b}
  Pushers <- PushersOf
  Clients <- ClientsMC
  QueueMaxima = {2}
  PollMax = 2
  SeenMaxima = {2}
  MaxEvents = 1
  MaxQueueFaults = 0
  NoEvent = NoEvent
  MaxGhosts = 1
  MaxGhostOrders = 1
  MaxGhostCycles = 1
  SymbolCount = 2
  Api = Api
  Users = {u1, u2}
  Connections <- ConnectionsOf
  Sends = {1}
  HandledChannels = {}
SPECIFICATION Spec
CHECK_DEADLOCK FALSE
PROPERTIES
  EveryClientGets
