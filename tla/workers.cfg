CONSTANTS
  a = a
  b = b
  c1 = c1
  c2 = c2
  u1 = u1
  u2 = u2
  Callers = {c1, c2}
  MaxLoops = 2
  MaxTrials = 2
  NoCaller = NoCaller
  Instances = {a, b}
  Pushers <- PushersOf
  Clients <- ClientsMC
  QueueMaxima = {1, 2}
  PollMax = 2
  SeenMaxima = {1, 2}
  MaxEvents = 2
  MaxQueueFaults = 1
  NoEvent = NoEvent
  MaxGhosts = 2
  MaxGhostOrders = 2
  MaxGhostCycles = 2
  SymbolCount = 2
  Api = Api
  Users = {u1, u2}
  Connections <- ConnectionsOf
  Sends = {1}
  HandledChannels = {"websocket"}
SPECIFICATION Spec
CHECK_DEADLOCK FALSE
INVARIANTS
  LoopsControlled
  GhostControlled
  EventsInOrder
  NotifiedOnce
PROPERTIES
  WhatBeginsEnds
