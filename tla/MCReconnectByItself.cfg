CONSTANTS
  None = None
  a = a
  unnamed = unnamed
  k1 = k1  k2 = k2
  m1 = m1
  d1 = d1
  SessionIds = {a}
  Remote = {}
  RemoteParent <- MCNothing
  RemoteName <- MCNothing
  Names = {unnamed}
  Identity = unnamed
  Abbreviations = {}
  Sockets = {k1, k2}
  MessageIds = {m1}
  Deliveries = {d1}
  Sends = {}
  MaxSessions = 2
  MaxPending = 2
  MaxPendingPerSession = 2
  MaxAsksPerSession = 1
  MaxGeneration = 0
  MaxLedger = 1
  MaxFaults = 4
CHECK_DEADLOCK FALSE
SPECIFICATION DeliveryLiveSpec
PROPERTY ReconnectsByItself
