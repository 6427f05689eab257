CONSTANTS
  None = None
  a = a  b = b
  unnamed = unnamed
  k1 = k1  k2 = k2  k3 = k3
  m1 = m1
  d1 = d1
  SessionIds = {a, b}
  Remote = {}
  RemoteParent <- MCNothing
  RemoteName <- MCNothing
  Names = {unnamed}
  Identity = unnamed
  Abbreviations = {}
  Sockets = {k1, k2, k3}
  MessageIds = {m1}
  Deliveries = {d1}
  Sends <- MCSends
  MaxSessions = 2
  MaxPending = 2
  MaxPendingPerSession = 2
  MaxAsksPerSession = 1
  MaxGeneration = 0
  MaxLedger = 1
  MaxFaults = 1
CHECK_DEADLOCK FALSE
SPECIFICATION DeliveryLiveSpec
PROPERTIES Settles TimerReconnects
