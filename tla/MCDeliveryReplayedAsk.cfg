CONSTANTS
  None = None
  a = a  b = b
  unnamed = unnamed
  k1 = k1  k2 = k2  k3 = k3
  m1 = m1  m2 = m2  m3 = m3  m4 = m4
  d1 = d1  d2 = d2
  SessionIds = {a, b}
  Remote = {}
  RemoteParent <- MCNothing
  RemoteName <- MCNothing
  Names = {unnamed}
  Identity = unnamed
  Abbreviations = {}
  Sockets = {k1, k2, k3}
  MessageIds = {m1, m2}
  Deliveries = {d1, d2}
  Sends <- MCAskAndReply
  MaxSessions = 2
  MaxPending = 2
  MaxPendingPerSession = 2
  MaxAsksPerSession = 1
  MaxGeneration = 0
  MaxLedger = 1
  MaxFaults = 1
CHECK_DEADLOCK FALSE
SPECIFICATION DeliverySpec
SYMMETRY MCSymmetry
VIEW MCView
PROPERTY ReplayedAskIsNotRefused
