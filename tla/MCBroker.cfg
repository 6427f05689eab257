CONSTANTS
  None = None
  a = a  b = b
  k1 = k1  k2 = k2  k3 = k3
  m1 = m1  m2 = m2
  d1 = d1  d2 = d2
  unnamed = unnamed
  SessionIds = {a, b}
  Remote = {}
  RemoteParent <- MCNothing
  RemoteName <- MCNothing
  Names = {unnamed}
  Abbreviations = {}
  Sockets = {k1, k2, k3}
  MessageIds = {m1, m2}
  Deliveries = {d1, d2}
  Sends <- MCSends
  MaxSessions = 2
  MaxPending = 2
  MaxPendingPerSession = 1
  MaxAsksPerSession = 1
  MaxGeneration = 0
SPECIFICATION Spec
SYMMETRY MCSymmetry
VIEW MCView
INVARIANTS TypeOK PendingIndexed PendingIsConnected SessionsMatchConnections
  BlockingAskIsLive NoMutualWait FailedAskIsClosed AskFileIsCurrent
PROPERTIES AskEndIsAnnounced SettlementIsAnswered
