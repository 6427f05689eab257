CONSTANTS
  None = None
  a = a  r = r
  worker = worker  unnamed = unnamed
  k1 = k1  k2 = k2
  m1 = m1  m2 = m2
  d1 = d1  d2 = d2
  SessionIds = {a, r}
  Remote = {r}
  RemoteParent <- MCParent
  RemoteName <- MCName
  Names = {worker, unnamed}
  Abbreviations = {}
  Sockets = {k1, k2}
  MessageIds = {m1, m2}
  Deliveries = {d1, d2}
  Sends <- MCSends
  MaxSessions = 2
  MaxPending = 1
  MaxPendingPerSession = 1
  MaxAsksPerSession = 2
  MaxGeneration = 2
SPECIFICATION Spec
SYMMETRY MCSymmetry
VIEW MCView
INVARIANTS OneAskPerPair DeliveredIsNotPending WithinLimits
PROPERTY DeliveredWithAuthority
