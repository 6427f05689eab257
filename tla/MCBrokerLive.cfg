CONSTANTS
  None = None
  a = a  r = r
  unnamed = unnamed
  m1 = m1
  SessionIds = {a, r}
  Remote = {r}
  RemoteParent <- MCParent
  RemoteName <- MCName
  Names = {unnamed}
  Abbreviations = {}
  Sockets = {k1, k2}
  MessageIds = {m1}
  Deliveries = {d1}
  Sends <- MCSends
  MaxSessions = 2
  MaxPending = 1
  MaxPendingPerSession = 1
  MaxAsksPerSession = 1
  MaxGeneration = 1
SPECIFICATION LiveSpec
PROPERTIES AskEnds IdleBrokerStops LapsedPrincipalLeaves
