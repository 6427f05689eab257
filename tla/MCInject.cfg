CONSTANTS
  m1 = m1  m2 = m2
  Messages = {m1, m2}
  Asks = {m1}
  MaxTasks = 2
  MaxTurns = 2
  MaxFaults = 1
CHECK_DEADLOCK FALSE
SPECIFICATION InjectSpec
INVARIANTS InjectTypeOK StoredIsAttended MarkedHasTurn
PROPERTIES QueueDropsDone EventuallyInjected
