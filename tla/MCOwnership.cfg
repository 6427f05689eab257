CONSTANTS
  None = None
  s1 = s1  s2 = s2
  b1 = b1  b2 = b2  b3 = b3
  Starters = {s1, s2}
  Brokers = {b1, b2, b3}
  Incompatible = {b3}
  LockTries = 2
  MaxFaults = 2
CHECK_DEADLOCK FALSE
SPECIFICATION OwnershipSpec
SYMMETRY MCSymmetry
VIEW MCView
INVARIANTS OwnershipTypeOK AloneIsExclusive
PROPERTIES AloneStarts OwnerKeepsPath
