CONSTANTS
  None = None
  root1 = root1  root2 = root2
  p1 = p1  p2 = p2  p3 = p3
  t1 = t1  t2 = t2
  Locals = {root1, root2}
  Ids = {p1, p2, p3}
  Tokens = {t1, t2}
  Requests <- MCRequests
  DepthLimit = 4
  ChildLimit = 1
  MaxClock = 1
  MaxGeneration = 2
CHECK_DEADLOCK FALSE
SPECIFICATION RegistrySpec
SYMMETRY MCSymmetry
INVARIANTS RegistryTypeOK RootIsShared NoOwnershipCycle DelegatedWithinLimit LimitsNarrow
PROPERTIES FencingIsWhole
