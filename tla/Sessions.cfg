SPECIFICATION Spec
CONSTANTS
  t1 = t1
  t2 = t2
  p1 = p1
  p2 = p2
  None = None
  Tab = {t1, t2}
  Pass = {p1, p2}
  MaxFails = 1
  MaxRequests = 4
  MaxFaults = 2
SYMMETRY Symmetric
INVARIANTS SessionsOfPassword EndedStays FewTries
CHECK_DEADLOCK FALSE
