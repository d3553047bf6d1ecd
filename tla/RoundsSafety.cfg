SPECIFICATION Spec
CONSTANTS
  a = a
  b = b
  c = c
  None = None
  Subscription <- Two
  Quality <- Mixed
  SpeedTopN = 1
INVARIANT TypeOK
PROPERTIES FairComparison NoDowngrade
