SPECIFICATION DailySpec
CONSTANTS
  a = a
  b = b
  c = c
  None = None
  Subscription <- Three
  Quality <- Noise
  SpeedTopN = 2
PROPERTIES Settles Covered
