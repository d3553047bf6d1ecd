SPECIFICATION Spec
CONSTANTS
  early = early
  late = late
  None = None
  Day = 6
  Rest = 2
  Shift = 1
  Begins <- DayBegins
  LastDay = 4
  Times = {early, late}
  Moment <- DayMoments
  MaxEvents = 2
INVARIANTS Prompt
PROPERTIES Daily
CHECK_DEADLOCK FALSE
