SPECIFICATION FairSpec
CONSTANTS
  page = page
  old = old
  new = new
  deaf = deaf
  None = None
  Part = Part
  Installer = {page}
  Page = {page}
  Newest = 2
  Build = {old, new, deaf}
  Runs = {old, new, deaf}
  Carries = {old, new}
  MaxFaults = 1
INVARIANTS Runnable WorkingBinary ServesInstalled
PROPERTIES AllOrNothing Forward ServiceReturns TunnelReturns
CHECK_DEADLOCK FALSE
