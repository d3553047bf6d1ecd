SPECIFICATION FairSpec
CONSTANTS
  a = a
  b = b
  c3 = c3
  link = link
  watch = watch
  c1 = c1
  c2 = c2
  u1 = u1
  None = None
  Server = {a}
  Url = {link}
  Proc = {watch, c1, c2}
  Watch = watch
  Checks = {c1, c2}
  Users = {}
  HasIface = FALSE
  MaxFaults = 1
  MaxBoots = 0
  MaxRepairServers = 1
  LiveGap = 1
  Settings <- ToggleQuiescent
  InitStates <- Unswitched
  Listing <- OneServer
INVARIANTS OneCheck Consent
PROPERTY CheckEnds
