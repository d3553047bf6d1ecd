SPECIFICATION FairSpec
CONSTANTS
  a = a
  b = b
  c3 = c3
  link = link
  watch = watch
  c1 = c1
  c2 = c2
  u1 = u1
  None = None
  Server = {a, b, c3}
  Url = {link}
  Proc = {watch}
  Watch = watch
  Checks = {}
  Users = {}
  HasIface = TRUE
  MaxFaults = 3
  MaxBoots = 1
  MaxRepairServers = 2
  LiveGap = 2
  Settings <- NoSettings
  InitStates <- ThreeChecked
  Listing <- ThreeLink
PROPERTIES TunnelComesBack StateSaved
