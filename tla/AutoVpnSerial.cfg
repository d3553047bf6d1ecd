SPECIFICATION Spec
CONSTANTS
  a = a
  b = b
  c3 = c3
  link = link
  watch = watch
  c1 = c1
  c2 = c2
  u1 = u1
  None = None
  Server = {a, b}
  Url = {link}
  Proc = {watch, u1}
  Watch = watch
  Checks = {}
  Users = {u1}
  HasIface = TRUE
  MaxFaults = 1
  MaxBoots = 1
  MaxRepairServers = 1
  LiveGap = 1
  Settings <- NoSettings
  InitStates <- Started
  Listing <- OneLink
PROPERTY AtomicSwitch
CONSTRAINT OneSwitcher
