SPECIFICATION FairSpec
CONSTANTS
  host = host
  net = net
  t1 = t1
  u1 = u1
  keeper = keeper
  None = None
  Mark = Mark
  Device = {host, net}
  Edited = {net}
  InitConf <- Files
  Subnet = {net}
  Tabs = {t1}
  Users = {u1}
  Keeper = keeper
  full = full
  bylist = bylist
  exclude = exclude
  RouteKey = {full, bylist, exclude}
  Exclude = exclude
  MaxTries = 1
  MaxFaults = 1
  MaxWipes = 1
INVARIANTS MarkLast RecordedOn FewCopies OneList
PROPERTIES OthersKept Follows LeftAlone
