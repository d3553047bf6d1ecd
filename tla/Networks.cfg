SPECIFICATION FairSpec
CONSTANTS
  n1 = n1
  n2 = n2
  v6 = v6
  t1 = t1
  t2 = t2
  keeper = keeper
  Net = {n1, n2}
  Junk = {v6}
  Users = {t1, t2}
  Keeper = keeper
  MaxFaults = 1
  MaxWipes = 1
  MaxBoots = 1
INVARIANTS OnlyListed
PROPERTIES LeavesByRemove FollowsFile Kept
