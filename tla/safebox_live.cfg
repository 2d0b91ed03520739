SPECIFICATION FairSpec
CONSTANTS
  None = None
  lea = lea
  max = max
  r1 = r1
  r2 = r2
  s1 = s1
  night = night
  Accounts = {lea, max}
  Owners = {lea}
  Requests = {r1}
  Purger = night
  Shares = {s1}
  PlusQuota = 1
  BaseQuota = 0
  MaxBlobs = 1
  MaxFiles = 2
  MaxFaults = 1
INVARIANTS NothingLost
PROPERTIES Reclaimed
CHECK_DEADLOCK FALSE
