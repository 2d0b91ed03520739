SPECIFICATION Spec
CONSTANTS
  None = None
  lea = lea
  max = max
  r1 = r1
  r2 = r2
  s1 = s1
  night = night
  Accounts = {lea, max}
  Owners = {lea}
  Requests = {r1, r2}
  Purger = night
  Shares = {s1}
  PlusQuota = 2
  BaseQuota = 0
  MaxBlobs = 1
  MaxFiles = 2
  MaxFaults = 0
INVARIANTS AlbumKeepsContent
CHECK_DEADLOCK FALSE
