SPECIFICATION Spec
SYMMETRY Symmetry
CONSTANTS
  None = None
  lea = lea
  max = max
  r1 = r1
  r2 = r2
  s1 = s1
  night = night
  Accounts = {lea}
  Owners = {lea}
  Requests = {r1, r2}
  Purger = night
  Shares = {}
  PlusQuota = 1
  BaseQuota = 0
  MaxBlobs = 2
  MaxFiles = 2
  MaxFaults = 0
INVARIANTS TypeOK QuotaKept
PROPERTIES ThroughTrash
CHECK_DEADLOCK FALSE
