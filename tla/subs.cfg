SPECIFICATION FairSpec
CONSTANTS
  a1 = a1
  w1 = w1
  ref1 = ref1
  None = None
  Accounts = {a1}
  OrderRefs = {ref1}
  PerPayment = 1
  Workers = {w1}
  Week = 2
  Duration = 2
  MaxRetention = 1
  Retentions = {0}
  MaxTrial = 3
  Trials = {0, 3}
  MaxTime = 4
  MaxPeriods = 2
  MaxMoves = 2
  MaxFaults = 1
INVARIANTS TypeOK PeriodsInLine GivenOnce
PROPERTIES MarkedIsOver TrustIsKept EndIsRecorded
CHECK_DEADLOCK FALSE
