SPECIFICATION FairSpec
CONSTANTS
  None = None
  NoKey = NoKey
  w1 = w1
  w2 = w2
  k1 = k1
  Keys = {k1}
  Workers = {w1, w2}
  Knows <- MCKnows
  MaxAttempts = 2
  MaxJobs = 2
  MaxFaults = 2
INVARIANTS
  TypeOK
  OneRunner
  AttemptsBounded
PROPERTIES
  AcceptedIsServed
  JobEnds
CHECK_DEADLOCK FALSE
