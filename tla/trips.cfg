SPECIFICATION FairSpec
CONSTANTS
  None = None
  t1 = t1
  f1 = f1
  r1 = r1
  w1 = w1
  Trips = {t1}
  Circle = {f1}
  Requests = {r1}
  Workers = {w1}
  MaxFaults = 1
INVARIANTS
  TypeOK
  DeadlineArmed
PROPERTIES
  ClosedIsQuiet
  SilenceEscalates
CHECK_DEADLOCK FALSE
