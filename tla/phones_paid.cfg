SPECIFICATION Spec
CONSTANTS
  a1 = a1
  a2 = a2
  w1 = w1
  n1 = n1
  n2 = n2
  s1 = s1
  r1 = r1
  r2 = r2
  None = None
  Accounts = {a1}
  Newcomers = {w1}
  Phones = {n1}
  MaxOrders = 2
  Subs = {}
  Requests = {r1, r2}
  MaxCrashes = 0
INVARIANTS PaidIsServed
CHECK_DEADLOCK FALSE
