SPECIFICATION Spec
CONSTANTS
  None = None
  lea = lea
  max = max
  r1 = r1
  r2 = r2
  hello = hello
  secret = secret
  copy = copy
  Members = {lea, max}
  Admins = {lea}
  Readers = {max}
  Sends = {hello}
  AuthorOf <- MCAuthorOf
  SealedSends = {}
  Forwards = {}
  Requests = {r1, r2}
  MaxRows = 1
  MaxTombs = 1
  MaxFaults = 0
INVARIANTS HeardOnce
CHECK_DEADLOCK FALSE
