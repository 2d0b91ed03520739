SPECIFICATION Spec
CONSTANTS
  None = None
  lea = lea
  max = max
  r1 = r1
  r2 = r2
  hello = hello
  secret = secret
  copy = copy
  Members = {lea, max}
  Admins = {lea}
  Readers = {max}
  Sends = {hello, copy}
  AuthorOf <- MCAuthorOf
  SealedSends = {}
  Forwards = {copy}
  Requests = {r1, r2}
  MaxRows = 2
  MaxTombs = 2
  MaxFaults = 0
INVARIANTS CursorSkipsNothing
CHECK_DEADLOCK FALSE
