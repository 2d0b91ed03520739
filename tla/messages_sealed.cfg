SPECIFICATION Spec
CONSTANTS
  None = None
  lea = lea
  max = max
  r1 = r1
  r2 = r2
  hello = hello
  secret = secret
  copy = copy
  Members = {lea, max}
  Admins = {lea}
  Readers = {max}
  Sends = {secret}
  AuthorOf <- MCAuthorOf
  SealedSends = {secret}
  Forwards = {}
  Requests = {r1, r2}
  MaxRows = 2
  MaxTombs = 1
  MaxFaults = 1
INVARIANTS SealedIsReadable
CHECK_DEADLOCK FALSE
