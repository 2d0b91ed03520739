SPECIFICATION Spec
SYMMETRY Symmetry
CONSTANTS
  None = None
  lea = lea
  max = max
  r1 = r1
  r2 = r2
  hello = hello
  secret = secret
  copy = copy
  Members = {lea, max}
  Admins = {lea}
  Readers = {max}
  Sends = {secret, copy}
  AuthorOf <- MCAuthorOf
  SealedSends = {secret}
  Forwards = {copy}
  Requests = {r1, r2}
  MaxRows = 2
  MaxTombs = 1
  MaxFaults = 1
INVARIANTS TypeOK SentIsHeard UnreadKept
PROPERTIES ReceiptsClimb
CHECK_DEADLOCK FALSE
