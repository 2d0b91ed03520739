SPECIFICATION Spec
CONSTANTS
  None = None
  NoSocket = NoSocket
  awa = awa
  binta = binta
  phoneA = phoneA
  phoneB = phoneB
  a1 = a1
  b1 = b1
  b2 = b2
  s1 = s1
  s2 = s2
  Users = {awa, binta}
  Organiser = awa
  Sockets = {a1, b1, b2}
  UserOf <- MCUserOf
  PhoneOf <- MCPhoneOf
  VideoLimit = 1
  AudioLimit = 2
  Slots = {s1, s2}
  MaxEvents = 2
  MaxCrashes = 0
INVARIANTS
  GoneRoomFreesAll
SYMMETRY MCSymmetry
CHECK_DEADLOCK FALSE
