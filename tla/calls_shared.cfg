SPECIFICATION Spec
CONSTANTS
  None = None
  NoDevice = NoDevice
  awa = awa
  binta = binta
  coura = coura
  phoneA = phoneA
  phoneB = phoneB
  tabletB = tabletB
  phoneC = phoneC
  s1 = s1
  s2 = s2
  Users = {awa, binta}
  Devices = {phoneA, phoneB, tabletB}
  UserOf <- MCUserOf
  SocketNumbers = {1}
  FirstLive <- MCAllLive
  Unstable <- MCCallerDrops
  Slots = {s1, s2}
  MaxCalls = 1
  Lossy = {}
  SharedStore = TRUE
  MaxCrashes = 1
INVARIANTS
  AtMostOneAnswer
PROPERTIES
  ReleasedForGood
SYMMETRY DeviceSymmetry
