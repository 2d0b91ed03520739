SPECIFICATION Spec
CONSTANTS
  None = None
  NoDevice = NoDevice
  awa = awa
  binta = binta
  coura = coura
  phoneA = phoneA
  phoneB = phoneB
  tabletB = tabletB
  phoneC = phoneC
  s1 = s1
  s2 = s2
  Users = {awa, binta}
  Devices = {phoneA, phoneB}
  UserOf <- MCUserOf
  SocketNumbers = {1}
  FirstLive <- MCPhones
  Unstable <- MCAllLive
  Slots = {s1, s2}
  MaxCalls = 2
  Lossy = {2}
  SharedStore = FALSE
  MaxCrashes = 0
INVARIANTS
  TypeOK
  PairAgrees
  EveryRingIsTimed
  HistorySettled
SYMMETRY SlotSymmetry
