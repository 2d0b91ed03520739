SPECIFICATION Spec
CONSTANTS
  None = None
  NoDevice = NoDevice
  awa = awa
  binta = binta
  coura = coura
  phoneA = phoneA
  phoneB = phoneB
  tabletB = tabletB
  phoneC = phoneC
  Users = {awa, binta, coura}
  Devices = {phoneA, phoneB, phoneC}
  UserOf <- MCUserOf
  SocketNumbers = {1}
  FirstLive <- MCAsleep
  Unstable <- MCAllLive
  Slots = {1}
  MaxCalls = 2
  Lossy = {}
  SharedStore = FALSE
  MaxCrashes = 0
PROPERTIES
  ReclaimOnlyPhantoms
