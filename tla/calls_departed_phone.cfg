SPECIFICATION Spec
CONSTANTS
  None = None
  NoDevice = NoDevice
  awa = awa
  binta = binta
  coura = coura
  phoneA = phoneA
  phoneB = phoneB
  tabletB = tabletB
  phoneC = phoneC
  Users = {awa, binta}
  Devices = {phoneA, phoneB, tabletB}
  UserOf <- MCUserOf
  SocketNumbers = {1}
  FirstLive <- MCPhones
  Unstable <- MCAllLive
  Slots = {1}
  MaxCalls = 1
  Lossy = {}
  SharedStore = FALSE
  MaxCrashes = 0
INVARIANTS
  DepartedPhoneIsTimed
