SPECIFICATION MCSpec
CONSTANTS
  Types <- MCTypes
  course = course
  event = event
  Kind <- MCKind
  Asks = {1, 2, 3}
  Users = {u1, u2}
  Tokens = {k1}
  MaxDevice = 4
  Notes = {m1}
  Slots = {1, 2}
  MaxTime = 1
  Night = {1}
  Lead = 1
  MaxCrashes = 1
INVARIANTS PushesAccounted AdsConsented
PROPERTIES SettingsKept DeviceMoves Settles
CHECK_DEADLOCK FALSE
