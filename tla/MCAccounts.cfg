SPECIFICATION MCSpec
CONSTANTS
  Persons = {p, q}
  NoOne = NoOne
  Devices = {d}
  Visits = {v, w}
  Asks = {a, b}
  AccessTtl = 1
  RefreshTtl = 3
  MaxTime = 3
  MaxFaults = 1
INVARIANTS AccountsHold SessionsHold
SYMMETRY Symmetry
CHECK_DEADLOCK FALSE
