SPECIFICATION MCSpec
CONSTANTS
  Keys = {k1}
  NoKey = NoKey
  Profs = {p1}
  MaxRows = 3
  Versions = {1, 2}
  Runs = {r1, r2}
  MaxChanges = 1
  MaxFaults = 2
INVARIANTS UniqueWithoutOverlap
PROPERTIES Repairs KeepsListed
SYMMETRY Symmetry
CHECK_DEADLOCK FALSE
