SPECIFICATION Spec
CONSTANTS
  Users = {u1, u2}
  Tts = {t1, t2}
  Lecs = {l1}
  Blocks = {b1, b2}
  TimeSets <- MCTimeSets
  ClassTimes <- MCClassTimes
  Reqs = {r1, r2}
  NoTt = NoTt
  NoUser = NoUser
  MaxChanges = 2
INVARIANTS FreshView BlocksApart
PROPERTIES OverlapsAdmitted
SYMMETRY Symmetry
CHECK_DEADLOCK FALSE
