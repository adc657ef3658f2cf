SPECIFICATION MCSpec
CONSTANTS
  Users = {u1, u2}
  Codes = {c1, c2}
  NoCode = NoCode
  NoUser = NoUser
  Reqs = {r1, r2, r3}
  MaxAttempts = 2
  MaxGen = 3
  Moments = {1, 2}
  Sections = {1, 2, 3}
  FactsOf <- MCFactsOf
  SavedTerm = 2
  MaxBlocks = 2
  MaxWrites = 2
INVARIANTS BlocksAsAsked SchedulesSeen
PROPERTIES Friendship AddedMeansFriends CodesHold
SYMMETRY Symmetry
CHECK_DEADLOCK FALSE
