SPECIFICATION FairSpec
CONSTANTS
  titles = titles
  professor = professor
  colleague = colleague
  Items = {titles, professor, colleague}
  Titles = {titles}
  Named <- MCNamed
  Handlers = {h1, h2}
  NoItem = NoItem
  Free = Free
  MaxRetries = 1
  MaxChanges = 3
  MaxFaults = 2
INVARIANTS AccurateAtRest
PROPERTIES LockHolds Converges
CHECK_DEADLOCK FALSE
