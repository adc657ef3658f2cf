SPECIFICATION MCSpec
CONSTANTS
  Users = {u1, u2}
  Students = {s1, s2}
  NoStudent = NoStudent
  l1 = l1
  l2 = l2
  Lecs = {l1, l2}
  TermOf <- MCTermOf
  NoTerm = 0
  Runs = {r1, r2}
  MaxChanges = 2
  MaxFaults = 1
INVARIANTS OwnLectures
PROPERTIES Repairs PastTermsKept
SYMMETRY Symmetry
CHECK_DEADLOCK FALSE
