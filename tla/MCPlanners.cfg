SPECIFICATION MCSpec
CONSTANTS
  u1 = u1
  u2 = u2
  p1 = p1
  p2 = p2
  p3 = p3
  p4 = p4
  Planning = {u1, u2}
  PlannerIds = {p1, p2, p3, p4}
  Owner <- MCOwner
  NoId = NoId
  Reqs = {r1, r2}
  Targets <- MCTargets
  Tracks = {k1}
  Spans <- MCSpans
  l1 = l1
  l2 = l2
  Attended <- MCAttended
  AttendedBy <- MCAttendedBy
  MaxItem = 4
INVARIANTS OrdersHold
PROPERTIES AnswersHold
SYMMETRY Symmetry
CHECK_DEADLOCK FALSE
