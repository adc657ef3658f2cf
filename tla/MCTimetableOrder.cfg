SPECIFICATION OrderSpec
CONSTANTS
  ann = ann
  bob = bob
  a1 = a1
  a2 = a2
  a3 = a3
  b1 = b1
  Ids = {a1, a2, a3, b1}
  NoId = NoId
  Holders = {ann, bob}
  NoHolder = NoHolder
  Owner <- MCOwner
  OrderReqs = {r1, r2, r3}
  Targets <- MCTargets
INVARIANTS OrdersHold
PROPERTIES ActsAsList
SYMMETRY Symmetry
CHECK_DEADLOCK FALSE
