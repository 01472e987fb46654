SPECIFICATION Spec
CONSTANTS
  p1 = p1
  p2 = p2
  w1 = w1
  Pages <- TwoPages
  Writers <- NoWriter
  CanWrite <- Everyone
  MaxChanges = 2
  MaxFaults = 2
INVARIANTS
  TypeOK
  StoreIsAhead
  NothingMissed
  CausalDelivery
SYMMETRY Symmetry
CHECK_DEADLOCK FALSE
