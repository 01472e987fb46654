SPECIFICATION FairSpec
CONSTANTS
  p1 = p1
  p2 = p2
  w1 = w1
  Pages <- TwoPages
  Writers <- NoWriter
  CanWrite <- Everyone
  MaxChanges = 1
  MaxFaults = 0
PROPERTIES
  AllChangesSynced
CHECK_DEADLOCK FALSE
