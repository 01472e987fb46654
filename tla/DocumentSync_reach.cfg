SPECIFICATION FairSpec
CONSTANTS
  p1 = p1
  p2 = p2
  w1 = w1
  Pages <- OnePage
  Writers <- OneWriter
  CanWrite <- OnlyWriters
  MaxChanges = 2
  MaxFaults = 2
PROPERTIES
  StoredReachesPages
CHECK_DEADLOCK FALSE
