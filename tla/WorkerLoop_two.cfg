SPECIFICATION FairSpec
CONSTANTS
  t1 = t1
  w1 = w1
  w2 = w2
  Tasks <- OneTask
  Workers <- TwoWorkers
  MaxErrors = 2
  MaxLeases = 2
INVARIANTS
  WorkerTypeOK
  ReportsOwnLease
  OneAtATime
PROPERTIES
  LeasesEnd
  FinishesGracefully
