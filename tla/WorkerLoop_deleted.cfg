SPECIFICATION Spec
CONSTANTS
  t1 = t1
  w1 = w1
  w2 = w2
  Tasks <- OneTask
  Workers <- OneWorker
  MaxErrors = 0
  MaxLeases = 1
INVARIANTS
  ProcessSurvives
