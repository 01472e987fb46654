\* One task, two workers, two request threads and the periodic job, two attempts:
\* every interleaving of their reads and commits.
SPECIFICATION Spec
CONSTANTS
  doc = doc
  reencode = reencode
  transcribe = transcribe
  export = export
  Documents = {doc}
  Tasks = {export}
  Requested = {export}
  Workers = {w1, w2}
  Handlers = {h1, h2}
  Sweeper = sweeper
  DocumentOf <- MCDocumentOf
  DependsOn <- MCDependsOn
  Serves <- MCServes
  AttemptLimit = 2
  MaxResets = 0
SYMMETRY MCSymmetry
INVARIANTS
  TypeOK
  QueueInv
  CurrentIsNewest
  OverrunBound
PROPERTIES
  LeaseSpec
CHECK_DEADLOCK FALSE
