\* Liveness: two dependent tasks, two attempts; no symmetry.
SPECIFICATION FairSpec
CONSTANTS
  doc = doc
  reencode = reencode
  transcribe = transcribe
  export = export
  Documents = {doc}
  Tasks = {reencode, transcribe}
  Requested = {}
  Workers = {w1}
  Handlers = {h1}
  Sweeper = sweeper
  DocumentOf <- MCDocumentOf
  DependsOn <- MCDependsOn
  Serves <- MCServes
  AttemptLimit = 2
  MaxResets = 0
PROPERTIES
  OverdueIsReclaimed
  ReadyTaskFinishes
CHECK_DEADLOCK FALSE
