\* Two dependent tasks, two workers, a request thread and the periodic job, one
\* attempt, and an admin who resets tasks once.
SPECIFICATION Spec
CONSTANTS
  doc = doc
  reencode = reencode
  transcribe = transcribe
  export = export
  Documents = {doc}
  Tasks = {reencode, transcribe}
  Requested = {}
  Workers = {w1, w2}
  Handlers = {h1}
  Sweeper = sweeper
  DocumentOf <- MCDocumentOf
  DependsOn <- MCDependsOn
  Serves <- MCServes
  AttemptLimit = 1
  MaxResets = 1
SYMMETRY MCSymmetry
INVARIANTS
  BudgetUnlessOvertaken
  LockedRowsAreHeld
  PipelineOrder
PROPERTIES
  CompletedIsStable
CHECK_DEADLOCK FALSE
