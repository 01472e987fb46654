SPECIFICATION AppSpec
CONSTANTS
  Writers = {"page", "worker"}
  Savers = {s1, s2}
  MaxAppends = 2
  Block = 2
  MediaSizes = {1, 2, 4}
  SizeLimit = 3
  MaxCrashes = 1
  Ids = {i1, i2}
  Paths = {p}
  Commands = {c1, c2}
  MaxChanges = 2
  MaxEvents = 2
SYMMETRY Symmetry
INVARIANTS
  AppTypeOK
  WorkingCopySurvives
  ArchivesReadBack
  WindowShowsDocument
  SavedStateIsTrue
CHECK_DEADLOCK FALSE
