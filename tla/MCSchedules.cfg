SPECIFICATION Spec
CONSTANTS
  None = None
  fast = fast
  slow = slow
  x1 = x1
  x2 = x2
  x3 = x3
  x4 = x4
  Definitions = {d}
  Crons = {fast, slow}
  Period <- Periods
  Routines = {r1}
  Replicas = {p1, p2}
  Ids <- IdSet
  Keys = {}
  BatchSize = 1
  Skew = 1
  MaxTime = 4
  MaxRuns = 0
  MaxVersion = 5
  MaxAborts = 1
INVARIANTS SlotFiredOnce NextFits
PROPERTIES CatchesUpOnce UrlChangesByRotation
SYMMETRY IdSymmetry
CHECK_DEADLOCK FALSE
