SPECIFICATION FairSpec
CONSTANTS
  None = None
  fast = fast
  slow = slow
  x1 = x1
  x2 = x2
  x3 = x3
  x4 = x4
  Definitions = {d}
  Crons = {fast}
  Period <- Periods
  Routines = {r1, r2}
  Replicas = {p1}
  Ids <- IdSet
  Keys = {k1}
  BatchSize = 1
  Skew = 0
  MaxTime = 1
  MaxRuns = 2
  MaxVersion = 2
  MaxAborts = 1
INVARIANTS KeyNamesOneExecution
PROPERTIES DueIsHandled
CHECK_DEADLOCK FALSE
