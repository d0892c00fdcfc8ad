SPECIFICATION FairSpec
CONSTANTS
  main = main sub = sub task = task call = call more = more again = again
  None = None e1 = e1 e2 = e2 e3 = e3
  Execs = {e1, e2, e3}
  Routines = {main, sub}
  Keys = {task, call, more, again}
  Action <- MCAction
  MaxItems = 0
  MaxDepth = 1
  MaxAborts = 1
  MaxRoots = 1
CHECK_DEADLOCK FALSE
INVARIANTS NothingEmittedTwice EndAnnounced
PROPERTIES Lifecycle EveryRunEnds
