SPECIFICATION Spec
CONSTANTS
  main = main fan = fan sub = sub
  cond = cond only = only loop = loop last = last each = each task = task
  None = None e1 = e1 e2 = e2 e3 = e3
  Execs = {e1}
  Routines = {main}
  Keys = {cond, only, loop, last}
  Action <- MCAction
  MaxItems = 2
  MaxDepth = 1
  MaxAborts = 0
  MaxRoots = 1
CHECK_DEADLOCK FALSE
INVARIANT StepRunsInParallel
