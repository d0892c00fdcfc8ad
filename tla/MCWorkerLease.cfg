SPECIFICATION Spec
CONSTANTS
  None = None c1 = c1 c2 = c2 c3 = c3 c4 = c4 m1 = m1
  Copies = {c1, c2}
  Msgs = {m1}
  Delays <- ProductionDelays
  DeliveryLimit = 1
  MaxPublished = 1
  MaxFaults = 1
  Lease = 12
  MaxRun = 2
  Chaos = FALSE
CHECK_DEADLOCK FALSE
INVARIANT LeasedIsRetried
