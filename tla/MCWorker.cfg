SPECIFICATION Spec
CONSTANTS
  None = None c1 = c1 c2 = c2 c3 = c3 c4 = c4 m1 = m1
  Copies = {c1, c2, c3}
  Msgs = {m1}
  Delays <- OneDelay
  DeliveryLimit = 1
  MaxPublished = 2
  MaxFaults = 2
  Lease = 2
  MaxRun = 1
  Chaos = TRUE
CHECK_DEADLOCK FALSE
INVARIANTS OneAtATime FailureReleases
  NothingLost
PROPERTY CompletedNeverRunsAgain
SYMMETRY CopyIdentities
