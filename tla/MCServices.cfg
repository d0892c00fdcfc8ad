SPECIFICATION ServicesSpec
CONSTANTS
  p1 = p1
  p2 = p2
  Rows = {1, 2, 3}
  Replicas = {p1, p2}
  BatchSize = 2
  MaxFaults = 2
  None = None
  c1 = c1
  c2 = c2
  c3 = c3
  CommandCopies = {c1, c2, c3}
  m1 = m1
  a1 = a1
  x1 = x1
  x2 = x2
  o1 = o1
  o2 = o2
  Owners = {o1, o2}
  Actions = {a1}
  Copies = {x1, x2}
  ActionOf <- ActionOfCopies
  Users = {u1}
  MaxLists = 3
  MaxTasks = 3
  MaxPosts = 1
  MaxAttempts = 3
  MaxStoreFaults = 1
  NoFormat = NoFormat
  k1 = k1
  k2 = k2
  e1 = e1
  Events = {e1}
  EventCopies = {k1, k2}
  EventOf <- EventOfCopies
  Readers = {n1, n2}
  MaxTries = 3
  MaxDeletions = 2
  s1 = s1
  s2 = s2
  Services = {s1, s2}
  Migrations <- MigrationCounts
  WaitAttempts = 2
  MaxMishaps = 3
INVARIANTS PublishedTwiceOnlyByFault TaskIsWithItsOwner ResultNamesItsTask
PROPERTIES ImplementsBus EnqueuedIsPublished EveryCommandIsAnswered ActionGetsItsTask EventReachesInbox StartsDoNotDisturbEachOther
CHECK_DEADLOCK FALSE
