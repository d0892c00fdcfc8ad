SPECIFICATION PagesSpec
CONSTANTS
  None = None
  d1 = d1
  d2 = d2
  Definitions = {d1, d2}
  Crons = {}
  Period <- NoPeriods
  Editors = {e1, e2}
  Kind = "webhook"
  MaxVersion = 4
  Unknown = Unknown
  l0 = l0
  l1 = l1
  t1 = t1
  PageLists = {l0, l1}
  Todo = l0
  PageTasks = {t1}
  ListOf <- ListOfTask
  Watched = {{"tasks"}, {"lists"}}
  Requests = {1, 2}
  MaxRequests = 2
  MaxTrouble = 1
  Notes = {n1, n2}
  MaxClicks = 2
  MaxIncidents = 1
  StepKeys = {"a", "b", "c"}
  DraftStarts <- Definitions3
  MaxActions = 3
  MaxStep = 3
  MaxEdits = 4
  Nothing = Nothing
  MinuteTicks = 6
  HourMinutes = 6
  DayHours = 4
  WeekDays = 3
  Workdays = {1, 2}
  MinInterval = 2
  Typed <- TypedExpressions
  Default <- DefaultSchedule
  Life = 4
  RenewBefore = 2
  MaxTime = 6
  MaxTokens = 3
  Calls = {c1, c2}
  Hops = {h1}
  Backends = {b1, b2}
  Retries = 2
  MaxBreaks = 3
  Checks = {r1, r2}
  SigningKeys = {1, 2}
  CacheMaxAge = 3
  Cooldown = 1
  RetryAfter = 1
  MaxTicks = 4
INVARIANTS PageTruthful InboxTruthful PageAndServiceAgree PreviewSaysWhatRuns TokensFitSession WriteHandledOnce
PROPERTIES SavesOverWhatItLoaded SavedAsShown OutlivesOutages LastKeysDecide PageSettles
CHECK_DEADLOCK FALSE
