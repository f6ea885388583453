SPECIFICATION Spec
CONSTANTS
  Workers = {w1, w2}
  IntervalThreads = {t1, t2, t3}
  SubIds = {s1}
  Policy = "all"
  Ops = {"subscribe", "update", "unsubscribe", "entityUpdate"}
  CondVectors <- EveryCondition
  Throttlings <- TwoSeconds
  Paths <- RootPath
  Malformed = {}
  Duration = 2
  Interval = 1
  StartTime = 5
  MaxClock = 6
  MaxRequests = 3
  MaxCrashes = 1
  EmptyIds = TRUE
  Faults = {"crash"}
SYMMETRY Symmetry
INVARIANTS ThreadsMatchDocs CountMatchesSent
PROPERTIES BookkeepingMonotone EntityUpdatesThrottled
CHECK_DEADLOCK FALSE
