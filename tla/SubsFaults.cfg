SPECIFICATION FairSpec
CONSTANTS
  Workers = {w1, w2}
  IntervalThreads = {t1, t2}
  SubIds = {s1, s2}
  Policy = "all"
  Ops = {"subscribe", "update", "unsubscribe", "entityUpdate"}
  CondVectors <- ChangeOrInterval
  Throttlings <- NoThrottling
  Paths <- RootPath
  Malformed = {s2}
  Duration = 2
  Interval = 1
  StartTime = 5
  MaxClock = 6
  MaxRequests = 2
  MaxCrashes = 1
  EmptyIds = FALSE
  Faults = {"db", "thread", "crash"}
INVARIANTS LiveThreadsMapped
PROPERTIES RequestsFinish CancelledThreadsEnd
CHECK_DEADLOCK FALSE
