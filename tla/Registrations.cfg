SPECIFICATION Spec
CONSTANTS
  Workers = {w1, w2}
  Policy = "all"
  Regex <- Patterns
  RegIds = {1, 2}
  SubIds = {11}
  MalformedId = 99
  Requests <- AllRequests
  Scoped = TRUE
  DefaultDuration = 9
  MaxClock = 1
  MaxRequests = 3
  Forward = TRUE
  SharedUpdates = FALSE
  Faults = {"association", "query", "write", "count"}
SYMMETRY Symmetry
INVARIANTS SemGivenBack RefusedRegistersNothing InterestedAreNotified LinkKept
CHECK_DEADLOCK FALSE
