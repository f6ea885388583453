SPECIFICATION Spec
CONSTANTS
  Connections = {c1, c2}
  OptionSets <- Daemon
  Requests <- SomeRequests
  MaxRequests = 1
  MaxInt = 2
  STATIC_BUFFER_SIZE = 2
  PAYLOAD_MAX_SIZE = 3
  acceptTextXml = FALSE
INVARIANTS PidFileKept
CHECK_DEADLOCK FALSE
