SPECIFICATION FairSpec
CONSTANTS
  Connections = {c1, c2}
  OptionSets <- Foreground
  Requests <- SomeRequests
  MaxRequests = 3
  MaxInt = 2
  STATIC_BUFFER_SIZE = 2
  PAYLOAD_MAX_SIZE = 3
  acceptTextXml = FALSE
INVARIANTS NotServedAfterError PayloadOfItsRequest TransactionsDiffer
PROPERTIES EveryRequestEnds
CHECK_DEADLOCK FALSE
