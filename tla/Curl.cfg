SPECIFICATION FairSpec
CONSTANTS
  Senders = {t1, t2, t3}
  Hosts = {h1, h2}
  MaxSends = 2
  MaxHandles = 2
  TimeStat = TRUE
  Timeout = TRUE
  AllocFails = TRUE
INVARIANTS HandleExclusive HostSerial
PROPERTIES SendsFinish
CHECK_DEADLOCK FALSE
