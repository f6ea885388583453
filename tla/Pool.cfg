SPECIFICATION FairSpec
CONSTANTS
  Threads = {t1, t2, t3}
  None = None
  PoolSize = 2
  MaxOps = 2
  AllConnect = FALSE
  LargeResults = TRUE
INVARIANTS HeldByOne
PROPERTIES ImplementsContract WaiterServed
