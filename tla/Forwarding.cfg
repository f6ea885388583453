SPECIFICATION Spec
CONSTANTS
  c1 = c1
  c2 = c2
  Clients = {c1, c2}
  Providers = {"p1", "p2", "p3"}
  Unreachable = {"p3"}
  Regex <- Patterns
  Updates <- UpdatesOf
  Queries <- QueriesOf
  CompoundValues = {"compound"}
  FaultsOf <- SomeFaults
  RegistrationSets <- RegistrationChoices
  InitialStores <- Start
  cprForwardLimit = 2
  MaxRequests = 2
INVARIANTS OkIsWritten NothingForgotten LocalKept ValuesWereTrue ProvidersAsked
CHECK_DEADLOCK FALSE
