SPECIFICATION Spec
CONSTANTS
  Regex <- Patterns
  Capitals <- InCapitals
  Families <- AllFamilies
  SubscriptionIds <- TwoIds
  MaxEntities = 2
  MaxRegistrations = 2
  BadWords = {"#"}
  harakiri = TRUE
INVARIANTS ReadYourWrite
PROPERTIES OnlyTheAddressed RefusedChangesNothing VersionsAgree
CHECK_DEADLOCK FALSE
