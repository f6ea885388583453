SPECIFICATION MessagesSpec
CONSTANTS
  Forbidden = {"<>"}
  Durations = {"PT1H", "PT24H"}
  Ids = {"51c0ac9ed714fb3b37d7d5a8"}
  Codes = {"200"}
  OutOfRange = {"91"}
  ADuration = "PT1H"
  AnId = "51c0ac9ed714fb3b37d7d5a8"
  MaxEdits = 1
  Odd = {"", "true", "bad", "<>", "91", "0"}
  Escapes <- MCEscapes
  Quoted <- MCQuoted
  Default = "PT24H"
CHECK_DEADLOCK FALSE
INVARIANTS SameRequest NothingLost OrderFree UnderstoodByAnother AnswersWellFormed
