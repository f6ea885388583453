SPECIFICATION Spec
CONSTANTS
  Workers = {w1, w2}
  Policy = "all"
  Names <- AttributeNames
  Encoded <- DotEncoding
  Prefixes <- NamePrefixes
  Ids = {"i1", "i2"}
  Coordinates = {"1", "2"}
  Compounds = {"tree"}
  EntityTypes = {"A", ""}
  Paths = {"/"}
  PathsUsed = {"/"}
  Includes = {}
  Requests <- AllRequests
  MaxRequests = 3
  DbFaults = TRUE
SYMMETRY Symmetry
INVARIANTS AttrNamesMatch LocationOfAnAttribute OkMeansDone RefusedChangesNothing NotifiedAreChanged
CHECK_DEADLOCK FALSE
