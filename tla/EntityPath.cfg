SPECIFICATION Spec
CONSTANTS
  Workers = {w1, w2}
  Policy = "all"
  Names <- AttributeNames
  Encoded <- DotEncoding
  Prefixes <- NamePrefixes
  Ids = {"i1", "i2"}
  Coordinates = {"1", "2"}
  Compounds = {"tree"}
  EntityTypes = {"A", ""}
  Paths = {"/", "/a"}
  PathsUsed = {"/", "/a"}
  Includes <- RootIncluded
  Requests <- TwoPathRequests
  MaxRequests = 3
  DbFaults = FALSE
SYMMETRY Symmetry
PROPERTIES WritesOwnPath
CHECK_DEADLOCK FALSE
