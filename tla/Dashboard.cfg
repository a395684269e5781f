SPECIFICATION DashFairSpec
CONSTANTS
  Filters = {"all", "ssh"}
  NoFilter = "all"
  Matching <- MCMatching
  Group <- MCGroup
  PageSizes = {1, 2}
  DefaultSize = 1
  Paths <- MCPaths
  Present = 2
  MaxEvents = 3
  MaxActs = 3
  MaxOut = 2
  None = None
INVARIANTS
  ShownMatches
  NothingUnannounced
  WindowRight
PROPERTIES
  Settles
CHECK_DEADLOCK FALSE
