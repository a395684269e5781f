SPECIFICATION FairSpec
CONSTANTS
  e1 = e1
  e2 = e2
  e3 = e3
  v1 = v1
  v2 = v2
  v3 = v3
  Events = {e1, e2, e3}
  Evidence = {v1, v2, v3}
  Of <- MCOf
  Stamp <- MCStamp
  Rank <- MCRank
  Period <- MCPeriod
  MetadataAge = 1
  Cap = 3
  BatchSize = 1
  MaxNow = 3
  MaxOrphans = 1
  Never = Never
  None = None
INVARIANTS
  Readable
PROPERTIES
  OldestFirst
  WithinCap
  PruneEnds
