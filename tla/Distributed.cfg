SPECIFICATION MCSpec
CONSTANTS
  Ids = {1, 2}
  ShardIds = {0, 1, 2}
  hrw_score <- MCScore
  Vals = {v}
  Routers = {r}
  Seed <- MCSeed
  COPY_PAGE = 1
  Serial = TRUE
  MaxWrites = 2
  MaxFailures = 1
  MaxGrows = 1
  MaxDrains = 1
  Voters = {a, b, c}
  name = n1
SYMMETRY Symmetry
INVARIANTS
  AllTypesOK
  PointsReadable
  RaftSafe
  PoolSafe
PROPERTIES
  LastCopyKept
  
CHECK_DEADLOCK FALSE
