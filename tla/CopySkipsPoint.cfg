SPECIFICATION Spec
CONSTANTS
  Ids = {1, 2}
  ShardIds = {0, 1, 2}
  hrw_score <- MCScore
  Vals = {v}
  Routers = {r}
  Seed <- MCSeed
  COPY_PAGE = 1
  Serial = TRUE
  MaxWrites = 3
  MaxFailures = 0
  MaxGrows = 1
  MaxDrains = 1
INVARIANTS
  AckedReadable
CHECK_DEADLOCK FALSE
