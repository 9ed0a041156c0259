SPECIFICATION Spec
CONSTANTS
  Names = {n1}
  Ids = {a, b}
  Vals = {v, w}
  Absent = Absent
  Maybe = Maybe
  Blobs = {}
  Envelope = FALSE
  CompactMinSegments = 2
  MaxBatch = 2
  MaxLsn = 4
  MaxKills = 0
  MaxPowerLosses = 2
  MaxErrors = 0
  Errors = {}
SYMMETRY Symmetry
INVARIANTS
  TypeOK
  Durable
  ReadPathsAgree
  FreshIds
  LogCoversWindow
PROPERTIES
  ImplementsDurableMap
