SPECIFICATION Spec
CONSTANTS
  Names = {n1, n2}
  Ids = {a}
  Vals = {v}
  Absent = Absent
  Maybe = Maybe
  Blobs = {s}
  Envelope = TRUE
  CompactMinSegments = 2
  MaxBatch = 1
  MaxLsn = 5
  MaxKills = 1
  MaxPowerLosses = 0
  MaxErrors = 0
  Errors = {}
SYMMETRY Symmetry
INVARIANTS
  Durable
  SnapshotAtFloor
  ReferencedFilesExist
PROPERTIES
  ShredErases
