SPECIFICATION Spec
CONSTANTS
  Names = {n1}
  Ids = {a}
  Vals = {v}
  Absent = Absent
  Maybe = Maybe
  Blobs = {}
  Envelope = FALSE
  CompactMinSegments = 3
  MaxBatch = 1
  MaxLsn = 4
  MaxKills = 1
  MaxPowerLosses = 1
  MaxErrors = 0
  Errors = {}
SYMMETRY Symmetry
INVARIANTS
  Durable
