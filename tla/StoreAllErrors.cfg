SPECIFICATION Spec
CONSTANTS
  Names = {n1}
  Ids = {a, b}
  Vals = {v}
  Absent = Absent
  Maybe = Maybe
  Blobs = {}
  Envelope = FALSE
  CompactMinSegments = 3
  MaxBatch = 2
  MaxLsn = 4
  MaxKills = 0
  MaxPowerLosses = 0
  MaxErrors = 2
  Errors = {"append", "seal", "swap", "rotate"}
SYMMETRY Symmetry
INVARIANTS
  Durable
