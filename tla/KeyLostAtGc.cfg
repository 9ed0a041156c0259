SPECIFICATION Spec
CONSTANTS
  Names = {n1}
  Ids = {a}
  Vals = {v}
  Absent = Absent
  Maybe = Maybe
  Blobs = {}
  Envelope = TRUE
  CompactMinSegments = 3
  MaxBatch = 1
  MaxLsn = 4
  MaxKills = 2
  MaxPowerLosses = 0
  MaxErrors = 0
  Errors = {}
SYMMETRY Symmetry
INVARIANTS
  KeysAvailable
