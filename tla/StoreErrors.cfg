SPECIFICATION FairSpec
CONSTANTS
  Names = {n1}
  Ids = {a, b}
  Vals = {v}
  Absent = Absent
  Maybe = Maybe
  Blobs = {}
  Envelope = FALSE
  CompactMinSegments = 2
  MaxBatch = 2
  MaxLsn = 4
  MaxKills = 1
  MaxPowerLosses = 0
  MaxErrors = 1
  Errors = {"seal", "rotate"}
INVARIANTS
  Durable
  ManifestImmutable
PROPERTIES
  CallsReturn
