SPECIFICATION Spec
CONSTANTS
  Nodes = {a, b, c}
  Names = {n1}
  Ids = {1}
  Vals = {v}
  n1 = n1
  v = v
  Boot <- MCBoot
  MaxTerm = 2
  MaxIndex = 3
  MaxCrashes = 2
  MaxTears = 1
  MaxSnapshots = 0
SYMMETRY Symmetry
INVARIANTS
  AckedSurvives
CHECK_DEADLOCK FALSE
