SPECIFICATION MCSpec
CONSTANTS
  Leader = l
  Nodes = {l, f1, f2}
  f1 = f1
  f2 = f2
  r1 = r1
  r2 = r2
  Names = {n1}
  Ids = {1}
  Vals = {v, w}
  Upstream <- MCUpstream
  Buffer = 1
  Channel = 2
  MaxCommits = 3
  MaxFaults = 1
INVARIANTS
  AllTypesOK
  FollowerFaithful
PROPERTIES
  FollowersCatchUp
  
  RouterHonest
  Answered
CHECK_DEADLOCK FALSE
