SPECIFICATION MCSpec
CONSTANTS
  Docs = {d1, d2}
  MaxTokens = 2
  MaxWrites = 4
  MaxCrashes = 1
INVARIANTS
  AllTypesOK
  
  
  
  RateHolds
  ToolsFaithful
  StoredReadsBack

  
CHECK_DEADLOCK FALSE
