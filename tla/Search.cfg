SPECIFICATION Spec
INVARIANTS
  TypeOK
  FilteredExact
  
  
  IndexesExact
  DocumentsRanked
CHECK_DEADLOCK FALSE
