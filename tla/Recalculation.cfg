CONSTANTS
  Columns = 2
  Rows = 2
  Typed = {2}
  Kinds = {"minus", "sum", "sequence", "pair", "indirect"}
  NamedRows = {1, 2}
  MaxBatch = 2
  MaxOperations = 3
  Remembered = 2
  Evaluated <- ValuesAfter
SPECIFICATION Spec
CHECK_DEADLOCK FALSE
INVARIANTS
  ShowsItsResult
  FullRecalculationAgrees
PROPERTIES
  TypedStays
