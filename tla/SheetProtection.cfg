CONSTANTS
  Limit = 4
  MaxCount = 1
  MaxSteps = 3
SPECIFICATION Spec
INVARIANT
  ExceptionsFollowTheirRows
CHECK_DEADLOCK FALSE
