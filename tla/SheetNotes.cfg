CONSTANTS
  Limit = 4
  MaxCount = 1
  MaxSteps = 3
SPECIFICATION Spec
INVARIANT
  NotesFollowTheirCells
CHECK_DEADLOCK FALSE
