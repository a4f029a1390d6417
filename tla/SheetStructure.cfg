CONSTANTS
  Limit = 4
  MaxCount = 2
  MaxSteps = 4
SPECIFICATION Spec
INVARIANTS
  TypeOK
  CellsFollowTheirRows
  NotesOnValuesFollow
  SpansKeepTheirRows
  SpansAreExactWithoutMoves
PROPERTY
  NothingTypedIsPushedOff
\* MaxSteps is reached: the bound stops the behaviour, not the system.
CHECK_DEADLOCK FALSE
