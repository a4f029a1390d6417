CONSTANTS
  Requests = {r1, r2}
  Keys = {k1, k2}
  Kinds = {"object", "report", "sort", "update"}
  MaxTools = 2
  MaxRequests = 2
  MaxDisturbances = 2
SYMMETRY Symmetry
SPECIFICATION Spec
CHECK_DEADLOCK FALSE
INVARIANTS
  TypeOK
  NothingWithoutApproval
  UndoneLeavesNothing
  FailedLeavesNothing
PROPERTIES
  AppliedToWhatWasReviewed
  UndoTakesOnlyItsOwn
