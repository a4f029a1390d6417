CONSTANTS
  Automations = {a}
  Created = {"schedule", "webhook"}
  Updated = {"schedule", "cell_change"}
  Schedulers = {s1}
  Callers = {c1}
  ClientKeys = {1}
  Slots = {1, 3}
  RunsPerHour = 1
  Hour = 1
  Skew = 1
  Refused = {3}
  MaxTime = 2
  MaxVersion = 2
  MaxRevision = 2
  MaxFaults = 1
SPECIFICATION Spec
INVARIANTS
  StatusTellsTheTruth
  AppliedToWhatItRead
  OncePerCause
  RateIsKept
PROPERTIES
  DueIsKept
  NoDueStalls
