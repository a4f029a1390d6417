CONSTANTS
  Browsers = {b1}
  Nobody = nobody
  Changes = {"operation", "structure", "current"}
  QueueSize = 1
  MaxVersion = 3
  MaxFaults = 1
SPECIFICATION Spec
INVARIANTS
  NoChangeIsMissed
CHECK_DEADLOCK FALSE
PROPERTY ScreensConverge
