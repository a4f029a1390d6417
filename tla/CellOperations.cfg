CONSTANTS
  ann1 = ann1
  ann2 = ann2
  bob = bob
  Ann = Ann
  Bob = Bob
  Limit = 3
  MaxCount = 1
  Clients = {ann1, ann2, bob}
  Actors = {Ann, Bob}
  ActorOf <- MCActorOf
  Anonymous = {}
  Values = {x}
  Empty = Empty
  Batches <- SingleRows
  Changes <- MCChanges
  MaxVersion = 4
  MaxLag = 4
SYMMETRY Tabs
SPECIFICATION Spec
INVARIANTS
  TypeOK
  LandsWhereMeant
  OverwriteIsReported
  UndoIsExact
PROPERTY
  ImplementsOperationLog
\* The version bound stops the behaviour, not the system.
CHECK_DEADLOCK FALSE
