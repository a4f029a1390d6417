CONSTANTS
  ann1 = ann1
  ann2 = ann2
  bob = bob
  Ann = Ann
  Bob = Bob
  Limit = 2
  MaxCount = 1
  Clients = {ann1, bob}
  Actors = {Ann, Bob}
  ActorOf <- MCActorOf
  Anonymous = {bob}
  Values = {x}
  Empty = Empty
  Batches <- FirstRow
  Changes = {}
  MaxVersion = 5
  MaxLag = 1
SPECIFICATION Spec
INVARIANTS
  RestoreReplacesTheConflictingWrite
  ClosedByItsOperation
\* The version bound stops the behaviour, not the system.
CHECK_DEADLOCK FALSE
