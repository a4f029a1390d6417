CONSTANTS
  ann1 = ann1
  ann2 = ann2
  bob = bob
  Ann = Ann
  Bob = Bob
  Limit = 3
  MaxCount = 1
  Clients = {ann1, bob}
  Actors = {Ann, Bob}
  ActorOf <- MCActorOf
  Anonymous = {}
  Values = {x}
  Empty = Empty
  Batches <- SingleRows
  Changes <- SomeChanges
  MaxVersion = 4
  MaxLag = 4
SPECIFICATION Spec
INVARIANT
  NoSilentOverwrite
CHECK_DEADLOCK FALSE
