SPECIFICATION FairSpec
CONSTANTS
  Types = {"UserCreated", "LoadedSong"}
  Poison = Poison
  Startup <- Startup3
  Listens <- Listens3
  Buffer = 1
  Batch = 1
  None = None
  MaxRows = 2
  MaxErrors = 1
  MaxRestarts = 1
INVARIANTS TypeOK InOrder
PROPERTIES DeletedOnlyAfterFanout EveryEventHandled OutboxDrains
CHECK_DEADLOCK FALSE
