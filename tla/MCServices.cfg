SPECIFICATION SvcSpec
CONSTANTS
  Requests = {r1, r2, r3}
  None = None
  Macs = {m1, m2}
  PresQueue = 2
  PresMoves = 3
  PresApplies = 2
  PresFaults = 1
  Hosts = {m1, m2}
  WatchChanges = 3
  WatchTurns = 2
  EventsMade = 4
  EventsClock = 3
  EventsDrops = 2
  EventsBuffer = 2
  EventsAge = 1
INVARIANTS TypesOK SlotIsHeld EndedIsReported NothingUntold
PROPERTIES ImplementsService ServicesSettle
CHECK_DEADLOCK FALSE
