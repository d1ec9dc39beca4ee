SPECIFICATION Spec
\* the two blobs do not fit in together, and one of them is preferred
CONSTANTS
  Blobs = {b1, b2}
  Big = {b2}
  Urgent = {b2}
  Limit = 2
  MaxSyncs = 2
  MaxClears = 2
  MaxEvents = 3
  SampleMax = 2
  OutageMax = 1
  SpeedtestMax = 1
  PerReport = 1
  MaxMade = 3
  MaxOutages = 1
  MaxSpeedtests = 1
  MaxTurns = 2
INVARIANTS TypesOK UsedIsSum NothingLost
PROPERTIES CommitWithinLimit StoresSettle
CHECK_DEADLOCK FALSE
