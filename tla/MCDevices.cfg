SPECIFICATION MCSpec
CONSTANTS
  j1 = j1
  j2 = j2
  d1 = d1
  Jobs = {j1, j2}
  Devices = {d1}
  DeviceOf <- MCDeviceOf
  MaxFaults = 1
  MaxToggles = 1
  MaxScans = 1
  MaxRestarts = 1
  Chats = {c1, c2, c3, c4}
  AiPlaces = 1
  AiQueue = 2
  AiSettings = 2
  AiPulls = 1
INVARIANTS TypesOK PrintedOnce DeviceExclusive SlotsAccounted
PROPERTIES DevicesSettle
CHECK_DEADLOCK FALSE
