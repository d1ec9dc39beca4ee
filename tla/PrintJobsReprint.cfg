SPECIFICATION MCSpec
CONSTANTS
  j1 = j1
  j2 = j2
  d1 = d1
  Jobs = {j1, j2}
  Devices = {d1}
  DeviceOf <- MCDeviceOf
  MaxFaults = 1
  MaxToggles = 1
  MaxScans = 1
  MaxRestarts = 1
  Chats = {}
  AiPlaces = 1
  AiQueue = 1
  AiSettings = 0
  AiPulls = 0
INVARIANT JournalStopsReprint
CHECK_DEADLOCK FALSE
