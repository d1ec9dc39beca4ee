SPECIFICATION MCSpec
CONSTANTS
  Focuses = {"resolver", "lists", "policy", "http", "features", "heart", "ups", "ble", "zigbee", "printers", "clips"}
  Requests = {1, 2}
  Domains = {"d1"}
  Hosts = {"h1"}
  Certs = {"c1", "c2"}
  CachedAgents = 1
  RouteChanges = 1
  Parts <- MCParts
  DnsOn <- Filters
  Zone <- ZoneOf
  OwnZone = "utc"
  MaxRev = 3
  PartFaults = 3
  Adapters = {"hci0"}
  MaxHelpers = 5
  BleChanges = 2
  BleFaults = 2
  MaxAdverts = 1
  Calls = {1, 2}
  Macs = {"m1"}
  ZigbeeChanges = 1
  MaxKeys = 2
  ZigbeeEvents = 1
  Printers = {"p1"}
  PrinterChanges = 1
  PrinterFaults = 1
  MaxRetrusts = 1
INVARIANTS TypesOK PolicyAgrees  PinHolds  ClipsAreWhole
PROPERTIES NeverBack HouseSettles
CHECK_DEADLOCK FALSE
