SPECIFICATION MCSpec
CONSTANTS
  Hashes = {h1, h2}
  NoHash = NoHash
  IntervalMs = 60
  BackoffBaseMs = 5
  BackoffMaxMs = 30
  MaxChanges = 2
  MaxErrors = 3
  MaxPushes = 2
  MaxRestarts = 1
  Focuses = {"config", "l4", "egress", "near", "dns"}
  L4Configs <- MCL4Configs
  L4Ids = {1, 2}
  L4Ports = {81, 82, 83}
  L4Targets = {"a", "b"}
  L4Servers = 4
  L4Changes = 3
  L4Foreign = 1
  L4Conns = 1
  EgressIds = {1, 2}
  EgressPorts = {81, 82, 83}
  EgressSofts = {"x", "y"}
  EgressConfigs <- MCEgressConfigs
  EgressServers = 5
  EgressChanges = 3
  EgressForeign = 2
  Redirects = {k1, k2}
  NearChanges = 3
  NearDeaths = 1
  NearRestarts = 1
  DnsAddrs = {a1, a2}
  DnsRuns = {d1, d2}
  DnsApplies = 2
  DnsChanges = 1
  DnsForeign = 1
  c1 = c1
  None = None
INVARIANTS TypesOK NeverAsleep  
PROPERTIES RoutesSettle
CHECK_DEADLOCK FALSE
