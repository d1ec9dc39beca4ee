SPECIFICATION MCSpec
CONSTANTS
  Levels = {"a", "c", "$s"}
  Dollar = {"$s"}
  MaxLevels = 2
  Focuses = {"topics", "relay", "rpc", "mqtt", "child", "fence", "files", "store"}
  RelayConns = {1, 2, 3}
  RelayChanges = 1
  RelayFaults = 2
  RpcCalls = {1, 2}
  RpcSessions = {1, 2}
  RpcProcs = {1, 2}
  RpcKinds <- MCKinds
  RpcInflight = 1
  RpcSockets = 1
  RpcFaults = 1
  RpcStates = 2
  RpcOverlaps = 0
  MqttPlugins = {"p"}
  MqttFilters = {"a", "b"}
  MqttConfigs <- MCMqttConfigs
  MqttAddrs = {{1}, {2}}
  MqttIds = {1, 2}
  MqttSubs = 2
  MqttApplies = 2
  MqttLosses = 1
  MqttMoves = 1
  MqttBrowses = 1
  ChildAsks = {1, 2}
  ChildCalls = {1, 2}
  HostCallsMax = 1
  OpenMax = 1
  MaxChildren = 2
  ChildConfigs = 1
  FenceSyncs = {1, 2}
  FenceIpv6 = "yes"
  FenceOverlaps = 1
  FenceMoves = 1
  FenceFaults = 2
  FileVersions = {"v1", "v2"}
  FileShas = {"s1", "s2"}
  FileDefects = {"bad_manifest"}
  FileStates = 2
  FileFaults = 2
  FileSets = 2
INVARIANTS TypesOK  OnlyGranted MarkerIsTrue FilesAreWhole WithinGrant
 
CHECK_DEADLOCK FALSE
