SPECIFICATION Spec
CONSTANTS
  s1 = s1
  s2 = s2
  NoServer = NoServer
  Servers <- MCServers
  HostRank <- MCHostRank
  Pings <- MCPings
  MasterLists <- MCMasterLists
  GarbageCounts = {0}
  MaxQueries = 1
  MaxOps = 3
  MaxFound = 1
INVARIANT CountIsListLength
CHECK_DEADLOCK FALSE
