SPECIFICATION FairSpec
CONSTANTS
  s1 = s1
  s2 = s2
  NoServer = NoServer
  Servers <- MCServers
  HostRank <- MCHostRank
  Pings <- MCPings
  MasterLists <- MCMasterLists
  GarbageCounts <- MCGarbageCounts
  MaxQueries = 1
  MaxOps = 3
  MaxFound = 1
INVARIANTS TypeOK ActiveIsOutstanding QueryAccounting NoStaleRows RowsByPing
PROPERTIES WindowSpec QueryingTerminates
CHECK_DEADLOCK FALSE
