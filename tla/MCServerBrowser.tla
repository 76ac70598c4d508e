-------------------------- MODULE MCServerBrowser --------------------------
(***************************************************************************)
(* ServerBrowser on two servers and a window of two queries in flight.   *)
(***************************************************************************)
EXTENDS ServerBrowser

CONSTANTS s1, s2

MCServers == {s1, s2}
MCHostRank == [s \in MCServers |-> IF s = s1 THEN 1 ELSE 2]
MCPings == {1, 2}
MCMasterLists == {<<s1, s2, s1>>}
MCGarbageCounts == {0, 7}
=============================================================================
