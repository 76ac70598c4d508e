--------------------------- MODULE ServerBrowser ---------------------------
(***************************************************************************)
(* The in-game server browser: CHudServers (cl_dll/hud_servers.cpp) driven *)
(* by the buttons of cl_dll/vgui_ServerBrowser.cpp.                        *)
(*                                                                         *)
(* A refresh asks a master server for a list, then sends a details request *)
(* to each listed server, at most MAX_QUERIES + 1 at a time, and collects  *)
(* the answers in a list ordered by ping.  Every request goes through the  *)
(* engine's asynchronous NET_API: requests are outstanding in `net` until  *)
(* the engine calls back with an answer or a time-out, or until            *)
(* CancelAllRequests.  The user may press any button between callbacks.    *)
(***************************************************************************)
EXTENDS Integers, Sequences, FiniteSets, SequencesExt

CONSTANTS
  Servers,        \* addresses of game servers
  HostRank,       \* [Servers -> Int]: place of a server's hostname under stricmp
  Pings,          \* round-trip times a reply can carry, in milliseconds
  MasterLists,    \* the lists a master server may return
  GarbageCounts,  \* what the never-initialised m_nServerCount may hold
  NoServer,       \* stands for the address of a master or of a broadcast
  MaxQueries,     \* MAX_QUERIES, 20 in the code
  MaxOps,         \* bound: button presses in a behaviour
  MaxFound        \* bound: a LAN broadcast is answered only below this length

ASSUME BrowserAssumption ==
  /\ HostRank \in [Servers -> Int]
  /\ Pings \subseteq Nat
  /\ MasterLists \subseteq Seq(Servers)
  /\ GarbageCounts \subseteq Int
  /\ NoServer \notin Servers
  /\ MaxQueries \in Nat
  /\ MaxOps \in Nat
  /\ MaxFound \in Nat

VARIABLES
  requesting,     \* m_nRequesting
  done,           \* m_nDone
  querying,       \* m_nQuerying
  pending,        \* m_pServerList: listed servers not queried yet
  active,         \* m_pActiveList: details requests in flight
  activeQueries,  \* m_nActiveQueries
  found,          \* m_pServers: the rows of the browser
  serverCount,    \* m_nServerCount
  sortField,      \* g_fieldname
  context,        \* context_id
  net,            \* requests the engine has not ended (NET_API)
  base,           \* history: context_id when the lists were last cleared by a refresh
  ops             \* bound: button presses so far

job == <<requesting, done, querying>>
lists == <<pending, active, activeQueries, found, serverCount>>
vars == <<requesting, done, querying, pending, active, activeQueries, found,
          serverCount, sortField, context, net, base, ops>>

SortFields == {"none", "ping", "hostname"}  \* "none": the empty string

Request == [ctx : Nat, kind : {"list", "broadcast"}, adr : {NoServer}]
             \cup [ctx : Nat, kind : {"details", "info"}, adr : Servers]
Query   == [ctx : Nat, adr : Servers]
Row     == [adr : Servers, ping : Pings, ctx : Nat]

JobTypeOK ==
  /\ requesting \in BOOLEAN
  /\ done \in BOOLEAN
  /\ querying \in BOOLEAN

DataTypeOK ==
  /\ pending \in Seq(Servers)
  /\ active \subseteq Query
  /\ activeQueries \in Int
  /\ found \in Seq(Row)
  /\ serverCount \in Int
  /\ sortField \in SortFields
  /\ context \in Nat
  /\ net \subseteq Request
  /\ base \in Nat \cup {-1}
  /\ ops \in Nat

\* Type invariant of the browser's fields and of the engine's requests.
TypeOK == JobTypeOK /\ DataTypeOK
-----------------------------------------------------------------------------
(* The ordered list of rows.                                               *)

\* CompareServers: smaller ping first, then hostname.
CompareServers(p1, p2) ==
  \/ p1.ping < p2.ping
  \/ p1.ping = p2.ping /\ HostRank[p1.adr] < HostRank[p2.adr]

\* The places after the head where AddServer stops to link the new row in.
Before(rows, p) == {i \in 2 .. Len(rows) : CompareServers(p, rows[i])}
FirstBefore(rows, p) ==
  CHOOSE i \in Before(rows, p) : \A j \in Before(rows, p) : i <= j

\* Mutant: the row is linked in behind the row it should precede.
InsertAfter(rows, p) ==
  IF rows = <<>> \/ CompareServers(p, rows[1]) THEN rows \o <<p>>
  ELSE IF Before(rows, p) # {}
       THEN LET i == FirstBefore(rows, p)
            IN  SubSeq(rows, 1, i) \o <<p>> \o SubSeq(rows, i + 1, Len(rows))
       ELSE Append(rows, p)

\* AddServer's list.  A row that goes in the middle is linked with
\* p->next = list->next->next, so it takes the place of its successor.
Inserted(rows, p) ==
  IF rows = <<>> \/ CompareServers(p, rows[1]) THEN <<p>> \o rows
  ELSE IF Before(rows, p) # {}
       THEN LET i == FirstBefore(rows, p)
            IN  SubSeq(rows, 1, i - 1) \o <<p>> \o SubSeq(rows, i + 1, Len(rows))
       ELSE Append(rows, p)

\* CompareField on the two fields the model keeps.
FieldBefore(p1, p2, field) ==
  CASE field = "ping"     -> p1.ping < p2.ping
    [] field = "hostname" -> HostRank[p1.adr] < HostRank[p2.adr]
    [] OTHER              -> FALSE

Ordered(rows, field) ==
  \A i, j \in DOMAIN rows : i < j => ~FieldBefore(rows[j], rows[i], field)
-----------------------------------------------------------------------------
Init ==
  /\ requesting = FALSE
  /\ done = FALSE
  /\ querying = FALSE
  /\ pending = <<>>
  /\ active = {}
  /\ activeQueries = 0
  /\ found = <<>>
  /\ serverCount \in GarbageCounts
  /\ sortField = "none"
  /\ context = 0
  /\ net = {}
  /\ base = -1
  /\ ops = 0

\* ServersInit deletes the browser and makes a new one; the engine's requests
\* stay outstanding and their callbacks reach the new object.
ServersInit ==
  /\ ops < MaxOps
  /\ ops' = ops + 1
  /\ requesting' = FALSE
  /\ done' = FALSE
  /\ querying' = FALSE
  /\ pending' = <<>>
  /\ active' = {}
  /\ activeQueries' = 0
  /\ found' = <<>>
  /\ serverCount' \in GarbageCounts
  /\ UNCHANGED <<sortField, context, net, base>>

\* Mutant: the broadcast asks for a ping instead of the server's details.
BroadcastsPing(ctx) == {[ctx |-> ctx, kind |-> "info", adr |-> NoServer]}

\* The NA_BROADCAST and NA_BROADCAST_IPX requests, which take two contexts and
\* are answered alike: they stand in `net` as one.
Broadcasts(ctx) == {[ctx |-> ctx, kind |-> "broadcast", adr |-> NoServer]}

\* ClearRequestList, ClearServerList and m_nServerCount = 0, as both requests do.
ClearLists ==
  /\ pending' = <<>>
  /\ active' = {}
  /\ found' = <<>>
  /\ serverCount' = 0
  /\ UNCHANGED activeQueries

StartRequesting ==
  /\ ops < MaxOps
  /\ ops' = ops + 1
  /\ requesting' = TRUE
  /\ done' = FALSE
  /\ UNCHANGED querying

\* Mutant: RequestList leaves the requests of the last refresh in the engine.
RefreshKeepingOld ==
  /\ StartRequesting
  /\ ClearLists
  /\ net' = net \cup {[ctx |-> context, kind |-> "list", adr |-> NoServer]}
                \cup Broadcasts(context + 1)
  /\ context' = context + 3
  /\ base' = context
  /\ UNCHANGED sortField

\* DoRefresh: ServersList(), then BroadcastServersList(0).
Refresh ==
  /\ StartRequesting
  /\ ClearLists
  /\ net' = {[ctx |-> context, kind |-> "list", adr |-> NoServer]}
              \cup Broadcasts(context + 1)
  /\ context' = context + 3
  /\ base' = context
  /\ UNCHANGED sortField

\* DoRefresh when LoadMasterAddresses finds no usable address: RequestList has
\* set its flags and returns before it clears anything.
RefreshNoMaster ==
  /\ StartRequesting
  /\ net' = net \cup Broadcasts(context)
  /\ context' = context + 2
  /\ UNCHANGED <<pending, active, activeQueries, found, serverCount, sortField, base>>

\* DoBroadcastRefresh: BroadcastServersList(1).
LanRefresh ==
  /\ StartRequesting
  /\ ClearLists
  /\ net' = Broadcasts(context)
  /\ context' = context + 2
  /\ base' = context
  /\ UNCHANGED sortField

\* DoStop: CancelRequest.
CancelRequest ==
  /\ ops < MaxOps
  /\ ops' = ops + 1
  /\ requesting' = FALSE
  /\ querying' = FALSE
  /\ done' = TRUE
  /\ net' = {}
  /\ UNCHANGED <<lists, sortField, context, base>>

\* DoSort: SortServers(fieldname); qsort leaves the order of equal rows open.
SortServers(field) ==
  /\ ops < MaxOps
  /\ ops' = ops + 1
  /\ found # <<>>
  /\ sortField' = field
  /\ \E ord \in SetToSeqs(DOMAIN found) :
       LET sorted == [i \in DOMAIN found |-> found[ord[i]]]
       IN  Ordered(sorted, field) /\ found' = sorted
  /\ UNCHANGED <<job, pending, active, activeQueries, serverCount, context, net, base>>

\* DoPing: ServerPing(0), ServerRules(0), ServerPlayers(0).  Their answers are
\* only printed, so the three requests stand in `net` as one.
ServerPing ==
  /\ ops < MaxOps
  /\ ops' = ops + 1
  /\ found # <<>>
  /\ net' = net \cup {[ctx |-> context, kind |-> "info", adr |-> found[1].adr]}
  /\ context' = context + 3
  /\ UNCHANGED <<job, lists, sortField, base>>

UserOp ==
  \/ ServersInit
  \/ Refresh
  \/ RefreshNoMaster
  \/ LanRefresh
  \/ CancelRequest
  \/ \E field \in SortFields \ {"none"} : SortServers(field)
  \/ ServerPing
-----------------------------------------------------------------------------
(* The frame: ServersThink from HUD_Frame.                                 *)

\* Mutant: MAX_QUERIES bounds what one frame starts, not what is in flight.
StartsEachFrame ==
  IF done \/ pending = <<>> THEN 0
  ELSE IF Len(pending) <= MaxQueries + 1 THEN Len(pending) ELSE MaxQueries + 1

\* How many requests QueryThink starts: its loop stops once more than
\* MAX_QUERIES are active, or when the list is empty.
Starts ==
  IF done \/ activeQueries > MaxQueries \/ pending = <<>> THEN 0
  ELSE IF Len(pending) <= MaxQueries + 1 - activeQueries THEN Len(pending)
       ELSE MaxQueries + 1 - activeQueries

\* Mutant: the end of the job clears m_nQuerying and keeps m_nRequesting.
ThinkStillRequesting ==
  /\ requesting
  /\ querying
  /\ LET n == Starts
         sent == {[ctx |-> context + i - 1, adr |-> pending[i]] : i \in 1 .. n}
     IN  /\ pending' = SubSeq(pending, n + 1, Len(pending))
         /\ active' = active \cup sent
         /\ net' = net \cup {[ctx |-> q.ctx, kind |-> "details", adr |-> q.adr] : q \in sent}
         /\ context' = context + n
         /\ activeQueries' = activeQueries + n
         /\ querying' = (pending' # <<>> \/ active' # {})
         /\ UNCHANGED <<requesting, done>>
  /\ UNCHANGED <<found, serverCount, sortField, base, ops>>

\* Think with QueryThink, and the end of the job when both lists are empty.
Think ==
  /\ requesting
  /\ querying
  /\ LET n == Starts
         sent == {[ctx |-> context + i - 1, adr |-> pending[i]] : i \in 1 .. n}
     IN  /\ pending' = SubSeq(pending, n + 1, Len(pending))
         /\ active' = active \cup sent
         /\ net' = net \cup {[ctx |-> q.ctx, kind |-> "details", adr |-> q.adr] : q \in sent}
         /\ context' = context + n
         /\ IF pending = <<>> /\ active = {}
            THEN /\ requesting' = FALSE
                 /\ done' = FALSE
                 /\ querying' = FALSE
                 /\ activeQueries' = 0
            ELSE /\ activeQueries' = activeQueries + n
                 /\ UNCHANGED job
  /\ UNCHANGED <<found, serverCount, sortField, base, ops>>
-----------------------------------------------------------------------------
(* The engine's callbacks.  r is the request they end or answer.           *)

\* Mutant: the list callback leaves m_nActiveQueries as it was.
ListResponseKeepsCount(r, list) ==
  /\ r.kind = "list"
  /\ net' = net \ {r}
  /\ pending' = Reverse(list) \o pending
  /\ querying' = TRUE
  /\ UNCHANGED <<requesting, done, active, activeQueries, found, serverCount,
                 sortField, context, base, ops>>

\* ListResponse on success: each listed server is put on the head of the list.
ListResponse(r, list) ==
  /\ r.kind = "list"
  /\ net' = net \ {r}
  /\ pending' = Reverse(list) \o pending
  /\ querying' = TRUE
  /\ activeQueries' = 0
  /\ UNCHANGED <<requesting, done, active, found, serverCount, sortField, context,
                 base, ops>>

\* Mutant: the answered query stays on the active list.
ForgetQueryNever(r) == UNCHANGED <<active, activeQueries>>

\* ServerResponse's first step: the query leaves the active list, if it is there.
ForgetQuery(r) ==
  LET answered == {q \in active : q.ctx = r.ctx}
  IN  /\ active' = active \ answered
      /\ activeQueries' = IF answered = {} THEN activeQueries ELSE activeQueries - 1

\* AddServer with the row of an answer.
AddServer(s, ping, ctx) ==
  /\ found' = Inserted(found, [adr |-> s, ping |-> ping, ctx |-> ctx])
  /\ serverCount' = serverCount + 1

\* ServerResponse for a details request that succeeded.
ServerResponse(r, ping) ==
  /\ r.kind = "details"
  /\ net' = net \ {r}
  /\ ForgetQuery(r)
  /\ AddServer(r.adr, ping, r.ctx)
  /\ UNCHANGED <<job, pending, sortField, context, base, ops>>

\* ServerResponse for a broadcast, which any number of servers may answer.
BroadcastResponse(r, s, ping) ==
  /\ r.kind = "broadcast"
  /\ Len(found) < MaxFound
  /\ ForgetQuery(r)
  /\ AddServer(s, ping, r.ctx)
  /\ UNCHANGED <<job, pending, sortField, context, net, base, ops>>

\* Any request that ends in an error or a time-out (ListResponse, ServerResponse
\* and the printing callbacks all look at response->error first), and the answers
\* that are only printed.
RequestEnded(r) ==
  /\ net' = net \ {r}
  /\ IF r.kind \in {"details", "broadcast"}
     THEN ForgetQuery(r)
     ELSE UNCHANGED <<active, activeQueries>>
  /\ UNCHANGED <<job, pending, found, serverCount, sortField, context, base, ops>>

EngineAnswer ==
  \E r \in net :
    \/ \E list \in MasterLists : ListResponse(r, list)
    \/ \E ping \in Pings : ServerResponse(r, ping)
    \/ \E s \in Servers, ping \in Pings : BroadcastResponse(r, s, ping)
    \/ RequestEnded(r)

Next == UserOp \/ Think \/ EngineAnswer

Spec == Init /\ [][Next]_vars

\* HUD_Frame runs every frame, and every SendRequest carries a time-out after
\* which the engine ends it.  The user is never obliged to act.
FairSpec == Spec /\ WF_vars(Think) /\ WF_vars(EngineAnswer)
-----------------------------------------------------------------------------
(* Properties.                                                             *)

\* Every query on the active list while the browser works through its list has
\* its request outstanding in the engine: an entry without one would keep
\* ServerListSize() above zero, and the browser querying, for ever.
ActiveIsOutstanding ==
  requesting /\ querying =>
    \A q \in active : [ctx |-> q.ctx, kind |-> "details", adr |-> q.adr] \in net

\* While servers wait to be queried, m_nActiveQueries counts the active list,
\* although cancels and refreshes clear the list and not the counter, and the
\* window of queries in flight is never exceeded.
QueryAccounting ==
  querying /\ pending # <<>> =>
    /\ activeQueries = Cardinality(active)
    /\ Cardinality(active) <= MaxQueries + 1

\* The listed servers are asked as QueryWindow says: once each, in order, with as many
\* on their way as the window holds, whatever the user presses and however the answers
\* come.  The counter, the engine's requests and the flags are gone.
Asked == INSTANCE QueryWindow
           WITH Window <- MaxQueries + 1, Lists <- {Reverse(list) : list \in MasterLists},
                waiting <- pending, flying <- active, next <- context
WindowSpec == Asked!Spec

\* No row comes from a request made before the lists were last cleared: answers
\* to an earlier refresh cannot slip in, since the engine was told to drop them.
NoStaleRows == \A i \in DOMAIN found : base <= found[i].ctx

\* The rows are in ping order as long as the user has asked for no other order.
RowsByPing == sortField # "hostname" => Ordered(found, "ping")

\* GetServerCount: "Return number of servers in browser list".
CountIsListLength == base >= 0 => serverCount = Len(found)

\* Once the list from the master is being worked through, the job ends.
QueryingTerminates == requesting /\ querying ~> ~requesting
=============================================================================
