------------------------- MODULE ServerBrowserProofs -------------------------
(***************************************************************************)
(* Proofs about ServerBrowser: its types, that neither the active list nor *)
(* the rows outlive the requests they came from, that the rows are in ping *)
(* order, that the queries in flight are counted and bounded, that the     *)
(* listed servers are asked as QueryWindow promises, and that a job always *)
(* has something to wait for.                                              *)
(***************************************************************************)
EXTENDS ServerBrowser, NaturalFacts, SequenceTheorems

\* Every entry of the active list has its request outstanding.
ActiveBacked ==
  \A q \in active : [ctx |-> q.ctx, kind |-> "details", adr |-> q.adr] \in net

\* The strengthening of ActiveIsOutstanding.  A cancel leaves the active list
\* without its requests, but then no list request is outstanding either, so
\* m_nQuerying stays clear until a refresh has emptied the active list.
ActiveInv ==
  \/ ActiveBacked
  \/ /\ ~querying
     /\ \A r \in net : r.kind # "list"

\* The strengthening of NoStaleRows: outstanding requests are recent too.
ContextInv ==
  /\ base <= context
  /\ \A r \in net : base <= r.ctx
  /\ \A i \in DOMAIN found : base <= found[i].ctx
\* The strengthening of QueryAccounting, in two parts.  Contexts tell queries apart.
ContextsDiffer ==
  /\ IsFiniteSet(active)
  /\ \A q \in active : q.ctx < context
  /\ \A q1, q2 \in active : q1.ctx = q2.ctx => q1 = q2

\* At most one list request is outstanding, and then both lists are empty: its
\* answer finds nothing to count when it sets m_nActiveQueries to zero.
ListRequestAlone ==
  /\ \A r1, r2 \in net : r1.kind = "list" /\ r2.kind = "list" => r1 = r2
  /\ \A r \in net : r.kind = "list" => active = {} /\ pending = <<>>

CountInv == ContextsDiffer /\ ListRequestAlone /\ QueryAccounting
-----------------------------------------------------------------------------
\* A row that goes in the middle takes the place of the first row it precedes.
LEMMA InsertedMiddle ==
  ASSUME NEW T, NEW rows \in Seq(T), NEW p \in T,
         ~(rows = <<>> \/ CompareServers(p, rows[1])), Before(rows, p) # {}
  PROVE  /\ Inserted(rows, p) \in Seq(T) /\ Len(Inserted(rows, p)) = Len(rows)
         /\ \E i \in Before(rows, p) :
              /\ \A j \in Before(rows, p) : i <= j
              /\ \A k \in 1 .. Len(rows) :
                   Inserted(rows, p)[k] = IF k = i THEN p ELSE rows[k]
<1> DEFINE i == FirstBefore(rows, p)
           left == SubSeq(rows, 1, i - 1)
           right == SubSeq(rows, i + 1, Len(rows))
<1>0. Before(rows, p) \in SUBSET Nat
  BY DEF Before
<1>1. i \in Before(rows, p) /\ \A j \in Before(rows, p) : i <= j
  <2>1. \E k \in Before(rows, p) : \A j \in Before(rows, p) : k <= j
    BY <1>0, LeastNatural
  <2> QED BY <2>1 DEF FirstBefore
<1>a. i \in 2 .. Len(rows)
  BY <1>1 DEF Before
<1>2. Inserted(rows, p) = left \o <<p>> \o right
  BY DEF Inserted
<1>3. /\ left \in Seq(T) /\ Len(left) = i - 1
      /\ \A k \in 1 .. i - 1 : left[k] = rows[k]
  BY <1>a
<1>4. /\ right \in Seq(T) /\ Len(right) = Len(rows) - i
      /\ \A k \in 1 .. Len(rows) - i : right[k] = rows[k + i]
  BY <1>a
<1> DEFINE head == left \o <<p>>
<1> HIDE DEF i, left, right
<1>5. /\ head \in Seq(T) /\ Len(head) = i
      /\ \A k \in 1 .. i : head[k] = IF k = i THEN p ELSE rows[k]
  BY <1>a, <1>3
<1> HIDE DEF head
<1>6. /\ head \o right \in Seq(T) /\ Len(head \o right) = Len(rows)
      /\ \A k \in 1 .. Len(rows) :
           (head \o right)[k] = IF k = i THEN p ELSE rows[k]
  <2>1. head \o right \in Seq(T) /\ Len(head \o right) = Len(rows)
    <3>1. head \o right \in Seq(T) /\ Len(head \o right) = Len(head) + Len(right)
      BY <1>4, <1>5, ConcatProperties
    <3>2. Len(head) + Len(right) = Len(rows)
      <4>1. Len(rows) \in Nat /\ i \in Int
        BY <1>a
      <4> QED BY <1>4, <1>5, <4>1
    <3> QED BY <3>1, <3>2
  <2>2. ASSUME NEW k \in 1 .. i
        PROVE  (head \o right)[k] = IF k = i THEN p ELSE rows[k]
    BY <1>a, <1>4, <1>5
  <2>3. ASSUME NEW k \in i + 1 .. Len(rows)
        PROVE  (head \o right)[k] = rows[k]
    <3>1. (head \o right)[k] = right[k - i]
      BY <1>a, <1>4, <1>5, <2>1
    <3>2. k - i \in 1 .. Len(rows) - i /\ (k - i) + i = k
      BY <1>a
    <3> QED BY <1>4, <3>1, <3>2
  <2> QED BY <1>a, <2>1, <2>2, <2>3
<1>7. Inserted(rows, p) = head \o right
  BY <1>2 DEF head
<1> QED BY <1>1, <1>6, <1>7

\* AddServer's list is a sequence made of the old rows and the new one.
LEMMA InsertedRows ==
  ASSUME NEW T, NEW rows \in Seq(T), NEW p \in T
  PROVE  /\ Inserted(rows, p) \in Seq(T)
         /\ \A i \in DOMAIN Inserted(rows, p) :
              \/ Inserted(rows, p)[i] = p
              \/ \E j \in DOMAIN rows : Inserted(rows, p)[i] = rows[j]
<1>1. CASE rows = <<>> \/ CompareServers(p, rows[1])
  <2>1. Inserted(rows, p) = <<p>> \o rows
    BY <1>1 DEF Inserted
  <2> QED BY <2>1
<1>2. CASE /\ ~(rows = <<>> \/ CompareServers(p, rows[1]))
           /\ Before(rows, p) # {}
  BY <1>2, InsertedMiddle
<1>3. CASE /\ ~(rows = <<>> \/ CompareServers(p, rows[1]))
           /\ Before(rows, p) = {}
  <2>1. Inserted(rows, p) = Append(rows, p)
    BY <1>3 DEF Inserted
  <2> QED BY <2>1
<1> QED BY <1>1, <1>2, <1>3
-----------------------------------------------------------------------------
\* SubSeq beyond a prefix, as QueryThink leaves the waiting list.
LEMMA StartsRange ==
  ASSUME TypeOK, BrowserAssumption
  PROVE  /\ Starts \in 0 .. Len(pending)
         /\ SubSeq(pending, Starts + 1, Len(pending)) \in Seq(Servers)
<1>1. Len(pending) \in Nat /\ activeQueries \in Int /\ MaxQueries \in Nat
  BY DEF TypeOK, DataTypeOK, BrowserAssumption
<1>2. Starts \in 0 .. Len(pending)
  BY <1>1 DEF Starts
<1>3. pending \in Seq(Servers)
  BY DEF TypeOK, DataTypeOK
<1> HIDE DEF Starts
<1> QED BY <1>1, <1>2, <1>3

\* What one run of Think sends: details requests with fresh contexts.
LEMMA ThinkSends ==
  ASSUME TypeOK, BrowserAssumption, Think
  PROVE  \E sent \in SUBSET Query :
           /\ \A q \in sent : q.ctx >= context
           /\ active' = active \cup sent
           /\ net' = net \cup {[ctx |-> q.ctx, kind |-> "details", adr |-> q.adr]
                                 : q \in sent}
<1> DEFINE sent == {[ctx |-> context + i - 1, adr |-> pending[i]] : i \in 1 .. Starts}
<1>1. Starts \in 0 .. Len(pending) /\ pending \in Seq(Servers) /\ context \in Nat
  BY StartsRange DEF TypeOK, DataTypeOK
<1>2. ASSUME NEW i \in 1 .. Starts
      PROVE  /\ pending[i] \in Servers
             /\ context + i - 1 \in Nat
             /\ context + i - 1 >= context
  BY <1>1, <1>2
<1>3. sent \in SUBSET Query /\ \A q \in sent : q.ctx >= context
  BY <1>2 DEF Query
<1>4. /\ active' = active \cup sent
      /\ net' = net \cup {[ctx |-> q.ctx, kind |-> "details", adr |-> q.adr] : q \in sent}
  BY DEF Think
<1> HIDE DEF sent
<1> QED BY <1>3, <1>4

\* The rows of an answered request are rows.
LEMMA AddServerRows ==
  ASSUME found \in Seq(Row), NEW p \in Row, found' = Inserted(found, p)
  PROVE  /\ found' \in Seq(Row)
         /\ \A i \in DOMAIN found' : found'[i] = p \/ \E j \in DOMAIN found : found'[i] = found[j]
BY InsertedRows

\* A sort only permutes the rows.
LEMMA SortedRows ==
  ASSUME found \in Seq(Row), NEW ord \in SetToSeqs(DOMAIN found),
         found' = [i \in DOMAIN found |-> found[ord[i]]]
  PROVE  /\ found' \in Seq(Row)
         /\ \A i \in DOMAIN found' : \E j \in DOMAIN found : found'[i] = found[j]
<1>1. DOMAIN found = 1 .. Len(found) /\ Len(found) \in Nat
  OBVIOUS
<1>2. Cardinality(DOMAIN found) = Len(found)
  <2>1. ASSUME NEW n \in Nat
        PROVE  Cardinality(1 .. n) = n
    <3>1. Cardinality(1 .. n) = IF 1 > n THEN 0 ELSE n - 1 + 1
      BY FS_Interval
    <3> QED BY <3>1
  <2> QED BY <1>1, <2>1
<1>3. ord \in [1 .. Len(found) -> 1 .. Len(found)]
  BY <1>1, <1>2 DEF SetToSeqs
<1>4. \A i \in 1 .. Len(found) : found[ord[i]] \in Row
  BY <1>3
<1>5. found' \in [1 .. Len(found) -> Row]
  BY <1>1, <1>4
<1>6. found' \in Seq(Row)
  BY <1>1, <1>5
<1> QED BY <1>1, <1>3, <1>6

\* The flags stay Boolean.
LEMMA JobTypeStep == TypeOK /\ [Next]_vars => JobTypeOK'
BY DEF TypeOK, JobTypeOK, Next, UserOp, EngineAnswer, vars, ServersInit, Refresh,
       RefreshNoMaster, LanRefresh, StartRequesting, CancelRequest, SortServers,
       ServerPing, Think, ListResponse, ServerResponse, BroadcastResponse,
       RequestEnded, job

\* The lists, counters and requests keep their types.
LEMMA DataTypeStep == BrowserAssumption /\ TypeOK /\ [Next]_vars => DataTypeOK'
<1> SUFFICES ASSUME BrowserAssumption, TypeOK, [Next]_vars
             PROVE  DataTypeOK'
  OBVIOUS
<1>0. /\ context \in Nat /\ ops \in Nat
      /\ pending \in Seq(Servers) /\ active \subseteq Query /\ activeQueries \in Int
      /\ found \in Seq(Row) /\ serverCount \in Int /\ net \subseteq Request
      /\ sortField \in SortFields /\ base \in Nat \cup {-1}
      /\ GarbageCounts \subseteq Int
  BY DEF TypeOK, DataTypeOK, BrowserAssumption
<1>1. CASE ServersInit
  BY <1>0, <1>1 DEF ServersInit, DataTypeOK
<1>2. CASE Refresh
  <2>1. net' \subseteq Request
    BY <1>0, <1>2 DEF Refresh, Broadcasts, Request
  <2> QED BY <1>0, <1>2, <2>1 DEF Refresh, StartRequesting, ClearLists, DataTypeOK
<1>3. CASE RefreshNoMaster
  <2>1. net' \subseteq Request
    BY <1>0, <1>3 DEF RefreshNoMaster, Broadcasts, Request
  <2>2. ops' \in Nat /\ context' \in Nat
    BY <1>0, <1>3 DEF RefreshNoMaster, StartRequesting
  <2> QED BY <1>0, <1>3, <2>1, <2>2 DEF RefreshNoMaster, DataTypeOK
<1>4. CASE LanRefresh
  <2>1. net' \subseteq Request
    BY <1>0, <1>4 DEF LanRefresh, Broadcasts, Request
  <2> QED BY <1>0, <1>4, <2>1 DEF LanRefresh, StartRequesting, ClearLists, DataTypeOK
<1>5. CASE CancelRequest
  BY <1>0, <1>5 DEF CancelRequest, lists, DataTypeOK
<1>6. ASSUME NEW field \in SortFields \ {"none"}, SortServers(field)
      PROVE  DataTypeOK'
  <2>1. found' \in Seq(Row)
    BY <1>0, <1>6, SortedRows DEF SortServers
  <2>2. /\ UNCHANGED <<pending, active, activeQueries, serverCount, context, net, base>>
        /\ sortField' = field /\ ops' = ops + 1
    BY <1>6 DEF SortServers
  <2>3. sortField' \in SortFields /\ ops' \in Nat
    BY <1>0, <1>6, <2>2
  <2> QED BY <1>0, <2>1, <2>2, <2>3 DEF DataTypeOK
<1>7. CASE ServerPing
  <2>1. found[1].adr \in Servers
    <3>1. found[1] \in Row
      BY <1>0, <1>7 DEF ServerPing
    <3> QED BY <3>1 DEF Row
  <2>2. net' \subseteq Request
    BY <1>0, <1>7, <2>1 DEF ServerPing, Request
  <2> QED BY <1>0, <1>7, <2>2 DEF ServerPing, job, lists, DataTypeOK
<1>8. CASE Think
  <2>1. PICK sent \in SUBSET Query :
               /\ active' = active \cup sent
               /\ net' = net \cup {[ctx |-> q.ctx, kind |-> "details", adr |-> q.adr]
                                     : q \in sent}
    BY <1>8, ThinkSends
  <2>2. active' \subseteq Query /\ net' \subseteq Request
    BY <1>0, <2>1 DEF Query, Request
  <2>3. pending' \in Seq(Servers) /\ context' \in Nat /\ activeQueries' \in Int
    BY <1>0, <1>8, StartsRange DEF Think
  <2> QED BY <1>0, <1>8, <2>2, <2>3 DEF Think, job, DataTypeOK
<1>9. ASSUME NEW r \in net, NEW list \in MasterLists, ListResponse(r, list)
      PROVE  DataTypeOK'
  <2>1. list \in Seq(Servers)
    BY DEF BrowserAssumption
  <2>2. Reverse(list) \in Seq(Servers)
    BY <2>1 DEF Reverse
  <2>3. pending' \in Seq(Servers)
    BY <1>0, <1>9, <2>2 DEF ListResponse
  <2> QED BY <1>0, <1>9, <2>3 DEF ListResponse, DataTypeOK
<1>10. ASSUME NEW r \in net, NEW ping \in Pings, ServerResponse(r, ping)
       PROVE  DataTypeOK'
  <2>1. [adr |-> r.adr, ping |-> ping, ctx |-> r.ctx] \in Row
    BY <1>0, <1>10 DEF ServerResponse, Request, Row
  <2>2. found' \in Seq(Row)
    BY <1>0, <1>10, <2>1, AddServerRows DEF ServerResponse, AddServer
  <2> QED BY <1>0, <1>10, <2>2 DEF ServerResponse, ForgetQuery, AddServer, job, DataTypeOK
<1>11. ASSUME NEW r \in net, NEW s \in Servers, NEW ping \in Pings,
              BroadcastResponse(r, s, ping)
       PROVE  DataTypeOK'
  <2>1. [adr |-> s, ping |-> ping, ctx |-> r.ctx] \in Row
    BY <1>0 DEF Row, Request
  <2>2. found' \in Seq(Row)
    BY <1>0, <1>11, <2>1, AddServerRows DEF BroadcastResponse, AddServer
  <2> QED BY <1>0, <1>11, <2>2 DEF BroadcastResponse, ForgetQuery, AddServer, job, DataTypeOK
<1>12. ASSUME NEW r \in net, RequestEnded(r)
       PROVE  DataTypeOK'
  BY <1>0, <1>12 DEF RequestEnded, ForgetQuery, job, DataTypeOK
<1>13. CASE UNCHANGED vars
  BY <1>0, <1>13 DEF vars, DataTypeOK
<1> QED
  BY <1>1, <1>2, <1>3, <1>4, <1>5, <1>6, <1>7, <1>8, <1>9, <1>10, <1>11, <1>12, <1>13
  DEF Next, UserOp, EngineAnswer

\* TypeOK is an invariant of the browser.
THEOREM TypeCorrect == Spec => []TypeOK
<1>1. Init => TypeOK
  <2> SUFFICES ASSUME Init PROVE TypeOK
    OBVIOUS
  <2>1. GarbageCounts \subseteq Int
    BY BrowserAssumption
  <2>2. JobTypeOK
    BY DEF Init, JobTypeOK
  <2>3. sortField \in SortFields
    BY DEF Init, SortFields
  <2>4. base \in Nat \cup {-1}
    BY DEF Init
  <2>5. DataTypeOK
    <3>1. serverCount \in Int /\ activeQueries \in Int /\ context \in Nat /\ ops \in Nat
      BY <2>1 DEF Init
    <3>2. pending \in Seq(Servers) /\ found \in Seq(Row) /\ active = {} /\ net = {}
      BY DEF Init
    <3> QED BY <2>3, <2>4, <3>1, <3>2 DEF DataTypeOK
  <2> QED BY <2>2, <2>5 DEF TypeOK
<1>2. TypeOK /\ [Next]_vars => TypeOK'
  BY BrowserAssumption, JobTypeStep, DataTypeStep DEF TypeOK
<1> QED BY <1>1, <1>2, PTL DEF Spec
-----------------------------------------------------------------------------
\* Ending a request removes its query with it, whatever else is active.
LEMMA ForgottenQuery ==
  ASSUME ActiveBacked, NEW r, net' = net \ {r}, ForgetQuery(r)
  PROVE  ActiveBacked'
<1> SUFFICES ASSUME NEW q \in active'
             PROVE  [ctx |-> q.ctx, kind |-> "details", adr |-> q.adr] \in net'
  BY DEF ActiveBacked
<1>1. q \in active /\ q.ctx # r.ctx
  BY DEF ForgetQuery
<1> QED BY <1>1 DEF ActiveBacked

\* ActiveInv is inductive.
LEMMA ActiveStep == BrowserAssumption /\ TypeOK /\ ActiveInv /\ [Next]_vars => ActiveInv'
<1> SUFFICES ASSUME BrowserAssumption, TypeOK, ActiveInv, [Next]_vars
             PROVE  ActiveInv'
  OBVIOUS
<1>1. CASE ServersInit
  BY <1>1 DEF ServersInit, ActiveInv, ActiveBacked
<1>2. CASE Refresh
  BY <1>2 DEF Refresh, ClearLists, ActiveInv, ActiveBacked
<1>3. CASE RefreshNoMaster
  BY <1>3 DEF RefreshNoMaster, StartRequesting, Broadcasts, ActiveInv, ActiveBacked
<1>4. CASE LanRefresh
  BY <1>4 DEF LanRefresh, ClearLists, ActiveInv, ActiveBacked
<1>5. CASE CancelRequest
  BY <1>5 DEF CancelRequest, ActiveInv
<1>6. ASSUME NEW field \in SortFields \ {"none"}, SortServers(field)
      PROVE  ActiveInv'
  <2>1. UNCHANGED <<querying, active, net>>
    BY <1>6 DEF SortServers, job
  <2> QED BY <2>1 DEF ActiveInv, ActiveBacked
<1>7. CASE ServerPing
  BY <1>7 DEF ServerPing, job, lists, ActiveInv, ActiveBacked
<1>8. CASE Think
  <2>1. PICK sent \in SUBSET Query :
               /\ active' = active \cup sent
               /\ net' = net \cup {[ctx |-> q.ctx, kind |-> "details", adr |-> q.adr]
                                     : q \in sent}
    BY <1>8, ThinkSends
  <2>2. ActiveBacked
    BY <1>8 DEF Think, ActiveInv
  <2>3. ActiveBacked'
    BY <2>1, <2>2 DEF ActiveBacked
  <2> QED BY <2>3 DEF ActiveInv
<1>9. ASSUME NEW r \in net, NEW list \in MasterLists, ListResponse(r, list)
      PROVE  ActiveInv'
  <2>1. ActiveBacked
    BY <1>9 DEF ListResponse, ActiveInv
  <2>2. r.kind = "list" /\ net' = net \ {r} /\ active' = active
    BY <1>9 DEF ListResponse
  <2>3. ASSUME NEW q \in active
        PROVE  [ctx |-> q.ctx, kind |-> "details", adr |-> q.adr] # r
    BY <2>2
  <2>4. ActiveBacked'
    BY <2>1, <2>2, <2>3 DEF ActiveBacked
  <2> QED BY <2>4 DEF ActiveInv
<1>10. ASSUME NEW r \in net, NEW ping \in Pings, ServerResponse(r, ping)
       PROVE  ActiveInv'
  BY <1>10, ForgottenQuery DEF ServerResponse, job, ActiveInv
<1>11. ASSUME NEW r \in net, NEW s \in Servers, NEW ping \in Pings,
              BroadcastResponse(r, s, ping)
       PROVE  ActiveInv'
  BY <1>11 DEF BroadcastResponse, ForgetQuery, job, ActiveInv, ActiveBacked
<1>12. ASSUME NEW r \in net, RequestEnded(r)
       PROVE  ActiveInv'
  <2>1. CASE r.kind \in {"details", "broadcast"}
    BY <1>12, <2>1, ForgottenQuery DEF RequestEnded, job, ActiveInv
  <2>2. CASE r.kind \notin {"details", "broadcast"}
    BY <1>12, <2>2 DEF RequestEnded, job, ActiveInv, ActiveBacked
  <2> QED BY <2>1, <2>2
<1>13. CASE UNCHANGED vars
  BY <1>13 DEF vars, ActiveInv, ActiveBacked
<1> QED
  BY <1>1, <1>2, <1>3, <1>4, <1>5, <1>6, <1>7, <1>8, <1>9, <1>10, <1>11, <1>12, <1>13
  DEF Next, UserOp, EngineAnswer

\* While the browser works through a list, each query on the active list has
\* its request outstanding in the engine.
THEOREM ActiveQueriesOutstanding == Spec => []ActiveIsOutstanding
<1>1. Init => ActiveInv
  BY DEF Init, ActiveInv, ActiveBacked
<1>2. TypeOK /\ ActiveInv /\ [Next]_vars => ActiveInv'
  BY BrowserAssumption, ActiveStep
<1>3. ActiveInv => ActiveIsOutstanding
  BY DEF ActiveInv, ActiveBacked, ActiveIsOutstanding
<1> QED BY <1>1, <1>2, <1>3, TypeCorrect, PTL DEF Spec
-----------------------------------------------------------------------------
\* ContextInv is inductive: a refresh empties net and found when it moves base.
LEMMA ContextStep == BrowserAssumption /\ TypeOK /\ ContextInv /\ [Next]_vars => ContextInv'
<1> SUFFICES ASSUME BrowserAssumption, TypeOK, ContextInv, [Next]_vars
             PROVE  ContextInv'
  OBVIOUS
<1>0. /\ context \in Nat /\ base \in Int /\ found \in Seq(Row)
      /\ net \subseteq Request /\ active \subseteq Query
  BY DEF TypeOK, DataTypeOK
<1>a. \A r \in net : r.ctx \in Nat
  BY <1>0 DEF Request
<1>1. CASE ServersInit
  BY <1>1 DEF ServersInit, ContextInv
<1>2. CASE Refresh
  BY <1>0, <1>2 DEF Refresh, ClearLists, Broadcasts, ContextInv
<1>3. CASE RefreshNoMaster
  BY <1>0, <1>3 DEF RefreshNoMaster, Broadcasts, ContextInv
<1>4. CASE LanRefresh
  BY <1>0, <1>4 DEF LanRefresh, ClearLists, Broadcasts, ContextInv
<1>5. CASE CancelRequest
  BY <1>5 DEF CancelRequest, lists, ContextInv
<1>6. ASSUME NEW field \in SortFields \ {"none"}, SortServers(field)
      PROVE  ContextInv'
  <2>1. \A i \in DOMAIN found' : \E j \in DOMAIN found : found'[i] = found[j]
    BY <1>0, <1>6, SortedRows DEF SortServers
  <2>2. UNCHANGED <<base, context, net>>
    BY <1>6 DEF SortServers
  <2> QED BY <2>1, <2>2 DEF ContextInv
<1>7. CASE ServerPing
  BY <1>0, <1>7 DEF ServerPing, lists, ContextInv
<1>8. CASE Think
  <2>1. PICK sent \in SUBSET Query :
               /\ \A q \in sent : q.ctx >= context
               /\ net' = net \cup {[ctx |-> q.ctx, kind |-> "details", adr |-> q.adr]
                                     : q \in sent}
    BY <1>8, ThinkSends
  <2>2. context' \in Nat /\ context <= context' /\ UNCHANGED <<base, found>>
    <3>1. Starts \in Nat
      BY StartsRange
    <3> QED BY <1>0, <1>8, <3>1 DEF Think
  <2>3. \A q \in sent : base <= q.ctx
    BY <1>0, <2>1 DEF ContextInv, Query
  <2> QED BY <1>0, <2>1, <2>2, <2>3 DEF ContextInv
<1>9. ASSUME NEW r \in net, NEW list \in MasterLists, ListResponse(r, list)
      PROVE  ContextInv'
  BY <1>9 DEF ListResponse, ContextInv
<1>10. ASSUME NEW r \in net, NEW s \in Servers, NEW ping \in Pings,
              AddServer(s, ping, r.ctx)
       PROVE  \A i \in DOMAIN found' : base <= found'[i].ctx
  <2> DEFINE p == [adr |-> s, ping |-> ping, ctx |-> r.ctx]
  <2>1. p \in Row /\ p.ctx = r.ctx
    BY <1>a DEF Row
  <2>2. \A i \in DOMAIN found' : found'[i] = p \/ \E j \in DOMAIN found : found'[i] = found[j]
    BY <1>0, <1>10, <2>1, AddServerRows DEF AddServer
  <2> HIDE DEF p
  <2> QED BY <2>1, <2>2 DEF ContextInv
<1>11. ASSUME NEW r \in net, NEW ping \in Pings, ServerResponse(r, ping)
       PROVE  ContextInv'
  <2>1. r.adr \in Servers
    BY <1>0, <1>11 DEF ServerResponse, Request
  <2> QED BY <1>10, <1>11, <2>1 DEF ServerResponse, ContextInv
<1>12. ASSUME NEW r \in net, NEW s \in Servers, NEW ping \in Pings,
              BroadcastResponse(r, s, ping)
       PROVE  ContextInv'
  BY <1>10, <1>12 DEF BroadcastResponse, ContextInv
<1>13. ASSUME NEW r \in net, RequestEnded(r)
       PROVE  ContextInv'
  BY <1>13 DEF RequestEnded, ContextInv
<1>14. CASE UNCHANGED vars
  BY <1>14 DEF vars, ContextInv
<1> QED
  BY <1>1, <1>2, <1>3, <1>4, <1>5, <1>6, <1>7, <1>8, <1>9, <1>11, <1>12, <1>13, <1>14
  DEF Next, UserOp, EngineAnswer

\* No row of the browser comes from a request made before the last refresh that
\* cleared the lists.
THEOREM RowsAreFresh == Spec => []NoStaleRows
<1>1. Init => ContextInv
  BY DEF Init, ContextInv
<1>2. TypeOK /\ ContextInv /\ [Next]_vars => ContextInv'
  BY BrowserAssumption, ContextStep
<1>3. ContextInv => NoStaleRows
  BY DEF ContextInv, NoStaleRows
<1> QED BY <1>1, <1>2, <1>3, TypeCorrect, PTL DEF Spec
-----------------------------------------------------------------------------
\* Ordered by ping, said of the pings themselves.
LEMMA OrderedByPing ==
  ASSUME NEW rows
  PROVE  Ordered(rows, "ping") <=>
           \A i, j \in DOMAIN rows : i < j => ~(rows[j].ping < rows[i].ping)
BY DEF Ordered, FieldBefore

\* AddServer keeps the rows in ping order.
LEMMA InsertedOrdered ==
  ASSUME BrowserAssumption, NEW rows \in Seq(Row), NEW p \in Row, Ordered(rows, "ping")
  PROVE  Ordered(Inserted(rows, p), "ping")
<1>0. Pings \subseteq Nat
  BY DEF BrowserAssumption
<1>1. p.ping \in Nat /\ \A i \in 1 .. Len(rows) : rows[i].ping \in Nat
  <2>1. \A q \in Row : q.ping \in Nat
    BY <1>0 DEF Row
  <2>2. \A i \in 1 .. Len(rows) : rows[i] \in Row
    OBVIOUS
  <2> QED BY <2>1, <2>2
<1>2. \A i, j \in 1 .. Len(rows) : i < j => rows[i].ping <= rows[j].ping
  BY <1>1, OrderedByPing
<1>3. CASE rows = <<>> \/ CompareServers(p, rows[1])
  <2>1. Inserted(rows, p) = <<p>> \o rows
    BY <1>3 DEF Inserted
  <2>2. /\ DOMAIN (<<p>> \o rows) = 1 .. Len(rows) + 1
        /\ \A k \in 1 .. Len(rows) + 1 :
             (<<p>> \o rows)[k] = IF k = 1 THEN p ELSE rows[k - 1]
    OBVIOUS
  <2>3. \A k \in 1 .. Len(rows) : p.ping <= rows[k].ping
    <3> SUFFICES ASSUME NEW k \in 1 .. Len(rows) PROVE p.ping <= rows[k].ping
      OBVIOUS
    <3>1. p.ping <= rows[1].ping
      BY <1>1, <1>3 DEF CompareServers
    <3>2. rows[1].ping <= rows[k].ping
      BY <1>1, <1>2
    <3> QED BY <1>1, <3>1, <3>2
  <2> DEFINE new == <<p>> \o rows
  <2> HIDE DEF new
  <2>4. \A i, j \in DOMAIN new : i < j => ~(new[j].ping < new[i].ping)
    <3> SUFFICES ASSUME NEW i \in 1 .. Len(rows) + 1, NEW j \in 1 .. Len(rows) + 1, i < j
                 PROVE  ~(new[j].ping < new[i].ping)
      BY <2>2 DEF new
    <3>1. new[j] = rows[j - 1] /\ j - 1 \in 1 .. Len(rows)
      BY <2>2 DEF new
    <3>2. CASE i = 1
      BY <1>1, <2>2, <2>3, <3>1, <3>2 DEF new
    <3>3. CASE i # 1
      <4>1. new[i] = rows[i - 1] /\ i - 1 \in 1 .. Len(rows)
        BY <2>2, <3>3 DEF new
      <4> QED BY <1>1, <1>2, <3>1, <4>1
    <3> QED BY <3>2, <3>3
  <2> QED BY <2>1, <2>4, OrderedByPing DEF new
<1>4. CASE /\ ~(rows = <<>> \/ CompareServers(p, rows[1]))
           /\ Before(rows, p) # {}
  <2> DEFINE new == Inserted(rows, p)
  <2>1. PICK i \in Before(rows, p) :
               /\ \A j \in Before(rows, p) : i <= j
               /\ \A k \in 1 .. Len(rows) : new[k] = IF k = i THEN p ELSE rows[k]
    BY <1>4, InsertedMiddle
  <2>2. DOMAIN new = 1 .. Len(rows)
    BY <1>4, InsertedMiddle
  <2> HIDE DEF new
  <2>3. i \in 2 .. Len(rows) /\ CompareServers(p, rows[i])
    BY <2>1 DEF Before
  <2>4. \A k \in 1 .. Len(rows) : k < i => rows[k].ping <= p.ping
    <3> SUFFICES ASSUME NEW k \in 1 .. Len(rows), k < i PROVE rows[k].ping <= p.ping
      OBVIOUS
    <3>1. ~CompareServers(p, rows[k])
      <4>1. CASE k = 1
        BY <1>4, <4>1
      <4>2. CASE k # 1
        BY <2>1, <2>3, <4>2 DEF Before
      <4> QED BY <4>1, <4>2
    <3> QED BY <1>1, <3>1 DEF CompareServers
  <2>5. \A k \in 1 .. Len(rows) : i <= k => p.ping <= rows[k].ping
    <3> SUFFICES ASSUME NEW k \in 1 .. Len(rows), i <= k PROVE p.ping <= rows[k].ping
      OBVIOUS
    <3>1. p.ping <= rows[i].ping
      BY <1>1, <2>3 DEF CompareServers
    <3>2. rows[i].ping <= rows[k].ping
      BY <1>1, <1>2, <2>3
    <3> QED BY <1>1, <2>3, <3>1, <3>2
  <2>6. ASSUME NEW j \in 1 .. Len(rows), NEW k \in 1 .. Len(rows), j < k
        PROVE  ~(new[k].ping < new[j].ping)
    <3>1. CASE j = i
      <4>1. new[j] = p /\ new[k] = rows[k] /\ p.ping <= rows[k].ping
        BY <2>1, <2>3, <2>5, <2>6, <3>1
      <4> QED BY <1>1, <4>1
    <3>2. CASE k = i
      <4>1. new[k] = p /\ new[j] = rows[j] /\ rows[j].ping <= p.ping
        BY <2>1, <2>3, <2>4, <2>6, <3>2
      <4> QED BY <1>1, <4>1
    <3>3. CASE j # i /\ k # i
      <4>1. new[k] = rows[k] /\ new[j] = rows[j]
        BY <2>1, <3>3
      <4> QED BY <1>1, <1>2, <2>6, <4>1
    <3> QED BY <3>1, <3>2, <3>3
  <2> QED BY <2>2, <2>6, OrderedByPing DEF new
<1>5. CASE /\ ~(rows = <<>> \/ CompareServers(p, rows[1]))
           /\ Before(rows, p) = {}
  <2> DEFINE new == Append(rows, p)
  <2>1. Inserted(rows, p) = new
    BY <1>5 DEF Inserted
  <2>2. /\ DOMAIN new = 1 .. Len(rows) + 1
        /\ \A k \in 1 .. Len(rows) + 1 :
             new[k] = IF k = Len(rows) + 1 THEN p ELSE rows[k]
    OBVIOUS
  <2> HIDE DEF new
  <2>3. \A k \in 1 .. Len(rows) : rows[k].ping <= p.ping
    <3> SUFFICES ASSUME NEW k \in 1 .. Len(rows) PROVE rows[k].ping <= p.ping
      OBVIOUS
    <3>1. ~CompareServers(p, rows[k])
      <4>1. CASE k = 1
        BY <1>5, <4>1
      <4>2. CASE k # 1
        BY <1>5, <4>2 DEF Before
      <4> QED BY <4>1, <4>2
    <3> QED BY <1>1, <3>1 DEF CompareServers
  <2>4. ASSUME NEW j \in 1 .. Len(rows) + 1, NEW k \in 1 .. Len(rows) + 1, j < k
        PROVE  ~(new[k].ping < new[j].ping)
    <3>1. j \in 1 .. Len(rows) /\ new[j] = rows[j]
      BY <2>2, <2>4
    <3>2. CASE k = Len(rows) + 1
      <4>1. new[k] = p
        BY <2>2, <3>2
      <4> QED BY <1>1, <2>3, <3>1, <4>1
    <3>3. CASE k # Len(rows) + 1
      <4>1. k \in 1 .. Len(rows) /\ new[k] = rows[k]
        BY <2>2, <3>3
      <4> QED BY <1>1, <1>2, <2>4, <3>1, <4>1
    <3> QED BY <3>2, <3>3
  <2> QED BY <2>1, <2>2, <2>4, OrderedByPing
<1> QED BY <1>3, <1>4, <1>5

\* RowsByPing is inductive: every action but AddServer and SortServers empties the
\* rows or leaves them alone, and only SortServers changes the order asked for.
LEMMA RowsStep == BrowserAssumption /\ TypeOK /\ RowsByPing /\ [Next]_vars => RowsByPing'
<1> SUFFICES ASSUME BrowserAssumption, TypeOK, RowsByPing, [Next]_vars
             PROVE  RowsByPing'
  OBVIOUS
<1>0. found \in Seq(Row) /\ net \subseteq Request
  BY DEF TypeOK, DataTypeOK
<1>a. Ordered(<<>>, "ping")
  BY OrderedByPing
<1>1. CASE ServersInit
  BY <1>a, <1>1 DEF ServersInit, RowsByPing
<1>2. CASE Refresh
  BY <1>a, <1>2 DEF Refresh, ClearLists, RowsByPing
<1>3. CASE RefreshNoMaster
  BY <1>3 DEF RefreshNoMaster, RowsByPing
<1>4. CASE LanRefresh
  BY <1>a, <1>4 DEF LanRefresh, ClearLists, RowsByPing
<1>5. CASE CancelRequest
  BY <1>5 DEF CancelRequest, lists, RowsByPing
<1>6. ASSUME NEW field \in SortFields \ {"none"}, SortServers(field)
      PROVE  RowsByPing'
  <2>1. sortField' = field /\ Ordered(found', field)
    BY <1>6 DEF SortServers
  <2>2. field = "hostname" \/ field = "ping"
    BY DEF SortFields
  <2> QED BY <2>1, <2>2 DEF RowsByPing
<1>7. CASE ServerPing
  BY <1>7 DEF ServerPing, lists, RowsByPing
<1>8. CASE Think
  BY <1>8 DEF Think, RowsByPing
<1>9. ASSUME NEW r \in net, NEW list \in MasterLists, ListResponse(r, list)
      PROVE  RowsByPing'
  BY <1>9 DEF ListResponse, RowsByPing
<1>10. ASSUME NEW r \in net, NEW s \in Servers, NEW ping \in Pings,
              AddServer(s, ping, r.ctx), UNCHANGED sortField
       PROVE  RowsByPing'
  <2> DEFINE p == [adr |-> s, ping |-> ping, ctx |-> r.ctx]
  <2>1. p \in Row
    BY <1>0 DEF Request, Row
  <2>2. found' = Inserted(found, p)
    BY <1>10 DEF AddServer
  <2> HIDE DEF p
  <2> QED BY <1>0, <1>10, <2>1, <2>2, InsertedOrdered DEF RowsByPing
<1>11. ASSUME NEW r \in net, NEW ping \in Pings, ServerResponse(r, ping)
       PROVE  RowsByPing'
  <2>1. r.adr \in Servers
    BY <1>0, <1>11 DEF ServerResponse, Request
  <2> QED BY <1>10, <1>11, <2>1 DEF ServerResponse
<1>12. ASSUME NEW r \in net, NEW s \in Servers, NEW ping \in Pings,
              BroadcastResponse(r, s, ping)
       PROVE  RowsByPing'
  BY <1>10, <1>12 DEF BroadcastResponse
<1>13. ASSUME NEW r \in net, RequestEnded(r)
       PROVE  RowsByPing'
  BY <1>13 DEF RequestEnded, RowsByPing
<1>14. CASE UNCHANGED vars
  BY <1>14 DEF vars, RowsByPing
<1> QED
  BY <1>1, <1>2, <1>3, <1>4, <1>5, <1>6, <1>7, <1>8, <1>9, <1>11, <1>12, <1>13, <1>14
  DEF Next, UserOp, EngineAnswer

\* AddServer's list surgery may drop a row, but never puts one out of ping order.
THEOREM RowsInPingOrder == Spec => []RowsByPing
<1>1. Init => RowsByPing
  BY OrderedByPing DEF Init, RowsByPing
<1>2. TypeOK /\ RowsByPing /\ [Next]_vars => RowsByPing'
  BY BrowserAssumption, RowsStep
<1> QED BY <1>1, <1>2, TypeCorrect, PTL DEF Spec
-----------------------------------------------------------------------------
\* How many queries one run of Think adds, and that their contexts are new.
LEMMA ThinkCounts ==
  ASSUME TypeOK, BrowserAssumption, Think
  PROVE  \E sent \in SUBSET Query :
           /\ active' = active \cup sent
           /\ IsFiniteSet(sent) /\ Cardinality(sent) = Starts
           /\ \A q \in sent : context <= q.ctx /\ q.ctx < context + Starts
           /\ \A q1, q2 \in sent : q1.ctx = q2.ctx => q1 = q2
<1> DEFINE query(i) == [ctx |-> context + i - 1, adr |-> pending[i]]
           sent == {query(i) : i \in 1 .. Starts}
           f == [i \in 1 .. Starts |-> query(i)]
<1>1. Starts \in 0 .. Len(pending) /\ pending \in Seq(Servers) /\ context \in Nat
  BY StartsRange DEF TypeOK, DataTypeOK
<1>a. Starts \in Nat
  BY <1>1
<1>2. active' = active \cup sent
  BY DEF Think
<1> HIDE DEF Starts
<1>3. ASSUME NEW i \in 1 .. Starts
      PROVE  /\ query(i) \in Query /\ query(i).ctx = context + i - 1
             /\ context <= query(i).ctx /\ query(i).ctx < context + Starts
  <2>1. pending[i] \in Servers
    BY <1>1, <1>3
  <2>2. context + i - 1 \in Nat /\ context <= context + i - 1
        /\ context + i - 1 < context + Starts
    BY <1>1, <1>3
  <2> QED BY <2>1, <2>2 DEF Query
<1>4. ASSUME NEW i \in 1 .. Starts, NEW j \in 1 .. Starts, query(i).ctx = query(j).ctx
      PROVE  i = j
  BY <1>1, <1>3, <1>4
<1> HIDE DEF query
<1>5. f \in Bijection(1 .. Starts, sent)
  <2>1. f \in Surjection(1 .. Starts, sent)
    BY DEF Surjection
  <2>2. \A i, j \in 1 .. Starts : f[i] = f[j] => i = j
    BY <1>4
  <2>3. f \in Injection(1 .. Starts, sent)
    BY <2>1, <2>2 DEF Injection, IsInjective, Surjection
  <2> QED BY <2>1, <2>3 DEF Bijection
<1>6. IsFiniteSet(1 .. Starts) /\ Cardinality(1 .. Starts) = Starts
  <2>1. Cardinality(1 .. Starts) = IF 1 > Starts THEN 0 ELSE Starts - 1 + 1
    BY <1>a, FS_Interval
  <2> QED BY <1>a, <2>1, FS_Interval
<1>7. IsFiniteSet(sent) /\ Cardinality(sent) = Starts
  <2>1. ExistsBijection(1 .. Starts, sent)
    BY <1>5 DEF ExistsBijection
  <2> HIDE DEF sent, f
  <2> QED BY <1>6, <2>1, FS_Bijection
<1>8. sent \in SUBSET Query
  BY <1>3
<1>9. \A q \in sent : context <= q.ctx /\ q.ctx < context + Starts
  BY <1>3
<1>10. \A q1, q2 \in sent : q1.ctx = q2.ctx => q1 = q2
  BY <1>4
<1> HIDE DEF sent
<1> QED BY <1>2, <1>7, <1>8, <1>9, <1>10

\* A callback takes at most one query off the active list, and counts it.
LEMMA ForgottenCount ==
  ASSUME TypeOK, BrowserAssumption, ContextsDiffer, QueryAccounting, NEW r, ForgetQuery(r),
         UNCHANGED <<querying, pending, context>>
  PROVE  ContextsDiffer' /\ QueryAccounting'
<1> DEFINE answered == {q \in active : q.ctx = r.ctx}
<1>0. IsFiniteSet(active) /\ Cardinality(active) \in Nat /\ MaxQueries \in Nat
  BY FS_CardinalityType DEF ContextsDiffer, BrowserAssumption
<1>1. active' = active \ answered
  BY DEF ForgetQuery
<1>2. CASE answered = {}
  <2>1. active' = active /\ activeQueries' = activeQueries
    BY <1>1, <1>2 DEF ForgetQuery
  <2> QED BY <2>1 DEF ContextsDiffer, QueryAccounting
<1>3. CASE answered # {}
  <2>1. PICK q \in active : answered = {q}
    BY <1>3 DEF ContextsDiffer
  <2>2. active' = active \ {q} /\ activeQueries' = activeQueries - 1
    BY <1>1, <1>3, <2>1 DEF ForgetQuery
  <2>3. IsFiniteSet(active') /\ Cardinality(active') = Cardinality(active) - 1
    BY <1>0, <2>2, FS_RemoveElement
  <2>4. ContextsDiffer'
    BY <2>2, <2>3 DEF ContextsDiffer
  <2>5. QueryAccounting'
    <3> SUFFICES ASSUME querying, pending # <<>>
                 PROVE  /\ activeQueries' = Cardinality(active')
                        /\ Cardinality(active') <= MaxQueries + 1
      BY DEF QueryAccounting
    <3>1. activeQueries = Cardinality(active) /\ Cardinality(active) <= MaxQueries + 1
      BY DEF QueryAccounting
    <3> QED BY <1>0, <2>2, <2>3, <3>1
  <2> QED BY <2>4, <2>5
<1> QED BY <1>2, <1>3

\* A callback that ends request r leaves at most one list request.
LEMMA FewerRequests ==
  ASSUME ListRequestAlone, net' \subseteq net, active' \subseteq active, UNCHANGED pending
  PROVE  ListRequestAlone'
BY DEF ListRequestAlone

\* QueryThink fills the window and goes no further.
LEMMA ThinkKeepsCount ==
  ASSUME BrowserAssumption, TypeOK, CountInv, Think
  PROVE  CountInv'
<1>1. PICK sent \in SUBSET Query :
             /\ active' = active \cup sent
             /\ IsFiniteSet(sent) /\ Cardinality(sent) = Starts
             /\ \A q \in sent : context <= q.ctx /\ q.ctx < context + Starts
             /\ \A q1, q2 \in sent : q1.ctx = q2.ctx => q1 = q2
  BY ThinkCounts
<1>2. /\ context \in Nat /\ activeQueries \in Int /\ MaxQueries \in Nat
      /\ active \subseteq Query /\ pending \in Seq(Servers) /\ Starts \in 0 .. Len(pending)
  BY StartsRange DEF TypeOK, DataTypeOK, BrowserAssumption
<1>3. context' = context + Starts /\ pending' = SubSeq(pending, Starts + 1, Len(pending))
  BY DEF Think
<1>4. ContextsDiffer'
  <2>1. IsFiniteSet(active')
    BY <1>1, FS_Union DEF CountInv, ContextsDiffer
  <2>2. \A q \in active : q.ctx \in Nat /\ q.ctx < context
    BY <1>2 DEF CountInv, ContextsDiffer, Query
  <2>3. \A q \in sent : q.ctx \in Nat
    BY DEF Query
  <2>4. \A q \in active' : q.ctx < context'
    BY <1>1, <1>2, <1>3, <2>2, <2>3
  <2>5. \A q1, q2 \in active' : q1.ctx = q2.ctx => q1 = q2
    BY <1>1, <1>2, <2>2, <2>3 DEF CountInv, ContextsDiffer
  <2> QED BY <2>1, <2>4, <2>5 DEF ContextsDiffer
<1>5. ListRequestAlone'
  <2>1. \A r \in net' : r.kind = "list" => r \in net
    BY DEF Think
  <2>2. ASSUME NEW r \in net, r.kind = "list"
        PROVE  active' = {} /\ pending' = <<>>
    <3>1. active = {} /\ pending = <<>>
      BY <2>2 DEF CountInv, ListRequestAlone
    <3>2. Starts = 0
      BY <1>2, <3>1
    <3>3. sent = {}
      BY <1>1, <3>2, FS_EmptySet
    <3>4. pending' = <<>>
      BY <1>3, <3>1, <3>2
    <3> QED BY <1>1, <3>1, <3>3, <3>4
  <2> QED BY <2>1, <2>2 DEF CountInv, ListRequestAlone
<1>6. QueryAccounting'
  <2> SUFFICES ASSUME pending' # <<>>
               PROVE  /\ activeQueries' = Cardinality(active')
                      /\ Cardinality(active') <= MaxQueries + 1
    BY DEF QueryAccounting
  <2>1. Starts < Len(pending) /\ Len(pending) \in Nat
    BY <1>2, <1>3
  <2>2. pending # <<>>
    <3>1. 0 < Len(pending)
      BY <1>2, <2>1
    <3> QED BY <3>1
  <2>3. activeQueries = Cardinality(active) /\ Cardinality(active) <= MaxQueries + 1
    BY <2>2 DEF CountInv, QueryAccounting, Think
  <2>4. IsFiniteSet(active) /\ Cardinality(active) \in Nat
    BY FS_CardinalityType DEF CountInv, ContextsDiffer
  <2>5. active \cap sent = {}
    BY <1>1, <1>2 DEF CountInv, ContextsDiffer, Query
  <2>6. Cardinality(active') = Cardinality(active) + Starts
    <3>1. Cardinality(active') = Cardinality(active) + Cardinality(sent)
                                   - Cardinality(active \cap sent)
      BY <1>1, <2>4, FS_Union
    <3>2. Cardinality(active \cap sent) = 0
      BY <2>5, FS_EmptySet
    <3> QED BY <1>1, <1>2, <2>4, <3>1, <3>2
  <2>7. activeQueries' = activeQueries + Starts
    BY <2>2 DEF Think
  <2>8. activeQueries + Starts <= MaxQueries + 1
    BY <1>2, <2>1, <2>3, <2>4 DEF Starts
  <2> QED BY <2>3, <2>6, <2>7, <2>8
<1> QED BY <1>4, <1>5, <1>6 DEF CountInv

\* CountInv is inductive.
LEMMA CountStep == BrowserAssumption /\ TypeOK /\ CountInv /\ [Next]_vars => CountInv'
<1> SUFFICES ASSUME BrowserAssumption, TypeOK, CountInv, [Next]_vars
             PROVE  CountInv'
  OBVIOUS
<1>0. context \in Nat /\ active \subseteq Query /\ MaxQueries \in Nat
  BY DEF TypeOK, DataTypeOK, BrowserAssumption
<1>a. ContextsDiffer /\ ListRequestAlone /\ QueryAccounting
  BY DEF CountInv
<1>b. active' = {} => ContextsDiffer'
  BY FS_EmptySet DEF ContextsDiffer
<1>c. \A q \in active : q.ctx \in Nat /\ q.ctx < context
  BY <1>0, <1>a DEF ContextsDiffer, Query
<1>d. ASSUME context' \in Nat, context <= context', UNCHANGED active
      PROVE  ContextsDiffer'
  BY <1>0, <1>a, <1>c, <1>d DEF ContextsDiffer
<1>1. CASE ServersInit
  BY <1>a, <1>b, <1>1 DEF ServersInit, ListRequestAlone, QueryAccounting, CountInv
<1>2. CASE Refresh
  BY <1>b, <1>2 DEF Refresh, ClearLists, Broadcasts, ListRequestAlone, QueryAccounting, CountInv
<1>3. CASE RefreshNoMaster
  <2>1. ContextsDiffer'
    BY <1>0, <1>d, <1>3 DEF RefreshNoMaster
  <2>2. UNCHANGED <<pending, active, activeQueries, querying>>
    BY <1>3 DEF RefreshNoMaster, StartRequesting
  <2>3. \A r \in net' : r.kind = "list" => r \in net
    BY <1>3 DEF RefreshNoMaster, Broadcasts
  <2>4. ListRequestAlone'
    BY <1>a, <2>2, <2>3 DEF ListRequestAlone
  <2> QED BY <1>a, <2>1, <2>2, <2>4 DEF QueryAccounting, CountInv
<1>4. CASE LanRefresh
  BY <1>b, <1>4 DEF LanRefresh, ClearLists, Broadcasts, ListRequestAlone, QueryAccounting,
                    CountInv
<1>5. CASE CancelRequest
  <2>1. ContextsDiffer'
    BY <1>0, <1>d, <1>5 DEF CancelRequest, lists
  <2> QED BY <1>5, <2>1 DEF CancelRequest, ListRequestAlone, QueryAccounting, CountInv
<1>6. ASSUME NEW field \in SortFields \ {"none"}, SortServers(field)
      PROVE  CountInv'
  <2>1. UNCHANGED <<querying, pending, active, activeQueries, net, context>>
    BY <1>6 DEF SortServers, job
  <2> QED BY <1>a, <2>1 DEF ContextsDiffer, ListRequestAlone, QueryAccounting, CountInv
<1>7. CASE ServerPing
  <2>1. ContextsDiffer'
    BY <1>0, <1>d, <1>7 DEF ServerPing, lists
  <2>2. UNCHANGED <<pending, active, activeQueries, querying>>
    BY <1>7 DEF ServerPing, lists, job
  <2>3. \A r \in net' : r.kind = "list" => r \in net
    BY <1>7 DEF ServerPing
  <2>4. ListRequestAlone'
    BY <1>a, <2>2, <2>3 DEF ListRequestAlone
  <2> QED BY <1>a, <2>1, <2>2, <2>4 DEF QueryAccounting, CountInv
<1>8. CASE Think
  BY <1>8, ThinkKeepsCount
<1>9. ASSUME NEW r \in net, NEW list \in MasterLists, ListResponse(r, list)
      PROVE  CountInv'
  <2>1. active = {} /\ net' = net \ {r} /\ r.kind = "list"
    BY <1>a, <1>9 DEF ListResponse, ListRequestAlone
  <2>2. UNCHANGED active /\ activeQueries' = 0
    BY <1>9 DEF ListResponse
  <2>3. \A r1 \in net' : r1.kind # "list"
    BY <1>a, <2>1 DEF ListRequestAlone
  <2>4. activeQueries' = Cardinality(active') /\ Cardinality(active') <= MaxQueries + 1
    BY <1>0, <2>1, <2>2, FS_EmptySet
  <2> QED BY <1>b, <2>1, <2>2, <2>3, <2>4 DEF ListRequestAlone, QueryAccounting, CountInv
<1>10. ASSUME NEW r \in net, ForgetQuery(r), net' \subseteq net,
              UNCHANGED <<querying, pending, context>>
       PROVE  CountInv'
  <2>1. ContextsDiffer' /\ QueryAccounting'
    BY <1>a, <1>10, ForgottenCount
  <2>2. active' \subseteq active
    BY <1>10 DEF ForgetQuery
  <2> QED BY <1>a, <1>10, <2>1, <2>2, FewerRequests DEF CountInv
<1>11. ASSUME NEW r \in net, NEW ping \in Pings, ServerResponse(r, ping)
       PROVE  CountInv'
  BY <1>10, <1>11 DEF ServerResponse, job
<1>12. ASSUME NEW r \in net, NEW s \in Servers, NEW ping \in Pings,
              BroadcastResponse(r, s, ping)
       PROVE  CountInv'
  BY <1>10, <1>12 DEF BroadcastResponse, job
<1>13. ASSUME NEW r \in net, RequestEnded(r)
       PROVE  CountInv'
  <2>1. net' \subseteq net /\ UNCHANGED <<querying, pending, context>>
    BY <1>13 DEF RequestEnded, job
  <2>2. CASE r.kind \in {"details", "broadcast"}
    BY <1>10, <1>13, <2>1, <2>2 DEF RequestEnded
  <2>3. CASE r.kind \notin {"details", "broadcast"}
    <3>1. UNCHANGED <<active, activeQueries>>
      BY <1>13, <2>3 DEF RequestEnded
    <3> QED BY <1>a, <2>1, <3>1, FewerRequests DEF ContextsDiffer, QueryAccounting, CountInv
  <2> QED BY <2>2, <2>3
<1>14. CASE UNCHANGED vars
  BY <1>a, <1>14 DEF vars, ContextsDiffer, ListRequestAlone, QueryAccounting, CountInv
<1> QED
  BY <1>1, <1>2, <1>3, <1>4, <1>5, <1>6, <1>7, <1>8, <1>9, <1>11, <1>12, <1>13, <1>14
  DEF Next, UserOp, EngineAnswer

\* m_nActiveQueries counts the queries in flight, and their number stays within
\* the window, whenever there is something left to query.
THEOREM QueriesAreCounted == Spec => []QueryAccounting
<1>1. Init => CountInv
  BY FS_EmptySet DEF Init, CountInv, ContextsDiffer, ListRequestAlone, QueryAccounting
<1>2. TypeOK /\ CountInv /\ [Next]_vars => CountInv'
  BY BrowserAssumption, CountStep
<1>3. CountInv => QueryAccounting
  BY DEF CountInv
<1> QED BY <1>1, <1>2, <1>3, TypeCorrect, PTL DEF Spec
-----------------------------------------------------------------------------
(* The window of queries.                                                   *)

\* The abstract window counts as the browser does.
LEMMA SameCardinality == \A S : Asked!Cardinality(S) = Cardinality(S)
BY DEF Asked!Cardinality, Cardinality

\* What QueryThink starts fills the window as far as there are servers to ask.
LEMMA ThinkLaunches ==
  ASSUME BrowserAssumption, TypeOK, CountInv, Think
  PROVE  Asked!Launch \/ UNCHANGED <<pending, active, context>>
<1>1. /\ context \in Nat /\ activeQueries \in Int /\ MaxQueries \in Nat
      /\ pending \in Seq(Servers) /\ Len(pending) \in Nat
  BY DEF TypeOK, DataTypeOK, BrowserAssumption
<1>2. /\ pending' = SubSeq(pending, Starts + 1, Len(pending))
      /\ active' = active \cup {[ctx |-> context + i - 1, adr |-> pending[i]] : i \in 1 .. Starts}
      /\ context' = context + Starts
  BY DEF Think
<1>3. CASE Starts = 0
  <2>1. 1 .. 0 = {} /\ context + 0 = context
    BY <1>1
  <2>2. SubSeq(pending, 1, Len(pending)) = pending
    BY <1>1
  <2> QED BY <1>2, <1>3, <2>1, <2>2
<1>4. CASE Starts # 0
  <2>1. ~done /\ activeQueries <= MaxQueries /\ pending # <<>>
    BY <1>1, <1>4 DEF Starts
  <2>2. activeQueries = Cardinality(active)
    BY <2>1 DEF CountInv, QueryAccounting, Think
  <2> DEFINE room == (MaxQueries + 1) - Asked!Cardinality(active)
  <2>3. room = MaxQueries + 1 - activeQueries /\ 0 < room
    BY <1>1, <2>1, <2>2, SameCardinality
  <2>4. Starts = IF Len(pending) <= room THEN Len(pending) ELSE room
    <3>1. ~(activeQueries > MaxQueries)
      BY <1>1, <2>1
    <3> HIDE DEF room
    <3> QED BY <2>1, <2>3, <3>1 DEF Starts
  <2>5. Starts > 0
    BY <1>1, <1>4, <2>3, <2>4
  <2> HIDE DEF room
  <2> QED BY <1>2, <2>4, <2>5 DEF Asked!Launch, room
<1> QED BY <1>3, <1>4

\* Every step of the browser is one of the window or leaves its lists as they are.
LEMMA WindowStep ==
  ASSUME BrowserAssumption, TypeOK, CountInv, [Next]_vars
  PROVE  [Asked!Next]_<<pending, active, context>>
<1>0. context \in Nat /\ pending \in Seq(Servers) /\ ContextsDiffer /\ ListRequestAlone
  BY DEF TypeOK, DataTypeOK, CountInv
<1>a. ASSUME UNCHANGED <<pending, active, context>>
      PROVE  [Asked!Next]_<<pending, active, context>>
  BY <1>a
<1>1. CASE ServersInit
  BY <1>0, <1>1 DEF ServersInit, Asked!Next, Asked!Clear
<1>2. CASE Refresh
  BY <1>0, <1>2 DEF Refresh, ClearLists, Asked!Next, Asked!Clear
<1>3. CASE RefreshNoMaster
  BY <1>0, <1>3 DEF RefreshNoMaster, Asked!Next, Asked!Skip
<1>4. CASE LanRefresh
  BY <1>0, <1>4 DEF LanRefresh, ClearLists, Asked!Next, Asked!Clear
<1>5. CASE CancelRequest
  BY <1>5 DEF CancelRequest, lists
<1>6. ASSUME NEW field \in SortFields \ {"none"}, SortServers(field)
      PROVE  [Asked!Next]_<<pending, active, context>>
  BY <1>6 DEF SortServers
<1>7. CASE ServerPing
  BY <1>0, <1>7 DEF ServerPing, lists, Asked!Next, Asked!Skip
<1>8. CASE Think
  BY <1>8, ThinkLaunches DEF Asked!Next
<1>9. ASSUME NEW r \in net, NEW list \in MasterLists, ListResponse(r, list)
      PROVE  [Asked!Next]_<<pending, active, context>>
  <2>1. active = {} /\ pending = <<>>
    BY <1>0, <1>9 DEF ListResponse, ListRequestAlone
  <2>2. Reverse(list) \in Seq(Servers)
    <3>1. list \in Seq(Servers)
      BY DEF BrowserAssumption
    <3> QED BY <3>1 DEF Reverse
  <2>3. pending' = Reverse(list) /\ UNCHANGED <<active, context>>
    BY <1>9, <2>1, <2>2 DEF ListResponse
  <2> QED BY <2>1, <2>3 DEF Asked!Next, Asked!List
<1>10. ASSUME NEW r, ForgetQuery(r), UNCHANGED <<pending, context>>
       PROVE  [Asked!Next]_<<pending, active, context>>
  <2> DEFINE answered == {q \in active : q.ctx = r.ctx}
  <2>1. active' = active \ answered
    BY <1>10 DEF ForgetQuery
  <2>2. CASE answered = {}
    BY <1>10, <2>1, <2>2
  <2>3. CASE answered # {}
    <3>1. PICK q \in active : answered = {q}
      BY <1>0, <2>3 DEF ContextsDiffer
    <3> QED BY <1>10, <2>1, <3>1 DEF Asked!Next, Asked!Land
  <2> QED BY <2>2, <2>3
<1>11. ASSUME NEW r \in net, NEW ping \in Pings, ServerResponse(r, ping)
       PROVE  [Asked!Next]_<<pending, active, context>>
  BY <1>10, <1>11 DEF ServerResponse
<1>12. ASSUME NEW r \in net, NEW s \in Servers, NEW ping \in Pings,
              BroadcastResponse(r, s, ping)
       PROVE  [Asked!Next]_<<pending, active, context>>
  BY <1>10, <1>12 DEF BroadcastResponse
<1>13. ASSUME NEW r \in net, RequestEnded(r)
       PROVE  [Asked!Next]_<<pending, active, context>>
  <2>1. UNCHANGED <<pending, context>>
    BY <1>13 DEF RequestEnded
  <2>2. ForgetQuery(r) \/ UNCHANGED active
    BY <1>13 DEF RequestEnded
  <2> QED BY <1>10, <2>1, <2>2
<1>14. CASE UNCHANGED vars
  BY <1>14 DEF vars
<1> QED
  BY <1>1, <1>2, <1>3, <1>4, <1>5, <1>6, <1>7, <1>8, <1>9, <1>11, <1>12, <1>13, <1>14
  DEF Next, UserOp, EngineAnswer

\* The browser asks the listed servers as QueryWindow promises (WindowSpec), whatever
\* the user presses and however the answers come: QueryThink of cl_dll/hud_servers.cpp
\* starts exactly what the window has room for although it only looks at
\* m_nActiveQueries, a list comes only to an idle window, and a context takes one
\* query off the active list.
THEOREM ImplementsWindow == Spec => WindowSpec
<1>1. Init => CountInv
  BY FS_EmptySet DEF Init, CountInv, ContextsDiffer, ListRequestAlone, QueryAccounting
<1>2. TypeOK /\ CountInv /\ [Next]_vars => CountInv'
  BY BrowserAssumption, CountStep
<1>3. Init => Asked!Init
  BY DEF Init, Asked!Init
<1>4. TypeOK /\ CountInv /\ [Next]_vars => [Asked!Next]_(Asked!vars)
  BY BrowserAssumption, WindowStep DEF Asked!vars
<1> QED BY <1>1, <1>2, <1>3, <1>4, TypeCorrect, PTL DEF Spec, WindowSpec, Asked!Spec
-----------------------------------------------------------------------------
(* The job always has something to wait for.                                *)

\* While the browser works through its list, either the list is finished and the next
\* frame ends the job, or the next frame starts a query, or a query of the active list
\* is with the engine, whose answer or time-out takes it off.
JobCanMove ==
  requesting /\ querying =>
    \/ pending = <<>> /\ active = {}
    \/ Starts > 0
    \/ \E q \in active : [ctx |-> q.ctx, kind |-> "details", adr |-> q.adr] \in net

\* A cancelled job is no longer requested (CancelRequest sets m_nDone and clears m_nRequesting).
CancelledStops == requesting => ~done

\* No step of the browser leaves a job that is both requested and done.
LEMMA CancelStep == TypeOK /\ CancelledStops /\ [Next]_vars => CancelledStops'
<1> SUFFICES ASSUME TypeOK, CancelledStops, [Next]_vars
             PROVE  CancelledStops'
  OBVIOUS
<1> USE DEF CancelledStops
<1>1. CASE UNCHANGED vars
  BY <1>1 DEF vars
<1>2. CASE UserOp
  BY <1>2 DEF UserOp, ServersInit, Refresh, RefreshNoMaster, LanRefresh, CancelRequest,
              SortServers, ServerPing, StartRequesting, job
<1>3. CASE Think
  BY <1>3 DEF Think, job
<1>4. CASE EngineAnswer
  BY <1>4 DEF EngineAnswer, ListResponse, ServerResponse, BroadcastResponse, RequestEnded, job
<1> QED BY <1>1, <1>2, <1>3, <1>4 DEF Next

\* The three invariants together leave the job no way to wait for nothing.
LEMMA MovesByParts ==
  ASSUME BrowserAssumption, TypeOK, QueryAccounting, ActiveIsOutstanding, CancelledStops
  PROVE  JobCanMove
<1> SUFFICES ASSUME requesting, querying, active = {}, pending # <<>>
             PROVE  Starts > 0
  BY DEF JobCanMove, ActiveIsOutstanding
<1>1. activeQueries = 0
  BY FS_EmptySet DEF QueryAccounting
<1>2. Len(pending) \in Nat /\ Len(pending) # 0 /\ MaxQueries \in Nat
  BY EmptySeq DEF TypeOK, DataTypeOK, BrowserAssumption
<1>3. ~done
  BY DEF CancelledStops
<1> QED BY <1>1, <1>2, <1>3 DEF Starts

\* The job of a refresh never waits for nothing: a stall would need a server that waits
\* with the window full of queries nobody will answer, and neither a cancel, a second
\* refresh nor a late answer leads there.  It is the safety half of QueryingTerminates.
THEOREM JobNeverStalls == Spec => []JobCanMove
<1>1. Init => CancelledStops
  BY DEF Init, CancelledStops
<1>2. TypeOK /\ QueryAccounting /\ ActiveIsOutstanding /\ CancelledStops => JobCanMove
  BY BrowserAssumption, MovesByParts
<1> QED
  BY <1>1, <1>2, CancelStep, TypeCorrect, QueriesAreCounted, ActiveQueriesOutstanding, PTL DEF Spec
=============================================================================
