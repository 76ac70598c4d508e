--------------------------- MODULE TimerSyncProofs ---------------------------
(***************************************************************************)
(* For any sockets, replies, intervals and bounds: TimerSync is well       *)
(* typed, holds no socket but the one it knows of and asks on none that is *)
(* closed, never counts as synced to a level before the client's, counts   *)
(* the parts in its buffer, and puts an answer together from one whole     *)
(* response.                                                               *)
(***************************************************************************)
EXTENDS TimerSync, FiniteSetTheorems, TLAPS

\* What is on its way belongs to the timer's socket, and a datagram was sent on the
\* client's level or a later one: VidInit closes the socket when it moves the level.
SocketInv ==
  /\ open \subseteq {sock}
  /\ \A q \in asked : q.sock \in open
  /\ \A d \in net : d.sock \in open

LevelInv ==
  /\ level <= map
  /\ \A d \in net : level <= d.map
  /\ synced => level <= end.map

PartsInv == IsFiniteSet(parts) /\ count = Cardinality(parts)

\* The parts of a response agree on their number and are numbered below it, and
\* the buffer holds parts of one response, each once.
PartsAgree ==
  /\ \A d, e \in net \cup parts :
       d.kind = "part" /\ e.kind = "part" /\ d.rid = e.rid => d.total = e.total
  /\ \A d \in net \cup parts : d.kind = "part" => d.idx < d.total
  /\ \A p, q \in parts : p.idx = q.idx => p = q
  /\ count > 0 => \A p \in parts : p.rid = rid
-----------------------------------------------------------------------------
\* The constants TimerAssumption speaks of in one set, one by one.
LEMMA Intervals ==
  /\ Sockets \subseteq Nat \ {0} /\ Rids \subseteq Nat
  /\ Room \in Nat /\ Timeout \in Nat /\ RetryInterval \in Nat /\ DelayInterval \in Nat
  /\ LocalInterval \in Nat /\ ResyncInterval \in Nat /\ MaxAhead \in Nat
  /\ MaxFaults \in Nat /\ MaxChanges \in Nat
BY TimerAssumption DEF TimerAssumption

\* What a send leaves behind.
LEMMA SendResults ==
  ASSUME NEW s \in Sockets \cup {NoSocket}, NEW opened \in SUBSET Sockets,
         opened \subseteq {s}, NEW result \in NetSendUdp(s, opened)
  PROVE  /\ result.sock \in Sockets \cup {NoSocket}
         /\ result.open \in SUBSET Sockets
         /\ result.open \subseteq {result.sock}
         /\ result.sent => result.sock \in result.open
         /\ s \in Sockets => result.sock = s
         /\ Failure(s, opened, result) \in Nat
<1> DEFINE fails == [sock |-> s, open |-> opened \ {s}, sent |-> FALSE]
<1>1. NoSocket \notin Sockets
  BY Intervals DEF NoSocket
<1>2. Failure(s, opened, result) \in Nat
  BY DEF Failure
<1>3. CASE s \in opened
  <2> DEFINE goes == [sock |-> s, open |-> opened, sent |-> TRUE]
  <2>1. NetSendUdp(s, opened) = {goes, fails}
    BY <1>1, <1>3 DEF NetSendUdp
  <2>2. CASE result = fails
    BY <1>2, <1>3, <2>2
  <2>3. CASE result = goes
    BY <1>2, <1>3, <2>3
  <2> QED BY <2>1, <2>2, <2>3
<1>4. CASE s \notin opened /\ s = NoSocket
  <2>1. opened = {}
    BY <1>1, <1>4
  <2>2. result \in {[sock |-> n, open |-> opened \cup {n}, sent |-> TRUE] :
                      n \in Sockets \ opened} \cup {fails}
    BY <1>4 DEF NetSendUdp
  <2>3. CASE result = fails
    BY <1>1, <1>2, <1>4, <2>1, <2>3
  <2>4. ASSUME NEW n \in Sockets,
               result = [sock |-> n, open |-> opened \cup {n}, sent |-> TRUE]
        PROVE  /\ result.sock = n /\ result.open = {n} /\ result.sent
    BY <2>1, <2>4
  <2> QED BY <1>1, <1>2, <1>4, <2>2, <2>3, <2>4
<1>5. CASE s \notin opened /\ s # NoSocket
  <2>1. result = fails
    BY <1>5 DEF NetSendUdp
  <2> QED BY <1>2, <1>5, <2>1
<1> QED BY <1>3, <1>4, <1>5

\* The handle and the open sockets once a time-out has been handled.
LEMMA HandledTimeOut ==
  ASSUME TypeOK, SocketInv
  PROVE  /\ Handle \in Sockets \cup {NoSocket}
         /\ OpenNow \in SUBSET Sockets
         /\ OpenNow \subseteq {Handle}
         /\ OpenNow \subseteq open
BY DEF TypeOK, SocketInv, Handle, OpenNow

\* What SendRequest leaves in the sockets and on the network.
LEMMA RequestSent ==
  ASSUME TypeOK, SocketInv, SendRequest
  PROVE  /\ sock' \in Sockets \cup {NoSocket} /\ open' \subseteq Sockets /\ faults' \in Nat
         /\ asked' \subseteq Question /\ net' \subseteq net
         /\ SocketInv'
<1>1. PICK drained \in SUBSET For({Handle} \cap OpenNow, net),
           result \in NetSendUdp(Handle, OpenNow) :
        /\ faults' = faults + Failure(Handle, OpenNow, result)
        /\ sock' = result.sock
        /\ open' = result.open
        /\ net' = For(OpenNow \cap result.open, net \ drained)
        /\ asked' = For(OpenNow \cap result.open, asked)
                      \cup (IF result.sent THEN {[sock |-> result.sock, code |-> FALSE]}
                            ELSE {})
  BY DEF SendRequest
<1>2. /\ Handle \in Sockets \cup {NoSocket} /\ OpenNow \in SUBSET Sockets
      /\ OpenNow \subseteq {Handle}
  BY HandledTimeOut
<1>3. /\ result.sock \in Sockets \cup {NoSocket} /\ result.open \in SUBSET Sockets
      /\ result.open \subseteq {result.sock}
      /\ result.sent => result.sock \in result.open
      /\ Failure(Handle, OpenNow, result) \in Nat
  BY <1>2, SendResults
<1>4. faults' \in Nat
  BY <1>1, <1>3 DEF TypeOK
<1>5. net' \subseteq net /\ \A d \in net' : d.sock \in open'
  BY <1>1 DEF For
<1>6. asked' \subseteq Question /\ \A q \in asked' : q.sock \in open'
  <2> DEFINE new == [sock |-> result.sock, code |-> FALSE]
  <2>0. /\ asked' = For(OpenNow \cap result.open, asked) \cup (IF result.sent THEN {new} ELSE {})
        /\ open' = result.open
    BY <1>1
  <2>2. asked \subseteq Question
    BY DEF TypeOK
  <2>3. result.sent => new \in Question /\ new.sock \in open'
    BY <1>1, <1>3 DEF Question
  <2> HIDE DEF new
  <2>1. \A q \in asked' : (q \in asked /\ q.sock \in open') \/ (result.sent /\ q = new)
    BY <2>0 DEF For
  <2> QED BY <2>1, <2>2, <2>3
<1>7. sock' \in Sockets \cup {NoSocket} /\ open' \subseteq Sockets /\ open' \subseteq {sock'}
  BY <1>1, <1>3
<1> QED BY <1>4, <1>5, <1>6, <1>7 DEF SocketInv

\* What the repeated request leaves in the sockets and on the network.
LEMMA ChallengeAnswered ==
  ASSUME TypeOK, SocketInv, NEW d \in net, ReceiveChallenge(d)
  PROVE  /\ sock' \in Sockets \cup {NoSocket} /\ open' \subseteq Sockets /\ faults' \in Nat
         /\ asked' \subseteq Question /\ net' \subseteq net
         /\ SocketInv'
<1>1. PICK result \in NetSendUdp(sock, open) :
        /\ faults' = faults + Failure(sock, open, result)
        /\ sock' = result.sock
        /\ open' = result.open
        /\ net' = For(result.open, net \ {d})
        /\ asked' = For(result.open, asked)
                      \cup (IF result.sent THEN {[sock |-> sock, code |-> TRUE]} ELSE {})
  BY DEF ReceiveChallenge
<1>2. sock \in Sockets /\ open \subseteq Sockets /\ open \subseteq {sock}
  BY DEF ReceiveChallenge, Reads, TypeOK, SocketInv
<1>3. /\ result.sock = sock /\ result.open \in SUBSET Sockets
      /\ result.open \subseteq {result.sock}
      /\ result.sent => result.sock \in result.open
      /\ Failure(sock, open, result) \in Nat
  BY <1>2, SendResults
<1>4. faults' \in Nat
  BY <1>1, <1>3 DEF TypeOK
<1>5. net' \subseteq net /\ \A e \in net' : e.sock \in open'
  BY <1>1 DEF For
<1>6. asked' \subseteq Question /\ \A q \in asked' : q.sock \in open'
  <2> DEFINE new == [sock |-> sock, code |-> TRUE]
  <2>0. /\ asked' = For(result.open, asked) \cup (IF result.sent THEN {new} ELSE {})
        /\ open' = result.open
    BY <1>1
  <2>2. asked \subseteq Question
    BY DEF TypeOK
  <2>3. result.sent => new \in Question /\ new.sock \in open'
    BY <1>1, <1>2, <1>3 DEF Question
  <2> HIDE DEF new
  <2>1. \A q \in asked' : (q \in asked /\ q.sock \in open') \/ (result.sent /\ q = new)
    BY <2>0 DEF For
  <2> QED BY <2>1, <2>2, <2>3
<1>7. sock' \in Sockets \cup {NoSocket} /\ open' \subseteq Sockets /\ open' \subseteq {sock'}
  BY <1>1, <1>2, <1>3
<1> QED BY <1>4, <1>5, <1>6, <1>7 DEF SocketInv

\* What closing a socket leaves.
LEMMA SocketClosed ==
  ASSUME TypeOK, SocketInv, NetCloseSocket(sock)
  PROVE  open' = {} /\ asked' = {} /\ net' = {}
<1>1. open \ {sock} = {}
  BY DEF SocketInv
<1> QED BY <1>1 DEF NetCloseSocket, For

\* VidInit leaves no socket, nothing on its way, and a timer that is not synced.
LEMMA VidInitStarts ==
  ASSUME TypeOK, SocketInv, VidInit
  PROVE  /\ sock' = NoSocket /\ open' = {} /\ asked' = {} /\ net' = {}
         /\ synced' = FALSE /\ level' = map' /\ parts' = {} /\ count' = 0
<1>1. /\ sock' = NoSocket /\ synced' = FALSE /\ level' = map' /\ parts' = {} /\ count' = 0
      /\ IF sock # NoSocket THEN NetCloseSocket(sock) ELSE UNCHANGED network
  BY DEF VidInit
<1>2. open' = {} /\ asked' = {} /\ net' = {}
  <2>1. CASE sock # NoSocket
    BY <1>1, <2>1, SocketClosed
  <2>2. CASE sock = NoSocket
    <3>1. open = {}
      BY <2>2, Intervals DEF TypeOK, SocketInv, NoSocket
    <3> QED BY <1>1, <2>2, <3>1 DEF SocketInv, network
  <2> QED BY <2>1, <2>2
<1> QED BY <1>1, <1>2

\* Taking a datagram leaves no new one.
LEMMA TakeShrinks ==
  ASSUME TypeOK, NEW d, Take(d)
  PROVE  net' \subseteq net /\ faults' \in Nat
BY DEF Take, TypeOK

\* The datagrams a server sends.
LEMMA Replies ==
  ASSUME TypeOK, SocketInv, ServerReply
  PROVE  /\ asked' \subseteq asked /\ net' \subseteq Datagram
         /\ \A d \in net' \ net : d.map = map /\ \E q \in asked : d.sock = q.sock
<1>1. PICK q \in asked, shape \in Shapes, i \in FreshRids :
        /\ asked' = asked \ {q}
        /\ net' = net \cup
             {[sock |-> q.sock, kind |-> shape.kind, map |-> map,
               rid |-> IF shape.kind = "part" THEN i ELSE 0,
               idx |-> n, total |-> shape.total, valid |-> shape.valid] :
                n \in IF shape.kind = "part" THEN 0 .. shape.total - 1 ELSE {0}}
  BY DEF ServerReply
<1> DEFINE dgram(n) == [sock |-> q.sock, kind |-> shape.kind, map |-> map,
                        rid |-> IF shape.kind = "part" THEN i ELSE 0,
                        idx |-> n, total |-> shape.total, valid |-> shape.valid]
<1>2. /\ shape.kind \in {"challenge", "answer", "part", "other", "short"}
      /\ shape.total \in Nat /\ shape.valid \in BOOLEAN
  BY TimerAssumption DEF TimerAssumption
<1>3. q.sock \in Sockets /\ map \in Nat /\ i \in Nat
  BY Intervals DEF TypeOK, Question, FreshRids
<1>4. ASSUME NEW n \in (IF shape.kind = "part" THEN 0 .. shape.total - 1 ELSE {0})
      PROVE  n \in Nat
  BY <1>2, <1>4
<1>5. ASSUME NEW n \in Nat
      PROVE  dgram(n) \in Datagram /\ dgram(n).map = map /\ dgram(n).sock = q.sock
  BY <1>2, <1>3, <1>5 DEF Datagram
<1> HIDE DEF dgram
<1>6. net' = net \cup {dgram(n) : n \in IF shape.kind = "part" THEN 0 .. shape.total - 1
                                       ELSE {0}}
  BY <1>1 DEF dgram
<1>7. \A d \in net' : d \in net \/ \E n \in Nat : d = dgram(n)
  BY <1>4, <1>6
<1> QED BY <1>1, <1>5, <1>7 DEF TypeOK

\* A stored part fits the buffer, and the buffer stays within its bounds.
LEMMA StoredParts ==
  ASSUME TypeOK, NEW d \in net, d.kind = "part", Stores(d)
  PROVE  /\ {p \in parts : p.idx # d.idx} \cup {d}
              \subseteq {e \in Datagram : e.kind = "part" /\ e.idx < Room}
         /\ {p \in parts : p.idx # d.idx} = parts
         /\ d \notin parts
<1>1. d \in Datagram /\ d.idx < Room
  BY DEF TypeOK, Stores
<1>2. {p \in parts : p.idx # d.idx} = parts /\ d \notin parts
  BY DEF Stores
<1> QED BY <1>1, <1>2 DEF TypeOK

\* The schedule of the next sync is a time.
LEMMA ScheduleType ==
  ASSUME TypeOK, NEW next \in Int, Schedule(next)
  PROVE  due' \in Int /\ delay' \in BOOLEAN
<1>1. DelayInterval \in Int
  BY Intervals
<1>2. delay \in BOOLEAN /\ delay' = FALSE /\ due' = IF delay THEN DelayInterval ELSE next
  BY DEF TypeOK, Schedule
<1>3. due' = DelayInterval \/ due' = next
  BY <1>2
<1> QED BY <1>1, <1>2, <1>3

\* Using an answer leaves every field it sets well typed.
LEMMA UseAnswerType ==
  ASSUME TypeOK, NEW m \in Nat, UseAnswer(m)
  PROVE  /\ status' = "idle" /\ synced' = TRUE
         /\ end' \in [from : {"zero", "message", "limit", "left"}, map : Nat]
         /\ end'.map = m
         /\ due' \in Int /\ delay' \in BOOLEAN
         /\ parts' = {} /\ count' = 0 /\ rid' = 0
<1>1. due' \in Int /\ delay' \in BOOLEAN
  BY Intervals, ScheduleType DEF UseAnswer
<1>2. /\ end' \in [from : {"zero", "message", "limit", "left"}, map : Nat]
      /\ end'.map = m
  BY DEF UseAnswer
<1> QED BY <1>1, <1>2 DEF UseAnswer
-----------------------------------------------------------------------------
\* Every step of Think on datagrams keeps the types.
LEMMA ReceiveTypes ==
  ASSUME TypeOK, SocketInv, NEW d \in net,
         \/ ReceiveShort(d) \/ ReceiveOther(d) \/ ReceiveAnswer(d)
         \/ ReceiveUselessPart(d) \/ ReceivePart(d) \/ ReceiveLastPart(d)
  PROVE  TypeOK'
<1> USE DEF TypeOK
<1>0. /\ d \in Datagram /\ d.map \in Nat /\ d.rid \in Nat /\ d.total \in Nat
      /\ Due \in Int /\ count + 1 \in Nat
  BY Intervals DEF Datagram, Due
<1>1. CASE ReceiveShort(d)
  <2>1. net' \subseteq net /\ faults' \in Nat
    BY <1>1, TakeShrinks DEF ReceiveShort
  <2> QED BY <1>0, <1>1, <2>1 DEF ReceiveShort, reassembly, settings
<1>2. CASE ReceiveOther(d)
  <2>1. due' \in Int /\ delay' \in BOOLEAN
    BY <1>0, <1>2, ScheduleType DEF ReceiveOther
  <2>2. open' = {} /\ asked' = {} /\ net' = {}
    BY <1>2, SocketClosed DEF ReceiveOther
  <2> QED BY <1>2, <2>1, <2>2 DEF ReceiveOther, reassembly, settings
<1>3. CASE ReceiveAnswer(d)
  <2>1. net' \subseteq net /\ faults' \in Nat
    BY <1>3, TakeShrinks DEF ReceiveAnswer
  <2>2. /\ status' = "idle" /\ synced' = TRUE
        /\ end' \in [from : {"zero", "message", "limit", "left"}, map : Nat]
        /\ due' \in Int /\ delay' \in BOOLEAN
        /\ parts' = {} /\ count' = 0 /\ rid' = 0
    BY <1>0, <1>3, UseAnswerType DEF ReceiveAnswer
  <2> QED BY <1>3, <2>1, <2>2 DEF ReceiveAnswer, settings
<1>4. CASE ReceiveUselessPart(d)
  <2>1. net' \subseteq net /\ faults' \in Nat
    BY <1>4, TakeShrinks DEF ReceiveUselessPart
  <2> QED BY <1>0, <1>4, <2>1 DEF ReceiveUselessPart, Awaiting, reassembly, settings
<1>5. CASE ReceivePart(d)
  <2>1. net' \subseteq net /\ faults' \in Nat
    BY <1>5, TakeShrinks DEF ReceivePart
  <2>2. parts' \subseteq {e \in Datagram : e.kind = "part" /\ e.idx < Room}
    BY <1>5, StoredParts DEF ReceivePart
  <2> QED BY <1>0, <1>5, <2>1, <2>2 DEF ReceivePart, Awaiting, settings
<1>6. CASE ReceiveLastPart(d)
  <2> DEFINE all == {p \in parts : p.idx # d.idx} \cup {d}
  <2>1. all \subseteq {e \in Datagram : e.kind = "part" /\ e.idx < Room}
    BY <1>6, StoredParts DEF ReceiveLastPart
  <2>2. /\ whole' \in BOOLEAN
        /\ UNCHANGED <<settings, changes>>
        /\ \/ UseAnswer(d.map) /\ Take(d) /\ UNCHANGED <<sock, open, asked>>
           \/ /\ status' = "idle" /\ sock' = NoSocket /\ NetCloseSocket(sock)
              /\ Schedule(Due)
              /\ parts' = all /\ count' = count + 1 /\ rid' = d.rid
              /\ UNCHANGED <<synced, end, faults>>
    BY <1>6 DEF ReceiveLastPart
  <2> HIDE DEF all
  <2>3. CASE UseAnswer(d.map) /\ Take(d) /\ UNCHANGED <<sock, open, asked>>
    <3>1. net' \subseteq net /\ faults' \in Nat
      BY <2>3, TakeShrinks
    <3>2. /\ status' = "idle" /\ synced' = TRUE
          /\ end' \in [from : {"zero", "message", "limit", "left"}, map : Nat]
          /\ due' \in Int /\ delay' \in BOOLEAN
          /\ parts' = {} /\ count' = 0 /\ rid' = 0
      BY <1>0, <2>3, UseAnswerType
    <3> QED BY <2>2, <2>3, <3>1, <3>2 DEF settings
  <2>4. CASE /\ status' = "idle" /\ sock' = NoSocket /\ NetCloseSocket(sock)
             /\ Schedule(Due)
             /\ parts' = all /\ count' = count + 1 /\ rid' = d.rid
             /\ UNCHANGED <<synced, end, faults>>
    <3>1. due' \in Int /\ delay' \in BOOLEAN
      BY <1>0, <2>4, ScheduleType
    <3>2. open' = {} /\ asked' = {} /\ net' = {}
      BY <2>4, SocketClosed
    <3> QED BY <1>0, <2>1, <2>2, <2>4, <3>1, <3>2 DEF settings
  <2> QED BY <2>2, <2>3, <2>4
<1> QED BY <1>1, <1>2, <1>3, <1>4, <1>5, <1>6

\* TypeOK is inductive, given that the timer knows its socket.
LEMMA TypeStep == TypeOK /\ SocketInv /\ [Next]_vars => TypeOK'
<1> SUFFICES ASSUME TypeOK, SocketInv, [Next]_vars
             PROVE  TypeOK'
  OBVIOUS
<1> USE DEF TypeOK
<1>0. Due \in Int /\ map + 1 \in Nat /\ changes + 1 \in Nat
  BY Intervals DEF Due
<1>1. CASE ThinkDisabled
  BY <1>1 DEF ThinkDisabled, reassembly, settings, network
<1>2. CASE SyncNotConnected
  <2>1. \/ open' = {} /\ asked' = {} /\ net' = {} /\ sock' = NoSocket /\ status' = "none"
        \/ UNCHANGED <<network, sock, status>>
    BY <1>2, SocketClosed DEF SyncNotConnected
  <2>2. /\ sock' \in Sockets \cup {NoSocket} /\ status' \in {"none", "idle"} \cup Awaiting
        /\ open' \subseteq Sockets /\ asked' \subseteq Question /\ net' \subseteq Datagram
    BY <2>1 DEF network
  <2>3. /\ UNCHANGED <<end, delay, parts, count, rid, enabled, conn, level, map, whole,
                       faults, changes>>
        /\ synced' = FALSE /\ due' \in Int
    BY <1>2, Intervals DEF SyncNotConnected, reassembly, settings
  <2> QED BY <2>2, <2>3
<1>3. CASE SyncLoopback
  <2>1. due' \in Int /\ delay' \in BOOLEAN
    BY <1>3, ScheduleType, Intervals DEF SyncLoopback
  <2>2. end' \in [from : {"zero", "message", "limit", "left"}, map : Nat]
    BY <1>3 DEF SyncLoopback
  <2>3. synced' \in BOOLEAN
    BY <1>3 DEF SyncLoopback
  <2> QED BY <1>3, <2>1, <2>2, <2>3 DEF SyncLoopback, reassembly, settings, network
<1>4. CASE SyncOther
  <2>1. due' \in Int /\ delay' \in BOOLEAN
    BY <1>4, ScheduleType, Intervals DEF SyncOther
  <2> QED BY <1>4, <2>1 DEF SyncOther, reassembly, settings, network
<1>5. CASE SendRequest
  <2>1. /\ sock' \in Sockets \cup {NoSocket} /\ open' \subseteq Sockets /\ faults' \in Nat
        /\ asked' \subseteq Question /\ net' \subseteq net
    BY <1>5, RequestSent
  <2>2. /\ status' = "code" /\ due' = 0 /\ parts' = {} /\ count' = 0 /\ rid' = 0
        /\ UNCHANGED <<synced, end, delay, enabled, conn, level, map, whole, changes>>
    BY <1>5 DEF SendRequest, settings
  <2> QED BY <2>1, <2>2 DEF Awaiting
<1>6. ASSUME NEW d \in net, ReceiveChallenge(d)
      PROVE  TypeOK'
  <2>1. /\ sock' \in Sockets \cup {NoSocket} /\ open' \subseteq Sockets /\ faults' \in Nat
        /\ asked' \subseteq Question /\ net' \subseteq net
    BY <1>6, ChallengeAnswered
  <2>2. /\ status' = "answer" /\ due' = 0
        /\ UNCHANGED <<synced, end, delay, parts, count, rid, enabled, conn, level, map,
                       whole, changes>>
    BY <1>6 DEF ReceiveChallenge, reassembly, settings
  <2> QED BY <2>1, <2>2 DEF Awaiting
<1>7. CASE Receive
  BY <1>6, <1>7, ReceiveTypes DEF Receive
<1>8. CASE ReceiveNothing
  BY <1>0, <1>8 DEF ReceiveNothing, reassembly, settings, network
<1>9. ASSUME VidInit, map' \in Nat, enabled' \in BOOLEAN, conn' \in Connections,
             changes' \in Nat, UNCHANGED <<whole, faults>>
      PROVE  TypeOK'
  <2>1. /\ sock' = NoSocket /\ open' = {} /\ asked' = {} /\ net' = {}
        /\ level' = map' /\ parts' = {} /\ count' = 0
    BY <1>9, VidInitStarts
  <2>2. end' \in [from : {"zero", "message", "limit", "left"}, map : Nat]
    BY <1>9 DEF VidInit
  <2>3. /\ due' = -(Timeout + 1) /\ Timeout \in Nat
        /\ status' = "none" /\ synced' = FALSE /\ delay' = TRUE /\ rid' = 0
    BY <1>9, Intervals DEF VidInit
  <2>4. due' \in Int
    BY <2>3
  <2> QED BY <1>9, <2>1, <2>2, <2>3, <2>4
<1>10. CASE Connect
  BY <1>0, <1>9, <1>10 DEF Connect, Change
<1>11. CASE NewLevel
  BY <1>9, <1>11 DEF NewLevel
<1>12. CASE ServerChangeLevel
  BY <1>0, <1>12, Intervals DEF ServerChangeLevel, Change, reassembly, network
<1>13. CASE Disconnect
  BY <1>0, <1>13 DEF Disconnect, Change, Connections, sync, reassembly, network
<1>14. CASE SetEnabled
  BY <1>0, <1>14 DEF SetEnabled, Change, sync, reassembly, network
<1>15. CASE MsgFunc_Timer
  <2>1. end' \in [from : {"zero", "message", "limit", "left"}, map : Nat]
    BY <1>15 DEF MsgFunc_Timer
  <2> QED BY <1>15, <2>1 DEF MsgFunc_Timer, reassembly, settings, network
<1>16. CASE ServerReply
  <2>1. asked' \subseteq asked /\ net' \subseteq Datagram
    BY <1>16, Replies
  <2> QED BY <1>16, <2>1 DEF ServerReply, sync, reassembly, settings
<1>17. CASE Lose
  <2>1. asked' \subseteq asked /\ net' \subseteq net
    BY <1>17 DEF Lose
  <2> QED BY <1>17, <2>1 DEF Lose, sync, reassembly, settings
<1>18. CASE Tick
  BY <1>18 DEF Tick, reassembly, settings, network
<1>19. CASE UNCHANGED vars
  BY <1>19 DEF vars
<1>20. CASE ClockRestarts
  <2>1. MaxAhead + 1 \in Int
    BY Intervals
  <2> QED BY <1>0, <1>20, <2>1 DEF ClockRestarts, Change, reassembly, settings, network
<1> QED
  BY <1>1, <1>2, <1>3, <1>4, <1>5, <1>7, <1>8, <1>10, <1>11, <1>12, <1>13, <1>14, <1>15,
     <1>16, <1>17, <1>18, <1>19, <1>20
  DEF Next, Think, Environment
-----------------------------------------------------------------------------
\* What a received datagram does to the sockets: it is used up or repeated, the
\* request is repeated, or the socket is closed.
LEMMA ReceiveSockets ==
  ASSUME TypeOK, SocketInv, NEW d \in net,
         \/ ReceiveShort(d) \/ ReceiveOther(d) \/ ReceiveAnswer(d)
         \/ ReceiveUselessPart(d) \/ ReceivePart(d) \/ ReceiveLastPart(d)
  PROVE  SocketInv' /\ net' \subseteq net
<1>1. CASE Take(d) /\ UNCHANGED <<sock, open, asked>>
  <2>1. net' \subseteq net
    BY <1>1, TakeShrinks
  <2> QED BY <1>1, <2>1 DEF SocketInv
<1>2. CASE NetCloseSocket(sock)
  BY <1>2, SocketClosed DEF SocketInv
<1>3. \/ Take(d) /\ UNCHANGED <<sock, open, asked>>
      \/ NetCloseSocket(sock)
  BY DEF ReceiveShort, ReceiveOther, ReceiveAnswer, ReceiveUselessPart, ReceivePart,
         ReceiveLastPart
<1> QED BY <1>1, <1>2, <1>3

\* Of the steps, only a server's reply brings a datagram on its way, and SocketInv
\* is inductive.
LEMMA SocketStep ==
  ASSUME TypeOK, SocketInv, [Next]_vars
  PROVE  SocketInv' /\ (net' \subseteq net \/ ServerReply)
<1>1. CASE SyncNotConnected
  <2>1. \/ open' = {} /\ asked' = {} /\ net' = {}
        \/ UNCHANGED <<sock, open, asked, net>>
    BY <1>1, SocketClosed DEF SyncNotConnected, network
  <2> QED BY <2>1 DEF SocketInv
<1>2. CASE SendRequest
  BY <1>2, RequestSent
<1>3. CASE Receive
  BY <1>3, ChallengeAnswered, ReceiveSockets DEF Receive
<1>4. CASE Connect \/ NewLevel
  <2>1. open' = {} /\ asked' = {} /\ net' = {}
    BY <1>4, VidInitStarts DEF Connect, NewLevel
  <2> QED BY <2>1 DEF SocketInv
<1>5. CASE ServerReply
  <2>1. asked' \subseteq asked /\ \A d \in net' \ net : \E q \in asked : d.sock = q.sock
    BY <1>5, Replies
  <2>2. UNCHANGED <<sock, open>>
    BY <1>5 DEF ServerReply, sync
  <2>3. \A d \in net' : d.sock \in open
    BY <2>1 DEF SocketInv
  <2> QED BY <1>5, <2>1, <2>2, <2>3 DEF SocketInv
<1>6. CASE Lose
  <2>1. asked' \subseteq asked /\ net' \subseteq net /\ UNCHANGED <<sock, open>>
    BY <1>6 DEF Lose, sync
  <2> QED BY <2>1 DEF SocketInv
<1>7. ASSUME UNCHANGED <<sock, open, asked, net>>
      PROVE  SocketInv' /\ net' \subseteq net
  BY <1>7 DEF SocketInv
<1>8. ASSUME \/ ThinkDisabled \/ SyncLoopback \/ SyncOther \/ ReceiveNothing \/ Tick
             \/ MsgFunc_Timer \/ UNCHANGED vars
      PROVE  UNCHANGED <<sock, open, asked, net>>
  BY <1>8 DEF ThinkDisabled, SyncLoopback, SyncOther, ReceiveNothing, Tick, MsgFunc_Timer,
              network, vars
<1>9. ASSUME ServerChangeLevel \/ ClockRestarts \/ Disconnect \/ SetEnabled
      PROVE  UNCHANGED <<sock, open, asked, net>>
  BY <1>9 DEF ServerChangeLevel, ClockRestarts, Disconnect, SetEnabled, network, sync
<1> QED
  BY <1>1, <1>2, <1>3, <1>4, <1>5, <1>6, <1>7, <1>8, <1>9 DEF Next, Think, Environment

LEMMA InitTypes == Init => TypeOK /\ SocketInv /\ LevelInv /\ PartsInv
<1> SUFFICES ASSUME Init PROVE TypeOK /\ SocketInv /\ LevelInv /\ PartsInv
  OBVIOUS
<1>1. due \in Int
  <2>1. due = -(Timeout + 1) /\ Timeout \in Nat
    BY Intervals DEF Init
  <2> QED BY <2>1
<1>2. TypeOK
  BY <1>1 DEF Init, TypeOK, Connections
<1>3. SocketInv /\ LevelInv
  BY DEF Init, SocketInv, LevelInv
<1>4. PartsInv
  BY FS_EmptySet DEF Init, PartsInv
<1> QED BY <1>2, <1>3, <1>4

LEMMA TypedSockets == Spec => [](TypeOK /\ SocketInv)
<1>1. Init => TypeOK /\ SocketInv
  BY InitTypes
<1>2. TypeOK /\ SocketInv /\ [Next]_vars => (TypeOK /\ SocketInv)'
  BY TypeStep, SocketStep
<1> QED BY <1>1, <1>2, PTL DEF Spec

\* TypeOK is an invariant of the timer, its sockets and the network; in particular
\* no part is stored beyond the buffer.
THEOREM TypeCorrect == Spec => []TypeOK
BY TypedSockets, PTL

\* A timer that waits for nothing has a socket that is open, or none.
IdleInv == status \notin Awaiting => open = {sock} \ {NoSocket}

\* What a datagram that is read leaves of the socket: the open one, or none.
LEMMA IdleReceive ==
  ASSUME TypeOK, SocketInv, NEW d \in net,
         \/ ReceiveShort(d) \/ ReceiveOther(d) \/ ReceiveAnswer(d)
         \/ ReceiveUselessPart(d) \/ ReceivePart(d) \/ ReceiveLastPart(d)
  PROVE  open' = {sock'} \ {NoSocket}
<1>1. open = {sock} /\ sock # NoSocket
  BY Intervals
  DEF Reads, SocketInv, TypeOK, NoSocket, ReceiveShort, ReceiveOther, ReceiveAnswer,
      ReceiveUselessPart, ReceivePart, ReceiveLastPart
<1>2. CASE UNCHANGED <<sock, open>>
  BY <1>1, <1>2
<1>3. CASE sock' = NoSocket /\ NetCloseSocket(sock)
  BY <1>3, SocketClosed
<1>4. \/ UNCHANGED <<sock, open>>
      \/ sock' = NoSocket /\ NetCloseSocket(sock)
  BY DEF ReceiveShort, ReceiveOther, ReceiveAnswer, ReceiveUselessPart, ReceivePart,
         ReceiveLastPart
<1> QED BY <1>2, <1>3, <1>4

\* IdleInv is inductive: a failed send leaves a timer that waits.
LEMMA IdleStep == TypeOK /\ SocketInv /\ IdleInv /\ [Next]_vars => IdleInv'
<1> SUFFICES ASSUME TypeOK, SocketInv, IdleInv, [Next]_vars
             PROVE  IdleInv'
  OBVIOUS
<1>0. ASSUME UNCHANGED <<status, sock, open>>
      PROVE  IdleInv'
  BY <1>0 DEF IdleInv
<1>1. CASE SyncNotConnected
  <2>1. \/ open' = {} /\ sock' = NoSocket
        \/ UNCHANGED <<status, sock, open>>
    BY <1>1, SocketClosed DEF SyncNotConnected, network
  <2> QED BY <1>0, <2>1 DEF IdleInv
<1>2. ASSUME status' \in Awaiting
      PROVE  IdleInv'
  BY <1>2 DEF IdleInv
<1>3. CASE SendRequest
  BY <1>2, <1>3 DEF SendRequest, Awaiting
<1>4. CASE Receive
  <2>1. ASSUME NEW d \in net, ReceiveChallenge(d)
        PROVE  IdleInv'
    BY <1>2, <2>1 DEF ReceiveChallenge, Awaiting
  <2> QED BY <1>4, <2>1, IdleReceive DEF Receive, IdleInv
<1>5. CASE Connect \/ NewLevel
  <2>1. sock' = NoSocket /\ open' = {}
    BY <1>5, VidInitStarts DEF Connect, NewLevel
  <2> QED BY <2>1 DEF IdleInv
<1>6. CASE ThinkDisabled \/ SyncLoopback \/ SyncOther \/ ReceiveNothing \/ Tick
             \/ MsgFunc_Timer \/ UNCHANGED vars
  BY <1>0, <1>6 DEF ThinkDisabled, SyncLoopback, SyncOther, ReceiveNothing, Tick,
                    MsgFunc_Timer, network, vars
<1>7. CASE ServerChangeLevel \/ ClockRestarts \/ Disconnect \/ SetEnabled
  BY <1>0, <1>7 DEF ServerChangeLevel, ClockRestarts, Disconnect, SetEnabled, network, sync
<1>8. CASE ServerReply \/ Lose
  BY <1>0, <1>8 DEF ServerReply, Lose, sync
<1> QED
  BY <1>1, <1>3, <1>4, <1>5, <1>6, <1>7, <1>8 DEF Next, Think, Environment

\* The timer never holds a socket it has lost the handle of, and asks anew only on an
\* open socket or a new one.
THEOREM SocketIsAlwaysKnown == Spec => []SocketIsKnown
<1>1. Init => IdleInv
  BY DEF Init, IdleInv
<1>2. SocketInv /\ IdleInv => SocketIsKnown
  BY DEF SocketInv, IdleInv, SocketIsKnown
<1> QED BY <1>1, <1>2, IdleStep, TypedSockets, PTL DEF Spec
-----------------------------------------------------------------------------
\* LevelInv is inductive: a step that moves the client's level empties the network
\* and takes the sync back, and no step shows a level before it.
LEMMA LevelStep ==
  ASSUME TypeOK, SocketInv, LevelInv, [Next]_vars
  PROVE  LevelInv'
<1>1. CASE Connect \/ NewLevel
  <2>1. net' = {} /\ level' = map' /\ synced' = FALSE
    BY <1>1, VidInitStarts DEF Connect, NewLevel
  <2>2. map' \in Nat
    <3>1. map \in Nat
      BY DEF TypeOK
    <3>2. map' = map + 1 \/ map' = map
      BY <1>1 DEF Connect, NewLevel
    <3> QED BY <3>1, <3>2
  <2> QED BY <2>1, <2>2 DEF LevelInv
<1>2. CASE ServerReply
  <2>1. \A d \in net' : d \in net \/ d.map = map
    BY <1>2, Replies
  <2>2. UNCHANGED <<level, map, synced, end>>
    BY <1>2 DEF ServerReply, sync, settings
  <2> QED BY <2>1, <2>2 DEF LevelInv
<1>3. CASE ServerChangeLevel
  <2>1. map' = map + 1 /\ UNCHANGED <<level, net, synced, end>> /\ level \in Nat /\ map \in Nat
    BY <1>3 DEF ServerChangeLevel, network, TypeOK
  <2> QED BY <2>1 DEF LevelInv
<1>4. ASSUME NEW d \in net, UseAnswer(d.map), UNCHANGED settings, net' \subseteq net
      PROVE  LevelInv'
  <2>1. end'.map = d.map /\ UNCHANGED <<level, map>>
    BY <1>4 DEF UseAnswer, settings
  <2> QED BY <1>4, <2>1 DEF LevelInv
<1>5. ASSUME UNCHANGED <<level, map>>, net' \subseteq net,
             synced' = FALSE \/ UNCHANGED <<synced, end>>
      PROVE  LevelInv'
  BY <1>5 DEF LevelInv
<1>6. CASE SyncLoopback
  <2>1. end'.map = map /\ UNCHANGED <<level, map, net>>
    BY <1>6 DEF SyncLoopback, settings, network
  <2>2. level <= map
    BY DEF LevelInv
  <2> QED BY <2>1, <2>2 DEF LevelInv
<1>7. CASE SyncNotConnected \/ SyncOther \/ SendRequest
  <2>1. UNCHANGED <<level, map>> /\ (synced' = FALSE \/ UNCHANGED <<synced, end>>)
    BY <1>7 DEF SyncNotConnected, SyncOther, SendRequest, settings
  <2>2. net' \subseteq net
    <3>1. CASE SyncNotConnected
      BY <3>1, SocketClosed DEF SyncNotConnected, network
    <3>2. CASE SyncOther
      BY <3>2 DEF SyncOther, network
    <3>3. CASE SendRequest
      BY <3>3, RequestSent
    <3> QED BY <1>7, <3>1, <3>2, <3>3
  <2> QED BY <1>5, <2>1, <2>2
<1>8. ASSUME NEW d \in net, net' \subseteq net,
             \/ ReceiveChallenge(d) \/ ReceiveShort(d) \/ ReceiveOther(d)
             \/ ReceiveAnswer(d) \/ ReceiveUselessPart(d) \/ ReceivePart(d)
             \/ ReceiveLastPart(d)
      PROVE  LevelInv'
  <2>1. \/ UseAnswer(d.map) /\ UNCHANGED settings
        \/ UNCHANGED <<synced, end, settings>>
    BY <1>8 DEF ReceiveChallenge, ReceiveShort, ReceiveOther, ReceiveAnswer,
                ReceiveUselessPart, ReceivePart, ReceiveLastPart
  <2>2. UNCHANGED settings => UNCHANGED <<level, map>>
    BY DEF settings
  <2> QED BY <1>4, <1>5, <1>8, <2>1, <2>2
<1>9. CASE Receive
  <2>1. net' \subseteq net
    BY <1>9, ChallengeAnswered, ReceiveSockets DEF Receive
  <2> QED BY <1>8, <1>9, <2>1 DEF Receive
<1>10. CASE MsgFunc_Timer
  <2>1. UNCHANGED <<level, map, net, synced>> /\ ~synced
    BY <1>10 DEF MsgFunc_Timer, settings, network
  <2> QED BY <2>1 DEF LevelInv
<1>11. CASE Lose
  <2>1. UNCHANGED <<level, map, synced, end>> /\ net' \subseteq net
    BY <1>11 DEF Lose, sync, settings
  <2> QED BY <1>5, <2>1
<1>12. CASE ThinkDisabled \/ ReceiveNothing \/ Tick \/ UNCHANGED vars
  <2>1. UNCHANGED <<level, map, synced, end, net>>
    BY <1>12 DEF ThinkDisabled, ReceiveNothing, Tick, settings, network, vars
  <2> QED BY <1>5, <2>1
<1>13. CASE ClockRestarts \/ Disconnect \/ SetEnabled
  <2>1. UNCHANGED <<level, map, synced, end, net>>
    BY <1>13 DEF ClockRestarts, Disconnect, SetEnabled, settings, sync, network
  <2> QED BY <1>5, <2>1
<1> QED
  BY <1>1, <1>2, <1>3, <1>6, <1>7, <1>9, <1>10, <1>11, <1>12, <1>13
  DEF Next, Think, Environment

\* A synced timer shows the end of the client's level or of a later one, however late
\* an answer comes.
THEOREM SyncedIsThisLevel == Spec => []SyncedToThisLevel
<1>1. Init => LevelInv
  BY InitTypes
<1>2. TypeOK /\ SocketInv /\ LevelInv /\ [Next]_vars => LevelInv'
  BY LevelStep
<1>3. TypeOK /\ LevelInv => SyncedToThisLevel
  BY DEF TypeOK, LevelInv, SyncedToThisLevel
<1> QED BY <1>1, <1>2, <1>3, TypedSockets, PTL DEF Spec
-----------------------------------------------------------------------------
\* Storing a part adds one part to the buffer and one to the count.
LEMMA PartCounted ==
  ASSUME TypeOK, PartsInv, NEW d \in net, d.kind = "part", Stores(d),
         parts' = {p \in parts : p.idx # d.idx} \cup {d}, count' = count + 1
  PROVE  PartsInv'
<1>1. parts' = parts \cup {d} /\ d \notin parts
  BY StoredParts
<1>2. IsFiniteSet(parts) /\ count = Cardinality(parts)
  BY DEF PartsInv
<1>3. IsFiniteSet(parts \cup {d}) /\ Cardinality(parts \cup {d}) = Cardinality(parts) + 1
  BY <1>1, <1>2, FS_AddElement
<1> QED BY <1>1, <1>2, <1>3 DEF PartsInv

\* PartsInv is an invariant.
LEMMA CountedParts == Spec => []PartsInv
<1>1. Init => PartsInv
  BY InitTypes
<1>2. TypeOK /\ SocketInv /\ PartsInv /\ [Next]_vars => PartsInv'
  <2> SUFFICES ASSUME TypeOK, SocketInv, PartsInv, [Next]_vars
               PROVE  PartsInv'
    OBVIOUS
  <2>1. ASSUME parts' = {}, count' = 0
        PROVE  PartsInv'
    BY <2>1, FS_EmptySet DEF PartsInv
  <2>2. ASSUME UNCHANGED <<parts, count>>
        PROVE  PartsInv'
    BY <2>2 DEF PartsInv
  <2>3. CASE Connect \/ NewLevel
    <3>1. parts' = {} /\ count' = 0
      BY <2>3, VidInitStarts DEF Connect, NewLevel
    <3> QED BY <2>1, <3>1
  <2>4. CASE SendRequest
    BY <2>1, <2>4 DEF SendRequest
  <2>5. ASSUME NEW d \in net,
               \/ ReceiveChallenge(d) \/ ReceiveShort(d) \/ ReceiveOther(d)
               \/ ReceiveUselessPart(d)
        PROVE  PartsInv'
    BY <2>2, <2>5 DEF ReceiveChallenge, ReceiveShort, ReceiveOther, ReceiveUselessPart,
                      reassembly
  <2>6. ASSUME NEW d \in net, ReceiveAnswer(d)
        PROVE  PartsInv'
    BY <2>1, <2>6 DEF ReceiveAnswer, UseAnswer
  <2>7. ASSUME NEW d \in net, ReceivePart(d)
        PROVE  PartsInv'
    BY <2>7, PartCounted DEF ReceivePart
  <2>8. ASSUME NEW d \in net, ReceiveLastPart(d)
        PROVE  PartsInv'
    <3>1. /\ d.kind = "part" /\ Stores(d)
          /\ \/ UseAnswer(d.map)
             \/ parts' = {p \in parts : p.idx # d.idx} \cup {d} /\ count' = count + 1
      BY <2>8 DEF ReceiveLastPart
    <3>2. CASE UseAnswer(d.map)
      BY <2>1, <3>2 DEF UseAnswer
    <3>3. CASE parts' = {p \in parts : p.idx # d.idx} \cup {d} /\ count' = count + 1
      BY <3>1, <3>3, PartCounted
    <3> QED BY <3>1, <3>2, <3>3
  <2>9. ASSUME \/ ThinkDisabled \/ SyncNotConnected \/ SyncLoopback \/ SyncOther
               \/ ReceiveNothing \/ Tick \/ MsgFunc_Timer \/ UNCHANGED vars
        PROVE  UNCHANGED <<parts, count>>
    BY <2>9 DEF ThinkDisabled, SyncNotConnected, SyncLoopback, SyncOther, ReceiveNothing,
                Tick, MsgFunc_Timer, reassembly, vars
  <2>10. ASSUME ServerChangeLevel \/ ClockRestarts \/ Disconnect \/ SetEnabled \/ ServerReply \/ Lose
         PROVE  UNCHANGED <<parts, count>>
    BY <2>10 DEF ServerChangeLevel, ClockRestarts, Disconnect, SetEnabled, ServerReply, Lose, reassembly
  <2> QED
    BY <2>2, <2>3, <2>4, <2>5, <2>6, <2>7, <2>8, <2>9, <2>10
    DEF Next, Think, Environment, Receive
<1> QED BY <1>1, <1>2, TypedSockets, PTL DEF Spec

\* The number of parts counted is the number of parts in the buffer.
THEOREM PartsAreCounted == Spec => []CountIsParts
<1>1. PartsInv => CountIsParts
  BY DEF PartsInv, CountIsParts
<1> QED BY <1>1, CountedParts, PTL
-----------------------------------------------------------------------------
\* A split answer has an id nobody else carries, and parts below its total.
LEMMA RepliesAgree ==
  ASSUME TypeOK, PartsAgree, ServerReply
  PROVE  PartsAgree'
<1>1. PICK q \in asked, shape \in Shapes, i \in FreshRids :
        net' = net \cup
             {[sock |-> q.sock, kind |-> shape.kind, map |-> map,
               rid |-> IF shape.kind = "part" THEN i ELSE 0,
               idx |-> n, total |-> shape.total, valid |-> shape.valid] :
                n \in IF shape.kind = "part" THEN 0 .. shape.total - 1 ELSE {0}}
  BY DEF ServerReply
<1>2. shape.total \in Nat
  BY TimerAssumption DEF TimerAssumption
<1>3. UNCHANGED <<parts, count, rid>>
  BY DEF ServerReply, reassembly
<1>4. ASSUME NEW d \in net', d \notin net, d.kind = "part"
      PROVE  d.rid = i /\ d.total = shape.total /\ d.idx < shape.total
  <2>1. PICK n \in (IF shape.kind = "part" THEN 0 .. shape.total - 1 ELSE {0}) :
          d = [sock |-> q.sock, kind |-> shape.kind, map |-> map,
               rid |-> IF shape.kind = "part" THEN i ELSE 0,
               idx |-> n, total |-> shape.total, valid |-> shape.valid]
    BY <1>1, <1>4
  <2>2. shape.kind = "part" /\ d.rid = i /\ d.total = shape.total /\ d.idx = n
    BY <1>4, <2>1
  <2>3. n \in 0 .. shape.total - 1
    BY <2>1, <2>2
  <2> QED BY <1>2, <2>2, <2>3
<1>5. \A d \in net \cup parts : d.rid # i
  BY DEF FreshRids
<1>6. \A d \in net' \cup parts' : d \in net \cup parts \/ (d \in net' /\ d \notin net)
  BY <1>3
<1>7. \A d, e \in net' \cup parts' :
        d.kind = "part" /\ e.kind = "part" /\ d.rid = e.rid => d.total = e.total
  BY <1>4, <1>5, <1>6 DEF PartsAgree
<1>8. \A d \in net' \cup parts' : d.kind = "part" => d.idx < d.total
  BY <1>4, <1>6 DEF PartsAgree
<1> QED BY <1>3, <1>7, <1>8 DEF PartsAgree

\* A part that is stored is of the response in the buffer.
LEMMA StoredPartAgrees ==
  ASSUME TypeOK, PartsInv, PartsAgree, NEW d \in net, d.kind = "part", Stores(d)
  PROVE  /\ \A p \in parts \cup {d} : p.kind = "part" /\ p.rid = d.rid
         /\ \A p, q \in parts \cup {d} : p.idx = q.idx => p = q
<1>1. \A p \in parts : p.kind = "part"
  BY DEF TypeOK
<1>2. CASE count = 0
  <2>1. parts = {}
    BY <1>2, FS_EmptySet DEF PartsInv
  <2> QED BY <2>1
<1>3. CASE count # 0
  <2>1. count > 0 /\ rid = d.rid
    BY <1>3 DEF TypeOK, Stores
  <2>2. \A p \in parts : p.rid = d.rid /\ p.idx # d.idx
    BY <2>1 DEF PartsAgree, Stores
  <2> QED BY <1>1, <2>2 DEF PartsAgree
<1> QED BY <1>2, <1>3

\* Storing a part keeps the buffer to one response.
LEMMA StoringAgrees ==
  ASSUME TypeOK, PartsInv, PartsAgree, NEW d \in net, d.kind = "part", Stores(d),
         parts' = {p \in parts : p.idx # d.idx} \cup {d}, rid' = d.rid, net' \subseteq net
  PROVE  PartsAgree'
<1>1. parts' = parts \cup {d}
  BY StoredParts
<1>2. /\ \A p \in parts' : p.kind = "part" /\ p.rid = rid'
      /\ \A p, q \in parts' : p.idx = q.idx => p = q
  BY <1>1, StoredPartAgrees
<1>3. net' \cup parts' \subseteq net \cup parts
  BY <1>1
<1> QED BY <1>2, <1>3 DEF PartsAgree

\* As many parts as the response has are all of its parts.
LEMMA LastPartWhole ==
  ASSUME TypeOK, PartsInv, PartsAgree, NEW d \in net, d.kind = "part", Stores(d),
         count + 1 >= d.total
  PROVE  LET all == {p \in parts : p.idx # d.idx} \cup {d}
         IN  /\ \A p \in all : p.rid = d.rid
             /\ {p.idx : p \in all} = 0 .. d.total - 1
<1> DEFINE all == parts \cup {d}
           places == 0 .. d.total - 1
           f == [p \in all |-> p.idx]
<1>1. {p \in parts : p.idx # d.idx} \cup {d} = all /\ d \notin parts
  BY StoredParts
<1>2. /\ \A p \in all : p.kind = "part" /\ p.rid = d.rid
      /\ \A p, q \in all : p.idx = q.idx => p = q
  BY StoredPartAgrees
<1>3. d.total \in Nat /\ count \in Nat /\ \A p \in all : p.idx \in Nat
  <2>1. \A p \in all : p \in Datagram
    BY DEF TypeOK
  <2> QED BY <2>1 DEF TypeOK, Datagram
<1>4. ASSUME NEW p \in all
      PROVE  p.idx \in places
  <2>1. p.idx < p.total /\ p.total = d.total
    BY <1>2 DEF PartsAgree
  <2> QED BY <1>3, <2>1
<1>5. IsFiniteSet(all) /\ Cardinality(all) = count + 1
  BY <1>1, FS_AddElement DEF PartsInv
<1>6. IsFiniteSet(places) /\ Cardinality(places) = d.total
  <2>1. d.total > 0
    <3>1. d.idx \in places
      BY <1>4
    <3> QED BY <1>3, <3>1
  <2> DEFINE last == d.total - 1
  <2>2. last \in Int /\ last >= 0 /\ last + 1 = d.total
    BY <1>3, <2>1
  <2>3. places = 0 .. last
    OBVIOUS
  <2> HIDE DEF last, places
  <2>4. /\ IsFiniteSet(0 .. last)
        /\ Cardinality(0 .. last) = IF 0 > last THEN 0 ELSE last - 0 + 1
    BY <2>2, FS_Interval
  <2> QED BY <2>2, <2>3, <2>4
<1>7. f \in Injection(all, places)
  <2>1. f \in [all -> places]
    BY <1>4
  <2> QED BY <1>2, <2>1 DEF Injection, IsInjective
<1>8. f \in Surjection(all, places)
  <2> HIDE DEF all, places, f
  <2>1. /\ Cardinality(all) <= Cardinality(places)
        /\ Cardinality(all) = Cardinality(places) <=> f \in Surjection(all, places)
    BY <1>6, <1>7, FS_Injection
  <2> QED BY <1>3, <1>5, <1>6, <2>1
<1>9. {p.idx : p \in all} = places
  BY <1>4, <1>8 DEF Surjection
<1> QED BY <1>1, <1>2, <1>9

\* PartsInv, PartsAgree and AnswerIsWhole are inductive together.
LEMMA WholeStep ==
  ASSUME TypeOK, SocketInv, PartsInv, PartsAgree, AnswerIsWhole, [Next]_vars
  PROVE  PartsAgree' /\ AnswerIsWhole'
<1>1. net' \subseteq net \/ ServerReply
  BY SocketStep
<1>2. ASSUME net' \subseteq net, parts' = {}, count' = 0
      PROVE  PartsAgree'
  BY <1>2 DEF PartsAgree
<1>3. ASSUME net' \subseteq net, UNCHANGED <<parts, count, rid>>
      PROVE  PartsAgree'
  BY <1>3 DEF PartsAgree
<1>4. CASE Connect \/ NewLevel
  <2>1. net' = {} /\ parts' = {} /\ count' = 0
    BY <1>4, VidInitStarts DEF Connect, NewLevel
  <2>2. UNCHANGED whole
    BY <1>4 DEF Connect, NewLevel
  <2> QED BY <1>2, <2>1, <2>2 DEF AnswerIsWhole
<1>5. CASE SendRequest
  <2>1. net' \subseteq net
    BY <1>5, RequestSent
  <2> QED BY <1>2, <1>5, <2>1 DEF SendRequest, AnswerIsWhole
<1>6. ASSUME NEW d \in net,
             \/ ReceiveChallenge(d) \/ ReceiveShort(d) \/ ReceiveOther(d)
             \/ ReceiveUselessPart(d)
      PROVE  PartsAgree' /\ AnswerIsWhole'
  <2>1. net' \subseteq net
    BY <1>6, ChallengeAnswered, ReceiveSockets
  <2>2. UNCHANGED <<parts, count, rid, whole>>
    BY <1>6 DEF ReceiveChallenge, ReceiveShort, ReceiveOther, ReceiveUselessPart, reassembly
  <2> QED BY <1>3, <2>1, <2>2 DEF AnswerIsWhole
<1>7. ASSUME NEW d \in net, ReceiveAnswer(d)
      PROVE  PartsAgree' /\ AnswerIsWhole'
  <2>1. net' \subseteq net
    BY <1>7, ReceiveSockets
  <2> QED BY <1>2, <1>7, <2>1 DEF ReceiveAnswer, UseAnswer, AnswerIsWhole
<1>8. ASSUME NEW d \in net, ReceivePart(d)
      PROVE  PartsAgree' /\ AnswerIsWhole'
  <2>1. net' \subseteq net
    BY <1>8, ReceiveSockets
  <2> QED BY <1>8, <2>1, StoringAgrees DEF ReceivePart, AnswerIsWhole
<1>9. ASSUME NEW d \in net, ReceiveLastPart(d)
      PROVE  PartsAgree' /\ AnswerIsWhole'
  <2>1. net' \subseteq net
    BY <1>9, ReceiveSockets
  <2>2. d.kind = "part" /\ Stores(d) /\ count + 1 >= d.total
    BY <1>9 DEF ReceiveLastPart
  <2>3. AnswerIsWhole'
    BY <1>9, <2>2, LastPartWhole DEF ReceiveLastPart, AnswerIsWhole
  <2>4. \/ UseAnswer(d.map)
        \/ parts' = {p \in parts : p.idx # d.idx} \cup {d} /\ rid' = d.rid
    BY <1>9 DEF ReceiveLastPart
  <2>5. PartsAgree'
    <3>1. CASE UseAnswer(d.map)
      BY <1>2, <2>1, <3>1 DEF UseAnswer
    <3>2. CASE parts' = {p \in parts : p.idx # d.idx} \cup {d} /\ rid' = d.rid
      BY <2>1, <2>2, <3>2, StoringAgrees
    <3> QED BY <2>4, <3>1, <3>2
  <2> QED BY <2>3, <2>5
<1>10. CASE ServerReply
  BY <1>10, RepliesAgree DEF ServerReply, AnswerIsWhole
<1>11. ASSUME \/ ThinkDisabled \/ SyncNotConnected \/ SyncLoopback \/ SyncOther
              \/ ReceiveNothing \/ Tick \/ MsgFunc_Timer \/ UNCHANGED vars
       PROVE  UNCHANGED <<parts, count, rid, whole>>
  BY <1>11 DEF ThinkDisabled, SyncNotConnected, SyncLoopback, SyncOther, ReceiveNothing,
               Tick, MsgFunc_Timer, reassembly, vars
<1>12. ASSUME ServerChangeLevel \/ ClockRestarts \/ Disconnect \/ SetEnabled \/ Lose
       PROVE  UNCHANGED <<parts, count, rid, whole>>
  BY <1>12 DEF ServerChangeLevel, ClockRestarts, Disconnect, SetEnabled, Lose, reassembly
<1>13. ASSUME UNCHANGED <<parts, count, rid, whole>>
       PROVE  ServerReply \/ (PartsAgree' /\ AnswerIsWhole')
  BY <1>1, <1>3, <1>13 DEF AnswerIsWhole
<1> QED
  BY <1>4, <1>5, <1>6, <1>7, <1>8, <1>9, <1>10, <1>11, <1>12, <1>13
  DEF Next, Think, Environment, Receive

\* A split answer that is put together consists of all the parts of one response,
\* whatever was lost, repeated or mixed up.
THEOREM AnswersAreWhole == Spec => []AnswerIsWhole
<1>1. Init => PartsAgree /\ AnswerIsWhole
  BY DEF Init, PartsAgree, AnswerIsWhole
<1>2. TypeOK /\ SocketInv /\ PartsInv /\ PartsAgree /\ AnswerIsWhole /\ [Next]_vars
        => (PartsAgree /\ AnswerIsWhole)'
  BY WholeStep
<1> QED BY <1>1, <1>2, TypedSockets, CountedParts, PTL DEF Spec
=============================================================================
