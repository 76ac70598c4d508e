----------------------------- MODULE TimerSync -----------------------------
(***************************************************************************)
(* The round timer's synchronisation with the server: CHudTimer            *)
(* (cl_dll/hud_timer.cpp) over the UDP helpers of cl_dll/net_windows.cpp.  *)
(*                                                                         *)
(* Every frame Think may call SyncTimer.  Against a remote server it asks  *)
(* for the server's rules with A2S_RULES: a request, a challenge, the      *)
(* request again, and an answer in one datagram or in several parts.  The  *)
(* network loses, duplicates, delays and reorders datagrams; levels change *)
(* and the connection comes and goes meanwhile.                            *)
(*                                                                         *)
(* Time is relative: `due` is m_flNextSyncTime - flTime, and Tick lowers   *)
(* it.  Below -(Timeout + 1) its exact value no longer matters.            *)
(***************************************************************************)
EXTENDS Integers, FiniteSets

CONSTANTS
  Sockets,        \* handles the system can give out
  Rids,           \* response ids of split answers
  Shapes,         \* the replies servers send
  Room,           \* parts that fit m_szPacketBuffer, 2 in the code
  Timeout,        \* 3 seconds: a request is given up
  RetryInterval,  \* 1 second: not connected, or an address without rules
  DelayInterval,  \* 1.5 seconds: after the first sync of a level
  LocalInterval,  \* 5 seconds: loopback
  ResyncInterval, \* 10 seconds: after an answer
  MaxAhead,       \* 60 seconds: a sync time further ahead is a reset clock
  Prompt,         \* TRUE: datagrams that are not lost beat the clock
  MaxFaults,      \* bound: lost and duplicated datagrams, failed sends
  MaxChanges      \* bound: level changes, connects, disconnects, cvar changes

ASSUME TimerAssumption ==
  /\ Sockets \subseteq Nat \ {0}
  /\ Rids \subseteq Nat
  /\ Shapes \subseteq [kind : {"challenge", "answer", "part", "other", "short"},
                       total : Nat, valid : BOOLEAN]
  /\ {Room, Timeout, RetryInterval, DelayInterval, LocalInterval, ResyncInterval,
      MaxAhead, MaxFaults, MaxChanges} \subseteq Nat
  /\ \A t \in {RetryInterval, DelayInterval, LocalInterval, ResyncInterval} : t <= MaxAhead
  /\ Prompt \in BOOLEAN

VARIABLES
  status,    \* g_eRulesRequestStatus
  sock,      \* g_timerSocket, NoSocket when 0
  due,       \* m_flNextSyncTime, as the time left until then
  synced,    \* m_flSynced
  end,       \* what m_flEndTime was computed from, and of which level
  delay,     \* m_bDelayTimeleftReading
  parts,     \* m_szPacketBuffer and m_iReceivedPackets: the parts in the buffer
  count,     \* m_iReceivedPacketsCount
  rid,       \* m_iResponceID
  enabled,   \* hud_timer_sync > 0
  conn,      \* net_status_t: how the client is connected
  level,     \* the level of the last VidInit
  map,       \* the level the server runs
  open,      \* sockets the process holds open
  asked,     \* requests on their way to the server
  net,       \* datagrams on their way to a socket, or waiting in it
  whole,     \* history: the last split answer was put together from one response
  faults,    \* bound: network faults so far
  changes    \* bound: changes so far

sync == <<status, sock, due, synced, end, delay>>
reassembly == <<parts, count, rid>>
settings == <<enabled, conn, level, map>>
network == <<open, asked, net>>
vars == <<status, sock, due, synced, end, delay, parts, count, rid, enabled, conn,
          level, map, open, asked, net, whole, faults, changes>>

NoSocket == 0
Awaiting == {"code", "answer"}  \* SOCKET_AWAITING_CODE, SOCKET_AWAITING_ANSWER
Connections == {"none", "ip", "loopback", "other"}

Question == [sock : Sockets, code : BOOLEAN]
Datagram == [sock : Sockets, kind : {"challenge", "answer", "part", "other", "short"},
             map : Nat, rid : Nat, idx : Nat, total : Nat, valid : BOOLEAN]

\* Type invariant.  A part in the buffer lies within the buffer.
TypeOK ==
  /\ status \in {"none", "idle"} \cup Awaiting
  /\ sock \in Sockets \cup {NoSocket}
  /\ due \in Int
  /\ synced \in BOOLEAN
  /\ end \in [from : {"zero", "message", "limit", "left"}, map : Nat]
  /\ delay \in BOOLEAN
  /\ parts \subseteq {d \in Datagram : d.kind = "part" /\ d.idx < Room}
  /\ count \in Nat
  /\ rid \in Nat
  /\ enabled \in BOOLEAN
  /\ conn \in Connections
  /\ level \in Nat
  /\ map \in Nat
  /\ open \subseteq Sockets
  /\ asked \subseteq Question
  /\ net \subseteq Datagram
  /\ whole \in BOOLEAN
  /\ faults \in Nat
  /\ changes \in Nat
-----------------------------------------------------------------------------
(* Initial state: CHudTimer::Init, before the first level.  hud_timer_sync  *)
(* is an archived cvar: it starts as it was left.                          *)

Init ==
  /\ status = "none"
  /\ sock = NoSocket
  /\ due = -(Timeout + 1)
  /\ synced = FALSE
  /\ end = [from |-> "zero", map |-> 0]
  /\ delay = TRUE
  /\ parts = {}
  /\ count = 0
  /\ rid = 0
  /\ enabled \in BOOLEAN
  /\ conn = "none"
  /\ level = 0
  /\ map = 0
  /\ open = {}
  /\ asked = {}
  /\ net = {}
  /\ whole = TRUE
  /\ faults = 0
  /\ changes = 0

\* What is left of requests and datagrams when only `opened` sockets remain.
For(opened, dgrams) == {d \in dgrams : d.sock \in opened}

\* NetCloseSocket: what was meant for the socket is lost.
NetCloseSocket(s) ==
  /\ open' = open \ {s}
  /\ asked' = For(open \ {s}, asked)
  /\ net' = For(open \ {s}, net)

\* NetSendUdp(..., &s): the handle it leaves behind, the sockets then open, and
\* whether the datagram went out.  A failed send closes the socket it was given
\* and leaves the handle as it was.
NetSendUdp(s, opened) ==
  LET fails == [sock |-> s, open |-> opened \ {s}, sent |-> FALSE]
  IN  CASE s \in opened  -> {[sock |-> s, open |-> opened, sent |-> TRUE], fails}
        [] s = NoSocket  -> {[sock |-> n, open |-> opened \cup {n}, sent |-> TRUE] :
                               n \in Sockets \ opened} \cup {fails}
        [] OTHER         -> {fails}

\* A send fails for the model's bound unless the handle was closed already.
Failure(s, opened, result) ==
  IF result.sent \/ s \notin opened \cup {NoSocket} THEN 0 ELSE 1
-----------------------------------------------------------------------------
(* Think and SyncTimer.                                                    *)

\* Mutant: a clock reset is not undone.
DueUnreset == due

\* Think's m_flNextSyncTime once it has undone a clock reset.
Due == IF due > MaxAhead THEN 0 ELSE due

\* Think: SyncTimer runs only when it is enabled and due.
Runs == enabled /\ Due <= 0

\* The end of SyncTimer while connected, unless a request is in flight: the first
\* sync of a level is followed by another one soon, whatever was scheduled.
Schedule(next) ==
  /\ due' = IF delay THEN DelayInterval ELSE next
  /\ delay' = FALSE

\* Think with the sync disabled still undoes a clock reset.
ThinkDisabled ==
  /\ ~enabled
  /\ due > MaxAhead
  /\ due' = 0
  /\ UNCHANGED <<status, sock, synced, end, delay, reassembly, settings, network,
                 whole, faults, changes>>

\* SyncTimer while not connected: the socket is closed.
SyncNotConnected ==
  /\ Runs
  /\ conn = "none"
  /\ synced' = FALSE
  /\ due' = RetryInterval
  /\ IF sock # NoSocket
     THEN NetCloseSocket(sock) /\ sock' = NoSocket /\ status' = "none"
     ELSE UNCHANGED <<network, sock, status>>
  /\ UNCHANGED <<end, delay, reassembly, settings, whole, faults, changes>>

\* SyncTimer on a listen server: mp_timelimit, then mp_timeleft once the delay is
\* over.  It takes timeleft's word only when the two differ by more than 1.5 s.
SyncLoopback ==
  /\ Runs
  /\ conn = "loopback"
  /\ \E from \in {"limit", "left"} :
       /\ from = "left" => ~delay
       /\ end' = [from |-> from, map |-> map]
       /\ \E positive \in (IF from = "left" THEN {TRUE} ELSE BOOLEAN) :
            synced' = (synced \/ (positive /\ ~delay))
  /\ Schedule(LocalInterval)
  /\ UNCHANGED <<status, sock, reassembly, settings, network, whole, faults, changes>>

\* SyncTimer on an address without A2S_RULES.
SyncOther ==
  /\ Runs
  /\ conn = "other"
  /\ synced' = FALSE
  /\ Schedule(RetryInterval)
  /\ UNCHANGED <<status, sock, end, reassembly, settings, network, whole, faults, changes>>
-----------------------------------------------------------------------------
(* SyncTimerRemote.                                                        *)

Remote == Runs /\ conn = "ip"

\* Mutant: only the wait for a challenge times out.
TimedOutCode == status = "code" /\ Due < -Timeout

TimedOut == status \in Awaiting /\ Due < -Timeout

\* Mutants: a time-out forgets to zero the handle, or to close the socket.
HandleKept == sock
OpenKept == open

\* g_timerSocket and the open sockets when a time-out, if any, has been handled.
Handle == IF TimedOut THEN NoSocket ELSE sock
OpenNow == IF TimedOut THEN open \ {sock} ELSE open

\* The 'V' request of an idle timer, also right after a time-out has closed the
\* old socket.  NetClearSocket first throws away what waits in the socket.
SendRequest ==
  /\ Remote
  /\ TimedOut \/ status \notin Awaiting
  /\ \E drained \in SUBSET For({Handle} \cap OpenNow, net),
        result \in NetSendUdp(Handle, OpenNow) :
       /\ faults + Failure(Handle, OpenNow, result) <= MaxFaults
       /\ faults' = faults + Failure(Handle, OpenNow, result)
       /\ sock' = result.sock
       /\ open' = result.open
       /\ net' = For(OpenNow \cap result.open, net \ drained)
       /\ asked' = For(OpenNow \cap result.open, asked)
                     \cup (IF result.sent THEN {[sock |-> result.sock, code |-> FALSE]}
                           ELSE {})
  /\ status' = "code"
  /\ due' = 0
  /\ parts' = {}
  /\ count' = 0
  /\ rid' = 0
  /\ UNCHANGED <<synced, end, delay, settings, whole, changes>>

\* NetReceiveUdp takes d out of the socket, unless the network sends it twice.
Take(d) ==
  \/ net' = net \ {d} /\ UNCHANGED faults
  \/ faults < MaxFaults /\ faults' = faults + 1 /\ UNCHANGED net

\* SyncTimerRemote gets to read a datagram that waits in an open socket.
Reads(d) ==
  /\ Remote
  /\ status \in Awaiting
  /\ ~TimedOut
  /\ d.sock = sock
  /\ sock \in open

\* SOCKET_AWAITING_CODE: the request is repeated with the challenge.
ReceiveChallenge(d) ==
  /\ Reads(d)
  /\ d.kind = "challenge"
  /\ status = "code"
  /\ \E result \in NetSendUdp(sock, open) :
       /\ faults + Failure(sock, open, result) <= MaxFaults
       /\ faults' = faults + Failure(sock, open, result)
       /\ sock' = result.sock
       /\ open' = result.open
       /\ net' = For(result.open, net \ {d})
       /\ asked' = For(result.open, asked)
                     \cup (IF result.sent THEN {[sock |-> sock, code |-> TRUE]} ELSE {})
  /\ status' = "answer"
  /\ due' = 0
  /\ UNCHANGED <<synced, end, delay, reassembly, settings, whole, changes>>

\* Fewer than 5 bytes, or a datagram from another address.
ReceiveShort(d) ==
  /\ Reads(d)
  /\ d.kind = "short"
  /\ Take(d)
  /\ due' = Due
  /\ UNCHANGED <<status, sock, synced, end, delay, reassembly, settings, open, asked,
                 whole, changes>>

\* Neither a part nor an 'E' answer (a challenge that nobody waits for is one of
\* these): the request is given up.
ReceiveOther(d) ==
  /\ Reads(d)
  /\ d.kind = "other" \/ (d.kind = "challenge" /\ status = "answer")
  /\ status' = "idle"
  /\ sock' = NoSocket
  /\ NetCloseSocket(sock)
  /\ Schedule(Due)
  /\ UNCHANGED <<synced, end, reassembly, settings, whole, faults, changes>>

\* The answer is in the buffer and begins like an answer: the end of the level is
\* computed from mp_timelimit, or from mp_timeleft once the delay is over.
UseAnswer(m) ==
  /\ status' = "idle"
  /\ synced' = TRUE
  /\ \E from \in {"limit", "left"} :
       (from = "left" => ~delay) /\ end' = [from |-> from, map |-> m]
  /\ Schedule(ResyncInterval)
  /\ parts' = {}
  /\ count' = 0
  /\ rid' = 0

\* An answer in one datagram.
ReceiveAnswer(d) ==
  /\ Reads(d)
  /\ d.kind = "answer"
  /\ Take(d)
  /\ UseAnswer(d.map)
  /\ UNCHANGED <<sock, settings, open, asked, whole, changes>>

\* Mutants: a part is stored beyond the buffer, or of another response.
StoresAnywhere(d) == (count = 0 \/ rid = d.rid) /\ \A p \in parts : p.idx # d.idx
StoresAnyResponse(d) == d.idx < Room /\ \A p \in parts : p.idx # d.idx

\* A part that is stored: of the response being put together, not seen before,
\* and within the buffer.
Stores(d) ==
  /\ count = 0 \/ rid = d.rid
  /\ \A p \in parts : p.idx # d.idx
  /\ d.idx < Room

\* A part that is thrown away; the timer now waits for the answer.
ReceiveUselessPart(d) ==
  /\ Reads(d)
  /\ d.kind = "part"
  /\ ~Stores(d)
  /\ Take(d)
  /\ status' = "answer"
  /\ due' = Due
  /\ UNCHANGED <<sock, synced, end, delay, reassembly, settings, open, asked, whole, changes>>

\* A part that leaves the response incomplete.
ReceivePart(d) ==
  /\ Reads(d)
  /\ d.kind = "part"
  /\ Stores(d)
  /\ count + 1 < d.total
  /\ Take(d)
  /\ parts' = {p \in parts : p.idx # d.idx} \cup {d}
  /\ count' = count + 1
  /\ rid' = d.rid
  /\ status' = "answer"
  /\ due' = Due
  /\ UNCHANGED <<sock, synced, end, delay, settings, open, asked, whole, changes>>

\* The part that completes the count.  A buffer that does not begin like an answer
\* gives the request up.
ReceiveLastPart(d) ==
  /\ Reads(d)
  /\ d.kind = "part"
  /\ Stores(d)
  /\ count + 1 >= d.total
  /\ LET all == {p \in parts : p.idx # d.idx} \cup {d}
     IN  /\ whole' = (/\ \A p \in all : p.rid = d.rid
                      /\ {p.idx : p \in all} = 0 .. d.total - 1)
         /\ IF \E p \in all : p.idx = 0 /\ p.valid
            THEN UseAnswer(d.map) /\ Take(d) /\ UNCHANGED <<sock, open, asked>>
            ELSE /\ status' = "idle"
                 /\ sock' = NoSocket
                 /\ NetCloseSocket(sock)
                 /\ Schedule(Due)
                 /\ parts' = all
                 /\ count' = count + 1
                 /\ rid' = d.rid
                 /\ UNCHANGED <<synced, end, faults>>
  /\ UNCHANGED <<settings, changes>>

Receive ==
  \E d \in net :
    \/ ReceiveChallenge(d)
    \/ ReceiveShort(d)
    \/ ReceiveOther(d)
    \/ ReceiveAnswer(d)
    \/ ReceiveUselessPart(d)
    \/ ReceivePart(d)
    \/ ReceiveLastPart(d)

\* No datagram waits, and a request is in flight: only a clock reset is undone.
ReceiveNothing ==
  /\ Remote
  /\ status \in Awaiting
  /\ ~TimedOut
  /\ due > MaxAhead
  /\ due' = Due
  /\ UNCHANGED <<status, sock, synced, end, delay, reassembly, settings, network,
                 whole, faults, changes>>

Think ==
  \/ ThinkDisabled
  \/ SyncNotConnected
  \/ SyncLoopback
  \/ SyncOther
  \/ SendRequest
  \/ Receive
  \/ ReceiveNothing
-----------------------------------------------------------------------------
(* The engine, the user and the server.                                    *)

\* Mutant: the socket is left open, with what is on its way to it.
VidInitKeepsSocket ==
  /\ status' = "none"
  /\ UNCHANGED <<sock, network>>
  /\ due' = -(Timeout + 1)
  /\ synced' = FALSE
  /\ end' = [from |-> "zero", map |-> map']
  /\ delay' = TRUE
  /\ parts' = {}
  /\ count' = 0
  /\ rid' = 0
  /\ level' = map'

\* VidInit: everything starts afresh, and the socket is closed.
VidInit ==
  /\ status' = "none"
  /\ sock' = NoSocket
  /\ IF sock # NoSocket THEN NetCloseSocket(sock) ELSE UNCHANGED network
  /\ due' = -(Timeout + 1)
  /\ synced' = FALSE
  /\ end' = [from |-> "zero", map |-> map']
  /\ delay' = TRUE
  /\ parts' = {}
  /\ count' = 0
  /\ rid' = 0
  /\ level' = map'

Change == changes < MaxChanges /\ changes' = changes + 1

\* The client connects to a server, or starts one: VidInit.
Connect ==
  /\ Change
  /\ conn = "none"
  /\ conn' \in Connections \ {"none"}
  /\ map' = map + 1
  /\ VidInit
  /\ UNCHANGED <<enabled, whole, faults>>

\* The server goes on to the next level; the client's clock may restart before VidInit
\* is called.
ServerChangeLevel ==
  /\ Change
  /\ conn # "none"
  /\ map' = map + 1
  /\ due' \in {due, MaxAhead + 1}
  /\ UNCHANGED <<status, sock, synced, end, delay, reassembly, enabled, conn, level,
                 network, whole, faults>>

\* The client follows it.
NewLevel ==
  /\ conn # "none"
  /\ level # map
  /\ UNCHANGED map
  /\ VidInit
  /\ UNCHANGED <<enabled, conn, whole, faults, changes>>

\* The client's clock restarts after VidInit, when Think has scheduled a sync by the
\* old one.
ClockRestarts ==
  /\ Change
  /\ conn # "none"
  /\ level = map
  /\ due' = MaxAhead + 1
  /\ UNCHANGED <<status, sock, synced, end, delay, reassembly, settings, network,
                 whole, faults>>

Disconnect ==
  /\ Change
  /\ conn # "none"
  /\ conn' = "none"
  /\ UNCHANGED <<sync, reassembly, enabled, level, map, network, whole, faults>>

\* The user turns hud_timer_sync on or off.
SetEnabled ==
  /\ Change
  /\ enabled' = ~enabled
  /\ UNCHANGED <<sync, reassembly, conn, level, map, network, whole, faults>>

\* MsgFunc_Timer: the server's own timer message counts until the first sync.
MsgFunc_Timer ==
  /\ conn # "none"
  /\ ~synced
  /\ end' = [from |-> "message", map |-> level]
  /\ UNCHANGED <<status, sock, due, synced, delay, reassembly, settings, network,
                 whole, faults, changes>>

\* Ids no datagram and no stored part carries.
FreshRids == {i \in Rids : i # rid /\ \A d \in net \cup parts : d.rid # i}

\* The server answers a request: with one datagram, or with all parts of a split
\* answer at once.  A request with the challenge is not challenged again.
ServerReply ==
  /\ \E q \in asked, shape \in Shapes, i \in FreshRids :
       /\ q.code => shape.kind # "challenge"
       /\ asked' = asked \ {q}
       /\ net' = net \cup
            {[sock |-> q.sock, kind |-> shape.kind, map |-> map,
              rid |-> IF shape.kind = "part" THEN i ELSE 0,
              idx |-> n, total |-> shape.total, valid |-> shape.valid] :
               n \in IF shape.kind = "part" THEN 0 .. shape.total - 1 ELSE {0}}
  /\ UNCHANGED <<sync, reassembly, settings, open, whole, faults, changes>>

\* The network loses a request or a datagram.
Lose ==
  /\ faults < MaxFaults
  /\ faults' = faults + 1
  /\ \/ \E q \in asked : asked' = asked \ {q} /\ UNCHANGED net
     \/ \E d \in net : net' = net \ {d} /\ UNCHANGED asked
  /\ UNCHANGED <<sync, reassembly, settings, open, whole, changes>>

Tick ==
  /\ due >= -Timeout
  /\ Prompt => asked = {} /\ net = {}
  /\ due' = due - 1
  /\ UNCHANGED <<status, sock, synced, end, delay, reassembly, settings, network,
                 whole, faults, changes>>

Environment ==
  \/ Connect
  \/ ServerChangeLevel
  \/ NewLevel
  \/ ClockRestarts
  \/ Disconnect
  \/ SetEnabled
  \/ MsgFunc_Timer
  \/ Lose

Next == Think \/ Environment \/ ServerReply \/ Tick

Spec == Init /\ [][Next]_vars

\* The engine calls Think every frame, and time passes.  A datagram that waits in
\* the socket is read by some frame: ReceiveNothing is no step then.  Time need not
\* reach a sync time of the clock before a reset: that may lie further ahead than the
\* level lasts, and only Think brings it back.
FairSpec == Spec /\ WF_vars(Think) /\ WF_vars(Tick /\ due <= MaxAhead)

\* The server, too, answers every request that reaches it.
AnsweredSpec == FairSpec /\ WF_vars(ServerReply)
-----------------------------------------------------------------------------
(* Properties.                                                             *)

\* A timer that counts as synced shows the end of the level the client is on, or
\* of the one the server has already gone on to: no answer to a request made on
\* an earlier level, however late, is taken.
SyncedToThisLevel == synced => end.map >= level

\* The timer holds at most the one socket it knows of, and no request starts on the
\* handle of a closed one, although a failed send closes the socket it was given and
\* leaves the handle (net_windows.cpp:157): by then a time-out has zeroed it.
SocketIsKnown ==
  /\ open \subseteq {sock}
  /\ status \notin Awaiting => open = {sock} \ {NoSocket}

\* A split answer was put together from all the parts of one response, whatever
\* was lost, repeated or mixed up.
AnswerIsWhole == whole

\* The number of parts counted is the number of parts in the buffer, on which
\* AnswerIsWhole rests.
CountIsParts == count = Cardinality(parts)

\* A request never keeps the timer waiting for ever: if it goes on waiting, it asks
\* again and again.
AnswerOrRetry == []<>~(Remote /\ status \in Awaiting) \/ []<><<SendRequest>>_vars

\* On a server that answers in a form the buffer holds, the timer comes in sync
\* and stays so.
ComesInSync == <>[](conn = "ip" /\ enabled) => <>[]synced

\* SyncTimer with the cvar at zero takes the sync back.
OffIsUnsynced == ~enabled ~> ~synced \/ enabled
=============================================================================
