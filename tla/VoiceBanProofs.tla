--------------------------- MODULE VoiceBanProofs ---------------------------
(***************************************************************************)
(* For any slots, players and bounds: VoiceBan is well typed, the server   *)
(* means to ask a client whose restarted clock keeps it silent, the two    *)
(* ends remember the same masks once every message has arrived, and the    *)
(* two never come to a stop with the wrong players being heard.            *)
(***************************************************************************)
EXTENDS VoiceBan, SequenceTheorems, TLAPS

\* A message in flight that carries masks.
Announces(i) == toClient[i].type = "VoiceMask"

\* The masks that are announced last, or that were taken over last when none are on
\* their way, are those the server remembers having sent.  Before it has sent any, it
\* remembers empty ones.
MaskInv ==
  /\ \A i \in 1 .. Len(toClient) :
       Announces(i) /\ (\A j \in i + 1 .. Len(toClient) : ~Announces(j))
         => toClient[i].rules = sentRules /\ toClient[i].ban = sentBan
  /\ told /\ (\A i \in 1 .. Len(toClient) : ~Announces(i))
       => serverBanned = sentBan /\ audible = sentRules
  /\ ~told /\ (\A i \in 1 .. Len(toClient) : ~Announces(i))
       => sentRules = {} /\ sentBan = {}

\* The engine lets the client hear by the masks that were sent last.
HeardInv == listening = sentRules \ sentBan

\* What the client has told the server of its cvar last, as far as it knows, is on its
\* way or has arrived.  The server's question makes the client tell it again.
LastTold == IF toServer = <<>> THEN playerMod ELSE toServer[Len(toServer)]
ModInv == ~wantMod \/ toServer # <<>> => modEnable \in {Unknown, LastTold}

\* A stuck client has nothing on its way to the server that would answer the question
\* the server has yet to ask.
StuckInv == stuck => wantMod /\ toServer = <<>>
-----------------------------------------------------------------------------
\* What the server compares and sends are masks.
LEMMA MasksAreMasks ==
  ASSUME TypeOK
  PROVE  GameRulesMask \in Mask /\ \A banned : BanMask(banned) \in Mask
BY DEF TypeOK, GameRulesMask, BanMask, Taken, Mask

\* UpdateServerState leaves commands in both channels and a known cvar value.
LEMMA UpdateServerStateTypes ==
  ASSUME VoiceAssumption, TypeOK, NEW force, NEW banned, UpdateServerState(force, banned)
  PROVE  /\ modEnable' \in ModValues \cup {Unknown}
         /\ stuck' \in BOOLEAN
         /\ toServer' \in Seq(ModValues)
         /\ vbans' \in Seq(Mask)
<1>0. cvar \in ModValues /\ toServer \in Seq(ModValues) /\ vbans \in Seq(Mask)
  BY DEF TypeOK
<1>1. modEnable' \in ModValues \cup {Unknown} /\ stuck' \in BOOLEAN
  BY <1>0 DEF UpdateServerState
<1>2. toServer' = Append(toServer, cvar) \/ toServer' = toServer
  BY DEF UpdateServerState
<1>3. toServer' \in Seq(ModValues)
  <2>1. Append(toServer, cvar) \in Seq(ModValues)
    BY <1>0
  <2> QED BY <1>0, <1>2, <2>1
<1>4. BanMask(banned) \in Mask
  BY MasksAreMasks
<1>5. vbans' \in Seq(Mask)
  <2>1. CASE UNCHANGED vbans
    BY <1>0, <2>1
  <2>2. CASE SendUnreliable(BanMask(banned))
    <3>1. MaxFlight \in Nat /\ MaxFlight > 0
      BY DEF VoiceAssumption
    <3>2. Len(vbans) = MaxFlight => Tail(vbans) \in Seq(Mask)
      BY <1>0, <3>1
    <3> QED BY <1>0, <1>4, <2>2, <3>2 DEF SendUnreliable
  <2> QED BY <2>1, <2>2 DEF UpdateServerState
<1> QED BY <1>1, <1>3, <1>5

\* What UpdateMasks queues for the client are messages.
LEMMA UpdateMasksTypes ==
  ASSUME TypeOK, UpdateMasks
  PROVE  /\ toClient' \in Seq(Message)
         /\ sentRules' \in Mask /\ sentBan' \in Mask /\ listening' \in Mask
<1>1. GameRulesMask \in Mask /\ banMask \in Mask /\ toClient \in Seq(Message)
  BY MasksAreMasks DEF TypeOK
<1>2. [type |-> "ReqState"] \in Message
  BY DEF Message
<1>3. [type |-> "VoiceMask", rules |-> GameRulesMask, ban |-> banMask] \in Message
  BY <1>1 DEF Message
<1>4. toClient' \in Seq(Message)
  BY <1>1, <1>2, <1>3 DEF UpdateMasks
<1>5. GameRulesMask \ banMask \in Mask
  BY <1>1 DEF Mask
<1> QED BY <1>1, <1>4, <1>5 DEF UpdateMasks

\* TypeOK is inductive.
LEMMA TypeStep == VoiceAssumption /\ TypeOK /\ [Next]_vars => TypeOK'
<1> SUFFICES ASSUME VoiceAssumption, TypeOK, [Next]_vars
             PROVE  TypeOK'
  OBVIOUS
<1> USE DEF TypeOK
<1>1. CASE EnterLevel
  <2>1. player' \in [Slots -> Players \cup {Nobody}]
    BY <1>1 DEF EnterLevel, Seatings
  <2>2. toClient' \in Seq(Message) /\ toServer' \in Seq(ModValues) /\ vbans' \in Seq(Mask)
    BY <1>1 DEF EnterLevel
  <2>3. /\ wantMod' \in BOOLEAN /\ stuck' \in BOOLEAN /\ told' \in BOOLEAN
        /\ banMask' \in Mask /\ playerMod' \in ModValues
    BY <1>1 DEF EnterLevel, ClientConnected
  <2>4. sentRules' \in Mask /\ sentBan' \in Mask /\ listening' \in Mask
    BY <1>1 DEF EnterLevel, ClientConnected, Mask
  <2>5. /\ UNCHANGED <<bans, serverBanned, audible, modEnable, cvar, rules, losses, changes>>
        /\ sessions' = sessions + 1
    BY <1>1 DEF EnterLevel
  <2> QED BY <2>1, <2>2, <2>3, <2>4, <2>5
<1>2. ASSUME NEW s \in Slots, NEW blocked \in BOOLEAN, SetPlayerBlockedState(s, blocked)
      PROVE  TypeOK'
  <2>1. player[s] \in Players
    BY <1>2 DEF SetPlayerBlockedState, Taken
  <2>2. bans' \subseteq Players
    BY <1>2, <2>1 DEF SetPlayerBlockedState
  <2>3. UpdateServerState(FALSE, bans') /\ changes' = changes + 1
    BY <1>2 DEF SetPlayerBlockedState, Change
  <2>4. /\ modEnable' \in ModValues \cup {Unknown} /\ stuck' \in BOOLEAN
        /\ toServer' \in Seq(ModValues) /\ vbans' \in Seq(Mask)
    BY <2>3, UpdateServerStateTypes
  <2> QED BY <1>2, <2>2, <2>3, <2>4 DEF SetPlayerBlockedState, server, world
<1>3. CASE SetModEnable
  BY <1>3 DEF SetModEnable, Change, server, world, channels
<1>4. CASE Reseat
  <2>1. player' \in [Slots -> Players \cup {Nobody}]
    BY <1>4 DEF Reseat, Seatings
  <2> QED BY <1>4, <2>1 DEF Reseat, Change, client, server, channels
<1>5. CASE ChangeRules
  <2>1. rules' \in Mask
    BY <1>5 DEF ChangeRules, Mask
  <2> QED BY <1>5, <2>1 DEF ChangeRules, Change, client, server, channels
<1>6. CASE LoseVban
  <2>1. vbans' \in Seq(Mask)
    BY <1>6 DEF LoseVban
  <2> QED BY <1>6, <2>1 DEF LoseVban, client, server, world
<1>7. CASE Frame
  <2>1. /\ modEnable' \in ModValues \cup {Unknown} /\ stuck' \in BOOLEAN
        /\ toServer' \in Seq(ModValues) /\ vbans' \in Seq(Mask)
    BY <1>7, UpdateServerStateTypes DEF Frame
  <2> QED BY <1>7, <2>1 DEF Frame, server, world, bounds
<1>8. CASE HandleReqStateMsg
  <2>1. /\ modEnable' \in ModValues \cup {Unknown} /\ stuck' \in BOOLEAN
        /\ toServer' \in Seq(ModValues) /\ vbans' \in Seq(Mask)
    BY <1>8, UpdateServerStateTypes DEF HandleReqStateMsg
  <2>2. toClient' \in Seq(Message)
    BY <1>8 DEF HandleReqStateMsg
  <2> QED BY <1>8, <2>1, <2>2 DEF HandleReqStateMsg, server, world, bounds
<1>9. CASE HandleVoiceMaskMsg
  <2>1. toClient' \in Seq(Message) /\ Head(toClient) \in Message
    BY <1>9 DEF HandleVoiceMaskMsg
  <2>2. audible' \in Mask /\ serverBanned' \in Mask
    BY <1>9, <2>1 DEF HandleVoiceMaskMsg, Message
  <2> QED BY <1>9, <2>1, <2>2 DEF HandleVoiceMaskMsg, server, world, bounds
<1>10. CASE UpdateMasks
  BY <1>10, UpdateMasksTypes DEF UpdateMasks, client, world, bounds
<1>11. CASE VModEnable
  <2>1. toServer' \in Seq(ModValues) /\ playerMod' \in ModValues
    BY <1>11 DEF VModEnable
  <2> QED BY <1>11, <2>1 DEF VModEnable, client, world, bounds
<1>12. CASE Vban
  <2>1. vbans' \in Seq(Mask) /\ banMask' \in Mask
    BY <1>12 DEF Vban
  <2> QED BY <1>12, <2>1 DEF Vban, client, world, bounds
<1>13. CASE UNCHANGED vars
  BY <1>13 DEF vars
<1> QED
  BY <1>1, <1>2, <1>3, <1>4, <1>5, <1>6, <1>7, <1>8, <1>9, <1>10, <1>11, <1>12, <1>13
  DEF Next, Environment, Receive

\* TypeOK is an invariant of the client, the server and their channels.
THEOREM TypeCorrect == Spec => []TypeOK
<1>1. Init => TypeOK
  <2> SUFFICES ASSUME Init PROVE TypeOK
    OBVIOUS
  <2>1. player \in [Slots -> Players \cup {Nobody}] /\ rules \in Mask /\ banMask \in Mask
    BY DEF Init, Seatings, Mask
  <2>2. serverBanned \in Mask /\ audible \in Mask /\ sentRules \in Mask /\ sentBan \in Mask
        /\ listening \in Mask
    BY DEF Init, Mask
  <2>3. toClient \in Seq(Message) /\ toServer \in Seq(ModValues) /\ vbans \in Seq(Mask)
    BY DEF Init
  <2>4. losses \in Nat /\ changes \in Nat /\ sessions \in Nat
    BY DEF Init
  <2> QED BY <2>1, <2>2, <2>3, <2>4 DEF Init, TypeOK
<1>2. TypeOK /\ [Next]_vars => TypeOK'
  BY VoiceAssumption, TypeStep
<1> QED BY <1>1, <1>2, PTL DEF Spec
-----------------------------------------------------------------------------
\* A client whose clock keeps it from updating the server is one the server still
\* means to ask: every step that could answer the question unsticks the client first.
THEOREM StuckClientIsAsked == Spec => []StuckIsAsked
<1>1. Init => StuckInv
  BY DEF Init, StuckInv
<1>2. TypeOK /\ StuckInv /\ [Next]_vars => StuckInv'
  <2> SUFFICES ASSUME TypeOK, StuckInv, [Next]_vars
               PROVE  StuckInv'
    OBVIOUS
  <2>1. CASE EnterLevel
    BY <2>1 DEF EnterLevel, ClientConnected, StuckInv
  <2>2. ASSUME NEW s \in Slots, NEW blocked \in BOOLEAN, SetPlayerBlockedState(s, blocked)
        PROVE  StuckInv'
    BY <2>2 DEF SetPlayerBlockedState, UpdateServerState, StuckInv
  <2>3. CASE Frame \/ HandleReqStateMsg
    BY <2>3 DEF Frame, HandleReqStateMsg, UpdateServerState, StuckInv
  <2>4. CASE VModEnable
    BY <2>4 DEF VModEnable, client, StuckInv
  <2>5. CASE SetModEnable \/ Reseat \/ ChangeRules \/ LoseVban
    BY <2>5 DEF SetModEnable, Reseat, ChangeRules, LoseVban, client, server, channels,
                StuckInv
  <2>6. CASE HandleVoiceMaskMsg \/ UpdateMasks \/ Vban \/ UNCHANGED vars
    BY <2>6 DEF HandleVoiceMaskMsg, UpdateMasks, Vban, client, server, vars, StuckInv
  <2> QED BY <2>1, <2>2, <2>3, <2>4, <2>5, <2>6 DEF Next, Environment, Receive
<1>3. StuckInv => StuckIsAsked
  BY DEF StuckInv, StuckIsAsked
<1> QED BY <1>1, <1>2, <1>3, TypeCorrect, PTL DEF Spec
-----------------------------------------------------------------------------
\* What a received message leaves: the rest of the queue, one place further on.
LEMMA TailOfQueue ==
  ASSUME TypeOK, toClient # <<>>, toClient' = Tail(toClient)
  PROVE  /\ Len(toClient) \in Nat \ {0}
         /\ Len(toClient') = Len(toClient) - 1
         /\ \A i \in 1 .. Len(toClient') : toClient'[i] = toClient[i + 1]
         /\ Head(toClient) = toClient[1]
<1>1. toClient \in Seq(Message)
  BY DEF TypeOK
<1> QED BY <1>1

\* A question taken off the queue leaves the announced masks as they are.
LEMMA QuestionKeepsMasks ==
  ASSUME TypeOK, MaskInv, HandleReqStateMsg
  PROVE  MaskInv'
<1>1. /\ toClient # <<>> /\ toClient' = Tail(toClient)
      /\ Head(toClient).type = "ReqState"
      /\ UNCHANGED <<serverBanned, audible, sentRules, sentBan, told>>
  BY DEF HandleReqStateMsg, server
<1>2. /\ Len(toClient) \in Nat \ {0} /\ Len(toClient') = Len(toClient) - 1
      /\ \A i \in 1 .. Len(toClient') : toClient'[i] = toClient[i + 1]
      /\ Head(toClient) = toClient[1]
  BY <1>1, TailOfQueue
<1>3. ~Announces(1)
  BY <1>1, <1>2 DEF Announces
<1>4. ASSUME NEW i \in 1 .. Len(toClient'), Announces(i)',
             \A j \in i + 1 .. Len(toClient') : ~Announces(j)'
      PROVE  toClient'[i].rules = sentRules' /\ toClient'[i].ban = sentBan'
  <2>1. i + 1 \in 1 .. Len(toClient) /\ Announces(i + 1)
    BY <1>2, <1>4 DEF Announces
  <2>2. ASSUME NEW j \in i + 2 .. Len(toClient)
        PROVE  ~Announces(j)
    <3>1. j - 1 \in i + 1 .. Len(toClient') /\ toClient'[j - 1] = toClient[j]
      BY <1>2, <2>1
    <3> QED BY <1>4, <3>1 DEF Announces
  <2>3. toClient[i + 1].rules = sentRules /\ toClient[i + 1].ban = sentBan
    BY <2>1, <2>2 DEF MaskInv
  <2> QED BY <1>1, <1>2, <2>3
<1>5. ASSUME told', \A i \in 1 .. Len(toClient') : ~Announces(i)'
      PROVE  serverBanned' = sentBan' /\ audible' = sentRules'
  <2>1. ASSUME NEW i \in 1 .. Len(toClient)
        PROVE  ~Announces(i)
    <3>1. CASE i = 1
      BY <1>3, <3>1
    <3>2. CASE i # 1
      <4>1. i - 1 \in 1 .. Len(toClient') /\ toClient'[i - 1] = toClient[i]
        BY <1>2, <3>2
      <4> QED BY <1>5, <4>1 DEF Announces
    <3> QED BY <3>1, <3>2
  <2> QED BY <1>1, <1>5, <2>1 DEF MaskInv
<1>6. ASSUME ~told', \A i \in 1 .. Len(toClient') : ~Announces(i)'
      PROVE  sentRules' = {} /\ sentBan' = {}
  <2>1. ASSUME NEW i \in 1 .. Len(toClient)
        PROVE  ~Announces(i)
    <3>1. CASE i = 1
      BY <1>3, <3>1
    <3>2. CASE i # 1
      <4>1. i - 1 \in 1 .. Len(toClient') /\ toClient'[i - 1] = toClient[i]
        BY <1>2, <3>2
      <4> QED BY <1>6, <4>1 DEF Announces
    <3> QED BY <3>1, <3>2
  <2> QED BY <1>1, <1>6, <2>1 DEF MaskInv
<1> QED BY <1>4, <1>5, <1>6 DEF MaskInv

\* Taking over announced masks brings the client in step unless later ones follow.
LEMMA TakeoverKeepsMasks ==
  ASSUME TypeOK, MaskInv, HandleVoiceMaskMsg
  PROVE  MaskInv'
<1>1. /\ toClient # <<>> /\ toClient' = Tail(toClient)
      /\ Head(toClient).type = "VoiceMask"
      /\ audible' = Head(toClient).rules /\ serverBanned' = Head(toClient).ban
      /\ UNCHANGED <<sentRules, sentBan>> /\ told' = TRUE
  BY DEF HandleVoiceMaskMsg, server
<1>2. /\ Len(toClient) \in Nat \ {0} /\ Len(toClient') = Len(toClient) - 1
      /\ \A i \in 1 .. Len(toClient') : toClient'[i] = toClient[i + 1]
      /\ Head(toClient) = toClient[1]
  BY <1>1, TailOfQueue
<1>3. Announces(1)
  BY <1>1, <1>2 DEF Announces
<1>4. ASSUME NEW i \in 1 .. Len(toClient'), Announces(i)',
             \A j \in i + 1 .. Len(toClient') : ~Announces(j)'
      PROVE  toClient'[i].rules = sentRules' /\ toClient'[i].ban = sentBan'
  <2>1. i + 1 \in 1 .. Len(toClient) /\ Announces(i + 1)
    BY <1>2, <1>4 DEF Announces
  <2>2. ASSUME NEW j \in i + 2 .. Len(toClient)
        PROVE  ~Announces(j)
    <3>1. j - 1 \in i + 1 .. Len(toClient') /\ toClient'[j - 1] = toClient[j]
      BY <1>2, <2>1
    <3> QED BY <1>4, <3>1 DEF Announces
  <2>3. toClient[i + 1].rules = sentRules /\ toClient[i + 1].ban = sentBan
    BY <2>1, <2>2 DEF MaskInv
  <2> QED BY <1>1, <1>2, <2>3
<1>5. ASSUME \A i \in 1 .. Len(toClient') : ~Announces(i)'
      PROVE  serverBanned' = sentBan' /\ audible' = sentRules'
  <2>1. ASSUME NEW j \in 2 .. Len(toClient)
        PROVE  ~Announces(j)
    <3>1. j - 1 \in 1 .. Len(toClient') /\ toClient'[j - 1] = toClient[j]
      BY <1>2
    <3> QED BY <1>5, <3>1 DEF Announces
  <2>2. 1 \in 1 .. Len(toClient)
    BY <1>2
  <2>3. toClient[1].rules = sentRules /\ toClient[1].ban = sentBan
    BY <1>3, <2>1, <2>2 DEF MaskInv
  <2> QED BY <1>1, <1>2, <2>3
<1> QED BY <1>1, <1>4, <1>5 DEF MaskInv

\* The server remembers what it announces last, and what it does not announce is
\* what it remembers.
LEMMA UpdateKeepsMasks ==
  ASSUME TypeOK, MaskInv, UpdateMasks
  PROVE  MaskInv'
<1> DEFINE ask == [type |-> "ReqState"]
           masks == [type |-> "VoiceMask", rules |-> GameRulesMask, ban |-> banMask]
<1>1. /\ sentRules' = GameRulesMask /\ sentBan' = banMask
      /\ UNCHANGED <<serverBanned, audible, told>>
      /\ toClient' = toClient \o (IF wantMod THEN <<ask>> ELSE <<>>)
                              \o (IF Differs THEN <<masks>> ELSE <<>>)
  BY DEF UpdateMasks, client
<1>2. toClient \in Seq(Message)
  BY DEF TypeOK
<1>3. /\ GameRulesMask \in Mask /\ banMask \in Mask
      /\ masks \in Message /\ ask \in Message
  <2>1. GameRulesMask \in Mask /\ banMask \in Mask
    BY MasksAreMasks DEF TypeOK
  <2> QED BY <2>1 DEF Message
<1>4. masks.type = "VoiceMask" /\ masks.rules = GameRulesMask /\ masks.ban = banMask
  OBVIOUS
<1>5. ask.type # "VoiceMask"
  OBVIOUS
<1> HIDE DEF ask, masks
<1>6. CASE Differs
  <2>1. PICK before \in Seq(Message) : toClient' = Append(before, masks)
    <3>1. CASE wantMod
      <4>1. toClient' = Append(toClient \o <<ask>>, masks)
        BY <1>1, <1>2, <1>3, <1>6, <3>1
      <4>2. toClient \o <<ask>> \in Seq(Message)
        BY <1>2, <1>3
      <4> QED BY <4>1, <4>2
    <3>2. CASE ~wantMod
      BY <1>1, <1>2, <1>3, <1>6, <3>2
    <3> QED BY <3>1, <3>2
  <2>2. /\ Len(toClient') = Len(before) + 1 /\ Len(before) \in Nat
        /\ toClient'[Len(before) + 1] = masks
    BY <1>3, <2>1
  <2>3. Announces(Len(before) + 1)' /\ Len(before) + 1 \in 1 .. Len(toClient')
    BY <1>4, <2>2 DEF Announces
  <2>4. ASSUME NEW i \in 1 .. Len(toClient'),
               \A j \in i + 1 .. Len(toClient') : ~Announces(j)'
        PROVE  toClient'[i].rules = sentRules' /\ toClient'[i].ban = sentBan'
    <3>1. i = Len(before) + 1
      BY <2>2, <2>3, <2>4
    <3> QED BY <1>1, <1>4, <2>2, <3>1
  <2> QED BY <2>3, <2>4 DEF MaskInv
<1>7. CASE ~Differs
  <2>1. UNCHANGED <<sentRules, sentBan>>
    BY <1>1, <1>7 DEF Differs
  <2>2. CASE ~wantMod
    <3>1. toClient' = toClient
      BY <1>1, <1>2, <1>7, <2>2
    <3> QED BY <1>1, <2>1, <3>1 DEF MaskInv, Announces
  <2>3. CASE wantMod
    <3>1. toClient' = Append(toClient, ask)
      BY <1>1, <1>2, <1>3, <1>7, <2>3
    <3>2. /\ Len(toClient') = Len(toClient) + 1 /\ Len(toClient) \in Nat
          /\ \A i \in 1 .. Len(toClient) : toClient'[i] = toClient[i]
          /\ toClient'[Len(toClient) + 1] = ask
      BY <1>2, <1>3, <3>1
    <3>3. \A i \in 1 .. Len(toClient') :
            Announces(i)' <=> i \in 1 .. Len(toClient) /\ Announces(i)
      BY <1>5, <3>2 DEF Announces
    <3>4. ASSUME NEW i \in 1 .. Len(toClient'), Announces(i)',
                 \A j \in i + 1 .. Len(toClient') : ~Announces(j)'
          PROVE  toClient'[i].rules = sentRules' /\ toClient'[i].ban = sentBan'
      <4>1. i \in 1 .. Len(toClient) /\ Announces(i)
        BY <3>3, <3>4
      <4>2. \A j \in i + 1 .. Len(toClient) : ~Announces(j)
        BY <3>2, <3>3, <3>4
      <4> QED BY <2>1, <3>2, <4>1, <4>2 DEF MaskInv
    <3>5. ASSUME told', \A i \in 1 .. Len(toClient') : ~Announces(i)'
          PROVE  serverBanned' = sentBan' /\ audible' = sentRules'
      <4>1. \A i \in 1 .. Len(toClient) : ~Announces(i)
        BY <3>2, <3>3, <3>5
      <4> QED BY <1>1, <2>1, <3>5, <4>1 DEF MaskInv
    <3>6. ASSUME ~told', \A i \in 1 .. Len(toClient') : ~Announces(i)'
          PROVE  sentRules' = {} /\ sentBan' = {}
      <4>1. \A i \in 1 .. Len(toClient) : ~Announces(i)
        BY <3>2, <3>3, <3>6
      <4> QED BY <1>1, <2>1, <3>6, <4>1 DEF MaskInv
    <3> QED BY <3>4, <3>5, <3>6 DEF MaskInv
  <2> QED BY <2>2, <2>3
<1> QED BY <1>6, <1>7

\* MaskInv is inductive.
LEMMA MasksStep == TypeOK /\ MaskInv /\ [Next]_vars => MaskInv'
<1> SUFFICES ASSUME TypeOK, MaskInv, [Next]_vars
             PROVE  MaskInv'
  OBVIOUS
<1>1. CASE EnterLevel
  <2>1. toClient' = <<>> /\ told' = FALSE /\ sentRules' = {} /\ sentBan' = {}
    BY <1>1 DEF EnterLevel, ClientConnected
  <2> QED BY <2>1 DEF MaskInv
<1>2. CASE HandleReqStateMsg
  BY <1>2, QuestionKeepsMasks
<1>3. CASE HandleVoiceMaskMsg
  BY <1>3, TakeoverKeepsMasks
<1>4. CASE UpdateMasks
  BY <1>4, UpdateKeepsMasks
<1>5. ASSUME NEW s \in Slots, NEW blocked \in BOOLEAN, SetPlayerBlockedState(s, blocked)
      PROVE  UNCHANGED <<toClient, told, serverBanned, audible, sentRules, sentBan>>
  BY <1>5 DEF SetPlayerBlockedState, server
<1>6. ASSUME SetModEnable \/ Reseat \/ ChangeRules \/ LoseVban \/ Frame
      PROVE  UNCHANGED <<toClient, told, serverBanned, audible, sentRules, sentBan>>
  BY <1>6 DEF SetModEnable, Reseat, ChangeRules, LoseVban, Frame, client, server, channels
<1>7. ASSUME VModEnable \/ Vban \/ UNCHANGED vars
      PROVE  UNCHANGED <<toClient, told, serverBanned, audible, sentRules, sentBan>>
  BY <1>7 DEF VModEnable, Vban, client, vars
<1>8. ASSUME UNCHANGED <<toClient, told, serverBanned, audible, sentRules, sentBan>>
      PROVE  MaskInv'
  BY <1>8 DEF MaskInv, Announces
<1> QED BY <1>1, <1>2, <1>3, <1>4, <1>5, <1>6, <1>7, <1>8 DEF Next, Environment, Receive

\* The two ends remember the same masks once every message of a session has arrived.
THEOREM MasksComeInStep == Spec => []MasksInStep
<1>1. Init => MaskInv
  BY DEF Init, MaskInv
<1>2. TypeOK /\ MaskInv => MasksInStep
  BY DEF MaskInv, MasksInStep
<1> QED BY <1>1, <1>2, TypeCorrect, MasksStep, PTL DEF Spec
-----------------------------------------------------------------------------
(* Both ends at rest.                                                       *)

LEMMA HeardStep == HeardInv /\ [Next]_vars => HeardInv'
<1> SUFFICES ASSUME HeardInv, [Next]_vars PROVE HeardInv'
  OBVIOUS
<1>1. CASE EnterLevel
  BY <1>1 DEF EnterLevel, ClientConnected, HeardInv
<1>2. CASE UpdateMasks
  BY <1>2 DEF UpdateMasks, HeardInv
<1>3. ASSUME NEW s \in Slots, NEW blocked \in BOOLEAN, SetPlayerBlockedState(s, blocked)
      PROVE  HeardInv'
  BY <1>3 DEF SetPlayerBlockedState, server, HeardInv
<1>4. CASE SetModEnable \/ Reseat \/ ChangeRules \/ LoseVban
  BY <1>4 DEF SetModEnable, Reseat, ChangeRules, LoseVban, server, HeardInv
<1>5. CASE Frame \/ HandleReqStateMsg \/ HandleVoiceMaskMsg
  BY <1>5 DEF Frame, HandleReqStateMsg, HandleVoiceMaskMsg, server, HeardInv
<1>6. CASE VModEnable \/ Vban \/ UNCHANGED vars
  BY <1>6 DEF VModEnable, Vban, vars, HeardInv
<1> QED BY <1>1, <1>2, <1>3, <1>4, <1>5, <1>6 DEF Next, Environment, Receive

\* UpdateServerState tells the server of the cvar whenever the client cannot know that
\* it has been told.
LEMMA UpdateKeepsMod ==
  ASSUME TypeOK, ModInv, NEW force \in BOOLEAN, NEW banned, UpdateServerState(force, banned),
         UNCHANGED <<cvar, playerMod, wantMod>>
  PROVE  ModInv'
<1>0. toServer \in Seq(ModValues) /\ cvar \in ModValues /\ Unknown \notin ModValues
  BY DEF TypeOK, ModValues, Unknown
<1>1. modEnable' = cvar
  BY DEF UpdateServerState
<1>2. CASE force \/ modEnable # cvar
  <2>1. toServer' = Append(toServer, cvar)
    BY <1>2 DEF UpdateServerState
  <2>2. toServer' # <<>> /\ toServer'[Len(toServer')] = cvar
    BY <1>0, <2>1
  <2> QED BY <1>1, <2>2 DEF ModInv, LastTold
<1>3. CASE ~force /\ modEnable = cvar
  <2>1. toServer' = toServer /\ modEnable' = modEnable
    BY <1>1, <1>3 DEF UpdateServerState
  <2> QED BY <2>1 DEF ModInv, LastTold
<1> QED BY <1>2, <1>3

LEMMA ModStep == TypeOK /\ ModInv /\ [Next]_vars => ModInv'
<1> SUFFICES ASSUME TypeOK, ModInv, [Next]_vars PROVE ModInv'
  OBVIOUS
<1>0. ASSUME UNCHANGED <<toServer, playerMod, wantMod, modEnable>>
      PROVE  ModInv'
  BY <1>0 DEF ModInv, LastTold
<1>1. CASE EnterLevel
  BY <1>1 DEF EnterLevel, ClientConnected, ModInv
<1>2. ASSUME NEW s \in Slots, NEW blocked \in BOOLEAN, SetPlayerBlockedState(s, blocked)
      PROVE  ModInv'
  <2>1. UpdateServerState(FALSE, bans') /\ UNCHANGED <<cvar, playerMod, wantMod>>
    BY <1>2 DEF SetPlayerBlockedState, server
  <2> QED BY <2>1, UpdateKeepsMod
<1>3. CASE Frame \/ HandleReqStateMsg
  <2>1. PICK force \in BOOLEAN : UpdateServerState(force, bans)
    BY <1>3 DEF Frame, HandleReqStateMsg
  <2>2. UNCHANGED <<cvar, playerMod, wantMod>>
    BY <1>3 DEF Frame, HandleReqStateMsg, server
  <2> QED BY <2>1, <2>2, UpdateKeepsMod
<1>4. CASE HandleVoiceMaskMsg
  BY <1>4 DEF HandleVoiceMaskMsg, ModInv
<1>5. CASE VModEnable
  <2>1. /\ toServer # <<>> /\ toServer \in Seq(ModValues)
        /\ playerMod' = Head(toServer) /\ toServer' = Tail(toServer) /\ modEnable' = modEnable
    BY <1>5 DEF VModEnable, client, TypeOK
  <2>2. LastTold' = LastTold
    <3>1. CASE toServer' = <<>>
      <4>1. Len(toServer) = 1 /\ Head(toServer) = toServer[1]
        <5>1. Len(Tail(toServer)) = Len(toServer) - 1 /\ Len(toServer) \in Nat
          BY <2>1
        <5>2. Len(Tail(toServer)) = 0
          <6>1. Tail(toServer) = <<>> /\ Tail(toServer) \in Seq(ModValues)
            BY <2>1, <3>1
          <6> QED BY <6>1, EmptySeq
        <5> QED BY <2>1, <5>1, <5>2
      <4> QED BY <2>1, <3>1, <4>1 DEF LastTold
    <3>2. CASE toServer' # <<>>
      <4>1. toServer'[Len(toServer')] = toServer[Len(toServer)]
        BY <2>1, <3>2
      <4> QED BY <2>1, <3>2, <4>1 DEF LastTold
    <3> QED BY <3>1, <3>2
  <2> QED BY <2>1, <2>2 DEF ModInv
<1>6. CASE SetModEnable \/ Reseat \/ ChangeRules \/ LoseVban
  BY <1>0, <1>6 DEF SetModEnable, Reseat, ChangeRules, LoseVban, client, server, channels
<1>7. CASE UpdateMasks \/ Vban \/ UNCHANGED vars
  BY <1>0, <1>7 DEF UpdateMasks, Vban, client, vars
<1> QED BY <1>1, <1>2, <1>3, <1>4, <1>5, <1>6, <1>7 DEF Next, Environment, Receive

\* At rest the server knows what the client wants and what it has banned, or has never
\* had anybody to let it hear.  A client that cannot look would be one to be asked.
LEMMA SettledAgrees ==
  TypeOK /\ MaskInv /\ HeardInv /\ ModInv /\ StuckIsAsked => SettledIsRight
<1> SUFFICES ASSUME TypeOK, MaskInv, HeardInv, ModInv, StuckIsAsked, Settled
             PROVE  listening \cap Taken
                      = IF cvar = "on" THEN (rules \cap Taken) \ BanMask(bans) ELSE {}
  BY DEF SettledIsRight, Heard, Wanted
<1>0. modEnable = cvar /\ BanMask(bans) = ServerMask
  BY DEF Settled, StuckIsAsked
<1>1. playerMod = cvar
  <2>1. modEnable \in {Unknown, playerMod} /\ modEnable = cvar
    BY <1>0 DEF Settled, ModInv, LastTold
  <2>2. cvar \in ModValues /\ Unknown \notin ModValues
    BY DEF TypeOK, ModValues, Unknown
  <2> QED BY <2>1, <2>2
<1>2. listening = GameRulesMask \ banMask /\ sentRules = GameRulesMask /\ sentBan = banMask
  BY DEF Settled, Differs, HeardInv
<1>3. \A i \in 1 .. Len(toClient) : ~Announces(i)
  BY DEF Settled
<1>4. CASE told
  <2>1. serverBanned = banMask
    BY <1>2, <1>3, <1>4 DEF MaskInv
  <2>2. BanMask(bans) = banMask \cap Taken
    BY <1>0, <2>1 DEF ServerMask
  <2> QED BY <1>1, <1>2, <2>2 DEF GameRulesMask
<1>5. CASE ~told
  <2>1. GameRulesMask = {}
    BY <1>2, <1>3, <1>5 DEF MaskInv
  <2> QED BY <1>1, <1>2, <2>1 DEF GameRulesMask
<1> QED BY <1>4, <1>5

\* The two ends never stop while the wrong players are heard: whatever was lost, whoever
\* has come or gone and whatever the client's clock does, something is on its way or
\* will be sent.
THEOREM ContentIsRight == Spec => []SettledIsRight
<1>1. Init => MaskInv /\ HeardInv /\ ModInv
  BY DEF Init, MaskInv, HeardInv, ModInv
<1> QED BY <1>1, TypeCorrect, StuckClientIsAsked, MasksStep, HeardStep, ModStep, SettledAgrees,
           PTL DEF Spec
=============================================================================
