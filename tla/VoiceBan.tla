------------------------------ MODULE VoiceBan ------------------------------
(***************************************************************************)
(* Muting players: the client's CVoiceStatus (cl_dll/voice_status.cpp) and *)
(* the server's CVoiceGameMgr (game_shared/voice_gamemgr.cpp).             *)
(*                                                                         *)
(* The client bans players by their ID; the server wants a mask of player  *)
(* slots.  The client sends the mask over the unreliable channel whenever  *)
(* it differs from the one the server last echoed, and the server echoes   *)
(* every change.  Players come and go in the slots meanwhile, the client   *)
(* goes from server to server, and vban commands are lost.                 *)
(*                                                                         *)
(* The module follows one client: the server's variables are the entries   *)
(* of its arrays at that client's slot.                                    *)
(***************************************************************************)
EXTENDS Naturals, Sequences, FiniteSets

CONSTANTS
  Slots,        \* the slots of the other players
  Players,      \* unique player IDs
  Nobody,       \* stands for the ID of an empty slot
  MaxFlight,    \* bound: unreliable commands on their way
  MaxQueue,     \* bound: reliable messages on their way, each direction
  MaxLosses,    \* bound: vban commands lost
  MaxChanges,   \* bound: joins, leaves, bans, cvar and rule changes
  MaxSessions   \* bound: levels and servers visited

ASSUME VoiceAssumption ==
  /\ Nobody \notin Players
  /\ {MaxFlight, MaxQueue, MaxLosses, MaxChanges, MaxSessions} \subseteq Nat
  /\ MaxFlight > 0

VARIABLES
  bans,         \* m_BanMgr: the banned IDs
  serverBanned, \* m_ServerBannedPlayers: what the client thinks the server's mask is
  audible,      \* m_AudiblePlayers
  modEnable,    \* m_bServerModEnable; "unknown" stands for -1
  cvar,         \* voice_modenable
  stuck,        \* the client's clock is behind m_LastUpdateServerState + 1
  player,       \* who is in each slot
  rules,        \* the slots the game rules let the client hear
  banMask,      \* g_BanMasks
  playerMod,    \* g_PlayerModEnable
  wantMod,      \* g_bWantModEnable
  sentRules,    \* g_SentGameRulesMasks
  sentBan,      \* g_SentBanMasks
  listening,    \* the engine's pfnVoice_SetClientListening table
  toClient,     \* reliable messages from the server: ReqState and VoiceMask
  toServer,     \* reliable commands from the client: VModEnable
  vbans,        \* unreliable commands from the client: vban
  told,         \* history: this session's server has sent a VoiceMask that arrived
  losses, changes, sessions  \* bounds

client == <<bans, serverBanned, audible, modEnable, cvar, stuck>>
server == <<banMask, playerMod, wantMod, sentRules, sentBan, listening>>
world == <<player, rules>>
channels == <<toClient, toServer, vbans>>
bounds == <<losses, changes, sessions>>
vars == <<bans, serverBanned, audible, modEnable, cvar, stuck, player, rules, banMask,
          playerMod, wantMod, sentRules, sentBan, listening, toClient, toServer, vbans,
          told, losses, changes, sessions>>

Unknown == "unknown"
ModValues == {"on", "off"}
Mask == SUBSET Slots
Message == [type : {"ReqState"}] \cup [type : {"VoiceMask"}, rules : Mask, ban : Mask]

\* Type invariant of both ends and of the channels between them.
TypeOK ==
  /\ bans \subseteq Players
  /\ serverBanned \in Mask
  /\ audible \in Mask
  /\ modEnable \in ModValues \cup {Unknown}
  /\ cvar \in ModValues
  /\ stuck \in BOOLEAN
  /\ player \in [Slots -> Players \cup {Nobody}]
  /\ rules \in Mask
  /\ banMask \in Mask
  /\ playerMod \in ModValues
  /\ wantMod \in BOOLEAN
  /\ sentRules \in Mask
  /\ sentBan \in Mask
  /\ listening \in Mask
  /\ toClient \in Seq(Message)
  /\ toServer \in Seq(ModValues)
  /\ vbans \in Seq(Mask)
  /\ told \in BOOLEAN
  /\ losses \in Nat
  /\ changes \in Nat
  /\ sessions \in Nat

Taken == {s \in Slots : player[s] # Nobody}

\* A player is in one slot at most.
Seatings == {f \in [Slots -> Players \cup {Nobody}] :
               \A s, t \in Slots : s # t /\ f[s] # Nobody => f[s] # f[t]}
-----------------------------------------------------------------------------
(* A session: the client enters a level.                                   *)

\* Mutant: a new client is not asked for its state.
ClientConnectedUnasked ==
  /\ wantMod' = FALSE
  /\ sentRules' = {}
  /\ sentBan' = {}
  /\ banMask' \in Mask
  /\ playerMod' \in ModValues
  /\ listening' = {}

\* Mutant: what was sent to the slot's last occupant counts as sent.
ClientConnectedSent ==
  /\ wantMod' = TRUE
  /\ sentRules' \in Mask
  /\ sentBan' \in Mask
  /\ banMask' \in Mask
  /\ playerMod' \in ModValues
  /\ listening' = {}

\* ClientConnected, on a slot whose last occupant's ban mask and mod state stay.
ClientConnected ==
  /\ wantMod' = TRUE
  /\ sentRules' = {}
  /\ sentBan' = {}
  /\ banMask' \in Mask
  /\ playerMod' \in ModValues
  /\ listening' = {}

Init ==
  /\ bans = {}
  /\ serverBanned = {}
  /\ audible = {}
  /\ modEnable = Unknown
  /\ cvar \in ModValues
  /\ stuck = FALSE
  /\ player \in Seatings
  /\ rules \in {{}, Slots}
  /\ wantMod = TRUE
  /\ sentRules = {}
  /\ sentBan = {}
  /\ banMask \in {{}, Slots}
  /\ playerMod \in ModValues
  /\ listening = {}
  /\ toClient = <<>>
  /\ toServer = <<>>
  /\ vbans = <<>>
  /\ told = FALSE
  /\ losses = 0
  /\ changes = 0
  /\ sessions = 1

\* The client enters another level, of this server or of another: its own state
\* stays, m_ServerBannedPlayers included, and its clock may have restarted.
EnterLevel ==
  /\ sessions < MaxSessions
  /\ sessions' = sessions + 1
  /\ ClientConnected
  /\ stuck' \in BOOLEAN
  /\ player' \in Seatings
  /\ toClient' = <<>>
  /\ toServer' = <<>>
  /\ vbans' = <<>>
  /\ told' = FALSE
  /\ UNCHANGED <<bans, serverBanned, audible, modEnable, cvar, rules, losses, changes>>
-----------------------------------------------------------------------------
(* The client.                                                             *)

\* The masks UpdateServerState compares: slots without an ID are left out of both.
BanMask(banned) == {s \in Taken : player[s] \in banned}
ServerMask == serverBanned \cap Taken

\* pfnServerCmdUnreliable: the oldest command is lost when too many are on the way.
SendUnreliable(mask) ==
  vbans' = Append(IF Len(vbans) = MaxFlight THEN Tail(vbans) ELSE vbans, mask)

\* UpdateServerState(bForce) with the bans as they are once it is called.
UpdateServerState(force, banned) ==
  /\ Len(toServer) < MaxQueue
  /\ modEnable' = cvar
  /\ IF force \/ modEnable # cvar
     THEN toServer' = Append(toServer, cvar)
     ELSE UNCHANGED toServer
  /\ IF force \/ BanMask(banned) # ServerMask
     THEN SendUnreliable(BanMask(banned))
     ELSE UNCHANGED vbans
  /\ stuck' = FALSE

\* Frame, more than a second after the last update by the client's clock.
Frame ==
  /\ ~stuck
  /\ UpdateServerState(FALSE, bans)
  /\ UNCHANGED <<bans, serverBanned, audible, cvar, server, world, toClient, told, bounds>>

Change == changes < MaxChanges /\ changes' = changes + 1

\* Mutant: a slot without an ID is blocked as well.
SetEmptyBlockedState(s, blocked) ==
  /\ Change
  /\ bans' = IF blocked THEN bans \cup {player[s]} ELSE bans \ {player[s]}
  /\ UpdateServerState(FALSE, bans')
  /\ UNCHANGED <<serverBanned, audible, cvar, server, world, toClient, told, losses, sessions>>

\* SetPlayerBlockedState, from the scoreboard or the game UI.
SetPlayerBlockedState(s, blocked) ==
  /\ Change
  /\ s \in Taken
  /\ bans' = IF blocked THEN bans \cup {player[s]} ELSE bans \ {player[s]}
  /\ UpdateServerState(FALSE, bans')
  /\ UNCHANGED <<serverBanned, audible, cvar, server, world, toClient, told, losses, sessions>>

SetModEnable ==
  /\ Change
  /\ cvar' \in ModValues \ {cvar}
  /\ UNCHANGED <<bans, serverBanned, audible, modEnable, stuck, server, world, channels,
                 told, losses, sessions>>

\* HandleReqStateMsg: UpdateServerState(true).
HandleReqStateMsg ==
  /\ toClient # <<>>
  /\ Head(toClient).type = "ReqState"
  /\ toClient' = Tail(toClient)
  /\ UpdateServerState(TRUE, bans)
  /\ UNCHANGED <<bans, serverBanned, audible, cvar, server, world, told, bounds>>

\* Mutant: the ban mask in the message is skipped.
HandleVoiceMaskRules ==
  /\ toClient # <<>>
  /\ Head(toClient).type = "VoiceMask"
  /\ toClient' = Tail(toClient)
  /\ audible' = Head(toClient).rules
  /\ modEnable' = Unknown
  /\ told' = TRUE
  /\ UNCHANGED <<bans, serverBanned, cvar, stuck, server, world, toServer, vbans, bounds>>

\* HandleVoiceMaskMsg: the byte it reads last is past the end of the message, so
\* READ_BYTE returns -1.
HandleVoiceMaskMsg ==
  /\ toClient # <<>>
  /\ Head(toClient).type = "VoiceMask"
  /\ toClient' = Tail(toClient)
  /\ audible' = Head(toClient).rules
  /\ serverBanned' = Head(toClient).ban
  /\ modEnable' = Unknown
  /\ told' = TRUE
  /\ UNCHANGED <<bans, cvar, stuck, server, world, toServer, vbans, bounds>>
-----------------------------------------------------------------------------
(* The server.                                                             *)

\* The game rules' mask: nobody unless the client wants to use voice.
GameRulesMask == IF playerMod = "on" THEN rules \cap Taken ELSE {}

\* Mutant: a changed ban mask alone is not sent.
DiffersInRules == GameRulesMask # sentRules

\* One of the masks is not the one last sent.
Differs == GameRulesMask # sentRules \/ banMask # sentBan

\* UpdateMasks, every 0.3 seconds.
UpdateMasks ==
  /\ Len(toClient) < MaxQueue
  /\ toClient' = toClient
       \o (IF wantMod THEN <<[type |-> "ReqState"]>> ELSE <<>>)
       \o (IF Differs
           THEN <<[type |-> "VoiceMask", rules |-> GameRulesMask, ban |-> banMask]>>
           ELSE <<>>)
  /\ sentRules' = GameRulesMask
  /\ sentBan' = banMask
  /\ listening' = GameRulesMask \ banMask
  /\ UNCHANGED <<banMask, playerMod, wantMod, client, world, toServer, vbans, told, bounds>>

\* ClientCommand: VModEnable.
VModEnable ==
  /\ toServer # <<>>
  /\ playerMod' = Head(toServer)
  /\ wantMod' = FALSE
  /\ toServer' = Tail(toServer)
  /\ UNCHANGED <<banMask, sentRules, sentBan, listening, client, world, toClient, vbans,
                 told, bounds>>

\* ClientCommand: vban.
Vban ==
  /\ vbans # <<>>
  /\ banMask' = Head(vbans)
  /\ vbans' = Tail(vbans)
  /\ UNCHANGED <<playerMod, wantMod, sentRules, sentBan, listening, client, world,
                 toClient, toServer, told, bounds>>
-----------------------------------------------------------------------------
(* The world around them.                                                  *)

\* A player takes a slot, leaves it, or another takes it over at once.
Reseat ==
  /\ Change
  /\ \E s \in Slots, p \in Players \cup {Nobody} :
       player' = [player EXCEPT ![s] = p] /\ player' \in Seatings \ {player}
  /\ UNCHANGED <<client, rules, server, channels, told, losses, sessions>>

\* Teams or sv_alltalk change.
ChangeRules ==
  /\ Change
  /\ rules' \in {{}, Slots} \ {rules}
  /\ UNCHANGED <<client, player, server, channels, told, losses, sessions>>

LoseVban ==
  /\ losses < MaxLosses
  /\ losses' = losses + 1
  /\ vbans # <<>>
  /\ vbans' = Tail(vbans)
  /\ UNCHANGED <<client, server, world, toClient, toServer, told, changes, sessions>>

Environment ==
  \/ EnterLevel
  \/ \E s \in Slots, blocked \in BOOLEAN : SetPlayerBlockedState(s, blocked)
  \/ SetModEnable
  \/ Reseat
  \/ ChangeRules
  \/ LoseVban

Receive == HandleReqStateMsg \/ HandleVoiceMaskMsg

Next == Environment \/ Frame \/ Receive \/ UpdateMasks \/ VModEnable \/ Vban

Spec == Init /\ [][Next]_vars

\* The client runs its frames, the server its updates, and what is on its way and
\* not lost arrives.
FairSpec ==
  /\ Spec
  /\ WF_vars(Frame)
  /\ WF_vars(Receive)
  /\ WF_vars(UpdateMasks)
  /\ WF_vars(VModEnable)
  /\ WF_vars(Vban)
-----------------------------------------------------------------------------
(* Properties.                                                             *)

\* Once every message of this session has arrived, the client's masks are the ones
\* the server remembers having sent: neither end waits for an update the other
\* believes delivered.
MasksInStep ==
  told /\ toClient = <<>> => serverBanned = sentBan /\ audible = sentRules

\* While the client's restarted clock keeps it from updating the server, the server
\* still means to ask for its state, which restarts the updates.
StuckIsAsked == stuck => wantMod

\* The players that are heard, and those that should be: whom the game rules allow and
\* the client has not banned, if it wants to use voice at all.
Heard == listening \cap Taken
Wanted == IF cvar = "on" THEN (rules \cap Taken) \ BanMask(bans) ELSE {}

\* Nothing is on its way, and neither end will send anything: the server finds nothing
\* to send, and the client neither, unless its clock keeps it from looking.
Settled ==
  /\ toClient = <<>> /\ toServer = <<>> /\ vbans = <<>>
  /\ ~wantMod /\ ~Differs
  /\ stuck \/ (modEnable = cvar /\ BanMask(bans) = ServerMask)

\* The two ends never come to a stop with the wrong players being heard: whatever was
\* lost, however the client's clock restarted, whoever took whose slot, and whatever earlier sessions and occupants of the
\* client's slot left behind, something is still on its way or will be sent.
SettledIsRight == Settled => Heard = Wanted

\* When the world comes to rest, exactly the players that the game rules allow and
\* that the client has not banned are heard, whatever was lost, whoever took whose
\* slot, and whatever earlier sessions left behind at either end.
BansTakeEffect == <>[](Heard = Wanted)

\* m_bServerModEnable is "what we've sent to the server about our voice_modenable
\* cvar": it only changes to a value that is being sent.
ModEnableIsWhatWasSent ==
  [][modEnable' # modEnable => toServer' = Append(toServer, modEnable')]_vars
=============================================================================
