# OpenAG client: TLA+ models and proofs

OpenAG is a client library (`client.so`, `client.dll`) for Adrenaline Gamer, a
Half-Life multiplayer mod. The engine loads it and calls it: every frame, for
every message of the server, for every key. The library keeps the HUD, the
menus, the server browser, voice muting and the prediction of weapons. It has
one thread of its own making (the update check); all else that is concurrent
in it comes from outside: answers of the network, messages of the server, the
user, level changes and the restarting clock arrive between any two frames.

This directory models the parts whose correctness depends on those orders,
checks them with TLC on small instances and proves the central invariants with
TLAPS for every value of the constants.

- [1. Inventory](#1-inventory)
- [2. Modules](#2-modules)
- [3. Runs, bounds and fairness](#3-runs-bounds-and-fairness)
- [4. Proofs](#4-proofs)
- [5. Where the code and its documentation part](#5-where-the-code-and-its-documentation-part)
- [6. What is not modelled](#6-what-is-not-modelled)
- [7. Plan](#7-plan)

## 1. Inventory

What `cl_dll/CMakeLists.txt` builds is the system: `cl_dll/`, `cl_dll/hl/`,
`pm_shared/`, `common/parsemsg.cpp`, the VGUI widgets and the ban manager of
`game_shared/`, and the weapon sources of `dlls/` for prediction. The rest of
`dlls/`, `game_shared/bot`, `utils/`, `external/`, `engine/` and `linux/` are
the SDK's server, tools, headers and binaries. Of the server, only
`game_shared/voice_gamemgr.cpp` is modelled: it is the other end of a protocol
this client speaks.

A frame: `HUD_Frame` (`cl_dll/cdll_int.cpp`) calls `ServersThink`,
`CVoiceStatus::Frame` and the Discord update; `HUD_UpdateClientData` calls the
`Think` of every HUD element, the timer among them. `HUD_Init` and
`HUD_VidInit` run at connection and level changes. User messages are dispatched
by name to `MsgFunc_...` handlers between frames.

| Component | State | Operations | What is hard | What makes it correct |
|---|---|---|---|---|
| Server browser (`hud_servers.cpp`, `vgui_ServerBrowser.cpp`) | job flags, list to query, active list, rows, counters, context ids | buttons, `ServersThink`, engine callbacks | asynchronous requests answered after a cancel, a refresh or a new object; a bounded window of queries | requests match the active list, the window holds, no stale rows, rows ordered, the job ends |
| Round timer (`hud_timer.cpp`, `net_windows.cpp`) | request state, socket, sync time and flag, end time, reassembly buffer | `Think`, `SyncTimer`, `VidInit`, `Timer` message | UDP loss, repetition, delay; split answers; time-outs; level changes; clock restarts | shows this level's end, leaks no socket, no mixed answers, comes in sync |
| Voice bans (`voice_status.cpp`, `voice_gamemgr.cpp`, `voice_banmgr.cpp`) | ban list, both ends' masks, what was sent, the engine's listening table | once a second, on a click, on `ReqState` and `VoiceMask`; `UpdateMasks`, `vban`, `VModEnable` | unreliable commands, slots changing hands, state of earlier servers, the clock | the bans take effect; the ends agree |
| Discord presence (`discord_integration.cpp`) | game state, gamemode, counts, start time, dirty flag | setters from messages, update per frame | fields reset and set in many orders; setters that do not mark dirty | what is published is what was last set |
| Weapon prediction (`hl/hl_weapons.cpp`, `com_weapons.cpp`) | a player and weapons rebuilt per command from the from-state | `HUD_WeaponsPostThink` | state carried through packed fields of two structures | to-state = step of from-state, nothing lost in the packing |
| Input buttons (`input.cpp`) | `down[2]`, state bits per button | key down, key up, per-frame sampling | repeats, third keys, console presses, menus | a held key acts; a released one stops; an impulse is seen once |
| Weapon menu (`ammo.cpp`) | slots, carried bits and last ones, `gpActiveSel`, ammunition | selection keys, bits of each frame, messages, resets | weapons dropped, emptied, hidden or reset while the menu is open | slots follow the bits, the menu is closed while hidden, cycling reaches everything |
| Pickup history (`ammohistory.cpp`) | ring of slots with times | pickups, drawing, `ResetHUD` | slots freed out of turn, unknown sprites, a reset that keeps the turn | an item shows for its time, the oldest goes first |
| Notices and chat (`death.cpp`, `saytext.cpp`) | bounded arrays with times, arrays beside them | messages, drawing, `InitHUD` | full lists, wrapped messages, entries shifted from past the end, a clock set back while nothing was drawn | order kept, nothing left over from an earlier entry, each shown for its time |
| Steam IDs, model overrides (`steam_id.cpp`, `forcemodel.cpp`) | ID and override caches per slot | messages, team and ID changes | slots changing hands | the cache is what the lookup would give |
| Menus (`vgui_TeamFortressViewport.cpp`) | current menu and queue | server and user commands | menus queued behind others | at most one open, none lost |
| AG match panels (`hud_vote.cpp`, `hud_settings.cpp`, `hud_nextmap.cpp`, `hud_playerid.cpp`, `hud_customtimer.cpp`, `hud_countdown.cpp`) | an active flag and `draw_until` each | message, `VidInit`, draw | `draw_until` is of a clock that restarts | none shown longer than its message says |
| HUD core (`hud.cpp`, `hud_redraw.cpp`, `hud_msg.cpp`) | the clock `m_flTime`, the list of elements | `Redraw`, `VidInit`, `InitHUD`, `ResetHUD` | frames that draw only some elements; the clock read by messages is the last frame's | every element sees the same clock |
| Update check (`update_checker.cpp`) | one atomic flag | a detached thread | the thread may outlive the library; a version received in pieces | the flag says what the server's version says |
| Movement, view, rendering, widgets | geometry | - | floating point | - |

`PROJECT.json` lists every component with its sources and status, and under
`hazards` what is hard to test in each, with the line where it bites and the
properties that would catch it, or why none does.

Outside the HUD the components interact little: the timer's `Timer` message also
feeds Discord's clock; the viewport's score panel calls `SetPlayerBlockedState`;
everything else they share is the engine. So each is modelled by itself, with the
part of the world it depends on. The voice module composes its two programs, client
and server, over their three channels. The elements of the HUD share more: one
clock that only a frame moves, the frame that draws some of them and not others,
and the broadcasts `VidInit`, `InitHUD` and `ResetHUD`. The module `Notices` composes
four of them on that clock. The weapon menu and the input buttons meet in one
place, the attack key that an open menu takes: `KButton` has the button's side of it
and `WeaponMenu` the menu's.

## 2. Modules

Each component has a module with its state as variables and one action per
handler, an `MC` module with values for TLC, and a `Proofs` module; the four lists and
panels of the HUD, which are checked together, share the latter two. Inside a
module the order is: constants and assumption, variables with the code's names,
type invariant, initial state, actions, specification, properties. A definition
marked *Mutant* in its comment is a plausible bug of the definition after it and
is used by no action; the properties were tried against these.

### ServerBrowser

| Model | Code |
|---|---|
| `requesting`, `done`, `querying` | `m_nRequesting`, `m_nDone`, `m_nQuerying` |
| `pending`, `active`, `activeQueries` | `m_pServerList`, `m_pActiveList`, `m_nActiveQueries` |
| `found`, `serverCount`, `sortField` | `m_pServers`, `m_nServerCount`, `g_fieldname` |
| `context`, `net` | `context_id` and the requests the engine has not ended |
| `Refresh`, `RefreshNoMaster`, `LanRefresh`, `CancelRequest`, `SortServers`, `ServerPing` | the window's buttons, each with every call it makes |
| `ServersInit` | `HUD_Init`: a new object while requests are outstanding |
| `Think` | `Think` and `QueryThink` |
| `ListResponse`, `ServerResponse`, `BroadcastResponse`, `RequestEnded` | the engine's callbacks, with an answer or an error |

`Inserted` is `AddServer`'s surgery on the linked list as it is in the code,
including the row it drops. `base` is a history variable: the first context id
of the last refresh that cleared the lists. The two broadcast requests (IP and
IPX) stand in `net` as one element, and so do the three requests of `ServerPing`,
whose answers are only printed. Of the fields of a row, ping and host name are
kept, since lists are ordered by them.

`QueryWindow` is the abstract specification of how listed servers are asked: a list comes
only to an idle window, each server of it is asked once and in order, as many at a time as
the window has room for, and all may be dropped at any moment. It knows neither the
counter `m_nActiveQueries`, nor the flags, nor the engine's requests; `ServerBrowser`
implements it with its two lists for the waiting and the flying, although `QueryThink`
looks at the counter alone.

### TimerSync

| Model | Code |
|---|---|
| `status`, `sock` | `g_eRulesRequestStatus`, `g_timerSocket` |
| `due` | `m_flNextSyncTime - flTime` |
| `synced`, `end`, `delay` | `m_flSynced`, where `m_flEndTime` came from and of which level, `m_bDelayTimeleftReading` |
| `parts`, `count`, `rid` | the packet buffer with `m_iReceivedPackets`, `m_iReceivedPacketsCount`, `m_iResponceID` |
| `open`, `asked`, `net` | sockets of the process, requests and datagrams on their way |
| `ThinkDisabled`, `SyncNotConnected`, `SyncLoopback`, `SyncOther` | the branches of `Think` and `SyncTimer` |
| `SendRequest` | the time-out, `SOCKET_NONE` and `SOCKET_IDLE` of `SyncTimerRemote` |
| `Receive...` | its other states, by what the datagram holds; each includes the rest of `SyncTimer`, which `Schedule` stands for |
| `VidInit` in `Connect` and `NewLevel`, `MsgFunc_Timer` | the handlers of the same names |
| `NetSendUdp`, `Take`, `NetCloseSocket`, `For` | the helpers of `net_windows.cpp`; a failed send closes the socket and leaves the handle |

Time is relative: `Tick` lowers `due`, and below the time-out its exact value no
longer matters, so the state space is finite without a bound on time. A datagram
is what `SyncTimerRemote` tells apart (challenge, answer, part, something else,
too short) with the level it was sent on. `ServerReply`, `Lose`, `Tick`,
`ClockRestarts` and the changes of the connection are the world outside.

### VoiceBan

One client and its entries of the server's arrays.

| Model | Code |
|---|---|
| `bans`, `serverBanned`, `audible`, `modEnable`, `cvar` | the ban manager's IDs, `m_ServerBannedPlayers`, `m_AudiblePlayers`, `m_bServerModEnable`, `voice_modenable` |
| `stuck` | the client's clock is behind `m_LastUpdateServerState + 1` |
| `banMask`, `playerMod`, `wantMod`, `sentRules`, `sentBan` | `g_BanMasks`, `g_PlayerModEnable`, `g_bWantModEnable`, `g_SentGameRulesMasks`, `g_SentBanMasks` |
| `listening` | what `pfnVoice_SetClientListening` was told |
| `toClient`, `toServer`, `vbans` | the reliable messages and commands, and the unreliable `vban` |
| `Frame`, `SetPlayerBlockedState`, `HandleReqStateMsg`, `HandleVoiceMaskMsg` | client handlers, all but the last around `UpdateServerState` |
| `UpdateMasks`, `VModEnable`, `Vban`, `ClientConnected` in `EnterLevel` | server handlers |
| `Reseat`, `ChangeRules`, `SetModEnable`, `LoseVban` | players, teams, the user, the network |

`EnterLevel` keeps the client's fields and gives the server's arrays any content,
as a slot's last occupant leaves them; the clock may or may not have restarted
behind the last update. `told` is a history variable: this session's server has
had a `VoiceMask` delivered. The once-a-second clock is not counted out: `Frame`
is possible whenever the clock is not stuck.

### KButton

| Model | Code |
|---|---|
| `down`, `state` | `kbutton_t`: the two slots and the bits of the state, as a set |
| `menu` | `gpActiveSel` is set: the weapon menu is open |
| `cmd` | the button in the last `usercmd_t`: its bit, and `CL_KeyState` in quarters |
| `held`, `typed` | the keyboard, and a "+" command typed at the console |
| `PressKey`, `ReleaseKey`, `TypeDown`, `TypeUp` | the "+" and "-" commands: `KeyDown` and `KeyUp`, with a key number or without |
| `PressSwallowed`, `ToggleMenu` | a press that a menu or the console takes; the ways in and out of the weapon menu |
| `CreateMove` | `CL_CreateMove`: `CL_KeyState` when active, then `CL_ButtonBits(1)` |
| `UpdateClientData` | `CHud::UpdateClientData` with the menu open: `CHudAmmo::Think`, `CL_ResetButtonBits` |

One button stands for all, since buttons share no state; `button` says whether the
menu may take it (`in_attack`) and whether `CL_KeyState` samples it (movement). `frame`,
`active` and `owed` are history variables from which the properties are told, kept
by `Observe` from the down bit alone and not from the impulse bits under test.

### The lists and panels of the HUD

`HudClock` holds the one thing all have in common: a time of the HUD is kept as what
is left of it at the last frame's clock, `Later` takes time off it, and a negative
amount gives time back, which is what the clock of a new level does. Below `LongPast`
times no longer matter, so the state space is finite without a bound on time.

| Model | Code |
|---|---|
| `SayText`: `lines`, `names`, `scroll`, `active` | `g_szLineBuffer`, `g_pflNameColors` and `g_iNameLengths`, `flScrollTime`, `HUD_ACTIVE` |
| `SayTextPrint`, `Wrapped`, `ScrolledLines`, `DrawSayText`, `InitSayText` | `SayTextPrint`, `EnsureTextFitsInOneLineAndWrapIfHaveTo`, `ScrollTextUp`, `Draw`, `InitHUDData` |
| `DeathNotice`: `notices`, `noticeTime` | `rgDeathNoticeList` with its entry past the end, `DEATHNOTICE_DISPLAY_TIME` |
| `DeathMsg`, `DrawDeathNotice`, `InitDeathNotice` | `MsgFunc_DeathMsg`, `Draw`, `InitHUDData`, with every `memmove` of theirs |
| `PickupHistory`: `history`, `turn`, `historyTime` | `rgAmmoHistory`, `iCurrentHistorySlot`, `HISTORY_DRAW_TIME` |
| `AddToHistory`, `AddUnknownItem`, `DrawAmmoHistory`, `CheckClearHistory`, `ResetPickupHistory` | the functions of those names; an item whose sprite is unknown takes its slot and leaves it |
| `MatchPanels`: `panels`, `countdown` | the active flag and `draw_until` of each panel |
| `ShowPanel`, `HidePanel`, `MsgFunc_Countdown`, `DrawPanels`, `VidInitPanels` | the messages, `Draw` and `VidInit` of each |
| `Notices`: `Frame`, `FrameOfEarlierClock`, `HUD_VidInit`, `MsgFunc_...` | `CHud::Redraw` with what it draws, the first frame of a level whose clock is behind, the broadcasts, the messages |

Of a chat line the model keeps which message it is of and whether it is that message's
beginning or rest, since a line that starts with a space is what the scrolling tells
apart; a message takes one line or two. Messages, notices and pickups are numbered as
they come, so that the order of a list can be told. `gapped`, `early` and `passedOver` are
history variables that name the three situations in which the code's lists are not
what they should be (section 5). `MayDraw` says which sets of elements a frame can
draw: the chat alone in an intermission, nothing with the HUD hidden, and so on.

`NoticeBoard` is the abstract specification of the death notices: a sequence to whose
end notices are posted, from whose front one falls when it is full, and from which
any may expire while the rest keep their order and their text. `DeathNotice` implements
it: an array with one entry too many, a first free entry for an end, entries moved down
with whatever stands past the end, and flags that are set and never reset. The
refinement mapping takes the entries before the first free one for the board.

### WeaponMenu

| Model | Code |
|---|---|
| `bits`, `suit`, `oldBits`, `oldSuit` | `m_iWeaponBits` and `iOldWeaponBits`, the suit's bit apart |
| `slots`, `listed`, `clip`, `ammo` | `rgSlots`, `rgWeapons` (filled or not, and which clips have something), `riAmmo` |
| `sel`, `cur`, `hidden`, `select` | `gpActiveSel` (with its value 1), `m_pWeapon`, `m_iHideHUDDisplay`, `g_weaponselect` |
| `Think` | `UpdateClientData` and `Think`: pick up or drop every element of `rgWeapons`, the empty ones too, then let an attack select |
| `SelectSlot`, `UserCmd_NextWeapon`, `UserCmd_PrevWeapon`, `UserCmd_Close` | slot keys with and without `hud_fastswitch`, invnext, invprev, cancelselect |
| `DrawWList` | the correction the drawing makes to the selection |
| `ResetHUD`, `MsgFunc_AmmoX`, `MsgFunc_CurWeapon`, `MsgFunc_HideWeapon` | the messages, `WeaponList` with the first reset of a level |

`Think` goes through `MAX_WEAPONS` elements from the last down; those that no message has
filled are all zero, so each of them stands for the first place of the first slot and
drops what is there. The crowbar is weapon 1, gone through last, and that is why it
stays in its place: `CrowbarAssumption` names it.

## 3. Runs, bounds and fairness

| Run | Checks | Instance | States |
|---|---|---|---|
| `browser` | `TypeOK`, `ActiveIsOutstanding`, `QueryAccounting`, `NoStaleRows`, `RowsByPing`, `WindowSpec`, `QueryingTerminates` | 2 servers, a list naming one twice, 2 pings, window of 2, 3 buttons | 490 000 |
| `browser_count` | violation of `CountIsListLength` | the same, counter starting at 0 | - |
| `timer` | `TypeOK`, `SyncedToThisLevel`, `SocketIsKnown`, `AnswerIsWhole`, `AnswerOrRetry` | 2 sockets, 2 response ids, every shape of reply, 1 fault, 2 changes | 178 000 |
| `timer_prompt` | `ComesInSync` | replies that fit, 2 faults, 2 changes | 13 000 |
| `timer_off` | violation of `OffIsUnsynced` | as `timer` | - |
| `voice` | `TypeOK`, `MasksInStep`, `StuckIsAsked`, `SettledIsRight`, `BansTakeEffect` | 1 slot, 2 players, 1 loss, 3 changes, 2 sessions | 436 000 |
| `voice_cvar` | violation of `ModEnableIsWhatWasSent` | as `voice` | - |
| `button` | `TypeOK`, `NeverStuck`, `PressIsSent`, `MovesAsPromised` | 3 keys and the console | 25 000 |
| `button_up` | violation of `StillUpNeverHappens` | as `button` | - |
| `notices` | `TypeOK`, `TopStartsMessage`, `NamesInStep`, `InOrder`, `DisabledIsEmptyUngapped`, `FreeIsClean`, `OldestIsNext`, `PanelsInTime`, `BoardSpec`, `OnlyOldestLeave`, `DrawnIsInTime`, `Clears` | 3 chat lines, 2 notices, 2 slots, 2 panels and the countdown; 3 messages to 2 of the four; a clock that goes back by 1 | 149 000 |
| `notices_disabled` | violation of `DisabledIsEmpty` | the chat alone | - |
| `menu` | `TypeOK`, `SlotsFollowBits`, `ClosedWhileHidden`, `NextVisitsAll`, `PrevGoesBack`, `NothingStaleStays` | 3 weapons in 2 slots of 2 places, two sharing their ammunition, 6 elements | 34 000 |

Deadlock is checked by the runs of `button`, `notices` and `menu`, whose frames never
end. It is not by the others: those systems rest when the user does nothing more and
nothing is outstanding.

**Bounds of `browser`.** Three buttons give every pair of overlapping jobs and one
more operation on top (refresh, cancel, refresh; refresh, re-initialise, LAN
refresh; refresh, sort, refresh). The list has three entries and the window holds
two, so a query waits, and one server is queried twice. Broadcasts are answered
only while the list is empty (`MaxFound` = 1), so rows stay few; three rows and two
pings are enough for every position of an insertion. `GarbageCounts` holds two
values for the uninitialised counter.

**Bounds of `timer`.** The intervals keep the order of the code's 1, 1.5, 3, 5, 10
and 60 seconds up to ties. Two sockets let a new socket meet datagrams of an old
one; two ids let two responses mix. Parts number two (the buffer's room) or three
(one that cannot be stored). A change is a level change, connection,
disconnection, clock restart or cvar change, so two of them give connect and change level, or
connect and disconnect, or connect and restart the clock; a fault is a loss, a repetition or a failed send.
`hud_timer_sync` is an archived cvar, so the timer starts enabled or disabled.

**Bounds of `voice`.** The masks of different slots do not influence one another
except through the comparison of whole masks, so one slot with two players shows
a slot changing hands. One command in flight with one loss gives both the lost
`vban` and the one that arrives after the slot has changed hands; two sessions
give leftovers at both ends.

**Bounds of `button`.** None but the keys: three are one more than a button has slots
for, so the third is refused and outlives the others; the console is a fourth.

**Bounds of `notices`.** A buffer of three lines is the least in which a wrapped message
has a neighbour; three messages fill it, scroll it and go on. A list of two notices is
filled by two messages and shifted by the third, and the same goes for two slots of the
history. Messages to two of the four lists are enough, since the lists only share the
clock and the frame; all six pairs occur. The clock goes back once by as little as
it can, after frames that drew any set of elements. Times are the clock's two units,
so an element lives through a frame and expires in the next.

**Bounds of `menu`.** None but the weapons: one in the first place, two that share a slot
and their ammunition, and elements of `rgWeapons` with no weapon between and after
them. Two slots, and one slot key more that has no weapons.

**Fairness.** `notices`: `PlayFrame`, that frames go on in which nothing hides the HUD
(`Clears` says nothing of a player who turns it off for ever). `menu`: `DrawWList`, that
frames are drawn while the menu is open. `button` has none: its properties are safety. `browser`: `Think` runs every frame, and the engine ends every request
in time, since each `SendRequest` carries a time-out. Nothing obliges the user.
`timer`: `Think` runs and time passes, though not as far as a sync time that a clock restart
has put out of reach: a level may end before, so only `Think`'s check of the clock
helps. The network and the server need not do anything for `AnswerOrRetry`. `AnsweredSpec`, used by `ComesInSync` only, adds that
the server answers what reaches it, and that run lets no time pass while something
is on its way (`Prompt`): a server slower than the time-out is never synced to,
which is the code's intention. `voice`: client and server run their periodic
updates, and what is not lost arrives; losses and changes are finite in number,
which is what "once things come to rest" means in `BansTakeEffect`.

What the main properties say of the code:

- `ActiveIsOutstanding`, `QueryingTerminates`: cancel, refresh and re-initialisation
  in any order leave no query the engine has forgotten on the active list while
  the browser works, so its job always ends.
- `QueryAccounting`: `m_nActiveQueries`, which several operations leave behind when
  they clear the list it counts, is right again whenever it is used.
- `WindowSpec`: whatever is pressed and however the answers come, listed servers are asked
  in order, each at most once, never more at a time than the window holds, and each frame
  that works on the list fills the window as far as it goes. It is safety only and does not
  say that all are asked: a refresh while the browser is querying ends the job in the next
  frame, and the new list then waits, unasked, for the next refresh.
- `NoStaleRows`: `CancelAllRequests` at the start of a refresh keeps answers to
  older ones out, although callbacks reach whatever object the global points to.
- `SyncedToThisLevel`: closing the socket in `VidInit` is what keeps late answers of
  the level before from being shown.
- `SocketIsKnown`: every path that zeroes the handle has closed the socket, also
  after a failed send has closed it already; and the dead handle such a send leaves is
  gone before the timer asks anew.
- `AnswerIsWhole`: a count and a bit mask suffice to put an answer
  together from exactly its own parts.
- `AnswerOrRetry`, `ComesInSync`: no state waits for ever, and failed sends, the
  handle they leave, clock restarts and lost datagrams only delay the sync. That a server
  whose answers do not fit is asked for ever satisfies the first; the second is stated for
  answers that fit.
- `SettledIsRight`: an end that finds nothing to send has looked at its own state and at
  what it remembers of the other, leftovers of earlier servers and players among it. When
  both find nothing, or the client's restarted clock keeps it from looking, and nothing is
  on its way, the client hears whom it should: a ban cannot be lost in a way that neither
  end will notice.
- `BansTakeEffect`: comparing the bans with the server's echo once a second, and
  sending whole masks, repairs whatever was lost or went to the wrong player.
- `MasksInStep`: the server sends only changes, so the record of what it sent must be
  what the client has.
- `NeverStuck`: repeated and third keys, presses and releases that a menu swallows and the
  clearing of `in_attack` under its slots never leave a button down that nobody holds.
- `PressIsSent`: although `CL_KeyState` clears the impulses of a movement button before
  its bit is read, no press is too short to be sent. It rests on a state that
  `TypeOK` excludes: a released button keeps the impulse up beside the impulse down.
- `MovesAsPromised`: `CL_KeyState`'s comment holds for a command that follows an active
  one. Inactive commands leave impulses behind, and the first active one after them
  can report their presses (0.75 where 0.5 is promised).
- `TopStartsMessage`, `NamesInStep`: every caller scrolls lines and the two arrays beside
  them by the same number of lines, which depends on what stands in them.
- `InOrder`, `OnlyOldestLeave`: unless a message scrolled away a wrapped one, chat lines
  are in order and without gaps, whichever of three callers scrolled, twice for one
  message included.
- `FreeIsClean`, `BoardSpec`: a message only sets the flags of its entry, so a suicide would
  be told of a later death if one entry past the list, the last array entry above all,
  were not clean. It is, and the array is a board.
- `OldestIsNext`: slots are freed in any order and the turn restarts only when all are
  free, yet a pickup displaces the oldest.
- `DrawnIsInTime`: the notices, the pickups and the chat bound their times by their own
  display time before they compare them, so that no frame with everything drawn, be it the
  first of a clock that was set back, shows anything for longer than it should.
- `PanelsInTime`: the panels do not; it is `VidInit` that takes them away in time.
- `Clears`: no clock and no hidden HUD make anything stay for ever.
- `SlotsFollowBits`: resets of the slots, of the bits and of the weapons come in any order
  between frames, and the slots are told from the bits all the same.
- `ClosedWhileHidden`: an attack is never taken by a menu that is not drawn.
- `NextVisitsAll`, `PrevGoesBack`: two searches with wrap-around, one up and one down, over
  slots with holes and weapons without ammunition, agree on one cycle.
- `NothingStaleStays`: a slot, other than the first, that lost its last usable weapon while
  it was selected does not stay selected. A weapon that cannot be selected any more does
  stay selected while its slot has another that can: `Think` sends the selection to the
  server as it is.
- `StuckIsAsked`: `Frame` compares times without regard to a restarted clock; it is the
  server's `ReqState` that sets the client going again.

`CountIsParts` (`TimerSync`), `NoKeyTwice` (`KButton`) and `JobCanMove`
(`ServerBrowserProofs`) are proved and are properties of no run: what rests on the first two
is checked (`AnswerIsWhole`, `NeverStuck`), and the third follows from two that are and
from `CancelledStops`, which is proved beside it.

## 4. Proofs

Checked by TLAPS from the modules' assumptions on their constants alone
(`BrowserAssumption`, `TimerAssumption`, `VoiceAssumption`, `KeyAssumption`, and those of the
modules of the HUD: which sets and numbers the constants are, that the interval
lengths do not exceed the clock-reset threshold, that stand-ins are not members of the
sets they stand outside of, that key numbers are positive, that no two weapons share a
place and the crowbar is weapon 1; TLC evaluates them on every run). One of them says
more than it seems to: `MaxLines > 2`. With two lines a long message that follows a
scroll of two would put its rest on the top line, and `TopStartsMessage` would fail;
`MAX_LINES` is 5.

| Theorem | Property | Argument |
|---|---|---|
| `ServerBrowserProofs!TypeCorrect` | `TypeOK` | lemmas on `Inserted` (least insertion place, by well-foundedness), on sorting as a permutation, and on what `Think` sends |
| `ServerBrowserProofs!ActiveQueriesOutstanding` | `ActiveIsOutstanding` | `ActiveInv`: the active list is backed by requests, or the browser is not querying and no list request is outstanding that could set it querying. The second half is needed for a cancel, which drops the requests and keeps the list |
| `ServerBrowserProofs!RowsAreFresh` | `NoStaleRows` | `ContextInv`: outstanding requests, too, are not older than `base`, and context ids only grow |
| `ServerBrowserProofs!RowsInPingOrder` | `RowsByPing` | inductive as it stands; `InsertedOrdered`: whichever branch links the row in, rows before it have no greater ping and rows after it no smaller one, even though the middle branch drops a row |
| `ServerBrowserProofs!QueriesAreCounted` | `QueryAccounting` | `CountInv`: contexts tell queries apart, so an answer takes at most one off the list; at most one list request is outstanding and then both lists are empty, so resetting the counter on its answer is right |
| `ServerBrowserProofs!ImplementsWindow` | `WindowSpec` | `WindowStep`: every step of the browser is one of `QueryWindow` or leaves its lists as they are, given `CountInv`. Only `Think` needs `QueryAccounting` (`ThinkLaunches`: room by the counter is room by the list), only the list's answer needs that a list request is alone, only the others that contexts differ |
| `ServerBrowserProofs!JobNeverStalls` | `JobCanMove` | from `QueryAccounting`, `ActiveIsOutstanding` and `CancelledStops`, a job requested is not done: with an empty active list the counter is zero and the window open; with one that is not, the engine has its requests. It is the part of `QueryingTerminates` that is not fairness |
| `TimerSyncProofs!TypeCorrect` | `TypeOK` | together with `SocketInv`, which tells what closing the timer's socket leaves |
| `TimerSyncProofs!SocketIsAlwaysKnown` | `SocketIsKnown` | `SocketInv`: only the timer's socket is open, and all that is on its way is meant for it; `IdleInv`, with it: a timer that waits for nothing has an open socket or none. A send that fails leaves a timer that waits, and only a datagram read from the open socket or the closing of it ends the wait |
| `TimerSyncProofs!SyncedIsThisLevel` | `SyncedToThisLevel` | `LevelInv`: no datagram is older than the client's level, since moving the level empties the network with the socket |
| `TimerSyncProofs!AnswersAreWhole` | `AnswerIsWhole` | `PartsInv`: a part that is stored is a new element of a finite set, and counted (`PartsAreCounted`); `PartsAgree`: parts of one id agree on their total and are numbered below it, and the buffer holds one id; as many distinct parts as the total are then all of them (an injection between finite sets of one size is onto) |
| `VoiceBanProofs!TypeCorrect` | `TypeOK` | one step per action |
| `VoiceBanProofs!StuckClientIsAsked` | `StuckIsAsked` | `StuckInv`: besides, no `VModEnable` is on its way that would answer the question |
| `VoiceBanProofs!MasksComeInStep` | `MasksInStep` | `MaskInv`: the last `VoiceMask` on its way carries what the server remembers having sent; if none is, the client has it |
| `VoiceBanProofs!ContentIsRight` | `SettledIsRight` | `MaskInv`, `HeardInv` (the engine's table is what the masks sent last say) and `ModInv` (the last the client told of its cvar is on its way or has arrived, or the server will ask), with `StuckIsAsked`. A server that has sent no masks yet remembers empty ones, so that not differing from them means that nobody is to be heard |
| `KButtonProofs!TypeCorrect` | `TypeOK` | one step per action; `KeyDownEffect`, `KeyUpEffect` |
| `KButtonProofs!ButtonNeverSticks` | `NeverStuck` | `SlotInv`: the slots hold only what the user holds, no key twice (`NoKeyHoldsTwice`), and a button that is down has a slot in use. The slots may be in use while the button is up, never the reverse |
| `KButtonProofs!EveryPressIsSent` | `PressIsSent` | `OwedInv`: a press that was not sent has its impulse; with `TypeOK`, whatever a sample takes away shows in its value |
| `KButtonProofs!ButtonMovesAsPromised` | `MovesAsPromised` | `FrameInv`: after an active command the impulse bits say what the down bit did since |
| `WeaponMenuProofs!TypeCorrect` | `TypeOK` | a finite set of cells that is not empty has a first and a last one, so every search finds a weapon or none |
| `WeaponMenuProofs!SlotsHoldTheBits` | `SlotsFollowBits` | inductive with the types; `LastIsTheWeapon`: of the elements that stand for a weapon's cell the weapon itself is gone through last |
| `WeaponMenuProofs!HiddenMenuIsClosed` | `ClosedWhileHidden` | inductive as it stands |
| `WeaponMenuProofs!NextGoesAllTheWayRound` | `NextVisitsAll` | an induction over the presses: `NaturalFacts!IteratesExist` shows that the function which counts them exists, `Ranks` numbers the cells that can be selected in their order, and `NextIn` says that a press goes from each to the one after it, and from the last to the first |
| `WeaponMenuProofs!PrevIsTheWayBack` | `PrevGoesBack` | from `SlotsFollowBits`, which makes a weapon's cell unique, and the order of the cells, once for the middle and once for the ends of the cycle |
| `NoticesProofs!TypeCorrect` | `TypeOK` | part of `HudInv`, the conjunction of the invariants below, which one lemma per list shows to be kept by that list's operations and `HudSteps` by those of the HUD |
| `NoticesProofs!TopLineStarts` | `TopStartsMessage` | `RestsInPlace`: besides, no rest stands below an empty line and the last two lines are not both rests. The first keeps a scroll from ending at a rest, the second a message from being pushed above its own beginning |
| `NoticesProofs!NamesStayInStep` | `NamesInStep` | inductive with `RestsInPlace`: lines and names are moved by the same amount |
| `NoticesProofs!LinesInOrder`, `DisabledLinesAreEmpty` | `InOrder`, `DisabledIsEmptyUngapped` | `OrderInv`: besides, no line is of a message yet to come |
| `NoticesProofs!OldestLinesLeave` | `OnlyOldestLeave` | an action property, from the same invariants: in an ordered buffer the lines above are the older ones |
| `NoticesProofs!FreeEntriesAreClean` | `FreeIsClean` | the list holds a number of notices and is clean from there on; `DrawFacts` says, by the rank of a number in a finite set (`NaturalFacts!Ranks`), which entry of the old list each entry of the new one is |
| `NoticesProofs!ImplementsBoard` | `BoardSpec` | `BoardStep`: every step of the HUD is a step of `NoticeBoard` or leaves the board as it is; `FreeIsClean` is what makes the flags of a new notice those of its message |
| `NoticesProofs!OldestPickupIsNext` | `OldestIsNext` | `PickupInv`: besides, no pickup is newer than the number of them |
| `NoticesProofs!PanelsStayInTime` | `PanelsInTime` | `PanelInv`: between `VidInit` and the first frame every panel shown is one of `early`, so the jump of the clock finds no other |
| `NoticesProofs!DrawnNoticesAreInTime` | `DrawnIsInTime` | whatever the times were before the frame and whichever way its clock went (`FullRedrawInTime`), each list bounds them before it decides |

Every safety property of the passing runs, and every action property, is proved; so are
the two refinements. Model-checked only are the liveness properties
(`QueryingTerminates`, `AnswerOrRetry`, `ComesInSync`, `BansTakeEffect`, `Clears`,
`NothingStaleStays`), which are out of the prover's reach. Of two of them the part that is
not fairness is proved: `JobNeverStalls` says that the browser's job has a step to wait
for in every state, `ContentIsRight` that the mask protocol can only come to rest where
it should.

`NaturalFacts` has what the proofs need of numbers. The library's induction theorem takes
a predicate for a parameter, so `NaturalFacts` states induction on sets of numbers
(`AllNaturals`), from the least element every set has (`LeastNatural`); on it rest the
existence of a function that iterates a given one (`IteratesExist`) and the numbering of
the elements of a finite set of numbers by their rank (`Ranks`). Insertion, sorting and the
removal of expired notices are stated by their result and need no induction.

## 5. Where the code and its documentation part

- `AddServer` (`hud_servers.cpp:362`) drops the row that should follow a row linked in
  the middle, and counts it; `GetServerCount` says it returns the number of servers
  in the list. Run `browser_count`.
- `SyncTimer` handles `hud_timer_sync` 0 by taking the sync back (`hud_timer.cpp:278`),
  but `Think` does not call it then. Run `timer_off`.
- `HandleVoiceMaskMsg` reads a ninth byte of an eight-byte message into
  `m_bServerModEnable` (`voice_status.cpp:668`), which is documented as what was last
  sent to the server. The effect is one more `VModEnable` after every mask. Run
  `voice_cvar`.

- `KeyUp` notes "still up (this should not happen)" (`input.cpp:427`) at a branch that is
  taken whenever the weapon menu has consumed an attack, since `CL_ResetButtonBits` clears
  the state and not the slots. The branch does what is needed. Run `button_up`.
- A chat message that finds no empty line scrolls once and takes the last line
  (`saytext.cpp:245`); if the line that scrolled away was wrapped, an empty line stays above
  it. When that gap reaches the top, `Draw` takes the buffer for empty (`saytext.cpp:128`)
  and the lines below it are not shown until the next message. Run `notices_disabled`.

Rules in three parts, or with a second part of more than 657 bytes, never fit
`m_szPacketBuffer` at the offsets the code uses (`hud_timer.cpp:483`), so the timer asks such a
server again for ever; `ComesInSync` is stated for servers whose answers fit, and
`AnswerOrRetry` shows the retrying. When a list request fails the browser goes on
saying that it waits: `QueryingTerminates` is stated for a browser that has a list.

Met while modelling the HUD, and excepted by name in the properties or left out:

- A panel whose message comes between `VidInit` and the level's first frame reads the
  clock of the last level and may be shown for much longer, or not at all: `early` in
  `PanelsInTime`.
- A countdown message without a sound, or of more than ten seconds, leaves `draw_until`
  as an earlier countdown set it (`hud_countdown.cpp:98`), so the panel may be gone in
  the next frame.
- An item with an unknown sprite takes its turn of the history and leaves the slot as it is
  (`ammohistory.cpp:77`), so the pickup in it outlives later ones: `passedOver` in
  `OldestIsNext`.
- `MsgFunc_CurWeapon` returns for every weapon below 1 (`ammo.cpp:581`) before it asks
  whether the weapon is -1 (`ammo.cpp:590`), so `m_fPlayerDead` is never set, although the
  server sends that message to "Tell Ammo Hud that the player is dead"
  (`dlls/player.cpp:913`).
- `DrawWList` makes sure "that there are available choices in the active slot" of every slot
  but the first (`ammo.cpp:1069`): `NothingStaleStays` excepts it.
- The prediction writes the RPG's spot to the state predicted from
  (`hl/hl_weapons.cpp:922`).

## 6. What is not modelled

Of the modelled components: formatting and painting; the info strings; the mouse
row of the browser; `NET_API` being absent; the value of the timer's end time, of
which the source and the level are kept; `DoResync`, which nothing calls; the
client's speaker labels; the server's entries of other clients; the ban manager's hash
chains and file (its set of IDs is kept); impulses, the mouse, the joystick, duck taps
and automatic jumps beside the buttons. The ban list is assumed to survive the
session, as it does without a crash. Of the HUD: chat messages of more than two lines,
where a coloured name ends, locations, sounds and the console; sprites of death notices
beyond none and some; time-out, sudden death, CTF, location and score panels, which are
on or off as their last message says or always drawn; what a panel says; spectators in
the weapon menu, and `gpLastSel`, which is never read.

Not modelled at all:

- Discord presence: each field is set and reset by one function and published by a copy;
  a model would restate the assignments.
- The prediction of weapons: some eighty fields copied each way around the SDK's weapon
  code, with floating-point times and little control.
- Steam IDs and model overrides: look-ups in tables of strings the user edits.
- The ban store's file: read at the start, written at the end, related to nothing else.
- VGUI menus and panels: a queue of widgets whose order is theirs.
- The update check: one atomic flag, written by one thread.
- Movement, camera, rendering and widgets: geometry. The SDK's server and tools: not
  part of the client.

`PROJECT.json` gives the reason for each, and lists what is hard to test in them all the
same.

## 7. Plan

Done: the components whose state is shared with the network (browser, timer, voice), the
input buttons, the weapon menu, and four elements of the HUD composed on one clock, all
with runs and with proofs of every safety property the runs check; two refinements, of the
death notices and of the browser's window of queries. What is left, in order:

1. Abstract specifications of the mask protocol (a record and a copy that lags behind it by
   what is on its way) and of the chat (a queue of messages), implemented by `VoiceBan`
   and `SayText` as `QueryWindow` is by `ServerBrowser`.
2. For the liveness properties that are not covered yet, the part that is not fairness:
   what each state of the timer and of the lists waits for.
3. The small algorithms: the version numbers of the update check, received in pieces; the
   hash chains of the ban manager against the set they stand for.

No module to be proved about declares a `RECURSIVE` operator.
