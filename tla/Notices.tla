-------------------------------- MODULE Notices --------------------------------
(***************************************************************************)
(* The chat lines, the death notices, the history of pickups and the       *)
(* panels of a match together, as CHud (cl_dll/hud.cpp, hud_redraw.cpp,    *)
(* hud_msg.cpp) runs them: one clock, one frame that draws every element   *)
(* that is to be drawn, one VidInit, one InitHUD and one ResetHUD for all, *)
(* and a message for each.                                                 *)
(***************************************************************************)
EXTENDS SayText, DeathNotice, PickupHistory, MatchPanels

CONSTANTS
  MaxMessages,   \* bound: messages to any of them
  MaxBusy        \* bound: how many of the four get any

VARIABLES
  entered,       \* VidInit has been called, and no frame has been drawn since
  back           \* how far the clock has gone back so far

vars == <<lines, names, scroll, active, said, gapped, notices, noticeTime, deaths,
          history, turn, historyTime, pickups, passedOver,
          panels, countdown, early, panelMessages, entered, back>>

\* Type invariant of the HUD's lists.
TypeOK ==
  /\ SayTextOK
  /\ DeathNoticeOK
  /\ PickupHistoryOK
  /\ MatchPanelsOK
  /\ entered \in BOOLEAN
  /\ back \in 0..MaxBack

Init ==
  /\ SayTextInit /\ DeathNoticeInit /\ PickupHistoryInit /\ MatchPanelsInit
  /\ entered = TRUE
  /\ back = 0

Elements == {"chat", "deaths", "pickups", "panels"}

\* What a frame may draw.  In play the notices and the panels, the pickups unless the
\* suit is missing or the weapons are hidden, and the chat if it is active, unless the
\* team, class or intro menu is up or hud_saytext is 0.  With hud_draw 0 only the chat,
\* and the notices if they are always drawn; in an intermission only the chat, active
\* or not; with the HUD hidden or a benchmark running nothing.
MayDraw(drawn) ==
  /\ "pickups" \in drawn => "panels" \in drawn
  /\ "panels" \in drawn => "deaths" \in drawn
  /\ "chat" \in drawn => active \/ drawn = {"chat"}

\* CHud::Redraw.
Redraw(dt, drawn, time, gone) ==
  /\ IF "chat" \in drawn THEN DrawSayText(dt, time) ELSE SkipSayText(dt)
  /\ IF "deaths" \in drawn THEN DrawDeathNotice(dt) ELSE SkipDeathNotice(dt)
  /\ IF "pickups" \in drawn THEN DrawAmmoHistory(dt) ELSE SkipPickupHistory(dt)
  /\ IF "panels" \in drawn THEN DrawPanels(dt, gone) ELSE SkipPanels(dt)
  /\ entered' = FALSE

\* The panels shown whose player may have left.
Leaving == {p \in Vanishing : panels[p].on}

AnyRedraw(dt) ==
  \E drawn \in SUBSET Elements, time \in SayTimes, gone \in SUBSET Leaving :
    MayDraw(drawn) /\ Redraw(dt, drawn, time, gone)

\* A frame a moment later.
Frame == AnyRedraw(1) /\ UNCHANGED back

\* A frame with everything drawn.
FullRedraw(dt) ==
  \E time \in SayTimes, gone \in SUBSET Leaving :
    Redraw(dt, IF active THEN Elements ELSE Elements \ {"chat"}, time, gone)

PlayFrame == FullRedraw(1) /\ UNCHANGED back

\* HUD_VidInit, as the client enters a level: of these elements only the panels do
\* anything.
HUD_VidInit ==
  /\ VidInitPanels
  /\ entered' = TRUE
  /\ UNCHANGED <<sayVars, deathVars, historyVars, back>>

\* The first frame of a level whose clock is behind the last one's.
FrameOfEarlierClock ==
  /\ entered
  /\ \E jump \in 1..(MaxBack - back) : back' = back + jump /\ AnyRedraw(-jump)

\* Such a frame with everything drawn.
PlayFrameOfEarlierClock ==
  /\ entered
  /\ \E jump \in 1..(MaxBack - back) : back' = back + jump /\ FullRedraw(-jump)

\* One more message, to an element that has had some or that may have its first.
Message(sofar) ==
  /\ said + deaths + pickups + panelMessages < MaxMessages
  /\ \/ sofar > 0
     \/ Cardinality({i \in 1..4 : <<said, deaths, pickups, panelMessages>>[i] > 0}) < MaxBusy

\* A chat message; one that may not be printed goes to the console only.
MsgFunc_SayText ==
  /\ Message(said)
  /\ \E long, tagged \in BOOLEAN, time \in SayTimes : SayTextPrint(long, tagged, time)
  /\ UNCHANGED <<deathVars, historyVars, panelVars, entered, back>>

MsgFunc_DeathMsg ==
  /\ Message(deaths)
  /\ \E flags \in MessageFlags, time \in NoticeTimes : DeathMsg(flags, time)
  /\ UNCHANGED <<sayVars, historyVars, panelVars, entered, back>>

\* AmmoPickup, WeapPickup and ItemPickup.
MsgFunc_Pickup ==
  /\ Message(pickups)
  /\ AddUnknownItem \/ \E time \in HistoryTimes : AddToHistory(time)
  /\ UNCHANGED <<sayVars, deathVars, panelVars, entered, back>>

\* Vote, Settings, Nextmap, PlayerId, Countdown, and the player's own timer.
MsgFunc_Panel ==
  /\ Message(panelMessages)
  /\ \/ \E p \in Panels : HidePanel(p) \/ \E time \in PanelTimes[p] : ShowPanel(p, time, entered)
     \/ \E seconds \in CountdownSeconds : MsgFunc_Countdown(seconds)
  /\ UNCHANGED <<sayVars, deathVars, historyVars, entered, back>>

\* MsgFunc_InitHUD calls InitHUDData of every element.
MsgFunc_InitHUD ==
  InitSayText /\ InitDeathNotice /\ UNCHANGED <<historyVars, panelVars, entered, back>>

\* MsgFunc_ResetHUD calls Reset of every element: the ammunition's resets the history.
MsgFunc_ResetHUD ==
  ResetPickupHistory /\ UNCHANGED <<sayVars, deathVars, panelVars, entered, back>>

Next ==
  \/ Frame
  \/ HUD_VidInit
  \/ FrameOfEarlierClock
  \/ MsgFunc_SayText
  \/ MsgFunc_DeathMsg
  \/ MsgFunc_Pickup
  \/ MsgFunc_Panel
  \/ MsgFunc_InitHUD
  \/ MsgFunc_ResetHUD

\* The clock goes on, and frames are drawn with nothing hiding the HUD.
Spec == Init /\ [][Next]_vars /\ WF_vars(PlayFrame)
-----------------------------------------------------------------------------
(* Properties of the lists together.                                        *)

\* What is on the screen has time left, and not more than the time it is shown for.
InTime ==
  /\ \A i \in Places : notices[i].id # 0 => notices[i].left \in 0..noticeTime
  /\ \A i \in Rows : history[i].no # 0 => history[i].left \in 1..historyTime
  /\ active => \E time \in SayTimes : scroll \in 1..time

\* A frame with everything drawn leaves notices, pickups and chat in their time: an
\* ordinary one, after any number of frames that did not draw them, and also the first
\* of a clock that is behind the one the times were set by (death.cpp:107,
\* saytext.cpp:113, ammohistory.cpp:114).
DrawnIsInTime == [][InTime' \/ ~(PlayFrame \/ PlayFrameOfEarlierClock)]_vars

\* When no more messages come every notice, pickup and panel goes, a countdown that
\* waits for the players excepted, and the chat is no longer drawn, however often
\* frames were drawn without them and the clock went back.
Clears ==
  <>[](/\ notices[0].id = 0 /\ Taken(history) = {} /\ ~active
       /\ \A p \in Panels : ~panels[p].on
       /\ countdown.on => countdown.waiting)
=============================================================================
