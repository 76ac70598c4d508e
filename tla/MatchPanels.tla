------------------------------ MODULE MatchPanels ------------------------------
(***************************************************************************)
(* The panels of a match: votes, settings, the next map, the player looked *)
(* at and the player's own timer (cl_dll/hud_vote.cpp, hud_settings.cpp,   *)
(* hud_nextmap.cpp, hud_playerid.cpp, hud_customtimer.cpp), and the        *)
(* countdown (hud_countdown.cpp).                                          *)
(*                                                                         *)
(* A panel is active from its message until its time, draw_until, is over. *)
(* Nothing keeps draw_until within bounds of the clock: it is VidInit that *)
(* takes the panels of the last level away.  A message that comes between  *)
(* VidInit and the first frame still reads the last level's clock.         *)
(***************************************************************************)
EXTENDS HudClock

CONSTANTS
  Panels,       \* those with a time: "vote", "settings", "nextmap", ...
  PanelTimes,   \* [Panels -> SUBSET Nat]: how long each may be shown
  Hideable,     \* panels a message may also hide: "vote"
  Vanishing,    \* panels about a player, who may leave: "playerid"
  CountdownTime,
  MaxPanelMessages   \* bound: messages to the panels

ASSUME MatchPanelsAssumption ==
  /\ PanelTimes \in [Panels -> SUBSET Nat]
  /\ Hideable \subseteq Panels /\ Vanishing \subseteq Panels
  /\ CountdownTime \in Nat
  /\ MaxPanelMessages \in Nat

VARIABLES
  panels,       \* HUD_ACTIVE and draw_until - m_flTime of each panel
  countdown,    \* of the countdown: HUD_ACTIVE, draw_until - m_flTime, seconds_left = 50
  early,        \* history: panels with a time read from the last level's clock
  panelMessages \* messages to the panels so far

panelVars == <<panels, countdown, early, panelMessages>>

Off == [on |-> FALSE, left |-> 0]

\* Type invariant of the panels.
MatchPanelsOK ==
  /\ panels \in [Panels -> [on : BOOLEAN, left : Int]]
  /\ countdown \in [on : BOOLEAN, left : Int, waiting : BOOLEAN]
  /\ early \subseteq Panels
  /\ panelMessages \in 0..MaxPanelMessages

MatchPanelsInit ==
  /\ panels = [p \in Panels |-> Off]
  /\ countdown = [on |-> FALSE, left |-> LongPast, waiting |-> FALSE]
  /\ early = {}
  /\ panelMessages = 0

\* Mutant: the panels stay.
VidInitPanelsKept ==
  /\ countdown' = [countdown EXCEPT !.on = FALSE]
  /\ early' = {}
  /\ UNCHANGED <<panels, panelMessages>>

\* VidInit of every panel: the countdown keeps its time and its seconds.
VidInitPanels ==
  /\ panels' = [p \in Panels |-> Off]
  /\ countdown' = [countdown EXCEPT !.on = FALSE]
  /\ early' = {}
  /\ UNCHANGED panelMessages
-----------------------------------------------------------------------------
(* The messages.                                                           *)

PanelMessage == panelMessages < MaxPanelMessages /\ panelMessages' = panelMessages + 1

\* MsgFunc_Vote, Settings, Nextmap, PlayerId and UserCmd_CustomTimer: fresh tells
\* whether no frame of this level has been drawn.
ShowPanel(p, time, fresh) ==
  /\ PanelMessage
  /\ panels' = [panels EXCEPT ![p] = [on |-> TRUE, left |-> time]]
  /\ early' = IF fresh THEN early \cup {p} ELSE early \ {p}
  /\ UNCHANGED countdown

\* MsgFunc_Vote, of a hidden vote.
HidePanel(p) ==
  /\ PanelMessage
  /\ p \in Hideable
  /\ panels' = [panels EXCEPT ![p] = Off]
  /\ early' = early \ {p}
  /\ UNCHANGED countdown

\* What a countdown message may say: -1 seconds, 50, at most 10 with a sound, or else.
CountdownSeconds == {"none", "fifty", "few with a sound", "other"}

\* MsgFunc_Countdown: of 50 seconds the panel waits for the players, of -1 it goes;
\* only a message with a sound, of at most 10 seconds, sets the time.
MsgFunc_Countdown(seconds) ==
  /\ PanelMessage
  /\ countdown' = [on |-> seconds # "none",
                   left |-> IF seconds = "few with a sound" THEN CountdownTime ELSE countdown.left,
                   waiting |-> seconds = "fifty"]
  /\ UNCHANGED <<panels, early>>
-----------------------------------------------------------------------------
(* A frame, dt after the last one.                                         *)

LaterPanel(s, dt) == IF s.on THEN [s EXCEPT !.left = Later(@, dt)] ELSE s

\* Draw of a panel; gone are the panels whose player has left.
DrawnPanel(p, dt, gone) ==
  LET s == LaterPanel(panels[p], dt)
  IN IF s.left <= 0 \/ p \in gone THEN Off ELSE s

LaterCountdown(dt) == [countdown EXCEPT !.left = Later(@, dt)]

\* Draw of the panels and of the countdown.
DrawPanels(dt, gone) ==
  /\ panels' = [p \in Panels |-> DrawnPanel(p, dt, gone)]
  /\ countdown' = [LaterCountdown(dt) EXCEPT
       !.on = @ /\ (countdown.waiting \/ LaterCountdown(dt).left > 0)]
  /\ early' = {p \in early : panels'[p].on}
  /\ UNCHANGED panelMessages

\* A frame that does not draw the panels only moves the clock.
SkipPanels(dt) ==
  /\ panels' = [p \in Panels |-> LaterPanel(panels[p], dt)]
  /\ countdown' = LaterCountdown(dt)
  /\ UNCHANGED <<early, panelMessages>>
-----------------------------------------------------------------------------
(* Safety.                                                                 *)

\* No panel is shown for longer than its message said, although draw_until is of a
\* clock that restarts with the level: VidInit has taken it away by then, unless its
\* message came before the first frame of the level
\* (hud_vote.cpp:31, hud_settings.cpp:40, hud_nextmap.cpp:27).
PanelsInTime ==
  \A p \in Panels : panels[p].on /\ p \notin early =>
    \E time \in PanelTimes[p] : panels[p].left <= time
=============================================================================
