----------------------------- MODULE PickupHistory -----------------------------
(***************************************************************************)
(* The history of pickups on the right of the screen: HistoryResource      *)
(* (cl_dll/ammohistory.cpp, ammohistory.h).                                *)
(*                                                                         *)
(* The slots are taken in turn, from the bottom of the screen up and then  *)
(* from the bottom again; a slot is freed when its time is over, whatever  *)
(* its place, and the turn starts at the bottom once all are free.  An     *)
(* item with an unknown sprite takes its turn and writes nothing.          *)
(***************************************************************************)
EXTENDS HudClock

CONSTANTS
  Room,         \* slots there is room for on the screen, MAX_HISTORY at most
  HistoryTimes, \* values of hud_drawhistory_time
  MaxPickups    \* bound: pickups received

ASSUME PickupHistoryAssumption ==
  /\ Room \in 1..12
  /\ HistoryTimes \subseteq Nat \ {0} /\ HistoryTimes # {}
  /\ MaxPickups \in Nat

VARIABLES
  history,      \* rgAmmoHistory: which pickup is in each slot, 0 for none, and its time
  turn,         \* iCurrentHistorySlot
  historyTime,  \* HISTORY_DRAW_TIME
  pickups,      \* pickups received so far
  passedOver    \* history: an unknown item took the turn of a slot that was not free

historyVars == <<history, turn, historyTime, pickups, passedOver>>

Rows == 0..(Room - 1)
Vacant == [no |-> 0, left |-> 0]
Taken(h) == {i \in Rows : h[i].no # 0}

\* Type invariant of the history.
PickupHistoryOK ==
  /\ history \in [Rows -> [no : 0..MaxPickups, left : Int]]
  /\ turn \in 0..Room
  /\ historyTime \in Nat
  /\ pickups \in 0..MaxPickups
  /\ passedOver \in BOOLEAN

PickupHistoryInit ==
  /\ history = [i \in Rows |-> Vacant]
  /\ turn = 0
  /\ historyTime = 5
  /\ pickups = 0
  /\ passedOver = FALSE

\* Reset: the turn stays where it is.
ResetPickupHistory ==
  /\ history' = [i \in Rows |-> Vacant]
  /\ passedOver' = FALSE
  /\ UNCHANGED <<turn, historyTime, pickups>>

\* The slot whose turn it is: from the bottom again once the top is reached.
SlotInTurn == IF turn >= Room THEN 0 ELSE turn

\* AddToHistory: a weapon, an amount of ammunition that is not 0, or an item.
AddToHistory(time) ==
  /\ pickups < MaxPickups
  /\ pickups' = pickups + 1
  /\ turn' = SlotInTurn + 1
  /\ historyTime' = time
  /\ history' = [history EXCEPT ![SlotInTurn] = [no |-> pickups + 1, left |-> time]]
  /\ UNCHANGED passedOver

\* AddToHistory of an item whose sprite is not known.
AddUnknownItem ==
  /\ pickups < MaxPickups
  /\ pickups' = pickups + 1
  /\ turn' = SlotInTurn + 1
  /\ passedOver' = (passedOver \/ SlotInTurn \in Taken(history))
  /\ UNCHANGED <<history, historyTime>>

LaterPickup(e, dt) == IF e.no = 0 THEN e ELSE [e EXCEPT !.left = Later(@, dt)]

\* Mutant: a time set by a clock that was ahead is kept.
UnboundedPickup(e) == e

\* The entry, its time kept within bounds of the clock.
BoundedPickup(e) == [e EXCEPT !.left = Least(@, historyTime)]

\* The entry after a draw: emptied when its time is over.
DrawnPickup(e, dt) ==
  LET b == BoundedPickup(LaterPickup(e, dt))
  IN IF e.no = 0 THEN e ELSE IF b.left <= 0 THEN Vacant ELSE b

\* Mutant: the turn starts at the bottom whenever a slot is freed.
CheckClearHistoryAny(h) == IF h = history THEN turn ELSE 0

\* CheckClearHistory, called when a slot was freed.
CheckClearHistory(h) ==
  IF Taken(h) = {} /\ Taken(history) # {} THEN 0 ELSE turn

\* DrawAmmoHistory.
DrawAmmoHistory(dt) ==
  /\ history' = [i \in Rows |-> DrawnPickup(history[i], dt)]
  /\ turn' = CheckClearHistory(history')
  /\ passedOver' = (passedOver /\ Taken(history') # {})
  /\ UNCHANGED <<historyTime, pickups>>

\* A frame that does not draw the history only moves the clock.
SkipPickupHistory(dt) ==
  /\ history' = [i \in Rows |-> LaterPickup(history[i], dt)]
  /\ UNCHANGED <<turn, historyTime, pickups, passedOver>>
-----------------------------------------------------------------------------
(* Safety.                                                                 *)

\* How long before the slot comes in turn.
TurnsAway(i) == IF i >= SlotInTurn THEN i - SlotInTurn ELSE i + Room - SlotInTurn

\* Going round from the slot whose turn it is the pickups are in the order they came,
\* whichever have gone meanwhile: a new one only ever displaces the oldest, although
\* slots are freed out of turn and a reset empties the slots and not the turn; but an
\* unknown item that passes over a pickup makes it stay longer than later ones
\* (ammohistory.cpp:51, 77, 102).
OldestIsNext ==
  \/ passedOver
  \/ \A i, k \in Taken(history) : TurnsAway(i) < TurnsAway(k) => history[i].no < history[k].no
=============================================================================
