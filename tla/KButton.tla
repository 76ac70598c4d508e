------------------------------ MODULE KButton ------------------------------
(***************************************************************************)
(* One button of the player, kbutton_t of cl_dll/kbutton.h and             *)
(* cl_dll/input.cpp, between the keyboard and the commands that are sent.  *)
(*                                                                         *)
(* Several keys may be bound to the button, and the user may type its      *)
(* commands at the console: KeyDown and KeyUp keep in two slots which of   *)
(* these hold it.  CL_CreateMove samples it at its own pace, with          *)
(* CL_KeyState for a movement button and CL_ButtonBits for every button.   *)
(* While the weapon menu is open, CHud::UpdateClientData takes an attack   *)
(* for itself.  Keys, console, menu and commands come in any order.        *)
(*                                                                         *)
(* The button is one with a bit in the command.  Not modelled is what else *)
(* sets bits: the joystick, automatic jumps and duck taps.                 *)
(***************************************************************************)
EXTENDS Integers

CONSTANT Keys   \* the key numbers bound to the button

ASSUME KeyAssumption == Keys \subseteq Nat \ {0}

VARIABLES
  button,  \* which button it is: in_attack, a movement button, or another one
  down,    \* kbutton_t.down: the two slots
  state,   \* kbutton_t.state, as the set of its bits
  menu,    \* gpActiveSel # NULL: the weapon menu is open
  cmd,     \* the button in the last command: its bit, and CL_KeyState in quarters
  held,    \* the keys held down on the keyboard
  typed,   \* the button's "+" command was typed, and its "-" command not since
  frame,   \* history: what the button did since the last command
  active,  \* history: the last command was an active one, or there was none
  owed     \* history: it was pressed, and no command was sent since

kbutton == <<down, state>>
history == <<frame, active, owed>>
vars == <<button, down, state, menu, cmd, held, typed, frame, active, owed>>

None == 0          \* an empty slot
Console == -1      \* k of a command typed without a key number
IsDown == 1        \* the bits of state
ImpulseDown == 2
ImpulseUp == 4
Quarters == 0 .. 4

\* Type invariant.  Of the eight states one is not reached: an impulse down that is
\* followed by nothing.
TypeOK ==
  /\ button \in {"attack", "move", "other"}
  /\ down \in [{0, 1} -> Keys \cup {None, Console}]
  /\ state \subseteq {IsDown, ImpulseDown, ImpulseUp}
  /\ state # {ImpulseDown}
  /\ menu \in BOOLEAN
  /\ cmd \in [bit : BOOLEAN, move : Quarters]
  /\ held \subseteq Keys
  /\ typed \in BOOLEAN
  /\ frame \in [pressed : BOOLEAN, released : BOOLEAN]
  /\ active \in BOOLEAN
  /\ owed \in BOOLEAN

Quiet == [pressed |-> FALSE, released |-> FALSE]

Init ==
  /\ button \in {"attack", "move", "other"}
  /\ down = [i \in {0, 1} |-> None]
  /\ state = {}
  /\ menu = FALSE
  /\ cmd = [bit |-> FALSE, move |-> 0]
  /\ held = {}
  /\ typed = FALSE
  /\ frame = Quiet
  /\ active = TRUE
  /\ owed = FALSE
-----------------------------------------------------------------------------
(* KeyDown and KeyUp.                                                      *)

Holds(k) == \E i \in {0, 1} : down[i] = k

\* The slot that KeyDown fills or KeyUp empties: the first one, if it will do.
FirstSlot(k) == IF down[0] = k THEN 0 ELSE 1

\* A key that repeats, and a third key, change nothing.
KeyDown(k) ==
  IF Holds(k) \/ ~Holds(None) THEN UNCHANGED kbutton
  ELSE /\ down' = [down EXCEPT ![FirstSlot(None)] = k]
       /\ state' = IF IsDown \in state THEN state ELSE state \cup {IsDown, ImpulseDown}

\* Mutants: releases do not count as an impulse, forget what was pressed, or do not
\* look whether the other slot is empty.
KeyUpSilently(k) ==
  IF ~Holds(k) THEN UNCHANGED kbutton
  ELSE /\ down' = [down EXCEPT ![FirstSlot(k)] = None]
       /\ state' = IF down'[0] # None \/ down'[1] # None \/ IsDown \notin state THEN state
                   ELSE state \ {IsDown}
KeyUpForgets(k) ==
  IF ~Holds(k) THEN UNCHANGED kbutton
  ELSE /\ down' = [down EXCEPT ![FirstSlot(k)] = None]
       /\ state' = IF down'[0] # None \/ down'[1] # None \/ IsDown \notin state THEN state
                   ELSE {ImpulseUp}
KeyUpFirstSlot(k) ==
  IF ~Holds(k) THEN UNCHANGED kbutton
  ELSE /\ down' = [down EXCEPT ![FirstSlot(k)] = None]
       /\ state' = IF down'[1] # None \/ down[0] # k \/ IsDown \notin state THEN state
                   ELSE (state \ {IsDown}) \cup {ImpulseUp}

\* The last key that held the button takes it up.
KeyUp(k) ==
  IF ~Holds(k) THEN UNCHANGED kbutton
  ELSE /\ down' = [down EXCEPT ![FirstSlot(k)] = None]
       /\ state' = IF down'[0] # None \/ down'[1] # None \/ IsDown \notin state THEN state
                   ELSE (state \ {IsDown}) \cup {ImpulseUp}

\* KeyUp typed at the console clears all, "for unsticking".
KeyUpTyped ==
  /\ down' = [i \in {0, 1} |-> None]
  /\ state' = {ImpulseUp}
-----------------------------------------------------------------------------
(* The user.                                                               *)

Untouched == held = {} /\ ~typed

\* What the button did, told from its down bit alone.
Observe ==
  frame' = [pressed  |-> frame.pressed  \/ (IsDown \notin state /\ IsDown \in state'),
            released |-> frame.released \/ (IsDown \in state /\ IsDown \notin state')]

PressKey(k) ==
  /\ k \notin held
  /\ held' = held \cup {k}
  /\ KeyDown(k)
  /\ Observe
  /\ owed' = (owed \/ Untouched)
  /\ UNCHANGED <<button, menu, cmd, typed, active>>

\* A menu or the console takes the key: its binding is not executed.
PressSwallowed(k) ==
  /\ k \notin held
  /\ held' = held \cup {k}
  /\ UNCHANGED <<button, kbutton, menu, cmd, typed, history>>

\* A release is executed whatever became of the press.
ReleaseKey(k) ==
  /\ k \in held
  /\ held' = held \ {k}
  /\ KeyUp(k)
  /\ Observe
  /\ UNCHANGED <<button, menu, cmd, typed, active, owed>>

TypeDown ==
  /\ typed' = TRUE
  /\ KeyDown(Console)
  /\ Observe
  /\ owed' = (owed \/ Untouched)
  /\ UNCHANGED <<button, menu, cmd, held, active>>

TypeUp ==
  /\ typed' = FALSE
  /\ KeyUpTyped
  /\ frame' = [pressed |-> FALSE, released |-> TRUE]
  /\ owed' = FALSE
  /\ UNCHANGED <<button, menu, cmd, held, active>>

\* The user selects a weapon in the menu, or leaves the menu by another way.
ToggleMenu ==
  /\ menu' = ~menu
  /\ UNCHANGED <<button, kbutton, cmd, held, typed, history>>
-----------------------------------------------------------------------------
(* The frame.                                                              *)

\* CL_KeyState in quarters.
KeyState(bits) ==
  CASE ImpulseDown \in bits /\ ImpulseUp \notin bits -> IF IsDown \in bits THEN 2 ELSE 0
    [] ImpulseUp \in bits /\ ImpulseDown \notin bits -> 0
    [] {ImpulseDown, ImpulseUp} \cap bits = {}       -> IF IsDown \in bits THEN 4 ELSE 0
    [] {ImpulseDown, ImpulseUp} \subseteq bits       -> IF IsDown \in bits THEN 3 ELSE 1

\* Mutant: CL_KeyState leaves the impulse up.
SampledKeepingUp(act) ==
  IF act /\ button = "move" THEN state \ {ImpulseDown} ELSE state

\* CL_KeyState clears the impulses of a movement button, which an active command
\* samples before its bits are read.
Sampled(act) == IF act /\ button = "move" THEN state \cap {IsDown} ELSE state

\* CL_CreateMove: the samples when it is active, then CL_ButtonBits(1), then the
\* attack ignored while the player squelches voices.
CreateMove(act, squelch) ==
  /\ cmd' = [bit  |-> {IsDown, ImpulseDown} \cap Sampled(act) # {}
                       /\ ~(squelch /\ button = "attack"),
             move |-> IF act /\ button = "move" THEN KeyState(state) ELSE 0]
  /\ state' = Sampled(act) \ {ImpulseDown}
  /\ frame' = Quiet
  /\ active' = act
  /\ owed' = FALSE
  /\ UNCHANGED <<button, down, menu, held, typed>>

\* CHud::UpdateClientData with the menu open and attack among CL_ButtonBits(0):
\* the menu takes the attack (CHudAmmo::Think), and CL_ResetButtonBits clears the
\* state of in_attack, but not its slots.
UpdateClientData ==
  /\ button = "attack"
  /\ menu
  /\ {IsDown, ImpulseDown} \cap state # {}
  /\ menu' = FALSE
  /\ state' = state \ {IsDown, ImpulseDown, ImpulseUp}
  /\ Observe
  /\ owed' = FALSE
  /\ UNCHANGED <<button, down, cmd, held, typed, active>>

Next ==
  \/ \E k \in Keys : PressKey(k) \/ PressSwallowed(k) \/ ReleaseKey(k)
  \/ TypeDown
  \/ TypeUp
  \/ ToggleMenu
  \/ \E act, squelch \in BOOLEAN : CreateMove(act, squelch)
  \/ UpdateClientData

Spec == Init /\ [][Next]_vars
-----------------------------------------------------------------------------
(* Properties.                                                             *)

\* No key holds the button twice: one release would not let it go.  NeverStuck rests on it.
NoKeyTwice == down[0] = down[1] => down[0] = None

\* A button is down only while the user holds a key or has left it down from the
\* console, whatever was swallowed, ignored, repeated or released in any order.
NeverStuck == IsDown \in state => ~Untouched

\* A press of an untouched button reaches the next command, however short: in the
\* button's bit or, where the sample has taken the impulse, in the movement.  (An
\* attack while the player squelches voices is ignored on purpose.)
PressIsSent ==
  [][\A act \in BOOLEAN : CreateMove(act, FALSE) /\ owed => cmd'.bit \/ cmd'.move > 0]_vars

\* What CL_KeyState's comment promises, for what the button did since the last
\* command: a quarter if pressed and released, a half if pressed and held, nothing
\* if held then released, and one if held for the entire time.
Promised ==
  CASE frame.pressed /\ frame.released  -> IF IsDown \in state THEN 3 ELSE 1
    [] frame.pressed /\ ~frame.released -> 2
    [] ~frame.pressed /\ frame.released -> 0
    [] OTHER                            -> IF IsDown \in state THEN 4 ELSE 0

\* A movement button moves the player as promised, provided the command before was
\* an active one.
MovesAsPromised ==
  [][active /\ button = "move" /\ CreateMove(TRUE, FALSE) => cmd'.move = Promised]_vars

\* KeyUp: "still up (this should not happen)": a release that leaves no key holding
\* the button finds the button down.
StillUpNeverHappens ==
  [][\A k \in Keys :
       ReleaseKey(k) /\ Holds(k) /\ down' = [i \in {0, 1} |-> None] => IsDown \in state]_vars
=============================================================================
