------------------------------ MODULE WeaponMenu ------------------------------
(***************************************************************************)
(* The weapon menu: CHudAmmo and WeaponsResource (cl_dll/ammo.cpp,         *)
(* ammohistory.h), with the messages the server's player sends it          *)
(* (dlls/player.cpp, weapons.cpp).                                         *)
(*                                                                         *)
(* The menu's slots point at the weapons carried: once a frame the bits of *)
(* the client data are compared with the last ones, and a difference makes *)
(* every weapon be put into its slot or taken out of it.  The player opens *)
(* the menu and moves in it between frames, and attack selects.  Messages  *)
(* change the ammunition, hide the weapons or reset everything at any      *)
(* time.                                                                   *)
(*                                                                         *)
(* m_fPlayerDead is left out: it stays FALSE, since MsgFunc_CurWeapon      *)
(* returns for every weapon below 1 before it looks whether it is -1, the  *)
(* way the server says that the player is dead.  The client is not a       *)
(* spectator proxy.  Slot keys that a text menu or the viewport takes do   *)
(* not come here.                                                          *)
(***************************************************************************)
EXTENDS Integers, FiniteSets

CONSTANTS
  MaxWeapons,  \* MAX_WEAPONS
  Weapons,     \* ids of the weapons there are
  MaxSlots,    \* MAX_WEAPON_SLOTS
  MaxPlaces,   \* MAX_WEAPON_POSITIONS
  SlotOf,      \* iSlot of each weapon
  PlaceOf,     \* iSlotPos of each weapon
  Always,      \* weapons that can be selected without ammunition
  Ammo,        \* types of ammunition
  AmmoOf       \* iAmmoType and iAmmo2Type of each weapon

None == 0      \* a NULL pointer, and no weapon to select
List == -1     \* gpActiveSel = 1: the menu is shown with nothing selected

ASSUME WeaponMenuAssumption ==
  /\ MaxWeapons \in Nat
  /\ Weapons \subseteq 1..(MaxWeapons - 1)
  /\ MaxSlots \in Nat \ {0} /\ MaxPlaces \in Nat \ {0}
  /\ SlotOf \in [Weapons -> 0..(MaxSlots - 1)]
  /\ PlaceOf \in [Weapons -> 0..(MaxPlaces - 1)]
  /\ \A v, w \in Weapons : SlotOf[v] = SlotOf[w] /\ PlaceOf[v] = PlaceOf[w] => v = w
  /\ Always \subseteq Weapons
  /\ AmmoOf \in [Weapons -> SUBSET Ammo]

\* The weapon in the first place of the first slot is the crowbar, number 1: Think
\* depends on it.
ASSUME CrowbarAssumption == 1 \in Weapons /\ SlotOf[1] = 0 /\ PlaceOf[1] = 0

VARIABLES
  listed,      \* WeaponList messages have filled rgWeapons
  bits,        \* m_iWeaponBits: the weapons carried,
  suit,        \* and the suit
  oldBits,     \* iOldWeaponBits, without the suit
  oldSuit,
  slots,       \* rgSlots
  clip,        \* weapons with something in the clip
  ammo,        \* riAmmo: types of ammunition there is some of
  sel,         \* gpActiveSel
  cur,         \* m_pWeapon
  hidden,      \* m_iHideHUDDisplay hides the weapons or everything
  select       \* g_weaponselect

menuVars == <<listed, bits, suit, oldBits, oldSuit, slots, clip, ammo, sel, cur, hidden, select>>

SlotNumbers == 0..(MaxSlots - 1)
Places == 0..(MaxPlaces - 1)
Cells == SlotNumbers \X Places
CellOf(w) == <<SlotOf[w], PlaceOf[w]>>

\* Type invariant of the menu.
TypeOK ==
  /\ listed \in BOOLEAN /\ suit \in BOOLEAN /\ oldSuit \in BOOLEAN /\ hidden \in BOOLEAN
  /\ bits \subseteq Weapons /\ oldBits \subseteq Weapons /\ clip \subseteq Weapons
  /\ slots \in [Cells -> Weapons \cup {None}]
  /\ ammo \subseteq Ammo
  /\ sel \in Weapons \cup {None, List}
  /\ cur \in Weapons \cup {None}
  /\ select \in Weapons \cup {None}

Init ==
  /\ listed = FALSE
  /\ bits = {} /\ suit = FALSE
  /\ oldBits = {} /\ oldSuit = FALSE
  /\ slots = [c \in Cells |-> None]
  /\ clip = {}
  /\ ammo = {}
  /\ sel = None
  /\ cur = None
  /\ hidden = FALSE
  /\ select = None

\* HasAmmo of a weapon.
HasAmmo(w) == w \in Always \/ w \in clip \/ AmmoOf[w] \cap ammo # {}

\* The cells with a weapon that can be selected.
Selectable == {c \in Cells : slots[c] # None /\ HasAmmo(slots[c])}
-----------------------------------------------------------------------------
(* A frame: UpdateClientData stores the bits and calls Think.              *)

\* The elements of rgWeapons that stand for a cell: those without a weapon are all
\* zero, and stand for the first.
StandFor(c) ==
  {i \in 1..(MaxWeapons - 1) : IF listed /\ i \in Weapons THEN CellOf(i) = c ELSE c = <<0, 0>>}

\* Mutant: the elements are gone through upwards.
LastUpwards(c) == CHOOSE i \in StandFor(c) : \A k \in StandFor(c) : k <= i

\* The last of them to be gone through.
LastOf(c) == CHOOSE i \in StandFor(c) : \A k \in StandFor(c) : i <= k

\* PickupWeapon or DropWeapon of every element, from the last down.
PickedUpAndDropped(carried) ==
  [c \in Cells |->
     IF StandFor(c) = {} THEN slots[c]
     ELSE IF listed /\ LastOf(c) \in carried THEN LastOf(c)
     ELSE None]

\* Attack selects what the menu shows, or closes it when it shows nothing.
AttackSelects(attack) ==
  IF attack /\ sel # None
  THEN /\ select' = (IF sel = List THEN select ELSE sel)
       /\ sel' = None
  ELSE UNCHANGED <<select, sel>>

\* UpdateClientData and Think, with the bits of the client data.
Think(newBits, newSuit, attack) ==
  /\ bits' = newBits
  /\ suit' = newSuit
  /\ oldBits' = newBits
  /\ oldSuit' = newSuit
  /\ IF newBits # oldBits \/ newSuit # oldSuit
     THEN slots' = PickedUpAndDropped(newBits)
     ELSE UNCHANGED slots
  /\ AttackSelects(attack)
  /\ UNCHANGED <<listed, clip, ammo, cur, hidden>>

\* Mutant: no weapon to select is -1.
CL_CreateMoveMinus ==
  /\ select # None
  /\ select' = List
  /\ UNCHANGED <<listed, bits, suit, oldBits, oldSuit, slots, clip, ammo, sel, cur, hidden>>

\* CL_CreateMove sends the weapon to select with the command.
CL_CreateMove ==
  /\ select # None
  /\ select' = None
  /\ UNCHANGED <<listed, bits, suit, oldBits, oldSuit, slots, clip, ammo, sel, cur, hidden>>
-----------------------------------------------------------------------------
(* The player's commands.                                                  *)

Choose(w) == sel' = w /\ UNCHANGED <<listed, bits, suit, oldBits, oldSuit, slots, clip,
                                     ammo, cur, hidden, select>>

Before(c, d) == c[1] < d[1] \/ (c[1] = d[1] /\ c[2] < d[2])
FirstIn(cells) == CHOOSE c \in cells : \A d \in cells \ {c} : Before(c, d)
LastIn(cells) == CHOOSE c \in cells : \A d \in cells \ {c} : Before(d, c)

InSlot(s) == {c \in Selectable : c[1] = s}

\* GetFirstPos and GetNextActivePos.
GetFirstPos(s) == IF InSlot(s) = {} THEN None ELSE slots[FirstIn(InSlot(s))]
GetNextActivePos(s, p) ==
  LET after == {c \in InSlot(s) : c[2] > p}
  IN IF after = {} THEN None ELSE slots[FirstIn(after)]

\* Mutant: the slot is searched although the weapons are hidden.
CanSelectSlotHidden == suit /\ bits # {}

\* SelectSlot does nothing without the suit or weapons, or with the weapons hidden.
CanSelectSlot == ~hidden /\ suit /\ bits # {}

\* What SelectSlot finds: the slot's first weapon, or the one after the selected.
Found(s) ==
  IF sel \in Weapons /\ SlotOf[sel] = s
  THEN LET next == GetNextActivePos(s, PlaceOf[sel])
       IN IF next # None THEN next ELSE GetFirstPos(s)
  ELSE GetFirstPos(s)

\* With hud_fastswitch the only weapon of a slot is selected at once.
SwitchesFast(s, fast) ==
  /\ fast
  /\ ~(sel \in Weapons /\ SlotOf[sel] = s)
  /\ GetFirstPos(s) # None
  /\ GetNextActivePos(s, PlaceOf[GetFirstPos(s)]) = None

\* SelectSlot, from a slot key: there is one key more than there are slots with weapons.
SelectSlot(s, fast) ==
  /\ CanSelectSlot
  /\ IF SwitchesFast(s, fast)
     THEN /\ select' = GetFirstPos(s)
          /\ UNCHANGED <<listed, bits, suit, oldBits, oldSuit, slots, clip, ammo, sel, cur, hidden>>
     ELSE Choose(IF Found(s) # None THEN Found(s) ELSE IF fast THEN None ELSE List)

\* Where the search for the next weapon starts from.
From == IF sel \in {None, List} THEN cur ELSE sel

\* Mutant: the search starts at the weapon itself.
NextAfterSame(w) ==
  LET after == {c \in Selectable : w # None /\ ~Before(c, CellOf(w))}
  IN IF Selectable = {} THEN None
     ELSE slots[FirstIn(IF after = {} THEN Selectable ELSE after)]

\* The next selectable weapon after w, round from the last slot to the first.
NextAfter(w) ==
  LET after == {c \in Selectable : w # None /\ Before(CellOf(w), c)}
  IN IF Selectable = {} THEN None
     ELSE slots[FirstIn(IF after = {} THEN Selectable ELSE after)]

\* Mutant: the search starts over from the same end.
PrevBeforeFirst(w) ==
  LET before == {c \in Selectable : w # None /\ Before(c, CellOf(w))}
  IN IF Selectable = {} THEN None
     ELSE slots[IF before = {} THEN FirstIn(Selectable) ELSE LastIn(before)]

\* The one before w.
PrevBefore(w) ==
  LET before == {c \in Selectable : w # None /\ Before(c, CellOf(w))}
  IN IF Selectable = {} THEN None
     ELSE slots[LastIn(IF before = {} THEN Selectable ELSE before)]

UserCmd_NextWeapon == ~hidden /\ Choose(NextAfter(From))
UserCmd_PrevWeapon == ~hidden /\ Choose(PrevBefore(From))
UserCmd_Close == sel # None /\ Choose(None)

\* Mutant: DrawWList looks at what is carried, not at what can be selected.
DrawWListCarried ==
  /\ suit /\ ~hidden
  /\ sel \in Weapons /\ SlotOf[sel] > 0
  /\ \A c \in Cells : c[1] = SlotOf[sel] => slots[c] = None
  /\ Choose(List)

\* DrawWList: nothing stays selected in a slot without a weapon that can be selected,
\* the first slot excepted.
DrawWList ==
  /\ suit /\ ~hidden
  /\ sel \in Weapons /\ SlotOf[sel] > 0
  /\ GetFirstPos(SlotOf[sel]) = None
  /\ Choose(List)
-----------------------------------------------------------------------------
(* The server's messages.                                                  *)

\* Mutant: the old bits survive the reset of the slots.
ResetKeepsBits == oldBits' = oldBits /\ oldSuit' = oldSuit

\* WeaponsResource::Reset, of the bits.
ResetBits == oldBits' = {} /\ oldSuit' = FALSE

\* Reset, at the ResetHUD message of a spawn.  On the first spawn of a level the
\* WeaponList messages of all weapons come in the same packet.
ResetHUD(first) ==
  /\ sel' = None
  /\ hidden' = FALSE
  /\ ResetBits
  /\ slots' = [c \in Cells |-> None]
  /\ ammo' = {}
  /\ IF first THEN listed' = TRUE /\ clip' = {} ELSE UNCHANGED <<listed, clip>>
  /\ UNCHANGED <<bits, suit, cur, select>>

MsgFunc_AmmoX(type, some) ==
  /\ ammo' = IF some THEN ammo \cup {type} ELSE ammo \ {type}
  /\ UNCHANGED <<listed, bits, suit, oldBits, oldSuit, slots, clip, sel, cur, hidden, select>>

\* MsgFunc_CurWeapon, of a weapon: its clip, and whether it is the current one.
MsgFunc_CurWeapon(w, current, loaded) ==
  /\ listed
  /\ clip' = IF loaded THEN clip \cup {w} ELSE clip \ {w}
  /\ cur' = IF current THEN w ELSE cur
  /\ UNCHANGED <<listed, bits, suit, oldBits, oldSuit, slots, ammo, sel, hidden, select>>

\* MsgFunc_HideWeapon: closes the menu when the weapons are to be hidden.
MsgFunc_HideWeapon(hide) ==
  /\ hidden' = hide
  /\ sel' = IF hide THEN None ELSE sel
  /\ UNCHANGED <<listed, bits, suit, oldBits, oldSuit, slots, clip, ammo, cur, select>>
-----------------------------------------------------------------------------
Next ==
  \/ \E newBits \in SUBSET Weapons, newSuit, attack \in BOOLEAN : Think(newBits, newSuit, attack)
  \/ CL_CreateMove
  \/ \E s \in 0..MaxSlots, fast \in BOOLEAN : SelectSlot(s, fast)
  \/ UserCmd_NextWeapon
  \/ UserCmd_PrevWeapon
  \/ UserCmd_Close
  \/ DrawWList
  \/ \E first \in BOOLEAN : ResetHUD(first)
  \/ \E type \in Ammo, some \in BOOLEAN : MsgFunc_AmmoX(type, some)
  \/ \E w \in Weapons, current, loaded \in BOOLEAN : MsgFunc_CurWeapon(w, current, loaded)
  \/ \E hide \in BOOLEAN : MsgFunc_HideWeapon(hide)

\* Frames are drawn.
Spec == Init /\ [][Next]_menuVars /\ WF_menuVars(DrawWList)
-----------------------------------------------------------------------------
(* Properties.                                                             *)

\* The menu's slots are the weapons of the last bits it has seen, each in its own
\* place, through resets of the slots and of the bits in any order, and although
\* Think goes through weapons that do not exist as well (ammo.cpp:353, 308).
SlotsFollowBits ==
  \A c \in Cells, w \in Weapons :
    slots[c] = w <=> listed /\ w \in oldBits /\ CellOf(w) = c

\* The menu is closed while the weapons are hidden, whichever command or message came
\* first: an attack is not taken by a menu nobody sees (ammo.cpp:429, 547, 748, 789).
ClosedWhileHidden == hidden => sel = None

\* The weapon n presses of invnext after w.
After(w) ==
  LET press[n \in Nat] == IF n = 0 THEN w ELSE NextAfter(press[n - 1])
  IN press

\* From wherever one starts, as many presses of invnext as there are weapons to select
\* come to every one of them (ammo.cpp:746).
NextVisitsAll ==
  \A w \in Weapons \cup {None} :
    {After(w)[n] : n \in 1..Cardinality(Selectable)} = {slots[c] : c \in Selectable}

\* invprev goes back the way invnext came, round the ends as well, whatever has been
\* picked up, dropped or used up since the menu was opened (ammo.cpp:775, 787).
PrevGoesBack ==
  \A w \in Weapons :
    listed /\ w \in oldBits /\ HasAmmo(w) => PrevBefore(NextAfter(w)) = w

\* Nothing stays selected in a slot in which everything has been dropped or has run
\* out while the menu was open, the first slot excepted (ammo.cpp:1068).
StaleSelection == /\ suit /\ ~hidden
                  /\ sel \in Weapons /\ SlotOf[sel] > 0
                  /\ \A w \in Weapons : SlotOf[w] = SlotOf[sel] => ~(slots[CellOf(w)] = w /\ HasAmmo(w))
NothingStaleStays == StaleSelection ~> ~StaleSelection
=============================================================================
