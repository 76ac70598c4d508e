--------------------------- MODULE WeaponMenuProofs ---------------------------
(***************************************************************************)
(* For any weapons, slots and ammunition: the menu is well typed, its      *)
(* slots hold exactly the weapons of the last bits, it is closed while the *)
(* weapons are hidden, invnext comes to every weapon there is to select,   *)
(* and invprev is its way back.                                            *)
(***************************************************************************)
EXTENDS WeaponMenu, NaturalFacts

\* What the slots are told from.
slotVars == <<listed, oldBits, slots>>
-----------------------------------------------------------------------------
(* The order of the cells.                                                  *)

\* No weapon is one of the special values, and weapons are known by their cells.
LEMMA WeaponFacts ==
  /\ None \notin Weapons /\ List \notin Weapons /\ None # List
  /\ \A w \in Weapons : w \in Int /\ 1 <= w /\ CellOf(w) \in Cells
  /\ \A v, w \in Weapons : CellOf(v) = CellOf(w) => v = w
BY WeaponMenuAssumption DEF WeaponMenuAssumption, None, List, CellOf, Cells, SlotNumbers, Places

\* Cells are pairs of natural numbers.
LEMMA CellType ==
  ASSUME NEW c \in Cells
  PROVE  c = <<c[1], c[2]>> /\ c[1] \in Int /\ c[2] \in Int
BY DEF Cells, SlotNumbers, Places

\* Before is a strict order in which any two cells are comparable.
LEMMA CellsInOrder ==
  ASSUME NEW c \in Cells, NEW d \in Cells
  PROVE  /\ c = d \/ Before(c, d) \/ Before(d, c)
         /\ ~(Before(c, d) /\ Before(d, c)) /\ ~Before(c, c)
         /\ \A e \in Cells : Before(c, d) /\ Before(d, e) => Before(c, e)
<1>1. c = <<c[1], c[2]>> /\ d = <<d[1], d[2]>>
  BY CellType
<1>2. c[1] \in Int /\ c[2] \in Int /\ d[1] \in Int /\ d[2] \in Int
  BY CellType
<1>3. c = d \/ Before(c, d) \/ Before(d, c)
  BY <1>1, <1>2 DEF Before
<1>4. ~(Before(c, d) /\ Before(d, c)) /\ ~Before(c, c)
  BY <1>2 DEF Before
<1>5. ASSUME NEW e \in Cells, Before(c, d), Before(d, e)
      PROVE  Before(c, e)
  <2>1. e[1] \in Int /\ e[2] \in Int
    BY CellType
  <2> QED BY <1>2, <1>5, <2>1 DEF Before
<1> QED BY <1>3, <1>4, <1>5

\* There are finitely many cells.
LEMMA CellsFinite == IsFiniteSet(Cells)
<1>1. MaxSlots - 1 \in Int /\ MaxPlaces - 1 \in Int /\ 0 \in Int
  BY WeaponMenuAssumption DEF WeaponMenuAssumption
<1>2. IsFiniteSet(SlotNumbers) /\ IsFiniteSet(Places)
  BY <1>1, FS_Interval DEF SlotNumbers, Places
<1> QED BY <1>2, FS_Product DEF Cells

\* A set of cells that is not empty has a first and a last one.
LEMMA FirstExists ==
  ASSUME NEW S \in SUBSET Cells, S # {}
  PROVE  \E c \in S : \A d \in S \ {c} : Before(c, d)
<1> DEFINE Down(c) == {e \in Cells : e = c \/ Before(e, c)}
           F == {Down(c) : c \in S}
           R == StrictSubsetOrdering(Cells)
<1>1. F \subseteq FiniteSubsetsOf(Cells) /\ F # {}
  <2>1. \A c \in S : Down(c) \in SUBSET Cells
    OBVIOUS
  <2>2. \A T \in SUBSET Cells : T \in FiniteSubsetsOf(Cells)
    BY CellsFinite, FS_Subset DEF FiniteSubsetsOf
  <2> HIDE DEF Down
  <2> QED BY <2>1, <2>2
<1>2. IsWellFoundedOn(R, FiniteSubsetsOf(Cells))
  BY FS_StrictSubsetOrderingWellFounded
<1>3. PICK U \in F : \A V \in F : ~(<<V, U>> \in R)
  <2> HIDE DEF F, R
  <2> QED BY <1>1, <1>2, WFMin
<1>4. PICK x \in S : U = Down(x)
  BY <1>3
<1>5. ASSUME NEW y \in S \ {x}, ~Before(x, y)
      PROVE  FALSE
  <2>0. x \in Cells /\ y \in Cells
    OBVIOUS
  <2>1. Before(y, x)
    BY <1>5, <2>0, CellsInOrder
  <2>2. Down(y) \subseteq Down(x)
    BY <2>0, <2>1, CellsInOrder
  <2>3. x \in Down(x) /\ x \notin Down(y)
    BY <1>5, <2>0
  <2>4. Down(x) \in SUBSET Cells /\ Down(y) \in SUBSET Cells /\ Down(y) # Down(x)
    BY <2>3
  <2>5. <<Down(y), Down(x)>> \in R
    <3> HIDE DEF Down
    <3> QED BY <2>2, <2>4 DEF StrictSubsetOrdering
  <2>6. Down(y) \in F
    OBVIOUS
  <2> QED BY <1>3, <1>4, <2>5, <2>6
<1> QED BY <1>5

LEMMA LastExists ==
  ASSUME NEW S \in SUBSET Cells, S # {}
  PROVE  \E c \in S : \A d \in S \ {c} : Before(d, c)
<1> DEFINE Up(c) == {e \in Cells : e = c \/ Before(c, e)}
           F == {Up(c) : c \in S}
           R == StrictSubsetOrdering(Cells)
<1>1. F \subseteq FiniteSubsetsOf(Cells) /\ F # {}
  <2>1. \A c \in S : Up(c) \in SUBSET Cells
    OBVIOUS
  <2>2. \A T \in SUBSET Cells : T \in FiniteSubsetsOf(Cells)
    BY CellsFinite, FS_Subset DEF FiniteSubsetsOf
  <2> HIDE DEF Up
  <2> QED BY <2>1, <2>2
<1>2. IsWellFoundedOn(R, FiniteSubsetsOf(Cells))
  BY FS_StrictSubsetOrderingWellFounded
<1>3. PICK U \in F : \A V \in F : ~(<<V, U>> \in R)
  <2> HIDE DEF F, R
  <2> QED BY <1>1, <1>2, WFMin
<1>4. PICK x \in S : U = Up(x)
  BY <1>3
<1>5. ASSUME NEW y \in S \ {x}, ~Before(y, x)
      PROVE  FALSE
  <2>0. x \in Cells /\ y \in Cells
    OBVIOUS
  <2>1. Before(x, y)
    BY <1>5, <2>0, CellsInOrder
  <2>2. Up(y) \subseteq Up(x)
    BY <2>0, <2>1, CellsInOrder
  <2>3. x \in Up(x) /\ x \notin Up(y)
    BY <1>5, <2>0
  <2>4. Up(x) \in SUBSET Cells /\ Up(y) \in SUBSET Cells /\ Up(y) # Up(x)
    BY <2>3
  <2>5. <<Up(y), Up(x)>> \in R
    <3> HIDE DEF Up
    <3> QED BY <2>2, <2>4 DEF StrictSubsetOrdering
  <2>6. Up(y) \in F
    OBVIOUS
  <2> QED BY <1>3, <1>4, <2>5, <2>6
<1> QED BY <1>5
-----------------------------------------------------------------------------
(* What the searches find.                                                  *)

LEMMA FirstInIn ==
  ASSUME NEW S \in SUBSET Cells, S # {}
  PROVE  FirstIn(S) \in S
BY FirstExists DEF FirstIn

LEMMA LastInIn ==
  ASSUME NEW S \in SUBSET Cells, S # {}
  PROVE  LastIn(S) \in S
BY LastExists DEF LastIn

\* Whatever is searched for, a weapon or none is found.
LEMMA FoundType ==
  ASSUME TypeOK
  PROVE  /\ \A s : GetFirstPos(s) \in Weapons \cup {None} /\ Found(s) \in Weapons \cup {None}
         /\ \A w : NextAfter(w) \in Weapons \cup {None} /\ PrevBefore(w) \in Weapons \cup {None}
<1>0. slots \in [Cells -> Weapons \cup {None}]
  BY DEF TypeOK
<1>1. Selectable \subseteq Cells /\ \A s : InSlot(s) \subseteq Cells
  BY DEF Selectable, InSlot
<1>2. \A S \in SUBSET Cells : S # {} => /\ slots[FirstIn(S)] \in Weapons \cup {None}
                                        /\ slots[LastIn(S)] \in Weapons \cup {None}
  BY <1>0, FirstInIn, LastInIn
<1>3. \A s : GetFirstPos(s) \in Weapons \cup {None}
  BY <1>1, <1>2 DEF GetFirstPos
<1>4. ASSUME NEW s, NEW p
      PROVE  GetNextActivePos(s, p) \in Weapons \cup {None}
  <2>1. {c \in InSlot(s) : c[2] > p} \in SUBSET Cells
    BY <1>1
  <2> QED BY <1>2, <2>1 DEF GetNextActivePos
<1>5. \A s : Found(s) \in Weapons \cup {None}
  BY <1>3, <1>4 DEF Found
<1>6. ASSUME NEW w
      PROVE  NextAfter(w) \in Weapons \cup {None}
  <2>1. {c \in Selectable : w # None /\ Before(CellOf(w), c)} \in SUBSET Cells
    BY <1>1
  <2> QED BY <1>1, <1>2, <2>1 DEF NextAfter
<1>7. ASSUME NEW w
      PROVE  PrevBefore(w) \in Weapons \cup {None}
  <2>1. {c \in Selectable : w # None /\ Before(c, CellOf(w))} \in SUBSET Cells
    BY <1>1
  <2> QED BY <1>1, <1>2, <2>1 DEF PrevBefore
<1> QED BY <1>3, <1>5, <1>6, <1>7
-----------------------------------------------------------------------------
(* Types.                                                                   *)

\* A choice is typed if what is chosen is.
LEMMA ChooseType ==
  ASSUME TypeOK, NEW w \in Weapons \cup {None, List}, Choose(w)
  PROVE  TypeOK'
BY DEF TypeOK, Choose

LEMMA TypeStep == TypeOK /\ [Next]_menuVars => TypeOK'
<1> SUFFICES ASSUME TypeOK, [Next]_menuVars PROVE TypeOK'
  OBVIOUS
<1>1. ASSUME NEW newBits \in SUBSET Weapons, NEW newSuit \in BOOLEAN, NEW attack \in BOOLEAN,
             Think(newBits, newSuit, attack)
      PROVE  TypeOK'
  <2>1. slots' \in [Cells -> Weapons \cup {None}]
    BY <1>1 DEF Think, PickedUpAndDropped, TypeOK
  <2>2. select' \in Weapons \cup {None} /\ sel' \in Weapons \cup {None, List}
    BY <1>1 DEF Think, AttackSelects, TypeOK
  <2> QED BY <1>1, <2>1, <2>2 DEF Think, TypeOK
<1>2. CASE CL_CreateMove
  BY <1>2 DEF CL_CreateMove, TypeOK
<1>3. ASSUME NEW s \in 0..MaxSlots, NEW fast \in BOOLEAN, SelectSlot(s, fast)
      PROVE  TypeOK'
  <2>1. CASE SwitchesFast(s, fast)
    <3>1. select' \in Weapons \cup {None}
      BY <1>3, <2>1, FoundType DEF SelectSlot
    <3> QED BY <1>3, <2>1, <3>1 DEF SelectSlot, TypeOK
  <2>2. CASE ~SwitchesFast(s, fast)
    <3> DEFINE w == IF Found(s) # None THEN Found(s) ELSE IF fast THEN None ELSE List
    <3>1. w \in Weapons \cup {None, List} /\ Choose(w)
      BY <1>3, <2>2, FoundType DEF SelectSlot
    <3> QED BY <3>1, ChooseType
  <2> QED BY <2>1, <2>2
<1>4. CASE UserCmd_NextWeapon \/ UserCmd_PrevWeapon
  BY <1>4, FoundType, ChooseType DEF UserCmd_NextWeapon, UserCmd_PrevWeapon
<1>5. CASE UserCmd_Close \/ DrawWList
  BY <1>5, ChooseType DEF UserCmd_Close, DrawWList
<1>6. ASSUME NEW first \in BOOLEAN, ResetHUD(first)
      PROVE  TypeOK'
  <2>1. slots' \in [Cells -> Weapons \cup {None}]
    BY <1>6 DEF ResetHUD
  <2>2. listed' \in BOOLEAN /\ clip' \subseteq Weapons
    BY <1>6 DEF ResetHUD, TypeOK
  <2> QED BY <1>6, <2>1, <2>2 DEF ResetHUD, ResetBits, TypeOK
<1>7. ASSUME NEW type \in Ammo, NEW some \in BOOLEAN, MsgFunc_AmmoX(type, some)
      PROVE  TypeOK'
  BY <1>7 DEF MsgFunc_AmmoX, TypeOK
<1>8. ASSUME NEW w \in Weapons, NEW current \in BOOLEAN, NEW loaded \in BOOLEAN,
             MsgFunc_CurWeapon(w, current, loaded)
      PROVE  TypeOK'
  BY <1>8 DEF MsgFunc_CurWeapon, TypeOK
<1>9. ASSUME NEW hide \in BOOLEAN, MsgFunc_HideWeapon(hide)
      PROVE  TypeOK'
  BY <1>9 DEF MsgFunc_HideWeapon, TypeOK
<1>10. CASE UNCHANGED menuVars
  BY <1>10 DEF TypeOK, menuVars
<1> QED BY <1>1, <1>2, <1>3, <1>4, <1>5, <1>6, <1>7, <1>8, <1>9, <1>10 DEF Next

\* The menu is well typed (ammo.cpp, ammohistory.h): whatever is searched for in the
\* slots is a weapon or none.
THEOREM TypeCorrect == Spec => []TypeOK
<1>1. Init => TypeOK
  BY DEF Init, TypeOK
<1> QED BY <1>1, TypeStep, PTL DEF Spec
-----------------------------------------------------------------------------
(* The slots follow the bits.                                               *)

\* A weapon's own element is the last that Think goes through of those that stand for
\* its cell: the elements without a weapon stand for the crowbar's, and it is the first.
LEMMA LastIsTheWeapon ==
  ASSUME listed, NEW w \in Weapons
  PROVE  StandFor(CellOf(w)) # {} /\ LastOf(CellOf(w)) = w
<1> DEFINE S == StandFor(CellOf(w))
<1>1. w \in S /\ \A i \in S : i \in Int /\ 1 <= i /\ (i \in Weapons => i = w)
  BY WeaponFacts, WeaponMenuAssumption DEF StandFor, WeaponMenuAssumption
<1>2. \A i \in S : w <= i
  <2>1. CASE CellOf(w) = <<0, 0>>
    <3>1. w = 1
      BY <2>1, WeaponFacts, CrowbarAssumption DEF CrowbarAssumption, CellOf
    <3> QED BY <1>1, <3>1
  <2>2. CASE CellOf(w) # <<0, 0>>
    <3>1. \A i \in S : i \in Weapons
      BY <2>2 DEF StandFor
    <3> QED BY <1>1, <3>1, WeaponFacts
  <2> QED BY <2>1, <2>2
<1>3. \A i \in S : (\A k \in S : i <= k) => i = w
  BY <1>1, <1>2, WeaponFacts
<1> QED BY <1>1, <1>2, <1>3 DEF LastOf

\* Once there are weapons, the last element of any cell that any stands for does.
LEMMA LastStands ==
  ASSUME listed, NEW c \in Cells, StandFor(c) # {}, LastOf(c) \in Weapons
  PROVE  CellOf(LastOf(c)) = c
<1>1. CASE \E w \in Weapons : CellOf(w) = c
  BY <1>1, LastIsTheWeapon
<1>2. CASE ~\E w \in Weapons : CellOf(w) = c
  <2>1. c # <<0, 0>>
    BY <1>2, CrowbarAssumption DEF CrowbarAssumption, CellOf
  <2>2. StandFor(c) = {}
    BY <1>2, <2>1, WeaponMenuAssumption DEF StandFor, WeaponMenuAssumption
  <2> QED BY <2>2
<1> QED BY <1>1, <1>2

\* Picking up and dropping every weapon puts exactly those carried into their places.
LEMMA PickedUpFollows ==
  ASSUME SlotsFollowBits, listed \in BOOLEAN, NEW carried \in SUBSET Weapons,
         NEW c \in Cells, NEW w \in Weapons
  PROVE  PickedUpAndDropped(carried)[c] = w <=> listed /\ w \in carried /\ CellOf(w) = c
<1>1. CASE CellOf(w) = c /\ listed
  <2>1. StandFor(c) # {} /\ LastOf(c) = w
    BY <1>1, LastIsTheWeapon
  <2>2. PickedUpAndDropped(carried)[c] = IF w \in carried THEN w ELSE None
    BY <1>1, <2>1 DEF PickedUpAndDropped
  <2> QED BY <1>1, <2>2, WeaponFacts
<1>2. CASE ~(CellOf(w) = c /\ listed)
  <2>1. slots[c] # w
    BY <1>2 DEF SlotsFollowBits
  <2>2. CASE StandFor(c) = {}
    BY <1>2, <2>1, <2>2 DEF PickedUpAndDropped
  <2>3. CASE StandFor(c) # {} /\ ~(listed /\ LastOf(c) \in carried)
    BY <1>2, <2>3, WeaponFacts DEF PickedUpAndDropped
  <2>4. CASE StandFor(c) # {} /\ listed /\ LastOf(c) \in carried
    <3>1. CellOf(LastOf(c)) = c
      BY <2>4, LastStands
    <3>2. LastOf(c) # w
      BY <1>2, <2>4, <3>1
    <3> QED BY <1>2, <2>4, <3>2 DEF PickedUpAndDropped
  <2> QED BY <2>2, <2>3, <2>4
<1> QED BY <1>1, <1>2

LEMMA SlotsStep == TypeOK /\ SlotsFollowBits /\ [Next]_menuVars => SlotsFollowBits'
<1> SUFFICES ASSUME TypeOK, SlotsFollowBits, [Next]_menuVars PROVE SlotsFollowBits'
  OBVIOUS
<1>0. ASSUME UNCHANGED slotVars
      PROVE  SlotsFollowBits'
  BY <1>0 DEF slotVars, SlotsFollowBits
<1>1. ASSUME NEW newBits \in SUBSET Weapons, NEW newSuit \in BOOLEAN, NEW attack \in BOOLEAN,
             Think(newBits, newSuit, attack)
      PROVE  SlotsFollowBits'
  <2>1. oldBits' = newBits /\ listed' = listed
    BY <1>1 DEF Think
  <2>2. CASE newBits # oldBits \/ newSuit # oldSuit
    <3>1. slots' = PickedUpAndDropped(newBits)
      BY <1>1, <2>2 DEF Think
    <3>2. \A c \in Cells, w \in Weapons :
            slots'[c] = w <=> listed /\ w \in newBits /\ CellOf(w) = c
      BY <3>1, PickedUpFollows DEF TypeOK
    <3> QED BY <2>1, <3>2 DEF SlotsFollowBits
  <2>3. CASE ~(newBits # oldBits \/ newSuit # oldSuit)
    BY <1>0, <1>1, <2>1, <2>3 DEF Think, slotVars
  <2> QED BY <2>2, <2>3
<1>2. CASE CL_CreateMove
  BY <1>0, <1>2 DEF CL_CreateMove, slotVars
<1>3. ASSUME NEW w, Choose(w)
      PROVE  SlotsFollowBits'
  BY <1>0, <1>3 DEF Choose, slotVars
<1>4. ASSUME NEW s \in 0..MaxSlots, NEW fast \in BOOLEAN, SelectSlot(s, fast)
      PROVE  SlotsFollowBits'
  <2>1. CASE SwitchesFast(s, fast)
    BY <1>0, <1>4, <2>1 DEF SelectSlot, slotVars
  <2>2. CASE ~SwitchesFast(s, fast)
    BY <1>3, <1>4, <2>2 DEF SelectSlot
  <2> QED BY <2>1, <2>2
<1>5. CASE UserCmd_NextWeapon \/ UserCmd_PrevWeapon \/ UserCmd_Close \/ DrawWList
  BY <1>3, <1>5 DEF UserCmd_NextWeapon, UserCmd_PrevWeapon, UserCmd_Close, DrawWList
<1>6. ASSUME NEW first \in BOOLEAN, ResetHUD(first)
      PROVE  SlotsFollowBits'
  BY <1>6, WeaponFacts DEF ResetHUD, ResetBits, SlotsFollowBits
<1>7. ASSUME NEW type \in Ammo, NEW some \in BOOLEAN, MsgFunc_AmmoX(type, some)
      PROVE  SlotsFollowBits'
  BY <1>0, <1>7 DEF MsgFunc_AmmoX, slotVars
<1>8. ASSUME NEW w \in Weapons, NEW current \in BOOLEAN, NEW loaded \in BOOLEAN,
             MsgFunc_CurWeapon(w, current, loaded)
      PROVE  SlotsFollowBits'
  BY <1>0, <1>8 DEF MsgFunc_CurWeapon, slotVars
<1>9. ASSUME NEW hide \in BOOLEAN, MsgFunc_HideWeapon(hide)
      PROVE  SlotsFollowBits'
  BY <1>0, <1>9 DEF MsgFunc_HideWeapon, slotVars
<1>10. CASE UNCHANGED menuVars
  BY <1>0, <1>10 DEF menuVars, slotVars
<1> QED BY <1>1, <1>2, <1>4, <1>5, <1>6, <1>7, <1>8, <1>9, <1>10 DEF Next

\* The slots of the menu hold exactly the weapons of the last bits Think has seen, each
\* in its own place, although Think also goes through weapons that do not exist, whose
\* place is the crowbar's (ammo.cpp:353).
THEOREM SlotsHoldTheBits == Spec => []SlotsFollowBits
<1>1. Init => SlotsFollowBits
  BY WeaponFacts DEF Init, SlotsFollowBits
<1> QED BY <1>1, TypeCorrect, SlotsStep, PTL DEF Spec
-----------------------------------------------------------------------------
(* The menu and the hidden weapons.                                         *)

LEMMA ClosedStep == ClosedWhileHidden /\ [Next]_menuVars => ClosedWhileHidden'
<1> SUFFICES ASSUME ClosedWhileHidden, [Next]_menuVars PROVE ClosedWhileHidden'
  OBVIOUS
<1>0. ASSUME UNCHANGED <<sel, hidden>>
      PROVE  ClosedWhileHidden'
  BY <1>0 DEF ClosedWhileHidden
<1>1. ASSUME NEW newBits \in SUBSET Weapons, NEW newSuit \in BOOLEAN, NEW attack \in BOOLEAN,
             Think(newBits, newSuit, attack)
      PROVE  ClosedWhileHidden'
  BY <1>1 DEF Think, AttackSelects, ClosedWhileHidden
<1>2. CASE CL_CreateMove
  BY <1>0, <1>2 DEF CL_CreateMove
<1>3. ASSUME NEW w, Choose(w), ~hidden \/ w = None
      PROVE  ClosedWhileHidden'
  BY <1>3 DEF Choose, ClosedWhileHidden
<1>4. ASSUME NEW s \in 0..MaxSlots, NEW fast \in BOOLEAN, SelectSlot(s, fast)
      PROVE  ClosedWhileHidden'
  <2>1. CASE SwitchesFast(s, fast)
    BY <1>0, <1>4, <2>1 DEF SelectSlot
  <2>2. CASE ~SwitchesFast(s, fast)
    BY <1>3, <1>4, <2>2 DEF SelectSlot, CanSelectSlot
  <2> QED BY <2>1, <2>2
<1>5. CASE UserCmd_NextWeapon \/ UserCmd_PrevWeapon \/ UserCmd_Close \/ DrawWList
  BY <1>3, <1>5 DEF UserCmd_NextWeapon, UserCmd_PrevWeapon, UserCmd_Close, DrawWList
<1>6. ASSUME NEW first \in BOOLEAN, ResetHUD(first)
      PROVE  ClosedWhileHidden'
  BY <1>6 DEF ResetHUD, ClosedWhileHidden
<1>7. ASSUME NEW type \in Ammo, NEW some \in BOOLEAN, MsgFunc_AmmoX(type, some)
      PROVE  ClosedWhileHidden'
  BY <1>0, <1>7 DEF MsgFunc_AmmoX
<1>8. ASSUME NEW w \in Weapons, NEW current \in BOOLEAN, NEW loaded \in BOOLEAN,
             MsgFunc_CurWeapon(w, current, loaded)
      PROVE  ClosedWhileHidden'
  BY <1>0, <1>8 DEF MsgFunc_CurWeapon
<1>9. ASSUME NEW hide \in BOOLEAN, MsgFunc_HideWeapon(hide)
      PROVE  ClosedWhileHidden'
  BY <1>9 DEF MsgFunc_HideWeapon, ClosedWhileHidden
<1>10. CASE UNCHANGED menuVars
  BY <1>0, <1>10 DEF menuVars
<1> QED BY <1>1, <1>2, <1>4, <1>5, <1>6, <1>7, <1>8, <1>9, <1>10 DEF Next

\* The menu is closed while the weapons are hidden: whichever order the player's
\* commands and the server's messages come in, an attack then goes to the weapon and
\* not to a menu nobody sees (ammo.cpp:429, 547, 748, 789).
THEOREM HiddenMenuIsClosed == Spec => []ClosedWhileHidden
<1>1. Init => ClosedWhileHidden
  BY DEF Init, ClosedWhileHidden
<1> QED BY <1>1, ClosedStep, PTL DEF Spec
-----------------------------------------------------------------------------
(* The ways through the menu.                                               *)

\* The first and the last of some cells, told by their order.
LEMMA FirstInIs ==
  ASSUME NEW S \in SUBSET Cells, S # {}
  PROVE  \A d \in S \ {FirstIn(S)} : Before(FirstIn(S), d)
BY FirstExists DEF FirstIn

LEMMA LastInIs ==
  ASSUME NEW S \in SUBSET Cells, NEW c \in S, \A d \in S \ {c} : Before(d, c)
  PROVE  LastIn(S) = c
<1>1. LastIn(S) \in S /\ \A d \in S \ {LastIn(S)} : Before(d, LastIn(S))
  BY LastExists DEF LastIn
<1> QED BY <1>1, CellsInOrder

\* From a weapon that can be selected, the weapon before the next one is the weapon.
LEMMA PrevUndoesNext == TypeOK /\ SlotsFollowBits => PrevGoesBack
<1> SUFFICES ASSUME TypeOK, SlotsFollowBits,
                    NEW w \in Weapons, listed, w \in oldBits, HasAmmo(w)
             PROVE  PrevBefore(NextAfter(w)) = w
  BY DEF PrevGoesBack
<1> DEFINE c == CellOf(w)
           after == {e \in Selectable : w # None /\ Before(CellOf(w), e)}
           T == IF after = {} THEN Selectable ELSE after
           d == FirstIn(T)
           x == slots[d]
           before == {e \in Selectable : x # None /\ Before(e, CellOf(x))}
<1>1. c \in Selectable /\ slots[c] = w /\ w # None
  BY WeaponFacts DEF SlotsFollowBits, Selectable
<1>2. Selectable \in SUBSET Cells /\ after \in SUBSET Selectable
  BY DEF Selectable
<1>3. T \in SUBSET Cells /\ T # {} /\ T \in SUBSET Selectable
  BY <1>1, <1>2
<1>4. d \in T /\ \A e \in T \ {d} : Before(d, e)
  BY <1>3, FirstInIn, FirstInIs
<1>5. x \in Weapons /\ x # None /\ CellOf(x) = d
  <2>1. d \in Cells /\ slots[d] # None
    BY <1>3, <1>4 DEF Selectable
  <2>2. x \in Weapons
    BY <2>1 DEF TypeOK
  <2> QED BY <2>1, <2>2 DEF SlotsFollowBits
<1>6. NextAfter(w) = x
  BY <1>1 DEF NextAfter
<1>7. before = {e \in Selectable : Before(e, d)}
  BY <1>5
<1>8. PrevBefore(x) = slots[LastIn(IF before = {} THEN Selectable ELSE before)]
  BY <1>1 DEF PrevBefore
<1> HIDE DEF c, T, d, x, before
<1>9. CASE after # {}
  <2>1. T = after /\ d \in Selectable /\ Before(c, d)
    BY <1>4, <1>9 DEF T, c
  <2>2. c \in before
    BY <1>1, <1>7, <2>1
  <2>3. ASSUME NEW e \in before \ {c}
        PROVE  Before(e, c)
    <3>1. e \in Selectable /\ Before(e, d) /\ e \in Cells /\ c \in Cells /\ d \in Cells
      BY <1>1, <1>2, <1>7, <2>1
    <3>2. CASE Before(c, e)
      <4>1. e \in T /\ e # d
        BY <1>1, <2>1, <3>1, <3>2, CellsInOrder DEF c
      <4> QED BY <1>4, <3>1, <4>1, CellsInOrder
    <3> QED BY <2>3, <3>1, <3>2, CellsInOrder
  <2>4. before \in SUBSET Cells
    BY <1>2, <1>7
  <2>5. LastIn(before) = c
    BY <2>2, <2>3, <2>4, LastInIs
  <2> QED BY <1>1, <1>6, <1>8, <2>2, <2>5
<1>10. CASE after = {}
  <2>1. T = Selectable
    BY <1>10 DEF T
  <2>2. before = {}
    BY <1>2, <1>4, <1>7, <2>1, CellsInOrder
  <2>3. ASSUME NEW e \in Selectable \ {c}
        PROVE  Before(e, c)
    <3>1. e \in Cells /\ c \in Cells /\ ~Before(c, e)
      BY <1>1, <1>2, <1>10 DEF c
    <3> QED BY <2>3, <3>1, CellsInOrder
  <2>4. LastIn(Selectable) = c
    BY <1>1, <1>2, <2>3, LastInIs
  <2> QED BY <1>1, <1>6, <1>8, <2>2, <2>4
<1> QED BY <1>9, <1>10

\* invprev goes back the way invnext came, round the ends as well, whatever has been
\* picked up, dropped or used up meanwhile (ammo.cpp:775, 787).
THEOREM PrevIsTheWayBack == Spec => []PrevGoesBack
BY PrevUndoesNext, TypeCorrect, SlotsHoldTheBits, PTL
-----------------------------------------------------------------------------
(* All the way round.                                                       *)

\* The presses of invnext form a sequence in which each weapon is the one after the last.
LEMMA PressByPress ==
  ASSUME TypeOK, NEW w \in Weapons \cup {None}
  PROVE  /\ After(w)[0] = w
         /\ \A n \in Nat : /\ After(w)[n + 1] = NextAfter(After(w)[n])
                           /\ After(w)[n + 1] \in Weapons \cup {None}
<1> DEFINE T == Weapons \cup {None}
           next == [v \in T |-> NextAfter(v)]
           Presses(f) == [n \in Nat |-> IF n = 0 THEN w ELSE NextAfter(f[n - 1])]
<1>1. next \in [T -> T]
  BY FoundType
<1>2. PICK f \in [Nat -> T] : f[0] = w /\ \A n \in Nat : f[n + 1] = next[f[n]]
  <2> HIDE DEF next, T
  <2>1. w \in T
    BY DEF T
  <2> QED BY <1>1, <2>1, IteratesExist
<1>3. f = Presses(f)
  <2>1. ASSUME NEW n \in Nat
        PROVE  f[n] = IF n = 0 THEN w ELSE NextAfter(f[n - 1])
    <3>1. CASE n = 0
      BY <1>2, <3>1
    <3>2. CASE n # 0
      <4>1. n - 1 \in Nat /\ (n - 1) + 1 = n
        BY <3>2
      <4>2. f[n] = next[f[n - 1]] /\ f[n - 1] \in T
        BY <1>2, <4>1
      <4> QED BY <3>2, <4>2
    <3> QED BY <3>1, <3>2
  <2> QED BY <1>2, <2>1
<1>4. After(w) = Presses(After(w))
  BY <1>3 DEF After
<1>5. After(w)[0] = w
  BY <1>4
<1>6. ASSUME NEW n \in Nat
      PROVE  After(w)[n + 1] = NextAfter(After(w)[n]) /\ After(w)[n + 1] \in T
  <2>1. n + 1 \in Nat /\ n + 1 # 0 /\ (n + 1) - 1 = n
    OBVIOUS
  <2>2. Presses(After(w))[n + 1] = NextAfter(After(w)[n])
    BY <2>1
  <2> HIDE DEF Presses
  <2>3. After(w)[n + 1] = NextAfter(After(w)[n])
    BY <1>4, <2>2
  <2> QED BY <2>3, FoundType
<1> QED BY <1>5, <1>6

\* The cell after c in a set of cells, round from the last to the first.
NextIn(S, c) ==
  LET after == {e \in S : Before(c, e)}
  IN FirstIn(IF after = {} THEN S ELSE after)

\* A weapon that is found is found in the next cell.
LEMMA NextAfterIsNextIn ==
  ASSUME TypeOK, SlotsFollowBits, Selectable # {}, NEW w
  PROVE  /\ NextAfter(w) \in Weapons /\ CellOf(NextAfter(w)) \in Selectable
         /\ slots[CellOf(NextAfter(w))] = NextAfter(w)
         /\ w \in Weapons => CellOf(NextAfter(w)) = NextIn(Selectable, CellOf(w))
<1> DEFINE after == {c \in Selectable : w # None /\ Before(CellOf(w), c)}
           S == IF after = {} THEN Selectable ELSE after
           d == FirstIn(S)
<1>1. S \in SUBSET Cells /\ S # {} /\ S \in SUBSET Selectable
  BY DEF Selectable
<1>2. d \in Selectable /\ d \in Cells
  BY <1>1, FirstInIn
<1>3. NextAfter(w) = slots[d]
  BY DEF NextAfter
<1>4. slots[d] \in Weapons
  BY <1>2 DEF TypeOK, Selectable
<1>5. CellOf(slots[d]) = d
  BY <1>2, <1>4 DEF SlotsFollowBits
<1>6. w \in Weapons => d = NextIn(Selectable, CellOf(w))
  BY WeaponFacts DEF NextIn
<1> HIDE DEF d
<1> QED BY <1>2, <1>3, <1>4, <1>5, <1>6

\* Cells that are left by no step to the next one are all there are.
LEMMA ClosedIsAll ==
  ASSUME NEW S \in SUBSET Cells, NEW V \in SUBSET S, V # {}, \A c \in V : NextIn(S, c) \in V
  PROVE  V = S
<1> SUFFICES ASSUME S \ V # {} PROVE FALSE
  OBVIOUS
<1>0. S # {} /\ V \in SUBSET Cells /\ S \ V \in SUBSET Cells
  OBVIOUS
<1>1. FirstIn(S) \in V
  <2> DEFINE l == LastIn(V)
             after == {e \in S : Before(l, e)}
  <2>1. l \in V /\ \A d \in V \ {l} : Before(d, l)
    BY <1>0, LastExists DEF LastIn
  <2>2. after = {}
    <3> SUFFICES ASSUME after # {} PROVE FALSE
      OBVIOUS
    <3>1. NextIn(S, l) = FirstIn(after) /\ after \in SUBSET Cells
      BY DEF NextIn
    <3>2. NextIn(S, l) \in after
      BY <3>1, FirstInIn
    <3>3. NextIn(S, l) \in V /\ Before(l, NextIn(S, l))
      BY <2>1, <3>2
    <3> QED BY <1>0, <2>1, <3>3, CellsInOrder
  <2>3. NextIn(S, l) = FirstIn(S)
    BY <2>2 DEF NextIn
  <2> QED BY <2>1, <2>3
<1>2. PICK e \in S \ V : \A d \in (S \ V) \ {e} : Before(e, d)
  BY <1>0, FirstExists
<1> DEFINE before == {d \in S : Before(d, e)}
           c == LastIn(before)
           after == {d \in S : Before(c, d)}
<1>3. before \in SUBSET Cells /\ before # {}
  <2>1. FirstIn(S) # e /\ FirstIn(S) \in S
    BY <1>1, <1>2
  <2>2. Before(FirstIn(S), e)
    BY <1>0, <1>2, <2>1, FirstInIs
  <2> QED BY <2>1, <2>2
<1>4. c \in before /\ \A d \in before \ {c} : Before(d, c)
  BY <1>3, LastExists DEF LastIn
<1>5. c \in V
  <2>1. c \in S /\ c \in Cells /\ e \in Cells /\ Before(c, e)
    BY <1>4
  <2>2. ~Before(e, c) /\ c # e
    BY <2>1, CellsInOrder
  <2> QED BY <1>2, <2>1, <2>2
<1>6. e \in after /\ after \in SUBSET Cells
  BY <1>2, <1>4
<1>7. NextIn(S, c) = FirstIn(after)
  BY <1>6 DEF NextIn
<1>8. NextIn(S, c) \in V /\ NextIn(S, c) \in after
  BY <1>5, <1>6, <1>7, FirstInIn
<1>9. NextIn(S, c) # e
  BY <1>2, <1>8
<1>10. Before(NextIn(S, c), e)
  BY <1>6, <1>7, <1>9, FirstInIs
<1>11. NextIn(S, c) \in before /\ Before(c, NextIn(S, c))
  BY <1>8, <1>10
<1> HIDE DEF before, c, after
<1> QED BY <1>3, <1>4, <1>11, CellsInOrder

\* As many presses as there are cells to select come to all of them: either no two come
\* to the same cell, or those up to the first that comes back are left by no step.
LEMMA NextVisitsEverything == TypeOK /\ SlotsFollowBits => NextVisitsAll
<1> SUFFICES ASSUME TypeOK, SlotsFollowBits, NEW w \in Weapons \cup {None}
             PROVE  {After(w)[k] : k \in 1..Cardinality(Selectable)}
                      = {slots[c] : c \in Selectable}
  BY DEF NextVisitsAll
<1> DEFINE n == Cardinality(Selectable)
           cell(k) == CellOf(After(w)[k])
           visited == {cell(k) : k \in 1..n}
<1>0. Selectable \in SUBSET Cells /\ IsFiniteSet(Selectable) /\ n \in Nat
  <2>1. Selectable \in SUBSET Cells
    BY DEF Selectable
  <2> QED BY <2>1, CellsFinite, FS_Subset, FS_CardinalityType
<1>1. CASE Selectable = {}
  <2>1. n = 0
    BY <1>1, FS_EmptySet
  <2>2. 1..n = {}
    BY <2>1
  <2> QED BY <1>1, <2>2
<1>2. CASE Selectable # {}
  <2>1. ASSUME NEW k \in Nat, 1 <= k
        PROVE  cell(k) \in Selectable /\ slots[cell(k)] = After(w)[k] /\ After(w)[k] \in Weapons
    <3>1. k - 1 \in Nat /\ (k - 1) + 1 = k
      BY <2>1
    <3>2. After(w)[k] = NextAfter(After(w)[k - 1])
      BY <3>1, PressByPress
    <3> QED BY <1>2, <3>2, NextAfterIsNextIn
  <2>2. ASSUME NEW k \in Nat, 1 <= k
        PROVE  NextIn(Selectable, cell(k)) = cell(k + 1)
    <3>1. After(w)[k + 1] = NextAfter(After(w)[k])
      BY PressByPress
    <3> QED BY <1>2, <2>1, <2>2, <3>1, NextAfterIsNextIn
  <2>3. visited \subseteq Selectable
    BY <1>0, <2>1
  <2>4. ASSUME \E i, j \in 1..n : i < j /\ cell(i) = cell(j)
        PROVE  visited = Selectable
    <3>1. PICK i \in 1..n, j \in 1..n : i < j /\ cell(i) = cell(j)
      BY <2>4
    <3> DEFINE V == {cell(k) : k \in 1..(j - 1)}
    <3>2. i \in 1..(j - 1) /\ 1..(j - 1) \subseteq 1..n
      BY <1>0, <3>1
    <3>3. V \in SUBSET visited /\ V # {}
      BY <3>2
    <3>4. ASSUME NEW c \in V
          PROVE  NextIn(Selectable, c) \in V
      <4>1. PICK k \in 1..(j - 1) : c = cell(k)
        OBVIOUS
      <4>2. NextIn(Selectable, c) = cell(k + 1)
        <5>1. k \in Nat /\ 1 <= k
          OBVIOUS
        <5> QED BY <2>2, <4>1, <5>1
      <4>3. CASE k + 1 = j
        <5>1. NextIn(Selectable, c) = cell(i)
          BY <3>1, <4>2, <4>3
        <5> QED BY <3>2, <5>1
      <4>4. CASE k + 1 # j
        <5>1. k + 1 \in 1..(j - 1)
          BY <1>0, <3>1, <4>4
        <5> QED BY <4>2, <5>1
      <4> QED BY <4>3, <4>4
    <3>5. V = Selectable
      <4> HIDE DEF V, visited
      <4> QED BY <1>0, <2>3, <3>3, <3>4, ClosedIsAll
    <3> HIDE DEF V, visited
    <3> QED BY <2>3, <3>3, <3>5
  <2>5. ASSUME ~\E i, j \in 1..n : i < j /\ cell(i) = cell(j)
        PROVE  visited = Selectable
    <3> DEFINE f == [k \in 1..n |-> cell(k)]
    <3>1. f \in [1..n -> Selectable]
      BY <1>0, <2>1
    <3>2. ASSUME NEW i \in 1..n, NEW j \in 1..n, f[i] = f[j]
          PROVE  i = j
      <4>1. cell(i) = cell(j)
        BY <3>2
      <4> HIDE DEF cell
      <4> QED BY <1>0, <2>5, <4>1
    <3>3. f \in Injection(1..n, Selectable)
      <4> HIDE DEF f
      <4> QED BY <3>1, <3>2 DEF Injection, IsInjective
    <3>4. Cardinality(1..n) = n
      <4>1. Cardinality(1..n) = IF 1 > n THEN 0 ELSE n - 1 + 1
        BY <1>0, FS_Interval
      <4> QED BY <1>0, <4>1
    <3>5. f \in Surjection(1..n, Selectable)
      <4> HIDE DEF f
      <4> QED BY <1>0, <3>3, <3>4, FS_Injection
    <3>6. ASSUME NEW c \in Selectable
          PROVE  c \in visited
      <4>1. PICK k \in 1..n : f[k] = c
        <5> HIDE DEF f
        <5> QED BY <3>5 DEF Surjection
      <4> QED BY <4>1
    <3> HIDE DEF visited
    <3> QED BY <2>3, <3>6
  <2>6. visited = Selectable
    <3> HIDE DEF visited
    <3> QED BY <2>3, <2>4, <2>5
  <2>7. ASSUME NEW k \in 1..n
        PROVE  After(w)[k] = slots[cell(k)]
    <3>1. k \in Nat /\ 1 <= k
      OBVIOUS
    <3> QED BY <2>1, <3>1
  <2>8. {After(w)[k] : k \in 1..n} = {slots[c] : c \in visited}
    <3> HIDE DEF cell
    <3> QED BY <2>7
  <2> HIDE DEF visited
  <2> QED BY <2>6, <2>8
<1> QED BY <1>1, <1>2

\* From wherever one starts, and whatever messages and frames came before, as many
\* presses of invnext as there are weapons to select come to each of them and to nothing
\* else (ammo.cpp:746).
THEOREM NextGoesAllTheWayRound == Spec => []NextVisitsAll
BY NextVisitsEverything, TypeCorrect, SlotsHoldTheBits, PTL
=============================================================================
