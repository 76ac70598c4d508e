---------------------------- MODULE KButtonProofs ----------------------------
(***************************************************************************)
(* For any keys bound to it: KButton is well typed, no key holds it twice, *)
(* it never stays down by itself, every press of it is sent, and it moves  *)
(* the player as promised.                                                 *)
(***************************************************************************)
EXTENDS KButton, TLAPS

\* The slots hold keys that are held down, and the console if its command stands.
SlotsAreHeld ==
  \A i \in {0, 1} : down[i] = None \/ down[i] \in held \/ (down[i] = Console /\ typed)

\* The strengthening of NeverStuck: a button that is down has a slot in use.
SlotInv ==
  /\ SlotsAreHeld
  /\ NoKeyTwice
  /\ IsDown \in state => down[0] # None \/ down[1] # None

\* The strengthening of PressIsSent: a press that was not sent has its impulse.
OwedInv == owed => ImpulseDown \in state

\* After an active command the impulses of a movement button tell its frame.
FrameInv ==
  active /\ button = "move" =>
    /\ ImpulseDown \in state <=> frame.pressed
    /\ ImpulseUp \in state <=> frame.released
-----------------------------------------------------------------------------
\* The constants are distinct, and none of them is a key.
LEMMA Distinct ==
  /\ None \notin Keys /\ Console \notin Keys /\ None # Console
  /\ IsDown # ImpulseDown /\ IsDown # ImpulseUp /\ ImpulseDown # ImpulseUp
BY KeyAssumption DEF KeyAssumption, None, Console, IsDown, ImpulseDown, ImpulseUp

\* What KeyDown does to the slots and the state.
LEMMA KeyDownEffect ==
  ASSUME TypeOK, NEW k \in Keys \cup {Console}, KeyDown(k)
  PROVE  /\ \/ UNCHANGED kbutton /\ (Holds(k) \/ ~Holds(None))
            \/ /\ ~Holds(k)
               /\ \E i \in {0, 1} : down[i] = None /\ down' = [down EXCEPT ![i] = k]
               /\ state' = IF IsDown \in state THEN state
                           ELSE state \cup {IsDown, ImpulseDown}
         /\ down' \in [{0, 1} -> Keys \cup {None, Console}]
         /\ state' \subseteq {IsDown, ImpulseDown, ImpulseUp} /\ state' # {ImpulseDown}
<1>1. CASE Holds(k) \/ ~Holds(None)
  BY <1>1 DEF KeyDown, kbutton, TypeOK
<1>2. CASE ~Holds(k) /\ Holds(None)
  <2>1. /\ down' = [down EXCEPT ![FirstSlot(None)] = k]
        /\ state' = IF IsDown \in state THEN state ELSE state \cup {IsDown, ImpulseDown}
    BY <1>2 DEF KeyDown
  <2>2. FirstSlot(None) \in {0, 1} /\ down[FirstSlot(None)] = None
    BY <1>2 DEF Holds, FirstSlot
  <2>3. down' \in [{0, 1} -> Keys \cup {None, Console}]
    BY <2>1, <2>2 DEF TypeOK
  <2>4. state' \subseteq {IsDown, ImpulseDown, ImpulseUp} /\ state' # {ImpulseDown}
    <3>1. CASE IsDown \in state
      BY <2>1, <3>1 DEF TypeOK
    <3>2. CASE IsDown \notin state
      <4>1. state' = state \cup {IsDown, ImpulseDown}
        BY <2>1, <3>2
      <4>2. IsDown \in state' /\ IsDown \notin {ImpulseDown}
        BY <4>1, Distinct
      <4> QED BY <4>1, <4>2 DEF TypeOK
    <3> QED BY <3>1, <3>2
  <2> QED BY <1>2, <2>1, <2>2, <2>3, <2>4
<1> QED BY <1>1, <1>2

\* What KeyUp does to the slots and the state.
LEMMA KeyUpEffect ==
  ASSUME TypeOK, NEW k \in Keys, KeyUp(k)
  PROVE  /\ \/ UNCHANGED kbutton /\ ~Holds(k)
            \/ /\ \E i \in {0, 1} : down[i] = k /\ down' = [down EXCEPT ![i] = None]
               /\ state' = IF down'[0] # None \/ down'[1] # None \/ IsDown \notin state
                           THEN state ELSE (state \ {IsDown}) \cup {ImpulseUp}
         /\ down' \in [{0, 1} -> Keys \cup {None, Console}]
         /\ state' \subseteq {IsDown, ImpulseDown, ImpulseUp} /\ state' # {ImpulseDown}
<1>1. CASE ~Holds(k)
  BY <1>1 DEF KeyUp, kbutton, TypeOK
<1>2. CASE Holds(k)
  <2>1. /\ down' = [down EXCEPT ![FirstSlot(k)] = None]
        /\ state' = IF down'[0] # None \/ down'[1] # None \/ IsDown \notin state
                    THEN state ELSE (state \ {IsDown}) \cup {ImpulseUp}
    BY <1>2 DEF KeyUp
  <2>2. FirstSlot(k) \in {0, 1} /\ down[FirstSlot(k)] = k
    BY <1>2 DEF Holds, FirstSlot
  <2>3. down' \in [{0, 1} -> Keys \cup {None, Console}]
    BY <2>1, <2>2 DEF TypeOK
  <2>4. state' \subseteq {IsDown, ImpulseDown, ImpulseUp} /\ state' # {ImpulseDown}
    <3>1. CASE state' = state
      BY <3>1 DEF TypeOK
    <3>2. CASE state' = (state \ {IsDown}) \cup {ImpulseUp}
      <4>1. ImpulseUp \in state' /\ ImpulseUp \notin {ImpulseDown}
        BY <3>2, Distinct
      <4> QED BY <3>2, <4>1 DEF TypeOK
    <3> QED BY <2>1, <3>1, <3>2
  <2> QED BY <2>1, <2>2, <2>3, <2>4
<1> QED BY <1>1, <1>2

\* CL_KeyState is a number of quarters.
LEMMA KeyStateType ==
  ASSUME NEW bits
  PROVE  KeyState(bits) \in Quarters
<1>1. CASE ImpulseDown \in bits /\ ImpulseUp \in bits
  BY <1>1 DEF KeyState, Quarters
<1>2. CASE ImpulseDown \in bits /\ ImpulseUp \notin bits
  BY <1>2 DEF KeyState, Quarters
<1>3. CASE ImpulseDown \notin bits /\ ImpulseUp \in bits
  BY <1>3 DEF KeyState, Quarters
<1>4. CASE ImpulseDown \notin bits /\ ImpulseUp \notin bits
  BY <1>4 DEF KeyState, Quarters
<1> QED BY <1>1, <1>2, <1>3, <1>4

\* CL_KeyState's value, by what the impulses say.
LEMMA KeyStateValue ==
  ASSUME NEW bits
  PROVE  KeyState(bits) = IF ImpulseDown \in bits
                          THEN IF ImpulseUp \in bits THEN IF IsDown \in bits THEN 3 ELSE 1
                               ELSE IF IsDown \in bits THEN 2 ELSE 0
                          ELSE IF ImpulseUp \in bits THEN 0
                               ELSE IF IsDown \in bits THEN 4 ELSE 0
<1>1. CASE ImpulseDown \in bits /\ ImpulseUp \in bits
  BY <1>1 DEF KeyState
<1>2. CASE ImpulseDown \in bits /\ ImpulseUp \notin bits
  BY <1>2 DEF KeyState
<1>3. CASE ImpulseDown \notin bits /\ ImpulseUp \in bits
  BY <1>3 DEF KeyState
<1>4. CASE ImpulseDown \notin bits /\ ImpulseUp \notin bits
  BY <1>4 DEF KeyState
<1> QED BY <1>1, <1>2, <1>3, <1>4
-----------------------------------------------------------------------------
\* TypeOK is inductive.
LEMMA TypeStep == TypeOK /\ [Next]_vars => TypeOK'
<1> SUFFICES ASSUME TypeOK, [Next]_vars PROVE TypeOK'
  OBVIOUS
<1>0. /\ button \in {"attack", "move", "other"}
      /\ down \in [{0, 1} -> Keys \cup {None, Console}]
      /\ state \subseteq {IsDown, ImpulseDown, ImpulseUp} /\ state # {ImpulseDown}
      /\ menu \in BOOLEAN /\ cmd \in [bit : BOOLEAN, move : Quarters]
      /\ held \subseteq Keys /\ typed \in BOOLEAN
      /\ frame \in [pressed : BOOLEAN, released : BOOLEAN]
      /\ active \in BOOLEAN /\ owed \in BOOLEAN
  BY DEF TypeOK
<1>a. Observe => frame' \in [pressed : BOOLEAN, released : BOOLEAN]
  BY <1>0 DEF Observe
<1>b. (owed' = (owed \/ Untouched)) => owed' \in BOOLEAN
  BY <1>0 DEF Untouched
<1>1. ASSUME NEW k \in Keys, PressKey(k)
      PROVE  TypeOK'
  <2>1. /\ down' \in [{0, 1} -> Keys \cup {None, Console}]
        /\ state' \subseteq {IsDown, ImpulseDown, ImpulseUp} /\ state' # {ImpulseDown}
    BY <1>1, KeyDownEffect DEF PressKey
  <2>2. frame' \in [pressed : BOOLEAN, released : BOOLEAN] /\ owed' \in BOOLEAN
    BY <1>a, <1>b, <1>1 DEF PressKey
  <2>3. UNCHANGED <<button, menu, cmd, typed, active>> /\ held' \subseteq Keys
    BY <1>0, <1>1 DEF PressKey
  <2> QED BY <1>0, <2>1, <2>2, <2>3 DEF TypeOK
<1>2. ASSUME NEW k \in Keys, PressSwallowed(k)
      PROVE  TypeOK'
  BY <1>0, <1>2 DEF PressSwallowed, kbutton, history, TypeOK
<1>3. ASSUME NEW k \in Keys, ReleaseKey(k)
      PROVE  TypeOK'
  <2>1. /\ down' \in [{0, 1} -> Keys \cup {None, Console}]
        /\ state' \subseteq {IsDown, ImpulseDown, ImpulseUp} /\ state' # {ImpulseDown}
    BY <1>3, KeyUpEffect DEF ReleaseKey
  <2>2. frame' \in [pressed : BOOLEAN, released : BOOLEAN]
    BY <1>a, <1>3 DEF ReleaseKey
  <2>3. UNCHANGED <<button, menu, cmd, typed, active, owed>> /\ held' \subseteq Keys
    BY <1>0, <1>3 DEF ReleaseKey
  <2> QED BY <1>0, <2>1, <2>2, <2>3 DEF TypeOK
<1>4. CASE TypeDown
  <2>1. /\ down' \in [{0, 1} -> Keys \cup {None, Console}]
        /\ state' \subseteq {IsDown, ImpulseDown, ImpulseUp} /\ state' # {ImpulseDown}
    BY <1>4, KeyDownEffect DEF TypeDown
  <2>2. frame' \in [pressed : BOOLEAN, released : BOOLEAN] /\ owed' \in BOOLEAN
    BY <1>a, <1>b, <1>4 DEF TypeDown
  <2>3. UNCHANGED <<button, menu, cmd, held, active>> /\ typed' = TRUE
    BY <1>4 DEF TypeDown
  <2> QED BY <1>0, <2>1, <2>2, <2>3 DEF TypeOK
<1>5. CASE TypeUp
  <2>1. down' \in [{0, 1} -> Keys \cup {None, Console}]
    BY <1>5 DEF TypeUp, KeyUpTyped
  <2>2. state' = {ImpulseUp} /\ ImpulseUp \notin {ImpulseDown}
    BY <1>5, Distinct DEF TypeUp, KeyUpTyped
  <2>3. state' \subseteq {IsDown, ImpulseDown, ImpulseUp} /\ state' # {ImpulseDown}
    BY <2>2
  <2> QED BY <1>0, <1>5, <2>1, <2>3 DEF TypeUp, TypeOK
<1>6. CASE ToggleMenu
  BY <1>0, <1>6 DEF ToggleMenu, kbutton, history, TypeOK
<1>7. ASSUME NEW act \in BOOLEAN, NEW squelch \in BOOLEAN, CreateMove(act, squelch)
      PROVE  TypeOK'
  <2>1. Sampled(act) \subseteq state
    BY DEF Sampled
  <2>2. state' \subseteq {IsDown, ImpulseDown, ImpulseUp} /\ state' # {ImpulseDown}
    BY <1>0, <1>7, <2>1 DEF CreateMove
  <2>3. KeyState(state) \in Quarters /\ 0 \in Quarters
    BY <1>0, KeyStateType DEF Quarters
  <2>4. cmd' \in [bit : BOOLEAN, move : Quarters]
    BY <1>7, <2>3 DEF CreateMove
  <2>5. frame' \in [pressed : BOOLEAN, released : BOOLEAN]
    BY <1>7 DEF CreateMove, Quiet
  <2>6. UNCHANGED <<button, down, menu, held, typed>> /\ active' = act /\ owed' = FALSE
    BY <1>7 DEF CreateMove
  <2> QED BY <1>0, <2>2, <2>4, <2>5, <2>6 DEF TypeOK
<1>8. CASE UpdateClientData
  <2>1. state' \subseteq {IsDown, ImpulseDown, ImpulseUp} /\ state' # {ImpulseDown}
    BY <1>0, <1>8 DEF UpdateClientData
  <2>2. frame' \in [pressed : BOOLEAN, released : BOOLEAN]
    BY <1>a, <1>8 DEF UpdateClientData
  <2>3. UNCHANGED <<button, down, cmd, held, typed, active>> /\ menu' = FALSE /\ owed' = FALSE
    BY <1>8 DEF UpdateClientData
  <2> QED BY <1>0, <2>1, <2>2, <2>3 DEF TypeOK
<1>9. CASE UNCHANGED vars
  BY <1>0, <1>9 DEF vars, TypeOK
<1> QED BY <1>1, <1>2, <1>3, <1>4, <1>5, <1>6, <1>7, <1>8, <1>9 DEF Next

\* TypeOK is an invariant: of the eight states of a button, an impulse down alone is
\* never met.
THEOREM TypeCorrect == Spec => []TypeOK
<1>1. Init => TypeOK
  <2> SUFFICES ASSUME Init PROVE TypeOK
    OBVIOUS
  <2>1. down \in [{0, 1} -> Keys \cup {None, Console}]
    BY DEF Init
  <2>2. state \subseteq {IsDown, ImpulseDown, ImpulseUp} /\ state # {ImpulseDown}
    BY DEF Init
  <2>3. frame \in [pressed : BOOLEAN, released : BOOLEAN]
    BY DEF Init, Quiet
  <2>4. cmd \in [bit : BOOLEAN, move : Quarters]
    BY DEF Init, Quarters
  <2>5. /\ button \in {"attack", "move", "other"} /\ held \subseteq Keys
        /\ menu \in BOOLEAN /\ typed \in BOOLEAN /\ active \in BOOLEAN /\ owed \in BOOLEAN
    BY DEF Init
  <2> QED BY <2>1, <2>2, <2>3, <2>4, <2>5 DEF TypeOK
<1>2. TypeOK /\ [Next]_vars => TypeOK'
  BY TypeStep
<1> QED BY <1>1, <1>2, PTL DEF Spec
-----------------------------------------------------------------------------
\* SlotInv is inductive.
LEMMA SlotStep == TypeOK /\ SlotInv /\ [Next]_vars => SlotInv'
<1> SUFFICES ASSUME TypeOK, SlotInv, [Next]_vars PROVE SlotInv'
  OBVIOUS
<1>0. /\ SlotsAreHeld
      /\ NoKeyTwice
      /\ IsDown \in state => down[0] # None \/ down[1] # None
  BY DEF SlotInv
<1>t. DOMAIN down = {0, 1}
  BY DEF TypeOK
<1>d. ASSUME NEW k \in Keys \cup {Console}, KeyDown(k), typed => typed', held \subseteq held',
             k \in held' \/ (k = Console /\ typed')
      PROVE  SlotInv'
  <2>1. CASE UNCHANGED kbutton
    <3>1. down' = down /\ state' = state
      BY <2>1 DEF kbutton
    <3> QED BY <1>0, <1>d, <3>1 DEF SlotInv, SlotsAreHeld, NoKeyTwice
  <2>2. ASSUME ~Holds(k), NEW i \in {0, 1}, down[i] = None, down' = [down EXCEPT ![i] = k]
        PROVE  SlotInv'
    <3>1. down'[i] = k /\ \A j \in {0, 1} \ {i} : down'[j] = down[j]
      BY <1>t, <2>2
    <3>2. down[0] # k /\ down[1] # k /\ k # None
      BY <2>2, Distinct DEF Holds
    <3>3. SlotsAreHeld'
      BY <1>0, <1>d, <3>1 DEF SlotsAreHeld
    <3>4. NoKeyTwice'
      BY <3>1, <3>2 DEF NoKeyTwice
    <3>5. down'[0] # None \/ down'[1] # None
      BY <3>1, <3>2
    <3> QED BY <3>3, <3>4, <3>5 DEF SlotInv
  <2> QED BY <1>d, KeyDownEffect, <2>1, <2>2
<1>1. ASSUME NEW k \in Keys, PressKey(k)
      PROVE  SlotInv'
  <2>1. KeyDown(k) /\ typed' = typed /\ held' = held \cup {k}
    BY <1>1 DEF PressKey
  <2> QED BY <1>d, <2>1
<1>2. ASSUME NEW k \in Keys, PressSwallowed(k)
      PROVE  SlotInv'
  <2>1. down' = down /\ state' = state /\ typed' = typed /\ held' = held \cup {k}
    BY <1>2 DEF PressSwallowed, kbutton
  <2> QED BY <1>0, <2>1 DEF SlotInv, SlotsAreHeld, NoKeyTwice
<1>3. ASSUME NEW k \in Keys, ReleaseKey(k)
      PROVE  SlotInv'
  <2>0. KeyUp(k) /\ typed' = typed /\ held' = held \ {k}
    BY <1>3 DEF ReleaseKey
  <2>1. CASE UNCHANGED kbutton /\ ~Holds(k)
    <3>1. down' = down /\ state' = state /\ down[0] # k /\ down[1] # k
      BY <2>1 DEF kbutton, Holds
    <3> QED BY <1>0, <2>0, <3>1 DEF SlotInv, SlotsAreHeld, NoKeyTwice
  <2>2. ASSUME NEW i \in {0, 1}, down[i] = k, down' = [down EXCEPT ![i] = None],
               state' = IF down'[0] # None \/ down'[1] # None \/ IsDown \notin state
                        THEN state ELSE (state \ {IsDown}) \cup {ImpulseUp}
        PROVE  SlotInv'
    <3>1. down'[i] = None /\ \A j \in {0, 1} \ {i} : down'[j] = down[j]
      BY <1>t, <2>2
    <3>2. k # None /\ \A j \in {0, 1} \ {i} : down[j] # k
      BY <1>0, <2>2, Distinct DEF NoKeyTwice
    <3>3. SlotsAreHeld'
      BY <1>0, <2>0, <3>1, <3>2 DEF SlotsAreHeld
    <3>4. NoKeyTwice'
      BY <3>1 DEF NoKeyTwice
    <3>5. IsDown \in state' => down'[0] # None \/ down'[1] # None
      BY <2>2, Distinct
    <3> QED BY <3>3, <3>4, <3>5 DEF SlotInv
  <2> QED BY <2>0, KeyUpEffect, <2>1, <2>2
<1>4. CASE TypeDown
  <2>1. KeyDown(Console) /\ typed' = TRUE /\ held' = held
    BY <1>4 DEF TypeDown
  <2> QED BY <1>d, <2>1
<1>5. CASE TypeUp
  <2>1. down'[0] = None /\ down'[1] = None /\ state' = {ImpulseUp}
    BY <1>5 DEF TypeUp, KeyUpTyped
  <2> QED BY <2>1, Distinct DEF SlotInv, SlotsAreHeld, NoKeyTwice
<1>6. ASSUME UNCHANGED <<down, held, typed>>, IsDown \in state' => IsDown \in state
      PROVE  SlotInv'
  BY <1>0, <1>6 DEF SlotInv, SlotsAreHeld, NoKeyTwice
<1>7. CASE ToggleMenu
  BY <1>6, <1>7 DEF ToggleMenu, kbutton
<1>8. ASSUME NEW act \in BOOLEAN, NEW squelch \in BOOLEAN, CreateMove(act, squelch)
      PROVE  SlotInv'
  BY <1>6, <1>8 DEF CreateMove, Sampled
<1>9. CASE UpdateClientData
  BY <1>6, <1>9 DEF UpdateClientData
<1>10. CASE UNCHANGED vars
  BY <1>6, <1>10 DEF vars
<1> QED BY <1>1, <1>2, <1>3, <1>4, <1>5, <1>7, <1>8, <1>9, <1>10 DEF Next

\* SlotInv is an invariant.
LEMMA SlotsCorrect == Spec => []SlotInv
<1>1. Init => SlotInv
  BY DEF Init, SlotInv, SlotsAreHeld, NoKeyTwice
<1>2. TypeOK /\ SlotInv /\ [Next]_vars => SlotInv'
  BY SlotStep
<1> QED BY <1>1, <1>2, TypeCorrect, PTL DEF Spec

\* No key takes both slots of the button.
THEOREM NoKeyHoldsTwice == Spec => []NoKeyTwice
<1>1. SlotInv => NoKeyTwice
  BY DEF SlotInv
<1> QED BY <1>1, SlotsCorrect, PTL

\* A button that is down is held: by a key that is held down, or from the console.
THEOREM ButtonNeverSticks == Spec => []NeverStuck
<1>1. SlotInv => NeverStuck
  BY DEF SlotInv, SlotsAreHeld, NeverStuck, Untouched
<1> QED BY <1>1, SlotsCorrect, PTL
-----------------------------------------------------------------------------
\* KeyDown and KeyUp on the bits of the state alone.
LEMMA KeyDownBits ==
  ASSUME TypeOK, NEW k \in Keys \cup {Console}, KeyDown(k)
  PROVE  /\ state' = state \/ (IsDown \notin state /\ state' = state \cup {IsDown, ImpulseDown})
         /\ (~Holds(k) /\ Holds(None) /\ IsDown \notin state) => ImpulseDown \in state'
BY KeyDownEffect DEF kbutton

LEMMA KeyUpBits ==
  ASSUME TypeOK, NEW k \in Keys, KeyUp(k)
  PROVE  \/ state' = state
         \/ IsDown \in state /\ state' = (state \ {IsDown}) \cup {ImpulseUp}
BY KeyUpEffect DEF kbutton

\* OwedInv is inductive.
LEMMA OwedStep == TypeOK /\ SlotInv /\ OwedInv /\ [Next]_vars => OwedInv'
<1> SUFFICES ASSUME TypeOK, SlotInv, OwedInv, [Next]_vars PROVE OwedInv'
  OBVIOUS
<1>d. ASSUME NEW k \in Keys \cup {Console}, KeyDown(k), owed' = (owed \/ Untouched)
      PROVE  OwedInv'
  <2>1. CASE owed
    BY <1>d, <2>1, KeyDownBits DEF OwedInv
  <2>2. CASE ~owed /\ Untouched
    <3>1. down[0] = None /\ down[1] = None
      BY <2>2 DEF Untouched, SlotInv, SlotsAreHeld
    <3>2. ~Holds(k) /\ Holds(None) /\ IsDown \notin state
      BY <3>1, Distinct DEF Holds, SlotInv
    <3> QED BY <1>d, <3>2, KeyDownBits DEF OwedInv
  <2>3. CASE ~owed /\ ~Untouched
    BY <1>d, <2>3 DEF OwedInv
  <2> QED BY <2>1, <2>2, <2>3
<1>1. ASSUME NEW k \in Keys, PressKey(k)
      PROVE  OwedInv'
  BY <1>d, <1>1 DEF PressKey
<1>2. ASSUME NEW k \in Keys, ReleaseKey(k)
      PROVE  OwedInv'
  <2>1. KeyUp(k) /\ owed' = owed
    BY <1>2 DEF ReleaseKey
  <2>2. ImpulseDown \in state => ImpulseDown \in state'
    BY <2>1, KeyUpBits, Distinct
  <2> QED BY <2>1, <2>2 DEF OwedInv
<1>3. CASE TypeDown
  BY <1>d, <1>3 DEF TypeDown
<1>4. ASSUME UNCHANGED <<state, owed>>
      PROVE  OwedInv'
  BY <1>4 DEF OwedInv
<1>5. ASSUME NEW k \in Keys, PressSwallowed(k)
      PROVE  OwedInv'
  BY <1>4, <1>5 DEF PressSwallowed, kbutton, history
<1>6. CASE ToggleMenu
  BY <1>4, <1>6 DEF ToggleMenu, kbutton, history
<1>7. ASSUME owed' = FALSE
      PROVE  OwedInv'
  BY <1>7 DEF OwedInv
<1>8. CASE TypeUp
  BY <1>7, <1>8 DEF TypeUp
<1>9. ASSUME NEW act \in BOOLEAN, NEW squelch \in BOOLEAN, CreateMove(act, squelch)
      PROVE  OwedInv'
  BY <1>7, <1>9 DEF CreateMove
<1>10. CASE UpdateClientData
  BY <1>7, <1>10 DEF UpdateClientData
<1>11. CASE UNCHANGED vars
  BY <1>4, <1>11 DEF vars
<1> QED BY <1>1, <1>2, <1>3, <1>5, <1>6, <1>8, <1>9, <1>10, <1>11 DEF Next

\* What a command says of a press that was owed to it.
LEMMA OwedIsSent ==
  ASSUME TypeOK, OwedInv, NEW act \in BOOLEAN, CreateMove(act, FALSE), owed
  PROVE  cmd'.bit \/ cmd'.move > 0
<1>0. ImpulseDown \in state
  BY DEF OwedInv
<1>1. CASE act /\ button = "move"
  <2>1. CASE IsDown \in state
    <3>1. {IsDown, ImpulseDown} \cap Sampled(act) # {}
      BY <1>1, <2>1 DEF Sampled
    <3>2. cmd'.bit
      BY <3>1 DEF CreateMove
    <3> QED BY <3>2
  <2>2. CASE IsDown \notin state
    <3>1. ImpulseUp \in state
      BY <1>0, <2>2 DEF TypeOK
    <3>2. KeyState(state) = 1
      BY <1>0, <2>2, <3>1, KeyStateValue
    <3>3. cmd'.move = KeyState(state)
      BY <1>1 DEF CreateMove
    <3> QED BY <3>2, <3>3
  <2> QED BY <2>1, <2>2
<1>2. CASE ~(act /\ button = "move")
  <2>1. {IsDown, ImpulseDown} \cap Sampled(act) # {}
    BY <1>0, <1>2 DEF Sampled
  <2>2. cmd'.bit
    BY <2>1 DEF CreateMove
  <2> QED BY <2>2
<1> QED BY <1>1, <1>2

\* Every press of an untouched button is sent with the next command.
THEOREM EveryPressIsSent == Spec => PressIsSent
<1>1. Init => OwedInv
  BY DEF Init, OwedInv
<1>2. TypeOK /\ SlotInv /\ OwedInv /\ [Next]_vars => OwedInv'
  BY OwedStep
<1>3. TypeOK /\ OwedInv /\ [Next]_vars =>
        [\A act \in BOOLEAN : CreateMove(act, FALSE) /\ owed => cmd'.bit \/ cmd'.move > 0]_vars
  BY OwedIsSent
<1> QED BY <1>1, <1>2, <1>3, TypeCorrect, SlotsCorrect, PTL DEF Spec, PressIsSent
-----------------------------------------------------------------------------
\* The impulses after a step told by Observe.
LEMMA ObservedImpulses ==
  ASSUME FrameInv, Observe, UNCHANGED <<active, button>>,
         \/ state' = state
         \/ IsDown \notin state /\ state' = state \cup {IsDown, ImpulseDown}
         \/ IsDown \in state /\ state' = (state \ {IsDown}) \cup {ImpulseUp}
  PROVE  FrameInv'
<1> SUFFICES ASSUME active, button = "move"
             PROVE  /\ ImpulseDown \in state' <=> frame'.pressed
                    /\ ImpulseUp \in state' <=> frame'.released
  BY DEF FrameInv
<1>1. /\ ImpulseDown \in state <=> frame.pressed
      /\ ImpulseUp \in state <=> frame.released
  BY DEF FrameInv
<1>2. /\ frame'.pressed  = (frame.pressed  \/ (IsDown \notin state /\ IsDown \in state'))
      /\ frame'.released = (frame.released \/ (IsDown \in state /\ IsDown \notin state'))
  BY DEF Observe
<1>3. CASE state' = state
  BY <1>1, <1>2, <1>3
<1>4. CASE IsDown \notin state /\ state' = state \cup {IsDown, ImpulseDown}
  BY <1>1, <1>2, <1>4, Distinct
<1>5. CASE IsDown \in state /\ state' = (state \ {IsDown}) \cup {ImpulseUp}
  BY <1>1, <1>2, <1>5, Distinct
<1> QED BY <1>3, <1>4, <1>5

\* FrameInv is inductive.
LEMMA FrameStep == TypeOK /\ FrameInv /\ [Next]_vars => FrameInv'
<1> SUFFICES ASSUME TypeOK, FrameInv, [Next]_vars PROVE FrameInv'
  OBVIOUS
<1>1. ASSUME NEW k \in Keys, PressKey(k)
      PROVE  FrameInv'
  BY <1>1, KeyDownBits, ObservedImpulses DEF PressKey
<1>2. ASSUME NEW k \in Keys, ReleaseKey(k)
      PROVE  FrameInv'
  BY <1>2, KeyUpBits, ObservedImpulses DEF ReleaseKey
<1>3. CASE TypeDown
  BY <1>3, KeyDownBits, ObservedImpulses DEF TypeDown
<1>4. CASE TypeUp
  <2>1. state' = {ImpulseUp} /\ ~frame'.pressed /\ frame'.released
    BY <1>4 DEF TypeUp, KeyUpTyped
  <2> QED BY <2>1, Distinct DEF FrameInv
<1>5. ASSUME UNCHANGED <<state, button, frame, active>>
      PROVE  FrameInv'
  BY <1>5 DEF FrameInv
<1>6. ASSUME NEW k \in Keys, PressSwallowed(k)
      PROVE  FrameInv'
  BY <1>5, <1>6 DEF PressSwallowed, kbutton, history
<1>7. CASE ToggleMenu
  BY <1>5, <1>7 DEF ToggleMenu, kbutton, history
<1>8. ASSUME NEW act \in BOOLEAN, NEW squelch \in BOOLEAN, CreateMove(act, squelch)
      PROVE  FrameInv'
  <2>1. /\ state' = Sampled(act) \ {ImpulseDown} /\ frame' = Quiet
        /\ active' = act /\ button' = button
    BY <1>8 DEF CreateMove
  <2>2. ~frame'.pressed /\ ~frame'.released
    BY <2>1 DEF Quiet
  <2>3. act /\ button = "move" => Sampled(act) = state \cap {IsDown}
    BY DEF Sampled
  <2>4. act /\ button = "move" => ImpulseDown \notin state' /\ ImpulseUp \notin state'
    BY <2>1, <2>3, Distinct
  <2> QED BY <2>1, <2>2, <2>4 DEF FrameInv
<1>9. CASE UpdateClientData
  <2>1. button' = "attack"
    BY <1>9 DEF UpdateClientData
  <2> QED BY <2>1 DEF FrameInv
<1>10. CASE UNCHANGED vars
  BY <1>5, <1>10 DEF vars
<1> QED BY <1>1, <1>2, <1>3, <1>4, <1>6, <1>7, <1>8, <1>9, <1>10 DEF Next

\* What an active command after an active one says of a movement button.
LEMMA SampleIsPromised ==
  ASSUME TypeOK, FrameInv, active, button = "move", CreateMove(TRUE, FALSE)
  PROVE  cmd'.move = Promised
<1>1. /\ ImpulseDown \in state <=> frame.pressed
      /\ ImpulseUp \in state <=> frame.released
  BY DEF FrameInv
<1>2. cmd'.move = KeyState(state)
  BY DEF CreateMove
<1>3. CASE frame.pressed /\ frame.released
  BY <1>1, <1>2, <1>3, KeyStateValue DEF Promised
<1>4. CASE frame.pressed /\ ~frame.released
  <2>1. IsDown \in state
    BY <1>1, <1>4 DEF TypeOK
  <2>2. KeyState(state) = 2
    BY <1>1, <1>4, <2>1, KeyStateValue
  <2> QED BY <1>2, <1>4, <2>2 DEF Promised
<1>5. CASE ~frame.pressed /\ frame.released
  BY <1>1, <1>2, <1>5, KeyStateValue DEF Promised
<1>6. CASE ~frame.pressed /\ ~frame.released
  BY <1>1, <1>2, <1>6, KeyStateValue DEF Promised
<1> QED BY <1>3, <1>4, <1>5, <1>6

\* A movement button moves the player as CL_KeyState's comment promises.
THEOREM ButtonMovesAsPromised == Spec => MovesAsPromised
<1>1. Init => FrameInv
  BY DEF Init, FrameInv, Quiet
<1>2. TypeOK /\ FrameInv /\ [Next]_vars => FrameInv'
  BY FrameStep
<1>3. TypeOK /\ FrameInv /\ [Next]_vars =>
        [active /\ button = "move" /\ CreateMove(TRUE, FALSE) => cmd'.move = Promised]_vars
  BY SampleIsPromised
<1> QED BY <1>1, <1>2, <1>3, TypeCorrect, PTL DEF Spec, MovesAsPromised
=============================================================================
