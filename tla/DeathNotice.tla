------------------------------ MODULE DeathNotice ------------------------------
(***************************************************************************)
(* The death notices: CHudDeathNotice (cl_dll/death.cpp).                  *)
(*                                                                         *)
(* The list is an array with one entry more than it holds notices; a free  *)
(* entry has sprite 0, and the first free entry ends the list.  A notice   *)
(* is removed, when its time is over or the list is full, by moving the    *)
(* entries after it down, the one past the end with them.  A message only  *)
(* ever sets the flags of its entry: what a notice says is right because   *)
(* free entries are clean.                                                 *)
(*                                                                         *)
(* Sprite 1 stands for any that is not 0, the skull's -1 included: index 0 *)
(* is no death sprite's.  HUD_ACTIVE is set by the first message and       *)
(* stays, so a list that is not drawn for want of it is empty.             *)
(***************************************************************************)
EXTENDS HudClock, Sequences, FiniteSets

CONSTANTS
  MaxNotices,  \* MAX_DEATHNOTICES
  PlayerFlags, \* what may be said of a player's death: "suicide", "teamkill"
  NoticeTimes, \* values of hud_deathnotice_time
  MaxDeaths    \* bound: messages received

ASSUME DeathNoticeAssumption ==
  /\ MaxNotices \in Nat /\ MaxNotices > 0
  /\ NoticeTimes \subseteq Nat \ {0} /\ NoticeTimes # {}
  /\ MaxDeaths \in Nat

VARIABLES
  notices,     \* rgDeathNoticeList
  noticeTime,  \* DEATHNOTICE_DISPLAY_TIME
  deaths       \* messages received so far: the names of a notice are its message's

deathVars == <<notices, noticeTime, deaths>>

Flag == PlayerFlags \cup {"object"}
\* The flags a message sets: of a player's death, or of an object's.
MessageFlags == (SUBSET PlayerFlags) \cup {{"object"}}
Entries == 0..MaxNotices
Places == 0..(MaxNotices - 1)
Notice == [id : {0, 1}, flags : SUBSET Flag, left : Int, of : 0..MaxDeaths]
Free == [id |-> 0, flags |-> {}, left |-> 0, of |-> 0]

\* Type invariant of the death notices.
DeathNoticeOK ==
  /\ notices \in [Entries -> Notice]
  /\ noticeTime \in Nat
  /\ deaths \in 0..MaxDeaths

DeathNoticeInit ==
  /\ notices = [i \in Entries |-> Free]
  /\ noticeTime = 6
  /\ deaths = 0

\* Mutant: only the sprites are reset.
InitDeathNoticeSprites ==
  /\ notices' = [i \in Entries |-> [notices[i] EXCEPT !.id = 0]]
  /\ UNCHANGED <<noticeTime, deaths>>

\* InitHUDData.
InitDeathNotice ==
  /\ notices' = [i \in Entries |-> Free]
  /\ UNCHANGED <<noticeTime, deaths>>

\* The notices the loops of the code come to.
Listed == {i \in Places : \A k \in 0..i : notices[k].id # 0}
-----------------------------------------------------------------------------
(* A message.                                                              *)

\* The list moved down by one, the entry past its end included.
MovedDown == [i \in Entries |-> IF i < MaxNotices THEN notices[i + 1] ELSE notices[i]]

\* Mutant: a full list starts over at its first entry.
FreePlaceFirst ==
  IF Listed = Places THEN 0
  ELSE CHOOSE i \in Places : notices[i].id = 0 /\ \A k \in 0..(i - 1) : notices[k].id # 0

FreePlace ==
  IF Listed = Places THEN MaxNotices - 1
  ELSE CHOOSE i \in Places : notices[i].id = 0 /\ \A k \in 0..(i - 1) : notices[k].id # 0

\* MsgFunc_DeathMsg.
DeathMsg(flags, time) ==
  LET list == IF Listed = Places THEN MovedDown ELSE notices
  IN /\ deaths < MaxDeaths
     /\ deaths' = deaths + 1
     /\ noticeTime' = time
     /\ notices' = [list EXCEPT ![FreePlace] =
          [id |-> 1, flags |-> @.flags \cup flags, left |-> time, of |-> deaths + 1]]
-----------------------------------------------------------------------------
(* A frame, dt after the last one.                                         *)

LaterNotice(n, dt) == IF n.id = 0 THEN n ELSE [n EXCEPT !.left = Later(@, dt)]

\* Mutant: kept within bounds from below.
ClampedUp(n) == [n EXCEPT !.left = IF @ >= noticeTime THEN @ ELSE noticeTime]

\* The time left of a notice that is kept, within bounds of the clock.
Clamped(n) == [n EXCEPT !.left = Least(@, noticeTime)]

\* The notices the loop keeps, and which of them ends up at place j.
Unexpired(dt) == {i \in Listed : LaterNotice(notices[i], dt).left >= 0}
KeptAt(j, dt) ==
  CHOOSE i \in Unexpired(dt) : Cardinality({k \in Unexpired(dt) : k < i}) = j

Removed(dt) == Cardinality(Listed) - Cardinality(Unexpired(dt))

\* Draw: expired notices are removed one by one, each time with the entries after
\* them, the one past the end included, moving down.
DrawDeathNotice(dt) ==
  /\ notices' = [j \in Entries |->
       IF j < Cardinality(Unexpired(dt)) THEN Clamped(LaterNotice(notices[KeptAt(j, dt)], dt))
       ELSE notices[IF j + Removed(dt) < MaxNotices THEN j + Removed(dt) ELSE MaxNotices]]
  /\ UNCHANGED <<noticeTime, deaths>>

\* A frame that does not draw the list only moves the clock.
SkipDeathNotice(dt) ==
  /\ notices' = [i \in Entries |-> LaterNotice(notices[i], dt)]
  /\ UNCHANGED <<noticeTime, deaths>>
-----------------------------------------------------------------------------
(* Safety.                                                                 *)

\* The first free entry ends the list and every entry from there on is clean, the one
\* past the end always: a flag of an earlier notice never shows in a later one, since
\* messages set flags and nothing resets them (death.cpp:110, 205, 246).
FreeIsClean ==
  /\ notices[MaxNotices] = Free
  /\ \A i \in Places : notices[i].id = 0 => \A k \in i..MaxNotices : notices[k] = Free

\* The list as a board, and what each notice says.
Board == INSTANCE NoticeBoard WITH
  Size <- MaxNotices,
  Text <- MessageFlags,
  board <- [i \in 1..Cardinality(Listed) |->
              [of |-> notices[i - 1].of, text |-> notices[i - 1].flags]],
  posted <- deaths

\* The array implements the board: a notice is what its message said, in the order
\* the messages came, and only the oldest is displaced (death.cpp:98, 180).
BoardSpec == Board!Spec
=============================================================================
