-------------------------------- MODULE SayText --------------------------------
(***************************************************************************)
(* The chat lines: CHudSayText (cl_dll/saytext.cpp).                       *)
(*                                                                         *)
(* The lines stand in a fixed buffer, oldest on top, and scroll up when    *)
(* the top one has been there for hud_saytext_time or when a message finds *)
(* no empty line.  A message too long for a line is wrapped: the rest goes *)
(* to a line of its own that starts with a space, and a line that starts   *)
(* with a space scrolls away with the one above it.                        *)
(*                                                                         *)
(* Times are relative to gHUD.m_flTime, the clock of the last frame, which *)
(* a new level sets back.  A message takes one line or two: the code's     *)
(* arithmetic on the position of the line it wraps is only defined while   *)
(* that line is in the buffer, which longer ones do not guarantee.         *)
(***************************************************************************)
EXTENDS HudClock

CONSTANTS
  MaxLines,    \* MAX_LINES: with two, a long message could start above its beginning
  SayTimes,    \* values of hud_saytext_time
  MaxSaid      \* bound: messages printed

ASSUME SayTextAssumption ==
  /\ MaxLines \in Nat /\ MaxLines > 2
  /\ SayTimes \subseteq Nat \ {0} /\ SayTimes # {}
  /\ MaxSaid \in Nat

VARIABLES
  lines,       \* g_szLineBuffer: the message of each line, and which piece of it
  names,       \* g_pflNameColors and g_iNameLengths: the message they were set for
  scroll,      \* flScrollTime - m_flTime
  active,      \* HUD_ACTIVE
  said,        \* messages printed so far
  gapped       \* history: a message that found no empty line scrolled several away

sayVars == <<lines, names, scroll, active, said, gapped>>

LineNumbers == 0..(MaxLines - 1)
Empty == [msg |-> 0, piece |-> 0]
Line == [msg : 0..MaxSaid, piece : 0..2]
Beginning(m) == [msg |-> m, piece |-> 1]
Rest(m) == [msg |-> m, piece |-> 2]
StartsWithSpace(l) == l.piece = 2

\* Type invariant of the chat.
SayTextOK ==
  /\ lines \in [LineNumbers -> Line]
  /\ names \in [LineNumbers -> 0..MaxSaid]
  /\ scroll \in Int /\ scroll >= LongPast
  /\ active \in BOOLEAN
  /\ said \in 0..MaxSaid
  /\ gapped \in BOOLEAN

SayTextInit ==
  /\ lines = [i \in LineNumbers |-> Empty]
  /\ names = [i \in LineNumbers |-> 0]
  /\ scroll = 0
  /\ active = FALSE
  /\ said = 0
  /\ gapped = FALSE

\* InitHUDData: the scroll time and the flag stay as they are.
InitSayText ==
  /\ lines' = [i \in LineNumbers |-> Empty]
  /\ names' = [i \in LineNumbers |-> 0]
  /\ gapped' = FALSE
  /\ UNCHANGED <<scroll, active, said>>
-----------------------------------------------------------------------------
(* Scrolling.                                                              *)

\* Mutant: lines that follow the top one stay.
MovedOne(buf) == 1

\* How far ScrollTextUp scrolls: past the top line and those that belong to it.
Moved(buf) ==
  CHOOSE k \in 1..MaxLines :
    /\ \A i \in 1..(k - 1) : StartsWithSpace(buf[i])
    /\ k < MaxLines => ~StartsWithSpace(buf[k])

\* Mutant: one line too many is moved.
ScrolledLinesOver(buf) ==
  [i \in 0..MaxLines |-> IF i + Moved(buf) < MaxLines THEN buf[i + Moved(buf)] ELSE Empty]

\* ScrollTextUp, on the lines and on the arrays beside them.
ScrolledLines(buf) ==
  [i \in LineNumbers |-> IF i + Moved(buf) < MaxLines THEN buf[i + Moved(buf)] ELSE Empty]

\* Mutant: the arrays beside the lines are moved by one line only.
ScrolledNamesOnce(buf, tags) ==
  [i \in LineNumbers |-> IF i + 1 < MaxLines THEN tags[i + 1] ELSE 0]

ScrolledNames(buf, tags) ==
  [i \in LineNumbers |-> IF i + Moved(buf) < MaxLines THEN tags[i + Moved(buf)] ELSE 0]

Full(buf) == \A i \in LineNumbers : buf[i] # Empty

\* Mutant: the search for an empty line runs up from the bottom.
LastEmpty(buf) ==
  CHOOSE i \in LineNumbers : buf[i] = Empty /\ \A k \in (i + 1)..(MaxLines - 1) : buf[k] # Empty

FirstEmpty(buf) ==
  CHOOSE i \in LineNumbers : buf[i] = Empty /\ \A k \in 0..(i - 1) : buf[k] # Empty
-----------------------------------------------------------------------------
(* A message: SayTextPrint, from MsgFunc_SayText and the text messages.    *)

\* The line it starts on: the first empty one, or the last after a scroll.
StartLine == IF Full(lines) THEN MaxLines - 1 ELSE FirstEmpty(lines)

\* Mutant: the last line is taken without a scroll.
RoomForStartUnscrolled == lines

\* The lines and the arrays beside them once there is room.
RoomForStart == IF Full(lines) THEN ScrolledLines(lines) ELSE lines
NamesForStart == IF Full(lines) THEN ScrolledNames(lines, names) ELSE names

\* The message and its name colour at their line.
Started(m) == [RoomForStart EXCEPT ![StartLine] = Beginning(m)]
Named(tag) == [NamesForStart EXCEPT ![StartLine] = tag]

\* EnsureTextFitsInOneLineAndWrapIfHaveTo: scroll until there is an empty line, and
\* put the rest of the message there.  One scroll always empties a line.
RoomForRest(buf) == IF Full(buf) THEN ScrolledLines(buf) ELSE buf
Wrapped(buf, m) == [RoomForRest(buf) EXCEPT ![FirstEmpty(RoomForRest(buf))] = Rest(m)]
NamesAtWrap(buf, tags) == IF Full(buf) THEN ScrolledNames(buf, tags) ELSE tags

\* Mutant: a message does not show the lines again.
SayTextPrintHidden(long, tagged, time) ==
  LET m == said + 1
      tags == Named(IF tagged THEN m ELSE 0)
  IN /\ said < MaxSaid
     /\ said' = m
     /\ lines' = IF long THEN Wrapped(Started(m), m) ELSE Started(m)
     /\ names' = IF long THEN NamesAtWrap(Started(m), tags) ELSE tags
     /\ scroll' = IF StartLine = 0 THEN time ELSE scroll
     /\ gapped' = (gapped \/ (Full(lines) /\ Moved(lines) > 1))
     /\ UNCHANGED active

\* SayTextPrint, when text may be printed: long messages are wrapped, tagged ones
\* come from a player whose name is in them.
SayTextPrint(long, tagged, time) ==
  LET m == said + 1
      tags == Named(IF tagged THEN m ELSE 0)
  IN /\ said < MaxSaid
     /\ said' = m
     /\ lines' = IF long THEN Wrapped(Started(m), m) ELSE Started(m)
     /\ names' = IF long THEN NamesAtWrap(Started(m), tags) ELSE tags
     /\ scroll' = IF StartLine = 0 THEN time ELSE scroll
     /\ gapped' = (gapped \/ (Full(lines) /\ Moved(lines) > 1))
     /\ active' = TRUE
-----------------------------------------------------------------------------
(* A frame, dt after the last one.                                         *)

\* The scroll time, kept within reasonable bounds.
Bounded(dt, time) == Least(Later(scroll, dt), time)

\* Draw, when text may be printed and hud_saytext is on.
DrawSayText(dt, time) ==
  \/ /\ Bounded(dt, time) > 0
     /\ scroll' = Bounded(dt, time)
     /\ UNCHANGED <<lines, names, active, said, gapped>>
  \/ /\ Bounded(dt, time) <= 0
     /\ lines[0] # Empty
     /\ lines' = ScrolledLines(lines)
     /\ names' = ScrolledNames(lines, names)
     /\ scroll' = time
     /\ UNCHANGED <<active, said, gapped>>
  \/ /\ Bounded(dt, time) <= 0
     /\ lines[0] = Empty
     /\ active' = FALSE
     /\ scroll' = Bounded(dt, time)
     /\ UNCHANGED <<lines, names, said, gapped>>

\* A frame that does not come to drawing the lines only moves the clock.
SkipSayText(dt) ==
  /\ scroll' = Later(scroll, dt)
  /\ UNCHANGED <<lines, names, active, said, gapped>>
-----------------------------------------------------------------------------
(* Safety.                                                                 *)

\* Nothing starts in the middle: the top line is never the rest of a message whose
\* beginning has scrolled away (saytext.cpp:93).
TopStartsMessage == ~StartsWithSpace(lines[0])

\* The arrays beside the lines stay in step with them: a line that starts a message
\* is drawn with that message's name colour or none, however many lines were
\* scrolled by whichever caller (saytext.cpp:89, 249).
NamesInStep == \A i \in LineNumbers : lines[i].piece = 1 => names[i] \in {0, lines[i].msg}

Before(l, k) == l.msg < k.msg \/ (l.msg = k.msg /\ l.piece < k.piece)

\* As long as no message scrolled a wrapped one away to make room for itself, the
\* lines are in the order they came, without a gap, and a message's two lines are
\* one below the other (saytext.cpp:236, 371).
InOrder ==
  gapped \/
    /\ \A i, k \in LineNumbers : i < k /\ lines[k] # Empty => lines[i] # Empty /\ Before(lines[i], lines[k])
    /\ \A i \in LineNumbers : StartsWithSpace(lines[i]) => i > 0 /\ lines[i - 1] = Beginning(lines[i].msg)

Shown(buf) == {buf[i] : i \in LineNumbers} \ {Empty}

\* Unless a gap was left in the lines, or all of them are cleared, only the oldest
\* lines ever leave, whoever scrolls and however often for one message, and a message
\* just printed starts on one of them (saytext.cpp:241, 380).
OnlyOldestLeave ==
  [][\/ gapped' \/ Shown(lines') = {}
     \/ /\ \A l \in Shown(lines) \ Shown(lines'), k \in Shown(lines') : Before(l, k)
        /\ said' # said => Beginning(said') \in Shown(lines')]_sayVars

\* saytext.cpp:128 says of the branch that disables drawing: "buffer is empty, just
\* disable drawing of this section".
DisabledIsEmpty == ~active => \A i \in LineNumbers : lines[i] = Empty

\* It is, as long as no gap was left in the lines.
DisabledIsEmptyUngapped == gapped \/ DisabledIsEmpty
=============================================================================
