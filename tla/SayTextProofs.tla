----------------------------- MODULE SayTextProofs -----------------------------
(***************************************************************************)
(* What each operation of the chat does to its lines, for any number of    *)
(* lines from three up and any messages: lemmas that the proofs about the  *)
(* whole HUD take for the chat's part.                                     *)
(***************************************************************************)
EXTENDS SayText, NaturalFacts

\* A time that runs out stays a number, and goes no further back than LongPast.
LEMMA LaterFacts ==
  ASSUME NEW t \in Int, NEW dt \in Int
  PROVE  /\ LongPast \in Int /\ LongPast < 0
         /\ Later(t, dt) \in Int /\ Later(t, dt) >= LongPast
         /\ dt >= 0 /\ LongPast <= t => Later(t, dt) <= t
         /\ Later(t, dt) > LongPast => Later(t, dt) = t - dt
BY HudClockAssumption DEF HudClockAssumption, Later, LongPast

Buffers == [LineNumbers -> Line]
Tags == [LineNumbers -> 0..MaxSaid]

\* The strengthening of TopStartsMessage.  The rest of a message is put on the first
\* empty line, and that is the top one only if a scroll has emptied it: the lines
\* below the top one of a full buffer are then all rests, the last two among them.
RestsInPlace ==
  /\ TopStartsMessage
  /\ \A i, k \in LineNumbers : i < k /\ lines[i] = Empty => ~StartsWithSpace(lines[k])
  /\ ~(StartsWithSpace(lines[MaxLines - 2]) /\ StartsWithSpace(lines[MaxLines - 1]))

\* The strengthening of InOrder: no line is of a message yet to come.
OrderInv ==
  /\ InOrder
  /\ \A i \in LineNumbers : lines[i].msg <= said

\* What may happen to the chat.
SayTextStep ==
  \/ InitSayText
  \/ \E long, tagged \in BOOLEAN, time \in SayTimes : SayTextPrint(long, tagged, time)
  \/ \E dt \in Int, time \in SayTimes : DrawSayText(dt, time)
  \/ \E dt \in Int : SkipSayText(dt)
  \/ UNCHANGED sayVars
-----------------------------------------------------------------------------
\* The numbers of the lines.
LEMMA Bounds ==
  /\ MaxLines \in Int /\ 3 <= MaxLines /\ MaxSaid \in Int /\ 0 <= MaxSaid
  /\ \A i : i \in LineNumbers <=> i \in Int /\ 0 <= i /\ i < MaxLines
  /\ \A time \in SayTimes : time \in Int /\ 1 <= time
BY SayTextAssumption DEF SayTextAssumption, LineNumbers

\* Lines are typed; only the rest of a message starts with a space.
LEMMA LineFacts ==
  /\ Empty \in Line /\ ~StartsWithSpace(Empty) /\ Empty.msg = 0 /\ Empty.piece = 0
  /\ \A m \in 1..MaxSaid :
       /\ Beginning(m) \in Line /\ Beginning(m) # Empty /\ ~StartsWithSpace(Beginning(m))
       /\ Rest(m) \in Line /\ Rest(m) # Empty /\ StartsWithSpace(Rest(m))
       /\ Beginning(m).msg = m /\ Rest(m).msg = m
       /\ Beginning(m).piece = 1 /\ Rest(m).piece = 2
BY Bounds DEF Empty, Line, Beginning, Rest, StartsWithSpace

\* A scroll moves at least one line, and all that the top one takes with it.
LEMMA MovedFacts ==
  ASSUME NEW buf \in Buffers
  PROVE  /\ Moved(buf) \in Int /\ 1 <= Moved(buf) /\ Moved(buf) <= MaxLines
         /\ \A i \in 1..(Moved(buf) - 1) : StartsWithSpace(buf[i])
         /\ Moved(buf) < MaxLines => ~StartsWithSpace(buf[Moved(buf)])
<1> DEFINE S == {k \in 1..MaxLines : k < MaxLines => ~StartsWithSpace(buf[k])}
<1>1. S \in SUBSET Nat /\ S # {}
  BY Bounds
<1>2. PICK k \in S : \A i \in S : k <= i
  <2> HIDE DEF S
  <2> QED BY <1>1, LeastNatural
<1>3. k \in 1..MaxLines /\ (k < MaxLines => ~StartsWithSpace(buf[k]))
  OBVIOUS
<1>4. \A i \in 1..(k - 1) : StartsWithSpace(buf[i])
  BY <1>2, <1>3, Bounds
<1>5. \E j \in 1..MaxLines :
        /\ \A i \in 1..(j - 1) : StartsWithSpace(buf[i])
        /\ j < MaxLines => ~StartsWithSpace(buf[j])
  BY <1>3, <1>4
<1>6. /\ Moved(buf) \in 1..MaxLines
      /\ \A i \in 1..(Moved(buf) - 1) : StartsWithSpace(buf[i])
      /\ Moved(buf) < MaxLines => ~StartsWithSpace(buf[Moved(buf)])
  <2> HIDE <1>2, <1>3, <1>4
  <2> QED BY <1>5 DEF Moved
<1> QED BY <1>6, Bounds

\* What a scroll leaves.
LEMMA ScrolledFacts ==
  ASSUME NEW buf \in Buffers
  PROVE  /\ ScrolledLines(buf) \in Buffers
         /\ \A i \in LineNumbers :
              /\ i + Moved(buf) < MaxLines =>
                   i + Moved(buf) \in LineNumbers /\ ScrolledLines(buf)[i] = buf[i + Moved(buf)]
              /\ i + Moved(buf) >= MaxLines => ScrolledLines(buf)[i] = Empty
         /\ ~Full(ScrolledLines(buf)) /\ ~StartsWithSpace(ScrolledLines(buf)[0])
         /\ \A tags \in Tags : ScrolledNames(buf, tags) \in Tags
<1>0. Moved(buf) \in Int /\ 1 <= Moved(buf) /\ Moved(buf) <= MaxLines
  BY MovedFacts
<1>1. \A i \in LineNumbers : i + Moved(buf) < MaxLines => i + Moved(buf) \in LineNumbers
  BY <1>0, Bounds
<1>2. ScrolledLines(buf) \in Buffers
  BY <1>1, LineFacts DEF ScrolledLines, Buffers
<1>3. \A i \in LineNumbers :
        /\ i + Moved(buf) < MaxLines => ScrolledLines(buf)[i] = buf[i + Moved(buf)]
        /\ i + Moved(buf) >= MaxLines => ScrolledLines(buf)[i] = Empty
  BY <1>0, Bounds DEF ScrolledLines
<1>4. ~Full(ScrolledLines(buf))
  <2>1. MaxLines - 1 \in LineNumbers /\ MaxLines - 1 + Moved(buf) >= MaxLines
    BY <1>0, Bounds
  <2> QED BY <1>3, <2>1 DEF Full
<1>5. ~StartsWithSpace(ScrolledLines(buf)[0])
  <2>1. 0 \in LineNumbers /\ 0 + Moved(buf) = Moved(buf)
    BY <1>0, Bounds
  <2>2. CASE Moved(buf) < MaxLines
    BY <1>3, <2>1, <2>2, MovedFacts
  <2>3. CASE ~(Moved(buf) < MaxLines)
    BY <1>0, <1>3, <2>1, <2>3, Bounds, LineFacts
  <2> QED BY <2>2, <2>3
<1>6. \A tags \in Tags : ScrolledNames(buf, tags) \in Tags
  BY <1>1, Bounds DEF ScrolledNames, Tags
<1> QED BY <1>1, <1>2, <1>3, <1>4, <1>5, <1>6

\* The first empty line of a buffer that has one.
LEMMA FirstEmptyFacts ==
  ASSUME NEW buf \in Buffers, ~Full(buf)
  PROVE  /\ FirstEmpty(buf) \in LineNumbers /\ buf[FirstEmpty(buf)] = Empty
         /\ \A k \in LineNumbers : k < FirstEmpty(buf) => buf[k] # Empty
<1> DEFINE S == {i \in LineNumbers : buf[i] = Empty}
<1>1. S \in SUBSET Nat /\ S # {}
  BY Bounds DEF Full
<1>2. PICK i \in S : \A k \in S : i <= k
  <2> HIDE DEF S
  <2> QED BY <1>1, LeastNatural
<1>3. \A k \in 0..(i - 1) : buf[k] # Empty
  BY <1>2, Bounds
<1>4. i \in LineNumbers /\ buf[i] = Empty
  OBVIOUS
<1>5. /\ FirstEmpty(buf) \in LineNumbers /\ buf[FirstEmpty(buf)] = Empty
      /\ \A k \in 0..(FirstEmpty(buf) - 1) : buf[k] # Empty
  <2> HIDE <1>2
  <2> QED BY <1>3, <1>4 DEF FirstEmpty
<1> QED BY <1>5, Bounds
-----------------------------------------------------------------------------
(* A message's two lines.                                                   *)

\* The line a message starts on, and the buffer it leaves.
LEMMA StartFacts ==
  ASSUME SayTextOK, NEW m \in 1..MaxSaid
  PROVE  /\ StartLine \in LineNumbers
         /\ RoomForStart \in Buffers /\ NamesForStart \in Tags
         /\ Started(m) \in Buffers
         /\ \A i \in LineNumbers :
              Started(m)[i] = IF i = StartLine THEN Beginning(m) ELSE RoomForStart[i]
<1>0. lines \in Buffers /\ names \in Tags
  BY DEF SayTextOK, Buffers, Tags
<1>1. StartLine \in LineNumbers
  BY <1>0, Bounds, FirstEmptyFacts DEF StartLine
<1>2. RoomForStart \in Buffers /\ NamesForStart \in Tags
  BY <1>0, ScrolledFacts DEF RoomForStart, NamesForStart
<1>3. Started(m) \in Buffers
  BY <1>1, <1>2, LineFacts DEF Started, Buffers
<1>4. \A i \in LineNumbers :
        Started(m)[i] = IF i = StartLine THEN Beginning(m) ELSE RoomForStart[i]
  BY <1>1, <1>2 DEF Started, Buffers
<1> QED BY <1>1, <1>2, <1>3, <1>4

\* The line the rest of a message goes to, and the buffer it leaves.
LEMMA WrapFacts ==
  ASSUME NEW buf \in Buffers, NEW m \in 1..MaxSaid
  PROVE  /\ RoomForRest(buf) \in Buffers /\ ~Full(RoomForRest(buf))
         /\ Wrapped(buf, m) \in Buffers
         /\ \A i \in LineNumbers :
              Wrapped(buf, m)[i] = IF i = FirstEmpty(RoomForRest(buf)) THEN Rest(m)
                                   ELSE RoomForRest(buf)[i]
<1>1. RoomForRest(buf) \in Buffers /\ ~Full(RoomForRest(buf))
  BY ScrolledFacts DEF RoomForRest
<1>2. FirstEmpty(RoomForRest(buf)) \in LineNumbers
  BY <1>1, FirstEmptyFacts
<1>3. Wrapped(buf, m) \in Buffers
  BY <1>1, <1>2, LineFacts DEF Wrapped, Buffers
<1>4. \A i \in LineNumbers :
        Wrapped(buf, m)[i] = IF i = FirstEmpty(RoomForRest(buf)) THEN Rest(m)
                             ELSE RoomForRest(buf)[i]
  BY <1>1, <1>2 DEF Wrapped, Buffers
<1> QED BY <1>1, <1>3, <1>4

-----------------------------------------------------------------------------
(* Types.                                                                   *)

\* A cleared buffer, and the arrays beside it.
LEMMA ClearedFacts ==
  /\ [i \in LineNumbers |-> Empty] \in Buffers
  /\ [i \in LineNumbers |-> 0] \in Tags
<1>1. Empty \in Line
  BY LineFacts
<1>2. 0 \in 0..MaxSaid
  BY Bounds
<1> HIDE DEF Empty, Line
<1> QED BY <1>1, <1>2 DEF Buffers, Tags

\* The chat starts typed.
LEMMA SayTextTypeInit == SayTextInit => SayTextOK
<1> SUFFICES ASSUME SayTextInit PROVE SayTextOK
  OBVIOUS
<1>1. lines \in Buffers /\ names \in Tags
  BY ClearedFacts DEF SayTextInit
<1>2. scroll = 0 /\ said = 0 /\ active = FALSE /\ gapped = FALSE
  BY DEF SayTextInit
<1>3. LongPast \in Int /\ LongPast < 0
  BY LaterFacts
<1>4. scroll \in Int /\ scroll >= LongPast
  BY <1>2, <1>3
<1>5. said \in 0..MaxSaid
  BY <1>2, Bounds
<1>6. active \in BOOLEAN /\ gapped \in BOOLEAN
  BY <1>2
<1> QED BY <1>1, <1>4, <1>5, <1>6 DEF SayTextOK, Buffers, Tags

\* It stays typed.
LEMMA SayTextTypeStep == SayTextOK /\ SayTextStep => SayTextOK'
<1> SUFFICES ASSUME SayTextOK, SayTextStep PROVE SayTextOK'
  OBVIOUS
<1>0. /\ lines \in Buffers /\ names \in Tags
      /\ scroll \in Int /\ scroll >= LongPast
      /\ active \in BOOLEAN /\ said \in 0..MaxSaid /\ gapped \in BOOLEAN
  BY DEF SayTextOK, Buffers, Tags
<1>1. CASE InitSayText
  <2>1. lines' \in Buffers /\ names' \in Tags
    BY <1>1, ClearedFacts DEF InitSayText
  <2>2. gapped' = FALSE /\ scroll' = scroll /\ active' = active /\ said' = said
    BY <1>1 DEF InitSayText
  <2> QED BY <1>0, <2>1, <2>2 DEF SayTextOK, Buffers, Tags
<1>2. ASSUME NEW long \in BOOLEAN, NEW tagged \in BOOLEAN, NEW time \in SayTimes,
             SayTextPrint(long, tagged, time)
      PROVE  SayTextOK'
  <2> DEFINE m == said + 1
             tags == Named(IF tagged THEN m ELSE 0)
  <2>1. m \in 1..MaxSaid /\ said' = m
    BY <1>0, <1>2, Bounds DEF SayTextPrint
  <2>2. StartLine \in LineNumbers /\ Started(m) \in Buffers /\ NamesForStart \in Tags
    BY <2>1, StartFacts
  <2>3. tags \in Tags
    <3>1. (IF tagged THEN m ELSE 0) \in 0..MaxSaid
      BY <2>1, Bounds
    <3>2. \A tag \in 0..MaxSaid : Named(tag) \in Tags
      BY <2>2 DEF Named, Tags
    <3> QED BY <3>1, <3>2
  <2>4. lines' = (IF long THEN Wrapped(Started(m), m) ELSE Started(m))
    BY <1>2 DEF SayTextPrint
  <2>5. names' = (IF long THEN NamesAtWrap(Started(m), tags) ELSE tags)
    BY <1>2 DEF SayTextPrint
  <2>6. scroll' \in Int /\ scroll' >= LongPast
    <3>1. scroll' = (IF StartLine = 0 THEN time ELSE scroll)
      BY <1>2 DEF SayTextPrint
    <3> QED BY <1>0, <3>1, Bounds, LaterFacts
  <2>7. active' \in BOOLEAN /\ gapped' \in BOOLEAN
    <3>1. active' = TRUE
      BY <1>2 DEF SayTextPrint
    <3>2. gapped' = (gapped \/ (Full(lines) /\ Moved(lines) > 1))
      BY <1>2 DEF SayTextPrint
    <3> QED BY <3>1, <3>2
  <2>8. lines' \in Buffers
    BY <2>1, <2>2, <2>4, WrapFacts
  <2>9. names' \in Tags
    BY <2>2, <2>3, <2>5, ScrolledFacts DEF NamesAtWrap
  <2> HIDE DEF m, tags
  <2> QED BY <2>1, <2>6, <2>7, <2>8, <2>9 DEF SayTextOK, Buffers, Tags
<1>3. ASSUME NEW dt \in Int, NEW time \in SayTimes, DrawSayText(dt, time)
      PROVE  SayTextOK'
  <2>0. /\ time \in Int /\ 1 <= time /\ LongPast \in Int /\ LongPast < 0
        /\ Later(scroll, dt) \in Int /\ Later(scroll, dt) >= LongPast
    BY <1>0, Bounds, LaterFacts
  <2>1. Bounded(dt, time) \in Int /\ Bounded(dt, time) >= LongPast /\ time >= LongPast
    BY <2>0 DEF Bounded, Least
  <2>2. lines' \in Buffers /\ names' \in Tags
    BY <1>0, <1>3, ScrolledFacts DEF DrawSayText
  <2>3. scroll' \in Int /\ scroll' >= LongPast
    BY <1>3, <2>1, Bounds DEF DrawSayText
  <2>4. active' \in BOOLEAN /\ said' = said /\ gapped' = gapped
    BY <1>0, <1>3 DEF DrawSayText
  <2> QED BY <1>0, <2>2, <2>3, <2>4 DEF SayTextOK, Buffers, Tags
<1>4. ASSUME NEW dt \in Int, SkipSayText(dt)
      PROVE  SayTextOK'
  BY <1>0, <1>4, LaterFacts DEF SkipSayText, SayTextOK, Buffers, Tags
<1>5. CASE UNCHANGED sayVars
  BY <1>5 DEF sayVars, SayTextOK
<1> QED BY <1>1, <1>2, <1>3, <1>4, <1>5 DEF SayTextStep
-----------------------------------------------------------------------------
(* The arrays beside the lines.                                             *)

InStep(buf, tags) == \A i \in LineNumbers : buf[i].piece = 1 => tags[i] \in {0, buf[i].msg}

\* A scroll moves both alike.
LEMMA ScrollKeepsStep ==
  ASSUME NEW buf \in Buffers, NEW tags \in Tags, InStep(buf, tags)
  PROVE  InStep(ScrolledLines(buf), ScrolledNames(buf, tags))
<1> SUFFICES ASSUME NEW i \in LineNumbers, ScrolledLines(buf)[i].piece = 1
             PROVE  ScrolledNames(buf, tags)[i] \in {0, ScrolledLines(buf)[i].msg}
  BY DEF InStep
<1>1. i + Moved(buf) < MaxLines
  BY ScrolledFacts, MovedFacts, Bounds, LineFacts
<1>2. i + Moved(buf) \in LineNumbers /\ ScrolledLines(buf)[i] = buf[i + Moved(buf)]
  BY <1>1, ScrolledFacts
<1>3. ScrolledNames(buf, tags)[i] = tags[i + Moved(buf)]
  BY <1>1 DEF ScrolledNames
<1> QED BY <1>2, <1>3 DEF InStep

\* NamesInStep says it of the buffers of the chat.
LEMMA NamesInStepStep ==
  SayTextOK /\ NamesInStep /\ SayTextStep => NamesInStep'
<1> SUFFICES ASSUME SayTextOK, NamesInStep, SayTextStep PROVE InStep(lines', names')
  BY DEF NamesInStep, InStep
<1>0. lines \in Buffers /\ names \in Tags /\ InStep(lines, names) /\ said \in 0..MaxSaid
  BY DEF SayTextOK, Buffers, Tags, NamesInStep, InStep
<1>1. CASE InitSayText
  BY <1>1, LineFacts DEF InitSayText, InStep
<1>2. ASSUME NEW long \in BOOLEAN, NEW tagged \in BOOLEAN, NEW time \in SayTimes,
             SayTextPrint(long, tagged, time)
      PROVE  InStep(lines', names')
  <2> DEFINE m == said + 1
             tag == IF tagged THEN m ELSE 0
             tags == Named(tag)
             b == Started(m)
  <2>1. m \in 1..MaxSaid /\ tag \in {0, m}
    BY <1>0, <1>2, Bounds DEF SayTextPrint
  <2>2. InStep(RoomForStart, NamesForStart)
    BY <1>0, ScrollKeepsStep DEF RoomForStart, NamesForStart
  <2>3. /\ StartLine \in LineNumbers /\ NamesForStart \in Tags /\ b \in Buffers
        /\ \A i \in LineNumbers : b[i] = IF i = StartLine THEN Beginning(m) ELSE RoomForStart[i]
    BY <2>1, StartFacts
  <2>4. tags \in Tags /\ \A i \in LineNumbers : tags[i] = IF i = StartLine THEN tag ELSE NamesForStart[i]
    <3>1. tag \in 0..MaxSaid
      BY <2>1, Bounds
    <3> HIDE DEF tag
    <3> QED BY <2>3, <3>1 DEF Named, Tags
  <2>5. lines' = (IF long THEN Wrapped(b, m) ELSE b) /\ names' = (IF long THEN NamesAtWrap(b, tags) ELSE tags)
    BY <1>2 DEF SayTextPrint
  <2> HIDE DEF m, tag, tags, b
  <2>6. InStep(b, tags)
    BY <2>1, <2>2, <2>3, <2>4, LineFacts DEF InStep
  <2>7. ASSUME long PROVE InStep(Wrapped(b, m), NamesAtWrap(b, tags))
    <3>1. InStep(RoomForRest(b), NamesAtWrap(b, tags))
      BY <2>3, <2>4, <2>6, ScrollKeepsStep DEF RoomForRest, NamesAtWrap
    <3>2. \A i \in LineNumbers :
            Wrapped(b, m)[i] = IF i = FirstEmpty(RoomForRest(b)) THEN Rest(m) ELSE RoomForRest(b)[i]
      BY <2>1, <2>3, WrapFacts
    <3> QED BY <2>1, <3>1, <3>2, LineFacts DEF InStep
  <2> QED BY <2>5, <2>6, <2>7
<1>3. ASSUME NEW dt \in Int, NEW time \in SayTimes, DrawSayText(dt, time)
      PROVE  InStep(lines', names')
  BY <1>0, <1>3, ScrollKeepsStep DEF DrawSayText
<1>4. ASSUME NEW dt \in Int, SkipSayText(dt)
      PROVE  InStep(lines', names')
  BY <1>0, <1>4 DEF SkipSayText
<1>5. CASE UNCHANGED sayVars
  BY <1>0, <1>5 DEF sayVars
<1> QED BY <1>1, <1>2, <1>3, <1>4, <1>5 DEF SayTextStep
-----------------------------------------------------------------------------
(* Rests below their beginnings.                                            *)

NoRestAfterEmpty(buf) ==
  \A i, k \in LineNumbers : i < k /\ buf[i] = Empty => ~StartsWithSpace(buf[k])

TwoRestsLast(buf) == StartsWithSpace(buf[MaxLines - 2]) /\ StartsWithSpace(buf[MaxLines - 1])

Sound(buf) == ~StartsWithSpace(buf[0]) /\ NoRestAfterEmpty(buf) /\ ~TwoRestsLast(buf)

\* A scroll leaves the buffer sound.
LEMMA ScrollKeepsSound ==
  ASSUME NEW buf \in Buffers, NoRestAfterEmpty(buf)
  PROVE  Sound(ScrolledLines(buf)) /\ ScrolledLines(buf)[MaxLines - 1] = Empty
<1> DEFINE r == ScrolledLines(buf)
<1>1. Moved(buf) \in Int /\ 1 <= Moved(buf)
  BY MovedFacts
<1>2. \A i \in LineNumbers :
        /\ i + Moved(buf) < MaxLines => i + Moved(buf) \in LineNumbers /\ r[i] = buf[i + Moved(buf)]
        /\ i + Moved(buf) >= MaxLines => r[i] = Empty
  BY ScrolledFacts
<1>3. MaxLines - 1 \in LineNumbers /\ MaxLines - 1 + Moved(buf) >= MaxLines
  BY <1>1, Bounds
<1>4. r[MaxLines - 1] = Empty
  BY <1>2, <1>3
<1>5. ~StartsWithSpace(r[0])
  BY ScrolledFacts
<1> HIDE DEF r
<1>6. ASSUME NEW i \in LineNumbers, NEW k \in LineNumbers, i < k, r[i] = Empty, StartsWithSpace(r[k])
      PROVE  FALSE
  <2>1. k + Moved(buf) < MaxLines
    BY <1>1, <1>2, <1>6, Bounds, LineFacts
  <2>2. i + Moved(buf) < MaxLines /\ i + Moved(buf) < k + Moved(buf)
    BY <1>1, <1>6, <2>1, Bounds
  <2> QED BY <1>2, <1>6, <2>1, <2>2 DEF NoRestAfterEmpty
<1> QED BY <1>4, <1>5, <1>6, LineFacts DEF Sound, NoRestAfterEmpty, TwoRestsLast, r

\* So does a message's beginning, with no rest from its line down.
LEMMA StartKeepsSound ==
  ASSUME SayTextOK, Sound(lines), NEW m \in 1..MaxSaid
  PROVE  /\ Sound(Started(m)) /\ Started(m)[0] # Empty
         /\ \A k \in LineNumbers : k >= StartLine => ~StartsWithSpace(Started(m)[k])
<1> DEFINE r == RoomForStart
           s == StartLine
           b == Started(m)
<1>0. lines \in Buffers
  BY DEF SayTextOK, Buffers
<1>1. /\ s \in LineNumbers /\ r \in Buffers
      /\ \A i \in LineNumbers : b[i] = IF i = s THEN Beginning(m) ELSE r[i]
  BY StartFacts
<1>2. Sound(r) /\ r[s] = Empty
  BY <1>0, FirstEmptyFacts, ScrollKeepsSound DEF RoomForStart, StartLine, Sound
<1>3. s # 0 => r[0] # Empty
  <2>1. CASE Full(lines)
    <3>1. MaxLines - 2 \in 1..(MaxLines - 1) /\ MaxLines - 1 \in 1..(MaxLines - 1)
      BY Bounds
    <3>2. Moved(lines) < MaxLines
      BY <1>0, <3>1, MovedFacts, Bounds DEF Sound, TwoRestsLast
    <3>3. 0 \in LineNumbers /\ 0 + Moved(lines) = Moved(lines)
      BY <1>0, Bounds, MovedFacts
    <3>4. Moved(lines) \in LineNumbers /\ r[0] = lines[Moved(lines)]
      BY <1>0, <2>1, <3>2, <3>3, ScrolledFacts DEF RoomForStart
    <3> QED BY <2>1, <3>4 DEF Full
  <2>2. CASE ~Full(lines)
    BY <1>0, <1>1, <2>2, FirstEmptyFacts, Bounds DEF RoomForStart, StartLine
  <2> QED BY <2>1, <2>2
<1> HIDE DEF r, s, b
<1>4. 0 \in LineNumbers /\ MaxLines - 1 \in LineNumbers /\ MaxLines - 2 \in LineNumbers
  BY Bounds
<1>5. Beginning(m) # Empty /\ ~StartsWithSpace(Beginning(m))
  BY LineFacts
<1>6. ~StartsWithSpace(b[0]) /\ b[0] # Empty
  BY <1>1, <1>2, <1>3, <1>4, <1>5 DEF Sound
<1>7. NoRestAfterEmpty(b)
  BY <1>1, <1>2, <1>5 DEF Sound, NoRestAfterEmpty
<1>8. ~TwoRestsLast(b)
  BY <1>1, <1>2, <1>4, <1>5 DEF Sound, TwoRestsLast
<1>9. \A k \in LineNumbers : k >= s => ~StartsWithSpace(b[k])
  <2> SUFFICES ASSUME NEW k \in LineNumbers, k >= s PROVE ~StartsWithSpace(b[k])
    OBVIOUS
  <2>1. k # s => s < k
    BY <1>1, Bounds
  <2> QED BY <1>1, <1>2, <1>5, <2>1 DEF Sound, NoRestAfterEmpty
<1> QED BY <1>6, <1>7, <1>8, <1>9 DEF Sound, b, s

\* And the rest of one, below a line that is taken.
LEMMA RestKeepsSound ==
  ASSUME NEW r \in Buffers, NEW w \in Buffers, NEW m \in 1..MaxSaid, NEW j \in LineNumbers,
         Sound(r), r[0] # Empty, r[j] = Empty,
         \A k \in LineNumbers : k < j => r[k] # Empty,
         j = MaxLines - 1 => ~StartsWithSpace(r[MaxLines - 2]),
         \A i \in LineNumbers : w[i] = IF i = j THEN Rest(m) ELSE r[i]
  PROVE  Sound(w)
<1>1. j # 0 /\ ~StartsWithSpace(w[0])
  BY Bounds DEF Sound
<1>2. Rest(m) # Empty
  BY LineFacts
<1>3. ASSUME NEW i \in LineNumbers, NEW k \in LineNumbers, i < k, w[i] = Empty
      PROVE  ~StartsWithSpace(w[k])
  <2>1. i # j /\ r[i] = Empty
    BY <1>2, <1>3
  <2>2. ~(i < j)
    BY <2>1
  <2>3. k # j
    BY <1>3, <2>1, <2>2, Bounds
  <2> QED BY <1>3, <2>1, <2>3 DEF Sound, NoRestAfterEmpty
<1>4. ~TwoRestsLast(w)
  <2>1. /\ MaxLines - 1 \in LineNumbers /\ MaxLines - 2 \in LineNumbers
        /\ MaxLines - 2 < MaxLines - 1 /\ MaxLines - 1 # MaxLines - 2
    BY Bounds
  <2>2. CASE j = MaxLines - 1
    BY <2>1, <2>2 DEF TwoRestsLast
  <2>3. CASE j = MaxLines - 2
    BY <2>1, <2>3 DEF TwoRestsLast, Sound, NoRestAfterEmpty
  <2>4. CASE j # MaxLines - 1 /\ j # MaxLines - 2
    BY <2>1, <2>4 DEF TwoRestsLast, Sound
  <2> QED BY <2>2, <2>3, <2>4
<1> QED BY <1>1, <1>3, <1>4 DEF Sound, NoRestAfterEmpty

\* A wrap leaves the buffer sound when no line from the message's beginning down is a
\* rest.
LEMMA WrapKeepsSound ==
  ASSUME NEW b \in Buffers, NEW m \in 1..MaxSaid, NEW s \in LineNumbers,
         Sound(b), b[0] # Empty, b[s] # Empty,
         \A k \in LineNumbers : k >= s => ~StartsWithSpace(b[k])
  PROVE  Sound(Wrapped(b, m))
<1> DEFINE r == RoomForRest(b)
           j == FirstEmpty(r)
           w == Wrapped(b, m)
<1>0. /\ MaxLines - 1 \in LineNumbers /\ MaxLines - 2 \in LineNumbers /\ 0 \in LineNumbers
      /\ MaxLines - 1 >= s /\ MaxLines - 1 \in 1..(MaxLines - 1)
  BY Bounds
<1>1. /\ r \in Buffers /\ ~Full(r) /\ w \in Buffers
      /\ \A i \in LineNumbers : w[i] = IF i = j THEN Rest(m) ELSE r[i]
  BY WrapFacts
<1>2. j \in LineNumbers /\ r[j] = Empty /\ \A k \in LineNumbers : k < j => r[k] # Empty
  BY <1>1, FirstEmptyFacts
<1>3. CASE Full(b)
  <2>1. r = ScrolledLines(b)
    BY <1>3 DEF RoomForRest
  <2>2. Moved(b) \in Int /\ 1 <= Moved(b) /\ Moved(b) < MaxLines
    BY <1>0, MovedFacts, Bounds
  <2>3. \A i \in LineNumbers :
          /\ i + Moved(b) < MaxLines => i + Moved(b) \in LineNumbers /\ r[i] = b[i + Moved(b)]
          /\ i + Moved(b) >= MaxLines => r[i] = Empty
    BY <2>1, ScrolledFacts
  <2>4. Sound(r)
    BY <2>1, ScrollKeepsSound DEF Sound
  <2> HIDE DEF r, j, w
  <2>5. r[0] # Empty
    <3>1. 0 + Moved(b) < MaxLines
      BY <2>2
    <3> QED BY <1>0, <1>3, <2>3, <3>1 DEF Full
  <2>6. ASSUME j = MaxLines - 1 PROVE ~StartsWithSpace(r[MaxLines - 2])
    <3>1. MaxLines - 2 < j
      BY <2>6, Bounds
    <3>2. MaxLines - 2 + Moved(b) < MaxLines
      BY <1>0, <1>2, <2>2, <2>3, <3>1, Bounds
    <3>3. MaxLines - 2 + Moved(b) = MaxLines - 1
      BY <2>2, <3>2, Bounds
    <3>4. r[MaxLines - 2] = b[MaxLines - 1]
      BY <1>0, <2>3, <3>2, <3>3
    <3> QED BY <1>0, <3>4
  <2>7. Sound(w)
    BY <1>1, <1>2, <2>4, <2>5, <2>6, RestKeepsSound
  <2> QED BY <2>7 DEF w
<1>4. CASE ~Full(b)
  <2>1. r = b
    BY <1>4 DEF RoomForRest
  <2> HIDE DEF r, j, w
  <2>2. ASSUME j = MaxLines - 1 PROVE ~StartsWithSpace(r[MaxLines - 2])
    <3>1. j # s
      BY <1>2, <2>1
    <3>2. MaxLines - 2 >= s
      BY <1>0, <2>2, <3>1, Bounds
    <3> QED BY <1>0, <2>1, <3>2
  <2>3. Sound(w)
    BY <1>1, <1>2, <2>1, <2>2, RestKeepsSound
  <2> QED BY <2>3 DEF w
<1> QED BY <1>3, <1>4

\* The buffer is sound in every step, so the top line always starts a message.
LEMMA RestsInPlaceStep ==
  SayTextOK /\ RestsInPlace /\ SayTextStep => RestsInPlace'
<1> SUFFICES ASSUME SayTextOK, Sound(lines), SayTextStep PROVE Sound(lines')
  BY DEF RestsInPlace, TopStartsMessage, Sound, NoRestAfterEmpty, TwoRestsLast
<1>0. lines \in Buffers /\ said \in 0..MaxSaid
  BY DEF SayTextOK, Buffers
<1>1. CASE InitSayText
  <2>1. \A i \in LineNumbers : lines'[i] = Empty
    BY <1>1 DEF InitSayText
  <2>2. 0 \in LineNumbers /\ MaxLines - 1 \in LineNumbers
    BY Bounds
  <2> QED BY <2>1, <2>2, LineFacts DEF Sound, NoRestAfterEmpty, TwoRestsLast
<1>2. ASSUME NEW long \in BOOLEAN, NEW tagged \in BOOLEAN, NEW time \in SayTimes,
             SayTextPrint(long, tagged, time)
      PROVE  Sound(lines')
  <2> DEFINE m == said + 1
             b == Started(m)
  <2>1. m \in 1..MaxSaid
    BY <1>0, <1>2, Bounds DEF SayTextPrint
  <2>2. /\ Sound(b) /\ b[0] # Empty
        /\ \A k \in LineNumbers : k >= StartLine => ~StartsWithSpace(b[k])
    BY <2>1, StartKeepsSound
  <2>3. b \in Buffers /\ StartLine \in LineNumbers /\ b[StartLine] # Empty
    BY <2>1, StartFacts, LineFacts
  <2>4. lines' = IF long THEN Wrapped(b, m) ELSE b
    BY <1>2 DEF SayTextPrint
  <2> HIDE DEF m, b
  <2>5. Sound(Wrapped(b, m))
    BY <2>1, <2>2, <2>3, WrapKeepsSound
  <2> QED BY <2>2, <2>4, <2>5
<1>3. ASSUME NEW dt \in Int, NEW time \in SayTimes, DrawSayText(dt, time)
      PROVE  Sound(lines')
  <2>1. Sound(ScrolledLines(lines))
    BY <1>0, ScrollKeepsSound DEF Sound
  <2> QED BY <1>3, <2>1 DEF DrawSayText
<1>4. ASSUME NEW dt \in Int, SkipSayText(dt)
      PROVE  Sound(lines')
  BY <1>4 DEF SkipSayText
<1>5. CASE UNCHANGED sayVars
  BY <1>5 DEF sayVars
<1> QED BY <1>1, <1>2, <1>3, <1>4, <1>5 DEF SayTextStep
-----------------------------------------------------------------------------
(* Lines in the order they came.                                            *)

Ordered(buf) ==
  /\ \A i, k \in LineNumbers : i < k /\ buf[k] # Empty => buf[i] # Empty /\ Before(buf[i], buf[k])
  /\ \A i \in LineNumbers : StartsWithSpace(buf[i]) => i > 0 /\ buf[i - 1] = Beginning(buf[i].msg)

UpTo(buf, m) == \A i \in LineNumbers : buf[i].msg <= m

\* A scroll keeps the order.
LEMMA ScrollKeepsOrder ==
  ASSUME NEW buf \in Buffers
  PROVE  /\ Ordered(buf) => Ordered(ScrolledLines(buf))
         /\ \A m \in Nat : UpTo(buf, m) => UpTo(ScrolledLines(buf), m)
<1> DEFINE r == ScrolledLines(buf)
<1>1. Moved(buf) \in Int /\ 1 <= Moved(buf) /\ (Moved(buf) < MaxLines => ~StartsWithSpace(buf[Moved(buf)]))
  BY MovedFacts
<1>2. \A i \in LineNumbers :
        /\ i + Moved(buf) < MaxLines => i + Moved(buf) \in LineNumbers /\ r[i] = buf[i + Moved(buf)]
        /\ i + Moved(buf) >= MaxLines => r[i] = Empty
  BY ScrolledFacts
<1> HIDE DEF r
<1>3. ASSUME NEW m \in Nat, UpTo(buf, m) PROVE UpTo(r, m)
  BY <1>1, <1>2, <1>3, Bounds, LineFacts DEF UpTo
<1>4. ASSUME Ordered(buf), NEW i \in LineNumbers, NEW k \in LineNumbers, i < k, r[k] # Empty
      PROVE  r[i] # Empty /\ Before(r[i], r[k])
  <2>1. k + Moved(buf) < MaxLines /\ i + Moved(buf) < MaxLines /\ i + Moved(buf) < k + Moved(buf)
    BY <1>1, <1>2, <1>4, Bounds
  <2> QED BY <1>2, <1>4, <2>1 DEF Ordered
<1>5. ASSUME Ordered(buf), NEW i \in LineNumbers, StartsWithSpace(r[i])
      PROVE  i > 0 /\ r[i - 1] = Beginning(r[i].msg)
  <2>1. i + Moved(buf) < MaxLines
    BY <1>1, <1>2, <1>5, Bounds, LineFacts
  <2>2. i # 0
    BY <1>1, <1>2, <1>5, <2>1
  <2>3. i > 0 /\ i - 1 \in LineNumbers /\ (i - 1) + Moved(buf) < MaxLines
    BY <1>1, <2>1, <2>2, Bounds
  <2>4. (i - 1) + Moved(buf) = (i + Moved(buf)) - 1
    BY <1>1, Bounds
  <2> QED BY <1>2, <1>5, <2>1, <2>3, <2>4 DEF Ordered
<1> QED BY <1>3, <1>4, <1>5 DEF Ordered, r

\* A message's beginning is below every line before it.
LEMMA StartKeepsOrder ==
  ASSUME SayTextOK, Ordered(lines), UpTo(lines, said), said + 1 \in 1..MaxSaid,
         Full(lines) => Moved(lines) = 1
  PROVE  /\ Ordered(Started(said + 1))
         /\ \A k \in LineNumbers :
              /\ k < StartLine => Started(said + 1)[k] # Empty /\ Started(said + 1)[k].msg <= said
              /\ k > StartLine => Started(said + 1)[k] = Empty
<1> DEFINE m == said + 1
           r == RoomForStart
           s == StartLine
           b == Started(m)
<1>0. lines \in Buffers /\ said \in Nat /\ m \in 1..MaxSaid
  BY Bounds DEF SayTextOK, Buffers
<1>1. /\ s \in LineNumbers /\ r \in Buffers
      /\ \A i \in LineNumbers : b[i] = IF i = s THEN Beginning(m) ELSE r[i]
  BY <1>0, StartFacts
<1>2. Ordered(r) /\ UpTo(r, said)
  BY <1>0, ScrollKeepsOrder DEF RoomForStart
<1>3. r[s] = Empty
  BY <1>0, FirstEmptyFacts, ScrolledFacts, MovedFacts, Bounds DEF RoomForStart, StartLine
<1>4. ASSUME NEW k \in LineNumbers, k < s PROVE r[k] # Empty
  <2>1. CASE Full(lines)
    <3>1. s = MaxLines - 1 /\ r = ScrolledLines(lines)
      BY <2>1 DEF StartLine, RoomForStart
    <3>2. Moved(lines) = 1 /\ k + 1 < MaxLines
      BY <1>4, <2>1, <3>1, Bounds
    <3>3. k + Moved(lines) < MaxLines
      BY <3>2
    <3>4. k + Moved(lines) \in LineNumbers /\ r[k] = lines[k + Moved(lines)]
      BY <1>0, <3>1, <3>3, ScrolledFacts
    <3> QED BY <2>1, <3>4 DEF Full
  <2>2. CASE ~Full(lines)
    BY <1>0, <1>4, <2>2, FirstEmptyFacts DEF RoomForStart, StartLine
  <2> QED BY <2>1, <2>2
<1> HIDE DEF r, s, b
<1>5. \A k \in LineNumbers : k > s => r[k] = Empty
  BY <1>1, <1>2, <1>3, Bounds DEF Ordered
<1>6. Beginning(m) # Empty /\ ~StartsWithSpace(Beginning(m)) /\ Beginning(m).msg = m
  BY <1>0, LineFacts
<1>7. \A k \in LineNumbers :
        /\ k < s => b[k] # Empty /\ b[k].msg <= said
        /\ k > s => b[k] = Empty
  <2> SUFFICES ASSUME NEW k \in LineNumbers, k < s \/ k > s
               PROVE  (k < s => b[k] # Empty /\ b[k].msg <= said) /\ (k > s => b[k] = Empty)
    OBVIOUS
  <2>1. k # s
    BY <1>1, Bounds
  <2> QED BY <1>1, <1>2, <1>4, <1>5, <2>1 DEF UpTo
<1>8. ASSUME NEW i \in LineNumbers, NEW k \in LineNumbers, i < k, b[k] # Empty
      PROVE  b[i] # Empty /\ Before(b[i], b[k])
  <2>1. k <= s /\ i < s
    BY <1>1, <1>7, <1>8, Bounds
  <2>2. CASE k = s
    <3>1. b[k].msg = m /\ b[i].msg <= said /\ b[i] # Empty
      BY <1>1, <1>6, <1>7, <2>1, <2>2
    <3>2. b[i].msg \in Int /\ b[i].msg < m
      <4>1. r[i].msg \in Int
        BY <1>1 DEF Buffers, Line
      <4>2. b[i] = r[i]
        BY <1>1, <1>8, <2>2, Bounds
      <4> QED BY <1>0, <3>1, <4>1, <4>2
    <3> QED BY <3>1, <3>2 DEF Before
  <2>3. CASE k < s
    <3>1. k # s /\ i # s
      BY <1>1, <2>1, <2>3, Bounds
    <3>2. b[k] = r[k] /\ b[i] = r[i]
      BY <1>1, <3>1
    <3> QED BY <1>2, <1>8, <3>2 DEF Ordered
  <2> QED BY <1>1, <2>1, <2>2, <2>3, Bounds
<1>9. ASSUME NEW i \in LineNumbers, StartsWithSpace(b[i])
      PROVE  i > 0 /\ b[i - 1] = Beginning(b[i].msg)
  <2>1. i # s /\ b[i] # Empty
    BY <1>1, <1>6, <1>9, LineFacts
  <2>2. i < s /\ b[i] = r[i]
    BY <1>1, <1>7, <2>1, Bounds
  <2>3. i > 0 /\ r[i - 1] = Beginning(r[i].msg)
    BY <1>2, <1>9, <2>2 DEF Ordered
  <2>4. i - 1 \in LineNumbers /\ i - 1 # s
    BY <1>1, <2>2, <2>3, Bounds
  <2> QED BY <1>1, <2>2, <2>3, <2>4
<1> QED BY <1>7, <1>8, <1>9 DEF Ordered, b, s

\* The rest of a message goes right below its beginning, the last line taken.
LEMMA RestKeepsOrder ==
  ASSUME NEW r \in Buffers, NEW w \in Buffers, NEW m \in 1..MaxSaid,
         NEW t \in LineNumbers, NEW j \in LineNumbers, j = t + 1,
         Ordered(r), r[t] = Beginning(m),
         \A k \in LineNumbers : (k < t => r[k].msg < m) /\ (k <= t => r[k] # Empty) /\ (k > t => r[k] = Empty),
         \A i \in LineNumbers : w[i] = IF i = j THEN Rest(m) ELSE r[i]
  PROVE  Ordered(w)
<1>0. /\ Rest(m) # Empty /\ StartsWithSpace(Rest(m)) /\ Rest(m).msg = m /\ Rest(m).piece = 2
      /\ Beginning(m).msg = m /\ Beginning(m).piece = 1 /\ ~StartsWithSpace(Empty)
  BY LineFacts
<1>1. ASSUME NEW i \in LineNumbers, NEW k \in LineNumbers, i < k, w[k] # Empty
      PROVE  w[i] # Empty /\ Before(w[i], w[k])
  <2>1. k <= j
    BY <1>1, Bounds
  <2>2. CASE k = j
    <3>1. i # j /\ i <= t /\ w[i] = r[i] /\ w[k] = Rest(m)
      BY <1>1, <2>2, Bounds
    <3>2. CASE i = t
      BY <1>0, <3>1, <3>2 DEF Before
    <3>3. CASE i # t
      <4>1. i < t
        BY <3>1, <3>3, Bounds
      <4> QED BY <1>0, <3>1, <4>1 DEF Before
    <3> QED BY <3>2, <3>3
  <2>3. CASE k # j
    <3>1. i # j /\ w[i] = r[i] /\ w[k] = r[k]
      BY <1>1, <2>1, <2>3, Bounds
    <3> QED BY <1>1, <3>1 DEF Ordered
  <2> QED BY <2>2, <2>3
<1>2. ASSUME NEW i \in LineNumbers, StartsWithSpace(w[i])
      PROVE  i > 0 /\ w[i - 1] = Beginning(w[i].msg)
  <2>1. CASE i = j
    <3>1. i > 0 /\ i - 1 = t /\ t # j
      BY <2>1, Bounds
    <3> QED BY <1>0, <2>1, <3>1
  <2>2. CASE i # j
    <3>1. w[i] = r[i] /\ i <= t
      BY <1>0, <1>2, <2>2, Bounds
    <3>2. i > 0 /\ r[i - 1] = Beginning(r[i].msg)
      BY <1>2, <3>1 DEF Ordered
    <3>3. i - 1 \in LineNumbers /\ i - 1 # j
      BY <3>1, <3>2, Bounds
    <3> QED BY <3>1, <3>2, <3>3
  <2> QED BY <2>1, <2>2
<1> QED BY <1>1, <1>2 DEF Ordered

\* A wrap keeps the order, and the message's beginning, when that is the last line taken.
LEMMA WrapKeepsOrder ==
  ASSUME NEW b \in Buffers, NEW m \in 1..MaxSaid, NEW s \in LineNumbers,
         Ordered(b), b[s] = Beginning(m),
         \A k \in LineNumbers : (k < s => b[k] # Empty /\ b[k].msg < m) /\ (k > s => b[k] = Empty)
  PROVE  Ordered(Wrapped(b, m)) /\ \E t \in LineNumbers : Wrapped(b, m)[t] = Beginning(m)
<1> DEFINE r == RoomForRest(b)
           j == FirstEmpty(r)
           w == Wrapped(b, m)
<1>0. MaxLines - 1 \in LineNumbers /\ Beginning(m) # Empty /\ ~StartsWithSpace(Beginning(m))
  BY Bounds, LineFacts
<1>1. /\ r \in Buffers /\ ~Full(r) /\ w \in Buffers
      /\ \A i \in LineNumbers : w[i] = IF i = j THEN Rest(m) ELSE r[i]
  BY WrapFacts
<1>2. j \in LineNumbers /\ r[j] = Empty /\ \A k \in LineNumbers : k < j => r[k] # Empty
  BY <1>1, FirstEmptyFacts
<1>3. Ordered(r)
  BY ScrollKeepsOrder DEF RoomForRest
<1>4. \E t \in LineNumbers :
        /\ r[t] = Beginning(m)
        /\ \A k \in LineNumbers : (k < t => r[k] # Empty /\ r[k].msg < m) /\ (k > t => r[k] = Empty)
  <2>1. CASE Full(b)
    <3>1. s = MaxLines - 1
      BY <1>0, <2>1, Bounds DEF Full
    <3>2. r = ScrolledLines(b)
      BY <2>1 DEF RoomForRest
    <3>3. MaxLines - 1 \in 1..(MaxLines - 1)
      BY Bounds
    <3>4. Moved(b) \in Int /\ 1 <= Moved(b) /\ Moved(b) < MaxLines
      BY <1>0, <3>1, <3>3, MovedFacts, Bounds
    <3>5. \A i \in LineNumbers :
            /\ i + Moved(b) < MaxLines => i + Moved(b) \in LineNumbers /\ r[i] = b[i + Moved(b)]
            /\ i + Moved(b) >= MaxLines => r[i] = Empty
      BY <3>2, ScrolledFacts
    <3> DEFINE t == MaxLines - 1 - Moved(b)
    <3>6. t \in LineNumbers /\ t + Moved(b) = s /\ t + Moved(b) < MaxLines
      BY <3>1, <3>4, Bounds
    <3>7. r[t] = Beginning(m)
      BY <3>5, <3>6
    <3>8. ASSUME NEW k \in LineNumbers
          PROVE  (k < t => r[k] # Empty /\ r[k].msg < m) /\ (k > t => r[k] = Empty)
      <4>1. k < t => k + Moved(b) < MaxLines /\ k + Moved(b) < s
        BY <3>1, <3>4, <3>8, Bounds
      <4>2. k > t => k + Moved(b) >= MaxLines
        BY <3>4, <3>8, Bounds
      <4> HIDE DEF t
      <4> QED BY <3>5, <3>8, <4>1, <4>2
    <3> QED BY <3>6, <3>7, <3>8
  <2>2. CASE ~Full(b)
    BY <2>2 DEF RoomForRest
  <2> QED BY <2>1, <2>2
<1> HIDE DEF r, j, w
<1>5. PICK t \in LineNumbers :
        /\ r[t] = Beginning(m)
        /\ \A k \in LineNumbers : (k < t => r[k] # Empty /\ r[k].msg < m) /\ (k > t => r[k] = Empty)
  BY <1>4
<1>6. \A k \in LineNumbers : k <= t => r[k] # Empty
  BY <1>0, <1>5, Bounds
<1>7. j = t + 1
  <2>1. j > t
    BY <1>2, <1>6, Bounds
  <2>2. t + 1 \in LineNumbers /\ t + 1 > t
    BY <1>2, <2>1, Bounds
  <2>3. r[t + 1] = Empty
    BY <1>5, <2>2
  <2>4. ~(t + 1 < j)
    BY <1>2, <2>2, <2>3
  <2> QED BY <1>2, <2>1, <2>4, Bounds
<1>8. Ordered(w)
  BY <1>1, <1>2, <1>3, <1>5, <1>6, <1>7, RestKeepsOrder
<1>9. w[t] = Beginning(m)
  <2>1. t # j
    BY <1>7, Bounds
  <2> QED BY <1>1, <1>5, <2>1
<1> QED BY <1>8, <1>9 DEF w

\* No line of the buffer a wrap leaves is of a later message.
LEMMA WrapKeepsUpTo ==
  ASSUME NEW b \in Buffers, NEW m \in 1..MaxSaid, UpTo(b, m)
  PROVE  UpTo(Wrapped(b, m), m)
<1>1. m \in Nat /\ Rest(m).msg = m
  BY LineFacts, Bounds
<1>2. UpTo(RoomForRest(b), m)
  BY <1>1, ScrollKeepsOrder DEF RoomForRest
<1> QED BY <1>1, <1>2, WrapFacts DEF UpTo

\* What a message leaves when it leaves no gap: the buffer it started in, and the one
\* it may have been wrapped to.
LEMMA PrintFacts ==
  ASSUME SayTextOK, OrderInv,
         NEW long \in BOOLEAN, NEW tagged \in BOOLEAN, NEW time \in SayTimes,
         SayTextPrint(long, tagged, time)
  PROVE  /\ said + 1 \in 1..MaxSaid /\ said' = said + 1
         /\ lines' = IF long THEN Wrapped(Started(said + 1), said + 1) ELSE Started(said + 1)
         /\ UpTo(Started(said + 1), said') /\ UpTo(lines', said')
         /\ ~gapped' => /\ ~gapped /\ Ordered(lines) /\ Ordered(Started(said + 1)) /\ Ordered(lines')
                        /\ Beginning(said') \in Shown(lines')
<1> DEFINE m == said + 1
           b == Started(m)
<1>0. lines \in Buffers /\ said \in Nat /\ gapped \in BOOLEAN /\ UpTo(lines, said)
  BY DEF SayTextOK, Buffers, OrderInv, UpTo
<1>1. /\ m \in 1..MaxSaid /\ m \in Nat /\ said' = m
      /\ lines' = IF long THEN Wrapped(b, m) ELSE b
  BY <1>0, Bounds DEF SayTextPrint
<1>2. gapped' = (gapped \/ (Full(lines) /\ Moved(lines) > 1))
  BY DEF SayTextPrint
<1>3. /\ StartLine \in LineNumbers /\ b \in Buffers /\ b[StartLine] = Beginning(m)
      /\ \A i \in LineNumbers : b[i] = IF i = StartLine THEN Beginning(m) ELSE RoomForStart[i]
  BY <1>1, StartFacts
<1>4. UpTo(b, m)
  <2>1. UpTo(RoomForStart, said) /\ RoomForStart \in Buffers
    BY <1>0, <1>1, StartFacts, ScrollKeepsOrder DEF RoomForStart
  <2>2. Beginning(m).msg = m
    BY <1>1, LineFacts
  <2>3. \A i \in LineNumbers : RoomForStart[i].msg \in Int /\ RoomForStart[i].msg <= said
    BY <2>1 DEF UpTo, Buffers, Line
  <2>4. \A i \in LineNumbers : RoomForStart[i].msg <= m
    BY <1>0, <2>3
  <2> HIDE DEF m, b
  <2> QED BY <1>1, <1>3, <2>2, <2>4 DEF UpTo
<1>5. UpTo(lines', m)
  BY <1>1, <1>3, <1>4, WrapKeepsUpTo
<1>6. ASSUME ~gapped'
      PROVE  /\ ~gapped /\ Ordered(lines) /\ Ordered(b) /\ Ordered(lines')
             /\ Beginning(m) \in Shown(lines')
  <2>1. ~gapped /\ (Full(lines) => ~(Moved(lines) > 1))
    BY <1>2, <1>6
  <2>2. Ordered(lines)
    BY <2>1 DEF OrderInv, InOrder, Ordered
  <2>3. Full(lines) => Moved(lines) = 1
    BY <1>0, <2>1, MovedFacts
  <2>4. /\ Ordered(b)
        /\ \A k \in LineNumbers :
             /\ k < StartLine => b[k] # Empty /\ b[k].msg <= said
             /\ k > StartLine => b[k] = Empty
    BY <1>0, <1>1, <2>2, <2>3, StartKeepsOrder
  <2>5. \A k \in LineNumbers : k < StartLine => b[k] # Empty /\ b[k].msg < m
    <3>1. \A k \in LineNumbers : b[k].msg \in Int
      BY <1>3 DEF Buffers, Line
    <3> QED BY <1>0, <2>4, <3>1
  <2> HIDE DEF m, b
  <2>6. Ordered(Wrapped(b, m)) /\ \E t \in LineNumbers : Wrapped(b, m)[t] = Beginning(m)
    BY <1>1, <1>3, <2>4, <2>5, WrapKeepsOrder
  <2>7. Beginning(m) # Empty
    BY <1>1, LineFacts
  <2> QED BY <1>1, <1>3, <2>1, <2>2, <2>4, <2>6, <2>7 DEF Shown
<1> QED BY <1>1, <1>4, <1>5, <1>6

\* The order is kept in every step that leaves no gap.
LEMMA OrderStep ==
  SayTextOK /\ OrderInv /\ SayTextStep => OrderInv'
<1> SUFFICES ASSUME SayTextOK, OrderInv, SayTextStep
             PROVE  (gapped' \/ Ordered(lines')) /\ UpTo(lines', said')
  BY DEF OrderInv, InOrder, Ordered, UpTo
<1>0. /\ lines \in Buffers /\ said \in Nat /\ gapped \in BOOLEAN
      /\ gapped \/ Ordered(lines)
      /\ UpTo(lines, said)
  BY DEF SayTextOK, Buffers, OrderInv, InOrder, Ordered, UpTo
<1>1. CASE InitSayText
  <2>1. \A i \in LineNumbers : lines'[i] = Empty
    BY <1>1 DEF InitSayText
  <2>2. Empty.msg <= said' /\ ~StartsWithSpace(Empty)
    BY <1>0, <1>1, LineFacts DEF InitSayText
  <2> QED BY <2>1, <2>2 DEF Ordered, UpTo
<1>2. ASSUME NEW long \in BOOLEAN, NEW tagged \in BOOLEAN, NEW time \in SayTimes,
             SayTextPrint(long, tagged, time)
      PROVE  (gapped' \/ Ordered(lines')) /\ UpTo(lines', said')
  BY <1>2, PrintFacts
<1>3. ASSUME NEW dt \in Int, NEW time \in SayTimes, DrawSayText(dt, time)
      PROVE  (gapped' \/ Ordered(lines')) /\ UpTo(lines', said')
  <2>1. said' = said /\ gapped' = gapped /\ (lines' = lines \/ lines' = ScrolledLines(lines))
    BY <1>3 DEF DrawSayText
  <2> QED BY <1>0, <2>1, ScrollKeepsOrder
<1>4. ASSUME NEW dt \in Int, SkipSayText(dt)
      PROVE  (gapped' \/ Ordered(lines')) /\ UpTo(lines', said')
  BY <1>0, <1>4 DEF SkipSayText
<1>5. CASE UNCHANGED sayVars
  BY <1>0, <1>5 DEF sayVars
<1> QED BY <1>1, <1>2, <1>3, <1>4, <1>5 DEF SayTextStep

\* The lines are empty when they are not drawn.
LEMMA DisabledStep ==
  SayTextOK /\ OrderInv /\ DisabledIsEmptyUngapped /\ SayTextStep => DisabledIsEmptyUngapped'
<1> DEFINE AllEmpty == \A i \in LineNumbers : lines[i] = Empty
<1> SUFFICES ASSUME SayTextOK, OrderInv, gapped \/ active \/ AllEmpty, SayTextStep
             PROVE  gapped' \/ active' \/ AllEmpty'
  BY DEF DisabledIsEmptyUngapped, DisabledIsEmpty
<1>1. CASE InitSayText
  BY <1>1 DEF InitSayText
<1>2. ASSUME NEW long \in BOOLEAN, NEW tagged \in BOOLEAN, NEW time \in SayTimes,
             SayTextPrint(long, tagged, time)
      PROVE  gapped' \/ active' \/ AllEmpty'
  BY <1>2 DEF SayTextPrint
<1>3. ASSUME NEW dt \in Int, NEW time \in SayTimes, DrawSayText(dt, time)
      PROVE  gapped' \/ active' \/ AllEmpty'
  <2>0. gapped' = gapped
    BY <1>3 DEF DrawSayText
  <2>1. CASE lines[0] = Empty /\ lines' = lines /\ ~gapped
    <3>1. 0 \in LineNumbers /\ \A i \in LineNumbers : i = 0 \/ 0 < i
      BY Bounds
    <3>2. Ordered(lines)
      BY <2>1 DEF OrderInv, InOrder, Ordered
    <3> QED BY <2>1, <3>1, <3>2 DEF Ordered
  <2>2. CASE lines' = lines /\ active' = active
    BY <2>0, <2>2
  <2>3. CASE lines[0] # Empty /\ active' = active
    <3>1. 0 \in LineNumbers
      BY Bounds
    <3> QED BY <2>0, <2>3, <3>1
  <2> QED BY <1>3, <2>0, <2>1, <2>2, <2>3 DEF DrawSayText
<1>4. ASSUME NEW dt \in Int, SkipSayText(dt)
      PROVE  gapped' \/ active' \/ AllEmpty'
  BY <1>4 DEF SkipSayText
<1>5. CASE UNCHANGED sayVars
  BY <1>5 DEF sayVars
<1> QED BY <1>1, <1>2, <1>3, <1>4, <1>5 DEF SayTextStep
-----------------------------------------------------------------------------
(* The lines that leave.                                                    *)

\* A scroll takes the oldest.
LEMMA ScrollTakesOldest ==
  ASSUME NEW buf \in Buffers, Ordered(buf)
  PROVE  /\ Shown(ScrolledLines(buf)) \subseteq Shown(buf)
         /\ \A l \in Shown(buf) \ Shown(ScrolledLines(buf)), k \in Shown(ScrolledLines(buf)) : Before(l, k)
<1> DEFINE r == ScrolledLines(buf)
<1>1. Moved(buf) \in Int /\ 1 <= Moved(buf)
  BY MovedFacts
<1>2. \A i \in LineNumbers :
        /\ i + Moved(buf) < MaxLines => i + Moved(buf) \in LineNumbers /\ r[i] = buf[i + Moved(buf)]
        /\ i + Moved(buf) >= MaxLines => r[i] = Empty
  BY ScrolledFacts
<1> HIDE DEF r
<1>3. ASSUME NEW k \in Shown(r)
      PROVE  \E q \in LineNumbers : q >= Moved(buf) /\ k = buf[q]
  <2>1. PICK i \in LineNumbers : k = r[i] /\ k # Empty
    BY DEF Shown
  <2>2. i + Moved(buf) < MaxLines
    BY <1>1, <1>2, <2>1, Bounds
  <2>3. i + Moved(buf) >= Moved(buf)
    BY <1>1, Bounds
  <2> QED BY <1>2, <2>1, <2>2, <2>3
<1>4. Shown(r) \subseteq Shown(buf)
  BY <1>3 DEF Shown
<1>5. ASSUME NEW l \in Shown(buf) \ Shown(r), NEW k \in Shown(r)
      PROVE  Before(l, k)
  <2>1. PICK p \in LineNumbers : l = buf[p] /\ l # Empty
    BY DEF Shown
  <2>2. PICK q \in LineNumbers : q >= Moved(buf) /\ k = buf[q]
    BY <1>3
  <2>3. p < Moved(buf)
    <3> SUFFICES ASSUME p >= Moved(buf) PROVE FALSE
      BY <1>1, Bounds
    <3>1. p - Moved(buf) \in LineNumbers /\ (p - Moved(buf)) + Moved(buf) = p
      BY <1>1, Bounds
    <3>2. r[p - Moved(buf)] = l
      BY <1>2, <2>1, <3>1, Bounds
    <3> QED BY <2>1, <3>1, <3>2 DEF Shown
  <2>4. p < q
    BY <1>1, <2>2, <2>3, Bounds
  <2>5. buf[q] # Empty
    BY <2>2 DEF Shown
  <2> QED BY <2>1, <2>2, <2>4, <2>5 DEF Ordered
<1> QED BY <1>4, <1>5 DEF r

\* Lines of a sound type are before those of a message yet to come.
LEMMA BeforeNext ==
  ASSUME NEW buf \in Buffers, NEW n \in Nat, UpTo(buf, n), n + 1 \in 1..MaxSaid,
         NEW l \in Shown(buf)
  PROVE  Before(l, Beginning(n + 1)) /\ Before(l, Rest(n + 1))
<1>1. PICK i \in LineNumbers : l = buf[i]
  BY DEF Shown
<1>2. l.msg \in Int /\ l.msg <= n
  BY <1>1 DEF UpTo, Buffers, Line
<1>3. Beginning(n + 1).msg = n + 1 /\ Rest(n + 1).msg = n + 1
  BY LineFacts
<1>4. l.msg < n + 1
  BY <1>2
<1> QED BY <1>3, <1>4 DEF Before

\* Unless it leaves a gap, a step makes only the oldest lines leave.
LEMMA OldestLeaveStep ==
  SayTextOK /\ OrderInv /\ SayTextStep =>
    \/ gapped' \/ Shown(lines') = {}
    \/ /\ \A l \in Shown(lines) \ Shown(lines'), k \in Shown(lines') : Before(l, k)
       /\ said' # said => Beginning(said') \in Shown(lines')
<1> DEFINE Leave == \A l \in Shown(lines) \ Shown(lines'), k \in Shown(lines') : Before(l, k)
<1> SUFFICES ASSUME SayTextOK, OrderInv, SayTextStep, ~gapped', Shown(lines') # {}
             PROVE  Leave /\ (said' # said => Beginning(said') \in Shown(lines'))
  OBVIOUS
<1>0. /\ lines \in Buffers /\ said \in Nat /\ UpTo(lines, said)
      /\ gapped \/ Ordered(lines)
  BY DEF SayTextOK, Buffers, OrderInv, InOrder, Ordered, UpTo
<1>1. CASE InitSayText
  <2>1. \A i \in LineNumbers : lines'[i] = Empty
    BY <1>1 DEF InitSayText
  <2> QED BY <2>1 DEF Shown
<1>2. ASSUME NEW long \in BOOLEAN, NEW tagged \in BOOLEAN, NEW time \in SayTimes,
             SayTextPrint(long, tagged, time)
      PROVE  Leave /\ Beginning(said') \in Shown(lines')
  <2> DEFINE m == said + 1
             r == RoomForStart
             b == Started(m)
             q == RoomForRest(b)
             w == Wrapped(b, m)
  <2>1. /\ m \in 1..MaxSaid /\ said' = m
        /\ lines' = IF long THEN w ELSE b
        /\ Ordered(lines) /\ Ordered(b) /\ Beginning(said') \in Shown(lines')
    BY <1>2, PrintFacts
  <2>2. \A l \in Shown(lines) : Before(l, Beginning(m)) /\ Before(l, Rest(m))
    BY <1>0, <2>1, BeforeNext
  <2>3. /\ StartLine \in LineNumbers /\ b \in Buffers
        /\ \A i \in LineNumbers : b[i] = IF i = StartLine THEN Beginning(m) ELSE r[i]
    BY <2>1, StartFacts
  <2>4. r[StartLine] = Empty
    BY <1>0, FirstEmptyFacts, ScrolledFacts, MovedFacts, Bounds DEF RoomForStart, StartLine
  <2>5. /\ Shown(r) \subseteq Shown(lines)
        /\ \A l \in Shown(lines) \ Shown(r), k \in Shown(r) : Before(l, k)
    BY <1>0, <2>1, ScrollTakesOldest DEF RoomForStart
  <2>6. /\ Shown(q) \subseteq Shown(b)
        /\ \A l \in Shown(b) \ Shown(q), k \in Shown(q) : Before(l, k)
    BY <2>1, <2>3, ScrollTakesOldest DEF RoomForRest
  <2>7. /\ FirstEmpty(q) \in LineNumbers /\ q[FirstEmpty(q)] = Empty
        /\ \A i \in LineNumbers : w[i] = IF i = FirstEmpty(q) THEN Rest(m) ELSE q[i]
    BY <2>1, <2>3, WrapFacts, FirstEmptyFacts
  <2>8. Beginning(m) # Empty /\ Rest(m) # Empty
    BY <2>1, LineFacts
  <2> HIDE DEF m, r, b, q, w
  <2>9. Shown(b) = Shown(r) \cup {Beginning(m)}
    BY <2>3, <2>4, <2>8 DEF Shown
  <2>10. Shown(w) = Shown(q) \cup {Rest(m)}
    BY <2>7, <2>8 DEF Shown
  <2>11. ASSUME NEW l \in Shown(lines) \ Shown(b), NEW k \in Shown(b)
         PROVE  Before(l, k)
    BY <2>2, <2>5, <2>9
  <2>12. ASSUME NEW l \in Shown(lines) \ Shown(w), NEW k \in Shown(w)
         PROVE  Before(l, k)
    <3>1. l \notin Shown(q)
      BY <2>10
    <3>2. CASE k = Rest(m)
      BY <2>2, <3>2
    <3>3. CASE k \in Shown(q)
      <4>1. CASE l \in Shown(b)
        BY <2>6, <3>1, <3>3, <4>1
      <4>2. CASE l \notin Shown(b)
        BY <2>6, <2>11, <3>3, <4>2
      <4> QED BY <4>1, <4>2
    <3> QED BY <2>10, <3>2, <3>3
  <2> QED BY <2>1, <2>11, <2>12
<1>3. ASSUME NEW dt \in Int, NEW time \in SayTimes, DrawSayText(dt, time)
      PROVE  Leave /\ said' = said
  <2>1. said' = said /\ gapped' = gapped /\ (lines' = lines \/ lines' = ScrolledLines(lines))
    BY <1>3 DEF DrawSayText
  <2>2. Ordered(lines)
    BY <1>0, <2>1
  <2> QED BY <1>0, <2>1, <2>2, ScrollTakesOldest
<1>4. ASSUME NEW dt \in Int, SkipSayText(dt)
      PROVE  Leave /\ said' = said
  BY <1>4 DEF SkipSayText
<1>5. CASE UNCHANGED sayVars
  BY <1>5 DEF sayVars
<1> QED BY <1>1, <1>2, <1>3, <1>4, <1>5 DEF SayTextStep
=============================================================================
