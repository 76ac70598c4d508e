----------------------------- MODULE NoticesProofs -----------------------------
(***************************************************************************)
(* What is proved of the lists and panels of the HUD, for screens, lists   *)
(* and clocks of any size: first what each operation of the death notices, *)
(* of the history and of the panels does, then the steps of the HUD, and   *)
(* the theorems of its specification.                                      *)
(***************************************************************************)
EXTENDS Notices, SayTextProofs, SequenceTheorems
-----------------------------------------------------------------------------
(* The death notices.                                                      *)

\* What may happen to the death notices.
DeathStep ==
  \/ InitDeathNotice
  \/ \E flags \in MessageFlags, time \in NoticeTimes : DeathMsg(flags, time)
  \/ \E dt \in Int : DrawDeathNotice(dt) \/ SkipDeathNotice(dt)
  \/ UNCHANGED deathVars

\* The list holds n notices and is clean from there on.
Clean(list, n) ==
  /\ n \in 0..MaxNotices
  /\ \A i \in Entries : (i < n => list[i].id # 0) /\ (i >= n => list[i] = Free)

ListedIn(list) == {i \in Places : \A k \in 0..i : list[k].id # 0}

\* The numbers of the entries.
LEMMA EntryBounds ==
  /\ MaxNotices \in Int /\ 1 <= MaxNotices /\ MaxDeaths \in Int /\ 0 <= MaxDeaths
  /\ \A i : i \in Entries <=> i \in Int /\ 0 <= i /\ i <= MaxNotices
  /\ \A i : i \in Places <=> i \in Int /\ 0 <= i /\ i < MaxNotices
  /\ \A time \in NoticeTimes : time \in Int /\ 1 <= time
BY DeathNoticeAssumption DEF DeathNoticeAssumption, Entries, Places

\* A clean list of n notices lists its first n entries, and FreeIsClean holds of it.
LEMMA CleanFacts ==
  ASSUME NEW list, NEW n, Clean(list, n)
  PROVE  /\ n \in Int /\ 0 <= n /\ n <= MaxNotices
         /\ ListedIn(list) = 0..(n - 1)
         /\ IsFiniteSet(ListedIn(list)) /\ Cardinality(ListedIn(list)) = n
         /\ list[MaxNotices] = Free
         /\ \A i \in Places : list[i].id = 0 => \A k \in i..MaxNotices : list[k] = Free
<1>1. n \in Int /\ 0 <= n /\ n <= MaxNotices
  BY EntryBounds DEF Clean
<1>2. Free.id = 0
  BY DEF Free
<1>3. \A i \in Entries : (i < n => list[i].id # 0) /\ (i >= n => list[i] = Free)
  BY DEF Clean
<1>4. ListedIn(list) = 0..(n - 1)
  <2>1. ASSUME NEW i \in 0..(n - 1) PROVE i \in ListedIn(list)
    <3>1. i \in Places /\ \A k \in 0..i : k \in Entries /\ k < n
      BY <1>1, EntryBounds
    <3> QED BY <1>3, <3>1 DEF ListedIn
  <2>2. ASSUME NEW i \in ListedIn(list) PROVE i \in 0..(n - 1)
    <3>1. i \in Places /\ i \in 0..i /\ i \in Entries
      BY EntryBounds DEF ListedIn
    <3>2. list[i].id # 0
      BY <3>1 DEF ListedIn
    <3>3. ~(i >= n)
      BY <1>2, <1>3, <3>1, <3>2
    <3> QED BY <1>1, <3>1, <3>3, EntryBounds
  <2> QED BY <2>1, <2>2
<1>5. IsFiniteSet(0..(n - 1)) /\ Cardinality(0..(n - 1)) = n
  <2>1. 0 \in Int /\ n - 1 \in Int
    BY <1>1
  <2> QED BY <1>1, <2>1, FS_Interval
<1>6. list[MaxNotices] = Free
  BY <1>1, <1>3, EntryBounds
<1>7. ASSUME NEW i \in Places, list[i].id = 0, NEW k \in i..MaxNotices PROVE list[k] = Free
  <2>1. i \in Entries /\ k \in Entries /\ i <= k
    BY EntryBounds
  <2>2. i >= n
    BY <1>1, <1>3, <1>7, <2>1, EntryBounds
  <2> QED BY <1>1, <1>3, <2>1, <2>2, EntryBounds
<1> QED BY <1>1, <1>4, <1>5, <1>6, <1>7

\* The list of the code is clean.
LEMMA FreeIsCleanFacts ==
  ASSUME DeathNoticeOK, FreeIsClean
  PROVE  Clean(notices, Cardinality(Listed)) /\ Listed = ListedIn(notices)
<1> DEFINE S == {i \in Places : notices[i].id = 0} \cup {MaxNotices}
<1>1. S \in SUBSET Nat /\ S # {}
  BY EntryBounds
<1>2. PICK n \in S : \A i \in S : n <= i
  <2> HIDE DEF S
  <2> QED BY <1>1, LeastNatural
<1>3. n \in Int /\ 0 <= n /\ n <= MaxNotices
  BY EntryBounds
<1>4. ASSUME NEW i \in Entries, i < n PROVE notices[i].id # 0
  <2>1. i \in Places
    BY <1>3, <1>4, EntryBounds
  <2> QED BY <1>2, <1>3, <1>4, <2>1, EntryBounds
<1>5. ASSUME NEW i \in Entries, i >= n PROVE notices[i] = Free
  <2>1. CASE n = MaxNotices
    BY <1>5, <2>1, EntryBounds DEF FreeIsClean
  <2>2. CASE n # MaxNotices
    <3>1. n \in Places /\ notices[n].id = 0
      BY <2>2
    <3>2. i \in n..MaxNotices
      BY <1>3, <1>5, EntryBounds
    <3> QED BY <3>1, <3>2 DEF FreeIsClean
  <2> QED BY <2>1, <2>2
<1>6. n \in 0..MaxNotices
  BY <1>3, EntryBounds
<1>7. Clean(notices, n)
  BY <1>4, <1>5, <1>6 DEF Clean
<1>8. Listed = ListedIn(notices)
  BY DEF Listed, ListedIn
<1> QED BY <1>7, <1>8, CleanFacts

\* Where a message's notice goes.
LEMMA MessageFacts ==
  ASSUME DeathNoticeOK, FreeIsClean,
         NEW flags \in MessageFlags, NEW time \in NoticeTimes, DeathMsg(flags, time)
  PROVE  LET n == Cardinality(Listed)
             list == IF n = MaxNotices THEN MovedDown ELSE notices
             p == IF n = MaxNotices THEN MaxNotices - 1 ELSE n
         IN /\ deaths' = deaths + 1 /\ deaths' \in 0..MaxDeaths /\ noticeTime' \in Nat
            /\ list \in [Entries -> Notice] /\ p \in Entries /\ list[p] = Free
            /\ notices' = [list EXCEPT ![p] =
                             [id |-> 1, flags |-> flags, left |-> time, of |-> deaths + 1]]
            /\ flags \in SUBSET Flag
<1> DEFINE n == Cardinality(Listed)
           list == IF n = MaxNotices THEN MovedDown ELSE notices
           p == IF n = MaxNotices THEN MaxNotices - 1 ELSE n
<1>1. /\ n \in Int /\ 0 <= n /\ n <= MaxNotices /\ Listed = 0..(n - 1)
      /\ \A i \in Entries : (i < n => notices[i].id # 0) /\ (i >= n => notices[i] = Free)
  BY FreeIsCleanFacts, CleanFacts DEF Clean
<1>2. n = MaxNotices <=> Listed = Places
  <2>1. Places = 0..(MaxNotices - 1) /\ MaxNotices - 1 \in Places
    BY EntryBounds DEF Places
  <2> HIDE DEF n
  <2> QED BY <1>1, <2>1, EntryBounds
<1>3. FreePlace = p
  <2>1. CASE n = MaxNotices
    BY <1>2, <2>1 DEF FreePlace
  <2>2. CASE n # MaxNotices
    <3>1. n \in Places /\ \A i \in Places : i \in Entries
      BY <1>1, <2>2, EntryBounds
    <3>2. notices[n].id = 0 /\ \A k \in 0..(n - 1) : notices[k].id # 0
      <4>1. notices[n] = Free /\ Free.id = 0
        BY <1>1, <3>1 DEF Free
      <4>2. \A k \in 0..(n - 1) : k \in Entries /\ k < n
        BY <1>1, EntryBounds
      <4> HIDE DEF n
      <4> QED BY <1>1, <4>1, <4>2
    <3>3. \A i \in Places :
            notices[i].id = 0 /\ (\A k \in 0..(i - 1) : notices[k].id # 0) => i = n
      <4> SUFFICES ASSUME NEW i \in Places, notices[i].id = 0,
                          \A k \in 0..(i - 1) : notices[k].id # 0
                   PROVE  i = n
        OBVIOUS
      <4>1. ~(i < n)
        BY <1>1, <3>1
      <4>2. n \notin 0..(i - 1)
        BY <3>2
      <4> HIDE DEF n
      <4> QED BY <1>1, <4>1, <4>2, EntryBounds
    <3>4. FreePlace = CHOOSE i \in Places : notices[i].id = 0 /\ \A k \in 0..(i - 1) : notices[k].id # 0
      BY <1>2, <2>2 DEF FreePlace
    <3> HIDE DEF n
    <3> QED BY <2>2, <3>1, <3>2, <3>3, <3>4
  <2> QED BY <2>1, <2>2
<1>4. notices \in [Entries -> Notice] /\ MovedDown \in [Entries -> Notice]
  <2>1. notices \in [Entries -> Notice]
    BY DEF DeathNoticeOK
  <2>2. \A i \in Entries : i < MaxNotices => i + 1 \in Entries
    BY EntryBounds
  <2> QED BY <2>1, <2>2 DEF MovedDown
<1>5. p \in Entries /\ list[p] = Free
  <2>1. CASE n = MaxNotices
    <3>1. /\ MaxNotices - 1 \in Entries /\ MaxNotices - 1 < MaxNotices
          /\ (MaxNotices - 1) + 1 = MaxNotices /\ MaxNotices \in Entries
      BY EntryBounds
    <3>2. MovedDown[MaxNotices - 1] = notices[MaxNotices]
      BY <3>1 DEF MovedDown
    <3> QED BY <1>1, <2>1, <3>1, <3>2
  <2>2. CASE n # MaxNotices
    <3>1. n \in Entries
      BY <1>1, EntryBounds
    <3> QED BY <1>1, <2>2, <3>1
  <2> QED BY <2>1, <2>2
<1>6. notices' = [list EXCEPT ![p] =
                    [id |-> 1, flags |-> flags, left |-> time, of |-> deaths + 1]]
  <2>1. notices' = [list EXCEPT ![p] =
          [id |-> 1, flags |-> list[p].flags \cup flags, left |-> time, of |-> deaths + 1]]
    BY <1>2, <1>3 DEF DeathMsg
  <2>2. list[p].flags \cup flags = flags
    BY <1>5 DEF Free
  <2> QED BY <2>1, <2>2
<1>7. deaths' = deaths + 1 /\ deaths' \in 0..MaxDeaths /\ noticeTime' \in Nat
  BY EntryBounds DEF DeathMsg, DeathNoticeOK
<1>8. flags \in SUBSET Flag
  <2>1. CASE flags \in SUBSET PlayerFlags
    BY <2>1 DEF Flag
  <2>2. CASE flags \notin SUBSET PlayerFlags
    <3>1. \A o : flags \in (SUBSET PlayerFlags) \cup {{o}} => flags \in SUBSET (PlayerFlags \cup {o})
      BY <2>2
    <3> QED BY <3>1 DEF MessageFlags, Flag
  <2> QED BY <2>1, <2>2
<1>9. list \in [Entries -> Notice]
  BY <1>4
<1> HIDE DEF n, list, p
<1>10. /\ deaths' = deaths + 1 /\ deaths' \in 0..MaxDeaths /\ noticeTime' \in Nat
       /\ list \in [Entries -> Notice] /\ p \in Entries /\ list[p] = Free
       /\ notices' = [list EXCEPT ![p] =
                        [id |-> 1, flags |-> flags, left |-> time, of |-> deaths + 1]]
       /\ flags \in SUBSET Flag
  BY <1>5, <1>6, <1>7, <1>8, <1>9
<1> QED BY <1>10 DEF n, list, p

\* What a frame keeps of the list, and in which order.
LEMMA DrawFacts ==
  ASSUME DeathNoticeOK, FreeIsClean, NEW dt \in Int, DrawDeathNotice(dt)
  PROVE  LET U == Unexpired(dt)
             m == Cardinality(U)
         IN /\ U \in SUBSET Listed /\ IsFiniteSet(U) /\ m \in Int /\ 0 <= m /\ m <= Cardinality(Listed)
            /\ \A j \in Entries :
                 /\ j < m => /\ KeptAt(j, dt) \in U /\ Rank(U, KeptAt(j, dt)) = j
                             /\ notices'[j] = Clamped(LaterNotice(notices[KeptAt(j, dt)], dt))
                 /\ j >= m => notices'[j] = Free
            /\ notices' = [j \in Entries |-> notices'[j]]
<1> DEFINE n == Cardinality(Listed)
           U == Unexpired(dt)
           m == Cardinality(U)
           d == Removed(dt)
<1>1. /\ n \in Int /\ 0 <= n /\ n <= MaxNotices /\ Listed = 0..(n - 1) /\ IsFiniteSet(Listed)
      /\ \A i \in Entries : i >= n => notices[i] = Free
  BY FreeIsCleanFacts, CleanFacts DEF Clean
<1>2. U \in SUBSET Listed /\ U \in SUBSET Nat
  <2>1. Listed \in SUBSET Nat
    BY <1>1
  <2> QED BY <2>1 DEF Unexpired
<1>3. IsFiniteSet(U) /\ m \in Int /\ 0 <= m /\ m <= n
  <2> HIDE DEF U
  <2>1. IsFiniteSet(U) /\ Cardinality(U) <= Cardinality(Listed)
    BY <1>1, <1>2, FS_Subset
  <2> QED BY <2>1, FS_CardinalityType
<1>4. d = n - m
  BY DEF Removed
<1>5. notices' = [j \in Entries |->
       IF j < m THEN Clamped(LaterNotice(notices[KeptAt(j, dt)], dt))
       ELSE notices[IF j + d < MaxNotices THEN j + d ELSE MaxNotices]]
  BY DEF DrawDeathNotice
<1> HIDE DEF n, U, m, d
<1>6. ASSUME NEW j \in Entries, j < m
      PROVE  /\ KeptAt(j, dt) \in U /\ Rank(U, KeptAt(j, dt)) = j
             /\ notices'[j] = Clamped(LaterNotice(notices[KeptAt(j, dt)], dt))
  <2>1. j \in 0..(m - 1)
    BY <1>3, <1>6, EntryBounds
  <2>2. \E i \in U : Rank(U, i) = j
    BY <1>2, <1>3, <2>1, Ranks DEF m
  <2>3. KeptAt(j, dt) = CHOOSE i \in U : Rank(U, i) = j
    BY DEF KeptAt, U, Rank
  <2> QED BY <1>5, <1>6, <2>2, <2>3
<1>7. ASSUME NEW j \in Entries, j >= m
      PROVE  notices'[j] = Free
  <2>1. j + d \in Int /\ j + d >= n
    BY <1>1, <1>3, <1>4, <1>7, EntryBounds
  <2>2. notices'[j] = notices[IF j + d < MaxNotices THEN j + d ELSE MaxNotices]
    BY <1>3, <1>5, <1>7, EntryBounds
  <2>3. (IF j + d < MaxNotices THEN j + d ELSE MaxNotices) \in Entries
    BY <1>1, <2>1, EntryBounds
  <2>4. (IF j + d < MaxNotices THEN j + d ELSE MaxNotices) >= n
    BY <1>1, <2>1, EntryBounds
  <2> QED BY <1>1, <2>2, <2>3, <2>4
<1>8. notices' = [j \in Entries |-> notices'[j]]
  BY <1>5
<1>9. m <= Cardinality(Listed)
  BY <1>3 DEF n
<1>10. /\ U \in SUBSET Listed /\ IsFiniteSet(U) /\ m \in Int /\ 0 <= m /\ m <= Cardinality(Listed)
       /\ \A j \in Entries :
            /\ j < m => /\ KeptAt(j, dt) \in U /\ Rank(U, KeptAt(j, dt)) = j
                        /\ notices'[j] = Clamped(LaterNotice(notices[KeptAt(j, dt)], dt))
            /\ j >= m => notices'[j] = Free
  BY <1>2, <1>3, <1>6, <1>7, <1>9
<1> QED BY <1>8, <1>10 DEF U, m

\* A frame changes nothing of a notice but its time.
LEMMA TimesOnly ==
  ASSUME NEW e \in Notice, NEW dt \in Int, noticeTime \in Nat
  PROVE  /\ LaterNotice(e, dt) \in Notice
         /\ LaterNotice(e, dt).id = e.id /\ LaterNotice(e, dt).of = e.of
         /\ LaterNotice(e, dt).flags = e.flags /\ (e.id = 0 => LaterNotice(e, dt) = e)
         /\ Clamped(e) \in Notice
         /\ Clamped(e).id = e.id /\ Clamped(e).of = e.of /\ Clamped(e).flags = e.flags
<1>1. /\ e.left \in Int /\ Later(e.left, dt) \in Int /\ Least(e.left, noticeTime) \in Int
  BY LaterFacts DEF Notice, Least
<1>2. \A t \in Int : /\ [e EXCEPT !.left = t] \in Notice /\ [e EXCEPT !.left = t].id = e.id
                     /\ [e EXCEPT !.left = t].of = e.of /\ [e EXCEPT !.left = t].flags = e.flags
  BY DEF Notice
<1> QED BY <1>1, <1>2 DEF LaterNotice, Clamped

\* What is known of the list from its invariants.
LEMMA ListFacts ==
  ASSUME DeathNoticeOK, FreeIsClean
  PROVE  LET n == Cardinality(Listed)
         IN /\ notices \in [Entries -> Notice] /\ noticeTime \in Nat /\ deaths \in 0..MaxDeaths
            /\ n \in Int /\ 0 <= n /\ n <= MaxNotices /\ Listed = 0..(n - 1)
            /\ \A i \in Entries : (i < n => notices[i].id # 0) /\ (i >= n => notices[i] = Free)
            /\ Free \in Notice /\ Free.id = 0
<1>1. notices \in [Entries -> Notice] /\ noticeTime \in Nat /\ deaths \in 0..MaxDeaths
  BY DEF DeathNoticeOK
<1>2. Clean(notices, Cardinality(Listed)) /\ Listed = ListedIn(notices)
  BY FreeIsCleanFacts
<1>3. Free \in Notice /\ Free.id = 0
  BY EntryBounds DEF Free, Notice
<1> QED BY <1>1, <1>2, <1>3, CleanFacts DEF Clean

\* A message leaves the list clean, one notice longer unless it was full.
LEMMA MessageKeepsClean ==
  ASSUME DeathNoticeOK, FreeIsClean,
         NEW flags \in MessageFlags, NEW time \in NoticeTimes, DeathMsg(flags, time)
  PROVE  /\ DeathNoticeOK'
         /\ Clean(notices', IF Cardinality(Listed) = MaxNotices THEN MaxNotices ELSE Cardinality(Listed) + 1)
<1> DEFINE n == Cardinality(Listed)
<1>0. /\ notices \in [Entries -> Notice] /\ noticeTime \in Nat /\ deaths \in 0..MaxDeaths
      /\ n \in Int /\ 0 <= n /\ n <= MaxNotices /\ Listed = 0..(n - 1)
      /\ \A i \in Entries : (i < n => notices[i].id # 0) /\ (i >= n => notices[i] = Free)
      /\ Free \in Notice /\ Free.id = 0
  BY ListFacts
<1> HIDE DEF n
<1> DEFINE list == IF n = MaxNotices THEN MovedDown ELSE notices
           p == IF n = MaxNotices THEN MaxNotices - 1 ELSE n
           e == [id |-> 1, flags |-> flags, left |-> time, of |-> deaths + 1]
<1>1. /\ deaths' = deaths + 1 /\ deaths' \in 0..MaxDeaths /\ noticeTime' \in Nat
      /\ list \in [Entries -> Notice] /\ p \in Entries /\ list[p] = Free
      /\ notices' = [list EXCEPT ![p] = e]
      /\ flags \in SUBSET Flag
  BY MessageFacts DEF n
<1>2. e \in Notice /\ e.id # 0
  BY <1>1, EntryBounds DEF Notice
<1>3. \A i \in Entries : (i < p => list[i].id # 0) /\ (i > p => list[i] = Free)
  <2>1. CASE n = MaxNotices
    <3> SUFFICES ASSUME NEW i \in Entries
                 PROVE  (i < p => list[i].id # 0) /\ (i > p => list[i] = Free)
      OBVIOUS
    <3>1. i < p => i + 1 \in Entries /\ i + 1 < n /\ i < MaxNotices
      BY <1>0, <2>1, EntryBounds
    <3>2. i < p => MovedDown[i] = notices[i + 1]
      BY <3>1 DEF MovedDown
    <3>3. i > p => i = MaxNotices
      BY <2>1, EntryBounds
    <3>4. MaxNotices \in Entries /\ MovedDown[MaxNotices] = notices[MaxNotices]
      BY EntryBounds DEF MovedDown
    <3> QED BY <1>0, <2>1, <3>1, <3>2, <3>3, <3>4
  <2>2. CASE n # MaxNotices
    BY <1>0, <2>2, EntryBounds
  <2> QED BY <2>1, <2>2
<1>4. p \in Places
  BY <1>0, EntryBounds
<1> HIDE DEF list, p, e
<1>5. notices' \in [Entries -> Notice] /\ \A i \in Entries : notices'[i] = IF i = p THEN e ELSE list[i]
  BY <1>1, <1>2
<1>6. Clean(notices', p + 1)
  <2>1. p + 1 \in 0..MaxNotices
    BY <1>4, EntryBounds
  <2>2. \A i \in Entries : (i < p + 1 => i = p \/ i < p) /\ (i >= p + 1 => i # p /\ i > p)
    BY <1>4, EntryBounds
  <2> QED BY <1>2, <1>3, <1>5, <2>1, <2>2 DEF Clean
<1>7. p + 1 = IF n = MaxNotices THEN MaxNotices ELSE n + 1
  BY <1>0, EntryBounds DEF p
<1> QED BY <1>1, <1>5, <1>6, <1>7 DEF DeathNoticeOK, n

\* A frame leaves it clean, with the notices it keeps.
LEMMA DrawKeepsClean ==
  ASSUME DeathNoticeOK, FreeIsClean, NEW dt \in Int, DrawDeathNotice(dt)
  PROVE  DeathNoticeOK' /\ Clean(notices', Cardinality(Unexpired(dt)))
<1> DEFINE n == Cardinality(Listed)
<1>0. /\ notices \in [Entries -> Notice] /\ noticeTime \in Nat /\ deaths \in 0..MaxDeaths
      /\ n \in Int /\ 0 <= n /\ n <= MaxNotices /\ Listed = 0..(n - 1)
      /\ \A i \in Entries : (i < n => notices[i].id # 0) /\ (i >= n => notices[i] = Free)
      /\ Free \in Notice /\ Free.id = 0
  BY ListFacts
<1> HIDE DEF n
<1> DEFINE U == Unexpired(dt)
           m == Cardinality(U)
<1>1. /\ U \in SUBSET Listed /\ m \in Int /\ 0 <= m /\ m <= n
      /\ \A j \in Entries :
           /\ j < m => /\ KeptAt(j, dt) \in U
                       /\ notices'[j] = Clamped(LaterNotice(notices[KeptAt(j, dt)], dt))
           /\ j >= m => notices'[j] = Free
      /\ notices' = [j \in Entries |-> notices'[j]]
  BY DrawFacts DEF n
<1>2. UNCHANGED <<noticeTime, deaths>>
  BY DEF DrawDeathNotice
<1> HIDE DEF U, m
<1>3. ASSUME NEW j \in Entries PROVE notices'[j] \in Notice /\ (j < m => notices'[j].id # 0)
  <2>1. CASE j < m
    <3>1. KeptAt(j, dt) \in Entries /\ KeptAt(j, dt) < n
      BY <1>0, <1>1, <2>1, EntryBounds
    <3>2. notices[KeptAt(j, dt)] \in Notice /\ notices[KeptAt(j, dt)].id # 0
      BY <1>0, <3>1
    <3>3. LET e == LaterNotice(notices[KeptAt(j, dt)], dt)
          IN e \in Notice /\ e.id # 0 /\ Clamped(e) \in Notice /\ Clamped(e).id = e.id
      BY <1>0, <3>2, TimesOnly
    <3> QED BY <1>1, <2>1, <3>3
  <2>2. CASE ~(j < m)
    BY <1>0, <1>1, <2>2, EntryBounds
  <2> QED BY <2>1, <2>2
<1>4. notices' \in [Entries -> Notice]
  <2>1. \A j \in Entries : notices'[j] \in Notice
    BY <1>3
  <2> QED BY <1>1, <2>1
<1>5. m \in 0..MaxNotices
  BY <1>0, <1>1, EntryBounds
<1>6. Clean(notices', m)
  BY <1>1, <1>3, <1>5 DEF Clean
<1> QED BY <1>0, <1>2, <1>4, <1>6 DEF DeathNoticeOK, m, U

\* A frame that does not draw the list leaves it as clean as it was.
LEMMA SkipKeepsClean ==
  ASSUME DeathNoticeOK, FreeIsClean, NEW dt \in Int, SkipDeathNotice(dt)
  PROVE  DeathNoticeOK' /\ Clean(notices', Cardinality(Listed))
<1> DEFINE n == Cardinality(Listed)
<1>0. /\ notices \in [Entries -> Notice] /\ noticeTime \in Nat /\ deaths \in 0..MaxDeaths
      /\ n \in Int /\ 0 <= n /\ n <= MaxNotices /\ Listed = 0..(n - 1)
      /\ \A i \in Entries : (i < n => notices[i].id # 0) /\ (i >= n => notices[i] = Free)
      /\ Free \in Notice /\ Free.id = 0
  BY ListFacts
<1>1. Clean(notices, n)
  BY FreeIsCleanFacts DEF n
<1> HIDE DEF n
<1>2. \A i \in Entries : notices'[i] = LaterNotice(notices[i], dt)
  BY DEF SkipDeathNotice
<1>3. \A i \in Entries :
        /\ notices'[i] \in Notice /\ notices'[i].id = notices[i].id
        /\ notices[i] = Free => notices'[i] = Free
  <2> SUFFICES ASSUME NEW i \in Entries
               PROVE  /\ notices'[i] \in Notice /\ notices'[i].id = notices[i].id
                      /\ notices[i] = Free => notices'[i] = Free
    OBVIOUS
  <2>1. notices[i] \in Notice /\ notices'[i] = LaterNotice(notices[i], dt)
    BY <1>0, <1>2
  <2>2. /\ LaterNotice(notices[i], dt) \in Notice /\ LaterNotice(notices[i], dt).id = notices[i].id
        /\ notices[i].id = 0 => LaterNotice(notices[i], dt) = notices[i]
    BY <1>0, <2>1, TimesOnly
  <2> QED BY <1>0, <2>1, <2>2
<1>4. notices' \in [Entries -> Notice]
  BY <1>2, <1>3 DEF SkipDeathNotice
<1>5. UNCHANGED <<noticeTime, deaths>>
  BY DEF SkipDeathNotice
<1>6. Clean(notices', n)
  BY <1>1, <1>3, <1>0, EntryBounds DEF Clean
<1> QED BY <1>0, <1>4, <1>5, <1>6 DEF DeathNoticeOK, n

\* The death notices stay typed, and their list clean.
LEMMA CleanStep ==
  DeathNoticeOK /\ FreeIsClean /\ DeathStep => DeathNoticeOK' /\ \E n : Clean(notices', n)
<1> SUFFICES ASSUME DeathNoticeOK, FreeIsClean, DeathStep
             PROVE  DeathNoticeOK' /\ \E n : Clean(notices', n)
  OBVIOUS
<1> DEFINE n == Cardinality(Listed)
<1>0. /\ notices \in [Entries -> Notice] /\ noticeTime \in Nat /\ deaths \in 0..MaxDeaths
      /\ n \in Int /\ 0 <= n /\ n <= MaxNotices /\ Listed = 0..(n - 1)
      /\ \A i \in Entries : (i < n => notices[i].id # 0) /\ (i >= n => notices[i] = Free)
      /\ Free \in Notice /\ Free.id = 0
  BY ListFacts
<1> HIDE DEF n
<1>1. Clean(notices, n)
  BY FreeIsCleanFacts DEF n
<1>3. CASE InitDeathNotice
  <2>1. notices' \in [Entries -> Notice] /\ \A i \in Entries : notices'[i] = Free
    BY <1>0, <1>3 DEF InitDeathNotice
  <2>2. noticeTime' = noticeTime /\ deaths' = deaths
    BY <1>3 DEF InitDeathNotice
  <2>3. Clean(notices', 0)
    BY <2>1, EntryBounds DEF Clean
  <2> QED BY <1>0, <2>1, <2>2, <2>3 DEF DeathNoticeOK
<1>4. ASSUME NEW flags \in MessageFlags, NEW time \in NoticeTimes, DeathMsg(flags, time)
      PROVE  DeathNoticeOK' /\ \E k : Clean(notices', k)
  BY <1>4, MessageKeepsClean
<1>5. ASSUME NEW dt \in Int, DrawDeathNotice(dt)
      PROVE  DeathNoticeOK' /\ \E k : Clean(notices', k)
  BY <1>5, DrawKeepsClean
<1>6. ASSUME NEW dt \in Int, SkipDeathNotice(dt)
      PROVE  DeathNoticeOK' /\ \E k : Clean(notices', k)
  BY <1>6, SkipKeepsClean
<1>7. CASE UNCHANGED deathVars
  <2>1. UNCHANGED <<notices, noticeTime, deaths>>
    BY <1>7 DEF deathVars
  <2> QED BY <1>0, <1>1, <2>1 DEF DeathNoticeOK
<1> QED BY <1>3, <1>4, <1>5, <1>6, <1>7 DEF DeathStep

\* FreeIsClean is inductive.
LEMMA FreeIsCleanStep ==
  DeathNoticeOK /\ FreeIsClean /\ DeathStep => DeathNoticeOK' /\ FreeIsClean'
<1> SUFFICES ASSUME DeathNoticeOK, FreeIsClean, DeathStep
             PROVE  DeathNoticeOK' /\ FreeIsClean'
  OBVIOUS
<1>1. DeathNoticeOK' /\ \E n : Clean(notices', n)
  BY CleanStep
<1> QED BY <1>1, CleanFacts DEF FreeIsClean
-----------------------------------------------------------------------------
(* The list implements the board.                                          *)

BoardOf(list, n) == [i \in 1..n |-> [of |-> list[i - 1].of, text |-> list[i - 1].flags]]
BoardNow == BoardOf(notices, Cardinality(Listed))
Item == [of : 0..MaxDeaths, text : SUBSET Flag]

\* A function on the first n numbers is a sequence of that length.
LEMMA SeqOf ==
  ASSUME NEW S, NEW n \in Nat, NEW f \in [1..n -> S]
  PROVE  f \in Seq(S) /\ Len(f) = n
<1>1. f \in Seq(S)
  BY SeqDef
<1>2. Len(f) \in Nat /\ 1..Len(f) = 1..n
  BY <1>1, LenProperties
<1> QED BY <1>1, <1>2

\* The sequence of a list's notices.
LEMMA BoardOfFacts ==
  ASSUME NEW list \in [Entries -> Notice], NEW n \in Nat, n <= MaxNotices
  PROVE  /\ BoardOf(list, n) \in Seq(Item) /\ Len(BoardOf(list, n)) = n
         /\ \A i \in 1..n : BoardOf(list, n)[i] = [of |-> list[i - 1].of, text |-> list[i - 1].flags]
<1>1. \A i \in 1..n : i - 1 \in Entries
  BY EntryBounds
<1>2. \A e \in Notice : [of |-> e.of, text |-> e.flags] \in Item
  BY DEF Notice, Item
<1>3. BoardOf(list, n) \in [1..n -> Item]
  BY <1>1, <1>2 DEF BoardOf
<1>4. \A i \in 1..n : BoardOf(list, n)[i] = [of |-> list[i - 1].of, text |-> list[i - 1].flags]
  BY DEF BoardOf
<1> QED BY <1>3, <1>4, SeqOf

\* The board after a step that leaves the list clean with n notices.
LEMMA BoardAfter ==
  ASSUME NEW n, Clean(notices', n)
  PROVE  BoardNow' = BoardOf(notices', n)
<1>1. Cardinality(ListedIn(notices')) = n
  BY CleanFacts
<1>2. Listed' = ListedIn(notices')
  BY DEF Listed, ListedIn
<1> QED BY <1>1, <1>2 DEF BoardNow, BoardOf

\* A message posts its notice.
LEMMA MessagePosts ==
  ASSUME DeathNoticeOK, FreeIsClean,
         NEW flags \in MessageFlags, NEW time \in NoticeTimes, DeathMsg(flags, time)
  PROVE  BoardNow' = Append(IF Len(BoardNow) = MaxNotices THEN Tail(BoardNow) ELSE BoardNow,
                            [of |-> deaths', text |-> flags])
<1> DEFINE n == Cardinality(Listed)
           list == IF n = MaxNotices THEN MovedDown ELSE notices
           p == IF n = MaxNotices THEN MaxNotices - 1 ELSE n
           e == [id |-> 1, flags |-> flags, left |-> time, of |-> deaths + 1]
           item == [of |-> deaths', text |-> flags]
           rest == IF Len(BoardNow) = MaxNotices THEN Tail(BoardNow) ELSE BoardNow
           b == BoardNow
           c == BoardOf(notices', p + 1)
<1>0. n \in Int /\ 0 <= n /\ n <= MaxNotices /\ notices \in [Entries -> Notice]
  BY ListFacts
<1>1. /\ deaths' = deaths + 1 /\ deaths' \in 0..MaxDeaths
      /\ list \in [Entries -> Notice] /\ p \in Entries
      /\ notices' = [list EXCEPT ![p] = e] /\ flags \in SUBSET Flag
  BY MessageFacts
<1>2. DeathNoticeOK' /\ Clean(notices', IF n = MaxNotices THEN MaxNotices ELSE n + 1)
  BY MessageKeepsClean
<1>3. p \in Nat /\ p + 1 <= MaxNotices /\ p + 1 = IF n = MaxNotices THEN MaxNotices ELSE n + 1
  BY <1>0, EntryBounds
<1>4. \A i \in Entries : i < p => list[i] = IF n = MaxNotices THEN notices[i + 1] ELSE notices[i]
  <2> SUFFICES ASSUME NEW i \in Entries, i < p
               PROVE  list[i] = IF n = MaxNotices THEN notices[i + 1] ELSE notices[i]
    OBVIOUS
  <2>1. n = MaxNotices => i < MaxNotices
    BY <1>0, EntryBounds
  <2> QED BY <2>1 DEF MovedDown
<1>5. item \in Item
  BY <1>1 DEF Item
<1>6. /\ b \in Seq(Item) /\ Len(b) = n
      /\ \A i \in 1..n : b[i] = [of |-> notices[i - 1].of, text |-> notices[i - 1].flags]
  BY <1>0, BoardOfFacts DEF BoardNow
<1> HIDE DEF n, list, p, e
<1>7. /\ notices' \in [Entries -> Notice] /\ notices'[p] = e
      /\ \A i \in Entries : i < p => notices'[i] = list[i]
  BY <1>1, <1>2, EntryBounds DEF DeathNoticeOK
<1>8. /\ c \in Seq(Item) /\ Len(c) = p + 1
      /\ \A i \in 1..(p + 1) : c[i] = [of |-> notices'[i - 1].of, text |-> notices'[i - 1].flags]
  <2>1. p + 1 \in Nat
    BY <1>3
  <2> QED BY <1>3, <1>7, <2>1, BoardOfFacts
<1>9. BoardNow' = c
  BY <1>2, <1>3, BoardAfter
<1>10. /\ rest \in Seq(Item) /\ Len(rest) = p
       /\ \A i \in 1..p : rest[i] = IF n = MaxNotices THEN b[i + 1] ELSE b[i]
  <2>1. CASE n = MaxNotices
    <3>1. b # <<>>
      BY <1>6, <2>1, EntryBounds, EmptySeq
    <3>2. Tail(b) \in Seq(Item) /\ Len(Tail(b)) = n - 1 /\ \A i \in 1..(n - 1) : Tail(b)[i] = b[i + 1]
      BY <1>6, <3>1, HeadTailProperties
    <3>3. p = n - 1 /\ rest = Tail(b)
      BY <1>6, <2>1 DEF p
    <3> QED BY <2>1, <3>2, <3>3
  <2>2. CASE n # MaxNotices
    <3>1. p = n /\ rest = b
      BY <1>6, <2>2 DEF p
    <3> QED BY <1>6, <2>2, <3>1
  <2> QED BY <2>1, <2>2
<1>11. \A i \in 1..p : c[i] = rest[i]
  <2> SUFFICES ASSUME NEW i \in 1..p PROVE c[i] = rest[i]
    OBVIOUS
  <2>1. i - 1 \in Entries /\ i - 1 < p /\ i \in 1..(p + 1)
    BY <1>1, <1>3, EntryBounds
  <2>2. notices'[i - 1] = IF n = MaxNotices THEN notices[i] ELSE notices[i - 1]
    <3>1. (i - 1) + 1 = i
      BY <1>3
    <3> QED BY <1>4, <1>7, <2>1, <3>1
  <2>3. n = MaxNotices => i + 1 \in 1..n /\ (i + 1) - 1 = i
    BY <1>3, <1>0
  <2>4. n # MaxNotices => i \in 1..n
    BY <1>3, <1>0
  <2>5. c[i] = [of |-> notices'[i - 1].of, text |-> notices'[i - 1].flags]
    BY <1>8, <2>1
  <2> HIDE DEF rest, b, c
  <2>6. CASE n = MaxNotices
    <3>1. rest[i] = b[i + 1] /\ b[i + 1] = [of |-> notices[i].of, text |-> notices[i].flags]
      BY <1>6, <1>10, <2>3, <2>6
    <3> QED BY <2>2, <2>5, <2>6, <3>1
  <2>7. CASE n # MaxNotices
    <3>1. rest[i] = b[i] /\ b[i] = [of |-> notices[i - 1].of, text |-> notices[i - 1].flags]
      BY <1>6, <1>10, <2>4, <2>7
    <3> QED BY <2>2, <2>5, <2>7, <3>1
  <2> QED BY <2>6, <2>7
<1>12. c[p + 1] = item
  <2>1. p + 1 \in 1..(p + 1) /\ (p + 1) - 1 = p
    BY <1>3
  <2>2. e.of = deaths' /\ e.flags = flags
    BY <1>1 DEF e
  <2> QED BY <1>7, <1>8, <2>1, <2>2
<1> HIDE DEF rest, item, c, b
<1> DEFINE a == Append(rest, item)
<1>13. /\ a \in Seq(Item) /\ Len(a) = p + 1
       /\ \A i \in 1..p : a[i] = rest[i]
  BY <1>5, <1>10, AppendProperties
<1>14. a[p + 1] = item
  BY <1>5, <1>10, AppendProperties
<1>15. \A i \in 1..(p + 1) : c[i] = a[i]
  <2>1. \A i \in 1..(p + 1) : i \in 1..p \/ i = p + 1
    BY <1>3
  <2> HIDE DEF a
  <2> QED BY <1>11, <1>12, <1>13, <1>14, <2>1
<1>16. c = a
  <2> HIDE DEF a
  <2> QED BY <1>8, <1>13, <1>15, SeqEqual DEF c
<1> QED BY <1>9, <1>16 DEF rest, item, b

\* Some of the notices of the board are left, in their order.
Left(n, keep) ==
  /\ n \in 0..Len(BoardNow) /\ keep \in [1..n -> 1..Len(BoardNow)]
  /\ \A i, k \in 1..n : i < k => keep[i] < keep[k]
  /\ BoardNow' = [i \in 1..n |-> BoardNow[keep[i]]]

\* A frame keeps the notices whose time is not over.
LEMMA DrawExpires ==
  ASSUME DeathNoticeOK, FreeIsClean, NEW dt \in Int, DrawDeathNotice(dt)
  PROVE  \E n, keep : Left(n, keep)
<1> DEFINE n == Cardinality(Listed)
           U == Unexpired(dt)
           m == Cardinality(U)
           keep == [j \in 1..m |-> KeptAt(j - 1, dt) + 1]
<1>0. n \in Nat /\ n <= MaxNotices /\ Listed = 0..(n - 1) /\ notices \in [Entries -> Notice] /\ noticeTime \in Nat
  BY ListFacts
<1>1. /\ U \in SUBSET Listed /\ IsFiniteSet(U) /\ m \in Int /\ 0 <= m /\ m <= n
      /\ \A j \in Entries :
           j < m => /\ KeptAt(j, dt) \in U /\ Rank(U, KeptAt(j, dt)) = j
                    /\ notices'[j] = Clamped(LaterNotice(notices[KeptAt(j, dt)], dt))
  BY DrawFacts
<1>2. DeathNoticeOK' /\ Clean(notices', m)
  BY DrawKeepsClean
<1>3. /\ BoardNow' = BoardOf(notices', m)
      /\ BoardOf(notices', m) = [j \in 1..m |-> [of |-> notices'[j - 1].of, text |-> notices'[j - 1].flags]]
  BY <1>2, BoardAfter DEF BoardOf
<1>4. /\ Len(BoardNow) = n
      /\ \A i \in 1..n : BoardNow[i] = [of |-> notices[i - 1].of, text |-> notices[i - 1].flags]
  BY <1>0, BoardOfFacts DEF BoardNow
<1>5. U \in SUBSET Nat
  BY <1>0, <1>1
<1>6. \A i, k \in U : i < k => Rank(U, i) < Rank(U, k)
  BY <1>1, <1>5, Ranks
<1> HIDE DEF n, U, m
<1>7. ASSUME NEW j \in 1..m
      PROVE  /\ KeptAt(j - 1, dt) \in U /\ Rank(U, KeptAt(j - 1, dt)) = j - 1
             /\ KeptAt(j - 1, dt) + 1 \in 1..n
             /\ [of |-> notices'[j - 1].of, text |-> notices'[j - 1].flags]
                = BoardNow[KeptAt(j - 1, dt) + 1]
  <2> DEFINE i == KeptAt(j - 1, dt)
             e == notices[i]
             l == LaterNotice(e, dt)
  <2>1. j - 1 \in Entries /\ j - 1 < m
    BY <1>0, <1>1, EntryBounds
  <2>2. i \in U /\ Rank(U, i) = j - 1 /\ notices'[j - 1] = Clamped(l)
    BY <1>1, <2>1
  <2> HIDE DEF i
  <2>3. i \in Entries /\ i + 1 \in 1..n /\ (i + 1) - 1 = i
    BY <1>0, <1>1, <2>2, EntryBounds
  <2>4. e \in Notice
    BY <1>0, <2>3
  <2>5. l \in Notice /\ l.of = e.of /\ l.flags = e.flags
    BY <1>0, <2>4, TimesOnly
  <2>6. Clamped(l).of = l.of /\ Clamped(l).flags = l.flags
    BY <1>0, <2>5, TimesOnly
  <2> HIDE DEF l
  <2>7. [of |-> notices'[j - 1].of, text |-> notices'[j - 1].flags] = BoardNow[i + 1]
    BY <1>4, <2>2, <2>3, <2>5, <2>6
  <2> QED BY <2>2, <2>3, <2>7 DEF i
<1>8. keep \in [1..m -> 1..n]
  BY <1>7
<1>9. ASSUME NEW j \in 1..m, NEW k \in 1..m, j < k PROVE keep[j] < keep[k]
  <2> DEFINE x == KeptAt(j - 1, dt)
             y == KeptAt(k - 1, dt)
  <2>1. x \in U /\ y \in U /\ Rank(U, x) = j - 1 /\ Rank(U, y) = k - 1
    BY <1>7
  <2>2. keep[j] = x + 1 /\ keep[k] = y + 1
    OBVIOUS
  <2> HIDE DEF x, y, keep
  <2>3. ~(y < x) /\ y # x
    BY <1>1, <1>6, <1>9, <2>1
  <2> QED BY <1>5, <2>1, <2>2, <2>3
<1>10. BoardNow' = [j \in 1..m |-> BoardNow[keep[j]]]
  BY <1>3, <1>7
<1>11. m \in 0..n
  BY <1>0, <1>1
<1> HIDE DEF keep
<1>12. Left(m, keep)
  BY <1>4, <1>8, <1>9, <1>10, <1>11 DEF Left
<1> QED BY <1>12

\* Every step of the list is a step of the board.
LEMMA BoardStep ==
  DeathNoticeOK /\ FreeIsClean /\ DeathStep => Board!Next \/ (BoardNow' = BoardNow /\ deaths' = deaths)
<1> SUFFICES ASSUME DeathNoticeOK, FreeIsClean, DeathStep
             PROVE  Board!Next \/ (BoardNow' = BoardNow /\ deaths' = deaths)
  OBVIOUS
<1>1. BoardNow = [i \in 1..Cardinality(Listed) |-> [of |-> notices[i - 1].of, text |-> notices[i - 1].flags]]
  BY DEF BoardNow, BoardOf
<1>2. ASSUME NEW n, NEW keep, Left(n, keep), deaths' = deaths
      PROVE  Board!Next
  BY <1>2 DEF Left, BoardNow, BoardOf, Board!Next, Board!Expire
<1>3. CASE InitDeathNotice
  <2>1. \A i \in Entries : notices'[i] = Free
    BY <1>3 DEF InitDeathNotice
  <2>2. Clean(notices', 0)
    BY <2>1, EntryBounds DEF Clean
  <2>3. BoardNow' = [i \in 1..0 |-> [of |-> notices'[i - 1].of, text |-> notices'[i - 1].flags]]
    BY <2>2, BoardAfter DEF BoardOf
  <2>4. Len(BoardNow) \in Nat
    BY ListFacts, BoardOfFacts DEF BoardNow
  <2> DEFINE keep == [i \in 1..0 |-> 0]
  <2>5. BoardNow' = [i \in 1..0 |-> BoardNow[keep[i]]]
    BY <2>3
  <2>6. keep \in [1..0 -> 1..Len(BoardNow)] /\ \A i \in 1..0 : FALSE
    OBVIOUS
  <2>7. deaths' = deaths
    BY <1>3 DEF InitDeathNotice
  <2> HIDE DEF keep
  <2>8. Left(0, keep)
    BY <2>4, <2>5, <2>6 DEF Left
  <2> QED BY <1>2, <2>7, <2>8
<1>4. ASSUME NEW flags \in MessageFlags, NEW time \in NoticeTimes, DeathMsg(flags, time)
      PROVE  Board!Next
  <2>1. BoardNow' = Append(IF Len(BoardNow) = MaxNotices THEN Tail(BoardNow) ELSE BoardNow,
                           [of |-> deaths', text |-> flags])
    BY <1>4, MessagePosts
  <2>2. deaths' = deaths + 1
    BY <1>4 DEF DeathMsg
  <2> QED BY <2>1, <2>2 DEF BoardNow, BoardOf, Board!Next, Board!Post
<1>5. ASSUME NEW dt \in Int, DrawDeathNotice(dt)
      PROVE  Board!Next
  <2>1. deaths' = deaths
    BY <1>5 DEF DrawDeathNotice
  <2> QED BY <1>2, <1>5, <2>1, DrawExpires
<1>6. ASSUME NEW dt \in Int, SkipDeathNotice(dt)
      PROVE  BoardNow' = BoardNow /\ deaths' = deaths
  <2> DEFINE n == Cardinality(Listed)
  <2>1. n \in Nat /\ n <= MaxNotices /\ notices \in [Entries -> Notice] /\ noticeTime \in Nat
    BY ListFacts
  <2>2. BoardNow' = BoardOf(notices', n)
    BY <1>6, SkipKeepsClean, BoardAfter
  <2>3. \A i \in Entries : notices'[i] = LaterNotice(notices[i], dt)
    BY <1>6 DEF SkipDeathNotice
  <2>4. ASSUME NEW i \in Entries
        PROVE  notices'[i].of = notices[i].of /\ notices'[i].flags = notices[i].flags
    <3>1. notices[i] \in Notice /\ noticeTime \in Nat
      BY <2>1
    <3>2. /\ LaterNotice(notices[i], dt).of = notices[i].of
          /\ LaterNotice(notices[i], dt).flags = notices[i].flags
      BY <3>1, TimesOnly
    <3> QED BY <2>3, <3>2
  <2> HIDE DEF n
  <2>5. \A i \in 1..n : i - 1 \in Entries
    BY <2>1, EntryBounds
  <2>6. BoardOf(notices', n) = BoardOf(notices, n)
    BY <2>4, <2>5 DEF BoardOf
  <2>7. deaths' = deaths
    BY <1>6 DEF SkipDeathNotice
  <2> QED BY <2>2, <2>6, <2>7 DEF BoardNow, n
<1>7. CASE UNCHANGED deathVars
  <2>1. notices' = notices /\ deaths' = deaths
    BY <1>7 DEF deathVars
  <2> QED BY <2>1 DEF BoardNow, BoardOf, Listed
<1> QED BY <1>3, <1>4, <1>5, <1>6, <1>7 DEF DeathStep
-----------------------------------------------------------------------------
(* The history of pickups.                                                  *)

\* What may happen to the history.
PickupStep ==
  \/ ResetPickupHistory
  \/ \E time \in HistoryTimes : AddToHistory(time)
  \/ AddUnknownItem
  \/ \E dt \in Int : DrawAmmoHistory(dt) \/ SkipPickupHistory(dt)
  \/ UNCHANGED historyVars

\* The strengthening of OldestIsNext: no pickup in the history is yet to come.
PickupInv ==
  /\ OldestIsNext
  /\ \A i \in Rows : history[i].no <= pickups

\* The numbers of the slots.
LEMMA RowBounds ==
  /\ Room \in Int /\ 1 <= Room /\ MaxPickups \in Int /\ 0 <= MaxPickups
  /\ \A i : i \in Rows <=> i \in Int /\ 0 <= i /\ i < Room
  /\ \A time \in HistoryTimes : time \in Int /\ 1 <= time
BY PickupHistoryAssumption DEF PickupHistoryAssumption, Rows

\* The slot whose turn it is, and how far the others are from it.
LEMMA TurnFacts ==
  ASSUME PickupHistoryOK
  PROVE  /\ SlotInTurn \in Rows /\ SlotInTurn \in Int
         /\ \A i \in Rows : /\ TurnsAway(i) \in Int /\ 0 <= TurnsAway(i) /\ TurnsAway(i) < Room
                            /\ TurnsAway(i) = 0 => i = SlotInTurn
<1>1. turn \in Int /\ 0 <= turn /\ turn <= Room
  BY RowBounds DEF PickupHistoryOK
<1>2. SlotInTurn \in Rows /\ SlotInTurn \in Int
  BY <1>1, RowBounds DEF SlotInTurn
<1>3. ASSUME NEW i \in Rows
      PROVE  /\ TurnsAway(i) \in Int /\ 0 <= TurnsAway(i) /\ TurnsAway(i) < Room
             /\ TurnsAway(i) = 0 => i = SlotInTurn
  BY <1>2, RowBounds DEF TurnsAway
<1> QED BY <1>2, <1>3

\* When the turn has been taken every other slot is one nearer, and this one last.
LEMMA TurnTaken ==
  ASSUME PickupHistoryOK, turn' = SlotInTurn + 1
  PROVE  \A i \in Rows :
           TurnsAway(i)' = IF i = SlotInTurn THEN Room - 1 ELSE TurnsAway(i) - 1
<1> DEFINE s == SlotInTurn
           t == IF s + 1 >= Room THEN 0 ELSE s + 1
<1>1. s \in Int /\ 0 <= s /\ s < Room
  BY TurnFacts, RowBounds
<1>2. SlotInTurn' = t
  BY DEF SlotInTurn
<1>3. \A i \in Rows : /\ TurnsAway(i) = IF i >= s THEN i - s ELSE i + Room - s
                      /\ TurnsAway(i)' = IF i >= t THEN i - t ELSE i + Room - t
  BY <1>2 DEF TurnsAway
<1> HIDE DEF s
<1>4. ASSUME NEW i \in Rows
      PROVE  TurnsAway(i)' = IF i = s THEN Room - 1 ELSE TurnsAway(i) - 1
  <2>1. i \in Int /\ 0 <= i /\ i < Room
    BY RowBounds
  <2>2. CASE s + 1 >= Room
    <3>1. s = Room - 1 /\ t = 0 /\ i <= s
      BY <1>1, <2>1, <2>2, RowBounds
    <3> QED BY <1>3, <2>1, <3>1, RowBounds
  <2>3. CASE ~(s + 1 >= Room)
    <3>1. t = s + 1
      BY <2>3
    <3> HIDE DEF t
    <3> QED BY <1>1, <1>3, <2>1, <3>1, RowBounds
  <2> QED BY <2>2, <2>3
<1> QED BY <1>4 DEF s

\* A draw keeps entries as they are, or vacates them.
LEMMA DrawnPickupFacts ==
  ASSUME NEW e \in [no : 0..MaxPickups, left : Int], NEW dt \in Int, historyTime \in Nat
  PROVE  /\ LaterPickup(e, dt) \in [no : 0..MaxPickups, left : Int] /\ LaterPickup(e, dt).no = e.no
         /\ DrawnPickup(e, dt) \in [no : 0..MaxPickups, left : Int]
         /\ DrawnPickup(e, dt).no # 0 =>
              /\ DrawnPickup(e, dt).no = e.no
              /\ 1 <= DrawnPickup(e, dt).left /\ DrawnPickup(e, dt).left <= historyTime
         /\ DrawnPickup(e, dt).no \in {0, e.no}
<1> DEFINE T == [no : 0..MaxPickups, left : Int]
<1>1. \A x \in T : \A t \in Int :
        /\ [x EXCEPT !.left = t] \in T
        /\ [x EXCEPT !.left = t].no = x.no /\ [x EXCEPT !.left = t].left = t
  OBVIOUS
<1>2. Vacant \in T /\ Vacant.no = 0
  BY RowBounds DEF Vacant
<1>8. e \in T
  OBVIOUS
<1> DEFINE l == LaterPickup(e, dt)
           b == BoundedPickup(l)
<1>3. l \in T /\ l.no = e.no
  <2>1. e.left \in Int /\ Later(e.left, dt) \in Int
    BY LaterFacts
  <2> HIDE DEF T
  <2> QED BY <1>1, <1>8, <2>1 DEF LaterPickup
<1> HIDE DEF l
<1>4. b \in T /\ b.no = e.no /\ b.left \in Int /\ b.left <= historyTime
  <2>1. /\ l.left \in Int /\ Least(l.left, historyTime) \in Int
        /\ Least(l.left, historyTime) <= historyTime
    BY <1>3 DEF Least
  <2> HIDE DEF T
  <2> QED BY <1>1, <1>3, <2>1 DEF BoundedPickup
<1> HIDE DEF b, T
<1>5. DrawnPickup(e, dt) = IF e.no = 0 THEN e ELSE IF b.left <= 0 THEN Vacant ELSE b
  BY DEF DrawnPickup, b, l
<1>6. l \in T /\ DrawnPickup(e, dt) \in T
  BY <1>2, <1>3, <1>4, <1>5, <1>8
<1>7. DrawnPickup(e, dt).no # 0 =>
        /\ DrawnPickup(e, dt).no = e.no
        /\ 1 <= DrawnPickup(e, dt).left /\ DrawnPickup(e, dt).left <= historyTime
  BY <1>2, <1>4, <1>5
<1> QED BY <1>3, <1>6, <1>7 DEF l, T

\* The history stays typed, and in order from the slot whose turn it is.
LEMMA PickupHistoryStep ==
  PickupHistoryOK /\ PickupInv /\ PickupStep => PickupHistoryOK' /\ PickupInv'
<1> SUFFICES ASSUME PickupHistoryOK, PickupInv, PickupStep
             PROVE  PickupHistoryOK' /\ PickupInv'
  OBVIOUS
<1> DEFINE T == [no : 0..MaxPickups, left : Int]
           s == SlotInTurn
<1>0. /\ history \in [Rows -> T] /\ turn \in Int /\ 0 <= turn /\ turn <= Room
      /\ historyTime \in Nat /\ pickups \in Int /\ 0 <= pickups /\ pickups <= MaxPickups
      /\ passedOver \in BOOLEAN
  BY RowBounds DEF PickupHistoryOK
<1>1. \A i \in Rows : history[i].no \in Int /\ history[i].no <= pickups
  BY <1>0 DEF PickupInv
<1>2. passedOver \/ \A i, k \in Rows :
        /\ history[i].no # 0 /\ history[k].no # 0
        /\ TurnsAway(i) < TurnsAway(k)
        => history[i].no < history[k].no
  BY DEF PickupInv, OldestIsNext, Taken
<1>3. s \in Rows /\ s \in Int /\ 0 <= s /\ s < Room
  BY TurnFacts, RowBounds
\* It is enough that entries leave, the turn staying where it is unless all do.
<1>4. ASSUME history' \in [Rows -> T], UNCHANGED <<historyTime, pickups>>,
             \A i \in Rows : history'[i].no \in {0, history[i].no},
             turn' \in 0..Room, passedOver' \in BOOLEAN,
             \/ \A i \in Rows : history'[i].no = 0
             \/ turn' = turn /\ passedOver' = passedOver
      PROVE  PickupHistoryOK' /\ PickupInv'
  <2>1. PickupHistoryOK'
    BY <1>0, <1>4 DEF PickupHistoryOK
  <2>2. \A i \in Rows : history'[i].no <= pickups'
    BY <1>0, <1>1, <1>4
  <2>3. OldestIsNext'
    <3>1. CASE \A i \in Rows : history'[i].no = 0
      BY <3>1 DEF OldestIsNext, Taken
    <3>2. CASE turn' = turn /\ passedOver' = passedOver
      <4>1. \A i \in Rows : TurnsAway(i)' = TurnsAway(i)
        BY <3>2 DEF TurnsAway, SlotInTurn
      <4> HIDE DEF T
      <4> QED BY <1>2, <1>4, <3>2, <4>1 DEF OldestIsNext, Taken
    <3> QED BY <1>4, <3>1, <3>2
  <2> QED BY <2>1, <2>2, <2>3 DEF PickupInv
<1>5. CASE ResetPickupHistory
  <2>1. history' \in [Rows -> T] /\ \A i \in Rows : history'[i].no = 0
    BY <1>5, RowBounds DEF ResetPickupHistory, Vacant
  <2>2. UNCHANGED <<turn, historyTime, pickups>> /\ passedOver' = FALSE
    BY <1>5 DEF ResetPickupHistory
  <2>3. turn' \in 0..Room
    BY <1>0, <2>2
  <2> HIDE DEF T
  <2> QED BY <1>4, <2>1, <2>2, <2>3
<1>6. ASSUME NEW time \in HistoryTimes, AddToHistory(time)
      PROVE  PickupHistoryOK' /\ PickupInv'
  <2> DEFINE e == [no |-> pickups + 1, left |-> time]
  <2>1. /\ pickups' = pickups + 1 /\ pickups' \in 0..MaxPickups /\ turn' = s + 1 /\ historyTime' = time
        /\ history' = [history EXCEPT ![s] = e]
    BY <1>0, <1>6, RowBounds DEF AddToHistory
  <2>2. passedOver' = passedOver
    BY <1>6 DEF AddToHistory
  <2>3. e \in T /\ e.no = pickups + 1 /\ time \in Nat
    BY <1>0, <2>1, RowBounds
  <2>4. history' \in [Rows -> T] /\ \A i \in Rows : history'[i] = IF i = s THEN e ELSE history[i]
    <3> HIDE DEF T, e
    <3> QED BY <1>0, <1>3, <2>1, <2>3
  <2>5. turn' \in 0..Room
    BY <1>3, <2>1, RowBounds
  <2> HIDE DEF e
  <2>6. PickupHistoryOK'
    BY <1>0, <2>1, <2>2, <2>3, <2>4, <2>5 DEF PickupHistoryOK
  <2>7. ASSUME NEW i \in Rows PROVE history'[i].no <= pickups'
    <3>1. history'[i].no = IF i = s THEN pickups + 1 ELSE history[i].no
      BY <2>3, <2>4
    <3> QED BY <1>0, <1>1, <2>1, <3>1
  <2>8. ASSUME ~passedOver', NEW i \in Rows, NEW k \in Rows,
               history'[i].no # 0, history'[k].no # 0, TurnsAway(i)' < TurnsAway(k)'
        PROVE  history'[i].no < history'[k].no
    <3>1. \A x \in Rows : TurnsAway(x)' = IF x = s THEN Room - 1 ELSE TurnsAway(x) - 1
      BY <2>1, TurnTaken
    <3>2. \A x \in Rows : TurnsAway(x) \in Int /\ 0 <= TurnsAway(x) /\ TurnsAway(x) < Room
      BY TurnFacts
    <3>3. i # s
      BY <2>8, <3>1, <3>2, RowBounds
    <3>4. CASE k = s
      <4>1. history'[k].no = pickups + 1 /\ history'[i].no = history[i].no
        BY <2>3, <2>4, <3>3, <3>4
      <4> QED BY <1>0, <1>1, <4>1
    <3>5. CASE k # s
      <4>1. TurnsAway(i) < TurnsAway(k)
        BY <2>8, <3>1, <3>2, <3>3, <3>5
      <4>2. history'[k] = history[k] /\ history'[i] = history[i]
        BY <2>4, <3>3, <3>5
      <4> QED BY <1>2, <2>2, <2>8, <4>1, <4>2
    <3> QED BY <3>4, <3>5
  <2> QED BY <2>6, <2>7, <2>8 DEF PickupInv, OldestIsNext, Taken
<1>7. CASE AddUnknownItem
  <2>1. /\ pickups' = pickups + 1 /\ pickups' \in 0..MaxPickups /\ turn' = s + 1
        /\ UNCHANGED <<history, historyTime>>
    BY <1>0, <1>7, RowBounds DEF AddUnknownItem
  <2>2. passedOver' = (passedOver \/ s \in Taken(history))
    BY <1>7 DEF AddUnknownItem
  <2>3. turn' \in 0..Room
    BY <1>3, <2>1, RowBounds
  <2>4. passedOver' \in BOOLEAN
    BY <2>2
  <2>5. PickupHistoryOK'
    BY <1>0, <2>1, <2>3, <2>4 DEF PickupHistoryOK
  <2>6. \A i \in Rows : history'[i].no <= pickups'
    BY <1>0, <1>1, <2>1
  <2>7. ASSUME ~passedOver', NEW i \in Rows, NEW k \in Rows,
               history'[i].no # 0, history'[k].no # 0, TurnsAway(i)' < TurnsAway(k)'
        PROVE  history'[i].no < history'[k].no
    <3>1. \A x \in Rows : TurnsAway(x)' = IF x = s THEN Room - 1 ELSE TurnsAway(x) - 1
      BY <2>1, TurnTaken
    <3>2. \A x \in Rows : TurnsAway(x) \in Int
      BY TurnFacts
    <3>3. ~passedOver /\ i # s /\ k # s
      BY <2>1, <2>2, <2>7 DEF Taken
    <3>4. TurnsAway(i) < TurnsAway(k)
      BY <2>7, <3>1, <3>2, <3>3
    <3> QED BY <1>2, <2>1, <2>7, <3>3, <3>4
  <2> QED BY <2>5, <2>6, <2>7 DEF PickupInv, OldestIsNext, Taken
<1>8. ASSUME NEW dt \in Int, DrawAmmoHistory(dt)
      PROVE  PickupHistoryOK' /\ PickupInv'
  <2>1. /\ history' = [i \in Rows |-> DrawnPickup(history[i], dt)]
        /\ UNCHANGED <<historyTime, pickups>>
    BY <1>8 DEF DrawAmmoHistory
  <2>2. turn' = IF Taken(history') = {} /\ Taken(history) # {} THEN 0 ELSE turn
    BY <1>8 DEF DrawAmmoHistory, CheckClearHistory
  <2>3. passedOver' = (passedOver /\ Taken(history') # {})
    BY <1>8 DEF DrawAmmoHistory
  <2>4. \A i \in Rows : DrawnPickup(history[i], dt) \in T /\ DrawnPickup(history[i], dt).no \in {0, history[i].no}
    BY <1>0, DrawnPickupFacts
  <2>5. history' \in [Rows -> T] /\ \A i \in Rows : history'[i].no \in {0, history[i].no}
    <3> HIDE DEF T
    <3> QED BY <2>1, <2>4
  <2>6. turn' \in 0..Room
    BY <1>0, <2>2, RowBounds
  <2>7. CASE Taken(history') = {}
    <3>1. \A i \in Rows : history'[i].no = 0
      BY <2>7 DEF Taken
    <3>2. passedOver' = FALSE
      BY <2>3, <2>7
    <3> HIDE DEF T
    <3> QED BY <1>4, <2>1, <2>5, <2>6, <3>1, <3>2
  <2>8. CASE Taken(history') # {}
    <3>1. turn' = turn
      BY <2>2, <2>8
    <3>2. passedOver' = passedOver
      BY <1>0, <2>3, <2>8
    <3> HIDE DEF T
    <3> QED BY <1>0, <1>4, <2>1, <2>5, <2>6, <3>1, <3>2
  <2> QED BY <2>7, <2>8
<1>9. ASSUME NEW dt \in Int, SkipPickupHistory(dt)
      PROVE  PickupHistoryOK' /\ PickupInv'
  <2>1. /\ history' = [i \in Rows |-> LaterPickup(history[i], dt)]
        /\ UNCHANGED <<turn, historyTime, pickups, passedOver>>
    BY <1>9 DEF SkipPickupHistory
  <2>2. \A i \in Rows : LaterPickup(history[i], dt) \in T /\ LaterPickup(history[i], dt).no = history[i].no
    BY <1>0, DrawnPickupFacts
  <2>3. history' \in [Rows -> T] /\ \A i \in Rows : history'[i].no \in {0, history[i].no}
    <3> HIDE DEF T
    <3> QED BY <2>1, <2>2
  <2>4. turn' \in 0..Room
    BY <1>0, <2>1
  <2> HIDE DEF T
  <2> QED BY <1>0, <1>4, <2>1, <2>3, <2>4
<1>10. CASE UNCHANGED historyVars
  <2>1. UNCHANGED <<history, turn, historyTime, pickups, passedOver>>
    BY <1>10 DEF historyVars
  <2>2. turn' \in 0..Room
    BY <1>0, <2>1
  <2> HIDE DEF T
  <2> QED BY <1>0, <1>4, <2>1, <2>2
<1> QED BY <1>5, <1>6, <1>7, <1>8, <1>9, <1>10 DEF PickupStep
-----------------------------------------------------------------------------
(* The panels.                                                              *)

\* What may happen to the panels, and whether a frame of the level has been drawn.
PanelStep ==
  \/ VidInitPanels /\ entered' = TRUE
  \/ /\ entered' = entered
     /\ \/ \E p \in Panels : HidePanel(p) \/ \E time \in PanelTimes[p] : ShowPanel(p, time, entered)
        \/ \E seconds \in CountdownSeconds : MsgFunc_Countdown(seconds)
        \/ UNCHANGED panelVars
  \/ /\ entered' = FALSE
     /\ \E dt \in Int : /\ dt >= 0 \/ entered
                        /\ (\E gone \in SUBSET Vanishing : DrawPanels(dt, gone)) \/ SkipPanels(dt)

\* The strengthening of PanelsInTime: until the level's first frame all panels shown
\* had their time from the last level's clock, so that only theirs is ahead of it.
PanelInv ==
  /\ PanelsInTime
  /\ entered => \A p \in Panels : panels[p].on => p \in early

\* A panel's state after a frame.
LEMMA DrawnPanelFacts ==
  ASSUME NEW s \in [on : BOOLEAN, left : Int], NEW dt \in Int
  PROVE  /\ LaterPanel(s, dt) \in [on : BOOLEAN, left : Int] /\ LaterPanel(s, dt).on = s.on
         /\ Off \in [on : BOOLEAN, left : Int] /\ Off.on = FALSE
         /\ \A time \in Nat : dt >= 0 /\ s.left <= time => LaterPanel(s, dt).left <= time
<1>1. /\ s.left \in Int /\ Later(s.left, dt) \in Int
      /\ \A time \in Nat : dt >= 0 /\ s.left <= time => Later(s.left, dt) <= time
  <2>1. LongPast < 0 /\ LongPast \in Int /\ s.left \in Int /\ Later(s.left, dt) \in Int
    BY LaterFacts
  <2>2. ASSUME NEW time \in Nat, dt >= 0, s.left <= time PROVE Later(s.left, dt) <= time
    BY <2>1, <2>2 DEF Later
  <2> QED BY <2>1, <2>2
<1>2. \A t \in Int : /\ [s EXCEPT !.left = t] \in [on : BOOLEAN, left : Int]
                     /\ [s EXCEPT !.left = t].on = s.on /\ [s EXCEPT !.left = t].left = t
  OBVIOUS
<1>3. Off \in [on : BOOLEAN, left : Int] /\ Off.on = FALSE
  BY DEF Off
<1>4. CASE s.on
  <2>1. LaterPanel(s, dt) = [s EXCEPT !.left = Later(s.left, dt)]
    BY <1>4 DEF LaterPanel
  <2> QED BY <1>1, <1>2, <1>3, <2>1
<1>5. CASE ~s.on
  <2>1. LaterPanel(s, dt) = s
    BY <1>5 DEF LaterPanel
  <2>2. \A time \in Nat : dt >= 0 /\ s.left <= time => s.left <= time
    OBVIOUS
  <2> QED BY <1>3, <2>1, <2>2
<1> QED BY <1>4, <1>5

\* The panels stay typed.
LEMMA PanelTypeStep ==
  MatchPanelsOK /\ entered \in BOOLEAN /\ PanelStep => MatchPanelsOK' /\ entered' \in BOOLEAN
<1> SUFFICES ASSUME MatchPanelsOK, entered \in BOOLEAN, PanelStep
             PROVE  MatchPanelsOK' /\ entered' \in BOOLEAN
  OBVIOUS
<1> DEFINE S == [on : BOOLEAN, left : Int]
           C == [on : BOOLEAN, left : Int, waiting : BOOLEAN]
<1>0. /\ panels \in [Panels -> S] /\ countdown \in C
      /\ early \subseteq Panels /\ panelMessages \in 0..MaxPanelMessages
  BY DEF MatchPanelsOK
<1>1. \A s \in S, dt \in Int : Off \in S /\ LaterPanel(s, dt) \in S
  BY DrawnPanelFacts
<1>2. Off \in S
  BY DEF Off
<1>3. /\ CountdownTime \in Int /\ MaxPanelMessages \in Int
      /\ \A p \in Panels : PanelTimes[p] \subseteq Nat
  BY MatchPanelsAssumption DEF MatchPanelsAssumption
<1>4. \A c \in C, t \in Int, b \in BOOLEAN :
        /\ [c EXCEPT !.left = t] \in C /\ [c EXCEPT !.on = b] \in C
        /\ c.left \in Int /\ c.on \in BOOLEAN /\ c.waiting \in BOOLEAN
  OBVIOUS
<1>5. \A dt \in Int : LaterCountdown(dt) \in C
  <2> SUFFICES ASSUME NEW dt \in Int PROVE LaterCountdown(dt) \in C
    OBVIOUS
  <2>1. countdown.left \in Int
    BY <1>0, <1>4
  <2>2. Later(countdown.left, dt) \in Int
    BY <2>1, LaterFacts
  <2> HIDE DEF C
  <2> QED BY <1>0, <1>4, <2>2 DEF LaterCountdown
<1>6. PanelMessage => panelMessages' \in 0..MaxPanelMessages
  BY <1>0, <1>3 DEF PanelMessage
<1>7. CASE VidInitPanels /\ entered' = TRUE
  <2>1. panels' \in [Panels -> S] /\ early' = {} /\ panelMessages' = panelMessages
    <3> HIDE DEF S
    <3> QED BY <1>2, <1>7 DEF VidInitPanels
  <2>2. countdown' \in C
    <3>1. countdown' = [countdown EXCEPT !.on = FALSE]
      BY <1>7 DEF VidInitPanels
    <3>2. 0 \in Int /\ FALSE \in BOOLEAN
      OBVIOUS
    <3> HIDE DEF C
    <3> QED BY <1>0, <1>4, <3>1, <3>2
  <2> QED BY <1>0, <1>7, <2>1, <2>2 DEF MatchPanelsOK
<1>8. ASSUME NEW p \in Panels, NEW time \in PanelTimes[p], ShowPanel(p, time, entered)
      PROVE  MatchPanelsOK'
  <2>1. panels' = [panels EXCEPT ![p] = [on |-> TRUE, left |-> time]] /\ countdown' = countdown
    BY <1>8 DEF ShowPanel
  <2>2. [on |-> TRUE, left |-> time] \in S
    BY <1>3
  <2>3. panels' \in [Panels -> S]
    <3> HIDE DEF S
    <3> QED BY <1>0, <2>1, <2>2
  <2>4. early' \subseteq Panels
    BY <1>0, <1>8 DEF ShowPanel
  <2>5. panelMessages' \in 0..MaxPanelMessages
    BY <1>6, <1>8 DEF ShowPanel
  <2> QED BY <1>0, <2>1, <2>3, <2>4, <2>5 DEF MatchPanelsOK
<1>9. ASSUME NEW p \in Panels, HidePanel(p)
      PROVE  MatchPanelsOK'
  <2>1. /\ panels' = [panels EXCEPT ![p] = Off] /\ countdown' = countdown
        /\ early' \subseteq Panels /\ panelMessages' \in 0..MaxPanelMessages
    BY <1>0, <1>6, <1>9 DEF HidePanel
  <2>2. panels' \in [Panels -> S]
    <3> HIDE DEF S
    <3> QED BY <1>0, <1>2, <2>1
  <2> QED BY <1>0, <2>1, <2>2 DEF MatchPanelsOK
<1>10. ASSUME NEW seconds \in CountdownSeconds, MsgFunc_Countdown(seconds)
       PROVE  MatchPanelsOK'
  <2>1. /\ \E b, w \in BOOLEAN, t \in Int : countdown' = [on |-> b, left |-> t, waiting |-> w]
        /\ panels' = panels /\ early' = early
    <3>1. \E b, w \in BOOLEAN : countdown' =
            [on |-> b,
             left |-> IF seconds = "few with a sound" THEN CountdownTime ELSE countdown.left,
             waiting |-> w]
      BY <1>10 DEF MsgFunc_Countdown
    <3>2. (IF seconds = "few with a sound" THEN CountdownTime ELSE countdown.left) \in Int
      BY <1>0, <1>3, <1>4
    <3>3. panels' = panels /\ early' = early
      BY <1>10 DEF MsgFunc_Countdown
    <3> QED BY <3>1, <3>2, <3>3
  <2>2. panelMessages' \in 0..MaxPanelMessages
    BY <1>6, <1>10 DEF MsgFunc_Countdown
  <2>3. countdown' \in C
    BY <2>1
  <2> QED BY <1>0, <2>1, <2>2, <2>3 DEF MatchPanelsOK
<1>11. ASSUME NEW dt \in Int, NEW gone, DrawPanels(dt, gone)
       PROVE  MatchPanelsOK'
  <2>1. /\ panels' = [p \in Panels |-> DrawnPanel(p, dt, gone)] /\ early' \subseteq early
        /\ panelMessages' = panelMessages
    BY <1>11 DEF DrawPanels
  <2>2. \A p \in Panels : DrawnPanel(p, dt, gone) \in S
    <3> HIDE DEF S
    <3> QED BY <1>0, <1>1, <1>2 DEF DrawnPanel
  <2>3. \E b \in BOOLEAN : countdown' = [LaterCountdown(dt) EXCEPT !.on = b]
    <3>1. countdown' = [LaterCountdown(dt) EXCEPT
            !.on = LaterCountdown(dt).on /\ (countdown.waiting \/ LaterCountdown(dt).left > 0)]
      BY <1>11 DEF DrawPanels
    <3>2. (LaterCountdown(dt).on /\ (countdown.waiting \/ LaterCountdown(dt).left > 0)) \in BOOLEAN
      OBVIOUS
    <3> QED BY <3>1, <3>2
  <2>4. countdown' \in C
    <3>1. 0 \in Int
      OBVIOUS
    <3> HIDE DEF C
    <3> QED BY <1>4, <1>5, <2>3, <3>1
  <2>5. panels' \in [Panels -> S]
    <3> HIDE DEF S
    <3> QED BY <2>1, <2>2
  <2> QED BY <1>0, <2>1, <2>4, <2>5 DEF MatchPanelsOK
<1>12. ASSUME NEW dt \in Int, SkipPanels(dt)
       PROVE  MatchPanelsOK'
  <2>1. /\ panels' = [p \in Panels |-> LaterPanel(panels[p], dt)]
        /\ countdown' = LaterCountdown(dt) /\ UNCHANGED <<early, panelMessages>>
    BY <1>12 DEF SkipPanels
  <2>2. panels' \in [Panels -> S]
    <3> HIDE DEF S
    <3> QED BY <1>0, <1>1, <2>1
  <2> QED BY <1>0, <1>5, <2>1, <2>2 DEF MatchPanelsOK
<1>13. ASSUME UNCHANGED panelVars PROVE MatchPanelsOK'
  BY <1>0, <1>13 DEF panelVars, MatchPanelsOK
<1>14. entered' \in BOOLEAN
  BY DEF PanelStep
<1> HIDE DEF S, C
<1> QED BY <1>7, <1>8, <1>9, <1>10, <1>11, <1>12, <1>13, <1>14 DEF PanelStep

\* PanelsInTime is inductive, with what holds until the level's first frame.
LEMMA PanelInvStep ==
  MatchPanelsOK /\ PanelInv /\ PanelStep => PanelInv'
<1> SUFFICES ASSUME MatchPanelsOK, PanelInv, PanelStep PROVE PanelInv'
  OBVIOUS
<1> DEFINE S == [on : BOOLEAN, left : Int]
           InTimeAt(p, s) == \E time \in PanelTimes[p] : s.left <= time
<1>0. /\ panels \in [Panels -> S] /\ early \subseteq Panels
      /\ \A p \in Panels : panels[p].on /\ p \notin early => InTimeAt(p, panels[p])
      /\ entered => \A p \in Panels : panels[p].on => p \in early
  BY DEF MatchPanelsOK, PanelInv, PanelsInTime
<1>1. \A p \in Panels : PanelTimes[p] \subseteq Nat
  BY MatchPanelsAssumption DEF MatchPanelsAssumption
<1>2. Off.on = FALSE
  BY DEF Off
<1>3. ASSUME \A p \in Panels : panels'[p].on /\ p \notin early' => InTimeAt(p, panels'[p]),
             entered' => \A p \in Panels : panels'[p].on => p \in early'
      PROVE  PanelInv'
  BY <1>3 DEF PanelInv, PanelsInTime
<1>4. CASE VidInitPanels /\ entered' = TRUE
  <2>1. \A p \in Panels : panels'[p].on = FALSE
    BY <1>2, <1>4 DEF VidInitPanels
  <2> QED BY <1>3, <2>1
<1>5. ASSUME NEW p \in Panels, NEW time \in PanelTimes[p], ShowPanel(p, time, entered), entered' = entered
      PROVE  PanelInv'
  <2> DEFINE e == [on |-> TRUE, left |-> time]
  <2>1. /\ \A x \in Panels : panels'[x] = IF x = p THEN e ELSE panels[x]
        /\ entered => early' = early \cup {p}
        /\ ~entered => early' = early \ {p}
    BY <1>0, <1>5 DEF ShowPanel
  <2>2. e.left = time /\ time <= time
    BY <1>1
  <2>3. InTimeAt(p, e)
    BY <2>2
  <2> HIDE DEF e, InTimeAt
  <2> QED BY <1>0, <1>3, <1>5, <2>1, <2>3
<1>6. ASSUME NEW p \in Panels, HidePanel(p), entered' = entered
      PROVE  PanelInv'
  <2>1. /\ \A x \in Panels : panels'[x] = IF x = p THEN Off ELSE panels[x]
        /\ early' = early \ {p}
    BY <1>0, <1>6 DEF HidePanel
  <2> HIDE DEF InTimeAt
  <2> QED BY <1>0, <1>2, <1>3, <1>6, <2>1
<1>7. ASSUME UNCHANGED <<panels, early>>, entered' = entered
      PROVE  PanelInv'
  <2> HIDE DEF InTimeAt
  <2> QED BY <1>0, <1>3, <1>7
\* A frame: of the panels that are still on, those not in early had theirs in time.
<1>8. ASSUME NEW dt \in Int, dt >= 0 \/ entered, entered' = FALSE,
             \A p \in Panels : panels'[p].on =>
               panels'[p] = LaterPanel(panels[p], dt) /\ (p \in early => p \in early')
      PROVE  PanelInv'
  <2>1. ASSUME NEW p \in Panels, panels'[p].on, p \notin early'
        PROVE  InTimeAt(p, panels'[p])
    <3>1. panels'[p] = LaterPanel(panels[p], dt) /\ p \notin early
      BY <1>8, <2>1
    <3>2. panels[p] \in S
      BY <1>0
    <3>3. /\ LaterPanel(panels[p], dt).on = panels[p].on
          /\ \A time \in Nat : dt >= 0 /\ panels[p].left <= time => LaterPanel(panels[p], dt).left <= time
      BY <3>2, DrawnPanelFacts
    <3>4. panels[p].on
      BY <2>1, <3>1, <3>3
    <3>5. dt >= 0 /\ InTimeAt(p, panels[p])
      <4> HIDE DEF InTimeAt
      <4> QED BY <1>0, <1>8, <3>1, <3>4
    <3>6. PICK time \in PanelTimes[p] : panels[p].left <= time
      BY <3>5
    <3>7. LaterPanel(panels[p], dt).left <= time
      BY <1>1, <3>3, <3>5, <3>6
    <3> QED BY <3>1, <3>7
  <2> HIDE DEF InTimeAt
  <2> QED BY <1>3, <1>8, <2>1
<1>9. ASSUME NEW dt \in Int, dt >= 0 \/ entered, entered' = FALSE, NEW gone, DrawPanels(dt, gone)
      PROVE  PanelInv'
  <2>1. \A p \in Panels : panels'[p] = DrawnPanel(p, dt, gone)
    BY <1>9 DEF DrawPanels
  <2>2. early' = {p \in early : panels'[p].on}
    BY <1>9 DEF DrawPanels
  <2>3. ASSUME NEW p \in Panels, panels'[p].on
        PROVE  panels'[p] = LaterPanel(panels[p], dt) /\ (p \in early => p \in early')
    <3>1. DrawnPanel(p, dt, gone) = Off \/ DrawnPanel(p, dt, gone) = LaterPanel(panels[p], dt)
      BY DEF DrawnPanel
    <3> QED BY <1>2, <2>1, <2>2, <2>3, <3>1
  <2> QED BY <1>8, <1>9, <2>3
<1>10. ASSUME NEW dt \in Int, dt >= 0 \/ entered, entered' = FALSE, SkipPanels(dt)
       PROVE  PanelInv'
  <2>1. (\A p \in Panels : panels'[p] = LaterPanel(panels[p], dt)) /\ early' = early
    BY <1>10 DEF SkipPanels
  <2> QED BY <1>8, <1>10, <2>1
<1>11. ASSUME NEW seconds \in CountdownSeconds, MsgFunc_Countdown(seconds), entered' = entered
       PROVE  PanelInv'
  <2>1. UNCHANGED <<panels, early>>
    BY <1>11 DEF MsgFunc_Countdown
  <2> QED BY <1>7, <1>11, <2>1
<1>12. ASSUME UNCHANGED panelVars, entered' = entered
       PROVE  PanelInv'
  BY <1>7, <1>12 DEF panelVars
<1> QED BY <1>4, <1>5, <1>6, <1>9, <1>10, <1>11, <1>12 DEF PanelStep
-----------------------------------------------------------------------------
(* The HUD.                                                                 *)

\* The inductive invariant of all the elements together.
HudInv ==
  /\ TypeOK
  /\ RestsInPlace /\ NamesInStep /\ OrderInv /\ DisabledIsEmptyUngapped
  /\ FreeIsClean
  /\ PickupInv
  /\ PanelInv

\* A frame is a step of each element.
LEMMA FrameSteps ==
  ASSUME NEW dt \in Int, dt >= 0 \/ entered, AnyRedraw(dt)
  PROVE  SayTextStep /\ DeathStep /\ PickupStep /\ PanelStep /\ entered' = FALSE
<1>1. PICK drawn \in SUBSET Elements, time \in SayTimes, gone \in SUBSET Leaving :
        Redraw(dt, drawn, time, gone)
  BY DEF AnyRedraw
<1>2. DrawSayText(dt, time) \/ SkipSayText(dt)
  BY <1>1 DEF Redraw
<1>3. DrawDeathNotice(dt) \/ SkipDeathNotice(dt)
  BY <1>1 DEF Redraw
<1>4. DrawAmmoHistory(dt) \/ SkipPickupHistory(dt)
  BY <1>1 DEF Redraw
<1>5. DrawPanels(dt, gone) \/ SkipPanels(dt)
  BY <1>1 DEF Redraw
<1>6. entered' = FALSE
  BY <1>1 DEF Redraw
<1>7. gone \in SUBSET Vanishing
  BY DEF Leaving
<1>8. SayTextStep
  BY <1>2 DEF SayTextStep
<1>9. DeathStep
  BY <1>3 DEF DeathStep
<1>10. PickupStep
  BY <1>4 DEF PickupStep
<1>11. PanelStep
  BY <1>5, <1>6, <1>7 DEF PanelStep
<1> QED BY <1>6, <1>8, <1>9, <1>10, <1>11

\* Every step of the HUD is a step, or none, of each element.
LEMMA HudSteps ==
  ASSUME back \in 0..MaxBack, entered \in BOOLEAN, [Next]_vars
  PROVE  SayTextStep /\ DeathStep /\ PickupStep /\ PanelStep /\ back' \in 0..MaxBack
<1>1. CASE Frame
  <2>1. 1 \in Int /\ 1 >= 0
    OBVIOUS
  <2>2. AnyRedraw(1) /\ back' = back
    BY <1>1 DEF Frame
  <2> QED BY <2>1, <2>2, FrameSteps
<1>2. CASE FrameOfEarlierClock
  <2>1. PICK jump \in 1..(MaxBack - back) : back' = back + jump /\ AnyRedraw(-jump)
    BY <1>2 DEF FrameOfEarlierClock
  <2>2. entered
    BY <1>2 DEF FrameOfEarlierClock
  <2>3. -jump \in Int /\ back' \in 0..MaxBack
    BY <2>1, HudClockAssumption DEF HudClockAssumption
  <2>4. SayTextStep /\ DeathStep /\ PickupStep /\ PanelStep
    BY <2>1, <2>2, <2>3, FrameSteps
  <2> QED BY <2>3, <2>4
<1>3. CASE HUD_VidInit
  <2>1. VidInitPanels /\ entered' = TRUE /\ UNCHANGED <<sayVars, deathVars, historyVars, back>>
    BY <1>3 DEF HUD_VidInit
  <2> QED BY <2>1 DEF SayTextStep, DeathStep, PickupStep, PanelStep
<1>4. CASE MsgFunc_SayText
  <2>1. UNCHANGED <<deathVars, historyVars, panelVars, entered, back>>
    BY <1>4 DEF MsgFunc_SayText
  <2>2. \E long, tagged \in BOOLEAN, time \in SayTimes : SayTextPrint(long, tagged, time)
    BY <1>4 DEF MsgFunc_SayText
  <2>3. SayTextStep
    BY <2>2 DEF SayTextStep
  <2> QED BY <2>1, <2>3 DEF DeathStep, PickupStep, PanelStep
<1>5. CASE MsgFunc_DeathMsg
  <2>1. UNCHANGED <<sayVars, historyVars, panelVars, entered, back>>
    BY <1>5 DEF MsgFunc_DeathMsg
  <2>2. \E flags \in MessageFlags, time \in NoticeTimes : DeathMsg(flags, time)
    BY <1>5 DEF MsgFunc_DeathMsg
  <2>3. DeathStep
    BY <2>2 DEF DeathStep
  <2> QED BY <2>1, <2>3 DEF SayTextStep, PickupStep, PanelStep
<1>6. CASE MsgFunc_Pickup
  <2>1. UNCHANGED <<sayVars, deathVars, panelVars, entered, back>>
    BY <1>6 DEF MsgFunc_Pickup
  <2>2. AddUnknownItem \/ \E time \in HistoryTimes : AddToHistory(time)
    BY <1>6 DEF MsgFunc_Pickup
  <2>3. PickupStep
    BY <2>2 DEF PickupStep
  <2> QED BY <2>1, <2>3 DEF SayTextStep, DeathStep, PanelStep
<1>7. CASE MsgFunc_Panel
  <2>1. UNCHANGED <<sayVars, deathVars, historyVars, entered, back>>
    BY <1>7 DEF MsgFunc_Panel
  <2>2. \/ \E p \in Panels : HidePanel(p) \/ \E time \in PanelTimes[p] : ShowPanel(p, time, entered)
        \/ \E seconds \in CountdownSeconds : MsgFunc_Countdown(seconds)
    BY <1>7 DEF MsgFunc_Panel
  <2>3. PanelStep
    BY <2>1, <2>2 DEF PanelStep
  <2> QED BY <2>1, <2>3 DEF SayTextStep, DeathStep, PickupStep
<1>8. CASE MsgFunc_InitHUD
  BY <1>8 DEF MsgFunc_InitHUD, SayTextStep, DeathStep, PickupStep, PanelStep
<1>9. CASE MsgFunc_ResetHUD
  BY <1>9 DEF MsgFunc_ResetHUD, SayTextStep, DeathStep, PickupStep, PanelStep
<1>10. CASE UNCHANGED vars
  <2>1. /\ UNCHANGED sayVars /\ UNCHANGED deathVars /\ UNCHANGED historyVars
        /\ UNCHANGED panelVars /\ entered' = entered /\ back' = back
    BY <1>10 DEF vars, sayVars, deathVars, historyVars, panelVars
  <2> QED BY <2>1 DEF SayTextStep, DeathStep, PickupStep, PanelStep
<1> QED BY <1>1, <1>2, <1>3, <1>4, <1>5, <1>6, <1>7, <1>8, <1>9, <1>10 DEF Next

\* The invariant holds at the start.
LEMMA HudInvInit == Init => HudInv
<1> SUFFICES ASSUME Init PROVE HudInv
  OBVIOUS
<1>0. /\ SayTextInit /\ DeathNoticeInit /\ PickupHistoryInit /\ MatchPanelsInit
      /\ entered = TRUE /\ back = 0
  BY DEF Init
<1>1. SayTextOK
  BY <1>0, SayTextTypeInit
<1>2. (\A i \in LineNumbers : lines[i] = Empty) /\ said = 0
  BY <1>0 DEF SayTextInit
<1>3. 0 \in LineNumbers /\ MaxLines - 1 \in LineNumbers /\ MaxLines - 2 \in LineNumbers
  BY Bounds
<1>4. Empty.msg = 0 /\ Empty.piece = 0 /\ ~StartsWithSpace(Empty)
  BY LineFacts
<1>5. RestsInPlace
  BY <1>2, <1>3, <1>4 DEF RestsInPlace, TopStartsMessage
<1>6. NamesInStep
  BY <1>2, <1>4 DEF NamesInStep
<1>7. OrderInv
  BY <1>2, <1>4 DEF OrderInv, InOrder
<1>8. DisabledIsEmptyUngapped
  BY <1>2 DEF DisabledIsEmptyUngapped, DisabledIsEmpty
<1>9. notices = [i \in Entries |-> Free] /\ noticeTime = 6 /\ deaths = 0
  BY <1>0 DEF DeathNoticeInit
<1>10. DeathNoticeOK
  <2>1. Free \in Notice
    BY EntryBounds DEF Free, Notice
  <2>2. noticeTime \in Nat /\ deaths \in 0..MaxDeaths
    BY <1>9, EntryBounds
  <2> QED BY <1>9, <2>1, <2>2 DEF DeathNoticeOK
<1>11. FreeIsClean
  <2>1. \A i \in Entries : notices[i] = Free
    BY <1>9
  <2>2. MaxNotices \in Entries /\ \A i \in Places : \A k \in i..MaxNotices : k \in Entries
    BY EntryBounds
  <2> QED BY <2>1, <2>2 DEF FreeIsClean
<1>12. /\ history = [i \in Rows |-> Vacant] /\ turn = 0 /\ historyTime = 5 /\ pickups = 0
       /\ passedOver = FALSE
  BY <1>0 DEF PickupHistoryInit
<1>13. PickupHistoryOK
  <2>1. Vacant \in [no : 0..MaxPickups, left : Int]
    BY RowBounds DEF Vacant
  <2>2. turn \in 0..Room /\ historyTime \in Nat /\ pickups \in 0..MaxPickups
    BY <1>12, RowBounds
  <2>3. passedOver \in BOOLEAN
    BY <1>12
  <2> QED BY <1>12, <2>1, <2>2, <2>3 DEF PickupHistoryOK
<1>14. PickupInv
  <2>1. \A i \in Rows : history[i].no = 0
    BY <1>12 DEF Vacant
  <2> QED BY <1>12, <2>1 DEF PickupInv, OldestIsNext, Taken
<1>15. /\ panels = [p \in Panels |-> Off] /\ early = {} /\ panelMessages = 0
       /\ countdown = [on |-> FALSE, left |-> LongPast, waiting |-> FALSE]
  BY <1>0 DEF MatchPanelsInit
<1>16. MatchPanelsOK
  <2>1. Off \in [on : BOOLEAN, left : Int]
    BY DEF Off
  <2>2. LongPast \in Int
    BY LaterFacts
  <2>3. countdown \in [on : BOOLEAN, left : Int, waiting : BOOLEAN]
    BY <1>15, <2>2
  <2>4. panelMessages \in 0..MaxPanelMessages
    BY <1>15, MatchPanelsAssumption DEF MatchPanelsAssumption
  <2> QED BY <1>15, <2>1, <2>3, <2>4 DEF MatchPanelsOK
<1>17. PanelInv
  BY <1>15 DEF PanelInv, PanelsInTime, Off
<1>18. entered \in BOOLEAN /\ back \in 0..MaxBack
  BY <1>0, HudClockAssumption DEF HudClockAssumption
<1> QED BY <1>1, <1>5, <1>6, <1>7, <1>8, <1>10, <1>11, <1>13, <1>14, <1>16, <1>17, <1>18
        DEF HudInv, TypeOK

\* And after every step.
LEMMA HudInvStep == HudInv /\ [Next]_vars => HudInv'
<1> SUFFICES ASSUME HudInv, [Next]_vars PROVE HudInv'
  OBVIOUS
<1>0. /\ SayTextOK /\ DeathNoticeOK /\ PickupHistoryOK /\ MatchPanelsOK
      /\ entered \in BOOLEAN /\ back \in 0..MaxBack
      /\ RestsInPlace /\ NamesInStep /\ OrderInv /\ DisabledIsEmptyUngapped
      /\ FreeIsClean /\ PickupInv /\ PanelInv
  BY DEF HudInv, TypeOK
<1>1. SayTextStep /\ DeathStep /\ PickupStep /\ PanelStep /\ back' \in 0..MaxBack
  BY <1>0, HudSteps
<1>2. SayTextOK' /\ RestsInPlace' /\ NamesInStep' /\ OrderInv' /\ DisabledIsEmptyUngapped'
  BY <1>0, <1>1, SayTextTypeStep, RestsInPlaceStep, NamesInStepStep, OrderStep, DisabledStep
<1>3. DeathNoticeOK' /\ FreeIsClean'
  BY <1>0, <1>1, FreeIsCleanStep
<1>4. PickupHistoryOK' /\ PickupInv'
  BY <1>0, <1>1, PickupHistoryStep
<1>5. MatchPanelsOK' /\ entered' \in BOOLEAN /\ PanelInv'
  BY <1>0, <1>1, PanelTypeStep, PanelInvStep
<1> QED BY <1>1, <1>2, <1>3, <1>4, <1>5 DEF HudInv, TypeOK

\* It is an invariant of the HUD.
LEMMA HudInvAlways == Spec => []HudInv
BY HudInvInit, HudInvStep, PTL DEF Spec
-----------------------------------------------------------------------------
(* The theorems.                                                            *)

\* Every variable of the chat, the notices, the history and the panels keeps its type.
THEOREM TypeCorrect == Spec => []TypeOK
<1>1. HudInv => TypeOK
  BY DEF HudInv
<1> QED BY <1>1, HudInvAlways, PTL

\* The top line of the chat always starts a message (saytext.cpp:93).
THEOREM TopLineStarts == Spec => []TopStartsMessage
<1>1. HudInv => TopStartsMessage
  BY DEF HudInv, RestsInPlace
<1> QED BY <1>1, HudInvAlways, PTL

\* The arrays beside the chat lines stay in step with them (saytext.cpp:89, 249).
THEOREM NamesStayInStep == Spec => []NamesInStep
<1>1. HudInv => NamesInStep
  BY DEF HudInv
<1> QED BY <1>1, HudInvAlways, PTL

\* Unless a gap was left, the lines are in order and without gaps (saytext.cpp:236, 371).
THEOREM LinesInOrder == Spec => []InOrder
<1>1. HudInv => InOrder
  BY DEF HudInv, OrderInv
<1> QED BY <1>1, HudInvAlways, PTL

\* Unless a gap was left, lines that are not drawn are empty (saytext.cpp:128).
THEOREM DisabledLinesAreEmpty == Spec => []DisabledIsEmptyUngapped
<1>1. HudInv => DisabledIsEmptyUngapped
  BY DEF HudInv
<1> QED BY <1>1, HudInvAlways, PTL

\* Unless a gap was left, only the oldest lines leave (saytext.cpp:241, 380).
THEOREM OldestLinesLeave == Spec => OnlyOldestLeave
<1> DEFINE Kept == \/ gapped' \/ Shown(lines') = {}
                   \/ /\ \A l \in Shown(lines) \ Shown(lines'), k \in Shown(lines') : Before(l, k)
                      /\ said' # said => Beginning(said') \in Shown(lines')
<1>1. HudInv /\ [Next]_vars => [Kept]_sayVars
  <2> SUFFICES ASSUME HudInv, [Next]_vars PROVE Kept
    OBVIOUS
  <2>1. SayTextOK /\ OrderInv /\ entered \in BOOLEAN /\ back \in 0..MaxBack
    BY DEF HudInv, TypeOK
  <2>2. SayTextStep
    BY <2>1, HudSteps
  <2> QED BY <2>1, <2>2, OldestLeaveStep
<1> HIDE DEF Kept
<1>2. Spec => [][Kept]_sayVars
  BY <1>1, HudInvAlways, PTL DEF Spec
<1> QED BY <1>2 DEF OnlyOldestLeave, Kept

\* From the first free entry of the death notices on every entry is clean
\* (death.cpp:110, 205, 246).
THEOREM FreeEntriesAreClean == Spec => []FreeIsClean
<1>1. HudInv => FreeIsClean
  BY DEF HudInv
<1> QED BY <1>1, HudInvAlways, PTL

\* The array of death notices implements the board (death.cpp:98, 180).
THEOREM ImplementsBoard == Spec => BoardSpec
<1>1. Init => Board!Init
  <2> SUFFICES ASSUME Init PROVE Board!Init
    OBVIOUS
  <2>1. HudInv /\ deaths = 0 /\ notices = [i \in Entries |-> Free]
    BY HudInvInit DEF Init, DeathNoticeInit
  <2>2. \A i \in Entries : notices[i] = Free
    BY <2>1
  <2>3. Clean(notices, 0)
    BY <2>2, EntryBounds DEF Clean
  <2>4. Cardinality(Listed) = 0
    <3>1. Cardinality(ListedIn(notices)) = 0
      BY <2>3, CleanFacts
    <3> QED BY <3>1 DEF Listed, ListedIn
  <2> QED BY <2>1, <2>4 DEF Board!Init
<1>2. HudInv /\ [Next]_vars => Board!Next \/ (BoardNow' = BoardNow /\ deaths' = deaths)
  <2> SUFFICES ASSUME HudInv, [Next]_vars
               PROVE  Board!Next \/ (BoardNow' = BoardNow /\ deaths' = deaths)
    OBVIOUS
  <2>1. DeathNoticeOK /\ FreeIsClean /\ entered \in BOOLEAN /\ back \in 0..MaxBack
    BY DEF HudInv, TypeOK
  <2>2. DeathStep
    BY <2>1, HudSteps
  <2> QED BY <2>1, <2>2, BoardStep
<1>3. HudInv /\ [Next]_vars => [Board!Next]_<<
        [i \in 1..Cardinality(Listed) |-> [of |-> notices[i - 1].of, text |-> notices[i - 1].flags]],
        deaths>>
  BY <1>2 DEF BoardNow, BoardOf
<1> QED BY <1>1, <1>3, HudInvAlways, PTL DEF Spec, BoardSpec, Board!Spec

\* Unless an unknown item passed over one, the oldest pickup is the next displaced
\* (ammohistory.cpp:51, 77, 102).
THEOREM OldestPickupIsNext == Spec => []OldestIsNext
<1>1. HudInv => OldestIsNext
  BY DEF HudInv, PickupInv
<1> QED BY <1>1, HudInvAlways, PTL

\* No panel is shown for longer than its message said, unless it came before the
\* level's first frame (hud_vote.cpp:31, hud_settings.cpp:40, hud_nextmap.cpp:27).
THEOREM PanelsStayInTime == Spec => []PanelsInTime
<1>1. HudInv => PanelsInTime
  BY DEF HudInv, PanelInv
<1> QED BY <1>1, HudInvAlways, PTL

\* After a frame with everything drawn, whatever the clock did and whatever the times
\* were before it, everything shown has time left and not more than its list allows.
LEMMA FullRedrawInTime ==
  ASSUME HudInv, NEW dt \in Int, FullRedraw(dt)
  PROVE  InTime'
<1> DEFINE D == IF active THEN Elements ELSE Elements \ {"chat"}
<1>1. PICK time \in SayTimes, gone \in SUBSET Leaving : Redraw(dt, D, time, gone)
  BY DEF FullRedraw
<1>2. active \in BOOLEAN /\ SayTextOK /\ DeathNoticeOK /\ PickupHistoryOK /\ FreeIsClean
  BY DEF HudInv, TypeOK, SayTextOK
<1>3. "chat" \in D <=> active
  <2>1. CASE active
    BY <2>1 DEF Elements
  <2>2. CASE ~active
    BY <2>2, Zenon DEF Elements
  <2> QED BY <2>1, <2>2
<1>4. "deaths" \in D /\ "pickups" \in D
  <2>1. "deaths" # "chat" /\ "pickups" # "chat"
    OBVIOUS
  <2>2. "deaths" \in Elements /\ "pickups" \in Elements
    BY DEF Elements
  <2> QED BY <2>1, <2>2
<1>5. /\ IF "chat" \in D THEN DrawSayText(dt, time) ELSE SkipSayText(dt)
      /\ IF "deaths" \in D THEN DrawDeathNotice(dt) ELSE SkipDeathNotice(dt)
      /\ IF "pickups" \in D THEN DrawAmmoHistory(dt) ELSE SkipPickupHistory(dt)
  BY <1>1 DEF Redraw
<1> HIDE DEF D
<1>6. DrawDeathNotice(dt) /\ DrawAmmoHistory(dt)
  BY <1>4, <1>5
<1>7. active' => \E t \in SayTimes : scroll' \in 1..t
  <2>1. CASE active
    <3>1. DrawSayText(dt, time)
      BY <1>3, <1>5, <2>1
    <3>2. time \in Int /\ 1 <= time
      BY SayTextAssumption DEF SayTextAssumption
    <3>3. scroll \in Int
      BY <1>2 DEF SayTextOK
    <3>4. Bounded(dt, time) \in Int /\ Bounded(dt, time) <= time
      <4>1. Later(scroll, dt) \in Int
        BY <3>3, LaterFacts
      <4> QED BY <3>2, <4>1 DEF Bounded, Least
    <3>5. scroll' \in 1..time \/ active' = FALSE
      BY <3>1, <3>2, <3>4 DEF DrawSayText
    <3> QED BY <3>5
  <2>2. CASE ~active
    BY <1>3, <1>5, <2>2 DEF SkipSayText
  <2> QED BY <2>1, <2>2
<1>8. \A i \in Places : notices'[i].id # 0 => notices'[i].left \in 0..noticeTime'
  <2> SUFFICES ASSUME NEW i \in Places, notices'[i].id # 0
               PROVE  notices'[i].left \in 0..noticeTime'
    OBVIOUS
  <2> DEFINE U == Unexpired(dt)
             k == KeptAt(i, dt)
             e == LaterNotice(notices[k], dt)
  <2>1. /\ U \in SUBSET Listed /\ Cardinality(U) \in Int
        /\ \A j \in Entries :
             /\ j < Cardinality(U) => KeptAt(j, dt) \in U /\ notices'[j] = Clamped(LaterNotice(notices[KeptAt(j, dt)], dt))
             /\ j >= Cardinality(U) => notices'[j] = Free
    BY <1>2, <1>6, DrawFacts
  <2>2. i \in Entries /\ i \in Int
    BY EntryBounds
  <2>3. Free.id = 0
    BY DEF Free
  <2>4. k \in U /\ notices'[i] = Clamped(e)
    BY <2>1, <2>2, <2>3
  <2>5. k \in Listed /\ e.left >= 0
    BY <2>1, <2>4 DEF Unexpired
  <2>6. notices \in [Entries -> Notice] /\ noticeTime \in Nat
    BY <1>2 DEF DeathNoticeOK
  <2>7. notices[k] \in Notice
    BY <2>5, <2>6, EntryBounds DEF Listed
  <2>8. e \in Notice /\ e.left \in Int
    <3>1. e \in Notice
      BY <2>6, <2>7, TimesOnly
    <3> HIDE DEF e
    <3> QED BY <3>1 DEF Notice
  <2> HIDE DEF e, k
  <2>9. \A t \in Int : [e EXCEPT !.left = t].left = t
    BY <2>8 DEF Notice
  <2>10. Least(e.left, noticeTime) \in 0..noticeTime
    BY <2>5, <2>6, <2>8 DEF Least
  <2>11. notices'[i].left \in 0..noticeTime
    BY <2>4, <2>6, <2>9, <2>10 DEF Clamped
  <2>12. noticeTime' = noticeTime
    BY <1>6 DEF DrawDeathNotice
  <2> QED BY <2>11, <2>12
<1>9. \A i \in Rows : history'[i].no # 0 => history'[i].left \in 1..historyTime'
  <2> SUFFICES ASSUME NEW i \in Rows, history'[i].no # 0
               PROVE  history'[i].left \in 1..historyTime'
    OBVIOUS
  <2>1. history[i] \in [no : 0..MaxPickups, left : Int] /\ historyTime \in Nat
    BY <1>2 DEF PickupHistoryOK
  <2>2. history'[i] = DrawnPickup(history[i], dt) /\ historyTime' = historyTime
    BY <1>6 DEF DrawAmmoHistory
  <2>3. /\ DrawnPickup(history[i], dt) \in [no : 0..MaxPickups, left : Int]
        /\ 1 <= DrawnPickup(history[i], dt).left /\ DrawnPickup(history[i], dt).left <= historyTime
    BY <2>1, <2>2, DrawnPickupFacts
  <2>4. DrawnPickup(history[i], dt).left \in Int
    BY <2>3
  <2> QED BY <2>1, <2>2, <2>3, <2>4
<1> QED BY <1>7, <1>8, <1>9 DEF InTime

\* A frame with everything drawn leaves notices, pickups and chat in their time, also
\* the first of an earlier clock (death.cpp:107, saytext.cpp:113, ammohistory.cpp:114).
THEOREM DrawnNoticesAreInTime == Spec => DrawnIsInTime
<1>1. ASSUME HudInv, PlayFrame PROVE InTime'
  <2>1. FullRedraw(1) /\ 1 \in Int
    BY <1>1 DEF PlayFrame
  <2> QED BY <1>1, <2>1, FullRedrawInTime
<1>2. ASSUME HudInv, PlayFrameOfEarlierClock PROVE InTime'
  <2>1. PICK jump \in 1..(MaxBack - back) : FullRedraw(-jump)
    BY <1>2 DEF PlayFrameOfEarlierClock
  <2>2. -jump \in Int
    OBVIOUS
  <2> QED BY <1>2, <2>1, <2>2, FullRedrawInTime
<1>3. HudInv /\ [Next]_vars => [InTime' \/ ~(PlayFrame \/ PlayFrameOfEarlierClock)]_vars
  BY <1>1, <1>2
<1> QED BY <1>3, HudInvAlways, PTL DEF Spec, DrawnIsInTime
=============================================================================
