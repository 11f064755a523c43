-------------------------- MODULE MultiplexProofs --------------------------
(* Multiplex with its Carousel, for any schedules, any periods and settling *)
(* times, any number of letters and of versions above one: its types, that  *)
(* the loop never sleeps past a rung that is due, that the box always       *)
(* hears a letter of the index under a version it has not parsed, and that  *)
(* the box's version of the line-up tells whether it has the file, unless a *)
(* whole round of versions has gone by unheard.                             *)
EXTENDS Multiplex, SequenceTheorems, WellFoundedInduction, TLAPS

(* The version under which a letter was last sent is the one before that of *)
(* the pass, for the letters still to come; the last letter of a pass       *)
(* already carries the version of the next.                                 *)
VersionBefore == (indexVersion - 1) % Versions

PassInv ==
    /\ indexHeard \in [0..(Letters - 1) -> {None} \union 0..(Versions - 1)]
    /\ \A l \in 0..(Letters - 1) :
          indexHeard[l] \in {None} \union
              (IF l < indexCursor \/ l = Letters - 1 THEN {indexVersion} ELSE {VersionBefore})

IInv == TypeOK /\ PassInv

-----------------------------------------------------------------------------
(* The carousel.                                                            *)

LEMMA WaveTypes ==
    ASSUME CarouselTypeOK, NEW says, Wave(says) PROVE CarouselTypeOK'
<1>1. /\ clockAge' \in {Unsent} \union 0..ClockSettle
      /\ lineupAge' \in {Unsent} \union 0..LineupSettle
      /\ titleAge' \in {Unsent} \union 0..TitleSettle
    BY CarouselAssumption DEF Wave, FirstSent, CarouselTypeOK
<1>2. wait' \in [Rungs -> Nat] /\ \A r \in Rungs : wait'[r] <= Period[r]
    <2>1. \A r \in Rungs : Period[r] \in Nat /\ wait[r] \in Nat /\ wait[r] <= Period[r]
        BY CarouselAssumption DEF CarouselTypeOK
    <2>2. \A r \in Rungs : wait'[r] \in {Period[r], wait[r]}
        BY DEF Wave
    <2>3. DOMAIN wait' = Rungs /\ wait' = [r \in Rungs |-> wait'[r]]
        BY DEF Wave
    <2> QED
        BY <2>1, <2>2, <2>3
<1> QED
    BY <1>1, <1>2 DEF CarouselTypeOK

LEMMA ElapseTypes == ASSUME CarouselTypeOK, Elapse PROVE CarouselTypeOK'
<1>1. /\ clockAge' \in {Unsent} \union 0..ClockSettle
      /\ lineupAge' \in {Unsent} \union 0..LineupSettle
      /\ titleAge' \in {Unsent} \union 0..TitleSettle
    BY CarouselAssumption DEF Elapse, Older, Unsent, CarouselTypeOK
<1>2. wait' \in [Rungs -> Nat] /\ \A r \in Rungs : wait'[r] <= Period[r]
    BY CarouselAssumption DEF Elapse, CarouselTypeOK
<1> QED
    BY <1>1, <1>2 DEF CarouselTypeOK

(* A rung that is due is one NextDue looks at, and it has no hold left.     *)
LEMMA DueIsConsidered ==
    ASSUME CarouselTypeOK, NEW r \in Wired \ {"events"}, DueNow(r)
    PROVE  r \in Considered /\ DueIn(r) = 0
<1> USE CarouselAssumption DEF DueNow, Open, HoldLeft, Unsent
<1>1. r \in {"clock", "lineup", "titles", "programmes", "index"}
    BY DEF Rungs
<1>2. CASE r = "clock"
    BY <1>2 DEF Considered, DueIn
<1>3. CASE r = "lineup"
    <2>1. clockAge = ClockSettle /\ wait[r] = 0 /\ HoldLeft(r) = ClockSettle - clockAge
        BY <1>3
    <2> QED
        BY <1>3, <2>1 DEF Considered, DueIn
<1>4. CASE r \in {"titles", "programmes"}
    <2>1. lineupAge = LineupSettle /\ wait[r] = 0 /\ HoldLeft(r) = LineupSettle - lineupAge
        BY <1>4
    <2> QED
        BY <1>4, <2>1 DEF Considered, DueIn
<1>5. CASE r = "index"
    <2>1. titleAge = TitleSettle /\ wait[r] = 0 /\ HoldLeft(r) = TitleSettle - titleAge
        BY <1>5
    <2> QED
        BY <1>5, <2>1 DEF Considered, DueIn
<1> QED
    BY <1>1, <1>2, <1>3, <1>4, <1>5

LEMMA DueInIsNatural ==
    ASSUME CarouselTypeOK, NEW r \in Considered PROVE DueIn(r) \in Nat
<1>1. r \in Rungs /\ wait[r] \in Nat /\ HoldLeft(r) \in Int
    BY CarouselAssumption
       DEF CarouselTypeOK, Considered, HoldLeft, Rungs, Unsent
<1> QED
    BY <1>1 DEF DueIn

LEMMA DueWakes == CarouselTypeOK => NeverSleepsPast
<1> SUFFICES ASSUME CarouselTypeOK, NEW r \in Wired \ {"events"}, DueNow(r)
             PROVE  NextDue <= 0
    BY DEF NeverSleepsPast
<1> DEFINE S == {DueIn(q) : q \in Considered}
<1>1. 0 \in S
    BY DueIsConsidered
<1>2. \A y \in S : 0 <= y
    BY DueInIsNatural
<1>3. Min(S) \in S /\ \A y \in S : Min(S) <= y
    BY <1>1, <1>2 DEF Min
<1> QED
    BY <1>1, <1>3 DEF NextDue

-----------------------------------------------------------------------------
(* The lists and the schedule.                                              *)

LEMMA UpTo ==
    ASSUME NEW n \in Nat, NEW T, 1 \in T, \A i \in 1..(n - 1) : i \in T => i + 1 \in T
    PROVE  \A i \in 1..n : i \in T
  <1> DEFINE missing == {i \in 1..n : i \notin T}
  <1> SUFFICES ASSUME missing # {} PROVE FALSE
    OBVIOUS
  <1>1. missing \in SUBSET Nat
    OBVIOUS
  <1>2. PICK x \in missing : \A y \in missing : ~ (<<y, x>> \in OpToRel(<, Nat))
    BY <1>1, NatLessThanWellFounded, WFMin
  <1>3. x \in 1..n /\ x \notin T /\ x # 1
    BY <1>2
  <1>4. x - 1 \in 1..(n - 1) /\ x - 1 \in 1..n /\ (x - 1) + 1 = x /\ x - 1 < x
    BY <1>3
  <1>5. x - 1 \in missing
    BY <1>3, <1>4
  <1>6. <<x - 1, x>> \in OpToRel(<, Nat)
    BY <1>1, <1>2, <1>4, <1>5 DEF OpToRel
  <1> QED
    BY <1>2, <1>5, <1>6

(* FlattenSeq is the last of the partial concatenations.                    *)
LEMMA FlattenUnfolds ==
    ASSUME NEW S, NEW s \in Seq(Seq(S)), s # <<>>
    PROVE  \E f \in [1..Len(s) -> Seq(S)] :
              /\ f[1] = s[1] /\ \A i \in 2..Len(s) : f[i] = f[i - 1] \o s[i]
              /\ FlattenSeq(s) = f[Len(s)]
  <1> DEFINE n == Len(s)
             Sums(f, k) == f[1] = s[1] /\ \A i \in 2..k : f[i] = f[i - 1] \o s[i]
             Equation(f) == f = [i \in 1..n |-> IF i = 1 THEN s[i] ELSE f[i - 1] \o s[i]]
             T == {k \in Nat : \E f \in [1..k -> Seq(S)] : Sums(f, k)}
  <1>1. n \in Nat \ {0} /\ \A i \in 1..n : s[i] \in Seq(S)
    OBVIOUS
  <1> HIDE DEF n
  <1>2. 1 \in T
    <2> DEFINE f == [i \in 1..1 |-> s[1]]
    <2>1. f \in [1..1 -> Seq(S)] /\ f[1] = s[1]
      BY <1>1
    <2> HIDE DEF f
    <2>2. Sums(f, 1) /\ 1 \in Nat
      BY <2>1
    <2> HIDE DEF Sums
    <2> QED
      BY <2>1, <2>2
  <1>3. ASSUME NEW k \in 1..(n - 1), k \in T PROVE k + 1 \in T
    <2>1. PICK f \in [1..k -> Seq(S)] : Sums(f, k)
      BY <1>3
    <2> DEFINE g == [i \in 1..(k + 1) |-> IF i <= k THEN f[i] ELSE f[k] \o s[k + 1]]
    <2>2. k \in Nat /\ k >= 1 /\ k + 1 \in 1..n /\ k \in 1..k
      BY <1>1
    <2>3. f[k] \o s[k + 1] \in Seq(S)
      BY <1>1, <2>1, <2>2
    <2>4. g \in [1..(k + 1) -> Seq(S)]
      BY <2>1, <2>2, <2>3
    <2>5. \A i \in 1..k : g[i] = f[i]
      BY <2>2
    <2>6. g[k + 1] = f[k] \o s[k + 1]
      BY <2>2
    <2> HIDE DEF g
    <2>7. ASSUME NEW i \in 2..(k + 1) PROVE g[i] = g[i - 1] \o s[i]
      <3>1. CASE i = k + 1
        <4>1. i - 1 = k
          BY <2>2, <3>1
        <4> QED
          BY <2>2, <2>5, <2>6, <3>1, <4>1
      <3>2. CASE i # k + 1
        <4>1. i \in 2..k /\ i \in 1..k /\ i - 1 \in 1..k
          BY <2>2, <3>2
        <4> QED
          BY <2>1, <2>5, <4>1
      <3> QED
        BY <3>1, <3>2
    <2>8. g[1] = s[1]
      BY <2>1, <2>2, <2>5
    <2>9. Sums(g, k + 1) /\ k + 1 \in Nat
      <3>1. k + 1 \in Nat
        BY <2>2
      <3>2. \A i \in 2..(k + 1) : g[i] = g[i - 1] \o s[i]
        BY <2>7
      <3> QED
        BY <2>8, <3>1, <3>2, Zenon
    <2> HIDE DEF Sums
    <2>10. \E h \in [1..(k + 1) -> Seq(S)] : Sums(h, k + 1)
      BY <2>4, <2>9
    <2> QED
      BY <2>9, <2>10
  <1>4. n \in T
    <2> HIDE DEF T
    <2>1. n \in Nat /\ n \in 1..n
      BY <1>1
    <2>2. \A i \in 1..n : i \in T
      BY <1>2, <1>3, <2>1, UpTo
    <2> QED
      BY <2>1, <2>2
  <1>5. PICK f \in [1..n -> Seq(S)] : Sums(f, n)
    BY <1>4
  <1>6. Equation(f)
    <2> DEFINE g == [i \in 1..n |-> IF i = 1 THEN s[i] ELSE f[i - 1] \o s[i]]
    <2>1. ASSUME NEW i \in 1..n PROVE g[i] = f[i]
      <3>1. i = 1 \/ i \in 2..n
        BY <1>1
      <3> QED
        BY <1>5, <3>1
    <2> HIDE DEF g
    <2>2. f = g
      BY <1>5, <2>1 DEF g
    <2> QED
      BY <2>2 DEF g
  <1> DEFINE c == CHOOSE h : Equation(h)
  <1>7. Equation(c)
    <2> HIDE DEF Equation
    <2> QED
      BY <1>6
  <1>8. FlattenSeq(s) = c[n]
    BY <1>1 DEF FlattenSeq, n
  <1> HIDE DEF c
  <1>9. c[1] = s[1] /\ \A i \in 2..n : c[i] = c[i - 1] \o s[i]
    <2>1. \A i \in 1..n : c[i] = IF i = 1 THEN s[i] ELSE c[i - 1] \o s[i]
      BY <1>7
    <2>2. 1 \in 1..n /\ \A i \in 2..n : i \in 1..n /\ i # 1
      BY <1>1
    <2> HIDE DEF Equation
    <2> QED
      BY <2>1, <2>2
  <1>10. \A i \in 1..n : c[i] \in Seq(S)
    <2> DEFINE U == {i \in Nat : c[i] \in Seq(S)}
    <2>1. 1 \in U
      BY <1>1, <1>9
    <2>2. ASSUME NEW i \in 1..(n - 1), i \in U PROVE i + 1 \in U
      <3>1. i + 1 \in 2..n /\ i + 1 \in 1..n /\ (i + 1) - 1 = i /\ i + 1 \in Nat
        BY <1>1
      <3>2. c[i + 1] = c[i] \o s[i + 1]
        BY <1>9, <3>1
      <3>3. c[i] \in Seq(S) /\ s[i + 1] \in Seq(S)
        BY <1>1, <2>2, <3>1
      <3>4. c[i + 1] \in Seq(S)
        BY <3>2, <3>3
      <3> QED
        BY <3>1, <3>4
    <2> HIDE DEF U
    <2>3. \A i \in 1..n : i \in U
      BY <1>1, <2>1, <2>2, UpTo
    <2> QED
      BY <2>3 DEF U
  <1>11. c \in [1..n -> Seq(S)]
    <2>1. c = [i \in 1..n |-> c[i]]
      <3>1. c = [i \in 1..n |-> IF i = 1 THEN s[i] ELSE c[i - 1] \o s[i]]
        BY <1>7
      <3> QED
        BY <3>1
    <2> QED
      BY <1>10, <2>1
  <1> QED
    BY <1>8, <1>9, <1>11 DEF n

LEMMA FlattenType ==
    ASSUME NEW S, NEW s \in Seq(Seq(S)) PROVE FlattenSeq(s) \in Seq(S)
<1>1. CASE s = <<>>
    <2>1. Len(s) = 0 /\ <<>> \in Seq(S)
        BY <1>1
    <2> QED
        BY <1>1, <2>1 DEF FlattenSeq
<1>2. CASE s # <<>>
    <2>1. Len(s) \in 1..Len(s)
        BY <1>2
    <2>2. PICK f \in [1..Len(s) -> Seq(S)] : FlattenSeq(s) = f[Len(s)]
        BY <1>2, FlattenUnfolds
    <2> QED
        BY <2>1, <2>2
<1> QED
    BY <1>1, <1>2

(* A sequence more.                                                          *)
LEMMA SelectedIsAList ==
    ASSUME NEW d, NEW g PROVE Selected(d, g) \in Seq(ToSet(Sections))
<1> DEFINE S == ToSet(Sections)
           M == Seq(S)
           wanted == {s \in Carries[g] : Units[d] = {} \/ s \in Units[d]}
           One(s) == IF s \in wanted THEN <<s>> ELSE <<>>
           t == [i \in DOMAIN Sections |-> IF Sections[i] \in wanted THEN <<Sections[i]>> ELSE <<>>]
           n == Len(Sections)
<1>1. Sections \in Seq(S)
    BY MultiplexAssumption
<1> HIDE DEF S
<1>2. n \in Nat /\ DOMAIN Sections = 1..n /\ \A i \in 1..n : Sections[i] \in S
    BY <1>1
<1>3. \A s \in S : One(s) \in M
    OBVIOUS
<1>4. \A i \in 1..n : t[i] = One(Sections[i])
    BY <1>2
<1>5. Selected(d, g) = FlattenSeq(t)
    BY DEF Selected
<1> HIDE DEF M, One, wanted
<1>6. t \in [1..n -> M]
    <2>1. t = [i \in 1..n |-> t[i]]
        BY <1>2
    <2> HIDE DEF t
    <2> QED
        BY <1>2, <1>3, <1>4, <2>1
<1> HIDE DEF t, n
<1>7. t \in Seq(M)
    BY <1>2, <1>6 DEF Seq
<1> QED
    BY <1>5, <1>7, FlattenType DEF M, S

LEMMA TitlesAreListed ==
    ASSUME TypeOK, NEW g \in Schedules
    PROVE  Len(Titles(g)) \in Nat /\ (Titles(g) # <<>> => Len(Titles(g)) # 0)
<1> DEFINE T == Days \X ToSet(Sections)
<1>1. ASSUME NEW d \in Days PROVE TitlesFor(d, g) \in Seq(T)
    <2>1. Selected(d, g) \in Seq(ToSet(Sections))
        BY SelectedIsAList
    <2> QED
        BY <2>1 DEF TitlesFor
<1>2. day \in Days /\ day + 1 \in Days
    BY MultiplexAssumption DEF TypeOK, Days
<1>3. Titles(g) \in Seq(T)
    BY <1>1, <1>2 DEF Titles
<1> QED
    BY <1>3

LEMMA ReloadTypes ==
    ASSUME TypeOK, NEW seen \in Schedules \union {Broken},
           NEW last \in Schedules \union {Broken}, Reload(seen, last)
    PROVE  /\ disk' \in Schedules \union {Broken} /\ stamp' \in Schedules \union {Broken}
           /\ guide' \in Schedules /\ version' \in 0..(Versions - 1) /\ raced' \in BOOLEAN
<1>1. CASE disk = stamp
    BY <1>1 DEF Reload, TypeOK, file
<1>2. CASE disk # stamp /\ seen = Broken
    BY <1>2 DEF Reload, TypeOK
<1>3. CASE disk # stamp /\ seen # Broken
    <2>1. disk' = last /\ guide' = seen /\ stamp' = last
          /\ version' = (version + 1) % Versions /\ raced' = (raced \/ seen # last)
        BY <1>3 DEF Reload
    <2>2. (version + 1) % Versions \in 0..(Versions - 1)
        BY MultiplexAssumption DEF TypeOK
    <2> QED
        BY <1>3, <2>1, <2>2
<1> QED
    BY <1>1, <1>2, <1>3

-----------------------------------------------------------------------------
(* The index.                                                               *)

LEMMA Successor ==
    ASSUME NEW n \in Nat \ {0}, NEW k \in 0..(n - 1)
    PROVE  (k + 1) % n = IF k = n - 1 THEN 0 ELSE k + 1
OBVIOUS

LEMMA Predecessor ==
    ASSUME NEW n \in Nat \ {0, 1}, NEW k \in 0..(n - 1)
    PROVE  (k - 1) % n = IF k = 0 THEN n - 1 ELSE k - 1
<1>1. CASE k = 0
    <2>1. (-1) % n = n - 1
        OBVIOUS
    <2> QED
        BY <1>1, <2>1
<1>2. CASE k # 0
    BY <1>2
<1> QED
    BY <1>1, <1>2

LEMMA IndexKept ==
    ASSUME IInv, UNCHANGED <<indexCursor, indexVersion, indexHeard>> PROVE PassInv'
BY DEF IInv, PassInv, VersionBefore

(* One letter, and the pass goes on or begins again.                        *)
LEMMA IndexSent ==
    ASSUME IInv, NEW sends, SendIndex(sends)
    PROVE  /\ PassInv'
           /\ indexCursor' \in 0..(Letters - 1) /\ indexVersion' \in 0..(Versions - 1)
           /\ index' # None => \A l \in DOMAIN indexHeard :
                                 index'[1] = l => indexHeard[l] # indexHeard'[l]
<1> USE MultiplexAssumption DEF IInv
<1>0. /\ indexCursor \in 0..(Letters - 1) /\ indexVersion \in 0..(Versions - 1)
      /\ indexHeard \in [0..(Letters - 1) -> {None} \union 0..(Versions - 1)]
    BY DEF TypeOK, PassInv
<1>1. CASE ~ sends
    <2>1. UNCHANGED <<indexCursor, indexVersion, indexHeard>> /\ index' = None
        BY <1>1 DEF SendIndex
    <2> QED
        BY <1>0, <2>1, IndexKept
<1>2. CASE sends
    <2>1. indexCursor' = IF indexCursor = Letters - 1 THEN 0 ELSE indexCursor + 1
        BY <1>0, <1>2, Successor DEF SendIndex
    <2>2. indexVersion' = IF indexCursor = Letters - 1
                          THEN (IF indexVersion = Versions - 1 THEN 0 ELSE indexVersion + 1)
                          ELSE indexVersion
        <3>1. indexVersion' = IF indexCursor' = 0 THEN (indexVersion + 1) % Versions
                              ELSE indexVersion
            BY <1>2 DEF SendIndex
        <3>2. (indexVersion + 1) % Versions
                  = IF indexVersion = Versions - 1 THEN 0 ELSE indexVersion + 1
            BY <1>0, Successor
        <3>3. indexCursor' = 0 <=> indexCursor = Letters - 1
            BY <1>0, <2>1
        <3> QED
            BY <3>1, <3>2, <3>3
    <2>3. /\ indexHeard' = [indexHeard EXCEPT ![indexCursor] = indexVersion']
          /\ index' = <<indexCursor, indexVersion'>>
        BY <1>2 DEF SendIndex
    <2>4. indexCursor' \in 0..(Letters - 1) /\ indexVersion' \in 0..(Versions - 1)
        BY <1>0, <2>1, <2>2
    <2>5. /\ VersionBefore = IF indexVersion = 0 THEN Versions - 1 ELSE indexVersion - 1
          /\ VersionBefore' = IF indexVersion' = 0 THEN Versions - 1 ELSE indexVersion' - 1
        BY <1>0, <2>4, Predecessor DEF VersionBefore
    <2>6. indexCursor = Letters - 1 => VersionBefore' = indexVersion
        BY <1>0, <2>2, <2>5
    <2>7. \A l \in 0..(Letters - 1) :
             indexHeard[l] \in {None} \union
                 (IF l < indexCursor \/ l = Letters - 1 THEN {indexVersion} ELSE {VersionBefore})
        BY DEF PassInv
    <2>8. indexHeard' \in [0..(Letters - 1) -> {None} \union 0..(Versions - 1)]
        BY <1>0, <2>3, <2>4
    <2>9. ASSUME NEW l \in 0..(Letters - 1)
          PROVE  indexHeard'[l] \in {None} \union
                    (IF l < indexCursor' \/ l = Letters - 1 THEN {indexVersion'}
                     ELSE {VersionBefore'})
        <3>1. CASE l = indexCursor /\ indexCursor = Letters - 1
            BY <1>0, <2>3, <3>1
        <3>2. CASE l = indexCursor /\ indexCursor # Letters - 1
            BY <1>0, <2>1, <2>3, <3>2
        <3>3. CASE l # indexCursor /\ indexCursor = Letters - 1
            BY <1>0, <2>1, <2>3, <2>6, <2>7, <3>3
        <3>4. CASE l # indexCursor /\ indexCursor # Letters - 1
            <4>1. indexHeard'[l] = indexHeard[l] /\ indexVersion' = indexVersion
                  /\ VersionBefore' = VersionBefore
                BY <1>0, <2>2, <2>3, <2>5, <3>4
            <4>2. l < indexCursor' <=> l < indexCursor
                BY <1>0, <2>1, <3>4
            <4> QED
                BY <4>1, <4>2, <2>7
        <3> QED
            BY <3>1, <3>2, <3>3, <3>4
    <2>10. PassInv'
        BY <2>8, <2>9 DEF PassInv
    <2>11. indexHeard[indexCursor] # indexHeard'[indexCursor]
        <3>1. indexHeard'[indexCursor] = indexVersion'
            BY <1>0, <2>3
        <3>2. None # indexVersion'
            BY <2>4
        <3>3. indexVersion' # IF indexCursor = Letters - 1 THEN indexVersion ELSE VersionBefore
            BY <1>0, <2>2, <2>5
        <3> QED
            BY <1>0, <2>7, <3>1, <3>2, <3>3
    <2> QED
        BY <1>0, <2>3, <2>4, <2>10, <2>11
<1> QED
    BY <1>1, <1>2

-----------------------------------------------------------------------------
LEMMA InitIInv == Init => IInv
<1> SUFFICES ASSUME Init PROVE IInv
    OBVIOUS
<1>1. CarouselTypeOK
    BY CarouselAssumption DEF Init, InitCarousel, CarouselTypeOK
<1>2. version \in 0..(Versions - 1) /\ 0 \in 0..(Letters - 1) /\ 0 \in 0..(Versions - 1)
      /\ 0 \in 0..LastDay /\ {0, 1} \subseteq Days
    BY MultiplexAssumption DEF Init, Days
<1>3. 0 \in 0..Versions /\ indexHeard \in [0..(Letters - 1) -> {None}]
    BY MultiplexAssumption DEF Init
<1>4. TypeOK
    BY <1>1, <1>2, <1>3, MultiplexAssumption DEF Init, TypeOK
<1>5. PassInv
    BY DEF Init, PassInv
<1> QED
    BY <1>4, <1>5 DEF IInv

LEMMA WaveIInv ==
    ASSUME IInv, NEW seen \in Schedules \union {Broken},
           NEW last \in Schedules \union {Broken}, PumpWave(seen, last)
    PROVE  IInv'
<1>1. CarouselTypeOK'
    BY WaveTypes DEF PumpWave, IInv, TypeOK
<1>2. /\ disk' \in Schedules \union {Broken} /\ stamp' \in Schedules \union {Broken}
      /\ guide' \in Schedules /\ version' \in 0..(Versions - 1) /\ raced' \in BOOLEAN
    BY ReloadTypes DEF PumpWave, IInv, TypeOK, file
<1>3. titleCursor' \in Nat
    <2>1. Len(Titles(guide')) \in Nat /\ (Titles(guide') # <<>> => Len(Titles(guide')) # 0)
        BY <1>2, TitlesAreListed DEF IInv
    <2>2. \/ titleCursor' = titleCursor
          \/ /\ titleCursor' = (titleCursor + 1) % Len(Titles(guide'))
             /\ "titles" \in Says(guide')
        BY DEF PumpWave, SendTitle
    <2>3. "titles" \in Says(guide') => Titles(guide') # <<>>
        BY DEF Says
    <2> QED
        BY <2>1, <2>2, <2>3 DEF IInv, TypeOK
<1>4. /\ PassInv'
      /\ indexCursor' \in 0..(Letters - 1) /\ indexVersion' \in 0..(Versions - 1)
    BY IndexSent DEF PumpWave
<1>5. heard' \in Schedules \union {None} /\ unheard' \in 0..Versions
    BY <1>2, MultiplexAssumption DEF PumpWave, HearLineup, IInv, TypeOK
<1> QED
    BY <1>1, <1>2, <1>3, <1>4, <1>5 DEF IInv, TypeOK, PumpWave, box

(* The guest's and the operator's steps.                                    *)
LEMMA PassesIInv == ASSUME IInv, Passes,
                           asking' \in BOOLEAN, armed' \in SUBSET Filters,
                           slots' \in SUBSET Days, day' \in 0..LastDay
                    PROVE  IInv'
<1>1. CarouselTypeOK'
    BY ElapseTypes DEF Passes, IInv, TypeOK
<1>2. PassInv'
    BY IndexKept DEF Passes, cursors, heardByBox
<1> QED
    BY <1>1, <1>2 DEF IInv, TypeOK, Passes, file, cursors, heardByBox

LEMMA NextIInv == IInv /\ [Next]_vars => IInv'
<1> SUFFICES ASSUME IInv, [Next]_vars PROVE IInv'
    OBVIOUS
<1>1. CASE PumpNothing
    <2>1. PassInv'
        BY <1>1, IndexKept DEF PumpNothing, cursors, heardByBox
    <2> QED
        BY <1>1, <2>1 DEF PumpNothing, IInv, TypeOK, CarouselTypeOK, carousel, ages, box, file,
                          cursors, heardByBox
<1>2. ASSUME NEW seen \in Schedules \union {Broken},
             NEW last \in Schedules \union {Broken}, PumpWave(seen, last)
      PROVE  IInv'
    BY <1>2, WaveIInv
<1>3. CASE Run
    BY <1>3, PassesIInv DEF Run, box, IInv, TypeOK
<1>4. ASSUME NEW f \in Filters, Arm(f) PROVE IInv'
    BY <1>4, PassesIInv DEF Arm, IInv, TypeOK
<1>5. ASSUME NEW d \in Days, ArmTitles(d) PROVE IInv'
    BY <1>5, PassesIInv DEF ArmTitles, IInv, TypeOK
<1>6. CASE Ask
    BY <1>6, PassesIInv DEF Ask, IInv, TypeOK
<1>7. CASE Midnight
    <2>1. day' \in 0..LastDay
        BY <1>7, MultiplexAssumption DEF Midnight, IInv, TypeOK
    <2> QED
        BY <1>7, <2>1, PassesIInv DEF Midnight, IInv, TypeOK
<1>8. ASSUME NEW content \in Schedules \union {Broken}, Edit(content) PROVE IInv'
    <2>1. PassInv'
        BY <1>8, IndexKept DEF Edit, cursors, heardByBox
    <2> QED
        BY <1>8, <2>1 DEF Edit, IInv, TypeOK, CarouselTypeOK, carousel, ages, box, cursors,
                          heardByBox
<1>9. CASE UNCHANGED vars
    <2>1. PassInv'
        BY <1>9, IndexKept DEF vars, cursors, heardByBox
    <2> QED
        BY <1>9, <2>1 DEF vars, IInv, TypeOK, CarouselTypeOK, carousel, ages, box, file,
                          cursors, heardByBox
<1> QED
    BY <1>1, <1>2, <1>3, <1>4, <1>5, <1>6, <1>7, <1>8, <1>9 DEF Next, Pump

(* The invariant of the carousel and of the transmitter on it.              *)
THEOREM Invariance == Spec => []IInv
<1> QED
    BY InitIInv, NextIInv, PTL DEF Spec

(* Every variable keeps its type, the cursors stay in their lists.          *)
THEOREM TypeCorrect == Spec => []TypeOK
<1>1. IInv => TypeOK
    BY DEF IInv
<1> QED
    BY <1>1, Invariance, PTL

(* The loop, which sleeps until NextDue, never sleeps past a rung that is   *)
(* due, with any periods and settling times and whatever is wired; the      *)
(* events rung, which NextDue leaves out, excepted.                         *)
THEOREM LoopWakes == Spec => []NeverSleepsPast
<1>1. IInv => NeverSleepsPast
    BY DueWakes DEF IInv, TypeOK
<1> QED
    BY <1>1, Invariance, PTL

(* Each letter of the index goes out under a version other than the one it  *)
(* last went out under, whatever the alphabet and the version field.        *)
THEOREM LettersAreFresh == Spec => IndexIsFresh
<1> DEFINE Fresh == \A l \in DOMAIN indexHeard :
                       index' \notin {index, None} /\ index'[1] = l
                           => indexHeard[l] # indexHeard'[l]
<1>1. ASSUME IInv, [Next]_vars PROVE Fresh \/ UNCHANGED vars
    <2>1. ASSUME NEW seen, NEW last, PumpWave(seen, last) PROVE Fresh
        BY <1>1, <2>1, IndexSent DEF PumpWave
    <2>2. CASE PumpNothing
        BY <2>2 DEF PumpNothing
    <2>3. CASE Passes
        BY <2>3 DEF Passes
    <2>4. ASSUME NEW content, Edit(content) PROVE Fresh
        BY <2>4 DEF Edit, onAir
    <2> QED
        BY <1>1, <2>1, <2>2, <2>3, <2>4
           DEF Next, Pump, Run, Arm, ArmTitles, Ask, Midnight
<1>2. IInv /\ [Next]_vars => [Fresh]_vars
    BY <1>1
<1> QED
    BY <1>2, Invariance, PTL DEF Spec, IndexIsFresh

-----------------------------------------------------------------------------
(* The line-up and its version.                                             *)

(* The version on air is the one the box parsed, moved on by the reloads    *)
(* that went unheard; if there were none, the box has what is loaded.       *)
VersionsInv ==
    /\ ~ raced => guide = stamp
    /\ heardVersion # None =>
          /\ heardVersion \in 0..(Versions - 1)
          /\ version = IF heardVersion + unheard < Versions THEN heardVersion + unheard
                       ELSE heardVersion + unheard - Versions
          /\ unheard = 0 => heard = guide

LEMMA InitVersions == Init => VersionsInv
BY DEF Init, VersionsInv

(* A step that touches neither the file nor what the box has heard.         *)
LEMMA VersionsRest ==
    ASSUME VersionsInv, UNCHANGED <<guide, stamp, version, raced, heard, heardVersion, unheard>>
    PROVE  VersionsInv'
BY DEF VersionsInv

(* The file is loaded, and the version moves on, or neither.                *)
LEMMA ReloadMovesOn ==
    ASSUME IInv, VersionsInv, NEW seen, NEW last, PumpWave(seen, last)
    PROVE  /\ ~ raced' => guide' = stamp'
           /\ \/ version' = version /\ guide' = guide
              \/ version' = IF version = Versions - 1 THEN 0 ELSE version + 1
<1>1. (version + 1) % Versions = IF version = Versions - 1 THEN 0 ELSE version + 1
    BY MultiplexAssumption, Successor DEF IInv, TypeOK
<1>2. \/ UNCHANGED <<guide, stamp, version, raced>>
      \/ /\ guide' = seen /\ stamp' = last /\ raced' = (raced \/ seen # last)
         /\ version' = (version + 1) % Versions
    BY DEF PumpWave, Reload, file
<1>3. CASE UNCHANGED <<guide, stamp, version, raced>>
    BY <1>3 DEF VersionsInv
<1>4. CASE /\ guide' = seen /\ stamp' = last /\ raced' = (raced \/ seen # last)
           /\ version' = (version + 1) % Versions
    BY <1>1, <1>4
<1> QED
    BY <1>2, <1>3, <1>4

LEMMA WaveVersions ==
    ASSUME IInv, VersionsInv, NEW seen \in Schedules \union {Broken},
           NEW last \in Schedules \union {Broken}, PumpWave(seen, last)
    PROVE  VersionsInv'
<1>1. /\ Versions \in Nat \ {0, 1} /\ version \in 0..(Versions - 1)
      /\ unheard \in 0..Versions /\ version' \in 0..(Versions - 1)
    BY MultiplexAssumption, WaveIInv DEF IInv, TypeOK
<1>2. /\ ~ raced' => guide' = stamp'
      /\ \/ version' = version /\ guide' = guide
         \/ version' = IF version = Versions - 1 THEN 0 ELSE version + 1
    BY ReloadMovesOn
<1>3. CASE heard' = guide' /\ heardVersion' = version' /\ unheard' = 0
    <2>1. \A v \in 0..(Versions - 1) :
             v = IF v + 0 < Versions THEN v + 0 ELSE v + 0 - Versions
        BY <1>1
    <2>2. /\ heardVersion' \in 0..(Versions - 1)
          /\ version' = IF heardVersion' + unheard' < Versions
                        THEN heardVersion' + unheard'
                        ELSE heardVersion' + unheard' - Versions
        BY <1>1, <1>3, <2>1, Zenon
    <2> QED
        BY <1>2, <1>3, <2>2, Zenon DEF VersionsInv
<1>4. CASE /\ UNCHANGED <<heard, heardVersion>>
           /\ unheard' = IF version' = version THEN unheard
                         ELSE IF unheard = Versions THEN 1 ELSE unheard + 1
    <2>1. CASE version' = version
        <3>1. version # IF version = Versions - 1 THEN 0 ELSE version + 1
            BY <1>1
        <3>2. guide' = guide /\ unheard' = unheard
            BY <1>2, <1>4, <2>1, <3>1
        <3> QED
            BY <1>2, <1>4, <2>1, <3>2 DEF VersionsInv
    <2>2. CASE version' # version
        <3>1. /\ version' = IF version = Versions - 1 THEN 0 ELSE version + 1
              /\ unheard' = IF unheard = Versions THEN 1 ELSE unheard + 1
            BY <1>2, <1>4, <2>2
        <3> QED
            BY <1>1, <1>2, <1>4, <3>1 DEF VersionsInv
    <2> QED
        BY <2>1, <2>2
<1> QED
    BY <1>3, <1>4 DEF PumpWave, HearLineup

LEMMA NextVersions ==
    ASSUME IInv, VersionsInv, [Next]_vars PROVE VersionsInv'
<1>1. CASE PumpNothing
    BY <1>1, VersionsRest DEF PumpNothing, file, heardByBox
<1>2. ASSUME NEW seen \in Schedules \union {Broken},
             NEW last \in Schedules \union {Broken}, PumpWave(seen, last)
      PROVE  VersionsInv'
    BY <1>2, WaveVersions
<1>3. ASSUME Passes PROVE VersionsInv'
    BY <1>3, VersionsRest DEF Passes, file, heardByBox
<1>4. ASSUME NEW content \in Schedules \union {Broken}, Edit(content) PROVE VersionsInv'
    BY <1>4, VersionsRest DEF Edit, heardByBox
<1>5. CASE UNCHANGED vars
    BY <1>5, VersionsRest DEF vars, file, heardByBox
<1> QED
    BY <1>1, <1>2, <1>3, <1>4, <1>5 DEF Next, Pump, Run, Arm, ArmTitles, Ask, Midnight

THEOREM VersionsInvariance == Spec => []VersionsInv
<1>1. IInv /\ VersionsInv /\ [Next]_vars => VersionsInv'
    BY NextVersions
<1> QED
    BY <1>1, InitVersions, Invariance, PTL DEF Spec

(* The box drops a line-up whose version it has parsed, so the version must *)
(* tell.  A box that has parsed the version on air has parsed the schedule  *)
(* loaded, unless it was deaf for exactly whole rounds of versions; and if  *)
(* no edit fell between loading and stamping, a stamp that matches the file *)
(* is that of what is loaded: such a box has the schedule last saved.       *)
ParsedIsTheFile ==
    ~ raced /\ disk = stamp /\ heardVersion = version => heard = disk \/ WholeRound

(* A reload that finds an edit is heard, by a box that listens, in the same *)
(* wave, unless it is the last of a whole round of reloads the box was deaf *)
(* to.                                                                      *)
EditIsHeard == version' # version /\ Listening => heard' = guide' \/ WholeRound'

(* A version is parsed with one line-up only, whole rounds excepted.        *)
VersionTells == heardVersion = version => heard = guide \/ WholeRound

LEMMA ParsedIsLoaded ==
    ASSUME IInv, VersionsInv PROVE VersionTells
<1> SUFFICES ASSUME heardVersion = version, ~ WholeRound PROVE heard = guide
    BY DEF VersionTells
<1>1. /\ Versions \in Nat /\ version \in 0..(Versions - 1) /\ unheard \in 0..Versions
      /\ heardVersion # None
    BY MultiplexAssumption DEF IInv, TypeOK
<1>2. unheard # Versions
    BY DEF WholeRound
<1>3. unheard = 0
    BY <1>1, <1>2 DEF VersionsInv
<1> QED
    BY <1>1, <1>3 DEF VersionsInv

THEOREM BoxHasTheFile == Spec => []ParsedIsTheFile
<1>1. IInv /\ VersionsInv => ParsedIsTheFile
    BY ParsedIsLoaded DEF ParsedIsTheFile, VersionsInv, VersionTells
<1> QED
    BY <1>1, Invariance, VersionsInvariance, PTL

THEOREM EditsAreHeard == Spec => [][EditIsHeard]_vars
<1>1. IInv /\ VersionsInv => VersionTells
    BY ParsedIsLoaded
<1>2. ASSUME VersionTells', Next PROVE EditIsHeard
    <2> SUFFICES ASSUME version' # version, Listening PROVE heard' = guide' \/ WholeRound'
        BY DEF EditIsHeard
    <2>1. PICK seen, last \in Schedules \union {Broken} : PumpWave(seen, last)
        BY <1>2 DEF Next, Pump, PumpNothing, Run, Arm, ArmTitles, Ask, Midnight, Edit, Passes, file
    <2>2. wait["lineup"] = 0 /\ FirstSent(clockAge, wait["clock"] = 0) = ClockSettle
        BY <2>1 DEF PumpWave, file
    <2>3. Goes("lineup") /\ "lineup" \in Says(guide')
        <3>1. clockAge' = FirstSent(clockAge, wait["clock"] = 0)
            BY <2>1 DEF PumpWave, Wave, Says, FirstSent
        <3> QED
            BY <2>2, <3>1, CarouselAssumption DEF Goes, Open, Says, Listening
    <2>4. heard' = guide' \/ heardVersion' = version'
        BY <2>1, <2>3 DEF PumpWave, HearLineup
    <2>5. heardVersion' = version' => heard' = guide' \/ WholeRound'
        BY <1>2 DEF VersionTells
    <2> QED
        BY <2>4, <2>5
<1> QED
    BY <1>1, <1>2, Invariance, VersionsInvariance, PTL DEF Spec
=============================================================================
