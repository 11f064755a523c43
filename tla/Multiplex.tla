----------------------------- MODULE Multiplex -----------------------------
(***************************************************************************)
(* The transmitter of one box (internal/multiplex): what each rung of the  *)
(* carousel sends, read off the filters the box has armed, and the         *)
(* schedule file it is built from, which an operator edits meanwhile.      *)
(*                                                                         *)
(* The guest (external: the firmware) arms and disarms filters, and keeps  *)
(* what it hears: it ignores a table whose version it has parsed.          *)
(***************************************************************************)
EXTENDS Carousel, Sequences, SequencesExt

CONSTANTS
    Schedules,   \* well-formed contents of the schedule file
    Broken,      \* any content that does not load
    Sections,    \* every title section of a day, in broadcast order
    Carries,     \* [Schedules -> sections whose block has programmes]
    Units,       \* [days -> sections a programmed filter admits; {} is no filter]
    Letters,     \* letters of the A-Z index
    Versions,    \* version numbers (32)
    None,        \* nothing sent, nothing heard
    MaxChanges, MaxEdits, LastDay  \* bounds: what one history may do

Filters == {"si", "eit", "index"}
Days == 0..(LastDay + 1)

VARIABLES
    asking, armed, slots,     \* the box: Read succeeds; the PIDs it has armed,
                              \* slots being the title PIDs, by day
    day,                      \* the in-world day
    disk, guide, stamp,       \* the schedule file; what is loaded, and its stamp
    version, titleCursor, indexCursor, indexVersion,
    due,                      \* the loop is at a safe point and has not pumped
    title, index,             \* what the last pump put on air, or None
    heard, heardVersion,      \* the box: the line-up it parsed, and its version
    unheard,                  \* history: the reloads the box has not parsed, all
                              \* whole rounds of versions but one left out
    indexHeard,               \* history: the version of each letter last sent
    raced,                    \* history: an edit fell between loading and stamping
    changesLeft, editsLeft

box == <<asking, armed, slots, day>>
file == <<disk, guide, stamp, version, raced, editsLeft>>
cursors == <<titleCursor, indexCursor, indexVersion>>
onAir == <<title, index>>
heardByBox == <<heard, heardVersion, unheard, indexHeard>>
vars == <<carousel, box, file, cursors, due, onAir, heardByBox, changesLeft>>

ASSUME MultiplexAssumption ==
    /\ Broken \notin Schedules
    /\ LastDay \in Nat /\ MaxChanges \in Nat /\ MaxEdits \in Nat
    /\ Versions \in Nat \ {0, 1} /\ Letters \in Nat \ {0}
    /\ None \notin Nat
    /\ Sections \in Seq(ToSet(Sections))

-----------------------------------------------------------------------------
(* The schedule file.                                                       *)

(* Reload: the file is stamped, and if that is not the stamp of what is     *)
(* loaded it is read (as `seen`) and stamped again (as `last`).  The        *)
(* operator may save between any two of these.                              *)
Saves(seen, last) ==
    (IF seen # disk THEN 1 ELSE 0) + (IF last # seen THEN 1 ELSE 0)

(* Mutant: the edited line-up goes out under the old version.               *)
ReloadMutantSameVersion(seen, last) ==
    IF disk = stamp
    THEN seen = disk /\ last = disk /\ UNCHANGED file
    ELSE /\ Saves(seen, last) <= editsLeft
         /\ editsLeft' = editsLeft - Saves(seen, last)
         /\ disk' = last
         /\ IF seen = Broken THEN UNCHANGED <<guide, stamp, version, raced>>
            ELSE /\ guide' = seen
                 /\ stamp' = last
                 /\ version' = version
                 /\ raced' = (raced \/ seen # last)

Reload(seen, last) ==
    IF disk = stamp
    THEN seen = disk /\ last = disk /\ UNCHANGED file
    ELSE /\ Saves(seen, last) <= editsLeft
         /\ editsLeft' = editsLeft - Saves(seen, last)
         /\ disk' = last
         /\ IF seen = Broken THEN UNCHANGED <<guide, stamp, version, raced>>
            ELSE /\ guide' = seen
                 /\ stamp' = last
                 /\ version' = (version + 1) % Versions
                 /\ raced' = (raced \/ seen # last)

Edit(content) ==
    /\ editsLeft > 0 /\ content # disk
    /\ disk' = content
    /\ editsLeft' = editsLeft - 1
    /\ UNCHANGED <<carousel, box, guide, stamp, version, raced, cursors, due, onAir,
                   heardByBox, changesLeft>>

-----------------------------------------------------------------------------
(* What each rung has to say, with the schedule g.                          *)

(* titlesFor: a day's sections, if the box has armed the day's PID: those   *)
(* its filter for the day admits, or every one when it programmed none.     *)
Selected(d, g) ==
    LET wanted == {s \in Carries[g] : Units[d] = {} \/ s \in Units[d]}
    IN  FlattenSeq([i \in DOMAIN Sections |->
            IF Sections[i] \in wanted THEN <<Sections[i]>> ELSE <<>>])

TitlesFor(d, g) ==
    IF d \in slots THEN [i \in DOMAIN Selected(d, g) |-> <<d, Selected(d, g)[i]>>] ELSE <<>>

(* titleWave: today's sections, then tomorrow's.                            *)
Titles(g) == IF asking THEN TitlesFor(day, g) \o TitlesFor(day + 1, g) ELSE <<>>

Says(g) ==
    {"clock"}
        \union (IF asking /\ "si" \in armed THEN {"lineup"} ELSE {})
        \union (IF Titles(g) # <<>> THEN {"titles"} ELSE {})
        \union (IF asking /\ "eit" \in armed THEN {"events"} ELSE {})
        \union (IF asking /\ "index" \in armed THEN {"index"} ELSE {})

(* One title section per wave, by a cursor over those there are now.        *)
(* Mutant: the wave always starts from its first section.                   *)
SendTitleMutantNoCursor(sends, g) ==
    IF sends
    THEN title' = Titles(g)[1] /\ UNCHANGED titleCursor
    ELSE title' = None /\ UNCHANGED titleCursor

SendTitle(sends, g) ==
    IF sends
    THEN /\ title' = Titles(g)[(titleCursor % Len(Titles(g))) + 1]
         /\ titleCursor' = (titleCursor + 1) % Len(Titles(g))
    ELSE title' = None /\ UNCHANGED titleCursor

(* indexWave: the next letter; the version moves on once per alphabet.      *)
(* Mutant: the version does not move on.                                    *)
SendIndexMutantSameVersion(sends) ==
    IF sends
    THEN /\ indexCursor' = (indexCursor + 1) % Letters
         /\ indexVersion' = indexVersion
         /\ index' = <<indexCursor, indexVersion>>
         /\ indexHeard' = [indexHeard EXCEPT ![indexCursor] = indexVersion]
    ELSE index' = None /\ UNCHANGED <<indexCursor, indexVersion, indexHeard>>

SendIndex(sends) ==
    IF sends
    THEN /\ indexCursor' = (indexCursor + 1) % Letters
         /\ indexVersion' = IF indexCursor' = 0 THEN (indexVersion + 1) % Versions
                            ELSE indexVersion
         /\ index' = <<indexCursor, indexVersion'>>
         /\ indexHeard' = [indexHeard EXCEPT ![indexCursor] = indexVersion']
    ELSE index' = None /\ UNCHANGED <<indexCursor, indexVersion, indexHeard>>

(* External: a box that has armed the PID hears what goes out on it.        *)
HearLineup(sends) ==
    IF sends /\ version' # heardVersion
    THEN heard' = guide' /\ heardVersion' = version' /\ unheard' = 0
    ELSE /\ UNCHANGED <<heard, heardVersion>>
         /\ unheard' = IF version' = version THEN unheard
                       ELSE IF unheard = Versions THEN 1 ELSE unheard + 1

-----------------------------------------------------------------------------
(* Pump: nothing before NextDue, otherwise one wave.  The line-up rung      *)
(* reloads the schedule when asked, and the rungs after it use what it left. *)
PumpNothing ==
    /\ due /\ due' = FALSE
    /\ NextDue > 0
    /\ title' = None /\ index' = None
    /\ UNCHANGED <<carousel, box, file, cursors, heardByBox, changesLeft>>

PumpWave(seen, last) ==
    /\ due /\ due' = FALSE
    /\ NextDue <= 0
    /\ LET lineupAsked == wait["lineup"] = 0 /\ FirstSent(clockAge, wait["clock"] = 0) = ClockSettle
       IN  IF lineupAsked THEN Reload(seen, last)
           ELSE seen = disk /\ last = disk /\ UNCHANGED file
    /\ Wave(Says(guide'))
    /\ SendTitle(Goes("titles") /\ "titles" \in Says(guide'), guide')
    /\ SendIndex(Goes("index") /\ "index" \in Says(guide'))
    /\ HearLineup(Goes("lineup") /\ "lineup" \in Says(guide'))
    /\ UNCHANGED <<box, changesLeft>>

Pump == PumpNothing \/ \E seen, last \in Schedules \union {Broken} : PumpWave(seen, last)

-----------------------------------------------------------------------------
(* The guest runs to the next safe point.                                   *)
Passes ==
    /\ ~ due /\ due' = TRUE
    /\ Elapse
    /\ title' = None /\ index' = None
    /\ UNCHANGED <<file, cursors, heardByBox>>

Run == Passes /\ UNCHANGED <<box, changesLeft>>

Arm(f) ==
    /\ Passes
    /\ changesLeft > 0 /\ changesLeft' = changesLeft - 1
    /\ armed' = IF f \in armed THEN armed \ {f} ELSE armed \union {f}
    /\ UNCHANGED <<asking, slots, day>>

ArmTitles(d) ==
    /\ Passes
    /\ changesLeft > 0 /\ changesLeft' = changesLeft - 1
    /\ slots' = IF d \in slots THEN slots \ {d} ELSE slots \union {d}
    /\ UNCHANGED <<asking, armed, day>>

Ask ==
    /\ Passes
    /\ changesLeft > 0 /\ changesLeft' = changesLeft - 1
    /\ asking' = ~ asking
    /\ UNCHANGED <<armed, slots, day>>

(* The in-world clock crosses midnight.                                     *)
Midnight ==
    /\ Passes
    /\ day < LastDay /\ day' = day + 1
    /\ UNCHANGED <<asking, armed, slots, changesLeft>>

-----------------------------------------------------------------------------
(* A transmitter is made for a new box, cold or restored with its filters.  *)
Init ==
    /\ InitCarousel
    /\ \/ asking = FALSE /\ armed = {} /\ slots = {}
       \/ asking = TRUE /\ armed = Filters \ {"eit"} /\ slots = {0, 1}
    /\ day = 0
    /\ disk \in Schedules /\ guide = disk /\ stamp = disk
    /\ version = 1 % Versions
    /\ titleCursor = 0 /\ indexCursor = 0 /\ indexVersion = 0
    /\ due = TRUE
    /\ title = None /\ index = None
    /\ heard = None /\ heardVersion = None /\ unheard = 0
    /\ indexHeard = [l \in 0..(Letters - 1) |-> None]
    /\ raced = FALSE
    /\ changesLeft = MaxChanges /\ editsLeft = MaxEdits

Next ==
    \/ Pump
    \/ Run
    \/ \E f \in Filters : Arm(f)
    \/ \E d \in Days : ArmTitles(d)
    \/ Ask
    \/ Midnight
    \/ \E content \in Schedules \union {Broken} : Edit(content)

Spec == Init /\ [][Next]_vars

(* The instruction loop runs and pumps at every safe point.                 *)
FairSpec == Spec /\ WF_vars(Pump) /\ WF_vars(Run)

-----------------------------------------------------------------------------
(* Every variable has its type; the cursors stay in their lists.            *)
TypeOK ==
    /\ CarouselTypeOK
    /\ asking \in BOOLEAN /\ armed \in SUBSET Filters /\ slots \in SUBSET Days
    /\ day \in 0..LastDay
    /\ disk \in Schedules \union {Broken} /\ stamp \in Schedules \union {Broken}
    /\ guide \in Schedules
    /\ version \in 0..(Versions - 1) /\ indexVersion \in 0..(Versions - 1)
    /\ titleCursor \in Nat /\ indexCursor \in 0..(Letters - 1)
    /\ due \in BOOLEAN /\ raced \in BOOLEAN /\ unheard \in 0..Versions
    /\ heard \in Schedules \union {None}

(* The box drops a section whose letter and version it has parsed, so each  *)
(* pass of the alphabet must be a fresh delivery.                           *)
IndexIsFresh ==
    [][\A l \in DOMAIN indexHeard :
          index' \notin {index, None} /\ index'[1] = l => indexHeard[l] # indexHeard'[l]]_vars

(* One section goes out per wave, and all of them come round: every section *)
(* the box goes on wanting is sent again and again.                         *)
TitlesComeRound ==
    \A d \in Days, s \in ToSet(Sections) :
        <>[](<<d, s>> \in ToSet(Titles(guide)) /\ lineupAge # Unsent) => []<>(title = <<d, s>>)

(* The schedule last saved is the one a listening box ends with.  Two       *)
(* things alone can stop it: it was saved while the loop was reading the    *)
(* file (listings.go:214), or the box was deaf for exactly a whole round of *)
(* reloads, and takes the line-up for the one it parsed (multiplex.go:244). *)
Listening == asking /\ "si" \in armed
WholeRound == unheard = Versions

EditReachesBox ==
    \A c \in Schedules :
        <>[](disk = c /\ Listening) => []<>raced \/ <>[](heard = c \/ WholeRound)

=============================================================================
