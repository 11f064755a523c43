------------------------------ MODULE Carousel ------------------------------
(***************************************************************************)
(* The transmitter's schedule (internal/broadcast/carousel.go): six rungs, *)
(* each repeated on a period of its own, each held back until the rung     *)
(* below it has sent something and has had time to settle in the box.      *)
(*                                                                         *)
(* Instants are kept relative to now: wait[r] is what is left until nextR, *)
(* an age is the time since a rung first sent sections, up to its settle   *)
(* time.  The code compares instants with now and in no other way.         *)
(***************************************************************************)
EXTENDS Integers, FiniteSetsExt

Rungs == {"clock", "lineup", "titles", "events", "programmes", "index"}

CONSTANTS
    Period,   \* [Rungs -> Nat \ {0}]
    ClockSettle, LineupSettle, TitleSettle,
    Wired     \* the rungs with a source: clock, lineup, titles and any others

ASSUME CarouselAssumption ==
    /\ Period \in [Rungs -> Nat \ {0}]
    /\ ClockSettle \in Nat /\ LineupSettle \in Nat /\ TitleSettle \in Nat
    /\ {"clock", "lineup", "titles"} \subseteq Wired /\ Wired \subseteq Rungs

VARIABLES
    wait,      \* nextClock, nextLineup, ... less now, 0 once past
    clockAge, lineupAge, titleAge  \* now less clockedAt, lineupAt, titledAt

ages == <<clockAge, lineupAge, titleAge>>
carousel == <<wait, ages>>

Unsent == -1  \* sentClock, sentLineup or sentTitles is still false

(* The rung below r has gone out and has settled, for the ages given.       *)
Open(r, clock, lineup, title) ==
    CASE r = "clock" -> TRUE
      [] r = "lineup" -> clock = ClockSettle
      [] r \in {"titles", "events", "programmes"} -> lineup = LineupSettle
      [] r = "index" -> title = TitleSettle

DueNow(r) == wait[r] = 0 /\ Open(r, clockAge, lineupAge, titleAge)

-----------------------------------------------------------------------------
(* The rungs NextDue looks at.                                              *)
(* Mutant: the index is forgotten as the events are.                        *)
ConsideredMutantNoIndex ==
    {"clock"}
        \union (IF clockAge # Unsent THEN {"lineup"} ELSE {})
        \union (IF lineupAge # Unsent THEN {"titles"} \union ({"programmes"} \intersect Wired)
                ELSE {})

Considered ==
    {"clock"}
        \union (IF clockAge # Unsent THEN {"lineup"} ELSE {})
        \union (IF lineupAge # Unsent THEN {"titles"} \union ({"programmes"} \intersect Wired)
                ELSE {})
        \union (IF titleAge # Unsent THEN {"index"} \intersect Wired ELSE {})

(* What is left of the hold on a rung whose rung below has gone out.        *)
HoldLeft(r) ==
    CASE r = "clock" -> 0
      [] r = "lineup" -> ClockSettle - clockAge
      [] r \in {"titles", "events", "programmes"} -> LineupSettle - lineupAge
      [] r = "index" -> TitleSettle - titleAge

DueIn(r) == IF HoldLeft(r) > wait[r] THEN HoldLeft(r) ELSE wait[r]

(* NextDue, less now.                                                       *)
NextDue == Min({DueIn(r) : r \in Considered})

-----------------------------------------------------------------------------
InitCarousel ==
    /\ wait = [r \in Rungs |-> 0]
    /\ clockAge = Unsent /\ lineupAge = Unsent /\ titleAge = Unsent

FirstSent(age, sends) == IF age = Unsent /\ sends THEN 0 ELSE age

(* In this wave rung r is asked for its sections: a rung below it that has  *)
(* gone out in this very wave counts.                                       *)
Goes(r) == r \in Wired /\ wait[r] = 0 /\ Open(r, clockAge', lineupAge', titleAge')

(* Wave, with `says` the rungs whose source has sections when asked.  A     *)
(* rung is due again a period later whether or not it had any.              *)
Wave(says) ==
    /\ clockAge' = FirstSent(clockAge, wait["clock"] = 0 /\ "clock" \in says)
    /\ lineupAge' = FirstSent(lineupAge, wait["lineup"] = 0 /\ clockAge' = ClockSettle
                                             /\ "lineup" \in says)
    /\ titleAge' = FirstSent(titleAge, wait["titles"] = 0 /\ lineupAge' = LineupSettle
                                           /\ "titles" \in says)
    /\ wait' = [r \in Rungs |-> IF Goes(r) THEN Period[r] ELSE wait[r]]

(* One unit of guest time.                                                  *)
Older(age, settle) == IF age = Unsent \/ age = settle THEN age ELSE age + 1

Elapse ==
    /\ wait' = [r \in Rungs |-> IF wait[r] > 0 THEN wait[r] - 1 ELSE 0]
    /\ clockAge' = Older(clockAge, ClockSettle)
    /\ lineupAge' = Older(lineupAge, LineupSettle)
    /\ titleAge' = Older(titleAge, TitleSettle)

-----------------------------------------------------------------------------
CarouselTypeOK ==
    /\ wait \in [Rungs -> Nat] /\ \A r \in Rungs : wait[r] <= Period[r]
    /\ clockAge \in {Unsent} \union 0..ClockSettle
    /\ lineupAge \in {Unsent} \union 0..LineupSettle
    /\ titleAge \in {Unsent} \union 0..TitleSettle

(* "Sleeping past a due wave is not [correct]": when a rung is due, NextDue *)
(* says so.  The event rung is left out: NextDue never looks at it.         *)
NeverSleepsPast ==
    \A r \in Wired \ {"events"} : DueNow(r) => NextDue <= 0
=============================================================================
