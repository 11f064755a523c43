---------------------------- MODULE ProbesFeeding ----------------------------
(* The probes that push sections by hand: the press that stops drawing after *)
(* a NIT and a BAT, the listings, and which bytes of a section are read      *)
EXTENDS ProbeOps

WhoWritesFavchn   == SettledSilent \o Need \o Healthy \o FeedNitBat \o EeTxClear \o Counted \o Need
                     \o Read("ee") \o Need \o Need
IsItRefusingOrBusy ==
    LET watched == Trace \o TraceClear \o Key \o Loop(Wait \o Read("trace")) \o Untrace
    IN  SettledOrThrow \o Profile \o NeedSilent \o watched \o Need \o FeedNitBat \o watched
(* polls for the allocator with the box left standing at the breakpoint until it is removed *)
DoesItRecover     == SettledSilent \o Killed \o BreakAt \o Loop(Wait) \o Unbreak
                     \o Loop(Counted) \o Maybe(Counted)
WhichDeviceTheDeadPressTalksTo ==
    LET press == Trace \o TraceClear \o InputHits \o Key \o Wait
                 \o Read("trace") \o Untrace \o InputHits
    IN  SettledOrThrow \o Profile \o NeedSilent \o press \o Need \o FeedNitBat \o press \o press \o Need
WhatTheEepromLoopWrites ==
    SettledOrThrow \o Profile \o NeedSilent \o Counted \o Need \o FeedNitBat
    \o Trace \o TraceClear \o Need \o EeTxClear \o Key \o Wait \o Read("trace") \o Untrace \o Need
    \o Read("ee") \o Need
WhereDrawingStops == SettledOrThrow \o Profile \o CountedHits \o CountedHits \o Need
WhichTableStopsTheDrawing ==
    LET stage == Maybe(Push \o Push \o Wait) \o CountedHits \o CountedHits
    IN  SettledOrThrow \o Profile \o NeedSilent \o stage \o Need \o While(stage)
OcodeTheDeadLoop  == SettledOrThrow \o NeedSilent \o Profile \o CountedOcode \o Need \o Need
                     \o Push \o Push \o Wait \o Need \o Push \o Push \o Wait \o CountedOcode
OcodeHealthyVsDead ==
    SettledOrThrow \o NeedSilent \o Profile \o Loop(CountedOcode) \o Need \o Need
    \o Push \o Push \o Wait \o Need \o CountedOcode \o Need
    \o EeTxClear \o Push \o Push \o Wait \o CountedOcode \o CountedOcode \o Read("ee")
    \o Maybe(EeTxClear \o Loop(Wait \o EeTxClear) \o CountedOcode)
FeedItTheListingsItAskedFor ==
    SettledSilent \o Healthy \o FeedNitBat \o Need \o Need \o Counted \o Need
    \o Loop(Loop(Push) \o Wait) \o Need \o Wait \o Counted \o Counted
HowManySlots      ==
    LET sample(rest) == Key \o Loop(Wait) \o IfRunning(Jump(2 + Len(rest))) \o Resume \o Wait \o rest
    IN  SettledSilent \o Killed \o BreakAt \o sample(sample(<<>>)) \o Unbreak
WhichTaskIsStuck  == SettledSilent \o Killed \o Loop(Wait) \o ReturnIf \o Counted \o Wait
EepromMirrorIsTheCost ==
    SettledOrThrow \o NeedSilent \o Need \o Profile \o CountedHits \o Need
    \o Push \o Push \o Wait \o Need \o Push \o Push \o Wait \o CountedHits \o While(Wait) \o CountedHits
FeedARealTitleSection ==
    Settled \o Profile \o NeedOnAir \o While(Wait) \o Need \o Counted \o Counted
    \o Push \o Need \o Wait
    \o Maybe(Watch("read") \o Push \o Wait \o Read("read") \o Unwatch("read"))
    \o Loop(Push \o Wait) \o Wait \o Counted \o Counted
HandFedAndStillDrawing ==
    SettledOrThrow \o Profile \o NeedSilent \o CountedHits \o Need
    \o Loop(Push \o Push \o Push \o Push \o Wait) \o Wait \o ReturnIf
    \o CountedHits \o CountedHits \o CountedHits
DoesTheBatCloseTheGate ==
    SettledOrThrow \o Profile \o NeedSilent \o CountedHits \o CountedHits \o Need
    \o Watch("write") \o Need \o Push \o Push \o Wait \o CountedHits
    \o Maybe(Unwatch("write") \o Return)
    \o Push \o Push \o Wait \o Read("write") \o Unwatch("write") \o CountedHits \o CountedHits
    \o ReturnIf \o Poke \o Wait \o CountedHits \o CountedHits
WhereThe128SecondsGo ==
    LET snap == Read("hits")
    IN  SettledOrThrow \o NeedSilent \o Profile \o snap \o Wait \o snap \o CountedHits \o Need
        \o Push \o Push \o Wait \o Need \o Push \o Push \o Wait
        \o snap \o Loop(Wait \o snap) \o CountedHits
FeedALineup       == SettledOrThrow \o Profile \o OpenLadder \o Need \o Need
                     \o Loop(Push \o Push \o Push \o Wait) \o Wait
WhatTheDeadPressDoesInstead ==
    LET press == Trace \o TraceClear \o InputHits \o Read("hits") \o Key \o Wait
                 \o Read("hits") \o Read("trace") \o Untrace \o InputHits
    IN  SettledOrThrow \o Profile \o NeedSilent \o press \o Need \o FeedNitBat \o press \o press \o Need
PrivateSpecifierUnlocks ==
    SettledOrThrow \o Profile \o OpenLadder \o Need \o Need \o MarkedPass \o MarkedPass \o MarkedPass
WhichTagTheBatWalkWants ==
    SettledOrThrow \o Profile \o OpenLadder \o Need \o Need \o MarkedPass \o MarkedPass
B1EntryLayout     ==
    SettledOrThrow \o Profile \o OpenLadder \o Need \o Need
    \o MarkedPass \o MarkedPass \o MarkedPass \o MarkedPass

(* three rounds of the line-up, a refused BAT ends the run *)
LineupRounds      == Loop(Push \o Push \o Push \o Need \o Wait)
RealTitleSectionVsJunk ==
    SettledOrThrow \o Profile \o OpenLadder \o LineupRounds \o While(Wait) \o Need \o Need
    \o MarkedPass \o MarkedPass \o MarkedPass
WhatIsOn0xa1      == SettledOrThrow \o Profile \o OpenLadder \o LineupRounds \o Need \o Need
                     \o Loop(MarkedPass) \o Maybe(MarkedPass \o MarkedPass)
HowFarDoTheTitlesGet ==
    LET census == Read("hits") \o Need
        window(body) == census \o Watch("read") \o Need \o body
                        \o Read("read") \o Unwatch("read") \o census
    IN  Ready \o Need \o Need \o NeedSilent \o Profile \o census
        \o OpenLadder \o Need \o LineupRounds \o Need \o Need \o While(Wait) \o census
        \o window(Wait) \o window(Loop(Push \o Wait) \o While(Wait))
WhereTheGuideSaysNo ==
    Ready \o Need \o Need \o NeedSilent \o Profile
    \o OpenLadder \o Need \o LineupRounds \o Need \o Need \o While(Wait)
    \o InputHits \o Loop(Push \o Wait) \o Wait \o Read("hits")
    \o Counted \o Need
    \o Trace \o TraceClear \o Watch("read") \o Need \o Key \o Wait
    \o Read("read") \o Unwatch("read") \o Read("trace") \o Untrace \o Need \o Need
WhichDescriptors  ==
    LET table == Maybe(Watch("read") \o Push \o Maybe(Wait \o Read("read")) \o Unwatch("read"))
    IN  SettledOrThrow \o Profile \o Need \o table \o Loop(Wait) \o table
(* the reading after a refused push is thrown away, and left out *)
DescriptorsAfterTheCopy ==
    LET push(seen) == InputHits \o Push \o Maybe(Wait \o seen \o InputHits)
    IN  SettledOrThrow \o Profile \o OpenLadder \o Need \o Need
        \o push(<<>>) \o push(<<>>) \o ReturnIf
        \o While(Watch("read") \o push(Read("read")) \o Unwatch("read"))
=============================================================================
