------------------------------ MODULE ProbesBox ------------------------------
(* The probes of the box at rest, of the broadcast and of the guide          *)
EXTENDS ProbeOps

WhatDoes0x52Want   == Profile \o Need \o Wait \o CarouselOn \o Wait \o Need
AreTheParsersCold  == Profile \o Need \o Wait \o CarouselOn \o Wait \o InputHits
                      \o Read("hits") \o Need
(* __tagReads stays on; it only labels reads and is left out *)
UnansweredHardware == Profile \o Need \o Need \o Wait \o Key \o Wait
SiWhatIsArmed      == Settled \o Profile \o Loop(Wait) \o Need
WhoConsumes0x52    == Profile \o Need \o Wait \o CarouselOn \o Wait \o Need \o Need
                      \o Watch("read") \o Push \o Maybe(Unwatch("read") \o Need \o Return)
                      \o Wait \o Read("read") \o Unwatch("read") \o Need
Feed0x52           == Profile \o Need \o Wait \o CarouselOn \o Wait \o Need
                      \o Loop(Trace \o TraceClear \o Push \o Wait \o Read("trace"))
                      \o Untrace \o Need
GuideWithABroadcast ==
    Profile \o Need \o Wait \o Need \o CarouselOn \o Wait
    \o Key \o Wait \o Need \o Key \o Wait \o Wait
FilterIndexWidth   == Profile \o Need \o Wait \o CarouselOn \o Wait \o Need \o Need
IsTheMjdSetAtSubscriptionTime ==
    Settled \o Profile \o NeedOnAir \o Need \o While(Wait) \o ReturnIf
PrimeTheNvram      == Ready \o Need \o Need \o CarouselOn \o While(Wait) \o Need
                      \o While(Wait) \o Need \o Need
WhatTheGuideAsks   == Settled \o Profile \o Need \o Need \o Need
WhatDoesItAskTheCarouselFor ==
    LET step(keys) == Trace \o TraceClear \o Read("hits") \o Need \o keys \o Wait
                      \o Read("trace") \o Untrace \o Read("hits") \o Need
    IN  Settled \o Profile \o CarouselOn \o While(Wait) \o While(Wait)
        \o step(<<>>) \o step(Key) \o step(Key) \o step(Key)
ScrollTheWholeGuide ==
    SettledOrThrow \o NeedOnAir \o Profile \o While(Wait) \o Need \o While(Wait) \o Need
    \o Counted \o Need \o Counted \o Need \o Wait \o Loop(Counted)
WhatTheGuideAsksTheDatabase ==
    LET press == Need \o Trace \o TraceClear \o Read("hits") \o Need \o Key \o Wait
                 \o Read("trace") \o Untrace \o Read("hits") \o Need
    IN  SettledOrThrow \o Profile \o Need \o press \o Need \o press \o Need
=============================================================================
