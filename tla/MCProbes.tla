------------------------------ MODULE MCProbes ------------------------------
(* Every modelled probe file, in every order and any number of times on one  *)
(* page, the files each property of ProbeRig is not promised for, and what   *)
(* is certain at each position of each file                                  *)
EXTENDS ProbeDiscipline, ProbesDrawing, ProbesFeeding, ProbesBox, SequencesExt

MCScript ==
    "bytecode-trace" :> BytecodeTrace @@
    "plain-key-press" :> PlainKeyPress @@
    "who-drew-the-blue" :> WhoDrewTheBlue @@
    "native-table" :> NativeTable @@
    "damage-path" :> DamagePath @@
    "key-press-anatomy" :> KeyPressAnatomy @@
    "dump-the-source-surface" :> DumpTheSourceSurface @@
    "is-word1-a-surface" :> IsWord1ASurface @@
    "the-fill-command" :> TheFillCommand @@
    "one-colour" :> OneColour @@
    "raster-willing" :> RasterWilling @@
    "the-closed-gate" :> TheClosedGate @@
    "ocode-at-the-unbind" :> OcodeAtTheUnbind @@
    "who-sets-the-flag" :> WhoSetsTheFlag @@
    "does-anything-write-plus-14" :> DoesAnythingWritePlus14 @@
    "the-real-command" :> TheRealCommand @@
    "load-path" :> LoadPath @@
    "force-the-gate" :> ForceTheGate @@
    "setwindowroot-args" :> SetwindowrootArgs @@
    "arrows-on-the-menu" :> ArrowsOnTheMenu @@
    "the-deciding-value" :> TheDecidingValue @@
    "fill-plus-14" :> FillPlus14 @@
    "what-is-3x15" :> WhatIs3x15 @@
    "who-fills-plus-14" :> WhoFillsPlus14 @@
    "open-the-gate" :> OpenTheGate @@
    "who-binds-the-window" :> WhoBindsTheWindow @@
    "which-member" :> WhichMember @@
    "the-key-path-gate" :> TheKeyPathGate @@
    "who-builds-the-fill" :> WhoBuildsTheFill @@
    "quiet-buttons-on-the-menu" :> QuietButtonsOnTheMenu @@
    "keymap" :> Keymap @@
    "refuse-the-unbind" :> RefuseTheUnbind @@
    "the-second-unbind" :> TheSecondUnbind @@
    "bind-the-tree" :> BindTheTree @@
    "who-writes-favchn" :> WhoWritesFavchn @@
    "is-it-refusing-or-busy" :> IsItRefusingOrBusy @@
    "does-it-recover" :> DoesItRecover @@
    "which-device-the-dead-press-talks-to" :> WhichDeviceTheDeadPressTalksTo @@
    "what-the-eeprom-loop-writes" :> WhatTheEepromLoopWrites @@
    "where-drawing-stops" :> WhereDrawingStops @@
    "which-table-stops-the-drawing" :> WhichTableStopsTheDrawing @@
    "ocode-the-dead-loop" :> OcodeTheDeadLoop @@
    "ocode-healthy-vs-dead" :> OcodeHealthyVsDead @@
    "feed-it-the-listings-it-asked-for" :> FeedItTheListingsItAskedFor @@
    "how-many-slots" :> HowManySlots @@
    "which-task-is-stuck" :> WhichTaskIsStuck @@
    "eeprom-mirror-is-the-cost" :> EepromMirrorIsTheCost @@
    "feed-a-real-title-section" :> FeedARealTitleSection @@
    "hand-fed-and-still-drawing" :> HandFedAndStillDrawing @@
    "does-the-bat-close-the-gate" :> DoesTheBatCloseTheGate @@
    "where-the-128-seconds-go" :> WhereThe128SecondsGo @@
    "feed-a-lineup" :> FeedALineup @@
    "what-the-dead-press-does-instead" :> WhatTheDeadPressDoesInstead @@
    "private-specifier-unlocks" :> PrivateSpecifierUnlocks @@
    "which-tag-the-bat-walk-wants" :> WhichTagTheBatWalkWants @@
    "b1-entry-layout" :> B1EntryLayout @@
    "real-title-section-vs-junk" :> RealTitleSectionVsJunk @@
    "what-is-on-0xa1" :> WhatIsOn0xa1 @@
    "how-far-do-the-titles-get" :> HowFarDoTheTitlesGet @@
    "where-the-guide-says-no" :> WhereTheGuideSaysNo @@
    "which-descriptors" :> WhichDescriptors @@
    "descriptors-after-the-copy" :> DescriptorsAfterTheCopy @@
    "what-does-0x52-want" :> WhatDoes0x52Want @@
    "are-the-parsers-cold" :> AreTheParsersCold @@
    "unanswered-hardware" :> UnansweredHardware @@
    "si-what-is-armed" :> SiWhatIsArmed @@
    "who-consumes-0x52" :> WhoConsumes0x52 @@
    "feed-0x52" :> Feed0x52 @@
    "guide-with-a-broadcast" :> GuideWithABroadcast @@
    "filter-index-width" :> FilterIndexWidth @@
    "is-the-mjd-set-at-subscription-time" :> IsTheMjdSetAtSubscriptionTime @@
    "prime-the-nvram" :> PrimeTheNvram @@
    "what-the-guide-asks" :> WhatTheGuideAsks @@
    "what-does-it-ask-the-carousel-for" :> WhatDoesItAskTheCarouselFor @@
    "scroll-the-whole-guide" :> ScrollTheWholeGuide @@
    "what-the-guide-asks-the-database" :> WhatTheGuideAsksTheDatabase

MCUnswept ==
    {"fill-plus-14", "what-is-3x15", "who-sets-the-flag", "setwindowroot-args",
     "open-the-gate", "who-binds-the-window", "the-second-unbind", "bind-the-tree"}
MCAbandoned == {"the-second-unbind"}
MCNeverOff == {"does-anything-write-plus-14", "who-fills-plus-14", "who-builds-the-fill"}

-----------------------------------------------------------------------------
(* What is certain, worked out in one pass: a file never goes back, so each  *)
(* position takes what is common to the ways into it, the machine running,   *)
(* and what is common to those with it stopped                               *)
Met(cs) ==
    [own |-> {l \in Logs : \A c \in cs : l \in c.own},
     on |-> {i \in Instruments : \A c \in cs : i \in c.on},
     off |-> {i \in Instruments : \A c \in cs : i \in c.off},
     ran |-> {l \in Logs : \A c \in cs : l \in c.ran},
     running |-> \A c \in cs : c.running]

(* What the ways into the next position bring *)
Brought(s, k) ==
    LET ways == UNION {UNION {Flows(s, p, c) : c \in k[p]} : p \in DOMAIN k}
    IN {to[2] : to \in {way \in ways : way[1] = Len(k) + 1}}

WorkedOut(s) ==
    FoldLeft(LAMBDA k, op : LET cs == Brought(s, k) IN
                 Append(k, {Met({d \in cs : d.running = c.running}) : c \in cs}),
             <<{AtStart}>>, s)

MCKnown == [f \in DOMAIN MCScript |-> WorkedOut(MCScript[f])]
=============================================================================
