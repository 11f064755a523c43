---------------------------- MODULE ProbesDrawing ----------------------------
(* The probes of the drawing gate and of the key press                       *)
EXTENDS ProbeOps

BytecodeTrace   == Wait \o Watch("read") \o Key \o Wait \o Read("read") \o Unwatch("read")
PlainKeyPress   == Profile \o Wait \o Key \o Wait
WhoDrewTheBlue  == Profile \o Trace \o TraceClear \o Wait \o Read("trace")
NativeTable     == Profile \o Trace \o TraceClear \o Key \o Wait \o Read("trace")
                   \o Key \o Wait \o Read("trace")
DamagePath      == Profile \o Trace \o Wait \o TraceClear \o Key \o Wait \o Read("trace")
KeyPressAnatomy == DamagePath
DumpTheSourceSurface == Profile \o OpenMember \o Key \o Wait \o Need
IsWord1ASurface == Profile \o OpenMember \o Key \o Wait
TheFillCommand  == Profile \o OpenMember \o Key \o Wait \o Need \o Need
OneColour       == Profile \o OpenMember \o Need \o Need \o Key \o Wait \o Need
RasterWilling   == Profile \o Wait \o Call \o Wait \o Call \o Wait
TheClosedGate   == Profile \o Trace \o Wait \o TraceClear \o BreakAt \o Key \o Wait \o Need
                   \o Unbreak \o Wait \o Watch("write") \o Key \o Wait
                   \o Read("write") \o Unwatch("write") \o Read("trace")
OcodeAtTheUnbind == Profile \o BreakAt \o Stall \o NeedStall \o Need \o Watch("read") \o Resume
                   \o Stall \o NeedStall \o Read("read") \o Unwatch("read") \o Unbreak
                   \o Need \o Need \o Need
WhoSetsTheFlag  == Profile \o Trace \o Wait \o Read("trace") \o TraceClear
                   \o Key \o Wait \o Read("trace") \o Need
DoesAnythingWritePlus14 ==
    Profile \o OpenGateChecked \o Watch("write") \o Loop(Key \o Wait)
    \o Read("write") \o Poke \o Read("write") \o Poke \o UnwatchAtZero \o Need
TheRealCommand  == Profile \o OpenMember \o BreakAt \o Key \o Catch \o Unbreak \o Wait
                   \o Need \o Need
LoadPath        == Wait \o Poke \o Trace \o TraceClear \o Call \o Wait \o Read("trace")
ForceTheGate    == Profile \o Trace \o Wait \o TraceClear \o BreakAt \o Key
                   \o Loop(Wait \o IfStalled(Maybe(Poke) \o Resume))
                   \o Unbreak \o Wait \o Read("trace")
SetwindowrootArgs == Profile \o Need \o Need \o Trace \o Wait \o Read("trace") \o TraceClear
                   \o Key \o Wait \o Read("trace")
ArrowsOnTheMenu == Profile \o Need \o Wait \o Counted \o Need \o Loop(Counted)
TheDecidingValue == Profile \o BreakAt \o Catch \o Unbreak \o Need \o Need
FillPlus14      == Profile \o OpenGateChecked \o Need \o Poke \o Need
                   \o Trace \o Key \o Wait \o Read("trace")
WhatIs3x15      == Profile \o Need \o Need \o Need \o Need \o Trace \o Wait \o Read("trace")
WhoFillsPlus14  == Profile \o OpenGateChecked \o Watch("write") \o BreakAt \o Key \o Catch
                   \o Read("write") \o UnwatchAtZero \o Unbreak \o Need \o Need
OpenTheGate     == Profile \o Need \o Poke \o Need \o Trace \o Wait \o Read("trace")
                   \o TraceClear \o Key \o Wait \o Read("trace")
WhoBindsTheWindow == Profile \o Need \o Trace \o Wait \o Read("trace") \o TraceClear
                   \o Key \o Wait \o Read("trace")
WhichMember     == Profile \o OpenGateChecked \o Watch("read") \o BreakAt \o Key \o Catch
                   \o Read("read") \o Unwatch("read") \o Unbreak \o Need \o Need
TheKeyPathGate  == Profile \o OpenGateChecked \o BreakAt \o Key \o Catch \o Unbreak \o Need
WhoBuildsTheFill == Profile \o OpenMember \o Watch("write") \o Need \o Key \o Wait
                   \o Read("write") \o UnwatchAtZero \o Need \o Need
QuietButtonsOnTheMenu ==
    Profile \o Need \o Wait \o Counted \o Need
    \o While(Maybe(Counted) \o Counted) \o Untrace \o Need
Keymap          == Profile \o Need \o Need \o Wait
                   \o Loop(Trace \o TraceClear \o Key \o Wait \o Read("trace"))
                   \o Untrace \o Need \o Need
RefuseTheUnbind == Profile \o Need \o Trace \o BreakAt \o Stall \o NeedStall \o Resume
                   \o Stall \o NeedStall \o Need \o Poke \o Resume \o Wait \o Poke \o Unbreak
                   \o Wait \o TraceClear \o Key \o Wait \o Read("trace")
(* the o-code watch is started again at every poll until the next stop; the  *)
(* unbind ends the loop with the watch off, the end of the minute does not   *)
Slice(rest) ==
    Wait \o IfRunning(Read("read") \o Watch("read"))
    \o IfStalled(Maybe(Read("read") \o Unwatch("read") \o Resume \o Jump(1 + Len(rest)))
                 \o Resume)
TheSecondUnbind == Profile \o Need \o Poke \o Need \o Trace \o Wait \o Read("trace")
                   \o Need \o Need \o Untrace \o BreakAt \o Key \o Watch("read")
                   \o Slice(Slice(<<>>)) \o Slice(<<>>)
                   \o Unbreak \o Wait \o Need
BindTheTree     == Profile \o Need \o Trace \o Wait \o Read("trace") \o TraceClear
                   \o Key \o Wait \o Read("trace") \o Poke \o TraceClear
                   \o Key \o Wait \o Read("trace")
=============================================================================
