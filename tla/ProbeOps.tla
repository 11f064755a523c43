------------------------------ MODULE ProbeOps ------------------------------
(* The vocabulary of the measurement probes: a probe file is a sequence of   *)
(* operations on the page's instruments, read out of src/tools/probes/*.js.  *)
(* What an operation does is in ProbeRig. Of a file this keeps every arming, *)
(* disarming, reading, wait, stop of the machine, feed, throw and early      *)
(* return, in order; a condition on what was measured is a free choice. The  *)
(* figures a probe computes, the addresses it peeks and the pictures it      *)
(* takes are left out. A counted or timed loop is unrolled to two passes.    *)
EXTENDS Naturals, Sequences

Do(kind, on, skip) == [kind |-> kind, on |-> on, skip |-> skip]

(* Host side of the script: waiting, failing, leaving *)
Wait         == <<Do("wait", "none", 0)>>
Need         == <<Do("need", "none", 0)>>         \* throw unless the measurement says so
NeedStall    == <<Do("needStall", "none", 0)>>    \* throw unless a breakpoint was reached
NeedSilent   == <<Do("needAir", "off", 0)>>       \* throw if the carousel runs
NeedOnAir    == <<Do("needAir", "on", 0)>>        \* throw unless it runs
Return       == <<Do("return", "none", 0)>>
Jump(n)      == <<Do("jump", "none", n)>>
Maybe(body)  == <<Do("maybe", "none", Len(body))>> \o body
IfStalled(body) == <<Do("ifStalled", "none", Len(body))>> \o body
IfRunning(body) == <<Do("ifRunning", "none", Len(body))>> \o body
Loop(body)   == body \o Maybe(body)
While(body)  == Maybe(Loop(body))
ReturnIf     == Maybe(Return)

(* Instruments *)
Profile      == <<Do("arm", "hits", 0)>>
Trace        == <<Do("arm", "trace", 0)>>
Untrace      == <<Do("disarm", "trace", 0)>>
TraceClear   == <<Do("clear", "trace", 0)>>
EeTxClear    == <<Do("clear", "ee", 0)>>
Watch(w)     == <<Do("arm", w, 0)>>
Unwatch(w)   == <<Do("disarm", w, 0)>>
BreakAt      == <<Do("arm", "break", 0)>>
Read(w)      == <<Do("read", w, 0)>>
Resume       == <<Do("resume", "none", 0)>>
Unbreak      == <<Do("disarm", "break", 0)>> \o Resume
(* __writeWatch(0, 0): no DRAM range, so the page returns before disarming *)
UnwatchAtZero == <<Do("refused", "write", 0)>>

(* What reaches the box *)
Key          == <<Do("guest", "key", 0)>>
Poke         == <<Do("guest", "poke", 0)>>
Call         == <<Do("call", "none", 0)>>
Push         == <<Do("guest", "push", 0)>>
CarouselOn   == <<Do("carousel", "on", 0)>>

(* Runs of operations that many files share *)
Ready        == While(Wait)                       \* until the page says Ready, or its limit
(* await stall(limit): poll the program counter until a breakpoint is reached *)
Stall        == Loop(Wait)
(* poll; at each stop look at the registers and let the machine go again *)
Catch        == Loop(Wait \o IfStalled(Resume))
Counted      == Trace \o TraceClear \o Key \o Wait \o Read("trace") \o Untrace
(* the menu gate opened by hand: patch the pool, let the box settle, find the object *)
OpenGate     == Need \o Poke \o Wait \o Need \o Need
OpenGateChecked == Need \o Poke \o Need \o Wait \o Need \o Need
OpenMember   == OpenGate \o Poke
FeedNitBat   == Push \o Push \o Wait \o Push \o Push \o Wait
(* a healthy press, the feed that stops the drawing, and a press that draws nothing *)
Settled      == Ready \o Need
SettledOrThrow == Ready \o Need \o Need
SettledSilent == Settled \o Profile \o NeedSilent
Healthy      == Counted \o Need
Killed       == Healthy \o FeedNitBat \o Counted \o Need
(* a press whose input routines are counted in the profiler's histogram too *)
InputHits    == Read("hits") \o Need
CountedHits  == Trace \o TraceClear \o InputHits \o Key \o Wait
                \o Read("trace") \o InputHits \o Untrace
(* the same while the o-code reads are watched *)
CountedOcode == Trace \o TraceClear \o Watch("read") \o Need \o InputHits \o Key \o Wait
                \o Read("read") \o Unwatch("read") \o Read("trace") \o InputHits \o Untrace
(* open the ladder with a NIT unless the box already wants a BAT *)
OpenLadder   == Maybe(Push \o Need \o While(Wait))
(* two marked sections: find where the first is copied, watch that for the second *)
MarkedPass   == Push \o Maybe(Wait \o Maybe(Watch("read") \o Push
                    \o Maybe(Wait \o Read("read")) \o Unwatch("read")))
=============================================================================
