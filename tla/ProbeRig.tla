------------------------------ MODULE ProbeRig ------------------------------
(* The page's measuring instruments and the runner that drives them          *)
(* (src/tools/digibox-probe.mjs): one page, one booted box, and the probe    *)
(* files of the command line run one after the other in it. Nothing resets   *)
(* the instruments between two files, so everything a file leaves armed,     *)
(* logged or stopped is there when the next one measures.                    *)
(*                                                                           *)
(* JavaScript runs to completion: the machine moves only while a file waits. *)
(* A script of ProbeOps is executed one operation a step.                    *)
EXTENDS Naturals, Sequences, FiniteSets

CONSTANTS
    Script,      \* probe file |-> its operations (ProbesDrawing, ProbesFeeding, ProbesBox)
    \* the files each property below is not promised for
    Unswept,     \* read the call log of the box at rest and do not clear it first
    Abandoned,   \* may return with a read watch armed
    NeverOff     \* ask for their write watch to be dropped in a way the page refuses

Logs == {"trace", "read", "write", "ee"}
Instruments == Logs \cup {"break", "hits"}

(* An arming, and the oldest entry of a log, is an earlier file's (or the    *)
(* boot's), mine, or there is none                                           *)
Owner == {"no", "earlier", "mine"}
Older(o) == IF o = "mine" THEN "earlier" ELSE o

(* An operation: what it is, the instrument it is on, and how many it passes *)
(* over when its body is not run                                             *)
Operation == [kind : STRING, on : STRING, skip : Nat]

(* Operations are on instruments there are, and bodies end within the file   *)
WellFormed ==
    \A f \in DOMAIN Script :
        /\ Script[f] \in Seq(Operation)
        /\ \A p \in DOMAIN Script[f] :
             LET op == Script[f][p] IN
             /\ op.kind \in {"arm", "disarm", "read"} => op.on \in Instruments
             /\ op.kind = "clear" => op.on \in Logs
             /\ p + op.skip <= Len(Script[f])

ASSUME ScriptAssumption == WellFormed

VARIABLES
    stage,      \* "boot" | "between" | "running" | "error" | "closed"
    file, todo, \* the file being evaluated and the operations it has left
    armed,      \* instrument -> whose, or "no"
    log,        \* log -> whose its oldest entry is, or "no"
    ran,        \* logs the machine has run under since they were armed or cleared
    stalled,    \* stopped at a breakpoint
    air,        \* "no", or who put the carousel on
    reading     \* the reading just taken

rigVars == <<stage, file, todo, armed, log, ran, stalled, air, reading>>

NoReading == [on |-> "none"]
instruments == <<armed, log, ran, stalled, air>>

RigInit ==
    /\ stage = "boot"
    /\ file = "none" /\ todo = <<>>
    /\ armed = [i \in Instruments |-> IF i = "ee" THEN "earlier" ELSE "no"]
    /\ log = [l \in Logs |-> "no"]
    /\ ran = {}
    /\ stalled = FALSE
    /\ air = "no"
    /\ reading = NoReading

-----------------------------------------------------------------------------
(* The runner *)

(* page.evaluate(boot): options may arm the trace or the profiler and put a  *)
(* carousel on the air; within 400 seconds there are 42 tasks, or the run    *)
(* ends unless a partial boot is allowed                                     *)
Boot ==
    /\ stage = "boot"
    /\ \E traced, profiled, asked \in BOOLEAN :
         /\ armed' = [armed EXCEPT !["trace"] = IF traced THEN "earlier" ELSE "no",
                                   !["hits"] = IF traced \/ profiled THEN "earlier" ELSE "no"]
         /\ log' = [log EXCEPT !["trace"] = IF traced THEN "earlier" ELSE "no",
                               !["ee"] = "earlier"]
         /\ air' = IF asked THEN "earlier" ELSE "no"
         /\ stage' \in {"between", "error"}
    /\ UNCHANGED <<file, todo, ran, stalled, reading>>

(* for (const f of files): the next file finds the page as the last one left it *)
NextFile ==
    /\ stage = "between"
    /\ \E f \in DOMAIN Script : file' = f /\ todo' = Script[f]
    /\ stage' = "running"
    /\ armed' = [i \in Instruments |-> Older(armed[i])]
    /\ log' = [l \in Logs |-> Older(log[l])]
    /\ air' = Older(air)
    /\ ran' = {} /\ reading' = NoReading
    /\ UNCHANGED stalled

(* finally { browser.close() } *)
Close ==
    /\ stage \in {"between", "error"}
    /\ stage' = "closed" /\ file' = "none" /\ todo' = <<>>
    /\ reading' = NoReading
    /\ UNCHANGED instruments

-----------------------------------------------------------------------------
(* One operation of the running file *)

Op == Head(todo)
Doing(kind) == stage = "running" /\ todo # <<>> /\ Op.kind = kind

LeaveWith(rest) == todo' = rest /\ reading' = NoReading /\ UNCHANGED <<stage, file>>
Step == LeaveWith(Tail(todo))
Skip == LeaveWith(SubSeq(todo, 2 + Op.skip, Len(todo)))
Throw == stage' = "error" /\ todo' = <<>> /\ reading' = NoReading /\ UNCHANGED file

(* The body returned: its value is printed and the loop goes on *)
Ended ==
    /\ stage = "running" /\ todo = <<>>
    /\ stage' = "between" /\ reading' = NoReading
    /\ UNCHANGED <<file, todo, instruments>>

(* The machine runs, and whatever is armed may see it                        *)
Run ==
    \E seen \in SUBSET {l \in Logs : armed[l] # "no"} :
        /\ log' = [l \in Logs |-> IF l \in seen /\ log[l] = "no" THEN "mine" ELSE log[l]]
        /\ ran' = ran \cup {l \in Logs : armed[l] # "no"}

(* await: the machine runs unless it is stopped, and a breakpoint may stop it *)

Waits ==
    /\ Doing("wait") /\ Step
    /\ IF stalled THEN UNCHANGED <<log, ran>> ELSE Run
    /\ stalled' \in {stalled} \cup IF armed["break"] # "no" THEN {TRUE} ELSE {}
    /\ UNCHANGED <<armed, air>>

Resumes ==
    /\ Doing("resume") /\ Step
    /\ stalled' = FALSE
    /\ UNCHANGED <<armed, log, ran, air>>

(* Mutant: a newly armed watch keeps the log of the one it replaces *)
FreshMutantKept(w) == FALSE
(* __readWatch and __writeWatch start a new log; __traceCalls replaces the   *)
(* list and keeps the log                                                    *)
Fresh(w) == w \in {"read", "write"}

(* __profile, __traceCalls, __readWatch, __writeWatch, __breakAt: tracing    *)
(* and breaking turn the profiler on                                         *)
Arms ==
    /\ Doing("arm") /\ Step
    /\ LET w == Op.on IN
         /\ armed' = [i \in Instruments |->
                        IF i = w THEN "mine"
                        ELSE IF i = "hits" /\ w \in {"trace", "break"} THEN "mine"
                        ELSE armed[i]]
         /\ log' = IF Fresh(w) THEN [log EXCEPT ![w] = "no"] ELSE log
         /\ ran' = ran \ {w}
    /\ UNCHANGED <<stalled, air>>

(* Mutant: whatever is dropped, the trace is switched off with it *)
DisarmsMutantUntraces ==
    /\ Doing("disarm") /\ Step
    /\ armed' = [armed EXCEPT ![Op.on] = "no", !["trace"] = "no"]
    /\ UNCHANGED <<log, ran, stalled, air>>

(* Mutant: dropping the breakpoint forgets to take it out of the machine *)
DisarmsMutantStays ==
    /\ Doing("disarm") /\ Step
    /\ armed' = IF Op.on = "break" THEN armed ELSE [armed EXCEPT ![Op.on] = "no"]
    /\ UNCHANGED <<log, ran, stalled, air>>

Disarms ==
    /\ Doing("disarm") /\ Step
    /\ armed' = [armed EXCEPT ![Op.on] = "no"]
    /\ UNCHANGED <<log, ran, stalled, air>>

(* An arming the page refuses: nothing changes *)
Refused ==
    /\ Doing("refused") /\ Step
    /\ UNCHANGED instruments

Clears ==
    /\ Doing("clear") /\ Step
    /\ log' = [log EXCEPT ![Op.on] = "no"]
    /\ ran' = ran \ {Op.on}
    /\ UNCHANGED <<armed, stalled, air>>

Reads ==
    /\ Doing("read")
    /\ reading' = [on |-> Op.on, oldest |-> IF Op.on \in Logs THEN log[Op.on] ELSE "no",
                   armed |-> armed[Op.on], ran |-> Op.on \in ran]
    /\ todo' = Tail(todo)
    /\ UNCHANGED <<stage, file, instruments>>

(* A key, a poke, a pushed section: the box changes, not the rig *)
Guest ==
    /\ Doing("guest") /\ Step
    /\ UNCHANGED instruments

(* __call runs a routine of the firmware to its end, watched but deaf to     *)
(* breakpoints; it drops the stall but starts nothing: a stopped machine     *)
(* stays stopped until __resume                                              *)
Calls ==
    /\ Doing("call") /\ Step
    /\ Run
    /\ UNCHANGED <<armed, stalled, air>>

(* __siCarousel(true) on a running carousel changes nothing *)
Airs ==
    /\ Doing("carousel") /\ Step
    /\ air' = IF air = "no" THEN "mine" ELSE air
    /\ UNCHANGED <<armed, log, ran, stalled>>

(* if (...) throw new Error(...): it ends the whole run, not only the file *)
Needs ==
    /\ Doing("need")
    /\ Step \/ Throw
    /\ UNCHANGED instruments

NeedsStall ==
    /\ Doing("needStall")
    /\ IF stalled THEN Step ELSE Throw
    /\ UNCHANGED instruments

NeedsAir ==
    /\ Doing("needAir")
    /\ IF (air = "no") = (Op.on = "off") THEN Step ELSE Throw
    /\ UNCHANGED instruments

Chooses ==
    /\ \/ Doing("maybe") /\ (Step \/ Skip)
       \/ Doing("ifStalled") /\ IF stalled THEN Step ELSE Skip
       \/ Doing("ifRunning") /\ IF stalled THEN Skip ELSE Step
       \/ Doing("jump") /\ Skip
       \/ Doing("return") /\ LeaveWith(<<>>)
    /\ UNCHANGED instruments

RigNext ==
    \/ Boot \/ NextFile \/ Close \/ Ended
    \/ Waits \/ Resumes \/ Arms \/ Disarms \/ Refused \/ Clears \/ Reads
    \/ Guest \/ Calls \/ Airs \/ Needs \/ NeedsStall \/ NeedsAir \/ Chooses

RigSpec == RigInit /\ [][RigNext]_rigVars

-----------------------------------------------------------------------------
(* What a probe may count on when other probes ran before it on the page *)

(* A log a file reads (the traced calls, the watched reads or writes, the    *)
(* EEPROM transactions) holds nothing of an earlier file's or of the boot's, *)
(* except in the files that read the box at rest: the clears, re-armings and *)
(* removals of seventy files, in whatever order they run.                    *)
OwnReadings ==
    reading.on \in Logs /\ reading.oldest = "earlier" => file \in Unswept

(* A log is read only where silence would mean something: the instrument is  *)
(* on and, since it was armed or cleared, the machine has run under it; the  *)
(* profiler's counters are read only with the profiler on. An earlier file   *)
(* that leaves a breakpoint or a stopped machine behind breaks this for the  *)
(* next one.                                                                 *)
MeasuresARunningMachine ==
    reading.on # "none" =>
        reading.armed # "no" /\ (reading.on \in Logs => reading.ran)

(* A file that returns leaves the machine running, no breakpoint and no      *)
(* watch of its own, whichever way it got to its end.                        *)
EndsQuiet ==
    stage = "between" =>
        /\ ~stalled
        /\ armed["break"] = "no"
        /\ armed["read"] = "mine" => file \in Abandoned
        /\ armed["write"] = "mine" => file \in NeverOff
=============================================================================
