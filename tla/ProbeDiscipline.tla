--------------------------- MODULE ProbeDiscipline ---------------------------
(* The discipline that lets the probe files run after one another in any     *)
(* order: what is certain of the instruments before each operation of a      *)
(* file, whatever ran before the file and whichever way it got there, judged *)
(* one operation at a time. A file found sound on its own stays sound beside *)
(* any others, because each starts from what every sound file leaves.        *)
EXTENDS ProbeRig

CONSTANT
    \* probe file |-> what may be certain before each operation, and at its end:
    \* a set, of which one is
    Known

(* own: the log holds nothing of an earlier file's; on: the instrument is    *)
(* armed; off: not by this file; ran: the machine has run under the log      *)
(* since it was armed or cleared; running: it is not stopped                 *)
Certainty ==
    [own : SUBSET Logs, on : SUBSET Instruments, off : SUBSET Instruments,
     ran : SUBSET Logs, running : BOOLEAN]

(* c claims no more than d, of a machine running or stopped as d's           *)
Claims(c, d) ==
    /\ c.own \subseteq d.own
    /\ c.on \subseteq d.on
    /\ c.off \subseteq d.off
    /\ c.ran \subseteq d.ran
    /\ c.running = d.running

(* Before the first operation: the boot never turns the EEPROM's log off, no *)
(* instrument is this file's, and the file before left the machine running   *)
AtStart == [own |-> {}, on |-> {"ee"}, off |-> Instruments, ran |-> {}, running |-> TRUE]

(* Tracing and breaking turn the profiler on *)
TurnedOn(w) == {w} \cup IF w \in {"trace", "break"} THEN {"hits"} ELSE {}

RanUnder(c) == [c EXCEPT !.ran = @ \cup (c.on \cap Logs)]
Stalled(c) == [c EXCEPT !.running = FALSE]

(* What may be certain once the operation is done, if it can be done with c *)
After(op, c) ==
    CASE op.kind = "wait" ->
            IF ~c.running THEN {c}
            ELSE {RanUnder(c)} \cup IF "break" \in c.off THEN {} ELSE {Stalled(RanUnder(c))}
      [] op.kind = "call" -> {RanUnder(c)}
      [] op.kind = "resume" -> {[c EXCEPT !.running = TRUE]}
      [] op.kind = "arm" ->
            {[c EXCEPT !.on = @ \cup TurnedOn(op.on), !.off = @ \ TurnedOn(op.on),
                       !.own = @ \cup ({op.on} \cap {"read", "write"}),
                       !.ran = @ \ {op.on}]}
      [] op.kind = "disarm" -> {[c EXCEPT !.on = @ \ {op.on}, !.off = @ \cup {op.on}]}
      [] op.kind = "clear" -> {[c EXCEPT !.own = @ \cup {op.on}, !.ran = @ \ {op.on}]}
      [] op.kind \in {"ifStalled", "needStall"} -> {d \in {c} : ~c.running}
      [] op.kind = "ifRunning" -> {d \in {c} : c.running}
      [] op.kind \in {"jump", "return"} -> {}
      [] OTHER -> {c}

(* ... and once its body was passed over *)
Passed(op, c) ==
    CASE op.kind \in {"maybe", "jump"} -> {c}
      [] op.kind = "ifStalled" -> {d \in {c} : c.running}
      [] op.kind = "ifRunning" -> {d \in {c} : ~c.running}
      [] OTHER -> {}

(* Where control goes from position p with c certain, and what is certain there *)
Flows(s, p, c) ==
    ({p + 1} \X After(s[p], c))
    \cup ({p + 1 + s[p].skip} \X Passed(s[p], c))
    \cup ({Len(s) + 1} \X {d \in {c} : s[p].kind = "return"})

(* A reading is fit: taken with the instrument on, of a log the machine has  *)
(* run under and that is this file's own                                     *)
Fit(f, i, c) ==
    /\ i \in c.on
    /\ i \in Logs => i \in c.ran /\ (i \in c.own \/ f \in Unswept)

(* What the next file finds *)
Leaves(f, c) ==
    /\ c.running
    /\ "ee" \in c.on /\ "break" \in c.off
    /\ "read" \in c.off \/ f \in Abandoned
    /\ "write" \in c.off \/ f \in NeverOff

(* The file f is accounted for by k, operation by operation *)
Sound(f, k) ==
    LET s == Script[f] IN
    /\ k \in Seq(SUBSET Certainty) /\ Len(k) = Len(s) + 1
    /\ \E c \in k[1] : Claims(c, AtStart)
    /\ \A p \in DOMAIN s : \A c \in k[p] :
         /\ \A to \in Flows(s, p, c) : \E d \in k[to[1]] : Claims(d, to[2])
         /\ s[p].kind = "read" => Fit(f, s[p].on, c)
    /\ \A c \in k[Len(k)] : Leaves(f, c)

Accounted == \A f \in DOMAIN Script : Sound(f, Known[f])

ASSUME DisciplineAssumption == Accounted

-----------------------------------------------------------------------------
(* c holds of the instruments now *)
Stands(c) ==
    /\ \A l \in c.own : log[l] # "earlier"
    /\ \A i \in c.on : armed[i] # "no"
    /\ \A i \in c.off : armed[i] # "mine"
    /\ c.ran \subseteq ran
    /\ c.running = ~stalled

(* A running file is at one of its positions, with what may be certain there *)
AtPlace(p) ==
    /\ todo = SubSeq(Script[file], p, Len(Script[file]))
    /\ \E c \in Known[file][p] : Stands(c)

(* ... and not at its end: before operation p, with c certain *)
Before(p, c) ==
    /\ c \in Certainty /\ Stands(c)
    /\ Op = Script[file][p] /\ Op \in Operation
    /\ todo = SubSeq(Script[file], p, Len(Script[file]))

Quiet ==
    /\ ~stalled
    /\ armed["break"] = "no" /\ armed["ee"] # "no"
    /\ armed["read"] = "mine" => file \in Abandoned
    /\ armed["write"] = "mine" => file \in NeverOff

Types ==
    /\ armed \in [Instruments -> Owner] /\ log \in [Logs -> Owner]
    /\ ran \subseteq Logs /\ stalled \in BOOLEAN
    /\ armed["break"] # "earlier"

RigInv ==
    /\ Types
    /\ stage \in {"boot", "between"} => Quiet
    /\ stage = "running" => file \in DOMAIN Script /\ \E p \in DOMAIN Known[file] : AtPlace(p)
    /\ OwnReadings /\ MeasuresARunningMachine
=============================================================================
