------------------------------- MODULE Board -------------------------------
(***************************************************************************)
(* How the causes of the board's devices become interrupts of the guest:   *)
(* the interrupt controller (internal/device/irq), the core's request      *)
(* latch (internal/cpu/core.go), and the devices that drive it - timer,    *)
(* demultiplexer, modem, smartcard and I2C - pumped together every 16      *)
(* instructions by internal/board/runtime.go.  The guest is external: its  *)
(* handler reads which lines are pending and enabled, then serves them one *)
(* by one, and the pump and new sections come in between any two steps.    *)
(*                                                                         *)
(* The core's latch remembers one request for all the lines together.  An  *)
(* edge that happens while a line is still up makes no new request; what   *)
(* keeps a cause from being forgotten is that the timer's pulse requests   *)
(* delivery whether or not its line was up.                                *)
(***************************************************************************)
EXTENDS Naturals, FiniteSets

CONSTANTS
    Filters,       \* section channels of the demultiplexer
    TimerPeriod,   \* PeriodInstructions, in pumps
    ByteTime,      \* ByteInstructions, in pumps
    ReplyGap,      \* ReplyGapInstructions, in pumps
    FrameLength,   \* bytes of a command to the card
    ReplyLength,   \* bytes of the card's answer
    Transfer,      \* bytes of an I2C transaction
    Disarmable,    \* lines the guest may disable again
    MaxUses        \* bound: how often sections arrive, devices are put to use,
                   \* interrupts are masked or the machine is restored

Source == {"timer", "demux", "modem", "card", "i2c"}

ASSUME BoardAssumption ==
    /\ IsFiniteSet(Filters)
    /\ {TimerPeriod, FrameLength, ReplyLength, Transfer} \subseteq Nat \ {0}
    /\ {ByteTime, ReplyGap} \subseteq Nat \ {0, 1}
    /\ Disarmable \subseteq Source
    /\ MaxUses \in Nat

VARIABLES
    irq,      \* pending and enable bits, and the core's request for IP2
    core,     \* Status and Cause as far as delivery is concerned
    guest,    \* where the handler is and what it has read
    timer, demux, modem, card, i2c,
    left,     \* what the bound still allows
    resumed   \* history: the machine has been restored

vars == <<irq, core, guest, timer, demux, modem, card, i2c, left, resumed>>
----------------------------------------------------------------------------
Use ==
    /\ left > 0
    /\ left' = left - 1
----------------------------------------------------------------------------
(* The controller.  Every operation is a function from one state of it to  *)
(* the next.                                                               *)

Active(c) == c.pending \cap c.enable

Put(c, s, up) ==
    [c EXCEPT !.pending = IF up THEN @ \cup {s} ELSE @ \ {s}]

Signal(c) == [c EXCEPT !.request = TRUE]

SignalNew(before, c) ==
    IF Active(c) \subseteq Active(before) THEN c ELSE Signal(c)

SetLine(c, s, up) == SignalNew(c, Put(c, s, up))

SetStatus(c, s, up) == Put(c, s, up)

\* Mutant: a pulse on a line that is already up asks for nothing
PulseMutantEdgeOnly(c, s) == SetLine(c, s, TRUE)

Pulse(c, s) == Signal(Put(c, s, TRUE))

WriteEnable(c, mask) == SignalNew(c, [c EXCEPT !.enable = mask])
----------------------------------------------------------------------------
(* Causes. *)

DemuxActive(d) == d.status \cap d.enable # {}

WantsIRQ(u) ==
    \/ "rx" \in u.ier /\ u.rx
    \/ "msr" \in u.ier /\ u.delta
    \/ "tx" \in u.ier

CardActive(p) == p.status \cap p.enable # {}
----------------------------------------------------------------------------
(* The pump: timer, demultiplexer, modem and card in this order, in one    *)
(* call of the clock's handler.  The demultiplexer's own pump admits media *)
(* packets, which raise nothing (Playout); the front panel is in CsiLink.  *)

TimerExpires == timer.armed /\ timer.due = 1

PumpTimer(t) ==
    IF ~t.armed THEN t
    ELSE IF t.due > 1 THEN [t EXCEPT !.due = @ - 1]
    ELSE [t EXCEPT !.due = TimerPeriod, !.flag = TRUE]

\* Whether the modem may request delivery: its last one was at another tick.
PumpModem(u, ticked) ==
    [u EXCEPT !.fresh = (@ \/ ticked) /\ ~WantsIRQ(u)]

PumpTx(p) ==
    IF p.tx = 0 THEN p
    ELSE IF p.tx > 1 THEN [p EXCEPT !.tx = @ - 1]
    ELSE [p EXCEPT !.tx = 0, !.status = @ \cup {"tx"}]

\* Mutant: a byte is received while transmission is still being reported
MayReceiveMutantWhileSending(p) == p.reply > 0 /\ "rx" \notin p.status

MayReceive(p) ==
    p.reply > 0 /\ "rx" \notin p.status /\ "tx" \notin p.enable

PumpRx(p) ==
    IF ~MayReceive(p) THEN p
    ELSE IF p.rx > 0 THEN [p EXCEPT !.rx = @ - 1]
    ELSE [p EXCEPT !.reply = @ - 1, !.status = @ \cup {"rx"},
                   !.rx = ReplyGap, !.unread = TRUE]

PumpCard(p) == PumpRx(PumpTx(p))

IrqAfterPump(ticked, pumped) ==
    LET afterTimer == IF ticked THEN Pulse(irq, "timer") ELSE irq
        want == WantsIRQ(modem)
        afterStatus == SetStatus(afterTimer, "modem", want)
        afterModem == IF want /\ (modem.fresh \/ ticked)
                      THEN Pulse(afterStatus, "modem") ELSE afterStatus
    IN  SetLine(afterModem, "card", CardActive(pumped))

Pump ==
    /\ timer' = PumpTimer(timer)
    /\ modem' = PumpModem(modem, TimerExpires)
    /\ card' = PumpCard(card)
    /\ irq' = IrqAfterPump(TimerExpires, card')
    /\ UNCHANGED <<core, guest, demux, i2c, left, resumed>>

\* A section reaches filter f: complete sets its status and moves the line.
Complete(f) ==
    /\ demux' = [demux EXCEPT !.status = @ \cup {f}]
    /\ irq' = SetLine(irq, "demux", DemuxActive(demux'))
    /\ Use
    /\ UNCHANGED <<core, guest, timer, modem, card, i2c, resumed>>
----------------------------------------------------------------------------
(* The core.  An interrupt is taken between instructions, when one of the  *)
(* lines asked for is enabled in Status and no handler runs.  Taking it    *)
(* clears the latch whichever line it was for.                             *)

CompareMatches ==
    /\ ~core.timerPending
    /\ core' = [core EXCEPT !.timerPending = TRUE]
    /\ UNCHANGED <<irq, guest, timer, demux, modem, card, i2c, left, resumed>>

Deliverable == (irq.request /\ core.mask2) \/ core.timerPending

ServiceInterrupt ==
    /\ ~core.exl
    /\ Deliverable
    /\ core' = [core EXCEPT !.exl = TRUE]
    /\ irq' = [irq EXCEPT !.request = FALSE]
    /\ guest' = [guest EXCEPT !.at = "cause", !.external = irq.request /\ core.mask2]
    /\ UNCHANGED <<timer, demux, modem, card, i2c, left, resumed>>
----------------------------------------------------------------------------
(* The guest's handler. *)

\* Compare is written; then, if Cause names the external line, the pending
\* and enable registers are read, once.
Dispatch ==
    /\ guest.at = "cause"
    /\ core' = [core EXCEPT !.timerPending = FALSE]
    /\ guest' = [guest EXCEPT !.at = "serve", !.external = FALSE,
                              !.todo = IF guest.external THEN Active(irq) ELSE {}]
    /\ UNCHANGED <<irq, timer, demux, modem, card, i2c, left, resumed>>

Serving(s) == guest.at = "serve" /\ s \in guest.todo

Served(s) == guest' = [guest EXCEPT !.at = "serve", !.todo = @ \ {s}]

ServeTimer ==
    /\ Serving("timer")
    /\ timer' = [timer EXCEPT !.flag = FALSE]
    /\ irq' = SetLine(irq, "timer", FALSE)
    /\ Served("timer")
    /\ UNCHANGED <<core, demux, modem, card, i2c, left, resumed>>

\* The demultiplexer's status is read, and its complement written back.
ReadDemux ==
    /\ Serving("demux")
    /\ guest' = [guest EXCEPT !.at = "demux", !.seen = demux.status \cap demux.enable]
    /\ UNCHANGED <<irq, core, timer, demux, modem, card, i2c, left, resumed>>

\* Mutant: the acknowledgement does not state the line again
AckDemuxMutantNoUpdate ==
    /\ guest.at = "demux"
    /\ demux' = [demux EXCEPT !.status = @ \ guest.seen]
    /\ guest' = [guest EXCEPT !.at = "serve", !.todo = @ \ {"demux"}, !.seen = {}]
    /\ UNCHANGED <<irq, core, timer, modem, card, i2c, left, resumed>>

AckDemux ==
    /\ guest.at = "demux"
    /\ demux' = [demux EXCEPT !.status = @ \ guest.seen]
    /\ irq' = SetLine(irq, "demux", DemuxActive(demux'))
    /\ guest' = [guest EXCEPT !.at = "serve", !.todo = @ \ {"demux"}, !.seen = {}]
    /\ UNCHANGED <<core, timer, modem, card, i2c, left, resumed>>

\* The modem's answer is read to its end, its line changes are read, and the
\* transmitter, having nothing to send, is silenced.  No write moves the line.
ServeModem ==
    /\ Serving("modem")
    /\ modem' = [modem EXCEPT !.rx = FALSE, !.delta = FALSE, !.ier = @ \ {"tx"}]
    /\ Served("modem")
    /\ UNCHANGED <<irq, core, timer, demux, card, i2c, left, resumed>>

ReadCard ==
    /\ Serving("card")
    /\ guest' = [guest EXCEPT !.at = "card", !.cardSeen = card.status]
    /\ UNCHANGED <<irq, core, timer, demux, modem, card, i2c, left, resumed>>

\* A byte goes to the card; the last of a frame makes it answer.
SendByte(p) ==
    LET sent == [p EXCEPT !.tx = ByteTime, !.frame = @ - 1]
    IN  IF sent.frame > 0 THEN sent
        ELSE [sent EXCEPT !.reply = ReplyLength, !.rx = 2 * ReplyGap]

\* The driver does what the status it read says.  A byte is read before the
\* acknowledgement, which clears the whole status.  If it read no cause (the
\* line stays up from an acknowledgement to the next pump) it writes nothing.
TakeByte(p, seen) ==
    IF "rx" \in seen THEN [p EXCEPT !.got = @ + 1, !.unread = FALSE] ELSE p

NextByte(p, seen) ==
    IF "tx" \notin seen \/ p.phase # "sending" THEN p
    ELSE IF p.frame > 0 THEN SendByte(p)
    ELSE [p EXCEPT !.enable = {"rx"}, !.phase = "receiving"]

WholeReply(p) ==
    IF p.got = ReplyLength THEN [p EXCEPT !.phase = "idle", !.got = 0] ELSE p

Acknowledge(p, seen) ==
    IF seen = {} THEN p ELSE [TakeByte(p, seen) EXCEPT !.status = {}]

AckCard ==
    /\ guest.at = "card"
    /\ card' = WholeReply(NextByte(Acknowledge(card, guest.cardSeen), guest.cardSeen))
    /\ guest' = [guest EXCEPT !.at = "serve", !.todo = @ \ {"card"}, !.cardSeen = {}]
    /\ UNCHANGED <<irq, core, timer, demux, modem, i2c, left, resumed>>

\* A data phase completes within the write that starts it.
CompleteI2c(c, line, ack) ==
    [bus |-> [c EXCEPT !.status = ack],
     line |-> IF c.enable THEN SetLine(line, "i2c", TRUE) ELSE line]

\* The line is acknowledged; then, if the slave answered and bytes remain, the
\* next one is sent, and otherwise the driver is told that it is over.
ServeI2c ==
    /\ Serving("i2c")
    /\ LET acked == SetLine(irq, "i2c", FALSE)
           next == CompleteI2c([i2c EXCEPT !.bytes = @ - 1], acked, TRUE)
       IN  IF i2c.waiting /\ i2c.status /\ i2c.bytes > 0
           THEN i2c' = next.bus /\ irq' = next.line
           ELSE i2c' = [i2c EXCEPT !.waiting = FALSE, !.bytes = 0] /\ irq' = acked
    /\ Served("i2c")
    /\ UNCHANGED <<core, timer, demux, modem, card, left, resumed>>

Return ==
    /\ guest.at = "serve"
    /\ guest.todo = {}
    /\ core' = [core EXCEPT !.exl = FALSE]
    /\ guest' = [guest EXCEPT !.at = "task"]
    /\ UNCHANGED <<irq, timer, demux, modem, card, i2c, left, resumed>>
----------------------------------------------------------------------------
(* The guest's tasks. *)

Task == guest.at = "task"

ArmTimer ==
    /\ Task
    /\ ~timer.armed
    /\ timer' = [timer EXCEPT !.armed = TRUE, !.due = TimerPeriod]
    /\ UNCHANGED <<irq, core, guest, demux, modem, card, i2c, left, resumed>>

\* The enable register is written whole: with every line, or with one left out.
ArmLines ==
    /\ Task
    /\ irq.enable # Source
    /\ irq' = WriteEnable(irq, Source)
    /\ UNCHANGED <<core, guest, timer, demux, modem, card, i2c, left, resumed>>

DisarmLine(s) ==
    /\ Task
    /\ s \in irq.enable
    /\ irq' = WriteEnable(irq, irq.enable \ {s})
    /\ Use
    /\ UNCHANGED <<core, guest, timer, demux, modem, card, i2c, resumed>>

Mask ==
    /\ Task
    /\ core.mask2
    /\ core' = [core EXCEPT !.mask2 = FALSE]
    /\ Use
    /\ UNCHANGED <<irq, guest, timer, demux, modem, card, i2c, resumed>>

Unmask ==
    /\ Task
    /\ ~core.mask2
    /\ core' = [core EXCEPT !.mask2 = TRUE]
    /\ UNCHANGED <<irq, guest, timer, demux, modem, card, i2c, left, resumed>>

\* Enable bits can only be added.
ArmFilter(f) ==
    /\ Task
    /\ f \notin demux.enable
    /\ demux' = [demux EXCEPT !.enable = @ \cup {f}]
    /\ irq' = SetLine(irq, "demux", DemuxActive(demux'))
    /\ UNCHANGED <<core, guest, timer, modem, card, i2c, left, resumed>>

\* Interrupts of the modem are enabled, a command is sent that it answers, or
\* a control line is moved.
UseModem ==
    /\ Task
    /\ ~WantsIRQ(modem)
    /\ \/ \E which \in {{"rx", "msr"}, {"rx", "msr", "tx"}} :
            modem' = [modem EXCEPT !.ier = which]
       \/ modem' = [modem EXCEPT !.rx = TRUE]
       \/ modem' = [modem EXCEPT !.delta = TRUE]
    /\ Use
    /\ UNCHANGED <<irq, core, guest, timer, demux, card, i2c, resumed>>

StartFrame ==
    /\ Task
    /\ card.phase = "idle"
    /\ card' = SendByte([card EXCEPT !.phase = "sending", !.enable = {"tx", "rx"},
                                     !.frame = FrameLength])
    /\ Use
    /\ UNCHANGED <<irq, core, guest, timer, demux, modem, i2c, resumed>>

\* The address byte is sent, which a slave answers or not.
StartTransfer(ack) ==
    /\ Task
    /\ ~i2c.waiting
    /\ LET first == CompleteI2c([i2c EXCEPT !.enable = TRUE, !.waiting = TRUE,
                                            !.bytes = Transfer - 1], irq, ack)
       IN  i2c' = first.bus /\ irq' = first.line
    /\ Use
    /\ UNCHANGED <<core, guest, timer, demux, modem, card, resumed>>
----------------------------------------------------------------------------
(* The machine is saved, and another process goes on from what was saved.  *)
(* The controller and the core come back as they were; then each device    *)
(* states its line again, by what its Restore takes for the cause.         *)

RestoredLines ==
    LET fromTimer == SetLine(irq, "timer", timer.flag)
        fromDemux == SetLine(fromTimer, "demux", DemuxActive(demux))
        fromModem == SetStatus(fromDemux, "modem", WantsIRQ(modem))
        fromCard == SetLine(fromModem, "card", CardActive(card))
    IN  SetLine(fromCard, "i2c", i2c.enable /\ i2c.status)

Resume ==
    /\ irq' = RestoredLines
    /\ resumed' = TRUE
    /\ Use
    /\ UNCHANGED <<core, guest, timer, demux, modem, card, i2c>>
----------------------------------------------------------------------------
Init ==
    /\ irq = [pending |-> {}, enable |-> {}, request |-> FALSE]
    /\ core = [exl |-> FALSE, mask2 |-> TRUE, timerPending |-> FALSE]
    /\ guest = [at |-> "task", external |-> FALSE, todo |-> {}, seen |-> {},
                cardSeen |-> {}]
    /\ timer = [armed |-> FALSE, due |-> TimerPeriod, flag |-> FALSE]
    /\ demux = [status |-> {}, enable |-> {}]
    /\ modem = [ier |-> {}, rx |-> FALSE, delta |-> FALSE, fresh |-> TRUE]
    /\ card = [status |-> {}, enable |-> {}, tx |-> 0, rx |-> 0, reply |-> 0,
               unread |-> FALSE, frame |-> 0, got |-> 0, phase |-> "idle"]
    /\ i2c = [enable |-> FALSE, status |-> FALSE, bytes |-> 0, waiting |-> FALSE]
    /\ left = MaxUses
    /\ resumed = FALSE

Handler ==
    \/ Dispatch \/ ServeTimer \/ ReadDemux \/ AckDemux \/ ServeModem
    \/ ReadCard \/ AckCard \/ ServeI2c \/ Return

Tasks ==
    \/ ArmTimer \/ ArmLines \/ Mask \/ Unmask \/ UseModem \/ StartFrame
    \/ \E s \in Disarmable : DisarmLine(s)
    \/ \E f \in Filters : ArmFilter(f)
    \/ \E ack \in BOOLEAN : StartTransfer(ack)

Next ==
    \/ Pump \/ CompareMatches \/ ServiceInterrupt \/ Handler \/ Tasks \/ Resume
    \/ \E f \in Filters : Complete(f)

Spec == Init /\ [][Next]_vars

\* The clock calls the pump for ever and the core takes what it is offered;
\* the handler runs to its end.  The guest unmasks what it masked: that is a
\* task's step, which interrupts of Count and Compare put off again and again.
FairSpec ==
    /\ Spec
    /\ WF_vars(Pump) /\ WF_vars(ServiceInterrupt) /\ WF_vars(Handler)
    /\ SF_vars(Unmask)
----------------------------------------------------------------------------
TypeOK ==
    /\ irq \in [pending : SUBSET Source, enable : SUBSET Source, request : BOOLEAN]
    /\ core \in [exl : BOOLEAN, mask2 : BOOLEAN, timerPending : BOOLEAN]
    /\ guest \in [at : {"task", "cause", "serve", "demux", "card"}, external : BOOLEAN,
                  todo : SUBSET Source, seen : SUBSET Filters,
                  cardSeen : SUBSET {"tx", "rx"}]
    /\ timer \in [armed : BOOLEAN, due : 1..TimerPeriod, flag : BOOLEAN]
    /\ demux \in [status : SUBSET Filters, enable : SUBSET Filters]
    /\ modem \in [ier : SUBSET {"rx", "msr", "tx"}, rx : BOOLEAN, delta : BOOLEAN,
                  fresh : BOOLEAN]
    /\ card \in [status : SUBSET {"tx", "rx"}, enable : SUBSET {"tx", "rx"},
                 tx : 0..ByteTime, rx : 0..(2 * ReplyGap), reply : 0..ReplyLength,
                 unread : BOOLEAN, frame : 0..FrameLength, got : 0..ReplyLength,
                 phase : {"idle", "sending", "receiving"}]
    /\ i2c \in [enable : BOOLEAN, status : BOOLEAN, bytes : 0..Transfer,
                waiting : BOOLEAN]
    /\ left \in 0..MaxUses
    /\ resumed \in BOOLEAN

\* Timer and demultiplexer: the pending bit is up exactly while the device has
\* a cause, whatever reads, writes, completions and restores interleave.
LinesFollowCauses ==
    /\ "timer" \in irq.pending <=> timer.flag
    /\ "demux" \in irq.pending <=> DemuxActive(demux)

\* Every byte of the card's answer is read by the guest or still to come:
\* acknowledging clears the whole status, and must not take with it a byte
\* that came after the status was read.
CardBytesAreKept ==
    card.phase = "receiving" =>
        card.reply + card.got + (IF card.unread THEN 1 ELSE 0) = ReplyLength

\* While the timer runs, every enabled cause is served in the end - a section,
\* a tick, what the modem or the card has to say, an I2C completion - although
\* an edge on a line that is already up requests nothing, and taking any
\* interrupt forgets all requests.  A restore is excused for what it does to a
\* transfer under way: RestoredLines may drop its completion.
CausesAreServed ==
    /\ \A f \in Filters :
        (timer.armed /\ "demux" \in irq.enable /\ f \in demux.status \cap demux.enable)
            ~> (f \notin demux.status \/ "demux" \notin irq.enable)
    /\ (timer.armed /\ "timer" \in irq.enable /\ timer.flag)
            ~> (~timer.flag \/ "timer" \notin irq.enable)
    /\ (timer.armed /\ "modem" \in irq.enable /\ WantsIRQ(modem))
            ~> (~WantsIRQ(modem) \/ "modem" \notin irq.enable)
    /\ (timer.armed /\ "card" \in irq.enable /\ card.phase # "idle")
            ~> (card.phase = "idle" \/ "card" \notin irq.enable)
    /\ (timer.armed /\ "i2c" \in irq.enable /\ i2c.waiting /\ ~resumed)
            ~> (~i2c.waiting \/ "i2c" \notin irq.enable \/ resumed)

=============================================================================
