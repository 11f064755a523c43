------------------------------ MODULE CsiLink ------------------------------
(***************************************************************************)
(* The front-panel microcontroller's serial link: one receive register,    *)
(* filled by a paced pump from two host-side queues that share the wire,   *)
(* the handset's frames and the card's replies to what the guest sends.    *)
(*                                                                         *)
(* The guest (external: firmware on the emulated CPU) clocks the wire by   *)
(* transmitting, one byte for each it receives, reads the register and     *)
(* acknowledges it, and switches the link on and off.                      *)
(***************************************************************************)
EXTENDS CsiFraming

CONSTANTS
    KeyPayloads,  \* payloads of Key
    Commands,     \* payloads the guest transmits
    AckPolicy,    \* the command codes that are answered (DefaultAckPolicy)
    MaxQueued,    \* MaxQueuedBytes
    MaxFrame,     \* bytes kept of one guest frame (32)
    TrafficGap,   \* TrafficInstructions, in pump intervals
    IdleGap,      \* IdleInstructions, in pump intervals
    MaxKeys, MaxCommands, MaxSwitches  \* bounds: what one history may do

(* The reply to a command: its sequence number and code, and for some codes *)
(* a body.                                                                  *)
ReplyPayload(seq, code) ==
    CASE code = 82 -> <<3, seq, code, 2>>                   \* 0x52
      [] code = 16 -> <<8, seq, code, 0, 0, 0, 0, 0, 0>>    \* 0x10
      [] code = 68 -> <<4, seq, code, 1, 255>>              \* 0x44
      [] OTHER -> <<2, seq, code>>

ASSUME CsiAssumption ==
    /\ KeyPayloads \subseteq Seq(Byte) /\ Commands \subseteq Seq(Byte)
    /\ <<>> \notin KeyPayloads \union Commands  \* a frame of nothing is an idle byte
    /\ MaxQueued \in Nat /\ MaxFrame \in Nat
    /\ TrafficGap \in Nat /\ IdleGap \in Nat
    /\ MaxKeys \in Nat /\ MaxCommands \in Nat /\ MaxSwitches \in Nat

VARIABLES
    control, intEnable,  \* the enable bits of registers 0x00 and 0x30
    data, ready,         \* the receive register
    queue, reply,        \* encoded bytes waiting: handset frames, card replies
    gap,                 \* now - lastByteAt in pump intervals, up to IdleGap
    armed, cardLive,     \* the card's power-up timer runs; the card is up
    boxBusy, txSeen,     \* the last guest byte was not idle; one came since
    inFrame, sendingReply, outEscaped,  \* the frame leaving for the guest
    inbound,             \* the de-framer of guest transmissions
    tx,                  \* guest: the rest of the frame it is transmitting
    rx, received,        \* guest: its de-framer and the messages it has made
    owedKeys, owedReplies,  \* history: messages queued and not yet received
    keysLeft, commandsLeft, switchesLeft

registers == <<control, intEnable, armed>>
outbound == <<data, ready, queue, reply, gap, cardLive, txSeen,
              inFrame, sendingReply, outEscaped>>
guest == <<rx, received>>
owed == <<owedKeys, owedReplies>>
budgets == <<keysLeft, commandsLeft, switchesLeft>>
vars == <<registers, outbound, boxBusy, inbound, tx, guest, owed, budgets>>

Enabled == control /\ intEnable

-----------------------------------------------------------------------------
(* Host: a key press.  Queue takes a whole frame or refuses it.             *)
(* Mutant: a frame that does not fit is cut short.                          *)
KeyMutantPartial(p) ==
    LET wire == SubSeq(Encode(p), 1, Min({Len(Encode(p)), MaxQueued - Len(queue)}))
    IN  /\ keysLeft > 0
        /\ queue' = queue \o wire
        /\ owedKeys' = Append(owedKeys, p)
        /\ keysLeft' = keysLeft - 1
        /\ UNCHANGED <<registers, data, ready, reply, gap, cardLive, txSeen, inFrame,
                       sendingReply, outEscaped, boxBusy, inbound, tx, guest,
                       owedReplies, commandsLeft, switchesLeft>>

Key(p) ==
    /\ keysLeft > 0
    /\ Len(queue) + Len(Encode(p)) <= MaxQueued
    /\ queue' = queue \o Encode(p)
    /\ owedKeys' = Append(owedKeys, p)
    /\ keysLeft' = keysLeft - 1
    /\ UNCHANGED <<registers, data, ready, reply, gap, cardLive, txSeen, inFrame,
                   sendingReply, outEscaped, boxBusy, inbound, tx, guest,
                   owedReplies, commandsLeft, switchesLeft>>

-----------------------------------------------------------------------------
(* Guest register writes.                                                   *)

WriteControl(on) ==
    /\ switchesLeft > 0
    /\ control' = on
    /\ switchesLeft' = switchesLeft - 1
    /\ UNCHANGED <<intEnable, armed, outbound, boxBusy, inbound, tx, guest,
                   owed, keysLeft, commandsLeft>>

(* Every enabling write restarts the card's power-up.                       *)
WriteInterruptEnable(on) ==
    /\ switchesLeft > 0
    /\ intEnable' = on
    /\ armed' = (armed \/ on)
    /\ cardLive' = (cardLive /\ ~ on)
    /\ switchesLeft' = switchesLeft - 1
    /\ UNCHANGED <<control, data, ready, queue, reply, gap, txSeen, inFrame,
                   sendingReply, outEscaped, boxBusy, inbound, tx, guest,
                   owed, keysLeft, commandsLeft>>

(* The guest frame f has ended: a well-formed command on the policy is      *)
(* answered, if the whole reply fits.                                       *)
IsAnswered(f) ==
    /\ Len(f) >= 3
    /\ Len(f) = f[1] + 1
    /\ f[3] \in AckPolicy

Reply(f) == ReplyPayload(f[2], f[3])

(* Mutant: the reply goes in front of those waiting.                        *)
AnswerMutantInFront(f) ==
    IF IsAnswered(f) /\ Len(reply) + Len(Encode(Reply(f))) <= MaxQueued
    THEN /\ reply' = Encode(Reply(f)) \o reply
         /\ owedReplies' = Append(owedReplies, Reply(f))
    ELSE UNCHANGED <<reply, owedReplies>>

Answer(f) ==
    IF IsAnswered(f) /\ Len(reply) + Len(Encode(Reply(f))) <= MaxQueued
    THEN /\ reply' = reply \o Encode(Reply(f))
         /\ owedReplies' = Append(owedReplies, Reply(f))
    ELSE UNCHANGED <<reply, owedReplies>>

(* accept: one guest byte through the inbound de-framer, which keeps only   *)
(* the first MaxFrame bytes of a frame.                                     *)
Accept(b) ==
    IF IsEnd(inbound, b)
    THEN inbound' = Fresh /\ Answer(inbound.frame)
    ELSE /\ inbound' = LET next == Collect(inbound, b)
                       IN  IF Len(next.frame) > MaxFrame
                           THEN [frame |-> inbound.frame, escaped |-> FALSE]
                           ELSE next
         /\ UNCHANGED <<reply, owedReplies>>

(* Mutant: an idle byte does not count as a transfer.                       *)
WriteDataMutantIdleIsNone(b) ==
    /\ Enabled
    /\ boxBusy' = (b # 0)
    /\ txSeen' = (txSeen \/ b # 0)
    /\ Accept(b)
    /\ UNCHANGED <<registers, data, ready, queue, gap, cardLive, inFrame,
                   sendingReply, outEscaped, guest, owedKeys, keysLeft, switchesLeft>>

(* Register 0x10.                                                           *)
WriteData(b) ==
    /\ Enabled
    /\ boxBusy' = (b # 0)
    /\ txSeen' = TRUE
    /\ Accept(b)
    /\ UNCHANGED <<registers, data, ready, queue, gap, cardLive, inFrame,
                   sendingReply, outEscaped, guest, owedKeys, keysLeft, switchesLeft>>

TransmitIdle ==
    /\ tx = <<>>
    /\ WriteData(0)
    /\ UNCHANGED <<tx, commandsLeft>>

TransmitCommand(c) ==
    /\ tx = <<>>
    /\ commandsLeft > 0
    /\ commandsLeft' = commandsLeft - 1
    /\ tx' = Tail(Encode(c))
    /\ WriteData(Head(Encode(c)))

TransmitNext ==
    /\ tx # <<>>
    /\ tx' = Tail(tx)
    /\ WriteData(Head(tx))
    /\ UNCHANGED commandsLeft

(* History: the source that had the wire is owed one message less.          *)
Settle ==
    IF sendingReply
    THEN owedReplies' = Tail(owedReplies) /\ UNCHANGED owedKeys
    ELSE owedKeys' = Tail(owedKeys) /\ UNCHANGED owedReplies

(* The receive interrupt: the guest reads the register and acknowledges it  *)
(* (register 0x20), and its own de-framer takes the byte.                   *)
Receive ==
    /\ ready
    /\ ready' = FALSE
    /\ IF ~ IsEnd(rx, data) THEN rx' = Collect(rx, data) /\ UNCHANGED <<received, owed>>
       ELSE /\ rx' = Fresh
            /\ IF rx.frame = <<>> THEN UNCHANGED <<received, owed>>
               ELSE received' = Append(received, rx.frame) /\ Settle
    /\ UNCHANGED <<registers, data, queue, reply, gap, cardLive, txSeen, inFrame,
                   sendingReply, outEscaped, boxBusy, inbound, tx, budgets>>

-----------------------------------------------------------------------------
(* The pump.  `powered` says the card's power-up delay has elapsed.         *)

(* Mutant: any zero ends the frame.                                         *)
AdvanceFrameMutantBareZero(b) ==
    /\ inFrame' = (b # End)
    /\ outEscaped' = FALSE

(* advanceFrame: a zero ends the frame only when it is not payload.         *)
AdvanceFrame(b) ==
    /\ inFrame' = (outEscaped \/ b # End)
    /\ outEscaped' = (~ outEscaped /\ b = Esc)

(* Which queue the next byte comes from: a frame that has begun keeps the   *)
(* wire while its source has bytes, otherwise replies go first.             *)
(* Mutant: replies always go first.                                         *)
FromQueueMutantReplyFirst == queue # <<>> /\ reply = <<>>

FromQueue == queue # <<>> /\ (reply = <<>> \/ (inFrame /\ ~ sendingReply))

FromReply == reply # <<>> /\ ~ FromQueue

Elapsed == IF gap < IdleGap THEN gap + 1 ELSE gap

CardUp(powered) == cardLive \/ (armed /\ powered)

MayPresent(powered) == Enabled /\ ~ ready /\ CardUp(powered)

Present(b, powered) ==
    /\ data' = b
    /\ ready' = TRUE
    /\ gap' = 0
    /\ cardLive' = CardUp(powered)

HasPace == txSeen /\ Elapsed >= TrafficGap

PumpReply(powered) ==
    /\ MayPresent(powered) /\ HasPace
    /\ FromReply
    /\ Present(Head(reply), powered)
    /\ reply' = Tail(reply)
    /\ txSeen' = FALSE
    /\ sendingReply' = TRUE
    /\ AdvanceFrame(Head(reply))
    /\ UNCHANGED <<registers, queue, boxBusy, inbound, tx, guest, owed, budgets>>

PumpQueue(powered) ==
    /\ MayPresent(powered) /\ HasPace
    /\ FromQueue
    /\ Present(Head(queue), powered)
    /\ queue' = Tail(queue)
    /\ txSeen' = FALSE
    /\ sendingReply' = FALSE
    /\ AdvanceFrame(Head(queue))
    /\ UNCHANGED <<registers, reply, boxBusy, inbound, tx, guest, owed, budgets>>

(* Nothing is queued: an idle zero, sooner when the guest is transmitting.  *)
PumpIdle(powered) ==
    /\ MayPresent(powered)
    /\ queue = <<>> /\ reply = <<>>
    /\ Elapsed >= IF boxBusy THEN TrafficGap ELSE IdleGap
    /\ Present(End, powered)
    /\ inFrame' = FALSE
    /\ outEscaped' = FALSE
    /\ UNCHANGED <<registers, queue, reply, txSeen, sendingReply, boxBusy, inbound,
                   tx, guest, owed, budgets>>

Presents(powered) ==
    /\ MayPresent(powered)
    /\ IF queue = <<>> /\ reply = <<>>
       THEN Elapsed >= IF boxBusy THEN TrafficGap ELSE IdleGap
       ELSE HasPace

PumpWaits(powered) ==
    /\ ~ Presents(powered)
    /\ gap' = Elapsed
    /\ cardLive' = CardUp(powered)
    /\ UNCHANGED <<registers, data, ready, queue, reply, txSeen, inFrame, sendingReply,
                   outEscaped, boxBusy, inbound, tx, guest, owed, budgets>>

Pump(powered) ==
    \/ PumpReply(powered)
    \/ PumpQueue(powered)
    \/ PumpIdle(powered)
    \/ PumpWaits(powered)

-----------------------------------------------------------------------------
Init ==
    /\ control = FALSE /\ intEnable = FALSE /\ armed = FALSE
    /\ data = 0 /\ ready = FALSE
    /\ queue = <<>> /\ reply = <<>>
    /\ gap = 0
    /\ cardLive = FALSE /\ boxBusy = FALSE /\ txSeen = FALSE
    /\ inFrame = FALSE /\ sendingReply = FALSE /\ outEscaped = FALSE
    /\ inbound = Fresh
    /\ tx = <<>> /\ rx = Fresh /\ received = <<>>
    /\ owedKeys = <<>> /\ owedReplies = <<>>
    /\ keysLeft = MaxKeys /\ commandsLeft = MaxCommands /\ switchesLeft = MaxSwitches

GuestNext ==
    \/ TransmitIdle
    \/ \E c \in Commands : TransmitCommand(c)
    \/ TransmitNext

Next ==
    \/ \E p \in KeyPayloads : Key(p)
    \/ \E on \in BOOLEAN : WriteControl(on) \/ WriteInterruptEnable(on)
    \/ GuestNext
    \/ Receive
    \/ \E powered \in BOOLEAN : Pump(powered)

Spec == Init /\ [][Next]_vars

(* The loop pumps the link every 16 instructions and the board timer that   *)
(* ends the power-up keeps ticking; the guest keeps exchanging bytes.       *)
FairSpec ==
    /\ Spec
    /\ WF_vars(Pump(TRUE))
    /\ WF_vars(Receive)
    /\ WF_vars(TransmitIdle \/ TransmitNext)

-----------------------------------------------------------------------------
(* Every variable has its type; no queue outgrows MaxQueuedBytes.           *)
TypeOK ==
    /\ control \in BOOLEAN /\ intEnable \in BOOLEAN /\ armed \in BOOLEAN
    /\ cardLive \in BOOLEAN /\ boxBusy \in BOOLEAN /\ txSeen \in BOOLEAN
    /\ ready \in BOOLEAN
    /\ inFrame \in BOOLEAN /\ sendingReply \in BOOLEAN /\ outEscaped \in BOOLEAN
    /\ data \in Byte
    /\ queue \in Seq(Byte) /\ Len(queue) <= MaxQueued
    /\ reply \in Seq(Byte) /\ Len(reply) <= MaxQueued
    /\ gap \in 0..IdleGap
    /\ inbound \in Receiver /\ Len(inbound.frame) <= MaxFrame
    /\ rx \in Receiver /\ tx \in Seq(Byte)

(* While a frame is leaving, its source holds the rest of it, and each      *)
(* queue holds whole frames behind that: the link never runs dry in the     *)
(* middle of a frame, the case Pump would start afresh from.                *)
QueuesHoldWholeFrames ==
    /\ inFrame => IF sendingReply THEN reply # <<>> ELSE queue # <<>>
    /\ Framed(queue, outEscaped /\ ~ sendingReply)
    /\ Framed(reply, outEscaped /\ sendingReply)

(* The link's idea of the outgoing frame is the one a receiver of its bytes *)
(* forms: after the byte in the register, the guest's de-framer is inside a *)
(* frame, or behind an escape, exactly when the link says so.               *)
FramingAgrees ==
    LET after == IF ~ ready THEN rx
                 ELSE IF IsEnd(rx, data) THEN Fresh ELSE Collect(rx, data)
    IN  /\ after.escaped <=> outEscaped
        /\ after # Fresh <=> inFrame

(* A frame that has begun is finished before the other source, or an idle   *)
(* zero, gets the wire.                                                     *)
NeverSpliced ==
    [][~ ready /\ ready' /\ inFrame =>
          /\ sendingReply' = sendingReply
          /\ <<queue', reply'>> # <<queue, reply>>]_vars

Wire == INSTANCE CsiWire WITH
            Keys <- KeyPayloads, Answers <- {Reply(c) : c \in {d \in Commands : Len(d) >= 3}},
            handset <- owedKeys, card <- owedReplies, delivered <- received

(* The link implements the wire: no message is split, lost, repeated or     *)
(* overtaken by a later one of its own source.                              *)
ImplementsWire == Wire!Spec

(* Every key taken reaches the guest if the link stays switched on and the  *)
(* guest's commands, whose replies go first, are finitely many.             *)
EveryKeyArrives ==
    <>[]Enabled => (owedKeys # <<>> ~> owedKeys = <<>>)
=============================================================================
