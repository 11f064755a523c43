---------------------------- MODULE BoardProofs ----------------------------
(***************************************************************************)
(* The pending bits of the timer and of the demultiplexer are up exactly   *)
(* while the devices have a cause, for every set of filters, every pace    *)
(* and every history, restores included.                                   *)
(*                                                                         *)
(* And no byte of the card's answer is lost between it and the guest, nor  *)
(* the completion of an I2C transfer.                                      *)
(*                                                                         *)
(* LinesFollowCauses is inductive together with the types.  That bytes are *)
(* kept is not: it holds because a transmission that is being reported     *)
(* excludes reception, so that what the driver read of the status is all   *)
(* that its acknowledgement clears.  CardSound says so.  The lemmas treat  *)
(* the controller and the card as values; the steps of the board are then  *)
(* sorted by which of them they touch.                                     *)
(***************************************************************************)
EXTENDS Board, TLAPS

Cards ==
    [status : SUBSET {"tx", "rx"}, enable : SUBSET {"tx", "rx"}, tx : 0..ByteTime,
     rx : 0..(2 * ReplyGap), reply : 0..ReplyLength, unread : BOOLEAN,
     frame : 0..FrameLength, got : 0..ReplyLength,
     phase : {"idle", "sending", "receiving"}]

\* The card and its driver, seen being what the driver has read of the status
\* and not acknowledged yet.
CardSound(p, seen) ==
    /\ p \in Cards
    /\ seen \subseteq p.status
    /\ "rx" \in p.status <=> p.unread
    /\ p.got < ReplyLength
    /\ p.phase = "idle" =>
          p.reply = 0 /\ ~p.unread /\ p.got = 0 /\ p.tx = 0 /\ "tx" \notin p.status
    /\ p.phase = "sending" =>
          /\ "tx" \in p.enable
          /\ ~p.unread
          /\ p.got = 0
          /\ p.tx = 0 <=> "tx" \in p.status
          /\ p.reply = IF p.frame = 0 THEN ReplyLength ELSE 0
    /\ p.phase = "receiving" =>
          /\ p.tx = 0
          /\ "tx" \notin p.status
          /\ p.reply + p.got + (IF p.unread THEN 1 ELSE 0) = ReplyLength

CardInv ==
    /\ CardSound(card, guest.cardSeen)
    /\ guest.at # "card" => guest.cardSeen = {}

\* A handler runs exactly while the core holds off further interrupts, so none
\* comes between the driver's reading and its acknowledgement.
HandlerInv == core.exl <=> guest.at # "task"

IInv == TypeOK /\ LinesFollowCauses /\ CardInv /\ HandlerInv

\* The controller's state has the three parts its operations read.
Controllers ==
    [pending : SUBSET Source, enable : SUBSET Source, request : BOOLEAN]

\* The two operations the others are made of.
LEMMA PutIs ==
    ASSUME NEW c \in Controllers, NEW s \in Source, NEW up \in BOOLEAN
    PROVE  /\ Put(c, s, up) \in Controllers
           /\ Put(c, s, up).pending = IF up THEN c.pending \cup {s} ELSE c.pending \ {s}
  <1>1. CASE up
    BY <1>1 DEF Put, Controllers
  <1>2. CASE ~up
    BY <1>2 DEF Put, Controllers
  <1> QED  BY <1>1, <1>2

LEMMA SignalIs ==
    ASSUME NEW c \in Controllers, NEW b \in Controllers
    PROVE  /\ Signal(c) \in Controllers /\ Signal(c).pending = c.pending
           /\ SignalNew(b, c) \in Controllers /\ SignalNew(b, c).pending = c.pending
  <1>1. Signal(c) \in Controllers /\ Signal(c).pending = c.pending
    BY DEF Signal, Controllers
  <1> QED  BY <1>1 DEF SignalNew

\* What each operation does: it keeps the type; a line's own pending bit
\* follows the argument, a pulse sets it, and no other bit moves.
LEMMA SetLineIs ==
    ASSUME NEW c \in Controllers, NEW s \in Source, NEW up \in BOOLEAN
    PROVE  /\ SetLine(c, s, up) \in Controllers
           /\ SetLine(c, s, up).pending =
                  IF up THEN c.pending \cup {s} ELSE c.pending \ {s}
  <1> DEFINE put == Put(c, s, up)
  <1>1. /\ put \in Controllers
        /\ put.pending = IF up THEN c.pending \cup {s} ELSE c.pending \ {s}
    BY PutIs
  <1>2. SetLine(c, s, up) = SignalNew(c, put)
    BY DEF SetLine
  <1> HIDE DEF put
  <1>3. SignalNew(c, put) \in Controllers /\ SignalNew(c, put).pending = put.pending
    BY <1>1, SignalIs
  <1> QED  BY <1>1, <1>2, <1>3

LEMMA SetStatusIs ==
    ASSUME NEW c \in Controllers, NEW s \in Source, NEW up \in BOOLEAN
    PROVE  /\ SetStatus(c, s, up) \in Controllers
           /\ SetStatus(c, s, up).pending =
                  IF up THEN c.pending \cup {s} ELSE c.pending \ {s}
  BY PutIs DEF SetStatus

LEMMA PulseIs ==
    ASSUME NEW c \in Controllers, NEW s \in Source
    PROVE  /\ Pulse(c, s) \in Controllers
           /\ Pulse(c, s).pending = c.pending \cup {s}
  <1>1. Put(c, s, TRUE) \in Controllers /\ Put(c, s, TRUE).pending = c.pending \cup {s}
    BY PutIs
  <1> QED  BY <1>1, SignalIs DEF Pulse

LEMMA WriteEnableIs ==
    ASSUME NEW c \in Controllers, NEW mask \in SUBSET Source
    PROVE  /\ WriteEnable(c, mask) \in Controllers
           /\ WriteEnable(c, mask).pending = c.pending
  <1>1. /\ [c EXCEPT !.enable = mask] \in Controllers
        /\ [c EXCEPT !.enable = mask].pending = c.pending
    BY DEF Controllers
  <1> QED  BY <1>1, SignalIs DEF WriteEnable
----------------------------------------------------------------------------
(* The card as a value. *)

\* The constants are numbers, and large enough for their use.
LEMMA Constants ==
    /\ TimerPeriod \in Nat /\ TimerPeriod >= 1
    /\ FrameLength \in Nat /\ FrameLength >= 1
    /\ ReplyLength \in Nat /\ ReplyLength >= 1
    /\ Transfer \in Nat /\ Transfer >= 1
    /\ ByteTime \in Nat /\ ByteTime >= 2
    /\ ReplyGap \in Nat /\ ReplyGap >= 2
    /\ MaxUses \in Nat
  BY BoardAssumption

\* A frame that is begun or goes on is sound: the byte under way is neither
\* reported yet nor are there causes left from before.
LEMMA SendingIsSound ==
    ASSUME NEW p \in Cards,
           p.phase = "sending", p.status = {}, "tx" \in p.enable, p.unread = FALSE,
           p.got = 0, p.reply = 0, p.frame > 0
    PROVE  CardSound(SendByte(p), {})
  <1> DEFINE sent == [p EXCEPT !.tx = ByteTime, !.frame = @ - 1]
             last == [sent EXCEPT !.reply = ReplyLength, !.rx = 2 * ReplyGap]
  <1>0. /\ ByteTime \in 0..ByteTime /\ p.frame - 1 \in 0..FrameLength
        /\ ReplyLength \in 0..ReplyLength /\ 2 * ReplyGap \in 0..(2 * ReplyGap)
    BY Constants DEF Cards
  <1>1. /\ sent \in Cards
        /\ sent.tx = ByteTime /\ sent.frame = p.frame - 1
        /\ sent.phase = p.phase /\ sent.status = p.status /\ sent.enable = p.enable
        /\ sent.unread = p.unread /\ sent.got = p.got /\ sent.reply = p.reply
    BY <1>0 DEF Cards
  <1>2. SendByte(p) = IF sent.frame > 0 THEN sent ELSE last
    BY DEF SendByte
  <1> HIDE DEF sent
  <1>3. /\ last \in Cards
        /\ last.reply = ReplyLength /\ last.tx = sent.tx /\ last.frame = sent.frame
        /\ last.phase = sent.phase /\ last.status = sent.status
        /\ last.enable = sent.enable /\ last.unread = sent.unread
        /\ last.got = sent.got
    BY <1>0, <1>1 DEF Cards
  <1> HIDE DEF last
  <1>4. CASE sent.frame > 0
    BY <1>1, <1>2, <1>4, Constants DEF CardSound
  <1>5. CASE ~(sent.frame > 0)
    <2>1. sent.frame = 0
      BY <1>1, <1>5 DEF Cards
    <2> QED  BY <1>1, <1>2, <1>3, <1>5, <2>1, Constants DEF CardSound
  <1> QED  BY <1>4, <1>5

\* The transmitter's part of the pump: a byte that is out is reported.
LEMMA PumpTxIsSound ==
    ASSUME NEW p, NEW seen, CardSound(p, seen)
    PROVE  CardSound(PumpTx(p), seen)
  <1>1. p \in Cards
    BY DEF CardSound
  <1>2. CASE p.tx = 0
    BY <1>2 DEF PumpTx
  <1>3. CASE p.tx > 1
    <2> DEFINE q == [p EXCEPT !.tx = @ - 1]
    <2>1. /\ q \in Cards /\ q.tx = p.tx - 1
          /\ q.status = p.status /\ q.enable = p.enable /\ q.unread = p.unread
          /\ q.got = p.got /\ q.phase = p.phase /\ q.reply = p.reply /\ q.frame = p.frame
      BY <1>1, <1>3, Constants DEF Cards
    <2>2. PumpTx(p) = q /\ p.tx # 0 /\ p.tx \in Nat
      BY <1>1, <1>3, Constants DEF PumpTx, Cards
    <2> HIDE DEF q
    <2> QED  BY <1>3, <2>1, <2>2 DEF CardSound
  <1>4. CASE p.tx = 1
    <2> DEFINE q == [p EXCEPT !.tx = 0, !.status = @ \cup {"tx"}]
    <2>0. 0 \in 0..ByteTime
      BY Constants
    <2>1. /\ q \in Cards /\ q.tx = 0 /\ q.status = p.status \cup {"tx"}
          /\ q.enable = p.enable /\ q.unread = p.unread
          /\ q.got = p.got /\ q.phase = p.phase /\ q.reply = p.reply /\ q.frame = p.frame
      BY <1>1, <2>0 DEF Cards
    <2>2. PumpTx(p) = q
      BY <1>4 DEF PumpTx
    <2> HIDE DEF q
    <2>3. "rx" \in q.status <=> "rx" \in p.status
      BY <2>1
    <2>4. p.phase = "sending"
      BY <1>1, <1>4 DEF CardSound, Cards
    <2> QED  BY <2>1, <2>2, <2>3, <2>4 DEF CardSound
  <1> QED  BY <1>1, <1>2, <1>3, <1>4, Constants DEF Cards

\* The receiver's part: a byte comes only when the one before it has been
\* acknowledged and no transmission is reported.
LEMMA PumpRxIsSound ==
    ASSUME NEW p, NEW seen, CardSound(p, seen)
    PROVE  CardSound(PumpRx(p), seen)
  <1>1. p \in Cards
    BY DEF CardSound
  <1>2. CASE ~MayReceive(p)
    BY <1>2 DEF PumpRx
  <1>3. CASE MayReceive(p) /\ p.rx > 0
    <2> DEFINE q == [p EXCEPT !.rx = @ - 1]
    <2>1. /\ q \in Cards /\ q.tx = p.tx
          /\ q.status = p.status /\ q.enable = p.enable /\ q.unread = p.unread
          /\ q.got = p.got /\ q.phase = p.phase /\ q.reply = p.reply /\ q.frame = p.frame
      BY <1>1, <1>3, Constants DEF Cards
    <2>2. PumpRx(p) = q
      BY <1>3 DEF PumpRx
    <2> HIDE DEF q
    <2> QED  BY <2>1, <2>2 DEF CardSound
  <1>4. CASE MayReceive(p) /\ ~(p.rx > 0)
    <2> DEFINE q == [p EXCEPT !.reply = @ - 1, !.status = @ \cup {"rx"},
                              !.rx = ReplyGap, !.unread = TRUE]
    <2>1. /\ p.reply > 0 /\ "rx" \notin p.status /\ "tx" \notin p.enable
          /\ p.phase = "receiving" /\ p.unread = FALSE
      BY <1>1, <1>4 DEF MayReceive, CardSound, Cards
    <2>0. p.reply - 1 \in 0..ReplyLength /\ ReplyGap \in 0..(2 * ReplyGap)
      BY <1>1, <2>1, Constants DEF Cards
    <2>2. /\ q \in Cards /\ q.tx = p.tx /\ q.status = p.status \cup {"rx"}
          /\ q.unread = TRUE /\ q.got = p.got /\ q.phase = p.phase
          /\ q.reply = p.reply - 1
      BY <1>1, <2>0 DEF Cards
    <2>3. PumpRx(p) = q
      BY <1>4 DEF PumpRx
    <2> HIDE DEF q
    <2>4. /\ "tx" \in q.status <=> "tx" \in p.status
          /\ "rx" \in q.status
      BY <2>2
    <2>5. q.reply + q.got + 1 = p.reply + p.got
      BY <1>1, <2>2 DEF Cards
    <2> QED  BY <2>1, <2>2, <2>3, <2>4, <2>5, Constants DEF CardSound, Cards
  <1> QED  BY <1>2, <1>3, <1>4

\* A pump keeps the card sound, whatever the driver has read before it.
LEMMA PumpIsSound ==
    ASSUME NEW p, NEW seen, CardSound(p, seen)
    PROVE  CardSound(PumpCard(p), seen)
  BY PumpTxIsSound, PumpRxIsSound DEF PumpCard

\* A byte that is read and acknowledged has been counted, and after the last of
\* the answer the driver rests.
LEMMA ReadingIsSound ==
    ASSUME NEW p, NEW seen, CardSound(p, seen),
           seen # {}, "tx" \notin seen
    PROVE  CardSound(WholeReply(NextByte(Acknowledge(p, seen), seen)), {})
  <1> DEFINE a == [[p EXCEPT !.got = @ + 1, !.unread = FALSE] EXCEPT !.status = {}]
             z == [a EXCEPT !.phase = "idle", !.got = 0]
  <1>1. p \in Cards /\ seen \subseteq {"tx", "rx"}
    BY DEF CardSound, Cards
  <1>2. "rx" \in seen /\ "rx" \in p.status /\ p.unread = TRUE
    BY <1>1 DEF CardSound, Cards
  <1>3. p.phase = "receiving" /\ p.tx = 0 /\ p.reply + p.got + 1 = ReplyLength
    BY <1>1, <1>2 DEF CardSound, Cards
  <1>4. p.got + 1 \in 0..ReplyLength /\ 0 \in 0..ReplyLength
    BY <1>1, <1>3, Constants DEF Cards
  <1>5. /\ a \in Cards /\ a.got = p.got + 1 /\ a.unread = FALSE /\ a.status = {}
        /\ a.phase = p.phase /\ a.tx = p.tx /\ a.reply = p.reply
    BY <1>1, <1>4 DEF Cards
  <1>6. NextByte(Acknowledge(p, seen), seen) = a
    BY <1>2 DEF Acknowledge, TakeByte, NextByte
  <1> HIDE DEF a
  <1>7. /\ z \in Cards /\ z.got = 0 /\ z.unread = FALSE /\ z.status = {}
        /\ z.phase = "idle" /\ z.tx = a.tx /\ z.reply = a.reply
    BY <1>4, <1>5 DEF Cards
  <1>8. WholeReply(a) = IF a.got = ReplyLength THEN z ELSE a
    BY DEF WholeReply
  <1> HIDE DEF z
  <1>9. CASE a.got = ReplyLength
    <2>1. p.reply = 0
      BY <1>1, <1>3, <1>5, <1>9 DEF Cards
    <2> QED  BY <1>3, <1>5, <1>6, <1>7, <1>8, <1>9, <2>1, Constants DEF CardSound
  <1>10. CASE a.got # ReplyLength
    <2>1. a.got < ReplyLength /\ a.reply + a.got = ReplyLength
      BY <1>1, <1>3, <1>4, <1>5, <1>10, Constants DEF Cards
    <2>2. a.got \in Nat /\ a.reply \in Nat
      BY <1>5, Constants DEF Cards
    <2> QED  BY <1>3, <1>5, <1>6, <1>8, <1>10, <2>1, <2>2 DEF CardSound
  <1> QED  BY <1>9, <1>10

\* The acknowledgement of a transmission goes on with the frame, or with the
\* answer when the frame is out.
LEMMA SendingOnIsSound ==
    ASSUME NEW p, NEW seen, CardSound(p, seen), "tx" \in seen
    PROVE  CardSound(WholeReply(NextByte(Acknowledge(p, seen), seen)), {})
  <1> DEFINE a == [p EXCEPT !.status = {}]
             r == [a EXCEPT !.enable = {"rx"}, !.phase = "receiving"]
  <1>1. p \in Cards /\ "tx" \in p.status
    BY DEF CardSound
  <1>2. p.phase = "sending"
    BY <1>1 DEF CardSound, Cards
  <1>3. /\ p.unread = FALSE /\ p.got = 0 /\ p.tx = 0 /\ "tx" \in p.enable
        /\ p.reply = IF p.frame = 0 THEN ReplyLength ELSE 0
    BY <1>1, <1>2 DEF CardSound, Cards
  <1>4. "rx" \notin seen
    BY <1>1, <1>3 DEF CardSound
  <1>5. /\ a \in Cards /\ a.status = {} /\ a.enable = p.enable /\ a.tx = p.tx
        /\ a.unread = p.unread /\ a.got = p.got /\ a.reply = p.reply
        /\ a.frame = p.frame /\ a.phase = p.phase
    BY <1>1 DEF Cards
  <1>6. Acknowledge(p, seen) = a
    BY <1>4 DEF Acknowledge, TakeByte
  <1> HIDE DEF a
  <1>7. NextByte(a, seen) = IF a.frame > 0 THEN SendByte(a) ELSE r
    BY <1>2, <1>5 DEF NextByte
  <1>8. /\ r \in Cards /\ r.status = a.status /\ r.tx = a.tx /\ r.unread = a.unread
        /\ r.got = a.got /\ r.reply = a.reply /\ r.phase = "receiving"
    BY <1>5 DEF Cards
  <1> HIDE DEF r
  <1>9. CASE a.frame > 0
    <2>1. a.reply = 0
      BY <1>3, <1>5, <1>9 DEF Cards
    <2>2. CardSound(SendByte(a), {})
      BY <1>2, <1>3, <1>5, <1>9, <2>1, SendingIsSound
    <2>3. SendByte(a).got # ReplyLength
      BY <2>2, Constants DEF CardSound, Cards
    <2> QED  BY <1>6, <1>7, <1>9, <2>2, <2>3 DEF WholeReply
  <1>10. CASE ~(a.frame > 0)
    <2>1. a.frame = 0
      BY <1>5, <1>10 DEF Cards
    <2>2. r.reply = ReplyLength /\ r.got = 0 /\ r.tx = 0 /\ r.unread = FALSE
          /\ r.status = {}
      BY <1>3, <1>5, <1>8, <2>1
    <2>3. CardSound(r, {})
      BY <1>8, <2>2, Constants DEF CardSound
    <2>4. WholeReply(r) = r
      BY <2>2, Constants DEF WholeReply
    <2> QED  BY <1>6, <1>7, <1>10, <2>3, <2>4
  <1> QED  BY <1>9, <1>10

\* Whatever the driver read, its acknowledgement leaves the card sound.
LEMMA AcknowledgementIsSound ==
    ASSUME NEW p, NEW seen, CardSound(p, seen)
    PROVE  CardSound(WholeReply(NextByte(Acknowledge(p, seen), seen)), {})
  <1>1. CASE seen = {}
    <2>1. NextByte(Acknowledge(p, seen), seen) = p
      BY <1>1 DEF NextByte, Acknowledge
    <2>2. p.got # ReplyLength
      BY Constants DEF CardSound, Cards
    <2> QED  BY <1>1, <2>1, <2>2 DEF WholeReply
  <1> QED  BY <1>1, ReadingIsSound, SendingOnIsSound

\* A card at rest takes a new frame.
LEMMA StartIsSound ==
    ASSUME NEW p, NEW seen, CardSound(p, seen), p.phase = "idle"
    PROVE  CardSound(SendByte([p EXCEPT !.phase = "sending", !.enable = {"tx", "rx"},
                                        !.frame = FrameLength]), {})
  <1> DEFINE q == [p EXCEPT !.phase = "sending", !.enable = {"tx", "rx"},
                            !.frame = FrameLength]
  <1>1. p \in Cards /\ FrameLength \in 0..FrameLength
    BY Constants DEF CardSound
  <1>2. /\ p.reply = 0 /\ p.unread = FALSE /\ p.got = 0
        /\ "tx" \notin p.status /\ "rx" \notin p.status
    BY <1>1 DEF CardSound, Cards
  <1>3. p.status = {}
    BY <1>1, <1>2 DEF Cards
  <1>4. /\ q \in Cards /\ q.phase = "sending" /\ q.status = p.status
        /\ q.enable = {"tx", "rx"} /\ q.unread = p.unread /\ q.got = p.got
        /\ q.reply = p.reply /\ q.frame = FrameLength
    BY <1>1 DEF Cards
  <1> HIDE DEF q
  <1>5. /\ q.status = {} /\ "tx" \in q.enable /\ q.unread = FALSE
        /\ q.got = 0 /\ q.reply = 0 /\ q.frame > 0
    BY <1>2, <1>3, <1>4, Constants
  <1>6. CardSound(SendByte(q), {})
    BY <1>4, <1>5, SendingIsSound
  <1> QED  BY <1>6 DEF q
----------------------------------------------------------------------------
(* The invariant. *)

LEMMA InitIsSound == Init => IInv
  <1> SUFFICES ASSUME Init PROVE IInv
    OBVIOUS
  <1>0. /\ 0 \in 0..ByteTime /\ 0 \in 0..(2 * ReplyGap) /\ 0 \in 0..ReplyLength
        /\ 0 \in 0..FrameLength /\ 0 \in 0..Transfer /\ MaxUses \in 0..MaxUses
        /\ TimerPeriod \in 1..TimerPeriod
    BY Constants
  <1>1. TypeOK
    BY <1>0 DEF Init, TypeOK
  <1>2. LinesFollowCauses
    BY DEF Init, LinesFollowCauses, DemuxActive
  <1>3. CardInv
    BY <1>0, Constants DEF Init, CardInv, CardSound, Cards
  <1>4. HandlerInv
    BY DEF Init, HandlerInv
  <1> QED  BY <1>1, <1>2, <1>3, <1>4 DEF IInv

\* The parts of the type that are about one device each.
TypeOfGuest ==
    guest \in [at : {"task", "cause", "serve", "demux", "card"}, external : BOOLEAN,
               todo : SUBSET Source, seen : SUBSET Filters,
               cardSeen : SUBSET {"tx", "rx"}]
TypeOfTimer == timer \in [armed : BOOLEAN, due : 1..TimerPeriod, flag : BOOLEAN]
TypeOfDemux == demux \in [status : SUBSET Filters, enable : SUBSET Filters]
TypeOfModem ==
    modem \in [ier : SUBSET {"rx", "msr", "tx"}, rx : BOOLEAN, delta : BOOLEAN,
               fresh : BOOLEAN]
TypeOfI2c ==
    i2c \in [enable : BOOLEAN, status : BOOLEAN, bytes : 0..Transfer, waiting : BOOLEAN]
TypeOfCore == core \in [exl : BOOLEAN, mask2 : BOOLEAN, timerPending : BOOLEAN]

LEMMA TypeInParts ==
    TypeOK <=> /\ irq \in Controllers /\ TypeOfCore /\ TypeOfGuest /\ TypeOfTimer
               /\ TypeOfDemux /\ TypeOfModem /\ card \in Cards /\ TypeOfI2c
               /\ left \in 0..MaxUses /\ resumed \in BOOLEAN
  BY DEF TypeOK, Controllers, TypeOfCore, TypeOfGuest, TypeOfTimer, TypeOfDemux,
         TypeOfModem, Cards, TypeOfI2c

\* What the invariant says of the controller, the timer and the demultiplexer,
\* and what it says of the card and its driver.
LineInv ==
    /\ irq \in Controllers /\ TypeOfTimer /\ TypeOfDemux
    /\ LinesFollowCauses

RestInv ==
    /\ TypeOfCore /\ TypeOfGuest /\ TypeOfModem /\ TypeOfI2c
    /\ left \in 0..MaxUses /\ resumed \in BOOLEAN
    /\ HandlerInv

LEMMA InvInParts == IInv <=> LineInv /\ RestInv /\ CardInv
  BY TypeInParts DEF IInv, LineInv, RestInv, CardInv, CardSound

\* Steps that touch no line, no timer and no demultiplexer.
LEMMA LinesUntouched ==
    ASSUME LineInv, UNCHANGED <<irq, timer, demux>>
    PROVE  LineInv'
  BY DEF LineInv, LinesFollowCauses, TypeOfTimer, TypeOfDemux

\* Steps that leave the card and its driver alone.
LEMMA CardUntouched ==
    ASSUME CardInv, card' = card,
           guest' = guest \/ (guest'.cardSeen = {} /\ guest.cardSeen = {})
    PROVE  CardInv'
  BY DEF CardInv

\* A line that belongs to neither timer nor demultiplexer moves.
LEMMA OtherLineMoves ==
    ASSUME LineInv, UNCHANGED <<timer, demux>>, irq' \in Controllers,
           "timer" \in irq'.pending <=> "timer" \in irq.pending,
           "demux" \in irq'.pending <=> "demux" \in irq.pending
    PROVE  LineInv'
  BY DEF LineInv, LinesFollowCauses, TypeOfTimer, TypeOfDemux

LEMMA UseIs == ASSUME left \in 0..MaxUses, MaxUses \in Nat, Use PROVE left' \in 0..MaxUses
  BY DEF Use

\* What the pump leaves of the lines.
LEMMA PumpedLines ==
    ASSUME irq \in Controllers, NEW ticked \in BOOLEAN, NEW p
    PROVE  /\ IrqAfterPump(ticked, p) \in Controllers
           /\ "timer" \in IrqAfterPump(ticked, p).pending
                 <=> ticked \/ "timer" \in irq.pending
           /\ "demux" \in IrqAfterPump(ticked, p).pending <=> "demux" \in irq.pending
           /\ "i2c" \in IrqAfterPump(ticked, p).pending <=> "i2c" \in irq.pending
  <1> DEFINE a == IF ticked THEN Pulse(irq, "timer") ELSE irq
             want == WantsIRQ(modem)
             b == SetStatus(a, "modem", want)
             d == IF want /\ (modem.fresh \/ ticked) THEN Pulse(b, "modem") ELSE b
  <1>1. {"timer", "demux", "modem", "card"} \subseteq Source
    BY DEF Source
  <1>2. want \in BOOLEAN /\ CardActive(p) \in BOOLEAN
    BY DEF WantsIRQ, CardActive
  <1>3. /\ a \in Controllers
        /\ a.pending = IF ticked THEN irq.pending \cup {"timer"} ELSE irq.pending
    BY <1>1, PulseIs
  <1>4. IrqAfterPump(ticked, p) = SetLine(d, "card", CardActive(p))
    BY DEF IrqAfterPump
  <1> HIDE DEF a, want
  <1>5. /\ b \in Controllers
        /\ b.pending = IF want THEN a.pending \cup {"modem"} ELSE a.pending \ {"modem"}
    BY <1>1, <1>2, <1>3, SetStatusIs
  <1> HIDE DEF b
  <1>6. d \in Controllers /\ (d.pending = b.pending \cup {"modem"} \/ d.pending = b.pending)
    BY <1>1, <1>5, PulseIs
  <1> HIDE DEF d
  <1>7. /\ SetLine(d, "card", CardActive(p)) \in Controllers
        /\ SetLine(d, "card", CardActive(p)).pending =
             IF CardActive(p) THEN d.pending \cup {"card"} ELSE d.pending \ {"card"}
    BY <1>1, <1>2, <1>6, SetLineIs
  <1> QED  BY <1>3, <1>4, <1>5, <1>6, <1>7

\* What a restore leaves of them: the devices that have a cause are up.
LEMMA RestoredLinesAre ==
    ASSUME LineInv, TypeOfI2c
    PROVE  /\ RestoredLines \in Controllers
           /\ "timer" \in RestoredLines.pending <=> timer.flag
           /\ "demux" \in RestoredLines.pending <=> DemuxActive(demux)
           /\ "i2c" \in RestoredLines.pending <=> i2c.enable /\ i2c.status
  <1> DEFINE a == SetLine(irq, "timer", timer.flag)
             b == SetLine(a, "demux", DemuxActive(demux))
             d == SetStatus(b, "modem", WantsIRQ(modem))
             e == SetLine(d, "card", CardActive(card))
  <1>1. {"timer", "demux", "modem", "card", "i2c"} \subseteq Source
    BY DEF Source
  <1>2. /\ WantsIRQ(modem) \in BOOLEAN /\ CardActive(card) \in BOOLEAN
        /\ DemuxActive(demux) \in BOOLEAN /\ timer.flag \in BOOLEAN
        /\ (i2c.enable /\ i2c.status) \in BOOLEAN
    BY DEF WantsIRQ, CardActive, DemuxActive, LineInv, TypeOfTimer
  <1>3. /\ a \in Controllers
        /\ a.pending = IF timer.flag THEN irq.pending \cup {"timer"}
                       ELSE irq.pending \ {"timer"}
    BY <1>1, <1>2, SetLineIs DEF LineInv
  <1>4. RestoredLines = SetLine(e, "i2c", i2c.enable /\ i2c.status)
    BY DEF RestoredLines
  <1> HIDE DEF a
  <1>5. /\ b \in Controllers
        /\ b.pending = IF DemuxActive(demux) THEN a.pending \cup {"demux"}
                       ELSE a.pending \ {"demux"}
    BY <1>1, <1>2, <1>3, SetLineIs
  <1> HIDE DEF b
  <1>6. /\ d \in Controllers
        /\ d.pending = IF WantsIRQ(modem) THEN b.pending \cup {"modem"}
                       ELSE b.pending \ {"modem"}
    BY <1>1, <1>2, <1>5, SetStatusIs
  <1> HIDE DEF d
  <1>7. /\ e \in Controllers
        /\ e.pending = IF CardActive(card) THEN d.pending \cup {"card"}
                       ELSE d.pending \ {"card"}
    BY <1>1, <1>2, <1>6, SetLineIs
  <1> HIDE DEF e
  <1>8. /\ RestoredLines \in Controllers
        /\ RestoredLines.pending = IF i2c.enable /\ i2c.status THEN e.pending \cup {"i2c"}
                                   ELSE e.pending \ {"i2c"}
    BY <1>1, <1>2, <1>4, <1>7, SetLineIs
  <1> QED  BY <1>2, <1>3, <1>5, <1>6, <1>7, <1>8

\* A step keeps the invariant when it keeps the three parts.
LEMMA Together == LineInv' /\ RestInv' /\ CardInv' => IInv'
  BY DEF IInv, LineInv, RestInv, CardInv, CardSound, TypeOK, Controllers, TypeOfCore,
         TypeOfGuest, TypeOfTimer, TypeOfDemux, TypeOfModem, Cards, TypeOfI2c

LEMMA PumpStep == IInv /\ Pump => IInv'
  <1> SUFFICES ASSUME IInv, Pump PROVE IInv'
    OBVIOUS
  <1>1. LineInv /\ RestInv /\ CardInv
    BY InvInParts
  <1>2. TimerExpires \in BOOLEAN
    BY DEF TimerExpires
  <1>3. /\ irq' \in Controllers
        /\ "timer" \in irq'.pending <=> TimerExpires \/ "timer" \in irq.pending
        /\ "demux" \in irq'.pending <=> "demux" \in irq.pending
    BY <1>1, <1>2, PumpedLines DEF Pump, LineInv
  <1>4. TypeOfTimer' /\ (timer'.flag <=> TimerExpires \/ timer.flag)
    <2>1. timer' = PumpTimer(timer)
      BY DEF Pump
    <2>2. CASE ~timer.armed
      BY <1>1, <2>1, <2>2 DEF PumpTimer, TimerExpires, LineInv, TypeOfTimer
    <2>3. CASE timer.armed /\ timer.due > 1
      <3>1. timer.due - 1 \in 1..TimerPeriod /\ timer.due # 1
        BY <1>1, <2>3, Constants DEF LineInv, TypeOfTimer
      <3> QED
        BY <1>1, <2>1, <2>3, <3>1 DEF PumpTimer, TimerExpires, LineInv, TypeOfTimer
    <2>4. CASE timer.armed /\ ~(timer.due > 1)
      <3>1. timer.due = 1 /\ TimerPeriod \in 1..TimerPeriod
        BY <1>1, <2>4, Constants DEF LineInv, TypeOfTimer
      <3> QED
        BY <1>1, <2>1, <2>4, <3>1 DEF PumpTimer, TimerExpires, LineInv, TypeOfTimer
    <2> QED  BY <2>2, <2>3, <2>4
  <1>5. LineInv'
    BY <1>1, <1>3, <1>4 DEF Pump, LineInv, LinesFollowCauses, TypeOfDemux
  <1>6. TypeOfModem'
    BY <1>1 DEF Pump, PumpModem, WantsIRQ, RestInv, TypeOfModem
  <1>7. RestInv'
    BY <1>1, <1>6 DEF Pump, RestInv, TypeOfCore, TypeOfGuest, TypeOfI2c, HandlerInv
  <1>8. CardInv'
    BY <1>1, PumpIsSound DEF Pump, CardInv
  <1> QED  BY <1>5, <1>7, <1>8, Together

LEMMA CompleteStep ==
    ASSUME IInv, NEW f \in Filters, Complete(f) \/ ArmFilter(f)
    PROVE  IInv'
  <1>1. LineInv /\ RestInv /\ CardInv
    BY InvInParts
  <1>2. DemuxActive(demux') \in BOOLEAN /\ {"timer", "demux"} \subseteq Source
    BY DEF DemuxActive, Source
  <1>3. irq' = SetLine(irq, "demux", DemuxActive(demux'))
    BY DEF Complete, ArmFilter
  <1>4. /\ irq' \in Controllers
        /\ "demux" \in irq'.pending <=> DemuxActive(demux')
        /\ "timer" \in irq'.pending <=> "timer" \in irq.pending
    <2> DEFINE up == DemuxActive(demux')
    <2>1. irq \in Controllers /\ up \in BOOLEAN /\ irq' = SetLine(irq, "demux", up)
      BY <1>1, <1>2, <1>3 DEF LineInv
    <2> HIDE DEF up
    <2>2. /\ irq' \in Controllers
          /\ irq'.pending = IF up THEN irq.pending \cup {"demux"}
                            ELSE irq.pending \ {"demux"}
      BY <1>2, <2>1, SetLineIs
    <2>3. "demux" \in irq'.pending <=> up
      BY <2>2
    <2> QED  BY <2>2, <2>3 DEF up
  <1>5. TypeOfDemux' /\ timer' = timer
    <2>1. CASE Complete(f)
      BY <1>1, <2>1 DEF Complete, LineInv, TypeOfDemux
    <2>2. CASE ArmFilter(f)
      BY <1>1, <2>2 DEF ArmFilter, LineInv, TypeOfDemux
    <2> QED  BY <2>1, <2>2
  <1>6. LineInv'
    BY <1>1, <1>4, <1>5 DEF LineInv, LinesFollowCauses, TypeOfTimer
  <1>7. left' \in 0..MaxUses
    BY <1>1, UseIs, Constants DEF Complete, ArmFilter, RestInv
  <1>8. RestInv'
    BY <1>1, <1>7 DEF Complete, ArmFilter, RestInv, TypeOfCore, TypeOfGuest, TypeOfI2c,
                      TypeOfModem, HandlerInv
  <1>9. CardInv'
    BY <1>1, CardUntouched DEF Complete, ArmFilter
  <1> QED  BY <1>6, <1>8, <1>9, Together

LEMMA ResumeStep == IInv /\ Resume => IInv'
  <1> SUFFICES ASSUME IInv, Resume PROVE IInv'
    OBVIOUS
  <1>1. LineInv /\ RestInv /\ CardInv
    BY InvInParts
  <1>2. /\ irq' \in Controllers
        /\ "timer" \in irq'.pending <=> timer.flag
        /\ "demux" \in irq'.pending <=> DemuxActive(demux)
    BY <1>1, RestoredLinesAre DEF Resume, RestInv
  <1>3. LineInv'
    BY <1>1, <1>2 DEF Resume, LineInv, LinesFollowCauses, TypeOfTimer, TypeOfDemux
  <1>4. left' \in 0..MaxUses
    BY <1>1, UseIs, Constants DEF Resume, RestInv
  <1>5. RestInv'
    BY <1>1, <1>4 DEF Resume, RestInv, TypeOfCore, TypeOfGuest, TypeOfI2c, TypeOfModem,
                      HandlerInv
  <1>6. CardInv'
    BY <1>1, CardUntouched DEF Resume
  <1> QED  BY <1>3, <1>5, <1>6, Together

\* The core's own steps forget requests and move no line.
LEMMA CoreStep ==
    ASSUME IInv,
           CompareMatches \/ ServiceInterrupt \/ Mask \/ Unmask \/ Return \/ Dispatch
    PROVE  IInv'
  <1>1. LineInv /\ RestInv /\ CardInv
    BY InvInParts
  <1>2. UNCHANGED <<timer, demux, modem, card, i2c, resumed>>
    BY DEF CompareMatches, ServiceInterrupt, Mask, Unmask, Return, Dispatch
  <1>3. irq' \in Controllers /\ irq'.pending = irq.pending
    <2>1. CASE ServiceInterrupt
      BY <1>1, <2>1 DEF ServiceInterrupt, LineInv, Controllers
    <2>2. CASE irq' = irq
      BY <1>1, <2>2 DEF LineInv
    <2> QED  BY <2>1, <2>2 DEF CompareMatches, Mask, Unmask, Return, Dispatch
  <1>4. LineInv'
    BY <1>1, <1>2, <1>3, OtherLineMoves
  <1>5. left' \in 0..MaxUses
    BY <1>1, UseIs, Constants
       DEF CompareMatches, ServiceInterrupt, Mask, Unmask, Return, Dispatch, RestInv
  <1>6. TypeOfCore'
    BY <1>1 DEF CompareMatches, ServiceInterrupt, Mask, Unmask, Return, Dispatch,
                RestInv, TypeOfCore
  <1>7. /\ TypeOfGuest' /\ HandlerInv' /\ guest'.cardSeen = guest.cardSeen
        /\ guest' # guest => guest.cardSeen = {}
    <2>1. CASE CompareMatches \/ Mask \/ Unmask
      BY <1>1, <2>1 DEF CompareMatches, Mask, Unmask, RestInv, TypeOfGuest, TypeOfCore,
                        HandlerInv
    <2>2. CASE ServiceInterrupt
      <3>1. (irq.request /\ core.mask2) \in BOOLEAN /\ guest.at = "task"
        BY <1>1, <2>2 DEF ServiceInterrupt, RestInv, HandlerInv
      <3>2. /\ guest'.at = "cause" /\ guest'.cardSeen = guest.cardSeen /\ TypeOfGuest'
            /\ core'.exl = TRUE
        BY <1>1, <2>2, <3>1 DEF ServiceInterrupt, RestInv, TypeOfGuest, TypeOfCore
      <3> QED  BY <1>1, <3>1, <3>2 DEF CardInv, HandlerInv
    <2>3. CASE Dispatch
      <3>1. Active(irq) \subseteq Source
        BY <1>1 DEF Active, LineInv, Controllers
      <3>2. /\ guest'.at = "serve" /\ guest'.cardSeen = guest.cardSeen /\ TypeOfGuest'
            /\ core'.exl = core.exl /\ guest.at = "cause"
        BY <1>1, <2>3, <3>1 DEF Dispatch, RestInv, TypeOfGuest, TypeOfCore
      <3> QED  BY <1>1, <3>2 DEF CardInv, HandlerInv, RestInv
    <2>4. CASE Return
      <3>1. /\ guest'.at = "task" /\ guest'.cardSeen = guest.cardSeen /\ TypeOfGuest'
            /\ core'.exl = FALSE /\ guest.at = "serve"
        BY <1>1, <2>4 DEF Return, RestInv, TypeOfGuest, TypeOfCore
      <3> QED  BY <1>1, <3>1 DEF CardInv, HandlerInv
    <2> QED  BY <2>1, <2>2, <2>3, <2>4
  <1>8. RestInv'
    BY <1>1, <1>2, <1>5, <1>6, <1>7 DEF RestInv, TypeOfModem, TypeOfI2c
  <1>9. CardInv'
    BY <1>1, <1>2, <1>7, CardUntouched
  <1> QED  BY <1>4, <1>8, <1>9, Together

\* The handler's steps at the timer and the demultiplexer: the cause and the
\* line go together.
LEMMA ServeTimerStep == IInv /\ ServeTimer => IInv'
  <1> SUFFICES ASSUME IInv, ServeTimer PROVE IInv'
    OBVIOUS
  <1>1. LineInv /\ RestInv /\ CardInv
    BY InvInParts
  <1>2. irq \in Controllers /\ irq' = SetLine(irq, "timer", FALSE) /\ "timer" \in Source
    BY <1>1 DEF ServeTimer, LineInv, Source
  <1>3. irq' \in Controllers /\ irq'.pending = irq.pending \ {"timer"}
    BY <1>2, SetLineIs
  <1>4. TypeOfTimer' /\ timer'.flag = FALSE /\ demux' = demux
    BY <1>1 DEF ServeTimer, LineInv, TypeOfTimer
  <1>5. LineInv'
    BY <1>1, <1>3, <1>4 DEF LineInv, LinesFollowCauses, TypeOfDemux
  <1>6. TypeOfGuest' /\ guest'.at = guest.at /\ guest'.cardSeen = guest.cardSeen
                     /\ guest.at = "serve"
    BY <1>1 DEF ServeTimer, Serving, Served, RestInv, TypeOfGuest
  <1>7. RestInv'
    BY <1>1, <1>6 DEF ServeTimer, RestInv, TypeOfCore, TypeOfModem, TypeOfI2c, HandlerInv
  <1>8. CardInv'
    BY <1>1, <1>6 DEF ServeTimer, CardInv
  <1> QED  BY <1>5, <1>7, <1>8, Together

LEMMA DemuxStep == IInv /\ (ReadDemux \/ AckDemux) => IInv'
  <1> SUFFICES ASSUME IInv, ReadDemux \/ AckDemux PROVE IInv'
    OBVIOUS
  <1>1. LineInv /\ RestInv /\ CardInv
    BY InvInParts
  <1>2. /\ TypeOfGuest' /\ guest'.cardSeen = guest.cardSeen
        /\ guest'.at \notin {"task", "card"} /\ guest.at \notin {"task", "card"}
    <2>1. CASE ReadDemux
      BY <1>1, <2>1 DEF ReadDemux, Serving, RestInv, TypeOfGuest, LineInv, TypeOfDemux
    <2>2. CASE AckDemux
      BY <1>1, <2>2 DEF AckDemux, RestInv, TypeOfGuest
    <2> QED  BY <2>1, <2>2
  <1>3. RestInv'
    BY <1>1, <1>2 DEF ReadDemux, AckDemux, RestInv, TypeOfCore, TypeOfModem, TypeOfI2c,
                      HandlerInv
  <1>4. CardInv'
    BY <1>1, <1>2 DEF ReadDemux, AckDemux, CardInv
  <1>5. CASE ReadDemux
    <2>1. LineInv'
      BY <1>1, <1>5, LinesUntouched DEF ReadDemux
    <2> QED  BY <1>3, <1>4, <2>1, Together
  <1>6. CASE AckDemux
    <2> DEFINE up == DemuxActive(demux')
    <2>1. /\ irq \in Controllers /\ up \in BOOLEAN /\ "demux" \in Source
          /\ irq' = SetLine(irq, "demux", up)
      BY <1>1, <1>6 DEF AckDemux, LineInv, DemuxActive, Source
    <2> HIDE DEF up
    <2>2. /\ irq' \in Controllers
          /\ irq'.pending = IF up THEN irq.pending \cup {"demux"}
                            ELSE irq.pending \ {"demux"}
      BY <2>1, SetLineIs
    <2>3. TypeOfDemux' /\ timer' = timer
      BY <1>1, <1>6 DEF AckDemux, LineInv, TypeOfDemux
    <2>4. "demux" \in irq'.pending <=> DemuxActive(demux')
      BY <2>2 DEF up
    <2>5. LineInv'
      BY <1>1, <2>2, <2>3, <2>4 DEF LineInv, LinesFollowCauses, TypeOfTimer
    <2> QED  BY <1>3, <1>4, <2>5, Together
  <1> QED  BY <1>5, <1>6

\* The steps at the modem move no line.
LEMMA ModemStep == IInv /\ (ServeModem \/ UseModem) => IInv'
  <1> SUFFICES ASSUME IInv, ServeModem \/ UseModem PROVE IInv'
    OBVIOUS
  <1>1. LineInv /\ RestInv /\ CardInv
    BY InvInParts
  <1>2. LineInv'
    BY <1>1, LinesUntouched DEF ServeModem, UseModem
  <1>3. TypeOfModem'
    <2>1. CASE ServeModem
      BY <1>1, <2>1 DEF ServeModem, RestInv, TypeOfModem
    <2>2. CASE UseModem
      <3>1. TypeOfModem
        BY <1>1 DEF RestInv
      <3>2. \/ \E which \in {{"rx", "msr"}, {"rx", "msr", "tx"}} :
                   modem' = [modem EXCEPT !.ier = which]
            \/ modem' = [modem EXCEPT !.rx = TRUE]
            \/ modem' = [modem EXCEPT !.delta = TRUE]
        BY <2>2 DEF UseModem
      <3>3. ASSUME NEW which \in SUBSET {"rx", "msr", "tx"},
                   modem' = [modem EXCEPT !.ier = which]
            PROVE  TypeOfModem'
        BY <3>1, <3>3 DEF TypeOfModem
      <3>4. ASSUME modem' = [modem EXCEPT !.rx = TRUE]  PROVE TypeOfModem'
        BY <3>1, <3>4 DEF TypeOfModem
      <3>5. ASSUME modem' = [modem EXCEPT !.delta = TRUE]  PROVE TypeOfModem'
        BY <3>1, <3>5 DEF TypeOfModem
      <3>6. {{"rx", "msr"}, {"rx", "msr", "tx"}} \subseteq SUBSET {"rx", "msr", "tx"}
        OBVIOUS
      <3> QED  BY <3>2, <3>3, <3>4, <3>5, <3>6
    <2> QED  BY <2>1, <2>2
  <1>4. left' \in 0..MaxUses
    BY <1>1, UseIs, Constants DEF ServeModem, UseModem, RestInv
  <1>5. TypeOfGuest' /\ guest'.at = guest.at /\ guest'.cardSeen = guest.cardSeen
    <2>1. CASE ServeModem
      BY <1>1, <2>1 DEF ServeModem, Served, Serving, RestInv, TypeOfGuest
    <2>2. CASE UseModem
      BY <1>1, <2>2 DEF UseModem, Served, Serving, RestInv, TypeOfGuest
    <2> QED  BY <2>1, <2>2
  <1>6. RestInv'
    BY <1>1, <1>3, <1>4, <1>5 DEF ServeModem, UseModem, RestInv, TypeOfCore, TypeOfI2c,
                                  HandlerInv
  <1>7. card' = card
    BY DEF ServeModem, UseModem
  <1>8. CardInv'
    BY <1>1, <1>5, <1>7 DEF CardInv
  <1> QED  BY <1>2, <1>6, <1>8, Together

\* The steps at the card: what the driver reads is what its acknowledgement
\* clears.
LEMMA CardStep == IInv /\ (ReadCard \/ AckCard \/ StartFrame) => IInv'
  <1> SUFFICES ASSUME IInv, ReadCard \/ AckCard \/ StartFrame
               PROVE  IInv'
    OBVIOUS
  <1>1. LineInv /\ RestInv /\ CardInv
    BY InvInParts
  <1>2. LineInv'
    BY <1>1, LinesUntouched DEF ReadCard, AckCard, StartFrame
  <1>3. card \in Cards /\ CardSound(card, guest.cardSeen)
    BY <1>1 DEF CardInv, CardSound
  <1>4. left' \in 0..MaxUses
    BY <1>1, UseIs, Constants DEF ReadCard, AckCard, StartFrame, RestInv
  <1>5. CASE ReadCard
    <2>1. card.status \subseteq {"tx", "rx"}
      BY <1>3 DEF Cards
    <2>2. /\ TypeOfGuest' /\ guest.at = "serve" /\ guest'.at = "card"
          /\ guest'.cardSeen = card.status
      BY <1>1, <1>5, <2>1 DEF ReadCard, Serving, RestInv, TypeOfGuest
    <2>3. CardSound(card, card.status)
      BY <1>3 DEF CardSound
    <2>4. CardInv'
      BY <1>5, <2>2, <2>3 DEF CardInv, ReadCard
    <2>5. RestInv'
      BY <1>1, <1>4, <1>5, <2>2 DEF ReadCard, RestInv, TypeOfCore, TypeOfI2c, TypeOfModem,
                                    HandlerInv
    <2> QED  BY <1>2, <2>4, <2>5, Together
  <1>6. CASE AckCard
    <2>1. TypeOfGuest' /\ guest.at = "card" /\ guest'.at = "serve" /\ guest'.cardSeen = {}
      BY <1>1, <1>6 DEF AckCard, RestInv, TypeOfGuest
    <2>2. CardSound(card', {})
      BY <1>3, <1>6, AcknowledgementIsSound DEF AckCard
    <2>3. CardInv'
      BY <2>1, <2>2 DEF CardInv
    <2>4. RestInv'
      BY <1>1, <1>4, <1>6, <2>1 DEF AckCard, RestInv, TypeOfCore, TypeOfI2c, TypeOfModem,
                                    HandlerInv
    <2> QED  BY <1>2, <2>3, <2>4, Together
  <1>7. CASE StartFrame
    <2>1. guest' = guest /\ guest.cardSeen = {} /\ card.phase = "idle"
      BY <1>1, <1>7 DEF StartFrame, Task, CardInv
    <2>2. CardSound(card', {})
      BY <1>3, <1>7, <2>1, StartIsSound DEF StartFrame
    <2>3. CardInv'
      BY <2>1, <2>2 DEF CardInv
    <2>4. RestInv'
      BY <1>1, <1>4, <1>7 DEF StartFrame, RestInv, TypeOfCore, TypeOfGuest, TypeOfI2c,
                              TypeOfModem, HandlerInv
    <2> QED  BY <1>2, <2>3, <2>4, Together
  <1> QED  BY <1>5, <1>6, <1>7

\* A completed phase of the I2C bus moves its own line at most.
LEMMA CompleteI2cIs ==
    ASSUME NEW line \in Controllers, NEW ack \in BOOLEAN,
           NEW c \in [enable : BOOLEAN, status : BOOLEAN, bytes : 0..Transfer,
                      waiting : BOOLEAN]
    PROVE  /\ CompleteI2c(c, line, ack).line \in Controllers
           /\ \A s \in {"timer", "demux"} :
                s \in CompleteI2c(c, line, ack).line.pending <=> s \in line.pending
           /\ CompleteI2c(c, line, ack).bus
                \in [enable : BOOLEAN, status : BOOLEAN, bytes : 0..Transfer,
                     waiting : BOOLEAN]
  <1>1. "i2c" \in Source
    BY DEF Source
  <1>2. /\ SetLine(line, "i2c", TRUE) \in Controllers
        /\ SetLine(line, "i2c", TRUE).pending = line.pending \cup {"i2c"}
    BY <1>1, SetLineIs
  <1>3. CompleteI2c(c, line, ack).line =
          IF c.enable THEN SetLine(line, "i2c", TRUE) ELSE line
    BY DEF CompleteI2c
  <1>4. CompleteI2c(c, line, ack).bus = [c EXCEPT !.status = ack]
    BY DEF CompleteI2c
  <1> QED  BY <1>2, <1>3, <1>4

LEMMA I2cStep ==
    ASSUME IInv, ServeI2c \/ \E ack \in BOOLEAN : StartTransfer(ack)
    PROVE  IInv'
  <1> DEFINE Buses == [enable : BOOLEAN, status : BOOLEAN, bytes : 0..Transfer,
                       waiting : BOOLEAN]
             acked == SetLine(irq, "i2c", FALSE)
  <1>1. LineInv /\ RestInv /\ CardInv
    BY InvInParts
  <1>2. i2c \in Buses /\ irq \in Controllers /\ "i2c" \in Source
    BY <1>1 DEF RestInv, TypeOfI2c, LineInv, Source
  <1>3. acked \in Controllers /\ acked.pending = irq.pending \ {"i2c"}
    BY <1>2, SetLineIs
  <1>4. /\ irq' \in Controllers /\ TypeOfI2c'
        /\ \A s \in {"timer", "demux"} : s \in irq'.pending <=> s \in irq.pending
    <2>1. CASE ServeI2c /\ i2c.waiting /\ i2c.status /\ i2c.bytes > 0
      <3> DEFINE c == [i2c EXCEPT !.bytes = @ - 1]
      <3>1. i2c.bytes - 1 \in 0..Transfer
        BY <1>2, <2>1, Constants
      <3>2. c \in Buses
        BY <1>2, <3>1
      <3>3. /\ i2c' = CompleteI2c(c, acked, TRUE).bus
            /\ irq' = CompleteI2c(c, acked, TRUE).line
        BY <2>1, Zenon DEF ServeI2c
      <3> HIDE DEF c, acked
      <3>4. /\ irq' \in Controllers /\ i2c' \in Buses
            /\ \A s \in {"timer", "demux"} : s \in irq'.pending <=> s \in acked.pending
        <4> HIDE DEF Buses
        <4>1. acked \in Controllers /\ TRUE \in BOOLEAN
          BY <1>3
        <4>2. /\ CompleteI2c(c, acked, TRUE).line \in Controllers
              /\ \A s \in {"timer", "demux"} :
                   s \in CompleteI2c(c, acked, TRUE).line.pending <=> s \in acked.pending
              /\ CompleteI2c(c, acked, TRUE).bus \in Buses
          BY <3>2, <4>1, CompleteI2cIs DEF Buses
        <4> QED  BY <3>3, <4>2
      <3> QED  BY <1>3, <3>4 DEF TypeOfI2c
    <2>2. CASE ServeI2c /\ ~(i2c.waiting /\ i2c.status /\ i2c.bytes > 0)
      <3>1. i2c' = [i2c EXCEPT !.waiting = FALSE, !.bytes = 0] /\ irq' = acked
        BY <2>2 DEF ServeI2c
      <3>2. 0 \in 0..Transfer
        BY Constants
      <3> HIDE DEF acked
      <3> QED  BY <1>2, <1>3, <3>1, <3>2 DEF TypeOfI2c
    <2>3. ASSUME NEW ack \in BOOLEAN, StartTransfer(ack)
          PROVE  /\ irq' \in Controllers /\ TypeOfI2c'
                 /\ \A s \in {"timer", "demux"} : s \in irq'.pending <=> s \in irq.pending
      <3> DEFINE c == [i2c EXCEPT !.enable = TRUE, !.waiting = TRUE,
                                  !.bytes = Transfer - 1]
      <3>1. Transfer - 1 \in 0..Transfer
        BY Constants
      <3>2. c \in Buses
        BY <1>2, <3>1
      <3>3. i2c' = CompleteI2c(c, irq, ack).bus /\ irq' = CompleteI2c(c, irq, ack).line
        BY <2>3 DEF StartTransfer
      <3> HIDE DEF c
      <3> QED  BY <1>2, <3>2, <3>3, CompleteI2cIs DEF TypeOfI2c
    <2> QED  BY <2>1, <2>2, <2>3
  <1>5. LineInv'
    BY <1>1, <1>4, OtherLineMoves DEF ServeI2c, StartTransfer
  <1>6. left' \in 0..MaxUses
    BY <1>1, UseIs, Constants DEF ServeI2c, StartTransfer, RestInv
  <1>7. TypeOfGuest' /\ guest'.at = guest.at /\ guest'.cardSeen = guest.cardSeen
    <2>1. CASE ServeI2c
      BY <1>1, <2>1 DEF ServeI2c, Served, Serving, RestInv, TypeOfGuest
    <2>2. CASE guest' = guest
      BY <1>1, <2>2 DEF RestInv, TypeOfGuest
    <2> QED  BY <2>1, <2>2 DEF StartTransfer
  <1>8. RestInv'
    BY <1>1, <1>4, <1>6, <1>7 DEF ServeI2c, StartTransfer, RestInv, TypeOfCore,
                                  TypeOfModem, HandlerInv
  <1>9. CardInv'
    BY <1>1, <1>7 DEF ServeI2c, StartTransfer, CardInv
  <1> QED  BY <1>5, <1>8, <1>9, Together

\* Starting the timer raises nothing.
LEMMA TimerStep == IInv /\ ArmTimer => IInv'
  <1> SUFFICES ASSUME IInv, ArmTimer PROVE IInv'
    OBVIOUS
  <1>1. LineInv /\ RestInv /\ CardInv
    BY InvInParts
  <1>2. TimerPeriod \in 1..TimerPeriod
    BY Constants
  <1>3. TypeOfTimer' /\ timer'.flag = timer.flag
    BY <1>1, <1>2 DEF ArmTimer, LineInv, TypeOfTimer
  <1>4. LineInv'
    BY <1>1, <1>3 DEF ArmTimer, LineInv, LinesFollowCauses, TypeOfDemux
  <1>5. RestInv'
    BY <1>1 DEF ArmTimer, RestInv, TypeOfCore, TypeOfGuest, TypeOfModem, TypeOfI2c,
                HandlerInv
  <1>6. CardInv'
    BY <1>1, CardUntouched DEF ArmTimer
  <1> QED  BY <1>4, <1>5, <1>6, Together

\* Writing the enable register moves no pending bit.
LEMMA EnableStep ==
    IInv /\ (ArmLines \/ \E s \in Disarmable : DisarmLine(s)) => IInv'
  <1> SUFFICES ASSUME IInv,
                      ArmLines \/ \E s \in Disarmable : DisarmLine(s)
               PROVE  IInv'
    OBVIOUS
  <1>1. LineInv /\ RestInv /\ CardInv
    BY InvInParts
  <1>2. PICK mask \in SUBSET Source : irq' = WriteEnable(irq, mask)
    BY <1>1 DEF ArmLines, DisarmLine, LineInv, Controllers
  <1>3. irq' \in Controllers /\ irq'.pending = irq.pending
    BY <1>1, <1>2, WriteEnableIs DEF LineInv
  <1>4. LineInv'
    BY <1>1, <1>3, OtherLineMoves DEF ArmLines, DisarmLine
  <1>5. left' \in 0..MaxUses
    BY <1>1, UseIs, Constants DEF ArmLines, DisarmLine, RestInv
  <1>6. RestInv'
    BY <1>1, <1>5 DEF ArmLines, DisarmLine, RestInv, TypeOfCore, TypeOfGuest, TypeOfModem,
                      TypeOfI2c, HandlerInv
  <1>7. CardInv'
    BY <1>1, CardUntouched DEF ArmLines, DisarmLine
  <1> QED  BY <1>4, <1>6, <1>7, Together

\* IInv is inductive.
LEMMA StepIsSound == IInv /\ [Next]_vars => IInv'
  <1> SUFFICES ASSUME IInv, [Next]_vars PROVE IInv'
    OBVIOUS
  <1>1. CASE Next
    <2>1. CASE Handler
      BY <2>1, CoreStep, ServeTimerStep, DemuxStep, ModemStep, CardStep, I2cStep DEF Handler
    <2>2. CASE Tasks
      BY <2>2, TimerStep, EnableStep, CoreStep, ModemStep, CardStep, I2cStep, CompleteStep
         DEF Tasks
    <2>3. CASE \E f \in Filters : Complete(f)
      BY <2>3, CompleteStep
    <2> QED  BY <1>1, <2>1, <2>2, <2>3, PumpStep, CoreStep, ResumeStep DEF Next
  <1>2. CASE UNCHANGED vars
    <2>1. LineInv /\ RestInv /\ CardInv
      BY InvInParts
    <2>2. LineInv'
      BY <1>2, <2>1, LinesUntouched DEF vars
    <2>3. RestInv'
      BY <1>2, <2>1 DEF vars, RestInv, TypeOfCore, TypeOfGuest, TypeOfModem, TypeOfI2c,
                        HandlerInv
    <2>4. CardInv'
      BY <1>2, <2>1, CardUntouched DEF vars
    <2> QED  BY <2>2, <2>3, <2>4, Together
  <1> QED  BY <1>1, <1>2
----------------------------------------------------------------------------
\* Every state the board reaches, whatever the guest does and however the
\* machine is restored, satisfies the strengthened invariant.
THEOREM Inductive == Spec => []IInv
  <1>1. Init => IInv
    BY InitIsSound
  <1>2. IInv /\ [Next]_vars => IInv'
    BY StepIsSound
  <1> QED  BY <1>1, <1>2, PTL DEF Spec

\* Type correctness of the board.
THEOREM TypeCorrect == Spec => []TypeOK
  <1>1. IInv => TypeOK
    BY DEF IInv
  <1> QED  BY <1>1, Inductive, PTL

\* The pending bits of timer and demultiplexer (irq.Controller.SetLine and
\* Pulse) are up exactly while the device has a cause.
THEOREM LinesAreCauses == Spec => []LinesFollowCauses
  <1>1. IInv => LinesFollowCauses
    BY DEF IInv
  <1> QED  BY <1>1, Inductive, PTL

\* No acknowledgement of the card's status (smartcard.Port.Write) takes with it
\* a byte of the answer that the guest has not read.
THEOREM CardBytesKept == Spec => []CardBytesAreKept
  <1>1. IInv => CardBytesAreKept
    BY DEF IInv, CardInv, CardSound, CardBytesAreKept
  <1> QED  BY <1>1, Inductive, PTL
----------------------------------------------------------------------------
(* The completion of an I2C transfer.                                      *)

\* While the driver waits, the line that will tell it so is up: but for a
\* transfer nobody answered, in a machine that was restored.
CompletionKept ==
    i2c.waiting /\ (i2c.status \/ ~resumed) => "i2c" \in irq.pending

\* The driver waits only with its interrupt enabled, or no line would move.
TransferInv == (i2c.waiting => i2c.enable) /\ CompletionKept

\* Steps that leave the bus alone and do not take its line down.
LEMMA TransferUntouched ==
    ASSUME TransferInv, UNCHANGED <<i2c, resumed>>,
           "i2c" \in irq.pending => "i2c" \in irq'.pending
    PROVE  TransferInv'
  BY DEF TransferInv, CompletionKept

\* A line other than the bus's is stated.
LEMMA AnotherIsStated ==
    ASSUME irq \in Controllers, NEW s \in Source \ {"i2c"}, NEW up \in BOOLEAN,
           irq' = SetLine(irq, s, up)
    PROVE  "i2c" \in irq.pending => "i2c" \in irq'.pending
  <1>1. s \in Source /\ s # "i2c"
    OBVIOUS
  <1>2. irq'.pending = IF up THEN irq.pending \cup {s} ELSE irq.pending \ {s}
    BY <1>1, SetLineIs
  <1> QED  BY <1>1, <1>2

\* The transfer begins, or goes on to its next byte.
LEMMA CompletionComes ==
    ASSUME NEW line \in Controllers, NEW ack \in BOOLEAN,
           NEW c \in [enable : BOOLEAN, status : BOOLEAN, bytes : 0..Transfer,
                      waiting : BOOLEAN],
           c.enable, i2c' = CompleteI2c(c, line, ack).bus,
           irq' = CompleteI2c(c, line, ack).line
    PROVE  TransferInv'
  <1>1. i2c' = [c EXCEPT !.status = ack]
    BY DEF CompleteI2c
  <1>2. irq' = SetLine(line, "i2c", TRUE) /\ "i2c" \in Source
    BY DEF CompleteI2c, Source
  <1>3. i2c'.enable
    BY <1>1
  <1>4. SetLine(line, "i2c", TRUE).pending = line.pending \cup {"i2c"}
    BY <1>2, SetLineIs
  <1>5. "i2c" \in irq'.pending
    BY <1>2, <1>4
  <1> QED  BY <1>3, <1>5 DEF TransferInv, CompletionKept

LEMMA TransferStep == IInv /\ TransferInv /\ [Next]_vars => TransferInv'
  <1> SUFFICES ASSUME IInv, TransferInv, [Next]_vars PROVE TransferInv'
    OBVIOUS
  <1> DEFINE Buses == [enable : BOOLEAN, status : BOOLEAN, bytes : 0..Transfer,
                       waiting : BOOLEAN]
             Kept == "i2c" \in irq.pending => "i2c" \in irq'.pending
  <1>1. /\ irq \in Controllers /\ i2c \in Buses /\ LineInv /\ TypeOfI2c
        /\ "i2c" \in Source
    BY InvInParts DEF LineInv, RestInv, TypeOfI2c, Source
  <1>2. CASE irq' = irq /\ UNCHANGED <<i2c, resumed>>
    BY <1>2, TransferUntouched
  <1>3. CASE Pump
    <2>1. Kept
      BY <1>1, <1>3, PumpedLines DEF Pump, TimerExpires
    <2> QED  BY <1>3, <2>1, TransferUntouched DEF Pump
  <1>4. CASE \/ ServeTimer \/ AckDemux
             \/ \E f \in Filters : Complete(f) \/ ArmFilter(f)
    <2>1. PICK s \in Source \ {"i2c"}, up \in BOOLEAN : irq' = SetLine(irq, s, up)
      <3>1. DemuxActive(demux') \in BOOLEAN /\ {"timer", "demux"} \subseteq Source \ {"i2c"}
        BY DEF DemuxActive, Source
      <3>2. \/ irq' = SetLine(irq, "timer", FALSE)
            \/ irq' = SetLine(irq, "demux", DemuxActive(demux'))
        BY <1>4 DEF ServeTimer, AckDemux, Complete, ArmFilter
      <3> QED  BY <3>1, <3>2
    <2>2. Kept
      BY <1>1, <2>1, AnotherIsStated
    <2> QED
      BY <1>4, <2>2, TransferUntouched DEF ServeTimer, AckDemux, Complete, ArmFilter
  <1>5. CASE ArmLines \/ \E s \in Disarmable : DisarmLine(s)
    <2>1. PICK mask \in SUBSET Source : irq' = WriteEnable(irq, mask)
      BY <1>1, <1>5 DEF ArmLines, DisarmLine, Controllers
    <2>2. Kept
      BY <1>1, <2>1, WriteEnableIs
    <2> QED  BY <1>5, <2>2, TransferUntouched DEF ArmLines, DisarmLine
  <1>6. CASE ServiceInterrupt
    <2>1. Kept
      BY <1>1, <1>6 DEF ServiceInterrupt, Controllers
    <2> QED  BY <1>6, <2>1, TransferUntouched DEF ServiceInterrupt
  <1>7. CASE ServeI2c
    <2> DEFINE acked == SetLine(irq, "i2c", FALSE)
               c == [i2c EXCEPT !.bytes = @ - 1]
    <2>1. CASE i2c.waiting /\ i2c.status /\ i2c.bytes > 0
      <3>1. i2c' = CompleteI2c(c, acked, TRUE).bus /\ irq' = CompleteI2c(c, acked, TRUE).line
        BY <1>7, <2>1, Zenon DEF ServeI2c
      <3>2. i2c.bytes - 1 \in 0..Transfer
        BY <1>1, <2>1, Constants
      <3>3. c \in Buses /\ c.enable /\ acked \in Controllers
        BY <1>1, <2>1, <3>2, SetLineIs DEF TransferInv
      <3> HIDE DEF c, acked
      <3> QED  BY <3>1, <3>3, CompletionComes
    <2>2. CASE ~(i2c.waiting /\ i2c.status /\ i2c.bytes > 0)
      <3>1. i2c' = [i2c EXCEPT !.waiting = FALSE, !.bytes = 0]
        BY <1>7, <2>2 DEF ServeI2c
      <3>2. i2c'.waiting = FALSE
        BY <1>1, <3>1
      <3> QED  BY <3>2 DEF TransferInv, CompletionKept
    <2> QED  BY <2>1, <2>2
  <1>8. ASSUME NEW ack \in BOOLEAN, StartTransfer(ack) PROVE TransferInv'
    <2> DEFINE c == [i2c EXCEPT !.enable = TRUE, !.waiting = TRUE, !.bytes = Transfer - 1]
    <2>1. i2c' = CompleteI2c(c, irq, ack).bus /\ irq' = CompleteI2c(c, irq, ack).line
      BY <1>8 DEF StartTransfer
    <2>2. Transfer - 1 \in 0..Transfer
      BY Constants
    <2>3. c \in Buses /\ c.enable
      BY <1>1, <2>2
    <2> HIDE DEF c
    <2> QED  BY <1>1, <2>1, <2>3, CompletionComes
  <1>9. CASE Resume
    <2>1. i2c' = i2c /\ resumed' = TRUE
          /\ ("i2c" \in irq'.pending <=> i2c.enable /\ i2c.status)
      BY <1>1, <1>9, RestoredLinesAre DEF Resume
    <2> QED  BY <2>1 DEF TransferInv, CompletionKept
  <1>10. CASE UNCHANGED vars
    BY <1>2, <1>10 DEF vars
  <1>11. CASE \/ CompareMatches \/ Dispatch \/ ReadDemux \/ ServeModem \/ ReadCard
              \/ AckCard \/ Return \/ ArmTimer \/ Mask \/ Unmask \/ UseModem \/ StartFrame
    BY <1>2, <1>11
       DEF CompareMatches, Dispatch, ReadDemux, ServeModem, ReadCard, AckCard, Return,
           ArmTimer, Mask, Unmask, UseModem, StartFrame
  <1> QED
    BY <1>3, <1>4, <1>5, <1>6, <1>7, <1>8, <1>9, <1>10, <1>11 DEF Next, Handler, Tasks

\* A transfer the driver waits for (i2c.Controller, complete) is announced, and
\* no other step takes the announcement back: neither another device's, nor
\* the pump, nor, when the slave answered, a restore, which states the line by
\* the status alone.
THEOREM CompletionIsKept == Spec => []CompletionKept
  <1>1. Init => TransferInv
    BY DEF Init, TransferInv, CompletionKept
  <1>2. Spec => []TransferInv
    BY <1>1, TransferStep, Inductive, PTL DEF Spec
  <1>3. TransferInv => CompletionKept
    BY DEF TransferInv
  <1> QED  BY <1>2, <1>3, PTL
=============================================================================
