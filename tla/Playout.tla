------------------------------ MODULE Playout ------------------------------
(***************************************************************************)
(* Programme playout: the instruction loop (cmd/goretrotv/main.go,         *)
(* playout.go) keeps one encoder and one decoder (internal/media) while    *)
(* the guest asks for a programme that has media.  What the encoder makes  *)
(* goes through the demux (internal/device/demux/transport.go) at the      *)
(* guest's pace, and what the demux admits goes to the decoder.            *)
(*                                                                         *)
(* The two ffmpeg processes (external) and the goroutines that serve them  *)
(* run beside the loop; every queue between them is bounded.  A packet is  *)
(* <<session, n>>; <<0, 0>> is one the transmitter sent on the PAT's or    *)
(* the PMT's PID.  The audio queue behaves as the video queue and is left  *)
(* out, as is what a packet decodes to: a burst decodes to one frame.      *)
(***************************************************************************)
EXTENDS Integers, Sequences, SequencesExt

CONSTANTS
    Programmes,  \* scheduled programmes with file media
    None,
    Chunks,      \* chunks the encoder makes of a programme
    ChunkLen,    \* packets in a chunk (32)
    Cap,         \* packets maxProgrammeTransport holds (2 MiB)
    Batch,       \* packets that make a decoder burst (32)
    EncQueue, InQueue, VideoQueue,      \* chunks, bursts, frames (8, 256, 64)
    MaxChanges, MaxPsi, MaxFaults       \* bounds: what one history may do

ASSUME PlayoutAssumption ==
    /\ None \notin Programmes
    /\ None \notin [key : Programmes, number : Nat, decodePending : Seq(Nat \X Nat)]
    /\ {Chunks, ChunkLen, Cap, Batch, EncQueue, InQueue, VideoQueue} \subseteq Nat \ {0}
    /\ MaxChanges \in Nat /\ MaxPsi \in Nat /\ MaxFaults \in Nat

VARIABLES
    at,          \* where the loop is
    after,       \* what follows the close() it is in
    stopped,     \* why the loop returned
    tuned,       \* the guest has programmed both decoder PIDs
    onAir,       \* MediaPlayout, were it asked: a programme, or None
    burst,       \* Demux: packets scheduled and not yet admitted
    admitted,    \* Demux.programmeTransport
    session,     \* the playoutSession, or None
    sessions,    \* history: how many were started
    enc, dec,    \* the encoder and the decoder last started
    fed,         \* history: its own packets a session gave its decoder
    missed,      \* history: the guest let go of its PIDs during this session
    changesLeft, psiLeft, faultsLeft

demux == <<burst, admitted>>
guest == <<tuned, onAir>>
procs == <<enc, dec>>
history == <<sessions, fed, missed>>
budgets == <<changesLeft, psiLeft, faultsLeft>>
loop == <<at, after, stopped>>
vars == <<loop, guest, demux, session, procs, history, budgets>>

Psi == <<0, 0>>
Chunk(s, c) == [i \in 1..ChunkLen |-> <<s, (c - 1) * ChunkLen + i>>]

Own(packets) ==
    FlattenSeq([i \in DOMAIN packets |->
        IF packets[i][1] = session.number THEN <<packets[i]>> ELSE <<>>])

Go(where) == at' = where /\ UNCHANGED <<after, stopped>>

(* The loop returns; its deferred close() runs first.                       *)
Return(why) ==
    /\ stopped' = why
    /\ IF session = None THEN at' = "stopped" /\ UNCHANGED after
       ELSE at' = "closeEncoder" /\ after' = "stopped"

-----------------------------------------------------------------------------
(* The encoder's reader goroutine, and its process.                         *)

NewEncoder == [at |-> "read", made |-> 0, queue |-> <<>>, closed |-> FALSE,
               fault |-> FALSE, cancelled |-> FALSE, closing |-> FALSE]

(* setEncoderFault: the first fault counts, unless the encoder is closing.  *)
EncFault(e) == IF e.closing \/ e.fault THEN e ELSE [e EXCEPT !.fault = TRUE, !.cancelled = TRUE]

EncoderReads ==
    /\ enc.at = "read"
    /\ \/ /\ ~ enc.cancelled /\ enc.made < Chunks
          /\ enc' = [enc EXCEPT !.at = "send", !.made = @ + 1]
          /\ UNCHANGED budgets
       \/ /\ enc.cancelled \/ enc.made = Chunks
          /\ enc' = [enc EXCEPT !.at = "wait"]
          /\ UNCHANGED budgets
       \/ /\ faultsLeft > 0 /\ faultsLeft' = faultsLeft - 1
          /\ enc' = [EncFault(enc) EXCEPT !.at = "wait"]
          /\ UNCHANGED <<changesLeft, psiLeft>>
    /\ UNCHANGED <<loop, guest, demux, session, dec, history>>

(* Mutant: a full queue is waited on whatever happens.                      *)
EncoderSendsMutantIgnoresCancel ==
    /\ enc.at = "send"
    /\ Len(enc.queue) < EncQueue
    /\ enc' = [enc EXCEPT !.at = "read", !.queue = Append(@, enc.made)]
    /\ UNCHANGED <<loop, guest, demux, session, dec, history, budgets>>

EncoderSends ==
    /\ enc.at = "send"
    /\ \/ /\ Len(enc.queue) < EncQueue
          /\ enc' = [enc EXCEPT !.at = "read", !.queue = Append(@, enc.made)]
       \/ /\ enc.cancelled
          /\ enc' = [enc EXCEPT !.at = "wait"]
    /\ UNCHANGED <<loop, guest, demux, session, dec, history, budgets>>

(* The process is reaped before the channels close.                         *)
EncoderEnds ==
    /\ enc.at = "wait"
    /\ enc' = [enc EXCEPT !.at = "done", !.closed = TRUE]
    /\ UNCHANGED <<loop, guest, demux, session, dec, history, budgets>>

-----------------------------------------------------------------------------
(* The decoder's goroutines, and its process.                               *)

NewDecoder == [input |-> 0, finished |-> FALSE, inside |-> 0, video |-> 0, ended |-> FALSE,
               fault |-> FALSE, cancelled |-> FALSE, closing |-> FALSE]

DecFault(d) == IF d.closing \/ d.fault THEN d ELSE [d EXCEPT !.fault = TRUE, !.cancelled = TRUE]

DecoderWrites ==
    /\ ~ dec.ended /\ ~ dec.cancelled /\ dec.input > 0
    /\ dec' = [dec EXCEPT !.input = @ - 1, !.inside = @ + 1]
    /\ UNCHANGED <<loop, guest, demux, session, enc, history, budgets>>

(* A full output queue is a fault: the readers never wait.                  *)
DecoderReads ==
    /\ ~ dec.ended /\ dec.inside > 0
    /\ dec' = IF dec.video < VideoQueue THEN [dec EXCEPT !.inside = @ - 1, !.video = @ + 1]
              ELSE [DecFault(dec) EXCEPT !.inside = 0]
    /\ UNCHANGED <<loop, guest, demux, session, enc, history, budgets>>

DecoderEnds ==
    /\ ~ dec.ended
    /\ \/ /\ dec.cancelled \/ (dec.finished /\ dec.input = 0 /\ dec.inside = 0)
          /\ dec' = [dec EXCEPT !.ended = TRUE]
          /\ UNCHANGED budgets
       \/ /\ faultsLeft > 0 /\ faultsLeft' = faultsLeft - 1
          /\ dec' = [DecFault(dec) EXCEPT !.ended = TRUE]
          /\ UNCHANGED <<changesLeft, psiLeft>>
    /\ UNCHANGED <<loop, guest, demux, session, enc, history>>

(* Enqueue refuses after a fault and after Finish, and faults when full.    *)
Refusal ==
    IF dec.fault THEN "decoder"
    ELSE IF dec.finished THEN "closed"
    ELSE IF dec.input >= InQueue THEN "decoder"
    ELSE "no"

Enqueue(packets, then) ==
    IF Refusal = "no"
    THEN dec' = then /\ fed' = fed \o Own(packets)
    ELSE /\ dec' = IF Refusal = "decoder" THEN DecFault(dec) ELSE dec
         /\ Return(Refusal) /\ UNCHANGED fed

-----------------------------------------------------------------------------
(* A safe point: the transmitter and the scheduled burst enter the demux.   *)

(* pushTransportPacket, for packets on the PIDs of a programme: they are    *)
(* kept while the guest has programmed both decoders.                       *)
Admits(packets) == Len(admitted) + Len(packets) <= Cap

(* A reset, a shutdown, or an error of another component.                   *)
Leave ==
    /\ at = "safe"
    /\ Return("other")
    /\ UNCHANGED <<guest, demux, session, procs, history, budgets>>

Transmit ==
    /\ at = "safe"
    /\ \/ Go("demux") /\ UNCHANGED <<admitted, budgets>>
       \/ /\ psiLeft > 0 /\ psiLeft' = psiLeft - 1
          /\ UNCHANGED <<changesLeft, faultsLeft>>
          /\ IF ~ tuned THEN Go("demux") /\ UNCHANGED admitted
             ELSE IF Admits(<<Psi>>) THEN admitted' = Append(admitted, Psi) /\ Go("demux")
             ELSE Return("transport") /\ UNCHANGED admitted
    /\ UNCHANGED <<guest, burst, session, procs, history>>

(* Demux.Pump: 1000 instructions a packet and 1024 between safe points, so  *)
(* one packet is due, or two.                                               *)
PumpDemux ==
    /\ at = "demux"
    /\ \E due \in 1..2 :
          LET n == IF due < Len(burst) THEN due ELSE Len(burst)
              packets == SubSeq(burst, 1, n)
          IN  IF ~ tuned
              THEN /\ burst' = SubSeq(burst, n + 1, Len(burst))
                   /\ missed' = (missed \/ n > 0)
                   /\ UNCHANGED admitted /\ Go("feed")
              ELSE IF Admits(packets)
              THEN /\ burst' = SubSeq(burst, n + 1, Len(burst))
                   /\ admitted' = admitted \o packets
                   /\ UNCHANGED missed /\ Go("feed")
              ELSE Return("transport") /\ UNCHANGED <<demux, missed>>
    /\ UNCHANGED <<guest, session, procs, sessions, fed, budgets>>

-----------------------------------------------------------------------------
(* playoutSession.pump.  With the encoder at its end what is gathered is    *)
(* flushed, the decoder is told, and the pump returns.                      *)
(* Mutant: the decoder is not told.                                         *)
FlushMutantNoFinish ==
    IF enc.fault THEN Return("encoder") /\ UNCHANGED <<session, dec, fed>>
    ELSE /\ session' = [session EXCEPT !.decodePending = <<>>]
         /\ IF session.decodePending = <<>>
            THEN Go("step") /\ UNCHANGED <<dec, fed>>
            ELSE /\ Enqueue(session.decodePending, [dec EXCEPT !.input = @ + 1])
                 /\ Refusal = "no" => Go("step")

Flush ==
    IF enc.fault THEN Return("encoder") /\ UNCHANGED <<session, dec, fed>>
    ELSE /\ session' = [session EXCEPT !.decodePending = <<>>]
         /\ IF session.decodePending = <<>>
            THEN dec' = [dec EXCEPT !.finished = TRUE] /\ Go("step") /\ UNCHANGED fed
            ELSE /\ Enqueue(session.decodePending,
                            [dec EXCEPT !.input = @ + 1, !.finished = TRUE])
                 /\ Refusal = "no" => Go("step")

(* ScheduleTransport refuses while a burst is pending.                      *)
Schedule(chunk) ==
    IF burst # <<>> THEN Return("refused") /\ UNCHANGED <<burst, session>>
    ELSE /\ burst' = chunk
         /\ Go("take") /\ UNCHANGED session

(* Mutant: at the encoder's end the pump goes on to take what came in.      *)
FeedMutantGoesOn ==
    /\ at = "feed"
    /\ IF session = None THEN Go("step") /\ UNCHANGED <<burst, session, procs, fed>>
       ELSE IF burst # <<>> THEN Go("take") /\ UNCHANGED <<burst, session, procs, fed>>
       ELSE IF enc.queue # <<>>
            THEN /\ enc' = [enc EXCEPT !.queue = Tail(@)]
                 /\ Schedule(Chunk(session.number, Head(enc.queue)))
                 /\ UNCHANGED <<dec, fed>>
       ELSE IF enc.closed /\ ~ dec.finished
            THEN dec' = [dec EXCEPT !.finished = TRUE]
                 /\ Go("take") /\ UNCHANGED <<burst, session, enc, fed>>
       ELSE Go("take") /\ UNCHANGED <<burst, session, procs, fed>>
    /\ UNCHANGED <<guest, admitted, sessions, missed, budgets>>

Feed ==
    /\ at = "feed"
    /\ IF session = None THEN Go("step") /\ UNCHANGED <<burst, session, procs, fed>>
       ELSE IF burst # <<>> THEN Go("take") /\ UNCHANGED <<burst, session, procs, fed>>
       ELSE IF enc.queue # <<>>
            THEN /\ enc' = [enc EXCEPT !.queue = Tail(@)]
                 /\ Schedule(Chunk(session.number, Head(enc.queue)))
                 /\ UNCHANGED <<dec, fed>>
       ELSE IF enc.closed
            THEN Flush /\ UNCHANGED <<burst, enc>>
       ELSE Go("take") /\ UNCHANGED <<burst, session, procs, fed>>
    /\ UNCHANGED <<guest, admitted, sessions, missed, budgets>>

(* TakeProgrammeTransport, and a burst for the decoder once there is one.   *)
(* Mutant: what had been gathered before is overwritten.                    *)
TakeMutantOverwrites ==
    /\ at = "take"
    /\ admitted' = <<>>
    /\ LET gathered == admitted
       IN  IF admitted = <<>> \/ Len(gathered) < Batch
           THEN /\ session' = [session EXCEPT !.decodePending = gathered]
                /\ Go("present") /\ UNCHANGED <<dec, fed>>
           ELSE /\ Enqueue(gathered, [dec EXCEPT !.input = @ + 1])
                /\ Refusal = "no" => Go("present")
                /\ session' = [session EXCEPT !.decodePending = <<>>]
    /\ UNCHANGED <<guest, burst, enc, sessions, missed, budgets>>

Take ==
    /\ at = "take"
    /\ admitted' = <<>>
    /\ LET gathered == session.decodePending \o admitted
       IN  IF admitted = <<>> \/ Len(gathered) < Batch
           THEN /\ session' = [session EXCEPT !.decodePending = gathered]
                /\ Go("present") /\ UNCHANGED <<dec, fed>>
           ELSE /\ Enqueue(gathered, [dec EXCEPT !.input = @ + 1])
                /\ Refusal = "no" => Go("present")
                /\ session' = [session EXCEPT !.decodePending = <<>>]
    /\ UNCHANGED <<guest, burst, enc, sessions, missed, budgets>>

Present ==
    /\ at = "present"
    /\ dec' = [dec EXCEPT !.video = IF @ > 0 THEN @ - 1 ELSE 0]
    /\ IF enc.fault THEN Return("encoder")
       ELSE IF dec.fault THEN Return("decoder")
       ELSE Go("step")
    /\ UNCHANGED <<guest, demux, session, enc, history, budgets>>

-----------------------------------------------------------------------------
(* box.Step, in which the guest may program or release its decoders, and    *)
(* then the session follows what the guest asks for.  What is on air is     *)
(* read once: `after` is the programme to start, whatever moves meanwhile.  *)
Step ==
    /\ at = "step"
    /\ \/ UNCHANGED <<tuned, changesLeft>>
       \/ changesLeft > 0 /\ changesLeft' = changesLeft - 1 /\ tuned' = ~ tuned
    /\ after' = IF tuned' THEN onAir ELSE None
    /\ at' = IF session = None THEN (IF after' = None THEN "safe" ELSE "start")
             ELSE IF session.key = after' THEN "safe" ELSE "closeEncoder"
    /\ UNCHANGED <<stopped, onAir, demux, session, procs, history, psiLeft, faultsLeft>>

(* The schedule moves with the wall clock, or the guest tunes elsewhere.    *)
ScheduleMoves ==
    /\ changesLeft > 0 /\ changesLeft' = changesLeft - 1
    /\ onAir' \in (Programmes \union {None}) \ {onAir}
    /\ UNCHANGED <<loop, tuned, demux, session, procs, history, psiLeft, faultsLeft>>

(* startPlayout.  If the decoder will not start, the encoder is closed.     *)
StartPlayout ==
    /\ at = "start"
    /\ sessions' = sessions + 1 /\ fed' = <<>> /\ missed' = FALSE
    /\ enc' = NewEncoder /\ dec' = NewDecoder
    /\ session' = [key |-> after, number |-> sessions', decodePending |-> <<>>]
    /\ at' = "safe" /\ after' = None /\ UNCHANGED stopped
    /\ UNCHANGED <<guest, demux, budgets>>

(* Mutant: the encoder of a failed start is left running.                   *)
DecoderWillNotStartMutantLeavesEncoder ==
    /\ at = "start" /\ faultsLeft > 0 /\ faultsLeft' = faultsLeft - 1
    /\ enc' = NewEncoder
    /\ stopped' = "start" /\ at' = "stopped" /\ UNCHANGED after
    /\ UNCHANGED <<guest, demux, session, dec, history, changesLeft, psiLeft>>

DecoderWillNotStart ==
    /\ at = "start" /\ faultsLeft > 0 /\ faultsLeft' = faultsLeft - 1
    /\ enc' = [NewEncoder EXCEPT !.closing = TRUE, !.cancelled = TRUE]
    /\ stopped' = "start" /\ at' = "waitEncoder" /\ after' = "stopped"
    /\ UNCHANGED <<guest, demux, session, dec, history, changesLeft, psiLeft>>

PlayoutWillNotStart ==
    /\ at = "start" /\ faultsLeft > 0 /\ faultsLeft' = faultsLeft - 1
    /\ stopped' = "start" /\ at' = "stopped" /\ UNCHANGED after
    /\ UNCHANGED <<guest, demux, session, procs, history, changesLeft, psiLeft>>

(* close: each process is cancelled and waited for, the encoder first.      *)
CloseEncoder ==
    /\ at = "closeEncoder"
    /\ enc' = [enc EXCEPT !.closing = TRUE, !.cancelled = TRUE]
    /\ at' = "waitEncoder"
    /\ UNCHANGED <<after, stopped, guest, demux, session, dec, history, budgets>>

EncoderGone ==
    /\ at = "waitEncoder" /\ enc.at = "done"
    /\ at' = IF session = None THEN "stopped" ELSE "closeDecoder"
    /\ UNCHANGED <<after, stopped, guest, demux, session, procs, history, budgets>>

CloseDecoder ==
    /\ at = "closeDecoder"
    /\ dec' = [dec EXCEPT !.closing = TRUE, !.finished = TRUE, !.cancelled = TRUE]
    /\ at' = "waitDecoder"
    /\ UNCHANGED <<after, stopped, guest, demux, session, enc, history, budgets>>

DecoderGone ==
    /\ at = "waitDecoder" /\ dec.ended
    /\ session' = None
    /\ at' = IF after = "stopped" THEN "stopped" ELSE IF after = None THEN "safe" ELSE "start"
    /\ UNCHANGED <<after, stopped, guest, demux, procs, history, budgets>>

-----------------------------------------------------------------------------
Init ==
    /\ at = "safe" /\ after = None /\ stopped = "no"
    /\ tuned = FALSE /\ onAir \in Programmes \union {None}
    /\ burst = <<>> /\ admitted = <<>> /\ session = None
    /\ sessions = 0 /\ fed = <<>> /\ missed = FALSE
    /\ enc = [NewEncoder EXCEPT !.at = "done", !.closed = TRUE]
    /\ dec = [NewDecoder EXCEPT !.ended = TRUE]
    /\ changesLeft = MaxChanges /\ psiLeft = MaxPsi /\ faultsLeft = MaxFaults

Closing == CloseEncoder \/ EncoderGone \/ CloseDecoder \/ DecoderGone
Loop ==
    \/ Leave \/ Transmit \/ PumpDemux \/ Feed \/ Take \/ Present \/ Step
    \/ StartPlayout \/ DecoderWillNotStart \/ PlayoutWillNotStart \/ Closing
Encoding == EncoderReads \/ EncoderSends \/ EncoderEnds
Decoding == DecoderWrites \/ DecoderReads \/ DecoderEnds
Next == Loop \/ Encoding \/ Decoding \/ ScheduleMoves

Spec == Init /\ [][Next]_vars

(* The loop runs, the goroutines are scheduled, ffmpeg answers: it makes    *)
(* what it was asked for and, killed, dies.                                 *)
FairSpec == Spec /\ WF_vars(Loop) /\ WF_vars(Encoding) /\ WF_vars(Decoding)
-----------------------------------------------------------------------------
Waiting == {"closeEncoder", "waitEncoder", "closeDecoder", "waitDecoder"}
Places == {"safe", "demux", "feed", "take", "present", "step", "start", "stopped"}
              \union Waiting
Packets == {<<s, n>> : s \in 0..sessions, n \in 0..(Chunks * ChunkLen)}

(* Every variable has its type and every queue its bound.                   *)
TypeOK ==
    /\ at \in Places /\ after \in Programmes \union {None, "stopped"}
    /\ stopped \in {"no", "transport", "refused", "closed", "encoder", "decoder", "start", "other"}
    /\ tuned \in BOOLEAN /\ onAir \in Programmes \union {None}
    /\ burst \in Seq(Packets) /\ Len(burst) <= ChunkLen
    /\ admitted \in Seq(Packets) /\ Len(admitted) <= Cap
    /\ session # None => session.key \in Programmes /\ session.number = sessions
    /\ enc.made \in 0..Chunks /\ Len(enc.queue) <= EncQueue
    /\ dec.input \in 0..InQueue /\ dec.video \in 0..VideoQueue
    /\ changesLeft \in 0..MaxChanges /\ psiLeft \in 0..MaxPsi /\ faultsLeft \in 0..MaxFaults

(* The pump never schedules over a burst in flight (demux/transport.go:18)  *)
(* and never feeds a decoder it has finished (media/decoder.go:265): the    *)
(* end of a programme and a slow guest do not halt the box.                 *)
NeverRefusedByItsOwn == stopped \notin {"refused", "closed"}

(* No ffmpeg outlives its session: when the loop has no session, or has     *)
(* returned, both processes are gone (main.go:465, playout.go:46-48).       *)
NoOrphans ==
    session = None /\ at # "waitEncoder" => enc.at = "done" /\ dec.ended

(* While the guest keeps its decoders, every packet the session's encoder   *)
(* delivered is, once and in order, with the decoder, or on its way there   *)
(* (playout.go:57-92; transport.go:40-42, "backpressure without replacing   *)
(* packets already in flight").  Nothing is on its way to a decoder that    *)
(* was told there is no more: what it has not got by then is lost, the last *)
(* two packets at most, admitted after the pump last took any               *)
(* (playout.go:61-72).                                                      *)
OnItsWay ==
    fed \o session.decodePending \o admitted \o burst
        \o FlattenSeq([i \in DOMAIN enc.queue |-> Chunk(session.number, enc.queue[i])])
Delivered == (enc.made - (IF enc.at = "send" THEN 1 ELSE 0)) * ChunkLen

(* Of session s, w carries the packets 1..n, once each and in order.        *)
Carries(w, s, n) ==
    LET own == {k \in DOMAIN w : w[k][1] = s}
    IN  /\ \A j, k \in own : j < k => w[j][2] < w[k][2]
        /\ {w[k][2] : k \in own} = 1..n

NothingLostOnTheWay ==
    session # None /\ stopped = "no" /\ ~ missed /\ ~ enc.cancelled =>
        IF dec.finished THEN \E n \in (Delivered - 2)..Delivered : Carries(fed, session.number, n)
        ELSE Carries(OnItsWay, session.number, Delivered)

(* close() waits for both processes on the loop that owns the machine       *)
(* (encoder.go:177-185, decoder.go:305-312): it always comes back.          *)
CloseReturns == at \in Waiting ~> at \notin Waiting

(* A programme that ends is ended: the decoder is told there is no more.    *)
ProgrammeEnds == session # None /\ enc.closed ~> dec.finished \/ stopped # "no"

(* listings.go:136, "an event without media must remain without host        *)
(* video", and multiplex.go:808-811: a channel with no media is no reason   *)
(* to bring the box down.                                                   *)
NoMediaNoHarm == sessions = 0 => stopped # "transport"
=============================================================================
