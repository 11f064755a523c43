--------------------------- MODULE PlayoutProofs ---------------------------
(* Playout, for any programmes, lengths, queue limits and bounds: its types, *)
(* that no process outlives its session, that the pump is never refused by   *)
(* the demultiplexer or by the decoder it has finished itself, and that what *)
(* the encoder delivers reaches the decoder once and in order, or is on its  *)
(* way there; of a programme that ran to its end, all but two packets.       *)
EXTENDS Playout, SequenceTheorems, WellFoundedInduction, TLAPS

EncoderState ==
    [at : {"read", "send", "wait", "done"}, made : 0..Chunks, queue : Seq(1..Chunks),
     closed : BOOLEAN, fault : BOOLEAN, cancelled : BOOLEAN, closing : BOOLEAN]

DecoderState ==
    [input : 0..InQueue, finished : BOOLEAN, inside : Nat, video : 0..VideoQueue,
     ended : BOOLEAN, fault : BOOLEAN, cancelled : BOOLEAN, closing : BOOLEAN]

SessionState == [key : Programmes, number : {sessions}, decodePending : Seq(Packets)]

(* TypeOK, with what it leaves unsaid of the session and of both processes.  *)
LoopTypes ==
    /\ at \in Places /\ after \in Programmes \union {None, "stopped"}
    /\ stopped \in {"no", "transport", "refused", "closed", "encoder", "decoder", "start", "other"}
    /\ at = "start" => after \in Programmes
HostTypes ==
    /\ enc \in EncoderState /\ Len(enc.queue) <= EncQueue
    /\ enc.at = "send" => enc.made >= 1
    /\ dec \in DecoderState
DemuxTypes ==
    /\ sessions \in Nat
    /\ burst \in Seq(Packets) /\ Len(burst) <= ChunkLen
    /\ admitted \in Seq(Packets) /\ Len(admitted) <= Cap
    /\ session # None => session \in SessionState
GuestTypes ==
    /\ tuned \in BOOLEAN /\ onAir \in Programmes \union {None}
    /\ changesLeft \in 0..MaxChanges /\ psiLeft \in 0..MaxPsi /\ faultsLeft \in 0..MaxFaults
Types == LoopTypes /\ HostTypes /\ DemuxTypes /\ GuestTypes

(* Where the loop is tells what there is: close() runs on a session, its     *)
(* encoder is gone before its decoder is waited for, and one starts only     *)
(* where there is none.                                                      *)
Orphans ==
    /\ session = None => dec.ended /\ (at # "waitEncoder" => enc.at = "done")
    /\ at \in {"take", "present", "closeEncoder", "closeDecoder", "waitDecoder"} => session # None
    /\ at \in {"closeDecoder", "waitDecoder"} => enc.at = "done"
    /\ at = "start" => session = None

(* close() once it has cancelled the encoder.                                *)
Parting == {"waitEncoder", "closeDecoder", "waitDecoder"}

(* A decoder is finished by the pump only when there is nothing left of its  *)
(* programme, and nothing comes to be: later pumps flush nothing.            *)
Finished ==
    /\ enc.closed => enc.at = "done"
    /\ dec.finished /\ session # None /\ at \notin Parting =>
          /\ enc.closed /\ enc.queue = <<>> /\ burst = <<>>
          /\ session.decodePending = <<>> /\ at # "take"
    /\ NeverRefusedByItsOwn

IInv == Types /\ Orphans /\ Finished

-----------------------------------------------------------------------------
(* Packets, sessions and the records of the processes as values.             *)

LEMMA Sizes ==
    /\ Chunks \in Nat \ {0} /\ ChunkLen \in Nat \ {0} /\ Cap \in Nat \ {0} /\ Batch \in Nat \ {0}
    /\ EncQueue \in Nat \ {0} /\ InQueue \in Nat \ {0} /\ VideoQueue \in Nat \ {0}
    /\ MaxChanges \in Nat /\ MaxPsi \in Nat /\ MaxFaults \in Nat
BY PlayoutAssumption

LEMMA SessionIsSome ==
    ASSUME sessions \in Nat, NEW s \in SessionState PROVE s # None
<1>1. Packets \subseteq Nat \X Nat
    BY Sizes DEF Packets
<1>2. s \in [key : Programmes, number : Nat, decodePending : Seq(Nat \X Nat)]
    BY <1>1, SeqMonotonic DEF SessionState
<1> QED
    BY <1>2, PlayoutAssumption

LEMMA ProductGrows ==
    ASSUME NEW a \in Nat, NEW b \in Nat, NEW n \in Nat, a <= b PROVE a * n <= b * n
OBVIOUS

LEMMA ChunkIsPackets ==
    ASSUME sessions \in Nat, NEW c \in 1..Chunks
    PROVE  Chunk(sessions, c) \in Seq(Packets) /\ Len(Chunk(sessions, c)) = ChunkLen
<1>1. ASSUME NEW i \in 1..ChunkLen
      PROVE  (c - 1) * ChunkLen + i \in 0..(Chunks * ChunkLen)
    <2> DEFINE n == (c - 1) * ChunkLen
    <2>1. n \in Nat /\ n + ChunkLen = c * ChunkLen
        BY Sizes
    <2>2. c * ChunkLen <= Chunks * ChunkLen /\ c * ChunkLen \in Nat /\ Chunks * ChunkLen \in Nat
        BY Sizes, ProductGrows
    <2> DEFINE m == Chunks * ChunkLen
    <2>3. n + ChunkLen <= m /\ m \in Nat
        BY <2>1, <2>2
    <2> HIDE DEF n, m
    <2>4. n + i \in 0..m
        BY <2>1, <2>3, Sizes
    <2> QED
        BY <2>4 DEF n, m
<1>2. \A i \in 1..ChunkLen : Chunk(sessions, c)[i] \in Packets
    <2> SUFFICES ASSUME NEW i \in 1..ChunkLen PROVE Chunk(sessions, c)[i] \in Packets
        OBVIOUS
    <2> DEFINE k == (c - 1) * ChunkLen + i
    <2>1. k \in 0..(Chunks * ChunkLen)
        BY <1>1
    <2>2. Chunk(sessions, c)[i] = <<sessions, k>>
        BY DEF Chunk
    <2> HIDE DEF k
    <2> QED
        BY <2>1, <2>2 DEF Packets
<1>3. Chunk(sessions, c) \in [1..ChunkLen -> Packets]
    BY <1>2 DEF Chunk
<1> HIDE DEF Chunk
<1> QED
    BY <1>3, Sizes, LenProperties DEF Seq

LEMMA TakesFromTheFront ==
    ASSUME NEW S, NEW s \in Seq(S), NEW n \in 0..Len(s)
    PROVE  /\ SubSeq(s, 1, n) \in Seq(S) /\ Len(SubSeq(s, 1, n)) = n
           /\ SubSeq(s, n + 1, Len(s)) \in Seq(S) /\ Len(SubSeq(s, n + 1, Len(s))) <= Len(s)
<1>1. Len(s) \in Nat /\ \A i \in 1..Len(s) : s[i] \in S
    OBVIOUS
<1>2. \A i \in 1..n : s[i] \in S
    BY <1>1
<1>3. \A i \in (n + 1)..Len(s) : s[i] \in S
    BY <1>1
<1> QED
    BY <1>1, <1>2, <1>3, SubSeqProperties

LEMMA TakesTheHead ==
    ASSUME NEW S, NEW s \in Seq(S), s # <<>>, NEW n \in Nat, Len(s) <= n
    PROVE  Head(s) \in S /\ Tail(s) \in Seq(S) /\ Len(Tail(s)) <= n
<1>1. Len(s) \in Nat /\ Len(Tail(s)) = Len(s) - 1
    BY HeadTailProperties
<1> QED
    BY <1>1, HeadTailProperties

LEMMA NewProcesses ==
    /\ NewEncoder \in EncoderState /\ NewEncoder.at = "read" /\ ~ NewEncoder.closed
    /\ NewEncoder.queue = <<>> /\ Len(NewEncoder.queue) = 0
    /\ NewDecoder \in DecoderState /\ ~ NewDecoder.finished
<1>1. 0 \in 0..Chunks /\ 0 \in 0..InQueue /\ 0 \in 0..VideoQueue
    BY Sizes
<1>2. <<>> \in Seq(1..Chunks) /\ Len(<<>>) = 0
    OBVIOUS
<1> QED
    BY <1>1, <1>2 DEF NewEncoder, NewDecoder, EncoderState, DecoderState

LEMMA EncFaultKeeps ==
    ASSUME NEW e \in EncoderState
    PROVE  /\ EncFault(e) \in EncoderState /\ EncFault(e).at = e.at /\ EncFault(e).made = e.made
           /\ EncFault(e).queue = e.queue /\ EncFault(e).closed = e.closed
<1>1. CASE e.closing \/ e.fault
    BY <1>1 DEF EncFault
<1>2. CASE ~ (e.closing \/ e.fault)
    <2>1. EncFault(e) = [e EXCEPT !.fault = TRUE, !.cancelled = TRUE]
        BY <1>2 DEF EncFault
    <2> QED
        BY <2>1 DEF EncoderState
<1> QED
    BY <1>1, <1>2

LEMMA DecFaultKeeps ==
    ASSUME NEW d \in DecoderState
    PROVE  /\ DecFault(d) \in DecoderState
           /\ DecFault(d).ended = d.ended /\ DecFault(d).finished = d.finished
<1>1. CASE d.closing \/ d.fault
    BY <1>1 DEF DecFault
<1>2. CASE ~ (d.closing \/ d.fault)
    <2>1. DecFault(d) = [d EXCEPT !.fault = TRUE, !.cancelled = TRUE]
        BY <1>2 DEF DecFault
    <2> QED
        BY <2>1 DEF DecoderState
<1> QED
    BY <1>1, <1>2

(* The loop's return, as what it leaves of the places.                       *)
LEMMA ReturnLeaves ==
    ASSUME LoopTypes,
           NEW why \in {"transport", "encoder", "decoder", "other"}, Return(why)
    PROVE  /\ LoopTypes' /\ stopped' = why
           /\ IF session = None THEN at' = "stopped" ELSE at' = "closeEncoder"
BY DEF LoopTypes, Return, Places, Waiting

LEMMA GoLeaves ==
    ASSUME LoopTypes, NEW where \in Places \ {"start"}, Go(where)
    PROVE  LoopTypes' /\ stopped' = stopped /\ at' = where
BY DEF LoopTypes, Go

LEMMA KeptDemux ==
    ASSUME DemuxTypes, UNCHANGED <<demux, session, sessions>> PROVE DemuxTypes'
BY DEF DemuxTypes, demux, SessionState, Packets

LEMMA KeptGuest ==
    ASSUME GuestTypes, UNCHANGED <<guest, budgets>> PROVE GuestTypes'
BY DEF GuestTypes, guest, budgets

LEMMA KeptHosts ==
    ASSUME HostTypes, UNCHANGED procs PROVE HostTypes'
BY DEF HostTypes, procs

LEMMA KeptLoop ==
    ASSUME LoopTypes, UNCHANGED loop PROVE LoopTypes'
BY DEF LoopTypes, loop

(* The loop only moves: the processes, the session and the demultiplexer's   *)
(* burst are left.                                                           *)
LEMMA LoopMoves ==
    ASSUME Orphans, Finished, LoopTypes, UNCHANGED <<procs, session, burst>>,
           \/ at' \in {"safe", "demux", "feed", "step"} /\ at \notin Waiting
           \/ session = None /\ at' \in {"safe", "stopped"} /\ at # "waitEncoder"
           \/ session # None /\ at' = "closeEncoder" /\ at \notin Waiting,
           stopped' \notin {"refused", "closed"}
    PROVE  Orphans' /\ Finished'
<1>1. Orphans'
    BY DEF Orphans, procs, Waiting
<1>2. Finished'
    BY DEF Finished, procs, Waiting, Parting, NeverRefusedByItsOwn
<1> QED
    BY <1>1, <1>2

-----------------------------------------------------------------------------
(* The goroutines of the two processes.                                      *)

LEMMA EncodingKeeps == ASSUME IInv, Encoding PROVE IInv'
<1> USE DEF IInv, Types
<1>1. UNCHANGED <<loop, guest, demux, session, dec, history>> /\ sessions' = sessions
    BY DEF Encoding, EncoderReads, EncoderSends, EncoderEnds, history
<1>2. GuestTypes'
    <2>1. faultsLeft' \in {faultsLeft, faultsLeft - 1} /\ UNCHANGED <<changesLeft, psiLeft>>
          /\ (faultsLeft' = faultsLeft \/ faultsLeft > 0)
        BY DEF Encoding, EncoderReads, EncoderSends, EncoderEnds, budgets
    <2> QED
        BY <1>1, <2>1, Sizes DEF GuestTypes, guest
<1>3. enc.at # "done" /\ enc' \in EncoderState /\ Len(enc'.queue) <= EncQueue
      /\ (enc'.at = "send" => enc'.made >= 1) /\ enc'.closed = (enc'.at = "done")
    <2>1. CASE EncoderReads
        <3>1. CASE enc' = [enc EXCEPT !.at = "send", !.made = @ + 1] /\ enc.made < Chunks
            <4>1. enc \in EncoderState /\ Len(enc.queue) <= EncQueue /\ enc.at = "read"
                  /\ ~ enc.closed
                BY <2>1 DEF EncoderReads, HostTypes, Finished, EncoderState
            <4>2. enc.made + 1 \in 0..Chunks /\ enc.made + 1 >= 1
                BY <3>1, <4>1, Sizes DEF EncoderState
            <4> QED
                BY <3>1, <4>1, <4>2 DEF EncoderState
        <3>2. CASE enc' = [enc EXCEPT !.at = "wait"]
            BY <2>1, <3>2, Sizes DEF EncoderReads, HostTypes, EncoderState, Finished
        <3>3. CASE enc' = [EncFault(enc) EXCEPT !.at = "wait"]
            <4> DEFINE e == EncFault(enc)
            <4>1. e \in EncoderState /\ Len(e.queue) <= EncQueue /\ e.closed = enc.closed
                BY EncFaultKeeps DEF HostTypes
            <4> HIDE DEF e
            <4>2. enc' = [e EXCEPT !.at = "wait"] /\ enc.at = "read"
                BY <2>1, <3>3 DEF e, EncoderReads
            <4> QED
                BY <4>1, <4>2 DEF EncoderState, Finished
        <3> QED
            BY <2>1, <3>1, <3>2, <3>3 DEF EncoderReads
    <2>2. CASE EncoderSends
        <3>1. CASE enc' = [enc EXCEPT !.at = "wait"]
            BY <2>2, <3>1, Sizes DEF EncoderSends, HostTypes, EncoderState, Finished
        <3>2. CASE /\ Len(enc.queue) < EncQueue
                   /\ enc' = [enc EXCEPT !.at = "read", !.queue = Append(@, enc.made)]
            <4>1. enc.made \in 1..Chunks /\ enc.queue \in Seq(1..Chunks) /\ ~ enc.closed
                BY <2>2, Sizes DEF EncoderSends, HostTypes, EncoderState, Finished
            <4>2. /\ Append(enc.queue, enc.made) \in Seq(1..Chunks)
                  /\ Len(Append(enc.queue, enc.made)) = Len(enc.queue) + 1
                BY <4>1, AppendProperties
            <4> QED
                <5> DEFINE q == Append(enc.queue, enc.made)
                <5>1. q \in Seq(1..Chunks) /\ Len(q) <= EncQueue
                    BY <3>2, <4>1, <4>2, Sizes
                <5>2. enc' = [enc EXCEPT !.at = "read", !.queue = q] /\ enc.at = "send"
                    BY <2>2, <3>2 DEF EncoderSends
                <5> HIDE DEF q
                <5>3. enc \in EncoderState
                    BY DEF HostTypes
                <5> QED
                    BY <4>1, <5>1, <5>2, <5>3 DEF EncoderState
        <3> QED
            BY <2>2, <3>1, <3>2 DEF EncoderSends
    <2>3. CASE EncoderEnds
        BY <2>3 DEF EncoderEnds, HostTypes, EncoderState
    <2> QED
        BY <2>1, <2>2, <2>3 DEF Encoding
<1>4. LoopTypes' /\ DemuxTypes' /\ HostTypes'
    BY <1>1, <1>3, KeptLoop, KeptDemux DEF HostTypes
<1>5. Orphans'
    BY <1>1, <1>3 DEF Orphans, loop
<1>6. Finished'
    BY <1>1, <1>3 DEF Finished, NeverRefusedByItsOwn, loop, demux
<1> QED
    BY <1>2, <1>4, <1>5, <1>6

LEMMA DecodingKeeps == ASSUME IInv, Decoding PROVE IInv'
<1> USE DEF IInv, Types
<1>1. UNCHANGED <<loop, guest, demux, session, enc, history>> /\ sessions' = sessions
    BY DEF Decoding, DecoderWrites, DecoderReads, DecoderEnds, history
<1>2. GuestTypes'
    <2>1. faultsLeft' \in {faultsLeft, faultsLeft - 1} /\ UNCHANGED <<changesLeft, psiLeft>>
          /\ (faultsLeft' = faultsLeft \/ faultsLeft > 0)
        BY DEF Decoding, DecoderWrites, DecoderReads, DecoderEnds, budgets
    <2> QED
        BY <1>1, <2>1, Sizes DEF GuestTypes, guest
<1>3. dec' \in DecoderState /\ dec'.finished = dec.finished /\ (dec.ended => dec'.ended)
    <2>1. CASE DecoderWrites
        <3>1. dec.input - 1 \in 0..InQueue /\ dec.inside + 1 \in Nat
            BY <2>1, Sizes DEF DecoderWrites, HostTypes, DecoderState
        <3> QED
            BY <2>1, <3>1 DEF DecoderWrites, HostTypes, DecoderState
    <2> DEFINE d == DecFault(dec)
    <2>2. d \in DecoderState /\ d.finished = dec.finished /\ d.ended = dec.ended
        BY DecFaultKeeps DEF HostTypes
    <2> HIDE DEF d
    <2>3. CASE DecoderReads
        <3>1. CASE dec' = [dec EXCEPT !.inside = @ - 1, !.video = @ + 1] /\ dec.video < VideoQueue
            <4>1. dec.video + 1 \in 0..VideoQueue /\ dec.inside - 1 \in Nat
                BY <2>3, <3>1, Sizes DEF DecoderReads, HostTypes, DecoderState
            <4> QED
                BY <2>3, <3>1, <4>1 DEF DecoderReads, HostTypes, DecoderState
        <3>2. CASE dec' = [d EXCEPT !.inside = 0]
            BY <2>2, <3>2 DEF DecoderState
        <3> QED
            BY <2>3, <3>1, <3>2 DEF DecoderReads, d
    <2>4. CASE DecoderEnds
        <3>1. CASE dec' = [dec EXCEPT !.ended = TRUE]
            BY <2>4, <3>1 DEF HostTypes, DecoderState
        <3>2. CASE dec' = [d EXCEPT !.ended = TRUE]
            BY <2>2, <3>2 DEF DecoderState
        <3> QED
            BY <2>4, <3>1, <3>2 DEF DecoderEnds, d
    <2> QED
        BY <2>1, <2>3, <2>4 DEF Decoding
<1>4. LoopTypes' /\ DemuxTypes' /\ HostTypes'
    BY <1>1, <1>3, KeptLoop, KeptDemux DEF HostTypes
<1>5. Orphans'
    BY <1>1, <1>3 DEF Orphans, loop
<1>6. Finished'
    BY <1>1, <1>3 DEF Finished, NeverRefusedByItsOwn, loop, demux
<1> QED
    BY <1>2, <1>4, <1>5, <1>6

-----------------------------------------------------------------------------
(* A safe point.                                                             *)

LEMMA LeaveKeeps == ASSUME IInv, Leave PROVE IInv'
<1> USE DEF IInv, Types
<1>1. LoopTypes' /\ stopped' = "other" /\ at = "safe"
      /\ IF session = None THEN at' = "stopped" ELSE at' = "closeEncoder"
    BY ReturnLeaves DEF Leave
<1>2. UNCHANGED <<procs, session, demux, sessions, guest, budgets>> /\ burst' = burst
    BY DEF Leave, history, demux
<1>3. Orphans' /\ Finished'
    BY <1>1, <1>2, LoopMoves DEF Waiting
<1> QED
    BY <1>1, <1>2, <1>3, KeptDemux, KeptGuest, KeptHosts

LEMMA TransmitKeeps == ASSUME IInv, Transmit PROVE IInv'
<1> USE DEF IInv, Types
<1>1. UNCHANGED <<guest, burst, session, procs, sessions>> /\ at = "safe"
    BY DEF Transmit, history
<1>2. Go("demux") \/ Return("transport")
    BY DEF Transmit
<1>3. LoopTypes' /\ stopped' \in {stopped, "transport"}
      /\ \/ at' = "demux"
         \/ IF session = None THEN at' = "stopped" ELSE at' = "closeEncoder"
    BY <1>2, ReturnLeaves, GoLeaves DEF Places
<1>4. Orphans' /\ Finished'
    BY <1>1, <1>3, LoopMoves DEF Waiting, Parting, Finished, NeverRefusedByItsOwn
<1>5. admitted' \in Seq(Packets) /\ Len(admitted') <= Cap
    <2>1. Psi \in Packets
        BY Sizes DEF Psi, Packets, DemuxTypes
    <2>2. CASE admitted' = admitted
        BY <2>2 DEF DemuxTypes
    <2>3. CASE admitted' = Append(admitted, Psi) /\ Len(admitted) + Len(<<Psi>>) <= Cap
        BY <2>1, <2>3, AppendProperties DEF DemuxTypes
    <2> QED
        BY <2>2, <2>3 DEF Transmit, Admits
<1>6. DemuxTypes'
    BY <1>1, <1>5 DEF DemuxTypes, Packets, SessionState
<1>7. GuestTypes'
    BY <1>1, Sizes DEF Transmit, GuestTypes, guest, budgets
<1> QED
    BY <1>1, <1>3, <1>4, <1>6, <1>7, KeptHosts

LEMMA PumpDemuxKeeps == ASSUME IInv, PumpDemux PROVE IInv'
<1> USE DEF IInv, Types
<1>1. UNCHANGED <<guest, session, procs, sessions, budgets>> /\ at = "demux"
    BY DEF PumpDemux
<1>2. PICK due \in 1..2 :
          LET n == IF due < Len(burst) THEN due ELSE Len(burst)
              packets == SubSeq(burst, 1, n)
          IN  \/ /\ burst' = SubSeq(burst, n + 1, Len(burst))
                 /\ admitted' = admitted /\ Go("feed")
              \/ /\ Admits(packets)
                 /\ burst' = SubSeq(burst, n + 1, Len(burst))
                 /\ admitted' = admitted \o packets /\ Go("feed")
              \/ Return("transport") /\ UNCHANGED demux
    BY DEF PumpDemux
<1> DEFINE n == IF due < Len(burst) THEN due ELSE Len(burst)
           packets == SubSeq(burst, 1, n)
           rest == SubSeq(burst, n + 1, Len(burst))
<1>3. n \in 0..Len(burst) /\ Len(burst) \in Nat
    BY DEF DemuxTypes
<1>4. packets \in Seq(Packets) /\ rest \in Seq(Packets) /\ Len(rest) <= Len(burst)
    <2> HIDE DEF n
    <2> QED
        BY <1>3, TakesFromTheFront DEF DemuxTypes
<1>5. burst = <<>> => rest = <<>>
    <2>1. burst = <<>> => n = 0 /\ Len(burst) = 0
        BY <1>3
    <2> HIDE DEF n
    <2> QED
        BY <2>1, SubSeqEmpty
<1>6. burst' \in {burst, rest} /\ admitted' \in {admitted, admitted \o packets}
      /\ (admitted' = admitted \/ Admits(packets)) /\ (Go("feed") \/ Return("transport"))
    BY <1>2 DEF demux
<1> HIDE DEF n, packets, rest
<1>7. DemuxTypes'
    <2>1. admitted' \in Seq(Packets) /\ Len(admitted') <= Cap
        <3>1. /\ admitted \o packets \in Seq(Packets)
              /\ Len(admitted \o packets) = Len(admitted) + Len(packets)
            BY <1>4, ConcatProperties DEF DemuxTypes
        <3> QED
            BY <1>6, <3>1 DEF DemuxTypes, Admits
    <2>2. burst' \in Seq(Packets) /\ Len(burst') <= ChunkLen
        BY <1>3, <1>4, <1>6, Sizes DEF DemuxTypes
    <2> QED
        BY <1>1, <2>1, <2>2 DEF DemuxTypes, Packets, SessionState
<1>8. LoopTypes' /\ stopped' \in {stopped, "transport"}
      /\ \/ at' = "feed"
         \/ IF session = None THEN at' = "stopped" ELSE at' = "closeEncoder"
    BY <1>6, ReturnLeaves, GoLeaves DEF Places
<1>9. Orphans'
    BY <1>1, <1>8 DEF Orphans, procs
<1>10. Finished'
    BY <1>1, <1>5, <1>6, <1>8 DEF Finished, NeverRefusedByItsOwn, procs, Waiting, Parting
<1> QED
    BY <1>1, <1>7, <1>8, <1>9, <1>10, KeptGuest, KeptHosts

-----------------------------------------------------------------------------
(* playoutSession.pump, and the step of the box.                             *)

(* The session of the loop, emptied or filled.                               *)
LEMMA SessionHolds ==
    ASSUME DemuxTypes, session # None, NEW packets \in Seq(Packets),
           session' = [session EXCEPT !.decodePending = packets], sessions' = sessions
    PROVE  /\ session' # None /\ session' \in SessionState'
           /\ session'.decodePending = packets
<1>1. session \in SessionState /\ sessions \in Nat
    BY DEF DemuxTypes
<1>2. session' \in SessionState /\ session'.decodePending = packets
    BY <1>1 DEF SessionState
<1>3. Packets' = Packets
    BY DEF Packets
<1>4. SessionState' = SessionState
    BY <1>3 DEF SessionState
<1> QED
    BY <1>1, <1>2, <1>4, SessionIsSome

(* What an enqueue does to the decoder, given that it is not finished.       *)
LEMMA EnqueueLeaves ==
    ASSUME LoopTypes, dec \in DecoderState, ~ dec.finished, session # None,
           NEW packets, NEW then, NEW place \in {"step", "present"},
           dec.input < InQueue => then \in DecoderState,
           Enqueue(packets, then), Refusal = "no" => Go(place)
    PROVE  /\ LoopTypes' /\ stopped' \in {stopped, "decoder"}
           /\ dec' \in DecoderState
           /\ \/ dec' = then /\ at' = place
              \/ at' = "closeEncoder" /\ ~ dec'.finished
<1>1. CASE Refusal = "no"
    <2>1. dec' = then /\ Go(place) /\ dec.input < InQueue
        BY <1>1, Sizes DEF Enqueue, Refusal, DecoderState
    <2> QED
        BY <2>1, GoLeaves DEF Places
<1>2. CASE Refusal = "decoder"
    <2>1. dec' = DecFault(dec) /\ Return("decoder")
        BY <1>2 DEF Enqueue
    <2> QED
        BY <2>1, ReturnLeaves, DecFaultKeeps
<1> QED
    BY <1>1, <1>2 DEF Refusal

LEMMA FlushKeeps ==
    ASSUME IInv, at = "feed", session # None, burst = <<>>, enc.queue = <<>>, enc.closed,
           Flush, UNCHANGED <<burst, enc, guest, admitted, sessions, missed, budgets>>
    PROVE  IInv'
<1> USE DEF IInv, Types
<1>1. dec \in DecoderState /\ <<>> \in Seq(Packets)
    BY DEF HostTypes
<1>2. /\ LoopTypes' /\ stopped' \in {stopped, "encoder", "decoder"} /\ dec' \in DecoderState
      /\ session' # None /\ session' \in SessionState'
      /\ at' \in {"closeEncoder", "step"}
      /\ dec'.finished => session'.decodePending = <<>>
    <2>1. CASE enc.fault
        <3>1. Return("encoder") /\ UNCHANGED <<session, dec>>
            BY <2>1 DEF Flush
        <3>2. session' \in SessionState'
            BY <3>1 DEF DemuxTypes, SessionState, Packets
        <3>3. dec'.finished => session'.decodePending = <<>>
            BY <3>1 DEF Finished, Parting
        <3> QED
            BY <1>1, <3>1, <3>2, <3>3, ReturnLeaves
    <2>2. CASE ~ enc.fault
        <3>1. session' = [session EXCEPT !.decodePending = <<>>]
            BY <2>2 DEF Flush
        <3>2. session' # None /\ session' \in SessionState' /\ session'.decodePending = <<>>
            BY <1>1, <3>1, SessionHolds
        <3>3. CASE session.decodePending = <<>>
            <4>1. dec' = [dec EXCEPT !.finished = TRUE] /\ Go("step")
                BY <2>2, <3>3 DEF Flush
            <4>2. dec' \in DecoderState
                BY <1>1, <4>1 DEF DecoderState
            <4> QED
                BY <3>2, <4>1, <4>2, GoLeaves DEF Places
        <3>4. CASE session.decodePending # <<>>
            <4> DEFINE then == [dec EXCEPT !.input = @ + 1, !.finished = TRUE]
            <4>1. ~ dec.finished
                BY <3>4 DEF Finished, Waiting, Parting
            <4>2. Enqueue(session.decodePending, then) /\ (Refusal = "no" => Go("step"))
                BY <2>2, <3>4 DEF Flush
            <4>3. dec.input < InQueue => then \in DecoderState
                <5>1. dec.input < InQueue => dec.input + 1 \in 0..InQueue
                    BY <1>1, Sizes DEF DecoderState
                <5> QED
                    BY <1>1, <5>1 DEF DecoderState
            <4> HIDE DEF then
            <4> QED
                BY <1>1, <3>2, <4>1, <4>2, <4>3, EnqueueLeaves
        <3> QED
            BY <3>3, <3>4
    <2> QED
        BY <2>1, <2>2
<1>3. DemuxTypes'
    BY <1>2 DEF DemuxTypes, Packets
<1>4. Orphans' /\ Finished'
    BY <1>2 DEF Orphans, Finished, NeverRefusedByItsOwn, Waiting, Parting
<1> QED
    BY <1>2, <1>3, <1>4, KeptGuest DEF HostTypes

LEMMA FeedKeeps == ASSUME IInv, Feed PROVE IInv'
<1> USE DEF IInv, Types
<1>1. at = "feed" /\ UNCHANGED <<guest, admitted, sessions, missed, budgets>>
    BY DEF Feed
<1>2. CASE session = None \/ burst # <<>> \/ (enc.queue = <<>> /\ ~ enc.closed)
    <2>1. UNCHANGED <<burst, session, procs>>
          /\ (IF session = None THEN Go("step") ELSE Go("take"))
        BY <1>2 DEF Feed
    <2>2. LoopTypes' /\ stopped' = stopped /\ (IF session = None THEN at' = "step" ELSE at' = "take")
        BY <2>1, GoLeaves DEF Places
    <2>3. Orphans'
        BY <1>1, <2>1, <2>2 DEF Orphans, procs
    <2>4. Finished'
        BY <1>1, <1>2, <2>1, <2>2 DEF Finished, NeverRefusedByItsOwn, procs, Waiting, Parting
    <2>5. DemuxTypes'
        BY <1>1, <2>1, KeptDemux DEF demux
    <2> QED
        BY <1>1, <2>1, <2>2, <2>3, <2>4, <2>5, KeptGuest, KeptHosts
<1>3. CASE session # None /\ burst = <<>> /\ enc.queue # <<>>
    <2>1. /\ enc' = [enc EXCEPT !.queue = Tail(@)] /\ UNCHANGED <<dec, session>>
          /\ burst' = Chunk(session.number, Head(enc.queue)) /\ Go("take")
        BY <1>3 DEF Feed, Schedule
    <2>2. /\ Head(enc.queue) \in 1..Chunks /\ Tail(enc.queue) \in Seq(1..Chunks)
          /\ Len(Tail(enc.queue)) <= EncQueue /\ session.number = sessions /\ sessions \in Nat
        <3>1. enc.queue \in Seq(1..Chunks) /\ Len(enc.queue) <= EncQueue
            BY DEF HostTypes, EncoderState
        <3>2. session.number = sessions /\ sessions \in Nat
            BY <1>3 DEF DemuxTypes, SessionState
        <3> DEFINE q == enc.queue
        <3>3. q \in Seq(1..Chunks) /\ q # <<>> /\ EncQueue \in Nat /\ Len(q) <= EncQueue
            BY <1>3, <3>1, Sizes
        <3> HIDE DEF q
        <3>4. /\ Head(q) \in 1..Chunks /\ Tail(q) \in Seq(1..Chunks)
              /\ Len(Tail(q)) <= EncQueue
            BY <3>3, TakesTheHead
        <3> QED
            BY <3>2, <3>4 DEF q
    <2>3. burst' \in Seq(Packets) /\ Len(burst') <= ChunkLen
        BY <2>1, <2>2, ChunkIsPackets, Sizes
    <2>4. DemuxTypes'
        BY <1>1, <2>1, <2>3 DEF DemuxTypes, Packets, SessionState
    <2>5. HostTypes' /\ enc'.at = enc.at /\ enc'.closed = enc.closed
        BY <2>1, <2>2 DEF HostTypes, EncoderState
    <2>6. LoopTypes' /\ stopped' = stopped /\ at' = "take"
        BY <2>1, GoLeaves DEF Places
    <2>7. Orphans' /\ Finished'
        BY <1>1, <1>3, <2>1, <2>5, <2>6 DEF Orphans, Finished, NeverRefusedByItsOwn, Waiting, Parting
    <2> QED
        BY <1>1, <2>4, <2>5, <2>6, <2>7, KeptGuest
<1>4. CASE session # None /\ burst = <<>> /\ enc.queue = <<>> /\ enc.closed
    <2>1. Flush /\ UNCHANGED <<burst, enc>>
        BY <1>4 DEF Feed
    <2> QED
        BY <1>1, <1>4, <2>1, FlushKeeps
<1> QED
    BY <1>2, <1>3, <1>4

LEMMA TakeKeeps == ASSUME IInv, Take PROVE IInv'
<1> USE DEF IInv, Types
<1> DEFINE gathered == session.decodePending \o admitted
<1>1. /\ at = "take" /\ admitted' = <<>> /\ UNCHANGED <<guest, burst, enc, sessions, missed, budgets>>
      /\ \/ session' = [session EXCEPT !.decodePending = gathered] /\ Go("present")
            /\ UNCHANGED dec
         \/ /\ session' = [session EXCEPT !.decodePending = <<>>]
            /\ Enqueue(gathered, [dec EXCEPT !.input = @ + 1])
            /\ Refusal = "no" => Go("present")
    BY DEF Take
<1>2. session # None /\ ~ dec.finished /\ dec \in DecoderState
    BY <1>1 DEF Orphans, Finished, HostTypes, Waiting, Parting
<1>3. session.decodePending \in Seq(Packets) /\ admitted \in Seq(Packets)
    BY <1>2 DEF DemuxTypes, SessionState
<1>4. gathered \in Seq(Packets) /\ <<>> \in Seq(Packets)
    BY <1>3
<1> HIDE DEF gathered
<1>5. session' # None /\ session' \in SessionState'
    <2>1. PICK packets \in {gathered, <<>>} : session' = [session EXCEPT !.decodePending = packets]
        BY <1>1
    <2> QED
        BY <1>1, <1>2, <1>4, <2>1, SessionHolds
<1>6. /\ LoopTypes' /\ stopped' \in {stopped, "decoder"} /\ dec' \in DecoderState
      /\ ~ dec'.finished /\ at' \in {"present", "closeEncoder"}
    <2> DEFINE then == [dec EXCEPT !.input = @ + 1]
    <2>1. ~ then.finished /\ (dec.input < InQueue => then \in DecoderState)
        <3>1. dec.input < InQueue => dec.input + 1 \in 0..InQueue
            BY <1>2, Sizes DEF DecoderState
        <3> QED
            BY <1>2, <3>1 DEF DecoderState
    <2>2. CASE Go("present") /\ UNCHANGED dec
        BY <1>2, <2>2, GoLeaves DEF Places
    <2>3. CASE Enqueue(gathered, then) /\ (Refusal = "no" => Go("present"))
        <3> HIDE DEF then
        <3> QED
            BY <1>2, <2>1, <2>3, EnqueueLeaves
    <2> QED
        BY <1>1, <2>2, <2>3
<1>7. DemuxTypes'
    BY <1>1, <1>4, <1>5, Sizes DEF DemuxTypes, Packets
<1>8. Orphans' /\ Finished'
    BY <1>1, <1>5, <1>6 DEF Orphans, Finished, NeverRefusedByItsOwn, Waiting, Parting
<1> QED
    BY <1>1, <1>6, <1>7, <1>8, KeptGuest DEF HostTypes

LEMMA PresentKeeps == ASSUME IInv, Present PROVE IInv'
<1> USE DEF IInv, Types
<1>1. /\ at = "present" /\ UNCHANGED <<guest, demux, session, enc, history, budgets>>
      /\ sessions' = sessions /\ UNCHANGED burst
      /\ dec' = [dec EXCEPT !.video = IF @ > 0 THEN @ - 1 ELSE 0]
    BY DEF Present, history, demux
<1>2. dec' \in DecoderState /\ dec'.finished = dec.finished /\ dec'.ended = dec.ended
    <2>1. (IF dec.video > 0 THEN dec.video - 1 ELSE 0) \in 0..VideoQueue
        BY Sizes DEF HostTypes, DecoderState
    <2> QED
        BY <1>1, <2>1 DEF HostTypes, DecoderState
<1>3. session # None
    BY <1>1 DEF Orphans
<1>4. LoopTypes' /\ stopped' \in {stopped, "encoder", "decoder"} /\ at' \in {"closeEncoder", "step"}
    BY <1>3, ReturnLeaves, GoLeaves DEF Present, Places
<1>5. Orphans' /\ Finished'
    BY <1>1, <1>2, <1>3, <1>4 DEF Orphans, Finished, NeverRefusedByItsOwn, Waiting, Parting
<1> QED
    BY <1>1, <1>2, <1>4, <1>5, KeptDemux, KeptGuest DEF HostTypes

LEMMA StepKeeps == ASSUME IInv, Step PROVE IInv'
<1> USE DEF IInv, Types
<1>1. /\ at = "step" /\ UNCHANGED <<stopped, onAir, demux, session, procs, history>>
      /\ sessions' = sessions /\ UNCHANGED burst
      /\ UNCHANGED <<psiLeft, faultsLeft>> /\ tuned' \in BOOLEAN
      /\ changesLeft' \in {changesLeft, changesLeft - 1}
      /\ (changesLeft' = changesLeft \/ changesLeft > 0)
    BY DEF Step, history, demux, GuestTypes
<1>2. after' \in Programmes \union {None}
    BY DEF Step, GuestTypes
<1>3. at' \in {"safe", "start", "closeEncoder"}
      /\ (at' = "start" => session = None /\ after' # None)
      /\ (at' = "closeEncoder" => session # None)
    BY DEF Step
<1>4. LoopTypes'
    BY <1>1, <1>2, <1>3 DEF LoopTypes, Places, Waiting
<1>5. GuestTypes'
    BY <1>1, Sizes DEF GuestTypes
<1>6. Orphans' /\ Finished'
    BY <1>1, <1>3 DEF Orphans, Finished, NeverRefusedByItsOwn, Waiting, Parting, procs
<1> QED
    BY <1>1, <1>4, <1>5, <1>6, KeptDemux, KeptHosts

LEMMA ScheduleMovesKeeps == ASSUME IInv, ScheduleMoves PROVE IInv'
<1> USE DEF IInv, Types
<1>1. /\ UNCHANGED <<loop, tuned, demux, session, procs, history, psiLeft, faultsLeft>>
      /\ sessions' = sessions /\ onAir' \in Programmes \union {None}
      /\ changesLeft' = changesLeft - 1 /\ changesLeft > 0
    BY DEF ScheduleMoves, history
<1>2. GuestTypes'
    BY <1>1, Sizes DEF GuestTypes
<1>3. Orphans' /\ Finished'
    BY <1>1 DEF Orphans, Finished, NeverRefusedByItsOwn, loop, procs, demux
<1> QED
    BY <1>1, <1>2, <1>3, KeptDemux, KeptHosts, KeptLoop

(* A session more: what the demultiplexer holds of earlier ones stays typed. *)
LEMMA StartPlayoutKeeps == ASSUME IInv, StartPlayout PROVE IInv'
<1> USE DEF IInv, Types
<1>1. /\ at = "start" /\ sessions' = sessions + 1 /\ UNCHANGED <<guest, demux, budgets, stopped>>
      /\ enc' = NewEncoder /\ dec' = NewDecoder /\ at' = "safe" /\ after' = None
      /\ session' = [key |-> after, number |-> sessions', decodePending |-> <<>>]
      /\ after \in Programmes /\ sessions \in Nat
    BY DEF StartPlayout, LoopTypes, DemuxTypes
<1>2. LoopTypes'
    BY <1>1 DEF LoopTypes, Places
<1>3. HostTypes'
    BY <1>1, NewProcesses, Sizes DEF HostTypes
<1>4. Packets \subseteq Packets' /\ sessions' \in Nat
    BY <1>1 DEF Packets
<1>5. DemuxTypes'
    <2>1. burst' \in Seq(Packets') /\ admitted' \in Seq(Packets')
        <3> DEFINE P == Packets
                   Q == Packets'
        <3>1. P \subseteq Q /\ burst \in Seq(P) /\ admitted \in Seq(P)
            BY <1>4 DEF DemuxTypes
        <3> HIDE DEF P, Q
        <3>2. burst \in Seq(Q) /\ admitted \in Seq(Q)
            BY <3>1, SeqMonotonic
        <3> QED
            BY <1>1, <3>2 DEF Q, demux
    <2>2. session' \in SessionState'
        BY <1>1 DEF SessionState
    <2> QED
        BY <1>1, <1>4, <2>1, <2>2 DEF DemuxTypes, demux
<1>6. session' # None
    <2>1. session' \in [key : Programmes, number : Nat, decodePending : Seq(Nat \X Nat)]
        BY <1>1, <1>4
    <2> QED
        BY <2>1, PlayoutAssumption
<1>7. Orphans'
    BY <1>1, <1>6 DEF Orphans
<1>8. Finished'
    BY <1>1, NewProcesses DEF Finished, NeverRefusedByItsOwn
<1> QED
    BY <1>1, <1>2, <1>3, <1>5, <1>7, <1>8, KeptGuest

LEMMA FailedStartKeeps ==
    ASSUME IInv, DecoderWillNotStart \/ PlayoutWillNotStart PROVE IInv'
<1> USE DEF IInv, Types
<1>1. /\ at = "start" /\ faultsLeft > 0 /\ faultsLeft' = faultsLeft - 1 /\ stopped' = "start"
      /\ UNCHANGED <<guest, demux, session, dec, history, changesLeft, psiLeft>>
      /\ sessions' = sessions
    BY DEF DecoderWillNotStart, PlayoutWillNotStart, history, procs
<1>2. session = None /\ dec.ended /\ enc.at = "done"
    BY <1>1 DEF Orphans
<1>3. GuestTypes'
    BY <1>1, Sizes DEF GuestTypes, guest
<1>4. CASE DecoderWillNotStart
    <2>1. /\ enc' = [NewEncoder EXCEPT !.closing = TRUE, !.cancelled = TRUE]
          /\ at' = "waitEncoder" /\ after' = "stopped"
        BY <1>4 DEF DecoderWillNotStart
    <2>2. LoopTypes'
        BY <1>1, <2>1 DEF LoopTypes, Places, Waiting
    <2>3. HostTypes' /\ ~ enc'.closed
        <3> DEFINE e == NewEncoder
        <3>1. e \in EncoderState /\ e.at = "read" /\ ~ e.closed /\ Len(e.queue) <= EncQueue
            BY NewProcesses, Sizes
        <3> HIDE DEF e
        <3>2. [e EXCEPT !.closing = TRUE, !.cancelled = TRUE] \in EncoderState
            BY <3>1 DEF EncoderState
        <3>3. enc' = [e EXCEPT !.closing = TRUE, !.cancelled = TRUE]
            BY <2>1 DEF e
        <3>4. enc' \in EncoderState /\ enc'.at = "read" /\ ~ enc'.closed
              /\ enc'.queue = e.queue
            BY <3>1, <3>2, <3>3 DEF EncoderState
        <3> QED
            BY <1>1, <3>1, <3>4 DEF HostTypes
    <2>4. Orphans' /\ Finished'
        BY <1>1, <1>2, <2>1, <2>3 DEF Orphans, Finished, NeverRefusedByItsOwn
    <2> QED
        BY <1>1, <1>3, <2>2, <2>3, <2>4, KeptDemux
<1>5. CASE PlayoutWillNotStart
    <2>1. UNCHANGED procs /\ at' = "stopped" /\ after' = after
        BY <1>5 DEF PlayoutWillNotStart
    <2>2. LoopTypes'
        BY <1>1, <2>1 DEF LoopTypes, Places, Waiting
    <2>3. Orphans' /\ Finished'
        BY <1>1, <1>2, <2>1 DEF Orphans, Finished, NeverRefusedByItsOwn, procs
    <2> QED
        BY <1>1, <1>3, <2>1, <2>2, <2>3, KeptDemux, KeptHosts
<1> QED
    BY <1>4, <1>5

-----------------------------------------------------------------------------
(* close(): the encoder first, then the decoder.                             *)

LEMMA ClosingKeeps == ASSUME IInv, Closing PROVE IInv'
<1> USE DEF IInv, Types
<1>1. /\ UNCHANGED <<stopped, after, guest, demux, history, budgets>>
      /\ sessions' = sessions /\ UNCHANGED burst
    BY DEF Closing, CloseEncoder, EncoderGone, CloseDecoder, DecoderGone, history, demux
<1>2. GuestTypes'
    BY <1>1, KeptGuest
<1>3. CASE CloseEncoder
    <2>1. /\ at = "closeEncoder" /\ at' = "waitEncoder" /\ UNCHANGED <<session, dec>>
          /\ enc' = [enc EXCEPT !.closing = TRUE, !.cancelled = TRUE]
        BY <1>3 DEF CloseEncoder
    <2>2. enc' \in EncoderState /\ enc'.at = enc.at /\ enc'.closed = enc.closed
          /\ enc'.queue = enc.queue /\ enc'.made = enc.made
        BY <2>1 DEF HostTypes, EncoderState
    <2>3. LoopTypes' /\ HostTypes'
        BY <1>1, <2>1, <2>2 DEF LoopTypes, HostTypes, Places, Waiting
    <2>4. Orphans' /\ Finished'
        BY <1>1, <2>1, <2>2 DEF Orphans, Finished, NeverRefusedByItsOwn, Waiting, Parting
    <2> QED
        BY <1>1, <1>2, <2>1, <2>3, <2>4, KeptDemux
<1>4. CASE EncoderGone
    <2>1. /\ at = "waitEncoder" /\ enc.at = "done" /\ UNCHANGED <<session, procs>>
          /\ at' = IF session = None THEN "stopped" ELSE "closeDecoder"
        BY <1>4 DEF EncoderGone
    <2>2. LoopTypes'
        BY <1>1, <2>1 DEF LoopTypes, Places, Waiting
    <2>3. Orphans' /\ Finished'
        BY <1>1, <2>1 DEF Orphans, Finished, NeverRefusedByItsOwn, Waiting, Parting, procs
    <2> QED
        BY <1>1, <1>2, <2>1, <2>2, <2>3, KeptDemux, KeptHosts
<1>5. CASE CloseDecoder
    <2>1. /\ at = "closeDecoder" /\ at' = "waitDecoder" /\ UNCHANGED <<session, enc>>
          /\ dec' = [dec EXCEPT !.closing = TRUE, !.finished = TRUE, !.cancelled = TRUE]
        BY <1>5 DEF CloseDecoder
    <2>2. dec' \in DecoderState /\ dec'.ended = dec.ended
        BY <2>1 DEF HostTypes, DecoderState
    <2>3. LoopTypes' /\ HostTypes'
        BY <1>1, <2>1, <2>2 DEF LoopTypes, HostTypes, Places, Waiting
    <2>4. Orphans' /\ Finished'
        BY <1>1, <2>1, <2>2 DEF Orphans, Finished, NeverRefusedByItsOwn, Waiting, Parting
    <2> QED
        BY <1>1, <1>2, <2>1, <2>3, <2>4, KeptDemux
<1>6. CASE DecoderGone
    <2>1. /\ at = "waitDecoder" /\ dec.ended /\ session' = None /\ UNCHANGED procs
          /\ at' = IF after = "stopped" THEN "stopped" ELSE IF after = None THEN "safe" ELSE "start"
        BY <1>6 DEF DecoderGone
    <2>2. LoopTypes'
        BY <1>1, <2>1 DEF LoopTypes, Places, Waiting
    <2>3. Orphans' /\ Finished'
        BY <1>1, <2>1 DEF Orphans, Finished, NeverRefusedByItsOwn, procs
    <2>4. DemuxTypes'
        BY <1>1, <2>1 DEF DemuxTypes, demux, Packets
    <2> QED
        BY <1>1, <1>2, <2>1, <2>2, <2>3, <2>4, KeptHosts
<1> QED
    BY <1>3, <1>4, <1>5, <1>6 DEF Closing

LEMMA InitHolds == Init => IInv
<1> SUFFICES ASSUME Init PROVE IInv
    OBVIOUS
<1> DEFINE e == NewEncoder
           d == NewDecoder
<1>1. LoopTypes
    BY DEF Init, LoopTypes, Places
<1>2. e \in EncoderState /\ Len(e.queue) <= EncQueue /\ d \in DecoderState /\ ~ d.finished
    BY NewProcesses, Sizes
<1>3. enc = [e EXCEPT !.at = "done", !.closed = TRUE] /\ dec = [d EXCEPT !.ended = TRUE]
    BY DEF Init
<1> HIDE DEF e, d
<1>4. /\ enc \in EncoderState /\ enc.at = "done" /\ Len(enc.queue) <= EncQueue
      /\ dec \in DecoderState /\ dec.ended /\ ~ dec.finished
    BY <1>2, <1>3 DEF EncoderState, DecoderState
<1>5. HostTypes
    BY <1>4 DEF HostTypes
<1>6. DemuxTypes
    <2>1. <<>> \in Seq(Packets) /\ Len(<<>>) = 0
        OBVIOUS
    <2> QED
        BY <2>1, Sizes DEF Init, DemuxTypes
<1>7. GuestTypes
    <2>1. tuned \in BOOLEAN /\ onAir \in Programmes \union {None}
        BY DEF Init
    <2>2. changesLeft \in 0..MaxChanges /\ psiLeft \in 0..MaxPsi /\ faultsLeft \in 0..MaxFaults
        BY Sizes DEF Init
    <2> QED
        BY <2>1, <2>2 DEF GuestTypes
<1>8. Orphans /\ Finished
    BY <1>4 DEF Init, Orphans, Finished, NeverRefusedByItsOwn
<1> QED
    BY <1>1, <1>5, <1>6, <1>7, <1>8 DEF IInv, Types

-----------------------------------------------------------------------------
(* The inductive invariant holds in every reachable state: the types, which  *)
(* of the two processes may be alive where the loop is, and what is left of  *)
(* a programme whose decoder has been told there is no more.                 *)
THEOREM Invariance == Spec => []IInv
<1>1. IInv /\ [Next]_vars => IInv'
    <2> SUFFICES ASSUME IInv, [Next]_vars PROVE IInv'
        OBVIOUS
    <2>1. CASE Loop
        BY <2>1, LeaveKeeps, TransmitKeeps, PumpDemuxKeeps, FeedKeeps, TakeKeeps, PresentKeeps,
           StepKeeps, StartPlayoutKeeps, FailedStartKeeps, ClosingKeeps DEF Loop
    <2>2. CASE UNCHANGED vars
        <3>1. LoopTypes' /\ HostTypes' /\ DemuxTypes' /\ GuestTypes'
            BY <2>2, KeptLoop, KeptHosts, KeptDemux, KeptGuest DEF IInv, Types, vars, history
        <3>2. Orphans' /\ Finished'
            BY <2>2 DEF IInv, Orphans, Finished, NeverRefusedByItsOwn, vars, loop, procs, demux
        <3> QED
            BY <3>1, <3>2 DEF IInv, Types
    <2> QED
        BY <2>1, <2>2, EncodingKeeps, DecodingKeeps, ScheduleMovesKeeps DEF Next
<1> QED
    BY <1>1, InitHolds, PTL DEF Spec

(* Every queue of the playout stays within its cap, whatever the caps, and   *)
(* what is on its way are packets of sessions that were started.             *)
THEOREM TypeCorrect == Spec => []TypeOK
<1>1. IInv => TypeOK
    BY DEF IInv, Types, LoopTypes, HostTypes, DemuxTypes, GuestTypes, TypeOK, SessionState,
           EncoderState, DecoderState
<1> QED
    BY <1>1, Invariance, PTL

(* Without a session, or returned, the loop leaves neither process behind,   *)
(* whichever of the two would not start and whatever fault ended the session *)
(* (main.go:465, playout.go:46-48).                                          *)
THEOREM NoProcessIsLeft == Spec => []NoOrphans
<1>1. IInv => NoOrphans
    BY DEF IInv, Orphans, NoOrphans
<1> QED
    BY <1>1, Invariance, PTL

(* No programme, of any length and at any pace of the guest, ends in the     *)
(* pump being refused a burst or a packet (demux/transport.go:18,            *)
(* media/decoder.go:265).                                                    *)
THEOREM PumpIsNeverRefused == Spec => []NeverRefusedByItsOwn
<1>1. IInv => NeverRefusedByItsOwn
    BY DEF IInv, Finished
<1> QED
    BY <1>1, Invariance, PTL

-----------------------------------------------------------------------------
(* What close() waits for comes nearer: the safety half of CloseReturns.     *)

(* close() cancels a process before it waits for it.                         *)
Cancelled ==
    /\ at = "waitEncoder" => enc.cancelled
    /\ at = "waitDecoder" => dec.cancelled

(* How many steps an encoder that was cancelled still has before it.         *)
StepsLeft(e) == [send |-> 3, read |-> 2, wait |-> 1, done |-> 0][e.at]

(* No step of a process that close() waits for leads away from its end:      *)
(* nothing more is read or queued, whatever is full (encoder.go:177-185,     *)
(* decoder.go:305-312).                                                      *)
ClosingAdvances ==
    /\ at = "waitEncoder" /\ enc' # enc => StepsLeft(enc') < StepsLeft(enc)
    /\ at = "waitDecoder" /\ dec' # dec => dec'.ended \/ dec'.inside < dec.inside

LEMMA FewerSteps ==
    ASSUME NEW e, NEW f, NEW a \in {"send", "read", "wait"}, e.at = a,
           \/ a \in {"send", "read"} /\ f.at = "wait"
           \/ a = "send" /\ f.at = "read"
           \/ a = "wait" /\ f.at = "done"
    PROVE  StepsLeft(f) < StepsLeft(e)
BY DEF StepsLeft

LEMMA EncoderAdvances ==
    ASSUME IInv, enc.cancelled, Encoding
    PROVE  enc'.cancelled /\ StepsLeft(enc') < StepsLeft(enc)
<1>1. enc \in EncoderState
    BY DEF IInv, Types, HostTypes
<1>2. CASE enc.at \in {"read", "send"} /\ enc' = [enc EXCEPT !.at = "wait"]
    <2>1. enc'.at = "wait" /\ enc'.cancelled = enc.cancelled
        BY <1>1, <1>2 DEF EncoderState
    <2> QED
        BY <1>2, <2>1, FewerSteps
<1>3. CASE enc.at \in {"read", "send"} /\ enc' = [EncFault(enc) EXCEPT !.at = "wait"]
    <2>1. EncFault(enc) \in EncoderState /\ EncFault(enc).cancelled
        BY <1>1 DEF EncFault, EncoderState
    <2>2. enc'.at = "wait" /\ enc'.cancelled
        BY <1>3, <2>1 DEF EncoderState
    <2> QED
        BY <1>3, <2>2, FewerSteps
<1>4. CASE enc.at = "send" /\ enc' = [enc EXCEPT !.at = "read", !.queue = Append(@, enc.made)]
    <2>1. enc'.at = "read" /\ enc'.cancelled = enc.cancelled
        BY <1>1, <1>4 DEF EncoderState
    <2> QED
        BY <1>4, <2>1, FewerSteps
<1>5. CASE enc.at = "wait" /\ enc' = [enc EXCEPT !.at = "done", !.closed = TRUE]
    <2>1. enc'.at = "done" /\ enc'.cancelled = enc.cancelled
        BY <1>1, <1>5 DEF EncoderState
    <2> QED
        BY <1>5, <2>1, FewerSteps
<1> QED
    BY <1>2, <1>3, <1>4, <1>5 DEF Encoding, EncoderReads, EncoderSends, EncoderEnds

LEMMA DecoderAdvances ==
    ASSUME IInv, dec.cancelled, Decoding
    PROVE  dec'.cancelled /\ (dec'.ended \/ dec'.inside < dec.inside)
<1>1. dec \in DecoderState
    BY DEF IInv, Types, HostTypes
<1>2. CASE DecoderReads
    BY <1>1, <1>2 DEF DecoderReads, DecoderState, DecFault
<1>3. CASE DecoderEnds
    BY <1>1, <1>3 DEF DecoderEnds, DecoderState, DecFault
<1> QED
    BY <1>2, <1>3 DEF Decoding, DecoderWrites

(* While close() waits for a process no other step touches it.               *)
LEMMA OthersWait ==
    ASSUME [Next]_vars, at \in {"waitEncoder", "waitDecoder"}
    PROVE  /\ enc' # enc => Encoding
           /\ dec' # dec => Decoding
           /\ at' # at => UNCHANGED procs /\ at' \notin {"waitEncoder", "waitDecoder"}
<1>1. CASE Encoding
    BY <1>1 DEF Encoding, EncoderReads, EncoderSends, EncoderEnds, loop
<1>2. CASE Decoding
    BY <1>2 DEF Decoding, DecoderWrites, DecoderReads, DecoderEnds, loop
<1>3. CASE EncoderGone \/ DecoderGone
    BY <1>3 DEF EncoderGone, DecoderGone, procs
<1>4. CASE ScheduleMoves \/ UNCHANGED vars
    BY <1>4 DEF ScheduleMoves, vars, loop, procs
<1>5. ~ (Leave \/ Transmit \/ PumpDemux \/ Feed \/ Take \/ Present \/ Step)
    BY DEF Leave, Transmit, PumpDemux, Feed, Take, Present, Step
<1>6. ~ (StartPlayout \/ DecoderWillNotStart \/ PlayoutWillNotStart \/ CloseEncoder \/ CloseDecoder)
    BY DEF StartPlayout, DecoderWillNotStart, PlayoutWillNotStart, CloseEncoder, CloseDecoder
<1> QED
    BY <1>1, <1>2, <1>3, <1>4, <1>5, <1>6, Zenon DEF Next, Loop, Closing

LEMMA CancelledKeeps == ASSUME IInv, Cancelled, [Next]_vars PROVE Cancelled'
<1>1. CASE at \in {"waitEncoder", "waitDecoder"}
    BY <1>1, OthersWait, EncoderAdvances, DecoderAdvances DEF Cancelled
<1>2. CASE at \notin {"waitEncoder", "waitDecoder"} /\ at' \in {"waitEncoder", "waitDecoder"}
    <2>1. CASE CloseEncoder \/ DecoderWillNotStart
        <3>1. enc' \in {[enc EXCEPT !.closing = TRUE, !.cancelled = TRUE],
                        [NewEncoder EXCEPT !.closing = TRUE, !.cancelled = TRUE]}
              /\ at' = "waitEncoder"
            BY <2>1 DEF CloseEncoder, DecoderWillNotStart
        <3>2. enc \in EncoderState
            BY DEF IInv, Types, HostTypes
        <3> QED
            BY <3>1, <3>2 DEF Cancelled, EncoderState, NewEncoder
    <2>2. CASE CloseDecoder
        <3>1. dec \in DecoderState
            BY DEF IInv, Types, HostTypes
        <3> QED
            BY <2>2, <3>1 DEF CloseDecoder, Cancelled, DecoderState
    <2>3. ~ (Leave \/ Transmit \/ PumpDemux \/ Feed \/ Take \/ Present \/ Step)
        BY <1>2 DEF Leave, Transmit, PumpDemux, Feed, Take, Present, Step, Go, Return, Enqueue,
                    Flush, Schedule
    <2>4. ~ (StartPlayout \/ PlayoutWillNotStart \/ EncoderGone \/ DecoderGone)
        BY <1>2 DEF StartPlayout, PlayoutWillNotStart, EncoderGone, DecoderGone
    <2>5. ~ (Encoding \/ Decoding \/ ScheduleMoves \/ UNCHANGED vars)
        BY <1>2 DEF Encoding, EncoderReads, EncoderSends, EncoderEnds, Decoding, DecoderWrites,
                    DecoderReads, DecoderEnds, ScheduleMoves, vars, loop
    <2> QED
        BY <2>1, <2>2, <2>3, <2>4, <2>5, Zenon DEF Next, Loop, Closing
<1> QED
    BY <1>1, <1>2 DEF Cancelled

LEMMA CancelledInvariance == Spec => []Cancelled
<1>1. Init => Cancelled
    BY DEF Init, Cancelled
<1> QED
    BY <1>1, CancelledKeeps, Invariance, PTL DEF Spec

(* Whatever is full and whoever has stopped reading, a process that close()  *)
(* waits for only comes nearer its end.  That it is given its turns is       *)
(* fairness, under which CloseReturns is checked.                            *)
THEOREM WaitsComeToAnEnd == Spec => [][ClosingAdvances]_vars
<1>1. IInv /\ Cancelled /\ [Next]_vars => [ClosingAdvances]_vars
    BY OthersWait, EncoderAdvances, DecoderAdvances DEF Cancelled, ClosingAdvances
<1> QED
    BY <1>1, Invariance, CancelledInvariance, PTL DEF Spec

-----------------------------------------------------------------------------
-----------------------------------------------------------------------------
(* Nothing is lost on the way: what a sequence carries of a session.         *)

Packet == Nat \X Nat

(* A packet of no interest, added or left out.                               *)
LEMMA Foreign ==
    ASSUME NEW a \in Seq(Packet), NEW b \in Seq(Packet), NEW x \in Packet,
           NEW s, x[1] # s, NEW n
    PROVE  Carries(a \o (<<x>> \o b), s, n) <=> Carries(a \o b, s, n)
<1> DEFINE w == a \o b
           v == a \o (<<x>> \o b)
           m == Len(a)
           up(k) == IF k <= m THEN k ELSE k + 1
           mine == {k \in DOMAIN w : w[k][1] = s}
           own == {k \in DOMAIN v : v[k][1] = s}
<1>1. m \in Nat /\ Len(b) \in Nat
    OBVIOUS
<1>2. /\ DOMAIN w = 1..(m + Len(b)) /\ \A k \in 1..m : w[k] = a[k]
      /\ \A k \in (m + 1)..(m + Len(b)) : w[k] = b[k - m]
    OBVIOUS
<1>3. /\ DOMAIN v = 1..(m + Len(b) + 1) /\ \A k \in 1..m : v[k] = a[k]
      /\ v[m + 1] = x
      /\ \A k \in (m + 2)..(m + Len(b) + 1) : v[k] = b[k - m - 1]
    <2> DEFINE c == <<x>> \o b
    <2>1. c \in Seq(Packet) /\ Len(c) = Len(b) + 1 /\ c[1] = x
          /\ \A k \in 2..(Len(b) + 1) : c[k] = b[k - 1]
        OBVIOUS
    <2> HIDE DEF c
    <2>2. /\ DOMAIN (a \o c) = 1..(m + Len(c)) /\ \A k \in 1..m : (a \o c)[k] = a[k]
          /\ \A k \in (m + 1)..(m + Len(c)) : (a \o c)[k] = c[k - m]
        <3>1. a \o c \in Seq(Packet) /\ Len(a \o c) = m + Len(c)
            BY <2>1, ConcatProperties
        <3>2. DOMAIN (a \o c) = 1..(m + Len(c))
            BY <3>1
        <3>3. \A k \in 1..(m + Len(c)) : (a \o c)[k] = IF k <= m THEN a[k] ELSE c[k - m]
            BY <2>1, ConcatProperties
        <3>4. /\ \A k \in 1..m : k \in 1..(m + Len(c)) /\ k <= m
              /\ \A k \in (m + 1)..(m + Len(c)) : k \in 1..(m + Len(c)) /\ ~ (k <= m)
            BY <1>1, <2>1
        <3> QED
            BY <3>2, <3>3, <3>4
    <2>3. (a \o c)[m + 1] = x
        <3>1. m + 1 \in (m + 1)..(m + Len(c)) /\ (m + 1) - m = 1
            BY <1>1, <2>1
        <3> QED
            BY <2>1, <2>2, <3>1
    <2>4. ASSUME NEW k \in (m + 2)..(m + Len(b) + 1) PROVE (a \o c)[k] = b[k - m - 1]
        <3>1. /\ k \in (m + 1)..(m + Len(c)) /\ k - m \in 2..(Len(b) + 1)
              /\ (k - m) - 1 = k - m - 1
            BY <1>1, <2>1
        <3> QED
            BY <2>1, <2>2, <3>1
    <2>5. v = a \o c
        BY DEF c
    <2> HIDE DEF v
    <2>6. m + Len(c) = m + Len(b) + 1
        BY <1>1, <2>1
    <2> QED
        BY <2>2, <2>3, <2>4, <2>5, <2>6
<1> HIDE DEF w, v, m
<1>4. \A k \in DOMAIN w : up(k) \in DOMAIN v /\ v[up(k)] = w[k]
    <2> SUFFICES ASSUME NEW k \in DOMAIN w PROVE up(k) \in DOMAIN v /\ v[up(k)] = w[k]
        OBVIOUS
    <2>1. k \in 1..(m + Len(b))
        BY <1>2
    <2>2. CASE k <= m
        <3>1. k \in 1..m /\ k \in 1..(m + Len(b) + 1) /\ up(k) = k
            BY <1>1, <2>1, <2>2
        <3> QED
            BY <1>2, <1>3, <3>1, Zenon
    <2>3. CASE ~ (k <= m)
        <3>1. /\ k \in (m + 1)..(m + Len(b)) /\ up(k) = k + 1 /\ (k + 1) - m - 1 = k - m
              /\ k + 1 \in (m + 2)..(m + Len(b) + 1) /\ k + 1 \in 1..(m + Len(b) + 1)
            BY <1>1, <2>1, <2>3
        <3>2. w[k] = b[k - m] /\ v[k + 1] = b[(k + 1) - m - 1]
            BY <1>2, <1>3, <3>1, Zenon
        <3> QED
            BY <1>3, <3>1, <3>2, Zenon
    <2> QED
        BY <2>2, <2>3
<1>5. \A k \in DOMAIN v : k = m + 1 \/ \E j \in DOMAIN w : k = up(j)
    <2> SUFFICES ASSUME NEW k \in DOMAIN v, k # m + 1 PROVE \E j \in DOMAIN w : k = up(j)
        OBVIOUS
    <2>1. CASE k <= m
        BY <1>1, <1>2, <1>3, <2>1
    <2>2. CASE k > m + 1
        <3>1. k - 1 \in DOMAIN w /\ up(k - 1) = k
            BY <1>1, <1>2, <1>3, <2>2
        <3> QED
            BY <3>1
    <2> QED
        BY <1>1, <1>3, <2>1, <2>2
<1>6. \A j, k \in DOMAIN w : j < k <=> up(j) < up(k)
    BY <1>1, <1>2
<1>7. m + 1 \notin own
    BY <1>3
<1> HIDE DEF up
<1>8. \A k \in mine : up(k) \in own
    BY <1>4
<1>9. \A k \in own : \E j \in mine : k = up(j)
    BY <1>4, <1>5, <1>7
<1>10. \A j \in mine : v[up(j)] = w[j]
    BY <1>4
<1>11. \A j, k \in mine : j < k <=> up(j) < up(k)
    BY <1>6
<1> HIDE DEF mine, own
<1>12. {w[k][2] : k \in mine} = {v[k][2] : k \in own}
    BY <1>8, <1>9, <1>10
<1>13. (\A j, k \in mine : j < k => w[j][2] < w[k][2])
          <=> (\A j, k \in own : j < k => v[j][2] < v[k][2])
    <2>1. ASSUME \A j, k \in mine : j < k => w[j][2] < w[k][2], NEW j \in own, NEW k \in own, j < k
          PROVE  v[j][2] < v[k][2]
        <3>1. PICK p \in mine, q \in mine : j = up(p) /\ k = up(q)
            BY <1>9
        <3>2. p < q
            BY <1>11, <2>1, <3>1
        <3> QED
            BY <1>10, <2>1, <3>1, <3>2
    <2>2. ASSUME \A j, k \in own : j < k => v[j][2] < v[k][2], NEW j \in mine, NEW k \in mine, j < k
          PROVE  w[j][2] < w[k][2]
        <3>1. up(j) < up(k) /\ up(j) \in own /\ up(k) \in own
            BY <1>8, <1>11, <2>2
        <3> QED
            BY <1>10, <2>2, <3>1
    <2> QED
        BY <2>1, <2>2
<1> QED
    BY <1>12, <1>13 DEF Carries, mine, own, w, v

(* Packets of other sessions carry nothing of this one.                      *)
LEMMA NothingYet ==
    ASSUME NEW w \in Seq(Packet), NEW s, \A k \in 1..Len(w) : w[k][1] # s
    PROVE  Carries(w, s, 0)
<1>1. {k \in DOMAIN w : w[k][1] = s} = {} /\ 1..0 = {}
    OBVIOUS
<1> QED
    BY <1>1 DEF Carries

(* The next packets behind those carried.                                    *)
LEMMA CarriesOn ==
    ASSUME NEW w \in Seq(Packet), NEW c \in Seq(Packet), NEW s, NEW n \in Nat,
           Carries(w, s, n), \A i \in 1..Len(c) : c[i] = <<s, n + i>>
    PROVE  Carries(w \o c, s, n + Len(c))
<1> DEFINE v == w \o c
           m == Len(w)
           l == Len(c)
           mine == {k \in DOMAIN w : w[k][1] = s}
           own == {k \in DOMAIN v : v[k][1] = s}
<1>1. m \in Nat /\ l \in Nat /\ DOMAIN w = 1..m
    OBVIOUS
<1>2. /\ DOMAIN v = 1..(m + l) /\ \A k \in 1..m : v[k] = w[k]
      /\ \A k \in (m + 1)..(m + l) : v[k] = c[k - m]
    OBVIOUS
<1> HIDE DEF v
<1>3. \A j, k \in mine : j < k => w[j][2] < w[k][2]
    BY Zenon DEF Carries
<1>4. {w[k][2] : k \in mine} = 1..n
    BY Zenon DEF Carries
<1> HIDE DEF m, l
<1>5. \A i \in 1..l : c[i][1] = s /\ c[i][2] = n + i
    BY DEF l
<1>6. \A k \in (m + 1)..(m + l) : k - m \in 1..l /\ v[k][1] = s /\ v[k][2] = n + (k - m)
    <2>1. \A k \in (m + 1)..(m + l) : k - m \in 1..l
        BY <1>1
    <2>2. \A k \in (m + 1)..(m + l) : v[k] = c[k - m]
        BY <1>2
    <2> QED
        BY <1>5, <2>1, <2>2, Zenon
<1>7. \A k \in mine : k \in own /\ k \in 1..m /\ v[k] = w[k] /\ w[k][2] \in 1..n
    BY <1>1, <1>2, <1>4
<1>8. \A k \in own : k \in mine \/ k \in (m + 1)..(m + l)
    BY <1>1, <1>2
<1>9. \A k \in (m + 1)..(m + l) : k \in own
    BY <1>1, <1>2, <1>6
<1> HIDE DEF mine, own
<1>10. ASSUME NEW j \in own, NEW k \in own, j < k
       PROVE  v[j][2] < v[k][2]
    <2>1. CASE j \in mine /\ k \in mine
        BY <1>3, <1>7, <1>10, <2>1
    <2>2. CASE j \in mine /\ k \in (m + 1)..(m + l)
        <3>1. v[j][2] \in 1..n /\ v[k][2] = n + (k - m) /\ k - m \in 1..l
            BY <1>6, <1>7, <2>2
        <3> QED
            BY <1>1, <3>1
    <2>3. CASE j \in (m + 1)..(m + l) /\ k \in (m + 1)..(m + l)
        <3>1. v[j][2] = n + (j - m) /\ v[k][2] = n + (k - m)
            BY <1>6, <2>3
        <3> QED
            BY <1>1, <1>10, <2>3, <3>1
    <2>4. ~ (j \in (m + 1)..(m + l) /\ k \in mine)
        BY <1>1, <1>7, <1>10
    <2> QED
        BY <1>8, <2>1, <2>2, <2>3, <2>4
<1>11. {v[k][2] : k \in own} = 1..(n + l)
    <2>1. ASSUME NEW k \in own PROVE v[k][2] \in 1..(n + l)
        <3>1. CASE k \in mine
            BY <1>1, <1>7, <3>1
        <3>2. CASE k \in (m + 1)..(m + l)
            BY <1>1, <1>6, <3>2
        <3> QED
            BY <1>8, <3>1, <3>2
    <2>2. ASSUME NEW i \in 1..(n + l) PROVE \E k \in own : v[k][2] = i
        <3>1. CASE i <= n
            <4>1. PICK k \in mine : w[k][2] = i
                BY <1>4, <3>1
            <4> QED
                BY <1>7, <4>1
        <3>2. CASE i > n
            <4> DEFINE k == m + (i - n)
            <4>1. k \in (m + 1)..(m + l) /\ k - m = i - n
                BY <1>1, <3>2
            <4> HIDE DEF k
            <4>2. v[k][2] = n + (i - n)
                BY <1>6, <4>1
            <4> QED
                BY <1>9, <4>1, <4>2
        <3> QED
            BY <3>1, <3>2
    <2> QED
        BY <2>1, <2>2
<1>12. (\A j, k \in own : j < k => v[j][2] < v[k][2]) /\ {v[k][2] : k \in own} = 1..(n + l)
    BY <1>10, <1>11
<1> QED
    BY <1>12, Zenon DEF Carries, own, v, l

-----------------------------------------------------------------------------
(* FlattenSeq, by induction.                                                 *)

LEMMA UpTo ==
    ASSUME NEW n \in Nat, NEW T, 1 \in T, \A i \in 1..(n - 1) : i \in T => i + 1 \in T
    PROVE  \A i \in 1..n : i \in T
  <1> DEFINE missing == {i \in 1..n : i \notin T}
  <1> SUFFICES ASSUME missing # {} PROVE FALSE
    OBVIOUS
  <1>1. missing \in SUBSET Nat
    OBVIOUS
  <1>2. PICK x \in missing : \A y \in missing : ~ (<<y, x>> \in OpToRel(<, Nat))
    BY <1>1, NatLessThanWellFounded, WFMin
  <1>3. x \in 1..n /\ x \notin T /\ x # 1
    BY <1>2
  <1>4. x - 1 \in 1..(n - 1) /\ x - 1 \in 1..n /\ (x - 1) + 1 = x /\ x - 1 < x
    BY <1>3
  <1>5. x - 1 \in missing
    BY <1>3, <1>4
  <1>6. <<x - 1, x>> \in OpToRel(<, Nat)
    BY <1>1, <1>2, <1>4, <1>5 DEF OpToRel
  <1> QED
    BY <1>2, <1>5, <1>6

LEMMA Regroup ==
    ASSUME NEW S, NEW a \in Seq(S), NEW b \in Seq(S), NEW c \in Seq(S)
    PROVE  a \o (b \o c) = (a \o b) \o c
BY ConcatAssociative

LEMMA PacketsRegroup == \A a, b, c \in Seq(Packet) : a \o (b \o c) = (a \o b) \o c
BY Regroup

(* FlattenSeq is the last of the partial concatenations.                    *)
LEMMA FlattenUnfolds ==
    ASSUME NEW S, NEW s \in Seq(Seq(S)), s # <<>>
    PROVE  \E f \in [1..Len(s) -> Seq(S)] :
              /\ f[1] = s[1] /\ \A i \in 2..Len(s) : f[i] = f[i - 1] \o s[i]
              /\ FlattenSeq(s) = f[Len(s)]
  <1> DEFINE n == Len(s)
             Sums(f, k) == f[1] = s[1] /\ \A i \in 2..k : f[i] = f[i - 1] \o s[i]
             Equation(f) == f = [i \in 1..n |-> IF i = 1 THEN s[i] ELSE f[i - 1] \o s[i]]
             T == {k \in Nat : \E f \in [1..k -> Seq(S)] : Sums(f, k)}
  <1>1. n \in Nat \ {0} /\ \A i \in 1..n : s[i] \in Seq(S)
    OBVIOUS
  <1> HIDE DEF n
  <1>2. 1 \in T
    <2> DEFINE f == [i \in 1..1 |-> s[1]]
    <2>1. f \in [1..1 -> Seq(S)] /\ f[1] = s[1]
      BY <1>1
    <2> HIDE DEF f
    <2>2. Sums(f, 1) /\ 1 \in Nat
      BY <2>1
    <2> HIDE DEF Sums
    <2> QED
      BY <2>1, <2>2
  <1>3. ASSUME NEW k \in 1..(n - 1), k \in T PROVE k + 1 \in T
    <2>1. PICK f \in [1..k -> Seq(S)] : Sums(f, k)
      BY <1>3
    <2> DEFINE g == [i \in 1..(k + 1) |-> IF i <= k THEN f[i] ELSE f[k] \o s[k + 1]]
    <2>2. k \in Nat /\ k >= 1 /\ k + 1 \in 1..n /\ k \in 1..k
      BY <1>1
    <2>3. f[k] \o s[k + 1] \in Seq(S)
      BY <1>1, <2>1, <2>2
    <2>4. g \in [1..(k + 1) -> Seq(S)]
      BY <2>1, <2>2, <2>3
    <2>5. \A i \in 1..k : g[i] = f[i]
      BY <2>2
    <2>6. g[k + 1] = f[k] \o s[k + 1]
      BY <2>2
    <2> HIDE DEF g
    <2>7. ASSUME NEW i \in 2..(k + 1) PROVE g[i] = g[i - 1] \o s[i]
      <3>1. CASE i = k + 1
        <4>1. i - 1 = k
          BY <2>2, <3>1
        <4> QED
          BY <2>2, <2>5, <2>6, <3>1, <4>1
      <3>2. CASE i # k + 1
        <4>1. i \in 2..k /\ i \in 1..k /\ i - 1 \in 1..k
          BY <2>2, <3>2
        <4> QED
          BY <2>1, <2>5, <4>1
      <3> QED
        BY <3>1, <3>2
    <2>8. g[1] = s[1]
      BY <2>1, <2>2, <2>5
    <2>9. Sums(g, k + 1) /\ k + 1 \in Nat
      <3>1. k + 1 \in Nat
        BY <2>2
      <3>2. \A i \in 2..(k + 1) : g[i] = g[i - 1] \o s[i]
        BY <2>7
      <3> QED
        BY <2>8, <3>1, <3>2, Zenon
    <2> HIDE DEF Sums
    <2>10. \E h \in [1..(k + 1) -> Seq(S)] : Sums(h, k + 1)
      BY <2>4, <2>9
    <2> QED
      BY <2>9, <2>10
  <1>4. n \in T
    <2> HIDE DEF T
    <2>1. n \in Nat /\ n \in 1..n
      BY <1>1
    <2>2. \A i \in 1..n : i \in T
      BY <1>2, <1>3, <2>1, UpTo
    <2> QED
      BY <2>1, <2>2
  <1>5. PICK f \in [1..n -> Seq(S)] : Sums(f, n)
    BY <1>4
  <1>6. Equation(f)
    <2> DEFINE g == [i \in 1..n |-> IF i = 1 THEN s[i] ELSE f[i - 1] \o s[i]]
    <2>1. ASSUME NEW i \in 1..n PROVE g[i] = f[i]
      <3>1. i = 1 \/ i \in 2..n
        BY <1>1
      <3> QED
        BY <1>5, <3>1
    <2> HIDE DEF g
    <2>2. f = g
      BY <1>5, <2>1 DEF g
    <2> QED
      BY <2>2 DEF g
  <1> DEFINE c == CHOOSE h : Equation(h)
  <1>7. Equation(c)
    <2> HIDE DEF Equation
    <2> QED
      BY <1>6
  <1>8. FlattenSeq(s) = c[n]
    BY <1>1 DEF FlattenSeq, n
  <1> HIDE DEF c
  <1>9. c[1] = s[1] /\ \A i \in 2..n : c[i] = c[i - 1] \o s[i]
    <2>1. \A i \in 1..n : c[i] = IF i = 1 THEN s[i] ELSE c[i - 1] \o s[i]
      BY <1>7
    <2>2. 1 \in 1..n /\ \A i \in 2..n : i \in 1..n /\ i # 1
      BY <1>1
    <2> HIDE DEF Equation
    <2> QED
      BY <2>1, <2>2
  <1>10. \A i \in 1..n : c[i] \in Seq(S)
    <2> DEFINE U == {i \in Nat : c[i] \in Seq(S)}
    <2>1. 1 \in U
      BY <1>1, <1>9
    <2>2. ASSUME NEW i \in 1..(n - 1), i \in U PROVE i + 1 \in U
      <3>1. i + 1 \in 2..n /\ i + 1 \in 1..n /\ (i + 1) - 1 = i /\ i + 1 \in Nat
        BY <1>1
      <3>2. c[i + 1] = c[i] \o s[i + 1]
        BY <1>9, <3>1
      <3>3. c[i] \in Seq(S) /\ s[i + 1] \in Seq(S)
        BY <1>1, <2>2, <3>1
      <3>4. c[i + 1] \in Seq(S)
        BY <3>2, <3>3
      <3> QED
        BY <3>1, <3>4
    <2> HIDE DEF U
    <2>3. \A i \in 1..n : i \in U
      BY <1>1, <2>1, <2>2, UpTo
    <2> QED
      BY <2>3 DEF U
  <1>11. c \in [1..n -> Seq(S)]
    <2>1. c = [i \in 1..n |-> c[i]]
      <3>1. c = [i \in 1..n |-> IF i = 1 THEN s[i] ELSE c[i - 1] \o s[i]]
        BY <1>7
      <3> QED
        BY <3>1
    <2> QED
      BY <1>10, <2>1
  <1> QED
    BY <1>8, <1>9, <1>11 DEF n


(* and it is the only function that sums the sequences up.                   *)
LEMMA FlattenIs ==
    ASSUME NEW S, NEW s \in Seq(Seq(S)), s # <<>>, NEW f \in [1..Len(s) -> Seq(S)],
           f[1] = s[1], \A i \in 2..Len(s) : f[i] = f[i - 1] \o s[i]
    PROVE  FlattenSeq(s) = f[Len(s)]
<1> DEFINE n == Len(s)
<1>1. n \in Nat \ {0}
    OBVIOUS
<1>2. PICK g \in [1..n -> Seq(S)] :
          /\ g[1] = s[1] /\ \A i \in 2..n : g[i] = g[i - 1] \o s[i]
          /\ FlattenSeq(s) = g[n]
    BY FlattenUnfolds
<1> DEFINE T == {i \in Nat : g[i] = f[i]}
<1>3. 1 \in T
    BY <1>2
<1>4. ASSUME NEW i \in 1..(n - 1), i \in T PROVE i + 1 \in T
    <2>1. i + 1 \in 2..n /\ (i + 1) - 1 = i /\ i + 1 \in Nat
        BY <1>1
    <2>2. g[i + 1] = g[i] \o s[i + 1] /\ f[i + 1] = f[i] \o s[i + 1]
        BY <1>2, <2>1
    <2> QED
        BY <1>4, <2>1, <2>2
<1>5. \A i \in 1..n : i \in T
    <2> HIDE DEF T, n
    <2> QED
        BY <1>1, <1>3, <1>4, UpTo
<1>6. g[n] = f[n]
    BY <1>1, <1>5
<1> QED
    BY <1>2, <1>6

LEMMA FlattenType ==
    ASSUME NEW S, NEW s \in Seq(Seq(S)) PROVE FlattenSeq(s) \in Seq(S)
<1>1. CASE s = <<>>
    <2>1. Len(s) = 0 /\ <<>> \in Seq(S)
        BY <1>1
    <2> QED
        BY <1>1, <2>1 DEF FlattenSeq
<1>2. CASE s # <<>>
    <2>1. Len(s) \in 1..Len(s)
        BY <1>2
    <2>2. PICK f \in [1..Len(s) -> Seq(S)] : FlattenSeq(s) = f[Len(s)]
        BY <1>2, FlattenUnfolds
    <2> QED
        BY <2>1, <2>2
<1> QED
    BY <1>1, <1>2

(* A sequence more.                                                          *)
LEMMA FlattenAppend ==
    ASSUME NEW S, NEW s \in Seq(Seq(S)), NEW x \in Seq(S)
    PROVE  FlattenSeq(Append(s, x)) = FlattenSeq(s) \o x
<1> DEFINE n == Len(s)
           t == Append(s, x)
<1>1. n \in Nat /\ t \in Seq(Seq(S)) /\ t # <<>> /\ Len(t) = n + 1
      /\ (\A i \in 1..n : t[i] = s[i]) /\ t[n + 1] = x
    <2> DEFINE M == Seq(S)
    <2>1. s \in Seq(M) /\ x \in M
        OBVIOUS
    <2> HIDE DEF M
    <2>2. n \in Nat /\ t \in Seq(M) /\ Len(t) = n + 1
        BY <2>1, AppendProperties
    <2>3. (\A i \in 1..n : t[i] = s[i]) /\ t[n + 1] = x
        BY <2>1, AppendProperties
    <2>4. t # <<>>
        BY <2>2
    <2> QED
        BY <2>2, <2>3, <2>4 DEF M
<1> HIDE DEF t
<1>2. CASE s = <<>>
    <2>1. n = 0 /\ FlattenSeq(s) = <<>>
        BY <1>2 DEF FlattenSeq
    <2>2. PICK f \in [1..Len(t) -> Seq(S)] :
              /\ f[1] = t[1] /\ \A i \in 2..Len(t) : f[i] = f[i - 1] \o t[i]
              /\ FlattenSeq(t) = f[Len(t)]
        BY <1>1, FlattenUnfolds
    <2>3. FlattenSeq(t) = x
        <3>1. Len(t) = 1 /\ t[1] = x
            BY <1>1, <2>1
        <3> QED
            BY <2>2, <3>1
    <2>4. <<>> \o x = x
        BY ConcatEmptySeq
    <2> QED
        BY <2>1, <2>3, <2>4 DEF t
<1>3. CASE s # <<>>
    <2>1. PICK f \in [1..n -> Seq(S)] :
              /\ f[1] = s[1] /\ \A i \in 2..n : f[i] = f[i - 1] \o s[i]
              /\ FlattenSeq(s) = f[n]
        BY <1>3, FlattenUnfolds
    <2>2. n \in Nat \ {0} /\ n \in 1..n /\ 1 \in 1..n
        BY <1>3
    <2> DEFINE g == [i \in 1..(n + 1) |-> IF i <= n THEN f[i] ELSE f[n] \o x]
    <2> HIDE DEF n
    <2>3. f[n] \o x \in Seq(S)
        BY <2>1, <2>2
    <2>4. g \in [1..(n + 1) -> Seq(S)] /\ (\A i \in 1..n : g[i] = f[i]) /\ g[n + 1] = f[n] \o x
        <3>1. \A i \in 1..(n + 1) : i <= n => i \in 1..n
            BY <2>2
        <3>2. g \in [1..(n + 1) -> Seq(S)]
            BY <2>1, <2>3, <3>1
        <3>3. \A i \in 1..n : g[i] = f[i]
            BY <2>2
        <3>4. n + 1 \in 1..(n + 1) /\ ~ (n + 1 <= n)
            BY <2>2
        <3> QED
            BY <3>2, <3>3, <3>4
    <2> HIDE DEF g
    <2>5. g[1] = t[1]
        BY <1>1, <2>1, <2>2, <2>4
    <2>6. ASSUME NEW i \in 2..(n + 1) PROVE g[i] = g[i - 1] \o t[i]
        <3>1. CASE i = n + 1
            <4>1. i - 1 = n
                BY <2>2, <3>1
            <4> QED
                BY <1>1, <2>2, <2>4, <3>1, <4>1
        <3>2. CASE i # n + 1
            <4>1. i \in 2..n /\ i \in 1..n /\ i - 1 \in 1..n
                BY <2>2, <3>2
            <4> QED
                BY <1>1, <2>1, <2>4, <4>1
        <3> QED
            BY <3>1, <3>2
    <2>7. FlattenSeq(t) = g[n + 1]
        <3>1. \A i \in 2..Len(t) : g[i] = g[i - 1] \o t[i]
            BY <1>1, <2>6
        <3>2. g \in [1..Len(t) -> Seq(S)]
            BY <1>1, <2>4
        <3>3. FlattenSeq(t) = g[Len(t)]
            BY <1>1, <2>5, <3>1, <3>2, FlattenIs
        <3> QED
            BY <1>1, <3>3
    <2> QED
        BY <2>1, <2>4, <2>7 DEF t
<1> QED
    BY <1>2, <1>3

(* A sequence less.                                                          *)
LEMMA FlattenTail ==
    ASSUME NEW S, NEW s \in Seq(Seq(S)), s # <<>>
    PROVE  FlattenSeq(s) = Head(s) \o FlattenSeq(Tail(s))
<1> DEFINE n == Len(s)
           t == Tail(s)
<1>1. /\ n \in Nat \ {0} /\ t \in Seq(Seq(S)) /\ Len(t) = n - 1 /\ Head(s) = s[1]
      /\ s[1] \in Seq(S) /\ \A i \in 1..(n - 1) : t[i] = s[i + 1]
    OBVIOUS
<1> HIDE DEF t
<1>2. CASE t = <<>>
    <2>1. Len(t) = 0
        BY <1>2
    <2>2. FlattenSeq(t) = <<>>
        BY <1>2, <2>1 DEF FlattenSeq
    <2>3. n = 1
        BY <1>1, <2>1
    <2>4. FlattenSeq(s) = s[1]
        <3>1. PICK f \in [1..Len(s) -> Seq(S)] : f[1] = s[1] /\ FlattenSeq(s) = f[Len(s)]
            BY FlattenUnfolds
        <3> QED
            BY <2>3, <3>1
    <2>5. s[1] \o <<>> = s[1]
        BY <1>1, ConcatEmptySeq
    <2> QED
        BY <1>1, <2>2, <2>4, <2>5 DEF t
<1>3. CASE t # <<>>
    <2>1. PICK g \in [1..Len(t) -> Seq(S)] :
              /\ g[1] = t[1] /\ \A i \in 2..Len(t) : g[i] = g[i - 1] \o t[i]
              /\ FlattenSeq(t) = g[Len(t)]
        BY <1>1, <1>3, FlattenUnfolds
    <2>2. n - 1 \in Nat \ {0} /\ \A i \in 2..n : i - 1 \in 1..(n - 1) /\ i \in 1..n
        <3>1. Len(t) # 0
            <4> DEFINE M == Seq(S)
            <4>1. t \in Seq(M)
                BY <1>1
            <4> HIDE DEF M
            <4> QED
                BY <1>3, <4>1
        <3> HIDE DEF n
        <3> QED
            BY <1>1, <3>1
    <2> DEFINE f == [i \in 1..n |-> IF i = 1 THEN s[1] ELSE s[1] \o g[i - 1]]
    <2> HIDE DEF n
    <2>3. \A i \in 2..n : s[1] \o g[i - 1] \in Seq(S)
        BY <1>1, <2>1, <2>2
    <2>4. \A i \in 1..n : i # 1 => i \in 2..n
        BY <1>1
    <2>5. f \in [1..n -> Seq(S)]
        BY <1>1, <2>3, <2>4
    <2>6. f[1] = s[1] /\ \A i \in 2..n : f[i] = s[1] \o g[i - 1]
        <3>1. 1 \in 1..n /\ \A i \in 2..n : i \in 1..n /\ i # 1
            BY <1>1
        <3> QED
            BY <3>1
    <2> HIDE DEF f
    <2>7. ASSUME NEW i \in 2..n PROVE f[i] = f[i - 1] \o s[i]
        <3>1. CASE i = 2
            <4>1. i - 1 = 1 /\ 1 \in 1..(n - 1) /\ 1 + 1 = i
                BY <2>2, <3>1
            <4>2. g[i - 1] = s[i]
                BY <1>1, <2>1, <4>1
            <4> QED
                BY <2>6, <4>1, <4>2
        <3>2. CASE i # 2
            <4> DEFINE j == i - 1
            <4>1. j \in 2..(n - 1) /\ j \in 2..n /\ j \in 1..(n - 1) /\ j + 1 = i /\ j - 1 \in 1..(n - 1)
                BY <1>1, <3>2
            <4>2. f[i] = s[1] \o g[j] /\ f[j] = s[1] \o g[j - 1]
                BY <2>6, <4>1
            <4>3. g[j] = g[j - 1] \o t[j] /\ t[j] = s[i]
                BY <1>1, <2>1, <4>1
            <4>4. g[j - 1] \in Seq(S) /\ s[i] \in Seq(S)
                <5>1. i \in 1..Len(s)
                    BY <2>2 DEF n
                <5>2. s[i] \in Seq(S)
                    BY <5>1
                <5>3. j - 1 \in 1..Len(t)
                    BY <1>1, <4>1
                <5>4. g[j - 1] \in Seq(S)
                    BY <2>1, <5>3
                <5> QED
                    BY <5>2, <5>4
            <4> HIDE DEF j
            <4>5. s[1] \o (g[j - 1] \o s[i]) = (s[1] \o g[j - 1]) \o s[i]
                <5> DEFINE x == g[j - 1]
                           y == s[i]
                           h == s[1]
                <5>1. x \in Seq(S) /\ y \in Seq(S)
                    BY <4>4
                <5>2. h \in Seq(S)
                    BY <1>1, Zenon
                <5> HIDE DEF x, y, h
                <5>3. h \o (x \o y) = (h \o x) \o y
                    BY <5>1, <5>2, Regroup, SMTT(30)
                <5> QED
                    BY <5>3 DEF x, y, h
            <4>6. f[i] = f[j] \o s[i]
                BY <4>2, <4>3, <4>5
            <4> QED
                BY <4>6 DEF j
        <3> QED
            BY <3>1, <3>2
    <2>8. FlattenSeq(s) = f[n]
        BY <2>5, <2>6, <2>7, FlattenIs DEF n
    <2>9. n \in 2..n
        BY <2>2, <1>1
    <2> QED
        BY <1>1, <2>1, <2>6, <2>8, <2>9 DEF t
<1> QED
    BY <1>2, <1>3

-----------------------------------------------------------------------------
(* What the encoder delivers reaches the decoder.                            *)

(* The chunks waiting in the encoder's queue, as the packets they are.       *)
Queued(s, q) == FlattenSeq([i \in DOMAIN q |-> Chunk(s, q[i])])

LEMMA ChunkType ==
    ASSUME NEW s \in Nat, NEW c \in 1..Chunks
    PROVE  /\ Chunk(s, c) \in Seq(Packet) /\ Len(Chunk(s, c)) = ChunkLen
           /\ \A i \in 1..Len(Chunk(s, c)) : Chunk(s, c)[i] = <<s, (c - 1) * ChunkLen + i>>
<1> DEFINE n == (c - 1) * ChunkLen
           k == [i \in 1..ChunkLen |-> <<s, n + i>>]
<1>1. n \in Nat /\ ChunkLen \in Nat
    BY Sizes
<1>2. k = Chunk(s, c)
    BY DEF Chunk
<1> HIDE DEF n
<1>3. k \in [1..ChunkLen -> Packet]
    BY <1>1 DEF Packet
<1>4. k \in Seq(Packet) /\ Len(k) = ChunkLen
    <2> HIDE DEF k
    <2> QED
        BY <1>1, <1>3, LenProperties DEF Seq
<1>5. \A i \in 1..ChunkLen : k[i] = <<s, n + i>>
    OBVIOUS
<1> HIDE DEF k
<1> QED
    BY <1>2, <1>4, <1>5 DEF n

LEMMA ChunksType ==
    ASSUME NEW s \in Nat, NEW q \in Seq(1..Chunks)
    PROVE  /\ [i \in DOMAIN q |-> Chunk(s, q[i])] \in Seq(Seq(Packet))
           /\ Len([i \in DOMAIN q |-> Chunk(s, q[i])]) = Len(q)
<1> DEFINE M == Seq(Packet)
           f == [i \in DOMAIN q |-> Chunk(s, q[i])]
<1>1. Len(q) \in Nat /\ DOMAIN q = 1..Len(q) /\ \A i \in 1..Len(q) : q[i] \in 1..Chunks
    <2> DEFINE C == 1..Chunks
    <2>1. q \in Seq(C)
        OBVIOUS
    <2> HIDE DEF C
    <2>2. Len(q) \in Nat /\ DOMAIN q = 1..Len(q) /\ \A i \in 1..Len(q) : q[i] \in C
        BY <2>1
    <2> QED
        BY <2>2 DEF C
<1>2. \A i \in 1..Len(q) : Chunk(s, q[i]) \in M
    BY <1>1, ChunkType
<1> HIDE DEF M
<1>3. f \in [1..Len(q) -> M]
    BY <1>1, <1>2
<1> HIDE DEF f
<1>4. f \in Seq(M) /\ Len(f) = Len(q)
    BY <1>1, <1>3, LenProperties DEF Seq
<1> QED
    BY <1>4 DEF f, M

LEMMA QueuedType ==
    ASSUME NEW s \in Nat, NEW q \in Seq(1..Chunks)
    PROVE  Queued(s, q) \in Seq(Packet)
BY ChunksType, FlattenType DEF Queued

LEMMA QueuedNothing == ASSUME NEW s \in Nat PROVE Queued(s, <<>>) = <<>>
<1>1. <<>> \in Seq(1..Chunks) /\ Len(<<>>) = 0
    OBVIOUS
<1> DEFINE f == [i \in DOMAIN <<>> |-> Chunk(s, <<>>[i])]
<1>2. f = <<>>
    OBVIOUS
<1>3. FlattenSeq(<<>>) = <<>>
    BY <1>1 DEF FlattenSeq
<1> QED
    BY <1>2, <1>3 DEF Queued

LEMMA QueuedAppend ==
    ASSUME NEW s \in Nat, NEW q \in Seq(1..Chunks), NEW c \in 1..Chunks
    PROVE  Queued(s, Append(q, c)) = Queued(s, q) \o Chunk(s, c)
<1> DEFINE M == Seq(Packet)
           f == [i \in DOMAIN q |-> Chunk(s, q[i])]
           r == Append(q, c)
           g == [i \in DOMAIN r |-> Chunk(s, r[i])]
           x == Chunk(s, c)
<1>1. f \in Seq(M) /\ x \in M /\ Len(f) = Len(q) /\ Len(q) \in Nat /\ DOMAIN q = 1..Len(q)
    BY ChunkType, ChunksType
<1>2. /\ r \in Seq(1..Chunks) /\ Len(r) = Len(q) + 1 /\ DOMAIN r = 1..(Len(q) + 1)
      /\ (\A i \in 1..Len(q) : r[i] = q[i]) /\ r[Len(q) + 1] = c
    BY AppendProperties
<1>3. \A i \in 1..Len(q) : f[i] = Chunk(s, q[i])
    BY <1>1
<1> HIDE DEF M
<1>4. /\ Append(f, x) \in Seq(M) /\ Len(Append(f, x)) = Len(q) + 1
      /\ (\A i \in 1..Len(q) : Append(f, x)[i] = f[i]) /\ Append(f, x)[Len(q) + 1] = x
    <2> HIDE DEF f, x
    <2> QED
        BY <1>1, AppendProperties
<1> HIDE DEF f, r
<1>5. \A i \in 1..(Len(q) + 1) : Chunk(s, r[i]) = Append(f, x)[i]
    <2> SUFFICES ASSUME NEW i \in 1..(Len(q) + 1) PROVE Chunk(s, r[i]) = Append(f, x)[i]
        OBVIOUS
    <2>1. CASE i = Len(q) + 1
        BY <1>2, <1>4, <2>1
    <2>2. CASE i # Len(q) + 1
        <3>1. i \in 1..Len(q)
            BY <1>1, <2>2
        <3> QED
            BY <1>2, <1>3, <1>4, <3>1
    <2> QED
        BY <2>1, <2>2
<1> DEFINE h == Append(f, x)
<1>6. h = [i \in 1..Len(h) |-> h[i]]
    <2> HIDE DEF h
    <2>1. h \in Seq(M)
        BY <1>4 DEF h
    <2> QED
        BY <2>1
<1>7. g = h
    <2> HIDE DEF h
    <2>1. \A i \in 1..(Len(q) + 1) : Chunk(s, r[i]) = h[i]
        BY <1>5 DEF h
    <2>2. Len(h) = Len(q) + 1
        BY <1>4 DEF h
    <2> QED
        BY <1>2, <1>6, <2>1, <2>2
<1>8. FlattenSeq(h) = FlattenSeq(f) \o x
    BY <1>1, FlattenAppend DEF M
<1> QED
    BY <1>7, <1>8, Zenon DEF Queued, f, g, h, r, x

LEMMA QueuedTail ==
    ASSUME NEW s \in Nat, NEW q \in Seq(1..Chunks), q # <<>>
    PROVE  Queued(s, q) = Chunk(s, Head(q)) \o Queued(s, Tail(q))
<1> DEFINE M == Seq(Packet)
           f == [i \in DOMAIN q |-> Chunk(s, q[i])]
           r == Tail(q)
           g == [i \in DOMAIN r |-> Chunk(s, r[i])]
<1>1. /\ f \in Seq(M) /\ Len(f) = Len(q) /\ Len(q) \in Nat \ {0} /\ DOMAIN q = 1..Len(q)
      /\ Head(q) = q[1]
    BY ChunksType
<1>2. /\ r \in Seq(1..Chunks) /\ Len(r) = Len(q) - 1 /\ DOMAIN r = 1..(Len(q) - 1)
      /\ \A i \in 1..(Len(q) - 1) : r[i] = q[i + 1]
    BY HeadTailProperties
<1>3. \A i \in 1..Len(q) : f[i] = Chunk(s, q[i])
    BY <1>1
<1> HIDE DEF M, f
<1>4. f # <<>>
    BY <1>1
<1>5. /\ Tail(f) \in Seq(M) /\ Len(Tail(f)) = Len(q) - 1 /\ Head(f) = f[1]
      /\ \A i \in 1..(Len(q) - 1) : Tail(f)[i] = f[i + 1]
    BY <1>1, <1>4, HeadTailProperties
<1> DEFINE h == Tail(f)
<1> HIDE DEF h, r
<1>6. h = [i \in 1..(Len(q) - 1) |-> h[i]]
    <2>1. h \in Seq(M) /\ Len(h) = Len(q) - 1
        BY <1>5 DEF h
    <2> QED
        BY <2>1
<1>7. \A i \in 1..(Len(q) - 1) : Chunk(s, r[i]) = h[i]
    <2> SUFFICES ASSUME NEW i \in 1..(Len(q) - 1) PROVE Chunk(s, r[i]) = h[i]
        OBVIOUS
    <2>1. i + 1 \in 1..Len(q)
        BY <1>1
    <2> QED
        BY <1>2, <1>3, <1>5, <2>1 DEF h
<1>8. g = h
    BY <1>2, <1>6, <1>7
<1>9. 1 \in 1..Len(q)
    BY <1>1
<1>10. Head(f) = Chunk(s, Head(q))
    BY <1>1, <1>3, <1>5, <1>9
<1>11. FlattenSeq(f) = Head(f) \o FlattenSeq(h)
    BY <1>1, <1>4, FlattenTail DEF M, h
<1> QED
    BY <1>8, <1>10, <1>11, Zenon DEF Queued, f, g, r

(* What an enqueue adds to the history: the session's own packets.           *)
LEMMA OwnOne ==
    ASSUME NEW a \in Seq(Packet), NEW c \in Seq(Packet), NEW d \in Seq(Packet),
           NEW x \in Packet, NEW s, NEW n, Carries(a \o (c \o (<<x>> \o d)), s, n)
    PROVE  Carries(a \o ((c \o (IF x[1] = s THEN <<x>> ELSE <<>>)) \o d), s, n)
<1>1. <<x>> \in Seq(Packet) /\ <<x>> \o d \in Seq(Packet) /\ a \o c \in Seq(Packet)
    OBVIOUS
<1>2. CASE x[1] = s
    <2>1. (c \o <<x>>) \o d = c \o (<<x>> \o d)
        BY <1>1, ConcatAssociative
    <2> QED
        BY <1>2, <2>1
<1>3. CASE x[1] # s
    <2> DEFINE e == <<x>> \o d
    <2>0. e \in Seq(Packet)
        BY <1>1
    <2> HIDE DEF e
    <2>5. a \o (c \o e) = (a \o c) \o e
        BY <2>0, PacketsRegroup, Zenon
    <2>1. a \o (c \o (<<x>> \o d)) = (a \o c) \o (<<x>> \o d)
        BY <2>5 DEF e
    <2>2. Carries((a \o c) \o d, s, n)
        BY <1>1, <1>3, <2>1, Foreign
    <2>3. (a \o c) \o d = a \o (c \o d)
        BY ConcatAssociative
    <2>4. c \o <<>> = c
        BY ConcatEmptySeq
    <2> QED
        BY <1>3, <2>2, <2>3, <2>4
<1> QED
    BY <1>2, <1>3

LEMMA FirstOfRest ==
    ASSUME NEW S, NEW p \in Seq(S), NEW k \in 1..Len(p)
    PROVE  SubSeq(p, k, Len(p)) = <<p[k]>> \o SubSeq(p, k + 1, Len(p))
OBVIOUS

LEMMA OwnUnfolds ==
    ASSUME NEW p \in Seq(Packet)
    PROVE  \E t \in Seq(Seq(Packet)) :
              /\ Len(t) = Len(p) /\ Own(p) = FlattenSeq(t)
              /\ \A i \in 1..Len(p) :
                    t[i] = IF p[i][1] = session.number THEN <<p[i]>> ELSE <<>>
<1> DEFINE l == Len(p)
           M == Seq(Packet)
           One(x) == IF x[1] = session.number THEN <<x>> ELSE <<>>
           t == [i \in DOMAIN p |-> IF p[i][1] = session.number THEN <<p[i]>> ELSE <<>>]
<1>1. l \in Nat /\ DOMAIN p = 1..l /\ \A i \in 1..l : p[i] \in Packet
    OBVIOUS
<1>2. \A x \in Packet : One(x) \in M
    OBVIOUS
<1>3. \A i \in 1..l : t[i] = One(p[i])
    BY <1>1
<1>4. Own(p) = FlattenSeq(t)
    BY DEF Own
<1> HIDE DEF M
<1>5. t \in [1..l -> M]
    <2>1. t = [i \in 1..l |-> t[i]]
        BY <1>1
    <2> HIDE DEF t, One
    <2> QED
        BY <1>1, <1>2, <1>3, <2>1
<1> HIDE DEF t
<1>6. t \in Seq(M) /\ Len(t) = l
    <2> HIDE DEF l
    <2> QED
        BY <1>1, <1>5, LenProperties DEF Seq
<1> HIDE DEF l
<1>7. \A i \in 1..l : t[i] = IF p[i][1] = session.number THEN <<p[i]>> ELSE <<>>
    BY <1>3
<1> HIDE DEF One
<1> QED
    BY <1>4, <1>6, <1>7 DEF M, l

LEMMA OwnType == ASSUME NEW p \in Seq(Packet) PROVE Own(p) \in Seq(Packet)
BY OwnUnfolds, FlattenType

LEMMA OwnCarries ==
    ASSUME NEW a \in Seq(Packet), NEW p \in Seq(Packet), NEW b \in Seq(Packet),
           NEW n, Carries(a \o (p \o b), session.number, n)
    PROVE  Own(p) \in Seq(Packet) /\ Carries(a \o (Own(p) \o b), session.number, n)
<1> DEFINE s == session.number
           l == Len(p)
           M == Seq(Packet)
           One(x) == IF x[1] = s THEN <<x>> ELSE <<>>
<1>1. l \in Nat /\ DOMAIN p = 1..l /\ \A i \in 1..l : p[i] \in Packet
    OBVIOUS
<1>2. PICK t \in Seq(Seq(Packet)) :
          /\ Len(t) = Len(p) /\ Own(p) = FlattenSeq(t)
          /\ \A i \in 1..Len(p) : t[i] = IF p[i][1] = session.number THEN <<p[i]>> ELSE <<>>
    BY OwnUnfolds
<1>3. \A i \in 1..l : t[i] = One(p[i])
    BY <1>2
<1>4. Own(p) = FlattenSeq(t)
    BY <1>2
<1> HIDE DEF M, One
<1>6. t \in Seq(M) /\ Len(t) = l
    BY <1>2 DEF M
<1>5. t \in [1..l -> M]
    BY <1>6
<1>7. Own(p) \in Seq(Packet)
    BY OwnType
<1>8. CASE p = <<>>
    <2>1. Len(t) = 0 /\ t = <<>>
        BY <1>6, <1>8
    <2>2. Own(p) = p
        BY <1>4, <1>8, <2>1 DEF FlattenSeq
    <2> QED
        BY <1>7, <2>2
<1>9. CASE p # <<>>
    <2>1. l \in Nat \ {0} /\ 1 \in 1..l /\ l \in 1..l
        BY <1>1, <1>9
    <2>2. t # <<>>
        BY <1>6, <2>1
    <2>3. PICK f \in [1..l -> Seq(Packet)] :
              /\ f[1] = t[1] /\ \A i \in 2..l : f[i] = f[i - 1] \o t[i]
              /\ FlattenSeq(t) = f[l]
        <3>1. t \in Seq(Seq(Packet))
            BY <1>6 DEF M
        <3>2. \E f \in [1..Len(t) -> Seq(Packet)] :
                 /\ f[1] = t[1] /\ \A i \in 2..Len(t) : f[i] = f[i - 1] \o t[i]
                 /\ FlattenSeq(t) = f[Len(t)]
            BY <2>2, <3>1, FlattenUnfolds
        <3> HIDE DEF l
        <3> QED
            BY <1>6, <3>2
    <2> DEFINE rest(k) == SubSeq(p, k + 1, l)
               Done(k) == Carries(a \o (f[k] \o (rest(k) \o b)), s, n)
               T == {k \in Nat : Done(k)}
    <2>4. \A k \in 0..l : rest(k) \in Seq(Packet)
        <3> SUFFICES ASSUME NEW k \in 0..l PROVE rest(k) \in Seq(Packet)
            OBVIOUS
        <3>1. \A i \in (k + 1)..l : p[i] \in Packet
            BY <1>1
        <3> QED
            BY <1>1, <3>1, SubSeqProperties
    <2>5. ASSUME NEW k \in 1..l PROVE rest(k - 1) = <<p[k]>> \o rest(k)
        <3>1. (k - 1) + 1 = k
            OBVIOUS
        <3>2. SubSeq(p, k, l) = <<p[k]>> \o SubSeq(p, k + 1, l)
            BY FirstOfRest
        <3> QED
            BY <3>1, <3>2, Zenon
    <2>6. p = rest(0)
        <3>1. 0 + 1 = 1 /\ SubSeq(p, 1, Len(p)) = p
            OBVIOUS
        <3> QED
            BY <3>1
    <2>7. rest(l) = <<>>
        BY <1>1, SubSeqEmpty
    <2> HIDE DEF rest, l
    <2>8. ASSUME NEW c \in Seq(Packet), NEW k \in 1..l,
                 Carries(a \o (c \o (rest(k - 1) \o b)), s, n)
          PROVE  Carries(a \o ((c \o t[k]) \o (rest(k) \o b)), s, n)
        <3>1. rest(k) \in Seq(Packet) /\ p[k] \in Packet /\ <<p[k]>> \in Seq(Packet)
            <4>1. k \in 0..l /\ k \in 1..l
                BY <1>1
            <4> QED
                BY <1>1, <2>4, <4>1
        <3>2. rest(k) \o b \in Seq(Packet)
            BY <3>1
        <3>3. rest(k - 1) \o b = <<p[k]>> \o (rest(k) \o b)
            <4> DEFINE x == <<p[k]>>
                       y == rest(k)
            <4>1. x \in Seq(Packet) /\ y \in Seq(Packet) /\ rest(k - 1) = x \o y
                BY <2>5, <3>1
            <4> HIDE DEF x, y
            <4>0. x \in Seq(Packet) /\ y \in Seq(Packet)
                BY <4>1
            <4>2. (x \o y) \o b = x \o (y \o b)
                BY <4>0, PacketsRegroup, SMTT(30)
            <4>3. rest(k - 1) \o b = x \o (y \o b)
                BY <4>1, <4>2, Zenon
            <4> QED
                BY <4>3 DEF x, y
        <3>4. Carries(a \o ((c \o One(p[k])) \o (rest(k) \o b)), s, n)
            <4> HIDE DEF s
            <4>1. Carries(a \o (c \o (<<p[k]>> \o (rest(k) \o b))), s, n)
                BY <2>8, <3>3
            <4>2. Carries(a \o ((c \o (IF p[k][1] = s THEN <<p[k]>> ELSE <<>>)) \o (rest(k) \o b)), s, n)
                BY <3>1, <3>2, <4>1, OwnOne
            <4> QED
                BY <4>2, Zenon DEF One
        <3> QED
            BY <1>3, <3>4
    <2>9. 1 \in T
        <3>1. <<>> \in Seq(Packet) /\ t[1] \in Seq(Packet)
            BY <1>5, <2>1 DEF M
        <3>2. 1 - 1 = 0 /\ <<>> \o (rest(0) \o b) = rest(0) \o b /\ <<>> \o t[1] = t[1]
            <4>1. rest(0) \o b \in Seq(Packet)
                <5>1. rest(0) \in Seq(Packet)
                    BY <2>6
                <5> QED
                    BY <5>1
            <4>2. <<>> \o (rest(0) \o b) = rest(0) \o b
                BY <4>1, ConcatEmptySeq
            <4>3. <<>> \o t[1] = t[1]
                BY <3>1, ConcatEmptySeq
            <4> QED
                BY <4>2, <4>3
        <3>3. Carries(a \o (<<>> \o (rest(1 - 1) \o b)), s, n)
            BY <2>6, <3>2
        <3>4. Carries(a \o ((<<>> \o t[1]) \o (rest(1) \o b)), s, n)
            BY <2>1, <2>8, <3>1, <3>3
        <3>5. Done(1)
            BY <2>3, <3>2, <3>4
        <3> QED
            BY <3>5
    <2>10. ASSUME NEW k \in 1..(l - 1), k \in T PROVE k + 1 \in T
        <3>1. /\ k + 1 \in 2..l /\ k + 1 \in 1..l /\ k \in 1..l /\ (k + 1) - 1 = k
              /\ k + 1 \in Nat
            BY <1>1
        <3>2. f[k] \in Seq(Packet) /\ f[k + 1] = f[k] \o t[k + 1]
            BY <2>3, <3>1
        <3>3. Carries(a \o (f[k] \o (rest((k + 1) - 1) \o b)), s, n)
            BY <2>10, <3>1
        <3>4. Carries(a \o ((f[k] \o t[k + 1]) \o (rest(k + 1) \o b)), s, n)
            BY <2>8, <3>1, <3>2, <3>3
        <3>5. Done(k + 1)
            BY <3>2, <3>4
        <3> QED
            BY <3>1, <3>5
    <2>11. Done(l)
        <3>1. \A k \in 1..l : k \in T
            <4> HIDE DEF T
            <4> QED
                BY <1>1, <2>9, <2>10, UpTo
        <3> QED
            BY <2>1, <3>1
    <2>12. <<>> \o b = b
        BY ConcatEmptySeq
    <2> QED
        BY <1>4, <1>7, <2>3, <2>7, <2>11, <2>12
<1> QED
    BY <1>8, <1>9

-----------------------------------------------------------------------------
(* The packets between the encoder and the decoder, in the order they go.    *)
Way(f, p, a, b, s, q) == f \o (p \o (a \o (b \o Queued(s, q))))

Kept == session # None /\ stopped = "no" /\ ~ missed /\ ~ enc.cancelled

Lossless ==
    /\ session # None => sessions >= 1
    /\ fed \in Seq(Packet)
    /\ Kept => Carries(Way(fed, session.decodePending, admitted, burst, sessions, enc.queue),
                       sessions, Delivered)

(* Where there is a session, everything on the way is typed.                 *)
LEMMA WayTypes ==
    ASSUME IInv, Lossless, session # None
    PROVE  /\ session.number = sessions /\ sessions \in Nat /\ sessions # 0
           /\ fed \in Seq(Packet) /\ session.decodePending \in Seq(Packet)
           /\ admitted \in Seq(Packet) /\ burst \in Seq(Packet)
           /\ enc.queue \in Seq(1..Chunks) /\ Queued(sessions, enc.queue) \in Seq(Packet)
<1>1. session \in SessionState /\ sessions \in Nat /\ sessions >= 1 /\ fed \in Seq(Packet)
    BY DEF IInv, Types, DemuxTypes, Lossless
<1>2. Packets \subseteq Packet
    BY <1>1, Sizes DEF Packets, Packet
<1>3. session.decodePending \in Seq(Packets) /\ session.number = sessions
      /\ admitted \in Seq(Packets) /\ burst \in Seq(Packets)
    BY <1>1 DEF SessionState, IInv, Types, DemuxTypes
<1> HIDE DEF Packets, Packet
<1>4. session.decodePending \in Seq(Packet) /\ admitted \in Seq(Packet) /\ burst \in Seq(Packet)
    BY <1>2, <1>3, SeqMonotonic
<1>5. enc.queue \in Seq(1..Chunks)
    BY DEF IInv, Types, HostTypes, EncoderState
<1>6. Queued(sessions, enc.queue) \in Seq(Packet)
    BY <1>1, <1>5, QueuedType
<1>7. sessions # 0
    BY <1>1
<1> QED
    BY <1>1, <1>3, <1>4, <1>5, <1>6, <1>7, Zenon

LEMMA PacketsJoin == \A a, b \in Seq(Packet) : a \o b \in Seq(Packet)
OBVIOUS

LEMMA WayIsOnItsWay ==
    ASSUME IInv, Lossless, session # None
    PROVE  OnItsWay = Way(fed, session.decodePending, admitted, burst, sessions, enc.queue)
<1> DEFINE p == session.decodePending
           r == Queued(sessions, enc.queue)
<1>1. /\ session.number = sessions /\ fed \in Seq(Packet) /\ p \in Seq(Packet)
      /\ admitted \in Seq(Packet) /\ burst \in Seq(Packet) /\ r \in Seq(Packet)
    BY WayTypes
<1>2. OnItsWay = fed \o p \o admitted \o burst \o r
    BY <1>1, Zenon DEF OnItsWay, Queued
<1> HIDE DEF p, r, OnItsWay
<1>3. /\ fed \in Seq(Packet) /\ p \in Seq(Packet) /\ admitted \in Seq(Packet)
      /\ burst \in Seq(Packet) /\ r \in Seq(Packet)
    BY <1>1
<1> DEFINE x == fed \o p
           y == x \o admitted
           u == burst \o r
           v == admitted \o u
<1>4. x \in Seq(Packet) /\ u \in Seq(Packet)
    BY <1>3, PacketsJoin
<1>5. \A w \in Seq(Packet) : fed \o (p \o w) = x \o w
    BY <1>3, PacketsRegroup, Zenon
<1> HIDE DEF x
<1>6. y \in Seq(Packet)
    BY <1>3, <1>4, PacketsJoin
<1>7. \A w \in Seq(Packet) : x \o (admitted \o w) = y \o w
    BY <1>3, <1>4, PacketsRegroup, Zenon
<1> HIDE DEF y
<1>8. y \o (burst \o r) = (y \o burst) \o r
    BY <1>3, <1>6, PacketsRegroup, Zenon
<1> HIDE DEF u
<1>9. v \in Seq(Packet)
    BY <1>3, <1>4, PacketsJoin
<1> HIDE DEF v
<1>10. (((fed \o p) \o admitted) \o burst) \o r = fed \o (p \o (admitted \o (burst \o r)))
    BY <1>4, <1>5, <1>7, <1>8, <1>9, Zenon DEF x, y, u, v
<1> QED
    BY <1>2, <1>10, Zenon DEF Way, p, r

(* Nothing moves on the way.                                                 *)
LEMMA QuietKeeps ==
    ASSUME Lossless, UNCHANGED <<session, sessions, fed, admitted, burst>>,
           enc'.queue = enc.queue, Delivered' = Delivered,
           stopped' = "no" => stopped = "no", missed' = missed, enc.cancelled => enc'.cancelled
    PROVE  Lossless'
<1>1. (Way(fed, session.decodePending, admitted, burst, sessions, enc.queue))'
          = Way(fed, session.decodePending, admitted, burst, sessions, enc.queue)
    BY DEF Way, Queued, Chunk
<1>2. Kept' => Kept
    BY DEF Kept
<1> HIDE DEF Way, Delivered
<1> QED
    BY <1>1, <1>2 DEF Lossless, Carries

(* A loop that returns, or has no session, keeps no promise any more.        *)
LEMMA OverKeeps ==
    ASSUME Lossless, UNCHANGED <<sessions>>, fed' \in Seq(Packet),
           session' # None => session # None,
           session' = None \/ stopped' # "no" \/ missed' \/ enc'.cancelled
    PROVE  Lossless'
BY DEF Lossless, Kept

LEMMA StopsOnReturn ==
    ASSUME NEW why \in {"transport", "encoder", "decoder", "other", "refused", "closed"},
           Return(why)
    PROVE  stopped' # "no"
BY DEF Return

LEMMA LosslessTransmit == ASSUME IInv, Lossless, Transmit PROVE Lossless'
<1>1. UNCHANGED <<guest, burst, session, procs, sessions, fed, missed>>
    BY DEF Transmit, history
<1>2. UNCHANGED <<enc>> /\ Delivered' = Delivered
    BY <1>1 DEF procs, Delivered
<1>3. CASE UNCHANGED admitted
    <2>1. stopped' = "no" => stopped = "no"
        BY StopsOnReturn DEF Transmit, Go
    <2> QED
        BY <1>1, <1>2, <1>3, <2>1, QuietKeeps
<1>4. CASE Kept' /\ admitted' = Append(admitted, Psi) /\ Go("demux")
    <2>1. Kept /\ session # None
        BY <1>1, <1>2, <1>4 DEF Kept, Go
    <2> DEFINE p == session.decodePending
               r == Queued(sessions, enc.queue)
               e == burst \o r
    <2>2. /\ sessions \in Nat /\ sessions # 0 /\ fed \in Seq(Packet) /\ p \in Seq(Packet)
          /\ admitted \in Seq(Packet) /\ burst \in Seq(Packet) /\ r \in Seq(Packet)
        BY <2>1, WayTypes
    <2>3. /\ e \in Seq(Packet) /\ Psi \in Packet /\ Psi[1] # sessions /\ <<Psi>> \in Seq(Packet)
        BY <2>2 DEF Psi, Packet
    <2>4. Carries(fed \o (p \o (admitted \o e)), sessions, Delivered)
        BY <2>1, Zenon DEF Lossless, Way
    <2> HIDE DEF e, p, r
    <2>5. Carries(fed \o (p \o (Append(admitted, Psi) \o e)), sessions, Delivered)
        <3> DEFINE c == fed \o (p \o admitted)
                   x == <<Psi>>
        <3>1. p \o admitted \in Seq(Packet) /\ c \in Seq(Packet) /\ x \in Seq(Packet)
              /\ x \o e \in Seq(Packet) /\ admitted \o e \in Seq(Packet)
            BY <2>2, <2>3
        <3>2. ASSUME NEW y \in Seq(Packet)
              PROVE  fed \o (p \o (admitted \o y)) = c \o y
            <4>0. p \in Seq(Packet) /\ admitted \in Seq(Packet)
                BY <2>2
            <4>1. p \o (admitted \o y) = (p \o admitted) \o y
                BY <4>0, PacketsRegroup, Zenon
            <4> DEFINE z == p \o admitted
            <4>2. z \in Seq(Packet) /\ fed \in Seq(Packet)
                BY <2>2, <3>1
            <4>3. c = fed \o z
                OBVIOUS
            <4> HIDE DEF z, c
            <4>4. fed \o (z \o y) = (fed \o z) \o y
                BY <4>2, PacketsRegroup, Zenon
            <4> QED
                BY <4>1, <4>3, <4>4, Zenon DEF z
        <3>3. Append(admitted, Psi) \o e = admitted \o (x \o e)
            <4>1. Append(admitted, Psi) = admitted \o x
                BY <2>2, <2>3, AppendIsConcat
            <4>2. admitted \in Seq(Packet) /\ x \in Seq(Packet) /\ e \in Seq(Packet)
                BY <2>2, <2>3
            <4> HIDE DEF x
            <4>3. (admitted \o x) \o e = admitted \o (x \o e)
                BY <4>2, PacketsRegroup, Zenon
            <4> QED
                BY <4>1, <4>3, Zenon
        <3>4. Carries(c \o e, sessions, Delivered)
            BY <2>3, <2>4, <3>2
        <3> HIDE DEF c
        <3>5. Carries(c \o (x \o e), sessions, Delivered)
            BY <2>3, <3>1, <3>4, Foreign
        <3> HIDE DEF x
        <3> QED
            BY <3>1, <3>2, <3>3, <3>5
    <2>6. Way(fed, p, admitted, burst, sessions, enc.queue)'
              = fed \o (p \o (Append(admitted, Psi) \o e))
        BY <1>1, <1>2, <1>4 DEF Way, e, p, r, Queued, Chunk
    <2>7. sessions' = sessions /\ fed' = fed /\ session' = session
        BY <1>1
    <2> HIDE DEF Way
    <2> QED
        BY <1>2, <2>2, <2>5, <2>6, <2>7 DEF Lossless, p
<1>5. CASE ~ Kept'
    BY <1>1, <1>5 DEF Lossless
<1>6. CASE Return("transport") /\ UNCHANGED admitted
    BY <1>3, <1>6
<1> QED
    BY <1>3, <1>4, <1>5 DEF Transmit

LEMMA Keeps ==
    ASSUME session' # None => sessions' >= 1, fed' \in Seq(Packet),
           Kept' => Carries(Way(fed', session'.decodePending, admitted', burst', sessions',
                                enc'.queue), sessions', Delivered')
    PROVE  Lossless'
BY DEF Lossless, Way, Queued, Chunk, Carries

LEMMA SplitsAt ==
    ASSUME NEW S, NEW s \in Seq(S), NEW n \in 0..Len(s)
    PROVE  s = SubSeq(s, 1, n) \o SubSeq(s, n + 1, Len(s))
<1> DEFINE x == SubSeq(s, 1, n)
           y == SubSeq(s, n + 1, Len(s))
<1>1. Len(s) \in Nat /\ s = [i \in 1..Len(s) |-> s[i]]
    OBVIOUS
<1>2. x \in Seq(S) /\ Len(x) = n /\ \A i \in 1..n : x[i] = s[i]
    OBVIOUS
<1>3. y \in Seq(S) /\ Len(y) = Len(s) - n /\ \A i \in 1..(Len(s) - n) : y[i] = s[n + i]
    <2> DEFINE m == n + 1
    <2>1. m \in Nat /\ \A i \in m..Len(s) : s[i] \in S
        BY <1>1
    <2>2. /\ SubSeq(s, m, Len(s)) \in Seq(S)
          /\ Len(SubSeq(s, m, Len(s))) = Len(s) - n
          /\ \A i \in 1..(Len(s) - n) : SubSeq(s, m, Len(s))[i] = s[n + i]
        BY <1>1, <2>1, SubSeqProperties
    <2> QED
        BY <2>2
<1> HIDE DEF x, y
<1>4. /\ x \o y \in Seq(S) /\ Len(x \o y) = Len(s)
      /\ \A i \in 1..Len(s) : (x \o y)[i] = s[i]
    <2> DEFINE l == Len(s)
               k == l - n
    <2>1. l \in Nat /\ n \in 0..l /\ k \in Nat /\ l = n + k
        BY <1>1
    <2>3. (\A i \in 1..n : x[i] = s[i]) /\ (\A i \in 1..k : y[i] = s[n + i])
          /\ Len(x) = n /\ Len(y) = k
        BY <1>2, <1>3
    <2> HIDE DEF l, k
    <2>2. /\ x \o y \in Seq(S) /\ Len(x \o y) = n + k
          /\ \A i \in 1..(n + k) : (x \o y)[i] = IF i <= n THEN x[i] ELSE y[i - n]
        <3>1. x \in Seq(S) /\ y \in Seq(S)
            BY <1>2, <1>3
        <3>2. Len(x) = n /\ Len(y) = k
            BY <2>3
        <3>3. /\ x \o y \in Seq(S) /\ Len(x \o y) = Len(x) + Len(y)
              /\ \A i \in 1..(Len(x) + Len(y)) :
                    (x \o y)[i] = IF i <= Len(x) THEN x[i] ELSE y[i - Len(x)]
            BY <3>1, ConcatProperties
        <3> QED
            BY <3>2, <3>3, Zenon
    <2> DEFINE z == x \o y
    <2>4. \A i \in 1..(n + k) : z[i] = IF i <= n THEN x[i] ELSE y[i - n]
        BY <2>2
    <2> HIDE DEF l, k, z
    <2>5. ASSUME NEW i \in 1..l PROVE z[i] = s[i]
        <3>1. CASE i <= n
            BY <2>1, <2>3, <2>4, <3>1
        <3>2. CASE ~ (i <= n)
            <4> DEFINE j == i - n
            <4>1. j \in 1..k /\ n + j = i /\ i \in 1..(n + k)
                BY <2>1, <3>2
            <4> HIDE DEF j
            <4>2. z[i] = y[j]
                BY <2>4, <3>2, <4>1 DEF j
            <4> QED
                BY <2>3, <4>1, <4>2
        <3> QED
            BY <3>1, <3>2
    <2> QED
        BY <2>1, <2>2, <2>5, Zenon DEF l, z
<1> DEFINE z == x \o y
<1>5. z \in Seq(S) /\ Len(z) = Len(s) /\ \A i \in 1..Len(s) : z[i] = s[i]
    BY <1>4
<1> HIDE DEF z
<1>6. z = [i \in 1..Len(s) |-> z[i]]
    BY <1>5
<1>7. z = s
    BY <1>1, <1>5, <1>6
<1> QED
    BY <1>7 DEF x, y, z

LEMMA LosslessPumpDemux == ASSUME IInv, Lossless, PumpDemux PROVE Lossless'
<1>1. UNCHANGED <<guest, session, procs, sessions, fed, budgets>>
    BY DEF PumpDemux
<1>2. UNCHANGED enc /\ Delivered' = Delivered
    BY <1>1 DEF procs, Delivered
<1>3. fed' \in Seq(Packet) /\ (session' # None => sessions' >= 1)
    BY <1>1 DEF Lossless
<1> SUFFICES ASSUME Kept'
             PROVE  Carries(Way(fed', session'.decodePending, admitted', burst', sessions',
                                enc'.queue), sessions', Delivered')
    BY <1>3, Keeps
<1>4. PICK due \in 1..2 :
          LET n == IF due < Len(burst) THEN due ELSE Len(burst)
              packets == SubSeq(burst, 1, n)
          IN  \/ /\ burst' = SubSeq(burst, n + 1, Len(burst))
                 /\ missed' = (missed \/ n > 0)
                 /\ admitted' = admitted /\ Go("feed")
              \/ /\ burst' = SubSeq(burst, n + 1, Len(burst))
                 /\ admitted' = admitted \o packets
                 /\ UNCHANGED missed /\ Go("feed")
              \/ Return("transport") /\ UNCHANGED <<demux, missed>>
    BY DEF PumpDemux
<1> DEFINE n == IF due < Len(burst) THEN due ELSE Len(burst)
           x == SubSeq(burst, 1, n)
           y == SubSeq(burst, n + 1, Len(burst))
<1>13. ~ Return("transport")
    BY StopsOnReturn DEF Kept
<1>14. /\ burst' = y /\ Go("feed")
       /\ \/ missed' = (missed \/ n > 0) /\ admitted' = admitted
          \/ missed' = missed /\ admitted' = admitted \o x
    BY <1>4, <1>13
<1>15. n = 0 => y = burst
    <2>1. burst \in Seq(Packets)
        BY DEF IInv, Types, DemuxTypes
    <2>2. SubSeq(burst, 0 + 1, Len(burst)) = burst
        BY <2>1
    <2> HIDE DEF n
    <2> QED
        BY <2>2
<1> HIDE DEF x, y, n
<1>5. Kept
    <2>1. missed => missed'
        BY <1>14
    <2> QED
        BY <1>1, <1>2, <1>14, <2>1 DEF Kept, Go
<1> DEFINE p == session.decodePending
           r == Queued(sessions, enc.queue)
<1>6. /\ fed \in Seq(Packet) /\ p \in Seq(Packet)
      /\ admitted \in Seq(Packet) /\ burst \in Seq(Packet) /\ r \in Seq(Packet)
    BY <1>5, WayTypes DEF Kept
<1>7. Carries(fed \o (p \o (admitted \o (burst \o r))), sessions, Delivered)
    BY <1>5, Zenon DEF Lossless, Way
<1>8. n \in 0..Len(burst)
    BY <1>6 DEF n
<1>9. \/ burst' = burst /\ admitted' = admitted
      \/ burst' = y /\ admitted' = admitted \o x
    <2>1. ~ missed' /\ (n > 0 \/ n = 0)
        BY <1>8 DEF Kept
    <2> QED
        BY <1>14, <1>15, <2>1
<1>10. x \in Seq(Packet) /\ y \in Seq(Packet) /\ burst = x \o y
    <2>1. burst = SubSeq(burst, 1, n) \o SubSeq(burst, n + 1, Len(burst))
        BY <1>6, <1>8, SplitsAt
    <2>2. SubSeq(burst, 1, n) \in Seq(Packet) /\ SubSeq(burst, n + 1, Len(burst)) \in Seq(Packet)
        BY <1>6, <1>8, TakesFromTheFront
    <2> QED
        BY <2>1, <2>2 DEF x, y
<1>11. admitted' \o (burst' \o r) = admitted \o (burst \o r)
    <2>1. CASE burst' = y /\ admitted' = admitted \o x
        <3>0. /\ admitted \in Seq(Packet) /\ x \in Seq(Packet)
              /\ y \in Seq(Packet) /\ r \in Seq(Packet)
            BY <1>6, <1>10
        <3> HIDE DEF r
        <3> DEFINE e == y \o r
        <3>1. e \in Seq(Packet)
            BY <3>0
        <3>2. x \o e = (x \o y) \o r
            BY <3>0, PacketsRegroup, Zenon
        <3> HIDE DEF e
        <3>4. admitted \in Seq(Packet) /\ x \in Seq(Packet)
            BY <3>0
        <3>3. admitted \o (x \o e) = (admitted \o x) \o e
            BY <3>1, <3>4, PacketsRegroup, Zenon
        <3> QED
            BY <1>10, <2>1, <3>2, <3>3, Zenon DEF e
    <2> QED
        BY <1>9, <2>1
<1>12. fed' = fed /\ session' = session /\ sessions' = sessions /\ enc' = enc
    BY <1>1, <1>2
<1> HIDE DEF r
<1> QED
    BY <1>2, <1>7, <1>11, <1>12, Zenon DEF Way, p, r

(* A burst for the decoder: its own packets join the history, in place.      *)
LEMMA Gives ==
    ASSUME fed \in Seq(Packet), NEW g \in Seq(Packet), NEW rest \in Seq(Packet), NEW n,
           session.number = sessions, Carries(fed \o (g \o rest), sessions, n)
    PROVE  fed \o Own(g) \in Seq(Packet) /\ Carries((fed \o Own(g)) \o rest, sessions, n)
<1> DEFINE o == Own(g)
<1>1. o \in Seq(Packet) /\ Carries(fed \o (o \o rest), sessions, n)
    BY OwnCarries
<1> HIDE DEF o
<1>2. fed \o (o \o rest) = (fed \o o) \o rest
    BY <1>1, PacketsRegroup, Zenon
<1> QED
    BY <1>1, <1>2 DEF o

LEMMA NothingBefore == \A w \in Seq(Packet) : <<>> \o w = w
BY ConcatEmptySeq

LEMMA LosslessFlush ==
    ASSUME IInv, Lossless, session # None, Flush,
           UNCHANGED <<burst, enc, guest, admitted, sessions, missed, budgets>>
    PROVE  Lossless'
<1> DEFINE p == session.decodePending
           r == Queued(sessions, enc.queue)
           rest == admitted \o (burst \o r)
<1>1. /\ session.number = sessions /\ fed \in Seq(Packet) /\ p \in Seq(Packet)
      /\ rest \in Seq(Packet) /\ sessions >= 1 /\ sessions' >= 1
    <2>1. /\ session.number = sessions /\ fed \in Seq(Packet) /\ p \in Seq(Packet)
          /\ admitted \in Seq(Packet) /\ burst \in Seq(Packet) /\ r \in Seq(Packet)
        BY WayTypes
    <2> HIDE DEF r
    <2> QED
        BY <2>1 DEF Lossless
<1>2. Delivered' = Delivered
    BY DEF Delivered
<1>3. CASE enc.fault
    <2>1. stopped' # "no" /\ UNCHANGED <<session, fed>>
        BY <1>3, StopsOnReturn DEF Flush
    <2> QED
        BY <1>1, <2>1, OverKeeps
<1>4. CASE ~ enc.fault
    <2>1. session' = [session EXCEPT !.decodePending = <<>>]
        BY <1>4 DEF Flush
    <2>2. session'.decodePending = <<>>
        <3>1. <<>> \in Seq(Packets)
            OBVIOUS
        <3> QED
            BY <2>1, <3>1, SessionHolds DEF IInv, Types
    <2>3. CASE p = <<>>
        <3>1. UNCHANGED fed /\ Go("step")
            BY <1>4, <2>3 DEF Flush
        <3>2. fed' \in Seq(Packet) /\ (session' # None => sessions' >= 1)
            BY <1>1, <3>1
        <3> SUFFICES ASSUME Kept'
                     PROVE  Carries(Way(fed', session'.decodePending, admitted', burst',
                                        sessions', enc'.queue), sessions', Delivered')
            BY <3>2, Keeps
        <3>3. Kept
            BY <3>1 DEF Kept, Go
        <3> QED
            BY <1>2, <2>2, <2>3, <3>1, <3>3 DEF Lossless
    <2>4. CASE p # <<>> /\ Refusal = "no"
        <3>1. fed' = fed \o Own(p) /\ Go("step")
            BY <1>4, <2>4 DEF Flush, Enqueue
        <3> HIDE DEF p, rest
        <3>2. Kept => Carries(fed \o (p \o rest), sessions, Delivered)
            BY Zenon DEF Lossless, Way, p, r, rest
        <3>3. fed' \in Seq(Packet)
            <4>1. Own(p) \in Seq(Packet)
                BY <1>1, OwnType
            <4> QED
                BY <1>1, <3>1, <4>1
        <3> SUFFICES ASSUME Kept'
                     PROVE  Carries(Way(fed', session'.decodePending, admitted', burst',
                                        sessions', enc'.queue), sessions', Delivered')
            BY <1>1, <3>3, Keeps
        <3>4. Carries(fed \o (p \o rest), sessions, Delivered)
            <4>1. Kept
                BY <3>1 DEF Kept, Go
            <4> QED
                BY <3>2, <4>1
        <3>5. Carries((fed \o Own(p)) \o rest, sessions, Delivered)
            BY <1>1, <3>4, Gives
        <3>6. <<>> \o rest = rest
            BY <1>1, NothingBefore
        <3> QED
            BY <1>2, <2>2, <3>1, <3>5, <3>6, Zenon DEF Way, rest, r
    <2>5. CASE p # <<>> /\ Refusal # "no"
        <3>1. stopped' # "no" /\ UNCHANGED fed
            BY <1>4, <2>5, StopsOnReturn DEF Flush, Enqueue, Refusal
        <3> QED
            BY <1>1, <3>1, OverKeeps
    <2> QED
        BY <2>3, <2>4, <2>5
<1> QED
    BY <1>3, <1>4

(* The head of the encoder's queue becomes the burst.                        *)
LEMMA LosslessFeed == ASSUME IInv, Lossless, Feed PROVE Lossless'
<1>1. UNCHANGED <<guest, admitted, sessions, missed, budgets>>
    BY DEF Feed
<1>2. CASE session = None \/ burst # <<>> \/ (enc.queue = <<>> /\ ~ enc.closed)
    <2>1. UNCHANGED <<burst, session, procs, fed>> /\ stopped' = stopped
        BY <1>2 DEF Feed, Go
    <2>2. UNCHANGED enc /\ Delivered' = Delivered
        BY <2>1 DEF procs, Delivered
    <2> QED
        BY <1>1, <2>1, <2>2, QuietKeeps
<1>3. CASE session # None /\ burst = <<>> /\ enc.queue # <<>>
    <2> DEFINE q == enc.queue
               p == session.decodePending
               c == Chunk(sessions, Head(q))
               r == Queued(sessions, Tail(q))
    <2>1. /\ session.number = sessions /\ sessions \in Nat /\ sessions # 0
          /\ fed \in Seq(Packet) /\ p \in Seq(Packet) /\ admitted \in Seq(Packet)
          /\ q \in Seq(1..Chunks)
        BY <1>3, WayTypes
    <2>2. /\ enc' = [enc EXCEPT !.queue = Tail(@)] /\ UNCHANGED <<dec, session, fed>>
          /\ burst' = c /\ Go("take")
        BY <1>3, <2>1 DEF Feed, Schedule
    <2>3. enc'.queue = Tail(q) /\ enc'.cancelled = enc.cancelled /\ Delivered' = Delivered
        <3>1. enc \in EncoderState
            BY DEF IInv, Types, HostTypes
        <3> QED
            BY <2>2, <3>1 DEF EncoderState, Delivered
    <2>4. Queued(sessions, q) = c \o r /\ c \o r \in Seq(Packet)
        <3> HIDE DEF q
        <3>1. q # <<>>
            BY <1>3 DEF q
        <3>2. Head(q) \in 1..Chunks /\ Tail(q) \in Seq(1..Chunks)
            BY <2>1, <3>1, HeadTailProperties
        <3>3. c \in Seq(Packet) /\ r \in Seq(Packet)
            BY <2>1, <3>2, ChunkType, QueuedType
        <3>4. Queued(sessions, q) = c \o r
            BY <2>1, <3>1, QueuedTail
        <3> HIDE DEF c, r
        <3> QED
            BY <3>3, <3>4
    <2>5. fed' \in Seq(Packet) /\ (session' # None => sessions' >= 1)
        BY <1>1, <2>2 DEF Lossless
    <2> SUFFICES ASSUME Kept'
                 PROVE  Carries(Way(fed', session'.decodePending, admitted', burst', sessions',
                                    enc'.queue), sessions', Delivered')
        BY <2>5, Keeps
    <2>6. Kept
        BY <1>1, <2>2, <2>3 DEF Kept, Go
    <2>7. Carries(fed \o (p \o (admitted \o (burst \o (c \o r)))), sessions, Delivered)
        <3>1. Carries(Way(fed, p, admitted, burst, sessions, q), sessions, Delivered)
            BY <2>6 DEF Lossless
        <3> QED
            BY <2>4, <3>1, Zenon DEF Way
    <2> HIDE DEF c, r, q, p
    <2>8. burst \o (c \o r) = c \o r
        BY <1>3, <2>4, NothingBefore
    <2>9. fed' = fed /\ session'.decodePending = p /\ admitted' = admitted /\ sessions' = sessions
        BY <1>1, <2>2 DEF p
    <2> QED
        BY <2>2, <2>3, <2>7, <2>8, <2>9, Zenon DEF Way, r
<1>4. CASE session # None /\ burst = <<>> /\ enc.queue = <<>> /\ enc.closed
    <2>1. Flush /\ UNCHANGED <<burst, enc>>
        BY <1>4 DEF Feed
    <2> QED
        BY <1>1, <1>4, <2>1, LosslessFlush
<1> QED
    BY <1>2, <1>3, <1>4

LEMMA LosslessTake == ASSUME IInv, Lossless, Take PROVE Lossless'
<1> DEFINE p == session.decodePending
           g == p \o admitted
           rest == burst \o Queued(sessions, enc.queue)
<1>1. /\ at = "take" /\ admitted' = <<>> /\ UNCHANGED <<guest, burst, enc, sessions, missed, budgets>>
      /\ \/ session' = [session EXCEPT !.decodePending = g] /\ Go("present")
            /\ UNCHANGED <<dec, fed>>
         \/ /\ session' = [session EXCEPT !.decodePending = <<>>]
            /\ Enqueue(g, [dec EXCEPT !.input = @ + 1])
            /\ Refusal = "no" => Go("present")
    BY DEF Take
<1>2. session # None
    BY <1>1 DEF IInv, Orphans
<1>3. /\ session.number = sessions /\ fed \in Seq(Packet) /\ p \in Seq(Packet)
      /\ admitted \in Seq(Packet) /\ rest \in Seq(Packet) /\ g \in Seq(Packet)
      /\ sessions >= 1 /\ sessions' = sessions
    <2> DEFINE r == Queued(sessions, enc.queue)
    <2>1. /\ session.number = sessions /\ fed \in Seq(Packet) /\ p \in Seq(Packet)
          /\ admitted \in Seq(Packet) /\ burst \in Seq(Packet) /\ r \in Seq(Packet)
        BY <1>2, WayTypes
    <2> HIDE DEF r
    <2>2. burst \o r \in Seq(Packet) /\ p \o admitted \in Seq(Packet)
        BY <2>1
    <2> QED
        BY <1>1, <1>2, <2>1, <2>2 DEF Lossless, r
<1>4. Delivered' = Delivered /\ g \in Seq(Packets) /\ <<>> \in Seq(Packets)
    <2>1. p \in Seq(Packets) /\ admitted \in Seq(Packets)
        BY <1>2 DEF IInv, Types, DemuxTypes, SessionState
    <2> QED
        BY <1>1, <2>1 DEF Delivered
<1>5. Kept => Carries(fed \o (g \o rest), sessions, Delivered)
    <2> SUFFICES ASSUME Kept PROVE Carries(fed \o (g \o rest), sessions, Delivered)
        OBVIOUS
    <2>1. Carries(fed \o (p \o (admitted \o rest)), sessions, Delivered)
        BY Zenon DEF Lossless, Way
    <2> HIDE DEF rest, p
    <2>2. p \in Seq(Packet) /\ admitted \in Seq(Packet) /\ rest \in Seq(Packet)
        BY <1>3
    <2>3. p \o (admitted \o rest) = g \o rest
        BY <2>2, PacketsRegroup, Zenon
    <2> QED
        BY <2>1, <2>3, Zenon
<1>6. (Kept' => Kept) /\ burst' \o Queued(sessions', enc'.queue) = rest
    BY <1>1, <1>2, StopsOnReturn DEF Kept, Go, Enqueue, Refusal
<1>7. CASE session' = [session EXCEPT !.decodePending = g] /\ UNCHANGED fed
    <2>1. session'.decodePending = g
        <3> HIDE DEF g
        <3> QED
            BY <1>2, <1>3, <1>4, <1>7, SessionHolds DEF IInv, Types
    <2>2. <<>> \o rest = rest
        BY <1>3, NothingBefore
    <2> HIDE DEF g, rest
    <2>3. Kept' => Carries(Way(fed', session'.decodePending, admitted', burst', sessions',
                               enc'.queue), sessions', Delivered')
        BY <1>1, <1>3, <1>4, <1>5, <1>6, <1>7, <2>1, <2>2, Zenon DEF Way
    <2> QED
        BY <1>3, <1>7, <2>3, Keeps
<1>8. CASE session' = [session EXCEPT !.decodePending = <<>>] /\ fed' = fed \o Own(g)
    <2> HIDE DEF g, rest
    <2>1. session'.decodePending = <<>>
        BY <1>2, <1>3, <1>4, <1>8, SessionHolds DEF IInv, Types
    <2>2. <<>> \o rest = rest
        BY <1>3, NothingBefore
    <2>3. fed' \in Seq(Packet)
        <3>1. Own(g) \in Seq(Packet)
            BY <1>3, OwnType
        <3> QED
            BY <1>3, <1>8, <3>1
    <2>4. Kept => Carries((fed \o Own(g)) \o rest, sessions, Delivered)
        BY <1>3, <1>5, Gives
    <2>5. Kept' => Carries(Way(fed', session'.decodePending, admitted', burst', sessions',
                               enc'.queue), sessions', Delivered')
        BY <1>1, <1>3, <1>4, <1>6, <1>8, <2>1, <2>2, <2>4, Zenon DEF Way
    <2> QED
        BY <1>3, <2>3, <2>5, Keeps
<1>9. CASE stopped' # "no" /\ UNCHANGED fed
    BY <1>2, <1>3, <1>9, OverKeeps
<1>10. CASE Enqueue(g, [dec EXCEPT !.input = @ + 1])
            /\ session' = [session EXCEPT !.decodePending = <<>>]
    <2>1. CASE Refusal = "no"
        BY <1>8, <1>10, <2>1 DEF Enqueue
    <2>2. CASE Refusal # "no"
        <3>1. stopped' # "no" /\ UNCHANGED fed
            BY <1>10, <2>2, StopsOnReturn DEF Enqueue, Refusal
        <3> QED
            BY <1>9, <3>1
    <2> QED
        BY <2>1, <2>2
<1> HIDE DEF g
<1> QED
    BY <1>1, <1>7, <1>10

(* Elsewhere in the loop, and in the decoder, nothing moves on the way.      *)
LEMMA LosslessElsewhere ==
    ASSUME IInv, Lossless, Leave \/ Present \/ Step \/ ScheduleMoves \/ Decoding
    PROVE  Lossless'
<1>1. UNCHANGED <<session, sessions, fed, missed, admitted, burst, enc>>
    BY DEF Leave, Present, Step, ScheduleMoves, Decoding, DecoderWrites, DecoderReads,
           DecoderEnds, history, demux, procs
<1>2. stopped' = "no" => stopped = "no"
    <2>1. CASE Leave
        BY <2>1, StopsOnReturn DEF Leave
    <2>2. CASE Present
        BY <2>2, StopsOnReturn DEF Present, Go
    <2>3. CASE Step \/ ScheduleMoves \/ Decoding
        BY <2>3 DEF Step, ScheduleMoves, Decoding, DecoderWrites, DecoderReads, DecoderEnds, loop
    <2> QED
        BY <2>1, <2>2, <2>3
<1>3. Delivered' = Delivered
    BY <1>1 DEF Delivered
<1> QED
    BY <1>1, <1>2, <1>3, QuietKeeps

(* A session begins with nothing delivered; what the demultiplexer still     *)
(* holds is of the sessions before it.                                       *)
LEMMA LosslessStart == ASSUME IInv, Lossless, StartPlayout PROVE Lossless'
<1>1. /\ sessions' = sessions + 1 /\ sessions \in Nat /\ fed' = <<>> /\ enc' = NewEncoder
      /\ session'.decodePending = <<>> /\ UNCHANGED <<admitted, burst>>
    BY DEF StartPlayout, demux, IInv, Types, DemuxTypes
<1>2. fed' \in Seq(Packet) /\ sessions' >= 1 /\ enc'.queue = <<>> /\ Delivered' = 0
    <2>1. 0 * ChunkLen = 0
        BY Sizes
    <2> QED
        BY <1>1, <2>1 DEF NewEncoder, Delivered
<1> DEFINE w == admitted \o burst
<1>3. w \in Seq(Packet) /\ \A k \in 1..Len(w) : w[k][1] # sessions + 1
    <2>1. w \in Seq(Packets)
        BY DEF IInv, Types, DemuxTypes
    <2>2. \A x \in Packets : x \in Packet /\ x[1] # sessions + 1
        BY <1>1, Sizes DEF Packets, Packet
    <2> HIDE DEF w, Packets, Packet
    <2>3. \A k \in 1..Len(w) : w[k] \in Packets
        BY <2>1
    <2>4. w \in Seq(Packet)
        BY <2>1, <2>2, SeqMonotonic
    <2> QED
        BY <2>2, <2>3, <2>4
<1>4. Carries(w, sessions + 1, 0)
    <2> HIDE DEF w
    <2> QED
        BY <1>3, NothingYet
<1>5. Way(<<>>, <<>>, admitted, burst, sessions + 1, <<>>) = w
    <2>1. Queued(sessions + 1, <<>>) = <<>>
        BY <1>1, QueuedNothing
    <2>2. admitted \in Seq(Packets) /\ burst \in Seq(Packets)
        BY DEF IInv, Types, DemuxTypes
    <2>3. burst \o <<>> = burst /\ <<>> \o w = w
        BY <2>2, ConcatEmptySeq
    <2> HIDE DEF w
    <2> QED
        BY <2>1, <2>3, Zenon DEF Way, w
<1> HIDE DEF w
<1>6. Carries(Way(fed', session'.decodePending, admitted', burst', sessions', enc'.queue),
              sessions', Delivered')
    BY <1>1, <1>2, <1>4, <1>5, Zenon
<1> QED
    BY <1>2, <1>6, Keeps

(* A start that fails leaves no session, as it found none.                   *)
LEMMA LosslessFailedStart ==
    ASSUME IInv, Lossless, DecoderWillNotStart \/ PlayoutWillNotStart PROVE Lossless'
<1>1. session = None /\ UNCHANGED <<session, sessions, fed>>
    BY DEF DecoderWillNotStart, PlayoutWillNotStart, IInv, Orphans, history
<1> QED
    BY <1>1, OverKeeps DEF Lossless

LEMMA LosslessClosing == ASSUME IInv, Lossless, Closing PROVE Lossless'
<1>1. UNCHANGED <<stopped, demux, sessions, fed, missed>>
    BY DEF Closing, CloseEncoder, EncoderGone, CloseDecoder, DecoderGone, history
<1>2. CASE CloseEncoder
    <2>1. enc'.cancelled /\ UNCHANGED session
        BY <1>2 DEF CloseEncoder, IInv, Types, HostTypes, EncoderState
    <2> QED
        BY <1>1, <2>1, OverKeeps DEF Lossless
<1>3. CASE EncoderGone \/ CloseDecoder
    <2>1. UNCHANGED <<session, enc>> /\ Delivered' = Delivered
        BY <1>3 DEF EncoderGone, CloseDecoder, procs, Delivered
    <2> QED
        BY <1>1, <2>1, QuietKeeps DEF demux
<1>4. CASE DecoderGone
    BY <1>1, <1>4, OverKeeps DEF DecoderGone, Lossless
<1> QED
    BY <1>2, <1>3, <1>4 DEF Closing

-----------------------------------------------------------------------------
(* The encoder: what it has read is delivered when it is queued.             *)
LEMMA LosslessEncoding == ASSUME IInv, Lossless, Encoding PROVE Lossless'
<1>1. /\ UNCHANGED <<session, sessions, fed, missed, admitted, burst, stopped>>
      /\ enc \in EncoderState
    BY DEF Encoding, EncoderReads, EncoderSends, EncoderEnds, history, demux, loop,
           IInv, Types, HostTypes
<1>2. CASE enc.at = "read" /\ enc' = [enc EXCEPT !.at = "send", !.made = @ + 1]
    <2>1. Delivered' = Delivered /\ enc'.queue = enc.queue /\ enc'.cancelled = enc.cancelled
        <3>1. enc.made \in Nat /\ (enc.made + 1) - 1 = enc.made /\ enc.made - 0 = enc.made
            BY <1>1, Sizes DEF EncoderState
        <3>2. enc'.at = "send" /\ enc'.made = enc.made + 1
              /\ enc'.queue = enc.queue /\ enc'.cancelled = enc.cancelled
            BY <1>1, <1>2 DEF EncoderState
        <3>3. Delivered' = ((enc.made + 1) - 1) * ChunkLen /\ Delivered = (enc.made - 0) * ChunkLen
            BY <1>2, <3>2 DEF Delivered
        <3> QED
            BY <3>1, <3>2, <3>3
    <2> QED
        BY <1>1, <2>1, QuietKeeps
<1>3. CASE /\ enc.at = "send" /\ Len(enc.queue) < EncQueue
           /\ enc' = [enc EXCEPT !.at = "read", !.queue = Append(@, enc.made)]
    <2> DEFINE q == enc.queue
               m == enc.made
               c == Chunk(sessions, m)
               r == Queued(sessions, q)
               p == session.decodePending
               n == (m - 1) * ChunkLen
    <2>1. enc'.at = "read" /\ enc'.queue = Append(q, m) /\ enc'.made = m
          /\ enc'.cancelled = enc.cancelled
        BY <1>1, <1>3 DEF EncoderState
    <2>2. m \in 1..Chunks /\ q \in Seq(1..Chunks)
        BY <1>1, <1>3, Sizes DEF IInv, Types, HostTypes, EncoderState
    <2>3. n \in Nat /\ Delivered = n /\ Delivered' = n + ChunkLen
        <3>1. m \in Nat /\ m >= 1 /\ ChunkLen \in Nat
            BY <2>2, Sizes
        <3>2. Delivered = (m - 1) * ChunkLen /\ Delivered' = (m - 0) * ChunkLen
            BY <1>3, <2>1 DEF Delivered
        <3>3. (m - 0) * ChunkLen = (m - 1) * ChunkLen + ChunkLen /\ (m - 1) * ChunkLen \in Nat
            BY <3>1
        <3> QED
            BY <3>2, <3>3
    <2>4. fed' \in Seq(Packet) /\ (session' # None => sessions' >= 1)
        BY <1>1 DEF Lossless
    <2> SUFFICES ASSUME Kept'
                 PROVE  Carries(Way(fed', session'.decodePending, admitted', burst', sessions',
                                    enc'.queue), sessions', Delivered')
        BY <2>4, Keeps
    <2>5. Kept
        BY <1>1, <2>1 DEF Kept
    <2>6. /\ sessions \in Nat /\ sessions # 0 /\ fed \in Seq(Packet) /\ p \in Seq(Packet)
          /\ admitted \in Seq(Packet) /\ burst \in Seq(Packet) /\ r \in Seq(Packet)
        BY <2>5, WayTypes DEF Kept
    <2>7. c \in Seq(Packet) /\ Len(c) = ChunkLen /\ \A i \in 1..Len(c) : c[i] = <<sessions, n + i>>
        BY <2>2, <2>6, ChunkType
    <2>8. Queued(sessions, Append(q, m)) = r \o c
        BY <2>2, <2>6, QueuedAppend
    <2> DEFINE w == fed \o (p \o (admitted \o (burst \o r)))
    <2>9. Carries(w, sessions, n)
        BY <2>3, <2>5, Zenon DEF Lossless, Way
    <2> HIDE DEF c, r, p, n, q, m
    <2>10. fed \o (p \o (admitted \o (burst \o (r \o c)))) = w \o c /\ w \in Seq(Packet)
        <3> DEFINE e == burst \o r
                   f == admitted \o e
                   g == p \o f
        <3>1. /\ fed \in Seq(Packet) /\ p \in Seq(Packet) /\ admitted \in Seq(Packet)
              /\ burst \in Seq(Packet) /\ r \in Seq(Packet) /\ c \in Seq(Packet)
            BY <2>6, <2>7
        <3>2. e \in Seq(Packet)
            BY <3>1, PacketsJoin
        <3>3. burst \o (r \o c) = e \o c
            BY <3>1, PacketsRegroup, SMTT(30)
        <3> HIDE DEF e
        <3>4. f \in Seq(Packet)
            BY <3>1, <3>2, PacketsJoin
        <3>5. admitted \o (e \o c) = f \o c
            BY <3>1, <3>2, PacketsRegroup, SMTT(30)
        <3> HIDE DEF f
        <3>6. g \in Seq(Packet)
            BY <3>1, <3>4, PacketsJoin
        <3>7. p \o (f \o c) = g \o c
            BY <3>1, <3>4, PacketsRegroup, SMTT(30)
        <3> HIDE DEF g
        <3>8. fed \o (g \o c) = (fed \o g) \o c
            BY <3>1, <3>6, PacketsRegroup, SMTT(30)
        <3>10. fed \o g \in Seq(Packet)
            BY <3>1, <3>6, PacketsJoin
        <3>9. w = fed \o g
            BY Zenon DEF e, f, g
        <3> HIDE DEF w
        <3> QED
            BY <3>3, <3>5, <3>7, <3>8, <3>9, <3>10, Zenon
    <2> HIDE DEF w
    <2>11. Carries(w \o c, sessions, n + Len(c))
        BY <2>3, <2>7, <2>9, <2>10, CarriesOn
    <2>12. Way(fed, p, admitted, burst, sessions, Append(q, m)) = w \o c
        BY <2>8, <2>10, Zenon DEF Way
    <2> QED
        BY <1>1, <2>1, <2>3, <2>7, <2>11, <2>12, Zenon DEF p
<1>4. CASE /\ enc.at # "send" \/ enc.cancelled
           /\ \/ enc' = [enc EXCEPT !.at = "wait"]
              \/ enc' = [enc EXCEPT !.at = "done", !.closed = TRUE]
              \/ enc' = [EncFault(enc) EXCEPT !.at = "wait"]
    <2>1. /\ enc'.queue = enc.queue /\ enc'.made = enc.made
          /\ (enc.cancelled => enc'.cancelled) /\ enc'.at # "send"
        BY <1>1, <1>4 DEF EncoderState, EncFault
    <2>2. CASE enc.cancelled
        BY <1>1, <2>1, <2>2, OverKeeps DEF Lossless
    <2>3. CASE enc.at # "send"
        <3>1. Delivered' = Delivered
            BY <2>1, <2>3 DEF Delivered
        <3> QED
            BY <1>1, <2>1, <3>1, QuietKeeps
    <2> QED
        BY <1>4, <2>2, <2>3
<1> QED
    BY <1>2, <1>3, <1>4 DEF Encoding, EncoderReads, EncoderSends, EncoderEnds

-----------------------------------------------------------------------------
LEMMA LosslessInvariance == Spec => []Lossless
<1>1. Init => Lossless
    BY DEF Init, Lossless, Kept
<1>2. ASSUME IInv, Lossless, [Next]_vars PROVE Lossless'
    <2>1. CASE Loop
        BY <1>2, <2>1, LosslessElsewhere, LosslessTransmit, LosslessPumpDemux, LosslessFeed,
           LosslessTake, LosslessStart, LosslessFailedStart, LosslessClosing DEF Loop
    <2>2. CASE UNCHANGED vars
        <3>1. UNCHANGED <<session, sessions, fed, missed, admitted, burst, stopped, enc>>
              /\ Delivered' = Delivered
            BY <2>2 DEF vars, history, demux, loop, procs, Delivered
        <3> QED
            BY <1>2, <3>1, QuietKeeps
    <2> QED
        BY <1>2, <2>1, <2>2, LosslessElsewhere, LosslessEncoding DEF Next
<1> QED
    BY <1>1, <1>2, Invariance, PTL DEF Spec

-----------------------------------------------------------------------------
(* The end of a programme.                                                   *)

(* The session's packets which the demultiplexer has admitted and the pump   *)
(* has not taken; where the loop is when there are none.                     *)
Untaken == {k \in DOMAIN admitted : admitted[k][1] = sessions}
Taken == {"present", "step", "safe", "demux"}

(* A fault and a close() cancel.  An encoder that is done has made the whole *)
(* programme, unless it was cancelled.  The pump takes all there is on its   *)
(* way past, as long as it has not finished the decoder, so whatever is left *)
(* untaken came at once.                                                     *)
EndInv ==
    /\ enc.fault \/ enc.closing => enc.cancelled
    /\ session # None /\ enc.at \in {"wait", "done"} => enc.made = Chunks \/ enc.cancelled
    /\ session # None /\ ~ dec.finished /\ at \in Taken => Untaken = {}
    /\ session # None => \E k \in Int : Untaken \subseteq {k, k + 1}

(* The loop goes on, and what is admitted and what is finished stay.         *)
LEMMA EndRests ==
    ASSUME EndInv, UNCHANGED <<admitted, sessions>>,
           session' # None => session # None,
           dec.finished => dec'.finished,
           at' \in Taken /\ session' # None => at \in Taken \/ dec'.finished,
           enc'.fault \/ enc'.closing => enc'.cancelled,
           session' # None /\ enc'.at \in {"wait", "done"} => enc'.made = Chunks \/ enc'.cancelled
    PROVE  EndInv'
<1>1. Untaken' = Untaken
    BY DEF Untaken
<1> HIDE DEF Untaken
<1> QED
    BY <1>1 DEF EndInv, Taken

LEMMA EndEncoding == ASSUME IInv, EndInv, Encoding PROVE EndInv'
<1>1. UNCHANGED <<admitted, sessions, session, dec, at>> /\ enc \in EncoderState
    BY DEF Encoding, EncoderReads, EncoderSends, EncoderEnds, demux, history, loop,
           IInv, Types, HostTypes
<1>2. /\ enc'.fault \/ enc'.closing => enc'.cancelled
      /\ session # None /\ enc'.at \in {"wait", "done"} => enc'.made = Chunks \/ enc'.cancelled
    <2>1. CASE EncoderReads
        BY <1>1, <2>1 DEF EncoderReads, EncFault, EncoderState, EndInv
    <2>2. CASE EncoderSends \/ EncoderEnds
        BY <1>1, <2>2 DEF EncoderSends, EncoderEnds, EncoderState, EndInv
    <2> QED
        BY <2>1, <2>2 DEF Encoding
<1> QED
    BY <1>1, <1>2, EndRests DEF EndInv

LEMMA EndDecoding == ASSUME IInv, EndInv, Decoding PROVE EndInv'
<1>1. UNCHANGED <<admitted, sessions, session, enc, at>> /\ dec \in DecoderState
    BY DEF Decoding, DecoderWrites, DecoderReads, DecoderEnds, demux, history, loop,
           IInv, Types, HostTypes
<1>2. dec'.finished = dec.finished
    BY <1>1 DEF Decoding, DecoderWrites, DecoderReads, DecoderEnds, DecFault, DecoderState
<1> QED
    BY <1>1, <1>2, EndRests DEF EndInv

LEMMA EndElsewhere ==
    ASSUME IInv, EndInv, Leave \/ Present \/ Step \/ ScheduleMoves PROVE EndInv'
<1>1. UNCHANGED <<admitted, sessions, session, enc>> /\ dec \in DecoderState
    BY DEF Leave, Present, Step, ScheduleMoves, demux, history, procs, IInv, Types, HostTypes
<1>2. dec'.finished = dec.finished
    BY <1>1 DEF Leave, Present, Step, ScheduleMoves, procs, DecoderState
<1>3. at' \in Taken /\ session # None => at \in Taken
    BY DEF Leave, Present, Step, ScheduleMoves, Return, Go, Taken, loop
<1> QED
    BY <1>1, <1>2, <1>3, EndRests DEF EndInv

(* A packet of the transmitter is none of the session's.                     *)
LEMMA EndTransmit == ASSUME IInv, Lossless, EndInv, Transmit PROVE EndInv'
<1>1. /\ UNCHANGED <<sessions, session, enc, dec>> /\ at = "safe"
      /\ at' \in {"demux", "stopped", "closeEncoder"}
      /\ admitted' \in {admitted, Append(admitted, Psi)}
    BY DEF Transmit, Go, Return, history, procs
<1>2. session # None => Untaken' = Untaken
    <2>1. CASE admitted' = admitted
        BY <1>1, <2>1 DEF Untaken
    <2>2. CASE session # None /\ admitted' = Append(admitted, Psi)
        <3>1. admitted \in Seq(Packet) /\ sessions # 0
            BY <2>2, WayTypes
        <3>2. Psi[1] = 0 /\ Psi \in Packet
            BY DEF Psi, Packet
        <3>3. /\ DOMAIN Append(admitted, Psi) = DOMAIN admitted \cup {Len(admitted) + 1}
              /\ \A k \in DOMAIN admitted : Append(admitted, Psi)[k] = admitted[k]
              /\ Append(admitted, Psi)[Len(admitted) + 1] = Psi
            BY <3>1, <3>2
        <3> QED
            BY <1>1, <2>2, <3>1, <3>2, <3>3 DEF Untaken
    <2> QED
        BY <1>1, <2>1, <2>2
<1> HIDE DEF Untaken
<1> QED
    BY <1>1, <1>2 DEF EndInv, Taken

(* One pump of the demultiplexer admits two packets at most, none of them    *)
(* when the decoder is finished.                                             *)
LEMMA EndPumpDemux == ASSUME IInv, EndInv, PumpDemux PROVE EndInv'
<1>1. UNCHANGED <<sessions, session, enc, dec>> /\ at = "demux" /\ at' \notin Taken
    BY DEF PumpDemux, Go, Return, procs, Taken
<1>2. PICK due \in 1..2 :
          LET n == IF due < Len(burst) THEN due ELSE Len(burst)
          IN  admitted' \in {admitted, admitted \o SubSeq(burst, 1, n)}
    BY DEF PumpDemux, demux
<1> DEFINE n == IF due < Len(burst) THEN due ELSE Len(burst)
           packets == SubSeq(burst, 1, n)
<1>3. burst \in Seq(Packets) /\ admitted \in Seq(Packets) /\ n \in 0..2
      /\ n \in 0..Len(burst) /\ (burst = <<>> => n = 0)
    <2>1. burst \in Seq(Packets) /\ admitted \in Seq(Packets)
        BY DEF IInv, Types, DemuxTypes
    <2>2. Len(burst) \in Nat /\ (burst = <<>> => Len(burst) = 0)
        BY <2>1
    <2> DEFINE l == Len(burst)
    <2> HIDE DEF l
    <2>3. l \in Nat => (IF due < l THEN due ELSE l) \in 0..2 /\ (IF due < l THEN due ELSE l) \in 0..l
                        /\ (l = 0 => (IF due < l THEN due ELSE l) = 0)
        OBVIOUS
    <2> QED
        BY <2>1, <2>2, <2>3 DEF l
<1>4. packets \in Seq(Packets) /\ Len(packets) = n
    <2> HIDE DEF n
    <2> QED
        BY <1>3
<1>5. admitted' \in {admitted, admitted \o packets}
    BY <1>2
<1> HIDE DEF packets, n
<1>6. CASE session # None /\ admitted' = admitted \o packets
    <2>1. /\ DOMAIN admitted' \subseteq DOMAIN admitted \cup (Len(admitted) + 1 .. Len(admitted) + n)
          /\ \A k \in DOMAIN admitted : admitted'[k] = admitted[k]
        BY <1>3, <1>4, <1>6
    <2>2. Untaken' \subseteq Untaken \cup (Len(admitted) + 1 .. Len(admitted) + n)
        BY <1>1, <2>1 DEF Untaken
    <2>3. CASE dec.finished
        <3>1. n = 0
            BY <1>1, <1>3, <1>6, <2>3 DEF IInv, Finished, Waiting, Parting
        <3>2. Len(admitted) + 1 .. Len(admitted) + n = {}
            BY <1>3, <3>1
        <3>3. Untaken' \subseteq Untaken
            BY <2>2, <3>2
        <3> HIDE DEF Untaken
        <3> QED
            BY <1>1, <1>6, <3>3 DEF EndInv
    <2>4. CASE ~ dec.finished
        <3>1. Untaken = {}
            BY <1>1, <1>6, <2>4 DEF EndInv, Taken
        <3> DEFINE k == Len(admitted) + 1
        <3>2. k \in Int /\ Len(admitted) + 1 .. Len(admitted) + n \subseteq {k, k + 1}
            BY <1>3
        <3> HIDE DEF k
        <3>3. Untaken' \subseteq {k, k + 1}
            BY <2>2, <3>1, <3>2
        <3> HIDE DEF Untaken
        <3> QED
            BY <1>1, <1>6, <3>2, <3>3 DEF EndInv
    <2> QED
        BY <2>3, <2>4
<1>7. CASE session = None \/ admitted' = admitted
    <2>1. session # None => Untaken' = Untaken
        BY <1>1, <1>7 DEF Untaken
    <2> HIDE DEF Untaken
    <2> QED
        BY <1>1, <2>1 DEF EndInv
<1> QED
    BY <1>5, <1>6, <1>7

(* The pump: what it leaves untaken it leaves with the decoder finished.     *)
LEMMA EndFeed == ASSUME IInv, EndInv, Feed PROVE EndInv'
<1>1. /\ UNCHANGED <<sessions, admitted>> /\ at = "feed"
      /\ dec \in DecoderState /\ enc \in EncoderState
    BY DEF Feed, history, IInv, Types, HostTypes
<1>2. CASE ~ (session # None /\ burst = <<>> /\ enc.queue = <<>> /\ enc.closed)
    <2>1. enc' \in {enc, [enc EXCEPT !.queue = Tail(@)]} /\ dec' = dec
        BY <1>2 DEF Feed, procs
    <2>2. (session' = None <=> session = None) /\ (session # None => at' \notin Taken)
        BY <1>2 DEF Feed, Schedule, Go, Return, Taken
    <2>3. enc'.at = enc.at /\ enc'.made = enc.made /\ enc'.cancelled = enc.cancelled
          /\ enc'.fault = enc.fault /\ enc'.closing = enc.closing
        BY <1>1, <2>1 DEF EncoderState
    <2> QED
        BY <1>1, <2>1, <2>2, <2>3, EndRests DEF EndInv
<1>3. CASE session # None /\ burst = <<>> /\ enc.queue = <<>> /\ enc.closed
    <2>0. enc' = enc /\ Flush
        BY <1>3 DEF Feed
    <2>1. CASE enc.fault
        BY <1>1, <1>3, <2>0, <2>1, EndRests DEF Flush, Return, EndInv, Taken
    <2>2. CASE ~ enc.fault /\ session.decodePending = <<>>
        BY <1>1, <1>3, <2>0, <2>2, EndRests DEF Flush, DecoderState, EndInv
    <2>3. CASE ~ enc.fault /\ session.decodePending # <<>>
        <3> DEFINE then == [dec EXCEPT !.input = @ + 1, !.finished = TRUE]
        <3>1. Enqueue(session.decodePending, then)
            BY <2>3, <1>3, <2>0 DEF Flush
        <3>2. then.finished
            BY <1>1 DEF DecoderState
        <3> HIDE DEF then
        <3>3. CASE Refusal = "no"
            BY <1>1, <1>3, <2>0, <3>1, <3>2, <3>3, EndRests DEF Enqueue, EndInv
        <3>4. CASE Refusal # "no"
            <4>1. at' = "closeEncoder" /\ dec' \in {dec, DecFault(dec)}
                BY <1>3, <2>0, <3>1, <3>4 DEF Enqueue, Return
            <4>2. DecFault(dec).finished = dec.finished
                BY <1>1 DEF DecFault, DecoderState
            <4> QED
                BY <1>1, <1>3, <2>0, <4>1, <4>2, EndRests DEF EndInv, Taken
        <3> QED
            BY <3>3, <3>4
    <2> QED
        BY <2>1, <2>2, <2>3
<1> QED
    BY <1>2, <1>3

LEMMA EndTake == ASSUME IInv, EndInv, Take PROVE EndInv'
<1>1. UNCHANGED <<sessions, enc>> /\ at = "take" /\ session # None /\ admitted' = <<>>
    BY DEF Take, IInv, Orphans
<1>2. Untaken' = {}
    BY <1>1 DEF Untaken
<1> HIDE DEF Untaken
<1> QED
    BY <1>1, <1>2 DEF EndInv

LEMMA EndStart == ASSUME IInv, EndInv, StartPlayout PROVE EndInv'
<1>1. sessions' = sessions + 1 /\ sessions \in Nat /\ admitted' = admitted
      /\ admitted \in Seq(Packets) /\ enc' = NewEncoder
    BY DEF StartPlayout, demux, IInv, Types, DemuxTypes
<1>2. \A x \in Packets : x[1] # sessions + 1
    BY <1>1, Sizes DEF Packets
<1>3. Untaken' = {}
    BY <1>1, <1>2 DEF Untaken
<1> HIDE DEF Untaken
<1> QED
    BY <1>1, <1>3 DEF EndInv, NewEncoder

LEMMA EndFailedStart ==
    ASSUME IInv, EndInv, DecoderWillNotStart \/ PlayoutWillNotStart PROVE EndInv'
<1>1. session = None /\ UNCHANGED <<session>>
    BY DEF DecoderWillNotStart, PlayoutWillNotStart, IInv, Orphans
<1>2. enc'.fault \/ enc'.closing => enc'.cancelled
    BY DEF DecoderWillNotStart, PlayoutWillNotStart, NewEncoder, procs, EndInv
<1> QED
    BY <1>1, <1>2 DEF EndInv

LEMMA EndClosing == ASSUME IInv, EndInv, Closing PROVE EndInv'
<1>1. UNCHANGED <<admitted, sessions>> /\ dec \in DecoderState /\ enc \in EncoderState
    BY DEF Closing, CloseEncoder, EncoderGone, CloseDecoder, DecoderGone, demux, history,
           IInv, Types, HostTypes
<1>2. CASE CloseEncoder
    BY <1>1, <1>2, EndRests DEF CloseEncoder, EndInv, EncoderState, Taken
<1>3. CASE EncoderGone
    BY <1>1, <1>3, EndRests DEF EncoderGone, EndInv, Taken, procs
<1>4. CASE CloseDecoder
    BY <1>1, <1>4, EndRests DEF CloseDecoder, EndInv, DecoderState, Taken
<1>5. CASE DecoderGone
    BY <1>1, <1>5, EndRests DEF DecoderGone, EndInv, Taken, procs
<1> QED
    BY <1>2, <1>3, <1>4, <1>5 DEF Closing

LEMMA EndInvariance == Spec => []EndInv
<1>1. Init => EndInv
    BY DEF Init, EndInv, NewEncoder
<1>2. ASSUME IInv, Lossless, EndInv, [Next]_vars PROVE EndInv'
    <2>1. CASE Loop
        BY <1>2, <2>1, EndElsewhere, EndTransmit, EndPumpDemux, EndFeed, EndTake, EndStart,
           EndFailedStart, EndClosing DEF Loop
    <2>2. CASE UNCHANGED vars
        BY <1>2, <2>2, EndRests DEF vars, demux, history, loop, procs, EndInv
    <2> QED
        BY <1>2, <2>1, <2>2, EndElsewhere, EndEncoding, EndDecoding DEF Next
<1> QED
    BY <1>1, <1>2, Invariance, LosslessInvariance, PTL DEF Spec
(* What a sequence carries, if it is short of two packets of it at its end.  *)
LEMMA ShortOfTwo ==
    ASSUME NEW u \in Seq(Packet), NEW v \in Seq(Packet), NEW s, NEW n \in Nat,
           Carries(u \o v, s, n),
           NEW k \in Int, {i \in DOMAIN v : v[i][1] = s} \subseteq {k, k + 1}
    PROVE  \E m \in (n - 2)..n : Carries(u, s, m)
<1> DEFINE w == u \o v
           a == Len(u)
           mine == {i \in DOMAIN u : u[i][1] = s}
           rest == {i \in DOMAIN v : v[i][1] = s}
           own == {i \in DOMAIN w : w[i][1] = s}
<1>1. /\ a \in Nat /\ DOMAIN u = 1..a /\ DOMAIN v = 1..Len(v) /\ Len(v) \in Nat
      /\ DOMAIN w = 1..(a + Len(v))
      /\ \A i \in DOMAIN u : w[i] = u[i]
      /\ \A i \in DOMAIN v : w[a + i] = v[i]
    OBVIOUS
<1>2. /\ \A i \in DOMAIN u : u[i][2] \in Nat
      /\ \A i \in DOMAIN v : v[i][2] \in Nat
    BY DEF Packet
<1>3. /\ \A i, l \in own : i < l => w[i][2] < w[l][2]
      /\ {w[i][2] : i \in own} = 1..n
    BY DEF Carries
<1> HIDE DEF w, a
<1>4. /\ \A i \in mine : i \in own /\ w[i] = u[i]
      /\ \A i \in rest : a + i \in own /\ w[a + i] = v[i]
      /\ \A i \in own : i \in mine \/ i - a \in rest
      /\ \A i \in mine, l \in rest : i < a + l
      /\ mine \subseteq Int /\ rest \subseteq Int
    <2>1. \A i \in mine : i \in own /\ w[i] = u[i]
        BY <1>1
    <2>2. \A i \in rest : a + i \in own /\ w[a + i] = v[i]
        BY <1>1
    <2>3. ASSUME NEW i \in own PROVE i \in mine \/ i - a \in rest
        <3>1. i \in 1..a \/ i - a \in 1..Len(v)
            BY <1>1
        <3>2. i - a \in 1..Len(v) => w[i] = v[i - a]
            <4>1. a + (i - a) = i
                BY <1>1
            <4> QED
                BY <1>1, <4>1
        <3> QED
            BY <1>1, <3>1, <3>2
    <2> QED
        BY <1>1, <2>1, <2>2, <2>3
<1>5. /\ \A i \in mine, l \in rest : u[i][2] < v[l][2]
      /\ \A i, l \in mine : i < l => u[i][2] < u[l][2]
      /\ \A i, l \in rest : i < l => v[i][2] < v[l][2]
    <2>1. \A i, l \in rest : i < l => a + i < a + l
        BY <1>1, <1>4
    <2> QED
        BY <1>3, <1>4, <2>1
<1>6. /\ \A i \in mine : u[i][2] \in 1..n
      /\ \A i \in rest : v[i][2] \in 1..n
      /\ \A x \in 1..n : (\E i \in mine : x = u[i][2]) \/ (\E i \in rest : x = v[i][2])
    <2>1. \A i \in own : w[i][2] \in 1..n
        BY <1>3
    <2>2. \A x \in 1..n : \E i \in own : x = w[i][2]
        BY <1>3
    <2>3. \A i \in own : (i \in mine /\ w[i] = u[i]) \/ (i - a \in rest /\ w[i] = v[i - a])
        <3>1. \A i \in own : i - a \in rest => a + (i - a) = i
            BY <1>1, <1>4
        <3> QED
            BY <1>4, <3>1
    <2> QED
        BY <1>4, <2>1, <2>2, <2>3
<1>7. rest \subseteq {k, k + 1}
    OBVIOUS
<1> HIDE DEF rest, own
<1>8. CASE rest = {}
    <2>1. {u[i][2] : i \in mine} = 1..n
        BY <1>6, <1>8
    <2>2. Carries(u, s, n)
        BY <1>5, <2>1 DEF Carries
    <2> QED
        BY <2>2
<1>9. CASE rest # {}
    <2>1. PICK f \in rest : \A l \in rest : l = f \/ f < l
        <3>1. CASE k \in rest
            <4>1. \A l \in rest : l = k \/ k < l
                BY <1>7
            <4> QED
                BY <3>1, <4>1
        <3>2. CASE k \notin rest
            <4>1. k + 1 \in rest /\ \A l \in rest : l = k + 1
                BY <1>7, <1>9, <3>2
            <4> QED
                BY <4>1
        <3> QED
            BY <3>1, <3>2
    <2> DEFINE y == v[f][2]
    <2>2. y \in 1..n /\ \A i \in mine : u[i][2] < y
        BY <1>5, <1>6, <2>1
    <2>3. \A l \in rest : l = f \/ v[l][2] > y
        BY <1>5, <1>6, <2>1
    <2>4. {u[i][2] : i \in mine} = 1..(y - 1)
        <3>1. ASSUME NEW x \in 1..(y - 1) PROVE \E i \in mine : x = u[i][2]
            <4>1. x \in 1..n /\ x < y /\ x \in Int /\ y \in Int
                BY <2>2
            <4>2. \A l \in rest : x # v[l][2]
                <5>1. \A l \in rest : v[l][2] = y \/ v[l][2] > y
                    BY <2>3
                <5> HIDE DEF y
                <5> QED
                    BY <4>1, <5>1
            <4> HIDE DEF mine, y
            <4> QED
                BY <1>6, <4>1, <4>2, Zenon
        <3>2. \A i \in mine : u[i][2] \in 1..(y - 1)
            BY <1>6, <2>2
        <3> QED
            BY <3>1, <3>2
    <2>5. y - 1 >= n - 2
        <3>0. y \in Int /\ 1 <= y
            BY <2>2
        <3>1. SUFFICES ASSUME y + 1 \in 1..n, y + 2 \in 1..n PROVE FALSE
            <4> HIDE DEF y
            <4> QED
                BY <3>0
        <3>2. ASSUME NEW x \in {y + 1, y + 2} PROVE \E l \in rest : l # f /\ x = v[l][2]
            <4>1. x \in 1..n
                BY <3>1
            <4>2. x > y /\ x # y /\ x \in Int
                <5> HIDE DEF y
                <5> QED
                    BY <3>0
            <4>3. \A i \in mine : x # u[i][2]
                <5>1. \A i \in mine : u[i][2] < y /\ u[i][2] \in Int
                    BY <1>6, <2>2
                <5> HIDE DEF y, mine
                <5> QED
                    BY <3>0, <4>2, <5>1
            <4>4. \E l \in rest : x = v[l][2]
                <5> HIDE DEF y, mine
                <5> QED
                    BY <1>6, <4>1, <4>3, Zenon
            <4> QED
                BY <4>2, <4>4
        <3>3. \A l1, l2 \in rest : l1 # f /\ l2 # f => l1 = l2
            BY <1>7, <2>1
        <3>4. y + 1 # y + 2
            BY <2>2
        <3> QED
            BY <3>2, <3>3, <3>4
    <2>6. Carries(u, s, y - 1)
        BY <1>5, <2>4 DEF Carries
    <2> QED
        BY <2>2, <2>5, <2>6
<1> QED
    BY <1>8, <1>9

(* While close() parts with the processes the encoder is cancelled.          *)
Parted == at \in Parting => enc.cancelled

LEMMA PartedKeeps == ASSUME IInv, Parted, [Next]_vars PROVE Parted'
<1> SUFFICES ASSUME at' \in Parting PROVE enc'.cancelled
    BY DEF Parted
<1>1. enc \in EncoderState
    BY DEF IInv, Types, HostTypes
<1>2. CASE CloseEncoder
    BY <1>1, <1>2 DEF CloseEncoder, EncoderState
<1>3. CASE DecoderWillNotStart
    BY <1>3 DEF DecoderWillNotStart, NewEncoder
<1>4. CASE EncoderGone \/ CloseDecoder \/ DecoderGone
    BY <1>4 DEF EncoderGone, CloseDecoder, DecoderGone, procs, Parted, Parting
<1>5. CASE Encoding
    <2>1. at' = at
        BY <1>5 DEF Encoding, EncoderReads, EncoderSends, EncoderEnds, loop
    <2>2. enc.cancelled => enc'.cancelled
        BY <1>1, <1>5 DEF Encoding, EncoderReads, EncoderSends, EncoderEnds, EncFault, EncoderState
    <2> QED
        BY <2>1, <2>2 DEF Parted
<1>6. CASE Decoding \/ ScheduleMoves \/ UNCHANGED vars
    BY <1>6 DEF Decoding, DecoderWrites, DecoderReads, DecoderEnds, ScheduleMoves, vars, loop,
                procs, Parted
<1>7. ~ (Leave \/ Transmit \/ PumpDemux \/ Feed \/ Take \/ Present \/ Step)
    BY DEF Leave, Transmit, PumpDemux, Feed, Take, Present, Step, Go, Return, Enqueue,
           Flush, Schedule, Parting
<1>8. ~ (StartPlayout \/ PlayoutWillNotStart)
    BY DEF StartPlayout, PlayoutWillNotStart, Parting
<1> QED
    BY <1>2, <1>3, <1>4, <1>5, <1>6, <1>7, <1>8, Zenon DEF Next, Loop, Closing

LEMMA PartedInvariance == Spec => []Parted
<1>1. Init => Parted
    BY DEF Init, Parted, Parting
<1> QED
    BY <1>1, PartedKeeps, Invariance, PTL DEF Spec

(* Of a programme that ran to its end the decoder has been given everything  *)
(* but the last two packets at most, those the pump passed by when it found  *)
(* the encoder at its end (playout.go:61-72 returns before it takes what the *)
(* demultiplexer admitted last).                                             *)
EndIsNear ==
    Kept /\ dec.finished =>
        \E n \in (Chunks * ChunkLen - 2)..(Chunks * ChunkLen) : Carries(fed, session.number, n)

LEMMA FinishedIsNearlyAll ==
    ASSUME IInv, Lossless, EndInv, Parted, Kept, dec.finished
    PROVE  /\ Delivered = Chunks * ChunkLen
           /\ \E n \in (Delivered - 2)..Delivered : Carries(fed, session.number, n)
<1>1. /\ session # None /\ enc.at = "done" /\ enc.queue = <<>> /\ burst = <<>>
      /\ session.decodePending = <<>> /\ enc.made = Chunks /\ enc.made \in Nat
    <2>1. at \notin Parting
        BY DEF Kept, Parted
    <2> QED
        BY <2>1, Sizes DEF Kept, IInv, Finished, EndInv
<1>2. /\ session.number = sessions /\ sessions \in Nat
      /\ fed \in Seq(Packet) /\ admitted \in Seq(Packet)
    BY <1>1, WayTypes
<1>3. Delivered = Chunks * ChunkLen /\ Delivered \in Nat
    BY <1>1, Sizes DEF Delivered
<1>4. Carries(Way(fed, <<>>, admitted, <<>>, sessions, <<>>), sessions, Delivered)
    BY <1>1, Zenon DEF Lossless
<1>5. Way(fed, <<>>, admitted, <<>>, sessions, <<>>) = fed \o admitted
    <2>1. Queued(sessions, <<>>) = <<>>
        BY <1>2, QueuedNothing
    <2>2. <<>> \o <<>> = <<>> /\ admitted \o <<>> = admitted /\ <<>> \o admitted = admitted
        BY <1>2
    <2> QED
        BY <2>1, <2>2, Zenon DEF Way
<1>6. Carries(fed \o admitted, sessions, Delivered)
    BY <1>4, <1>5, Zenon
<1>7. PICK k \in Int : {i \in DOMAIN admitted : admitted[i][1] = sessions} \subseteq {k, k + 1}
    BY <1>1 DEF EndInv, Untaken
<1>8. \E m \in (Delivered - 2)..Delivered : Carries(fed, sessions, m)
    BY <1>2, <1>3, <1>6, <1>7, ShortOfTwo
<1> QED
    BY <1>2, <1>3, <1>8

THEOREM ProgrammeIsShown == Spec => []EndIsNear
<1>1. IInv /\ Lossless /\ EndInv /\ Parted => EndIsNear
    <2> SUFFICES ASSUME IInv, Lossless, EndInv, Parted, Kept, dec.finished
                 PROVE  \E n \in (Chunks * ChunkLen - 2)..(Chunks * ChunkLen) :
                            Carries(fed, session.number, n)
        BY DEF EndIsNear
    <2> QED
        BY FinishedIsNearlyAll
<1> QED
    BY <1>1, Invariance, LosslessInvariance, EndInvariance, PartedInvariance, PTL

(* While the guest keeps its decoders and nothing has failed, every packet   *)
(* the session's encoder delivered is, once and in order, with the decoder   *)
(* or in a place the pump still takes it from; and all but two are with it   *)
(* when it is told there is no more, after which the pump takes none.        *)
THEOREM NothingIsLost == Spec => []NothingLostOnTheWay
<1>1. IInv /\ Lossless /\ EndInv /\ Parted => NothingLostOnTheWay
    <2> SUFFICES ASSUME IInv, Lossless, EndInv, Parted, Kept
                 PROVE  IF dec.finished
                        THEN \E n \in (Delivered - 2)..Delivered : Carries(fed, session.number, n)
                        ELSE Carries(OnItsWay, session.number, Delivered)
        BY DEF NothingLostOnTheWay, Kept
    <2>1. session.number = sessions
        BY WayTypes DEF Kept
    <2>2. OnItsWay = Way(fed, session.decodePending, admitted, burst, sessions, enc.queue)
        BY WayIsOnItsWay DEF Kept
    <2>3. Carries(OnItsWay, session.number, Delivered)
        BY <2>1, <2>2, Zenon DEF Lossless
    <2> QED
        BY <2>3, FinishedIsNearlyAll
<1> QED
    BY <1>1, Invariance, LosslessInvariance, EndInvariance, PartedInvariance, PTL
=============================================================================
