----------------------------- MODULE CsiFraming -----------------------------
(***************************************************************************)
(* The framing of the front-panel wire (internal/device/csi): a payload    *)
(* byte 0x00 or 0x1b is sent behind an escape 0x1b, a bare 0x00 ends the   *)
(* frame.  A zero therefore ends a frame only when it is not payload.      *)
(***************************************************************************)
EXTENDS Integers, Sequences, SequencesExt

Byte == 0..255
End == 0
Esc == 27  \* 0x1b

EncodeByte(b) == IF b \in {End, Esc} THEN <<Esc, b>> ELSE <<b>>

(* Encode: every payload byte, escaped where it must be, and the terminator. *)
Encode(payload) ==
    FlattenSeq([i \in DOMAIN payload |-> EncodeByte(payload[i])]) \o <<End>>

(* A receiver of the wire: the payload collected and whether the last byte  *)
(* was an escape.                                                           *)
Receiver == [frame : Seq(Byte), escaped : BOOLEAN]
Fresh == [frame |-> <<>>, escaped |-> FALSE]

IsEnd(rx, b) == b = End /\ ~ rx.escaped

(* One byte that does not end the frame.                                    *)
Collect(rx, b) ==
    IF b = Esc /\ ~ rx.escaped THEN [rx EXCEPT !.escaped = TRUE]
    ELSE [frame |-> Append(rx.frame, b), escaped |-> FALSE]

(* bytes, read by a receiver whose last byte was an escape iff `escaped`,   *)
(* is the rest of a frame and then whole frames: lit marks the bytes that   *)
(* follow an escape, and the last byte is a terminator.                     *)
Framed(bytes, escaped) ==
    bytes # <<>> =>
        \E lit \in [1..Len(bytes) -> BOOLEAN] :
            /\ lit[1] = escaped
            /\ \A i \in 2..Len(bytes) : lit[i] = (bytes[i - 1] = Esc /\ ~ lit[i - 1])
            /\ bytes[Len(bytes)] = End /\ ~ lit[Len(bytes)]

(* What a receiver makes of one frame's bytes.                              *)
Decode(bytes) ==
    LET after[i \in 0..Len(bytes)] ==
            IF i = 0 THEN Fresh
            ELSE IF IsEnd(after[i - 1], bytes[i]) THEN after[i - 1]
            ELSE Collect(after[i - 1], bytes[i])
    IN  after[Len(bytes)].frame
=============================================================================
