----------------------------- MODULE MCCsiLink -----------------------------
(* Keys whose frames carry an escaped zero and an escaped escape, commands  *)
(* that are answered, refused by the policy, malformed and too long.        *)
EXTENDS CsiLink

MCKeyPayloads == {<<5, 0>>, <<27, 7>>}
MCCommands == {<<2, 0, 24>>, <<2, 1, 82>>, <<2, 1, 16>>, <<3, 1, 82>>, <<4, 9, 9, 9, 9, 9>>}

(* Every payload of up to four bytes over the bytes the framing tells apart, *)
(* beside those in use and every reply the card can make.                    *)
MCPayloads ==
    UNION {[1..n -> {0, 27, 5}] : n \in 0..4}
        \union MCKeyPayloads \union MCCommands
        \union {ReplyPayload(seq, code) : seq \in Byte, code \in AckPolicy}

(* Encoding loses nothing: a receiver makes exactly the payload of it.      *)
ASSUME DecodeUndoesEncode == \A p \in MCPayloads : Decode(Encode(p)) = p
=============================================================================
