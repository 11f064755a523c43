------------------------------ MODULE CsiWire ------------------------------
(***************************************************************************)
(* What the front-panel link promises the guest: the messages of its two   *)
(* sources, the handset and the card, arrive whole, once each and in the   *)
(* order each source sent them.  Which source is served next is left open. *)
(***************************************************************************)
EXTENDS Sequences

CONSTANTS Keys, Answers  \* the messages of either source

VARIABLES
    handset,   \* key messages not yet delivered
    card,      \* card replies not yet delivered
    delivered  \* what the guest has received

wireVars == <<handset, card, delivered>>

Init == handset = <<>> /\ card = <<>> /\ delivered = <<>>

Press(m) == handset' = Append(handset, m) /\ UNCHANGED <<card, delivered>>

Answer(m) == card' = Append(card, m) /\ UNCHANGED <<handset, delivered>>

DeliverKey ==
    /\ handset # <<>>
    /\ delivered' = Append(delivered, Head(handset))
    /\ handset' = Tail(handset)
    /\ UNCHANGED card

DeliverAnswer ==
    /\ card # <<>>
    /\ delivered' = Append(delivered, Head(card))
    /\ card' = Tail(card)
    /\ UNCHANGED handset

Next ==
    \/ \E m \in Keys : Press(m)
    \/ \E m \in Answers : Answer(m)
    \/ DeliverKey
    \/ DeliverAnswer

Spec == Init /\ [][Next]_wireVars
=============================================================================
