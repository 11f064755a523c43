------------------------------- MODULE Viewer -------------------------------
(***************************************************************************)
(* How the screen reaches a browser: Transport.PushFrame and PushState     *)
(* (internal/web/transport.go) leave the newest image and the newest phase *)
(* in a one-place mailbox per client, never waiting; the client's writer   *)
(* takes from it, sending only what changed since the image it last SENT;  *)
(* the page (web/app.ts) rebuilds the screen from those pieces.            *)
(*                                                                         *)
(* The producer holds t.mu from the first mailbox to the last, but the     *)
(* writer takes from its mailbox without it, between any two of the        *)
(* producer's three tries.  An image is named by its place in `pushed`,    *)
(* 0 being none; a screen is a row of pixels.  The socket (external) is a  *)
(* FIFO; what is in it is lost with it.                                    *)
(***************************************************************************)
EXTENDS Integers, Sequences, SequencesExt, FiniteSetsExt

CONSTANTS
    Viewers,
    Pictures,    \* the screens the compositor draws: rows of palette indices
    Palettes,    \* a colour for each index
    Phases,      \* the phases PushState may publish
    None,
    MaxFrames, MaxStates, MaxVisits,  \* bounds: what one history may do
    WireLimit    \* bound: messages in a socket; a writer finding it full waits

Width == Len(CHOOSE p \in Pictures : TRUE)
Kinds == {"frame", "state"}
Stages == {"offer", "drain", "again"}

ASSUME ViewerAssumption ==
    /\ Width \in Nat \ {0} /\ \A p \in Pictures : Len(p) = Width
    /\ MaxFrames \in Nat /\ MaxStates \in Nat /\ MaxVisits \in Nat
    /\ WireLimit \in Nat /\ WireLimit >= 2
    /\ None \notin Phases
    /\ None \notin [kind : Kinds, left : SUBSET Viewers, to : Viewers, stage : Stages]

VARIABLES
    pushed,      \* history: the images pushed that differed from the one before
    phase,       \* Transport.state
    op,          \* who holds t.mu in a push: kind, clients left, client, try
    mailbox,     \* client.latest and client.state
    serving,     \* the server's side of each socket
    last, pending,  \* the writer's locals
    wire,        \* messages written and not yet handled
    page,        \* the browser's state
    statesLeft, visitsLeft

server == <<pushed, phase, op>>
writers == <<last, pending>>
budgets == <<statesLeft, visitsLeft>>
vars == <<server, mailbox, serving, writers, wire, page, budgets>>

Clients == {v \in Viewers : serving[v] # "away"}

(* The page before its first connection: an unpainted canvas.               *)
FreshPage == [canvas |-> [i \in 1..Width |-> None],
              epoch |-> 0, palette |-> None, awaiting |-> TRUE, phase |-> None,
              shown |-> 0, refused |-> FALSE]

-----------------------------------------------------------------------------
(* The producer.                                                            *)

(* A push visits its clients in any order (a Go map).                       *)
Visiting(kind, clients) ==
    IF clients = {} THEN op' = None
    ELSE \E v \in clients :
            op' = [kind |-> kind, left |-> clients, to |-> v, stage |-> "offer"]

(* A new palette starts a new epoch.                                        *)
EpochOf(palette) ==
    IF pushed = <<>> THEN 1
    ELSE Last(pushed).epoch + (IF Last(pushed).palette = palette THEN 0 ELSE 1)

SameAsLast(pixels, palette) ==
    IF pushed = <<>> THEN FALSE
    ELSE Last(pushed).pixels = pixels /\ Last(pushed).palette = palette

PushFrame ==
    /\ op = None /\ Len(pushed) < MaxFrames
    /\ \E pixels \in Pictures, palette \in Palettes :
          /\ ~ SameAsLast(pixels, palette)
          /\ pushed' = Append(pushed, [pixels |-> pixels, palette |-> palette,
                                       epoch |-> EpochOf(palette)])
    /\ Visiting("frame", Clients)
    /\ UNCHANGED <<phase, mailbox, serving, writers, wire, page, budgets>>

PushState ==
    /\ op = None /\ statesLeft > 0
    /\ statesLeft' = statesLeft - 1
    /\ phase' \in Phases \ {phase}
    /\ Visiting("state", Clients)
    /\ UNCHANGED <<pushed, mailbox, serving, writers, wire, page, visitsLeft>>

Newest(kind) == IF kind = "frame" THEN Len(pushed) ELSE phase
Empty(kind) == IF kind = "frame" THEN 0 ELSE None

Deliver == mailbox' = [mailbox EXCEPT ![op.to][op.kind] = Newest(op.kind)]
NextClient == Visiting(op.kind, op.left \ {op.to})

(* Mutant: the newcomer is dropped when the mailbox is full.                *)
OfferMutantDropsNew ==
    /\ op # None /\ op.stage = "offer"
    /\ IF mailbox[op.to][op.kind] = Empty(op.kind)
       THEN Deliver /\ NextClient
       ELSE NextClient /\ UNCHANGED mailbox
    /\ UNCHANGED <<pushed, phase, serving, writers, wire, page, budgets>>

Offer ==
    /\ op # None /\ op.stage = "offer"
    /\ IF mailbox[op.to][op.kind] = Empty(op.kind)
       THEN Deliver /\ NextClient
       ELSE op' = [op EXCEPT !.stage = "drain"] /\ UNCHANGED mailbox
    /\ UNCHANGED <<pushed, phase, serving, writers, wire, page, budgets>>

(* The writer may have emptied it since.                                    *)
Drain ==
    /\ op # None /\ op.stage = "drain"
    /\ mailbox' = [mailbox EXCEPT ![op.to][op.kind] = Empty(op.kind)]
    /\ op' = [op EXCEPT !.stage = "again"]
    /\ UNCHANGED <<pushed, phase, serving, writers, wire, page, budgets>>

OfferAgain ==
    /\ op # None /\ op.stage = "again"
    /\ IF mailbox[op.to][op.kind] = Empty(op.kind) THEN Deliver ELSE UNCHANGED mailbox
    /\ NextClient
    /\ UNCHANGED <<pushed, phase, serving, writers, wire, page, budgets>>

-----------------------------------------------------------------------------
(* ServeHTTP.  A client joins, with what there is, and leaves under t.mu.   *)

(* Mutant: a client waits for the next image instead of having this one.    *)
RegisterMutantNoPreload(v) ==
    /\ op = None /\ serving[v] = "away" /\ visitsLeft > 0
    /\ visitsLeft' = visitsLeft - 1
    /\ serving' = [serving EXCEPT ![v] = "served"]
    /\ mailbox' = [mailbox EXCEPT ![v] = [frame |-> 0, state |-> phase]]
    /\ last' = [last EXCEPT ![v] = 0] /\ pending' = [pending EXCEPT ![v] = 0]
    /\ page' = [page EXCEPT ![v].epoch = -1, ![v].awaiting = TRUE, ![v].shown = 0]
    /\ UNCHANGED <<server, wire, statesLeft>>

(* Mutant: the writer starts from what it sent on the socket before.        *)
RegisterMutantKeepsLast(v) ==
    /\ op = None /\ serving[v] = "away" /\ visitsLeft > 0
    /\ visitsLeft' = visitsLeft - 1
    /\ serving' = [serving EXCEPT ![v] = "served"]
    /\ mailbox' = [mailbox EXCEPT ![v] = [frame |-> Len(pushed), state |-> phase]]
    /\ UNCHANGED last /\ pending' = [pending EXCEPT ![v] = 0]
    /\ page' = [page EXCEPT ![v].epoch = -1, ![v].awaiting = TRUE, ![v].shown = 0]
    /\ UNCHANGED <<server, wire, statesLeft>>

Register(v) ==
    /\ op = None /\ serving[v] = "away" /\ visitsLeft > 0
    /\ visitsLeft' = visitsLeft - 1
    /\ serving' = [serving EXCEPT ![v] = "served"]
    /\ mailbox' = [mailbox EXCEPT ![v] = [frame |-> Len(pushed), state |-> phase]]
    /\ last' = [last EXCEPT ![v] = 0] /\ pending' = [pending EXCEPT ![v] = 0]
    /\ page' = [page EXCEPT ![v].epoch = -1, ![v].awaiting = TRUE, ![v].shown = 0]
    /\ UNCHANGED <<server, wire, statesLeft>>

(* The socket goes: a write fails or times out, or the browser closes it.   *)
Hangup(v) ==
    /\ serving[v] = "served"
    /\ serving' = [serving EXCEPT ![v] = "leaving"]
    /\ wire' = [wire EXCEPT ![v] = <<>>]
    /\ page' = [page EXCEPT ![v].phase = None, ![v].refused = FALSE]
    /\ UNCHANGED <<server, mailbox, writers, budgets>>

Unregister(v) ==
    /\ op = None /\ serving[v] = "leaving"
    /\ serving' = [serving EXCEPT ![v] = "away"]
    /\ UNCHANGED <<server, mailbox, writers, wire, page, budgets>>

(* dirtyRect: what differs between two images, as the span that holds it.   *)
Changed(f, g) == {i \in 1..Width : pushed[f].pixels[i] # pushed[g].pixels[i]}
NewEpoch(f, g) == f = 0 \/ pushed[f].epoch # pushed[g].epoch
DirtyRect(f, g) ==
    LET dirty == Changed(f, g)
    IN  IF NewEpoch(f, g) THEN 1..Width
        ELSE IF dirty = {} THEN {} ELSE Min(dirty)..Max(dirty)

(* writeFrame.  The two writes are one step: only this writer writes here,  *)
(* and a socket lost between them is a socket lost.                         *)
PaletteMessage(g) == [type |-> "palette", epoch |-> pushed[g].epoch, palette |-> pushed[g].palette]
FrameMessage(rect, g) ==
    [type |-> "frame", frame |-> g, epoch |-> pushed[g].epoch,
     pixels |-> [i \in rect |-> pushed[g].pixels[i]]]

Pieces(f, g) ==
    (IF NewEpoch(f, g) THEN <<PaletteMessage(g)>> ELSE <<>>)
        \o (IF DirtyRect(f, g) = {} THEN <<>> ELSE <<FrameMessage(DirtyRect(f, g), g)>>)

Free(v) == serving[v] = "served" /\ Len(wire[v]) + 2 <= WireLimit

TakeState(v) ==
    /\ Free(v) /\ mailbox[v].state # None
    /\ mailbox' = [mailbox EXCEPT ![v].state = None]
    /\ wire' = [wire EXCEPT ![v] = Append(@, [type |-> "state", phase |-> mailbox[v].state])]
    /\ UNCHANGED <<server, serving, writers, page, budgets>>

(* The first image goes at once; later ones wait for the ticker, and a      *)
(* newer one replaces the one that waits.                                   *)
(* Mutant: an image counts as sent when it is taken.                        *)
TakeFrameMutantCountsAsSent(v) ==
    /\ Free(v) /\ mailbox[v].frame # 0
    /\ mailbox' = [mailbox EXCEPT ![v].frame = 0]
    /\ IF last[v] = 0
       THEN /\ wire' = [wire EXCEPT ![v] = @ \o Pieces(0, mailbox[v].frame)]
            /\ last' = [last EXCEPT ![v] = mailbox[v].frame]
            /\ UNCHANGED pending
       ELSE /\ pending' = [pending EXCEPT ![v] = mailbox[v].frame]
            /\ last' = [last EXCEPT ![v] = IF pending[v] # 0 THEN pending[v] ELSE @]
            /\ UNCHANGED wire
    /\ UNCHANGED <<server, serving, page, budgets>>

TakeFrame(v) ==
    /\ Free(v) /\ mailbox[v].frame # 0
    /\ mailbox' = [mailbox EXCEPT ![v].frame = 0]
    /\ IF last[v] = 0
       THEN /\ wire' = [wire EXCEPT ![v] = @ \o Pieces(0, mailbox[v].frame)]
            /\ last' = [last EXCEPT ![v] = mailbox[v].frame]
            /\ UNCHANGED pending
       ELSE /\ pending' = [pending EXCEPT ![v] = mailbox[v].frame]
            /\ UNCHANGED <<wire, last>>
    /\ UNCHANGED <<server, serving, page, budgets>>

Tick(v) ==
    /\ Free(v) /\ pending[v] # 0
    /\ wire' = [wire EXCEPT ![v] = @ \o Pieces(last[v], pending[v])]
    /\ last' = [last EXCEPT ![v] = pending[v]]
    /\ pending' = [pending EXCEPT ![v] = 0]
    /\ UNCHANGED <<server, mailbox, serving, page, budgets>>

-----------------------------------------------------------------------------
(* The page.  What it cannot accept makes it close the socket.              *)

Shown(p, m) ==
    CASE m.type = "state" -> [p EXCEPT !.phase = m.phase]
      [] m.type = "palette" ->
            [p EXCEPT !.awaiting = @ \/ m.epoch # p.epoch, !.epoch = m.epoch,
                      !.palette = m.palette]
      [] m.type = "frame" ->
            IF m.epoch # p.epoch \/ (p.awaiting /\ DOMAIN m.pixels # 1..Width)
            THEN [p EXCEPT !.refused = TRUE, !.phase = None]
            ELSE [p EXCEPT !.canvas = [i \in 1..Width |->
                                          IF i \in DOMAIN m.pixels THEN p.palette[m.pixels[i]]
                                          ELSE @[i]],
                           !.awaiting = FALSE, !.shown = m.frame]

HandleMessage(v) ==
    /\ serving[v] = "served" /\ wire[v] # <<>> /\ ~ page[v].refused
    /\ wire' = [wire EXCEPT ![v] = Tail(@)]
    /\ page' = [page EXCEPT ![v] = Shown(@, Head(wire[v]))]
    /\ UNCHANGED <<server, mailbox, serving, writers, budgets>>

-----------------------------------------------------------------------------
Init ==
    /\ pushed = <<>> /\ phase = None /\ op = None
    /\ mailbox = [v \in Viewers |-> [frame |-> 0, state |-> None]]
    /\ serving = [v \in Viewers |-> "away"]
    /\ last = [v \in Viewers |-> 0] /\ pending = [v \in Viewers |-> 0]
    /\ wire = [v \in Viewers |-> <<>>]
    /\ page = [v \in Viewers |-> FreshPage]
    /\ statesLeft = MaxStates /\ visitsLeft = MaxVisits

Writer(v) == TakeState(v) \/ TakeFrame(v) \/ Tick(v)
Next ==
    \/ PushFrame \/ PushState \/ Offer \/ Drain \/ OfferAgain
    \/ \E v \in Viewers :
          Register(v) \/ Hangup(v) \/ Unregister(v) \/ Writer(v) \/ HandleMessage(v)

Spec == Init /\ [][Next]_vars

(* A push never waits, a ready case of the writer's select is chosen sooner *)
(* or later, the ticker ticks, and the page handles what reaches it.        *)
(* Nothing makes the box draw, a browser come, or a socket fail.            *)
FairSpec ==
    /\ Spec
    /\ WF_vars(Offer \/ Drain \/ OfferAgain)
    /\ \A v \in Viewers :
          /\ WF_vars(TakeState(v)) /\ WF_vars(TakeFrame(v)) /\ WF_vars(Tick(v))
          /\ WF_vars(HandleMessage(v)) /\ WF_vars(Unregister(v))

-----------------------------------------------------------------------------
(* Every variable has its type; a push only has clients that are in the map *)
(* (transport.go holds t.mu to walk it and to change it).                   *)
TypeOK ==
    /\ pushed \in Seq([pixels : Pictures, palette : Palettes, epoch : 1..MaxFrames])
    /\ Len(pushed) <= MaxFrames
    /\ phase \in Phases \union {None}
    /\ op # None => /\ op.kind \in Kinds /\ op.stage \in Stages
                    /\ op.to \in op.left /\ op.left \subseteq Clients
    /\ \A v \in Viewers :
          /\ serving[v] \in {"away", "served", "leaving"}
          /\ mailbox[v].frame \in 0..Len(pushed) /\ mailbox[v].state \in Phases \union {None}
          /\ last[v] \in 0..Len(pushed) /\ pending[v] \in 0..Len(pushed)
          /\ Len(wire[v]) <= WireLimit
    /\ statesLeft \in 0..MaxStates /\ visitsLeft \in 0..MaxVisits

(* transport.go:104-106: "dropped updates cannot corrupt its canvas".       *)
(* Whatever was skipped, the canvas is, colour for colour, the image the    *)
(* last frame message was made from.                                        *)
CanvasIsTheFrame ==
    \A v \in Viewers : page[v].shown # 0 =>
        LET f == pushed[page[v].shown]
        IN  page[v].canvas = [i \in 1..Width |-> f.palette[f.pixels[i]]]

(* The page never finds a frame of another palette, or a partial one while  *)
(* it waits for a whole one: it would close the socket (app.ts:219-227).    *)
NeverRefused == \A v \in Viewers : ~ page[v].refused

(* offerLatest's races (transport.go:52-70) lose only images that a newer   *)
(* one replaces: between pushes, the newest is in the mailbox, in the       *)
(* writer's hand, or sent.                                                  *)
NewestNotLost ==
    op = None /\ pushed # <<>> =>
        \A v \in Viewers : serving[v] = "served" =>
            Len(pushed) \in {mailbox[v].frame, pending[v], last[v]}

(* A browser that stays ends with the newest screen and the newest phase,   *)
(* even if nothing more is drawn after it connects (transport.go:292-308).  *)
NewestGetsThere ==
    \A v \in Viewers :
        <>[]( serving[v] = "served" =>
                /\ pushed # <<>> =>
                      page[v].canvas = [i \in 1..Width |->
                                           Last(pushed).palette[Last(pushed).pixels[i]]]
                /\ page[v].phase = phase )
=============================================================================
