---------------------------- MODULE ViewerProofs ----------------------------
(* Viewer, for any browsers, screens, palettes, phases and bounds: its      *)
(* types, that no race of the mailboxes loses the newest image, and that    *)
(* whatever is dropped the page is never wrong, never has to refuse and     *)
(* never goes back.                                                         *)
EXTENDS Viewer, WellFoundedInduction, TLAPS

-----------------------------------------------------------------------------
(* The inductive invariant, in four parts.                                  *)

IsSeq(s) == Len(s) \in Nat /\ s \in Seq(ToSet(s))

Image == [pixels : Pictures, palette : Palettes, epoch : Nat \ {0}]
Push == [kind : Kinds, left : SUBSET Viewers, to : Viewers, stage : Stages]
Mailbox == [frame : Nat, state : Phases \union {None}]

Types ==
    /\ pushed \in Seq(Image) /\ Len(pushed) <= MaxFrames
    /\ \A i \in 1..Len(pushed) : pushed[i].epoch <= i
    /\ phase \in Phases \union {None}
    /\ op # None => op \in Push /\ op.to \in op.left /\ op.left \subseteq Clients
    /\ serving \in [Viewers -> {"away", "served", "leaving"}]
    /\ mailbox \in [Viewers -> Mailbox]
    /\ last \in [Viewers -> Nat] /\ pending \in [Viewers -> Nat]
    /\ \A v \in Viewers :
          mailbox[v].frame <= Len(pushed) /\ last[v] <= Len(pushed) /\ pending[v] <= Len(pushed)
    /\ DOMAIN wire = Viewers /\ DOMAIN page = Viewers
    /\ wire = [v \in Viewers |-> wire[v]] /\ page = [v \in Viewers |-> page[v]]
    /\ \A v \in Viewers : IsSeq(wire[v]) /\ Len(wire[v]) <= WireLimit
    /\ statesLeft \in 0..MaxStates /\ visitsLeft \in 0..MaxVisits

(* Epochs never go back, and an epoch is one palette.                       *)
Epochs ==
    \A i, j \in 1..Len(pushed) :
        i <= j => /\ pushed[i].epoch <= pushed[j].epoch
                  /\ pushed[i].epoch = pushed[j].epoch => pushed[i].palette = pushed[j].palette

(* What is sent, what waits for the ticker and what is in the mailbox are   *)
(* in that order; and while a push of images walks the map, the clients it  *)
(* has dealt with have the newest.                                          *)
InOrder(v) ==
    /\ last[v] = 0 => pending[v] = 0
    /\ pending[v] # 0 => last[v] <= pending[v]
    /\ mailbox[v].frame # 0 => last[v] <= mailbox[v].frame /\ pending[v] <= mailbox[v].frame

Waits(v) == op # None /\ op.kind = "frame" /\ v \in op.left
HasNewest(v) == Len(pushed) \in {mailbox[v].frame, pending[v], last[v]}

NewestKept ==
    /\ op # None /\ op.kind = "frame" /\ op.stage = "again" => mailbox[op.to].frame = 0
    /\ \A v \in Viewers : InOrder(v)
    /\ \A v \in Viewers :
          serving[v] = "served" /\ pushed # <<>> /\ ~ Waits(v) => HasNewest(v)

(* Handling the messages in w takes the page from p to q, and at every step *)
(* it shows a whole image and refuses nothing.                              *)
Colours(g) == [i \in 1..Width |-> pushed[g].palette[pushed[g].pixels[i]]]

IsPage(p) ==
    p = [canvas |-> p.canvas, epoch |-> p.epoch, palette |-> p.palette,
         awaiting |-> p.awaiting, phase |-> p.phase, shown |-> p.shown, refused |-> p.refused]

Good(p) ==
    /\ IsPage(p) /\ p.refused = FALSE
    /\ p.shown \in 0..Len(pushed)
    /\ p.shown # 0 => p.canvas = Colours(p.shown)

Follows(p, w, q) ==
    \E ps : /\ ps[0] = p /\ ps[Len(w)] = q
            /\ \A i \in 1..Len(w) : ps[i] = Shown(ps[i - 1], w[i])
            /\ \A i \in 0..Len(w) : Good(ps[i])

(* The page agrees with what the writer believes it has sent it.            *)
Agrees(q, l) ==
    IF l = 0 THEN q.awaiting = TRUE
    ELSE /\ q.awaiting = FALSE
         /\ q.epoch = pushed[l].epoch /\ q.palette = pushed[l].palette
         /\ q.canvas = Colours(l)

InStep(v) == \E q : Follows(page[v], wire[v], q) /\ Agrees(q, last[v])

Pages ==
    \A v \in Viewers :
        IF serving[v] = "served" THEN InStep(v) ELSE wire[v] = <<>> /\ Good(page[v])

IInv == Types /\ Epochs /\ NewestKept /\ Pages

-----------------------------------------------------------------------------
(* Sequences, and the span of what differs.                                 *)

LEMMA EmptyIsSeq == IsSeq(<<>>)
BY DEF IsSeq

LEMMA SeqOfItsOwn ==
    ASSUME NEW S, NEW w \in Seq(S) PROVE IsSeq(w)
<1>1. Len(w) \in Nat /\ DOMAIN w = 1..Len(w) /\ w \in [1..Len(w) -> S]
    OBVIOUS
<1>2. \A i \in 1..Len(w) : w[i] \in ToSet(w)
    BY <1>1 DEF ToSet
<1>3. w \in [1..Len(w) -> ToSet(w)]
    BY <1>1, <1>2
<1> QED
    BY <1>1, <1>3 DEF IsSeq, Seq

LEMMA FunctionIsSequence ==
    ASSUME NEW S, NEW w, Len(w) \in Nat, w \in [1..Len(w) -> S] PROVE w \in Seq(S)
BY DEF Seq

LEMMA WiderSeq ==
    ASSUME NEW S, NEW T, S \subseteq T, NEW w \in Seq(S) PROVE w \in Seq(T)
<1>1. w \in [1..Len(w) -> S] /\ Len(w) \in Nat
    OBVIOUS
<1>2. w \in [1..Len(w) -> T]
    BY <1>1
<1> QED
    BY <1>1, <1>2 DEF Seq

LEMMA AppendIsSeq ==
    ASSUME NEW w, IsSeq(w), NEW m
    PROVE  /\ IsSeq(Append(w, m)) /\ Len(Append(w, m)) = Len(w) + 1
           /\ \A i \in 1..Len(w) : Append(w, m)[i] = w[i]
           /\ Append(w, m)[Len(w) + 1] = m
<1> DEFINE S == ToSet(w) \union {m}
<1>1. w \in Seq(S)
    BY WiderSeq DEF IsSeq
<1>2. Append(w, m) \in Seq(S)
    BY <1>1
<1>3. IsSeq(Append(w, m))
    BY <1>2, SeqOfItsOwn
<1> QED
    BY <1>1, <1>3

LEMMA TailIsSeq ==
    ASSUME NEW w, IsSeq(w), w # <<>>
    PROVE  /\ IsSeq(Tail(w)) /\ Len(Tail(w)) = Len(w) - 1 /\ Len(w) > 0 /\ Head(w) = w[1]
           /\ \A i \in 1..Len(Tail(w)) : Tail(w)[i] = w[i + 1]
<1>1. w \in Seq(ToSet(w))
    BY DEF IsSeq
<1>2. Tail(w) \in Seq(ToSet(w))
    BY <1>1
<1>3. IsSeq(Tail(w))
    BY <1>2, SeqOfItsOwn
<1> QED
    BY <1>1, <1>3

LEMMA SameTwo ==
    ASSUME NEW S, NEW s \in Seq(S), NEW t \in Seq(S),
           Len(s) = 2, Len(t) = 2, s[1] = t[1], s[2] = t[2]
    PROVE  s = t
<1>1. s = [i \in 1..2 |-> s[i]] /\ t = [i \in 1..2 |-> t[i]]
    OBVIOUS
<1>2. \A i \in 1..2 : s[i] = t[i]
    OBVIOUS
<1> QED
    BY <1>1, <1>2

LEMMA OneAndOne == ASSUME NEW a, NEW b PROVE <<a>> \o <<b>> = <<a, b>>
<1> DEFINE S == {a, b}
           s == <<a>> \o <<b>>
           t == <<a, b>>
<1>1. <<a>> \in Seq(S) /\ <<b>> \in Seq(S)
    OBVIOUS
<1>2. s \in Seq(S) /\ Len(s) = 2 /\ s[1] = a /\ s[2] = b
    BY <1>1
<1>3. t \in Seq(S) /\ Len(t) = 2 /\ t[1] = a /\ t[2] = b
    OBVIOUS
<1> HIDE DEF S, s, t
<1>4. s = t
    BY <1>2, <1>3, SameTwo
<1> QED
    BY <1>4 DEF s, t

LEMMA LeastOfSome ==
    ASSUME NEW T \in SUBSET Nat, T # {}
    PROVE  \E x \in T : \A y \in T : x <= y
<1>1. IsWellFoundedOn(OpToRel(<, Nat), Nat)
    BY NatLessThanWellFounded
<1>2. PICK x \in T : \A y \in T : ~ (<<y, x>> \in OpToRel(<, Nat))
    BY <1>1, WFMin
<1>3. \A y \in T : ~ (y < x)
    BY <1>2 DEF OpToRel
<1> QED
    BY <1>3

LEMMA EndsOfSpan ==
    ASSUME NEW n \in Nat, NEW T \in SUBSET (1..n), T # {}
    PROVE  /\ Min(T) \in T /\ Max(T) \in T
           /\ \A y \in T : Min(T) <= y /\ y <= Max(T)
<1>1. Min(T) \in T /\ \A y \in T : Min(T) <= y
    <2>1. \E x \in T : \A y \in T : x <= y
        BY LeastOfSome
    <2> QED
        BY <2>1 DEF Min
<1>2. Max(T) \in T /\ \A y \in T : Max(T) >= y
    <2> DEFINE U == {n - y : y \in T}
    <2>0. U \in SUBSET Nat /\ U # {}
        <3>1. \A y \in T : n - y \in Nat
            OBVIOUS
        <3> QED
            BY <3>1
    <2>1. PICK u \in U : \A z \in U : u <= z
        BY <2>0, LeastOfSome
    <2>2. PICK x \in T : u = n - x
        BY <2>1
    <2>3. ASSUME NEW y \in T PROVE x >= y
        <3>1. n - x <= n - y
            BY <2>1, <2>2
        <3>2. x \in Nat /\ y \in Nat
            OBVIOUS
        <3> HIDE DEF U
        <3> QED
            BY <3>1, <3>2
    <2> QED
        BY <2>2, <2>3 DEF Max
<1> QED
    BY <1>1, <1>2

LEMMA SpanHolds ==
    ASSUME NEW n \in Nat, NEW T \in SUBSET (1..n), T # {}
    PROVE  T \subseteq Min(T)..Max(T) /\ Min(T)..Max(T) \subseteq 1..n
<1>1. /\ Min(T) \in 1..n /\ Max(T) \in 1..n
      /\ \A y \in T : y \in 1..n /\ Min(T) <= y /\ y <= Max(T)
    BY EndsOfSpan
<1> QED
    BY <1>1

-----------------------------------------------------------------------------
(* Handling messages.                                                       *)

LEMMA FollowsNothing == ASSUME NEW p, Good(p) PROVE Follows(p, <<>>, p)
<1> DEFINE ps == [i \in {0} |-> p]
<1>1. /\ ps[0] = p /\ ps[Len(<<>>)] = p
      /\ \A i \in 1..Len(<<>>) : ps[i] = Shown(ps[i - 1], <<>>[i])
      /\ \A i \in 0..Len(<<>>) : Good(ps[i])
    OBVIOUS
<1> QED
    BY <1>1 DEF Follows

LEMMA FollowsOneMore ==
    ASSUME NEW p, NEW w, NEW q, NEW m, IsSeq(w), Follows(p, w, q), Good(Shown(q, m))
    PROVE  Follows(p, Append(w, m), Shown(q, m))
<1> DEFINE n == Len(w)
           u == Append(w, m)
<1>1. PICK ps : /\ ps[0] = p /\ ps[n] = q
                /\ \A i \in 1..n : ps[i] = Shown(ps[i - 1], w[i])
                /\ \A i \in 0..n : Good(ps[i])
    BY DEF Follows
<1>2. n \in Nat /\ Len(u) = n + 1 /\ (\A i \in 1..n : u[i] = w[i]) /\ u[n + 1] = m
    BY AppendIsSeq DEF IsSeq
<1> DEFINE qs == [i \in 0..(n + 1) |-> IF i <= n THEN ps[i] ELSE Shown(q, m)]
<1> HIDE DEF n, u
<1>3. qs[0] = p /\ qs[n + 1] = Shown(q, m) /\ qs[n] = q
    BY <1>1, <1>2
<1>4. ASSUME NEW i \in 1..(n + 1) PROVE qs[i] = Shown(qs[i - 1], u[i])
    <2>1. CASE i = n + 1
        BY <1>2, <1>3, <2>1
    <2>2. CASE i <= n
        BY <1>1, <1>2, <2>2
    <2> QED
        BY <1>2, <2>1, <2>2
<1>5. \A i \in 0..(n + 1) : Good(qs[i])
    BY <1>1, <1>2
<1> HIDE DEF qs
<1>6. Follows(p, u, Shown(q, m))
    BY <1>2, <1>3, <1>4, <1>5 DEF Follows
<1> QED
    BY <1>6 DEF u

LEMMA FollowsOneLess ==
    ASSUME NEW p, NEW w, NEW q, IsSeq(w), w # <<>>, Follows(p, w, q)
    PROVE  Follows(Shown(p, Head(w)), Tail(w), q)
<1> DEFINE n == Len(w)
           u == Tail(w)
<1>1. PICK ps : /\ ps[0] = p /\ ps[n] = q
                /\ \A i \in 1..n : ps[i] = Shown(ps[i - 1], w[i])
                /\ \A i \in 0..n : Good(ps[i])
    BY DEF Follows
<1>2. n \in Nat \ {0} /\ Len(u) = n - 1 /\ Head(w) = w[1]
      /\ \A i \in 1..(n - 1) : u[i] = w[i + 1]
    BY TailIsSeq DEF IsSeq
<1> DEFINE qs == [i \in 0..(n - 1) |-> ps[i + 1]]
<1> HIDE DEF n, u
<1>3. qs[0] = Shown(p, Head(w)) /\ qs[n - 1] = q
    <2>1. ps[1] = Shown(ps[0], w[1])
        BY <1>1, <1>2
    <2> QED
        BY <1>1, <1>2, <2>1
<1>4. ASSUME NEW i \in 1..(n - 1) PROVE qs[i] = Shown(qs[i - 1], u[i])
    <2>1. ps[i + 1] = Shown(ps[i], w[i + 1])
        BY <1>1, <1>2
    <2>2. qs[i] = ps[i + 1] /\ qs[i - 1] = ps[i] /\ u[i] = w[i + 1]
        BY <1>2
    <2> QED
        BY <2>1, <2>2
<1>5. \A i \in 0..(n - 1) : Good(qs[i])
    BY <1>1, <1>2
<1> HIDE DEF qs
<1>6. Follows(Shown(p, Head(w)), u, q)
    BY <1>2, <1>3, <1>4, <1>5 DEF Follows
<1> QED
    BY <1>6 DEF u

LEMMA FollowsIsGood ==
    ASSUME NEW p, NEW w, NEW q, IsSeq(w), Follows(p, w, q) PROVE Good(p) /\ Good(q)
<1>1. Len(w) \in Nat
    BY DEF IsSeq
<1> QED
    BY <1>1 DEF Follows

(* What each message does to a good page.                                   *)
LEMMA ShownState ==
    ASSUME NEW q, NEW l, NEW ph, Good(q), Agrees(q, l)
    PROVE  LET r == Shown(q, [type |-> "state", phase |-> ph]) IN Good(r) /\ Agrees(r, l)
<1> DEFINE r == Shown(q, [type |-> "state", phase |-> ph])
<1>1. r = [q EXCEPT !.phase = ph]
    BY DEF Shown
<1>2. IsPage(r) /\ r.refused = q.refused /\ r.shown = q.shown /\ r.canvas = q.canvas
      /\ r.awaiting = q.awaiting /\ r.epoch = q.epoch /\ r.palette = q.palette
    BY <1>1 DEF Good, IsPage
<1> HIDE DEF r
<1>3. Good(r) /\ Agrees(r, l)
    BY <1>2 DEF Good, Agrees
<1> QED
    BY <1>3 DEF r

LEMMA ShownPalette ==
    ASSUME NEW q, NEW g, Good(q), q.awaiting \in BOOLEAN
    PROVE  LET r == Shown(q, PaletteMessage(g))
           IN  /\ Good(r) /\ r.epoch = pushed[g].epoch /\ r.palette = pushed[g].palette
               /\ r.awaiting = (q.awaiting \/ pushed[g].epoch # q.epoch)
<1> DEFINE r == Shown(q, PaletteMessage(g))
<1>1. r = [q EXCEPT !.awaiting = @ \/ pushed[g].epoch # q.epoch, !.epoch = pushed[g].epoch,
                    !.palette = pushed[g].palette]
    BY DEF Shown, PaletteMessage
<1>2. IsPage(r) /\ r.refused = q.refused /\ r.shown = q.shown /\ r.canvas = q.canvas
      /\ r.epoch = pushed[g].epoch /\ r.palette = pushed[g].palette
      /\ r.awaiting = (q.awaiting \/ pushed[g].epoch # q.epoch)
    BY <1>1 DEF Good, IsPage
<1> HIDE DEF r
<1>3. Good(r)
    BY <1>2 DEF Good
<1> QED
    BY <1>2, <1>3 DEF r

LEMMA ShownFrame ==
    ASSUME NEW q, NEW g \in 1..Len(pushed), NEW rect \in SUBSET (1..Width),
           Good(q), q.epoch = pushed[g].epoch, q.palette = pushed[g].palette,
           q.awaiting = FALSE \/ rect = 1..Width,
           \A i \in (1..Width) \ rect : q.canvas[i] = Colours(g)[i]
    PROVE  LET r == Shown(q, FrameMessage(rect, g)) IN Good(r) /\ Agrees(r, g)
<1> DEFINE m == FrameMessage(rect, g)
           r == Shown(q, m)
<1>1. /\ m.type = "frame" /\ m.frame = g /\ m.epoch = pushed[g].epoch /\ DOMAIN m.pixels = rect
      /\ \A i \in rect : m.pixels[i] = pushed[g].pixels[i]
    BY DEF FrameMessage
<1> HIDE DEF m
<1>2. r = [q EXCEPT !.canvas = [i \in 1..Width |->
                                   IF i \in DOMAIN m.pixels THEN q.palette[m.pixels[i]]
                                   ELSE q.canvas[i]],
                    !.awaiting = FALSE, !.shown = g]
    BY <1>1 DEF Shown, Good, IsPage
<1>3. /\ IsPage(r) /\ r.refused = q.refused /\ r.shown = g /\ r.awaiting = FALSE
      /\ r.epoch = q.epoch /\ r.palette = q.palette
      /\ r.canvas = [i \in 1..Width |-> IF i \in DOMAIN m.pixels THEN q.palette[m.pixels[i]]
                                        ELSE q.canvas[i]]
    BY <1>2 DEF Good, IsPage
<1>4. r.canvas = Colours(g)
    BY <1>1, <1>3 DEF Colours
<1> HIDE DEF r
<1>5. Good(r) /\ Agrees(r, g)
    BY <1>3, <1>4 DEF Good, Agrees
<1> QED
    BY <1>5 DEF r, m

(* Writing image g to a page that agrees with f leaves it agreeing with g.  *)
LEMMA WritingKeepsStep ==
    ASSUME IInv, NEW v \in Viewers, serving[v] = "served", NEW g \in 1..Len(pushed)
    PROVE  LET w == wire[v] \o Pieces(last[v], g)
           IN  /\ IsSeq(w) /\ Len(w) <= Len(wire[v]) + 2
               /\ \E q : Follows(page[v], w, q) /\ Agrees(q, g)
<1> DEFINE f == last[v]
           w0 == wire[v]
           P == PaletteMessage(g)
           F == FrameMessage(DirtyRect(f, g), g)
<1>1. IsSeq(w0) /\ f \in 0..Len(pushed) /\ Len(pushed) \in Nat /\ Len(w0) \in Nat
    BY DEF IInv, Types, IsSeq
<1>2. PICK q : Follows(page[v], w0, q) /\ Agrees(q, f)
    BY DEF IInv, Pages, InStep
<1>3. Good(q)
    BY <1>1, <1>2, FollowsIsGood
<1> HIDE DEF f, w0
<1>4. CASE NewEpoch(f, g)
    <2>1. DirtyRect(f, g) = 1..Width /\ 1 \in 1..Width
        BY <1>4, ViewerAssumption DEF DirtyRect
    <2>2. Pieces(f, g) = <<P, F>>
        <3>1. DirtyRect(f, g) # {}
            BY <2>1
        <3>2. Pieces(f, g) = <<P>> \o <<F>>
            BY <1>4, <3>1 DEF Pieces
        <3> HIDE DEF P, F
        <3> QED
            BY <3>2, OneAndOne
    <2> DEFINE q1 == Shown(q, P)
               q2 == Shown(q1, F)
    <2>3. q.awaiting \in BOOLEAN /\ (q.awaiting \/ pushed[g].epoch # q.epoch)
        BY <1>2, <1>4 DEF Agrees, NewEpoch
    <2>4. Good(q1) /\ q1.epoch = pushed[g].epoch /\ q1.palette = pushed[g].palette
        BY <1>3, <2>3, ShownPalette
    <2> HIDE DEF q1
    <2>5. Good(q2) /\ Agrees(q2, g)
        BY <2>1, <2>4, ShownFrame
    <2> HIDE DEF q2, P, F
    <2>6. Follows(page[v], Append(w0, P), q1)
        BY <1>1, <1>2, <2>4, FollowsOneMore DEF q1
    <2>7. IsSeq(Append(w0, P)) /\ Len(Append(w0, P)) = Len(w0) + 1
        BY <1>1, AppendIsSeq
    <2>8. Follows(page[v], Append(Append(w0, P), F), q2)
        BY <2>5, <2>6, <2>7, FollowsOneMore DEF q2
    <2>9. IsSeq(Append(Append(w0, P), F)) /\ Len(Append(Append(w0, P), F)) = Len(w0) + 2
        BY <1>1, <2>7, AppendIsSeq
    <2>10. Append(Append(w0, P), F) = w0 \o <<P, F>>
        BY <1>1 DEF IsSeq
    <2> QED
        BY <1>1, <2>2, <2>5, <2>8, <2>9, <2>10 DEF f, w0
<1>5. CASE ~ NewEpoch(f, g)
    <2>1. f \in 1..Len(pushed) /\ pushed[f].epoch = pushed[g].epoch
        BY <1>1, <1>5 DEF NewEpoch
    <2>2. pushed[f].palette = pushed[g].palette
        BY <1>1, <2>1 DEF IInv, Epochs
    <2>3. q.awaiting = FALSE /\ q.epoch = pushed[g].epoch /\ q.palette = pushed[g].palette
          /\ q.canvas = Colours(f)
        BY <1>2, <2>1, <2>2 DEF Agrees
    <2>4. \A i \in (1..Width) \ Changed(f, g) : Colours(f)[i] = Colours(g)[i]
        BY <2>2 DEF Changed, Colours
    <2>5. CASE Changed(f, g) = {}
        <3>1. Pieces(f, g) = <<>>
            BY <1>5, <2>5 DEF Pieces, DirtyRect
        <3>2. w0 \o <<>> = w0
            BY <1>1 DEF IsSeq
        <3>3. Colours(f) = Colours(g)
            BY <2>4, <2>5 DEF Colours
        <3>4. Agrees(q, g)
            BY <1>1, <2>3, <3>3 DEF Agrees
        <3> QED
            BY <1>1, <1>2, <3>1, <3>2, <3>4 DEF f, w0
    <2>6. CASE Changed(f, g) # {}
        <3>1. Changed(f, g) \in SUBSET (1..Width) /\ Width \in Nat
            BY ViewerAssumption DEF Changed
        <3>2. DirtyRect(f, g) = Min(Changed(f, g))..Max(Changed(f, g))
            BY <1>5, <2>6 DEF DirtyRect
        <3>3. Changed(f, g) \subseteq DirtyRect(f, g)
            BY <2>6, <3>1, <3>2, SpanHolds
        <3>4. DirtyRect(f, g) \in SUBSET (1..Width)
            BY <2>6, <3>1, <3>2, SpanHolds
        <3>5. Pieces(f, g) = <<F>>
            BY <1>5, <2>6, <3>3 DEF Pieces
        <3> DEFINE q1 == Shown(q, F)
        <3>6. \A i \in (1..Width) \ DirtyRect(f, g) : q.canvas[i] = Colours(g)[i]
            BY <2>3, <2>4, <3>3
        <3>7. Good(q1) /\ Agrees(q1, g)
            BY <1>3, <2>3, <3>4, <3>6, ShownFrame
        <3> HIDE DEF q1, F
        <3>8. Follows(page[v], Append(w0, F), q1)
            BY <1>1, <1>2, <3>7, FollowsOneMore DEF q1
        <3>9. IsSeq(Append(w0, F)) /\ Len(Append(w0, F)) = Len(w0) + 1
            BY <1>1, AppendIsSeq
        <3>10. Append(w0, F) = w0 \o <<F>>
            BY <1>1 DEF IsSeq
        <3> QED
            BY <1>1, <3>5, <3>7, <3>8, <3>9, <3>10 DEF f, w0
    <2> QED
        BY <2>5, <2>6
<1> QED
    BY <1>4, <1>5
-----------------------------------------------------------------------------
(* What steps that leave them alone do to each part.                        *)

Extended ==
    /\ Len(pushed') \in Nat /\ Len(pushed) \in Nat /\ Len(pushed) <= Len(pushed')
    /\ \A i \in 1..Len(pushed) : pushed'[i] = pushed[i]

LEMMA SameIsExtended == ASSUME IInv, UNCHANGED pushed PROVE Extended
BY DEF IInv, Types, Extended

LEMMA GoodStays == ASSUME NEW p, Good(p), Extended PROVE Good(p)'
<1>1. p.shown \in 0..Len(pushed) /\ p.shown \in 0..Len(pushed')
    BY DEF Good, Extended
<1>2. CASE p.shown # 0
    <2>1. p.shown \in 1..Len(pushed)
        BY <1>1, <1>2
    <2>2. pushed'[p.shown] = pushed[p.shown]
        BY <2>1 DEF Extended
    <2>3. Colours(p.shown)' = Colours(p.shown)
        BY <2>2 DEF Colours
    <2> QED
        BY <1>1, <2>3 DEF Good
<1>3. CASE p.shown = 0
    BY <1>1, <1>3 DEF Good
<1> QED
    BY <1>2, <1>3

LEMMA FollowsStays ==
    ASSUME NEW p, NEW w, NEW q, Follows(p, w, q), Extended PROVE Follows(p, w, q)'
<1>1. PICK ps : /\ ps[0] = p /\ ps[Len(w)] = q
                /\ \A i \in 1..Len(w) : ps[i] = Shown(ps[i - 1], w[i])
                /\ \A i \in 0..Len(w) : Good(ps[i])
    BY DEF Follows
<1>2. \A i \in 0..Len(w) : Good(ps[i])'
    BY <1>1, GoodStays
<1> QED
    BY <1>1, <1>2 DEF Follows

LEMMA AgreesStays ==
    ASSUME NEW q, NEW l \in 0..Len(pushed), Agrees(q, l), Extended PROVE Agrees(q, l)'
<1>1. CASE l = 0
    BY <1>1 DEF Agrees
<1>2. CASE l # 0
    <2>1. pushed'[l] = pushed[l]
        BY <1>2 DEF Extended
    <2>2. Colours(l)' = Colours(l)
        BY <2>1 DEF Colours
    <2> QED
        BY <1>2, <2>1, <2>2 DEF Agrees
<1> QED
    BY <1>1, <1>2

(* The viewers a step does not touch stay in step.                          *)
LEMMA OtherPages ==
    ASSUME IInv, Extended, NEW v \in Viewers,
           serving'[v] = serving[v], wire'[v] = wire[v], page'[v] = page[v], last'[v] = last[v]
    PROVE  IF serving'[v] = "served" THEN InStep(v)' ELSE wire'[v] = <<>> /\ Good(page[v])'
<1>1. CASE serving[v] = "served"
    <2>1. PICK q : Follows(page[v], wire[v], q) /\ Agrees(q, last[v])
        BY <1>1 DEF IInv, Pages, InStep
    <2>2. last[v] \in 0..Len(pushed)
        BY DEF IInv, Types
    <2> DEFINE p == page[v]
               w == wire[v]
               l == last[v]
    <2>3. /\ \A pp, ww : Follows(pp, ww, q) => Follows(pp, ww, q)'
          /\ \A ll \in 0..Len(pushed) : Agrees(q, ll) => Agrees(q, ll)'
        BY FollowsStays, AgreesStays
    <2>4. Follows(p, w, q)' /\ Agrees(q, l)'
        BY <2>1, <2>2, <2>3
    <2> QED
        BY <1>1, <2>4 DEF InStep
<1>2. CASE serving[v] # "served"
    <2>1. wire[v] = <<>> /\ Good(page[v])
        BY <1>2 DEF IInv, Pages
    <2>2. \A pp : Good(pp) => Good(pp)'
        BY GoodStays
    <2> QED
        BY <1>2, <2>1, <2>2
<1> QED
    BY <1>1, <1>2
-----------------------------------------------------------------------------
(* The producer.                                                            *)

LEMMA VisitingTypes ==
    ASSUME NEW kind \in Kinds, NEW clients \in SUBSET Viewers, Visiting(kind, clients)
    PROVE  \/ clients = {} /\ op' = None
           \/ /\ clients # {} /\ op' # None /\ op' \in Push
              /\ op'.kind = kind /\ op'.left = clients /\ op'.to \in clients
              /\ op'.stage = "offer"
<1>1. CASE clients = {}
    BY <1>1 DEF Visiting
<1>2. CASE clients # {}
    <2>1. PICK u \in clients :
              op' = [kind |-> kind, left |-> clients, to |-> u, stage |-> "offer"]
        BY <1>2 DEF Visiting
    <2>2. op' \in Push
        BY <2>1 DEF Push, Stages
    <2> QED
        BY <1>2, <2>1, <2>2, ViewerAssumption DEF Push
<1> QED
    BY <1>1, <1>2

LEMMA ImageAt ==
    ASSUME IInv, NEW i \in 1..Len(pushed)
    PROVE  pushed[i] \in Image /\ pushed[i].epoch \in 1..i /\ i \in Nat
<1>1. pushed \in Seq(Image) /\ pushed[i].epoch <= i
    BY DEF IInv, Types
<1>2. pushed[i] \in Image
    BY <1>1
<1>3. pushed[i].epoch \in Nat \ {0} /\ i \in Nat
    BY <1>2 DEF Image
<1> QED
    BY <1>1, <1>2, <1>3

LEMMA PushFrameIInv == ASSUME IInv, PushFrame PROVE IInv'
<1> DEFINE n == Len(pushed)
<1>1. PICK pixels \in Pictures, palette \in Palettes :
          pushed' = Append(pushed, [pixels |-> pixels, palette |-> palette,
                                    epoch |-> EpochOf(palette)])
    BY DEF PushFrame
<1> DEFINE image == [pixels |-> pixels, palette |-> palette, epoch |-> EpochOf(palette)]
<1>2. n \in Nat /\ pushed \in Seq(Image) /\ (pushed = <<>> <=> n = 0) /\ n < MaxFrames
      /\ (n # 0 => Last(pushed) = pushed[n] /\ pushed[n] \in Image)
    BY DEF IInv, Types, PushFrame, Last
<1>3. /\ EpochOf(palette) \in 1..(n + 1)
      /\ n # 0 => /\ pushed[n].epoch <= EpochOf(palette)
                  /\ pushed[n].epoch = EpochOf(palette) => pushed[n].palette = palette
    <2>1. CASE n = 0
        BY <1>2, <2>1 DEF EpochOf
    <2>2. CASE n # 0
        <3>1. EpochOf(palette) = pushed[n].epoch + IF pushed[n].palette = palette THEN 0 ELSE 1
            BY <1>2, <2>2 DEF EpochOf
        <3>2. n \in 1..Len(pushed)
            BY <1>2, <2>2
        <3>3. pushed[n].epoch \in 1..n
            BY <3>2, ImageAt
        <3> QED
            BY <1>2, <2>2, <3>1, <3>3
    <2> QED
        BY <2>1, <2>2
<1>4. image \in Image
    BY <1>2, <1>3 DEF Image
<1> HIDE DEF n
<1>5. /\ pushed' \in Seq(Image) /\ Len(pushed') = n + 1 /\ pushed'[n + 1] = image
      /\ \A i \in 1..n : pushed'[i] = pushed[i]
    <2> HIDE DEF image
    <2> QED
        BY <1>1, <1>2, <1>4 DEF n, image
<1>6. Extended
    BY <1>2, <1>5 DEF Extended, n
<1>7. \/ Clients = {} /\ op' = None
      \/ /\ op' # None /\ op' \in Push /\ op'.kind = "frame" /\ op'.left = Clients
         /\ op'.to \in Clients /\ op'.stage = "offer"
    BY VisitingTypes DEF PushFrame, Kinds, Clients
<1>8. UNCHANGED <<phase, mailbox, serving, last, pending, wire, page, statesLeft, visitsLeft>>
    BY DEF PushFrame, writers, budgets
<1>9. Types'
    <2>1. Len(pushed') <= MaxFrames
        BY <1>2, <1>5, ViewerAssumption DEF IInv, Types
    <2>2. \A i \in 1..Len(pushed') : pushed'[i].epoch <= i
        <3>1. \A i \in 1..n : pushed'[i].epoch <= i
            BY <1>5, ImageAt DEF n
        <3>2. pushed'[n + 1].epoch <= n + 1
            BY <1>2, <1>3, <1>5
        <3>3. 1..Len(pushed') = 1..n \union {n + 1}
            BY <1>2, <1>5
        <3> QED
            BY <3>1, <3>2, <3>3
    <2>3. Clients' = Clients
        BY <1>8 DEF Clients
    <2>4. op' # None => op' \in Push /\ op'.to \in op'.left /\ op'.left \subseteq Clients'
        BY <1>7, <2>3
    <2>5. \A v \in Viewers : mailbox[v].frame <= Len(pushed') /\ last[v] <= Len(pushed')
                             /\ pending[v] <= Len(pushed')
        BY <1>2, <1>5 DEF IInv, Types, n, Mailbox
    <2> QED
        BY <1>5, <1>8, <2>1, <2>2, <2>4, <2>5 DEF IInv, Types
<1>10. Epochs'
    <2> SUFFICES ASSUME NEW i \in 1..(n + 1), NEW j \in 1..(n + 1), i <= j
                 PROVE  /\ pushed'[i].epoch <= pushed'[j].epoch
                        /\ pushed'[i].epoch = pushed'[j].epoch
                               => pushed'[i].palette = pushed'[j].palette
        BY <1>5 DEF Epochs
    <2>1. CASE j <= n
        <3>1. i \in 1..n /\ j \in 1..n
            BY <1>2, <2>1 DEF n
        <3> QED
            BY <1>5, <3>1 DEF IInv, Epochs, n
    <2>2. CASE i <= n /\ j = n + 1
        <3>1. i \in 1..n /\ n \in 1..n
            BY <1>2, <2>2 DEF n
        <3>2. /\ pushed[i].epoch <= pushed[n].epoch
              /\ pushed[i].epoch = pushed[n].epoch => pushed[i].palette = pushed[n].palette
            BY <3>1 DEF IInv, Epochs, n
        <3>3. pushed'[i] = pushed[i] /\ pushed'[j].epoch = EpochOf(palette)
              /\ pushed'[j].palette = palette
            BY <1>5, <2>2, <3>1
        <3>4. pushed[i].epoch \in Nat /\ pushed[n].epoch \in Nat /\ EpochOf(palette) \in Nat
            BY <1>2, <1>3, <3>1, ImageAt DEF n
        <3> QED
            BY <1>3, <3>1, <3>2, <3>3, <3>4
    <2>3. CASE i = n + 1 /\ j = n + 1
        BY <1>3, <1>5, <2>3
    <2> QED
        BY <1>2, <2>1, <2>2, <2>3 DEF n
<1>11. NewestKept'
    <2>1. \A v \in Viewers : InOrder(v)'
        BY <1>8 DEF IInv, NewestKept, InOrder
    <2>2. \A v \in Viewers : serving'[v] = "served" => Waits(v)'
        BY <1>7, <1>8 DEF Waits, Clients
    <2> QED
        BY <1>7, <2>1, <2>2 DEF NewestKept
<1>12. Pages'
    BY <1>6, <1>8, OtherPages DEF Pages
<1> QED
    BY <1>9, <1>10, <1>11, <1>12 DEF IInv

(* Steps of the producer that push no image.                                *)
LEMMA EpochsKept == ASSUME IInv, UNCHANGED pushed PROVE Epochs'
BY DEF IInv, Epochs

LEMMA PagesKept == ASSUME IInv, UNCHANGED <<pushed, serving, last, wire, page>> PROVE Pages'
<1>1. Extended
    BY SameIsExtended
<1> QED
    BY <1>1, OtherPages DEF Pages

LEMMA PushStateIInv == ASSUME IInv, PushState PROVE IInv'
<1>1. \/ Clients = {} /\ op' = None
      \/ /\ op' # None /\ op' \in Push /\ op'.kind = "state" /\ op'.left = Clients
         /\ op'.to \in Clients
    BY VisitingTypes DEF PushState, Kinds, Clients
<1>2. UNCHANGED <<pushed, mailbox, serving, last, pending, wire, page, visitsLeft>>
      /\ phase' \in Phases /\ statesLeft' = statesLeft - 1 /\ statesLeft > 0 /\ op = None
    BY DEF PushState, writers
<1>3. Types'
    <2>1. Clients' = Clients
        BY <1>2 DEF Clients
    <2>2. op' # None => op' \in Push /\ op'.to \in op'.left /\ op'.left \subseteq Clients'
        BY <1>1, <2>1
    <2>3. statesLeft' \in 0..MaxStates
        BY <1>2, ViewerAssumption DEF IInv, Types
    <2> QED
        BY <1>2, <2>2, <2>3 DEF IInv, Types
<1>4. NewestKept'
    BY <1>1, <1>2 DEF IInv, NewestKept, InOrder, Waits, HasNewest
<1> QED
    BY <1>2, <1>3, <1>4, EpochsKept, PagesKept DEF IInv

(* The client the push is at has what there is to have, or had its mailbox  *)
(* filled by nobody else: the push goes on without it.                      *)
LEMMA Delivered ==
    ASSUME IInv, op # None, Deliver \/ UNCHANGED mailbox, NextClient,
           op.kind = "frame" => Deliver,
           UNCHANGED <<pushed, phase, serving, writers, wire, page, budgets>>
    PROVE  IInv'
<1>1. op \in Push /\ op.to \in op.left /\ op.left \subseteq Clients /\ op.kind \in Kinds
      /\ op.to \in Viewers
    BY DEF IInv, Types, Push, Clients
<1> DEFINE rest == op.left \ {op.to}
<1>2. \/ rest = {} /\ op' = None
      \/ /\ op' # None /\ op' \in Push /\ op'.kind = op.kind /\ op'.left = rest
         /\ op'.to \in rest /\ op'.stage = "offer"
    BY <1>1, VisitingTypes DEF NextClient, Clients
<1>3. UNCHANGED <<pushed, phase, serving, last, pending, wire, page, statesLeft, visitsLeft>>
    BY DEF writers, budgets
<1>4. \/ mailbox' = mailbox /\ op.kind = "state"
      \/ op.kind = "state" /\ mailbox' = [mailbox EXCEPT ![op.to].state = phase]
      \/ op.kind = "frame" /\ mailbox' = [mailbox EXCEPT ![op.to].frame = Len(pushed)]
    <2>1. CASE op.kind = "state"
        BY <1>1, <2>1 DEF Deliver, Newest
    <2>2. CASE op.kind = "frame"
        BY <1>1, <2>2 DEF Deliver, Newest
    <2> QED
        BY <1>1, <2>1, <2>2 DEF Kinds
<1>5. mailbox' \in [Viewers -> Mailbox]
    <2>1. mailbox \in [Viewers -> Mailbox] /\ phase \in Phases \union {None}
          /\ Len(pushed) \in Nat
        BY DEF IInv, Types
    <2>2. \A m \in Mailbox : [m EXCEPT !.state = phase] \in Mailbox
                             /\ [m EXCEPT !.frame = Len(pushed)] \in Mailbox
        BY <2>1 DEF Mailbox
    <2> HIDE DEF Mailbox
    <2> QED
        BY <1>1, <1>4, <2>1, <2>2
<1>6. \A v \in Viewers :
          mailbox'[v].frame = IF op.kind = "frame" /\ v = op.to THEN Len(pushed)
                              ELSE mailbox[v].frame
    <2>1. mailbox \in [Viewers -> Mailbox] /\ Len(pushed) \in Nat
        BY DEF IInv, Types
    <2>2. \A v \in Viewers : DOMAIN mailbox[v] = {"state", "frame"}
        BY <2>1 DEF Mailbox
    <2>3. CASE op.kind = "state"
        BY <1>1, <1>4, <2>1, <2>2, <2>3
    <2>4. CASE op.kind = "frame"
        BY <1>1, <1>4, <2>1, <2>2, <2>4
    <2> QED
        BY <1>4, <2>3, <2>4
<1>7. Types'
    <2>1. Clients' = Clients
        BY <1>3 DEF Clients
    <2>2. op' # None => op' \in Push /\ op'.to \in op'.left /\ op'.left \subseteq Clients'
        BY <1>1, <1>2, <2>1
    <2>3. Len(pushed) \in Nat
        BY DEF IInv, Types
    <2>4. \A v \in Viewers : mailbox[v].frame <= Len(pushed)
        BY DEF IInv, Types
    <2>5. \A v \in Viewers : mailbox'[v].frame <= Len(pushed)
        BY <1>6, <2>3, <2>4
    <2> QED
        BY <1>3, <1>5, <2>2, <2>5 DEF IInv, Types
<1>8. NewestKept'
    <2>1. \A v \in Viewers : InOrder(v)'
        BY <1>3, <1>6 DEF IInv, NewestKept, InOrder, Types
    <2>2. ASSUME NEW v \in Viewers, serving'[v] = "served", pushed' # <<>>, ~ Waits(v)'
          PROVE  HasNewest(v)'
        <3>1. CASE op.kind = "frame" /\ v = op.to
            BY <1>3, <1>6, <3>1 DEF HasNewest
        <3>2. CASE ~ (op.kind = "frame" /\ v = op.to)
            <4>1. ~ Waits(v)
                BY <1>2, <2>2, <3>2 DEF Waits
            <4>2. HasNewest(v)
                BY <1>3, <2>2, <4>1 DEF IInv, NewestKept
            <4> QED
                BY <1>3, <1>6, <3>2, <4>2 DEF HasNewest
        <3> QED
            BY <3>1, <3>2
    <2> QED
        BY <1>2, <2>1, <2>2 DEF NewestKept
<1> QED
    BY <1>3, <1>7, <1>8, EpochsKept, PagesKept DEF IInv

LEMMA OfferIInv == ASSUME IInv, Offer PROVE IInv'
<1>1. op # None /\ op \in Push /\ op.to \in op.left /\ op.left \subseteq Clients
      /\ op.kind \in Kinds /\ op.to \in Viewers
    BY DEF IInv, Types, Push, Clients, Offer
<1>2. CASE mailbox[op.to][op.kind] = Empty(op.kind)
    <2>1. Deliver /\ NextClient
        BY <1>2 DEF Offer
    <2> QED
        BY <1>1, <2>1, Delivered DEF Offer
<1>3. CASE mailbox[op.to][op.kind] # Empty(op.kind)
    <2>1. op' = [op EXCEPT !.stage = "drain"] /\ UNCHANGED mailbox
          /\ UNCHANGED <<pushed, phase, serving, last, pending, wire, page, statesLeft,
                         visitsLeft>>
        BY <1>3 DEF Offer, writers, budgets
    <2>2. op' \in Push /\ op'.kind = op.kind /\ op'.left = op.left /\ op'.to = op.to
          /\ op'.stage = "drain" /\ op' # None
        BY <1>1, <2>1, ViewerAssumption DEF Push, Stages
    <2>3. Types'
        BY <1>1, <2>1, <2>2 DEF IInv, Types, Clients
    <2>4. NewestKept'
        BY <1>1, <2>1, <2>2 DEF IInv, NewestKept, InOrder, Waits, HasNewest
    <2> QED
        BY <2>1, <2>3, <2>4, EpochsKept, PagesKept DEF IInv
<1> QED
    BY <1>2, <1>3

(* What the mailbox held is never newer than what is being delivered.       *)
LEMMA DrainIInv == ASSUME IInv, Drain PROVE IInv'
<1>1. op # None /\ op \in Push /\ op.to \in op.left /\ op.left \subseteq Clients
      /\ op.kind \in Kinds /\ op.to \in Viewers
    BY DEF IInv, Types, Push, Clients, Drain
<1>2. op' = [op EXCEPT !.stage = "again"]
      /\ UNCHANGED <<pushed, phase, serving, last, pending, wire, page, statesLeft, visitsLeft>>
    BY DEF Drain, writers, budgets
<1>3. op' \in Push /\ op'.kind = op.kind /\ op'.left = op.left /\ op'.to = op.to
      /\ op'.stage = "again" /\ op' # None
    BY <1>1, <1>2, ViewerAssumption DEF Push, Stages
<1>4. \/ op.kind = "state" /\ mailbox' = [mailbox EXCEPT ![op.to].state = None]
      \/ op.kind = "frame" /\ mailbox' = [mailbox EXCEPT ![op.to].frame = 0]
    <2>1. CASE op.kind = "state"
        BY <1>1, <2>1 DEF Drain, Empty
    <2>2. CASE op.kind = "frame"
        BY <1>1, <2>2 DEF Drain, Empty
    <2> QED
        BY <1>1, <2>1, <2>2 DEF Kinds
<1>5. mailbox' \in [Viewers -> Mailbox]
    <2>1. mailbox \in [Viewers -> Mailbox]
        BY DEF IInv, Types
    <2>2. \A m \in Mailbox : [m EXCEPT !.state = None] \in Mailbox
                             /\ [m EXCEPT !.frame = 0] \in Mailbox
        BY DEF Mailbox
    <2> HIDE DEF Mailbox
    <2> QED
        BY <1>1, <1>4, <2>1, <2>2
<1>6. \A v \in Viewers :
          mailbox'[v].frame = IF op.kind = "frame" /\ v = op.to THEN 0 ELSE mailbox[v].frame
    BY <1>1, <1>4 DEF IInv, Types, Mailbox
<1>7. Types'
    <2>1. \A v \in Viewers : mailbox[v].frame <= Len(pushed) /\ 0 <= Len(pushed)
        BY DEF IInv, Types
    <2>2. \A v \in Viewers : mailbox'[v].frame <= Len(pushed)
        BY <1>6, <2>1
    <2> QED
        BY <1>1, <1>2, <1>3, <1>5, <2>2 DEF IInv, Types, Clients
<1>8. NewestKept'
    <2>1. \A v \in Viewers : InOrder(v)'
        BY <1>2, <1>6 DEF IInv, NewestKept, InOrder
    <2>2. ASSUME NEW v \in Viewers, serving'[v] = "served", pushed' # <<>>, ~ Waits(v)'
          PROVE  HasNewest(v)'
        <3>1. ~ Waits(v) /\ ~ (op.kind = "frame" /\ v = op.to)
            BY <1>1, <1>3, <2>2 DEF Waits
        <3>2. HasNewest(v)
            BY <1>2, <2>2, <3>1 DEF IInv, NewestKept
        <3> QED
            BY <1>2, <1>6, <3>1, <3>2 DEF HasNewest
    <2>3. op'.kind = "frame" => mailbox'[op'.to].frame = 0
        BY <1>1, <1>3, <1>6
    <2> QED
        BY <2>1, <2>2, <2>3 DEF NewestKept
<1> QED
    BY <1>2, <1>7, <1>8, EpochsKept, PagesKept DEF IInv

(* Only the holder of the lock fills a mailbox: after the drain it is empty *)
(* still, so an image is delivered.                                         *)
LEMMA OfferAgainIInv == ASSUME IInv, OfferAgain PROVE IInv'
<1>1. op # None /\ op.stage = "again"
    BY DEF OfferAgain
<1>2. op.kind = "frame" => Deliver
    <2> SUFFICES ASSUME op.kind = "frame" PROVE Deliver
        OBVIOUS
    <2>1. mailbox[op.to].frame = 0
        BY <1>1 DEF IInv, NewestKept
    <2> QED
        BY <2>1 DEF OfferAgain, Empty
<1>3. Deliver \/ UNCHANGED mailbox
    BY DEF OfferAgain
<1> QED
    BY <1>1, <1>2, <1>3, Delivered DEF OfferAgain

-----------------------------------------------------------------------------
(* The sockets.                                                             *)

LEMMA RegisterIInv == ASSUME IInv, NEW v \in Viewers, Register(v) PROVE IInv'
<1>1. /\ op = None /\ serving[v] = "away" /\ visitsLeft > 0
      /\ visitsLeft' = visitsLeft - 1
      /\ serving' = [serving EXCEPT ![v] = "served"]
      /\ mailbox' = [mailbox EXCEPT ![v] = [frame |-> Len(pushed), state |-> phase]]
      /\ last' = [last EXCEPT ![v] = 0] /\ pending' = [pending EXCEPT ![v] = 0]
      /\ page' = [page EXCEPT ![v] = [@ EXCEPT !.epoch = -1, !.awaiting = TRUE, !.shown = 0]]
      /\ UNCHANGED <<pushed, phase, op, wire, statesLeft>>
    BY DEF Register, server, IInv, Types
<1>2. /\ wire[v] = <<>> /\ Good(page[v]) /\ Len(pushed) \in Nat
    BY <1>1 DEF IInv, Pages, Types
<1>3. Types'
    <2>1. [frame |-> Len(pushed), state |-> phase] \in Mailbox
        BY DEF IInv, Types, Mailbox
    <2>2. mailbox' \in [Viewers -> Mailbox]
        BY <1>1, <2>1 DEF IInv, Types
    <2>3. \A u \in Viewers : mailbox'[u].frame <= Len(pushed) /\ last'[u] <= Len(pushed)
                             /\ pending'[u] <= Len(pushed)
        BY <1>1, <1>2 DEF IInv, Types
    <2>4. visitsLeft' \in 0..MaxVisits
        BY <1>1, ViewerAssumption DEF IInv, Types
    <2>5. DOMAIN page' = Viewers /\ page' = [u \in Viewers |-> page'[u]]
        BY <1>1 DEF IInv, Types
    <2> QED
        BY <1>1, <2>2, <2>3, <2>4, <2>5 DEF IInv, Types
<1>4. NewestKept'
    BY <1>1, <1>2 DEF IInv, NewestKept, InOrder, HasNewest, Waits, Types
<1>5. Pages'
    <2>1. InStep(v)'
        <3>1. PICK p : p = page'[v]
            OBVIOUS
        <3>2. p = [page[v] EXCEPT !.epoch = -1, !.awaiting = TRUE, !.shown = 0]
            BY <1>1, <3>1 DEF IInv, Types
        <3>3. IsPage(p) /\ p.refused = FALSE /\ p.shown = 0 /\ p.awaiting = TRUE
            BY <1>2, <3>2 DEF Good, IsPage
        <3>4. Follows(p, <<>>, p) /\ Agrees(p, 0)
            <4>1. p.shown \in 0..Len(pushed)
                BY <1>2, <3>3
            <4>2. Good(p)
                BY <3>3, <4>1 DEF Good
            <4> QED
                BY <3>3, <4>2, FollowsNothing DEF Agrees
        <3>5. Follows(p, <<>>, p)' /\ Agrees(p, 0)'
            BY <1>1, <1>2, <3>4, SameIsExtended, FollowsStays, AgreesStays
        <3>6. wire'[v] = <<>> /\ last'[v] = 0
            BY <1>1, <1>2 DEF IInv, Types
        <3> QED
            BY <3>1, <3>5, <3>6 DEF InStep
    <2>2. Extended
        BY <1>1, SameIsExtended
    <2>3. ASSUME NEW u \in Viewers, u # v
          PROVE  IF serving'[u] = "served" THEN InStep(u)' ELSE wire'[u] = <<>> /\ Good(page[u])'
        BY <1>1, <2>2, <2>3, OtherPages DEF IInv, Types
    <2>4. serving'[v] = "served"
        BY <1>1 DEF IInv, Types
    <2> QED
        BY <2>1, <2>3, <2>4 DEF Pages
<1> QED
    BY <1>1, <1>3, <1>4, <1>5, EpochsKept DEF IInv

LEMMA HangupIInv == ASSUME IInv, NEW v \in Viewers, Hangup(v) PROVE IInv'
<1>1. /\ serving[v] = "served"
      /\ serving' = [serving EXCEPT ![v] = "leaving"]
      /\ wire' = [wire EXCEPT ![v] = <<>>]
      /\ page' = [page EXCEPT ![v] = [@ EXCEPT !.phase = None, !.refused = FALSE]]
      /\ UNCHANGED <<pushed, phase, op, mailbox, last, pending, statesLeft, visitsLeft>>
    BY DEF Hangup, server, writers, budgets, IInv, Types
<1>2. Good(page[v])
    <2>1. PICK q : Follows(page[v], wire[v], q)
        BY <1>1 DEF IInv, Pages, InStep
    <2> QED
        BY <2>1, FollowsIsGood DEF IInv, Types
<1>3. Types'
    <2>1. \A u \in Viewers : IsSeq(wire'[u]) /\ Len(wire'[u]) <= WireLimit
        <3>1. \A u \in Viewers : wire'[u] \in {<<>>, wire[u]}
            BY <1>1 DEF IInv, Types
        <3>2. Len(<<>>) = 0 /\ 0 <= WireLimit
            BY ViewerAssumption
        <3> QED
            BY <3>1, <3>2, EmptyIsSeq DEF IInv, Types
    <2>2. op # None => op.left \subseteq Clients'
        BY <1>1 DEF IInv, Types, Clients
    <2> QED
        BY <1>1, <2>1, <2>2 DEF IInv, Types
<1>4. NewestKept'
    BY <1>1 DEF IInv, NewestKept, InOrder, HasNewest, Waits, Types
<1>5. Pages'
    <2>1. wire'[v] = <<>> /\ Good(page[v])'
        <3> DEFINE p == page'[v]
        <3>1. p = [page[v] EXCEPT !.phase = None, !.refused = FALSE]
            BY <1>1 DEF IInv, Types
        <3>2. IsPage(p) /\ p.refused = FALSE /\ p.shown = page[v].shown
              /\ p.canvas = page[v].canvas
            BY <1>2, <3>1 DEF Good, IsPage
        <3> HIDE DEF p
        <3>3. Good(p)
            BY <1>2, <3>2 DEF Good
        <3>4. pushed' = pushed /\ p = page'[v] /\ wire'[v] = <<>>
            BY <1>1 DEF p, IInv, Types
        <3> QED
            BY <3>3, <3>4 DEF Good, IsPage, Colours
    <2>2. Extended
        BY <1>1, SameIsExtended
    <2>3. ASSUME NEW u \in Viewers, u # v
          PROVE  IF serving'[u] = "served" THEN InStep(u)' ELSE wire'[u] = <<>> /\ Good(page[u])'
        BY <1>1, <2>2, <2>3, OtherPages DEF IInv, Types
    <2>4. serving'[v] # "served"
        BY <1>1 DEF IInv, Types
    <2> QED
        BY <2>1, <2>3, <2>4 DEF Pages
<1> QED
    BY <1>1, <1>3, <1>4, <1>5, EpochsKept DEF IInv

LEMMA UnregisterIInv == ASSUME IInv, NEW v \in Viewers, Unregister(v) PROVE IInv'
<1>1. /\ op = None /\ serving[v] = "leaving"
      /\ serving' = [serving EXCEPT ![v] = "away"]
      /\ UNCHANGED <<pushed, phase, op, mailbox, last, pending, wire, page, statesLeft,
                     visitsLeft>>
    BY DEF Unregister, server, writers, budgets
<1>2. Types'
    BY <1>1 DEF IInv, Types
<1>3. NewestKept'
    BY <1>1 DEF IInv, NewestKept, InOrder, HasNewest, Waits, Types
<1>4. Pages'
    <2>1. Extended
        BY <1>1, SameIsExtended
    <2>2. ASSUME NEW u \in Viewers
          PROVE  IF serving'[u] = "served" THEN InStep(u)' ELSE wire'[u] = <<>> /\ Good(page[u])'
        <3>1. CASE u = v
            BY <1>1, <3>1 DEF IInv, Types, Pages, Good, IsPage, Colours
        <3>2. CASE u # v
            BY <1>1, <2>1, <3>2, OtherPages DEF IInv, Types
        <3> QED
            BY <3>1, <3>2
    <2> QED
        BY <2>2 DEF Pages
<1> QED
    BY <1>1, <1>2, <1>3, <1>4, EpochsKept DEF IInv
-----------------------------------------------------------------------------
(* The writers and the page.                                                *)

LEMMA TakeStateIInv == ASSUME IInv, NEW v \in Viewers, TakeState(v) PROVE IInv'
<1> DEFINE m == [type |-> "state", phase |-> mailbox[v].state]
<1>1. /\ serving[v] = "served" /\ Len(wire[v]) + 2 <= WireLimit
      /\ mailbox' = [mailbox EXCEPT ![v] = [@ EXCEPT !.state = None]]
      /\ wire' = [wire EXCEPT ![v] = Append(@, m)]
      /\ UNCHANGED <<pushed, phase, op, serving, last, pending, page, statesLeft, visitsLeft>>
    BY DEF TakeState, Free, server, writers, budgets, IInv, Types
<1>2. IsSeq(wire[v]) /\ Len(wire[v]) \in Nat /\ last[v] \in 0..Len(pushed)
    BY DEF IInv, Types, IsSeq
<1> HIDE DEF m
<1>3. wire'[v] = Append(wire[v], m)
    BY <1>1 DEF IInv, Types
<1>4. mailbox' \in [Viewers -> Mailbox]
      /\ \A u \in Viewers : mailbox'[u].frame = mailbox[u].frame
    <2>1. mailbox \in [Viewers -> Mailbox]
        BY DEF IInv, Types
    <2>2. \A b \in Mailbox : [b EXCEPT !.state = None] \in Mailbox
                             /\ [b EXCEPT !.state = None].frame = b.frame
        BY DEF Mailbox
    <2> HIDE DEF Mailbox
    <2> QED
        BY <1>1, <2>1, <2>2
<1>5. Types'
    <2>1. IsSeq(wire'[v]) /\ Len(wire'[v]) <= WireLimit
        BY <1>1, <1>2, <1>3, AppendIsSeq, ViewerAssumption
    <2>2. \A u \in Viewers : IsSeq(wire'[u]) /\ Len(wire'[u]) <= WireLimit
        BY <1>1, <2>1 DEF IInv, Types
    <2>3. DOMAIN wire' = Viewers /\ wire' = [u \in Viewers |-> wire'[u]]
        BY <1>1 DEF IInv, Types
    <2>4. \A u \in Viewers : mailbox'[u].frame <= Len(pushed)
        BY <1>4 DEF IInv, Types
    <2> QED
        BY <1>1, <1>4, <2>2, <2>3, <2>4 DEF IInv, Types, Clients
<1>6. NewestKept'
    <2>1. op # None => op.to \in Viewers
        BY DEF IInv, Types, Push
    <2> QED
        BY <1>1, <1>4, <2>1 DEF IInv, NewestKept, InOrder, HasNewest, Waits
<1>7. Pages'
    <2>1. Extended
        BY <1>1, SameIsExtended
    <2>2. PICK q : Follows(page[v], wire[v], q) /\ Agrees(q, last[v])
        BY <1>1 DEF IInv, Pages, InStep
    <2>3. Good(q)
        BY <1>2, <2>2, FollowsIsGood
    <2>4. Good(Shown(q, m)) /\ Agrees(Shown(q, m), last[v])
        BY <2>2, <2>3, ShownState DEF m
    <2>5. Follows(page[v], Append(wire[v], m), Shown(q, m))
        BY <1>2, <2>2, <2>4, FollowsOneMore
    <2>6. InStep(v)'
        <3>1. PICK p, w, l, r : p = page[v] /\ w = Append(wire[v], m) /\ l = last[v]
                                /\ r = Shown(q, m)
            OBVIOUS
        <3>2. Follows(p, w, r)' /\ Agrees(r, l)'
            BY <1>2, <2>1, <2>4, <2>5, <3>1, FollowsStays, AgreesStays
        <3>3. page'[v] = p /\ wire'[v] = w /\ last'[v] = l
            BY <1>1, <1>3, <3>1
        <3> QED
            BY <3>2, <3>3 DEF InStep
    <2>7. ASSUME NEW u \in Viewers, u # v
          PROVE  IF serving'[u] = "served" THEN InStep(u)' ELSE wire'[u] = <<>> /\ Good(page[u])'
        BY <1>1, <2>1, <2>7, OtherPages DEF IInv, Types
    <2> QED
        BY <1>1, <2>6, <2>7 DEF Pages
<1> QED
    BY <1>1, <1>5, <1>6, <1>7, EpochsKept DEF IInv

(* An image is written: the first one taken, or the one the ticker finds.   *)
LEMMA WritingIInv ==
    ASSUME IInv, NEW v \in Viewers, serving[v] = "served", Len(wire[v]) + 2 <= WireLimit,
           NEW g \in 1..Len(pushed),
           wire' = [wire EXCEPT ![v] = @ \o Pieces(last[v], g)],
           last' = [last EXCEPT ![v] = g],
           UNCHANGED <<pushed, serving, page>>
    PROVE  /\ Pages' /\ DOMAIN wire' = Viewers /\ wire' = [u \in Viewers |-> wire'[u]]
           /\ \A u \in Viewers : IsSeq(wire'[u]) /\ Len(wire'[u]) <= WireLimit
           /\ last' \in [Viewers -> Nat] /\ \A u \in Viewers : last'[u] <= Len(pushed)
<1> DEFINE w == wire[v] \o Pieces(last[v], g)
<1>1. IsSeq(w) /\ Len(w) <= Len(wire[v]) + 2 /\ \E q : Follows(page[v], w, q) /\ Agrees(q, g)
    BY WritingKeepsStep
<1>2. PICK q : Follows(page[v], w, q) /\ Agrees(q, g)
    BY <1>1
<1> HIDE DEF w
<1>3. wire'[v] = w /\ last'[v] = g
    BY DEF IInv, Types, w
<1>4. \A u \in Viewers : u # v => wire'[u] = wire[u] /\ last'[u] = last[u]
    BY DEF IInv, Types
<1>5. Extended
    BY SameIsExtended
<1>6. InStep(v)'
    <2>1. PICK p, x : p = page[v] /\ x = w
        OBVIOUS
    <2>2. Follows(p, x, q)' /\ Agrees(q, g)'
        BY <1>2, <1>5, <2>1, FollowsStays, AgreesStays DEF IInv, Types
    <2>3. page'[v] = p /\ wire'[v] = x /\ last'[v] = g
        BY <1>3, <2>1
    <2> QED
        BY <2>2, <2>3 DEF InStep
<1>7. ASSUME NEW u \in Viewers, u # v
      PROVE  IF serving'[u] = "served" THEN InStep(u)' ELSE wire'[u] = <<>> /\ Good(page[u])'
    BY <1>4, <1>5, <1>7, OtherPages
<1>8. Pages'
    BY <1>6, <1>7 DEF Pages
<1>9. \A u \in Viewers : IsSeq(wire'[u]) /\ Len(wire'[u]) <= WireLimit
    <2>1. Len(w) \in Nat /\ Len(wire[v]) \in Nat
        BY <1>1 DEF IInv, Types, IsSeq
    <2>2. Len(w) <= WireLimit
        BY <1>1, <2>1, ViewerAssumption
    <2> QED
        BY <1>1, <1>3, <1>4, <2>2 DEF IInv, Types
<1>10. DOMAIN wire' = Viewers /\ wire' = [u \in Viewers |-> wire'[u]]
    BY DEF IInv, Types
<1>11. last' \in [Viewers -> Nat] /\ \A u \in Viewers : last'[u] <= Len(pushed)
    BY <1>3, <1>4 DEF IInv, Types
<1> QED
    BY <1>8, <1>9, <1>10, <1>11

LEMMA TakeFrameIInv == ASSUME IInv, NEW v \in Viewers, TakeFrame(v) PROVE IInv'
<1> DEFINE g == mailbox[v].frame
<1>1. /\ serving[v] = "served" /\ Len(wire[v]) + 2 <= WireLimit /\ g # 0
      /\ mailbox' = [mailbox EXCEPT ![v] = [@ EXCEPT !.frame = 0]]
      /\ UNCHANGED <<pushed, phase, op, serving, page, statesLeft, visitsLeft>>
    BY DEF TakeFrame, Free, server, budgets, IInv, Types
<1>2. \/ /\ last[v] = 0 /\ wire' = [wire EXCEPT ![v] = @ \o Pieces(last[v], g)]
         /\ last' = [last EXCEPT ![v] = g] /\ pending' = pending
      \/ /\ last[v] # 0 /\ pending' = [pending EXCEPT ![v] = g]
         /\ UNCHANGED <<wire, last>>
    BY DEF TakeFrame
<1>3. g \in 1..Len(pushed) /\ Len(pushed) \in Nat
    BY <1>1 DEF IInv, Types, Mailbox
<1>4. /\ mailbox' \in [Viewers -> Mailbox]
      /\ \A u \in Viewers : mailbox'[u].frame = IF u = v THEN 0 ELSE mailbox[u].frame
    <2>1. mailbox \in [Viewers -> Mailbox]
        BY DEF IInv, Types
    <2>2. \A b \in Mailbox : [b EXCEPT !.frame = 0] \in Mailbox
                             /\ [b EXCEPT !.frame = 0].frame = 0
        BY DEF Mailbox
    <2> HIDE DEF Mailbox, g
    <2> QED
        BY <1>1, <2>1, <2>2
<1> HIDE DEF g
<1>5. /\ Pages' /\ DOMAIN wire' = Viewers /\ wire' = [u \in Viewers |-> wire'[u]]
      /\ \A u \in Viewers : IsSeq(wire'[u]) /\ Len(wire'[u]) <= WireLimit
      /\ last' \in [Viewers -> Nat] /\ \A u \in Viewers : last'[u] <= Len(pushed)
    <2>1. CASE last[v] = 0
        BY <1>1, <1>2, <1>3, <2>1, WritingIInv
    <2>2. CASE last[v] # 0
        <3>1. UNCHANGED <<wire, last>>
            BY <1>2, <2>2
        <3> QED
            BY <1>1, <3>1, PagesKept DEF IInv, Types
    <2> QED
        BY <2>1, <2>2
<1>6. /\ pending' \in [Viewers -> Nat]
      /\ \A u \in Viewers : pending'[u] <= Len(pushed) /\ (u # v => pending'[u] = pending[u])
      /\ \A u \in Viewers : u # v => last'[u] = last[u]
      /\ IF last[v] = 0 THEN last'[v] = g /\ pending'[v] = pending[v]
                        ELSE last'[v] = last[v] /\ pending'[v] = g
    BY <1>2, <1>3 DEF IInv, Types
<1>7. Types'
    <2>0. \A u \in Viewers : mailbox[u].frame <= Len(pushed) /\ 0 <= Len(pushed)
        BY <1>3 DEF IInv, Types
    <2>1. \A u \in Viewers : mailbox'[u].frame <= Len(pushed)
        BY <1>4, <2>0
    <2> QED
        BY <1>1, <1>4, <1>5, <1>6, <2>1 DEF IInv, Types, Clients
<1>8. NewestKept'
    <2>1. InOrder(v) /\ last[v] \in Nat /\ pending[v] \in Nat /\ g \in Nat
        BY <1>3 DEF IInv, NewestKept, Types
    <2>2. InOrder(v)'
        BY <1>1, <1>4, <1>6, <2>1 DEF InOrder, g
    <2>3. ASSUME NEW u \in Viewers, u # v PROVE InOrder(u)'
        BY <1>4, <1>6, <2>3 DEF IInv, NewestKept, InOrder
    <2>4. ASSUME NEW u \in Viewers, serving'[u] = "served", pushed' # <<>>, ~ Waits(u)'
          PROVE  HasNewest(u)'
        <3>1. HasNewest(u)
            BY <1>1, <2>4 DEF IInv, NewestKept, Waits
        <3>2. CASE u # v
            BY <1>1, <1>4, <1>6, <3>1, <3>2 DEF HasNewest
        <3>3. CASE u = v
            <4>1. last[v] <= g /\ pending[v] <= g
                BY <1>1, <2>1 DEF InOrder, g
            <4>2. Len(pushed) = g
                <5>1. last[v] \in Nat /\ pending[v] \in Nat /\ g <= Len(pushed)
                    BY <1>3, <2>1
                <5>2. Len(pushed) \in {g, pending[v], last[v]}
                    BY <3>1, <3>3 DEF HasNewest, g
                <5> QED
                    BY <1>3, <4>1, <5>1, <5>2
            <4> QED
                BY <1>1, <1>6, <3>3, <4>2 DEF HasNewest
        <3> QED
            BY <3>2, <3>3
    <2>5. op # None /\ op.kind = "frame" /\ op.stage = "again" => mailbox'[op.to].frame = 0
        BY <1>4 DEF IInv, NewestKept, Types, Push
    <2> QED
        BY <1>1, <2>2, <2>3, <2>4, <2>5 DEF NewestKept
<1> QED
    BY <1>1, <1>5, <1>7, <1>8, EpochsKept DEF IInv

LEMMA TickIInv == ASSUME IInv, NEW v \in Viewers, Tick(v) PROVE IInv'
<1> DEFINE g == pending[v]
<1>1. /\ serving[v] = "served" /\ Len(wire[v]) + 2 <= WireLimit /\ g # 0
      /\ wire' = [wire EXCEPT ![v] = @ \o Pieces(last[v], g)]
      /\ last' = [last EXCEPT ![v] = g] /\ pending' = [pending EXCEPT ![v] = 0]
      /\ UNCHANGED <<pushed, phase, op, mailbox, serving, page, statesLeft, visitsLeft>>
    BY DEF Tick, Free, server, budgets
<1>2. g \in 1..Len(pushed) /\ Len(pushed) \in Nat
    BY <1>1 DEF IInv, Types
<1> HIDE DEF g
<1>3. /\ Pages' /\ DOMAIN wire' = Viewers /\ wire' = [u \in Viewers |-> wire'[u]]
      /\ \A u \in Viewers : IsSeq(wire'[u]) /\ Len(wire'[u]) <= WireLimit
      /\ last' \in [Viewers -> Nat] /\ \A u \in Viewers : last'[u] <= Len(pushed)
    BY <1>1, <1>2, WritingIInv
<1>4. /\ pending' \in [Viewers -> Nat]
      /\ \A u \in Viewers : pending'[u] = IF u = v THEN 0 ELSE pending[u]
      /\ \A u \in Viewers : last'[u] = IF u = v THEN g ELSE last[u]
    BY <1>1 DEF IInv, Types
<1>5. Types'
    <2>0. \A u \in Viewers : pending[u] <= Len(pushed) /\ 0 <= Len(pushed)
        BY <1>2 DEF IInv, Types
    <2>1. \A u \in Viewers : pending'[u] <= Len(pushed)
        BY <1>4, <2>0
    <2> QED
        BY <1>1, <1>3, <1>4, <2>1 DEF IInv, Types, Clients
<1>6. NewestKept'
    <2>1. InOrder(v) /\ last[v] \in Nat /\ g \in Nat
        BY <1>2 DEF IInv, NewestKept, Types
    <2>2. ASSUME NEW u \in Viewers PROVE InOrder(u)'
        <3>1. CASE u = v
            <4>1. mailbox'[u].frame = mailbox[v].frame /\ last'[u] = g /\ pending'[u] = 0
                BY <1>1, <1>4, <3>1
            <4>2. mailbox[v].frame # 0 => g <= mailbox[v].frame /\ 0 <= mailbox[v].frame
                BY <2>1 DEF IInv, Types, Mailbox, InOrder, g
            <4> QED
                BY <1>1, <4>1, <4>2 DEF InOrder
        <3>2. CASE u # v
            BY <1>1, <1>4, <3>2 DEF IInv, NewestKept, InOrder
        <3> QED
            BY <3>1, <3>2
    <2>3. ASSUME NEW u \in Viewers, serving'[u] = "served", pushed' # <<>>, ~ Waits(u)'
          PROVE  HasNewest(u)'
        <3>1. HasNewest(u)
            BY <1>1, <2>3 DEF IInv, NewestKept, Waits
        <3>2. CASE u # v
            BY <1>1, <1>4, <3>1, <3>2 DEF HasNewest
        <3>3. CASE u = v
            <4>1. last[v] = Len(pushed) => g = Len(pushed)
                BY <1>1, <1>2, <2>1 DEF InOrder, g
            <4> QED
                BY <1>1, <1>4, <3>1, <3>3, <4>1 DEF HasNewest, g
        <3> QED
            BY <3>2, <3>3
    <2> QED
        BY <1>1, <2>2, <2>3 DEF IInv, NewestKept
<1> QED
    BY <1>1, <1>3, <1>5, <1>6, EpochsKept DEF IInv

LEMMA HandleMessageIInv == ASSUME IInv, NEW v \in Viewers, HandleMessage(v) PROVE IInv'
<1>1. /\ serving[v] = "served" /\ wire[v] # <<>>
      /\ wire' = [wire EXCEPT ![v] = Tail(@)]
      /\ page' = [page EXCEPT ![v] = Shown(@, Head(wire[v]))]
      /\ UNCHANGED <<pushed, phase, op, mailbox, serving, last, pending, statesLeft,
                     visitsLeft>>
    BY DEF HandleMessage, server, writers, budgets
<1>2. IsSeq(wire[v]) /\ Len(wire[v]) <= WireLimit /\ last[v] \in 0..Len(pushed)
    BY DEF IInv, Types
<1>3. IsSeq(Tail(wire[v])) /\ Len(Tail(wire[v])) <= WireLimit
    <2>1. IsSeq(Tail(wire[v])) /\ Len(Tail(wire[v])) = Len(wire[v]) - 1
        BY <1>1, <1>2, TailIsSeq
    <2> QED
        BY <1>2, <2>1, ViewerAssumption DEF IsSeq
<1>4. wire'[v] = Tail(wire[v]) /\ page'[v] = Shown(page[v], Head(wire[v]))
    BY <1>1 DEF IInv, Types
<1>5. \A u \in Viewers : u # v => wire'[u] = wire[u] /\ page'[u] = page[u]
    BY <1>1 DEF IInv, Types
<1>6. Types'
    <2>1. \A u \in Viewers : IsSeq(wire'[u]) /\ Len(wire'[u]) <= WireLimit
        BY <1>3, <1>4, <1>5 DEF IInv, Types
    <2>2. /\ DOMAIN wire' = Viewers /\ wire' = [u \in Viewers |-> wire'[u]]
          /\ DOMAIN page' = Viewers /\ page' = [u \in Viewers |-> page'[u]]
        BY <1>1 DEF IInv, Types
    <2> QED
        BY <1>1, <2>1, <2>2 DEF IInv, Types, Clients
<1>7. NewestKept'
    BY <1>1 DEF IInv, NewestKept, InOrder, HasNewest, Waits
<1>8. Pages'
    <2>1. Extended
        BY <1>1, SameIsExtended
    <2>2. PICK q : Follows(page[v], wire[v], q) /\ Agrees(q, last[v])
        BY <1>1 DEF IInv, Pages, InStep
    <2>3. Follows(Shown(page[v], Head(wire[v])), Tail(wire[v]), q)
        BY <1>1, <1>2, <2>2, FollowsOneLess
    <2>4. InStep(v)'
        <3>1. PICK p, w, l : p = Shown(page[v], Head(wire[v])) /\ w = Tail(wire[v])
                             /\ l = last[v]
            OBVIOUS
        <3>2. Follows(p, w, q)' /\ Agrees(q, l)'
            BY <1>2, <2>1, <2>2, <2>3, <3>1, FollowsStays, AgreesStays
        <3>3. page'[v] = p /\ wire'[v] = w /\ last'[v] = l
            BY <1>1, <1>4, <3>1
        <3> QED
            BY <3>2, <3>3 DEF InStep
    <2>5. ASSUME NEW u \in Viewers, u # v
          PROVE  IF serving'[u] = "served" THEN InStep(u)' ELSE wire'[u] = <<>> /\ Good(page[u])'
        BY <1>1, <1>5, <2>1, <2>5, OtherPages
    <2> QED
        BY <1>1, <2>4, <2>5 DEF Pages
<1> QED
    BY <1>1, <1>6, <1>7, <1>8, EpochsKept DEF IInv
-----------------------------------------------------------------------------
LEMMA InitIInv == Init => IInv
<1> SUFFICES ASSUME Init PROVE IInv
    OBVIOUS
<1>1. pushed = <<>> /\ Len(pushed) = 0 /\ pushed \in Seq(Image)
    BY DEF Init
<1>2. Types
    <2>1. [frame |-> 0, state |-> None] \in Mailbox
        BY DEF Mailbox
    <2>2. mailbox \in [Viewers -> Mailbox]
        BY <2>1 DEF Init
    <2>3. \A v \in Viewers : IsSeq(wire[v]) /\ Len(wire[v]) <= WireLimit
        BY EmptyIsSeq, ViewerAssumption DEF Init
    <2> QED
        BY <1>1, <2>2, <2>3, ViewerAssumption DEF Init, Types
<1>3. Epochs
    BY <1>1 DEF Epochs
<1>4. NewestKept
    BY <1>1 DEF Init, NewestKept, InOrder
<1>5. Pages
    <2>1. IsPage(FreshPage) /\ FreshPage.refused = FALSE /\ FreshPage.shown = 0
        BY DEF FreshPage, IsPage
    <2>2. Good(FreshPage)
        BY <1>1, <2>1 DEF Good
    <2> QED
        BY <2>2 DEF Init, Pages
<1> QED
    BY <1>2, <1>3, <1>4, <1>5 DEF IInv

LEMMA NextIInv == IInv /\ [Next]_vars => IInv'
<1> SUFFICES ASSUME IInv, [Next]_vars PROVE IInv'
    OBVIOUS
<1>1. CASE PushFrame \/ PushState \/ Offer \/ Drain \/ OfferAgain
    BY <1>1, PushFrameIInv, PushStateIInv, OfferIInv, DrainIInv, OfferAgainIInv
<1>2. ASSUME NEW v \in Viewers,
             Register(v) \/ Hangup(v) \/ Unregister(v) \/ Writer(v) \/ HandleMessage(v)
      PROVE  IInv'
    BY <1>2, RegisterIInv, HangupIInv, UnregisterIInv, TakeStateIInv, TakeFrameIInv,
       TickIInv, HandleMessageIInv DEF Writer
<1>3. CASE UNCHANGED vars
    <2>1. UNCHANGED <<pushed, phase, op, mailbox, serving, last, pending, wire, page,
                      statesLeft, visitsLeft>>
        BY <1>3 DEF vars, server, writers, budgets
    <2>2. Types' /\ NewestKept'
        BY <2>1 DEF IInv, Types, Clients, NewestKept, InOrder, HasNewest, Waits
    <2> QED
        BY <2>1, <2>2, EpochsKept, PagesKept DEF IInv
<1> QED
    BY <1>1, <1>2, <1>3 DEF Next

(* The invariant of the mailboxes, the sockets and the pages.               *)
THEOREM Invariance == Spec => []IInv
<1> QED
    BY InitIInv, NextIInv, PTL DEF Spec

(* Every variable keeps its type; a push only has clients of the map.       *)
THEOREM TypeCorrect == Spec => []TypeOK
<1>1. IInv => TypeOK
    <2> SUFFICES ASSUME IInv PROVE TypeOK
        OBVIOUS
    <2>1. pushed \in Seq([pixels : Pictures, palette : Palettes, epoch : 1..MaxFrames])
        <3> DEFINE S == [pixels : Pictures, palette : Palettes, epoch : 1..MaxFrames]
        <3>1. Len(pushed) \in Nat /\ Len(pushed) <= MaxFrames /\ pushed \in Seq(Image)
              /\ MaxFrames \in Nat
            BY ViewerAssumption DEF IInv, Types
        <3>2. ASSUME NEW i \in 1..Len(pushed) PROVE pushed[i] \in S
            <4>1. pushed[i] \in Image /\ pushed[i].epoch \in 1..i
                BY ImageAt
            <4>2. pushed[i].epoch \in 1..MaxFrames
                <5>1. \A e \in 1..i : e \in 1..MaxFrames
                    BY <3>1
                <5> QED
                    BY <4>1, <5>1
            <4>3. \A x \in Image : x.epoch \in 1..MaxFrames => x \in S
                BY DEF Image
            <4> QED
                BY <4>1, <4>2, <4>3
        <3>3. pushed \in [1..Len(pushed) -> S]
            BY <3>1, <3>2
        <3> HIDE DEF S
        <3>4. pushed \in Seq(S)
            BY <3>1, <3>3, FunctionIsSequence
        <3> QED
            BY <3>4 DEF S
    <2>2. op # None => op.kind \in Kinds /\ op.stage \in Stages
        BY DEF IInv, Types, Push
    <2>3. \A v \in Viewers : mailbox[v].frame \in 0..Len(pushed)
                             /\ mailbox[v].state \in Phases \union {None}
        BY DEF IInv, Types, Mailbox
    <2> QED
        BY <2>1, <2>2, <2>3 DEF IInv, Types, TypeOK
<1> QED
    BY <1>1, Invariance, PTL

(* offerLatest, with the writer emptying the mailbox at any moment, never   *)
(* loses the newest image, whatever the browsers and however long it runs.  *)
THEOREM NothingNewIsLost == Spec => []NewestNotLost
<1>1. IInv => NewestNotLost
    BY DEF IInv, NewestKept, NewestNotLost, Waits, HasNewest
<1> QED
    BY <1>1, Invariance, PTL

(* What a page has been told of agrees with itself, and it never refused.    *)
LEMMA PagesAreGood == ASSUME IInv, NEW v \in Viewers PROVE Good(page[v])
<1>1. CASE serving[v] = "served"
    BY <1>1, FollowsIsGood DEF IInv, Types, Pages, InStep
<1>2. CASE serving[v] # "served"
    BY <1>2 DEF IInv, Pages
<1> QED
    BY <1>1, <1>2

(* Whatever was skipped between, a canvas is the whole image it was last    *)
(* told of.                                                                 *)
THEOREM CanvasIsRight == Spec => []CanvasIsTheFrame
<1>1. IInv => CanvasIsTheFrame
    <2> SUFFICES ASSUME IInv, NEW v \in Viewers, page[v].shown # 0
                 PROVE  page[v].canvas = Colours(page[v].shown)
        BY DEF CanvasIsTheFrame, Colours
    <2> QED
        BY PagesAreGood DEF Good
<1> QED
    BY <1>1, Invariance, PTL

(* The page of no browser is ever told of a frame of another palette, nor of *)
(* part of one while it waits for a whole one (app.ts:219-227).              *)
THEOREM NothingIsRefused == Spec => []NeverRefused
<1>1. IInv => NeverRefused
    BY PagesAreGood DEF Good, NeverRefused
<1> QED
    BY <1>1, Invariance, PTL

-----------------------------------------------------------------------------
(* A page never goes back.                                                  *)

(* From image n on, the frames of w are in order of age, up to image l.     *)
IsFrame(m) == m.type = "frame"
Ascends(n, w, l) ==
    /\ n \in 0..l
    /\ \A i \in 1..Len(w) :
          /\ w[i].type \in {"state", "palette", "frame"}
          /\ IsFrame(w[i]) =>
                /\ w[i].frame \in n..l
                /\ \A j \in i..Len(w) : IsFrame(w[j]) => w[i].frame <= w[j].frame

(* The writer sends no image older than one it has sent on this socket, and *)
(* the page is at or before what is still on the way.                       *)
Ascending == \A v \in Viewers : serving[v] = "served" => Ascends(page[v].shown, wire[v], last[v])

(* On one connection a page never replaces an image by an older one: the    *)
(* mailbox, the writer's pending image and the ticker keep the order they   *)
(* were published in, whichever of them an image skips (transport.go:52-70).*)
NeverGoesBack ==
    \A v \in Viewers :
        serving[v] = "served" /\ serving'[v] = "served" => page[v].shown <= page'[v].shown

LEMMA AscendsOneMore ==
    ASSUME NEW n, NEW w, NEW l \in Nat, NEW g \in Nat, NEW m,
           IsSeq(w), Ascends(n, w, l), l <= g,
           m.type \in {"state", "palette", "frame"}, IsFrame(m) => m.frame = g
    PROVE  Ascends(n, Append(w, m), g)
<1> DEFINE x == Append(w, m)
<1>1. /\ Len(x) = Len(w) + 1 /\ Len(w) \in Nat
      /\ \A i \in 1..Len(w) : x[i] = w[i]
      /\ x[Len(w) + 1] = m
    BY AppendIsSeq DEF IsSeq
<1> HIDE DEF x
<1>2. n \in 0..g /\ n \in 0..l
    BY DEF Ascends
<1>3. ASSUME NEW i \in 1..Len(w)
      PROVE  /\ x[i].type \in {"state", "palette", "frame"}
             /\ IsFrame(x[i]) =>
                  /\ x[i].frame \in n..g
                  /\ \A j \in i..Len(x) : IsFrame(x[j]) => x[i].frame <= x[j].frame
    <2>1. x[i] = w[i] /\ w[i].type \in {"state", "palette", "frame"}
        BY <1>1 DEF Ascends
    <2>2. ASSUME IsFrame(w[i]) PROVE w[i].frame \in n..l
        BY <2>2 DEF Ascends
    <2>3. ASSUME IsFrame(w[i]), NEW j \in i..Len(x), IsFrame(x[j])
          PROVE  w[i].frame <= x[j].frame
        <3>1. CASE j \in i..Len(w)
            <4>1. x[j] = w[j]
                BY <1>1, <3>1
            <4> QED
                BY <2>3, <3>1, <4>1 DEF Ascends
        <3>2. CASE j = Len(w) + 1
            <4>1. x[j].frame = g
                BY <1>1, <2>3, <3>2
            <4> QED
                BY <1>2, <2>2, <2>3, <4>1
        <3> QED
            BY <1>1, <3>1, <3>2
    <2>4. IsFrame(w[i]) => w[i].frame \in n..g
        BY <1>2, <2>2
    <2> QED
        BY <2>1, <2>3, <2>4
<1>4. \A j \in (Len(w) + 1)..Len(x) : x[j] = m
    BY <1>1
<1>5. IsFrame(m) => m.frame \in n..g /\ m.frame <= m.frame
    BY <1>2
<1>6. ASSUME NEW i \in 1..Len(x)
      PROVE  /\ x[i].type \in {"state", "palette", "frame"}
             /\ IsFrame(x[i]) =>
                  /\ x[i].frame \in n..g
                  /\ \A j \in i..Len(x) : IsFrame(x[j]) => x[i].frame <= x[j].frame
    <2>1. CASE i \in 1..Len(w)
        BY <1>3, <2>1
    <2>2. CASE i = Len(w) + 1
        BY <1>1, <1>4, <1>5, <2>2
    <2> QED
        BY <1>1, <2>1, <2>2
<1> QED
    BY <1>2, <1>6 DEF Ascends, x

LEMMA AscendsOneLess ==
    ASSUME NEW n, NEW w, NEW l \in Nat, IsSeq(w), w # <<>>, Ascends(n, w, l)
    PROVE  /\ Head(w).type \in {"state", "palette", "frame"}
           /\ Ascends(n, Tail(w), l)
           /\ IsFrame(Head(w)) => n <= Head(w).frame /\ Ascends(Head(w).frame, Tail(w), l)
<1> DEFINE x == Tail(w)
           h == Head(w)
<1>1. /\ Len(x) = Len(w) - 1 /\ Len(w) \in Nat /\ Len(w) > 0 /\ h = w[1]
      /\ \A i \in 1..Len(x) : x[i] = w[i + 1]
    BY TailIsSeq DEF IsSeq
<1> HIDE DEF x, h
<1>2. n \in 0..l
    BY DEF Ascends
<1>3. ASSUME NEW i \in 1..Len(x)
      PROVE  /\ x[i].type \in {"state", "palette", "frame"}
             /\ IsFrame(x[i]) =>
                  /\ x[i].frame \in n..l
                  /\ IsFrame(h) => h.frame <= x[i].frame
                  /\ \A j \in i..Len(x) : IsFrame(x[j]) => x[i].frame <= x[j].frame
    <2>1. i + 1 \in 1..Len(w) /\ i + 1 \in 1..Len(w) /\ 1 \in 1..Len(w) /\ x[i] = w[i + 1]
        BY <1>1
    <2>2. \A j \in i..Len(x) : j + 1 \in (i + 1)..Len(w) /\ x[j] = w[j + 1]
        BY <1>1
    <2>3. w[i + 1].type \in {"state", "palette", "frame"}
        BY <2>1 DEF Ascends
    <2>4. ASSUME IsFrame(w[i + 1])
          PROVE  /\ w[i + 1].frame \in n..l
                 /\ \A j \in (i + 1)..Len(w) : IsFrame(w[j]) => w[i + 1].frame <= w[j].frame
        BY <2>1, <2>4 DEF Ascends
    <2>5. ASSUME IsFrame(w[i + 1]), IsFrame(w[1]) PROVE w[1].frame <= w[i + 1].frame
        BY <2>1, <2>5 DEF Ascends
    <2> QED
        BY <1>1, <2>1, <2>2, <2>3, <2>4, <2>5
<1>4. h.type \in {"state", "palette", "frame"} /\ (IsFrame(h) => h.frame \in n..l)
    BY <1>1 DEF Ascends
<1>5. Ascends(n, x, l)
    BY <1>2, <1>3 DEF Ascends
<1>6. ASSUME IsFrame(h) PROVE n <= h.frame /\ Ascends(h.frame, x, l)
    <2>1. h.frame \in n..l /\ h.frame \in 0..l
        BY <1>2, <1>4, <1>6
    <2> DEFINE k == h.frame
    <2> HIDE DEF k
    <2>2. \A i \in 1..Len(x) : IsFrame(x[i]) => x[i].frame \in k..l
        BY <1>2, <1>3, <1>6, <2>1 DEF k
    <2>3. Ascends(k, x, l)
        BY <1>2, <1>3, <2>1, <2>2 DEF Ascends, k
    <2> QED
        BY <1>2, <2>1, <2>3 DEF k
<1> QED
    BY <1>4, <1>5, <1>6 DEF x, h

(* What is written of image g.                                              *)
LEMMA AscendsWriting ==
    ASSUME NEW n, NEW w, NEW f \in Nat, NEW g \in Nat, IsSeq(w), Ascends(n, w, f), f <= g
    PROVE  Ascends(n, w \o Pieces(f, g), g)
<1> DEFINE P == PaletteMessage(g)
           F == FrameMessage(DirtyRect(f, g), g)
<1>1. P.type = "palette" /\ F.type = "frame" /\ F.frame = g /\ ~ IsFrame(P)
    BY DEF PaletteMessage, FrameMessage, IsFrame
<1> HIDE DEF P, F
<1>2. Ascends(n, w, g)
    <2>1. n \in 0..f /\ \A i \in 1..Len(w) : IsFrame(w[i]) => w[i].frame \in n..f
        BY DEF Ascends
    <2>2. n \in 0..g /\ \A i \in 1..Len(w) : IsFrame(w[i]) => w[i].frame \in n..g
        BY <2>1
    <2> QED
        BY <2>2 DEF Ascends
<1>3. Ascends(n, Append(w, P), g) /\ IsSeq(Append(w, P))
    BY <1>1, AscendsOneMore, AppendIsSeq
<1>4. Ascends(n, Append(w, F), g)
    BY <1>1, AscendsOneMore
<1>5. Ascends(n, Append(Append(w, P), F), g)
    BY <1>1, <1>3, AscendsOneMore
<1>6. /\ w \o <<>> = w /\ w \o <<P>> = Append(w, P) /\ w \o <<F>> = Append(w, F)
      /\ w \o <<P, F>> = Append(Append(w, P), F)
    BY DEF IsSeq
<1>7. Pieces(f, g) \in {<<>>, <<P>>, <<F>>, <<P, F>>}
    <2>1. Pieces(f, g) \in {<<>> \o <<>>, <<P>> \o <<>>, <<>> \o <<F>>, <<P>> \o <<F>>}
        BY DEF Pieces, P, F
    <2>2. \A t \in Seq({P, F}) : <<>> \o t = t /\ t \o <<>> = t
        OBVIOUS
    <2>3. <<>> \in Seq({P, F}) /\ <<P>> \in Seq({P, F}) /\ <<F>> \in Seq({P, F})
        OBVIOUS
    <2> QED
        BY <2>1, <2>2, <2>3, OneAndOne
<1> QED
    BY <1>2, <1>3, <1>4, <1>5, <1>6, <1>7

(* What handling a message makes of the number of the image shown.          *)
LEMMA ShownNumber ==
    ASSUME NEW p, Good(p), NEW m, m.type \in {"state", "palette", "frame"}
    PROVE  Shown(p, m).shown = p.shown \/ (IsFrame(m) /\ Shown(p, m).shown = m.frame)
<1>1. IsPage(p)
    BY DEF Good
<1>2. CASE m.type = "state"
    <2>1. Shown(p, m) = [p EXCEPT !.phase = m.phase]
        BY <1>2 DEF Shown
    <2> QED
        BY <1>1, <2>1 DEF IsPage
<1>3. CASE m.type = "palette"
    <2>1. Shown(p, m) = [p EXCEPT !.awaiting = @ \/ m.epoch # p.epoch, !.epoch = m.epoch,
                                  !.palette = m.palette]
        BY <1>3 DEF Shown
    <2> QED
        BY <1>1, <2>1 DEF IsPage
<1>4. CASE m.type = "frame"
    <2>1. \/ Shown(p, m) = [p EXCEPT !.refused = TRUE, !.phase = None]
          \/ \E c : Shown(p, m) = [p EXCEPT !.canvas = c, !.awaiting = FALSE, !.shown = m.frame]
        BY <1>4 DEF Shown
    <2> QED
        BY <1>1, <1>4, <2>1 DEF IsPage, IsFrame
<1> QED
    BY <1>2, <1>3, <1>4

(* A step about one browser at most.                                        *)
LEMMA OneAscends ==
    ASSUME Ascending, NEW v \in Viewers,
           \A u \in Viewers \ {v} :
              /\ serving'[u] = "served" => serving[u] = "served"
              /\ wire'[u] = wire[u] /\ last'[u] = last[u] /\ page'[u] = page[u],
           serving'[v] = "served" => Ascends(page'[v].shown, wire'[v], last'[v]),
           serving[v] = "served" /\ serving'[v] = "served" => page[v].shown <= page'[v].shown
    PROVE  Ascending' /\ NeverGoesBack
<1>1. ASSUME NEW u \in Viewers, u # v, serving'[u] = "served"
      PROVE  /\ Ascends(page'[u].shown, wire'[u], last'[u])
             /\ page[u].shown <= page'[u].shown
    <2>1. Ascends(page[u].shown, wire[u], last[u])
        BY <1>1 DEF Ascending
    <2>2. page[u].shown <= page[u].shown
        BY <2>1 DEF Ascends
    <2> QED
        BY <1>1, <2>1, <2>2
<1>2. Ascending'
    <2>1. \A u \in Viewers : serving'[u] = "served" => Ascends(page'[u].shown, wire'[u], last'[u])
        BY <1>1
    <2> QED
        BY <2>1 DEF Ascending, Ascends, IsFrame
<1> QED
    BY <1>1, <1>2 DEF NeverGoesBack

(* A step about none.                                                       *)
LEMMA NoneAscends ==
    ASSUME Ascending, UNCHANGED <<serving, wire, last, page>>
    PROVE  Ascending' /\ NeverGoesBack
<1>1. ASSUME NEW v \in Viewers, serving[v] = "served" PROVE page[v].shown <= page[v].shown
    BY <1>1 DEF Ascending, Ascends
<1> QED
    BY <1>1 DEF Ascending, Ascends, IsFrame, NeverGoesBack

LEMMA RegisterAscends ==
    ASSUME IInv, Ascending, NEW v \in Viewers, Register(v) PROVE Ascending' /\ NeverGoesBack
<1>1. /\ serving[v] = "away" /\ wire' = wire
      /\ serving' = [serving EXCEPT ![v] = "served"] /\ last' = [last EXCEPT ![v] = 0]
      /\ page' = [page EXCEPT ![v] = [@ EXCEPT !.epoch = -1, !.awaiting = TRUE, !.shown = 0]]
    BY DEF Register, IInv, Types
<1>2. wire[v] = <<>> /\ Good(page[v])
    BY <1>1 DEF IInv, Pages
<1>3. page'[v] = [page[v] EXCEPT !.epoch = -1, !.awaiting = TRUE, !.shown = 0]
    BY <1>1 DEF IInv, Types
<1>4. page'[v].shown = 0 /\ last'[v] = 0 /\ wire'[v] = <<>>
    BY <1>1, <1>2, <1>3 DEF Good, IsPage, IInv, Types
<1>5. Ascends(0, <<>>, 0)
    BY DEF Ascends
<1>6. \A u \in Viewers \ {v} :
         serving'[u] = serving[u] /\ wire'[u] = wire[u] /\ last'[u] = last[u] /\ page'[u] = page[u]
    BY <1>1 DEF IInv, Types
<1> QED
    BY <1>1, <1>4, <1>5, <1>6, OneAscends

LEMMA LeavingAscends ==
    ASSUME IInv, Ascending, NEW v \in Viewers, Hangup(v) \/ Unregister(v)
    PROVE  Ascending' /\ NeverGoesBack
<1>1. /\ serving' \in {[serving EXCEPT ![v] = "leaving"], [serving EXCEPT ![v] = "away"]}
      /\ last' = last
      /\ \A u \in Viewers \ {v} : wire'[u] = wire[u] /\ page'[u] = page[u]
    BY DEF Hangup, Unregister, writers, IInv, Types
<1>2. serving'[v] # "served" /\ \A u \in Viewers \ {v} : serving'[u] = serving[u]
    BY <1>1 DEF IInv, Types
<1> QED
    BY <1>1, <1>2, OneAscends

LEMMA WriterAscends ==
    ASSUME IInv, Ascending, NEW v \in Viewers, Writer(v) PROVE Ascending' /\ NeverGoesBack
<1>1. serving[v] = "served" /\ UNCHANGED <<serving, page>>
    BY DEF Writer, TakeState, TakeFrame, Tick, Free
<1>2. /\ IsSeq(wire[v]) /\ last[v] \in Nat /\ pending[v] \in Nat /\ mailbox[v].frame \in Nat
      /\ InOrder(v)
    BY DEF IInv, Types, Mailbox, NewestKept
<1>3. Ascends(page[v].shown, wire[v], last[v]) /\ page[v].shown <= page[v].shown
    BY <1>1 DEF Ascending, Ascends
<1>4. ASSUME NEW w, NEW l, wire' = [wire EXCEPT ![v] = w], last' = [last EXCEPT ![v] = l],
             Ascends(page[v].shown, w, l)
      PROVE  Ascending' /\ NeverGoesBack
    <2>1. /\ wire'[v] = w /\ last'[v] = l
          /\ \A u \in Viewers \ {v} : wire'[u] = wire[u] /\ last'[u] = last[u]
        BY <1>4 DEF IInv, Types
    <2> QED
        BY <1>1, <1>3, <1>4, <2>1, OneAscends
<1>5. CASE TakeState(v)
    <2> DEFINE m == [type |-> "state", phase |-> mailbox[v].state]
    <2>1. wire' = [wire EXCEPT ![v] = Append(wire[v], m)] /\ last' = last
        BY <1>5 DEF TakeState, writers
    <2>2. m.type \in {"state", "palette", "frame"} /\ ~ IsFrame(m)
        BY DEF IsFrame
    <2> HIDE DEF m
    <2>3. Ascends(page[v].shown, Append(wire[v], m), last[v])
        BY <1>2, <1>3, <2>2, AscendsOneMore
    <2>4. last' = [last EXCEPT ![v] = last[v]]
        BY <2>1 DEF IInv, Types
    <2> QED
        BY <1>4, <2>1, <2>3, <2>4
<1>6. CASE TakeFrame(v) /\ last[v] = 0
    <2>1. /\ wire' = [wire EXCEPT ![v] = wire[v] \o Pieces(last[v], mailbox[v].frame)]
          /\ last' = [last EXCEPT ![v] = mailbox[v].frame]
        BY <1>6 DEF TakeFrame
    <2>2. Ascends(page[v].shown, wire[v] \o Pieces(last[v], mailbox[v].frame), mailbox[v].frame)
        BY <1>2, <1>3, <1>6, AscendsWriting
    <2> QED
        BY <1>4, <2>1, <2>2
<1>7. CASE TakeFrame(v) /\ last[v] # 0
    <2>1. UNCHANGED <<serving, wire, last, page>>
        BY <1>1, <1>7 DEF TakeFrame
    <2> QED
        BY <2>1, NoneAscends
<1>8. CASE Tick(v)
    <2>1. /\ wire' = [wire EXCEPT ![v] = wire[v] \o Pieces(last[v], pending[v])]
          /\ last' = [last EXCEPT ![v] = pending[v]] /\ pending[v] # 0
        BY <1>8 DEF Tick
    <2>2. last[v] <= pending[v]
        BY <1>2, <2>1 DEF InOrder
    <2>3. Ascends(page[v].shown, wire[v] \o Pieces(last[v], pending[v]), pending[v])
        BY <1>2, <1>3, <2>2, AscendsWriting
    <2> QED
        BY <1>4, <2>1, <2>3
<1> QED
    BY <1>5, <1>6, <1>7, <1>8 DEF Writer

LEMMA HandleMessageAscends ==
    ASSUME IInv, Ascending, NEW v \in Viewers, HandleMessage(v) PROVE Ascending' /\ NeverGoesBack
<1> DEFINE n == page[v].shown
           m == Head(wire[v])
<1>1. /\ serving[v] = "served" /\ wire[v] # <<>> /\ UNCHANGED <<serving, last>>
      /\ wire' = [wire EXCEPT ![v] = Tail(wire[v])]
      /\ page' = [page EXCEPT ![v] = Shown(page[v], m)]
    BY DEF HandleMessage, writers
<1>2. /\ wire'[v] = Tail(wire[v]) /\ page'[v] = Shown(page[v], m)
      /\ \A u \in Viewers \ {v} : wire'[u] = wire[u] /\ page'[u] = page[u]
    BY <1>1 DEF IInv, Types
<1>3. IsSeq(wire[v]) /\ last[v] \in Nat /\ Ascends(n, wire[v], last[v])
    BY <1>1 DEF IInv, Types, Ascending
<1> HIDE DEF m
<1>4. /\ m.type \in {"state", "palette", "frame"} /\ Ascends(n, Tail(wire[v]), last[v])
      /\ IsFrame(m) => n <= m.frame /\ Ascends(m.frame, Tail(wire[v]), last[v])
    BY <1>1, <1>3, AscendsOneLess DEF m
<1>5. page'[v].shown = n \/ (IsFrame(m) /\ page'[v].shown = m.frame)
    BY <1>2, <1>4, PagesAreGood, ShownNumber
<1>6. n <= n
    BY <1>3 DEF Ascends
<1>7. Ascends(page'[v].shown, wire'[v], last'[v]) /\ n <= page'[v].shown
    BY <1>1, <1>2, <1>4, <1>5, <1>6
<1> QED
    BY <1>1, <1>2, <1>7, OneAscends

LEMMA NextAscends == IInv /\ Ascending /\ [Next]_vars => Ascending' /\ NeverGoesBack
<1> SUFFICES ASSUME IInv, Ascending, [Next]_vars PROVE Ascending' /\ NeverGoesBack
    OBVIOUS
<1>1. CASE PushFrame \/ PushState \/ Offer \/ Drain \/ OfferAgain \/ UNCHANGED vars
    BY <1>1, NoneAscends DEF PushFrame, PushState, Offer, Drain, OfferAgain, vars, writers
<1>2. ASSUME NEW v \in Viewers,
             Register(v) \/ Hangup(v) \/ Unregister(v) \/ Writer(v) \/ HandleMessage(v)
      PROVE  Ascending' /\ NeverGoesBack
    BY <1>2, RegisterAscends, LeavingAscends, WriterAscends, HandleMessageAscends
<1> QED
    BY <1>1, <1>2 DEF Next

(* On one connection a page never shows an older image after a newer one.    *)
THEOREM PagesMoveOn == Spec => [][NeverGoesBack]_vars
<1>1. Init => Ascending
    BY DEF Init, Ascending
<1>2. IInv /\ Ascending /\ [Next]_vars => Ascending' /\ [NeverGoesBack]_vars
    BY NextAscends
<1> QED
    BY <1>1, <1>2, Invariance, PTL DEF Spec
=============================================================================
