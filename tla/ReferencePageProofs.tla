----------------------- MODULE ReferencePageProofs -----------------------
(***************************************************************************)
(* Three parts of the reference page: the decode cache of its interpreter, *)
(* the instruments its measurement probes share, and the arithmetic of its *)
(* interpreter.                                                            *)
(*                                                                         *)
(* Why one number keeps the array honest, for any size of memory, array    *)
(* and generation counter: between two of step()'s visits the Map only     *)
(* loses entries, and a finite set that lost entries and has the same      *)
(* cardinality lost none.                                                  *)
(*                                                                         *)
(* Why probes do not disturb each other, for any set of probe files that   *)
(* are accounted for one by one: each starts from what every other leaves. *)
(*                                                                         *)
(* Why the parts of a product lose nothing, for a half-word of any size:   *)
(* the carries between the limbs stay below two words, so the high word    *)
(* needs no reduction and the limbs add up to the whole product.           *)
(***************************************************************************)
EXTENDS DecodeCache, ProbeDiscipline, Mips16Arithmetic, FiniteSetTheorems, SequenceTheorems, TLAPS

\* Every slot of the current generation repeats the Map as step() left it, no
\* slot is of a later generation.
Indexed ==
    /\ fc.g \in Nat /\ fc.g > 0
    /\ fc.gen \in [0 .. Slots - 1 -> Nat]
    /\ fc.tag \in [0 .. Slots - 1 -> Va]
    /\ DOMAIN fc.ins = 0 .. Slots - 1
    /\ \A s \in 0 .. Slots - 1 :
          /\ fc.gen[s] <= fc.g
          /\ fc.gen[s] = fc.g =>
                fc.tag[s] \in DOMAIN left /\ left[fc.tag[s]] = fc.ins[s]

\* Since then the Map has only lost entries.
Shrinks ==
    /\ IsFiniteSet(DOMAIN left)
    /\ fc.n = Cardinality(DOMAIN left)
    /\ DOMAIN map \subseteq DOMAIN left
    /\ \A a \in DOMAIN map : map[a] = left[a]

\* What the Map holds for cached DRAM is what memory holds.
CurrentIn(m) ==
    \A a \in DOMAIN m :
        /\ a \in Fetchable
        /\ a.seg = "k0" /\ Touched(a) => m[a] = Decode(mem, a, a)

Current == CurrentIn(map)

Memory == mem \in [Chip -> [Off -> Code]] /\ written \subseteq Off

IInv == Memory /\ Indexed /\ Shrinks /\ Current

---------------------------------------------------------------------------
(* What the freshness check does.                                          *)

\* A live slot after the check is backed by the Map as it is now.
LEMMA CheckIs ==
    ASSUME IInv, NEW f, f = Checked(fc)
    PROVE  /\ f.g \in Nat /\ f.g > 0
           /\ f.n = Sized(map)
           /\ f.tag = fc.tag /\ f.ins = fc.ins
           /\ f.gen \in [0 .. Slots - 1 -> Nat]
           /\ \A s \in 0 .. Slots - 1 :
                 /\ f.gen[s] <= f.g
                 /\ f.gen[s] = f.g =>
                       f.tag[s] \in DOMAIN map /\ map[f.tag[s]] = f.ins[s]
<1>1. CASE fc.n = Sized(map)
    <2>1. f = fc
        BY <1>1 DEF Checked
    <2>2. DOMAIN map = DOMAIN left
        <3>1. Cardinality(DOMAIN map) = Cardinality(DOMAIN left)
            BY <1>1 DEF IInv, Shrinks, Sized
        <3> QED
            BY <3>1, FS_Subset DEF IInv, Shrinks
    <2>3. \A a \in DOMAIN left : map[a] = left[a]
        BY <2>2 DEF IInv, Shrinks
    <2> QED
        BY <1>1, <2>1, <2>2, <2>3, SlotsAssumption DEF IInv, Indexed
<1>2. CASE fc.n /= Sized(map) /\ fc.g < MaxGen
    <2>1. f = [n |-> Sized(map), g |-> fc.g + 1, gen |-> fc.gen,
               tag |-> fc.tag, ins |-> fc.ins]
        BY <1>2 DEF Checked
    <2>2. /\ f.n = Sized(map) /\ f.g = fc.g + 1 /\ f.gen = fc.gen
          /\ f.tag = fc.tag /\ f.ins = fc.ins
        BY <2>1
    <2>4. fc.g \in Nat /\ fc.gen \in [0 .. Slots - 1 -> Nat]
        BY DEF IInv, Indexed
    <2>3. ASSUME NEW s \in 0 .. Slots - 1
          PROVE  fc.gen[s] \in Nat /\ fc.gen[s] < fc.g + 1
        <3>1. fc.gen[s] \in Nat
            BY <2>4
        <3>2. fc.gen[s] <= fc.g
            BY DEF IInv, Indexed
        <3> QED
            BY <2>4, <3>1, <3>2
    <2>5. \A s \in 0 .. Slots - 1 : f.gen[s] <= f.g /\ f.gen[s] /= f.g
        BY <2>2, <2>3, <2>4
    <2> QED
        BY <2>2, <2>4, <2>5
<1>3. CASE fc.n /= Sized(map) /\ ~(fc.g < MaxGen)
    <2>1. f = [n |-> Sized(map), g |-> 1, gen |-> [s \in DOMAIN fc.gen |-> 0],
               tag |-> fc.tag, ins |-> fc.ins]
        BY <1>3 DEF Checked
    <2>2. DOMAIN fc.gen = 0 .. Slots - 1
        BY DEF IInv, Indexed
    <2>3. /\ f.n = Sized(map) /\ f.g = 1 /\ f.tag = fc.tag /\ f.ins = fc.ins
          /\ f.gen = [s \in 0 .. Slots - 1 |-> 0]
        BY <2>1, <2>2
    <2>5. f.gen \in [0 .. Slots - 1 -> Nat] /\ \A s \in 0 .. Slots - 1 : f.gen[s] = 0
        BY <2>3
    <2>6. f.g = 1 /\ \A s \in 0 .. Slots - 1 : f.gen[s] <= f.g /\ f.gen[s] /= f.g
        BY <2>3, <2>5
    <2>7. f.n = Sized(map) /\ f.tag = fc.tag /\ f.ins = fc.ins
        BY <2>3
    <2> QED
        BY <2>5, <2>6, <2>7
<1> QED
    BY <1>1, <1>2, <1>3

\* So what step() would run is what the Map holds, or what memory holds.
LEMMA FetchedIs ==
    ASSUME IInv, NEW a \in Va
    PROVE  /\ FrontHit(a) => a \in DOMAIN map /\ Fetched(a) = map[a]
           /\ MapHit(a) => Fetched(a) = map[a]
           /\ ~FrontHit(a) /\ ~MapHit(a) =>
                 a \notin DOMAIN map /\ Fetched(a) = Decode(mem, a, a)
<1> DEFINE f == Checked(fc)
<1>1. Slot(a) \in 0 .. Slots - 1
    BY SlotsAssumption, SizeAssumption DEF Slot, Va, Off
<1>2. FrontHit(a) => a \in DOMAIN map /\ map[a] = f.ins[Slot(a)]
    BY <1>1, CheckIs DEF FrontHit, Holds
<1> QED
    BY <1>2 DEF Fetched, MapHit

---------------------------------------------------------------------------
(* What each kind of step does to the parts of the invariant.              *)

\* A store, on whatever Map it finds.
LEMMA StoreKeepsCurrent ==
    ASSUME Memory, NEW m, CurrentIn(m),
           NEW o \in Off, NEW words \in {1, 2}, NEW v \in Code,
           o + words - 1 \in Off,
           mem' = Stored(mem, o, words, v),
           map' = Without(m, Evicted(o)),
           written' = written \cup Spans(o, words),
           fresh' = fresh
    PROVE  Current' /\ Memory'
<1>1. Spans(o, words) \subseteq Off /\ Spans(o, words) \subseteq {o, o + 1}
    BY SizeAssumption DEF Spans, Off
<1>2. mem' \in [Chip -> [Off -> Code]]
    BY DEF Memory, Stored, Chip
<1>3. \A x \in Off : x \notin {o, o + 1} => mem'["ram"][x] = mem["ram"][x]
    BY <1>1 DEF Stored, Memory, Chip
<1>4. ASSUME NEW a \in DOMAIN map'
      PROVE  /\ a \in Fetchable
             /\ a.seg = "k0" /\ Touched(a)' => map'[a] = Decode(mem', a, a)
    <2>1. a \in DOMAIN m /\ a \notin Evicted(o) /\ map'[a] = m[a]
        BY <1>4 DEF Without
    <2>2. a \in Fetchable /\ a \in Va /\ a.off \in Off /\ a.off + 1 \in Off
        BY <2>1 DEF CurrentIn, Fetchable, Va
    <2>3. SUFFICES ASSUME a.seg = "k0", Touched(a)'
                   PROVE  map'[a] = Decode(mem', a, a)
        BY <2>2
    <2>4. a.off \notin {o - 1, o, o + 1}
        <3>1. a = [seg |-> "k0", off |-> a.off]
            BY <2>2, <2>3 DEF Va
        <3> QED
            BY <2>1, <2>2, <3>1 DEF Evicted
    <2>5. a.off \notin {o, o + 1} /\ a.off + 1 \notin {o, o + 1}
        BY <2>2, <2>4, SizeAssumption DEF Off
    <2>6. Touched(a)
        BY <1>1, <2>3, <2>5 DEF Touched
    <2>7. m[a] = Decode(mem, a, a)
        BY <2>1, <2>3, <2>6 DEF CurrentIn
    <2>8. Decode(mem', a, a) = Decode(mem, a, a)
        BY <1>3, <2>2, <2>3, <2>5 DEF Decode, ChipOf
    <2> QED
        BY <2>1, <2>7, <2>8
<1>5. Current'
    BY <1>4 DEF Current, CurrentIn
<1> QED
    BY <1>1, <1>2, <1>5 DEF Memory

\* An instruction's effect, on whatever Map it finds: what stays is true, and
\* the Map can only have lost entries.
LEMMA EffectKeeps ==
    ASSUME Memory, NEW m, CurrentIn(m),
           Effect(m), fresh' = fresh
    PROVE  /\ Current' /\ Memory'
           /\ DOMAIN map' \subseteq DOMAIN m
           /\ \A a \in DOMAIN map' : map'[a] = m[a]
<1>1. CASE map' = m /\ UNCHANGED << mem, written, turns >>
    <2>1. Memory'
        BY <1>1 DEF Memory
    <2>2. Current'
        BY <1>1 DEF Current, CurrentIn, Touched
    <2> QED
        BY <1>1, <2>1, <2>2
<1>2. CASE \E o \in Off, words \in {1, 2}, v \in Code :
              /\ Turn
              /\ o + words - 1 \in Off
              /\ mem' = Stored(mem, o, words, v)
              /\ map' = Without(m, Evicted(o))
              /\ written' = written \cup Spans(o, words)
    <2>1. PICK o \in Off, words \in {1, 2}, v \in Code :
              /\ o + words - 1 \in Off
              /\ mem' = Stored(mem, o, words, v)
              /\ map' = Without(m, Evicted(o))
              /\ written' = written \cup Spans(o, words)
        BY <1>2
    <2>2. Current' /\ Memory'
        BY <2>1, StoreKeepsCurrent
    <2> QED
        BY <2>1, <2>2 DEF Without
<1> QED
    BY <1>1, <1>2 DEF Effect

\* The array f repeats the Map m and knows its size.
Repeats(f, m) ==
    /\ f.g \in Nat /\ f.g > 0
    /\ f.gen \in [0 .. Slots - 1 -> Nat]
    /\ f.tag \in [0 .. Slots - 1 -> Va]
    /\ DOMAIN f.ins = 0 .. Slots - 1
    /\ f.n = Cardinality(DOMAIN m)
    /\ \A s \in 0 .. Slots - 1 :
          /\ f.gen[s] <= f.g
          /\ f.gen[s] = f.g => f.tag[s] \in DOMAIN m /\ m[f.tag[s]] = f.ins[s]

LEMMA CheckRepeats == ASSUME IInv PROVE Repeats(Checked(fc), map)
<1> DEFINE f == Checked(fc)
<1>1. fc.tag \in [0 .. Slots - 1 -> Va] /\ DOMAIN fc.ins = 0 .. Slots - 1
    BY DEF IInv, Indexed
<1> QED
    BY <1>1, CheckIs DEF Repeats, Sized

\* Putting one instruction of the Map into its slot keeps the array honest.
LEMMA FillRepeats ==
    ASSUME NEW f, NEW m, Repeats(f, m), NEW a \in Va,
           NEW mm, DOMAIN m \subseteq DOMAIN mm, a \in DOMAIN mm,
           \A x \in DOMAIN m : mm[x] = m[x]
    PROVE  Repeats(Filled(f, a, mm[a], Cardinality(DOMAIN mm)), mm)
<1> DEFINE h == Filled(f, a, mm[a], Cardinality(DOMAIN mm))
           k == Slot(a)
<1>1. k \in 0 .. Slots - 1
    BY SlotsAssumption, SizeAssumption DEF Slot, Va, Off
<1>2. h = [n |-> Cardinality(DOMAIN mm), g |-> f.g, gen |-> [f.gen EXCEPT ![k] = f.g],
           tag |-> [f.tag EXCEPT ![k] = a], ins |-> [f.ins EXCEPT ![k] = mm[a]]]
    BY DEF Filled
<1> HIDE DEF h, k
<1>3. /\ h.n = Cardinality(DOMAIN mm) /\ h.g = f.g
      /\ h.gen = [f.gen EXCEPT ![k] = f.g]
      /\ h.tag = [f.tag EXCEPT ![k] = a]
      /\ h.ins = [f.ins EXCEPT ![k] = mm[a]]
    BY <1>2
<1>4. /\ h.gen \in [0 .. Slots - 1 -> Nat]
      /\ h.tag \in [0 .. Slots - 1 -> Va]
      /\ DOMAIN h.ins = 0 .. Slots - 1
      /\ h.g \in Nat /\ h.g > 0
    BY <1>1, <1>3 DEF Repeats
<1>5. ASSUME NEW s \in 0 .. Slots - 1
      PROVE  /\ h.gen[s] <= h.g
             /\ h.gen[s] = h.g => h.tag[s] \in DOMAIN mm /\ mm[h.tag[s]] = h.ins[s]
    <2>1. CASE s = k
        BY <2>1, <1>1, <1>3 DEF Repeats
    <2>2. CASE s /= k
        <3>1. h.gen[s] = f.gen[s] /\ h.tag[s] = f.tag[s] /\ h.ins[s] = f.ins[s]
            BY <2>2, <1>1, <1>3 DEF Repeats
        <3> QED
            BY <3>1, <1>3 DEF Repeats
    <2> QED
        BY <2>1, <2>2
<1>7. Repeats(h, mm)
    BY <1>3, <1>4, <1>5 DEF Repeats
<1> QED
    BY <1>7 DEF h

\* What a fetch leaves in the Map is current, and the array repeats it.
LEMMA FetchKeeps ==
    ASSUME IInv, NEW a \in Fetchable
    PROVE  /\ CurrentIn(MapAfter(a))
           /\ IsFiniteSet(DOMAIN MapAfter(a))
           /\ Repeats(FrontAfter(a), MapAfter(a))
<1> DEFINE i == Fetched(a)
<1>1. a \in Va
    BY DEF Fetchable
<1>2. IsFiniteSet(DOMAIN map) /\ CurrentIn(map)
    <2>1. IsFiniteSet(DOMAIN left) /\ DOMAIN map \in SUBSET DOMAIN left
        BY DEF IInv, Shrinks
    <2>2. IsFiniteSet(DOMAIN map)
        BY <2>1, FS_Subset
    <2> QED
        BY <2>2 DEF IInv, Current
<1>3. Repeats(Checked(fc), map)
    BY CheckRepeats
<1>4. CASE FrontHit(a)
    BY <1>2, <1>3, <1>4 DEF MapAfter, FrontAfter
<1>5. CASE ~FrontHit(a) /\ MapHit(a)
    <2>1. MapAfter(a) = map /\ FrontAfter(a) = Filled(Checked(fc), a, map[a], Checked(fc).n)
        BY <1>5 DEF MapAfter, FrontAfter
    <2>2. a \in DOMAIN map /\ Checked(fc).n = Cardinality(DOMAIN map)
        BY <1>3, <1>5 DEF MapHit, Repeats
    <2>3. Repeats(Filled(Checked(fc), a, map[a], Cardinality(DOMAIN map)), map)
        BY <1>1, <1>3, <2>2, FillRepeats
    <2> QED
        BY <1>2, <2>1, <2>2, <2>3
<1>6. CASE ~FrontHit(a) /\ ~MapHit(a) /\ i.hw \in Bad
    BY <1>2, <1>3, <1>6 DEF MapAfter, FrontAfter
<1>7. CASE ~FrontHit(a) /\ ~MapHit(a) /\ i.hw \notin Bad
    <2> DEFINE mm == Added(map, a, i)
    <2>1. MapAfter(a) = mm /\ FrontAfter(a) = Filled(Checked(fc), a, i, Cardinality(DOMAIN mm))
        BY <1>7 DEF MapAfter, FrontAfter, Sized
    <2>2. a \notin DOMAIN map /\ i = Decode(mem, a, a)
        BY <1>1, <1>7, FetchedIs
    <2>3. /\ DOMAIN mm = DOMAIN map \cup {a} /\ mm[a] = i
          /\ \A x \in DOMAIN map : mm[x] = map[x]
        BY <2>2 DEF Added
    <2> HIDE DEF mm, i
    <2>4. IsFiniteSet(DOMAIN mm)
        BY <1>2, <2>3, FS_AddElement
    <2>5. Repeats(Filled(Checked(fc), a, mm[a], Cardinality(DOMAIN mm)), mm)
        BY <1>1, <1>3, <2>3, FillRepeats
    <2>6. CurrentIn(mm)
        BY <1>2, <2>2, <2>3 DEF CurrentIn
    <2> QED
        BY <2>1, <2>3, <2>4, <2>5, <2>6
<1> QED
    BY <1>4, <1>5, <1>6, <1>7

---------------------------------------------------------------------------
(* The invariant.                                                          *)

\* The conjuncts about the array and the Map, from what a fetch leaves and what
\* the effect then deletes.
LEMMA ArrayStays ==
    ASSUME NEW f, NEW m, Repeats(f, m), IsFiniteSet(DOMAIN m),
           fc' = f, left' = m, DOMAIN map' \subseteq DOMAIN m,
           \A a \in DOMAIN map' : map'[a] = m[a]
    PROVE  Indexed' /\ Shrinks'
<1>2. Indexed'
    BY DEF Repeats, Indexed
<1>3. Shrinks'
    BY DEF Repeats, Shrinks
<1> QED
    BY <1>2, <1>3

\* An action that touches neither the array nor what step() left.
LEMMA ArrayUntouched ==
    ASSUME IInv, UNCHANGED << fc, left >>, DOMAIN map' \subseteq DOMAIN map,
           \A a \in DOMAIN map' : map'[a] = map[a]
    PROVE  Indexed' /\ Shrinks'
<1>1. Indexed'
    BY DEF IInv, Indexed
<1>2. Shrinks'
    BY DEF IInv, Shrinks
<1> QED
    BY <1>1, <1>2

LEMMA InitIInv == Init => IInv
<1> SUFFICES ASSUME Init PROVE IInv
    OBVIOUS
<1>1. Memory
    BY SizeAssumption DEF Init, Memory
<1>2. DOMAIN map = {} /\ DOMAIN left = {}
    BY DEF Init, Empty
<1>4. Indexed
    <2>1. /\ fc.g = 1 /\ fc.gen = [s \in 0 .. Slots - 1 |-> 0]
          /\ fc.tag = [s \in 0 .. Slots - 1 |-> Origin]
          /\ DOMAIN fc.ins = 0 .. Slots - 1
        BY DEF Init, NewFront
    <2>2. Origin \in Va
        BY SizeAssumption DEF Origin, Va, Segment, Off
    <2>3. fc.gen \in [0 .. Slots - 1 -> Nat] /\ \A s \in 0 .. Slots - 1 : fc.gen[s] = 0
        BY <2>1
    <2> QED
        BY <2>1, <2>2, <2>3 DEF Indexed
<1>5. Shrinks
    <2>1. fc.n = 0
        BY DEF Init, NewFront
    <2> QED
        BY <1>2, <2>1, FS_EmptySet DEF Shrinks
<1>6. Current
    BY <1>2 DEF Current, CurrentIn
<1> QED
    BY <1>1, <1>4, <1>5, <1>6 DEF IInv

LEMMA NextIInv == IInv /\ [Next]_vars => IInv'
<1> SUFFICES ASSUME IInv, [Next]_vars PROVE IInv'
    OBVIOUS
<1> USE DEF IInv
<1>1. ASSUME NEW a \in Va, StepCached(a) PROVE IInv'
    <2>1. a \in Fetchable /\ fc' = FrontAfter(a) /\ left' = MapAfter(a)
          /\ Effect(MapAfter(a)) /\ fresh' = fresh
        BY <1>1 DEF StepCached, At
    <2>2. CurrentIn(MapAfter(a)) /\ IsFiniteSet(DOMAIN MapAfter(a))
          /\ Repeats(FrontAfter(a), MapAfter(a))
        BY <2>1, FetchKeeps
    <2>3. /\ Current' /\ Memory'
          /\ DOMAIN map' \subseteq DOMAIN MapAfter(a)
          /\ \A x \in DOMAIN map' : map'[x] = MapAfter(a)[x]
        BY <2>1, <2>2, EffectKeeps
    <2>4. Indexed' /\ Shrinks'
        BY <2>1, <2>2, <2>3, ArrayStays
    <2> QED
        BY <2>3, <2>4
<1>2. ASSUME NEW a \in Va, StepRefused(a) PROVE IInv'
    <2>1. a \in Fetchable /\ fc' = FrontAfter(a) /\ left' = map /\ map' = map
          /\ UNCHANGED << mem, fresh, written >>
        BY <1>2 DEF StepRefused, At
    <2>2. IsFiniteSet(DOMAIN MapAfter(a)) /\ Repeats(FrontAfter(a), MapAfter(a))
        BY <2>1, FetchKeeps
    <2>3. MapAfter(a) = map
        BY <1>2 DEF StepRefused, MapAfter
    <2>4. Indexed' /\ Shrinks'
        BY <2>1, <2>2, <2>3, ArrayStays
    <2>5. Current' /\ Memory'
        BY <2>1 DEF Current, CurrentIn, Touched, Memory
    <2> QED
        BY <2>4, <2>5
<1>3. ASSUME Effect(map), UNCHANGED << fc, fresh, left >> PROVE IInv'
    <2>1. /\ Current' /\ Memory'
          /\ DOMAIN map' \subseteq DOMAIN map
          /\ \A x \in DOMAIN map' : map'[x] = map[x]
        BY <1>3, EffectKeeps DEF Current
    <2>2. Indexed' /\ Shrinks'
        BY <1>3, <2>1, ArrayUntouched
    <2> QED
        BY <2>1, <2>2
<1>4. ASSUME NEW a \in Va, StepUncached(a) PROVE IInv'
    BY <1>3, <1>4 DEF StepUncached
<1>5. ASSUME NEW a \in Va, StepSlot(a) PROVE IInv'
    BY <1>3, <1>5 DEF StepSlot
<1>6. CASE PageStore
    BY <1>3, <1>6 DEF PageStore
<1>7. CASE FlashWrite
    <2>1. mem'["ram"] = mem["ram"] /\ mem' \in [Chip -> [Off -> Code]]
        BY <1>7 DEF FlashWrite, Memory, Chip
    <2>2. UNCHANGED << map, fc, fresh, written, left >>
        BY <1>7 DEF FlashWrite
    <2>3. Current'
        BY <2>1, <2>2 DEF Current, CurrentIn, Touched, Decode, ChipOf
    <2>4. Indexed' /\ Shrinks'
        BY <2>2, ArrayUntouched
    <2> QED
        BY <2>1, <2>2, <2>3, <2>4 DEF Memory
<1>8. ASSUME NEW to \in BOOLEAN, Switch(to) PROVE IInv'
    <2>1. UNCHANGED << mem, fc, fresh, written, left >> /\ (map' = map \/ map' = Empty)
        BY <1>8 DEF Switch
    <2>2. DOMAIN map' \subseteq DOMAIN map /\ \A x \in DOMAIN map' : map'[x] = map[x]
        BY <2>1 DEF Empty
    <2>3. Current'
        BY <2>1, <2>2 DEF Current, CurrentIn, Touched
    <2>4. Indexed' /\ Shrinks'
        BY <2>1, <2>2, ArrayUntouched
    <2> QED
        BY <2>1, <2>3, <2>4 DEF Memory
<1>9. CASE Reset
    <2>1. /\ mem' \in [Chip -> [Off -> Code]]
          /\ written' = {} /\ fresh' = FALSE /\ UNCHANGED << map, fc, left >>
        <3>1. PICK image \in Images \cup {mem["flash"]} :
                 mem' = [mem EXCEPT !["ram"] = [o \in Off |-> Zero], !["flash"] = image]
            BY <1>9 DEF Reset
        <3>2. image \in [Off -> Code] /\ [o \in Off |-> Zero] \in [Off -> Code]
            BY ImagesAssumption, CodeAssumption DEF Memory, Chip, Off
        <3> QED
            BY <1>9, <3>1, <3>2 DEF Reset, Memory, Chip
    <2>2. Current'
        BY <2>1 DEF Current, CurrentIn, Touched
    <2>3. Indexed' /\ Shrinks'
        BY <2>1, ArrayUntouched
    <2> QED
        BY <2>1, <2>2, <2>3 DEF Memory
<1>10. ASSUME UNCHANGED << mem, map, fc, fresh, written, left >> PROVE IInv'
    <2>1. Current' /\ Memory'
        BY <1>10 DEF Current, CurrentIn, Touched, Memory
    <2>2. Indexed' /\ Shrinks'
        BY <1>10, ArrayUntouched
    <2> QED
        BY <2>1, <2>2
<1>11. CASE CallBegin \/ CallEnd \/ CallStops
    BY <1>10, <1>11 DEF CallBegin, CallEnd, CallStops
<1>12. CASE UNCHANGED vars
    BY <1>10, <1>12 DEF vars
<1> QED
    BY <1>1, <1>2, <1>4, <1>5, <1>6, <1>7, <1>8, <1>9, <1>11, <1>12 DEF Next

THEOREM Invariance == Spec => []IInv
<1> QED
    BY InitIInv, NextIInv, PTL DEF Spec

\* The one number detects every eviction.
THEOREM FrontIsHonest == Spec => []FrontFollowsMap
<1>1. IInv => FrontFollowsMap
    <2> SUFFICES ASSUME IInv, fc.n = Sized(map)
                 PROVE  \A s \in DOMAIN fc.gen :
                            fc.gen[s] = fc.g =>
                                /\ fc.tag[s] \in DOMAIN map
                                /\ map[fc.tag[s]] = fc.ins[s]
        BY DEF FrontFollowsMap
    <2>1. Checked(fc) = fc
        BY DEF Checked
    <2>2. DOMAIN fc.gen = 0 .. Slots - 1
        BY DEF IInv, Indexed
    <2> QED
        BY <2>1, <2>2, CheckIs
<1> QED
    BY <1>1, Invariance, PTL

\* No stale instruction of cached DRAM is ever fetched.
THEOREM NothingStaleRuns == Spec => []RunsWhatIsWritten
<1>1. IInv => RunsWhatIsWritten
    <2> SUFFICES ASSUME IInv, NEW a \in Fetchable, a.seg = "k0", Touched(a)
                 PROVE  Fetched(a) = Decode(mem, a, a)
        BY DEF RunsWhatIsWritten
    <2>1. a \in Va
        BY DEF Fetchable
    <2>2. a \in DOMAIN map => map[a] = Decode(mem, a, a)
        BY DEF IInv, Current, CurrentIn
    <2> QED
        BY <2>1, <2>2, FetchedIs DEF MapHit
<1> QED
    BY <1>1, Invariance, PTL

---------------------------------------------------------------------------
(* The probes (ProbeRig, accounted for as ProbeDiscipline says).           *)

\* What is left of a sequence from a place in it: empty at the end, and
\* dropping from its front is moving the place.
LEMMA RestOf ==
    ASSUME NEW S, NEW s \in Seq(S), NEW p \in Nat, p > 0, p <= Len(s) + 1,
           NEW t, t = SubSeq(s, p, Len(s))
    PROVE  /\ t = <<>> <=> p = Len(s) + 1
           /\ p <= Len(s) =>
                /\ Head(t) = s[p]
                /\ Tail(t) = SubSeq(s, p + 1, Len(s))
                /\ \A n \in Nat : p + n <= Len(s) =>
                      SubSeq(t, 2 + n, Len(t)) = SubSeq(s, p + 1 + n, Len(s))
<1>1. /\ t \in Seq(S) /\ Len(t) = Len(s) + 1 - p
      /\ \A i \in 1 .. Len(s) + 1 - p : t[i] = s[p + i - 1]
    BY SMT
<1>2. t = <<>> <=> Len(t) = 0
    BY <1>1, EmptySeq
<1>3. ASSUME p <= Len(s) PROVE Head(t) = s[p] /\ Tail(t) = SubSeq(s, p + 1, Len(s))
    <2>1. t # <<>> /\ Head(t) = t[1] /\ Tail(t) \in Seq(S) /\ Len(Tail(t)) = Len(s) - p
          /\ \A i \in 1 .. Len(s) - p : Tail(t)[i] = t[i + 1]
        BY <1>1, <1>2, <1>3, HeadTailProperties
    <2> DEFINE u == SubSeq(s, p + 1, Len(s))
    <2>3. u \in Seq(S) /\ Len(u) = Len(s) - p /\ \A i \in 1 .. Len(s) - p : u[i] = s[p + i]
        BY <1>3, SMT
    <2>4. \A i \in 1 .. Len(s) - p : Tail(t)[i] = u[i]
        BY <1>1, <2>1, <2>3, SMT
    <2> HIDE DEF u
    <2>5. Tail(t) = u
        BY <1>1, <1>3, <2>1, <2>3, <2>4, SeqEqual
    <2> QED
        BY <2>1, <2>5 DEF u
<1>4. ASSUME NEW n \in Nat, p + n <= Len(s)
      PROVE  SubSeq(t, 2 + n, Len(t)) = SubSeq(s, p + 1 + n, Len(s))
    <2> DEFINE u == SubSeq(s, p + 1 + n, Len(s))
               v == SubSeq(t, 2 + n, Len(t))
    <2>1. u \in Seq(S) /\ Len(u) = Len(s) - p - n /\ \A i \in 1 .. Len(s) - p - n : u[i] = s[p + n + i]
        BY <1>4, SMT
    <2>2. v \in Seq(S) /\ Len(v) = Len(s) - p - n
          /\ \A i \in 1 .. Len(s) - p - n : v[i] = t[1 + n + i]
        <3>1. /\ 2 + n \in 1 .. Len(t) + 1 /\ Len(t) \in Nat
              /\ Len(t) - (2 + n) + 1 = Len(s) - p - n
            BY <1>1, <1>4
        <3> DEFINE k == 2 + n
                   m == Len(t)
        <3>2. /\ v \in Seq(S) /\ Len(v) = m - k + 1
              /\ \A i \in 1 .. m - k + 1 : v[i] = t[k + i - 1]
            <4>1. t \in Seq(S) /\ k \in 1 .. m + 1 /\ m \in Nat /\ m = Len(t)
                BY <1>1, <3>1
            <4> HIDE DEF k, m
            <4>2. /\ SubSeq(t, k, m) \in Seq(S) /\ Len(SubSeq(t, k, m)) = m - k + 1
                  /\ \A i \in 1 .. m - k + 1 : SubSeq(t, k, m)[i] = t[k + i - 1]
                BY <4>1, SMT
            <4> QED
                BY <4>2 DEF k, m
        <3>3. \A i \in 1 .. Len(s) - p - n : k + i - 1 = 1 + n + i
            BY <1>4
        <3>4. 1 .. m - k + 1 = 1 .. Len(s) - p - n /\ m - k + 1 = Len(s) - p - n
            BY <3>1
        <3> HIDE DEF k, m
        <3> QED
            BY <3>2, <3>3, <3>4, Zenon
    <2>3. \A i \in 1 .. Len(s) - p - n : u[i] = v[i]
        BY <1>1, <1>4, <2>1, <2>2, SMT
    <2> HIDE DEF u, v
    <2>4. u = v
        BY <2>1, <2>2, <2>3, SeqEqual
    <2> QED
        BY <2>4 DEF u, v
<1> QED
    BY <1>1, <1>2, <1>3, <1>4

---------------------------------------------------------------------------
\* A file that is running and not at its end is before one of its operations,
\* with something certain there.
LEMMA Here ==
    ASSUME WellFormed, Accounted, RigInv, stage = "running", todo # <<>>
    PROVE  /\ file \in DOMAIN Script
           /\ \E p \in DOMAIN Script[file] : \E c \in Known[file][p] : Before(p, c)
<1> DEFINE s == Script[file]
<1>1. file \in DOMAIN Script /\ s \in Seq(Operation) /\ Sound(file, Known[file])
    BY DEF RigInv, WellFormed, Accounted
<1>2. PICK p \in DOMAIN Known[file] : AtPlace(p)
    BY DEF RigInv
<1>3. p \in 1 .. Len(s) + 1
    BY <1>1, <1>2 DEF Sound
<1>4. p # Len(s) + 1
    BY <1>1, <1>2, <1>3, RestOf DEF AtPlace
<1>5. p \in DOMAIN s
    BY <1>1, <1>3, <1>4
<1>6. PICK c \in Known[file][p] : Stands(c)
    BY <1>2 DEF AtPlace
<1>7. Op = s[p]
    BY <1>1, <1>2, <1>3, <1>4, RestOf DEF AtPlace, Op
<1>8. c \in Certainty
    BY <1>1, <1>2, <1>6 DEF Sound
<1>9. s[p] \in Operation
    BY <1>1, <1>5
<1> QED
    BY <1>1, <1>2, <1>5, <1>6, <1>7, <1>8, <1>9 DEF Before, AtPlace

\* Wherever control goes with something certain that then holds, the file is
\* accounted for there.
LEMMA Arrives ==
    ASSUME WellFormed, Accounted, NEW f \in DOMAIN Script,
           NEW p \in DOMAIN Script[f], NEW c \in Known[f][p],
           NEW q, NEW d, <<q, d>> \in Flows(Script[f], p, c),
           q \in 1 .. Len(Script[f]) + 1,
           file' = f, todo' = SubSeq(Script[f], q, Len(Script[f])), Stands(d)'
    PROVE  \E r \in DOMAIN Known[file]' : AtPlace(r)'
<1>1. Sound(f, Known[f])
    BY DEF Accounted
<1>2. PICK e \in Known[f][q] : Claims(e, d)
    BY <1>1 DEF Sound
<1>3. Stands(e)'
    BY <1>2 DEF Stands, Claims
<1>4. q \in DOMAIN Known[f]
    BY <1>1 DEF Sound
<1> QED
    BY <1>2, <1>3, <1>4 DEF AtPlace

LEMMA StepArrives ==
    ASSUME WellFormed, Accounted, file \in DOMAIN Script,
           NEW p \in DOMAIN Script[file], NEW c \in Known[file][p], Before(p, c),
           NEW d \in After(Script[file][p], c), Stands(d)',
           file' = file, todo' = Tail(todo)
    PROVE  \E r \in DOMAIN Known[file]' : AtPlace(r)'
<1> DEFINE s == Script[file]
<1>1. s \in Seq(Operation) /\ p \in 1 .. Len(s)
    BY DEF WellFormed
<1>2. todo' = SubSeq(s, p + 1, Len(s))
    BY <1>1, RestOf DEF Before
<1>3. <<p + 1, d>> \in Flows(s, p, c)
    BY DEF Flows
<1>4. p + 1 \in 1 .. Len(s) + 1
    BY <1>1
<1> QED
    BY <1>2, <1>3, <1>4, Arrives

LEMMA SkipArrives ==
    ASSUME WellFormed, Accounted, file \in DOMAIN Script,
           NEW p \in DOMAIN Script[file], NEW c \in Known[file][p], Before(p, c),
           NEW d \in Passed(Script[file][p], c), Stands(d)', Skip
    PROVE  \E r \in DOMAIN Known[file]' : AtPlace(r)'
<1> DEFINE s == Script[file]
           n == Script[file][p].skip
<1>1. s \in Seq(Operation) /\ p \in 1 .. Len(s) /\ n \in Nat /\ p + n <= Len(s)
    <2>1. s \in Seq(Operation) /\ p + n <= Len(s)
        BY DEF WellFormed
    <2>2. p \in 1 .. Len(s) /\ s[p] \in Operation
        BY <2>1
    <2> QED
        BY <2>1, <2>2 DEF Operation
<1>2. todo' = SubSeq(s, p + 1 + n, Len(s)) /\ file' = file
    <2>1. Op.skip = n /\ todo = SubSeq(s, p, Len(s))
        BY DEF Before
    <2>2. todo' = SubSeq(todo, 2 + n, Len(todo)) /\ file' = file
        BY <2>1 DEF Skip, LeaveWith
    <2> HIDE DEF s, n
    <2>3. \A m \in Nat : p + m <= Len(s) =>
             SubSeq(todo, 2 + m, Len(todo)) = SubSeq(s, p + 1 + m, Len(s))
        <3>1. p \in Nat /\ p > 0 /\ p <= Len(s) /\ p <= Len(s) + 1 /\ s \in Seq(Operation)
            BY <1>1
        <3> QED
            BY ONLY <2>1, <3>1, RestOf
    <2> QED
        BY <1>1, <2>2, <2>3
<1>3. <<p + 1 + n, d>> \in Flows(s, p, c)
    BY DEF Flows
<1>4. p + 1 + n \in 1 .. Len(s) + 1
    BY <1>1
<1> QED
    BY <1>2, <1>3, <1>4, Arrives

LEMMA ReturnArrives ==
    ASSUME WellFormed, Accounted, file \in DOMAIN Script,
           NEW p \in DOMAIN Script[file], NEW c \in Known[file][p], Before(p, c),
           Script[file][p].kind = "return", Stands(c)', LeaveWith(<<>>)
    PROVE  \E r \in DOMAIN Known[file]' : AtPlace(r)'
<1> DEFINE s == Script[file]
           t == SubSeq(Script[file], Len(Script[file]) + 1, Len(Script[file]))
<1>1. s \in Seq(Operation) /\ Len(s) \in Nat
    BY DEF WellFormed
<1>2. t = <<>>
    BY <1>1, RestOf
<1>3. <<Len(s) + 1, c>> \in Flows(s, p, c)
    BY DEF Flows
<1>4. todo' = t /\ file' = file /\ Len(s) + 1 \in 1 .. Len(s) + 1
    BY <1>1, <1>2 DEF LeaveWith
<1> QED
    BY <1>3, <1>4, Arrives

---------------------------------------------------------------------------
\* The types, and that no breakpoint is an earlier file's.
LEMMA TypesKept ==
    ASSUME WellFormed, Accounted, RigInv, RigNext
    PROVE  Types'
<1> USE DEF Types, RigInv
<1>1. CASE Boot
    BY <1>1 DEF Boot, Instruments, Logs, Owner
<1>2. CASE NextFile
    <2>1. \A o \in Owner : Older(o) \in Owner
        BY DEF Older, Owner
    <2>2. armed' \in [Instruments -> Owner] /\ log' \in [Logs -> Owner]
        BY <1>2, <2>1 DEF NextFile
    <2>3. armed["break"] = "no"
        BY <1>2 DEF NextFile, Quiet
    <2>4. armed'["break"] # "earlier"
        BY <1>2, <2>3 DEF NextFile, Older, Instruments
    <2> QED
        BY <1>2, <2>2, <2>4 DEF NextFile
<1>3. CASE Waits \/ Calls
    <2>1. armed' = armed /\ stalled' \in BOOLEAN
        BY <1>3 DEF Waits, Calls
    <2>2. (log' = log /\ ran' = ran) \/ Run
        BY <1>3 DEF Waits, Calls
    <2>3. CASE Run
        <3>1. ran' \subseteq Logs
            BY <2>3 DEF Run
        <3>2. log' \in [Logs -> Owner]
            BY <2>3 DEF Run, Owner
        <3> QED
            BY <2>1, <3>1, <3>2
    <2> QED
        BY <2>1, <2>2, <2>3
<1>4. CASE Arms \/ Disarms \/ Clears
    <2>1. ran' \subseteq Logs /\ stalled' = stalled
        BY <1>4 DEF Arms, Disarms, Clears
    <2>2. log' \in [Logs -> Owner]
        BY <1>4 DEF Arms, Disarms, Clears, Owner
    <2>3. armed' \in [Instruments -> Owner]
        BY <1>4 DEF Arms, Disarms, Clears, Owner
    <2>4. armed'["break"] # "earlier"
        BY <1>4 DEF Arms, Disarms, Clears, Instruments
    <2> QED
        BY <2>1, <2>2, <2>3, <2>4
<1>5. CASE UNCHANGED instruments
    BY <1>5 DEF instruments
<1>6. CASE Resumes \/ Airs
    BY <1>6 DEF Resumes, Airs
<1> QED
    BY <1>1, <1>2, <1>3, <1>4, <1>5, <1>6
       DEF RigNext, Close, Ended, Refused, Reads, Guest, Needs,
           NeedsStall, NeedsAir, Chooses

\* A step of a running file: whoever shows where it lands has shown the rest.
LEMMA Lands ==
    ASSUME RigInv, Types', stage = "running", LeaveWith(todo'),
           \E r \in DOMAIN Known[file]' : AtPlace(r)'
    PROVE  RigInv'
BY DEF RigInv, LeaveWith, NoReading, OwnReadings, MeasuresARunningMachine,
       Logs

\* What a file starts with is certain of whatever the last one left.
LEMMA FileStarts ==
    ASSUME WellFormed, Accounted, RigInv, NextFile
    PROVE  \E r \in DOMAIN Known[file]' : AtPlace(r)'
<1>1. PICK f \in DOMAIN Script : file' = f /\ todo' = Script[f]
    BY DEF NextFile
<1>2. Sound(f, Known[f]) /\ Script[f] \in Seq(Operation)
    BY DEF Accounted, WellFormed
<1>3. PICK c \in Known[f][1] : Claims(c, AtStart)
    BY <1>2 DEF Sound
<1>4. Quiet /\ Types
    BY DEF RigInv, NextFile
<1>5. Stands(AtStart)'
    <2>1. \A i \in Instruments : armed'[i] # "mine"
        BY <1>4 DEF NextFile, Older
    <2>2. armed'["ee"] # "no" /\ stalled' = FALSE
        BY <1>4 DEF NextFile, Older, Quiet, Instruments, Logs
    <2> QED
        BY <2>1, <2>2 DEF Stands, AtStart
<1>6. Stands(c)'
    BY <1>3, <1>5 DEF Stands, Claims
<1>7. todo' = SubSeq(Script[f], 1, Len(Script[f])) /\ 1 \in DOMAIN Known[f]
    BY <1>1, <1>2 DEF Sound
<1> QED
    BY <1>1, <1>3, <1>6, <1>7 DEF AtPlace

\* What a file leaves is quiet.
LEMMA FileEnds ==
    ASSUME WellFormed, Accounted, RigInv, Ended
    PROVE  Quiet'
<1>1. file \in DOMAIN Script /\ Sound(file, Known[file]) /\ Script[file] \in Seq(Operation)
    BY DEF RigInv, Ended, Accounted, WellFormed
<1>2. PICK p \in DOMAIN Known[file] : AtPlace(p)
    BY DEF RigInv, Ended
<1>3. p \in 1 .. Len(Script[file]) + 1
    BY <1>1, <1>2 DEF Sound
<1>4. p = Len(Script[file]) + 1
    <2> DEFINE s == Script[file]
    <2>1. todo = SubSeq(s, p, Len(s))
        BY <1>2 DEF AtPlace
    <2>2. s \in Seq(Operation) /\ p \in 1 .. Len(s) + 1
        BY <1>1, <1>3
    <2> HIDE DEF s
    <2>3. todo = <<>> <=> p = Len(s) + 1
        BY <2>1, <2>2, RestOf
    <2> QED
        BY <2>3 DEF s, Ended
<1>5. PICK c \in Known[file][p] : Stands(c)
    BY <1>2 DEF AtPlace
<1>6. Leaves(file, c)
    BY <1>1, <1>4 DEF Sound
<1>7. Types
    BY DEF RigInv
<1>8. Quiet
    <2>1. ~stalled
        BY <1>5, <1>6 DEF Leaves, Stands
    <2>2. armed["break"] = "no" /\ armed["ee"] # "no"
        BY <1>5, <1>6, <1>7 DEF Leaves, Stands, Types, Owner, Instruments
    <2>3. /\ armed["read"] = "mine" => file \in Abandoned
          /\ armed["write"] = "mine" => file \in NeverOff
        BY <1>5, <1>6 DEF Leaves, Stands
    <2> QED
        BY <2>1, <2>2, <2>3 DEF Quiet
<1> QED
    BY <1>8 DEF Quiet, Ended, instruments

---------------------------------------------------------------------------
\* The machine runs: what was certain stays so, and the logs it ran under are
\* known too.
LEMMA RunHolds ==
    ASSUME Types, NEW c \in Certainty, Stands(c), Run, armed' = armed
    PROVE  /\ \A l \in c.own : log'[l] # "earlier"
           /\ \A i \in c.on : armed'[i] # "no"
           /\ \A i \in c.off : armed'[i] # "mine"
           /\ c.ran \cup (c.on \cap Logs) \subseteq ran'
           /\ c.ran \subseteq ran'
<1>1. \A l \in c.own : log'[l] # "earlier"
    BY DEF Run, Stands, Certainty
<1>2. c.ran \cup (c.on \cap Logs) \subseteq ran'
    BY DEF Run, Stands, Certainty
<1> QED
    BY <1>1, <1>2 DEF Stands

\* Each operation that goes on leads to something that was foreseen.
LEMMA Foreseen ==
    ASSUME Types, WellFormed, file \in DOMAIN Script,
           NEW p \in DOMAIN Script[file], NEW c, Before(p, c),
           NEW op, op = Script[file][p],
           Waits \/ Calls \/ Resumes \/ Arms \/ Disarms \/ Clears
    PROVE  \E d \in After(op, c) : Stands(d)'
<1>1. c \in Certainty /\ Stands(c) /\ Op = op /\ op \in Operation
    BY DEF Before
<1>2. /\ op.kind \in {"arm", "disarm", "read"} => op.on \in Instruments
      /\ op.kind = "clear" => op.on \in Logs
    BY DEF WellFormed
<1>3. CASE Waits
    <2>1. op.kind = "wait"
        BY <1>1, <1>3 DEF Waits, Doing
    <2>2. CASE stalled
        <3>1. c \in After(op, c)
            BY <1>1, <2>1, <2>2 DEF After, Stands
        <3>2. Stands(c)'
            BY <1>1, <1>3, <2>2 DEF Waits, Stands
        <3> QED
            BY <3>1, <3>2
    <2>3. CASE ~stalled
        <3>1. c.running /\ Run /\ armed' = armed
            BY <1>1, <1>3, <2>3 DEF Waits, Stands
        <3>2. stalled' => armed["break"] # "no"
            BY <1>3, <2>3 DEF Waits
        <3>3. stalled' \in BOOLEAN
            BY <1>3 DEF Waits, Types
        <3>4. CASE ~stalled'
            <4>1. RanUnder(c) \in After(op, c)
                BY <2>1, <3>1 DEF After
            <4>2. Stands(RanUnder(c))'
                BY <1>1, <3>1, <3>4, RunHolds DEF Stands, RanUnder, Certainty
            <4> QED
                BY <4>1, <4>2
        <3>5. CASE stalled'
            <4>1. "break" \notin c.off
                BY <1>1, <3>2, <3>5 DEF Types, Stands, Owner, Instruments
            <4>2. Stalled(RanUnder(c)) \in After(op, c)
                BY <2>1, <3>1, <4>1 DEF After
            <4>3. Stands(Stalled(RanUnder(c)))'
                BY <1>1, <3>1, <3>5, RunHolds
                   DEF Stands, RanUnder, Stalled, Certainty
            <4> QED
                BY <4>2, <4>3
        <3> QED
            BY <3>3, <3>4, <3>5
    <2> QED
        BY <2>2, <2>3 DEF Types
<1>4. CASE Calls
    <2>1. After(op, c) = {RanUnder(c)}
        BY <1>1, <1>4 DEF Calls, Doing, After
    <2>2. Run /\ armed' = armed /\ stalled' = stalled
        BY <1>4 DEF Calls
    <2>3. Stands(RanUnder(c))'
        BY <1>1, <2>2, RunHolds DEF Stands, RanUnder, Certainty
    <2> QED
        BY <2>1, <2>3
<1>5. CASE Resumes
    <2>1. After(op, c) = {[c EXCEPT !.running = TRUE]}
        BY <1>1, <1>5 DEF Resumes, Doing, After
    <2>2. Stands([c EXCEPT !.running = TRUE])'
        BY <1>1, <1>5 DEF Resumes, Stands, Certainty
    <2> QED
        BY <2>1, <2>2
<1>6. CASE Arms
    <2> DEFINE w == op.on
               d == [c EXCEPT !.on = @ \cup TurnedOn(w), !.off = @ \ TurnedOn(w),
                              !.own = @ \cup ({w} \cap {"read", "write"}),
                              !.ran = @ \ {w}]
    <2>1. op.kind = "arm" /\ w \in Instruments
        BY <1>1, <1>2, <1>6 DEF Arms, Doing
    <2>2. After(op, c) = {d}
        BY <2>1 DEF After
    <2>3. /\ d.own = c.own \cup ({w} \cap {"read", "write"})
          /\ d.on = c.on \cup TurnedOn(w) /\ d.off = c.off \ TurnedOn(w)
          /\ d.ran = c.ran \ {w} /\ d.running = c.running
        BY <1>1 DEF Certainty
    <2>4. /\ armed' = [i \in Instruments |-> IF i \in TurnedOn(w) THEN "mine" ELSE armed[i]]
          /\ log' = IF Fresh(w) THEN [log EXCEPT ![w] = "no"] ELSE log
          /\ ran' = ran \ {w} /\ stalled' = stalled
        BY <1>1, <1>6 DEF Arms, TurnedOn
    <2> HIDE DEF d, w
    <2>5. \A l \in d.own : log'[l] # "earlier"
        BY <1>1, <2>3, <2>4 DEF Stands, Types, Certainty, Fresh
    <2>6. (\A i \in d.on : armed'[i] # "no") /\ (\A i \in d.off : armed'[i] # "mine")
        BY <1>1, <2>1, <2>3, <2>4 DEF Stands, Certainty, TurnedOn, Instruments
    <2>7. d.ran \subseteq ran' /\ d.running = ~stalled'
        BY <1>1, <2>3, <2>4 DEF Stands, Certainty, Types
    <2>8. Stands(d)'
        BY <2>5, <2>6, <2>7 DEF Stands
    <2> QED
        BY <2>2, <2>8
<1>7. CASE Disarms
    <2> DEFINE d == [c EXCEPT !.on = @ \ {op.on}, !.off = @ \cup {op.on}]
    <2>1. After(op, c) = {d} /\ op.on \in Instruments
        BY <1>1, <1>2, <1>7 DEF Disarms, Doing, After
    <2>2. /\ d.own = c.own /\ d.on = c.on \ {op.on} /\ d.off = c.off \cup {op.on}
          /\ d.ran = c.ran /\ d.running = c.running
        BY <1>1 DEF Certainty
    <2>3. armed' = [armed EXCEPT ![op.on] = "no"] /\ UNCHANGED <<log, ran, stalled>>
        BY <1>1, <1>7 DEF Disarms
    <2> HIDE DEF d
    <2>4. (\A i \in d.on : armed'[i] # "no") /\ (\A i \in d.off : armed'[i] # "mine")
        BY <1>1, <2>1, <2>2, <2>3 DEF Stands, Types, Certainty
    <2>5. Stands(d)'
        BY <1>1, <2>2, <2>3, <2>4 DEF Stands
    <2> QED
        BY <2>1, <2>5
<1>8. CASE Clears
    <2> DEFINE d == [c EXCEPT !.own = @ \cup {op.on}, !.ran = @ \ {op.on}]
    <2>1. After(op, c) = {d} /\ op.on \in Logs
        BY <1>1, <1>2, <1>8 DEF Clears, Doing, After
    <2>2. /\ d.own = c.own \cup {op.on} /\ d.ran = c.ran \ {op.on}
          /\ d.on = c.on /\ d.off = c.off /\ d.running = c.running
        BY <1>1 DEF Certainty
    <2>3. /\ log' = [log EXCEPT ![op.on] = "no"] /\ ran' = ran \ {op.on}
          /\ UNCHANGED <<armed, stalled>>
        BY <1>1, <1>8 DEF Clears
    <2> HIDE DEF d
    <2>4. (\A l \in d.own : log'[l] # "earlier") /\ d.ran \subseteq ran'
        BY <1>1, <2>1, <2>2, <2>3 DEF Stands, Types, Certainty
    <2>5. Stands(d)'
        BY <1>1, <2>2, <2>3, <2>4 DEF Stands
    <2> QED
        BY <2>1, <2>5
<1> QED
    BY <1>3, <1>4, <1>5, <1>6, <1>7, <1>8

\* The choices a file makes on what it measured, and what it requires.
LEMMA Chosen ==
    ASSUME WellFormed, Accounted, RigInv, Types',
           NEW p \in DOMAIN Script[file], NEW c \in Known[file][p], Before(p, c),
           file \in DOMAIN Script, stage = "running",
           Chooses \/ Needs \/ NeedsStall \/ NeedsAir
    PROVE  RigInv'
<1>1. PICK op : op = Script[file][p]
    OBVIOUS
<1>2. Stands(c) /\ Stands(c)' /\ Op = op /\ c \in Certainty /\ Types
    BY <1>1 DEF Before, RigInv, Stands, instruments, Chooses, Needs,
                NeedsStall, NeedsAir
<1>3. c.running = ~stalled
    BY <1>2 DEF Stands
<1>4. CASE Step /\ c \in After(op, c)
    <2>1. \E r \in DOMAIN Known[file]' : AtPlace(r)'
        BY <1>1, <1>2, <1>4, StepArrives DEF Step, LeaveWith
    <2> QED
        BY <1>4, <2>1, Lands DEF Step, LeaveWith
<1>5. CASE Skip /\ c \in Passed(op, c)
    <2>1. \E r \in DOMAIN Known[file]' : AtPlace(r)'
        BY <1>1, <1>2, <1>5, SkipArrives
    <2> QED
        BY <1>5, <2>1, Lands DEF Skip, LeaveWith
<1>6. CASE LeaveWith(<<>>) /\ op.kind = "return"
    <2>1. \E r \in DOMAIN Known[file]' : AtPlace(r)'
        BY <1>1, <1>2, <1>6, ReturnArrives
    <2> QED
        BY <1>6, <2>1, Lands DEF LeaveWith
<1>7. CASE Throw
    BY <1>7 DEF Throw, RigInv, NoReading, OwnReadings,
                MeasuresARunningMachine, Logs
<1>8. CASE Chooses
    <2>1. CASE op.kind = "maybe" /\ (Step \/ Skip)
        BY <1>4, <1>5, <2>1 DEF After, Passed
    <2>2. CASE op.kind = "ifStalled" /\ IF stalled THEN Step ELSE Skip
        BY <1>3, <1>4, <1>5, <2>2 DEF After, Passed
    <2>3. CASE op.kind = "ifRunning" /\ IF stalled THEN Skip ELSE Step
        BY <1>3, <1>4, <1>5, <2>3 DEF After, Passed
    <2>4. CASE op.kind = "jump" /\ Skip
        BY <1>5, <2>4 DEF Passed
    <2>5. CASE op.kind = "return" /\ LeaveWith(<<>>)
        BY <1>6, <2>5
    <2> QED
        BY <1>2, <1>8, <2>1, <2>2, <2>3, <2>4, <2>5 DEF Chooses, Doing
<1>9. CASE NeedsStall
    <2>1. op.kind = "needStall" /\ IF stalled THEN Step ELSE Throw
        BY <1>2, <1>9 DEF NeedsStall, Doing
    <2> QED
        BY <1>3, <1>4, <1>7, <2>1 DEF After
<1>10. CASE Needs \/ NeedsAir
    <2>1. op.kind \in {"need", "needAir"} /\ (Step \/ Throw)
        BY <1>2, <1>10 DEF Needs, NeedsAir, Doing
    <2>2. c \in After(op, c)
        BY <2>1 DEF After
    <2> QED
        BY <1>4, <1>7, <2>1, <2>2
<1> QED
    BY <1>8, <1>9, <1>10

\* A reading is taken where it is fit to be.
LEMMA Taken ==
    ASSUME WellFormed, Accounted, RigInv, Types',
           NEW p \in DOMAIN Script[file], NEW c \in Known[file][p], Before(p, c),
           file \in DOMAIN Script, stage = "running", Reads
    PROVE  RigInv'
<1>1. PICK op : op = Script[file][p]
    OBVIOUS
<1>2. Stands(c) /\ Stands(c)' /\ Op = op /\ op.kind = "read" /\ Types
    BY <1>1 DEF Before, RigInv, Stands, instruments, Reads, Doing
<1>3. c \in After(op, c)
    BY <1>2 DEF After
<1>4. \E r \in DOMAIN Known[file]' : AtPlace(r)'
    BY <1>1, <1>2, <1>3, StepArrives DEF Reads
<1>5. Fit(file, op.on, c)
    BY <1>1, <1>2 DEF Accounted, Sound
<1>6. /\ reading'.on = op.on
      /\ op.on \in Logs => reading'.oldest = log[op.on]
      /\ reading'.armed = armed[op.on]
      /\ reading'.ran = (op.on \in ran)
    BY <1>2 DEF Reads
<1>7. OwnReadings'
    BY <1>2, <1>5, <1>6 DEF OwnReadings, Fit, Stands, Reads
<1>8. MeasuresARunningMachine'
    BY <1>2, <1>5, <1>6 DEF MeasuresARunningMachine, Fit, Stands
<1> QED
    BY <1>4, <1>7, <1>8 DEF RigInv, Reads

LEMMA RigStarts == RigInit => RigInv
<1> SUFFICES ASSUME RigInit PROVE RigInv
    OBVIOUS
<1> USE DEF RigInit
<1>1. Types
    BY DEF Types, Instruments, Logs, Owner
<1>2. Quiet
    BY DEF Quiet, Instruments, Logs
<1>3. OwnReadings /\ MeasuresARunningMachine
    BY DEF OwnReadings, MeasuresARunningMachine, NoReading, Logs
<1> QED
    BY <1>1, <1>2, <1>3 DEF RigInv

LEMMA RigSteps ==
    ASSUME WellFormed, Accounted, RigInv, [RigNext]_rigVars
    PROVE  RigInv'
<1>1. CASE UNCHANGED rigVars
    BY <1>1 DEF rigVars, RigInv, Types, Quiet, AtPlace, Stands, OwnReadings,
                MeasuresARunningMachine
<1> SUFFICES ASSUME RigNext PROVE RigInv'
    BY <1>1
<1>2. Types'
    BY TypesKept
<1> DEFINE Unread == reading' = NoReading
<1>3. Unread => OwnReadings' /\ MeasuresARunningMachine'
    BY DEF OwnReadings, MeasuresARunningMachine, NoReading, Logs
<1>4. CASE Boot
    <2>1. Quiet /\ stage' \in {"between", "error"} /\ Types
        BY <1>4 DEF Boot, RigInv
    <2>2. Quiet'
        BY <1>4, <2>1 DEF Boot, Quiet, Types, Instruments, Logs
    <2>3. OwnReadings' /\ MeasuresARunningMachine'
        BY <1>4 DEF Boot, RigInv, OwnReadings, MeasuresARunningMachine
    <2> QED
        BY <1>2, <2>1, <2>2, <2>3 DEF RigInv
<1>5. CASE NextFile
    <2>1. file' \in DOMAIN Script /\ stage' = "running" /\ Unread
        BY <1>5 DEF NextFile
    <2> QED
        BY <1>2, <1>3, <1>5, <2>1, FileStarts DEF RigInv
<1>6. CASE Close
    BY <1>2, <1>3, <1>6 DEF Close, RigInv
<1>7. CASE Ended
    BY <1>2, <1>3, <1>7, FileEnds DEF Ended, RigInv
<1>8. ASSUME stage = "running", todo # <<>> PROVE RigInv'
    <2>1. file \in DOMAIN Script
        BY <1>8, Here
    <2>2. PICK p \in DOMAIN Script[file] : \E e \in Known[file][p] : Before(p, e)
        BY <1>8, Here
    <2>3. PICK c \in Known[file][p] : Before(p, c)
        BY <2>2
    <2>4. PICK op : op = Script[file][p]
        OBVIOUS
    <2>5. Types /\ Op = op
        BY <2>3, <2>4 DEF RigInv, Before
    <2>6. ASSUME NEW d \in After(op, c), Stands(d)', Step PROVE RigInv'
        <3>1. \E r \in DOMAIN Known[file]' : AtPlace(r)'
            BY <2>1, <2>3, <2>4, <2>6, StepArrives DEF Step, LeaveWith
        <3> QED
            BY <1>2, <1>8, <2>6, <3>1, Lands DEF Step, LeaveWith
    <2>7. CASE \/ Waits \/ Calls \/ Resumes
               \/ Arms \/ Disarms \/ Clears
        <3>1. PICK d \in After(op, c) : Stands(d)'
            BY <2>1, <2>3, <2>4, <2>5, <2>7, Foreseen
        <3>2. Step
            BY <2>7 DEF Waits, Calls, Resumes, Arms, Disarms, Clears
        <3> QED
            BY <2>6, <3>1, <3>2
    <2>8. CASE Refused \/ Guest \/ Airs
        <3>1. op.kind \in {"refused", "guest", "carousel"} /\ Step
            BY <2>5, <2>8 DEF Refused, Guest, Airs, Doing
        <3>2. c \in After(op, c)
            BY <3>1 DEF After
        <3>3. Stands(c)'
            BY <2>3, <2>8
               DEF Before, Stands, Refused, Guest, Airs, instruments
        <3> QED
            BY <2>6, <3>1, <3>2, <3>3
    <2>9. CASE Reads
        BY <1>2, <1>8, <2>1, <2>3, <2>9, Taken
    <2>10. CASE Chooses \/ Needs \/ NeedsStall \/ NeedsAir
        BY <1>2, <1>8, <2>1, <2>3, <2>10, Chosen
    <2> QED
        BY <1>4, <1>5, <1>6, <1>7, <2>7, <2>8, <2>9, <2>10 DEF RigNext
<1> QED
    BY <1>4, <1>5, <1>6, <1>7, <1>8
       DEF RigNext, Waits, Resumes, Arms, Disarms, Refused, Clears,
           Reads, Guest, Calls, Airs, Needs, NeedsStall, NeedsAir,
           Chooses, Doing

THEOREM RigInvariance == RigSpec => []RigInv
<1>1. RigInv /\ [RigNext]_rigVars => RigInv'
    BY RigSteps, ScriptAssumption, DisciplineAssumption
<1> QED
    BY <1>1, RigStarts, PTL DEF RigSpec

\* Whatever ran before, what a probe reads in a log is its own, unless it is
\* one that reads the box at rest.
THEOREM ReadingsAreTheirOwn == RigSpec => []OwnReadings
<1>1. RigInv => OwnReadings
    BY DEF RigInv
<1> QED
    BY <1>1, RigInvariance, PTL

\* Whatever ran before, no probe reads an instrument that is off or a log of a
\* machine that has not run.
THEOREM ReadingsMeanSomething == RigSpec => []MeasuresARunningMachine
<1>1. RigInv => MeasuresARunningMachine
    BY DEF RigInv
<1> QED
    BY <1>1, RigInvariance, PTL

\* Between two files the machine runs, with no breakpoint and no watch left by
\* any but the files known to leave one.
THEOREM NothingIsLeftArmed == RigSpec => []EndsQuiet
<1>1. RigInv => EndsQuiet
    BY DEF RigInv, Quiet, EndsQuiet
<1> QED
    BY <1>1, RigInvariance, PTL

---------------------------------------------------------------------------
(* The interpreter's arithmetic, for half-words of any size.               *)

\* Division with remainder, and that nothing else is.
LEMMA DivisionIs ==
    ASSUME NEW n \in Int, NEW d \in Int, d > 0
    PROVE  \E q \in Int : \E r \in 0 .. d - 1 :
             n \div d = q /\ n % d = r /\ n = d * q + r
<1> DEFINE q == n \div d
           r == n % d
<1>1. q \in Int /\ r \in 0 .. d - 1
    BY SMT
<1>2. n \div d = q /\ n % d = r
    OBVIOUS
<1> HIDE DEF q, r
<1>3. n = d * q + r
    BY <1>1, <1>2, SMT
<1> QED
    BY <1>1, <1>2, <1>3, Zenon

LEMMA DivisionIsUnique ==
    ASSUME NEW n \in Int, NEW d \in Int, d > 0, NEW q \in Int, NEW r \in 0 .. d - 1,
           n = d * q + r
    PROVE  n \div d = q /\ n % d = r
BY SMT

LEMMA BaseIs == Half \in Int /\ Half > 0 /\ Base \in Int /\ Base > 0 /\ Base > 1
<1>1. Half \in Int /\ Half > 1
    BY HalfAssumption
<1> QED
    BY <1>1, SMT DEF Base

\* The parts of a product of two words, in powers of half a word.
LEMMA PartsMultiply ==
    ASSUME NEW h \in Int,
           NEW ah \in Int, NEW al \in Int, NEW bh \in Int, NEW bl \in Int,
           NEW mh \in Int, NEW ml \in Int, NEW carry \in Int, NEW lo \in Int,
           al * bh + ah * bl = h * mh + ml,
           al * bl + ml * h = (h * h) * carry + lo
    PROVE  (h * ah + al) * (h * bh + bl) = (h * h) * (ah * bh + mh + carry) + lo
<1> DEFINE m == al * bh + ah * bl
           s == al * bl
           t == ah * bh
<1>1. m \in Int /\ s \in Int /\ t \in Int
    OBVIOUS
<1>2. (h * ah + al) * (h * bh + bl) = (h * h) * t + h * m + s
    BY SMT
<1>3. m = h * mh + ml /\ s + ml * h = (h * h) * carry + lo
    OBVIOUS
<1> HIDE DEF m, s, t
<1>4. (h * h) * t + h * m + s = (h * h) * (t + mh + carry) + lo
    BY <1>1, <1>3, SMT
<1> QED
    BY <1>2, <1>4 DEF t

LEMMA Smaller ==
    ASSUME NEW d \in Int, d > 0, NEW p \in Int, NEW q \in Int, d * p < d * q
    PROVE  p < q
BY SMT

LEMMA ProductsFit ==
    ASSUME NEW d \in Int, d > 0, NEW u \in 0 .. d - 1, NEW v \in 0 .. d - 1
    PROVE  u * v \in Int /\ 0 <= u * v /\ u * v < d * d
BY SMT

\* Two words are multiplied by their halves and nothing is lost between them.
LEMMA HalvesMultiply ==
    ASSUME NEW u \in Word, NEW v \in Word,
           NEW ah, ah = u \div Half, NEW al, al = u % Half,
           NEW bh, bh = v \div Half, NEW bl, bl = v % Half,
           NEW mid, mid = al * bh + ah * bl,
           NEW sum, sum = al * bl + (mid % Half) * Half,
           NEW lo, lo = Wrap(sum),
           NEW hi, hi = Wrap(ah * bh + mid \div Half + sum \div Base)
    PROVE  /\ hi \in Word /\ lo \in Word /\ u * v = Base * hi + lo
           /\ ah * bh + mid \div Half + sum \div Base \in Word
<1>1. u \in 0 .. Base - 1 /\ v \in 0 .. Base - 1 /\ u \in Int /\ v \in Int
    BY BaseIs DEF Word
<1>2. /\ ah \in Int /\ al \in 0 .. Half - 1 /\ u = Half * ah + al
      /\ bh \in Int /\ bl \in 0 .. Half - 1 /\ v = Half * bh + bl
    <2>1. \E q \in Int : \E r \in 0 .. Half - 1 :
            u \div Half = q /\ u % Half = r /\ u = Half * q + r
        BY <1>1, BaseIs, DivisionIs, Zenon
    <2>2. \E q \in Int : \E r \in 0 .. Half - 1 :
            v \div Half = q /\ v % Half = r /\ v = Half * q + r
        BY <1>1, BaseIs, DivisionIs, Zenon
    <2> QED
        BY <2>1, <2>2, Zenon
<1>3. al \in Int /\ bl \in Int /\ al * bl \in Int /\ mid \in Int
    BY <1>2, BaseIs
<1>4. PICK mh \in Int, ml \in 0 .. Half - 1 :
            mid \div Half = mh /\ mid % Half = ml /\ mid = Half * mh + ml
    <2>1. \A n \in Int : \E q \in Int : \E r \in 0 .. Half - 1 :
            n \div Half = q /\ n % Half = r /\ n = Half * q + r
        BY BaseIs, DivisionIs, Zenon
    <2>2. mid \in Int
        BY <1>3
    <2> QED
        BY <2>1, <2>2, Zenon
<1>5. ml \in Int /\ sum = al * bl + ml * Half /\ sum \in Int
    BY <1>3, <1>4, BaseIs
<1>6. PICK carry \in Int, rest \in 0 .. Base - 1 :
            sum \div Base = carry /\ sum % Base = rest /\ sum = Base * carry + rest
    <2>1. \E q \in Int : \E r \in 0 .. Base - 1 :
            sum \div Base = q /\ sum % Base = r /\ sum = Base * q + r
        BY <1>5, BaseIs, DivisionIs, Zenon
    <2> QED
        BY <2>1, Zenon
<1>7. lo = rest /\ lo \in Int
    BY <1>6, BaseIs DEF Wrap
<1> DEFINE all == ah * bh + mh + carry
<1>8. all \in Int /\ hi = Wrap(all)
    <2>1. all \in Int
        <3>1. ah \in Int /\ bh \in Int /\ mh \in Int /\ carry \in Int
            BY <1>2
        <3>2. \A a1, a2, a3, a4 \in Int : a1 * a2 + a3 + a4 \in Int
            OBVIOUS
        <3> QED
            BY <3>1, <3>2, Zenon
    <2>2. hi = Wrap(ah * bh + mid \div Half + sum \div Base)
        OBVIOUS
    <2> QED
        BY <1>4, <1>6, <2>1, <2>2, Zenon
<1>8a. ah * bh + mid \div Half + sum \div Base = all
    BY <1>4, <1>6, Zenon
<1>9. u * v = Base * all + lo
    <2>1. al * bh + ah * bl = Half * mh + ml /\ al * bl + ml * Half = (Half * Half) * carry + lo
        BY <1>4, <1>5, <1>6, <1>7 DEF Base
    <2>2. (Half * ah + al) * (Half * bh + bl) = (Half * Half) * all + lo
        BY <1>2, <1>3, <1>4, <1>5, <1>6, <1>7, <2>1, BaseIs, PartsMultiply
    <2> QED
        BY <1>2, <2>2 DEF Base
<1> HIDE DEF all
<1>10. 0 <= u * v /\ u * v < Base * Base /\ u * v \in Int
    BY <1>1, BaseIs, ProductsFit
<1>11. all \in 0 .. Base - 1
    <2>1. 0 <= all
        <3>1. SUFFICES ASSUME all < 0 PROVE FALSE
            BY <1>8
        <3>2. Base * all <= Base * (-1)
            BY <1>8, <3>1, BaseIs, SMT
        <3> QED
            BY <1>6, <1>7, <1>8, <1>9, <1>10, <3>2, BaseIs
    <2>2. all < Base
        <3>1. Base * all < Base * Base
            BY <1>6, <1>7, <1>8, <1>9, <1>10, BaseIs
        <3> QED
            BY <1>8, <3>1, BaseIs, Smaller
    <2> QED
        BY <1>8, <2>1, <2>2, BaseIs
<1>12. hi = all
    <2>1. all = Base * 0 + all /\ 0 \in Int
        BY <1>8, BaseIs
    <2>2. all % Base = all
        BY <1>8, <1>11, <2>1, BaseIs, DivisionIsUnique, Zenon
    <2> QED
        BY <1>8, <2>2 DEF Wrap
<1> QED
    BY <1>6, <1>7, <1>9, <1>11, <1>12, <1>8a DEF Word

\* Each half of a word is less than what a half-word counts to.
LEMMA HalvesAreSmall ==
    ASSUME NEW u \in 0 .. Base - 1
    PROVE  u \div Half \in 0 .. Half - 1 /\ u % Half \in 0 .. Half - 1
<1>1. PICK q \in Int, r \in 0 .. Half - 1 :
            u \div Half = q /\ u % Half = r /\ u = Half * q + r
    <2>1. u \in Int
        OBVIOUS
    <2> QED
        BY <2>1, BaseIs, DivisionIs, Zenon
<1>2. 0 <= u /\ u < Half * Half /\ Half * q + r < Half * Half /\ 0 <= Half * q + r
    BY <1>1, BaseIs DEF Base
<1>3. q < Half
    <2>1. Half * q < Half * Half
        BY <1>1, <1>2, BaseIs
    <2> QED
        BY <2>1, BaseIs, Smaller
<1>4. Half * (-1) < Half * q
    BY <1>1, <1>2, BaseIs
<1>5. -1 < q
    BY <1>4, BaseIs, Smaller
<1> QED
    BY <1>1, <1>3, <1>5, BaseIs

\* "every partial product stays exact in a double (no value exceeds 2^48)", says
\* the comment on mul64(): whatever two words are multiplied, the sums between
\* the limbs stay below two words, and what goes into the high word fits it.
THEOREM LimbsStayExact ==
    ASSUME NEW u \in Word, NEW v \in Word
    PROVE  LET ah == u \div Half   al == u % Half
               bh == v \div Half   bl == v % Half
               mid == al * bh + ah * bl
               sum == al * bl + (mid % Half) * Half
           IN  /\ mid \in 0 .. 2 * Base - 1
               /\ sum \in 0 .. 2 * Base - 1
               /\ ah * bh + mid \div Half + sum \div Base \in Word
<1> DEFINE ah == u \div Half   al == u % Half
           bh == v \div Half   bl == v % Half
           mid == al * bh + ah * bl
           sum == al * bl + (mid % Half) * Half
           lo == Wrap(sum)
           hi == Wrap(ah * bh + mid \div Half + sum \div Base)
<1>1. u \in 0 .. Base - 1 /\ v \in 0 .. Base - 1
    BY DEF Word
<1>2. /\ hi \in Word /\ lo \in Word /\ u * v = Base * hi + lo
      /\ ah * bh + mid \div Half + sum \div Base \in Word
    BY HalvesMultiply
<1>3. /\ ah \in 0 .. Half - 1 /\ al \in 0 .. Half - 1
      /\ bh \in 0 .. Half - 1 /\ bl \in 0 .. Half - 1
    BY <1>1, BaseIs, HalvesAreSmall
<1> HIDE DEF ah, al, bh, bl
<1>4. /\ al * bh \in 0 .. Base - 1 /\ ah * bl \in 0 .. Base - 1
      /\ al * bl \in 0 .. Base - 1
    BY <1>3, BaseIs, ProductsFit DEF Base
<1>5. mid \in 0 .. 2 * Base - 1 /\ mid \in Int
    BY <1>4, BaseIs
<1> HIDE DEF mid
<1>6. (mid % Half) * Half \in 0 .. Base - 1
    <2>1. mid % Half \in 0 .. Half - 1
        BY <1>5, BaseIs, SMT
    <2> DEFINE m == mid % Half
    <2> HIDE DEF m
    <2>2. m \in 0 .. Half - 1
        BY <2>1 DEF m
    <2>3. m * Half <= (Half - 1) * Half /\ 0 <= m * Half /\ m * Half \in Int
        BY <2>2, BaseIs, SMT
    <2>4. (Half - 1) * Half <= Half * Half - 1
        BY BaseIs, SMT
    <2> QED
        BY <2>3, <2>4, BaseIs DEF m, Base
<1>7. sum \in 0 .. 2 * Base - 1
    BY <1>4, <1>6, BaseIs
<1> QED
    BY <1>2, <1>5, <1>7, Zenon DEF ah, al, bh, bl, mid

\* A number made of two words is read back from them.
LEMMA TwoWords ==
    ASSUME NEW hi \in Word, NEW lo \in Word
    PROVE  \A n \in Int : n = Base * hi + lo =>
             << Wrap(n \div Base), Wrap(n) >> = << hi, lo >>
<1>0. SUFFICES ASSUME NEW n \in Int, n = Base * hi + lo
               PROVE  << Wrap(n \div Base), Wrap(n) >> = << hi, lo >>
    OBVIOUS
<1>1. /\ hi \in 0 .. Base - 1 /\ lo \in 0 .. Base - 1 /\ hi \in Int
      /\ Base \in Int /\ Base > 0 /\ 0 \in Int /\ hi = Base * 0 + hi
    BY BaseIs DEF Word
<1>2. n \div Base = hi /\ n % Base = lo
    BY <1>0, <1>1, DivisionIsUnique, Zenon
<1>3. hi \div Base = 0 /\ hi % Base = hi
    BY <1>1, DivisionIsUnique, Zenon
<1> QED
    BY <1>2, <1>3, Zenon DEF Wrap

\* Taking the complement of both words negates the number.
LEMMA Complement ==
    ASSUME NEW hi \in Word, NEW lo \in Word
    PROVE  \A n \in Int : n = -(Base * hi + lo) =>
             << Wrap(n \div Base), Wrap(n) >> =
                 IF lo = 0 THEN << Wrap(Base - hi), 0 >>
                 ELSE << Wrap(Base - 1 - hi), Base - lo >>
<1>0. SUFFICES ASSUME NEW n \in Int, n = -(Base * hi + lo)
               PROVE  << Wrap(n \div Base), Wrap(n) >> =
                          IF lo = 0 THEN << Wrap(Base - hi), 0 >>
                          ELSE << Wrap(Base - 1 - hi), Base - lo >>
    OBVIOUS
<1>1. /\ hi \in 0 .. Base - 1 /\ lo \in 0 .. Base - 1 /\ hi \in Int /\ lo \in Int
      /\ Base \in Int /\ Base > 0
    BY BaseIs DEF Word
<1>2. 0 \in Word /\ -1 \in Int /\ 0 \in Int /\ 1 \in Int /\ 0 \in 0 .. Base - 1
    BY <1>1 DEF Word
<1>3. CASE lo = 0 /\ hi = 0
    <2>1. n = Base * 0 + 0 /\ 0 = Base * 0 + 0 /\ Base - hi = Base * 1 + 0 /\ Base - hi \in Int
        BY <1>0, <1>1, <1>3
    <2>2. Wrap(Base - hi) = 0
        <3> DEFINE c == Base - hi
        <3> HIDE DEF c
        <3>1. c \in Int /\ c = Base * 1 + 0
            BY <2>1 DEF c
        <3>2. c % Base = 0
            BY <1>1, <1>2, <3>1, DivisionIsUnique, Zenon
        <3> QED
            BY <3>2, Zenon DEF Wrap, c
    <2>3. n \div Base = 0 /\ n % Base = 0
        BY <1>1, <1>2, <2>1, DivisionIsUnique, Zenon
    <2>4. 0 % Base = 0
        BY <1>1, SMT
    <2>5. Wrap(n \div Base) = 0 /\ Wrap(n) = 0
        BY <2>3, <2>4, Zenon DEF Wrap
    <2> QED
        BY <1>3, <2>2, <2>5
<1>4. CASE lo = 0 /\ hi # 0
    <2> DEFINE c == Base - hi
               k == -1
    <2>1. c \in 0 .. Base - 1 /\ c \in Int /\ c = Base * 0 + c /\ k \in Int
        BY <1>1, <1>4 DEF Word
    <2>2. n = Base * (Base * k + c) + 0 /\ Base * k + c \in Int
        BY <1>0, <1>1, <1>4, SMT
    <2> HIDE DEF c, k
    <2>3. Wrap(c) = c
        BY <1>1, <1>2, <2>1, DivisionIsUnique, Zenon DEF Wrap
    <2> DEFINE q == Base * k + c
    <2>4. q = Base * k + c /\ q \in Int /\ n = Base * q + 0
        BY <2>2
    <2> HIDE DEF q
    <2>5. n \div Base = q /\ n % Base = 0
        BY <1>1, <1>2, <2>1, <2>4, DivisionIsUnique, Zenon
    <2>6. q \div Base = k /\ q % Base = c
        BY <1>1, <1>2, <2>1, <2>4, DivisionIsUnique, Zenon
    <2>7. Wrap(n \div Base) = c /\ Wrap(n) = 0
        BY <2>5, <2>6, Zenon DEF Wrap
    <2> QED
        BY <1>4, <2>3, <2>7 DEF c
<1>5. CASE lo # 0
    <2> DEFINE c == Base - 1 - hi
               d == Base - lo
               k == -1
    <2>1. /\ c \in 0 .. Base - 1 /\ c \in Int /\ c = Base * 0 + c
          /\ d \in 0 .. Base - 1 /\ k \in Int
        BY <1>1, <1>5
    <2>2. n = Base * (Base * k + c) + d /\ Base * k + c \in Int
        BY <1>0, <1>1, <1>5, SMT
    <2> HIDE DEF c, d, k
    <2>3. Wrap(c) = c
        BY <1>1, <1>2, <2>1, DivisionIsUnique, Zenon DEF Wrap
    <2> DEFINE q == Base * k + c
    <2>4. q = Base * k + c /\ q \in Int /\ n = Base * q + d
        BY <2>2
    <2> HIDE DEF q
    <2>5. n \div Base = q /\ n % Base = d
        BY <1>1, <1>2, <2>1, <2>4, DivisionIsUnique, Zenon
    <2>6. q \div Base = k /\ q % Base = c
        BY <1>1, <1>2, <2>1, <2>4, DivisionIsUnique, Zenon
    <2>7. Wrap(n \div Base) = c /\ Wrap(n) = d
        BY <2>5, <2>6, Zenon DEF Wrap
    <2> QED
        BY <1>5, <2>3, <2>7 DEF c, d
<1> QED
    BY <1>3, <1>4, <1>5

\* The limbs of two numbers no farther from 0 than a word make their product.
LEMMA LimbsMultiply ==
    ASSUME NEW x \in Int, NEW y \in Int,
           (IF x < 0 THEN -x ELSE x) \in Word, (IF y < 0 THEN -y ELSE y) \in Word
    PROVE  Limbs(x, y) = << Wrap((x * y) \div Base), Wrap(x * y) >>
<1> DEFINE neg == (x < 0) /= (y < 0)
           u == IF x < 0 THEN -x ELSE x
           v == IF y < 0 THEN -y ELSE y
           ah == u \div Half
           al == u % Half
           bh == v \div Half
           bl == v % Half
           mid == al * bh + ah * bl
           sum == al * bl + (mid % Half) * Half
           lo == Wrap(sum)
           hi == Wrap(ah * bh + mid \div Half + sum \div Base)
           w == IF lo = 0 THEN << Wrap(Base - hi), 0 >>
                ELSE << Wrap(Base - 1 - hi), Base - lo >>
<1>1. Limbs(x, y) = IF ~neg THEN << hi, lo >> ELSE w
    BY Zenon DEF Limbs
<1>2. hi \in Word /\ lo \in Word /\ u * v = Base * hi + lo
    <2>1. u \in Word /\ v \in Word
        OBVIOUS
    <2> HIDE DEF u, v
    <2> QED
        BY <2>1, HalvesMultiply
<1>3. x * y = IF neg THEN -(u * v) ELSE u * v
    BY SMT
<1>4. x * y \in Int
    OBVIOUS
<1> HIDE DEF neg, u, v, hi, lo, w
<1>5. CASE ~neg
    <2>1. x * y = Base * hi + lo
        BY <1>2, <1>3, <1>5, Zenon
    <2>2. \A n \in Int : n = Base * hi + lo =>
            << Wrap(n \div Base), Wrap(n) >> = << hi, lo >>
        BY <1>2, TwoWords, Zenon
    <2>3. << Wrap((x * y) \div Base), Wrap(x * y) >> = << hi, lo >>
        BY <1>4, <2>1, <2>2, Zenon
    <2> QED
        BY <1>1, <1>5, <2>3, Zenon
<1>6. CASE neg
    <2>1. x * y = -(Base * hi + lo)
        BY <1>2, <1>3, <1>6, Zenon
    <2>2. \A n \in Int : n = -(Base * hi + lo) =>
            << Wrap(n \div Base), Wrap(n) >> = w
        BY <1>2, Complement, Zenon DEF w
    <2> HIDE DEF w
    <2>3. << Wrap((x * y) \div Base), Wrap(x * y) >> = w
        BY <1>4, <2>1, <2>2, Zenon
    <2> QED
        BY <1>1, <1>6, <2>3, Zenon
<1> QED
    BY <1>5, <1>6

\* A word is no farther from 0 than a word, whichever way it is read.
LEMMA Magnitude ==
    ASSUME NEW a \in Word, NEW s, s = a \/ s = Signed(a)
    PROVE  s \in Int /\ (IF s < 0 THEN -s ELSE s) \in Word
<1>1. Base \in Int /\ Base > 1 /\ a \in Int /\ 0 <= a /\ a < Base
    BY BaseIs DEF Word
<1>2. Signed(a) = a \/ (Signed(a) = a - Base /\ a >= Base \div 2)
    <2>1. CASE a >= Base \div 2
        BY <2>1 DEF Signed
    <2>2. CASE ~(a >= Base \div 2)
        BY <2>2 DEF Signed
    <2> QED
        BY <2>1, <2>2
<1>3. s \in Int /\ (s = a \/ (s = a - Base /\ a >= Base \div 2))
    BY <1>1, <1>2
<1>4. s = a - Base /\ a >= Base \div 2 => -s <= Base - 1
    <2>1. Base \div 2 >= 1
        BY <1>1
    <2> QED
        BY <1>1, <2>1
<1> QED
    BY <1>1, <1>3, <1>4 DEF Word


\* mult and multu (mul64): for a word of any size, what is left in hi and lo is
\* the product, read with or without sign.
THEOREM ProductsAreExact ==
    ASSUME NEW a \in Word, NEW b \in Word
    PROVE  /\ Mul64(a, b, FALSE) = << Wrap((a * b) \div Base), Wrap(a * b) >>
           /\ LET p == Signed(a) * Signed(b)
              IN  Mul64(a, b, TRUE) = << Wrap(p \div Base), Wrap(p) >>
<1>1. Limbs(a, b) = << Wrap((a * b) \div Base), Wrap(a * b) >>
    <2>1. /\ a \in Int /\ (IF a < 0 THEN -a ELSE a) \in Word
          /\ b \in Int /\ (IF b < 0 THEN -b ELSE b) \in Word
        BY Magnitude
    <2> QED
        BY <2>1, LimbsMultiply
<1>2. ASSUME NEW s, NEW t, s = Signed(a), t = Signed(b)
      PROVE  Limbs(s, t) = << Wrap((s * t) \div Base), Wrap(s * t) >>
    <2>1. /\ s \in Int /\ (IF s < 0 THEN -s ELSE s) \in Word
          /\ t \in Int /\ (IF t < 0 THEN -t ELSE t) \in Word
        BY <1>2, Magnitude
    <2> QED
        BY <2>1, LimbsMultiply
<1> QED
    BY <1>1, <1>2, Zenon DEF Mul64

\* div and divu: the quotient is truncated towards 0, and the remainder has the
\* sign of what was divided.
THEOREM QuotientsTruncate ==
    ASSUME NEW a \in Int, NEW b \in Int, b # 0, NEW p, p = Div(a, b)
    PROVE  /\ p[1] \in Int /\ p[2] \in Int
           /\ a = p[2] * b + p[1]
           /\ (IF p[1] < 0 THEN -p[1] ELSE p[1]) < IF b < 0 THEN -b ELSE b
           /\ p[1] = 0 \/ (p[1] < 0 <=> a < 0)
<1> DEFINE u == IF a < 0 THEN -a ELSE a
           d == IF b < 0 THEN -b ELSE b
<1>1. u \in Int /\ u >= 0 /\ d \in Int /\ d > 0
    OBVIOUS
<1>2. PICK q \in Int, r \in 0 .. d - 1 : u \div d = q /\ u % d = r /\ u = d * q + r
    <2>1. \A n \in Int : \A m \in Int : m > 0 =>
            \E q \in Int : \E r \in 0 .. m - 1 : n \div m = q /\ n % m = r /\ n = m * q + r
        BY DivisionIs, Zenon
    <2> HIDE DEF u, d
    <2> QED
        BY <1>1, <2>1, Zenon
<1> DEFINE quotient == IF (a < 0) /= (b < 0) THEN -q ELSE q
<1>3. p = << a - quotient * b, quotient >>
    BY <1>2 DEF Div
<1>4. quotient \in Int /\ p[2] = quotient /\ p[1] = a - quotient * b
    BY <1>2, <1>3
<1>5. a - quotient * b = IF a < 0 THEN -r ELSE r
    BY <1>1, <1>2, SMT
<1> HIDE DEF quotient
<1>6. r \in Int /\ 0 <= r /\ r < d
    BY <1>1, <1>2
<1>7. quotient * b \in Int
    BY <1>4
<1> QED
    BY <1>4, <1>5, <1>6, <1>7
=============================================================================
