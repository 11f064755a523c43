---------------------------- MODULE DecodeCache ----------------------------
(***************************************************************************)
(* The decode cache of the reference interpreter (reference/mips16.js,     *)
(* step) and the page that runs it (reference/digibox-boot.html).          *)
(*                                                                         *)
(* step() keeps decoded instructions in a Map keyed by virtual address,    *)
(* and an array in front of the Map that trusts one number: the size the   *)
(* Map had when step() last left it.  Whoever writes code must delete its  *)
(* addresses from the Map; the array notices the deletion only because the *)
(* Map has shrunk.  The page's store() is that caller, and it deletes the  *)
(* cached DRAM alias only.                                                 *)
(*                                                                         *)
(* One unit of `off` is a halfword.  What an instruction does is left out: *)
(* it may store anywhere, it may be a jump that owns a delay slot, and     *)
(* otherwise control continues anywhere.                                   *)
(***************************************************************************)
EXTENDS Integers, FiniteSets

CONSTANTS
    Size,       \* halfwords of DRAM, and of flash
    Code,       \* what a halfword may hold
    Long,       \* of those, the ones whose instruction takes a second halfword
    Jumps,      \* of those, the jumps with a delay slot
    Bad,        \* of those, what decode() refuses
    Zero,       \* the halfword of freshly allocated DRAM
    Images,     \* the flash images a run may load
    Slots,      \* FC_SIZE
    MaxGen,     \* 0x3FFFFFFF
    MaxTurns,   \* bound: stores, flash writes, switches, resets and calls in a run
    None

ASSUME SizeAssumption == Size \in Nat /\ Size > 1
ASSUME CodeAssumption == Long \subseteq Code /\ Zero \in Code
ASSUME ImagesAssumption == Images \subseteq [0 .. Size - 1 -> Code]
ASSUME SlotsAssumption == Slots \in Nat \ {0} /\ MaxGen \in Nat \ {0}
ASSUME TurnsAssumption == MaxTurns \in Nat

Off == 0 .. Size - 1

\* DRAM answers at two virtual aliases (RAM_K0, RAM_K1), the flash at one.
Segment == {"k0", "k1", "flash"}
Chip == {"ram", "flash"}
Va == [seg : Segment, off : Off]
ChipOf(seg) == IF seg = "flash" THEN "flash" ELSE "ram"

VARIABLES
    mem,       \* the halfwords of DRAM and flash
    map,       \* cpu.__dcache: address -> decoded instruction
    fc,        \* cpu.__fc: the array in front of it
    on,        \* DCACHE
    delayed,   \* cpu.delayed: the address of the jump whose slot comes next
    pc,        \* where a slot is due, None elsewhere: control may be anywhere
    calling,   \* inside runCall: the pc it will put back
    turns,     \* the bounded events so far
    fresh,     \* no reset yet
    written,   \* history: DRAM halfwords stored to since the last reset
    left       \* history: the Map as step() last left it

vars == << mem, map, fc, on, delayed, pc, calling, turns, fresh, written, left >>

Turn == turns < MaxTurns /\ turns' = turns + 1

Empty == [a \in {} |-> None]

---------------------------------------------------------------------------
(* Decoding.                                                               *)

\* The last halfword of a region never begins an instruction, so that the
\* second halfword of a long one is always in the same region.
Fetchable == { a \in Va : a.off + 1 \in Off }

\* decode(): the instruction at `a` is made of the halfword there and, after
\* an EXTEND or in a JAL, of the next one; its PC-relative operands are
\* resolved against `base`.
Decode(m, a, base) ==
    LET c == ChipOf(a.seg)
        hw == m[c][a.off]
    IN [hw   |-> hw,
        next |-> IF hw \in Long THEN m[c][a.off + 1] ELSE hw,
        base |-> base]

Length(i) == IF i.hw \in Long THEN 2 ELSE 1

\* The address after the instruction, None when that leaves the region.
Following(a, i) ==
    IF a.off + Length(i) \in Off
    THEN [a EXCEPT !.off = @ + Length(i)]
    ELSE None

Insn == [hw : Code, next : Code, base : Va]

---------------------------------------------------------------------------
(* The array in front of the Map.                                          *)

Slot(a) == a.off % Slots

NoInsn(a) == [hw |-> Zero, next |-> Zero, base |-> a]
Origin == [seg |-> "flash", off |-> 0]

\* newFront(): every generation 0, the current one 1.
NewFront(size) ==
    [n   |-> size,
     g   |-> 1,
     gen |-> [s \in 0 .. Slots - 1 |-> 0],
     tag |-> [s \in 0 .. Slots - 1 |-> Origin],
     ins |-> [s \in 0 .. Slots - 1 |-> NoInsn(Origin)]]

Holds(f, a) == f.gen[Slot(a)] = f.g /\ f.tag[Slot(a)] = a

Added(m, a, i) == [x \in DOMAIN m \cup {a} |-> IF x = a THEN i ELSE m[x]]

Sized(m) == Cardinality(DOMAIN m)

\* Mutant: the size of the Map is not looked at.
CheckedMutantNever(f) == f

\* The Map shrank behind step()'s back: drop every slot by moving to the
\* next generation, and start over when the generations run out.
Checked(f) ==
    IF f.n = Sized(map) THEN f
    ELSE [n   |-> Sized(map),
          g   |-> IF f.g < MaxGen THEN f.g + 1 ELSE 1,
          gen |-> IF f.g < MaxGen THEN f.gen ELSE [s \in DOMAIN f.gen |-> 0],
          tag |-> f.tag,
          ins |-> f.ins]

Filled(f, a, i, size) ==
    [n   |-> size,
     g   |-> f.g,
     gen |-> [f.gen EXCEPT ![Slot(a)] = f.g],
     tag |-> [f.tag EXCEPT ![Slot(a)] = a],
     ins |-> [f.ins EXCEPT ![Slot(a)] = i]]

---------------------------------------------------------------------------
(* store(): DRAM through either alias.  It evicts the halfword written,    *)
(* the one before and the one after, under their cached addresses only.    *)

Without(m, gone) == [a \in DOMAIN m \ gone |-> m[a]]

\* Mutant: the instruction that began a halfword earlier stays.
EvictedMutantNotBefore(o) ==
    { [seg |-> "k0", off |-> x] : x \in { o, o + 1 } \cap Off }

Evicted(o) == { [seg |-> "k0", off |-> x] : x \in { o - 1, o, o + 1 } \cap Off }

\* The halfwords a store writes: one, or for a word two.
Spans(o, words) == { o + k : k \in 0 .. words - 1 }

Stored(m, o, words, v) ==
    [m EXCEPT !["ram"] = [x \in Off |-> IF x \in Spans(o, words) THEN v ELSE @[x]]]

---------------------------------------------------------------------------
(* One MIPS16 instruction.                                                 *)

\* What step() runs at `a`, and what it leaves in the Map and the array, when
\* no delay slot is pending and the cache is on.
FrontHit(a) == Holds(Checked(fc), a)
MapHit(a) == ~FrontHit(a) /\ a \in DOMAIN map

Fetched(a) ==
    IF FrontHit(a) THEN Checked(fc).ins[Slot(a)]
    ELSE IF MapHit(a) THEN map[a]
    ELSE Decode(mem, a, a)

\* The Map and the array after the fetch, before the instruction runs.
MapAfter(a) ==
    IF FrontHit(a) \/ MapHit(a) \/ Fetched(a).hw \in Bad THEN map
    ELSE Added(map, a, Fetched(a))

FrontAfter(a) ==
    IF FrontHit(a) THEN Checked(fc)
    ELSE IF MapHit(a) THEN Filled(Checked(fc), a, map[a], Checked(fc).n)
    ELSE IF Fetched(a).hw \in Bad THEN Checked(fc)
    ELSE Filled(Checked(fc), a, Fetched(a), Sized(MapAfter(a)))

\* exec() of an instruction that may store: the store reaches the page, which
\* evicts from the Map it finds.
Effect(m) ==
    \/ map' = m /\ UNCHANGED << mem, written, turns >>
    \/ \E o \in Off, words \in {1, 2}, v \in Code :
          /\ Turn
          /\ o + words - 1 \in Off
          /\ mem' = Stored(mem, o, words, v)
          /\ map' = Without(m, Evicted(o))
          /\ written' = written \cup Spans(o, words)

\* A jump is remembered and its slot comes next; anything else leaves control
\* anywhere.
Go(a, i) ==
    IF i.hw \in Jumps
    THEN delayed' = a /\ pc' = Following(a, i)
    ELSE delayed' = None /\ pc' = None

At(a) == a \in Fetchable /\ pc \in { a, None }

\* It decodes, and its slot, if it has one, lies in the same region.
Runs(a, i) == i.hw \notin Bad /\ (i.hw \in Jumps => Following(a, i) /= None)

StepCached(a) ==
    /\ At(a) /\ delayed = None /\ on
    /\ Runs(a, Fetched(a))
    /\ fc' = FrontAfter(a)
    /\ Effect(MapAfter(a))
    /\ left' = MapAfter(a)
    /\ Go(a, Fetched(a))
    /\ UNCHANGED << on, calling, fresh >>

\* decode() refuses the halfword: nothing but the freshness check has happened.
StepRefused(a) ==
    /\ At(a) /\ delayed = None /\ on
    /\ Fetched(a).hw \in Bad
    /\ fc' = FrontAfter(a)
    /\ left' = map
    /\ UNCHANGED << mem, map, on, delayed, pc, calling, turns, fresh, written >>

StepUncached(a) ==
    /\ At(a) /\ delayed = None /\ ~on
    /\ Runs(a, Decode(mem, a, a))
    /\ Effect(map)
    /\ Go(a, Decode(mem, a, a))
    /\ UNCHANGED << fc, on, calling, fresh, left >>

\* A delay slot: decoded afresh against the jump's address, neither read from
\* the caches nor kept in them; then the jump is applied, whatever the slot was.
StepSlot(a) ==
    /\ At(a) /\ delayed /= None
    /\ Decode(mem, a, delayed).hw \notin Bad
    /\ Effect(map)
    /\ delayed' = None /\ pc' = None
    /\ UNCHANGED << fc, on, calling, fresh, left >>

---------------------------------------------------------------------------
(* The page around it.                                                     *)

\* A program or erase command completes in the flash: no eviction.
FlashWrite ==
    /\ Turn
    /\ \E o \in Off, v \in Code : mem' = [mem EXCEPT !["flash"][o] = v]
    /\ UNCHANGED << map, fc, on, delayed, pc, calling, fresh, written, left >>

\* The MIPS32 half of the machine, a poke or a device writes DRAM.
PageStore ==
    /\ Effect(map)
    /\ UNCHANGED << fc, on, delayed, pc, calling, fresh, left >>

\* __dcache(on)
Switch(to) ==
    /\ Turn
    /\ on' = to
    /\ map' = IF to THEN map ELSE Empty
    /\ UNCHANGED << mem, fc, delayed, pc, calling, fresh, written, left >>

\* reset(), from the button or from accept() with a new flash image: DRAM is
\* allocated anew and the program counter starts over in the MIPS32 reset
\* code; the Map and cpu.delayed stay as they are.
Reset ==
    /\ Turn
    /\ \E image \in Images \cup {mem["flash"]} :
          mem' = [mem EXCEPT !["ram"] = [o \in Off |-> Zero], !["flash"] = image]
    /\ fresh' = FALSE
    /\ written' = {}
    /\ pc' = None /\ calling' = None
    /\ UNCHANGED << map, fc, on, delayed, left >>

\* runCall(): between two bursts the page runs a firmware routine on the same
\* _cpu, and puts pc back afterwards.
CallBegin ==
    /\ Turn
    /\ calling = None
    /\ calling' = [pc |-> pc]
    /\ pc' = None
    /\ UNCHANGED << mem, map, fc, on, delayed, fresh, written, left >>

\* It returned, or its budget ran out.
CallEnd ==
    /\ calling /= None
    /\ pc' = calling.pc
    /\ calling' = None
    /\ UNCHANGED << mem, map, fc, on, delayed, turns, fresh, written, left >>

\* It stopped on unmapped memory or an instruction nothing runs: pc stays there.
CallStops ==
    /\ calling /= None
    /\ calling' = None
    /\ UNCHANGED << mem, map, fc, on, delayed, pc, turns, fresh, written, left >>

---------------------------------------------------------------------------
Init ==
    /\ mem \in [Chip -> [Off -> Code]]
    /\ mem["ram"] = [o \in Off |-> Zero]
    /\ mem["flash"] \in Images
    /\ map = Empty
    /\ fc = NewFront(0)
    /\ on = TRUE
    /\ delayed = None
    /\ pc = None
    /\ calling = None
    /\ turns = 0
    /\ fresh = TRUE
    /\ written = {}
    /\ left = Empty

Next ==
    \/ \E a \in Va : StepCached(a) \/ StepRefused(a) \/ StepUncached(a) \/ StepSlot(a)
    \/ FlashWrite
    \/ PageStore
    \/ \E to \in BOOLEAN : Switch(to)
    \/ Reset
    \/ CallBegin
    \/ CallEnd
    \/ CallStops

Spec == Init /\ [][Next]_vars

---------------------------------------------------------------------------
(* Properties.                                                             *)

TypeOK ==
    /\ mem \in [Chip -> [Off -> Code]]
    /\ DOMAIN map \subseteq Va /\ \A a \in DOMAIN map : map[a] \in Insn
    /\ fc \in [n : Nat, g : 1 .. MaxGen, gen : [0 .. Slots - 1 -> 0 .. MaxGen],
               tag : [0 .. Slots - 1 -> Va], ins : [0 .. Slots - 1 -> Insn]]
    /\ on \in BOOLEAN
    /\ delayed \in Va \cup {None}
    /\ pc \in Va \cup {None}
    /\ turns \in 0 .. MaxTurns
    /\ fresh \in BOOLEAN
    /\ written \subseteq Off

\* As long as the Map has the size step() left it with, every live slot of the
\* array holds what the Map holds for that address: the one number really does
\* detect every eviction (newFront's "safety argument", mips16.js).
FrontFollowsMap ==
    fc.n = Sized(map) =>
        \A s \in DOMAIN fc.gen :
            fc.gen[s] = fc.g =>
                /\ fc.tag[s] \in DOMAIN map
                /\ map[fc.tag[s]] = fc.ins[s]

Touched(a) == fresh \/ a.off \in written \/ a.off + 1 \in written

\* Whatever step() would run next at a cached DRAM address outside a delay
\* slot, wherever it finds it, is the instruction memory holds there now -- for
\* all code stored since the last reset, and before one for all code: store()'s
\* three deletions and the array's size check together never let a stale
\* instruction run.
RunsWhatIsWritten ==
    on => \A a \in Fetchable :
        a.seg = "k0" /\ Touched(a) => Fetched(a) = Decode(mem, a, a)

=============================================================================
