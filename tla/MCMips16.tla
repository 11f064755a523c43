------------------------------ MODULE MCMips16 ------------------------------
(* Programs for Mips16.  A word has fourteen bits, the most whose products  *)
(* TLC's integers hold; addresses and registers wrap there as they do at     *)
(* thirty-two.                                                              *)
EXTENDS Mips16

Regs(f) == [r \in 0 .. 31 |-> IF r \in DOMAIN f THEN f[r] ELSE 0]
Distinct == [r \in 0 .. 31 |-> IF r = 0 THEN 0 ELSE IF r = SP THEN 600 ELSE 1000 + r]

---------------------------------------------------------------------------
(* Frames: an outer SAVE, everything overwritten, an inner SAVE, everything *)
(* overwritten again, and the two RESTOREs.                                 *)

SvrsHalf(save, ra, s0, s1, lo) ==
    25600 + save * 128 + ra * 64 + s0 * 32 + s1 * 16 + lo          \* 0x6400
ExtendHalf(ext) == 61440 + ext                                     \* 0xF000
MoveTo(r) == 25856 + (r % 8) * 32 + (r \div 8) * 8 + 2             \* move r, v0

Frame(save, f) ==
    (IF f.ext = NoExt THEN << >> ELSE << ExtendHalf(f.ext) >>)
    \o << SvrsHalf(save, f.ra, f.s0, f.s1, f.lo) >>

Overwrite == [n \in 1 .. 13 |->
                MoveTo(<< 4, 5, 6, 7, 16, 17, 18, 19, 22, 23, 30, 31, 3 >>[n])]

Outer == { [ext |-> e, ra |-> ra, s0 |-> s0, s1 |-> 1 - s0, lo |-> 12]
           : e \in {NoExt, 0, 7 * 256, 5 * 256 + 11, 7 * 256 + 3, 2 * 256 + 14, 256 + 6},
             ra \in {0, 1}, s0 \in {0, 1} }
Inner == { [ext |-> e, ra |-> 1, s0 |-> 1, s1 |-> 1, lo |-> lo]
           : e \in {NoExt, 7 * 256 + 14, 11, 3 * 256 + 4}, lo \in {0, 4} }

FramePrograms ==
    { [code |-> Frame(1, o) \o Overwrite \o Frame(1, i) \o Overwrite
                \o Frame(0, i) \o Frame(0, o),
       reg |-> Distinct, about |-> "frames"] : o \in Outer, i \in Inner }

---------------------------------------------------------------------------
(* Products and quotients of the values around every boundary.              *)

Edge == {0, 1, 2, 3, 127, 128, 129, 255, 8191, 8192, 8193, 16255, 16256, 16382, 16383}

\* 11101 rx ry funct
RRHalf(rx, ry, funct) == 59392 + rx * 256 + ry * 32 + funct

HiLoPrograms ==
    { [code |-> << RRHalf(2, 3, funct) >>, reg |-> Regs([r \in {2, 3} |-> IF r = 2 THEN a ELSE b]),
       about |-> "hilo"]
      : a \in Edge, b \in Edge,
        funct \in 24 .. 27 }       \* mult, multu, div, divu v0, v1

---------------------------------------------------------------------------
(* Three halfwords out of a sample of every kind, and one more to end on.   *)

Sample == {
    61441,    \* extend 1
    63487,    \* extend 0x7ff
    6144,     \* jal (takes the next halfword)
    7168,     \* jalx
    RRHalf(0, 1, 0),    \* jr ra
    RRHalf(2, 1, 0),    \* the same with a non-zero rx: refused
    RRHalf(0, 2, 0),    \* jalr s0
    RRHalf(0, 4, 0),    \* jrc s0
    2562,     \* la v0, pc + 8
    45569,    \* lw v0, 4(pc)
    4097,     \* b + 2
    8193,     \* beqz s0, + 2
    24832,    \* btnez + 0
    25600,    \* restore 128
    25729,    \* save 8
    25344,    \* adjsp 0
    RRHalf(0, 0, 5),    \* break
    12290,    \* srl with s = 8
    12289,    \* dsll: of the 64-bit machine
    55304,    \* sw s0, 32(s0)
    61440 }   \* extend 0

SweepPrograms ==
    { [code |-> << a, b, c, 25600 >>, reg |-> Regs([r \in {16, 31} |-> IF r = 16 THEN 5 ELSE 0]),
       about |-> "sweep"] : a \in Sample, b \in Sample, c \in Sample }

---------------------------------------------------------------------------
(* One instruction of every kind there is an arm for, on two register       *)
(* files: nothing set, and every register near the end of its range.        *)

Arms ==
    { 256, 2049, 17424, 18687, 25599, 27139, 26427, 26480,            \* add, li, move
      57941, 57943 }
    \cup { RRHalf(2, 3, f) : f \in {2, 3, 4, 6, 7, 10, 11, 12, 13, 14, 15, 24, 25, 26, 27} }
    \cup { RRHalf(2, 0, f) : f \in {16, 18} }
    \cup { RRHalf(2, y, 17) : y \in {0, 1, 4, 5} }
    \cup { 20992, 23040, 29440,                                       \* slti, sltiu, cmpi
           12900, 12902, 12903,                                       \* sll, srl, sra
           33376, 35424, 39520, 41568, 43616, 37376, 45568,           \* loads
           49760, 51808, 55904, 53760, 25089,                         \* stores
           4098, 8705, 10753, 24577, 24833 }                          \* branches

ArmPrograms ==
    { [code |-> << h, 25600 >>,
       reg |-> Regs([r \in 1 .. 31 |-> IF full THEN 2^W - r ELSE 0]),
       about |-> "arms"] : h \in Arms, full \in BOOLEAN }

MCPrograms == FramePrograms \cup HiLoPrograms \cup SweepPrograms \cup ArmPrograms
MCExts == {0, 1, 31, 32, 64, 256, 1984, 2047}
=============================================================================
