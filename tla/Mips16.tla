------------------------------- MODULE Mips16 -------------------------------
(***************************************************************************)
(* The reference MIPS16e interpreter (reference/mips16.js): decode(),      *)
(* step() and exec() with delay slots, SAVE and RESTORE frames, the linear *)
(* sweep disassemble(), and the table of execution ids.  The caches inside *)
(* step() are the subject of DecodeCache.                                  *)
(*                                                                         *)
(* A register is a word of W bits kept as 0 .. 2^W - 1 (32 in the code);   *)
(* words, their products and quotients are in Mips16Arithmetic.  Text,     *)
(* operands as printed and the isa = 64 encodings, which step() never asks *)
(* for, are left out: an encoding of the 64-bit machine is refused, as     *)
(* gate() refuses it.                                                      *)
(***************************************************************************)
EXTENDS Mips16Arithmetic, Sequences, SequencesExt, FiniteSets, Bitwise

CONSTANTS
    W,          \* bits of a word
    MemSize     \* bytes of memory that answer; the rest reads 0

\* A program under test: halfwords from address 0, registers, what it is about.
CONSTANT Programs

\* EXTEND fields with which the whole opcode space is enumerated.
CONSTANT Exts

ASSUME WordAssumption == W \in 2 .. 30 /\ 2^W = Base
ASSUME MemAssumption == MemSize \in Nat \ {0}

Bits(v, hi, lo) == (v \div 2^lo) % 2^(hi - lo + 1)

\* sx(): a field of that many bits, sign extended.
Sx(v, bits) ==
    LET u == v % 2^bits IN IF u >= 2^(bits - 1) THEN u - 2^bits ELSE u

---------------------------------------------------------------------------
(* Tables.                                                                 *)

XLAT == << 16, 17, 2, 3, 4, 5, 6, 7 >>
Xl(f3) == XLAT[(f3 % 8) + 1]

T == 24
SP == 29
RA == 31

\* RR funct -> the kind of operands, for the encodings of the 32-bit machine.
RRFunct(f) ==
    CASE f = 1  -> [k |-> "trap",  form |-> "code"]
      [] f = 2  -> [k |-> "slt",   form |-> "a2"]
      [] f = 3  -> [k |-> "sltu",  form |-> "a2"]
      [] f = 4  -> [k |-> "sllv",  form |-> "sv"]
      [] f = 5  -> [k |-> "trap",  form |-> "code"]
      [] f = 6  -> [k |-> "srlv",  form |-> "sv"]
      [] f = 7  -> [k |-> "srav",  form |-> "sv"]
      [] f = 10 -> [k |-> "cmp",   form |-> "a2"]
      [] f = 11 -> [k |-> "neg",   form |-> "a2"]
      [] f = 12 -> [k |-> "and",   form |-> "a2"]
      [] f = 13 -> [k |-> "or",    form |-> "a2"]
      [] f = 14 -> [k |-> "xor",   form |-> "a2"]
      [] f = 15 -> [k |-> "not",   form |-> "a2"]
      [] f = 16 -> [k |-> "mfhi",  form |-> "r1"]
      [] f = 18 -> [k |-> "mflo",  form |-> "r1"]
      [] f = 24 -> [k |-> "mult",  form |-> "a2"]
      [] f = 25 -> [k |-> "multu", form |-> "a2"]
      [] f = 26 -> [k |-> "div",   form |-> "dv"]
      [] f = 27 -> [k |-> "divu",  form |-> "dv"]
      [] OTHER  -> [k |-> "none",  form |-> "none"]

\* J(AL)R(C) by the ry field.
JALRC(ry) ==
    CASE ry = 0 -> [k |-> "jr",    ra |-> FALSE]
      [] ry = 1 -> [k |-> "jr",    ra |-> TRUE]
      [] ry = 2 -> [k |-> "jalr",  ra |-> FALSE]
      [] ry = 4 -> [k |-> "jrc",   ra |-> FALSE]
      [] ry = 5 -> [k |-> "jrc",   ra |-> TRUE]
      [] ry = 6 -> [k |-> "jalrc", ra |-> FALSE]
      [] OTHER  -> [k |-> "none",  ra |-> FALSE]

\* Mutant: SEH is missing from the table.
CNVTMutantNoSeh(ry) ==
    CASE ry = 0 -> "zeb" [] ry = 1 -> "zeh" [] ry = 4 -> "seb" [] OTHER -> "none"

CNVT(ry) ==
    CASE ry = 0 -> "zeb" [] ry = 1 -> "zeh" [] ry = 4 -> "seb" [] ry = 5 -> "seh"
      [] OTHER -> "none"

\* aregs -> argument registers saved in the caller's frame, and how many of
\* a3, a2, a1, a0 are saved as statics.
AREGS(n) ==
    LET args == << 0, 0, 0, 0, 1, 1, 1, 1, 2, 2, 2, 0, 3, 3, 4 >>
        statics == << 0, 1, 2, 3, 0, 1, 2, 3, 0, 1, 2, 4, 0, 1, 0 >>
    IN [args |-> args[n + 1], statics |-> statics[n + 1]]

\* The execution payload in the one order xnorm() gives it.
X(k) ==
    [k |-> k, d |-> 0, s |-> 0, t |-> 0, r |-> 0, b |-> 0, sh |-> 0, imm |-> 0,
     off |-> 0, sa |-> 0, tgt |-> 0, framesize |-> 0, ra |-> 0, s0 |-> 0,
     s1 |-> 0, xsregs |-> 0, aregs |-> 0]

KID ==
    { "addiusp", "addiupc", "addiu_rri", "addiu8", "adjsp", "li", "move",
      "addu", "subu", "and", "or", "xor", "not", "neg",
      "cmp", "cmpi", "slt", "sltu", "slti", "sltiu",
      "sll", "srl", "sra", "sllv", "srlv", "srav",
      "mult", "multu", "div", "divu", "mfhi", "mflo",
      "zeb", "zeh", "seb", "seh",
      "lb", "lbu", "lh", "lhu", "lw", "lwsp", "lwpc",
      "sb", "sh", "sw", "swsp", "swrasp",
      "b", "beqz", "bnez", "bteqz", "btnez",
      "jal", "jalx", "jr", "jalr", "jrc", "jalrc",
      "save", "restore", "trap", "extend" }

---------------------------------------------------------------------------
(* decode().  ext is the low eleven bits of the EXTEND halfword.           *)

NoExt == -1

Insn(len, x) == [ok |-> TRUE, notext |-> FALSE, len |-> len, x |-> x]
Unk(len) == [ok |-> FALSE, notext |-> FALSE, len |-> len, x |-> X("none")]
NotExt == [Unk(4) EXCEPT !.notext = TRUE]

ExtImm16(ext, insn) == (ext % 32) * 2048 + Bits(ext, 10, 5) * 32 + (insn % 32)
ExtImm15Rria(ext, insn) == (ext % 16) * 2048 + Bits(ext, 10, 4) * 16 + (insn % 16)

\* A field of the short form, or the sixteen bits EXTEND makes of it.
Imm(ext, insn, short) == IF ext = NoExt THEN short ELSE Sx(ExtImm16(ext, insn), 16)
Len2(ext) == IF ext = NoExt THEN 2 ELSE 4

\* zfield(): the bits the extended formats pin to zero.
Pinned(ext, insn, hi, lo) == ext /= NoExt /\ Bits(insn, hi, lo) /= 0

PcBase(addr, base) == LET p == IF base = -1 THEN addr ELSE base IN p - (p % 4)

DecodeSpPc(op, ext, insn, addr, base) ==
    LET imm == Imm(ext, insn, (insn % 256) * 4)
        x == [X(IF op = 0 THEN "addiusp" ELSE "addiupc") EXCEPT
                 !.d = Xl(Bits(insn, 10, 8)), !.imm = imm,
                 !.tgt = IF op = 1 THEN Wrap(PcBase(addr, base) + imm) ELSE 0]
    IN IF Pinned(ext, insn, 7, 5) THEN NotExt ELSE Insn(Len2(ext), x)

DecodeB(ext, insn) ==
    LET off == 2 * Imm(ext, insn, Sx(insn, 11))
    IN IF Pinned(ext, insn, 10, 5) THEN NotExt
       ELSE Insn(Len2(ext), [X("b") EXCEPT !.off = off])

\* The delay slot's address supplies the top four bits of the target.
DecodeJal(ext, insn, next, addr) ==
    LET idx == (insn % 32) * 2^21 + Bits(insn, 9, 5) * 2^16 + next
        slot == Wrap(addr + 4)
        region == 2^(W - 4)
    IN IF ext /= NoExt THEN NotExt
       ELSE Insn(4, [X(IF Bits(insn, 10, 10) = 1 THEN "jalx" ELSE "jal") EXCEPT
                        !.tgt = slot - (slot % region) + ((idx * 4) % region)])

DecodeBranch(op, ext, insn) ==
    LET off == 2 * Imm(ext, insn, Sx(insn, 8))
    IN IF Pinned(ext, insn, 7, 5) THEN NotExt
       ELSE Insn(Len2(ext), [X(IF op = 4 THEN "beqz" ELSE "bnez") EXCEPT
                                !.s = Xl(Bits(insn, 10, 8)), !.off = off])

\* A shift by 0 means 8 in the short form; DSLL is of the 64-bit machine.
DecodeShift(ext, insn) ==
    LET f == insn % 4
        sa == IF ext = NoExt THEN (IF Bits(insn, 4, 2) = 0 THEN 8 ELSE Bits(insn, 4, 2))
              ELSE Bits(ext, 10, 6)
    IN IF ext /= NoExt /\ Bits(insn, 4, 2) /= 0 THEN Unk(4)
       ELSE IF ext /= NoExt /\ ext % 32 /= 0 THEN NotExt
       ELSE IF f = 1 THEN Unk(Len2(ext))
       ELSE IF ext /= NoExt /\ Bits(ext, 5, 5) = 1 THEN Unk(4)
       ELSE Insn(Len2(ext), [X(<< "sll", "none", "srl", "sra" >>[f + 1]) EXCEPT
                                !.d = Xl(Bits(insn, 10, 8)), !.s = Xl(Bits(insn, 7, 5)),
                                !.sa = sa])

DecodeRria(ext, insn) ==
    IF Bits(insn, 4, 4) = 1 THEN Unk(Len2(ext))
    ELSE Insn(Len2(ext),
              [X("addiu_rri") EXCEPT
                  !.d = Xl(Bits(insn, 7, 5)), !.s = Xl(Bits(insn, 10, 8)),
                  !.imm = IF ext = NoExt THEN Sx(insn, 4)
                          ELSE Sx(ExtImm15Rria(ext, insn), 15)])

\* ADDIU8, SLTI, SLTIU, LI and CMPI: one register and eight bits.
DecodeImm8(op, ext, insn) ==
    LET rx == Xl(Bits(insn, 10, 8))
        u8 == insn % 256
        x == CASE op = 9  -> [X("addiu8") EXCEPT !.d = rx, !.imm = Imm(ext, insn, Sx(u8, 8))]
               [] op = 10 -> [X("slti") EXCEPT !.s = rx, !.imm = Imm(ext, insn, u8)]
               [] op = 11 -> [X("sltiu") EXCEPT !.s = rx, !.imm = Imm(ext, insn, u8)]
               [] op = 13 -> [X("li") EXCEPT !.d = rx,
                                 !.imm = IF ext = NoExt THEN u8 ELSE ExtImm16(ext, insn)]
               [] op = 14 -> [X("cmpi") EXCEPT !.s = rx,
                                 !.imm = IF ext = NoExt THEN u8 ELSE ExtImm16(ext, insn)]
    IN IF Pinned(ext, insn, 7, 5) THEN NotExt ELSE Insn(Len2(ext), x)

\* SAVE and RESTORE: a short frame of 0 is one of 128 bytes.
Svrs(ext, insn) ==
    LET lo == insn % 16
        x == [X(IF Bits(insn, 7, 7) = 1 THEN "save" ELSE "restore") EXCEPT
                 !.ra = Bits(insn, 6, 6), !.s0 = Bits(insn, 5, 5), !.s1 = Bits(insn, 4, 4)]
    IN IF ext = NoExt
       THEN Insn(2, [x EXCEPT !.framesize = IF lo = 0 THEN 128 ELSE lo * 8])
       ELSE IF ext % 16 = 15 THEN Unk(4)
       ELSE Insn(4, [x EXCEPT !.framesize = (Bits(ext, 7, 4) * 16 + lo) * 8,
                              !.xsregs = Bits(ext, 10, 8), !.aregs = ext % 16])

DecodeI8(ext, insn) ==
    LET funct == Bits(insn, 10, 8)
        u8 == insn % 256
        off == Imm(ext, insn, u8 * 4)
        n == Len2(ext)
    IN CASE funct \in {0, 1} ->
              IF Pinned(ext, insn, 7, 5) THEN NotExt
              ELSE Insn(n, [X(IF funct = 0 THEN "bteqz" ELSE "btnez") EXCEPT
                               !.off = 2 * Imm(ext, insn, Sx(u8, 8))])
         [] funct = 2 ->
              IF Pinned(ext, insn, 7, 5) THEN NotExt
              ELSE Insn(n, [X("swrasp") EXCEPT !.off = off])
         [] funct = 3 ->
              IF Pinned(ext, insn, 7, 5) THEN NotExt
              ELSE Insn(n, [X("adjsp") EXCEPT !.imm = Imm(ext, insn, Sx(u8, 8) * 8)])
         [] funct = 4 -> Svrs(ext, insn)
         [] funct = 5 ->            \* r32 is held as [2:0, 4:3]
              IF ext /= NoExt THEN NotExt
              ELSE LET r32 == Bits(insn, 4, 3) * 8 + Bits(insn, 7, 5)
                       rz == insn % 8
                   IN Insn(2, IF r32 = 0 /\ rz = 0 THEN X("move")
                              ELSE [X("move") EXCEPT !.d = r32, !.s = Xl(rz)])
         [] funct = 6 -> Unk(n)
         [] funct = 7 ->
              IF ext /= NoExt THEN NotExt
              ELSE Insn(2, [X("move") EXCEPT !.d = Xl(Bits(insn, 7, 5)), !.s = insn % 32])

\* Loads and stores with a scaled five-bit offset.
DecodeMem(op, ext, insn) ==
    LET got == CASE op = 16 -> << "lb", 1 >>  [] op = 17 -> << "lh", 2 >>
                 [] op = 19 -> << "lw", 4 >>  [] op = 20 -> << "lbu", 1 >>
                 [] op = 21 -> << "lhu", 2 >> [] op = 24 -> << "sb", 1 >>
                 [] op = 25 -> << "sh", 2 >>  [] op = 27 -> << "sw", 4 >>
                 [] OTHER -> << "none", 0 >>          \* LWU is of the 64-bit machine
    IN IF got[2] = 0 THEN Unk(Len2(ext))
       ELSE Insn(Len2(ext), [X(got[1]) EXCEPT
                                !.r = Xl(Bits(insn, 7, 5)), !.b = Xl(Bits(insn, 10, 8)),
                                !.off = Imm(ext, insn, (insn % 32) * got[2])])

DecodeSpRel(op, ext, insn) ==
    IF Pinned(ext, insn, 7, 5) THEN NotExt
    ELSE Insn(Len2(ext), [X(IF op = 18 THEN "lwsp" ELSE "swsp") EXCEPT
                             !.r = Xl(Bits(insn, 10, 8)),
                             !.off = Imm(ext, insn, (insn % 256) * 4)])

DecodeLwpc(ext, insn, addr, base) ==
    LET off == Imm(ext, insn, (insn % 256) * 4)
    IN IF Pinned(ext, insn, 7, 5) THEN NotExt
       ELSE Insn(Len2(ext), [X("lwpc") EXCEPT !.d = Xl(Bits(insn, 10, 8)), !.off = off,
                                !.tgt = Wrap(PcBase(addr, base) + off)])

\* DADDU and DSUBU are of the 64-bit machine.
DecodeRRR(ext, insn) ==
    LET f == insn % 4
    IN IF ext /= NoExt THEN NotExt
       ELSE IF f \in {0, 2} THEN Unk(2)
       ELSE Insn(2, [X(IF f = 1 THEN "addu" ELSE "subu") EXCEPT
                        !.d = Xl(Bits(insn, 4, 2)), !.s = Xl(Bits(insn, 10, 8)),
                        !.t = Xl(Bits(insn, 7, 5))])

DecodeJalrc(rx, ry) ==
    LET sel == JALRC(ry)
    IN IF sel.k = "none" \/ (sel.ra /\ rx /= 0) THEN Unk(2)
       ELSE Insn(2, [X(sel.k) EXCEPT !.s = IF sel.ra THEN RA ELSE Xl(rx)])

DecodeRR(ext, insn) ==
    LET rx == Bits(insn, 10, 8)
        ry == Bits(insn, 7, 5)
        got == RRFunct(insn % 32)
        x == X(got.k)
    IN IF ext /= NoExt THEN NotExt
       ELSE IF insn % 32 = 0 THEN DecodeJalrc(rx, ry)
       ELSE IF insn % 32 = 17
            THEN IF CNVT(ry) = "none" THEN Unk(2)
                 ELSE Insn(2, [X(CNVT(ry)) EXCEPT !.d = Xl(rx)])
       ELSE CASE got.form = "code" -> Insn(2, x)
              [] got.form = "a2" -> Insn(2, [x EXCEPT !.d = Xl(rx), !.s = Xl(ry)])
              [] got.form = "sv" -> Insn(2, [x EXCEPT !.d = Xl(ry), !.sh = Xl(rx)])
              [] got.form = "dv" -> Insn(2, [x EXCEPT !.s = Xl(rx), !.t = Xl(ry)])
              [] got.form = "r1" -> IF ry /= 0 THEN Unk(2)
                                    ELSE Insn(2, [x EXCEPT !.d = Xl(rx)])
              [] got.form = "none" -> Unk(2)

Decode(hw, ext, next, addr, base) ==
    LET op == Bits(hw, 15, 11)
    IN CASE op \in {0, 1} -> DecodeSpPc(op, ext, hw, addr, base)
         [] op = 2 -> DecodeB(ext, hw)
         [] op = 3 -> DecodeJal(ext, hw, next, addr)
         [] op \in {4, 5} -> DecodeBranch(op, ext, hw)
         [] op = 6 -> DecodeShift(ext, hw)
         [] op = 8 -> DecodeRria(ext, hw)
         [] op \in {9, 10, 11, 13, 14} -> DecodeImm8(op, ext, hw)
         [] op = 12 -> DecodeI8(ext, hw)
         [] op \in {16, 17, 19, 20, 21, 23, 24, 25, 27} -> DecodeMem(op, ext, hw)
         [] op \in {18, 26} -> DecodeSpRel(op, ext, hw)
         [] op = 22 -> DecodeLwpc(ext, hw, addr, base)
         [] op = 28 -> DecodeRRR(ext, hw)
         [] op = 29 -> DecodeRR(ext, hw)
         [] op = 30 -> IF ext = NoExt THEN Insn(2, X("extend")) ELSE NotExt
         [] op \in {7, 15, 31} -> Unk(Len2(ext))     \* LD, SD, I64

---------------------------------------------------------------------------
(* Memory, big-endian.                                                     *)

\* A byte nobody loaded or stored reads 0; so does all of memory beyond MemSize.
Read8(m, a) == IF a \in DOMAIN m THEN m[a] ELSE 0
Read16(m, a) == Read8(m, a) * 256 + Read8(m, Wrap(a + 1))
Read32(m, a) ==
    Wrap(Read8(m, Wrap(a + 2)) * 256 + Read8(m, Wrap(a + 3))
         + (Read16(m, a) % 256) * 2^16)

Write8(m, a, v) ==
    IF a >= MemSize THEN m
    ELSE [x \in DOMAIN m \cup {a} |-> IF x = a THEN v % 256 ELSE m[x]]
Write16(m, a, v) == Write8(Write8(m, a, (v \div 256) % 256), Wrap(a + 1), v % 256)
Write32(m, a, v) == Write16(Write16(m, a, v \div 2^16), Wrap(a + 2), v % 2^16)

---------------------------------------------------------------------------
(* exec().  c is the cpu: pc, isa, reg, hi, lo, delayed.                   *)

NotDelayed == [target |-> -1, isa |-> 16, from |-> -1]

NewCpu == [pc |-> 0, isa |-> 16, reg |-> [r \in 0 .. 31 |-> 0], hi |-> 0, lo |-> 0,
           delayed |-> NotDelayed]

R(c, n) == IF n = 0 THEN 0 ELSE c.reg[n]

Set(c, n, v) == IF n = 0 THEN c ELSE [c EXCEPT !.reg[n] = Wrap(v)]

ArithKinds == { "addiusp", "addiupc", "addiu_rri", "addiu8", "li", "move", "addu",
                "subu", "and", "or", "xor", "not", "neg", "adjsp" }

Arith(c, x, base) ==
    CASE x.k = "addiusp"   -> Set(c, x.d, R(c, SP) + x.imm)
      [] x.k = "addiupc"   -> Set(c, x.d, base + x.imm)
      [] x.k = "addiu_rri" -> Set(c, x.d, R(c, x.s) + x.imm)
      [] x.k = "addiu8"    -> Set(c, x.d, R(c, x.d) + x.imm)
      [] x.k = "adjsp"     -> Set(c, SP, R(c, SP) + x.imm)
      [] x.k = "li"        -> Set(c, x.d, x.imm)
      [] x.k = "move"      -> Set(c, x.d, R(c, x.s))
      [] x.k = "addu"      -> Set(c, x.d, R(c, x.s) + R(c, x.t))
      [] x.k = "subu"      -> Set(c, x.d, R(c, x.s) - R(c, x.t))
      [] x.k = "and"       -> Set(c, x.d, R(c, x.d) & R(c, x.s))
      [] x.k = "or"        -> Set(c, x.d, R(c, x.d) | R(c, x.s))
      [] x.k = "xor"       -> Set(c, x.d, R(c, x.d) ^^ R(c, x.s))
      [] x.k = "not"       -> Set(c, x.d, -1 - R(c, x.s))
      [] x.k = "neg"       -> Set(c, x.d, 0 - R(c, x.s))

\* The condition register.
CondKinds == { "cmp", "cmpi", "slt", "sltu", "slti", "sltiu" }
Flag(b) == IF b THEN 1 ELSE 0

Cond(c, x) ==
    Set(c, T,
        CASE x.k = "cmp"   -> R(c, x.d) ^^ R(c, x.s)
          [] x.k = "cmpi"  -> R(c, x.s) ^^ Wrap(x.imm)
          [] x.k = "slt"   -> Flag(Signed(R(c, x.d)) < Signed(R(c, x.s)))
          [] x.k = "sltu"  -> Flag(R(c, x.d) < R(c, x.s))
          [] x.k = "slti"  -> Flag(Signed(R(c, x.s)) < Signed(Wrap(x.imm)))
          [] x.k = "sltiu" -> Flag(R(c, x.s) < Wrap(x.imm)))

ShiftKinds == { "sll", "srl", "sra", "sllv", "srlv", "srav" }

Sll(v, n) == IF n >= W THEN 0 ELSE (v % 2^(W - n)) * 2^n
Srl(v, n) == IF n >= W THEN 0 ELSE v \div 2^n
Sra(v, n) == Signed(v) \div 2^(IF n >= W THEN W - 1 ELSE n)

Shift(c, x) ==
    LET immediate == x.k \in { "sll", "srl", "sra" }
        n == IF immediate THEN x.sa % 32 ELSE R(c, x.sh) % 32
        v == IF immediate THEN R(c, x.s) ELSE R(c, x.d)
    IN Set(c, x.d, CASE x.k \in { "sll", "sllv" } -> Sll(v, n)
                     [] x.k \in { "srl", "srlv" } -> Srl(v, n)
                     [] x.k \in { "sra", "srav" } -> Sra(v, n))

HiLoKinds == { "mult", "multu", "div", "divu", "mfhi", "mflo" }

HiLo(c, x) ==
    LET to(p) == [c EXCEPT !.hi = Wrap(p[1]), !.lo = Wrap(p[2])]
    IN CASE x.k = "mult"  -> to(Mul64(R(c, x.d), R(c, x.s), TRUE))
         [] x.k = "multu" -> to(Mul64(R(c, x.d), R(c, x.s), FALSE))
         [] x.k = "div"   -> to(Div(Signed(R(c, x.s)), Signed(R(c, x.t))))
         [] x.k = "divu"  -> to(Div(R(c, x.s), R(c, x.t)))
         [] x.k = "mfhi"  -> Set(c, x.d, c.hi)
         [] x.k = "mflo"  -> Set(c, x.d, c.lo)

ConvertKinds == { "zeb", "zeh", "seb", "seh" }

Convert(c, x) ==
    LET v == R(c, x.d)
    IN Set(c, x.d, CASE x.k = "zeb" -> v % 2^8 [] x.k = "zeh" -> v % 2^16
                     [] x.k = "seb" -> Sx(v, 8) [] x.k = "seh" -> Sx(v, 16))

LoadKinds == { "lb", "lbu", "lh", "lhu", "lw", "lwsp", "lwpc" }

Load(c, m, x, base) ==
    LET ea == Wrap(x.off + (CASE x.k = "lwsp" -> R(c, SP)
                              [] x.k = "lwpc" -> base
                              [] OTHER -> R(c, x.b)))
        v == CASE x.k = "lb"  -> Sx(Read8(m, ea), 8)
               [] x.k = "lbu" -> Read8(m, ea)
               [] x.k = "lh"  -> Sx(Read16(m, ea), 16)
               [] x.k = "lhu" -> Read16(m, ea)
               [] OTHER -> Read32(m, ea)
    IN Set(c, IF x.k = "lwpc" THEN x.d ELSE x.r, v)

StoreKinds == { "sb", "sh", "sw", "swsp", "swrasp" }

Store(c, m, x) ==
    LET ea == Wrap(x.off + (IF x.k \in { "swsp", "swrasp" } THEN R(c, SP) ELSE R(c, x.b)))
    IN CASE x.k = "sb" -> Write8(m, ea, R(c, x.r))
         [] x.k = "sh" -> Write16(m, ea, R(c, x.r))
         [] x.k = "swrasp" -> Write32(m, ea, R(c, RA))
         [] OTHER -> Write32(m, ea, R(c, x.r))

\* Branches act at once: they have no delay slot.
BranchKinds == { "b", "beqz", "bnez", "bteqz", "btnez" }

Taken(c, x) ==
    CASE x.k = "b" -> TRUE
      [] x.k = "beqz" -> R(c, x.s) = 0
      [] x.k = "bnez" -> R(c, x.s) /= 0
      [] x.k = "bteqz" -> R(c, T) = 0
      [] x.k = "btnez" -> R(c, T) /= 0

JumpKinds == { "jal", "jalx", "jr", "jalr" }        \* with a delay slot
CompactKinds == { "jrc", "jalrc" }                  \* without

Odd(v) == v - (v % 2) + 1

\* The address a call will come back to: past the slot, the mode in bit 0.
Link(c, x) ==
    CASE x.k \in { "jal", "jalx" } -> Set(c, RA, Odd(c.pc + 6))
      [] x.k = "jalr"  -> Set(c, RA, Odd(c.pc + 4))
      [] x.k = "jalrc" -> Set(c, RA, Odd(c.pc + 2))
      [] OTHER -> c

Target(c, x) == IF x.k \in { "jal", "jalx" } THEN x.tgt ELSE R(c, x.s) - (R(c, x.s) % 2)
TargetIsa(c, x) ==
    CASE x.k = "jal" -> 16 [] x.k = "jalx" -> 32
      [] OTHER -> IF R(c, x.s) % 2 = 1 THEN 16 ELSE 32

\* The registers a frame holds, in the order SAVE pushes them: ra, s8, s7 .. s2
\* as far as xsregs reaches, s1, s0, then the statics a3, a2, a1, a0.
Framed(x) ==
    (IF x.ra = 1 THEN << RA >> ELSE << >>)
    \o SubSeq(<< 30, 23, 22, 21, 20, 19, 18 >>, 8 - x.xsregs, 7)
    \o (IF x.s1 = 1 THEN << 17 >> ELSE << >>)
    \o (IF x.s0 = 1 THEN << 16 >> ELSE << >>)
    \o SubSeq(<< 7, 6, 5, 4 >>, 1, AREGS(x.aregs).statics)

\* Arguments go up into the caller's frame, the rest down from sp.
SaveWrites(c, x) ==
    [i \in 1 .. AREGS(x.aregs).args |-> << Wrap(R(c, SP) + 4 * (i - 1)), R(c, 3 + i) >>]
    \o [i \in 1 .. Len(Framed(x)) |-> << Wrap(R(c, SP) - 4 * i), R(c, Framed(x)[i]) >>]

ExecSave(c, m, x) ==
    [cpu |-> Set(c, SP, R(c, SP) - x.framesize),
     mem |-> FoldLeft(LAMBDA acc, w : Write32(acc, w[1], w[2]), m, SaveWrites(c, x))]

\* Mutant: the frame is read from its other end.
ExecRestoreMutantUpwards(c, m, x) ==
    LET top == Wrap(R(c, SP) + x.framesize)
        low == top - 4 * (Len(Framed(x)) + 1)
        filled == FoldLeftDomain(
                    LAMBDA acc, i : Set(acc, Framed(x)[i], Read32(m, Wrap(low + 4 * i))),
                    c, Framed(x))
    IN Set(filled, SP, top)

ExecRestore(c, m, x) ==
    LET top == Wrap(R(c, SP) + x.framesize)
        filled == FoldLeftDomain(
                    LAMBDA acc, i : Set(acc, Framed(x)[i], Read32(m, Wrap(top - 4 * i))),
                    c, Framed(x))
    IN Set(filled, SP, top)

---------------------------------------------------------------------------
(* step().                                                                 *)

\* Mutant: a slot's PC-relative operand is taken from the slot itself.
FetchMutantOwnBase(c, m) ==
    LET hw == Read16(m, c.pc)
        next == Read16(m, Wrap(c.pc + 2))
    IN IF Bits(hw, 15, 11) = 30
       THEN Decode(next, hw % 2048, Read16(m, Wrap(c.pc + 4)), c.pc, -1)
       ELSE Decode(hw, NoExt, next, c.pc, -1)

\* Fetch at pc and decode, against the jump's address in a delay slot.
Fetch(c, m) ==
    LET hw == Read16(m, c.pc)
        next == Read16(m, Wrap(c.pc + 2))
        base == c.delayed.from
    IN IF Bits(hw, 15, 11) = 30
       THEN Decode(next, hw % 2048, Read16(m, Wrap(c.pc + 4)), c.pc, base)
       ELSE Decode(hw, NoExt, next, c.pc, base)

\* Traps and a bare EXTEND decode, and stop exec() before it changes anything.
Refused(i) == ~i.ok \/ i.x.k \in { "trap", "extend" }

\* What the instruction itself does to the registers and to memory.
Effect(c, m, i) ==
    LET x == i.x
        base == PcBase(c.pc, c.delayed.from)
        to(cpu) == [cpu |-> cpu, mem |-> m]
    IN CASE x.k \in ArithKinds -> to(Arith(c, x, base))
         [] x.k \in CondKinds -> to(Cond(c, x))
         [] x.k \in ShiftKinds -> to(Shift(c, x))
         [] x.k \in HiLoKinds -> to(HiLo(c, x))
         [] x.k \in ConvertKinds -> to(Convert(c, x))
         [] x.k \in LoadKinds -> to(Load(c, m, x, base))
         [] x.k \in StoreKinds -> [cpu |-> c, mem |-> Store(c, m, x)]
         [] x.k \in BranchKinds -> to(c)
         [] x.k \in JumpKinds \cup CompactKinds -> to(Link(c, x))
         [] x.k = "save" -> ExecSave(c, m, x)
         [] x.k = "restore" -> to(ExecRestore(c, m, x))

\* Where control goes: a slot's end applies the pending jump whatever the slot
\* was; a branch or compact jump acts at once; a jump waits for its slot.
Flow(c, i, after) ==
    LET x == i.x
        next == Wrap(c.pc + i.len)
    IN IF c.delayed /= NotDelayed
       THEN [after EXCEPT !.pc = c.delayed.target, !.isa = c.delayed.isa,
                          !.delayed = NotDelayed]
       ELSE IF x.k \in BranchKinds /\ Taken(c, x)
       THEN [after EXCEPT !.pc = Wrap(next + x.off)]
       ELSE IF x.k \in CompactKinds
       THEN [after EXCEPT !.pc = Target(c, x), !.isa = TargetIsa(c, x)]
       ELSE IF x.k \in JumpKinds
       THEN [after EXCEPT !.pc = next,
                          !.delayed = [target |-> Target(c, x), isa |-> TargetIsa(c, x),
                                       from |-> c.pc]]
       ELSE [after EXCEPT !.pc = next]

\* A jump in a slot is what the manual calls unpredictable; step() says so.
Unpredictable(c, i) ==
    /\ c.delayed /= NotDelayed
    /\ \/ i.x.k \in JumpKinds \cup CompactKinds
       \/ i.x.k \in BranchKinds /\ Taken(c, i.x)

---------------------------------------------------------------------------
(* disassemble(): the sweep of a code range that tracks delay slots by the *)
(* instruction before.  h is the halfwords from address 0.                 *)

HasDelaySlot(i) == i.x.k \in JumpKinds

RECURSIVE SweepFrom(_, _, _)
SweepFrom(h, n, from) ==       \* n halfwords done
    IF n >= Len(h) THEN << >>
    ELSE LET hw == h[n + 1]
             last == n + 1 = Len(h)
             addr == 2 * n
             entry(i) == [addr |-> addr, ins |-> i]
             ext == Decode(h[n + 2], hw % 2048, 0, addr, from)
             bare == Decode(hw, NoExt, IF last THEN 0 ELSE h[n + 2], addr, from)
         IN IF Bits(hw, 15, 11) = 30 /\ ~last
            THEN IF ext.notext
                 THEN << entry(Decode(hw, NoExt, 0, addr, -1)) >> \o SweepFrom(h, n + 1, -1)
                 ELSE << entry(ext) >> \o SweepFrom(h, n + 2, -1)
            ELSE << entry(bare) >>
                 \o SweepFrom(h, n + (IF last THEN 1 ELSE bare.len \div 2),
                              IF HasDelaySlot(bare) THEN addr ELSE -1)

Sweep(h) == SweepFrom(h, 0, -1)

---------------------------------------------------------------------------
(* The machine: a caller that steps one program until it leaves its code,  *)
(* its mode or the instruction set; and, apart, the enumeration of every   *)
(* halfword through decode(), a high byte at a time.                       *)

VARIABLES
    cpu,        \* {pc, isa, reg, hi, lo, delayed}
    mem,        \* bytes
    prog,       \* the program loaded at address 0
    last,       \* what the previous step() reported
    halted,     \* it reported ok: false
    chunk,      \* high bytes enumerated
    seen        \* kinds of execution payload met

vars == << cpu, mem, prog, last, halted, chunk, seen >>

NoStep == [addr |-> -1, ins |-> Unk(2), slot |-> FALSE, unpredictable |-> FALSE]

Loaded(code) ==
    [a \in 0 .. 2 * Len(code) - 1 |->
        IF a % 2 = 0 THEN code[a \div 2 + 1] \div 256 ELSE code[a \div 2 + 1] % 256]

InitProgram ==
    /\ prog \in Programs
    /\ cpu = [NewCpu EXCEPT !.reg = prog.reg]
    /\ mem = Loaded(prog.code)
    /\ chunk = 256

InitEnumeration ==
    /\ prog = [code |-> << >>, reg |-> NewCpu.reg, about |-> "kinds"]
    /\ cpu = NewCpu
    /\ mem = Loaded(<< >>)
    /\ chunk = 0

Init ==
    /\ InitProgram \/ InitEnumeration
    /\ last = NoStep
    /\ halted = FALSE
    /\ seen = {}

CanStep == ~halted /\ cpu.isa = 16 /\ cpu.pc < 2 * Len(prog.code)

StepOk ==
    LET i == Fetch(cpu, mem)
        effect == Effect(cpu, mem, i)
    IN /\ CanStep /\ ~Refused(i)
       /\ cpu' = Flow(cpu, i, effect.cpu)
       /\ mem' = effect.mem
       /\ last' = [addr |-> cpu.pc, ins |-> i, slot |-> cpu.delayed /= NotDelayed,
                   unpredictable |-> Unpredictable(cpu, i)]
       /\ UNCHANGED << prog, halted, chunk, seen >>

StepFails ==
    /\ CanStep /\ Refused(Fetch(cpu, mem))
    /\ halted' = TRUE
    /\ UNCHANGED << cpu, mem, prog, last, chunk, seen >>

\* decode() of 256 halfwords, bare and under each EXTEND of Exts.
Kinds(hi) ==
    { i.x.k : i \in { j \in { Decode(hi * 256 + lo, e, 0, 0, -1)
                              : lo \in 0 .. 255, e \in Exts \cup {NoExt} } : j.ok } }

Enumerate ==
    /\ chunk < 256
    /\ seen' = seen \cup Kinds(chunk)
    /\ chunk' = chunk + 1
    /\ UNCHANGED << cpu, mem, prog, last, halted >>

Next == StepOk \/ StepFails \/ Enumerate

Spec == Init /\ [][Next]_vars

---------------------------------------------------------------------------
(* Properties.                                                             *)

TypeOK ==
    /\ cpu.pc \in Word /\ cpu.isa \in {16, 32}
    /\ cpu.reg \in [0 .. 31 -> Word] /\ cpu.reg[0] = 0
    /\ cpu.hi \in Word /\ cpu.lo \in Word
    /\ DOMAIN mem \subseteq 0 .. MemSize - 1 /\ Range(mem) \subseteq 0 .. 255
    /\ chunk \in 0 .. 256 /\ seen \subseteq KID

\* "THE TABLE IS THE WHOLE VOCABULARY.  Brute-forcing every one of the 65,536
\* halfwords, bare and EXTEND-prefixed, yields exactly 63 distinct x.k values"
\* (mips16.js, KID).
VocabularyIsTheTable ==
    /\ seen \subseteq KID
    /\ prog.about = "kinds" /\ chunk = 256 => seen = KID /\ Cardinality(seen) = 63

\* The product and the quotient, against their definitions in whole numbers:
\* mul64()'s limbs and carries lose nothing, signed division truncates.
ProductsAndQuotients ==
    LET a == Signed(prog.reg[2])  b == Signed(prog.reg[3])
        ua == prog.reg[2]         ub == prog.reg[3]
        hi == Signed(cpu.hi)      lo == Signed(cpu.lo)
        wide(p) == Wrap(p \div 2^W) = cpu.hi /\ Wrap(p) = cpu.lo
        abs(v) == IF v < 0 THEN -v ELSE v
    IN prog.about = "hilo" /\ last /= NoStep =>
        CASE last.ins.x.k = "mult" -> wide(a * b)
          [] last.ins.x.k = "multu" -> wide(ua * ub)
          [] last.ins.x.k = "div" ->
                b /= 0 => /\ Wrap(lo * b + hi) = ua
                          /\ abs(hi) < abs(b) /\ (hi = 0 \/ (hi < 0) = (a < 0))
          [] last.ins.x.k = "divu" ->
                ub /= 0 => cpu.lo * ub + cpu.hi = ua /\ cpu.hi < ub
          [] OTHER -> TRUE

\* Frames nest: whatever runs between an outer SAVE and its RESTORE -- an inner
\* frame of any shape, and code that overwrites every register -- the outer
\* RESTORE gives back sp and every register its SAVE stored, when its frame has
\* room for them and for the inner routine's arguments.
FramesNest ==
    LET outer == Fetch(NewCpu, Loaded(prog.code)).x
        roomy == outer.framesize >= 4 * Len(Framed(outer)) + 16
    IN prog.about = "frames" /\ cpu.pc = 2 * Len(prog.code) /\ roomy =>
        \A r \in {SP} \cup Range(Framed(outer)) : cpu.reg[r] = prog.reg[r]

\* The two decoders of a code range agree: wherever step() has run, or refused
\* to, an instruction that the sweep lists, and both or neither take it for a
\* delay slot, it is the same instruction with the same PC-relative base.
SweepAgrees ==
    LET s == Sweep(prog.code)
        slotted(n) == n > 1 /\ HasDelaySlot(s[n - 1].ins)
    IN prog.about = "sweep" =>
        \A n \in DOMAIN s :
            /\ s[n].addr = last.addr /\ slotted(n) = last.slot => s[n].ins = last.ins
            /\ halted /\ s[n].addr = cpu.pc => Refused(s[n].ins)
=============================================================================
