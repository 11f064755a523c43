-------------------------- MODULE Mips16Arithmetic --------------------------
(* The arithmetic of the MIPS16e interpreter: words, multiplication by half- *)
(* words and division, as the reference computes them in the numbers of      *)
(* JavaScript, which hold a product of two words only in parts.  A word is   *)
(* kept as 0 .. Base - 1; Signed() reads it as the code's `| 0`.             *)
EXTENDS Integers

CONSTANT Half      \* 65536 in the code: what a half-word counts to

ASSUME HalfAssumption == Half \in Nat \ {0} /\ Half % 2 = 0

Base == Half * Half
Word == 0 .. Base - 1
Wrap(v) == v % Base
Signed(v) == IF v >= Base \div 2 THEN v - Base ELSE v

\* Mutant: the carry out of the low half is lost.
Mul64MutantNoCarry(a, b, signed) ==
    LET p == (a % Half) * (b \div Half) + (a \div Half) * (b % Half)
        sum == (a % Half) * (b % Half) + (p % Half) * Half
    IN << Wrap((a \div Half) * (b \div Half) + p \div Half), Wrap(sum) >>

\* The body of mul64(): the product of two numbers in half-word limbs, high word
\* and low, negated at the end.
Limbs(a, b) ==
    LET neg == (a < 0) /= (b < 0)
        ua == IF a < 0 THEN -a ELSE a
        ub == IF b < 0 THEN -b ELSE b
        ah == ua \div Half    al == ua % Half
        bh == ub \div Half    bl == ub % Half
        mid == al * bh + ah * bl
        sum == al * bl + (mid % Half) * Half
        lo == Wrap(sum)
        hi == Wrap(ah * bh + mid \div Half + sum \div Base)
    IN IF ~neg THEN << hi, lo >>
       ELSE IF lo = 0 THEN << Wrap(Base - hi), 0 >>
       ELSE << Wrap(Base - 1 - hi), Base - lo >>

\* mul64(): the two words are read with their sign or without.
Mul64(a, b, signed) ==
    IF signed THEN Limbs(Signed(a), Signed(b)) ELSE Limbs(a, b)

\* Quotient towards zero, remainder of the dividend's sign; nothing by 0.
Div(a, b) ==
    LET q == (IF a < 0 THEN -a ELSE a) \div (IF b < 0 THEN -b ELSE b)
        quotient == IF (a < 0) /= (b < 0) THEN -q ELSE q
    IN IF b = 0 THEN << a, 0 >> ELSE << a - quotient * b, quotient >>
=============================================================================
