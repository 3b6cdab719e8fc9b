------------------------------ MODULE Numbers -------------------------------
(***************************************************************************)
(* Arithmetic the codecs share: exclusive or at the widths the code uses   *)
(* it, and positional notation in any base.  Recursion is by recursive     *)
(* functions over an index, so that what they compute can be proved.       *)
(***************************************************************************)
EXTENDS Integers, Sequences

Byte == 0..255
Half == 65536
U16  == 0..(Half - 1)

\* a ^ b on 1, 2, ... 32 bits: the two halves of the word apart.
xor1(a, b)  == (a + b) % 2
xor2(a, b)  == 2 * xor1(a \div 2, b \div 2) + xor1(a % 2, b % 2)
xor4(a, b)  == 4 * xor2(a \div 4, b \div 4) + xor2(a % 4, b % 4)
xor8(a, b)  == 16 * xor4(a \div 16, b \div 16) + xor4(a % 16, b % 16)
xor16(a, b) == 256 * xor8(a \div 256, b \div 256) + xor8(a % 256, b % 256)
xor32(a, b) == 65536 * xor16(a \div 65536, b \div 65536) + xor16(a % 65536, b % 65536)

----------------------------------------------------------------------------
\* What is left of v after each of n divisions by base.
Quotients(v, base, n) ==
    LET q[i \in 0..n] == IF i = 0 THEN v ELSE q[i - 1] \div base
    IN q

\* The digits of v, most significant first, no leading zero; the encoder's
\* buffer holds max of them.
ToDigits(v, base, max) ==
    LET q == Quotients(v, base, max)
        n == CHOOSE i \in 1..max : q[i] = 0 /\ (i = 1 \/ q[i - 1] # 0)
    IN [i \in 1..n |-> q[n - i] % base]

\* The value of each front part of the digits d, and of all of them.
Values(d, base) ==
    LET v[i \in 0..Len(d)] == IF i = 0 THEN 0 ELSE v[i - 1] * base + d[i]
    IN v

FromDigits(d, base) == Values(d, base)[Len(d)]
=============================================================================
