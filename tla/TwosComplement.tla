--------------------------- MODULE TwosComplement ---------------------------
(***************************************************************************)
(* Integers in two's complement, a bit string being the set of the         *)
(* positions whose bit is 1.                                               *)
(***************************************************************************)
EXTENDS Integers

\* 1 << n.
Pow2[n \in Nat] == IF n = 0 THEN 1 ELSE 2 * Pow2[n - 1]

\* v >> b, with the sign.
Shr(v, b) ==
  LET shr[i \in Nat] == IF i = 0 THEN v ELSE shr[i - 1] \div 2 IN shr[b]

\* v & mask_of(n).
BitsOf(v, n) == {b \in 0..(n - 1) : Shr(v, b) % 2 = 1}

\* The number the low width bits stand for, below a part worth high: read from
\* the most significant bit down.
Number(bits, width, high) ==
  LET top[i \in Nat] ==
        IF i = 0 THEN high
        ELSE 2 * top[i - 1] + (IF width - i \in bits THEN 1 ELSE 0)
  IN  top[width]

UnsignedRead(bits, width) == Number(bits, width, 0)
SignedRead(bits, width) == Number(bits, width, IF width - 1 \in bits THEN -1 ELSE 0)

SignedRange(width) == -Pow2[width - 1] .. Pow2[width - 1] - 1
UnsignedRange(width) == 0 .. Pow2[width] - 1
=============================================================================
