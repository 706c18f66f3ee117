--------------------------------- MODULE Words ---------------------------------
(***************************************************************************)
(* The unsigned arithmetic of C on words of w bits.  A word is the set of  *)
(* the positions of its set bits: &, | and ^ are set operations, a shift   *)
(* moves positions and drops those that leave the word, and words of 64    *)
(* bits need no numbers larger than TLC has.                               *)
(***************************************************************************)
EXTENDS Integers, FiniteSetsExt, SequencesExt

Bits(w) == 0..w-1

Shr(n, k)    == {b - k : b \in {c \in n : c >= k}}
Shl(n, k, w) == {b + k : b \in n} \cap Bits(w)
Xor(n, m)    == (n \ m) \cup (m \ n)

\* n - 1: the lowest bit is borrowed from, and 0 - 1 has all bits set.
Minus1(n, w) == IF n = {} THEN Bits(w) ELSE (n \ {Min(n)}) \cup 0..Min(n)-1

\* A bit of the sum is that of n ^ m, changed by a carry: one begins where both
\* have a bit, and runs on while one of them has.
Plus(n, m, w) ==
  LET both   == n \cap m
      either == Xor(n, m)
      carry  == {b \in 1..w-1 : \E c \in both : c < b /\ c+1..b-1 \subseteq either}
  IN  Xor(either, carry)

\* m is added once for each bit of n.
Times(n, m, w) == FoldSet(LAMBDA b, sum : Plus(sum, Shl(m, b, w), w), {}, n)

\* The bits of a number of TLC, and the number of bits that are few.
FromNat(i, w) == {b \in Bits(w) : b < 31 /\ (i \div 2^b) % 2 = 1}
ToNat(n)      == FoldSet(LAMBDA b, sum : sum + 2^b, 0, n)

\* A constant of the source, by its hexadecimal digits.
Hex(digits) ==
  UNION {Shl(FromNat(digits[i], 4), 4 * (Len(digits) - i), 4 * Len(digits)) : i \in 1..Len(digits)}
=============================================================================
