--------------------------------- MODULE Bitops ---------------------------------
(***************************************************************************)
(* The bit operations of include/bitops.h, and its loops over the bits of  *)
(* a word, on words that are sets of bits (Words).                         *)
(***************************************************************************)
EXTENDS Words

CONSTANTS
  Widths,  \* 32 and 64
  Few      \* bound: a word has as many bits set, or fewer clear

ASSUME BitopsAssumption == Widths \subseteq {32, 64} /\ Few \in Nat \ {0}

\* n & (n - 1)
WithoutLowest(n, w) == n \cap Minus1(n, w)

-----------------------------------------------------------------------------
(* The builtins, whose value is undefined where this is.                   *)

ctz(n)     == Min(n)
clz(n, w)  == w - 1 - Max(n)
ffs(n)     == IF n = {} THEN 0 ELSE Min(n) + 1
popcount(n) == Cardinality(n)

(* The operations defined on top of them.                                  *)

msb(n, w) == w - 1 - clz(n, w)
fls(n, w) == IF n # {} THEN w - clz(n, w) ELSE 0

is_pow2(n, w) == n # {} /\ WithoutLowest(n, w) = {}

\* Smaller words are promoted to int, of 32 bits, and not cut to their width again.
Promoted(w) == IF w < 32 THEN 32 ELSE w

rol(num, n, w) == Shl(num, n % w, Promoted(w)) \cup Shr(num, (-n) % w)
ror(num, n, w) == Shr(num, n % w) \cup Shl(num, (-n) % w, Promoted(w))

-----------------------------------------------------------------------------
(* The emulations.  Searches halve the word: in 16s, 8s, 4s, 2s and 1s.    *)

\* A mistake: the last halving is left out.
HalvesShort(w) == IF w = 64 THEN <<32, 16, 8, 4, 2>> ELSE <<16, 8, 4, 2>>

Halves(w) == IF w = 64 THEN <<32, 16, 8, 4, 2, 1>> ELSE <<16, 8, 4, 2, 1>>

__ctz_emulated(n, w) ==
  FoldLeft(LAMBDA a, s : IF a.n \cap Bits(s) = {} THEN [n |-> Shr(a.n, s), r |-> a.r + s] ELSE a,
           [n |-> n, r |-> 0], Halves(w)).r

__clz_emulated(n, w) ==
  w - 1 - FoldLeft(LAMBDA a, s : IF a.n \ Bits(s) # {} THEN [n |-> Shr(a.n, s), r |-> a.r + s] ELSE a,
                   [n |-> n, r |-> 0], Halves(w)).r

\* A macro, whose argument is the loop's variable too: a turn takes the lowest bit
\* of it.  It gives the number of turns, and leaves n as the last one left it.
__popcount_emulated(n, w) ==
  LET after[i \in 0..w] == IF i = 0 THEN n ELSE WithoutLowest(after[i-1], w)
      turns == Min({i \in 0..w : after[i] = {}})
  IN  [count |-> turns, n |-> after[turns]]

\* By the builtin popcount, in a build that has no builtin ffs; ~-n is n - 1.
__ffs_popcount(n, w) == popcount(Xor(n, Minus1(n, w)))

\* The bits of every other group of k: 0x00FF00FF, 0x0000FFFF0000FFFF.
Alternate(k, w) == {b \in Bits(w) : (b \div k) % 2 = 0}

Exchange(n, k, w) ==
  (Shr(n, k) \cap Alternate(k, w)) \cup Shl(n \cap Alternate(k, w), k, w)

__bswap_emulated(n, w) ==
  FoldLeft(LAMBDA m, k : Exchange(m, k, w), n, IF w = 64 THEN <<8, 16, 32>> ELSE <<8, 16>>)

\* n |= n >> 1, and so on: all the bits below the highest one.
Smeared(n, w) ==
  FoldLeft(LAMBDA m, k : m \cup Shr(m, k), n, IF w = 64 THEN <<1, 2, 4, 8, 16, 32>> ELSE <<1, 2, 4, 8, 16>>)

__ilog2_32_table ==
  <<0,  9,  1, 10, 13, 21,  2, 29,  11, 14, 16, 18, 22, 25,  3, 30,
    8, 12, 20, 28, 15, 17, 24,  7,  19, 27, 23,  6, 26,  5,  4, 31>>

__ilog2_64_table ==
  <<63,  0, 58,  1, 59, 47, 53,  2,  60, 39, 48, 27, 54, 33, 42,  3,
    61, 51, 37, 40, 49, 18, 28, 20,  55, 30, 34, 11, 43, 14, 22,  4,
    62, 57, 46, 52, 38, 26, 32, 41,  50, 36, 17, 19, 29, 10, 13, 21,
    56, 45, 25, 31, 35, 16,  9, 12,  44, 24, 15,  8, 23,  7,  6,  5>>

\* The multipliers put a number of its own in the top bits for each highest bit.
\* Of all the bits below it, n - (n >> 1) leaves the highest: nothing is borrowed.
__ilog2_emulated(n, w) ==
  LET m == Smeared(n, w)
  IN  IF w = 32
      THEN __ilog2_32_table[ToNat(Shr(Times(m, Hex(<<0,7,12,4,10,12,13,13>>), 32), 27)) + 1]
      ELSE __ilog2_64_table[ToNat(Shr(Times(m \ Shr(m, 1),
                              Hex(<<0,7,14,13,13,5,14,5,9,10,4,14,2,8,12,2>>), 64), 58)) + 1]

-----------------------------------------------------------------------------
(* bit_for_each32 and 64, and their variants that count from 1 (byffs).    *)

VARIABLES w, u, byffs, tmp, pos, seen, op

vars == <<w, u, byffs, tmp, pos, seen, op>>

Word(width) ==
  LET sparse[k \in 0..Few] ==
        IF k = 0 THEN {{}} ELSE {s \cup {b} : s \in sparse[k-1], b \in Bits(width)} \cup {{}}
  IN  sparse[Few] \cup {Bits(width) \ s : s \in sparse[Few-1]}

\* for (tmp = u, ...
Init ==
  /\ w \in Widths /\ u \in Word(w) /\ byffs \in BOOLEAN
  /\ tmp = u /\ pos = 0 /\ seen = <<>> /\ op = "find"

\* pos = ctz(tmp) or ffs(tmp): undefined is any number the hardware may give.
Find ==
  /\ op = "find"
  /\ IF byffs THEN pos' = ffs(tmp)
     ELSE IF tmp # {} THEN pos' = ctz(tmp) ELSE pos' \in 0..w
  /\ op' = "test"
  /\ UNCHANGED <<w, u, byffs, tmp, seen>>

\* A mistake: pos counts from 1, and is the bit that is flipped.
ClearedFromOne == IF byffs THEN WithoutLowest(tmp, w) ELSE Xor(tmp, {pos + 1})

Cleared == IF byffs THEN WithoutLowest(tmp, w) ELSE Xor(tmp, {pos})

\* The test, the body, and the first half of the step.
Turn ==
  /\ op = "test" /\ tmp # {}
  /\ seen' = Append(seen, pos)
  /\ tmp' = Cleared
  /\ op' = "find"
  /\ UNCHANGED <<w, u, byffs, pos>>

End == op = "test" /\ tmp = {} /\ op' = "done" /\ UNCHANGED <<w, u, byffs, tmp, pos, seen>>

Next == Find \/ Turn \/ End

Spec == Init /\ [][Next]_vars

-----------------------------------------------------------------------------
(***************************************************************************)
(* Every emulation gives what the builtin it stands for gives: of any word *)
(* that is not 0, and of 0 where the builtin is defined, but for ffs of 0, *)
(* which is 0 and not what the popcounts give (they give the width).       *)
(* Counting bits leaves 0 in the variable that is counted.                 *)
(* A byte swap puts bit b of a byte at bit b of the byte opposite.  A      *)
(* rotation by any amount, negative or beyond the width too, moves bit b   *)
(* to b + n, once a small word is cut to its width again.                  *)
(***************************************************************************)
EmulationsAgree ==
  seen = <<>> /\ op = "find" =>
    /\ u # {} => /\ __ctz_emulated(u, w) = ctz(u) /\ __clz_emulated(u, w) = clz(u, w)
                 /\ __ffs_popcount(u, w) = ffs(u) /\ msb(u, w) = Max(u)
                 /\ __ilog2_emulated(u, w) = Max(u)
    /\ fls(u, w) = IF u = {} THEN 0 ELSE Max(u) + 1
    /\ __popcount_emulated(u, w) = [count |-> popcount(u), n |-> {}]
    /\ is_pow2(u, w) <=> popcount(u) = 1
    /\ __bswap_emulated(u, w) = {((w \div 8 - 1 - (b \div 8)) * 8) + (b % 8) : b \in u}
    /\ \A width \in {8, 16, w}, n \in {-1, 0, 1, 7, w - 1, w, w + 1} :
         LET num == u \cap Bits(width)
         IN  /\ rol(num, n, width) \cap Bits(width) = {(b + n) % width : b \in num}
             /\ ror(num, n, width) \cap Bits(width) = {(b - n) % width : b \in num}

(***************************************************************************)
(* A loop takes up the bits of u one by one and in their order, each once: *)
(* what it has seen and what is left are u at every turn, and it ends with *)
(* nothing left.  No bit is seen because ctz() of 0 is undefined.          *)
(***************************************************************************)
LoopsVisitEachBit ==
  LET bits == {IF byffs THEN seen[i] - 1 ELSE seen[i] : i \in 1..Len(seen)}
  IN  /\ bits \cup tmp = u /\ \A b \in bits, c \in tmp : b < c
      /\ \A i, j \in 1..Len(seen) : i < j => seen[i] < seen[j]
      /\ op = "done" => tmp = {}

(***************************************************************************)
(* ctz32() is "Not defined if no bit set, so check for non-zero before     *)
(* calling this", as one may expect of a loop over the bits of a word that *)
(* is not zero.                                                            *)
(***************************************************************************)
CtzIsOfNonZero == op = "find" /\ ~byffs /\ u # {} => tmp # {}
=============================================================================
