-------------------------------- MODULE MCWords --------------------------------
(***************************************************************************)
(* The hash functions of Hash on the words that Bitops begins with: as     *)
(* integers, as pointers, and as the bytes of a string in memory.          *)
(***************************************************************************)
EXTENDS Bitops, Hash

CONSTANT TableBits  \* the @bits of the tables

ASSUME TableAssumption == TableBits \subseteq 1..31

\* Once for each word.
AtFirst == op = "find" /\ seen = <<>> /\ byffs

Flipped == {Xor(u, {b}) : b \in {0, w \div 2 - 1, w - 1}}

(***************************************************************************)
(* Every hash of a word is inside a table of 2^bits buckets.  A table      *)
(* twice as large splits each bucket in two, because the bits come from    *)
(* the top, and for the same reason no bit of the key is without effect,   *)
(* in a table of 256 buckets or more: hash.h calls it essential.           *)
(***************************************************************************)
HashesFitTheTable ==
  AtFirst =>
    \A bits \in TableBits, long \in {32, 64} :
      LET H(val, b) == IF w = 32 THEN hash_min(val, 4, b, long) ELSE hash_64(val, b, long)
          hash      == H(u, bits)
      IN  /\ hash \subseteq Bits(bits) /\ hash = Shr(H(u, bits + 1), 1)
          /\ hash_min(u, w \div 8, bits, long) \subseteq Bits(bits)
          /\ w = long => hash_ptr(u, bits, long) = hash
          /\ \A val \in Flipped : /\ bits >= 8 => H(val, bits) # hash
                                  /\ w = long => hash32_ptr(val, long) # hash32_ptr(u, long)

\* The bytes of u as they lie in memory, and a zero behind them.
Name == [i \in 1..w \div 8 |-> ToNat(Shr(u, 8 * (i - 1)) \cap Bits(8))] \o <<0>>

(***************************************************************************)
(* The two hashes of a string agree: the one that is told the length, and  *)
(* the one that looks for the end, hashes on the way and returns hash and  *)
(* length in one word.  That of pjwhash() keeps the bits free from which   *)
(* the next character would push some out of the word.                     *)
(***************************************************************************)
StringHashesAgree ==
  AtFirst =>
    \A long \in {32, 64} :
      LET salt    == u \cap Bits(long)
          len     == Cardinality({i \in 1..Len(Name) : \A j \in 1..i : Name[j] # 0})
          hashlen == hashlen_string(salt, Name, long)
      IN  /\ hashlen_hash(hashlen) = hash_string(salt, Name, len, long)
          /\ hashlen_len(hashlen) = FromNat(len, 32)
          /\ pjwhash(SubSeq(Name, 1, len)) \subseteq Bits(28)
=============================================================================
