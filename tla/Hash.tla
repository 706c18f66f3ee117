--------------------------------- MODULE Hash ---------------------------------
(***************************************************************************)
(* The hash functions of include/hash.h, src/hash.c and                    *)
(* include/pjwhash-inline.h.  Words are sets of bits (Words); a string is  *)
(* a sequence of bytes, which are numbers.  long is __BITS_PER_LONG, 32 or *)
(* 64: what is compiled depends on it.                                     *)
(***************************************************************************)
EXTENDS Words

GOLDEN_RATIO_32 == Hex(<<6,1,12,8,8,6,4,7>>)
GOLDEN_RATIO_64 == Hex(<<6,1,12,8,8,6,4,6,8,0,11,5,8,3,14,11>>)

(***************************************************************************)
(* Words and pointers.                                                     *)
(***************************************************************************)
__hash_32(val) == Times(GOLDEN_RATIO_32, val, 32)

\* A mistake: the low bits of the product.
hash_32_low(val, bits) == __hash_32(val) \cap Bits(bits)

hash_32(val, bits) == Shr(__hash_32(val), 32 - bits)

\* The value returned is a u32.
hash_64(val, bits, long) ==
  IF long = 64
  THEN Shr(Times(GOLDEN_RATIO_64, val, 64), 64 - bits) \cap Bits(32)
  ELSE hash_32(Xor(val \cap Bits(32), __hash_32(Shr(val, 32))), bits)

\* hash_32() takes a u32.
hash_long(val, bits, long) ==
  IF long = 32 THEN hash_32(val \cap Bits(32), bits) ELSE hash_64(val, bits, long)

hash_ptr(ptr, bits, long) == hash_long(ptr, bits, long)

hash32_ptr(ptr, long) ==
  (IF long = 64 THEN Xor(ptr, Shr(ptr, 32)) ELSE ptr) \cap Bits(32)

\* Of hashtable.h: size is sizeof(val).
hash_min(val, size, bits, long) ==
  IF size <= 4 THEN hash_32(val, bits) ELSE hash_long(val, bits, long)

(***************************************************************************)
(* Strings.                                                                *)
(***************************************************************************)
init_name_hash(salt) == salt

partial_name_hash(c, prevhash, long) ==
  Times(FromNat(11, long), Plus(Plus(prevhash, Shl(c, 4, long), long), Shr(c, 4), long), long)

end_name_hash(hash, long) == hash_long(hash, 32, long)

hashlen_hash(hashlen)     == hashlen \cap Bits(32)
hashlen_len(hashlen)      == Shr(hashlen, 32) \cap Bits(32)
hashlen_create(hash, len) == Shl(len, 32, 64) \cup (hash \cap Bits(32))

\* The bytes are taken as unsigned char.
hash_string(salt, name, len, long) ==
  end_name_hash(FoldLeft(LAMBDA hash, c : partial_name_hash(FromNat(c, long), hash, long),
                         init_name_hash(salt), SubSeq(name, 1, len)), long)

Bytes == 0..255

\* The loop of hashlen_string(), with char as the words for the bytes.
Walked(salt, name, long, char) ==
  FoldLeft(LAMBDA at, c :
             IF at.end \/ c = 0 THEN [at EXCEPT !.end = TRUE]
             ELSE [at EXCEPT !.len = @ + 1, !.hash = partial_name_hash(char[c], @, long)],
           [hash |-> init_name_hash(salt), len |-> 0, end |-> FALSE], name)

\* A mistake: the bytes are taken as char.
hashlen_string_signed(salt, name, long) ==
  LET at == Walked(salt, name, long,
                   [c \in Bytes |-> FromNat(c, long) \cup (IF c < 128 THEN {} ELSE 8..long-1)])
  IN  hashlen_create(end_name_hash(at.hash, long), FromNat(at.len, long))

hashlen_string(salt, name, long) ==
  LET at == Walked(salt, name, long, [c \in Bytes |-> FromNat(c, long)])
  IN  hashlen_create(end_name_hash(at.hash, long), FromNat(at.len, long))

HIGH_BITS == Bits(32) \ Bits(28)

pjwhash(key) ==
  FoldLeft(LAMBDA hash, k :
             LET sum  == Plus(Shl(hash, 4, 32), FromNat(k, 32), 32)
                 high == sum \cap HIGH_BITS
             IN  Xor(sum, Shr(high, 24)) \ high,
           {}, key)
=============================================================================
