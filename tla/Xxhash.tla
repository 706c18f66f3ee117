-------------------------------- MODULE Xxhash --------------------------------
(***************************************************************************)
(* The hashes of todo/xxhash.c, of an input that is there at once (xxh32,  *)
(* xxh64), and of one that comes in pieces (reset, update, digest).  Both  *)
(* read the input in stripes of four words, one for each lane v1 to v4,    *)
(* and what is left in words and bytes.  A piece may end anywhere, so      *)
(* update keeps the bytes of an unfinished stripe in a buffer.             *)
(*                                                                         *)
(* What matters here is which bytes are read, how many at a time, and      *)
(* where they go.  A value of the code is kept as what it was computed     *)
(* from: a lane is the words it took, a digest the lanes or the seed, the  *)
(* length and the words and bytes mixed in after that.  Two digests that   *)
(* are equal here are equal in C, for every seed.  No two bytes of an      *)
(* input are the same: each is its position.                               *)
(***************************************************************************)
EXTENDS Integers, Sequences

CONSTANTS
  States,   \* the struct xxh32_state or xxh64_state of the caller
  Lengths,  \* the @length of its inputs
  MaxLen,   \* bound: the stripes given to a state, and one word more
  TwoTo32   \* the number of values of a u32

ASSUME XxhashAssumption ==
  Lengths \subseteq Nat /\ MaxLen \in Nat /\ TwoTo32 \in Nat \ 0..30

VARIABLES
  word,   \* the bytes of a lane's word: 4 in the functions xxh32, 8 in xxh64
  state,  \* the states
  ret,    \* what the last call returned
  given   \* history: how many bytes each state was given since it was reset

vars == <<word, state, ret, given>>

Lanes == 1..4

Stripe == 4 * word

\* get_unaligned_le32(p) and 64: the n bytes behind position p.
Word(bytes, p, n) == [i \in 1..n |-> bytes[p + i]]

\* The lanes once they have taken n stripes from position p on.
Rounds(v, bytes, p, n) ==
  [l \in Lanes |-> v[l] \o [i \in 1..n |-> Word(bytes, p + (i-1) * Stripe + (l-1) * word, word)]]

\* What is left is read in words, then in 4 bytes at once, then byte by byte.
Cut(bytes, p, n, count) == [i \in 1..count |-> Word(bytes, p + (i-1) * n, n)]

Rest(bytes, p, len) ==
  LET words == len \div word
      fours == (len % word) \div 4
  IN  Cut(bytes, p, word, words)
        \o Cut(bytes, p + words * word, 4, fours)
        \o Cut(bytes, p + words * word + fours * 4, 1, len % 4)

Seeds == [l \in Lanes |-> <<>>]

-----------------------------------------------------------------------------
(* The input at once.                                                      *)

Whole(input, len) ==
  LET stripes == Len(input) \div Stripe
      p       == stripes * Stripe
  IN  [acc  |-> IF Len(input) >= Stripe THEN Rounds(Seeds, input, 0, stripes) ELSE Seeds[3],
       len  |-> len,
       rest |-> Rest(input, p, Len(input) - p)]

\* (uint32_t)len
xxh32(input) == Whole(input, Len(input) % TwoTo32)

xxh64(input) == Whole(input, Len(input))

-----------------------------------------------------------------------------
(* The input in pieces.                                                    *)

xxh64_reset ==
  [v |-> Seeds, mem |-> [i \in 1..Stripe |-> 0], memsize |-> 0, total_len |-> 0, large_len |-> FALSE]

\* total_len is total_len_32 here.
xxh32_reset == xxh64_reset

\* memcpy(mem + at, input + p, n)
Copied(mem, at, input, p, n) ==
  [i \in 1..Stripe |-> IF i \in at+1..at+n THEN input[p + i - at] ELSE mem[i]]

Buffered(st, input) ==
  [st EXCEPT !.mem = Copied(@, st.memsize, input, 0, Len(input)), !.memsize = @ + Len(input)]

\* A mistake: the buffer is read before the input completes it.
CompletedLate(st, input) ==
  [st EXCEPT !.v = Rounds(@, st.mem, 0, 1),
             !.mem = Copied(@, st.memsize, input, 0, Stripe - st.memsize), !.memsize = 0]

\* Some data left from previous update.
Completed(st, input) ==
  LET mem == Copied(st.mem, st.memsize, input, 0, Stripe - st.memsize)
  IN  [st EXCEPT !.v = Rounds(@, mem, 0, 1), !.mem = mem, !.memsize = 0]

\* The stripes of the input from p on, and what is left of it to the buffer.
Streamed(st, input, p) ==
  LET stripes == (Len(input) - p) \div Stripe
      end     == p + stripes * Stripe
      left    == Len(input) - end
  IN  [st EXCEPT !.v = Rounds(@, input, p, stripes),
                 !.mem = Copied(@, 0, input, end, left),
                 !.memsize = IF left > 0 THEN left ELSE @]

\* Both functions, once the length is counted.
Absorbed(st, input) ==
  IF st.memsize + Len(input) < Stripe THEN Buffered(st, input)
  ELSE IF st.memsize > 0 THEN Streamed(Completed(st, input), input, Stripe - st.memsize)
  ELSE Streamed(st, input, 0)

\* A mistake: whether the input was large is decided from the count alone.
Counted32Wraps(st, len) ==
  LET total == (st.total_len + len) % TwoTo32
  IN  [st EXCEPT !.total_len = total, !.large_len = total >= 16]

\* The count wraps, large_len stays.
Counted32(st, len) ==
  LET total == (st.total_len + len) % TwoTo32
  IN  [st EXCEPT !.total_len = total, !.large_len = @ \/ len >= 16 \/ total >= 16]

xxh32_update(st, input) == Absorbed(Counted32(st, Len(input)), input)

xxh64_update(st, input) == Absorbed([st EXCEPT !.total_len = @ + Len(input)], input)

\* While nothing was large, v3 is the seed.
Digest(st, large) ==
  [acc |-> IF large THEN st.v ELSE st.v[3], len |-> st.total_len, rest |-> Rest(st.mem, 0, st.memsize)]

xxh32_digest(st) == Digest(st, st.large_len)

xxh64_digest(st) == Digest(st, st.total_len >= 32)

-----------------------------------------------------------------------------
Init ==
  /\ word \in {4, 8} /\ ret = 0
  /\ state = [s \in States |-> IF word = 4 THEN xxh32_reset ELSE xxh64_reset]
  /\ given = [s \in States |-> 0]

Reset(s) ==
  /\ state' = [state EXCEPT ![s] = IF word = 4 THEN xxh32_reset ELSE xxh64_reset]
  /\ given' = [given EXCEPT ![s] = 0]
  /\ UNCHANGED <<word, ret>>

\* The len bytes that follow the first n.
Input(n, len) == [i \in 1..len |-> n + i]

Update(s, len) ==
  /\ given[s] + len <= MaxLen * Stripe + word
  /\ state' = [state EXCEPT ![s] = IF word = 4 THEN xxh32_update(@, Input(given[s], len))
                                               ELSE xxh64_update(@, Input(given[s], len))]
  /\ given' = [given EXCEPT ![s] = @ + len]
  /\ ret' = 0
  /\ UNCHANGED word

\* A null pointer, whatever the length.
UpdateOfNull(s, len) == ret' = "-EINVAL" /\ UNCHANGED <<word, state, given>>

CopyState(dst, src) ==
  /\ state' = [state EXCEPT ![dst] = state[src]]
  /\ given' = [given EXCEPT ![dst] = given[src]]
  /\ UNCHANGED <<word, ret>>

Next ==
  \E s \in States :
    \/ Reset(s)
    \/ \E len \in Lengths : Update(s, len) \/ UpdateOfNull(s, len)
    \/ \E src \in States \ {s} : CopyState(s, src)

Spec == Init /\ [][Next]_vars

-----------------------------------------------------------------------------
Large(s) == IF word = 4 THEN state[s].large_len ELSE state[s].total_len >= 32

(***************************************************************************)
(* What a state is after any calls: the lanes have taken the whole stripes *)
(* of what was given, the buffer starts with what is left, less than a     *)
(* stripe, and a wrap of the count does not make a large input small       *)
(* again.  The rest of the buffer is stale bytes of earlier inputs.        *)
(***************************************************************************)
StatesFollowTheInput ==
  \A s \in States :
    LET stripes == given[s] \div Stripe
        st      == state[s]
    IN  /\ st.v = Rounds(Seeds, Input(0, given[s]), 0, stripes)
        /\ st.memsize = given[s] - stripes * Stripe
        /\ \A i \in 1..st.memsize : st.mem[i] = stripes * Stripe + i
        /\ st.total_len = IF word = 4 THEN given[s] % TwoTo32 ELSE given[s]
        /\ Large(s) <=> stripes > 0

(***************************************************************************)
(* "A hash value can be produced at any time": the digest of a state is    *)
(* the hash of everything it was given, however that was divided between   *)
(* the updates, with updates by nothing, failed ones, and a copy on the    *)
(* way, and also when the 32 bits of the count have wrapped.               *)
(***************************************************************************)
DigestsAgree ==
  \A s \in States :
    IF word = 4 THEN xxh32_digest(state[s]) = xxh32(Input(0, given[s]))
                ELSE xxh64_digest(state[s]) = xxh64(Input(0, given[s]))
=============================================================================
