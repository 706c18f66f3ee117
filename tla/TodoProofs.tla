------------------------------- MODULE TodoProofs -------------------------------
(***************************************************************************)
(* What Xxhash promises, for every set of states, every length of a piece, *)
(* every bound on the input and every width of the count that can tell a   *)
(* stripe: the states follow the input, and the digests agree.  And that   *)
(* the circular buffer keeps its two sides apart, and is a queue, for a    *)
(* buffer of any size.  The two have no name in common.                    *)
(***************************************************************************)
EXTENDS Xxhash, CircBuf, SequenceTheorems, FiniteSetTheorems, TLAPS

-----------------------------------------------------------------------------
(* The hash in pieces.                                                     *)

\* The lanes with k stripes of an input whose bytes are their positions.
Taken(w, k) ==
  [l \in Lanes |-> [i \in 1..k |-> [x \in 1..w |-> (i-1) * (4 * w) + (l-1) * w + x]]]

StateType(w) ==
  [v : [Lanes -> Seq([1..w -> Nat])], mem : [1..4*w -> Nat], memsize : Nat,
   total_len : Nat, large_len : BOOLEAN]

\* The lanes and the buffer of a state that has k stripes and m bytes more.
Holds(w, st, k, m) ==
  /\ st.v = Taken(w, k)
  /\ st.memsize = m
  /\ \A i \in 1..m : st.mem[i] = k * (4 * w) + i

Counts(w, st, g) ==
  /\ st.total_len = IF w = 4 THEN g % TwoTo32 ELSE g
  /\ w = 4 => (st.large_len <=> g >= 16)

Follows(w, st, g) ==
  /\ Counts(w, st, g)
  /\ \E k, m \in Nat : g = k * (4 * w) + m /\ m < 4 * w /\ Holds(w, st, k, m)

IInv ==
  /\ word \in {4, 8}
  /\ state \in [States -> StateType(word)]
  /\ given \in [States -> Nat]
  /\ \A s \in States : Follows(word, state[s], given[s])

-----------------------------------------------------------------------------
(* Sequences.                                                              *)

LEMMA FunctionIsSeq ==
  ASSUME NEW S, NEW n \in Nat, NEW f \in [1..n -> S]
  PROVE  f \in Seq(S) /\ Len(f) = n /\ DOMAIN f = 1..n
<1>1. f \in Seq(S) BY SeqDef
<1>2. DOMAIN f = 1..n OBVIOUS
<1>3. Len(f) \in Nat /\ DOMAIN f = 1..Len(f) BY <1>1, LenProperties
<1>4. Len(f) = n BY <1>2, <1>3
<1> QED BY <1>1, <1>2, <1>4

LEMMA Joined ==
  ASSUME NEW S, NEW a \in Seq(S), NEW b \in Seq(S), NEW c \in Seq(S),
         Len(c) = Len(a) + Len(b),
         \A i \in 1..Len(a) : c[i] = a[i], \A i \in 1..Len(b) : c[Len(a)+i] = b[i]
  PROVE  a \o b = c
<1>1. Len(a) \in Nat /\ Len(b) \in Nat BY LenProperties
<1>2. a \o b \in Seq(S) /\ Len(a \o b) = Len(a) + Len(b) BY ConcatProperties
<1>3. ASSUME NEW i \in 1..Len(c) PROVE (a \o b)[i] = c[i]
  <2>1. CASE i \in 1..Len(a) BY <2>1, <1>1, ConcatProperties
  <2>2. CASE i \notin 1..Len(a)
    <3>1. i - Len(a) \in 1..Len(b) /\ i = Len(a) + (i - Len(a)) BY <2>2, <1>1
    <3>2. c[i] = b[i - Len(a)] BY <3>1
    <3>3. (a \o b)[i] = b[i - Len(a)] BY <2>2, <3>1, <1>1, ConcatProperties
    <3> QED BY <3>2, <3>3
  <2> QED BY <2>1, <2>2
<1> QED BY <1>2, <1>3, SeqEqual

LEMMA InputIsSeq ==
  ASSUME NEW n \in Nat, NEW len \in Nat
  PROVE  /\ Input(n, len) \in [1..len -> Nat]
         /\ Len(Input(n, len)) = len
         /\ \A i \in 1..len : Input(n, len)[i] = n + i
<1>1. Input(n, len) \in [1..len -> Nat] BY DEF Input
<1>2. Len(Input(n, len)) = len BY <1>1, FunctionIsSeq
<1> QED BY <1>1, <1>2 DEF Input

-----------------------------------------------------------------------------
(* The count, which wraps.                                                 *)

\* A remainder is unique.
LEMMA RemainderIsUnique ==
  ASSUME NEW N \in Nat \ {0}, NEW q1 \in Int, NEW q2 \in Int, NEW r1 \in 0..N-1, NEW r2 \in 0..N-1,
         q1 * N + r1 = q2 * N + r2
  PROVE  r1 = r2
<1>1. (q1 - q2) * N = r2 - r1 OBVIOUS
<1>2. CASE q1 - q2 >= 1
  <2>1. (q1 - q2) * N >= N BY <1>2
  <2> QED BY <1>1, <2>1
<1>3. CASE q1 - q2 <= -1
  <2>1. (q1 - q2) * N <= -N BY <1>3
  <2> QED BY <1>1, <2>1
<1>4. CASE q1 - q2 = 0
  BY <1>1, <1>4
<1> QED BY <1>2, <1>3, <1>4

LEMMA Division ==
  ASSUME NEW N \in Nat \ {0}, NEW a \in Nat
  PROVE  a % N \in 0..N-1 /\ a \div N \in Nat /\ a = (a \div N) * N + (a % N)
OBVIOUS

LEMMA SmallRemainder ==
  ASSUME NEW N \in Nat \ {0}, NEW a \in Nat
  PROVE  a % N <= a /\ (a < N => a % N = a)
<1>1. (a \div N) * N >= 0 BY Division
<1> QED BY <1>1, Division

\* A count may wrap at every step or at the end.
LEMMA WrapsCompose ==
  ASSUME NEW N \in Nat \ {0}, NEW a \in Nat, NEW b \in Nat
  PROVE  ((a % N) + b) % N = (a + b) % N
<1> DEFINE q == a \div N
           r == a % N
           q1 == (r + b) \div N
           r1 == (r + b) % N
           q2 == (a + b) \div N
           r2 == (a + b) % N
<1>1. q \in Nat /\ r \in 0..N-1 /\ a = q * N + r BY Division
<1>2. r + b \in Nat /\ a + b \in Nat BY <1>1
<1>3. q1 \in Nat /\ r1 \in 0..N-1 /\ r + b = q1 * N + r1 BY <1>2, Division
<1>4. q2 \in Nat /\ r2 \in 0..N-1 /\ a + b = q2 * N + r2 BY <1>2, Division
<1> HIDE DEF q, r, q1, r1, q2, r2
<1>5. (q + q1) * N + r1 = q2 * N + r2
  <2>1. (q + q1) * N = q * N + q1 * N BY <1>1, <1>3
  <2>2. q * N \in Int /\ q1 * N \in Int /\ q2 * N \in Int BY <1>1, <1>3, <1>4
  <2> QED BY <2>1, <2>2, <1>1, <1>3, <1>4
<1>6. r1 = r2
  <2>1. PICK s \in Int : s = q + q1 BY <1>1, <1>3
  <2>2. s * N + r1 = q2 * N + r2 BY <1>5, <2>1
  <2>3. q2 \in Int /\ r1 \in 0..N-1 /\ r2 \in 0..N-1 BY <1>3, <1>4
  <2> QED BY <2>2, <2>3, RemainderIsUnique
<1> QED BY <1>6 DEF r1, r2, r

-----------------------------------------------------------------------------
(* Lanes.                                                                  *)

\* A byte of a stripe is a byte of an input of n stripes.
LEMMA InStripes ==
  ASSUME NEW w \in {4, 8}, NEW n \in Nat, NEW i \in 1..n, NEW l \in Lanes, NEW x \in 1..w
  PROVE  (i-1) * (4 * w) + (l-1) * w + x \in 1..n * (4 * w)
<1>1. CASE w = 4 BY <1>1 DEF Lanes
<1>2. CASE w = 8 BY <1>2 DEF Lanes
<1> QED BY <1>1, <1>2

LEMMA TakenType ==
  ASSUME NEW w \in {4, 8}, NEW k \in Nat
  PROVE  /\ Taken(w, k) \in [Lanes -> [1..k -> [1..w -> Nat]]]
         /\ Taken(w, k) \in [Lanes -> Seq([1..w -> Nat])]
<1>1. ASSUME NEW l \in Lanes, NEW i \in 1..k, NEW x \in 1..w
      PROVE  (i-1) * (4 * w) + (l-1) * w + x \in Nat
  BY InStripes
<1>2. Taken(w, k) \in [Lanes -> [1..k -> [1..w -> Nat]]] BY <1>1 DEF Taken
<1> QED BY <1>2, FunctionIsSeq

(***************************************************************************)
(* Lanes with k stripes that take n stripes more have k + n, if the bytes  *)
(* they take are those that follow.                                        *)
(***************************************************************************)
LEMMA RoundsTake ==
  ASSUME word \in {4, 8}, NEW k \in Nat, NEW n \in Nat, NEW p \in Nat, NEW bytes,
         \A j \in 1..n * Stripe : bytes[p + j] = k * Stripe + j
  PROVE  Rounds(Taken(word, k), bytes, p, n) = Taken(word, k + n)
<1> DEFINE T == 4 * word
           W == [1..word -> Nat]
           more(l) == [i \in 1..n |-> Word(bytes, p + (i-1) * Stripe + (l-1) * word, word)]
<1>1. ASSUME NEW l \in Lanes, NEW i \in 1..n, NEW x \in 1..word
      PROVE  /\ bytes[p + (i-1) * Stripe + (l-1) * word + x] = (k+i-1) * T + (l-1) * word + x
             /\ (k+i-1) * T + (l-1) * word + x \in Nat
  <2>1. (i-1) * T + (l-1) * word + x \in 1..n * T BY InStripes
  <2>2. bytes[p + ((i-1) * T + (l-1) * word + x)] = k * T + ((i-1) * T + (l-1) * word + x)
    BY <2>1 DEF Stripe
  <2>3. CASE word = 4 BY <2>2, <2>3 DEF Stripe, Lanes
  <2>4. CASE word = 8 BY <2>2, <2>4 DEF Stripe, Lanes
  <2> QED BY <2>3, <2>4
<1>2. ASSUME NEW l \in Lanes, NEW i \in 1..n
      PROVE  more(l)[i] = [x \in 1..word |-> (k+i-1) * T + (l-1) * word + x]
  BY <1>1 DEF Word
<1>3. ASSUME NEW l \in Lanes PROVE Taken(word, k)[l] \o more(l) = Taken(word, k + n)[l]
  <2> DEFINE a == Taken(word, k)[l]
             b == more(l)
             c == Taken(word, k + n)[l]
  <2>1. a \in [1..k -> W] BY TakenType
  <2>2. PICK t \in Nat : t = k + n OBVIOUS
  <2>3. c \in [1..t -> W] BY <2>2, TakenType
  <2>4. ASSUME NEW i \in 1..n PROVE more(l)[i] \in W
    <3>1. more(l)[i] = [x \in 1..word |-> (k+i-1) * T + (l-1) * word + x] BY <1>2
    <3>2. \A x \in 1..word : (k+i-1) * T + (l-1) * word + x \in Nat BY <1>1
    <3> HIDE DEF more
    <3> QED BY <3>1, <3>2
  <2>5. b \in [1..n -> W] BY <2>4
  <2>6. \A i \in 1..k : c[i] = a[i] BY DEF Taken
  <2>7. \A i \in 1..n : c[k+i] = b[i] BY <1>2 DEF Taken
  <2> HIDE DEF a, b, c, W
  <2>8. /\ a \in Seq(W) /\ Len(a) = k
        /\ b \in Seq(W) /\ Len(b) = n
        /\ c \in Seq(W) /\ Len(c) = k + n
    BY <2>1, <2>2, <2>3, <2>5, FunctionIsSeq
  <2>9. a \o b = c BY <2>6, <2>7, <2>8, Joined
  <2> QED BY <2>9 DEF a, b, c
<1>4. Rounds(Taken(word, k), bytes, p, n) = [l \in Lanes |-> Taken(word, k)[l] \o more(l)]
  BY DEF Rounds
<1>5. Taken(word, k + n) = [l \in Lanes |-> Taken(word, k + n)[l]] BY DEF Taken
<1> QED BY <1>3, <1>4, <1>5

LEMMA SeedsTaken == word \in {4, 8} => Seeds = Taken(word, 0)
<1> SUFFICES ASSUME word \in {4, 8} PROVE Seeds = Taken(word, 0)
  OBVIOUS
<1>1. ASSUME NEW l \in Lanes PROVE Taken(word, 0)[l] = <<>>
  <2>1. Taken(word, 0)[l] \in [1..0 -> [1..word -> Nat]] BY TakenType
  <2>2. Taken(word, 0)[l] \in Seq([1..word -> Nat]) /\ Len(Taken(word, 0)[l]) = 0
    BY <2>1, FunctionIsSeq
  <2> QED BY <2>2, EmptySeq
<1> QED BY <1>1 DEF Seeds, Taken

\* The lanes after the whole stripes of an input that is there at once.
LEMMA WholeTaken ==
  ASSUME word \in {4, 8}, NEW g \in Nat, NEW k \in Nat, k * Stripe <= g
  PROVE  Rounds(Seeds, Input(0, g), 0, k) = Taken(word, k)
<1>1. \A j \in 1..k * Stripe : Input(0, g)[0 + j] = 0 * Stripe + j
  <2> SUFFICES ASSUME NEW j \in 1..k * Stripe PROVE Input(0, g)[0 + j] = 0 * Stripe + j
    OBVIOUS
  <2>1. j \in 1..g
    <3>1. CASE word = 4 BY <3>1 DEF Stripe
    <3>2. CASE word = 8 BY <3>2 DEF Stripe
    <3> QED BY <3>1, <3>2
  <2>2. Input(0, g)[j] = j BY <2>1 DEF Input
  <2>3. 0 + j = j /\ 0 * Stripe + j = j BY DEF Stripe
  <2> QED BY <2>2, <2>3
<1>2. Rounds(Taken(word, 0), Input(0, g), 0, k) = Taken(word, 0 + k) BY <1>1, RoundsTake
<1> QED BY <1>2, SeedsTaken

-----------------------------------------------------------------------------
(* Updates.                                                                *)

\* A piece that does not complete a stripe.
LEMMA BufferedHolds ==
  ASSUME word \in {4, 8}, NEW st \in StateType(word), NEW k \in Nat, NEW m \in Nat, NEW len \in Nat,
         Holds(word, st, k, m), m + len < Stripe
  PROVE  LET r == Buffered(st, Input(k * Stripe + m, len))
         IN  /\ r \in StateType(word) /\ Holds(word, r, k, m + len)
             /\ r.total_len = st.total_len /\ r.large_len = st.large_len
<1> DEFINE g == k * Stripe + m
           input == Input(g, len)
           r == Buffered(st, input)
           mem == Copied(st.mem, m, input, 0, len)
<1>1. Stripe \in Nat /\ g \in Nat BY DEF Stripe
<1>2. Len(input) = len /\ \A i \in 1..len : input[i] = g + i BY <1>1, InputIsSeq
<1>3. st.mem \in [1..Stripe -> Nat] /\ st.memsize = m BY DEF StateType, Holds, Stripe
<1>4. r = [st EXCEPT !.mem = mem, !.memsize = m + len] BY <1>2, <1>3 DEF Buffered
<1> HIDE DEF g, input, r
<1>5. ASSUME NEW i \in m+1..m+len PROVE input[0 + i - m] = g + (i - m) /\ g + (i - m) \in Nat
  <2>1. i - m \in 1..len /\ 0 + i - m = i - m OBVIOUS
  <2> QED BY <1>1, <1>2, <2>1
<1>6. /\ mem \in [1..Stripe -> Nat]
      /\ \A i \in 1..Stripe : i \in m+1..m+len => mem[i] = g + (i - m)
      /\ \A i \in 1..Stripe : i \notin m+1..m+len => mem[i] = st.mem[i]
  BY <1>3, <1>5 DEF Copied
<1> HIDE DEF mem
<1>7. ASSUME NEW i \in 1..m+len PROVE mem[i] = k * Stripe + i
  <2>1. i \in 1..Stripe BY <1>1
  <2>2. CASE i \in 1..m
    <3>1. i \notin m+1..m+len BY <2>2
    <3> QED BY <1>6, <2>1, <2>2, <3>1 DEF Holds, Stripe
  <2>3. CASE i \notin 1..m
    <3>1. i \in m+1..m+len BY <2>3
    <3>2. mem[i] = g + (i - m) BY <1>6, <2>1, <3>1
    <3>3. k * Stripe \in Nat BY <1>1
    <3> QED BY <3>2, <3>3, <1>1 DEF g
  <2> QED BY <2>2, <2>3
<1>8. /\ r.v = st.v /\ r.mem = mem /\ r.memsize = m + len
      /\ r.total_len = st.total_len /\ r.large_len = st.large_len
  BY <1>4 DEF StateType
<1>9. r \in StateType(word)
  <2>1. m + len \in Nat OBVIOUS
  <2> QED BY <1>4, <1>6, <2>1 DEF StateType, Stripe
<1>10. Holds(word, r, k, m + len) BY <1>7, <1>8 DEF Holds, Stripe
<1> QED BY <1>8, <1>9, <1>10 DEF r, input, g

\* The rest of a stripe.
LEMMA CompletedHolds ==
  ASSUME word \in {4, 8}, NEW st \in StateType(word), NEW k \in Nat, NEW m \in Nat, NEW len \in Nat,
         Holds(word, st, k, m), m < Stripe, m + len >= Stripe
  PROVE  LET r == Completed(st, Input(k * Stripe + m, len))
         IN  /\ r \in StateType(word) /\ Holds(word, r, k + 1, 0)
             /\ r.total_len = st.total_len /\ r.large_len = st.large_len
<1> DEFINE g == k * Stripe + m
           input == Input(g, len)
           r == Completed(st, input)
           mem == Copied(st.mem, m, input, 0, Stripe - m)
<1>1. Stripe \in Nat /\ g \in Nat /\ k * Stripe \in Nat /\ Stripe - m \in Nat BY DEF Stripe
<1>2. \A i \in 1..len : input[i] = g + i BY <1>1, InputIsSeq
<1>3. st.mem \in [1..Stripe -> Nat] /\ st.memsize = m /\ st.v = Taken(word, k)
  BY DEF StateType, Holds, Stripe
<1>4. r = [st EXCEPT !.v = Rounds(@, mem, 0, 1), !.mem = mem, !.memsize = 0]
  BY <1>3 DEF Completed
<1> HIDE DEF g, input, r
<1>5. ASSUME NEW i \in m+1..m+(Stripe-m)
      PROVE  input[0 + i - m] = g + (i - m) /\ g + (i - m) \in Nat
  <2>1. i - m \in 1..len /\ 0 + i - m = i - m BY <1>1
  <2> QED BY <1>1, <1>2, <2>1
<1>6. /\ mem \in [1..Stripe -> Nat]
      /\ \A i \in 1..Stripe : i \in m+1..m+(Stripe-m) => mem[i] = g + (i - m)
      /\ \A i \in 1..Stripe : i \notin m+1..m+(Stripe-m) => mem[i] = st.mem[i]
  BY <1>3, <1>5 DEF Copied
<1> HIDE DEF mem
<1>7. ASSUME NEW i \in 1..Stripe PROVE mem[0 + i] = k * Stripe + i
  <2>1. mem[0 + i] = mem[i] BY <1>1
  <2>2. CASE i \in 1..m
    <3>1. i \notin m+1..m+(Stripe-m) BY <2>2
    <3> QED BY <1>6, <2>1, <2>2, <3>1 DEF Holds, Stripe
  <2>3. CASE i \notin 1..m
    <3>1. i \in m+1..m+(Stripe-m) BY <1>1, <2>3
    <3>2. mem[i] = g + (i - m) BY <1>6, <3>1
    <3> QED BY <2>1, <3>2, <1>1 DEF g
  <2> QED BY <2>2, <2>3
<1>8. Rounds(st.v, mem, 0, 1) = Taken(word, k + 1)
  <2>1. \A j \in 1..1 * Stripe : mem[0 + j] = k * Stripe + j BY <1>1, <1>7
  <2>2. PICK p \in Nat, n \in Nat : p = 0 /\ n = 1 OBVIOUS
  <2>3. \A j \in 1..n * Stripe : mem[p + j] = k * Stripe + j BY <2>1, <2>2
  <2>4. Rounds(Taken(word, k), mem, p, n) = Taken(word, k + n) BY <2>3, RoundsTake
  <2> QED BY <1>3, <2>2, <2>4
<1>9. Taken(word, k + 1) \in [Lanes -> Seq([1..word -> Nat])]
  <2>1. k + 1 \in Nat OBVIOUS
  <2> QED BY <2>1, TakenType
<1>10. /\ r.v = Taken(word, k + 1) /\ r.memsize = 0
       /\ r.total_len = st.total_len /\ r.large_len = st.large_len
  BY <1>4, <1>8 DEF StateType
<1>11. r \in StateType(word) BY <1>4, <1>6, <1>8, <1>9 DEF StateType, Stripe
<1>12. Holds(word, r, k + 1, 0) BY <1>10 DEF Holds
<1> QED BY <1>10, <1>11, <1>12 DEF r, input, g

LEMMA StripesOf ==
  ASSUME word \in {4, 8}, NEW n \in Nat
  PROVE  /\ n \div Stripe \in Nat
         /\ (n \div Stripe) * Stripe <= n
         /\ n < (n \div Stripe) * Stripe + Stripe
<1>1. CASE word = 4 BY <1>1 DEF Stripe
<1>2. CASE word = 8 BY <1>2 DEF Stripe
<1> QED BY <1>1, <1>2

\* The whole stripes of a piece from position p on, and what is left of it.
LEMMA StreamedHolds ==
  ASSUME word \in {4, 8}, NEW st \in StateType(word), NEW k \in Nat, NEW g \in Nat, NEW p \in Nat,
         NEW len \in Nat, Holds(word, st, k, 0), k * Stripe = g + p, p <= len
  PROVE  LET r == Streamed(st, Input(g, len), p)
         IN  /\ r \in StateType(word)
             /\ \E i, m \in Nat : g + len = i * Stripe + m /\ m < Stripe /\ Holds(word, r, i, m)
             /\ r.total_len = st.total_len /\ r.large_len = st.large_len
<1> DEFINE input == Input(g, len)
           n == (len - p) \div Stripe
           end == p + n * Stripe
           left == len - end
           r == Streamed(st, input, p)
           mem == Copied(st.mem, 0, input, end, left)
<1>1. len - p \in Nat OBVIOUS
<1>2. n \in Nat /\ n * Stripe <= len - p /\ len - p < n * Stripe + Stripe
  BY <1>1, StripesOf
<1>3. Len(input) = len /\ \A i \in 1..len : input[i] = g + i BY InputIsSeq
<1>4. st.mem \in [1..Stripe -> Nat] /\ st.memsize = 0 /\ st.v = Taken(word, k)
  BY DEF StateType, Holds, Stripe
<1>5. r = [st EXCEPT !.v = Rounds(@, input, p, n), !.mem = mem,
                     !.memsize = IF left > 0 THEN left ELSE @]
  BY <1>3 DEF Streamed
<1>6. Stripe \in Nat /\ n * Stripe \in Nat /\ end \in Nat /\ left \in Nat /\ left < Stripe
  <2> HIDE DEF n
  <2>1. CASE word = 4 BY <2>1, <1>2 DEF Stripe
  <2>2. CASE word = 8 BY <2>2, <1>2 DEF Stripe
  <2> QED BY <2>1, <2>2
<1>7. Rounds(st.v, input, p, n) = Taken(word, k + n)
  <2>1. ASSUME NEW j \in 1..n * Stripe PROVE input[p + j] = k * Stripe + j
    <3> HIDE DEF n, input
    <3>1. p + j \in 1..len BY <1>2, <1>6
    <3>2. input[p + j] = g + (p + j) BY <1>3, <3>1
    <3>3. j \in Int BY <1>6
    <3> QED BY <3>2, <3>3
  <2> HIDE DEF n, input
  <2> QED BY <1>2, <1>4, <2>1, RoundsTake
<1>8. (k + n) * Stripe = g + end
  <2> HIDE DEF n
  <2>1. CASE word = 4 BY <2>1, <1>2 DEF Stripe
  <2>2. CASE word = 8 BY <2>2, <1>2 DEF Stripe
  <2> QED BY <2>1, <2>2
<1>9. ASSUME NEW i \in 1..left PROVE input[end + i - 0] = g + end + i /\ g + end + i \in Nat
  <2> HIDE DEF n, input, end
  <2>1. end + i - 0 \in 1..len BY <1>6
  <2>2. input[end + i - 0] = g + (end + i - 0) BY <1>3, <2>1
  <2> QED BY <2>2, <1>6
<1>10. mem \in [1..Stripe -> Nat] /\ \A i \in 1..left : mem[i] = g + end + i
  <2> HIDE DEF n, input, end, left
  <2>1. 0+1..0+left = 1..left BY <1>6
  <2>2. mem = [i \in 1..Stripe |-> IF i \in 1..left THEN input[end + i - 0] ELSE st.mem[i]]
    BY <2>1 DEF Copied
  <2>3. 1..left \subseteq 1..Stripe BY <1>6
  <2> HIDE DEF mem
  <2>4. \A i \in 1..left : mem[i] = g + end + i BY <2>2, <2>3, <1>9
  <2>5. ASSUME NEW i \in 1..Stripe
        PROVE  (IF i \in 1..left THEN input[end + i - 0] ELSE st.mem[i]) \in Nat
    <3>1. CASE i \in 1..left
      <4>1. input[end + i - 0] \in Nat BY <3>1, <1>9
      <4> QED BY <3>1, <4>1
    <3>2. CASE i \notin 1..left
      <4>1. st.mem[i] \in Nat BY <1>4
      <4> QED BY <3>2, <4>1
    <3> QED BY <3>1, <3>2
  <2>6. mem \in [1..Stripe -> Nat] BY <2>2, <2>5
  <2> QED BY <2>4, <2>6
<1>11. r.memsize = left
  <2> HIDE DEF n, input, end, left, mem, r
  <2>1. r.memsize = IF left > 0 THEN left ELSE st.memsize BY <1>5 DEF StateType
  <2> QED BY <2>1, <1>4, <1>6
<1> HIDE DEF n, input, end, left, mem, r
<1>12. /\ r.v = Taken(word, k + n) /\ r.mem = mem
       /\ r.total_len = st.total_len /\ r.large_len = st.large_len
  BY <1>5, <1>7 DEF StateType
<1>13. r \in StateType(word)
  <2>1. k + n \in Nat BY <1>2
  <2>2. Taken(word, k + n) \in [Lanes -> Seq([1..word -> Nat])] BY <2>1, TakenType
  <2>3. (IF left > 0 THEN left ELSE st.memsize) \in Nat BY <1>4, <1>6
  <2> QED BY <1>5, <1>7, <1>10, <2>2, <2>3 DEF StateType, Stripe
<1>14. g + len = (k + n) * Stripe + left
  <2>1. len = end + left BY <1>6 DEF left
  <2> QED BY <2>1, <1>6, <1>8
<1>15. Holds(word, r, k + n, left)
  <2>1. ASSUME NEW i \in 1..left PROVE r.mem[i] = (k + n) * Stripe + i
    BY <1>8, <1>10, <1>12
  <2> QED BY <2>1, <1>11, <1>12 DEF Holds, Stripe
<1>16. k + n \in Nat BY <1>2
<1> QED BY <1>6, <1>12, <1>13, <1>14, <1>15, <1>16 DEF r, input

(***************************************************************************)
(* Whatever a state has buffered and however long the piece is, afterwards *)
(* the state holds the input and the piece.                                *)
(***************************************************************************)
LEMMA AbsorbedHolds ==
  ASSUME word \in {4, 8}, NEW st \in StateType(word), NEW g \in Nat, NEW len \in Nat,
         \E k, m \in Nat : g = k * Stripe + m /\ m < Stripe /\ Holds(word, st, k, m)
  PROVE  LET r == Absorbed(st, Input(g, len))
         IN  /\ r \in StateType(word)
             /\ \E k, m \in Nat : g + len = k * Stripe + m /\ m < Stripe /\ Holds(word, r, k, m)
             /\ r.total_len = st.total_len /\ r.large_len = st.large_len
<1> DEFINE input == Input(g, len)
           r == Absorbed(st, input)
<1>1. PICK k \in Nat, m \in Nat : g = k * Stripe + m /\ m < Stripe /\ Holds(word, st, k, m)
  OBVIOUS
<1>2. Len(input) = len /\ st.memsize = m BY <1>1, InputIsSeq DEF Holds
<1>3. Stripe \in Nat /\ k * Stripe \in Nat BY DEF Stripe
<1>4. CASE m + len < Stripe
  <2>1. r = Buffered(st, input) BY <1>2, <1>4 DEF Absorbed
  <2>2. m + len \in Nat /\ g + len = k * Stripe + (m + len) BY <1>1, <1>3
  <2> QED BY <1>1, <1>4, <2>1, <2>2, BufferedHolds
<1>5. CASE m + len >= Stripe /\ m > 0
  <2> DEFINE c == Completed(st, input)
  <2>1. PICK i \in Nat : i = k + 1 OBVIOUS
  <2>2. PICK p \in Nat : p = Stripe - m BY <1>1, <1>3
  <2>3. r = Streamed(c, input, p) /\ p <= len BY <1>2, <1>3, <1>5, <2>2 DEF Absorbed
  <2>4. c \in StateType(word) /\ Holds(word, c, i, 0)
        /\ c.total_len = st.total_len /\ c.large_len = st.large_len
    BY <1>1, <1>5, <2>1, CompletedHolds
  <2>5. i * Stripe = g + p
    <3> HIDE DEF c
    <3>0. i = k + 1 /\ p = Stripe - m BY <2>1, <2>2
    <3>1. CASE word = 4 BY <3>0, <3>1, <1>1 DEF Stripe
    <3>2. CASE word = 8 BY <3>0, <3>2, <1>1 DEF Stripe
    <3> QED BY <3>1, <3>2
  <2> HIDE DEF c
  <2>6. LET q == Streamed(c, Input(g, len), p)
        IN  /\ q \in StateType(word)
            /\ \E j, l \in Nat : g + len = j * Stripe + l /\ l < Stripe /\ Holds(word, q, j, l)
            /\ q.total_len = c.total_len /\ q.large_len = c.large_len
    <3>1. ASSUME NEW d \in StateType(word), Holds(word, d, i, 0)
          PROVE  LET q == Streamed(d, Input(g, len), p)
                 IN  /\ q \in StateType(word)
                     /\ \E j, l \in Nat : g + len = j * Stripe + l /\ l < Stripe /\ Holds(word, q, j, l)
                     /\ q.total_len = d.total_len /\ q.large_len = d.large_len
      <4> HIDE DEF r, input, c
      <4> QED BY <1>3, <2>3, <2>5, <3>1, StreamedHolds
    <3> QED BY <2>4, <3>1
  <2> QED BY <2>3, <2>4, <2>6
<1>6. CASE m + len >= Stripe /\ m = 0
  <2>1. r = Streamed(st, input, 0) BY <1>2, <1>3, <1>6 DEF Absorbed
  <2>2. k * Stripe = g + 0 /\ 0 <= len BY <1>1, <1>3, <1>6
  <2>3. Holds(word, st, k, 0) BY <1>1, <1>6
  <2>4. LET q == Streamed(st, Input(g, len), 0)
        IN  /\ q \in StateType(word)
            /\ \E j, l \in Nat : g + len = j * Stripe + l /\ l < Stripe /\ Holds(word, q, j, l)
            /\ q.total_len = st.total_len /\ q.large_len = st.large_len
    BY <1>3, <2>2, <2>3, StreamedHolds
  <2> QED BY <2>1, <2>4
<1> QED BY <1>3, <1>4, <1>5, <1>6

LEMMA CountFollows ==
  ASSUME NEW st \in StateType(4), NEW g \in Nat, NEW len \in Nat, Counts(4, st, g)
  PROVE  /\ Counted32(st, len) \in StateType(4)
         /\ Counts(4, Counted32(st, len), g + len)
         /\ Counted32(st, len).v = st.v
         /\ Counted32(st, len).mem = st.mem
         /\ Counted32(st, len).memsize = st.memsize
<1> DEFINE total == (g + len) % TwoTo32
           large == st.large_len \/ len >= 16 \/ total >= 16
           r == Counted32(st, len)
<1>1. TwoTo32 \in Nat \ {0} /\ TwoTo32 > 30 BY XxhashAssumption
<1>2. g + len \in Nat OBVIOUS
<1>3. total \in Nat /\ total <= g + len /\ (g + len < TwoTo32 => total = g + len)
  <2>1. total \in 0..TwoTo32-1 BY <1>1, <1>2, Division
  <2> QED BY <1>1, <1>2, <2>1, SmallRemainder
<1>4. (st.total_len + len) % TwoTo32 = total
  <2>1. st.total_len = g % TwoTo32 BY DEF Counts
  <2>2. ((g % TwoTo32) + len) % TwoTo32 = (g + len) % TwoTo32 BY <1>1, WrapsCompose
  <2> QED BY <2>1, <2>2
<1>5. r = [st EXCEPT !.total_len = total, !.large_len = large] BY <1>4 DEF Counted32
<1>6. st.large_len \in BOOLEAN /\ (st.large_len <=> g >= 16) BY DEF StateType, Counts
<1> HIDE DEF total, r
<1>7. large <=> g + len >= 16 BY <1>1, <1>3, <1>6
<1>8. large \in BOOLEAN OBVIOUS
<1> HIDE DEF large
<1>9. r.total_len = total /\ r.large_len = large /\ r.v = st.v /\ r.mem = st.mem /\ r.memsize = st.memsize
  BY <1>5 DEF StateType
<1>10. r \in StateType(4) BY <1>3, <1>5, <1>8 DEF StateType
<1>11. Counts(4, r, g + len) BY <1>7, <1>9 DEF Counts, total
<1> QED BY <1>9, <1>10, <1>11 DEF r

\* An update of a state that follows g bytes, by the len bytes after them.
LEMMA Update32Follows ==
  ASSUME word = 4, NEW st \in StateType(word), NEW g \in Nat, NEW len \in Nat, Follows(word, st, g)
  PROVE  /\ xxh32_update(st, Input(g, len)) \in StateType(word)
         /\ Follows(word, xxh32_update(st, Input(g, len)), g + len)
<1> DEFINE input == Input(g, len)
           c == Counted32(st, len)
           r == Absorbed(c, input)
<1>1. Stripe = 4 * word BY DEF Stripe
<1>2. /\ c \in StateType(word) /\ Counts(word, c, g + len)
      /\ c.v = st.v /\ c.mem = st.mem /\ c.memsize = st.memsize
  BY CountFollows DEF Follows
<1>3. r = xxh32_update(st, input) BY InputIsSeq DEF xxh32_update
<1> HIDE DEF c
<1>4. \E k, m \in Nat : g = k * Stripe + m /\ m < Stripe /\ Holds(word, c, k, m)
  BY <1>1, <1>2 DEF Follows, Holds
<1>5. /\ r \in StateType(word)
      /\ \E k, m \in Nat : g + len = k * Stripe + m /\ m < Stripe /\ Holds(word, r, k, m)
      /\ r.total_len = c.total_len /\ r.large_len = c.large_len
  BY <1>2, <1>4, AbsorbedHolds
<1> HIDE DEF r
<1>6. Follows(word, r, g + len) BY <1>1, <1>2, <1>5 DEF Follows, Counts
<1> QED BY <1>3, <1>5, <1>6

LEMMA Update64Follows ==
  ASSUME word = 8, NEW st \in StateType(word), NEW g \in Nat, NEW len \in Nat, Follows(word, st, g)
  PROVE  /\ xxh64_update(st, Input(g, len)) \in StateType(word)
         /\ Follows(word, xxh64_update(st, Input(g, len)), g + len)
<1> DEFINE input == Input(g, len)
           c == [st EXCEPT !.total_len = @ + len]
           r == Absorbed(c, input)
<1>1. Stripe = 4 * word BY DEF Stripe
<1>2. /\ c \in StateType(word) /\ c.total_len = st.total_len + len
      /\ c.v = st.v /\ c.mem = st.mem /\ c.memsize = st.memsize
  <2>1. st.total_len \in Nat BY DEF StateType
  <2>2. st.total_len + len \in Nat BY <2>1
  <2> QED BY <2>2 DEF StateType
<1>3. Counts(word, c, g + len) BY <1>2 DEF Follows, Counts
<1>4. r = xxh64_update(st, input) BY InputIsSeq DEF xxh64_update
<1> HIDE DEF c
<1>5. \E k, m \in Nat : g = k * Stripe + m /\ m < Stripe /\ Holds(word, c, k, m)
  BY <1>1, <1>2 DEF Follows, Holds
<1>6. /\ r \in StateType(word)
      /\ \E k, m \in Nat : g + len = k * Stripe + m /\ m < Stripe /\ Holds(word, r, k, m)
      /\ r.total_len = c.total_len /\ r.large_len = c.large_len
  BY <1>2, <1>5, AbsorbedHolds
<1> HIDE DEF r
<1>7. Follows(word, r, g + len) BY <1>1, <1>3, <1>6 DEF Follows, Counts
<1> QED BY <1>4, <1>6, <1>7

LEMMA ResetFollows ==
  ASSUME word \in {4, 8}
  PROVE  xxh64_reset \in StateType(word) /\ Follows(word, xxh64_reset, 0)
<1>1. Seeds = Taken(word, 0) BY SeedsTaken
<1>2. xxh64_reset \in StateType(word) BY <1>1, TakenType DEF xxh64_reset, StateType, Stripe
<1>3. Counts(word, xxh64_reset, 0)
  <2>1. 0 % TwoTo32 = 0 BY XxhashAssumption
  <2> QED BY <2>1 DEF xxh64_reset, Counts
<1>4. Holds(word, xxh64_reset, 0, 0) BY <1>1 DEF xxh64_reset, Holds
<1>5. 0 = 0 * (4 * word) + 0 /\ 0 < 4 * word OBVIOUS
<1> QED BY <1>2, <1>3, <1>4, <1>5 DEF Follows

-----------------------------------------------------------------------------
(* The invariant, and what follows from it.                                *)

LEMMA InitInvariant == Init => IInv
<1> SUFFICES ASSUME Init PROVE IInv
  OBVIOUS
<1>1. word \in {4, 8} BY DEF Init
<1>2. \A s \in States : state[s] = xxh64_reset /\ given[s] = 0 BY DEF Init, xxh32_reset
<1>3. state \in [States -> StateType(word)] BY <1>1, ResetFollows DEF Init, xxh32_reset
<1> QED BY <1>1, <1>2, <1>3, ResetFollows DEF IInv, Init

LEMMA StepInvariant == IInv /\ [Next]_vars => IInv'
<1> SUFFICES ASSUME IInv, [Next]_vars PROVE IInv'
  OBVIOUS
<1> USE DEF IInv
<1>1. ASSUME NEW s \in States, Reset(s) PROVE IInv'
  <2>1. state' = [state EXCEPT ![s] = xxh64_reset] /\ given' = [given EXCEPT ![s] = 0] /\ word' = word
    BY <1>1 DEF Reset, xxh32_reset
  <2> QED BY <2>1, ResetFollows
<1>2. ASSUME NEW s \in States, NEW len \in Lengths, Update(s, len) PROVE IInv'
  <2> DEFINE input == Input(given[s], len)
             r == IF word = 4 THEN xxh32_update(state[s], input) ELSE xxh64_update(state[s], input)
  <2>1. len \in Nat /\ given[s] \in Nat BY XxhashAssumption
  <2>2. r \in StateType(word) /\ Follows(word, r, given[s] + len)
    <3>1. CASE word = 4 BY <2>1, <3>1, Update32Follows
    <3>2. CASE word = 8 BY <2>1, <3>2, Update64Follows
    <3> QED BY <3>1, <3>2
  <2>3. /\ state' = [state EXCEPT ![s] = r] /\ given' = [given EXCEPT ![s] = given[s] + len]
        /\ word' = word
    BY <1>2 DEF Update
  <2>4. given[s] + len \in Nat BY <2>1
  <2> HIDE DEF r
  <2> QED BY <2>2, <2>3, <2>4
<1>3. ASSUME NEW s \in States, NEW src \in States, CopyState(s, src) PROVE IInv'
  BY <1>3 DEF CopyState
<1>4. ASSUME NEW s \in States, NEW len \in Lengths, UpdateOfNull(s, len) PROVE IInv'
  BY <1>4 DEF UpdateOfNull
<1>5. CASE UNCHANGED vars BY <1>5 DEF vars
<1> QED BY <1>1, <1>2, <1>3, <1>4, <1>5 DEF Next

\* What a state holds is what the division into stripes gives.
LEMMA StripesHeld ==
  ASSUME IInv, NEW s \in States
  PROVE  LET k == given[s] \div Stripe
             m == given[s] - k * Stripe
         IN  /\ k \in Nat /\ m \in Nat /\ m < Stripe /\ k * Stripe <= given[s]
             /\ Holds(word, state[s], k, m)
<1> DEFINE g == given[s]
           k == g \div Stripe
<1>1. g \in Nat /\ word \in {4, 8} BY DEF IInv
<1>2. PICK j \in Nat, m \in Nat : g = j * Stripe + m /\ m < Stripe /\ Holds(word, state[s], j, m)
  BY DEF IInv, Follows, Stripe
<1> HIDE DEF g
<1>3. k \in Nat /\ k * Stripe <= g /\ g < k * Stripe + Stripe BY <1>1, StripesOf
<1> HIDE DEF k
<1>4. k = j
  <2>1. CASE word = 4 BY <1>1, <1>2, <1>3, <2>1 DEF Stripe
  <2>2. CASE word = 8 BY <1>1, <1>2, <1>3, <2>2 DEF Stripe
  <2> QED BY <1>1, <2>1, <2>2
<1>5. g - k * Stripe = m
  <2>1. CASE word = 4 BY <1>1, <1>2, <1>4, <2>1 DEF Stripe
  <2>2. CASE word = 8 BY <1>1, <1>2, <1>4, <2>2 DEF Stripe
  <2> QED BY <1>1, <2>1, <2>2
<1> QED BY <1>2, <1>3, <1>4, <1>5 DEF k, g

LEMMA InvariantFollowsInput == IInv => StatesFollowTheInput
<1> SUFFICES ASSUME IInv, NEW s \in States
             PROVE  LET stripes == given[s] \div Stripe
                        st      == state[s]
                    IN  /\ st.v = Rounds(Seeds, Input(0, given[s]), 0, stripes)
                        /\ st.memsize = given[s] - stripes * Stripe
                        /\ \A i \in 1..st.memsize : st.mem[i] = stripes * Stripe + i
                        /\ st.total_len = IF word = 4 THEN given[s] % TwoTo32 ELSE given[s]
                        /\ Large(s) <=> stripes > 0
  BY DEF StatesFollowTheInput
<1> DEFINE g == given[s]
           k == g \div Stripe
           m == g - k * Stripe
<1>1. g \in Nat /\ word \in {4, 8} /\ Counts(word, state[s], g) BY DEF IInv, Follows
<1>2. k \in Nat /\ m \in Nat /\ m < Stripe /\ k * Stripe <= g /\ Holds(word, state[s], k, m)
  BY StripesHeld
<1>3. Large(s) <=> k > 0
  <2> HIDE DEF g, k
  <2>1. CASE word = 4
    <3>1. Large(s) <=> g >= 16 BY <1>1, <2>1 DEF Large, Counts, g
    <3> QED BY <1>1, <1>2, <2>1, <3>1 DEF Stripe
  <2>2. CASE word = 8
    <3>1. Large(s) <=> g >= 32 BY <1>1, <2>2 DEF Large, Counts, g
    <3> QED BY <1>1, <1>2, <2>2, <3>1 DEF Stripe
  <2> QED BY <1>1, <2>1, <2>2
<1>4. state[s].v = Rounds(Seeds, Input(0, g), 0, k)
  <2> HIDE DEF g, k, m
  <2> QED BY <1>1, <1>2, WholeTaken DEF Holds
<1> QED BY <1>1, <1>2, <1>3, <1>4 DEF Holds, Counts, Stripe

\* What is left is read the same from the buffer and from the input.
LEMMA SameRest ==
  ASSUME word \in {4, 8}, NEW a, NEW b, NEW p \in Nat, NEW m \in Nat,
         \A j \in 1..m : a[j] = b[p + j]
  PROVE  Rest(a, 0, m) = Rest(b, p, m)
<1> DEFINE words == m \div word
           fours == (m % word) \div 4
           f == words * word
           t == f + fours * 4
<1>1. words \in Nat /\ fours \in Nat /\ m % 4 \in Nat /\ f \in Nat /\ t \in Nat
      /\ f <= m /\ t <= m /\ t + (m % 4) <= m
  <2>1. CASE word = 4 BY <2>1
  <2>2. CASE word = 8 BY <2>2
  <2> QED BY <2>1, <2>2
<1> HIDE DEF words, fours
<1>2. ASSUME NEW at \in Nat, NEW n \in {1, 4, 8}, NEW count \in Nat, at + count * n <= m,
             NEW i \in 1..count, NEW x \in 1..n
      PROVE  a[at + (i-1) * n + x] = b[p + at + (i-1) * n + x]
  <2>1. at + (i-1) * n + x \in 1..m
    <3>1. CASE n = 1 BY <1>2, <3>1
    <3>2. CASE n = 4 BY <1>2, <3>2
    <3>3. CASE n = 8 BY <1>2, <3>3
    <3> QED BY <3>1, <3>2, <3>3
  <2>2. p + (at + (i-1) * n + x) = p + at + (i-1) * n + x
    <3>1. (i-1) * n \in Int OBVIOUS
    <3> QED BY <3>1
  <2> QED BY <2>1, <2>2
<1>3. ASSUME NEW at \in Nat, NEW n \in {1, 4, 8}, NEW count \in Nat, at + count * n <= m
      PROVE  Cut(a, at, n, count) = Cut(b, p + at, n, count)
  BY <1>2, <1>3 DEF Cut, Word
<1>4. Cut(a, 0, word, words) = Cut(b, p, word, words)
  <2>1. 0 + words * word <= m /\ p + 0 = p BY <1>1
  <2> QED BY <1>1, <1>3, <2>1
<1>5. Cut(a, f, 4, fours) = Cut(b, p + f, 4, fours)
  <2>1. f + fours * 4 <= m BY <1>1
  <2> HIDE DEF f, t
  <2> QED BY <1>1, <1>3, <2>1
<1>6. Cut(a, t, 1, m % 4) = Cut(b, p + t, 1, m % 4)
  <2> DEFINE r == m % 4
  <2>1. r \in Nat /\ t + r * 1 <= m BY <1>1
  <2> HIDE DEF f, t, r
  <2>2. Cut(a, t, 1, r) = Cut(b, p + t, 1, r) BY <1>1, <1>3, <2>1
  <2> QED BY <2>2 DEF r
<1>7. 0 + words * word = f /\ 0 + words * word + fours * 4 = t /\ p + words * word = p + f
      /\ p + words * word + fours * 4 = p + t
  BY <1>1
<1> HIDE DEF f, t
<1> QED BY <1>4, <1>5, <1>6, <1>7 DEF Rest, words, fours

LEMMA InvariantDigests == IInv => DigestsAgree
<1> SUFFICES ASSUME IInv, NEW s \in States
             PROVE  IF word = 4 THEN xxh32_digest(state[s]) = xxh32(Input(0, given[s]))
                                ELSE xxh64_digest(state[s]) = xxh64(Input(0, given[s]))
  BY DEF DigestsAgree
<1> DEFINE g == given[s]
           st == state[s]
           k == g \div Stripe
           m == g - k * Stripe
           input == Input(0, g)
<1>1. g \in Nat /\ word \in {4, 8} /\ Counts(word, st, g) BY DEF IInv, Follows
<1>2. k \in Nat /\ m \in Nat /\ m < Stripe /\ k * Stripe <= g /\ Holds(word, st, k, m)
  BY StripesHeld
<1>3. Len(input) = g /\ \A i \in 1..g : input[i] = i
  <2> HIDE DEF g
  <2>1. Len(input) = g BY <1>1, InputIsSeq
  <2>2. \A i \in 1..g : input[i] = 0 + i BY DEF Input
  <2> QED BY <1>1, <2>1, <2>2
<1>4. Rest(st.mem, 0, st.memsize) = Rest(input, k * Stripe, g - k * Stripe)
  <2> HIDE DEF g, st, k, input
  <2>1. k * Stripe \in Nat
    <3>1. Stripe \in Nat BY <1>1 DEF Stripe
    <3> QED BY <1>2, <3>1
  <2>2. \A j \in 1..m : st.mem[j] = input[k * Stripe + j]
    <3> SUFFICES ASSUME NEW j \in 1..m PROVE st.mem[j] = input[k * Stripe + j]
      OBVIOUS
    <3>1. k * Stripe + j \in 1..g BY <1>1, <1>2, <2>1
    <3>2. input[k * Stripe + j] = k * Stripe + j BY <1>3, <3>1
    <3> QED BY <1>2, <3>2 DEF Holds, Stripe
  <2>3. st.memsize = m BY <1>2 DEF Holds
  <2> HIDE DEF m
  <2>4. Rest(st.mem, 0, m) = Rest(input, k * Stripe, m)
    <3>1. PICK p \in Nat : p = k * Stripe BY <2>1
    <3>2. \A j \in 1..m : st.mem[j] = input[p + j] BY <2>2, <3>1
    <3>3. m \in Nat /\ word \in {4, 8} BY <1>1, <1>2
    <3>4. PICK a : a = st.mem OBVIOUS
    <3>5. PICK b : b = input OBVIOUS
    <3>6. \A j \in 1..m : a[j] = b[p + j] BY <3>2, <3>4, <3>5
    <3>7. Rest(a, 0, m) = Rest(b, p, m)
      <4> HIDE <3>2, <3>4, <3>5
      <4> QED BY <3>3, <3>6, SameRest
    <3> QED BY <3>1, <3>4, <3>5, <3>7
  <2> QED BY <2>3, <2>4 DEF m
<1>5. st.v = Rounds(Seeds, input, 0, k)
  <2> HIDE DEF g, k, m, st
  <2> QED BY <1>1, <1>2, WholeTaken DEF Holds
<1>6. g < Stripe => st.v[3] = Seeds[3]
  <2> SUFFICES ASSUME g < Stripe PROVE st.v[3] = Seeds[3]
    OBVIOUS
  <2> HIDE DEF g, k, st
  <2>1. k = 0
    <3>1. CASE word = 4 BY <1>1, <1>2, <3>1 DEF Stripe
    <3>2. CASE word = 8 BY <1>1, <1>2, <3>2 DEF Stripe
    <3> QED BY <1>1, <3>1, <3>2
  <2>2. st.v = Taken(word, 0) BY <1>2, <2>1 DEF Holds
  <2> QED BY <1>1, <2>2, SeedsTaken
<1> HIDE DEF g, st, k, m, input
<1>7. CASE word = 4
  <2>1. st.large_len <=> g >= Stripe BY <1>1, <1>7 DEF Counts, Stripe
  <2>2. st.total_len = g % TwoTo32 BY <1>1, <1>7 DEF Counts
  <2>3. xxh32_digest(st) = [acc |-> IF g >= Stripe THEN st.v ELSE st.v[3], len |-> g % TwoTo32,
                            rest |-> Rest(st.mem, 0, st.memsize)]
    BY <2>1, <2>2 DEF xxh32_digest, Digest
  <2>4. xxh32(input) = [acc |-> IF g >= Stripe THEN Rounds(Seeds, input, 0, k) ELSE Seeds[3],
                        len |-> g % TwoTo32, rest |-> Rest(input, k * Stripe, g - k * Stripe)]
    BY <1>3 DEF xxh32, Whole, k
  <2>5. Stripe \in Nat BY <1>7 DEF Stripe
  <2>6. xxh32_digest(st) = xxh32(input) BY <1>1, <1>4, <1>5, <1>6, <2>3, <2>4, <2>5
  <2> QED BY <1>7, <2>6 DEF st, input, g
<1>8. CASE word = 8
  <2>1. st.total_len = g BY <1>1, <1>8 DEF Counts
  <2>2. xxh64_digest(st) = [acc |-> IF g >= Stripe THEN st.v ELSE st.v[3], len |-> g,
                            rest |-> Rest(st.mem, 0, st.memsize)]
    BY <1>8, <2>1 DEF xxh64_digest, Digest, Stripe
  <2>3. xxh64(input) = [acc |-> IF g >= Stripe THEN Rounds(Seeds, input, 0, k) ELSE Seeds[3],
                        len |-> g, rest |-> Rest(input, k * Stripe, g - k * Stripe)]
    BY <1>3 DEF xxh64, Whole, k
  <2>4. Stripe \in Nat BY <1>8 DEF Stripe
  <2>5. xxh64_digest(st) = xxh64(input) BY <1>1, <1>4, <1>5, <1>6, <2>2, <2>3, <2>4
  <2> QED BY <1>8, <2>5 DEF st, input, g
<1> QED BY <1>1, <1>7, <1>8

LEMMA XxhashInvariant == Spec => []IInv
BY InitInvariant, StepInvariant, PTL DEF Spec

(***************************************************************************)
(* After any calls, each state of xxhash.c has taken exactly the whole     *)
(* stripes it was given and buffers the rest.                              *)
(***************************************************************************)
THEOREM XxhashStates == Spec => []StatesFollowTheInput
BY XxhashInvariant, InvariantFollowsInput, PTL

(***************************************************************************)
(* The digest of a state is the hash of everything it was given, however   *)
(* the input was divided between the calls.                                *)
(***************************************************************************)
THEOREM XxhashDigests == Spec => []DigestsAgree
BY XxhashInvariant, InvariantDigests, PTL

-----------------------------------------------------------------------------
(* The circular buffer.                                                    *)

-----------------------------------------------------------------------------
(* The arithmetic on the indices.                                          *)

\* An index that has run past the end of the buffer once, or is behind its start.
Wrap(x) == IF x < 0 THEN x + size ELSE IF x < size THEN x ELSE x - size

\* & (size - 1) of a number at most one buffer away wraps it.
LEMMA Masking ==
  ASSUME NEW x \in Int, -size <= x, x < 2 * size
  PROVE  x % size = Wrap(x) /\ Wrap(x) \in Slots
<1>1. size \in Nat /\ size > 1  BY CircBufAssumption
<1>2. Wrap(x) \in Slots  BY <1>1 DEF Wrap, Slots
<1>3. x % size = Wrap(x)
  <2>1. x % size \in 0..size-1 /\ x = size * (x \div size) + (x % size)
    BY <1>1
  <2>2. x \div size \in Int  BY <1>1
  <2> QED  BY <1>1, <2>1, <2>2 DEF Wrap
<1> QED  BY <1>2, <1>3

\* What the counts of the header are, without a remainder.
LEMMA BufCounts ==
  ASSUME NEW h \in Slots, NEW t \in Slots
  PROVE  /\ CIRC_CNT(h, t) = IF h >= t THEN h - t ELSE h - t + size
         /\ CIRC_SPACE(h, t) = size - 1 - CIRC_CNT(h, t)
         /\ CIRC_CNT_TO_END(h, t) = IF h >= t THEN h - t ELSE size - t
         /\ CIRC_SPACE_TO_END(h, t) =
              IF h < t THEN t - h - 1 ELSE IF t = 0 THEN size - 1 - h ELSE size - h
<1>1. size \in Nat /\ size > 1 /\ h \in 0..size-1 /\ t \in 0..size-1
  BY CircBufAssumption DEF Slots
<1>2. (h - t) % size = Wrap(h - t) /\ (t - (h + 1)) % size = Wrap(t - (h + 1))
  <2>1. h - t \in Int /\ -size <= h - t /\ h - t < 2 * size  BY <1>1
  <2>2. t - (h + 1) \in Int /\ -size <= t - (h + 1) /\ t - (h + 1) < 2 * size  BY <1>1
  <2> QED  BY <2>1, <2>2, Masking
<1>3. (h + (size - t)) % size = Wrap(h + (size - t))
  <2>1. h + (size - t) \in Int /\ -size <= h + (size - t) /\ h + (size - t) < 2 * size  BY <1>1
  <2> QED  BY <2>1, Masking
<1>4. ((size - 1 - h) + t) % size = Wrap((size - 1 - h) + t)
  <2>1. (size - 1 - h) + t \in Int /\ -size <= (size - 1 - h) + t /\ (size - 1 - h) + t < 2 * size  BY <1>1
  <2> QED  BY <2>1, Masking
<1>5. CIRC_CNT(h, t) = IF h >= t THEN h - t ELSE h - t + size
  BY <1>1, <1>2 DEF CIRC_CNT, Wrap
<1>6. CIRC_SPACE(h, t) = size - 1 - CIRC_CNT(h, t)
  BY <1>1, <1>2, <1>5 DEF CIRC_SPACE, CIRC_CNT, Wrap
<1>7. CIRC_CNT_TO_END(h, t) = IF h >= t THEN h - t ELSE size - t
  BY <1>1, <1>3 DEF CIRC_CNT_TO_END, Wrap
<1>8. CIRC_SPACE_TO_END(h, t) =
        IF h < t THEN t - h - 1 ELSE IF t = 0 THEN size - 1 - h ELSE size - h
  <2> DEFINE end == size - 1 - h
             n   == Wrap(end + t)
  <2>1. CIRC_SPACE_TO_END(h, t) = IF n <= end THEN n ELSE end + 1
    BY <1>4 DEF CIRC_SPACE_TO_END
  <2>2. n = IF h < t THEN t - h - 1 ELSE end + t
    BY <1>1 DEF Wrap
  <2> QED  BY <1>1, <2>1, <2>2
<1> QED  BY <1>5, <1>6, <1>7, <1>8

\* The slots from an index on, around the end of the buffer, are all different.
LEMMA WrapsOnce ==
  ASSUME NEW x \in Slots, NEW i \in Slots, NEW j \in Slots, Wrap(x + i) = Wrap(x + j)
  PROVE  i = j
BY CircBufAssumption DEF Wrap, Slots

\* The free slots, from head on, are none of the full ones, from tail on.
LEMMA FreeIsNotFull ==
  ASSUME NEW h \in Slots, NEW t \in Slots,
         NEW i \in 0..CIRC_CNT(h, t)-1, NEW j \in 0..CIRC_SPACE(h, t)-1
  PROVE  Wrap(t + i) # Wrap(h + j)
<1>1. size \in Nat /\ size > 1 /\ h \in 0..size-1 /\ t \in 0..size-1
  BY CircBufAssumption DEF Slots
<1>2. PICK n \in Int : n = CIRC_CNT(h, t) /\ n = IF h >= t THEN h - t ELSE h - t + size
  BY <1>1, BufCounts
<1>3. i \in 0..n-1 /\ j \in 0..size-1-n-1
  BY <1>2, BufCounts
<1> QED  BY <1>1, <1>2, <1>3 DEF Wrap

\* Storing to head adds what was written, and takes it off the free slots.
LEMMA StoredHead ==
  ASSUME NEW h \in Slots, NEW t \in Slots, NEW n \in Nat, n <= CIRC_SPACE(h, t)
  PROVE  /\ (h + n) % size = Wrap(h + n) /\ Wrap(h + n) \in Slots
         /\ CIRC_CNT(Wrap(h + n), t) = CIRC_CNT(h, t) + n
         /\ CIRC_SPACE(Wrap(h + n), t) = CIRC_SPACE(h, t) - n
<1>1. size \in Nat /\ size > 1 /\ h \in 0..size-1 /\ t \in 0..size-1
  BY CircBufAssumption DEF Slots
<1>2. PICK c \in 0..size-1 : c = CIRC_CNT(h, t) /\ c = IF h >= t THEN h - t ELSE h - t + size
  BY <1>1, BufCounts
<1>3. CIRC_SPACE(h, t) = size - 1 - c  BY <1>2, BufCounts
<1>4. h + n \in Int /\ -size <= h + n /\ h + n < 2 * size  BY <1>1, <1>2, <1>3
<1>5. (h + n) % size = Wrap(h + n) /\ Wrap(h + n) \in Slots  BY <1>4, Masking
<1>6. PICK g \in Slots : g = Wrap(h + n)  BY <1>5
<1>7. /\ CIRC_CNT(g, t) = IF g >= t THEN g - t ELSE g - t + size
      /\ CIRC_SPACE(g, t) = size - 1 - CIRC_CNT(g, t)
  BY BufCounts
<1>8. g = IF h + n < size THEN h + n ELSE h + n - size  BY <1>1, <1>6 DEF Wrap
<1>9. CIRC_CNT(g, t) = c + n /\ CIRC_SPACE(g, t) = size - 1 - c - n
  BY <1>1, <1>2, <1>3, <1>7, <1>8
<1> QED  BY <1>2, <1>3, <1>5, <1>6, <1>9

\* Storing to tail takes what was read, and adds it to the free slots.
LEMMA StoredTail ==
  ASSUME NEW h \in Slots, NEW t \in Slots, NEW n \in Nat, n <= CIRC_CNT(h, t)
  PROVE  /\ (t + n) % size = Wrap(t + n) /\ Wrap(t + n) \in Slots
         /\ CIRC_CNT(h, Wrap(t + n)) = CIRC_CNT(h, t) - n
         /\ CIRC_SPACE(h, Wrap(t + n)) = CIRC_SPACE(h, t) + n
<1>1. size \in Nat /\ size > 1 /\ h \in 0..size-1 /\ t \in 0..size-1
  BY CircBufAssumption DEF Slots
<1>2. PICK c \in 0..size-1 : c = CIRC_CNT(h, t) /\ c = IF h >= t THEN h - t ELSE h - t + size
  BY <1>1, BufCounts
<1>3. CIRC_SPACE(h, t) = size - 1 - c  BY <1>2, BufCounts
<1>4. t + n \in Int /\ -size <= t + n /\ t + n < 2 * size  BY <1>1, <1>2
<1>5. (t + n) % size = Wrap(t + n) /\ Wrap(t + n) \in Slots  BY <1>4, Masking
<1>6. PICK g \in Slots : g = Wrap(t + n)  BY <1>5
<1>7. /\ CIRC_CNT(h, g) = IF h >= g THEN h - g ELSE h - g + size
      /\ CIRC_SPACE(h, g) = size - 1 - CIRC_CNT(h, g)
  BY BufCounts
<1>8. g = IF t + n < size THEN t + n ELSE t + n - size  BY <1>1, <1>6 DEF Wrap
<1>9. CIRC_CNT(h, g) = c - n /\ CIRC_SPACE(h, g) = size - 1 - c + n
  BY <1>1, <1>2, <1>7, <1>8
<1> QED  BY <1>2, <1>3, <1>5, <1>6, <1>9

-----------------------------------------------------------------------------
(* The inductive invariant.                                                *)

Sides == [busy : BOOLEAN, room : Slots, done : Slots, wrap : BOOLEAN]

\* A side that has not looked has no claim, one that goes straight on ends its
\* claim before the buffer ends, and no claim is of more than limit slots.
SideOK(index, side, limit) ==
  /\ side.done <= side.room /\ side.room <= limit
  /\ ~side.busy => side.room = 0
  /\ ~side.wrap => index + side.room <= size

\* What the consumer copied is what the slots still hold.
CopiedOK ==
  /\ got \in Seq(Items)
  /\ consumer.busy => /\ Len(got) = consumer.done
                      /\ \A i \in 1..Len(got) : got[i] = buf[Wrap(tail + (i - 1))]

BufInv ==
  /\ buf \in [Slots -> Items] /\ head \in Slots /\ tail \in Slots
  /\ producer \in Sides /\ consumer \in Sides
  /\ SideOK(head, producer, CIRC_SPACE(head, tail))
  /\ SideOK(tail, consumer, CIRC_CNT(head, tail))
  /\ CopiedOK

\* A claim that fits a limit fits a larger one.
LEMMA MoreRoom ==
  ASSUME NEW index, NEW side \in Sides, NEW limit \in Slots, NEW more \in Slots, limit <= more,
         SideOK(index, side, limit)
  PROVE  SideOK(index, side, more)
BY CircBufAssumption DEF SideOK, Sides, Slots

\* The slot that comes i after an index, either way it is found.
LEMMA SlotWraps ==
  ASSUME NEW index \in Slots, NEW side \in Sides, NEW limit \in Slots, SideOK(index, side, limit),
         NEW i \in 0..side.room-1
  PROVE  SlotAt(index, i, side.wrap) = Wrap(index + i) /\ Wrap(index + i) \in Slots
<1>1. /\ size \in Nat /\ size > 1 /\ index \in 0..size-1 /\ side.room \in 0..size-1
      /\ side.wrap \in BOOLEAN
  BY CircBufAssumption DEF Slots, Sides
<1>2. index + i \in Int /\ -size <= index + i /\ index + i < 2 * size
  BY <1>1
<1>3. (index + i) % size = Wrap(index + i) /\ Wrap(index + i) \in Slots
  BY <1>2, Masking
<1>4. CASE side.wrap  BY <1>3, <1>4 DEF SlotAt
<1>5. CASE ~side.wrap
  <2>1. index + side.room <= size  BY <1>5 DEF SideOK
  <2>2. Wrap(index + i) = index + i  BY <1>1, <2>1 DEF Wrap
  <2> QED  BY <1>3, <1>5, <2>2 DEF SlotAt
<1> QED  BY <1>1, <1>4, <1>5

\* At first neither side has claimed anything.
LEMMA InitIInv == BufInit => BufInv
<1> SUFFICES ASSUME BufInit PROVE BufInv  OBVIOUS
<1>1. size \in Nat /\ size > 1 /\ 0 \in Slots  BY CircBufAssumption DEF Slots
<1>2. \A wrap \in BOOLEAN : Idle(wrap) \in Sides /\ ~Idle(wrap).busy /\ Idle(wrap).room = 0 /\ Idle(wrap).done = 0
  BY <1>1 DEF Idle, Sides
<1>3. /\ producer \in Sides /\ ~producer.busy /\ producer.room = 0 /\ producer.done = 0
      /\ consumer \in Sides /\ ~consumer.busy /\ consumer.room = 0 /\ consumer.done = 0
  BY <1>2 DEF BufInit
<1>4. head = 0 /\ tail = 0 /\ got = <<>> /\ buf \in [Slots -> Items]  BY DEF BufInit
<1>5. CIRC_CNT(head, tail) = 0 /\ CIRC_SPACE(head, tail) = size - 1
  BY <1>1, <1>4, BufCounts
<1> QED  BY <1>1, <1>3, <1>4, <1>5 DEF BufInv, SideOK, CopiedOK

\* What the invariant says of the numbers.
LEMMA Numbers ==
  ASSUME BufInv
  PROVE  /\ size \in Nat /\ size > 1 /\ Slots = 0..size-1
         /\ head \in Slots /\ tail \in Slots
         /\ CIRC_CNT(head, tail) \in Slots /\ CIRC_SPACE(head, tail) \in Slots
         /\ CIRC_SPACE(head, tail) = size - 1 - CIRC_CNT(head, tail)
         /\ producer.room \in Slots /\ producer.done \in Slots
         /\ consumer.room \in Slots /\ consumer.done \in Slots
<1>1. size \in Nat /\ size > 1 /\ Slots = 0..size-1  BY CircBufAssumption DEF Slots
<1>2. head \in Slots /\ tail \in Slots /\ producer \in Sides /\ consumer \in Sides  BY DEF BufInv
<1>3. CIRC_CNT(head, tail) \in Slots
  <2>1. PICK c : c = CIRC_CNT(head, tail) /\ c = IF head >= tail THEN head - tail ELSE head - tail + size
    BY <1>2, BufCounts
  <2> QED  BY <1>1, <1>2, <2>1
<1>4. CIRC_SPACE(head, tail) = size - 1 - CIRC_CNT(head, tail)  BY <1>2, BufCounts
<1> QED  BY <1>1, <1>2, <1>3, <1>4 DEF Sides

\* What a side has copied is within its claim, and the claim within what is its own.
LEMMA Bounds ==
  ASSUME BufInv
  PROVE  /\ producer.done <= CIRC_SPACE(head, tail)
         /\ consumer.done <= CIRC_CNT(head, tail)
         /\ consumer.done >= 1 => consumer.busy
<1>1. /\ SideOK(head, producer, CIRC_SPACE(head, tail)) /\ SideOK(tail, consumer, CIRC_CNT(head, tail))
  BY DEF BufInv
<1>2. /\ producer.room \in Int /\ producer.done \in Int /\ CIRC_SPACE(head, tail) \in Int
      /\ consumer.room \in Int /\ consumer.done \in Int /\ CIRC_CNT(head, tail) \in Int
  BY Numbers
<1> QED  BY <1>1, <1>2 DEF SideOK

\* A look at the other index gives a claim that the counts allow (circ_buf.h:25-42).
LEMMA Looks ==
  ASSUME BufInv
  PROVE  /\ ProducerLooks => BufInv'
         /\ ConsumerLooks => BufInv'
<1>1. PICK c \in Slots : c = CIRC_CNT(head, tail) /\ c = IF head >= tail THEN head - tail ELSE head - tail + size
  BY Numbers, BufCounts
<1>a. size \in Nat /\ size > 1 /\ head \in 0..size-1 /\ tail \in 0..size-1 /\ Slots = 0..size-1 /\ c \in 0..size-1
  BY Numbers
<1>b. /\ CIRC_SPACE(head, tail) = size - 1 - c
      /\ CIRC_CNT_TO_END(head, tail) = IF head >= tail THEN head - tail ELSE size - tail
      /\ CIRC_SPACE_TO_END(head, tail) =
           IF head < tail THEN tail - head - 1 ELSE IF tail = 0 THEN size - 1 - head ELSE size - head
  BY <1>1, Numbers, BufCounts
<1>2. ASSUME ProducerLooks PROVE BufInv'
  <2> DEFINE room == IF producer.wrap THEN CIRC_SPACE(head, tail) ELSE CIRC_SPACE_TO_END(head, tail)
  <2>1. /\ room >= 1 /\ producer' = [producer EXCEPT !.busy = TRUE, !.room = room]
        /\ ~producer.busy /\ UNCHANGED <<buf, head, tail, consumer, got>>
    BY <1>2 DEF ProducerLooks
  <2>2. room \in Slots /\ room <= size - 1 - c /\ (~producer.wrap => head + room <= size)
    BY <1>1, <1>a, <1>b
  <2> HIDE DEF room
  <2>3. producer \in Sides /\ producer.room = 0 /\ producer.done = 0
    BY <2>1, Numbers DEF BufInv, SideOK
  <2>4. producer' \in Sides /\ producer'.busy /\ producer'.room = room /\ producer'.done = 0 /\ producer'.wrap = producer.wrap
    BY <2>1, <2>2, <2>3 DEF Sides
  <2>5. SideOK(head, producer', CIRC_SPACE(head, tail))
    BY <1>1, <2>2, <2>4, Numbers DEF SideOK
  <2> QED  BY <2>1, <2>4, <2>5 DEF BufInv, CopiedOK
<1>3. ASSUME ConsumerLooks PROVE BufInv'
  <2> DEFINE room == IF consumer.wrap THEN CIRC_CNT(head, tail) ELSE CIRC_CNT_TO_END(head, tail)
  <2>1. /\ room >= 1 /\ consumer' = [consumer EXCEPT !.busy = TRUE, !.room = room]
        /\ ~consumer.busy /\ got' = <<>> /\ UNCHANGED <<buf, head, tail, producer>>
    BY <1>3 DEF ConsumerLooks
  <2>2. room \in Slots /\ room <= c /\ (~consumer.wrap => tail + room <= size)
    BY <1>1, <1>a, <1>b
  <2> HIDE DEF room
  <2>3. consumer \in Sides /\ consumer.room = 0 /\ consumer.done = 0
    BY <2>1, Numbers DEF BufInv, SideOK
  <2>4. consumer' \in Sides /\ consumer'.busy /\ consumer'.room = room /\ consumer'.done = 0 /\ consumer'.wrap = consumer.wrap
    BY <2>1, <2>2, <2>3 DEF Sides
  <2>5. SideOK(tail, consumer', CIRC_CNT(head, tail))
    BY <1>1, <2>2, <2>4, Numbers DEF SideOK
  <2>6. got' \in Seq(Items) /\ Len(got') = 0  BY <2>1
  <2> QED  BY <2>1, <2>4, <2>5, <2>6 DEF BufInv, CopiedOK
<1> QED  BY <1>2, <1>3

\* A side that counted a slot it has yet to copy is busy, and the slot is its own.
LEMMA Copies ==
  ASSUME BufInv
  PROVE  /\ producer.done < producer.room =>
              /\ SlotAt(head, producer.done, producer.wrap) = Wrap(head + producer.done)
              /\ Wrap(head + producer.done) \in Slots
              /\ producer.done \in 0..CIRC_SPACE(head, tail)-1
              /\ producer.done + 1 \in Slots
         /\ consumer.done < consumer.room =>
              /\ consumer.busy
              /\ SlotAt(tail, consumer.done, consumer.wrap) = Wrap(tail + consumer.done)
              /\ Wrap(tail + consumer.done) \in Slots
              /\ consumer.done \in 0..CIRC_CNT(head, tail)-1
              /\ consumer.done + 1 \in Slots
<1>1. /\ producer \in Sides /\ consumer \in Sides
      /\ SideOK(head, producer, CIRC_SPACE(head, tail)) /\ SideOK(tail, consumer, CIRC_CNT(head, tail))
  BY DEF BufInv
<1>2. ASSUME producer.done < producer.room
      PROVE  /\ SlotAt(head, producer.done, producer.wrap) = Wrap(head + producer.done)
             /\ Wrap(head + producer.done) \in Slots
             /\ producer.done \in 0..CIRC_SPACE(head, tail)-1
             /\ producer.done + 1 \in Slots
  <2>0. producer.done + 1 \in Slots  BY <1>2, Numbers
  <2>1. producer.done \in 0..producer.room-1  BY <1>2, Numbers
  <2>2. producer.room <= CIRC_SPACE(head, tail)  BY <1>1 DEF SideOK
  <2>3. producer.done \in 0..CIRC_SPACE(head, tail)-1  BY <2>1, <2>2, Numbers
  <2>4. head \in Slots /\ CIRC_SPACE(head, tail) \in Slots  BY Numbers
  <2> QED  BY <1>1, <2>0, <2>1, <2>3, <2>4, SlotWraps
<1>3. ASSUME consumer.done < consumer.room
      PROVE  /\ consumer.busy
             /\ SlotAt(tail, consumer.done, consumer.wrap) = Wrap(tail + consumer.done)
             /\ Wrap(tail + consumer.done) \in Slots
             /\ consumer.done \in 0..CIRC_CNT(head, tail)-1
             /\ consumer.done + 1 \in Slots
  <2>0. consumer.done + 1 \in Slots  BY <1>3, Numbers
  <2>1. consumer.done \in 0..consumer.room-1  BY <1>3, Numbers
  <2>2. consumer.room <= CIRC_CNT(head, tail) /\ consumer.busy  BY <1>1, <1>3, Numbers DEF SideOK
  <2>3. consumer.done \in 0..CIRC_CNT(head, tail)-1  BY <2>1, <2>2, Numbers
  <2>4. tail \in Slots /\ CIRC_CNT(head, tail) \in Slots  BY Numbers
  <2> QED  BY <1>1, <2>0, <2>1, <2>2, <2>3, <2>4, SlotWraps
<1> QED  BY <1>2, <1>3

\* The producer writes to a slot that is free, so nothing that is full changes.
LEMMA CopyKeepsTheFull ==
  ASSUME BufInv, NEW item \in Items, ProducerCopies(item), NEW i \in 0..CIRC_CNT(head, tail)-1
  PROVE  buf'[Wrap(tail + i)] = buf[Wrap(tail + i)]
<1>1. producer.done < producer.room /\ buf' = [buf EXCEPT ![SlotAt(head, producer.done, producer.wrap)] = item]
  BY DEF ProducerCopies
<1>2. Wrap(tail + i) # Wrap(head + producer.done)
  BY <1>1, Numbers, Copies, FreeIsNotFull
<1>3. SlotAt(head, producer.done, producer.wrap) = Wrap(head + producer.done)
  BY <1>1, Copies
<1>4. buf \in [Slots -> Items]  BY DEF BufInv
<1> HIDE DEF Wrap
<1> QED  BY <1>1, <1>2, <1>3, <1>4

LEMMA ProducerCopiesKeeps ==
  ASSUME BufInv, NEW item \in Items, ProducerCopies(item)
  PROVE  BufInv'
<1>1. /\ producer.done < producer.room
      /\ buf' = [buf EXCEPT ![SlotAt(head, producer.done, producer.wrap)] = item]
      /\ producer' = [producer EXCEPT !.done = producer.done + 1]
      /\ UNCHANGED <<head, tail, consumer, got>>
  BY DEF ProducerCopies
<1>2. buf' \in [Slots -> Items]  BY <1>1 DEF BufInv
<1>3. /\ producer' \in Sides /\ producer'.done = producer.done + 1
      /\ producer'.room = producer.room /\ producer'.busy = producer.busy /\ producer'.wrap = producer.wrap
  <2>1. producer.done + 1 \in Slots  BY <1>1, Copies
  <2>2. producer \in Sides  BY DEF BufInv
  <2> QED  BY <1>1, <2>1, <2>2 DEF Sides
<1>4. SideOK(head, producer', CIRC_SPACE(head, tail))
  BY <1>1, <1>3, Numbers DEF BufInv, SideOK
<1>5. CopiedOK'
  <2>1. SUFFICES ASSUME consumer.busy, NEW i \in 1..Len(got)
                 PROVE  got[i] = buf'[Wrap(tail + (i - 1))]
    BY <1>1 DEF CopiedOK, BufInv, Wrap
  <2>2. got[i] = buf[Wrap(tail + (i - 1))] /\ Len(got) = consumer.done  BY <2>1 DEF BufInv, CopiedOK
  <2>3. consumer.done <= CIRC_CNT(head, tail)
    BY Numbers DEF BufInv, SideOK
  <2>4. i - 1 \in 0..CIRC_CNT(head, tail)-1  BY <2>1, <2>2, <2>3, Numbers
  <2> QED  BY <2>2, <2>4, CopyKeepsTheFull
<1> QED  BY <1>1, <1>2, <1>3, <1>4, <1>5 DEF BufInv

LEMMA ConsumerCopiesKeeps ==
  ASSUME BufInv, ConsumerCopies
  PROVE  BufInv'
<1> DEFINE e == buf[SlotAt(tail, consumer.done, consumer.wrap)]
<1>1. /\ consumer.done < consumer.room
      /\ got' = Append(got, e)
      /\ consumer' = [consumer EXCEPT !.done = consumer.done + 1]
      /\ UNCHANGED <<buf, head, tail, producer>>
  BY DEF ConsumerCopies
<1>2. /\ consumer.busy /\ e = buf[Wrap(tail + consumer.done)] /\ Wrap(tail + consumer.done) \in Slots
  BY <1>1, Copies
<1>3. /\ consumer' \in Sides /\ consumer'.done = consumer.done + 1
      /\ consumer'.room = consumer.room /\ consumer'.busy = consumer.busy /\ consumer'.wrap = consumer.wrap
  <2>1. consumer.done + 1 \in Slots  BY <1>1, Copies
  <2>2. consumer \in Sides  BY DEF BufInv
  <2> QED  BY <1>1, <2>1, <2>2 DEF Sides
<1>4. SideOK(tail, consumer', CIRC_CNT(head, tail))
  BY <1>1, <1>3, Numbers DEF BufInv, SideOK
<1>5. e \in Items  BY <1>2 DEF BufInv
<1>6. /\ got \in Seq(Items) /\ Len(got) = consumer.done
      /\ \A i \in 1..Len(got) : got[i] = buf[Wrap(tail + (i - 1))]
  BY <1>2 DEF BufInv, CopiedOK
<1> HIDE DEF e
<1>7. /\ got' \in Seq(Items) /\ Len(got') = Len(got) + 1 /\ got'[Len(got) + 1] = e
      /\ \A i \in 1..Len(got) : got'[i] = got[i]
  BY <1>1, <1>5, <1>6, AppendProperties
<1>8. ASSUME NEW i \in 1..Len(got') PROVE got'[i] = buf[Wrap(tail + (i - 1))]
  <2>1. CASE i \in 1..Len(got)  BY <2>1, <1>6, <1>7
  <2>2. CASE i = Len(got) + 1
    <3>1. i - 1 = consumer.done  BY <2>2, <1>6
    <3> QED  BY <2>2, <3>1, <1>2, <1>7
  <2> QED  BY <2>1, <2>2, <1>6, <1>7
<1>9. CopiedOK'
  BY <1>1, <1>3, <1>6, <1>7, <1>8 DEF CopiedOK, Wrap
<1> QED  BY <1>1, <1>3, <1>4, <1>9 DEF BufInv

LEMMA StoresKeep ==
  ASSUME BufInv
  PROVE  /\ ProducerStores => BufInv'
         /\ ConsumerStores => BufInv'
<1>1. \A wrap \in BOOLEAN : Idle(wrap) \in Sides /\ ~Idle(wrap).busy /\ Idle(wrap).room = 0 /\ Idle(wrap).done = 0
  BY Numbers DEF Idle, Sides
<1>2. producer.wrap \in BOOLEAN /\ consumer.wrap \in BOOLEAN  BY DEF BufInv, Sides
<1>3. ASSUME ProducerStores PROVE BufInv'
  <2> DEFINE n == producer.done
             g == Wrap(head + n)
  <2>1. /\ n >= 1 /\ head' = (head + n) % size
        /\ producer' = Idle(producer.wrap) /\ UNCHANGED <<buf, tail, consumer, got>>
    BY <1>3 DEF ProducerStores
  <2>2. n <= CIRC_SPACE(head, tail) /\ n \in Nat
    BY Numbers DEF BufInv, SideOK
  <2>3. /\ (head + n) % size = g /\ g \in Slots
        /\ CIRC_CNT(g, tail) = CIRC_CNT(head, tail) + n
        /\ CIRC_SPACE(g, tail) = CIRC_SPACE(head, tail) - n
    <3>1. head \in Slots /\ tail \in Slots  BY Numbers
    <3> QED  BY <2>2, <3>1, StoredHead
  <2> HIDE DEF g
  <2>4. PICK p \in Sides : p = producer' /\ ~p.busy /\ p.room = 0 /\ p.done = 0
    BY <1>1, <1>2, <2>1
  <2>5. SideOK(g, p, CIRC_SPACE(g, tail))
    BY <2>2, <2>3, <2>4, Numbers, SMTT(30) DEF SideOK
  <2>6. SideOK(tail, consumer, CIRC_CNT(g, tail))
    <3>0. CIRC_CNT(head, tail) + n \in Slots  BY <2>2, Numbers
    <3>1. CIRC_CNT(g, tail) \in Slots  BY <2>3, <3>0
    <3>2. CIRC_CNT(head, tail) <= CIRC_CNT(g, tail)  BY <2>2, <2>3, Numbers
    <3> QED  BY <3>1, <3>2, Numbers, MoreRoom DEF BufInv
  <2>7. CopiedOK'  BY <2>1 DEF CopiedOK, BufInv, Wrap
  <2>8. head' = g  BY <2>1, <2>3
  <2> QED  BY <2>1, <2>3, <2>4, <2>5, <2>6, <2>7, <2>8 DEF BufInv
<1>4. ASSUME ConsumerStores PROVE BufInv'
  <2> DEFINE n == consumer.done
             g == Wrap(tail + n)
  <2>1. /\ n >= 1 /\ tail' = (tail + n) % size
        /\ consumer' = Idle(consumer.wrap) /\ UNCHANGED <<buf, head, producer, got>>
    BY <1>4 DEF ConsumerStores
  <2>2. n <= CIRC_CNT(head, tail) /\ n \in Nat
    BY Numbers DEF BufInv, SideOK
  <2>3. /\ (tail + n) % size = g /\ g \in Slots
        /\ CIRC_CNT(head, g) = CIRC_CNT(head, tail) - n
        /\ CIRC_SPACE(head, g) = CIRC_SPACE(head, tail) + n
    <3>1. head \in Slots /\ tail \in Slots  BY Numbers
    <3> QED  BY <2>2, <3>1, StoredTail
  <2> HIDE DEF g
  <2>4. PICK p \in Sides : p = consumer' /\ ~p.busy /\ p.room = 0 /\ p.done = 0
    BY <1>1, <1>2, <2>1
  <2>5. SideOK(g, p, CIRC_CNT(head, g))
    BY <2>2, <2>3, <2>4, Numbers, SMTT(30) DEF SideOK
  <2>6. SideOK(head, producer, CIRC_SPACE(head, g))
    <3>0. CIRC_SPACE(head, tail) + n \in Slots  BY <2>2, Numbers, SMTT(30)
    <3>1. CIRC_SPACE(head, g) \in Slots  BY <2>3, <3>0
    <3>2. CIRC_SPACE(head, tail) <= CIRC_SPACE(head, g)  BY <2>2, <2>3, Numbers
    <3> QED  BY <3>1, <3>2, Numbers, MoreRoom DEF BufInv
  <2>7. CopiedOK'  BY <2>1, <2>4 DEF CopiedOK, BufInv
  <2>8. tail' = g  BY <2>1, <2>3
  <2> QED  BY <2>1, <2>3, <2>4, <2>5, <2>6, <2>7, <2>8 DEF BufInv
<1> QED  BY <1>3, <1>4

\* Every step of either side keeps the invariant.
LEMMA NextIInv == BufInv /\ [BufNext]_bufVars => BufInv'
<1> SUFFICES ASSUME BufInv, [BufNext]_bufVars PROVE BufInv'  OBVIOUS
<1>1. CASE Producer
  BY <1>1, Looks, ProducerCopiesKeeps, StoresKeep DEF Producer
<1>2. CASE Consumer
  BY <1>2, Looks, ConsumerCopiesKeeps, StoresKeep DEF Consumer
<1>3. CASE UNCHANGED bufVars
  BY <1>3 DEF bufVars, BufInv, CopiedOK, SideOK, Wrap, CIRC_CNT, CIRC_SPACE
<1> QED  BY <1>1, <1>2, <1>3 DEF BufNext

\* The claims of the two sides fit what the indices say now, and what the
\* consumer has copied is still in the slots it copied from.
THEOREM CircBufInvariant == BufSpec => []BufInv
BY InitIInv, NextIInv, PTL DEF BufSpec

-----------------------------------------------------------------------------
(* No slot is the producer's and the consumer's at once.                   *)

\* A claim is that many slots, the ones from the index on.
LEMMA ClaimedSlots ==
  ASSUME NEW index \in Slots, NEW side \in Sides, NEW limit \in Slots, SideOK(index, side, limit)
  PROVE  /\ Claimed(index, side) = {Wrap(index + i) : i \in 0..side.room-1}
         /\ Claimed(index, side) \subseteq Slots
         /\ Cardinality(Claimed(index, side)) = side.room
<1> DEFINE I == 0..side.room-1
           C == {Wrap(index + i) : i \in I}
           f == [i \in I |-> Wrap(index + i)]
<1>1. /\ side.room \in Slots /\ Slots = 0..size-1 /\ size \in Nat
  BY CircBufAssumption DEF Slots, Sides
<1>2. \A i \in I : SlotAt(index, i, side.wrap) = Wrap(index + i) /\ Wrap(index + i) \in Slots
  BY SlotWraps
<1>3. Claimed(index, side) = C /\ C \subseteq Slots
  BY <1>2 DEF Claimed
<1>4. ExistsBijection(I, C)
  <2>1. f \in Surjection(I, C)  BY DEF Surjection
  <2>2. ASSUME NEW i \in I, NEW j \in I, f[i] = f[j] PROVE i = j
    BY <1>1, <2>2, WrapsOnce
  <2>3. f \in Injection(I, C)  BY <2>2 DEF Injection, IsInjective
  <2> QED  BY <2>1, <2>3 DEF ExistsBijection, Bijection
<1>5. IsFiniteSet(I) /\ Cardinality(I) = side.room
  <2>1. PICK b \in Int : b = side.room - 1 /\ b \in -1..size-2  BY <1>1
  <2>2. IsFiniteSet(0..b) /\ Cardinality(0..b) = IF 0 > b THEN 0 ELSE b - 0 + 1
    BY FS_Interval
  <2> QED  BY <1>1, <2>1, <2>2
<1>6. Cardinality(C) = Cardinality(I)  BY <1>4, <1>5, FS_Bijection
<1> QED  BY <1>3, <1>5, <1>6

LEMMA IInvApart == BufInv => ClaimsAreApart
<1> SUFFICES ASSUME BufInv PROVE ClaimsAreApart  OBVIOUS
<1> DEFINE p    == Claimed(head, producer)
           c    == Claimed(tail, consumer)
           n    == CIRC_CNT(head, tail)
           full == {(tail + i) % size : i \in 0..n-1}
<1>1. /\ p = {Wrap(head + i) : i \in 0..producer.room-1} /\ p \subseteq Slots
      /\ Cardinality(p) = producer.room
  BY Numbers, ClaimedSlots DEF BufInv
<1>2. /\ c = {Wrap(tail + i) : i \in 0..consumer.room-1}
      /\ Cardinality(c) = consumer.room
  BY Numbers, ClaimedSlots DEF BufInv
<1>3. producer.room <= CIRC_SPACE(head, tail) /\ consumer.room <= n
  BY DEF BufInv, SideOK
<1>4. \A i \in 0..n-1 : (tail + i) % size = Wrap(tail + i)
  <2> SUFFICES ASSUME NEW i \in 0..n-1 PROVE (tail + i) % size = Wrap(tail + i)  OBVIOUS
  <2>1. size \in Nat /\ tail \in 0..size-1 /\ n \in 0..size-1  BY Numbers
  <2>2. PICK y \in Int : y = tail + i /\ -size <= y /\ y < 2 * size  BY <2>1
  <2> QED  BY <2>2, Masking
<1>5. full = {Wrap(tail + i) : i \in 0..n-1}  BY <1>4
<1> HIDE DEF full
<1>6. ASSUME NEW i \in 0..producer.room-1 PROVE Wrap(head + i) \notin full
  <2>1. i \in 0..CIRC_SPACE(head, tail)-1  BY <1>3, Numbers
  <2> QED  BY <1>5, <2>1, Numbers, FreeIsNotFull
<1>7. p \subseteq Slots \ full  BY <1>1, <1>6
<1>8. c \subseteq full
  <2>1. 0..consumer.room-1 \subseteq 0..n-1  BY <1>3, Numbers
  <2> QED  BY <1>2, <1>5, <2>1
<1> QED  BY <1>1, <1>2, <1>7, <1>8 DEF ClaimsAreApart, full

\* Whatever the other side did since it looked, a side has counted slots that are
\* its own, as many as it counted, and all inside the buffer (circ_buf.h:22-42).
THEOREM CircBufClaims == BufSpec => []ClaimsAreApart
BY CircBufInvariant, IInvApart, PTL

-----------------------------------------------------------------------------
(* The buffer is a queue.                                                  *)

\* The k slots of b from the index x on.
Run(b, x, k) == [i \in 1..k |-> b[Wrap(x + (i - 1))]]

\* What the buffer b holds between tail t and head h.
Held(b, h, t) == Run(b, t, CIRC_CNT(h, t))

LEMMA RunFacts ==
  ASSUME NEW b \in [Slots -> Items], NEW x \in Slots, NEW k \in Nat, k <= size
  PROVE  /\ Run(b, x, k) \in Seq(Items) /\ Run(b, x, k) \in [1..k -> Items]
         /\ Len(Run(b, x, k)) = k
         /\ \A i \in 1..k : /\ (x + i - 1) % size = Wrap(x + (i - 1))
                            /\ Run(b, x, k)[i] = b[Wrap(x + (i - 1))]
<1>1. size \in Nat /\ size > 1 /\ x \in 0..size-1
  BY CircBufAssumption DEF Slots
<1>2. ASSUME NEW i \in 1..k
      PROVE  (x + i - 1) % size = Wrap(x + (i - 1)) /\ Wrap(x + (i - 1)) \in Slots
  <2>1. PICK y \in Int : y = x + (i - 1)  BY <1>1
  <2>2. -size <= y /\ y < 2 * size /\ x + i - 1 = y  BY <1>1, <2>1
  <2>3. y % size = Wrap(y) /\ Wrap(y) \in Slots  BY <2>2, Masking
  <2> QED  BY <2>1, <2>2, <2>3
<1>3. Run(b, x, k) \in [1..k -> Items]  BY <1>2 DEF Run
<1> QED  BY <1>2, <1>3 DEF Run

\* A run is the run of its first slots and that of the others.
LEMMA RunSplits ==
  ASSUME NEW b \in [Slots -> Items], NEW x \in Slots, NEW n \in Nat, NEW k \in Nat, n + k <= size, n < size
  PROVE  Run(b, x, n + k) = Run(b, x, n) \o Run(b, Wrap(x + n), k)
<1> DEFINE r == Run(b, x, n)
           y == Wrap(x + n)
           s == Run(b, y, k)
<1>1. size \in Nat /\ size > 1 /\ x \in 0..size-1
  BY CircBufAssumption DEF Slots
<1>2. PICK m \in Nat : m = n + k  OBVIOUS
<1>3. /\ Run(b, x, m) \in Seq(Items) /\ Len(Run(b, x, m)) = m
      /\ \A i \in 1..m : Run(b, x, m)[i] = b[Wrap(x + (i - 1))]
  BY <1>2, RunFacts
<1>4. /\ r \in Seq(Items) /\ Len(r) = n /\ \A i \in 1..n : r[i] = b[Wrap(x + (i - 1))]
  <2>1. n <= size  BY <1>1
  <2> QED  BY <2>1, RunFacts
<1>5. y \in Slots  BY <1>1 DEF Wrap, Slots
<1>6. /\ s \in Seq(Items) /\ Len(s) = k /\ \A i \in 1..k : s[i] = b[Wrap(y + (i - 1))]
  <2>1. k <= size  BY <1>1
  <2> HIDE DEF y
  <2> QED  BY <1>5, <2>1, RunFacts
<1>7. \A i \in 1..k : Wrap(y + (i - 1)) = Wrap(x + (n + i - 1))
  BY <1>1 DEF Wrap
<1> HIDE DEF r, s, y
<1>8. /\ r \o s \in Seq(Items) /\ Len(r \o s) = Len(r) + Len(s)
      /\ \A i \in 1..(Len(r) + Len(s)) : (r \o s)[i] = IF i <= Len(r) THEN r[i] ELSE s[i - Len(r)]
  BY <1>4, <1>6, ConcatProperties
<1>9. ASSUME NEW i \in 1..m PROVE Run(b, x, m)[i] = (r \o s)[i]
  <2>1. CASE i <= n
    <3>1. i \in 1..n /\ i \in 1..(Len(r) + Len(s))  BY <2>1, <1>2, <1>4, <1>6
    <3>2. (r \o s)[i] = r[i]  BY <2>1, <3>1, <1>4, <1>8
    <3> QED  BY <3>1, <3>2, <1>3, <1>4
  <2>2. CASE ~(i <= n)
    <3>1. PICK j \in 1..k : j = i - n /\ i - 1 = n + j - 1  BY <2>2, <1>2
    <3>2. (r \o s)[i] = s[j]  BY <2>2, <3>1, <1>2, <1>4, <1>6, <1>8
    <3>3. s[j] = b[Wrap(y + (j - 1))] /\ Wrap(y + (j - 1)) = Wrap(x + (n + j - 1))
      BY <3>1, <1>6, <1>7
    <3> QED  BY <3>1, <3>2, <3>3, <1>3
  <2> QED  BY <2>1, <2>2
<1>10. Run(b, x, m) = r \o s  BY <1>2, <1>3, <1>4, <1>6, <1>8, <1>9, SeqEqual
<1> QED  BY <1>2, <1>10 DEF r, s, y

\* What the refinement mapping calls the queue and what was taken.
Queue == [i \in 1..CIRC_CNT(head, tail) |-> buf[(tail + i - 1) % size]]
BufTaken == IF consumer.busy THEN <<>> ELSE got

LEMMA QueueHeld ==
  ASSUME NEW b \in [Slots -> Items], NEW h \in Slots, NEW t \in Slots
  PROVE  /\ CIRC_CNT(h, t) \in Nat /\ CIRC_CNT(h, t) < size
         /\ [i \in 1..CIRC_CNT(h, t) |-> b[(t + i - 1) % size]] = Held(b, h, t)
<1>1. size \in Nat /\ size > 1 /\ h \in 0..size-1 /\ t \in 0..size-1
  BY CircBufAssumption DEF Slots
<1>2. PICK n : n = CIRC_CNT(h, t) /\ n = IF h >= t THEN h - t ELSE h - t + size
  BY BufCounts
<1>3. n \in Nat /\ n < size  BY <1>1, <1>2
<1>4. n <= size  BY <1>1, <1>3
<1>5. \A i \in 1..n : (t + i - 1) % size = Wrap(t + (i - 1))
  BY <1>3, <1>4, RunFacts
<1>6. [i \in 1..n |-> b[(t + i - 1) % size]] = Run(b, t, n)
  BY <1>5 DEF Run
<1> QED  BY <1>2, <1>3, <1>6 DEF Held

LEMMA InitQueue == BufInit => Promise!Init
<1> SUFFICES ASSUME BufInit PROVE Promise!Init  OBVIOUS
<1>1. BufInv /\ head = 0 /\ tail = 0 /\ got = <<>>  BY InitIInv DEF BufInit
<1>2. CIRC_CNT(head, tail) = 0
  <2>1. PICK h \in Slots : h = head /\ h = 0  BY <1>1 DEF BufInv
  <2>2. CIRC_CNT(h, h) = IF h >= h THEN h - h ELSE h - h + size  BY BufCounts
  <2> QED  BY <1>1, <2>1, <2>2
<1>3. Queue = <<>> /\ BufTaken = <<>>  BY <1>1, <1>2 DEF Queue, BufTaken
<1> QED  BY <1>3 DEF Promise!Init, Queue, BufTaken

\* Storing to head puts what was written at the end of the queue.
LEMMA StoresPut ==
  ASSUME BufInv, ProducerStores
  PROVE  Promise!Put
<1> DEFINE n == CIRC_CNT(head, tail)
           k == producer.done
           chunk == Run(buf, Wrap(tail + n), k)
<1>1. k >= 1 /\ head' = (head + k) % size /\ UNCHANGED <<buf, tail, consumer, got>>
  BY DEF ProducerStores
<1>2. /\ k <= CIRC_SPACE(head, tail) /\ k \in Nat /\ n \in Nat
      /\ k \in 1..(size - 1 - n) /\ n < size /\ n + k <= size /\ k <= size
  <2>1. PICK a \in Int : a = n /\ a \in 0..size-1 /\ k \in 0..size-1 /\ k <= size - 1 - a /\ CIRC_SPACE(head, tail) = size - 1 - a
    BY Numbers, Bounds
  <2>2. size \in Nat /\ size > 1  BY Numbers
  <2> QED  BY <1>1, <2>1, <2>2
<1>3. head \in Slots /\ tail \in Slots /\ buf \in [Slots -> Items]  BY Numbers DEF BufInv
<1>4. head' \in Slots /\ CIRC_CNT(head', tail) = n + k
  <2>1. (head + k) % size = Wrap(head + k) /\ Wrap(head + k) \in Slots /\ CIRC_CNT(Wrap(head + k), tail) = n + k
    BY <1>2, <1>3, StoredHead
  <2> QED  BY <1>1, <2>1
<1>5. Queue = Run(buf, tail, n)  BY <1>3, QueueHeld DEF Queue, Held
<1>6. Queue' = Run(buf, tail, n + k)
  <2>1. PICK g \in Slots : g = head'  BY <1>4
  <2>2. Queue' = [i \in 1..CIRC_CNT(g, tail) |-> buf[(tail + i - 1) % size]]
    BY <1>1, <2>1 DEF Queue, CIRC_CNT
  <2>3. Queue' = Held(buf, g, tail)  BY <2>2, <1>3, QueueHeld
  <2> QED  BY <2>1, <2>3, <1>4 DEF Held
<1>7. Queue' = Queue \o chunk  BY <1>2, <1>3, <1>5, <1>6, RunSplits
<1>8. Wrap(tail + n) \in Slots  BY <1>2, <1>3, StoredTail
<1>9. chunk \in [1..k -> Items]  BY <1>2, <1>3, <1>8, RunFacts
<1>10. Len(Queue) = n  BY <1>2, <1>3, <1>5, Numbers, RunFacts
<1> HIDE DEF chunk
<1>11. chunk \in Promise!Chunks((size - 1) - Len(Queue))
  BY <1>2, <1>9, <1>10 DEF Promise!Chunks
<1>12. BufTaken' = BufTaken  BY <1>1 DEF BufTaken
<1> QED  BY <1>7, <1>11, <1>12 DEF Promise!Put, Queue, BufTaken

\* Storing to tail takes from the front of the queue what the consumer copied.
LEMMA StoresTake ==
  ASSUME BufInv, ConsumerStores
  PROVE  Promise!Take
<1> DEFINE n == CIRC_CNT(head, tail)
           k == consumer.done
           rest == Run(buf, Wrap(tail + k), n - k)
<1>1. /\ k >= 1 /\ tail' = (tail + k) % size /\ UNCHANGED <<buf, head, got>>
      /\ consumer' = Idle(consumer.wrap)
  BY DEF ConsumerStores
<1>2. /\ k \in Nat /\ n \in Nat /\ n - k \in Nat /\ k <= n /\ k \in 1..n
      /\ n < size /\ n <= size /\ k <= size /\ k < size /\ n - k <= size /\ k + (n - k) = n
  <2>1. PICK a \in Int : a = n /\ a \in 0..size-1 /\ k \in 0..size-1 /\ k <= a
    BY Numbers, Bounds
  <2>2. size \in Nat /\ size > 1  BY Numbers
  <2> QED  BY <1>1, <2>1, <2>2
<1>3. head \in Slots /\ tail \in Slots /\ buf \in [Slots -> Items]  BY Numbers DEF BufInv
<1>4. /\ (tail + k) % size = Wrap(tail + k) /\ Wrap(tail + k) \in Slots
      /\ CIRC_CNT(head, Wrap(tail + k)) = n - k
  BY <1>2, <1>3, StoredTail
<1>5. Queue = Run(buf, tail, n)  BY <1>3, QueueHeld DEF Queue, Held
<1>6. Queue' = rest
  <2>1. PICK g \in Slots : g = tail' /\ g = Wrap(tail + k)  BY <1>1, <1>4
  <2>2. Queue' = [i \in 1..CIRC_CNT(head, g) |-> buf[(g + i - 1) % size]]
    BY <1>1, <2>1 DEF Queue, CIRC_CNT
  <2>3. Queue' = Held(buf, head, g)  BY <2>2, <1>3, QueueHeld
  <2> QED  BY <2>1, <2>3, <1>4 DEF Held
<1>7. PICK j \in Nat : j = n - k  BY <1>2
<1>8. Queue = Run(buf, tail, k) \o rest
  <2>1. k + j <= size /\ k + j = n  BY <1>2, <1>7
  <2>2. Run(buf, tail, k + j) = Run(buf, tail, k) \o Run(buf, Wrap(tail + k), j)
    BY <1>2, <1>3, <2>1, RunSplits
  <2> QED  BY <1>5, <1>7, <2>1, <2>2
<1>9. /\ Run(buf, tail, k) \in Seq(Items) /\ Len(Run(buf, tail, k)) = k
      /\ \A i \in 1..k : Run(buf, tail, k)[i] = buf[Wrap(tail + (i - 1))]
  <2>1. k \in Nat /\ k <= size  BY <1>2
  <2> QED  BY <2>1, <1>3, RunFacts
<1>10. rest \in Seq(Items) /\ Len(rest) = j
  <2>1. j <= size  BY <1>2, <1>7
  <2>2. Run(buf, Wrap(tail + k), j) \in Seq(Items) /\ Len(Run(buf, Wrap(tail + k), j)) = j
    BY <1>3, <1>4, <2>1, RunFacts
  <2> QED  BY <1>7, <2>2
<1> HIDE DEF rest
<1>11. consumer.busy
  BY <1>1, Bounds
<1>12. got = Run(buf, tail, k)
  <2>1. got \in Seq(Items) /\ Len(got) = k /\ \A i \in 1..k : got[i] = buf[Wrap(tail + (i - 1))]
    BY <1>11 DEF BufInv, CopiedOK
  <2> QED  BY <1>9, <2>1, SeqEqual
<1>13. /\ SubSeq(Queue, 1, k) = got
       /\ SubSeq(Queue, k + 1, Len(Queue)) = rest
       /\ Len(Queue) = n
  <2>1. SubSeq(Queue, 1, Len(Run(buf, tail, k))) = Run(buf, tail, k)
    BY <1>8, <1>9, <1>10, SubSeqOfConcat1
  <2>2. SubSeq(Queue, Len(Run(buf, tail, k)) + 1, Len(Run(buf, tail, k)) + Len(rest)) = rest
    BY <1>8, <1>9, <1>10, SubSeqOfConcat2, SMTT(30)
  <2>3. Len(Queue) = n  BY <1>2, <1>3, <1>5, RunFacts
  <2> QED  BY <1>2, <1>7, <1>9, <1>10, <1>12, <2>1, <2>2, <2>3
<1>14. ~consumer'.busy  BY <1>1 DEF Idle
<1>15. BufTaken = <<>> /\ BufTaken' = got  BY <1>1, <1>11, <1>14 DEF BufTaken
<1> QED  BY <1>2, <1>6, <1>13, <1>15 DEF Promise!Take, Queue, BufTaken

\* A slot the producer copies to is not in the queue; a look, or another copy, is
\* not seen at all, but that the consumer has done with what it took before.
LEMMA OthersStutter ==
  ASSUME BufInv
  PROVE  /\ ProducerLooks => UNCHANGED <<Queue, BufTaken>>
         /\ \A item \in Items : ProducerCopies(item) => UNCHANGED <<Queue, BufTaken>>
         /\ ConsumerCopies => UNCHANGED <<Queue, BufTaken>>
         /\ ConsumerLooks => Promise!Use
<1>1. ProducerLooks => UNCHANGED <<Queue, BufTaken>>
  BY DEF ProducerLooks, Queue, BufTaken, CIRC_CNT
<1>2. ASSUME NEW item \in Items, ProducerCopies(item) PROVE UNCHANGED <<Queue, BufTaken>>
  <2>1. UNCHANGED <<head, tail, consumer, got>>  BY <1>2 DEF ProducerCopies
  <2>2. BufInv'  BY <1>2, ProducerCopiesKeeps
  <2>3. buf \in [Slots -> Items] /\ buf' \in [Slots -> Items] /\ head \in Slots /\ tail \in Slots
    BY <2>2 DEF BufInv
  <2>4. Queue = Run(buf, tail, CIRC_CNT(head, tail))  BY <2>3, QueueHeld DEF Queue, Held
  <2>5. Queue' = Run(buf', tail, CIRC_CNT(head, tail))
    <3>1. Queue' = [i \in 1..CIRC_CNT(head, tail) |-> buf'[(tail + i - 1) % size]]
      BY <2>1 DEF Queue, CIRC_CNT
    <3> QED  BY <3>1, <2>3, QueueHeld DEF Held
  <2>6. ASSUME NEW i \in 1..CIRC_CNT(head, tail)
        PROVE  buf'[Wrap(tail + (i - 1))] = buf[Wrap(tail + (i - 1))]
    <3>1. PICK j \in 0..CIRC_CNT(head, tail)-1 : j = i - 1  BY Numbers
    <3> QED  BY <1>2, <3>1, CopyKeepsTheFull
  <2>7. Queue' = Queue  BY <2>4, <2>5, <2>6 DEF Run
  <2> QED  BY <2>1, <2>7 DEF BufTaken
<1>3. ASSUME ConsumerCopies PROVE UNCHANGED <<Queue, BufTaken>>
  <2>1. consumer.busy  BY <1>3, Copies DEF ConsumerCopies
  <2>2. UNCHANGED <<buf, head, tail>> /\ consumer' = [consumer EXCEPT !.done = @ + 1]
    BY <1>3 DEF ConsumerCopies
  <2>3. consumer'.busy  BY <2>1, <2>2 DEF BufInv, Sides
  <2>4. Queue' = Queue  BY <2>2 DEF Queue, CIRC_CNT
  <2> QED  BY <2>1, <2>3, <2>4 DEF BufTaken
<1>4. ASSUME ConsumerLooks PROVE Promise!Use
  <2>1. UNCHANGED <<buf, head, tail>> /\ consumer'.busy
    BY <1>4 DEF ConsumerLooks, BufInv, Sides
  <2>2. Queue' = Queue  BY <2>1 DEF Queue, CIRC_CNT
  <2>3. BufTaken' = <<>>  BY <2>1 DEF BufTaken
  <2> QED  BY <2>2, <2>3 DEF Promise!Use, Queue, BufTaken
<1> QED  BY <1>1, <1>2, <1>3, <1>4

LEMMA NextQueue == BufInv /\ [BufNext]_bufVars => [Promise!Next]_(Promise!vars)
<1> SUFFICES ASSUME BufInv, [BufNext]_bufVars PROVE Promise!Next \/ UNCHANGED Promise!vars  OBVIOUS
<1>1. UNCHANGED <<Queue, BufTaken>> => UNCHANGED Promise!vars  BY DEF Promise!vars, Queue, BufTaken
<1>2. CASE Producer
  BY <1>1, <1>2, OthersStutter, StoresPut DEF Producer, Promise!Next
<1>3. CASE Consumer
  BY <1>1, <1>3, OthersStutter, StoresTake DEF Consumer, Promise!Next
<1>4. CASE UNCHANGED bufVars
  BY <1>1, <1>4 DEF bufVars, Queue, BufTaken, CIRC_CNT
<1> QED  BY <1>2, <1>3, <1>4 DEF BufNext

\* Between its two threads the buffer is a queue of size - 1 items: what the
\* consumer takes is what the producer put, in order, and each item once.
THEOREM CircBufIsAQueue == BufSpec => KeepsThePromise
BY InitQueue, NextQueue, CircBufInvariant, PTL DEF BufSpec, KeepsThePromise, Promise!Spec
=============================================================================
