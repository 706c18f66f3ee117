------------------------------ MODULE RingProofs ------------------------------
(***************************************************************************)
(* What the proofs about every user of include/list.h need: facts on the   *)
(* sequences that stand for lists, what adding and deleting an entry does  *)
(* to a ring, in any set of cells, and that a loop visits a ring's entries.*)
(***************************************************************************)
EXTENDS Rings, ListHead, HlistHead, SequencesExt, SequenceTheorems, FiniteSetTheorems, TLAPS

-----------------------------------------------------------------------------
(* What the helpers on sequences return, entry by entry.                   *)

\* A piece of a sequence: its length and its entries (SubSeq).
LEMMA PieceFacts ==
  ASSUME NEW S, NEW q \in Seq(S), NEW a \in 1..(Len(q)+1), NEW b \in (a-1)..Len(q)
  PROVE  /\ SubSeq(q, a, b) \in Seq(S)
         /\ Len(SubSeq(q, a, b)) = b-a+1
         /\ \A k \in 1..(b-a+1) : SubSeq(q, a, b)[k] = q[a+k-1]
<1>1. Len(q) \in Nat /\ \A k \in 1..Len(q) : q[k] \in S
  BY ElementOfSeq, LenProperties
<1>2. \A k \in a..b : q[k] \in S
  BY <1>1
<1>3. a \in Int /\ b \in Int /\ Len(q) \in Int
  BY <1>1
<1> QED  BY <1>2, <1>3, SubSeqProperties

\* Cutting a sequence in two loses nothing.
LEMMA TwoPieces ==
  ASSUME NEW S, NEW q \in Seq(S), NEW j \in 1..(Len(q)+1)
  PROVE  SubSeq(q, 1, j-1) \o SubSeq(q, j, Len(q)) = q
<1> DEFINE x == SubSeq(q, 1, j-1)
           y == SubSeq(q, j, Len(q))
<1>1. Len(q) \in Nat /\ j \in Int  BY LenProperties
<1>2. /\ x \in Seq(S) /\ Len(x) = j-1 /\ \A i \in 1..(j-1) : x[i] = q[i]
  <2>1. 1 \in 1..(Len(q)+1) /\ j-1 \in (1-1)..Len(q) /\ j-1-1+1 = j-1
    BY <1>1
  <2>2. \A i \in 1..(j-1) : 1+i-1 = i  BY <1>1
  <2> QED  BY <2>1, <2>2, PieceFacts
<1>3. /\ y \in Seq(S) /\ Len(y) = Len(q)-j+1 /\ \A i \in 1..(Len(q)-j+1) : y[i] = q[j+i-1]
  BY <1>1, PieceFacts
<1> HIDE DEF x, y
<1>4. /\ x \o y \in Seq(S) /\ Len(x \o y) = Len(x) + Len(y)
      /\ \A i \in 1..(Len(x)+Len(y)) : (x \o y)[i] = IF i <= Len(x) THEN x[i] ELSE y[i - Len(x)]
  BY <1>2, <1>3, ConcatProperties
<1>5. Len(x \o y) = Len(q) /\ \A i \in 1..Len(q) : (x \o y)[i] = q[i]
  <2>1. Len(x) + Len(y) = Len(q)  BY <1>1, <1>2, <1>3
  <2>2. ASSUME NEW i \in 1..Len(q)  PROVE (x \o y)[i] = q[i]
    <3>1. CASE i <= Len(x)  BY <3>1, <1>1, <1>2, <1>4, <2>1
    <3>2. CASE ~(i <= Len(x))
      <4>1. i - Len(x) \in 1..(Len(q)-j+1) /\ j+(i - Len(x))-1 = i
        BY <3>2, <1>1, <1>2
      <4> QED  BY <3>2, <4>1, <1>3, <1>4, <2>1
    <3> QED  BY <3>1, <3>2
  <2> QED  BY <2>1, <2>2, <1>4
<1>6. x \o y = q
  BY <1>4, <1>5, SeqEqual
<1> QED  BY <1>6 DEF x, y

\* A sequence with one entry inserted, as list_add leaves a list.
LEMMA InsertAtFacts ==
  ASSUME NEW S, NEW q \in Seq(S), NEW i \in 1..(Len(q)+1), NEW e \in S
  PROVE  LET r == InsertAt(q, i, e)
         IN  /\ r \in Seq(S)
             /\ Len(r) = Len(q) + 1
             /\ \A k \in 1..Len(r) : r[k] = IF k < i THEN q[k] ELSE IF k = i THEN e ELSE q[k-1]
<1> DEFINE a == SubSeq(q, 1, i-1)
           b == SubSeq(q, i, Len(q))
           c == a \o <<e>>
<1>1. Len(q) \in Nat
  BY LenProperties
<1>2. a \in Seq(S) /\ Len(a) = i-1 /\ \A k \in 1..(i-1) : a[k] = q[k]
  BY <1>1, PieceFacts
<1>3. b \in Seq(S) /\ Len(b) = Len(q)-i+1 /\ \A k \in 1..(Len(q)-i+1) : b[k] = q[i+k-1]
  BY <1>1, PieceFacts
<1>4. <<e>> \in Seq(S) /\ Len(<<e>>) = 1 /\ <<e>>[1] = e
  OBVIOUS
<1>5. InsertAt(q, i, e) = c \o b
  BY DEF InsertAt
<1> HIDE DEF a, b
<1>6. /\ c \in Seq(S)
      /\ Len(c) = Len(a) + Len(<<e>>)
      /\ \A k \in 1..(Len(a) + Len(<<e>>)) : c[k] = IF k <= Len(a) THEN a[k] ELSE <<e>>[k - Len(a)]
  BY <1>2, <1>4, ConcatProperties
<1> HIDE DEF c
<1>7. c \in Seq(S) /\ Len(c) = i /\ \A k \in 1..i : c[k] = IF k < i THEN q[k] ELSE e
  BY <1>1, <1>2, <1>4, <1>6
<1>8. /\ c \o b \in Seq(S)
      /\ Len(c \o b) = Len(c) + Len(b)
      /\ \A k \in 1..(Len(c) + Len(b)) : (c \o b)[k] = IF k <= Len(c) THEN c[k] ELSE b[k - Len(c)]
  BY <1>3, <1>7, ConcatProperties
<1> QED  BY <1>1, <1>3, <1>5, <1>7, <1>8

\* A sequence with one entry removed, as list_del leaves a list.
LEMMA RemoveAtFacts ==
  ASSUME NEW S, NEW q \in Seq(S), NEW i \in 1..Len(q)
  PROVE  LET r == RemoveAt(q, i)
         IN  /\ r \in Seq(S)
             /\ Len(r) = Len(q) - 1
             /\ \A k \in 1..Len(r) : r[k] = IF k < i THEN q[k] ELSE q[k+1]
<1> DEFINE a == SubSeq(q, 1, i-1)
           b == SubSeq(q, i+1, Len(q))
<1>1. Len(q) \in Nat
  BY LenProperties
<1>2. a \in Seq(S) /\ Len(a) = i-1 /\ \A k \in 1..(i-1) : a[k] = q[k]
  BY <1>1, PieceFacts
<1>3. b \in Seq(S) /\ Len(b) = Len(q)-i /\ \A k \in 1..(Len(q)-i) : b[k] = q[i+k]
  BY <1>1, PieceFacts
<1>4. RemoveAt(q, i) = a \o b
  BY DEF RemoveAt
<1> HIDE DEF a, b
<1>5. /\ a \o b \in Seq(S)
      /\ Len(a \o b) = Len(a) + Len(b)
      /\ \A k \in 1..(Len(a) + Len(b)) : (a \o b)[k] = IF k <= Len(a) THEN a[k] ELSE b[k - Len(a)]
  BY <1>2, <1>3, ConcatProperties
<1>6. ASSUME NEW k \in 1..(Len(q)-1)
      PROVE  (a \o b)[k] = IF k < i THEN q[k] ELSE q[k+1]
  <2>1. CASE k < i   BY <2>1, <1>1, <1>2, <1>3, <1>5
  <2>2. CASE ~(k < i)
    <3>1. k - Len(a) \in 1..(Len(q)-i) /\ i + (k - Len(a)) = k+1 /\ ~(k <= Len(a))
      BY <2>2, <1>1, <1>2
    <3>2. k \in 1..(Len(a)+Len(b))  BY <1>1, <1>2, <1>3
    <3>3. (a \o b)[k] = b[k - Len(a)]  BY <3>1, <3>2, <1>5
    <3> QED  BY <2>2, <3>1, <3>3, <1>3
  <2> QED  BY <2>1, <2>2
<1>7. a \o b \in Seq(S) /\ Len(a \o b) = Len(q)-1
  BY <1>1, <1>2, <1>3, <1>5
<1> HIDE DEF a, b
<1> QED  BY <1>4, <1>6, <1>7

-----------------------------------------------------------------------------
(* One ring.                                                               *)

\* The entries q of the head h are cells of A, none of them is h and none is
\* there twice.
Circle(A, h, q) ==
  /\ h \in A
  /\ q \in Seq(A)
  /\ \A i \in 1..Len(q) : q[i] # h
  /\ \A i, j \in 1..Len(q) : q[i] = q[j] => i = j

\* At gives the cells of a ring: the head outside 1..Len(q), no cell twice.
LEMMA CircleCells ==
  ASSUME NEW A, NEW h, NEW q, Circle(A, h, q)
  PROVE  /\ Len(q) \in Nat
         /\ \A i \in 1..Len(q) : At(h, q, i) = q[i] /\ q[i] \in A /\ q[i] # h
         /\ At(h, q, 0) = h /\ At(h, q, Len(q)+1) = h
         /\ \A i : At(h, q, i) \in A
         /\ \A i, j \in 0..Len(q) : At(h, q, i) = At(h, q, j) => i = j
         /\ \A i, j \in 1..(Len(q)+1) : At(h, q, i) = At(h, q, j) => i = j
<1>1. Len(q) \in Nat /\ \A i \in 1..Len(q) : q[i] \in A
  BY LenProperties, ElementOfSeq DEF Circle
<1> QED  BY <1>1 DEF Circle, At

\* __list_add between two neighbours of a ring gives the ring with the node
\* inserted there, even when both neighbours are the head (list.h:70-78).
LEMMA CircleAdd ==
  ASSUME NEW A, NEW h, NEW q, Circle(A, h, q), NEW m \in Memory(A), Ring(m, h, q),
         NEW n \in A \ {h}, \A k \in 1..Len(q) : q[k] # n, NEW i \in 1..(Len(q)+1)
  PROVE  LET r == __list_add(m, n, At(h, q, i-1), At(h, q, i))
             s == InsertAt(q, i, n)
         IN  Circle(A, h, s) /\ Ring(r, h, s)
<1> DEFINE p == At(h, q, i-1)
           t == At(h, q, i)
           r == __list_add(m, n, p, t)
           s == InsertAt(q, i, n)
<1>1. /\ s \in Seq(A) /\ Len(s) = Len(q) + 1 /\ Len(q) \in Nat
      /\ \A k \in 1..Len(s) : s[k] = IF k < i THEN q[k] ELSE IF k = i THEN n ELSE q[k-1]
  BY InsertAtFacts, LenProperties DEF Circle
<1>2. p \in A /\ t \in A /\ n \in A /\ n # h
  BY CircleCells
<1>3. /\ r.next = [[m.next EXCEPT ![n] = t] EXCEPT ![p] = n]
      /\ r.prev = [[m.prev EXCEPT ![t] = n] EXCEPT ![n] = p]
      /\ DOMAIN m.next = A /\ DOMAIN m.prev = A
  BY <1>2 DEF Memory, SetNext, SetPrev, __list_add
<1>4. \A k \in 0..(Len(q)+2) :
        At(h, s, k) = IF k < i THEN At(h, q, k) ELSE IF k = i THEN n ELSE At(h, q, k-1)
  BY <1>1 DEF At
<1>5. \A k : At(h, q, k) # n
  BY <1>1, <1>2 DEF At
<1> HIDE DEF p, t, r, s
<1>6. Circle(A, h, s)
  <2>1. h \in A /\ \A k \in 1..Len(q) : q[k] # h  BY DEF Circle
  <2>2. ASSUME NEW k \in 1..Len(s) PROVE s[k] # h
    <3>1. CASE k < i  BY <1>1, <2>1, <3>1
    <3>2. CASE k = i  BY <1>1, <1>2, <3>2
    <3>3. CASE i < k
      <4>1. k-1 \in 1..Len(q)  BY <1>1, <3>3
      <4> QED  BY <1>1, <2>1, <3>3, <4>1
    <3> QED  BY <1>1, <3>1, <3>2, <3>3
  <2> SUFFICES ASSUME NEW j \in 1..Len(s), NEW k \in 1..Len(s), s[j] = s[k]
               PROVE  j = k
    BY <1>1, <2>1, <2>2 DEF Circle
  <2>3. CASE j = i \/ k = i  BY <2>3, <1>1
  <2>4. CASE j # i /\ k # i
    <3> DEFINE d(x) == IF x < i THEN x ELSE x-1
    <3>1. d(j) \in 1..Len(q) /\ d(k) \in 1..Len(q) /\ s[j] = q[d(j)] /\ s[k] = q[d(k)]
      BY <2>4, <1>1
    <3>2. d(j) = d(k)  BY <3>1 DEF Circle
    <3> QED  BY <2>4, <3>2, <1>1
  <2> QED  BY <2>3, <2>4
<1>7. ASSUME NEW k \in 0..Len(s)
      PROVE  r.next[At(h, s, k)] = At(h, s, k+1) /\ r.prev[At(h, s, k+1)] = At(h, s, k)
  <2>1. CASE k < i-1
    <3>1. /\ k \in 0..Len(q) /\ i-1 \in 0..Len(q) /\ k # i-1
          /\ k+1 \in 1..(Len(q)+1) /\ i \in 1..(Len(q)+1) /\ k+1 # i
      BY <2>1, <1>1
    <3>2. At(h, s, k) = At(h, q, k) /\ At(h, s, k+1) = At(h, q, k+1)
      BY <2>1, <1>1, <1>4
    <3>3. m.next[At(h, q, k)] = At(h, q, k+1) /\ m.prev[At(h, q, k+1)] = At(h, q, k)
      BY <3>1 DEF Ring
    <3>4. At(h, q, k) # p /\ At(h, q, k+1) # t
      BY <3>1, CircleCells DEF p, t
    <3>5. At(h, q, k) \in A /\ At(h, q, k+1) \in A
      BY CircleCells
    <3> QED  BY <3>2, <3>3, <3>4, <3>5, <1>2, <1>3, <1>5
  <2>2. CASE k = i-1
    <3>1. At(h, s, k) = p /\ At(h, s, k+1) = n  BY <2>2, <1>1, <1>4 DEF p
    <3> QED  BY <3>1, <1>2, <1>3
  <2>3. CASE k = i
    <3>1. At(h, s, k) = n /\ At(h, s, k+1) = t  BY <2>3, <1>1, <1>4 DEF t
    <3>2. n # p /\ n # t  BY <1>5 DEF p, t
    <3> QED  BY <3>1, <3>2, <1>2, <1>3
  <2>4. CASE k > i
    <3>1. /\ k-1 \in 0..Len(q) /\ i-1 \in 0..Len(q) /\ k-1 # i-1 /\ k-1+1 = k
          /\ k \in 1..(Len(q)+1) /\ i \in 1..(Len(q)+1) /\ k # i
      BY <2>4, <1>1
    <3>2. At(h, s, k) = At(h, q, k-1) /\ At(h, s, k+1) = At(h, q, k)
      BY <2>4, <1>1, <1>4
    <3>3. m.next[At(h, q, k-1)] = At(h, q, k) /\ m.prev[At(h, q, k)] = At(h, q, k-1)
      BY <3>1 DEF Ring
    <3>4. At(h, q, k-1) # p /\ At(h, q, k) # t
      BY <3>1, CircleCells DEF p, t
    <3>5. At(h, q, k-1) \in A /\ At(h, q, k) \in A
      BY CircleCells
    <3> QED  BY <3>2, <3>3, <3>4, <3>5, <1>2, <1>3, <1>5
  <2> QED  BY <2>1, <2>2, <2>3, <2>4, <1>1
<1>8. Ring(r, h, s)
  BY <1>7 DEF Ring
<1> QED  BY <1>6, <1>8 DEF r, s, p, t

\* __list_del_entry of an entry gives the ring without it (list.h:134-137).
LEMMA CircleDel ==
  ASSUME NEW A, NEW h, NEW q, Circle(A, h, q), NEW m \in Memory(A), Ring(m, h, q),
         NEW i \in 1..Len(q)
  PROVE  LET r == __list_del_entry(m, q[i])
             s == RemoveAt(q, i)
         IN  /\ Circle(A, h, s) /\ Ring(r, h, s)
             /\ r = __list_del(m, At(h, q, i-1), At(h, q, i+1))
<1> DEFINE p == At(h, q, i-1)
           t == At(h, q, i+1)
           r == __list_del(m, p, t)
           s == RemoveAt(q, i)
<1>1. /\ s \in Seq(A) /\ Len(s) = Len(q) - 1 /\ Len(q) \in Nat
      /\ \A k \in 1..Len(s) : s[k] = IF k < i THEN q[k] ELSE q[k+1]
  BY RemoveAtFacts, LenProperties DEF Circle
<1>2. p \in A /\ t \in A
  BY CircleCells
<1>3. /\ r.next = [m.next EXCEPT ![p] = t]
      /\ r.prev = [m.prev EXCEPT ![t] = p]
      /\ DOMAIN m.next = A /\ DOMAIN m.prev = A
  BY <1>2 DEF Memory, SetNext, SetPrev, __list_del
<1>4. \A k \in 0..Len(q) : At(h, s, k) = IF k < i THEN At(h, q, k) ELSE At(h, q, k+1)
  BY <1>1 DEF At
<1>5. m.prev[q[i]] = p /\ m.next[q[i]] = t
  <2>1. i-1 \in 0..Len(q) /\ i \in 0..Len(q) /\ i-1+1 = i  BY <1>1
  <2>2. At(h, q, i) = q[i]  BY DEF At
  <2>3. m.prev[At(h, q, i)] = p /\ m.next[At(h, q, i)] = t  BY <2>1 DEF Ring
  <2> QED  BY <2>2, <2>3
<1> HIDE DEF p, t, r, s
<1>6. Circle(A, h, s)
  <2> SUFFICES ASSUME NEW j \in 1..Len(s), NEW k \in 1..Len(s), s[j] = s[k]
               PROVE  j = k
    BY <1>1 DEF Circle
  <2> DEFINE d(x) == IF x < i THEN x ELSE x+1
  <2>1. d(j) \in 1..Len(q) /\ d(k) \in 1..Len(q) /\ s[j] = q[d(j)] /\ s[k] = q[d(k)]
    BY <1>1
  <2>2. d(j) = d(k)  BY <2>1 DEF Circle
  <2> QED  BY <2>2, <1>1
<1>7. ASSUME NEW k \in 0..Len(s)
      PROVE  r.next[At(h, s, k)] = At(h, s, k+1) /\ r.prev[At(h, s, k+1)] = At(h, s, k)
  <2>1. CASE k < i-1
    BY <2>1, <1>1, <1>2, <1>3, <1>4, CircleCells, SMTT(20) DEF Ring, p, t
  <2>2. CASE k = i-1
    BY <2>2, <1>1, <1>2, <1>3, <1>4, CircleCells DEF p, t
  <2>3. CASE k >= i
    <3>1. /\ k+1 \in 0..Len(q) /\ i-1 \in 0..Len(q) /\ k+1 # i-1 /\ k+1+1 = k+2
          /\ k+2 \in 1..(Len(q)+1) /\ i+1 \in 1..(Len(q)+1) /\ k+2 # i+1
      BY <2>3, <1>1
    <3>2. At(h, s, k) = At(h, q, k+1) /\ At(h, s, k+1) = At(h, q, k+2)
      BY <2>3, <3>1, <1>1, <1>4
    <3>3. m.next[At(h, q, k+1)] = At(h, q, k+2) /\ m.prev[At(h, q, k+2)] = At(h, q, k+1)
      BY <3>1 DEF Ring
    <3>4. At(h, q, k+1) # p /\ At(h, q, k+2) # t
      BY <3>1, CircleCells DEF p, t
    <3>5. At(h, q, k+1) \in A /\ At(h, q, k+2) \in A
      BY CircleCells
    <3> QED  BY <3>2, <3>3, <3>4, <3>5, <1>2, <1>3
  <2> QED  BY <2>1, <2>2, <2>3, <1>1
<1>8. Ring(r, h, s)
  BY <1>7 DEF Ring
<1>9. r = __list_del_entry(m, q[i])
  BY <1>5 DEF __list_del_entry, r
<1> QED  BY <1>6, <1>8, <1>9 DEF r, s, p, t

-----------------------------------------------------------------------------
(* A ring and the rest of the memory.                                      *)

\* The cells of a ring.
Around(h, q) == {h} \cup {q[i] : i \in 1..Len(q)}

\* The memories m and r have the same pointers in the cell x.
SameCell(m, r, x) == r.next[x] = m.next[x] /\ r.prev[x] = m.prev[x]

\* A ring whose cells are left alone stays what it was.
LEMMA CircleLeftAlone ==
  ASSUME NEW A, NEW h, NEW q, Circle(A, h, q), NEW m, NEW r, Ring(m, h, q),
         \A x \in Around(h, q) : SameCell(m, r, x)
  PROVE  Ring(r, h, q)
<1>1. \A i : At(h, q, i) \in Around(h, q)  BY DEF At, Around
<1>2. ASSUME NEW i \in 0..Len(q)
      PROVE  r.next[At(h, q, i)] = At(h, q, i+1) /\ r.prev[At(h, q, i+1)] = At(h, q, i)
  <2>1. m.next[At(h, q, i)] = At(h, q, i+1) /\ m.prev[At(h, q, i+1)] = At(h, q, i)
    BY DEF Ring
  <2>2. SameCell(m, r, At(h, q, i)) /\ SameCell(m, r, At(h, q, i+1))  BY <1>1
  <2> QED  BY <2>1, <2>2 DEF SameCell
<1> QED  BY <1>2 DEF Ring

\* INIT_LIST_HEAD makes an empty list and writes to nothing but the head
\* (list.h:35-39).
LEMMA CircleInit ==
  ASSUME NEW A, NEW h \in A, NEW m \in Memory(A)
  PROVE  LET r == INIT_LIST_HEAD(m, h)
         IN  /\ r \in Memory(A) /\ Circle(A, h, <<>>) /\ Ring(r, h, <<>>)
             /\ \A x \in A \ {h} : SameCell(m, r, x)
<1> DEFINE r == INIT_LIST_HEAD(m, h)
<1>1. r.next = [m.next EXCEPT ![h] = h] /\ r.prev = [m.prev EXCEPT ![h] = h]
  BY DEF INIT_LIST_HEAD, SetNext, SetPrev
<1>2. r = [next |-> r.next, prev |-> r.prev]
  BY DEF INIT_LIST_HEAD, SetNext, SetPrev
<1> HIDE DEF r
<1>3. r \in Memory(A)  BY <1>1, <1>2 DEF Memory
<1>4. Circle(A, h, <<>>)  BY DEF Circle
<1>5. Ring(r, h, <<>>)  BY <1>1 DEF Ring, At, Memory
<1>6. \A x \in A \ {h} : SameCell(m, r, x)  BY <1>1 DEF SameCell, Memory
<1> QED  BY <1>3, <1>4, <1>5, <1>6 DEF r

\* list_add puts a cell in front and writes to nothing but the list and the cell
\* (list.h:86-89).
LEMMA CircleAddFirst ==
  ASSUME NEW A, NEW h, NEW q, Circle(A, h, q), NEW m \in Memory(A), Ring(m, h, q),
         NEW n \in A \ Around(h, q)
  PROVE  LET r == list_add(m, n, h)
             s == <<n>> \o q
         IN  /\ r \in Memory(A) /\ Circle(A, h, s) /\ Ring(r, h, s)
             /\ Around(h, s) = Around(h, q) \cup {n}
             /\ \A x \in A \ Around(h, s) : SameCell(m, r, x)
<1> DEFINE p == At(h, q, 0)
           t == At(h, q, 1)
           r == __list_add(m, n, p, t)
           s == InsertAt(q, 1, n)
<1>1. /\ Len(q) \in Nat /\ p = h /\ p \in A /\ t \in A /\ p \in Around(h, q) /\ t \in Around(h, q)
      /\ n # h /\ q \in Seq(A)
      /\ \A k \in 1..Len(q) : q[k] # n
  BY CircleCells DEF Circle, Around, At
<1>2. m.next[h] = t
  <2>1. 0 \in 0..Len(q) /\ 0+1 = 1  BY <1>1
  <2> QED  BY <2>1, <1>1 DEF Ring
<1>3. r = list_add(m, n, h)  BY <1>1, <1>2 DEF list_add
<1>4. 1 \in 1..(Len(q)+1) /\ 1-1 = 0  BY <1>1
<1>5. Circle(A, h, s) /\ Ring(r, h, s)
  <2> HIDE DEF r, s, p, t
  <2> QED  BY <1>1, <1>4, CircleAdd DEF r, s, p, t
<1>6. s = <<n>> \o q
  <2>1. SubSeq(q, 1, 0) = <<>> /\ SubSeq(q, 1, Len(q)) = q  BY <1>1
  <2>2. s = SubSeq(q, 1, 1-1) \o <<n>> \o SubSeq(q, 1, Len(q))  BY DEF InsertAt
  <2> QED  BY <2>1, <2>2, <1>1
<1>7. Around(h, s) = Around(h, q) \cup {n}
  <2>1. /\ Len(s) = Len(q)+1
        /\ \A k \in 1..Len(s) : s[k] = IF k < 1 THEN q[k] ELSE IF k = 1 THEN n ELSE q[k-1]
    <3> HIDE DEF s
    <3> QED  BY <1>1, <1>4, InsertAtFacts DEF s
  <2> HIDE DEF s
  <2>2. \A k \in 1..Len(q) : k+1 \in 1..Len(s) /\ s[k+1] = q[k]  BY <2>1, <1>1
  <2>3. 1 \in 1..Len(s) /\ s[1] = n  BY <2>1, <1>1
  <2>4. \A k \in 1..Len(s) : s[k] = n \/ \E j \in 1..Len(q) : s[k] = q[j]
    <3> TAKE k \in 1..Len(s)
    <3>1. k # 1 => k-1 \in 1..Len(q)  BY <2>1, <1>1
    <3> QED  BY <2>1, <3>1
  <2> QED  BY <2>2, <2>3, <2>4 DEF Around
<1>8. /\ r.next = [[m.next EXCEPT ![n] = t] EXCEPT ![p] = n]
      /\ r.prev = [[m.prev EXCEPT ![t] = n] EXCEPT ![n] = p]
      /\ r = [next |-> r.next, prev |-> r.prev]
  BY <1>1 DEF Memory, SetNext, SetPrev, __list_add
<1>9. r \in Memory(A)
  <2> HIDE DEF r, p, t
  <2> QED  BY <1>1, <1>8 DEF Memory
<1>10. \A x \in A \ Around(h, s) : SameCell(m, r, x)
  <2> HIDE DEF r, s, p, t
  <2> QED  BY <1>1, <1>7, <1>8 DEF SameCell, Memory
<1> QED
  <2> HIDE DEF r, s
  <2> QED  BY <1>3, <1>5, <1>6, <1>7, <1>9, <1>10

\* list_del takes the first entry out and writes to nothing but the list
\* (list.h:146-151).
LEMMA CircleDelFirst ==
  ASSUME NEW A, NEW h, NEW q, Circle(A, h, q), NEW m \in Memory(A), Ring(m, h, q), Len(q) # 0
  PROVE  LET r == list_del(m, q[1])
             s == SubSeq(q, 2, Len(q))
         IN  /\ m.next[h] = q[1]
             /\ r \in Memory(A) /\ Circle(A, h, s) /\ Ring(r, h, s)
             /\ Around(h, s) = Around(h, q) \ {q[1]}
             /\ \A x \in A \ Around(h, q) : SameCell(m, r, x)
<1> DEFINE e == q[1]
           p == At(h, q, 0)
           t == At(h, q, 2)
           d == __list_del(m, p, t)
           r == list_del(m, e)
           s == RemoveAt(q, 1)
<1>1. /\ Len(q) \in Nat /\ 1 \in 1..Len(q) /\ 0+1 = 1 /\ 1+1 = 2 /\ 1-1 = 0 /\ 0 \in 0..Len(q)
      /\ p = h /\ p \in A /\ t \in A /\ p \in Around(h, q) /\ t \in Around(h, q)
      /\ e \in A /\ e # h /\ e \in Around(h, q) /\ At(h, q, 1) = e /\ q \in Seq(A)
  BY CircleCells DEF Circle, Around, At
<1>2. m.next[h] = e  BY <1>1 DEF Ring
<1>3. Circle(A, h, s) /\ Ring(d, h, s) /\ d = __list_del_entry(m, e)
  <2> HIDE DEF s, p, t
  <2>1. /\ Circle(A, h, s) /\ Ring(__list_del_entry(m, e), h, s)
        /\ __list_del_entry(m, e) = __list_del(m, At(h, q, 1-1), At(h, q, 1+1))
    BY <1>1, CircleDel DEF s
  <2> QED  BY <2>1, <1>1 DEF p, t
<1>4. s = SubSeq(q, 2, Len(q))
  <2>1. SubSeq(q, 1, 0) = <<>>  BY <1>1
  <2>2. s = SubSeq(q, 1, 1-1) \o SubSeq(q, 1+1, Len(q))  BY DEF RemoveAt
  <2>3. SubSeq(q, 2, Len(q)) \in Seq(A)  BY <1>1, PieceFacts
  <2> QED  BY <2>1, <2>2, <2>3, <1>1
<1>5. Around(h, s) = Around(h, q) \ {e}
  <2>1. /\ Len(s) = Len(q)-1
        /\ \A k \in 1..Len(s) : s[k] = IF k < 1 THEN q[k] ELSE q[k+1]
    <3> HIDE DEF s
    <3> QED  BY <1>1, RemoveAtFacts DEF s
  <2> HIDE DEF s
  <2>2. \A k \in 1..Len(s) : k+1 \in 1..Len(q) /\ s[k] = q[k+1] /\ k+1 # 1  BY <2>1, <1>1
  <2>3. \A k \in 1..Len(q) : k # 1 => \E j \in 1..Len(s) : s[j] = q[k]
    <3> TAKE k \in 1..Len(q)
    <3>1. k # 1 => k-1 \in 1..Len(s) /\ k-1+1 = k  BY <2>1, <1>1
    <3> QED  BY <2>2, <3>1
  <2>4. \A k \in 1..Len(q) : q[k] = e => k = 1  BY <1>1 DEF Circle
  <2>5. \A k \in 1..Len(s) : s[k] \in Around(h, q) \ {e}  BY <2>2, <2>4 DEF Around
  <2>6. \A k \in 1..Len(q) : q[k] # e => q[k] \in Around(h, s)  BY <2>3 DEF Around
  <2>7. h \in Around(h, s) /\ h \in Around(h, q) /\ h # e  BY <1>1 DEF Around
  <2>8. Around(h, s) \subseteq Around(h, q) \ {e}  BY <2>5, <2>7 DEF Around
  <2> HIDE DEF e
  <2>9. Around(h, q) \ {e} \subseteq Around(h, s)  BY <2>6, <2>7 DEF Around
  <2> QED  BY <2>8, <2>9
<1>6. /\ d.next = [m.next EXCEPT ![p] = t]
      /\ d.prev = [m.prev EXCEPT ![t] = p]
      /\ r.next = [d.next EXCEPT ![e] = LIST_POISON1]
      /\ r.prev = [d.prev EXCEPT ![e] = LIST_POISON2]
      /\ r = [next |-> r.next, prev |-> r.prev]
  BY <1>1, <1>3 DEF Memory, SetNext, SetPrev, __list_del, list_del
<1>7. DOMAIN m.next = A /\ DOMAIN m.prev = A /\ DOMAIN d.next = A /\ DOMAIN d.prev = A
  BY <1>6 DEF Memory
<1>8. r \in Memory(A)
  <2> HIDE DEF d, r, p, t
  <2>1. d.next \in [A -> A \cup {NULL, LIST_POISON1}] /\ d.prev \in [A -> A \cup {NULL, LIST_POISON2}]
    BY <1>1, <1>6 DEF Memory
  <2> QED  BY <2>1, <1>6 DEF Memory
<1>9. Ring(r, h, s)
  <2> HIDE DEF d, r, s, p, t
  <2>1. Around(h, s) \subseteq A \ {e}
    <3>1. \A k \in 1..Len(q) : q[k] \in A  BY <1>1, ElementOfSeq
    <3> QED  BY <1>1, <1>5, <3>1 DEF Around
  <2>2. \A x \in Around(h, s) : SameCell(d, r, x)
    BY <2>1, <1>6, <1>7 DEF SameCell
  <2> QED  BY <2>2, <1>3, CircleLeftAlone
<1>10. \A x \in A \ Around(h, q) : SameCell(m, r, x)
  <2> HIDE DEF d, r, s, p, t
  <2> QED  BY <1>1, <1>6, <1>7 DEF SameCell
<1> QED
  <2>1. r = list_del(m, q[1]) /\ e = q[1]  OBVIOUS
  <2> HIDE DEF d, r, s, e
  <2> QED  BY <2>1, <1>2, <1>3, <1>4, <1>5, <1>8, <1>9, <1>10

-----------------------------------------------------------------------------
(* A list whose entries are a set of cells, for a user that asks which     *)
(* cells are on it rather than in what order.                              *)

LEMMA ListIsCircle ==
  ASSUME NEW A, NEW h \in A, NEW S \in SUBSET (A \ {h}), NEW q \in Seq(S)
  PROVE  /\ Len(q) \in Nat /\ DOMAIN q = 1..Len(q)
         /\ IsInjective(q) <=> Circle(A, h, q)
         /\ Around(h, q) = {h} \cup ToSet(q) /\ ToSet(q) \subseteq S
<1>1. Len(q) \in Nat /\ DOMAIN q = 1..Len(q) /\ \A i \in 1..Len(q) : q[i] \in S
  BY LenProperties, ElementOfSeq
<1>2. q \in Seq(A)
  <2>1. q \in [1..Len(q) -> A]  BY <1>1
  <2> QED  BY <1>1, <2>1
<1>3. IsInjective(q) <=> Circle(A, h, q)  BY <1>1, <1>2 DEF IsInjective, Circle
<1>4. Around(h, q) = {h} \cup ToSet(q)  BY <1>1 DEF Around, ToSet
<1>5. ToSet(q) \subseteq S  BY <1>1 DEF ToSet
<1> QED  BY <1>1, <1>3, <1>4, <1>5

LEMMA ListLeftAlone ==
  ASSUME NEW A, NEW h \in A, NEW S \in SUBSET (A \ {h}), NEW q \in Seq(S), IsInjective(q),
         NEW m, NEW r, Ring(m, h, q), \A x \in {h} \cup ToSet(q) : SameCell(m, r, x)
  PROVE  Ring(r, h, q)
<1>1. Circle(A, h, q) /\ Around(h, q) = {h} \cup ToSet(q)  BY ListIsCircle
<1> QED  BY <1>1, CircleLeftAlone

LEMMA AddToList ==
  ASSUME NEW A, NEW h \in A, NEW S \in SUBSET (A \ {h}), NEW q \in Seq(S), IsInjective(q),
         NEW m \in Memory(A), Ring(m, h, q), NEW n \in S \ ToSet(q)
  PROVE  LET r == list_add(m, n, h)
             s == <<n>> \o q
         IN  /\ r \in Memory(A) /\ s \in Seq(S) /\ IsInjective(s) /\ Ring(r, h, s)
             /\ ToSet(s) = ToSet(q) \cup {n} /\ Len(s) = Len(q) + 1
             /\ \A x \in A : x # h /\ x \notin ToSet(q) /\ x # n => SameCell(m, r, x)
<1> DEFINE r == list_add(m, n, h)
           s == <<n>> \o q
<1>1. Circle(A, h, q) /\ Around(h, q) = {h} \cup ToSet(q) /\ ToSet(q) \subseteq S /\ Len(q) \in Nat
  BY ListIsCircle
<1>2. n \in A \ Around(h, q)  BY <1>1
<1>3. /\ r \in Memory(A) /\ Circle(A, h, s) /\ Ring(r, h, s)
      /\ Around(h, s) = Around(h, q) \cup {n}
      /\ \A x \in A \ Around(h, s) : SameCell(m, r, x)
  BY <1>1, <1>2, CircleAddFirst
<1>4. s \in Seq(S) /\ Len(s) = Len(q) + 1
  <2>1. <<n>> \in Seq(S) /\ Len(<<n>>) = 1  OBVIOUS
  <2>2. s \in Seq(S) /\ Len(s) = Len(<<n>>) + Len(q)
    <3> DEFINE one == <<n>>
    <3>1. one \in Seq(S)  BY <2>1
    <3> HIDE DEF one
    <3>2. one \o q \in Seq(S) /\ Len(one \o q) = Len(one) + Len(q)
      BY <3>1, ConcatProperties
    <3> QED  BY <3>2 DEF one
  <2> QED  BY <1>1, <2>1, <2>2
<1> HIDE DEF r, s
<1>5. IsInjective(s) /\ Around(h, s) = {h} \cup ToSet(s) /\ ToSet(s) \subseteq S
  BY <1>3, <1>4, ListIsCircle
<1>6. ToSet(s) = ToSet(q) \cup {n}  BY <1>1, <1>3, <1>5
<1>7. \A x \in A : x # h /\ x \notin ToSet(q) /\ x # n => SameCell(m, r, x)
  BY <1>1, <1>3
<1> QED  BY <1>3, <1>4, <1>5, <1>6, <1>7 DEF r, s

LEMMA TakeFromList ==
  ASSUME NEW A, NEW h \in A, NEW S \in SUBSET (A \ {h}), NEW q \in Seq(S), IsInjective(q),
         NEW m \in Memory(A), Ring(m, h, q), Len(q) # 0
  PROVE  LET e == m.next[h]
             r == list_del(m, e)
             s == SubSeq(q, 2, Len(q))
         IN  /\ e = q[1] /\ e \in ToSet(q)
             /\ r \in Memory(A) /\ s \in Seq(S) /\ IsInjective(s) /\ Ring(r, h, s)
             /\ ToSet(s) = ToSet(q) \ {e} /\ Len(s) = Len(q) - 1
             /\ \A x \in A : x # h /\ x \notin ToSet(q) => SameCell(m, r, x)
<1> DEFINE e == q[1]
           r == list_del(m, e)
           s == SubSeq(q, 2, Len(q))
<1>1. /\ Circle(A, h, q) /\ Around(h, q) = {h} \cup ToSet(q) /\ ToSet(q) \subseteq S
      /\ Len(q) \in Nat /\ DOMAIN q = 1..Len(q)
  BY ListIsCircle
<1>2. /\ m.next[h] = e
      /\ r \in Memory(A) /\ Circle(A, h, s) /\ Ring(r, h, s)
      /\ Around(h, s) = Around(h, q) \ {e}
      /\ \A x \in A \ Around(h, q) : SameCell(m, r, x)
  BY <1>1, CircleDelFirst
<1>3. e \in ToSet(q)  BY <1>1 DEF ToSet
<1>4. s \in Seq(S) /\ Len(s) = Len(q) - 1
  <2>1. 2 \in 1..(Len(q)+1) /\ Len(q) \in (2-1)..Len(q) /\ Len(q)-2+1 = Len(q)-1  BY <1>1
  <2> QED  BY <2>1, PieceFacts
<1> HIDE DEF e, r, s
<1>5. IsInjective(s) /\ Around(h, s) = {h} \cup ToSet(s) /\ ToSet(s) \subseteq S
  BY <1>2, <1>4, ListIsCircle
<1>6. ToSet(s) = ToSet(q) \ {e}  BY <1>1, <1>2, <1>3, <1>5
<1>7. \A x \in A : x # h /\ x \notin ToSet(q) => SameCell(m, r, x)
  BY <1>1, <1>2
<1>8. e = q[1] /\ r = list_del(m, e) /\ s = SubSeq(q, 2, Len(q))  BY DEF e, r, s
<1> QED  BY <1>2, <1>3, <1>4, <1>5, <1>6, <1>7, <1>8

-----------------------------------------------------------------------------
(* Induction.  A set of numbers that is not empty has a least one, so that *)
(* what holds of all numbers may be proved from its least counterexample.  *)

\* The subsets T \cap 0..k are finite, and a proper subset of one of them would
\* be another, smaller without end.
LEMMA Least ==
  ASSUME NEW T \in SUBSET Nat, T # {}
  PROVE  \E k \in T : \A j \in T : k <= j
<1> DEFINE F == {T \cap 0..k : k \in T}
           R == StrictSubsetOrdering(Nat)
<1>1. IsWellFoundedOn(R, FiniteSubsetsOf(Nat))  BY FS_StrictSubsetOrderingWellFounded
<1>2. F \subseteq FiniteSubsetsOf(Nat)
  <2> SUFFICES ASSUME NEW k \in T PROVE T \cap 0..k \in FiniteSubsetsOf(Nat)
    OBVIOUS
  <2>1. IsFiniteSet(0..k)  BY FS_Interval
  <2>2. IsFiniteSet(T \cap 0..k)  BY <2>1, FS_Subset
  <2> QED  BY <2>2 DEF FiniteSubsetsOf
<1>3. F # {}  OBVIOUS
<1>4. \E x \in F : \A y \in F : ~ (<<y, x>> \in R)
  <2> HIDE DEF F, R
  <2> QED  BY <1>1, <1>2, <1>3, WFMin
<1>5. PICK k \in T : \A y \in F : ~ (<<y, T \cap 0..k>> \in R)  BY <1>4
<1>6. ASSUME NEW j \in T, j < k PROVE FALSE
  <2>1. T \cap 0..j \in F  OBVIOUS
  <2>2. T \cap 0..j \subseteq T \cap 0..k  BY <1>6
  <2>3. k \in T \cap 0..k /\ k \notin T \cap 0..j  BY <1>6
  <2>4. <<T \cap 0..j, T \cap 0..k>> \in R  BY <2>2, <2>3 DEF StrictSubsetOrdering
  <2> QED  BY <1>5, <2>1, <2>4
<1> QED  BY <1>6

-----------------------------------------------------------------------------
(* What a loop visits.                                                     *)

\* Where the cursor of a loop is after i steps.
Follows(link, head, fuel, f) ==
  f = [i \in 0..fuel |-> IF i = 0 THEN head ELSE IF f[i-1] \in DOMAIN link THEN link[f[i-1]] ELSE f[i-1]]

\* Only one function does: the first place where two differ would follow from one
\* where they agree.
LEMMA FollowsOnce ==
  ASSUME NEW link, NEW head, NEW fuel \in Nat, NEW f, NEW g,
         Follows(link, head, fuel, f), Follows(link, head, fuel, g)
  PROVE  f = g
<1> DEFINE T == {i \in 0..fuel : f[i] # g[i]}
<1>1. ASSUME T # {} PROVE FALSE
  <2>1. PICK k \in T : \A j \in T : k <= j
    <3>1. T \in SUBSET Nat  OBVIOUS
    <3> HIDE DEF T
    <3> QED  BY <1>1, <3>1, Least
  <2>2. CASE k = 0  BY <2>2 DEF Follows
  <2>3. CASE k # 0
    <3>1. k-1 \in 0..fuel /\ k \in 0..fuel /\ k-1 \notin T  BY <2>1, <2>3
    <3>2. f[k-1] = g[k-1]  BY <3>1
    <3> QED  BY <2>3, <3>1, <3>2 DEF Follows
  <2> QED  BY <2>2, <2>3
<1>2. DOMAIN f = 0..fuel /\ DOMAIN g = 0..fuel  BY DEF Follows
<1> QED  BY <1>1, <1>2 DEF Follows

\* And one does: the least number of steps that none can take would be one more
\* than some function takes.
LEMMA FollowsExists ==
  ASSUME NEW link, NEW head, NEW fuel \in Nat
  PROVE  \E f : Follows(link, head, fuel, f)
<1> DEFINE T == {k \in Nat : ~ \E f : Follows(link, head, k, f)}
<1>1. ASSUME T # {} PROVE FALSE
  <2>1. PICK k \in T : \A j \in T : k <= j
    <3>1. T \in SUBSET Nat  OBVIOUS
    <3> HIDE DEF T
    <3> QED  BY <1>1, <3>1, Least
  <2>2. CASE k = 0
    <3> DEFINE f == [i \in 0..0 |-> head]
    <3>1. Follows(link, head, 0, f)  BY DEF Follows
    <3> HIDE DEF f
    <3> QED  BY <2>1, <2>2, <3>1
  <2>3. CASE k # 0
    <3>1. k \in Nat /\ k-1 \in Nat /\ k-1 \notin T  BY <2>1, <2>3
    <3>2. PICK g : Follows(link, head, k-1, g)  BY <3>1
    <3> DEFINE last == IF g[k-1] \in DOMAIN link THEN link[g[k-1]] ELSE g[k-1]
               f == [i \in 0..k |-> IF i = k THEN last ELSE g[i]]
    <3>3. ASSUME NEW i \in 0..k
          PROVE  f[i] = IF i = 0 THEN head
                        ELSE IF f[i-1] \in DOMAIN link THEN link[f[i-1]] ELSE f[i-1]
      <4>1. CASE i = k  BY <4>1, <2>3, <3>1
      <4>2. CASE i # k
        <5>1. i \in 0..k-1 /\ i # k /\ (i # 0 => i-1 \in 0..k /\ i-1 # k)  BY <4>2, <3>1
        <5>2. f[i] = g[i] /\ (i # 0 => f[i-1] = g[i-1])  BY <5>1
        <5> HIDE DEF f
        <5>3. g[i] = IF i = 0 THEN head
                     ELSE IF g[i-1] \in DOMAIN link THEN link[g[i-1]] ELSE g[i-1]
          BY <3>2, <5>1 DEF Follows
        <5> QED  BY <5>2, <5>3
      <4> QED  BY <4>1, <4>2
    <3>4. f = [i \in 0..k |-> f[i]]  OBVIOUS
    <3> HIDE DEF f
    <3>5. Follows(link, head, k, f)  BY <3>3, <3>4 DEF Follows
    <3> QED  BY <2>1, <3>5
  <2> QED  BY <2>2, <2>3
<1> QED  BY <1>1

LEMMA LeastIsMin ==
  ASSUME NEW S \in SUBSET Int, NEW k \in S, \A i \in S : k <= i
  PROVE  Min(S) = k
<1>1. \A x \in S : (\A y \in S : x =< y) => x = k  OBVIOUS
<1>2. \E x \in S : \A y \in S : x =< y  OBVIOUS
<1>3. Min(S) \in S /\ \A y \in S : Min(S) =< y  BY <1>2 DEF Min
<1> QED  BY <1>1, <1>3

\* A loop that follows links around a ring visits the entries in their order and
\* comes back to the head.
LEMMA ChaseVisits ==
  ASSUME NEW A, IsFiniteSet(A), NEW h, NEW q, Circle(A, h, q), NEW link, DOMAIN link = A,
         \A i \in 0..Len(q) : link[At(h, q, i)] = At(h, q, i+1)
  PROVE  Chase(link, h) = q
<1> DEFINE n == Len(q)
           fuel == Cardinality(DOMAIN link)
           f[i \in 0..fuel] ==
             IF i = 0 THEN h ELSE LET p == f[i-1] IN IF p \in DOMAIN link THEN link[p] ELSE p
           laps == {i \in 1..fuel : f[i] = h}
<1>0. Chase(link, h) = IF laps = {} THEN Astray ELSE [i \in 1..Min(laps)-1 |-> f[i]]
  BY DEF Chase
<1> HIDE DEF fuel
<1>1. n \in Nat /\ h \in A /\ (\A i : At(h, q, i) \in A) /\ At(h, q, 0) = h /\ At(h, q, n+1) = h
      /\ \A i \in 1..n : At(h, q, i) = q[i] /\ q[i] # h
  BY CircleCells DEF Circle
<1>2. fuel \in Nat /\ n+1 <= fuel
  <2> DEFINE c == [i \in 0..n |-> At(h, q, i)]
  <2>1. c \in [0..n -> A]  BY <1>1
  <2>2. \A i, j \in 0..n : c[i] = c[j] => i = j  BY CircleCells
  <2>3. c \in Injection(0..n, A)
    <3>1. DOMAIN c = 0..n  BY <2>1
    <3> HIDE DEF c, n
    <3> QED  BY <2>1, <2>2, <3>1 DEF Injection, IsInjective
  <2>4. Cardinality(0..n) = n+1
    <3>1. 0 \in Int /\ n \in Int /\ ~ (0 > n) /\ n-0+1 = n+1  BY <1>1
    <3> HIDE DEF n
    <3> QED  BY <3>1, FS_Interval
  <2> HIDE DEF c, n
  <2>5. Cardinality(0..n) <= Cardinality(A)  BY <2>3, FS_Injection
  <2>6. fuel = Cardinality(A) /\ Cardinality(A) \in Nat  BY FS_CardinalityType DEF fuel
  <2> QED  BY <1>1, <2>4, <2>5, <2>6
<1> HIDE DEF n
<1>3. Follows(link, h, fuel, f)
  <2>1. f = CHOOSE g : Follows(link, h, fuel, g)  BY DEF Follows
  <2>2. \E g : Follows(link, h, fuel, g)  BY <1>2, FollowsExists
  <2> HIDE DEF f
  <2> QED  BY <2>1, <2>2
<1> HIDE DEF f
<1>4. \A i \in 0..n+1 : f[i] = At(h, q, i)
  <2> DEFINE T == {i \in 0..n+1 : f[i] # At(h, q, i)}
  <2>1. ASSUME T # {} PROVE FALSE
    <3>1. PICK k \in T : \A j \in T : k <= j
      <4>1. T \in SUBSET Nat  BY <1>1
      <4> HIDE DEF T
      <4> QED  BY <2>1, <4>1, Least
    <3>2. CASE k = 0  BY <3>2, <1>1, <1>2, <1>3 DEF Follows
    <3>3. CASE k # 0
      <4>1. k-1 \in 0..n /\ k \in 0..fuel /\ k-1 \in 0..n+1 /\ k-1 \notin T /\ k-1+1 = k
        BY <1>1, <1>2, <3>1, <3>3
      <4>2. f[k-1] = At(h, q, k-1)  BY <4>1
      <4>3. f[k] = link[f[k-1]]
        <5>1. f[k-1] \in DOMAIN link /\ k # 0  BY <1>1, <3>3, <4>2
        <5>2. f[k] = IF k = 0 THEN h
                     ELSE IF f[k-1] \in DOMAIN link THEN link[f[k-1]] ELSE f[k-1]
          <6>1. k \in 0..fuel  BY <4>1
          <6> HIDE DEF T, fuel
          <6> QED  BY <1>3, <6>1 DEF Follows
        <5> QED  BY <5>1, <5>2
      <4>4. link[At(h, q, k-1)] = At(h, q, k)  BY <4>1 DEF n
      <4> QED  BY <3>1, <4>2, <4>3, <4>4
    <3> QED  BY <3>2, <3>3
  <2> QED  BY <2>1
<1>5. Min(laps) = n+1
  <2>1. n+1 \in laps  BY <1>1, <1>2, <1>4
  <2>2. \A i \in laps : n+1 <= i
    <3>1. \A i \in 1..n : f[i] # h  BY <1>1, <1>4
    <3> QED  BY <1>1, <1>2, <3>1
  <2>3. laps \subseteq Int  BY <1>2
  <2>4. n+1 \in Int  BY <1>1
  <2> HIDE DEF laps
  <2> QED  BY <2>1, <2>2, <2>3, <2>4, LeastIsMin
<1>6. laps # {}  BY <1>1, <1>2, <1>4
<1>7. Chase(link, h) = [i \in 1..n |-> f[i]]
  <2>2. Min(laps)-1 = n  BY <1>1, <1>5
  <2> HIDE DEF laps
  <2> QED  BY <2>2, <1>0, <1>6
<1>8. q = [i \in 1..n |-> q[i]]  BY DEF Circle, n
<1>9. \A i \in 1..n : f[i] = q[i]  BY <1>1, <1>4
<1> QED  BY <1>7, <1>8, <1>9

\* Backwards, a ring of q is a ring of Reverse(q).
LEMMA ReverseFacts ==
  ASSUME NEW A, NEW h, NEW q, Circle(A, h, q)
  PROVE  Circle(A, h, Reverse(q)) /\ Len(Reverse(q)) = Len(q)
<1> DEFINE r == Reverse(q)
           n == Len(q)
<1>1. n \in Nat /\ h \in A /\ (\A i \in 1..n : q[i] \in A /\ q[i] # h)
      /\ \A i, j \in 1..n : q[i] = q[j] => i = j
  BY CircleCells DEF Circle
<1>2. r = [i \in 1..n |-> q[(n - i) + 1]]  BY DEF Reverse
<1> HIDE DEF r, n
<1>3. \A i \in 1..n : (n - i) + 1 \in 1..n  BY <1>1
<1>4. r \in Seq(A) /\ Len(r) = n
  <2>1. r \in [1..n -> A]  BY <1>1, <1>2, <1>3
  <2> QED  BY <1>1, <2>1
<1>5. \A i \in 1..n : r[i] = q[(n - i) + 1]  BY <1>2
<1>6. Circle(A, h, r)
  BY <1>1, <1>3, <1>4, <1>5 DEF Circle
<1> QED  BY <1>4, <1>6 DEF r, n

LEMMA ReverseAt ==
  ASSUME NEW A, NEW h, NEW q, Circle(A, h, q), NEW i \in Nat, NEW j \in Nat, i + j = Len(q)+1
  PROVE  At(h, Reverse(q), i) = At(h, q, j)
BY ReverseFacts, CircleCells DEF At, Reverse

\* A ring is one backwards, too.
LEMMA ReverseRing ==
  ASSUME NEW A, NEW h, NEW q, Circle(A, h, q), NEW m, Ring(m, h, q), NEW i \in 0..Len(q)
  PROVE  m.prev[At(h, Reverse(q), i)] = At(h, Reverse(q), i+1)
<1>1. Len(q) \in Nat  BY CircleCells
<1>2. PICK j \in 0..Len(q) : i + j = Len(q)  BY <1>1
<1>3. m.prev[At(h, q, j+1)] = At(h, q, j)  BY DEF Ring
<1>4. PICK k \in Nat : k = i+1  BY <1>1
<1>5. PICK l \in Nat : l = j+1  BY <1>1
<1>6. At(h, Reverse(q), i) = At(h, q, l)  BY <1>1, <1>2, <1>5, ReverseAt
<1>7. At(h, Reverse(q), k) = At(h, q, j)  BY <1>1, <1>2, <1>4, ReverseAt
<1> QED  BY <1>3, <1>4, <1>5, <1>6, <1>7

\* The two loops of list.h over a ring visit its entries, each once, forwards and
\* backwards (list.h:529-553).
LEMMA CircleLoops ==
  ASSUME NEW A, IsFiniteSet(A), NEW h, NEW q, Circle(A, h, q),
         NEW m, DOMAIN m.next = A, DOMAIN m.prev = A, Ring(m, h, q)
  PROVE  /\ list_for_each(m, h) = q
         /\ list_for_each_prev(m, h) = Reverse(q)
<1>1. list_for_each(m, h) = q
  BY ChaseVisits DEF list_for_each, Ring
<1>2. list_for_each_prev(m, h) = Reverse(q)
  <2>1. Circle(A, h, Reverse(q)) /\ Len(Reverse(q)) = Len(q)  BY ReverseFacts
  <2>2. \A i \in 0..Len(Reverse(q)) :
          m.prev[At(h, Reverse(q), i)] = At(h, Reverse(q), i+1)
    BY <2>1, ReverseRing
  <2>3. Chase(m.prev, h) = Reverse(q)  BY <2>1, <2>2, ChaseVisits
  <2> QED  BY <2>3 DEF list_for_each_prev
<1> QED  BY <1>1, <1>2

-----------------------------------------------------------------------------
(* One hash list.                                                          *)

\* The nodes q of the head h, of the heads H and the nodes N: no node is there
\* twice, and none of the pointers that are none is the address of a cell.
Strand(H, N, h, q) ==
  /\ h \in H
  /\ q \in Seq(N)
  /\ \A i, j \in 1..Len(q) : q[i] = q[j] => i = j
  /\ H \cap N = {} /\ NULL \notin H \cup N

\* What is at place i of a hash list: the head, a node, or the end.
Place(h, q, i) == IF i = 0 THEN h ELSE IF i \in 1..Len(q) THEN q[i] ELSE NULL

\* In m, the links run from the head h through the nodes q to the null pointer,
\* and each node points back at the place before it.
Thread(m, h, q) ==
  /\ \A i \in 0..Len(q) : m.link[Place(h, q, i)] = Place(h, q, i+1)
  /\ \A i \in 1..Len(q) : m.pprev[q[i]] = Place(h, q, i-1)

LEMMA PlaceFacts ==
  ASSUME NEW H, NEW N, NEW h, NEW q, Strand(H, N, h, q)
  PROVE  /\ Len(q) \in Nat
         /\ \A i \in 1..Len(q) : Place(h, q, i) = q[i] /\ q[i] \in N /\ q[i] # h /\ q[i] # NULL
         /\ Place(h, q, 0) = h /\ Place(h, q, Len(q)+1) = NULL /\ h # NULL
         /\ \A i : Place(h, q, i) \in H \cup N \cup {NULL}
         /\ \A i \in 0..Len(q) : Place(h, q, i) \in H \cup N
         /\ \A i \in 1..(Len(q)+1) : Place(h, q, i) \in N \cup {NULL} /\ Place(h, q, i) # h
         /\ \A i, j \in 0..(Len(q)+1) : Place(h, q, i) = Place(h, q, j) => i = j
<1>1. Len(q) \in Nat /\ \A i \in 1..Len(q) : q[i] \in N
  BY LenProperties, ElementOfSeq DEF Strand
<1> QED  BY <1>1 DEF Strand, Place

\* What two stores and two conditional ones leave, wherever n comes between p
\* and t: the functions that add a node differ in the order of the stores.
Tied(m, r, n, p, t) ==
  /\ \A x \in DOMAIN m.link : r.link[x] = IF x = p THEN n ELSE IF x = n THEN t ELSE m.link[x]
  /\ \A x \in DOMAIN m.pprev : r.pprev[x] = IF x = n THEN p ELSE IF x = t THEN n ELSE m.pprev[x]

\* And what a deletion leaves outside of the node n itself.
Untied(m, r, n, p, t) ==
  /\ \A x \in DOMAIN m.link \ {n} : r.link[x] = IF x = p THEN t ELSE m.link[x]
  /\ \A x \in DOMAIN m.pprev \ {n} : r.pprev[x] = IF x = t THEN p ELSE m.pprev[x]

\* A node tied in between two neighbours is on the list there, and the others are
\* where they were.
LEMMA ThreadAdd ==
  ASSUME NEW H, NEW N, NEW h, NEW q, Strand(H, N, h, q),
         NEW m \in HMemory(H, N), Thread(m, h, q),
         NEW n \in N, \A k \in 1..Len(q) : q[k] # n, NEW i \in 1..(Len(q)+1),
         NEW r, Tied(m, r, n, Place(h, q, i-1), Place(h, q, i))
  PROVE  Strand(H, N, h, InsertAt(q, i, n)) /\ Thread(r, h, InsertAt(q, i, n))
<1> DEFINE p == Place(h, q, i-1)
           t == Place(h, q, i)
           s == InsertAt(q, i, n)
<1>1. /\ s \in Seq(N) /\ Len(s) = Len(q) + 1 /\ Len(q) \in Nat /\ n # h /\ n # NULL
      /\ \A k \in 1..Len(s) : s[k] = IF k < i THEN q[k] ELSE IF k = i THEN n ELSE q[k-1]
  BY InsertAtFacts, LenProperties DEF Strand
<1>2. \A k \in 0..(Len(q)+2) :
        Place(h, s, k) = IF k < i THEN Place(h, q, k) ELSE IF k = i THEN n ELSE Place(h, q, k-1)
  BY <1>1 DEF Place
<1>3. \A k : Place(h, q, k) # n
  BY <1>1 DEF Place
<1>4. DOMAIN m.link = H \cup N /\ DOMAIN m.pprev = N
  BY DEF HMemory
<1>5. p \in H \cup N /\ t \in N \cup {NULL}
  <2>1. i-1 \in 0..Len(q)  BY <1>1
  <2> QED  BY <2>1, PlaceFacts
<1>6. /\ \A x \in H \cup N : r.link[x] = IF x = p THEN n ELSE IF x = n THEN t ELSE m.link[x]
      /\ \A x \in N : r.pprev[x] = IF x = n THEN p ELSE IF x = t THEN n ELSE m.pprev[x]
  BY <1>4 DEF Tied
<1> HIDE DEF p, t, s
<1>7. Strand(H, N, h, s)
  <2> SUFFICES ASSUME NEW j \in 1..Len(s), NEW k \in 1..Len(s), s[j] = s[k]
               PROVE  j = k
    BY <1>1 DEF Strand
  <2>1. CASE j = i \/ k = i  BY <2>1, <1>1
  <2>2. CASE j # i /\ k # i
    <3> DEFINE d(x) == IF x < i THEN x ELSE x-1
    <3>1. d(j) \in 1..Len(q) /\ d(k) \in 1..Len(q) /\ s[j] = q[d(j)] /\ s[k] = q[d(k)]
      BY <2>2, <1>1
    <3>2. d(j) = d(k)  BY <3>1 DEF Strand
    <3> QED  BY <2>2, <3>2, <1>1
  <2> QED  BY <2>1, <2>2
<1>8. ASSUME NEW k \in 0..Len(s)
      PROVE  r.link[Place(h, s, k)] = Place(h, s, k+1)
  <2>1. CASE k < i-1
    <3>1. k \in 0..Len(q) /\ i-1 \in 0..(Len(q)+1) /\ k \in 0..(Len(q)+1) /\ k # i-1
      BY <2>1, <1>1
    <3>2. Place(h, s, k) = Place(h, q, k) /\ Place(h, s, k+1) = Place(h, q, k+1)
      BY <2>1, <1>1, <1>2
    <3>3. Place(h, q, k) # p /\ Place(h, q, k) \in H \cup N  BY <3>1, PlaceFacts DEF p
    <3>4. m.link[Place(h, q, k)] = Place(h, q, k+1)  BY <3>1 DEF Thread
    <3> QED  BY <3>2, <3>3, <3>4, <1>3, <1>6
  <2>2. CASE k = i-1
    <3>1. Place(h, s, k) = p /\ Place(h, s, k+1) = n  BY <2>2, <1>1, <1>2 DEF p
    <3> QED  BY <3>1, <1>5, <1>6
  <2>3. CASE k = i
    <3>1. Place(h, s, k) = n /\ Place(h, s, k+1) = t  BY <2>3, <1>1, <1>2 DEF t
    <3>2. n # p  BY <1>3 DEF p
    <3> QED  BY <3>1, <3>2, <1>6
  <2>4. CASE k > i
    <3>1. PICK l \in 0..Len(q) : l = k-1 /\ l+1 = k  BY <2>4, <1>1
    <3>2. Place(h, s, k) = Place(h, q, l) /\ Place(h, s, k+1) = Place(h, q, l+1)
      BY <2>4, <3>1, <1>1, <1>2
    <3>3. Place(h, q, l) # p /\ Place(h, q, l) \in H \cup N
      <4>1. l \in 0..(Len(q)+1) /\ i-1 \in 0..(Len(q)+1) /\ l # i-1  BY <3>1, <2>4, <1>1
      <4> QED  BY <4>1, PlaceFacts DEF p
    <3>4. m.link[Place(h, q, l)] = Place(h, q, l+1)  BY DEF Thread
    <3> QED  BY <3>2, <3>3, <3>4, <1>3, <1>6
  <2> QED  BY <2>1, <2>2, <2>3, <2>4, <1>1
<1>9. ASSUME NEW k \in 1..Len(s)
      PROVE  r.pprev[s[k]] = Place(h, s, k-1)
  <2>1. CASE k < i
    <3>1. k \in 1..Len(q) /\ i \in 0..(Len(q)+1) /\ k \in 0..(Len(q)+1) /\ k # i
      BY <2>1, <1>1
    <3>2. s[k] = q[k] /\ Place(h, s, k-1) = Place(h, q, k-1)
      BY <2>1, <1>1, <1>2
    <3>3. q[k] # t /\ q[k] \in N /\ q[k] # n  BY <3>1, PlaceFacts DEF t
    <3>4. m.pprev[q[k]] = Place(h, q, k-1)  BY <3>1 DEF Thread
    <3> QED  BY <3>2, <3>3, <3>4, <1>6
  <2>2. CASE k = i
    <3>1. s[k] = n /\ Place(h, s, k-1) = p  BY <2>2, <1>1, <1>2 DEF p
    <3> QED  BY <3>1, <1>6
  <2>3. CASE k = i+1
    <3>1. i \in 1..Len(q) /\ k-1 = i  BY <2>3, <1>1
    <3>2. s[k] = t /\ Place(h, s, k-1) = n  BY <2>3, <3>1, <1>1, <1>2 DEF t, Place
    <3>3. t \in N /\ t # n  BY <3>1, <1>3, PlaceFacts DEF t
    <3> QED  BY <3>2, <3>3, <1>6
  <2>4. CASE k > i+1
    <3>1. PICK l \in 1..Len(q) : l = k-1  BY <2>4, <1>1
    <3>2. s[k] = q[l] /\ Place(h, s, k-1) = Place(h, q, l-1)
      BY <2>4, <3>1, <1>1, <1>2
    <3>3. q[l] # t /\ q[l] \in N /\ q[l] # n
      <4>1. l \in 0..(Len(q)+1) /\ i \in 0..(Len(q)+1) /\ l # i  BY <3>1, <2>4, <1>1
      <4> QED  BY <4>1, PlaceFacts DEF t
    <3>4. m.pprev[q[l]] = Place(h, q, l-1)  BY DEF Thread
    <3> QED  BY <3>2, <3>3, <3>4, <1>6
  <2> QED  BY <2>1, <2>2, <2>3, <2>4, <1>1
<1>10. Thread(r, h, s)
  BY <1>8, <1>9 DEF Thread
<1> QED  BY <1>7, <1>10 DEF s

\* A node untied is on the list no more, and the others are where they were.
LEMMA ThreadDel ==
  ASSUME NEW H, NEW N, NEW h, NEW q, Strand(H, N, h, q),
         NEW m \in HMemory(H, N), Thread(m, h, q), NEW i \in 1..Len(q),
         NEW r, Untied(m, r, q[i], Place(h, q, i-1), Place(h, q, i+1))
  PROVE  Strand(H, N, h, RemoveAt(q, i)) /\ Thread(r, h, RemoveAt(q, i))
<1> DEFINE p == Place(h, q, i-1)
           t == Place(h, q, i+1)
           n == q[i]
           s == RemoveAt(q, i)
<1>1. /\ s \in Seq(N) /\ Len(s) = Len(q) - 1 /\ Len(q) \in Nat /\ n # h
      /\ \A k \in 1..Len(s) : s[k] = IF k < i THEN q[k] ELSE q[k+1]
  BY RemoveAtFacts, PlaceFacts DEF Strand
<1>2. \A k \in 0..Len(q) : Place(h, s, k) = IF k < i THEN Place(h, q, k) ELSE Place(h, q, k+1)
  BY <1>1 DEF Place
<1>3. ASSUME NEW k \in 0..(Len(q)+1), k # i  PROVE Place(h, q, k) # n
  <2>1. i \in 0..(Len(q)+1) /\ Place(h, q, i) = n  BY <1>1 DEF Place
  <2> QED  BY <1>3, <2>1, PlaceFacts
<1>4. DOMAIN m.link = H \cup N /\ DOMAIN m.pprev = N
  BY DEF HMemory
<1>5. /\ \A x \in (H \cup N) \ {n} : r.link[x] = IF x = p THEN t ELSE m.link[x]
      /\ \A x \in N \ {n} : r.pprev[x] = IF x = t THEN p ELSE m.pprev[x]
  BY <1>4 DEF Untied
<1> HIDE DEF p, t, s, n
<1>6. Strand(H, N, h, s)
  <2> SUFFICES ASSUME NEW j \in 1..Len(s), NEW k \in 1..Len(s), s[j] = s[k]
               PROVE  j = k
    BY <1>1 DEF Strand
  <2> DEFINE d(x) == IF x < i THEN x ELSE x+1
  <2>1. d(j) \in 1..Len(q) /\ d(k) \in 1..Len(q) /\ s[j] = q[d(j)] /\ s[k] = q[d(k)]
    BY <1>1
  <2>2. d(j) = d(k)  BY <2>1 DEF Strand
  <2> QED  BY <2>2, <1>1
<1>7. ASSUME NEW k \in 0..Len(s)
      PROVE  r.link[Place(h, s, k)] = Place(h, s, k+1)
  <2>1. CASE k < i-1
    <3>1. k \in 0..Len(q) /\ i-1 \in 0..(Len(q)+1) /\ k \in 0..(Len(q)+1) /\ k # i-1 /\ k # i
      BY <2>1, <1>1
    <3>2. Place(h, s, k) = Place(h, q, k) /\ Place(h, s, k+1) = Place(h, q, k+1)
      BY <2>1, <1>1, <1>2
    <3>3. Place(h, q, k) # p /\ Place(h, q, k) \in (H \cup N) \ {n}
      BY <3>1, <1>3, PlaceFacts DEF p
    <3>4. m.link[Place(h, q, k)] = Place(h, q, k+1)  BY <3>1 DEF Thread
    <3> QED  BY <3>2, <3>3, <3>4, <1>5
  <2>2. CASE k = i-1
    <3>1. Place(h, s, k) = p /\ Place(h, s, k+1) = t  BY <2>2, <1>1, <1>2 DEF p, t
    <3>2. p \in (H \cup N) \ {n}
      <4>1. k \in 0..(Len(q)+1) /\ k # i /\ k \in 0..Len(q) /\ p = Place(h, q, k)
        BY <2>2, <1>1 DEF p
      <4> QED  BY <4>1, <1>3, PlaceFacts
    <3> QED  BY <3>1, <3>2, <1>5
  <2>3. CASE k >= i
    <3>1. PICK l \in 0..Len(q) : l = k+1 /\ l # i /\ l # i-1  BY <2>3, <1>1
    <3>2. Place(h, s, k) = Place(h, q, l) /\ Place(h, s, k+1) = Place(h, q, l+1)
      BY <2>3, <3>1, <1>1, <1>2
    <3>3. Place(h, q, l) # p /\ Place(h, q, l) \in (H \cup N) \ {n}
      <4>1. l \in 0..(Len(q)+1) /\ i-1 \in 0..(Len(q)+1)  BY <1>1
      <4> QED  BY <3>1, <4>1, <1>3, PlaceFacts DEF p
    <3>4. m.link[Place(h, q, l)] = Place(h, q, l+1)  BY DEF Thread
    <3> QED  BY <3>2, <3>3, <3>4, <1>5
  <2> QED  BY <2>1, <2>2, <2>3, <1>1
<1>8. ASSUME NEW k \in 1..Len(s)
      PROVE  r.pprev[s[k]] = Place(h, s, k-1)
  <2>1. CASE k < i
    <3>1. k \in 1..Len(q) /\ i+1 \in 0..(Len(q)+1) /\ k \in 0..(Len(q)+1) /\ k # i+1 /\ k # i
      BY <2>1, <1>1
    <3>2. s[k] = q[k] /\ Place(h, s, k-1) = Place(h, q, k-1)
      BY <2>1, <1>1, <1>2
    <3>3. q[k] # t /\ q[k] \in N \ {n}
      <4>1. Place(h, q, k) = q[k] /\ q[k] \in N  BY <3>1, PlaceFacts
      <4> QED  BY <3>1, <4>1, <1>3, PlaceFacts DEF t
    <3>4. m.pprev[q[k]] = Place(h, q, k-1)  BY <3>1 DEF Thread
    <3> QED  BY <3>2, <3>3, <3>4, <1>5
  <2>2. CASE k = i
    <3>1. i+1 \in 1..Len(q) /\ i+1 # i  BY <2>2, <1>1
    <3>2. s[k] = t /\ Place(h, s, k-1) = p  BY <2>2, <3>1, <1>1, <1>2 DEF p, t, Place
    <3>3. t \in N \ {n}
      <4>1. i+1 \in 0..(Len(q)+1)  BY <1>1
      <4>2. Place(h, q, i+1) # n  BY <4>1, <3>1, <1>3
      <4> QED  BY <3>1, <4>2, PlaceFacts DEF t
    <3> QED  BY <3>2, <3>3, <1>5
  <2>3. CASE k > i
    <3>1. PICK l \in 1..Len(q) : l = k+1 /\ l # i /\ l # i+1 /\ l-1 = k  BY <2>3, <1>1
    <3>2. s[k] = q[l] /\ Place(h, s, k-1) = Place(h, q, l-1)
      BY <2>3, <3>1, <1>1, <1>2
    <3>3. q[l] # t /\ q[l] \in N \ {n}
      <4>1. l \in 0..(Len(q)+1) /\ i+1 \in 0..(Len(q)+1)  BY <1>1
      <4>2. Place(h, q, l) = q[l] /\ q[l] \in N  BY PlaceFacts
      <4> QED  BY <3>1, <4>1, <4>2, <1>3, PlaceFacts DEF t
    <3>4. m.pprev[q[l]] = Place(h, q, l-1)  BY DEF Thread
    <3> QED  BY <3>2, <3>3, <3>4, <1>5
  <2> QED  BY <2>1, <2>2, <2>3, <1>1
<1>9. Thread(r, h, s)
  BY <1>7, <1>8 DEF Thread
<1> QED  BY <1>6, <1>9 DEF s

\* A list none of whose cells is written to stays what it is.
LEMMA ThreadLeftAlone ==
  ASSUME NEW H, NEW N, NEW h, NEW q, Strand(H, N, h, q), NEW m, NEW r, Thread(m, h, q),
         r.link[h] = m.link[h],
         \A k \in 1..Len(q) : r.link[q[k]] = m.link[q[k]] /\ r.pprev[q[k]] = m.pprev[q[k]]
  PROVE  Thread(r, h, q)
<1>1. \A k \in 0..Len(q) : r.link[Place(h, q, k)] = m.link[Place(h, q, k)]
  BY DEF Place
<1> QED  BY <1>1 DEF Thread
-----------------------------------------------------------------------------
(* What hlist_add_head and the deletions leave, for any heads and nodes.   *)

\* The first node is tied in between the head and what was the first (list.h:842-851).
LEMMA AddHeadTies ==
  ASSUME NEW H, NEW N, NULL \notin N, NEW m \in HMemory(H, N), NEW n \in N, NEW h \in H,
         m.link[h] \in N \cup {NULL}
  PROVE  LET r == hlist_add_head(m, n, h)
         IN  r \in HMemory(H, N) /\ Tied(m, r, n, h, m.link[h])
<1> DEFINE t == m.link[h]
           m1 == SetLink(m, n, t)
           m2 == FixPprev(m1, t, n)
<1>1. m1 \in HMemory(H, N) /\ m1.pprev = m.pprev /\ m1.link = [m.link EXCEPT ![n] = t]
  BY DEF SetLink, HMemory
<1>2. /\ m2 \in HMemory(H, N) /\ m2.link = m1.link
      /\ m2.pprev = IF t = NULL THEN m1.pprev ELSE [m1.pprev EXCEPT ![t] = n]
  <2> HIDE DEF m1
  <2> QED  BY <1>1 DEF FixPprev, SetPprev, HMemory
<1>3. hlist_add_head(m, n, h) = SetPprev(SetLink(m2, h, n), n, h)
  BY DEF hlist_add_head
<1> HIDE DEF m1, m2
<1> QED  BY <1>1, <1>2, <1>3 DEF SetLink, SetPprev, HMemory, Tied

\* The two that delete a node leave the same outside of it (list.h:797-833).
LEMMA DelUnties ==
  ASSUME NEW H, NEW N, NULL \notin H \cup N, NEW m \in HMemory(H, N), NEW n \in N,
         m.pprev[n] \in H \cup N, m.link[n] \in N \cup {NULL}
  PROVE  LET d == hlist_del(m, n)
             i == hlist_del_init(m, n)
         IN  /\ d \in HMemory(H, N) /\ d.pprev[n] = LIST_POISON2
             /\ Untied(m, d, n, m.pprev[n], m.link[n])
             /\ i \in HMemory(H, N) /\ i.link[n] = NULL /\ i.pprev[n] = NULL
             /\ Untied(m, i, n, m.pprev[n], m.link[n])
<1> DEFINE p == m.pprev[n]
           t == m.link[n]
           m1 == SetLink(m, p, t)
           m2 == FixPprev(m1, t, p)
<1>1. m1 \in HMemory(H, N) /\ m1.pprev = m.pprev /\ m1.link = [m.link EXCEPT ![p] = t]
  BY DEF SetLink, HMemory
<1>2. /\ m2 \in HMemory(H, N) /\ m2.link = m1.link
      /\ m2.pprev = IF t = NULL THEN m1.pprev ELSE [m1.pprev EXCEPT ![t] = p]
  <2> HIDE DEF m1
  <2> QED  BY <1>1 DEF FixPprev, SetPprev, HMemory
<1>3. __hlist_del(m, n) = m2  BY DEF __hlist_del
<1>4. p # NULL /\ (t \in N => t # NULL)  OBVIOUS
<1> HIDE DEF m1, m2, p, t
<1>5. /\ hlist_del(m, n) = SetPprev(SetLink(m2, n, LIST_POISON1), n, LIST_POISON2)
      /\ hlist_del_init(m, n) = SetPprev(SetLink(m2, n, NULL), n, NULL)
  BY <1>3, <1>4 DEF hlist_del, hlist_del_init, hlist_unhashed, INIT_HLIST_NODE, p
<1>6. /\ \A x \in (H \cup N) \ {n} : m2.link[x] = IF x = p THEN t ELSE m.link[x]
      /\ \A x \in N \ {n} : m2.pprev[x] = IF x = t THEN p ELSE m.pprev[x]
      /\ DOMAIN m.link = H \cup N /\ DOMAIN m.pprev = N
      /\ DOMAIN m2.link = H \cup N /\ DOMAIN m2.pprev = N
  BY <1>1, <1>2, <1>4 DEF HMemory, t
<1>7. ASSUME NEW a \in {NULL, LIST_POISON1}, NEW b \in {NULL, LIST_POISON2}
      PROVE  LET r == SetPprev(SetLink(m2, n, a), n, b)
             IN  /\ r \in HMemory(H, N) /\ Untied(m, r, n, p, t)
                 /\ r.link[n] = a /\ r.pprev[n] = b
  BY <1>2, <1>6 DEF SetLink, SetPprev, HMemory, Untied
<1> QED  BY <1>5, <1>7 DEF p, t

-----------------------------------------------------------------------------
(* What a loop over a hash list visits.                                    *)

\* After i steps, the cursor of the loop over q is at the place i, and it stays at
\* the null pointer.
LEMMA ThreadVisits ==
  ASSUME NEW H, NEW N, IsFiniteSet(N), NEW h, NEW q, Strand(H, N, h, q),
         NEW m, DOMAIN m.pprev = N, Thread(m, h, q)
  PROVE  hlist_for_each(m, h) = q
<1> DEFINE n == Len(q)
           fuel == Cardinality(DOMAIN m.pprev) + 1
           pos[i \in 1..fuel] ==
             IF i = 1 THEN m.link[h]
             ELSE LET p == pos[i-1] IN IF p \in DOMAIN m.pprev THEN m.link[p] ELSE p
           ends == {i \in 1..fuel : pos[i] = NULL}
<1>0. hlist_for_each(m, h) = IF ends = {} THEN Astray ELSE [i \in 1..Min(ends)-1 |-> pos[i]]
  BY DEF hlist_for_each
<1> HIDE DEF fuel
<1>1. /\ n \in Nat /\ Place(h, q, n+1) = NULL /\ NULL \notin N
      /\ \A i \in 1..n : Place(h, q, i) = q[i] /\ q[i] \in N /\ q[i] # NULL
      /\ \A i \in 0..n : m.link[Place(h, q, i)] = Place(h, q, i+1)
      /\ Place(h, q, 0) = h
  BY PlaceFacts DEF Thread, Strand
<1>2. fuel \in Nat /\ n+1 <= fuel
  <2> DEFINE c == [i \in 1..n |-> q[i]]
  <2>1. c \in [1..n -> N]  BY <1>1
  <2>2. \A i, j \in 1..n : c[i] = c[j] => i = j  BY DEF Strand
  <2>3. c \in Injection(1..n, N)
    <3>1. DOMAIN c = 1..n  BY <2>1
    <3> HIDE DEF c, n
    <3> QED  BY <2>1, <2>2, <3>1 DEF Injection, IsInjective
  <2>4. Cardinality(1..n) = n
    <3>1. CASE n = 0
      <4>1. 1..n = {}  BY <3>1
      <4> QED  BY <3>1, <4>1, FS_EmptySet
    <3>2. CASE n # 0
      <4>1. 1 \in Int /\ n \in Int /\ ~ (1 > n) /\ n-1+1 = n  BY <1>1, <3>2
      <4> HIDE DEF n
      <4> QED  BY <4>1, FS_Interval
    <3> QED  BY <3>1, <3>2
  <2> HIDE DEF c, n
  <2>5. Cardinality(1..n) <= Cardinality(N)  BY <2>3, FS_Injection
  <2>6. fuel = Cardinality(N) + 1 /\ Cardinality(N) \in Nat  BY FS_CardinalityType DEF fuel
  <2> QED  BY <1>1, <2>4, <2>5, <2>6
<1> HIDE DEF n
<1>3. \A i \in 1..fuel :
        pos[i] = IF i = 1 THEN m.link[h]
                 ELSE IF pos[i-1] \in DOMAIN m.pprev THEN m.link[pos[i-1]] ELSE pos[i-1]
  <2> DEFINE link == [p \in DOMAIN m.pprev |-> m.link[p]]
             first == m.link[h]
             Walks(f) == f = [i \in 1..fuel |->
               IF i = 1 THEN m.link[h]
               ELSE LET p == f[i-1] IN IF p \in DOMAIN m.pprev THEN m.link[p] ELSE p]
  <2>1. PICK k \in Nat : fuel = k+1
    <3>1. fuel-1 \in Nat /\ fuel = (fuel-1)+1  BY <1>1, <1>2
    <3> QED  BY <3>1
  <2>2. PICK g : Follows(link, first, k, g)
    <3> HIDE DEF link, first
    <3> QED  BY <2>1, FollowsExists
  <2> DEFINE f == [i \in 1..fuel |-> g[i-1]]
  <2>3. ASSUME NEW i \in 1..fuel
        PROVE  f[i] = IF i = 1 THEN m.link[h]
                      ELSE IF f[i-1] \in DOMAIN m.pprev THEN m.link[f[i-1]] ELSE f[i-1]
    <3>1. PICK j \in 0..k : j = i-1  BY <2>1
    <3>2. f[i] = g[j]  BY <3>1
    <3>3. g[j] = IF j = 0 THEN first
                 ELSE IF g[j-1] \in DOMAIN link THEN link[g[j-1]] ELSE g[j-1]
      <4> HIDE DEF link, first, f
      <4> QED  BY <2>2 DEF Follows
    <3>4. CASE i = 1  BY <3>1, <3>2, <3>3, <3>4
    <3>5. CASE i # 1
      <4>1. i-1 \in 1..fuel /\ i-1 = j /\ j # 0  BY <3>1, <3>5, <2>1
      <4>2. f[i-1] = g[j-1]  BY <4>1
      <4> HIDE DEF f
      <4> QED  BY <3>2, <3>3, <3>5, <4>1, <4>2
    <3> QED  BY <3>4, <3>5
  <2>4. Walks(f)
    <3>1. f = [i \in 1..fuel |-> f[i]]  OBVIOUS
    <3> HIDE DEF f
    <3> QED  BY <2>3, <3>1
  <2>5. pos = CHOOSE w : Walks(w)  OBVIOUS
  <2> HIDE DEF Walks, f, pos
  <2>6. Walks(pos)  BY <2>4, <2>5
  <2> USE DEF Walks
  <2> QED  BY <2>6
<1> HIDE DEF pos
<1>4. \A i \in 1..n+1 : pos[i] = Place(h, q, i)
  <2> DEFINE T == {i \in 1..n+1 : pos[i] # Place(h, q, i)}
  <2>1. ASSUME T # {} PROVE FALSE
    <3>1. PICK k \in T : \A j \in T : k <= j
      <4>1. T \in SUBSET Nat  BY <1>1
      <4> HIDE DEF T
      <4> QED  BY <2>1, <4>1, Least
    <3>2. k \in 1..fuel /\ k \in 1..n+1 /\ pos[k] # Place(h, q, k)  BY <1>1, <1>2, <3>1
    <3>3. CASE k = 1
      <4>1. 0 \in 0..n /\ 0+1 = k  BY <1>1, <3>3
      <4> QED  BY <4>1, <3>2, <3>3, <1>1, <1>3
    <3>4. CASE k # 1
      <4>1. PICK j \in 1..n : k = j+1 /\ j = k-1 /\ j \notin T  BY <1>1, <3>1, <3>2, <3>4
      <4>2. pos[j] = Place(h, q, j) /\ j \in 0..n  BY <4>1, <1>1
      <4>3. pos[j] \in DOMAIN m.pprev  BY <4>1, <4>2, <1>1
      <4>4. pos[k] = m.link[pos[j]]  BY <1>3, <3>2, <3>4, <4>1, <4>3
      <4> QED  BY <1>1, <3>2, <4>1, <4>2, <4>4
    <3> QED  BY <3>3, <3>4
  <2> QED  BY <2>1
<1>5. Min(ends) = n+1
  <2>1. n+1 \in ends  BY <1>1, <1>2, <1>4
  <2>2. \A i \in ends : n+1 <= i
    <3>1. \A i \in 1..n : pos[i] # NULL  BY <1>1, <1>4
    <3> QED  BY <1>1, <1>2, <3>1
  <2>3. ends \subseteq Int  BY <1>2
  <2>4. n+1 \in Int  BY <1>1
  <2> HIDE DEF ends
  <2> QED  BY <2>1, <2>2, <2>3, <2>4, LeastIsMin
<1>6. ends # {}  BY <1>1, <1>2, <1>4
<1>7. hlist_for_each(m, h) = [i \in 1..n |-> pos[i]]
  <2>2. Min(ends)-1 = n  BY <1>1, <1>5
  <2> HIDE DEF ends
  <2> QED  BY <2>2, <1>0, <1>6
<1>8. q = [i \in 1..n |-> q[i]]  BY DEF Strand, n
<1>9. \A i \in 1..n : pos[i] = q[i]  BY <1>1, <1>4
<1> QED  BY <1>7, <1>8, <1>9

=============================================================================
