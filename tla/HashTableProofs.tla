---------------------------- MODULE HashTableProofs ----------------------------
(***************************************************************************)
(* The hash table of HashTable.tla, for a table of any size, any objects   *)
(* and any hash function: the buckets hold the objects that belong there,  *)
(* and a loop whose body adds and deletes visits each object that stays,   *)
(* once.                                                                   *)
(***************************************************************************)
EXTENDS HashTable, RingProofs

-----------------------------------------------------------------------------
(* The inductive invariant: there are lists L, one to a bucket, which the  *)
(* memory holds, and a place on the one the loop is at with everything the *)
(* loop has seen before it and everything it must still see behind it.     *)
(* B is the bucket of each node.                                           *)

Homes == [n \in Nodes |-> BucketOf(n)]

OnChain(L, B, n) == \E i \in 1..Len(L[B[n]]) : L[B[n]][i] = n

\* The memory m holds the lists L, whose nodes are those that are hashed.
Good(m, L, B) ==
  /\ m \in HMemory(Buckets, Nodes)
  /\ L \in [Buckets -> Seq(Nodes)]
  /\ \A b \in Buckets : /\ Strand(Buckets, Nodes, b, L[b]) /\ Thread(m, b, L[b])
                        /\ \A i \in 1..Len(L[b]) : B[L[b][i]] = b
  /\ \A n \in Nodes : m.pprev[n] # NULL => OnChain(L, B, n)

Loops ==
  [op : {"turn", "bucket", "end"}, bkt : Buckets, to : Buckets, safe : BOOLEAN,
   obj : Nodes \cup {NULL}, tmp : Nodes \cup {NULL}, seen : SUBSET Nodes, stayed : SUBSET Nodes]

\* What the loop l has seen is before place j of its bucket, and what it must still
\* see is from there on, or in a bucket behind.
Ahead(L, B, l, j) ==
  /\ l.bkt <= l.to
  /\ \A n \in l.seen : B[n] <= l.bkt
  /\ \A i \in j..Len(L[l.bkt]) : L[l.bkt][i] \notin l.seen
  /\ \A n \in l.stayed : /\ OnChain(L, B, n) /\ B[n] <= l.to
                         /\ \/ n \in l.seen
                            \/ l.bkt < B[n]
                            \/ \E i \in j..Len(L[l.bkt]) : L[l.bkt][i] = n

\* The body runs, and the loop goes on at place j.
InTurn(L, B, l, j) ==
  /\ IF l.safe THEN l.tmp = Place(l.bkt, L[l.bkt], j) ELSE j # 1 /\ l.obj = L[l.bkt][j-1]
  /\ Ahead(L, B, l, j)

LoopOK(L, B, l) ==
  /\ l \in Loops
  /\ l.op = "turn" => \E j \in 1..(Len(L[l.bkt])+1) : InTurn(L, B, l, j)
  /\ l.op = "bucket" => \E j \in 1..(Len(L[l.bkt])+1) : j \notin 1..Len(L[l.bkt]) /\ Ahead(L, B, l, j)
  /\ l.op = "end" => l.stayed \subseteq l.seen

Linked(L) == Good(mem, L, Homes) /\ (loop = NoLoop \/ LoopOK(L, Homes, loop))

IInv ==
  /\ mem \in HMemory(Buckets, Nodes) /\ ready \in BOOLEAN
  /\ hash \in [Keys -> Buckets] /\ key \in [Nodes -> Keys]
  /\ ready => \E L : Linked(L)
  /\ ~ready => loop = NoLoop /\ \A n \in Nodes : mem.pprev[n] = NULL

-----------------------------------------------------------------------------
(* What the invariant says of one node and of one bucket.                  *)

LEMMA Distinct == /\ Buckets \cap Nodes = {} /\ NULL \notin Buckets \cup Nodes /\ Buckets \subseteq Int
                  /\ IsFiniteSet(Nodes) /\ HASH_SIZE \in Nat \ {0}
BY HashTableAssumption DEF Buckets

LEMMA ChainFacts ==
  ASSUME NEW m, NEW L, NEW B, Good(m, L, B), NEW b \in Buckets
  PROVE  /\ Strand(Buckets, Nodes, b, L[b]) /\ Thread(m, b, L[b]) /\ L[b] \in Seq(Nodes)
         /\ Len(L[b]) \in Nat
         /\ \A i \in 1..Len(L[b]) : /\ L[b][i] \in Nodes /\ B[L[b][i]] = b
                                    /\ m.pprev[L[b][i]] = Place(b, L[b], i-1)
                                    /\ m.pprev[L[b][i]] \in Buckets \cup Nodes
                                    /\ m.pprev[L[b][i]] # NULL
                                    /\ m.link[L[b][i]] = Place(b, L[b], i+1)
                                    /\ m.link[L[b][i]] \in Nodes \cup {NULL}
         /\ m.link[b] = Place(b, L[b], 1) /\ m.link[b] \in Nodes \cup {NULL}
<1>1. Strand(Buckets, Nodes, b, L[b]) /\ Thread(m, b, L[b]) /\ L[b] \in Seq(Nodes)
  BY DEF Good
<1>2. Len(L[b]) \in Nat /\ \A i \in 1..Len(L[b]) : L[b][i] \in Nodes /\ B[L[b][i]] = b
  BY <1>1, PlaceFacts DEF Good
<1>3. ASSUME NEW i \in 1..Len(L[b])
      PROVE  /\ m.pprev[L[b][i]] = Place(b, L[b], i-1)
             /\ m.pprev[L[b][i]] \in Buckets \cup Nodes
             /\ m.pprev[L[b][i]] # NULL
             /\ m.link[L[b][i]] = Place(b, L[b], i+1)
             /\ m.link[L[b][i]] \in Nodes \cup {NULL}
  <2>1. i-1 \in 0..Len(L[b]) /\ i \in 0..Len(L[b]) /\ i+1 \in 1..(Len(L[b])+1)  BY <1>2
  <2>2. m.pprev[L[b][i]] = Place(b, L[b], i-1)  BY <1>1 DEF Thread
  <2>3. m.link[L[b][i]] = Place(b, L[b], i+1)
    <3>1. Place(b, L[b], i) = L[b][i]  BY <1>1, PlaceFacts
    <3> QED  BY <1>1, <2>1, <3>1 DEF Thread
  <2>4. Place(b, L[b], i-1) \in Buckets \cup Nodes /\ Place(b, L[b], i+1) \in Nodes \cup {NULL}
    BY <1>1, <2>1, PlaceFacts
  <2> QED  BY <2>2, <2>3, <2>4, Distinct
<1>4. m.link[b] = Place(b, L[b], 1) /\ Place(b, L[b], 1) \in Nodes \cup {NULL}
  <2>1. 0 \in 0..Len(L[b]) /\ 0+1 = 1 /\ 1 \in 1..(Len(L[b])+1)  BY <1>2
  <2>2. Place(b, L[b], 0) = b  BY <1>1, PlaceFacts
  <2>3. Place(b, L[b], 1) \in Nodes \cup {NULL}  BY <1>1, <2>1, PlaceFacts
  <2> QED  BY <1>1, <2>1, <2>2, <2>3 DEF Thread
<1> QED  BY <1>1, <1>2, <1>3, <1>4

\* A node is hashed exactly if it is on a list, and that is the one of its bucket.
LEMMA OnChainFacts ==
  ASSUME NEW m, NEW L, NEW B \in [Nodes -> Buckets], Good(m, L, B), NEW n \in Nodes
  PROVE  m.pprev[n] # NULL <=> OnChain(L, B, n)
<1>1. B[n] \in Buckets  OBVIOUS
<1>2. OnChain(L, B, n) => m.pprev[n] # NULL
  <2> SUFFICES ASSUME NEW i \in 1..Len(L[B[n]]), L[B[n]][i] = n PROVE m.pprev[n] # NULL
    BY DEF OnChain
  <2> QED  BY <1>1, ChainFacts
<1> QED  BY <1>2 DEF Good

\* A table with no node in it.
LEMMA EmptyGood ==
  ASSUME NEW m \in HMemory(Buckets, Nodes), NEW B \in [Nodes -> Buckets],
         \A b \in Buckets : m.link[b] = NULL, \A n \in Nodes : m.pprev[n] = NULL
  PROVE  Good(m, [b \in Buckets |-> <<>>], B)
<1> DEFINE L == [b \in Buckets |-> <<>>]
<1>1. L \in [Buckets -> Seq(Nodes)] /\ \A b \in Buckets : L[b] = <<>>  OBVIOUS
<1> HIDE DEF L
<1>2. ASSUME NEW b \in Buckets
      PROVE  /\ Strand(Buckets, Nodes, b, L[b]) /\ Thread(m, b, L[b])
             /\ \A i \in 1..Len(L[b]) : B[L[b][i]] = b
  <2>1. Len(L[b]) = 0 /\ 1..0 = {} /\ 0..0 = {0}  BY <1>1
  <2>2. Strand(Buckets, Nodes, b, L[b])  BY <1>1, <2>1, Distinct DEF Strand
  <2>3. Place(b, L[b], 0) = b /\ Place(b, L[b], 0+1) = NULL  BY <2>1 DEF Place
  <2>4. Thread(m, b, L[b])  BY <2>1, <2>3 DEF Thread
  <2> QED  BY <2>1, <2>2, <2>4
<1> QED  BY <1>1, <1>2 DEF Good, L

-----------------------------------------------------------------------------
(* A node enters its bucket in front, and a node leaves its bucket.        *)

\* A sequence with one entry more in front.
LEMMA InFront ==
  ASSUME NEW q \in Seq(Nodes), NEW n \in Nodes
  PROVE  LET s == InsertAt(q, 1, n)
         IN  /\ s \in Seq(Nodes) /\ Len(s) = Len(q) + 1
             /\ \A k \in 1..Len(s) : s[k] = IF k = 1 THEN n ELSE q[k-1]
<1>1. Len(q) \in Nat  BY LenProperties
<1>2. PICK i \in 1..(Len(q)+1) : i = 1  BY <1>1
<1> DEFINE z == InsertAt(q, i, n)
<1>3. /\ z \in Seq(Nodes) /\ Len(z) = Len(q) + 1
      /\ \A k \in 1..Len(z) : z[k] = IF k < i THEN q[k] ELSE IF k = i THEN n ELSE q[k-1]
  BY InsertAtFacts
<1> QED  BY <1>1, <1>2, <1>3

LEMMA AddGood ==
  ASSUME NEW m, NEW L, NEW B \in [Nodes -> Buckets], Good(m, L, B),
         NEW n \in Nodes, m.pprev[n] = NULL
  PROVE  LET K == [L EXCEPT ![B[n]] = InsertAt(L[B[n]], 1, n)]
         IN  /\ Good(hlist_add_head(m, n, B[n]), K, B)
             /\ \A x \in Nodes : OnChain(L, B, x) => OnChain(K, B, x)
<1> DEFINE h == B[n]
           q == L[h]
           s == InsertAt(q, 1, n)
           r == hlist_add_head(m, n, h)
           t == m.link[h]
           K == [L EXCEPT ![h] = s]
<1>1. /\ h \in Buckets /\ m \in HMemory(Buckets, Nodes) /\ L \in [Buckets -> Seq(Nodes)]
      /\ DOMAIN m.link = Buckets \cup Nodes /\ DOMAIN m.pprev = Nodes
  BY DEF Good, HMemory
<1>2. /\ Strand(Buckets, Nodes, h, q) /\ Thread(m, h, q) /\ q \in Seq(Nodes) /\ Len(q) \in Nat
      /\ t = Place(h, q, 1) /\ t \in Nodes \cup {NULL}
  BY <1>1, ChainFacts
<1>3. \A b \in Buckets : \A i \in 1..Len(L[b]) : L[b][i] \in Nodes /\ B[L[b][i]] = b /\ L[b][i] # n
  BY ChainFacts
<1>4. r \in HMemory(Buckets, Nodes) /\ Tied(m, r, n, h, t)
  BY <1>1, <1>2, Distinct, AddHeadTies
<1> HIDE DEF r, t
<1>5. 1 \in 1..(Len(q)+1) /\ 1-1 = 0 /\ Place(h, q, 0) = h
  BY <1>2 DEF Place
<1>6. Strand(Buckets, Nodes, h, s) /\ Thread(r, h, s)
  <2>1. \A k \in 1..Len(q) : q[k] # n  BY <1>1, <1>3
  <2>2. Tied(m, r, n, Place(h, q, 1-1), Place(h, q, 1))  BY <1>2, <1>4, <1>5
  <2> HIDE DEF s, q, h
  <2> QED  BY <1>1, <1>2, <1>5, <2>1, <2>2, ThreadAdd DEF s
<1>7. /\ s \in Seq(Nodes) /\ Len(s) = Len(q) + 1
      /\ \A k \in 1..Len(s) : s[k] = IF k = 1 THEN n ELSE q[k-1]
  <2> HIDE DEF q
  <2> QED  BY <1>2, InFront
<1>8. K \in [Buckets -> Seq(Nodes)] /\ K[h] = s /\ \A b \in Buckets \ {h} : K[b] = L[b]
  BY <1>1, <1>7
<1> HIDE DEF s, h, K
<1>9. s[1] = n /\ 1 \in 1..Len(s) /\ \A k \in 1..Len(q) : \E l \in 1..Len(s) : s[l] = q[k]
  <2>1. s[1] = n /\ 1 \in 1..Len(s)  BY <1>2, <1>7
  <2>2. ASSUME NEW k \in 1..Len(q) PROVE \E l \in 1..Len(s) : s[l] = q[k]
    <3>1. PICK l \in 1..Len(s) : l = k+1 /\ l-1 = k /\ l # 1  BY <1>2, <1>7
    <3> QED  BY <3>1, <1>7
  <2> QED  BY <2>1, <2>2
<1>10. \A k \in 1..Len(s) : B[s[k]] = h
  <2> SUFFICES ASSUME NEW k \in 1..Len(s) PROVE B[s[k]] = h
    OBVIOUS
  <2>1. CASE k = 1  BY <2>1, <1>9 DEF h
  <2>2. CASE k # 1
    <3>1. PICK l \in 1..Len(q) : l = k-1  BY <2>2, <1>2, <1>7
    <3>2. s[k] = q[l]  BY <2>2, <3>1, <1>7
    <3> QED  BY <3>2, <1>1, <1>3
  <2> QED  BY <2>1, <2>2
<1>11. ASSUME NEW b \in Buckets, b # h
       PROVE  Strand(Buckets, Nodes, b, L[b]) /\ Thread(r, b, L[b]) /\ \A i \in 1..Len(L[b]) : B[L[b][i]] = b
  <2>1. Strand(Buckets, Nodes, b, L[b]) /\ Thread(m, b, L[b]) /\ \A i \in 1..Len(L[b]) : B[L[b][i]] = b
    BY ChainFacts
  <2>2. r.link[b] = m.link[b]
    <3>1. b # n  BY Distinct
    <3> QED  BY <3>1, <1>1, <1>4, <1>11 DEF Tied
  <2>3. ASSUME NEW k \in 1..Len(L[b])
        PROVE  r.link[L[b][k]] = m.link[L[b][k]] /\ r.pprev[L[b][k]] = m.pprev[L[b][k]]
    <3>1. L[b][k] \in Nodes /\ L[b][k] # n /\ B[L[b][k]] = b  BY <1>3
    <3>2. L[b][k] # h  BY <3>1, <1>1, Distinct
    <3>3. L[b][k] # t
      <4>1. CASE 1 \in 1..Len(q)
        <5>1. t = q[1]  BY <4>1, <1>2 DEF Place
        <5> QED  BY <4>1, <5>1, <3>1, <1>1, <1>3, <1>11
      <4>2. CASE 1 \notin 1..Len(q)
        <5>1. t = NULL  BY <4>2, <1>2 DEF Place
        <5> QED  BY <5>1, <3>1, Distinct
      <4> QED  BY <4>1, <4>2
    <3> QED  BY <3>1, <3>2, <3>3, <1>1, <1>4 DEF Tied
  <2> QED  BY <2>1, <2>2, <2>3, ThreadLeftAlone
<1>12. ASSUME NEW x \in Nodes, OnChain(L, B, x)  PROVE OnChain(K, B, x)
  <2>1. PICK k \in 1..Len(L[B[x]]) : L[B[x]][k] = x  BY <1>12 DEF OnChain
  <2>2. CASE B[x] = h
    <3>1. k \in 1..Len(q) /\ q[k] = x  BY <2>1, <2>2
    <3>2. PICK l \in 1..Len(s) : s[l] = q[k]  BY <3>1, <1>9
    <3> QED  BY <2>2, <3>1, <3>2, <1>8 DEF OnChain
  <2>3. CASE B[x] # h
    <3>1. K[B[x]] = L[B[x]]  BY <2>3, <1>8
    <3> QED  BY <2>1, <3>1 DEF OnChain
  <2> QED  BY <2>2, <2>3
<1>13. ASSUME NEW x \in Nodes, r.pprev[x] # NULL  PROVE OnChain(K, B, x)
  <2>1. CASE x = n
    <3>1. B[x] = h  BY <2>1 DEF h
    <3> QED  BY <2>1, <3>1, <1>8, <1>9 DEF OnChain
  <2>2. CASE x # n /\ x # t
    <3>1. r.pprev[x] = m.pprev[x]  BY <2>2, <1>1, <1>4 DEF Tied
    <3> QED  BY <3>1, <1>12, <1>13 DEF Good
  <2>3. CASE x = t
    <3>1. 1 \in 1..Len(q) /\ q[1] = x
      <4>1. x # NULL  BY Distinct
      <4> QED  BY <2>3, <4>1, <1>2 DEF Place
    <3>2. B[x] = h  BY <3>1, <1>1, <1>3
    <3>3. OnChain(L, B, x)  BY <3>1, <3>2 DEF OnChain
    <3> QED  BY <3>3, <1>12
  <2> QED  BY <2>1, <2>2, <2>3
<1>14. ASSUME NEW b \in Buckets
       PROVE  /\ Strand(Buckets, Nodes, b, K[b]) /\ Thread(r, b, K[b])
              /\ \A i \in 1..Len(K[b]) : B[K[b][i]] = b
  <2>1. CASE b = h
    <3>1. K[b] = s  BY <2>1, <1>8
    <3> QED  BY <2>1, <3>1, <1>6, <1>10
  <2>2. CASE b # h
    <3>1. K[b] = L[b]  BY <2>2, <1>8
    <3> QED  BY <2>2, <3>1, <1>11
  <2> QED  BY <2>1, <2>2
<1>15. Good(r, K, B)
  BY <1>4, <1>8, <1>13, <1>14 DEF Good
<1> QED  BY <1>12, <1>15 DEF r, h, s, K

LEMMA DelGood ==
  ASSUME NEW m, NEW L, NEW B \in [Nodes -> Buckets], Good(m, L, B),
         NEW h \in Buckets, NEW i \in 1..Len(L[h])
  PROVE  LET K == [L EXCEPT ![h] = RemoveAt(L[h], i)]
         IN  /\ Good(hlist_del_init(m, L[h][i]), K, B)
             /\ \A x \in Nodes \ {L[h][i]} : OnChain(L, B, x) => OnChain(K, B, x)
<1> DEFINE q == L[h]
           n == q[i]
           s == RemoveAt(q, i)
           r == hlist_del_init(m, n)
           p == Place(h, q, i-1)
           t == Place(h, q, i+1)
           K == [L EXCEPT ![h] = s]
<1>1. /\ m \in HMemory(Buckets, Nodes) /\ L \in [Buckets -> Seq(Nodes)]
      /\ DOMAIN m.link = Buckets \cup Nodes /\ DOMAIN m.pprev = Nodes
  BY DEF Good, HMemory
<1>2. /\ Strand(Buckets, Nodes, h, q) /\ Thread(m, h, q) /\ q \in Seq(Nodes) /\ Len(q) \in Nat
      /\ n \in Nodes /\ B[n] = h
      /\ m.pprev[n] = p /\ m.pprev[n] \in Buckets \cup Nodes
      /\ m.link[n] = t /\ m.link[n] \in Nodes \cup {NULL}
  BY ChainFacts
<1>3. \A b \in Buckets : \A k \in 1..Len(L[b]) : L[b][k] \in Nodes /\ B[L[b][k]] = b
  BY ChainFacts
<1>4. r \in HMemory(Buckets, Nodes) /\ r.pprev[n] = NULL /\ Untied(m, r, n, p, t)
  BY <1>1, <1>2, Distinct, DelUnties
<1> HIDE DEF r, p, t
<1>5. \A x \in {p, t} : x \in Nodes => B[x] = h
  <2>1. \A k \in 1..Len(q) : B[q[k]] = h  BY <1>3
  <2>2. p \notin Nodes \/ \E k \in 1..Len(q) : p = q[k]
    <3>1. h \notin Nodes /\ NULL \notin Nodes  BY Distinct
    <3> QED  BY <3>1 DEF p, Place
  <2>3. t \notin Nodes \/ \E k \in 1..Len(q) : t = q[k]
    <3>1. h \notin Nodes /\ NULL \notin Nodes  BY Distinct
    <3> QED  BY <3>1 DEF t, Place
  <2> QED  BY <2>1, <2>2, <2>3
<1>6. Strand(Buckets, Nodes, h, s) /\ Thread(r, h, s)
  <2>1. Untied(m, r, q[i], Place(h, q, i-1), Place(h, q, i+1))  BY <1>4 DEF p, t
  <2> QED  BY <1>1, <1>2, <2>1, ThreadDel
<1>7. /\ s \in Seq(Nodes) /\ Len(s) = Len(q) - 1
      /\ \A k \in 1..Len(s) : s[k] = IF k < i THEN q[k] ELSE q[k+1]
  BY <1>2, RemoveAtFacts
<1>8. K \in [Buckets -> Seq(Nodes)] /\ K[h] = s /\ \A b \in Buckets \ {h} : K[b] = L[b]
  BY <1>1, <1>7
<1> HIDE DEF s, K
<1>9. ASSUME NEW k \in 1..Len(s) PROVE B[s[k]] = h
  <2>1. PICK l \in 1..Len(q) : s[k] = q[l]
    <3>1. CASE k < i
      <4>1. k \in 1..Len(q)  BY <3>1, <1>2, <1>7
      <4> QED  BY <3>1, <4>1, <1>7
    <3>2. CASE ~(k < i)
      <4>1. PICK l \in 1..Len(q) : l = k+1  BY <3>2, <1>2, <1>7
      <4> QED  BY <3>2, <4>1, <1>7
    <3> QED  BY <3>1, <3>2
  <2> QED  BY <2>1, <1>3
<1>10. ASSUME NEW k \in 1..Len(q), k # i PROVE \E l \in 1..Len(s) : s[l] = q[k]
  <2>1. CASE k < i  BY <2>1, <1>2, <1>7
  <2>2. CASE k > i
    <3>1. PICK l \in 1..Len(s) : l+1 = k /\ ~(l < i)
      <4>1. k-1 \in 1..Len(s) /\ (k-1)+1 = k /\ ~(k-1 < i)  BY <2>2, <1>2, <1>7
      <4> QED  BY <4>1
    <3> QED  BY <3>1, <1>7
  <2> QED  BY <2>1, <2>2, <1>2, <1>10
<1>11. ASSUME NEW b \in Buckets, b # h
       PROVE  Strand(Buckets, Nodes, b, L[b]) /\ Thread(r, b, L[b]) /\ \A k \in 1..Len(L[b]) : B[L[b][k]] = b
  <2>1. Strand(Buckets, Nodes, b, L[b]) /\ Thread(m, b, L[b]) /\ \A k \in 1..Len(L[b]) : B[L[b][k]] = b
    BY ChainFacts
  <2>2. r.link[b] = m.link[b]
    <3>1. b # n /\ b \notin Nodes /\ b # NULL  BY <1>2, Distinct
    <3>2. b # p
      <4>1. \A k \in 1..Len(q) : q[k] \in Nodes  BY <1>3
      <4> QED  BY <3>1, <4>1, <1>11 DEF p, Place
    <3> QED  BY <3>1, <3>2, <1>1, <1>4 DEF Untied
  <2>3. ASSUME NEW k \in 1..Len(L[b])
        PROVE  r.link[L[b][k]] = m.link[L[b][k]] /\ r.pprev[L[b][k]] = m.pprev[L[b][k]]
    <3>1. L[b][k] \in Nodes /\ B[L[b][k]] = b  BY <1>3
    <3>2. L[b][k] # n /\ L[b][k] # p /\ L[b][k] # t  BY <3>1, <1>2, <1>5, <1>11
    <3> QED  BY <3>1, <3>2, <1>1, <1>4 DEF Untied
  <2> QED  BY <2>1, <2>2, <2>3, ThreadLeftAlone
<1>12. ASSUME NEW b \in Buckets
       PROVE  /\ Strand(Buckets, Nodes, b, K[b]) /\ Thread(r, b, K[b])
              /\ \A k \in 1..Len(K[b]) : B[K[b][k]] = b
  <2>1. CASE b = h
    <3>1. K[b] = s  BY <2>1, <1>8
    <3> QED  BY <2>1, <3>1, <1>6, <1>9
  <2>2. CASE b # h
    <3>1. K[b] = L[b]  BY <2>2, <1>8
    <3> QED  BY <2>2, <3>1, <1>11
  <2> QED  BY <2>1, <2>2
<1>13. ASSUME NEW x \in Nodes, x # n, OnChain(L, B, x)  PROVE OnChain(K, B, x)
  <2>1. PICK k \in 1..Len(L[B[x]]) : L[B[x]][k] = x  BY <1>13 DEF OnChain
  <2>2. CASE B[x] = h
    <3>1. k \in 1..Len(q) /\ q[k] = x /\ k # i  BY <2>1, <2>2, <1>13
    <3>2. PICK l \in 1..Len(s) : s[l] = q[k]  BY <3>1, <1>10
    <3> QED  BY <2>2, <3>1, <3>2, <1>8 DEF OnChain
  <2>3. CASE B[x] # h
    <3>1. K[B[x]] = L[B[x]]  BY <2>3, <1>8
    <3> QED  BY <2>1, <3>1 DEF OnChain
  <2> QED  BY <2>2, <2>3
<1>14. ASSUME NEW x \in Nodes, r.pprev[x] # NULL  PROVE OnChain(K, B, x)
  <2>1. x # n  BY <1>4, <1>14
  <2>2. CASE x # t
    <3>1. r.pprev[x] = m.pprev[x]  BY <2>1, <2>2, <1>1, <1>4 DEF Untied
    <3> QED  BY <2>1, <3>1, <1>13, <1>14 DEF Good
  <2>3. CASE x = t
    <3>1. PICK k \in 1..Len(q) : q[k] = x
      <4>1. x # NULL /\ h # x  BY Distinct
      <4> QED  BY <2>3, <4>1 DEF t, Place
    <3>2. B[x] = h  BY <3>1, <1>3
    <3>3. OnChain(L, B, x)  BY <3>1, <3>2 DEF OnChain
    <3> QED  BY <2>1, <3>3, <1>13
  <2> QED  BY <2>2, <2>3
<1>15. Good(r, K, B)
  BY <1>4, <1>8, <1>12, <1>14 DEF Good
<1> QED  BY <1>13, <1>15 DEF r, s, K

-----------------------------------------------------------------------------
(* What a change of the lists leaves of a loop.                            *)

\* From place i on, s has the nodes that q has from place j on, but for those gone.
Onward(q, j, s, i, gone) ==
  /\ \A x \in i..Len(s) : \E y \in j..Len(q) : s[x] = q[y]
  /\ \A y \in j..Len(q) : q[y] \notin gone => \E x \in i..Len(s) : s[x] = q[y]

\* A loop that is at place j of q, and one that is at place i of s, go on from the
\* same node, which is the one at that place, or the one in front of it.
SameNext(q, j, s, i) == \A b : Place(b, s, i) = Place(b, q, j)

SameLast(q, j, s, i) == i # 1 /\ s[i-1] = q[j-1]

LEMMA InFrontOnward ==
  ASSUME NEW q \in Seq(Nodes), NEW n \in Nodes, NEW j \in 1..(Len(q)+1), NEW s, s = InsertAt(q, 1, n)
  PROVE  \E i \in 1..(Len(s)+1) :
           Onward(q, j, s, i, {}) /\ SameNext(q, j, s, i) /\ (j # 1 => SameLast(q, j, s, i))
<1>1. /\ s \in Seq(Nodes) /\ Len(q) \in Nat /\ Len(s) = Len(q) + 1
      /\ \A k \in 1..Len(s) : s[k] = IF k = 1 THEN n ELSE q[k-1]
  BY InFront, LenProperties
<1>2. \A k \in 1..Len(q), x \in Nat : x = k+1 => x \in 1..Len(s) /\ s[x] = q[k]
  BY <1>1
<1>3. PICK i \in 1..(Len(s)+1) : i = j+1 /\ i-1 = j /\ i # 1 /\ i # 0  BY <1>1
<1>4. ASSUME NEW x \in i..Len(s) PROVE \E y \in j..Len(q) : s[x] = q[y]
  <2>1. PICK y \in j..Len(q) : x = y+1 /\ y \in 1..Len(q) /\ x \in Nat
    <3>1. x-1 \in j..Len(q) /\ x = (x-1)+1 /\ x-1 \in 1..Len(q) /\ x \in Nat  BY <1>1, <1>3
    <3> QED  BY <3>1
  <2> QED  BY <2>1, <1>2
<1>5. ASSUME NEW y \in j..Len(q) PROVE \E x \in i..Len(s) : s[x] = q[y]
  <2>1. PICK x \in i..Len(s) : x = y+1 /\ y \in 1..Len(q) /\ x \in Nat  BY <1>1, <1>3
  <2> QED  BY <2>1, <1>2
<1>6. SameNext(q, j, s, i)
  <2>1. CASE j \in 1..Len(q)
    <3>1. i \in 1..Len(s) /\ s[i] = q[j]  BY <2>1, <1>2, <1>3
    <3> QED  BY <2>1, <3>1, <1>3 DEF Place, SameNext
  <2>2. CASE j \notin 1..Len(q)
    <3>1. i \notin 1..Len(s) /\ j # 0  BY <2>2, <1>1, <1>3
    <3> QED  BY <2>2, <3>1, <1>3 DEF Place, SameNext
  <2> QED  BY <2>1, <2>2
<1>7. ASSUME j # 1 PROVE SameLast(q, j, s, i)
  <2>1. PICK k \in 1..Len(q) : k = j-1 /\ j = k+1 /\ j \in Nat
    <3>1. j-1 \in 1..Len(q) /\ j = (j-1)+1 /\ j \in Nat  BY <1>1, <1>7
    <3> QED  BY <3>1
  <2>2. s[j] = q[k]  BY <2>1, <1>2
  <2> QED  BY <2>1, <2>2, <1>3 DEF SameLast
<1>8. Onward(q, j, s, i, {})  BY <1>4, <1>5 DEF Onward
<1> QED  BY <1>6, <1>7, <1>8

LEMMA RemoveOnward ==
  ASSUME NEW q \in Seq(Nodes), NEW d \in 1..Len(q), NEW j \in 1..(Len(q)+1), NEW s, s = RemoveAt(q, d)
  PROVE  \E i \in 1..(Len(s)+1) :
           /\ Onward(q, j, s, i, {q[d]})
           /\ j # d => SameNext(q, j, s, i)
           /\ j # 1 /\ q[j-1] # q[d] => SameLast(q, j, s, i)
<1>1. /\ s \in Seq(Nodes) /\ Len(q) \in Nat /\ Len(s) = Len(q) - 1
      /\ \A k \in 1..Len(s) : s[k] = IF k < d THEN q[k] ELSE q[k+1]
  BY RemoveAtFacts, LenProperties
<1>2. \A k \in 1..Len(q) : k < d => k \in 1..Len(s) /\ s[k] = q[k]
  BY <1>1
<1>3. \A k \in 1..Len(q), x \in Nat : k > d /\ x+1 = k => x \in 1..Len(s) /\ s[x] = q[k]
  BY <1>1
<1>4. PICK i \in 1..(Len(s)+1) : IF d < j THEN j = i+1 ELSE i = j
  <2>1. CASE d < j
    <3>1. j-1 \in 1..(Len(s)+1) /\ j = (j-1)+1  BY <2>1, <1>1
    <3> QED  BY <2>1, <3>1
  <2>2. CASE ~(d < j)
    <3>1. j \in 1..(Len(s)+1)  BY <2>2, <1>1
    <3> QED  BY <2>2, <3>1
  <2> QED  BY <2>1, <2>2
<1>5. ASSUME NEW x \in i..Len(s) PROVE \E y \in j..Len(q) : s[x] = q[y]
  <2>1. x \in 1..Len(s) /\ x \in Nat  BY <1>1
  <2>2. CASE x < d
    <3>1. x \in j..Len(q) /\ x \in 1..Len(q)  BY <2>1, <2>2, <1>1, <1>4
    <3> QED  BY <2>2, <3>1, <1>2
  <2>3. CASE ~(x < d)
    <3>1. PICK y \in j..Len(q) : x+1 = y /\ y > d /\ y \in 1..Len(q)
      <4>1. x+1 \in j..Len(q) /\ x+1 > d /\ x+1 \in 1..Len(q)  BY <2>1, <2>3, <1>1, <1>4
      <4> QED  BY <4>1
    <3> QED  BY <2>1, <3>1, <1>3
  <2> QED  BY <2>2, <2>3
<1>6. ASSUME NEW y \in j..Len(q), q[y] # q[d] PROVE \E x \in i..Len(s) : s[x] = q[y]
  <2>1. y \in 1..Len(q) /\ y # d  BY <1>1, <1>6
  <2>2. CASE y < d
    <3>1. y \in i..Len(s)  BY <2>1, <2>2, <1>1, <1>4
    <3> QED  BY <2>1, <2>2, <3>1, <1>2
  <2>3. CASE y > d
    <3>1. PICK x \in i..Len(s) : x+1 = y /\ x \in Nat
      <4>1. y-1 \in i..Len(s) /\ (y-1)+1 = y /\ y-1 \in Nat  BY <2>1, <2>3, <1>1, <1>4
      <4> QED  BY <4>1
    <3> QED  BY <2>1, <2>3, <3>1, <1>3
  <2> QED  BY <2>1, <2>2, <2>3
<1>7. ASSUME j # d PROVE SameNext(q, j, s, i)
  <2>1. i # 0 /\ j # 0  BY <1>1
  <2>2. CASE j \in 1..Len(q)
    <3>1. i \in 1..Len(s) /\ s[i] = q[j]
      <4>1. CASE d < j
        <5>1. i \in Nat /\ i+1 = j /\ j > d  BY <4>1, <1>1, <1>4
        <5> QED  BY <2>2, <5>1, <1>3
      <4>2. CASE ~(d < j)
        <5>1. i = j /\ j < d  BY <4>2, <1>4, <1>7
        <5> QED  BY <2>2, <5>1, <1>2
      <4> QED  BY <4>1, <4>2
    <3> QED  BY <2>1, <2>2, <3>1 DEF Place, SameNext
  <2>3. CASE j \notin 1..Len(q)
    <3>1. i \notin 1..Len(s)  BY <2>3, <1>1, <1>4
    <3> QED  BY <2>1, <2>3, <3>1 DEF Place, SameNext
  <2> QED  BY <2>2, <2>3
<1>8. ASSUME j # 1, q[j-1] # q[d] PROVE SameLast(q, j, s, i)
  <2>1. PICK k \in 1..Len(q) : k = j-1 /\ j = k+1 /\ k # d
    <3>1. j-1 \in 1..Len(q) /\ j = (j-1)+1 /\ j-1 # d  BY <1>1, <1>8
    <3> QED  BY <3>1
  <2>2. CASE d < j
    <3>1. PICK x \in Nat : x+1 = k /\ x = i-1 /\ k > d /\ i # 1
      <4>1. i-1 \in Nat /\ (i-1)+1 = k /\ k > d /\ i # 1  BY <2>1, <2>2, <1>1, <1>4
      <4> QED  BY <4>1
    <3> QED  BY <2>1, <3>1, <1>3 DEF SameLast
  <2>3. CASE ~(d < j)
    <3>1. i-1 = k /\ k < d /\ i # 1  BY <2>1, <2>3, <1>1, <1>4
    <3> QED  BY <2>1, <3>1, <1>2 DEF SameLast
  <2> QED  BY <2>2, <2>3
<1>9. Onward(q, j, s, i, {q[d]})  BY <1>5, <1>6 DEF Onward
<1> QED  BY <1>7, <1>8, <1>9

\* What a loop has ahead it keeps ahead.
LEMMA AheadKept ==
  ASSUME NEW L, NEW B, NEW l, NEW j, Ahead(L, B, l, j), NEW K, NEW i, NEW k, NEW gone,
         k.bkt = l.bkt, k.to = l.to, k.seen = l.seen, k.stayed \subseteq l.stayed \ gone,
         Onward(L[l.bkt], j, K[l.bkt], i, gone), \A n \in k.stayed : OnChain(K, B, n)
  PROVE  Ahead(K, B, k, i)
<1>1. \A x \in i..Len(K[l.bkt]) : K[l.bkt][x] \notin l.seen  BY DEF Ahead, Onward
<1>2. ASSUME NEW n \in k.stayed
      PROVE  /\ OnChain(K, B, n) /\ B[n] <= l.to
             /\ \/ n \in l.seen \/ l.bkt < B[n]
                \/ \E x \in i..Len(K[l.bkt]) : K[l.bkt][x] = n
  <2>1. /\ B[n] <= l.to /\ n \notin gone
        /\ n \in l.seen \/ l.bkt < B[n] \/ \E y \in j..Len(L[l.bkt]) : L[l.bkt][y] = n
    BY DEF Ahead
  <2> QED  BY <2>1 DEF Onward
<1>3. l.bkt <= l.to /\ \A n \in l.seen : B[n] <= l.bkt  BY DEF Ahead
<1> QED  BY <1>1, <1>2, <1>3 DEF Ahead

\* A loop in its turn stays in it if the lists K have the nodes ahead that L had.
LEMMA TurnKept ==
  ASSUME NEW L, NEW B, NEW l \in Loops, NEW j, InTurn(L, B, l, j), NEW K, NEW gone,
         NEW i \in 1..(Len(K[l.bkt])+1), Onward(L[l.bkt], j, K[l.bkt], i, gone),
         l.safe => SameNext(L[l.bkt], j, K[l.bkt], i),
         ~l.safe => SameLast(L[l.bkt], j, K[l.bkt], i),
         \A n \in l.stayed \ gone : OnChain(K, B, n)
  PROVE  LoopOK(K, B, [l EXCEPT !.op = "turn", !.stayed = @ \ gone])
<1> DEFINE k == [l EXCEPT !.op = "turn", !.stayed = @ \ gone]
<1>1. /\ k \in Loops /\ k.op = "turn" /\ k.bkt = l.bkt /\ k.to = l.to /\ k.seen = l.seen
      /\ k.safe = l.safe /\ k.tmp = l.tmp /\ k.obj = l.obj /\ k.stayed = l.stayed \ gone
  BY DEF Loops
<1> HIDE DEF k
<1>2. Ahead(L, B, l, j)  BY DEF InTurn
<1>3. Ahead(K, B, k, i)  BY <1>1, <1>2, AheadKept
<1>4. InTurn(K, B, k, i)
  <2>1. CASE l.safe  BY <2>1, <1>1, <1>3 DEF InTurn, SameNext
  <2>2. CASE ~l.safe  BY <2>2, <1>1, <1>3 DEF InTurn, SameLast
  <2> QED  BY <2>1, <2>2
<1>5. \E x \in 1..(Len(K[k.bkt])+1) : InTurn(K, B, k, x)  BY <1>1, <1>4
<1> QED  BY <1>1, <1>5 DEF LoopOK, k

\* A bucket that does not change leaves a loop over it where it is.
LEMMA SameOnward ==
  ASSUME NEW q, NEW j, NEW gone
  PROVE  Onward(q, j, q, j, gone) /\ SameNext(q, j, q, j) /\ (j # 1 => SameLast(q, j, q, j))
BY DEF Onward, SameNext, SameLast

\* A node added in front of a bucket leaves a loop where it is.
LEMMA AddLoopOK ==
  ASSUME NEW L \in [Buckets -> Seq(Nodes)], NEW B \in [Nodes -> Buckets], NEW n \in Nodes,
         NEW l, LoopOK(L, B, l), l.op = "turn", NEW K,
         K[B[n]] = InsertAt(L[B[n]], 1, n), \A b \in Buckets \ {B[n]} : K[b] = L[b],
         \A x \in Nodes : OnChain(L, B, x) => OnChain(K, B, x)
  PROVE  LoopOK(K, B, l)
<1> DEFINE q == L[l.bkt]
           s == K[l.bkt]
<1>1. l \in Loops /\ l.bkt \in Buckets /\ l.stayed \subseteq Nodes /\ l.stayed = l.stayed \ {}
      /\ q \in Seq(Nodes)
  BY DEF LoopOK, Loops
<1>2. PICK j \in 1..(Len(q)+1) : InTurn(L, B, l, j)
  BY DEF LoopOK
<1>3. \A x \in l.stayed \ {} : OnChain(K, B, x)
  BY <1>1, <1>2 DEF InTurn, Ahead
<1>4. PICK i \in 1..(Len(s)+1) :
        Onward(q, j, s, i, {}) /\ SameNext(q, j, s, i) /\ (j # 1 => SameLast(q, j, s, i))
  <2>1. CASE l.bkt = B[n]
    <3>1. s = InsertAt(q, 1, n)  BY <2>1
    <3> HIDE DEF q, s
    <3> QED  BY <3>1, <1>1, InFrontOnward
  <2>2. CASE l.bkt # B[n]
    <3>1. s = q  BY <2>2, <1>1
    <3> HIDE DEF q, s
    <3> QED  BY <3>1, SameOnward
  <2> QED  BY <2>1, <2>2
<1>5. ~l.safe => j # 1  BY <1>2 DEF InTurn
<1>6. l = [l EXCEPT !.op = "turn", !.stayed = @ \ {}]  BY <1>1 DEF Loops
<1>7. LoopOK(K, B, [l EXCEPT !.op = "turn", !.stayed = @ \ {}])
  BY <1>1, <1>2, <1>3, <1>4, <1>5, TurnKept
<1> QED  BY <1>6, <1>7

\* A node that goes leaves a loop where it is, if the loop does not go on from it.
LEMMA DelLoopOK ==
  ASSUME NEW L \in [Buckets -> Seq(Nodes)], NEW B \in [Nodes -> Buckets],
         NEW h \in Buckets, NEW d \in 1..Len(L[h]),
         NEW l, LoopOK(L, B, l), l.op = "turn", L[h][d] # IF l.safe THEN l.tmp ELSE l.obj, NEW K,
         K[h] = RemoveAt(L[h], d), \A b \in Buckets \ {h} : K[b] = L[b],
         \A x \in Nodes \ {L[h][d]} : OnChain(L, B, x) => OnChain(K, B, x)
  PROVE  LoopOK(K, B, [l EXCEPT !.stayed = @ \ {L[h][d]}])
<1> DEFINE n == L[h][d]
           q == L[l.bkt]
           s == K[l.bkt]
<1>1. l \in Loops /\ l.bkt \in Buckets /\ l.stayed \subseteq Nodes /\ q \in Seq(Nodes) /\ Len(q) \in Nat
  BY LenProperties DEF LoopOK, Loops
<1>2. PICK j \in 1..(Len(q)+1) : InTurn(L, B, l, j)
  BY DEF LoopOK
<1>3. \A x \in l.stayed \ {n} : OnChain(K, B, x)
  BY <1>1, <1>2 DEF InTurn, Ahead
<1>4. PICK i \in 1..(Len(s)+1) : /\ Onward(q, j, s, i, {n})
                                 /\ l.safe => SameNext(q, j, s, i)
                                 /\ ~l.safe => SameLast(q, j, s, i)
  <2>0. ~l.safe => j # 1 /\ l.obj = q[j-1]  BY <1>2 DEF InTurn
  <2>1. CASE l.bkt = h
    <3>1. s = RemoveAt(q, d) /\ d \in 1..Len(q) /\ n = q[d]  BY <2>1
    <3>2. l.safe => j # d
      <4>1. d # 0  BY <1>1, <3>1
      <4>2. j = d => Place(l.bkt, q, j) = n  BY <3>1, <4>1 DEF Place
      <4> QED  BY <4>2, <1>2 DEF InTurn
    <3> HIDE DEF q, s, n
    <3>3. ~l.safe => j # 1 /\ q[j-1] # q[d]  BY <2>0, <3>1 DEF n
    <3>4. PICK i \in 1..(Len(s)+1) : /\ Onward(q, j, s, i, {q[d]})
                                     /\ j # d => SameNext(q, j, s, i)
                                     /\ j # 1 /\ q[j-1] # q[d] => SameLast(q, j, s, i)
      BY <3>1, <1>1, RemoveOnward
    <3> QED  BY <3>1, <3>2, <3>3, <3>4
  <2>2. CASE l.bkt # h
    <3>1. s = q  BY <2>2, <1>1
    <3> HIDE DEF q, s, n
    <3> QED  BY <2>0, <3>1, SameOnward
  <2> QED  BY <2>1, <2>2
<1>5. [l EXCEPT !.stayed = @ \ {n}] = [l EXCEPT !.op = "turn", !.stayed = @ \ {n}]
  BY <1>1 DEF Loops
<1>6. LoopOK(K, B, [l EXCEPT !.op = "turn", !.stayed = @ \ {n}])
  <2> HIDE DEF n
  <2> QED  BY <1>1, <1>2, <1>3, <1>4, TurnKept
<1> QED  BY <1>5, <1>6

-----------------------------------------------------------------------------
(* A turn of a loop.                                                       *)

LEMMA SelfAtMost ==
  ASSUME NEW b \in Buckets
  PROVE  b <= b
BY HashTableAssumption DEF Buckets

\* Where a loop may arrive: it has what is from place j on still ahead.
LEMMA ArriveOK ==
  ASSUME NEW L, NEW B \in [Nodes -> Buckets], Good(mem, L, B), NEW l \in Loops,
         NEW j \in 1..(Len(L[l.bkt])+1), Ahead(L, B, l, j),
         NEW a, a = Arrive(l, Place(l.bkt, L[l.bkt], j))
  PROVE  /\ LoopOK(L, B, a)
         /\ a.op = "turn" => a.obj \in Nodes \ l.seen /\ mem.pprev[a.obj] # NULL /\ B[a.obj] = a.bkt
<1> DEFINE b == l.bkt
           q == L[b]
           obj == Place(b, q, j)
<1>1. b \in Buckets /\ l.seen \subseteq Nodes  BY DEF Loops
<1>2. /\ Strand(Buckets, Nodes, b, q) /\ Len(q) \in Nat
      /\ \A i \in 1..Len(q) : /\ q[i] \in Nodes /\ B[q[i]] = b /\ mem.pprev[q[i]] # NULL
                              /\ mem.link[q[i]] = Place(b, q, i+1)
                              /\ mem.link[q[i]] \in Nodes \cup {NULL}
  BY <1>1, ChainFacts
<1>3. j # 0 /\ NULL \notin Nodes  BY <1>2, Distinct
<1>4. CASE j \in 1..Len(q)
  <2>1. obj = q[j] /\ obj \in Nodes /\ obj # NULL  BY <1>2, <1>3, <1>4 DEF Place
  <2>2. a = [l EXCEPT !.op = "turn", !.obj = obj, !.seen = @ \cup {obj},
                      !.tmp = IF l.safe THEN mem.link[obj] ELSE NULL]
    BY <2>1 DEF Arrive
  <2>3. mem.link[obj] = Place(b, q, j+1) /\ mem.link[obj] \in Nodes \cup {NULL}
        /\ mem.pprev[obj] # NULL /\ B[obj] = b
    BY <2>1, <1>2, <1>4
  <2> HIDE DEF obj
  <2>4. /\ a \in Loops /\ a.op = "turn" /\ a.obj = obj /\ a.bkt = b /\ a.to = l.to /\ a.safe = l.safe
        /\ a.seen = l.seen \cup {obj} /\ a.stayed = l.stayed
        /\ l.safe => a.tmp = mem.link[obj]
    <3>1. PICK seen : seen = l.seen \cup {obj}  OBVIOUS
    <3>2. PICK tmp : tmp = IF l.safe THEN mem.link[obj] ELSE NULL  OBVIOUS
    <3>3. seen \in SUBSET Nodes /\ tmp \in Nodes \cup {NULL}  BY <1>1, <2>1, <2>3, <3>1, <3>2
    <3>4. a = [l EXCEPT !.op = "turn", !.obj = obj, !.seen = seen, !.tmp = tmp]
      BY <2>2, <3>1, <3>2
    <3>5. /\ a.op = "turn" /\ a.obj = obj /\ a.bkt = l.bkt /\ a.to = l.to /\ a.safe = l.safe
          /\ a.seen = seen /\ a.stayed = l.stayed /\ a.tmp = tmp
      BY <3>4 DEF Loops
    <3>6. a \in Loops
      BY <2>1, <3>3, <3>4 DEF Loops
    <3> QED  BY <3>1, <3>2, <3>5, <3>6
  <2>5. obj \notin l.seen
    <3>1. j \in j..Len(q)  BY <1>2, <1>4
    <3> QED  BY <2>1, <3>1 DEF Ahead
  <2>6. PICK i \in 1..(Len(q)+1) : i = j+1 /\ i-1 = j /\ i # 1  BY <1>2, <1>4
  <2>7. Ahead(L, B, a, i)
    <3>1. l.bkt <= l.to /\ \A n \in l.seen \cup {obj} : B[n] <= b
      <4>1. b <= b  BY <1>1, SelfAtMost
      <4> QED  BY <4>1, <2>3 DEF Ahead
    <3>2. ASSUME NEW x \in i..Len(q) PROVE q[x] \notin l.seen \cup {obj}
      <4>1. x \in j..Len(q) /\ x \in 1..Len(q) /\ x # j  BY <1>2, <2>6
      <4>2. q[x] # q[j]  BY <4>1, <1>2, <1>4 DEF Strand
      <4> QED  BY <4>1, <4>2, <2>1 DEF Ahead
    <3>3. ASSUME NEW n \in l.stayed
          PROVE  /\ OnChain(L, B, n) /\ B[n] <= l.to
                 /\ n \in l.seen \cup {obj} \/ b < B[n] \/ \E x \in i..Len(q) : q[x] = n
      <4>1. /\ OnChain(L, B, n) /\ B[n] <= l.to
            /\ n \in l.seen \/ b < B[n] \/ \E x \in j..Len(q) : q[x] = n
        BY DEF Ahead
      <4>2. \A x \in j..Len(q) : x = j \/ x \in i..Len(q)  BY <1>2, <2>6
      <4> QED  BY <4>1, <4>2, <2>1
    <3> QED  BY <2>4, <3>1, <3>2, <3>3 DEF Ahead
  <2>8. InTurn(L, B, a, i)
    <3>1. CASE l.safe  BY <3>1, <2>3, <2>4, <2>6, <2>7 DEF InTurn
    <3>2. CASE ~l.safe  BY <3>2, <2>1, <2>4, <2>6, <2>7 DEF InTurn
    <3> QED  BY <3>1, <3>2
  <2>9. \E x \in 1..(Len(L[a.bkt])+1) : InTurn(L, B, a, x)  BY <2>4, <2>8
  <2>10. LoopOK(L, B, a)  BY <2>4, <2>9 DEF LoopOK
  <2> QED  BY <2>1, <2>3, <2>4, <2>5, <2>10
<1>5. CASE j \notin 1..Len(q)
  <2>1. obj = NULL  BY <1>3, <1>5 DEF Place
  <2>2. a = [l EXCEPT !.op = "bucket", !.obj = NULL]  BY <2>1 DEF Arrive
  <2>3. /\ a \in Loops /\ a.op = "bucket" /\ a.bkt = b /\ a.to = l.to
        /\ a.seen = l.seen /\ a.stayed = l.stayed
    BY <2>2 DEF Loops
  <2>4. Ahead(L, B, a, j)  BY <2>3 DEF Ahead
  <2>5. \E x \in 1..(Len(L[a.bkt])+1) : x \notin 1..Len(L[a.bkt]) /\ Ahead(L, B, a, x)
    BY <1>5, <2>3, <2>4
  <2>6. LoopOK(L, B, a)  BY <2>3, <2>5 DEF LoopOK
  <2> QED  BY <2>3, <2>6
<1> QED  BY <1>4, <1>5

\* A loop that goes over to a bucket has all of it ahead.
LEMMA BucketAhead ==
  ASSUME NEW m, NEW L, NEW B \in [Nodes -> Buckets], Good(m, L, B), NEW l \in Loops,
         l.bkt <= l.to, \A n \in l.seen : B[n] < l.bkt,
         \A n \in l.stayed : m.pprev[n] # NULL /\ B[n] <= l.to /\ (n \in l.seen \/ l.bkt <= B[n])
  PROVE  Ahead(L, B, l, 1)
<1> DEFINE b == l.bkt
           q == L[b]
<1>1. b \in Buckets /\ b \in Int /\ l.seen \subseteq Nodes /\ l.stayed \subseteq Nodes
      /\ \A n \in Nodes : B[n] \in Int
  BY Distinct DEF Loops
<1>2. \A i \in 1..Len(q) : q[i] \in Nodes /\ B[q[i]] = b  BY <1>1, ChainFacts
<1>3. \A i \in 1..Len(q) : q[i] \notin l.seen  BY <1>1, <1>2
<1>4. ASSUME NEW n \in l.stayed
      PROVE  /\ OnChain(L, B, n) /\ B[n] <= l.to
             /\ n \in l.seen \/ b < B[n] \/ \E x \in 1..Len(q) : q[x] = n
  <2>1. OnChain(L, B, n)  BY <1>1, OnChainFacts
  <2>2. B[n] = b => \E x \in 1..Len(q) : q[x] = n  BY <2>1 DEF OnChain
  <2>3. n \in l.seen \/ b < B[n] \/ B[n] = b  BY <1>1
  <2> QED  BY <2>1, <2>2, <2>3
<1>5. \A n \in l.seen : B[n] <= b  BY <1>1
<1> QED  BY <1>3, <1>4, <1>5 DEF Ahead

-----------------------------------------------------------------------------
(* The steps.                                                              *)

LEMMA HomesFacts ==
  ASSUME IInv
  PROVE  Homes \in [Nodes -> Buckets] /\ \A n \in Nodes : Homes[n] = BucketOf(n)
BY DEF IInv, Homes, BucketOf

\* One function is the hash function of a behaviour.
LEMMA SameHomes ==
  ASSUME UNCHANGED <<hash, key>>
  PROVE  Homes' = Homes
BY DEF Homes, BucketOf

\* What every step but the initialisation has to keep.
LEMMA StepIInv ==
  ASSUME IInv, ready, UNCHANGED <<ready, hash, key>>, NEW K, Good(mem', K, Homes),
         loop' = NoLoop \/ LoopOK(K, Homes, loop')
  PROVE  IInv'
<1>1. Homes' = Homes  BY SameHomes
<1>2. Linked(K)'  BY <1>1 DEF Linked
<1>3. mem' \in HMemory(Buckets, Nodes)  BY DEF Good
<1>4. (\E L : Linked(L))'  BY <1>2
<1> QED  BY <1>3, <1>4 DEF IInv

\* A table that was just initialised.
Fresh ==
  /\ mem \in HMemory(Buckets, Nodes) /\ ready = TRUE /\ hash \in [Keys -> Buckets]
  /\ key \in [Nodes -> Keys] /\ loop = NoLoop
  /\ \A b \in Buckets : mem.link[b] = NULL
  /\ \A n \in Nodes : mem.pprev[n] = NULL

LEMMA FreshIInv == Fresh => IInv
<1> SUFFICES ASSUME Fresh PROVE IInv  OBVIOUS
<1>1. Homes \in [Nodes -> Buckets]  BY DEF Homes, BucketOf, Fresh
<1>2. Good(mem, [b \in Buckets |-> <<>>], Homes)  BY <1>1, EmptyGood DEF Fresh
<1>3. Linked([b \in Buckets |-> <<>>])  BY <1>2 DEF Linked, Fresh
<1> QED  BY <1>3 DEF IInv, Fresh

LEMMA InitIInv == Init => IInv
<1> SUFFICES ASSUME Init PROVE IInv  OBVIOUS
<1>1. mem \in HMemory(Buckets, Nodes) /\ \A n \in Nodes : mem.pprev[n] = NULL
  BY DEF Init, HMemory
<1>2. CASE ready
  <2>1. \A b \in Buckets : mem.link[b] = NULL  BY <1>2 DEF Init
  <2> QED  BY <1>1, <1>2, <2>1, FreshIInv DEF Init, Fresh
<1>3. CASE ~ready  BY <1>1, <1>3 DEF Init, IInv
<1> QED  BY <1>2, <1>3

LEMMA HashInitKept ==
  ASSUME IInv, HashInit
  PROVE  IInv'
<1>1. mem \in HMemory(Buckets, Nodes) /\ DOMAIN mem.link = Buckets \cup Nodes
      /\ \A n \in Nodes : mem.pprev[n] = NULL
  BY DEF IInv, HMemory, HashInit, hash_hashed, hlist_unhashed
<1>2. /\ mem' \in HMemory(Buckets, Nodes)
      /\ \A b \in Buckets : mem'.link[b] = NULL
      /\ \A n \in Nodes : mem'.pprev[n] = NULL
  BY <1>1 DEF HashInit, __hash_init, HMemory, Buckets
<1>3. /\ ready' = TRUE /\ hash' \in [Keys -> Buckets] /\ key' \in [Nodes -> Keys] /\ loop' = NoLoop
  BY DEF HashInit, IInv
<1>4. Fresh'  BY <1>2, <1>3 DEF Fresh
<1> QED  BY <1>4, FreshIInv, PTL

LEMMA HashAddKept ==
  ASSUME IInv, NEW node \in Nodes, HashAdd(node)
  PROVE  IInv'
<1> DEFINE B == Homes
<1>1. B \in [Nodes -> Buckets] /\ B[node] = BucketOf(node) /\ B[node] \in Buckets  BY HomesFacts
<1> HIDE DEF B
<1>2. PICK L : Linked(L)  BY DEF IInv, HashAdd
<1>3. Good(mem, L, B) /\ L \in [Buckets -> Seq(Nodes)]  BY <1>2 DEF Linked, Good, B
<1> DEFINE K == [L EXCEPT ![B[node]] = InsertAt(L[B[node]], 1, node)]
<1>4. mem.pprev[node] = NULL  BY DEF HashAdd, hash_hashed, hlist_unhashed
<1>5. Good(mem', K, B) /\ \A x \in Nodes : OnChain(L, B, x) => OnChain(K, B, x)
  <2>1. mem' = hlist_add_head(mem, node, B[node])  BY <1>1 DEF HashAdd
  <2> QED  BY <2>1, <1>1, <1>3, <1>4, AddGood
<1>6. K[B[node]] = InsertAt(L[B[node]], 1, node) /\ \A b \in Buckets \ {B[node]} : K[b] = L[b]
  BY <1>1, <1>3
<1> HIDE DEF K
<1>7. loop' = NoLoop \/ LoopOK(K, B, loop')
  <2>1. loop' = loop  BY DEF HashAdd
  <2>2. CASE loop = NoLoop  BY <2>1, <2>2
  <2>3. CASE loop # NoLoop
    <3>1. LoopOK(L, B, loop)  BY <1>2, <2>3 DEF Linked, B
    <3>2. loop.op = "turn"  BY <3>1 DEF HashAdd, Callable, LoopOK, Loops
    <3> QED  BY <2>1, <3>1, <3>2, <1>1, <1>3, <1>5, <1>6, AddLoopOK
  <2> QED  BY <2>2, <2>3
<1>8. ready /\ UNCHANGED <<ready, hash, key>>  BY DEF HashAdd
<1> QED  BY <1>5, <1>7, <1>8, StepIInv DEF B

\* hash_del() of a node that is in no table leaves the loop where it is, too.
LEMMA AbsentLoopOK ==
  ASSUME NEW L, NEW B, NEW l, LoopOK(L, B, l), l.op = "turn", NEW n
  PROVE  LoopOK(L, B, [l EXCEPT !.stayed = @ \ {n}])
<1>1. l \in Loops  BY DEF LoopOK
<1>2. PICK j \in 1..(Len(L[l.bkt])+1) : InTurn(L, B, l, j)  BY DEF LoopOK
<1>3. \A x \in l.stayed \ {n} : OnChain(L, B, x)  BY <1>2 DEF InTurn, Ahead
<1>4. ~l.safe => j # 1  BY <1>2 DEF InTurn
<1>5. LoopOK(L, B, [l EXCEPT !.op = "turn", !.stayed = @ \ {n}])
  BY <1>1, <1>2, <1>3, <1>4, SameOnward, TurnKept
<1>6. [l EXCEPT !.stayed = @ \ {n}] = [l EXCEPT !.op = "turn", !.stayed = @ \ {n}]
  BY <1>1 DEF Loops
<1> QED  BY <1>5, <1>6

LEMMA HashDelKept ==
  ASSUME IInv, NEW node \in Nodes, HashDel(node)
  PROVE  IInv'
<1> DEFINE B == Homes
           l == [loop EXCEPT !.stayed = @ \ {node}]
<1>1. B \in [Nodes -> Buckets] /\ B[node] \in Buckets  BY HomesFacts
<1> HIDE DEF B
<1>2. PICK L : Linked(L)  BY DEF IInv, HashDel
<1>3. Good(mem, L, B) /\ L \in [Buckets -> Seq(Nodes)]  BY <1>2 DEF Linked, Good, B
<1>4. loop # NoLoop => /\ LoopOK(L, B, loop) /\ loop.op = "turn" /\ loop' = l
                       /\ node # IF loop.safe THEN loop.tmp ELSE loop.obj
  <2> SUFFICES ASSUME loop # NoLoop
               PROVE  /\ LoopOK(L, B, loop) /\ loop.op = "turn" /\ loop' = l
                      /\ node # IF loop.safe THEN loop.tmp ELSE loop.obj
    OBVIOUS
  <2>1. LoopOK(L, B, loop)  BY <1>2 DEF Linked, B
  <2>2. loop.op = "turn"  BY <2>1 DEF HashDel, Callable, LoopOK, Loops
  <2>3. node # Anchor /\ loop' = l  BY DEF HashDel
  <2>4. Anchor = IF loop.safe THEN loop.tmp ELSE loop.obj  BY <2>2 DEF Anchor
  <2> QED  BY <2>1, <2>2, <2>3, <2>4
<1>5. loop = NoLoop => loop' = NoLoop  BY DEF HashDel
<1> HIDE DEF l
<1>6. ready /\ UNCHANGED <<ready, hash, key>> /\ mem' = hlist_del_init(mem, node)  BY DEF HashDel
<1>7. CASE mem.pprev[node] = NULL
  <2>1. mem' = mem  BY <1>6, <1>7 DEF hlist_del_init, hlist_unhashed
  <2>2. loop # NoLoop => LoopOK(L, B, l)  BY <1>4, AbsentLoopOK DEF l
  <2>3. Good(mem', L, B)  BY <2>1, <1>3
  <2> QED  BY <2>2, <2>3, <1>4, <1>5, <1>6, StepIInv DEF B
<1>8. CASE mem.pprev[node] # NULL
  <2>1. PICK d \in 1..Len(L[B[node]]) : L[B[node]][d] = node
    BY <1>3, <1>8 DEF Good, OnChain
  <2> DEFINE h == B[node]
             K == [L EXCEPT ![h] = RemoveAt(L[h], d)]
  <2>2. Good(mem', K, B) /\ \A x \in Nodes \ {L[h][d]} : OnChain(L, B, x) => OnChain(K, B, x)
    BY <2>1, <1>1, <1>3, <1>6, DelGood
  <2>3. K[h] = RemoveAt(L[h], d) /\ \A b \in Buckets \ {h} : K[b] = L[b]
    BY <1>1, <1>3
  <2>4. h \in Buckets /\ d \in 1..Len(L[h]) /\ L[h][d] = node  BY <1>1, <2>1
  <2> HIDE DEF K, h
  <2>5. ASSUME loop # NoLoop PROVE LoopOK(K, B, l)
    <3>1. L[h][d] # IF loop.safe THEN loop.tmp ELSE loop.obj  BY <1>4, <2>4, <2>5
    <3>2. LoopOK(K, B, [loop EXCEPT !.stayed = @ \ {L[h][d]}])
      BY <1>1, <1>3, <1>4, <2>2, <2>3, <2>4, <2>5, <3>1, DelLoopOK
    <3> QED  BY <2>4, <3>2 DEF l
  <2> QED  BY <2>2, <2>5, <1>4, <1>5, <1>6, StepIInv DEF B
<1> QED  BY <1>7, <1>8


\* The bucket, and the place in it, that a loop arrives at.
LEMMA ArriveKept ==
  ASSUME IInv, ready, UNCHANGED <<mem, ready, hash, key>>, NEW L, Good(mem, L, Homes),
         NEW l \in Loops, NEW j \in 1..(Len(L[l.bkt])+1), Ahead(L, Homes, l, j),
         loop' = Arrive(l, Place(l.bkt, L[l.bkt], j))
  PROVE  /\ IInv'
         /\ loop'.op = "turn" =>
              loop'.obj \notin l.seen /\ hash_hashed(loop'.obj) /\ BucketOf(loop'.obj) = loop'.bkt
<1> DEFINE B == Homes
<1>1. B \in [Nodes -> Buckets] /\ \A n \in Nodes : B[n] = BucketOf(n)  BY HomesFacts
<1>2. Good(mem, L, B) /\ Ahead(L, B, l, j) /\ mem' = mem  OBVIOUS
<1> HIDE DEF B
<1>3. PICK a : a = Arrive(l, Place(l.bkt, L[l.bkt], j)) /\ a = loop'  OBVIOUS
<1>4. /\ LoopOK(L, B, a)
      /\ a.op = "turn" => a.obj \in Nodes \ l.seen /\ mem.pprev[a.obj] # NULL /\ B[a.obj] = a.bkt
  BY <1>1, <1>2, <1>3, ArriveOK
<1>5. Good(mem', L, Homes) /\ LoopOK(L, Homes, loop')  BY <1>2, <1>3, <1>4 DEF B
<1>6. IInv'  BY <1>5, StepIInv
<1>7. a.op = "turn" => a.obj \notin l.seen /\ hash_hashed(a.obj) /\ BucketOf(a.obj) = a.bkt
  BY <1>1, <1>4 DEF hash_hashed, hlist_unhashed
<1> QED  BY <1>3, <1>6, <1>7

LEMMA LoopStartKept ==
  ASSUME IInv, NEW from \in Buckets, NEW to \in Buckets, from <= to, NEW safe \in BOOLEAN,
         LoopStart(from, to, safe)
  PROVE  IInv'
<1> DEFINE B == Homes
           l == [op |-> "bucket", bkt |-> from, to |-> to, safe |-> safe, obj |-> NULL,
                 tmp |-> NULL, seen |-> {}, stayed |-> InScope(from, to)]
<1>1. B \in [Nodes -> Buckets] /\ \A n \in Nodes : B[n] = BucketOf(n)  BY HomesFacts
<1>2. PICK L : Linked(L)  BY DEF IInv, LoopStart
<1>3. Good(mem, L, B)  BY <1>2 DEF Linked
<1>4. l \in Loops /\ l.bkt = from /\ l.to = to /\ l.seen = {} /\ l.stayed = InScope(from, to)
  BY DEF Loops, InScope
<1>5. mem.link[from] = Place(from, L[from], 1) /\ Len(L[from]) \in Nat  BY <1>3, ChainFacts
<1>6. loop' = Arrive(l, mem.link[from])  BY DEF LoopStart
<1>7. \A n \in InScope(from, to) : /\ mem.pprev[n] # NULL /\ n \in Nodes
                                   /\ from <= B[n] /\ B[n] <= to
  <2>1. \A n \in InScope(from, to) : n \in Nodes /\ B[n] \in from..to /\ mem.pprev[n] # NULL
    BY <1>1 DEF InScope, hash_hashed, hlist_unhashed
  <2>2. \A n \in InScope(from, to) : B[n] \in Int  BY <2>1
  <2>3. from \in Int /\ to \in Int  BY Distinct
  <2> HIDE DEF B
  <2> QED  BY <2>1, <2>2, <2>3
<1> HIDE DEF B, l
<1>8. PICK j : j = 1  OBVIOUS
<1>9. Ahead(L, B, l, 1)
  <2>1. /\ l.bkt <= l.to /\ \A n \in l.seen : B[n] < l.bkt
        /\ \A n \in l.stayed : mem.pprev[n] # NULL /\ B[n] <= l.to /\ (n \in l.seen \/ l.bkt <= B[n])
    BY <1>4, <1>7
  <2> QED  BY <2>1, <1>1, <1>3, <1>4, BucketAhead
<1>10. Ahead(L, Homes, l, j) /\ j \in 1..(Len(L[l.bkt])+1) /\ Good(mem, L, Homes)
       /\ loop' = Arrive(l, Place(l.bkt, L[l.bkt], j))
  BY <1>3, <1>4, <1>5, <1>6, <1>8, <1>9 DEF B
<1>11. ready /\ UNCHANGED <<mem, ready, hash, key>>  BY DEF LoopStart
<1> QED  BY <1>4, <1>10, <1>11, ArriveKept

\* What a turn of a loop takes up (LoopsVisitOnce).
TakesUpANewObject ==
  loop'.op = "turn" =>
    loop'.obj \notin loop.seen /\ hash_hashed(loop'.obj) /\ BucketOf(loop'.obj) = loop'.bkt

LEMMA LoopTurnKept ==
  ASSUME IInv, LoopTurn
  PROVE  IInv' /\ TakesUpANewObject
<1>1. loop # NoLoop /\ ready  BY DEF LoopTurn, NoLoop, IInv
<1>2. PICK L : Linked(L)  BY <1>1 DEF IInv
<1>3. Good(mem, L, Homes) /\ LoopOK(L, Homes, loop)  BY <1>1, <1>2 DEF Linked
<1>4. loop \in Loops /\ loop.op = "turn"  BY <1>3 DEF LoopOK, LoopTurn
<1>5. PICK j \in 1..(Len(L[loop.bkt])+1) : InTurn(L, Homes, loop, j)
  BY <1>3, <1>4 DEF LoopOK
<1> DEFINE b == loop.bkt
           q == L[b]
<1>6. b \in Buckets  BY <1>4 DEF Loops
<1>7. Len(q) \in Nat /\ \A i \in 1..Len(q) : mem.link[q[i]] = Place(b, q, i+1)
  BY <1>3, <1>6, ChainFacts
<1>8. NextNode = Place(b, q, j)
  <2>1. CASE loop.safe  BY <1>5, <2>1 DEF NextNode, InTurn
  <2>2. CASE ~loop.safe
    <3>1. j # 1 /\ loop.obj = q[j-1]  BY <1>5, <2>2 DEF InTurn
    <3>2. j-1 \in 1..Len(q) /\ (j-1)+1 = j
      <4> HIDE DEF q
      <4> QED  BY <1>5, <1>7, <3>1 DEF q
    <3>3. PICK i : i = j-1  OBVIOUS
    <3>4. mem.link[q[i]] = Place(b, q, i+1) /\ i+1 = j /\ loop.obj = q[i]
      BY <1>7, <3>1, <3>2, <3>3
    <3> QED  BY <2>2, <3>4 DEF NextNode
  <2> QED  BY <2>1, <2>2
<1>9. Ahead(L, Homes, loop, j) /\ loop' = Arrive(loop, Place(loop.bkt, L[loop.bkt], j))
  BY <1>5, <1>8 DEF LoopTurn, InTurn
<1>10. UNCHANGED <<mem, ready, hash, key>>  BY DEF LoopTurn
<1> HIDE DEF b, q
<1> QED  BY <1>1, <1>3, <1>4, <1>5, <1>9, <1>10, ArriveKept DEF TakesUpANewObject


\* At the end of a bucket, what stayed and was not seen is in a bucket behind.
LEMMA BucketDone ==
  ASSUME NEW L, NEW B \in [Nodes -> Buckets], Good(mem, L, B), NEW l, LoopOK(L, B, l), l.op = "bucket"
  PROVE  /\ l.bkt <= l.to
         /\ \A n \in l.seen : B[n] <= l.bkt
         /\ \A n \in l.stayed : /\ n \in Nodes /\ mem.pprev[n] # NULL /\ B[n] <= l.to
                                /\ n \in l.seen \/ l.bkt < B[n]
<1>1. l \in Loops  BY DEF LoopOK
<1>2. PICK j \in 1..(Len(L[l.bkt])+1) : j \notin 1..Len(L[l.bkt]) /\ Ahead(L, B, l, j)
  BY DEF LoopOK
<1>3. l.bkt \in Buckets /\ l.stayed \subseteq Nodes  BY <1>1 DEF Loops
<1>4. Len(L[l.bkt]) \in Nat  BY <1>3, ChainFacts
<1>5. j..Len(L[l.bkt]) = {}
  <2> DEFINE n == Len(L[l.bkt])
  <2>1. n \in Nat /\ j \in 1..(n+1) /\ j \notin 1..n  BY <1>2, <1>4
  <2> HIDE DEF n
  <2>2. j..n = {}  BY <2>1
  <2> QED  BY <2>2 DEF n
<1>6. \A n \in l.stayed : mem.pprev[n] # NULL
  BY <1>2, <1>3, OnChainFacts DEF Ahead
<1> QED  BY <1>2, <1>3, <1>5, <1>6 DEF Ahead

LEMMA LoopNextBucketKept ==
  ASSUME IInv, LoopNextBucket
  PROVE  IInv' /\ TakesUpANewObject
<1>1. loop # NoLoop /\ ready  BY DEF LoopNextBucket, NoLoop, IInv
<1>2. PICK L : Linked(L)  BY <1>1 DEF IInv
<1> DEFINE B == Homes
<1>3. Good(mem, L, B) /\ LoopOK(L, B, loop)  BY <1>1, <1>2 DEF Linked
<1>4. loop \in Loops /\ loop.op = "bucket"  BY <1>3 DEF LoopOK, LoopNextBucket
<1>5. B \in [Nodes -> Buckets]  BY HomesFacts
<1>6. UNCHANGED <<mem, ready, hash, key>>  BY DEF LoopNextBucket
<1> HIDE DEF B
<1>7. /\ loop.bkt <= loop.to
      /\ \A n \in loop.seen : B[n] <= loop.bkt
      /\ \A n \in loop.stayed : /\ n \in Nodes /\ mem.pprev[n] # NULL /\ B[n] <= loop.to
                                /\ n \in loop.seen \/ loop.bkt < B[n]
  BY <1>3, <1>4, <1>5, BucketDone
<1>8. loop.bkt \in Buckets /\ loop.to \in Buckets /\ loop.seen \subseteq Nodes
  BY <1>4 DEF Loops
<1>9. loop.bkt \in Int /\ loop.to \in Int /\ \A n \in Nodes : B[n] \in Int
  BY <1>5, <1>8, Distinct
<1>10. CASE loop.bkt < loop.to
  <2>1. NextBucket \in Buckets /\ NextBucket <= loop.to
        /\ \A x \in Int : (x <= loop.bkt => x < NextBucket) /\ (loop.bkt < x => NextBucket <= x)
    BY <1>8, <1>9, <1>10, HashTableAssumption DEF NextBucket, Buckets
  <2> DEFINE l == [loop EXCEPT !.bkt = NextBucket]
  <2>2. /\ l \in Loops /\ l.bkt = NextBucket /\ l.to = loop.to /\ l.seen = loop.seen
        /\ l.stayed = loop.stayed
    BY <1>4, <2>1 DEF Loops
  <2>3. loop' = Arrive(l, mem.link[NextBucket])  BY <1>10 DEF LoopNextBucket
  <2> HIDE DEF l
  <2>4. mem.link[NextBucket] = Place(NextBucket, L[NextBucket], 1) /\ Len(L[NextBucket]) \in Nat
    BY <1>3, <2>1, ChainFacts
  <2>5. Ahead(L, B, l, 1)
    <3>1. \A n \in l.seen : B[n] < l.bkt  BY <1>7, <1>8, <1>9, <2>1, <2>2
    <3>2. \A n \in l.stayed :
            mem.pprev[n] # NULL /\ B[n] <= l.to /\ (n \in l.seen \/ l.bkt <= B[n])
      BY <1>7, <1>9, <2>1, <2>2
    <3> QED  BY <3>1, <3>2, <1>3, <1>5, <2>1, <2>2, BucketAhead
  <2>6. PICK j : j = 1  OBVIOUS
  <2>7. Ahead(L, Homes, l, j) /\ j \in 1..(Len(L[l.bkt])+1) /\ Good(mem, L, Homes)
        /\ loop' = Arrive(l, Place(l.bkt, L[l.bkt], j))
    BY <1>3, <2>2, <2>3, <2>4, <2>5, <2>6 DEF B
  <2> QED  BY <1>1, <1>6, <2>2, <2>7, ArriveKept DEF TakesUpANewObject
<1>11. CASE ~(loop.bkt < loop.to)
  <2> DEFINE l == [loop EXCEPT !.op = "end"]
  <2>1. loop' = l  BY <1>11 DEF LoopNextBucket
  <2>2. l \in Loops /\ l.op = "end" /\ l.seen = loop.seen /\ l.stayed = loop.stayed
    BY <1>4 DEF Loops
  <2> HIDE DEF l
  <2>3. l.stayed \subseteq l.seen  BY <1>7, <1>9, <1>11, <2>2
  <2>4. LoopOK(L, B, l)  BY <2>2, <2>3 DEF LoopOK
  <2>5. Good(mem', L, Homes) /\ LoopOK(L, Homes, loop')  BY <1>3, <1>6, <2>1, <2>4 DEF B
  <2>6. IInv'  BY <1>1, <1>6, <2>5, StepIInv
  <2> QED  BY <2>1, <2>2, <2>6 DEF TakesUpANewObject
<1> QED  BY <1>10, <1>11

\* A loop that is left.
LEMMA LoopLeftKept ==
  ASSUME IInv, LoopBreak \/ LoopEnd
  PROVE  IInv'
<1>1. loop # NoLoop /\ loop' = NoLoop /\ UNCHANGED <<mem, ready, hash, key>>
  BY DEF LoopBreak, LoopEnd, NoLoop
<1>2. ready  BY <1>1 DEF IInv
<1>3. PICK L : Linked(L)  BY <1>2 DEF IInv
<1>4. Good(mem', L, Homes)  BY <1>1, <1>3 DEF Linked
<1> QED  BY <1>1, <1>2, <1>4, StepIInv

LEMMA StutterKept ==
  ASSUME IInv, UNCHANGED vars
  PROVE  IInv'
<1>1. mem' = mem /\ ready' = ready /\ hash' = hash /\ key' = key /\ loop' = loop  BY DEF vars
<1>2. CASE ready
  <2>1. PICK L : Linked(L)  BY <1>2 DEF IInv
  <2>2. Good(mem', L, Homes) /\ (loop' = NoLoop \/ LoopOK(L, Homes, loop'))
    BY <1>1, <2>1 DEF Linked
  <2> QED  BY <1>1, <1>2, <2>2, StepIInv
<1>3. CASE ~ready  BY <1>1, <1>3 DEF IInv
<1> QED  BY <1>2, <1>3

LEMMA InvStep == IInv /\ [Next]_vars => IInv'
<1> SUFFICES ASSUME IInv, [Next]_vars PROVE IInv'  OBVIOUS
<1>1. CASE HashInit  BY <1>1, HashInitKept
<1>2. ASSUME NEW node \in Nodes, HashAdd(node) PROVE IInv'  BY <1>2, HashAddKept
<1>3. ASSUME NEW node \in Nodes, HashDel(node) PROVE IInv'  BY <1>3, HashDelKept
<1>4. ASSUME NEW safe \in BOOLEAN, LoopStart(0, HASH_SIZE-1, safe) PROVE IInv'
  <2>1. PICK from, to : from = 0 /\ to = HASH_SIZE-1  OBVIOUS
  <2>2. from \in Buckets /\ to \in Buckets /\ from <= to
    BY <2>1, HashTableAssumption DEF Buckets
  <2>3. LoopStart(from, to, safe)  BY <1>4, <2>1
  <2> QED  BY <2>2, <2>3, LoopStartKept
<1>5. ASSUME NEW safe \in BOOLEAN, NEW k \in Keys, LoopStart(hash[k], hash[k], safe) PROVE IInv'
  <2>1. hash[k] \in Buckets  BY DEF IInv
  <2>2. hash[k] <= hash[k]  BY <2>1, SelfAtMost
  <2> QED  BY <1>5, <2>1, <2>2, LoopStartKept
<1>6. CASE LoopBreak  BY <1>6, LoopLeftKept
<1>7. CASE Looping  BY <1>7, LoopTurnKept, LoopNextBucketKept, LoopLeftKept DEF Looping
<1>8. CASE UNCHANGED vars  BY <1>8, StutterKept
<1> QED  BY <1>1, <1>2, <1>3, <1>4, <1>5, <1>6, <1>7, <1>8 DEF Next

(***************************************************************************)
(* In every reachable state there are lists, one to a bucket, that the     *)
(* links of the table hold, with every hashed object in the list of its    *)
(* bucket, and the loop that runs has what it has seen before it and       *)
(* what it must still see ahead of it: the macros of hashtable.h, with     *)
(* hash_add() and hash_del() called between any two turns of a loop.       *)
(***************************************************************************)
THEOREM HashTableInvariant == Spec => []IInv
BY InitIInv, InvStep, PTL DEF Spec

-----------------------------------------------------------------------------
(* What the invariant says of the table and of its loops.                  *)

LEMMA LoopsIn == IInv => LoopsMissNobody
<1> SUFFICES ASSUME IInv, loop.op = "end" PROVE loop.stayed \subseteq loop.seen
  BY DEF LoopsMissNobody
<1>1. loop # NoLoop /\ ready  BY DEF NoLoop, IInv
<1>2. PICK L : LoopOK(L, Homes, loop)  BY <1>1 DEF IInv, Linked
<1> QED  BY <1>2 DEF LoopOK

(***************************************************************************)
(* A loop of hashtable.h that ran to its end, over one bucket or over all  *)
(* of them, has had in its body every object that was in its scope all the *)
(* time, whatever the body added or deleted.                               *)
(***************************************************************************)
THEOREM HashTableMissNobody == Spec => []LoopsMissNobody
BY HashTableInvariant, LoopsIn, PTL

LEMMA TurnsIn ==
  IInv => ((LoopTurn \/ LoopNextBucket) /\ loop'.op = "turn" =>
             /\ loop'.obj \notin loop.seen /\ hash_hashed(loop'.obj)
             /\ BucketOf(loop'.obj) = loop'.bkt)
BY LoopTurnKept, LoopNextBucketKept DEF TakesUpANewObject

(***************************************************************************)
(* A turn of a loop of hashtable.h takes up an object that is in the       *)
(* bucket the loop is at, and that the loop has not had before: no object  *)
(* comes twice, though the body may delete one and add it again.           *)
(***************************************************************************)
THEOREM HashTableVisitOnce == Spec => LoopsVisitOnce
<1>1. IInv => [(LoopTurn \/ LoopNextBucket) /\ loop'.op = "turn" =>
                 loop'.obj \notin loop.seen /\ hash_hashed(loop'.obj)
                 /\ BucketOf(loop'.obj) = loop'.bkt]_vars
  BY TurnsIn
<1> QED  BY <1>1, HashTableInvariant, PTL DEF LoopsVisitOnce


LEMMA ObjectsIn == IInv => ObjectsAreInTheirBuckets
<1> SUFFICES ASSUME IInv, ready PROVE ObjectsAreInTheirBuckets
  BY DEF ObjectsAreInTheirBuckets
<1> DEFINE B == Homes
<1>1. B \in [Nodes -> Buckets] /\ \A n \in Nodes : B[n] = BucketOf(n)  BY HomesFacts
<1>2. PICK L : Good(mem, L, B)  BY DEF IInv, Linked
<1> HIDE DEF B
<1>3. IsFiniteSet(Nodes) /\ DOMAIN mem.pprev = Nodes  BY Distinct DEF IInv, HMemory
<1>4. \A n \in Nodes : hash_hashed(n) <=> OnChain(L, B, n)
  BY <1>1, <1>2, OnChainFacts DEF hash_hashed, hlist_unhashed
<1>5. ASSUME NEW b \in Buckets
      PROVE  LET s == hlist_for_each(mem, b)
             IN  ToSet(s) = {n \in Nodes : hash_hashed(n) /\ BucketOf(n) = b} /\ IsInjective(s)
  <2>1. /\ Strand(Buckets, Nodes, b, L[b]) /\ Thread(mem, b, L[b]) /\ L[b] \in Seq(Nodes)
        /\ \A i \in 1..Len(L[b]) : L[b][i] \in Nodes /\ B[L[b][i]] = b
    BY <1>2, ChainFacts
  <2>2. hlist_for_each(mem, b) = L[b]  BY <1>3, <2>1, ThreadVisits
  <2> DEFINE q == L[b]
  <2>3. DOMAIN q = 1..Len(q)  BY <2>1
  <2>4. ToSet(q) = {n \in Nodes : hash_hashed(n) /\ BucketOf(n) = b}
    <3>1. \A n \in Nodes : hash_hashed(n) /\ BucketOf(n) = b => \E i \in 1..Len(q) : q[i] = n
      BY <1>1, <1>4 DEF OnChain
    <3>2. \A i \in 1..Len(q) : q[i] \in Nodes /\ hash_hashed(q[i]) /\ BucketOf(q[i]) = b
      BY <1>1, <1>4, <2>1 DEF OnChain
    <3> HIDE DEF q
    <3> QED  BY <2>3, <3>1, <3>2 DEF ToSet
  <2>5. IsInjective(q)  BY <2>1, <2>3 DEF IsInjective, Strand
  <2> QED  BY <2>2, <2>4, <2>5
<1>6. __hash_empty(mem, HASH_SIZE) <=> \A n \in Nodes : ~hash_hashed(n)
  <2>1. __hash_empty(mem, HASH_SIZE) <=> \A b \in Buckets : mem.link[b] = NULL
    BY DEF __hash_empty, hlist_empty, Buckets
  <2>2. \A b \in Buckets : mem.link[b] = NULL <=> L[b] = <<>>
    <3> SUFFICES ASSUME NEW b \in Buckets PROVE mem.link[b] = NULL <=> L[b] = <<>>  OBVIOUS
    <3>1. mem.link[b] = Place(b, L[b], 1) /\ L[b] \in Seq(Nodes) /\ Len(L[b]) \in Nat
          /\ \A i \in 1..Len(L[b]) : L[b][i] \in Nodes
      BY <1>2, ChainFacts
    <3>2. CASE 1 \in 1..Len(L[b])
      <4>1. mem.link[b] = L[b][1] /\ L[b][1] \in Nodes  BY <3>1, <3>2 DEF Place
      <4>2. L[b] # <<>>  BY <3>2
      <4> QED  BY <4>1, <4>2, Distinct
    <3>3. CASE 1 \notin 1..Len(L[b])
      <4>1. mem.link[b] = NULL  BY <3>1, <3>3 DEF Place
      <4>2. Len(L[b]) = 0  BY <3>1, <3>3
      <4> QED  BY <4>1, <4>2, <3>1
    <3> QED  BY <3>2, <3>3
  <2>3. ASSUME \A b \in Buckets : L[b] = <<>>, NEW n \in Nodes PROVE ~hash_hashed(n)
    <3>1. L[B[n]] = <<>>  BY <1>1, <2>3
    <3>2. Len(<<>>) = 0 /\ 1..0 = {}  OBVIOUS
    <3> QED  BY <1>4, <3>1, <3>2 DEF OnChain
  <2>4. ASSUME \A n \in Nodes : ~hash_hashed(n), NEW b \in Buckets PROVE L[b] = <<>>
    <3>1. /\ L[b] \in Seq(Nodes) /\ Len(L[b]) \in Nat
          /\ \A i \in 1..Len(L[b]) : L[b][i] \in Nodes /\ B[L[b][i]] = b
      BY <1>2, ChainFacts
    <3>2. \A i \in 1..Len(L[b]) : OnChain(L, B, L[b][i])  BY <3>1 DEF OnChain
    <3>3. 1..Len(L[b]) = {}  BY <1>4, <2>4, <3>1, <3>2
    <3>4. Len(L[b]) = 0
      <4>1. PICK n \in Nat : n = Len(L[b])  BY <3>1
      <4>2. \A i \in 1..n : FALSE  BY <3>3, <4>1
      <4>3. n # 0 => 1 \in 1..n  BY <4>1
      <4> QED  BY <4>1, <4>2, <4>3
    <3> QED  BY <3>1, <3>4
  <2> QED  BY <2>1, <2>2, <2>3, <2>4
<1> QED  BY <1>5, <1>6 DEF ObjectsAreInTheirBuckets

(***************************************************************************)
(* An object is in a table exactly if a loop over the bucket of its key    *)
(* comes to it, once, and no other bucket holds it, and hash_empty() says  *)
(* whether there is any: the links keep this through every call, those of  *)
(* the body of a running loop too.                                         *)
(***************************************************************************)
THEOREM HashTableObjects == Spec => []ObjectsAreInTheirBuckets
BY HashTableInvariant, ObjectsIn, PTL

=============================================================================
