------------------------------ MODULE ListProofs ------------------------------
EXTENDS List, RingProofs

-----------------------------------------------------------------------------
(* The cells around one head.                                              *)

\* The entries q of the head h are nodes, and no node is there twice.
Chain(h, q) ==
  /\ h \in Heads
  /\ q \in Seq(Nodes)
  /\ \A i, j \in 1..Len(q) : q[i] = q[j] => i = j

\* A chain is a circle of RingProofs, whose entries are nodes.
LEMMA ChainIsCircle ==
  ASSUME NEW h, NEW q \in Seq(Nodes)
  PROVE  Chain(h, q) <=> h \in Heads /\ Circle(Addr, h, q)
<1>1. Len(q) \in Nat /\ \A i \in 1..Len(q) : q[i] \in Nodes
  BY LenProperties, ElementOfSeq
<1>2. q \in Seq(Addr)
  <2>1. q = [i \in 1..Len(q) |-> q[i]] /\ \A i \in 1..Len(q) : q[i] \in Addr
    BY <1>1, LenProperties DEF Addr
  <2> QED  BY <1>1, <2>1, SeqDef
<1> QED  BY <1>1, <1>2, CellsAssumption DEF Chain, Circle, Addr

\* At gives the cells of a ring: the head outside 1..Len(q), no node twice.
LEMMA AtFacts ==
  ASSUME NEW h, NEW q, Chain(h, q)
  PROVE  /\ Len(q) \in Nat
         /\ \A i \in 1..Len(q) : At(h, q, i) = q[i] /\ q[i] \in Nodes /\ q[i] # h
         /\ At(h, q, 0) = h /\ At(h, q, Len(q)+1) = h
         /\ \A i : At(h, q, i) \in Addr
         /\ \A i, j \in 0..Len(q) : At(h, q, i) = At(h, q, j) => i = j
         /\ \A i, j \in 1..(Len(q)+1) : At(h, q, i) = At(h, q, j) => i = j
<1>1. Circle(Addr, h, q) /\ q \in Seq(Nodes)
  BY ChainIsCircle DEF Chain
<1>2. \A i \in 1..Len(q) : q[i] \in Nodes
  BY <1>1, ElementOfSeq
<1> QED  BY <1>1, <1>2, CircleCells

\* __list_add between two neighbours of a ring, even when both are the head
\* (list.h:70-78), for the cells of this program.
LEMMA InsertRing ==
  ASSUME NEW h, NEW q, Chain(h, q), NEW m \in Memory(Addr), Ring(m, h, q),
         NEW n \in Nodes, \A k \in 1..Len(q) : q[k] # n, NEW i \in 1..(Len(q)+1)
  PROVE  LET r == __list_add(m, n, At(h, q, i-1), At(h, q, i))
             s == InsertAt(q, i, n)
         IN  Chain(h, s) /\ Ring(r, h, s)
<1>1. Circle(Addr, h, q) /\ q \in Seq(Nodes) /\ h \in Heads
  BY ChainIsCircle DEF Chain
<1>2. n \in Addr \ {h}
  BY <1>1, CellsAssumption DEF Addr
<1>3. InsertAt(q, i, n) \in Seq(Nodes)
  BY <1>1, InsertAtFacts
<1> QED  BY <1>1, <1>2, <1>3, CircleAdd, ChainIsCircle

\* __list_del_entry of an entry (list.h:134-137), for the cells of this program.
LEMMA RemoveRing ==
  ASSUME NEW h, NEW q, Chain(h, q), NEW m \in Memory(Addr), Ring(m, h, q),
         NEW i \in 1..Len(q)
  PROVE  LET r == __list_del_entry(m, q[i])
             s == RemoveAt(q, i)
         IN  /\ Chain(h, s) /\ Ring(r, h, s)
             /\ r = __list_del(m, At(h, q, i-1), At(h, q, i+1))
<1>1. Circle(Addr, h, q) /\ q \in Seq(Nodes) /\ h \in Heads
  BY ChainIsCircle DEF Chain
<1>2. RemoveAt(q, i) \in Seq(Nodes)
  BY <1>1, RemoveAtFacts
<1> QED  BY <1>1, <1>2, CircleDel, ChainIsCircle

-----------------------------------------------------------------------------
(* All the lists together.  Good(m, L) is the inductive invariant, as a    *)
(* relation between a memory and the lists it should hold, so that the     *)
(* lemmas on the memory primitives compose the way list.h composes them.   *)

LiveIn(L) == {h \in Heads : L[h] # Undefined}

AllLists == [Heads -> Seq(Nodes) \cup {Undefined}]

Good(m, L) ==
  /\ m \in Memory(Addr)
  /\ L \in AllLists
  /\ \A h, g \in LiveIn(L) : \A i \in 1..Len(L[h]), j \in 1..Len(L[g]) :
       L[h][i] = L[g][j] => h = g /\ i = j
  /\ \A h \in LiveIn(L) : Ring(m, h, L[h])

\* The cell x is on no list of L.
Off(L, x) == \A h \in LiveIn(L) : x # h /\ \A i \in 1..Len(L[h]) : L[h][i] # x

\* In a good memory a live list is a ring, and no other live list has its cells.
LEMMA GoodFacts ==
  ASSUME NEW m, NEW L, Good(m, L), NEW h \in LiveIn(L)
  PROVE  /\ Chain(h, L[h]) /\ Ring(m, h, L[h])
         /\ \A g \in LiveIn(L) \ {h} : \A i, j : At(h, L[h], i) # At(g, L[g], j)
<1>1. \A g \in LiveIn(L) : g \in Heads /\ L[g] \in Seq(Nodes)
  BY DEF Good, LiveIn, AllLists
<1>2. \A g \in LiveIn(L) : Chain(g, L[g])
  BY <1>1 DEF Chain, Good
<1>3. ASSUME NEW g \in LiveIn(L) \ {h}, NEW i, NEW j PROVE At(h, L[h], i) # At(g, L[g], j)
  <2>1. \A k \in 1..Len(L[h]) : L[h][k] \in Nodes  BY <1>1, ElementOfSeq
  <2>2. \A k \in 1..Len(L[g]) : L[g][k] \in Nodes  BY <1>1, ElementOfSeq
  <2> QED  BY <2>1, <2>2, <1>1, CellsAssumption DEF At, Good
<1> QED  BY <1>2, <1>3 DEF Good

\* A good memory stays good for fewer live lists.
LEMMA Forget ==
  ASSUME NEW m, NEW L, Good(m, L), NEW h \in Heads
  PROVE  Good(m, [L EXCEPT ![h] = Undefined])
<1> DEFINE M == [L EXCEPT ![h] = Undefined]
<1>1. M \in AllLists  BY DEF AllLists, Good
<1>2. \A g \in LiveIn(M) : g \in LiveIn(L) /\ M[g] = L[g]
  BY DEF Good, LiveIn, AllLists
<1> HIDE DEF M
<1>3. Good(m, M)  BY <1>1, <1>2 DEF Good
<1> QED  BY <1>3 DEF M

\* A ring whose own links are not written is still the ring of its list.
LEMMA UntouchedRing ==
  ASSUME NEW h, NEW q, Chain(h, q), NEW m, NEW r, Ring(m, h, q),
         \A i : /\ r.next[At(h, q, i)] = m.next[At(h, q, i)]
                /\ r.prev[At(h, q, i)] = m.prev[At(h, q, i)]
  PROVE  Ring(r, h, q)
BY AtFacts DEF Ring

\* No entry of s is on a list of L other than that of h.
Apart(L, h, s) ==
  \A g \in LiveIn(L) \ {h} : \A j \in 1..Len(L[g]), k \in 1..Len(s) : L[g][j] # s[k]

\* From m to r, no cell of a list of L other than that of h is written.
Spares(m, r, L, h) ==
  \A g \in LiveIn(L) \ {h} : \A j :
    /\ r.next[At(g, L[g], j)] = m.next[At(g, L[g], j)]
    /\ r.prev[At(g, L[g], j)] = m.prev[At(g, L[g], j)]

\* A list changes, in memory that belongs to no other list.
LEMMA UpdateOne ==
  ASSUME NEW m, NEW L, Good(m, L), NEW h, NEW s, NEW r \in Memory(Addr),
         Chain(h, s), Ring(r, h, s), Apart(L, h, s), Spares(m, r, L, h)
  PROVE  Good(r, [L EXCEPT ![h] = s])
<1> DEFINE M == [L EXCEPT ![h] = s]
<1>1. M \in AllLists /\ M[h] = s /\ h \in Heads /\ s # Undefined
  BY CellsAssumption DEF AllLists, Good, Chain
<1>2. \A g \in LiveIn(M) \ {h} : g \in LiveIn(L) /\ M[g] = L[g]
  BY DEF Good, LiveIn, AllLists
<1> HIDE DEF M
<1>3. ASSUME NEW g \in LiveIn(M) PROVE Ring(r, g, M[g])
  <2>1. CASE g = h  BY <2>1, <1>1
  <2>2. CASE g # h
    <3>1. g \in LiveIn(L) \ {h} /\ M[g] = L[g] /\ Chain(g, L[g]) /\ Ring(m, g, L[g])
      BY <2>2, <1>2, GoodFacts
    <3>2. Ring(r, g, L[g])  BY <3>1, UntouchedRing DEF Spares
    <3> QED  BY <3>1, <3>2
  <2> QED  BY <2>1, <2>2
<1>4. ASSUME NEW f \in LiveIn(M), NEW g \in LiveIn(M), NEW i \in 1..Len(M[f]), NEW j \in 1..Len(M[g]),
             M[f][i] = M[g][j]
      PROVE  f = g /\ i = j
  <2>1. CASE f = h /\ g = h   BY <2>1, <1>1, <1>4 DEF Chain
  <2>2. CASE f = h /\ g # h   BY <2>2, <1>1, <1>2, <1>4 DEF Apart
  <2>3. CASE f # h /\ g = h   BY <2>3, <1>1, <1>2, <1>4 DEF Apart
  <2>4. CASE f # h /\ g # h   BY <2>4, <1>2, <1>4 DEF Good
  <2> QED  BY <2>1, <2>2, <2>3, <2>4
<1> QED  BY <1>1, <1>3, <1>4 DEF Good, M

\* Whatever is written to a cell on no list, the lists are not disturbed.
LEMMA WriteOff ==
  ASSUME NEW m, NEW L, Good(m, L), NEW x \in Addr, Off(L, x), NEW p
  PROVE  /\ p \in Addr \cup {NULL, LIST_POISON1} => Good(SetNext(m, x, p), L)
         /\ p \in Addr \cup {NULL, LIST_POISON2} => Good(SetPrev(m, x, p), L)
<1> DEFINE a == SetNext(m, x, p)
           b == SetPrev(m, x, p)
<1>1. /\ p \in Addr \cup {NULL, LIST_POISON1} => a \in Memory(Addr)
      /\ p \in Addr \cup {NULL, LIST_POISON2} => b \in Memory(Addr)
  BY DEF Good, Memory, SetNext, SetPrev
<1>2. \A g \in LiveIn(L) : \A i : At(g, L[g], i) # x /\ At(g, L[g], i) \in Addr
  BY GoodFacts, AtFacts DEF Off, At
<1>3. \A y \in Addr \ {x} : /\ a.next[y] = m.next[y] /\ a.prev[y] = m.prev[y]
                            /\ b.next[y] = m.next[y] /\ b.prev[y] = m.prev[y]
  BY DEF Good, Memory, SetNext, SetPrev
<1> HIDE DEF a, b
<1>4. \A g \in LiveIn(L) : Ring(a, g, L[g]) /\ Ring(b, g, L[g])
  BY <1>2, <1>3, GoodFacts, UntouchedRing
<1> QED  BY <1>1, <1>4 DEF Good, a, b

\* In particular, initialising such a cell does not.
LEMMA InitOff ==
  ASSUME NEW m, NEW L, Good(m, L), NEW x \in Addr, Off(L, x)
  PROVE  Good(INIT_LIST_HEAD(m, x), L)
<1>1. Good(SetNext(m, x, x), L)
  BY WriteOff
<1> QED  BY <1>1, WriteOff DEF INIT_LIST_HEAD

\* INIT_LIST_HEAD makes a head the ring of the empty list (list.h:51-62).
LEMMA EmptyRing ==
  ASSUME NEW m \in Memory(Addr), NEW h \in Heads
  PROVE  /\ Chain(h, <<>>)
         /\ INIT_LIST_HEAD(m, h) \in Memory(Addr)
         /\ Ring(INIT_LIST_HEAD(m, h), h, <<>>)
<1>1. <<>> \in Seq(Nodes) /\ Len(<<>>) = 0  BY EmptySeq
<1>2. \A i : At(h, <<>>, i) = h  BY <1>1 DEF At
<1>3. INIT_LIST_HEAD(m, h) \in Memory(Addr) /\ INIT_LIST_HEAD(m, h).next[h] = h /\ INIT_LIST_HEAD(m, h).prev[h] = h
  BY DEF INIT_LIST_HEAD, SetNext, SetPrev, Memory, Addr
<1> QED  BY <1>1, <1>2, <1>3 DEF Chain, Ring

\* INIT_LIST_HEAD of any head keeps the memory good and its list is then empty.
LEMMA InitHeadGood ==
  ASSUME NEW m, NEW L, Good(m, L), NEW h \in Heads
  PROVE  Good(INIT_LIST_HEAD(m, h), [L EXCEPT ![h] = <<>>])
<1> DEFINE r == INIT_LIST_HEAD(m, h)
<1>1. \A y \in Addr \ {h} : r.next[y] = m.next[y] /\ r.prev[y] = m.prev[y]
  BY DEF Good, INIT_LIST_HEAD, SetNext, SetPrev, Memory
<1>2. \A g \in LiveIn(L) \ {h} : \A j : At(g, L[g], j) # h /\ At(g, L[g], j) \in Addr
  <2> SUFFICES ASSUME NEW g \in LiveIn(L) \ {h}, NEW j PROVE At(g, L[g], j) # h /\ At(g, L[g], j) \in Addr
    OBVIOUS
  <2>1. Chain(g, L[g])  BY GoodFacts
  <2> QED  BY <2>1, AtFacts, CellsAssumption DEF At
<1>3. r \in Memory(Addr) /\ Chain(h, <<>>) /\ Ring(r, h, <<>>)
  BY EmptyRing DEF Good
<1>4. \A k \in 1..Len(<<>>) : FALSE  OBVIOUS
<1> HIDE DEF r
<1>5. Good(r, [L EXCEPT ![h] = <<>>])
  <2> DEFINE s == <<>>
  <2>1. Chain(h, s) /\ Ring(r, h, s) /\ \A k \in 1..Len(s) : FALSE
    BY <1>3, <1>4
  <2> HIDE DEF s
  <2>2. Good(r, [L EXCEPT ![h] = s])
    <3>1. Apart(L, h, s)  BY <2>1 DEF Apart
    <3>2. Spares(m, r, L, h)  BY <1>1, <1>2 DEF Spares
    <3> QED  BY <1>3, <2>1, <3>1, <3>2, UpdateOne
  <2> QED  BY <2>2 DEF s
<1> QED  BY <1>5 DEF r

-----------------------------------------------------------------------------
(* Insertion, removal and replacement of an entry.                         *)

\* Inserting a detached node keeps the memory good; list_add and list_add_tail
\* are the same insertion seen from the cell before and the cell after.
LEMMA InsertGood ==
  ASSUME NEW m, NEW L, Good(m, L), NEW h \in LiveIn(L), NEW n \in Nodes, Off(L, n),
         NEW i \in 1..(Len(L[h])+1)
  PROVE  LET r == __list_add(m, n, At(h, L[h], i-1), At(h, L[h], i))
         IN  /\ Good(r, With(L, h, i, n))
             /\ list_add(m, n, At(h, L[h], i-1)) = r
             /\ list_add_tail(m, n, At(h, L[h], i)) = r
<1> DEFINE q == L[h]
           p == At(h, q, i-1)
           t == At(h, q, i)
           r == __list_add(m, n, p, t)
           s == InsertAt(q, i, n)
<1>1. /\ Chain(h, q) /\ Ring(m, h, q) /\ m \in Memory(Addr)
      /\ Len(q) \in Nat /\ i \in 1..(Len(q)+1)
  BY GoodFacts, AtFacts DEF Good
<1>2. \A k \in 1..Len(q) : q[k] # n
  BY DEF Off
<1>3. p \in Addr /\ t \in Addr /\ n \in Addr
  BY <1>1, AtFacts DEF Addr
<1>4. /\ Chain(h, s) /\ Ring(r, h, s) /\ Len(s) = Len(q)+1
      /\ \A k \in 1..Len(s) : s[k] = IF k < i THEN q[k] ELSE IF k = i THEN n ELSE q[k-1]
  <2> HIDE DEF q
  <2>1. Chain(h, s) /\ Ring(r, h, s)
    BY <1>1, <1>2, InsertRing
  <2>2. q \in Seq(Nodes)
    BY <1>1 DEF Chain
  <2> QED  BY <1>1, <2>1, <2>2, InsertAtFacts
<1>5. /\ r \in Memory(Addr)
      /\ \A y \in Addr \ {n, p, t} : r.next[y] = m.next[y] /\ r.prev[y] = m.prev[y]
  BY <1>1, <1>3 DEF Memory, SetNext, SetPrev, __list_add
<1>6. Spares(m, r, L, h)
  <2> SUFFICES ASSUME NEW g \in LiveIn(L) \ {h}, NEW j
               PROVE  At(g, L[g], j) \in Addr \ {n, p, t}
    BY <1>5 DEF Spares
  <2>1. At(g, L[g], j) \in Addr  BY GoodFacts, AtFacts
  <2>2. At(g, L[g], j) # p /\ At(g, L[g], j) # t  BY GoodFacts
  <2>3. At(g, L[g], j) # n  BY DEF Off, At
  <2> QED  BY <2>1, <2>2, <2>3
<1>7. Apart(L, h, s)
  <2> SUFFICES ASSUME NEW g \in LiveIn(L) \ {h}, NEW j \in 1..Len(L[g]), NEW k \in 1..Len(s)
               PROVE  L[g][j] # s[k]
    BY DEF Apart
  <2>1. /\ Len(s) = Len(q)+1
        /\ s[k] = IF k < i THEN q[k] ELSE IF k = i THEN n ELSE q[k-1]
    <3> HIDE DEF q, s
    <3> QED  BY <1>4
  <2>2. L[g][j] # n  BY DEF Off
  <2>3. \A d \in 1..Len(q) : L[g][j] # q[d]  BY DEF Good
  <2>4. CASE k < i
    BY <2>4, <2>1, <2>3, <1>1
  <2>5. CASE k = i
    BY <2>5, <2>1, <2>2
  <2>6. CASE k > i
    <3>1. k-1 \in 1..Len(q)  BY <2>6, <2>1, <1>1
    <3> QED  BY <3>1, <2>6, <2>1, <2>3
  <2> QED  BY <2>4, <2>5, <2>6, <2>1, <1>1
<1>8. m.next[p] = t /\ m.prev[t] = p
  <2>1. i-1 \in 0..Len(q) /\ i-1+1 = i  BY <1>1
  <2> QED  BY <2>1, <1>1 DEF Ring
<1>9. Good(r, [L EXCEPT ![h] = s])
  <2> HIDE DEF r, s
  <2> QED  BY <1>4, <1>5, <1>6, <1>7, UpdateOne
<1> QED  BY <1>8, <1>9 DEF With, list_add, list_add_tail

\* Unlinking an entry keeps the memory good and leaves the entry on no list.
LEMMA RemoveGood ==
  ASSUME NEW m, NEW L, Good(m, L), NEW h \in LiveIn(L), NEW i \in 1..Len(L[h])
  PROVE  LET r == __list_del_entry(m, L[h][i])
         IN  /\ Good(r, Without(L, h, i))
             /\ Off(Without(L, h, i), L[h][i])
             /\ r = __list_del(m, At(h, L[h], i-1), At(h, L[h], i+1))
<1> DEFINE q == L[h]
           p == At(h, q, i-1)
           t == At(h, q, i+1)
           r == __list_del(m, p, t)
           s == RemoveAt(q, i)
           M == Without(L, h, i)
<1>1. /\ Chain(h, q) /\ Ring(m, h, q) /\ m \in Memory(Addr)
      /\ Len(q) \in Nat /\ i \in 1..Len(q)
  BY GoodFacts, AtFacts DEF Good
<1>2. p \in Addr /\ t \in Addr
  BY <1>1, AtFacts
<1>3. Chain(h, s) /\ Ring(r, h, s) /\ r = __list_del_entry(m, q[i])
  <2> HIDE DEF q
  <2>1. /\ Ring(__list_del_entry(m, q[i]), h, s)
        /\ __list_del_entry(m, q[i]) = r /\ Chain(h, s)
    BY <1>1, RemoveRing
  <2> QED  BY <2>1
<1>4. /\ r \in Memory(Addr)
      /\ \A y \in Addr \ {p, t} : r.next[y] = m.next[y] /\ r.prev[y] = m.prev[y]
  BY <1>1, <1>2 DEF Memory, SetNext, SetPrev, __list_del
<1>5. Spares(m, r, L, h)
  <2> SUFFICES ASSUME NEW g \in LiveIn(L) \ {h}, NEW j
               PROVE  At(g, L[g], j) \in Addr \ {p, t}
    BY <1>4 DEF Spares
  <2>1. At(g, L[g], j) \in Addr  BY GoodFacts, AtFacts
  <2>2. At(g, L[g], j) # p /\ At(g, L[g], j) # t  BY GoodFacts
  <2> QED  BY <2>1, <2>2
<1>6. /\ Len(s) = Len(q) - 1
      /\ \A k \in 1..Len(s) : s[k] = IF k < i THEN q[k] ELSE q[k+1]
  BY <1>1, RemoveAtFacts DEF Chain
<1>7. \A k \in 1..Len(s) : \E d \in 1..Len(q) : d # i /\ s[k] = q[d]
  <2> SUFFICES ASSUME NEW k \in 1..Len(s) PROVE \E d \in 1..Len(q) : d # i /\ s[k] = q[d]
    OBVIOUS
  <2> HIDE DEF s, q
  <2>1. CASE k < i  BY <2>1, <1>1, <1>6
  <2>2. CASE ~(k < i)
    <3>1. k+1 \in 1..Len(q) /\ k+1 # i /\ s[k] = q[k+1]  BY <2>2, <1>1, <1>6
    <3> QED  BY <3>1
  <2> QED  BY <2>1, <2>2
<1>8. Apart(L, h, s)
  <2> HIDE DEF s
  <2> QED  BY <1>7 DEF Apart, Good
<1>9. Good(r, M)
  <2> HIDE DEF r, s
  <2> QED  BY <1>3, <1>4, <1>5, <1>8, UpdateOne DEF Without, s
<1>10. Off(M, q[i])
  <2> SUFFICES ASSUME NEW g \in LiveIn(M)
               PROVE  q[i] # g /\ \A k \in 1..Len(M[g]) : M[g][k] # q[i]
    BY DEF Off
  <2>1. q[i] \in Nodes /\ g \in Heads  BY <1>1, AtFacts DEF LiveIn
  <2>2. CASE g = h
    <3>1. M[g] = s  BY <2>2 DEF Without, Good, AllLists, LiveIn
    <3> HIDE DEF s, M
    <3> QED  BY <2>1, <3>1, <1>1, <1>7, CellsAssumption DEF Chain
  <2>3. CASE g # h
    <3>1. M[g] = L[g] /\ g \in LiveIn(L)  BY <2>3 DEF Without, Good, AllLists, LiveIn
    <3> HIDE DEF M
    <3> QED  BY <2>1, <2>3, <3>1, CellsAssumption DEF Good
  <2> QED  BY <2>2, <2>3
<1> HIDE DEF r, M
<1> QED  BY <1>3, <1>9, <1>10 DEF r, M

\* What unlinking an entry leaves of the other lists and of detached cells.
LEMMA WithoutFacts ==
  ASSUME NEW m, NEW L, Good(m, L), NEW h \in LiveIn(L), NEW i \in 1..Len(L[h])
  PROVE  /\ LiveIn(Without(L, h, i)) = LiveIn(L)
         /\ \A x : Off(L, x) => Off(Without(L, h, i), x)
         /\ \A g \in Heads \ {h} : Without(L, h, i)[g] = L[g]
         /\ Without(L, h, i)[h] = RemoveAt(L[h], i)
<1> DEFINE M == Without(L, h, i)
           s == RemoveAt(L[h], i)
<1>1. L[h] \in Seq(Nodes) /\ Len(L[h]) \in Nat /\ h \in Heads
  BY GoodFacts, AtFacts DEF Chain
<1>2. /\ s \in Seq(Nodes) /\ Len(s) = Len(L[h]) - 1
      /\ \A k \in 1..Len(s) : s[k] = IF k < i THEN L[h][k] ELSE L[h][k+1]
  BY <1>1, RemoveAtFacts
<1>3. M[h] = s /\ \A g \in Heads \ {h} : M[g] = L[g]
  BY <1>1 DEF Without, Good, AllLists
<1> HIDE DEF M, s
<1>4. LiveIn(M) = LiveIn(L)
  BY <1>1, <1>2, <1>3, CellsAssumption DEF LiveIn
<1>5. \A k \in 1..Len(s) : \E d \in 1..Len(L[h]) : s[k] = L[h][d]
  <2> SUFFICES ASSUME NEW k \in 1..Len(s) PROVE \E d \in 1..Len(L[h]) : s[k] = L[h][d]
    OBVIOUS
  <2>1. CASE k < i  BY <2>1, <1>1, <1>2
  <2>2. CASE ~(k < i)
    <3>1. k+1 \in 1..Len(L[h]) /\ s[k] = L[h][k+1]  BY <2>2, <1>1, <1>2
    <3> QED  BY <3>1
  <2> QED  BY <2>1, <2>2
<1>6. ASSUME NEW x, Off(L, x) PROVE Off(M, x)
  <2> SUFFICES ASSUME NEW g \in LiveIn(L)
               PROVE  x # g /\ \A k \in 1..Len(M[g]) : M[g][k] # x
    BY <1>4 DEF Off
  <2>1. CASE g = h  BY <2>1, <1>3, <1>5, <1>6 DEF Off
  <2>2. CASE g # h  BY <2>2, <1>3, <1>6 DEF Off, LiveIn
  <2> QED  BY <2>1, <2>2
<1> QED  BY <1>3, <1>4, <1>6 DEF M, s

\* list_move() and list_move_tail() take an entry off and put it back.
LEMMA MoveGood ==
  ASSUME NEW m, NEW L, Good(m, L), NEW h \in LiveIn(L), NEW i \in 1..Len(L[h]),
         NEW g \in LiveIn(L), NEW j \in 1..(Len(Without(L, h, i)[g]) + 1)
  PROVE  LET left == Without(L, h, i)
             M    == With(left, g, j, L[h][i])
         IN  /\ Good(list_move(m, L[h][i], At(g, left[g], j-1)), M)
             /\ Good(list_move_tail(m, L[h][i], At(g, left[g], j)), M)
<1> DEFINE e == L[h][i]
           left == Without(L, h, i)
           r == __list_del_entry(m, e)
<1>1. Good(r, left) /\ Off(left, e)
  BY RemoveGood
<1>2. g \in LiveIn(left)
  BY WithoutFacts
<1>3. e \in Nodes
  BY GoodFacts, AtFacts
<1> HIDE DEF r, left, e
<1>4. /\ Good(list_add(r, e, At(g, left[g], j-1)), With(left, g, j, e))
      /\ Good(list_add_tail(r, e, At(g, left[g], j)), With(left, g, j, e))
  <2>1. j \in 1..(Len(left[g]) + 1)  BY DEF left
  <2> QED  BY <1>1, <1>2, <1>3, <2>1, InsertGood
<1> QED  BY <1>4 DEF list_move, list_move_tail, r, left, e

\* list_replace() of an entry is its removal and an insertion in the same place.
LEMMA ReplaceGood ==
  ASSUME NEW m, NEW L, Good(m, L), NEW h \in LiveIn(L), NEW i \in 1..Len(L[h]),
         NEW n \in Nodes, Off(L, n)
  PROVE  LET M == [L EXCEPT ![h] = ReplaceAt(L[h], i, n)]
         IN  /\ Good(list_replace(m, L[h][i], n), M)
             /\ Off(M, L[h][i])
<1> DEFINE q == L[h]
           e == q[i]
           p == At(h, q, i-1)
           t == At(h, q, i+1)
           K == Without(L, h, i)
           s == RemoveAt(q, i)
           M == [L EXCEPT ![h] = ReplaceAt(q, i, n)]
<1>1. /\ Chain(h, q) /\ Ring(m, h, q) /\ m \in Memory(Addr)
      /\ Len(q) \in Nat /\ i \in 1..Len(q) /\ h \in Heads /\ q \in Seq(Nodes)
  BY GoodFacts, AtFacts DEF Good, Chain
<1>2. /\ Good(__list_del(m, p, t), K) /\ Off(K, n) /\ Off(K, e)
      /\ h \in LiveIn(K) /\ K[h] = s /\ \A g \in Heads \ {h} : K[g] = L[g]
  BY RemoveGood, WithoutFacts
<1>3. /\ s \in Seq(Nodes) /\ Len(s) = Len(q) - 1
      /\ \A k \in 1..Len(s) : s[k] = IF k < i THEN q[k] ELSE q[k+1]
  <2> HIDE DEF q
  <2> QED  BY <1>1, RemoveAtFacts
<1>4. e \in Addr /\ p \in Addr /\ t \in Addr /\ n \in Addr /\ e \in Nodes
  BY <1>1, AtFacts DEF Addr
<1>5. e # n /\ e # p /\ e # t /\ m.next[e] = t /\ m.prev[e] = p /\ n # p /\ n # t
  <2>1. /\ i \in 0..Len(q) /\ i-1 \in 0..Len(q) /\ i+1 \in 1..(Len(q)+1)
        /\ i-1+1 = i /\ At(h, q, i) = e /\ i # i-1 /\ i # i+1
    BY <1>1, AtFacts
  <2>2. e # n  BY DEF Off
  <2>3. e # p /\ e # t  
    <3> HIDE DEF q, e
    <3> QED BY <1>1, <2>1, AtFacts
  <2>4. m.next[e] = t /\ m.prev[e] = p  
    <3> HIDE DEF q, e
    <3> QED BY <1>1, <2>1 DEF Ring
  <2>5. n # p /\ n # t  BY DEF Off, At
  <2> QED  BY <2>2, <2>3, <2>4, <2>5
<1>6. list_replace(m, e, n) = __list_add(__list_del(m, p, t), n, p, t)
  <2> HIDE DEF e, p, t
  <2>1. /\ list_replace(m, e, n).next = [[m.next EXCEPT ![n] = t] EXCEPT ![p] = n]
        /\ list_replace(m, e, n).prev = [[m.prev EXCEPT ![t] = n] EXCEPT ![n] = p]
    BY <1>1, <1>4, <1>5 DEF list_replace, SetNext, SetPrev, Memory
  <2>2. /\ __list_add(__list_del(m, p, t), n, p, t).next = [[[m.next EXCEPT ![p] = t] EXCEPT ![n] = t] EXCEPT ![p] = n]
        /\ __list_add(__list_del(m, p, t), n, p, t).prev = [[[m.prev EXCEPT ![t] = p] EXCEPT ![t] = n] EXCEPT ![n] = p]
    BY <1>1, <1>4, <1>5 DEF __list_add, __list_del, SetNext, SetPrev, Memory
  <2>3. /\ [[[m.next EXCEPT ![p] = t] EXCEPT ![n] = t] EXCEPT ![p] = n] = [[m.next EXCEPT ![n] = t] EXCEPT ![p] = n]
        /\ [[[m.prev EXCEPT ![t] = p] EXCEPT ![t] = n] EXCEPT ![n] = p] = [[m.prev EXCEPT ![t] = n] EXCEPT ![n] = p]
    BY <1>1, <1>4, <1>5 DEF Memory
  <2> QED  BY <2>1, <2>2, <2>3 DEF list_replace, __list_add, SetNext, SetPrev
<1>7. i \in 1..(Len(s)+1) /\ p = At(h, s, i-1) /\ t = At(h, s, i)
  <2> HIDE DEF q, s
  <2> QED  BY <1>1, <1>3 DEF At
<1>8. Good(list_replace(m, e, n), With(K, h, i, n))
  <2> HIDE DEF p, t, K, e, s
  <2> QED  BY <1>2, <1>6, <1>7, InsertGood
<1>9. InsertAt(s, i, n) = ReplaceAt(q, i, n)
  <2> DEFINE a == InsertAt(s, i, n)
             b == ReplaceAt(q, i, n)
  <2> HIDE DEF q, s
  <2>1. /\ a \in Seq(Nodes) /\ Len(a) = Len(s) + 1
        /\ \A k \in 1..Len(a) : a[k] = IF k < i THEN s[k] ELSE IF k = i THEN n ELSE s[k-1]
    <3>1. s \in Seq(Nodes) /\ i \in 1..(Len(s)+1)  BY <1>3, <1>7
    <3> QED  BY <3>1, InsertAtFacts
  <2>2. /\ b \in Seq(Nodes) /\ Len(b) = Len(q)
        /\ \A k \in 1..Len(q) : b[k] = IF k = i THEN n ELSE q[k]
    BY <1>1, ExceptSeq DEF ReplaceAt
  <2> HIDE DEF a, b
  <2>3. ASSUME NEW k \in 1..Len(a) PROVE a[k] = b[k]
    <3>1. CASE k < i  BY <3>1, <2>1, <2>2, <1>1, <1>3
    <3>2. CASE k = i  BY <3>2, <2>1, <2>2, <1>1, <1>3
    <3>3. CASE k > i
      <4>1. k-1 \in 1..Len(s) /\ ~(k-1 < i) /\ k-1+1 = k  BY <3>3, <2>1, <1>1, <1>3
      <4>2. s[k-1] = q[k]  BY <4>1, <1>3
      <4> QED  BY <4>1, <4>2, <3>3, <2>1, <2>2, <1>1, <1>3
    <3> QED  BY <3>1, <3>2, <3>3, <2>1, <1>1, <1>3
  <2>4. a = b  BY <1>1, <1>3, <2>1, <2>2, <2>3, SeqEqual
  <2> QED  BY <2>4 DEF a, b
<1>10. With(K, h, i, n) = M
  BY <1>1, <1>2, <1>9 DEF With, Without, Good, AllLists
<1>11. Off(M, e)
  <2> SUFFICES ASSUME NEW g \in LiveIn(M)
               PROVE  e # g /\ \A k \in 1..Len(M[g]) : M[g][k] # e
    BY DEF Off
  <2>1. g \in Heads /\ e # g  BY <1>4, CellsAssumption DEF LiveIn
  <2>2. CASE g = h
    <3>1. M[g] = ReplaceAt(q, i, n)  BY <2>2, <1>1 DEF Good, AllLists
    <3>2. /\ Len(ReplaceAt(q, i, n)) = Len(q)
          /\ \A k \in 1..Len(q) : ReplaceAt(q, i, n)[k] = IF k = i THEN n ELSE q[k]
      <4> HIDE DEF q
      <4> QED BY <1>1, ExceptSeq DEF ReplaceAt
    <3> HIDE DEF M, q
    <3> QED  BY <2>1, <3>1, <3>2, <1>1, <1>5 DEF Chain
  <2>3. CASE g # h
    <3>1. M[g] = L[g] /\ g \in LiveIn(L)  BY <2>3 DEF Good, AllLists, LiveIn
    <3> HIDE DEF M
    <3> QED  BY <2>1, <2>3, <3>1 DEF Good
  <2> QED  BY <2>2, <2>3
<1> QED  BY <1>8, <1>10, <1>11

\* list_swap() takes entry2 off, puts it in the place of entry1, and puts entry1
\* back where entry2 was; K1, K2 and K3 are the lists after each of the calls.
LEMMA SwapGood ==
  ASSUME NEW m, NEW L, Good(m, L),
         NEW h \in LiveIn(L), NEW i \in 1..Len(L[h]),
         NEW g \in LiveIn(L), NEW j \in 1..Len(L[g]), ~(h = g /\ i = j)
  PROVE  Good(list_swap(m, L[h][i], L[g][j]),
              [L EXCEPT ![h][i] = L[g][j], ![g][j] = L[h][i]])
<1> DEFINE e1 == L[h][i]
           e2 == L[g][j]
           K1 == Without(L, g, j)
           d  == IF h = g /\ j < i THEN i-1 ELSE i
           K2 == [K1 EXCEPT ![h] = ReplaceAt(K1[h], d, e2)]
           K3 == With(K2, g, j, e1)
           M  == [L EXCEPT ![h][i] = e2, ![g][j] = e1]
           m1 == list_del(m, e2)
           m2 == list_replace(m1, e1, e2)
           pos == m.prev[e2]
           at  == IF pos = e1 THEN e2 ELSE pos
<1>1. /\ h \in Heads /\ L[h] \in Seq(Nodes) /\ Len(L[h]) \in Nat
      /\ g \in Heads /\ L[g] \in Seq(Nodes) /\ Len(L[g]) \in Nat
      /\ Chain(h, L[h]) /\ Chain(g, L[g]) /\ Ring(m, g, L[g])
      /\ e1 \in Nodes /\ e2 \in Nodes /\ e1 # e2 /\ L \in AllLists
  BY GoodFacts, AtFacts, ElementOfSeq DEF Good, Chain
<1>2. Good(m1, K1) /\ Off(K1, e2)
  <2> DEFINE a == __list_del_entry(m, e2)
             b == SetNext(a, e2, LIST_POISON1)
  <2>1. Good(a, K1) /\ Off(K1, e2)
    BY RemoveGood
  <2>2. e2 \in Addr  BY <1>1 DEF Addr
  <2> HIDE DEF a, K1, e2
  <2>3. Good(b, K1)  BY <2>1, <2>2, WriteOff
  <2> HIDE DEF b
  <2>4. Good(SetPrev(b, e2, LIST_POISON2), K1)  BY <2>1, <2>2, <2>3, WriteOff
  <2> QED  BY <2>1, <2>4 DEF list_del, a, b
<1>3. /\ K1 \in AllLists /\ LiveIn(K1) = LiveIn(L) /\ K1[g] = RemoveAt(L[g], j)
      /\ \A x \in Heads \ {g} : K1[x] = L[x]
  BY <1>2, WithoutFacts DEF Good
<1>4. /\ K1[g] \in Seq(Nodes) /\ Len(K1[g]) = Len(L[g]) - 1
      /\ \A k \in 1..Len(K1[g]) : K1[g][k] = IF k < j THEN L[g][k] ELSE L[g][k+1]
  <2> HIDE DEF K1
  <2> QED  BY <1>1, <1>3, RemoveAtFacts
<1>5. d \in 1..Len(K1[h]) /\ K1[h][d] = e1 /\ K1[h] \in Seq(Nodes)
  <2> HIDE DEF K1
  <2>1. CASE h # g  BY <2>1, <1>1, <1>3
  <2>2. CASE h = g /\ j < i
    <3>1. d = i-1 /\ i-1 \in 1..Len(K1[h]) /\ ~(i-1 < j) /\ i-1+1 = i  BY <2>2, <1>1, <1>4
    <3> QED  BY <2>2, <3>1, <1>4
  <2>3. CASE h = g /\ ~(j < i)
    <3>1. d = i /\ i < j /\ i \in 1..Len(K1[h])  BY <2>3, <1>1, <1>4
    <3> QED  BY <2>3, <3>1, <1>4
  <2> QED  BY <2>1, <2>2, <2>3
<1>6. Good(m2, K2) /\ Off(K2, e1)
  <2> HIDE DEF m1, K1, d, e1, e2
  <2>1. h \in LiveIn(K1) /\ e2 \in Nodes BY <1>1, <1>3
  <2> QED  BY <1>2, <1>5, <2>1, ReplaceGood
<1>7. /\ K2 \in AllLists /\ \A x \in Heads \ {h} : K2[x] = K1[x]
      /\ K2[h] = ReplaceAt(K1[h], d, e2)
      /\ K2[h] \in Seq(Nodes) /\ Len(K2[h]) = Len(K1[h])
      /\ \A k \in 1..Len(K1[h]) : K2[h][k] = IF k = d THEN e2 ELSE K1[h][k]
  <2> HIDE DEF K1, d, e2
  <2>1. K2 \in AllLists  BY <1>6 DEF Good
  <2>2. K2[h] = ReplaceAt(K1[h], d, e2) /\ \A x \in Heads \ {h} : K2[x] = K1[x]
    BY <1>1, <1>3 DEF AllLists
  <2> HIDE DEF K2
  <2> QED  BY <1>1, <1>5, <2>1, <2>2, ExceptSeq DEF ReplaceAt
<1>8. g \in LiveIn(K2) /\ Len(K2[g]) = Len(L[g]) - 1 /\ K2[g] \in Seq(Nodes)
  <2> HIDE DEF K1, K2
  <2> QED  BY <1>1, <1>3, <1>4, <1>7, CellsAssumption DEF LiveIn
<1>9. at = At(g, K2[g], j-1)
  <2>1. pos = At(g, L[g], j-1)
    <3>1. j-1 \in 0..Len(L[g]) /\ j-1+1 = j /\ At(g, L[g], j) = e2  BY <1>1, AtFacts
    <3> QED  BY <3>1, <1>1 DEF Ring
  <2> HIDE DEF K1, K2, pos, e2
  <2>2. CASE j = 1
    <3>1. pos = g /\ pos # e1  BY <2>1, <2>2, <1>1, AtFacts, CellsAssumption DEF At
    <3>2. At(g, K2[g], j-1) = g  BY <2>2, <1>8 DEF At
    <3> QED  BY <3>1, <3>2
  <2>3. CASE j # 1
    <3>1. /\ j-1 \in 1..Len(K2[g]) /\ j-1 \in 1..Len(L[g]) /\ j-1 < j
          /\ j-1 \in 1..Len(K1[g])
      BY <2>3, <1>1, <1>4, <1>8
    <3>2. pos = L[g][j-1] /\ K1[g][j-1] = L[g][j-1] /\ At(g, K2[g], j-1) = K2[g][j-1]
      BY <2>1, <3>1, <1>4 DEF At
    <3>3. CASE h = g
      <4>1. pos = e1 <=> i = j-1
        BY <3>1, <3>2, <3>3, <1>1 DEF Chain
      <4>2. i = j-1 <=> d = j-1
        BY <3>3, <3>1, <1>1
      <4>3. K2[g][j-1] = IF j-1 = d THEN e2 ELSE K1[g][j-1]
        BY <3>1, <3>3, <1>7
      <4> HIDE DEF d, e1
      <4> QED  BY <3>2, <4>1, <4>2, <4>3
    <3>4. CASE h # g
      <4>1. pos # e1
        BY <3>1, <3>2, <3>4 DEF Good
      <4>2. K2[g] = K1[g]  BY <3>4, <1>1, <1>7
      <4> QED  BY <3>2, <4>1, <4>2
    <3> QED  BY <3>3, <3>4
  <2> QED  BY <2>2, <2>3
<1>10. Good(list_add(m2, e1, at), K3)
  <2>1. j \in 1..(Len(K2[g]) + 1)  BY <1>1, <1>8
  <2> HIDE DEF m2, K2, e1, at
  <2> QED  BY <1>1, <1>6, <1>8, <1>9, <2>1, InsertGood
<1>11. K3 = M
  <2> DEFINE u == InsertAt(K2[g], j, e1)
  <2> HIDE DEF K1, K2, e1, e2, d
  <2>1. /\ u \in Seq(Nodes) /\ Len(u) = Len(L[g])
        /\ \A k \in 1..Len(u) : u[k] = IF k < j THEN K2[g][k] ELSE IF k = j THEN e1 ELSE K2[g][k-1]
    <3>1. K2[g] \in Seq(Nodes) /\ j \in 1..(Len(K2[g])+1) /\ e1 \in Nodes  BY <1>1, <1>8
    <3>2. /\ u \in Seq(Nodes) /\ Len(u) = Len(K2[g]) + 1
          /\ \A k \in 1..Len(u) : u[k] = IF k < j THEN K2[g][k] ELSE IF k = j THEN e1 ELSE K2[g][k-1]
      BY <3>1, InsertAtFacts
    <3> HIDE DEF u
    <3> QED  BY <3>2, <1>1, <1>8
  <2>2. K3 = [K2 EXCEPT ![g] = u]  BY DEF With
  <2>3. CASE h # g
    <3>1. K2[g] = K1[g]  BY <2>3, <1>1, <1>7
    <3> DEFINE v == [L[g] EXCEPT ![j] = e1]
    <3>2. v \in Seq(Nodes) /\ Len(v) = Len(L[g])
          /\ \A k \in 1..Len(L[g]) : v[k] = IF k = j THEN e1 ELSE L[g][k]
      BY <1>1, ExceptSeq
    <3> HIDE DEF u, v
    <3>3. ASSUME NEW k \in 1..Len(u) PROVE u[k] = v[k]
      <4>1. CASE k < j
        <5>1. k \in 1..Len(K1[g]) /\ k \in 1..Len(L[g]) /\ k # j  BY <4>1, <2>1, <1>1, <1>4
        <5>2. u[k] = K1[g][k]  BY <4>1, <2>1, <3>1
        <5> QED  BY <4>1, <5>1, <5>2, <3>2, <1>4
      <4>2. CASE k = j  BY <4>2, <3>2, <2>1
      <4>3. CASE k > j
        <5>1. k-1 \in 1..Len(K1[g]) /\ ~(k-1 < j) /\ k-1+1 = k  BY <4>3, <2>1, <1>1, <1>4
        <5>2. K1[g][k-1] = L[g][k]  BY <5>1, <1>4
        <5>3. u[k] = K2[g][k-1]  BY <4>3, <2>1
        <5>4. k \in 1..Len(L[g]) /\ k # j  BY <4>3, <2>1, <1>1
        <5> QED  BY <5>2, <5>3, <5>4, <3>1, <3>2
      <4> QED  BY <4>1, <4>2, <4>3, <2>1, <1>1
    <3>4. u = v  BY <2>1, <3>2, <3>3, SeqEqual
    <3>5. K2[h] = [L[h] EXCEPT ![i] = e2]
      BY <2>3, <1>1, <1>3, <1>7 DEF ReplaceAt, d
    <3>6. M = [[L EXCEPT ![h] = [L[h] EXCEPT ![i] = e2]] EXCEPT ![g] = v]
      BY <2>3, <1>1 DEF v, AllLists
    <3>7. \A x \in Heads : K3[x] = M[x]
      <4> SUFFICES ASSUME NEW x \in Heads PROVE K3[x] = M[x]
        OBVIOUS
      <4>1. CASE x = g  BY <4>1, <2>2, <3>4, <3>6, <1>1, <1>7 DEF AllLists
      <4>2. CASE x = h  BY <4>2, <2>2, <2>3, <3>5, <3>6, <1>1, <1>7 DEF AllLists
      <4>3. CASE x # g /\ x # h
        <5>1. K3[x] = L[x]  BY <4>3, <2>2, <1>3, <1>7 DEF AllLists
        <5> QED  BY <4>3, <5>1, <3>6, <1>1 DEF AllLists
      <4> QED  BY <4>1, <4>2, <4>3
    <3> QED  BY <2>2, <3>6, <3>7, <1>1, <1>7 DEF AllLists
  <2>4. CASE h = g
    <3> DEFINE w == [L[g] EXCEPT ![i] = e2]
               v == [w EXCEPT ![j] = e1]
    <3>1. w \in Seq(Nodes) /\ Len(w) = Len(L[g])
          /\ \A k \in 1..Len(L[g]) : w[k] = IF k = i THEN e2 ELSE L[g][k]
      BY <2>4, <1>1, ExceptSeq
    <3>2. v \in Seq(Nodes) /\ Len(v) = Len(L[g])
          /\ \A k \in 1..Len(L[g]) : v[k] = IF k = j THEN e1 ELSE w[k]
      <4> HIDE DEF w
      <4> QED  BY <3>1, <1>1, ExceptSeq
    <3>6. M = [L EXCEPT ![g] = v]
      BY <2>4, <1>1 DEF AllLists
    <3> HIDE DEF u, v, w
    <3>3. ASSUME NEW k \in 1..Len(u) PROVE u[k] = v[k]
      <4>1. CASE k < j
        <5>1. k \in 1..Len(K1[g]) /\ K1[g][k] = L[g][k]  BY <4>1, <2>1, <1>1, <1>4
        <5>2. k = d <=> k = i  BY <4>1, <2>4, <2>1, <1>1 DEF d
        <5>3. K2[g][k] = IF k = d THEN e2 ELSE L[g][k]  BY <5>1, <2>4, <1>7
        <5> QED  BY <4>1, <5>2, <5>3, <3>1, <3>2, <2>1, <1>1
      <4>2. CASE k = j  BY <4>2, <3>2, <2>1
      <4>3. CASE k > j
        <5>1. k-1 \in 1..Len(K1[g]) /\ ~(k-1 < j) /\ k-1+1 = k  BY <4>3, <2>1, <1>1, <1>4
        <5>2. K1[g][k-1] = L[g][k]  BY <5>1, <1>4
        <5>3. k-1 = d <=> k = i
          <6>1. i \in Int /\ j \in Int /\ k \in Int /\ i # j  BY <2>4, <1>1
          <6>2. d = IF j < i THEN i-1 ELSE i  BY <2>4 DEF d
          <6> HIDE DEF d
          <6> QED  BY <6>1, <6>2, <4>3
        <5>4. K2[g][k-1] = IF k-1 = d THEN e2 ELSE L[g][k]  BY <5>1, <5>2, <2>4, <1>7
        <5> QED  BY <4>3, <5>3, <5>4, <3>1, <3>2, <2>1, <1>1
      <4> QED  BY <4>1, <4>2, <4>3, <2>1, <1>1
    <3>4. u = v  BY <2>1, <3>2, <3>3, SeqEqual
    <3>7. \A x \in Heads : K3[x] = M[x]
      BY <2>2, <2>4, <3>4, <3>6, <1>1, <1>3, <1>7 DEF AllLists
    <3> QED  BY <2>2, <3>6, <3>7, <1>1, <1>7 DEF AllLists
  <2> QED  BY <2>3, <2>4
<1>12. list_swap(m, e1, e2) = list_add(m2, e1, at)
  BY DEF list_swap
<1> HIDE DEF m1, m2, K1, K2, K3, at, d
<1> QED  BY <1>10, <1>11, <1>12

-----------------------------------------------------------------------------
(* Another head for a list, and the head at another place of its ring.     *)

\* list_replace of a head by another one hands its list over (list.h:152-166),
\* an empty list included.
LEMMA TakeOverGood ==
  ASSUME NEW m, NEW L, Good(m, L), NEW h \in LiveIn(L), NEW g \in Heads \ {h}
  PROVE  Good(list_replace(m, h, g), [L EXCEPT ![g] = L[h], ![h] = Undefined])
<1> DEFINE q == L[h]
           r == list_replace(m, h, g)
           first == At(h, q, 1)
           last  == At(h, q, Len(q))
           K == [L EXCEPT ![h] = Undefined]
<1>1. /\ Chain(h, q) /\ Ring(m, h, q) /\ m \in Memory(Addr) /\ L \in AllLists
      /\ Len(q) \in Nat /\ h \in Heads /\ g \in Heads /\ g # h
      /\ first \in Addr /\ last \in Addr /\ g \in Addr /\ h \in Addr
  <2>1. Chain(h, q) /\ Ring(m, h, q) /\ m \in Memory(Addr) /\ L \in AllLists
    BY GoodFacts DEF Good
  <2> HIDE DEF q
  <2> QED  BY <2>1, AtFacts DEF Chain, Addr
<1>2. \A i \in 1..Len(q) : q[i] \in Nodes /\ q[i] # g /\ q[i] # h
  BY <1>1, AtFacts, CellsAssumption
<1>3. m.next[h] = first /\ m.prev[h] = last
  <2>1. 0 \in 0..Len(q) /\ Len(q) \in 0..Len(q) /\ At(h, q, 0) = h /\ At(h, q, Len(q)+1) = h
    BY <1>1, AtFacts
  <2> QED  BY <2>1, <1>1 DEF Ring
<1>4. ASSUME Len(q) = 0
      PROVE  /\ r \in Memory(Addr) /\ Ring(r, g, q)
             /\ \A y \in Addr \ {g, h, first, last} : r.next[y] = m.next[y] /\ r.prev[y] = m.prev[y]
  <2>1. first = h /\ last = h  BY <1>4 DEF At
  <2>2. r.next[g] = g /\ r.prev[g] = g /\ r \in Memory(Addr)
        /\ \A y \in Addr \ {g, h} : r.next[y] = m.next[y] /\ r.prev[y] = m.prev[y]
    BY <2>1, <1>1, <1>3 DEF list_replace, SetNext, SetPrev, Memory
  <2>3. \A i : At(g, q, i) = g  BY <1>4 DEF At
  <2> HIDE DEF q, r
  <2>4. Ring(r, g, q)
    BY <2>2, <2>3 DEF Ring
  <2> QED  BY <2>2, <2>4
<1>5. ASSUME Len(q) # 0
      PROVE  /\ r \in Memory(Addr) /\ Ring(r, g, q)
             /\ \A y \in Addr \ {g, h, first, last} : r.next[y] = m.next[y] /\ r.prev[y] = m.prev[y]
  <2>1. /\ first = q[1] /\ last = q[Len(q)] /\ 1 \in 1..Len(q) /\ Len(q) \in 1..Len(q)
        /\ first # g /\ first # h /\ last # g /\ last # h
    BY <1>1, <1>2, <1>5 DEF At
  <2>2. /\ r.next = [[m.next EXCEPT ![g] = first] EXCEPT ![last] = g]
        /\ r.prev = [[m.prev EXCEPT ![first] = g] EXCEPT ![g] = last]
        /\ r \in Memory(Addr)
    <3> HIDE DEF first, last, q
    <3> QED  BY <2>1, <1>1, <1>3 DEF list_replace, SetNext, SetPrev, Memory
  <2>3. DOMAIN m.next = Addr /\ DOMAIN m.prev = Addr
    BY <1>1 DEF Memory
  <2>4. \A y \in Addr \ {g, first, last} : r.next[y] = m.next[y] /\ r.prev[y] = m.prev[y]
    <3> HIDE DEF first, last, q, r
    <3> QED  BY <2>2, <2>3
  <2> HIDE DEF q, r, first, last
  <2>5. ASSUME NEW k \in 0..Len(q)
        PROVE  r.next[At(g, q, k)] = At(g, q, k+1) /\ r.prev[At(g, q, k+1)] = At(g, q, k)
    <3>1. m.next[At(h, q, k)] = At(h, q, k+1) /\ m.prev[At(h, q, k+1)] = At(h, q, k)
      BY <1>1 DEF Ring
    <3>2. k # Len(q) => r.next[At(g, q, k)] = At(g, q, k+1)
      <4>1. CASE k = 0  BY <4>1, <1>1, <1>5, <2>1, <2>2, <2>3 DEF At
      <4>2. CASE k # 0 /\ k # Len(q)
        <5>1. k \in 1..Len(q) /\ k+1 \in 1..Len(q)  BY <4>2, <1>1
        <5>2. q[k] # last  BY <5>1, <4>2, <2>1, <1>1 DEF Chain
        <5> QED  BY <5>1, <5>2, <3>1, <1>1, <1>2, <2>2, <2>3 DEF At, Addr
      <4> QED  BY <4>1, <4>2
    <3>3. k = Len(q) => r.next[At(g, q, k)] = At(g, q, k+1)
      BY <1>1, <1>5, <2>1, <2>2, <2>3 DEF At
    <3>4. k # 0 => r.prev[At(g, q, k+1)] = At(g, q, k)
      <4>1. CASE k = Len(q)  BY <4>1, <1>1, <1>5, <2>1, <2>2, <2>3 DEF At
      <4>2. CASE k # 0 /\ k # Len(q)
        <5>1. k \in 1..Len(q) /\ k+1 \in 1..Len(q) /\ k+1 # 1  BY <4>2, <1>1
        <5>2. q[k+1] # first  BY <5>1, <2>1, <1>1 DEF Chain
        <5> QED  BY <5>1, <5>2, <3>1, <1>1, <1>2, <2>2, <2>3 DEF At, Addr
      <4> QED  BY <4>1, <4>2
    <3>5. k = 0 => r.prev[At(g, q, k+1)] = At(g, q, k)
      BY <1>1, <1>5, <2>1, <2>2, <2>3 DEF At
    <3> QED  BY <3>2, <3>3, <3>4, <3>5
  <2>6. Ring(r, g, q)  BY <2>5 DEF Ring
  <2> QED  BY <2>2, <2>4, <2>6
<1>6. /\ r \in Memory(Addr) /\ Ring(r, g, q)
      /\ \A y \in Addr \ {g, h, first, last} : r.next[y] = m.next[y] /\ r.prev[y] = m.prev[y]
  <2> HIDE DEF r, q, first, last
  <2> QED  BY <1>4, <1>5
<1>7. Good(m, K) /\ K \in AllLists /\ \A f \in LiveIn(K) : f # h /\ f \in LiveIn(L) /\ K[f] = L[f]
  BY <1>1, Forget DEF Good, AllLists, LiveIn
<1>8. Chain(g, q)
  BY <1>1 DEF Chain
<1>9. Spares(m, r, K, g)
  <2> SUFFICES ASSUME NEW f \in LiveIn(K) \ {g}, NEW j
               PROVE  At(f, K[f], j) \in Addr \ {g, h, first, last}
    BY <1>6 DEF Spares
  <2>1. f \in LiveIn(L) \ {h} /\ K[f] = L[f] /\ f \in Heads /\ f # g
    BY <1>7 DEF LiveIn
  <2> HIDE DEF K, r
  <2>2. /\ At(f, L[f], j) \in Addr
        /\ \A i : At(h, q, i) # At(f, L[f], j)
    <3>1. At(f, L[f], j) \in Addr  BY <2>1, GoodFacts, AtFacts
    <3>2. \A i : At(h, L[h], i) # At(f, L[f], j)  BY <2>1, GoodFacts
    <3> QED  BY <3>1, <3>2
  <2>3. At(f, L[f], j) # h  BY <2>2, <1>1, AtFacts
  <2>4. At(f, L[f], j) # g  BY <2>1, <1>1, GoodFacts, AtFacts, CellsAssumption DEF At
  <2> QED  BY <2>1, <2>2, <2>3, <2>4
<1>10. Apart(K, g, q)
  <2> HIDE DEF K
  <2> QED  BY <1>7 DEF Apart, Good
<1>11. Good(r, [K EXCEPT ![g] = q])
  <2> HIDE DEF r, q, K
  <2> QED  BY <1>6, <1>7, <1>8, <1>9, <1>10, UpdateOne
<1>12. [K EXCEPT ![g] = q] = [L EXCEPT ![g] = L[h], ![h] = Undefined]
  BY <1>1 DEF AllLists
<1> QED  BY <1>11, <1>12

-----------------------------------------------------------------------------
(* Operations that cut a ring and join the pieces.                         *)

\* Writing only cells of one list spares every other list.
LEMMA SparesOwn ==
  ASSUME NEW m, NEW L, Good(m, L), NEW h \in LiveIn(L), NEW r,
         \A y \in Addr : (\A i : At(h, L[h], i) # y) => r.next[y] = m.next[y] /\ r.prev[y] = m.prev[y]
  PROVE  Spares(m, r, L, h)
<1> SUFFICES ASSUME NEW g \in LiveIn(L) \ {h}, NEW j
             PROVE  At(g, L[g], j) \in Addr /\ \A i : At(h, L[h], i) # At(g, L[g], j)
  BY DEF Spares
<1>1. At(g, L[g], j) \in Addr  BY GoodFacts, AtFacts
<1>2. \A i : At(h, L[h], i) # At(g, L[g], j)  BY GoodFacts
<1> QED  BY <1>1, <1>2

\* The entries of three sequences put together.
LEMMA ThreePieces ==
  ASSUME NEW S, NEW a \in Seq(S), NEW b \in Seq(S), NEW c \in Seq(S)
  PROVE  LET s == a \o b \o c
         IN  /\ s \in Seq(S)
             /\ Len(s) = Len(a) + Len(b) + Len(c)
             /\ \A k \in 1..Len(s) :
                  s[k] = IF k <= Len(a) THEN a[k]
                         ELSE IF k <= Len(a) + Len(b) THEN b[k - Len(a)]
                         ELSE c[k - Len(a) - Len(b)]
<1> DEFINE d == a \o b
           s == d \o c
<1>1. Len(a) \in Nat /\ Len(b) \in Nat /\ Len(c) \in Nat
  BY LenProperties
<1>2. /\ d \in Seq(S) /\ Len(d) = Len(a) + Len(b)
      /\ \A k \in 1..(Len(a) + Len(b)) : d[k] = IF k <= Len(a) THEN a[k] ELSE b[k - Len(a)]
  BY ConcatProperties
<1> HIDE DEF d
<1>3. /\ s \in Seq(S) /\ Len(s) = Len(d) + Len(c)
      /\ \A k \in 1..(Len(d) + Len(c)) : s[k] = IF k <= Len(d) THEN d[k] ELSE c[k - Len(d)]
  <2>1. d \in Seq(S)  BY <1>2
  <2> QED  BY <2>1, ConcatProperties
<1> HIDE DEF s
<1>4. ASSUME NEW k \in 1..Len(s)
      PROVE  s[k] = IF k <= Len(a) THEN a[k]
                    ELSE IF k <= Len(a) + Len(b) THEN b[k - Len(a)]
                    ELSE c[k - Len(a) - Len(b)]
  <2>1. CASE k <= Len(d)  BY <2>1, <1>1, <1>2, <1>3
  <2>2. CASE ~(k <= Len(d))
    <3>1. k - Len(d) = k - Len(a) - Len(b)  BY <1>1, <1>2
    <3>2. s[k] = c[k - Len(d)]  BY <2>2, <1>3
    <3> QED  BY <2>2, <3>1, <3>2, <1>1, <1>2, <1>3
  <2> QED  BY <2>1, <2>2
<1> QED  BY <1>1, <1>2, <1>3, <1>4 DEF s, d

\* What the rings become when the first k entries of one are cut off: the two
\* cut functions do the same assignments once they are past their tests.
LEMMA CutGood ==
  ASSUME NEW m, NEW L, Good(m, L), NEW h \in LiveIn(L), NEW g \in Heads \ {h},
         NEW k \in 1..Len(L[h])
  PROVE  Good(__list_cut_position(m, g, h, L[h][k]),
              [L EXCEPT ![g] = SubSeq(L[h], 1, k), ![h] = SubSeq(L[h], k+1, Len(L[h]))])
<1> DEFINE q == L[h]
           N == Len(q)
           first == q[1]
           entry == q[k]
           nf == At(h, q, k+1)
           r == __list_cut_position(m, g, h, entry)
           a == SubSeq(q, 1, k)
           b == SubSeq(q, k+1, N)
           K == [[L EXCEPT ![g] = Undefined] EXCEPT ![h] = Undefined]
<1>1. /\ Chain(h, q) /\ Ring(m, h, q) /\ m \in Memory(Addr) /\ L \in AllLists
      /\ N \in Nat /\ h \in Heads /\ g \in Heads /\ g # h /\ q \in Seq(Nodes) /\ k \in 1..N
  <2>1. Chain(h, q) /\ Ring(m, h, q) /\ m \in Memory(Addr) /\ L \in AllLists
    BY GoodFacts DEF Good
  <2> HIDE DEF q
  <2>2. k \in 1..N  BY DEF q
  <2> QED  BY <2>1, <2>2, AtFacts DEF Chain
<1>2. \A i \in 1..N : q[i] \in Nodes /\ q[i] # g /\ q[i] # h /\ q[i] \in Addr
  BY <1>1, AtFacts, CellsAssumption DEF Addr
<1>3. /\ first \in Addr /\ entry \in Addr /\ nf \in Addr /\ g \in Addr /\ h \in Addr
      /\ first # g /\ first # h /\ entry # g /\ entry # h /\ nf # g
      /\ m.next[h] = first /\ m.next[entry] = nf
  <2>1. first \in Addr /\ entry \in Addr /\ first # g /\ first # h /\ entry # g /\ entry # h
    BY <1>1, <1>2
  <2>2. nf \in Addr /\ nf # g  BY <1>1, <1>2 DEF At, Addr
  <2>3. /\ 0 \in 0..N /\ k \in 0..N /\ At(h, q, 0) = h /\ At(h, q, k) = entry
        /\ At(h, q, 0+1) = first
    <3> HIDE DEF q
    <3> QED  BY <1>1 DEF At
  <2>4. m.next[h] = first /\ m.next[entry] = nf  BY <2>3, <1>1 DEF Ring
  <2> QED  BY <2>1, <2>2, <2>4, <1>1 DEF Addr
<1> HIDE DEF q, first, entry, nf
<1>4. /\ r.next = [[[m.next EXCEPT ![g] = first] EXCEPT ![entry] = g] EXCEPT ![h] = nf]
      /\ r.prev = [[[m.prev EXCEPT ![first] = g] EXCEPT ![g] = entry] EXCEPT ![nf] = h]
      /\ r \in Memory(Addr) /\ DOMAIN m.next = Addr /\ DOMAIN m.prev = Addr
  BY <1>1, <1>3 DEF __list_cut_position, SetNext, SetPrev, Memory
<1>5. \A y \in Addr \ {g, h, first, entry, nf} : r.next[y] = m.next[y] /\ r.prev[y] = m.prev[y]
  <2> HIDE DEF r
  <2> QED  BY <1>4
<1>6. /\ a \in Seq(Nodes) /\ Len(a) = k /\ \A i \in 1..k : a[i] = q[i]
      /\ b \in Seq(Nodes) /\ Len(b) = N-k /\ \A i \in 1..(N-k) : b[i] = q[k+i]
  BY <1>1, PieceFacts
<1> HIDE DEF r, a, b
<1>7. Chain(g, a) /\ Chain(h, b)
  <2>1. Chain(g, a)  BY <1>1, <1>6, SMTT(20) DEF Chain
  <2>2. ASSUME NEW i \in 1..Len(b), NEW j \in 1..Len(b), b[i] = b[j] PROVE i = j
    <3>1. k+i \in 1..N /\ k+j \in 1..N /\ q[k+i] = q[k+j]  BY <2>2, <1>1, <1>6
    <3>2. k+i = k+j  BY <3>1, <1>1 DEF Chain
    <3> QED  BY <3>2, <1>1
  <2> QED  BY <2>1, <2>2, <1>1, <1>6 DEF Chain
<1>8. ASSUME NEW i \in 0..Len(a)
      PROVE  r.next[At(g, a, i)] = At(g, a, i+1) /\ r.prev[At(g, a, i+1)] = At(g, a, i)
  <2>1. m.next[At(h, q, i)] = At(h, q, i+1) /\ m.prev[At(h, q, i+1)] = At(h, q, i)
    BY <1>1, <1>6 DEF Ring
  <2>2. At(g, a, i) = IF i = 0 THEN g ELSE q[i]
    BY <1>1, <1>6 DEF At
  <2>3. At(g, a, i+1) = IF i = k THEN g ELSE q[i+1]
    BY <1>1, <1>6 DEF At
  <2>4. r.next[At(g, a, i)] = At(g, a, i+1)
    <3>1. CASE i = 0  BY <3>1, <2>2, <2>3, <1>1, <1>3, <1>4 DEF first
    <3>2. CASE i = k  BY <3>2, <2>2, <2>3, <1>1, <1>3, <1>4 DEF entry
    <3>3. CASE i # 0 /\ i # k
      <4>1. i \in 1..N /\ i+1 \in 1..N  BY <3>3, <1>1, <1>6
      <4>2. q[i] # entry  BY <4>1, <3>3, <1>1 DEF Chain, entry
      <4>3. At(h, q, i) = q[i] /\ At(h, q, i+1) = q[i+1]  BY <4>1 DEF At
      <4> QED  BY <4>1, <4>2, <4>3, <3>3, <2>1, <2>2, <2>3, <1>2, <1>4
    <3> QED  BY <3>1, <3>2, <3>3
  <2>5. r.prev[At(g, a, i+1)] = At(g, a, i)
    <3>1. CASE i = k
      BY <3>1, <2>2, <2>3, <1>1, <1>3, <1>4 DEF entry
    <3>2. CASE i = 0 /\ i # k
      <4>1. first # nf
        <5>1. k+1 \in 1..(N+1) /\ 1 \in 1..(N+1) /\ k+1 # 1 /\ At(h, q, 1) = first
          BY <1>1 DEF At, first
        <5> QED  BY <5>1, <1>1, AtFacts DEF nf
      <4> QED  BY <3>2, <4>1, <2>2, <2>3, <1>1, <1>3, <1>4 DEF first
    <3>3. CASE i # 0 /\ i # k
      <4>1. i \in 1..N /\ i+1 \in 1..N /\ 1 \in 1..N /\ i+1 # 1  BY <3>3, <1>1, <1>6
      <4>2. q[i+1] # first  BY <4>1, <1>1 DEF Chain, first
      <4>3. At(h, q, i) = q[i] /\ At(h, q, i+1) = q[i+1]  BY <4>1 DEF At
      <4>4. q[i+1] # nf
        <5>1. k+1 \in 1..(N+1) /\ i+1 \in 1..(N+1) /\ k+1 # i+1
          BY <4>1, <3>3, <1>1
        <5> QED  BY <5>1, <4>3, <1>1, AtFacts DEF nf
      <4> QED  BY <4>1, <4>2, <4>3, <4>4, <3>3, <2>1, <2>2, <2>3, <1>2, <1>4
    <3> QED  BY <3>1, <3>2, <3>3
  <2> QED  BY <2>4, <2>5
<1>9. ASSUME NEW i \in 0..Len(b)
      PROVE  r.next[At(h, b, i)] = At(h, b, i+1) /\ r.prev[At(h, b, i+1)] = At(h, b, i)
  <2>1. k+i \in 0..N /\ k+i+1 = k+(i+1)  BY <1>1, <1>6
  <2>2. m.next[At(h, q, k+i)] = At(h, q, k+i+1) /\ m.prev[At(h, q, k+i+1)] = At(h, q, k+i)
    BY <2>1, <1>1 DEF Ring
  <2>3. At(h, b, i) = IF i = 0 THEN h ELSE At(h, q, k+i)
    BY <2>1, <1>1, <1>6, SMTT(20) DEF At
  <2>4. At(h, b, i+1) = At(h, q, k+i+1)
    BY <2>1, <1>1, <1>6 DEF At
  <2>5. At(h, q, k+i) \in Addr /\ At(h, q, k+i+1) \in Addr /\ At(h, q, k+i) # g /\ At(h, q, k+i+1) # g
    BY <1>1, <1>2, AtFacts DEF At
  <2>6. CASE i = 0
    BY <2>6, <2>1, <2>3, <2>4, <1>1, <1>3, <1>4 DEF nf
  <2>7. CASE i # 0
    <3>1. /\ k+i # k /\ k+i \in 1..N /\ k \in 1..N /\ k+i+1 # k+1 /\ k+i+1 # 1
          /\ k+i+1 \in 1..(N+1) /\ k+1 \in 1..(N+1) /\ 1 \in 1..(N+1)
      BY <2>7, <1>1, <1>6
    <3>2. At(h, q, k+i) = q[k+i] /\ q[k+i] # entry /\ q[k+i] # h
      BY <3>1, <1>1, <1>2 DEF At, Chain, entry
    <3>3. At(h, q, k+i+1) # nf /\ At(h, q, k+i+1) # first
      <4>1. At(h, q, 1) = first  BY <3>1, <1>1 DEF At, first
      <4> QED  BY <4>1, <3>1, <1>1, AtFacts DEF nf
    <3> QED  BY <3>2, <3>3, <2>2, <2>3, <2>4, <2>5, <2>7, <1>4
  <2> QED  BY <2>6, <2>7
<1>10. Ring(r, g, a) /\ Ring(r, h, b)
  BY <1>8, <1>9 DEF Ring
<1>11. /\ Good(m, K) /\ K \in AllLists
       /\ \A f \in LiveIn(K) : f # h /\ f # g /\ f \in LiveIn(L) /\ K[f] = L[f] /\ f \in Heads
  <2>1. Good(m, [L EXCEPT ![g] = Undefined])  BY <1>1, Forget
  <2>2. Good(m, K)  BY <1>1, <2>1, Forget
  <2> QED  BY <1>1, <2>2 DEF Good, AllLists, LiveIn
<1>12. \A f \in LiveIn(K) : \A j : At(f, K[f], j) \in Addr \ {g, h, first, entry, nf}
  <2> SUFFICES ASSUME NEW f \in LiveIn(K), NEW j
               PROVE  At(f, L[f], j) \in Addr \ {g, h, first, entry, nf}
    BY <1>11
  <2>1. f \in LiveIn(L) \ {h} /\ f \in Heads /\ f # g  BY <1>11
  <2>2. At(f, L[f], j) \in Addr /\ \A i : At(h, q, i) # At(f, L[f], j)
    <3>1. At(f, L[f], j) \in Addr  BY <2>1, GoodFacts, AtFacts
    <3>2. \A i : At(h, L[h], i) # At(f, L[f], j)  BY <2>1, GoodFacts
    <3> QED  BY <3>1, <3>2 DEF q
  <2>3. At(h, q, 1) = first /\ At(h, q, k) = entry /\ At(h, q, 0) = h
    BY <1>1 DEF At, first, entry
  <2>4. At(f, L[f], j) # g  BY <2>1, <1>1, GoodFacts, AtFacts, CellsAssumption DEF At
  <2> QED  BY <2>2, <2>3, <2>4 DEF nf
<1>off. \A f \in LiveIn(K) : \A j \in 1..Len(K[f]) : \A i \in 1..N : K[f][j] # q[i]
  <2> HIDE DEF K
  <2> QED  BY <1>11 DEF Good, q
<1> DEFINE K1 == [K EXCEPT ![g] = a]
<1>13. Good(r, K1)
  <2>1. Spares(m, r, K, g)  BY <1>5, <1>12 DEF Spares
  <2>2. Apart(K, g, a)
    <3> HIDE DEF K
    <3>1. \A i \in 1..Len(a) : i \in 1..N /\ a[i] = q[i]
      BY <1>1, <1>6
    <3> QED  BY <1>off, <3>1 DEF Apart
  <2> HIDE DEF K
  <2> QED  BY <1>4, <1>7, <1>10, <1>11, <2>1, <2>2, UpdateOne
<1>14. Good(r, [K1 EXCEPT ![h] = b])
  <2>1. Spares(r, r, K1, h)  BY DEF Spares
  <2>2. \A f \in LiveIn(K1) \ {h} : (f = g /\ K1[f] = a) \/ (f \in LiveIn(K) /\ K1[f] = K[f])
    BY <1>11 DEF AllLists, LiveIn
  <2> HIDE DEF K, K1
  <2>3. \A i \in 1..Len(b) : k+i \in 1..N /\ b[i] = q[k+i]
    BY <1>1, <1>6
  <2>4. ASSUME NEW f \in LiveIn(K1) \ {h}, NEW j \in 1..Len(K1[f]), NEW i \in 1..Len(b)
        PROVE  K1[f][j] # b[i]
    <3>1. CASE f = g /\ K1[f] = a
      <4>1. j \in 1..k  BY <3>1, <1>6
      <4>2. j \in 1..N /\ a[j] = q[j]  BY <4>1, <1>1, <1>6
      <4>3. j # k+i  BY <4>1, <1>1, <1>6
      <4> QED  BY <3>1, <4>2, <4>3, <2>3, <1>1 DEF Chain
    <3>2. CASE f \in LiveIn(K) /\ K1[f] = K[f]
      <4>1. k+i \in 1..N /\ b[i] = q[k+i]  BY <2>3
      <4>2. j \in 1..Len(K[f])  BY <3>2
      <4> QED  BY <3>2, <4>1, <4>2, <1>off
    <3> QED  BY <3>1, <3>2, <2>2
  <2>5. Apart(K1, h, b)  BY <2>4 DEF Apart
  <2> QED  BY <1>4, <1>7, <1>10, <1>13, <2>1, <2>5, UpdateOne
<1>15. [K1 EXCEPT ![h] = b] = [L EXCEPT ![g] = a, ![h] = b]
  BY <1>1 DEF AllLists
<1> QED  BY <1>14, <1>15 DEF r, a, b, q, entry

\* The entries of the ring of g, which has some, go between two cells of h.
LEMMA SpliceGood ==
  ASSUME NEW m, NEW L, Good(m, L), NEW h \in LiveIn(L), NEW g \in LiveIn(L) \ {h},
         L[g] # <<>>, NEW j \in 1..(Len(L[h])+1)
  PROVE  LET q == L[h]
             s == SubSeq(q, 1, j-1) \o L[g] \o SubSeq(q, j, Len(q))
         IN  Good(__list_splice(m, g, At(h, q, j-1), At(h, q, j)),
                  [L EXCEPT ![h] = s, ![g] = Undefined])
<1> DEFINE q == L[h]
           u == L[g]
           N == Len(q)
           U == Len(u)
           p == At(h, q, j-1)
           t == At(h, q, j)
           first == At(g, u, 1)
           last  == At(g, u, U)
           a == SubSeq(q, 1, j-1)
           b == SubSeq(q, j, N)
           s == a \o u \o b
           r == __list_splice(m, g, p, t)
           K == [L EXCEPT ![g] = Undefined]
<1>1. /\ Chain(h, q) /\ Ring(m, h, q) /\ m \in Memory(Addr) /\ L \in AllLists
      /\ Chain(g, u) /\ Ring(m, g, u) /\ h # g /\ h \in Heads /\ g \in Heads
      /\ \A x, y : At(h, q, x) # At(g, u, y)
  BY GoodFacts DEF Good, LiveIn
<1>2. j \in 1..(N+1) /\ u # <<>>
  OBVIOUS
<1> HIDE DEF q, u
<1>3. /\ q \in Seq(Nodes) /\ u \in Seq(Nodes) /\ N \in Nat /\ U \in Nat /\ U # 0
      /\ p \in Addr /\ t \in Addr /\ first \in Addr /\ last \in Addr /\ g \in Addr
  BY <1>1, <1>2, AtFacts, EmptySeq DEF Chain, Addr
<1> HIDE DEF N, U
<1>a. j \in Int /\ N \in Int /\ U \in Int /\ 1 <= j /\ j <= N+1 /\ U >= 1 /\ N >= 0
  BY <1>2, <1>3
<1>4. m.next[g] = first /\ m.prev[g] = last /\ first # g /\ last # g
  <2>1. /\ 0 \in 0..U /\ U \in 0..U /\ At(g, u, 0) = g /\ At(g, u, U+1) = g
    BY <1>1, <1>3, AtFacts DEF U
  <2>2. m.next[g] = first /\ m.prev[g] = last
    BY <2>1, <1>1 DEF Ring, U
  <2>3. 1 \in 1..Len(u) /\ U \in 1..Len(u)
    BY <1>3 DEF U
  <2> HIDE DEF first, last
  <2>4. first # g /\ last # g
    BY <2>3, <1>1, AtFacts DEF first, last
  <2> QED  BY <2>2, <2>4
<1>5. /\ p # first /\ p # last /\ t # first /\ t # last
  BY <1>1
<1> HIDE DEF p, t, first, last
<1>6. /\ r.next = [[m.next EXCEPT ![p] = first] EXCEPT ![last] = t]
      /\ r.prev = [[m.prev EXCEPT ![first] = p] EXCEPT ![t] = last]
      /\ r \in Memory(Addr) /\ DOMAIN m.next = Addr /\ DOMAIN m.prev = Addr
  BY <1>1, <1>3, <1>4 DEF __list_splice, SetNext, SetPrev, Memory
<1>7. \A y \in Addr \ {p, t, first, last} : r.next[y] = m.next[y] /\ r.prev[y] = m.prev[y]
  <2> HIDE DEF r
  <2> QED  BY <1>6
<1>8. /\ a \in Seq(Nodes) /\ Len(a) = j-1 /\ \A k \in 1..(j-1) : a[k] = q[k]
      /\ b \in Seq(Nodes) /\ Len(b) = N-j+1 /\ \A k \in 1..(N-j+1) : b[k] = q[j+k-1]
  BY <1>2, <1>3, PieceFacts DEF N
<1> HIDE DEF a, b
<1>9. /\ s \in Seq(Nodes) /\ Len(s) = N + U
      /\ \A k \in 1..(N+U) : s[k] = IF k < j THEN q[k]
                                    ELSE IF k < j+U THEN u[k-j+1]
                                    ELSE q[k-U]
  <2>1. /\ s \in Seq(Nodes) /\ Len(s) = Len(a) + Len(u) + Len(b)
        /\ \A k \in 1..Len(s) :
             s[k] = IF k <= Len(a) THEN a[k]
                    ELSE IF k <= Len(a) + Len(u) THEN u[k - Len(a)]
                    ELSE b[k - Len(a) - Len(u)]
    <3>1. a \in Seq(Nodes) /\ u \in Seq(Nodes) /\ b \in Seq(Nodes)  BY <1>3, <1>8
    <3> QED  BY <3>1, ThreePieces
  <2> HIDE DEF s
  <2>2. Len(s) = N + U  BY <2>1, <1>2, <1>3, <1>8 DEF U
  <2>3. ASSUME NEW k \in 1..(N+U)
        PROVE  s[k] = IF k < j THEN q[k] ELSE IF k < j+U THEN u[k-j+1] ELSE q[k-U]
    <3>1. CASE k < j
      <4>1. k <= Len(a) /\ k \in 1..(j-1)  BY <3>1, <1>2, <1>3, <1>8
      <4>2. s[k] = a[k]  BY <4>1, <2>1, <2>2
      <4> QED  BY <4>1, <4>2, <3>1, <1>8
    <3>2. CASE ~(k < j) /\ k < j+U
      <4>1. ~(k <= Len(a)) /\ k <= Len(a) + Len(u) /\ k - Len(a) = k-j+1
        BY <3>2, <1>2, <1>3, <1>8 DEF U
      <4> QED  BY <4>1, <3>2, <2>1, <2>2
    <3>3. CASE ~(k < j) /\ ~(k < j+U)
      <4>1. ~(k <= Len(a)) /\ ~(k <= Len(a) + Len(u)) /\ k - Len(a) - Len(u) = k-j+1-U
        BY <3>3, <1>2, <1>3, <1>8 DEF U
      <4>2. s[k] = b[k-j+1-U]  BY <4>1, <2>1, <2>2
      <4>3. k-j+1-U \in 1..(N-j+1) /\ j+(k-j+1-U)-1 = k-U  BY <3>3, <1>2, <1>3
      <4> QED  BY <4>2, <4>3, <3>3, <1>8
    <3> QED  BY <3>1, <3>2, <3>3
  <2> QED  BY <2>1, <2>2, <2>3
<1> HIDE DEF r, s
<1>10. \A k \in 0..(N+U+1) : At(h, s, k) = IF k < j THEN At(h, q, k)
                                           ELSE IF k < j+U THEN At(g, u, k-j+1)
                                           ELSE At(h, q, k-U)
  <2> SUFFICES ASSUME NEW k \in 0..(N+U+1)
               PROVE  At(h, s, k) = IF k < j THEN At(h, q, k)
                                    ELSE IF k < j+U THEN At(g, u, k-j+1) ELSE At(h, q, k-U)
    OBVIOUS
  <2>1. CASE k < j  BY <2>1, <1>2, <1>3, <1>9 DEF At, N
  <2>2. CASE ~(k < j) /\ k < j+U
    <3>1. k \in 1..(N+U) /\ k-j+1 \in 1..U  BY <2>2, <1>2, <1>3
    <3> QED  BY <2>2, <3>1, <1>9 DEF At, U
  <2>3. CASE ~(k < j) /\ ~(k < j+U)
    <3>1. k \in 1..(N+U) <=> k-U \in 1..N  BY <2>3, <1>2, <1>3
    <3> QED  BY <2>3, <3>1, <1>9 DEF At, N
  <2> QED  BY <2>1, <2>2, <2>3
<1>11. \A k \in 1..(N+U) : \/ k < j /\ k \in 1..N /\ s[k] = q[k]
                           \/ k >= j /\ k < j+U /\ k-j+1 \in 1..U /\ s[k] = u[k-j+1]
                           \/ k >= j+U /\ k-U \in 1..N /\ s[k] = q[k-U]
  BY <1>2, <1>3, <1>9
<1>12. \A x \in 1..N : \A y \in 1..U : q[x] # u[y]
  <2>1. \A x \in 1..N : At(h, q, x) = q[x]  BY DEF At, N
  <2>2. \A y \in 1..U : At(g, u, y) = u[y]  BY DEF At, U
  <2> QED  BY <2>1, <2>2, <1>1
<1>13. Chain(h, s)
  <2> SUFFICES ASSUME NEW x \in 1..(N+U), NEW y \in 1..(N+U), s[x] = s[y]
               PROVE  x = y
    BY <1>1, <1>9 DEF Chain
  <2> DEFINE in(k)  == k >= j /\ k < j+U
             src(k) == IF k < j THEN k ELSE IF k < j+U THEN k-j+1 ELSE k-U
  <2>1. \A k \in 1..(N+U) : /\ in(k)  => src(k) \in 1..U /\ s[k] = u[src(k)]
                            /\ ~in(k) => src(k) \in 1..N /\ s[k] = q[src(k)]
    <3> SUFFICES ASSUME NEW k \in 1..(N+U)
                 PROVE  /\ in(k)  => src(k) \in 1..U /\ s[k] = u[src(k)]
                        /\ ~in(k) => src(k) \in 1..N /\ s[k] = q[src(k)]
      OBVIOUS
    <3>1. CASE k < j  BY <3>1, <1>11, <1>a
    <3>2. CASE k >= j /\ k < j+U  BY <3>2, <1>11, <1>a
    <3>3. CASE k >= j+U  BY <3>3, <1>11, <1>a
    <3> QED  BY <3>1, <3>2, <3>3, <1>a
  <2>2. \A k, l \in 1..(N+U) : (in(k) <=> in(l)) /\ src(k) = src(l) => k = l
    BY <1>a, SMTT(40)
  <2>3. \A k \in 1..(N+U) : \A l \in 1..(N+U) : s[k] = s[l] /\ in(k) => in(l)
    <3> HIDE DEF in, src
    <3> QED  BY <2>1, <1>12
  <2> HIDE DEF in, src
  <2>4. in(x) <=> in(y)
    BY <2>3
  <2>5. src(x) = src(y)
    <3>1. CASE in(x)
      <4>1. src(x) \in 1..Len(u) /\ src(y) \in 1..Len(u) /\ u[src(x)] = u[src(y)]
        BY <3>1, <2>1, <2>4 DEF U
      <4> QED  BY <4>1, <1>1 DEF Chain
    <3>2. CASE ~in(x)
      <4>1. src(x) \in 1..Len(q) /\ src(y) \in 1..Len(q) /\ q[src(x)] = q[src(y)]
        BY <3>2, <2>1, <2>4 DEF N
      <4> QED  BY <4>1, <1>1 DEF Chain
    <3> QED  BY <3>1, <3>2
  <2> QED  BY <2>2, <2>4, <2>5
<1>14. ASSUME NEW k \in 0..(N+U)
       PROVE  r.next[At(h, s, k)] = At(h, s, k+1) /\ r.prev[At(h, s, k+1)] = At(h, s, k)
  <2>1. CASE k < j-1
    <3>1. /\ k \in 0..N /\ j-1 \in 0..N /\ k # j-1 /\ k+1 \in 1..(N+1) /\ j \in 1..(N+1)
          /\ k+1 # j /\ k < j /\ k+1 < j /\ k+1 \in 0..(N+U+1) /\ k \in 0..(N+U+1)
      BY <2>1, <1>2, <1>3
    <3>2. At(h, s, k) = At(h, q, k) /\ At(h, s, k+1) = At(h, q, k+1)  BY <3>1, <1>10
    <3>3. m.next[At(h, q, k)] = At(h, q, k+1) /\ m.prev[At(h, q, k+1)] = At(h, q, k)
      BY <3>1, <1>1 DEF Ring, N
    <3>4. At(h, q, k) # p /\ At(h, q, k+1) # t
      BY <3>1, <1>1, AtFacts DEF p, t, N
    <3>5. /\ At(h, q, k) # last /\ At(h, q, k+1) # first
          /\ At(h, q, k) \in Addr /\ At(h, q, k+1) \in Addr
      BY <1>1, AtFacts DEF first, last
    <3> QED  BY <3>2, <3>3, <3>4, <3>5, <1>6
  <2>2. CASE k = j-1
    <3>1. At(h, s, k) = p /\ At(h, s, k+1) = first
      <4>1. /\ k < j /\ ~(k+1 < j) /\ k+1 < j+U /\ k+1-j+1 = 1
            /\ k \in 0..(N+U+1) /\ k+1 \in 0..(N+U+1)
        BY <2>2, <1>2, <1>3
      <4>2. At(h, s, k) = At(h, q, k)  BY <4>1, <1>10
      <4>3. At(h, s, k+1) = At(g, u, k+1-j+1)  BY <4>1, <1>10
      <4> QED  BY <2>2, <4>1, <4>2, <4>3 DEF p, first
    <3> QED  BY <3>1, <1>3, <1>5, <1>6
  <2>3. CASE j-1 < k /\ k < j+U-1
    <3> DEFINE x == k-j+1
    <3>1. /\ x \in 1..U /\ x+1 \in 1..U /\ x+1 \in 1..(U+1) /\ x \in 0..U /\ x # U /\ x+1 # 1
          /\ U \in 0..U /\ 1 \in 1..(U+1)
          /\ ~(k < j) /\ k < j+U /\ ~(k+1 < j) /\ k+1 < j+U /\ k+1-j+1 = x+1
          /\ k \in 0..(N+U+1) /\ k+1 \in 0..(N+U+1)
      <4>1. k \in Int /\ j-1 < k /\ k < j+U-1 /\ 0 <= k  BY <2>3
      <4>2. x \in 1..U /\ x+1 \in 1..U /\ x # U /\ x+1 # 1  BY <4>1, <1>a
      <4>3. x+1 \in 1..(U+1) /\ x \in 0..U /\ U \in 0..U /\ 1 \in 1..(U+1)  BY <4>2, <1>a
      <4>4. ~(k < j) /\ k < j+U /\ ~(k+1 < j) /\ k+1 < j+U /\ k+1-j+1 = x+1  BY <4>1, <1>a
      <4>5. k \in 0..(N+U+1) /\ k+1 \in 0..(N+U+1)  BY <4>1, <1>a
      <4> QED  BY <4>2, <4>3, <4>4, <4>5
    <3>2. At(h, s, k) = At(g, u, x)  BY <3>1, <1>10
    <3>3. At(h, s, k+1) = At(g, u, x+1)
      <4>1. At(h, s, k+1) = At(g, u, k+1-j+1)  BY <3>1, <1>10
      <4> QED  BY <4>1, <3>1
    <3> HIDE DEF x
    <3>4. m.next[At(g, u, x)] = At(g, u, x+1) /\ m.prev[At(g, u, x+1)] = At(g, u, x)
      BY <3>1, <1>1 DEF Ring, U
    <3>5. At(g, u, x) # last /\ At(g, u, x+1) # first
      BY <3>1, <1>1, AtFacts DEF first, last, U
    <3>6. /\ At(g, u, x) # p /\ At(g, u, x+1) # t
          /\ At(g, u, x) \in Addr /\ At(g, u, x+1) \in Addr
      BY <1>1, AtFacts DEF p, t
    <3> QED  BY <3>2, <3>3, <3>4, <3>5, <3>6, <1>6
  <2>4. CASE k = j+U-1
    <3>1. At(h, s, k) = last /\ At(h, s, k+1) = t
      <4>1. /\ ~(k < j) /\ k < j+U /\ ~(k+1 < j) /\ ~(k+1 < j+U) /\ k-j+1 = U /\ k+1-U = j
            /\ k \in 0..(N+U+1) /\ k+1 \in 0..(N+U+1)
        <5>1. k \in Int /\ k = j+U-1 /\ 0 <= k /\ k <= N+U  BY <2>4, <1>a
        <5>2. ~(k < j) /\ k < j+U /\ ~(k+1 < j) /\ ~(k+1 < j+U)  BY <5>1, <1>a
        <5>3. k-j+1 = U /\ k+1-U = j  BY <5>1, <1>a
        <5>4. k \in 0..(N+U+1) /\ k+1 \in 0..(N+U+1)  BY <5>1, <1>a
        <5> QED  BY <5>2, <5>3, <5>4
      <4>2. At(h, s, k) = At(g, u, k-j+1)  BY <4>1, <1>10
      <4>3. At(h, s, k+1) = At(h, q, k+1-U)  BY <4>1, <1>10
      <4> QED  BY <4>1, <4>2, <4>3 DEF t, last
    <3> QED  BY <3>1, <1>3, <1>5, <1>6
  <2>5. CASE k > j+U-1
    <3> DEFINE x == k-U
    <3>1. /\ x \in 0..N /\ j-1 \in 0..N /\ x # j-1 /\ x+1 \in 1..(N+1) /\ j \in 1..(N+1)
          /\ x+1 # j /\ ~(k < j) /\ ~(k < j+U) /\ ~(k+1 < j) /\ ~(k+1 < j+U) /\ k+1-U = x+1
          /\ k \in 0..(N+U+1) /\ k+1 \in 0..(N+U+1)
      <4>1. k \in Int /\ k > j+U-1 /\ k <= N+U  BY <2>5, <1>a
      <4>2. x \in 0..N /\ x # j-1 /\ x+1 \in 1..(N+1) /\ x+1 # j  BY <4>1, <1>a
      <4>3. j-1 \in 0..N /\ j \in 1..(N+1)  BY <1>a
      <4>4. ~(k < j) /\ ~(k < j+U) /\ ~(k+1 < j) /\ ~(k+1 < j+U) /\ k+1-U = x+1  BY <4>1, <1>a
      <4>5. k \in 0..(N+U+1) /\ k+1 \in 0..(N+U+1)  BY <4>1, <1>a
      <4> QED  BY <4>2, <4>3, <4>4, <4>5
    <3>2. At(h, s, k) = At(h, q, x)  BY <3>1, <1>10
    <3>3. At(h, s, k+1) = At(h, q, x+1)
      <4>0. k+1 \in 0..(N+U+1) /\ ~(k+1 < j) /\ ~(k+1 < j+U)  BY <3>1
      <4> DEFINE l == k+1
      <4> HIDE DEF x, l
      <4>2. l \in 0..(N+U+1) /\ ~(l < j) /\ ~(l < j+U)  BY <4>0 DEF l
      <4>3. At(h, s, l) = At(h, q, l-U)  BY <4>2, <1>10
      <4>4. l-U = x+1  BY <3>1, <1>a DEF l
      <4>5. At(h, s, l) = At(h, q, x+1)  BY <4>3, <4>4
      <4> QED  BY <4>5 DEF l
    <3> HIDE DEF x
    <3>4. m.next[At(h, q, x)] = At(h, q, x+1) /\ m.prev[At(h, q, x+1)] = At(h, q, x)
      BY <3>1, <1>1 DEF Ring, N
    <3>5. At(h, q, x) # p /\ At(h, q, x+1) # t
      BY <3>1, <1>1, AtFacts DEF p, t, N
    <3>6. /\ At(h, q, x) # last /\ At(h, q, x+1) # first
          /\ At(h, q, x) \in Addr /\ At(h, q, x+1) \in Addr
      BY <1>1, AtFacts DEF first, last
    <3> QED  BY <3>2, <3>3, <3>4, <3>5, <3>6, <1>6
  <2> QED  BY <2>1, <2>2, <2>3, <2>4, <2>5, <1>2, <1>3
<1>15. Ring(r, h, s)
  BY <1>9, <1>14 DEF Ring
<1>16. /\ Good(m, K) /\ K \in AllLists
       /\ \A f \in LiveIn(K) : f \in LiveIn(L) /\ f # g /\ K[f] = L[f]
  BY <1>1, Forget DEF Good, AllLists, LiveIn
<1>17. Spares(m, r, K, h)
  <2> SUFFICES ASSUME NEW f \in LiveIn(K) \ {h}, NEW y
               PROVE  At(f, L[f], y) \in Addr \ {p, t, first, last}
    BY <1>7, <1>16 DEF Spares
  <2>1. f \in LiveIn(L) \ {h} /\ f \in LiveIn(L) \ {g}  BY <1>16
  <2>2. At(f, L[f], y) \in Addr  BY <2>1, GoodFacts, AtFacts
  <2>3. \A x : At(h, q, x) # At(f, L[f], y)  BY <2>1, GoodFacts DEF q
  <2>4. \A x : At(g, u, x) # At(f, L[f], y)  BY <2>1, GoodFacts DEF u
  <2> QED  BY <2>2, <2>3, <2>4 DEF p, t, first, last
<1>18. Apart(K, h, s)
  <2>1. ASSUME NEW f \in LiveIn(K) \ {h}, NEW y \in 1..Len(K[f])
        PROVE  /\ \A x \in 1..N : K[f][y] # q[x]
               /\ \A x \in 1..U : K[f][y] # u[x]
    <3>1. f \in LiveIn(L) /\ f # g /\ f # h /\ K[f] = L[f] /\ y \in 1..Len(L[f])
      BY <2>1, <1>16
    <3> QED  BY <3>1 DEF Good, q, u, N, U
  <2>2. \A k \in 1..Len(s) : (\E x \in 1..N : s[k] = q[x]) \/ (\E x \in 1..U : s[k] = u[x])
    BY <1>9, <1>11
  <2> QED  BY <2>1, <2>2 DEF Apart
<1>19. Good(r, [K EXCEPT ![h] = s])
  <2> HIDE DEF K
  <2> QED  BY <1>6, <1>13, <1>15, <1>16, <1>17, <1>18, UpdateOne
<1>20. [K EXCEPT ![h] = s] = [L EXCEPT ![h] = s, ![g] = Undefined]
  BY <1>1 DEF AllLists
<1> QED  BY <1>19, <1>20 DEF r, s, a, b, q, u, p, t, N

\* list_rotate_to_front() takes the head off its own ring and puts it back in
\* front of the new first entry.
LEMMA RotateGood ==
  ASSUME NEW m, NEW L, Good(m, L), NEW h \in LiveIn(L), NEW i \in 1..Len(L[h])
  PROVE  LET q == L[h]
         IN  Good(list_rotate_to_front(m, q[i], h),
                  [L EXCEPT ![h] = SubSeq(q, i, Len(q)) \o SubSeq(q, 1, i-1)])
<1> DEFINE q == L[h]
           N == Len(q)
           e == q[i]
           p == q[N]
           t == q[1]
           x == IF i = 1 THEN p ELSE q[i-1]
           a == SubSeq(q, i, N)
           b == SubSeq(q, 1, i-1)
           s == a \o b
           m1 == __list_del(m, p, t)
           r == __list_add(m1, h, x, e)
<1>1. /\ Chain(h, q) /\ Ring(m, h, q) /\ m \in Memory(Addr) /\ i \in 1..N
  BY GoodFacts DEF Good
<1> HIDE DEF q
<1>2. /\ q \in Seq(Nodes) /\ N \in Nat /\ N >= 1 /\ i \in Int /\ 1 <= i /\ i <= N /\ h \in Heads
      /\ h \in Addr
      /\ \A k \in 1..N : q[k] \in Nodes /\ q[k] # h /\ q[k] \in Addr
  <2>1. /\ q \in Seq(Nodes) /\ N \in Nat /\ h \in Heads
        /\ \A k \in 1..N : q[k] \in Nodes /\ q[k] # h
    BY <1>1, AtFacts DEF Chain
  <2> HIDE DEF N
  <2> QED  BY <1>1, <2>1 DEF Addr
<1>3. \A k, l \in 1..N : q[k] = q[l] => k = l
  BY <1>1 DEF Chain
<1> HIDE DEF N
<1>4. \A k \in 1..N : k # N => m.next[q[k]] = q[k+1] /\ m.prev[q[k+1]] = q[k]
  <2> SUFFICES ASSUME NEW k \in 1..N, k # N PROVE m.next[q[k]] = q[k+1] /\ m.prev[q[k+1]] = q[k]
    OBVIOUS
  <2>1. k \in 0..N /\ At(h, q, k) = q[k] /\ At(h, q, k+1) = q[k+1]  BY <1>2 DEF At, N
  <2> QED  BY <2>1, <1>1 DEF Ring, N
<1>5. m.next[h] = t /\ m.prev[h] = p /\ m.next[p] = h /\ m.prev[t] = h
  <2>1. /\ 0 \in 0..N /\ N \in 0..N /\ At(h, q, 0) = h /\ At(h, q, 0+1) = t
        /\ At(h, q, N) = p /\ At(h, q, N+1) = h
    BY <1>2 DEF At, N
  <2> QED  BY <2>1, <1>1 DEF Ring, N
<1>6. /\ e \in Addr /\ p \in Addr /\ t \in Addr /\ x \in Addr
      /\ e # h /\ p # h /\ t # h /\ x # h
  <2>1. i \in 1..N /\ N \in 1..N /\ 1 \in 1..N /\ (i # 1 => i-1 \in 1..N)  BY <1>2
  <2> QED  BY <2>1, <1>2
<1>7. list_rotate_to_front(m, e, h) = r
  <2>1. __list_del_entry(m, h) = m1  BY <1>5 DEF __list_del_entry
  <2>2. m1.prev = [m.prev EXCEPT ![t] = p]
    BY <1>6, <1>1 DEF __list_del, SetNext, SetPrev, Memory
  <2>3. m1.prev[e] = x
    <3>1. CASE i = 1  BY <3>1, <2>2, <1>1, <1>6 DEF Memory
    <3>2. CASE i # 1
      <4>1. i-1 \in 1..N /\ i-1 # N /\ i-1+1 = i /\ 1 \in 1..N  BY <3>2, <1>2
      <4>2. m.prev[e] = q[i-1]  BY <4>1, <1>4
      <4>3. e # t  BY <3>2, <4>1, <1>1, <1>3 DEF N
      <4> QED  BY <3>2, <4>2, <4>3, <2>2, <1>1, <1>6 DEF Memory
    <3> QED  BY <3>1, <3>2
  <2> QED  BY <2>1, <2>3 DEF list_rotate_to_front, list_move_tail, list_add_tail
<1> HIDE DEF e, p, t, x
<1>8. /\ r.next = [[[m.next EXCEPT ![p] = t] EXCEPT ![h] = e] EXCEPT ![x] = h]
      /\ r.prev = [[[m.prev EXCEPT ![t] = p] EXCEPT ![e] = h] EXCEPT ![h] = x]
      /\ r \in Memory(Addr) /\ DOMAIN m.next = Addr /\ DOMAIN m.prev = Addr
  <2>1. /\ m1 \in Memory(Addr)
        /\ m1.next = [m.next EXCEPT ![p] = t] /\ m1.prev = [m.prev EXCEPT ![t] = p]
    BY <1>1, <1>6 DEF __list_del, SetNext, SetPrev, Memory
  <2> HIDE DEF m1
  <2>2. /\ r \in Memory(Addr)
        /\ r.next = [[m1.next EXCEPT ![h] = e] EXCEPT ![x] = h]
        /\ r.prev = [[m1.prev EXCEPT ![e] = h] EXCEPT ![h] = x]
    BY <1>2, <1>6, <2>1 DEF __list_add, SetNext, SetPrev, Memory
  <2> HIDE DEF r
  <2> QED  BY <2>1, <2>2, <1>1 DEF Memory
<1> HIDE DEF r
<1>9. /\ a \in Seq(Nodes) /\ Len(a) = N-i+1 /\ \A k \in 1..(N-i+1) : a[k] = q[i+k-1]
      /\ b \in Seq(Nodes) /\ Len(b) = i-1 /\ \A k \in 1..(i-1) : b[k] = q[k]
  BY <1>2, PieceFacts DEF N
<1> HIDE DEF a, b
<1>10. /\ s \in Seq(Nodes) /\ Len(s) = N
       /\ \A k \in 1..N : s[k] = IF k <= N-i+1 THEN q[i+k-1] ELSE q[k-(N-i+1)]
  <2>1. /\ s \in Seq(Nodes) /\ Len(s) = Len(a) + Len(b)
        /\ \A k \in 1..(Len(a) + Len(b)) : s[k] = IF k <= Len(a) THEN a[k] ELSE b[k - Len(a)]
    BY <1>9, ConcatProperties
  <2> HIDE DEF s
  <2>2. Len(s) = N /\ Len(a) + Len(b) = N  BY <2>1, <1>2, <1>9
  <2>3. ASSUME NEW k \in 1..N
        PROVE  s[k] = IF k <= N-i+1 THEN q[i+k-1] ELSE q[k-(N-i+1)]
    <3>1. CASE k <= N-i+1
      <4>1. k \in 1..(Len(a) + Len(b)) /\ k <= Len(a) /\ k \in 1..(N-i+1)  BY <3>1, <2>2, <1>2, <1>9
      <4>2. s[k] = a[k]  BY <4>1, <2>1
      <4> QED  BY <3>1, <4>1, <4>2, <1>9
    <3>2. CASE ~(k <= N-i+1)
      <4>1. k-(N-i+1) \in 1..(i-1)  BY <3>2, <1>2
      <4>2. s[k] = b[k-(N-i+1)]  BY <3>2, <2>1, <2>2, <1>9
      <4> QED  BY <3>2, <4>1, <4>2, <1>9
    <3> QED  BY <3>1, <3>2
  <2> QED  BY <2>1, <2>2, <2>3
<1> HIDE DEF s
<1> DEFINE src(k) == IF k <= N-i+1 THEN i+k-1 ELSE k-(N-i+1)
<1>11. /\ s \in Seq(Nodes) /\ Len(s) = N
       /\ \A k \in 1..N : src(k) \in 1..N /\ s[k] = q[src(k)]
  BY <1>2, <1>10
<1>12. \A k, l \in 1..N : src(k) = src(l) => k = l
  BY <1>2
<1>13. Chain(h, s)
  <2> HIDE DEF src
  <2> SUFFICES ASSUME NEW k \in 1..N, NEW l \in 1..N, s[k] = s[l] PROVE k = l
    BY <1>2, <1>11 DEF Chain
  <2>1. src(k) = src(l)  BY <1>3, <1>11, SMTT(40)
  <2> QED  BY <2>1, <1>12
<1>14. ASSUME NEW k \in 0..N
       PROVE  r.next[At(h, s, k)] = At(h, s, k+1) /\ r.prev[At(h, s, k+1)] = At(h, s, k)
  <2>a. At(h, s, k) = IF k = 0 THEN h ELSE q[src(k)]
    <3> HIDE DEF src
    <3>1. k \in 1..Len(s) <=> k # 0  BY <1>2, <1>11
    <3>2. k # 0 => s[k] = q[src(k)]  BY <3>1, <1>11
    <3> QED  BY <3>1, <3>2 DEF At
  <2>b. At(h, s, k+1) = IF k = N THEN h ELSE q[src(k+1)]
    <3> HIDE DEF src
    <3>1. k+1 \in 1..Len(s) <=> k # N  BY <1>2, <1>11
    <3>2. k # N => s[k+1] = q[src(k+1)]  BY <3>1, <1>11
    <3> QED  BY <3>1, <3>2 DEF At
  <2>c. q[1] = t /\ q[N] = p /\ q[i] = e
    BY DEF t, p, e
  <2>1. CASE k = 0
    <3>1. At(h, s, k) = h /\ At(h, s, k+1) = e
      BY <2>1, <2>a, <2>b, <2>c, <1>2
    <3>2. h # x /\ e # h  BY <1>6
    <3> QED  BY <3>1, <3>2, <1>2, <1>6, <1>8
  <2>2. CASE k # 0 /\ k < N-i+1
    <3>1. src(k) = i+k-1 /\ src(k+1) = i+k /\ k # N  BY <2>2, <1>2
    <3>2. /\ i+k-1 \in 1..N /\ i+k \in 1..N /\ i+k-1 # N /\ i+k-1+1 = i+k
          /\ i+k # 1 /\ i+k # i /\ N \in 1..N /\ 1 \in 1..N /\ i \in 1..N
          /\ (i # 1 => i-1 \in 1..N /\ i+k-1 # i-1)
      BY <2>2, <1>2
    <3> DEFINE y == i+k-1
               z == i+k
    <3>3. /\ y \in 1..N /\ z \in 1..N /\ y # N /\ y+1 = z /\ z # 1 /\ z # i
          /\ (i # 1 => i-1 \in 1..N /\ y # i-1)
      BY <3>2
    <3>4. At(h, s, k) = q[y] /\ At(h, s, k+1) = q[z]
      BY <2>2, <2>a, <2>b, <3>1
    <3> HIDE DEF y, z, src
    <3>5. m.next[q[y]] = q[z] /\ m.prev[q[z]] = q[y]  BY <3>3, <1>4
    <3>6. q[y] # p /\ q[y] # x /\ q[z] # t /\ q[z] # e
      BY <3>2, <3>3, <2>c, <1>3 DEF x
    <3> QED  BY <3>3, <3>4, <3>5, <3>6, <1>2, <1>6, <1>8
  <2>3. CASE k = N-i+1
    <3>1. At(h, s, k) = p  
      <4>1. src(k) = N /\ k # 0  BY <2>3, <1>2
      <4> HIDE DEF src
      <4> QED  BY <4>1, <2>a, <2>c
    <3>2. CASE i = 1
      <4>1. k = N  BY <3>2, <2>3, <1>2
      <4>2. At(h, s, k+1) = h /\ x = p  BY <4>1, <3>2, <2>b DEF x
      <4> QED  BY <3>1, <4>2, <1>2, <1>6, <1>8
    <3>3. CASE i # 1
      <4>1. src(k+1) = 1 /\ k # N  BY <3>3, <2>3, <1>2
      <4>2. At(h, s, k+1) = t
        <5> HIDE DEF src
        <5> QED  BY <4>1, <2>b, <2>c
      <4>3. i-1 \in 1..N /\ i-1 # N /\ N \in 1..N /\ 1 \in 1..N /\ i \in 1..N  BY <3>3, <1>2
      <4>4. p # x /\ t # e  BY <3>3, <4>3, <2>c, <1>3 DEF x
      <4> QED  BY <3>1, <4>2, <4>4, <1>2, <1>6, <1>8
    <3> QED  BY <3>2, <3>3
  <2>4. CASE k > N-i+1
    <3> DEFINE y == k-(N-i+1)
    <3>1. /\ src(k) = y /\ y \in 1..N /\ y # N /\ k # 0 /\ i # 1 /\ N \in 1..N /\ 1 \in 1..N
          /\ i \in 1..N /\ i-1 \in 1..N
      BY <2>4, <1>2
    <3>2. k # N => src(k+1) = y+1 /\ y+1 \in 1..N /\ y+1 # 1 /\ y+1 # i /\ y # i-1
      BY <2>4, <1>2
    <3>3. k = N => y = i-1
      BY <2>4, <1>2
    <3>4. At(h, s, k) = q[y] /\ At(h, s, k+1) = IF k = N THEN h ELSE q[y+1]
      <4> HIDE DEF src, y
      <4> QED  BY <2>a, <2>b, <3>1, <3>2
    <3> HIDE DEF src, y
    <3>5. x = q[i-1] /\ q[y] # p  BY <3>1, <2>c, <1>3 DEF x
    <3>6. CASE k = N
      BY <3>3, <3>4, <3>5, <3>6, <1>2, <1>6, <1>8
    <3>7. CASE k # N
      <4>1. m.next[q[y]] = q[y+1] /\ m.prev[q[y+1]] = q[y]  BY <3>1, <1>4
      <4>2. q[y] # x /\ q[y+1] # t /\ q[y+1] # e  BY <3>1, <3>2, <3>5, <3>7, <2>c, <1>3
      <4> QED  BY <3>1, <3>2, <3>4, <3>5, <3>7, <4>1, <4>2, <1>2, <1>6, <1>8
    <3> QED  BY <3>6, <3>7
  <2> QED  BY <2>1, <2>2, <2>3, <2>4, <1>2
<1>15. Ring(r, h, s)
  BY <1>10, <1>14 DEF Ring
<1>16. Spares(m, r, L, h)
  <2>1. \A y \in Addr \ {h, e, p, t, x} : r.next[y] = m.next[y] /\ r.prev[y] = m.prev[y]
    BY <1>8
  <2>2. \A y \in {h, e, p, t, x} : \E k : At(h, q, k) = y
    <3>1. At(h, q, 0) = h /\ At(h, q, i) = e /\ At(h, q, N) = p /\ At(h, q, 1) = t
      BY <1>2 DEF At, e, p, t, N
    <3>2. \E k : At(h, q, k) = x
      <4>1. CASE i = 1  BY <4>1, <3>1 DEF x
      <4>2. CASE i # 1
        <5>1. At(h, q, i-1) = x  BY <4>2, <1>2 DEF At, x, N
        <5> QED  BY <5>1
      <4> QED  BY <4>1, <4>2
    <3> QED  BY <3>1, <3>2
  <2>3. \A y \in Addr : (\A k : At(h, L[h], k) # y) => r.next[y] = m.next[y] /\ r.prev[y] = m.prev[y]
    BY <2>1, <2>2 DEF q
  <2> QED  BY <2>3, SparesOwn
<1>17. Apart(L, h, s)
  <2> HIDE DEF src
  <2>1. ASSUME NEW f \in LiveIn(L) \ {h}, NEW y \in 1..Len(L[f])
        PROVE  \A k \in 1..N : L[f][y] # q[k]
    BY DEF Good, q, N
  <2> QED  BY <2>1, <1>11 DEF Apart
<1>18. Good(r, [L EXCEPT ![h] = s])
  BY <1>8, <1>13, <1>15, <1>16, <1>17, UpdateOne
<1> QED  BY <1>7, <1>18 DEF s, a, b, q, e, N

\* A block of entries a..b goes in front of the cell at gap j, outside the block.
\* nx and pv say, by position, where the pointers lead after the assignments;
\* src says which entry of q each position of the result holds.
LEMMA BulkMoveGood ==
  ASSUME NEW m, NEW L, Good(m, L), NEW h \in LiveIn(L),
         NEW a \in 1..Len(L[h]), NEW b \in a..Len(L[h]), NEW j \in (1..(Len(L[h])+1)) \ (a..b)
  PROVE  LET q == L[h]
             block == SubSeq(q, a, b)
             s == IF j > b
                  THEN SubSeq(q, 1, a-1) \o SubSeq(q, b+1, j-1) \o block \o SubSeq(q, j, Len(q))
                  ELSE SubSeq(q, 1, j-1) \o block \o SubSeq(q, j, a-1) \o SubSeq(q, b+1, Len(q))
         IN  Good(list_bulk_move_tail(m, At(h, q, j), q[a], q[b]), [L EXCEPT ![h] = s])
<1> DEFINE q == L[h]
           N == Len(q)
           c(x) == At(h, q, x)
           t == c(j)
           p == c(a-1)
           n == c(b+1)
           first == q[a]
           last  == q[b]
           ui == IF j = b+1 THEN a-1 ELSE j-1
           u  == c(ui)
           block == SubSeq(q, a, b)
           s == IF j > b
                THEN SubSeq(q, 1, a-1) \o SubSeq(q, b+1, j-1) \o block \o SubSeq(q, j, N)
                ELSE SubSeq(q, 1, j-1) \o block \o SubSeq(q, j, a-1) \o SubSeq(q, b+1, N)
           r == list_bulk_move_tail(m, t, first, last)
           src(k) == IF j > b
                     THEN IF k < a THEN k
                          ELSE IF k < j-(b-a+1) THEN k+(b-a+1)
                          ELSE IF k < j THEN k-j+b+1 ELSE k
                     ELSE IF k < j THEN k
                          ELSE IF k < j+(b-a+1) THEN k-j+a
                          ELSE IF k <= b THEN k-(b-a+1) ELSE k
           nx(x) == IF x = b THEN j ELSE IF x = ui THEN a ELSE IF x = a-1 THEN b+1 ELSE x+1
           pv(y) == IF y = j THEN b ELSE IF y = a THEN ui ELSE IF y = b+1 THEN a-1 ELSE y-1
<1>1. /\ Chain(h, q) /\ Ring(m, h, q) /\ m \in Memory(Addr)
      /\ a \in 1..N /\ b \in a..N /\ j \in 1..(N+1) /\ ~(j \in a..b)
  BY GoodFacts DEF Good
<1> HIDE DEF q
<1>2. /\ q \in Seq(Nodes) /\ h \in Heads /\ N \in Nat
      /\ \A x : c(x) \in Addr
      /\ \A x, y \in 0..N : c(x) = c(y) => x = y
      /\ \A x, y \in 1..(N+1) : c(x) = c(y) => x = y
  BY <1>1, AtFacts DEF Chain
<1>3. c(a) = first /\ c(b) = last /\ c(0) = h /\ c(N+1) = h
  BY <1>1, <1>2 DEF At
<1>4. \A x \in 0..N : m.next[c(x)] = c(x+1) /\ m.prev[c(x+1)] = c(x)
  BY <1>1 DEF Ring
<1> HIDE DEF N, c
<1>5. /\ N \in Int /\ a \in Int /\ b \in Int /\ j \in Int /\ N >= 0
      /\ 1 <= a /\ a <= b /\ b <= N /\ 1 <= j /\ j <= N+1 /\ (j < a \/ j > b)
  BY <1>1, <1>2
<1>6. /\ a-1 \in 0..N /\ ui \in 0..N /\ b \in 0..N /\ a \in 1..(N+1) /\ b+1 \in 1..(N+1) /\ j \in 1..(N+1)
      /\ a-1+1 = a /\ ui+1 = (IF j = b+1 THEN a ELSE j) /\ b # a-1 /\ b # ui /\ a # b+1 /\ a # j
  BY <1>5
<1>7. /\ p \in Addr /\ n \in Addr /\ t \in Addr /\ u \in Addr /\ first \in Addr /\ last \in Addr
      /\ last # p /\ last # u /\ first # n /\ first # t /\ (t = n <=> j = b+1)
  BY <1>2, <1>3, <1>6
<1>8. /\ m.prev[first] = p /\ m.next[last] = n /\ (j # b+1 => m.prev[t] = u) /\ (j = b+1 => u = p)
  <2>1. m.prev[first] = p  BY <1>3, <1>4, <1>6
  <2>2. m.next[last] = n   BY <1>3, <1>4, <1>6
  <2>3. j # b+1 => m.prev[t] = u  BY <1>4, <1>6
  <2> QED  BY <2>1, <2>2, <2>3
<1> HIDE DEF ui
<1>9. /\ r.next = [[[m.next EXCEPT ![p] = n] EXCEPT ![u] = first] EXCEPT ![last] = t]
      /\ r.prev = [[[m.prev EXCEPT ![n] = p] EXCEPT ![first] = u] EXCEPT ![t] = last]
      /\ r \in Memory(Addr) /\ DOMAIN m.next = Addr /\ DOMAIN m.prev = Addr
  <2> HIDE DEF p, n, t, u, first, last
  <2> QED  BY <1>1, <1>7, <1>8 DEF list_bulk_move_tail, SetNext, SetPrev, Memory
<1> HIDE DEF r
<1>10. \A x \in 0..N : r.next[c(x)] = c(nx(x))
  <2> SUFFICES ASSUME NEW x \in 0..N PROVE r.next[c(x)] = c(nx(x))
    OBVIOUS
  <2>1. c(x) = last <=> x = b  BY <1>2, <1>3, <1>6
  <2>2. c(x) = u <=> x = ui  BY <1>2, <1>6
  <2>3. c(x) = p <=> x = a-1  BY <1>2, <1>6
  <2>4. m.next[c(x)] = c(x+1) /\ c(x) \in Addr  BY <1>2, <1>4
  <2> HIDE DEF p, n, t, u, first, last
  <2>5. r.next[c(x)] = IF x = b THEN t ELSE IF x = ui THEN first ELSE IF x = a-1 THEN n ELSE c(x+1)
    BY <2>1, <2>2, <2>3, <2>4, <1>7, <1>9
  <2> QED  BY <2>5, <1>3 DEF t, n
<1>11. \A y \in 1..(N+1) : r.prev[c(y)] = c(pv(y))
  <2> SUFFICES ASSUME NEW y \in 1..(N+1) PROVE r.prev[c(y)] = c(pv(y))
    OBVIOUS
  <2>1. c(y) = first <=> y = a  BY <1>2, <1>3, <1>6
  <2>2. c(y) = t <=> y = j  BY <1>2, <1>6
  <2>3. c(y) = n <=> y = b+1  BY <1>2, <1>6
  <2>4. m.prev[c(y)] = c(y-1) /\ c(y) \in Addr
    <3>1. y-1 \in 0..N /\ y-1+1 = y  BY <1>5
    <3> QED  BY <3>1, <1>2, <1>4
  <2> HIDE DEF p, n, t, u, first, last
  <2>5. r.prev[c(y)] = IF y = j THEN last ELSE IF y = a THEN u ELSE IF y = b+1 THEN p ELSE c(y-1)
    BY <2>1, <2>2, <2>3, <2>4, <1>7, <1>9
  <2> QED  BY <2>5, <1>3 DEF p, u
<1>12. /\ s \in Seq(Nodes) /\ Len(s) = N
       /\ \A k \in 1..N : s[k] = q[src(k)]
  <2>0. /\ block \in Seq(Nodes) /\ Len(block) = b-a+1 /\ \A k \in 1..(b-a+1) : block[k] = q[a+k-1]
    <3>1. a \in 1..(N+1) /\ b \in (a-1)..N  BY <1>5
    <3> QED  BY <3>1, <1>2, PieceFacts, SMTT(40) DEF N
  <2>1. CASE j > b
    <3> DEFINE x == SubSeq(q, 1, a-1)
               y == SubSeq(q, b+1, j-1)
               z == SubSeq(q, j, N)
               xyb == x \o y \o block
    <3>1. /\ x \in Seq(Nodes) /\ Len(x) = a-1 /\ \A k \in 1..(a-1) : x[k] = q[k]
          /\ y \in Seq(Nodes) /\ Len(y) = j-b-1 /\ \A k \in 1..(j-b-1) : y[k] = q[b+k]
          /\ z \in Seq(Nodes) /\ Len(z) = N-j+1 /\ \A k \in 1..(N-j+1) : z[k] = q[j+k-1]
      <4>1. /\ 1 \in 1..(N+1) /\ a-1 \in (1-1)..N /\ b+1 \in 1..(N+1) /\ j-1 \in (b+1-1)..N
            /\ j \in 1..(N+1) /\ N \in (j-1)..N
        BY <2>1, <1>5
      <4>2. /\ x \in Seq(Nodes) /\ Len(x) = a-1-1+1 /\ \A k \in 1..(a-1-1+1) : x[k] = q[1+k-1]
        BY <4>1, <1>2, PieceFacts DEF N
      <4>3. /\ y \in Seq(Nodes) /\ Len(y) = j-1-(b+1)+1 /\ \A k \in 1..(j-1-(b+1)+1) : y[k] = q[b+1+k-1]
        BY <4>1, <1>2, PieceFacts DEF N
      <4>4. /\ z \in Seq(Nodes) /\ Len(z) = N-j+1 /\ \A k \in 1..(N-j+1) : z[k] = q[j+k-1]
        BY <4>1, <1>2, PieceFacts DEF N
      <4> HIDE DEF x, y, z
      <4> QED  BY <4>2, <4>3, <4>4, <1>5
    <3> HIDE DEF x, y, z, block
    <3>2. /\ xyb \in Seq(Nodes) /\ Len(xyb) = Len(x) + Len(y) + Len(block)
          /\ \A k \in 1..Len(xyb) :
               xyb[k] = IF k <= Len(x) THEN x[k]
                        ELSE IF k <= Len(x) + Len(y) THEN y[k - Len(x)]
                        ELSE block[k - Len(x) - Len(y)]
      <4>1. x \in Seq(Nodes) /\ y \in Seq(Nodes) /\ block \in Seq(Nodes)  BY <2>0, <3>1
      <4> QED  BY <4>1, ThreePieces
    <3>3. s = xyb \o z  BY <2>1 DEF x, y, z
    <3> HIDE DEF xyb, s, src
    <3>4. /\ s \in Seq(Nodes) /\ Len(s) = Len(xyb) + Len(z)
          /\ \A k \in 1..(Len(xyb) + Len(z)) : s[k] = IF k <= Len(xyb) THEN xyb[k] ELSE z[k - Len(xyb)]
      <4>1. xyb \in Seq(Nodes) /\ z \in Seq(Nodes)  BY <3>1, <3>2
      <4> QED  BY <4>1, <3>3, ConcatProperties
    <3>5. Len(xyb) = j-1 /\ Len(s) = N
      BY <2>0, <3>1, <3>2, <3>4, <1>5
    <3>6. ASSUME NEW k \in 1..N PROVE s[k] = q[src(k)]
      <4>0. k \in Int /\ 1 <= k /\ k <= N  BY <1>5
      <4>1. CASE k < a
        <5>1. k \in 1..Len(xyb) /\ k <= Len(x) /\ k \in 1..(a-1) /\ src(k) = k /\ k <= Len(xyb)
          BY <4>0, <4>1, <2>1, <3>1, <3>5, <1>5 DEF src
        <5>2. s[k] = xyb[k]  BY <5>1, <3>4, <3>5
        <5>3. xyb[k] = x[k]  BY <5>1, <3>2
        <5> QED  BY <5>1, <5>2, <5>3, <3>1
      <4>2. CASE ~(k < a) /\ k < j-(b-a+1)
        <5>1. /\ k \in 1..Len(xyb) /\ ~(k <= Len(x)) /\ k <= Len(x) + Len(y)
              /\ k - Len(x) \in 1..(j-b-1) /\ b + (k - Len(x)) = src(k) /\ k <= Len(xyb)
          BY <4>0, <4>2, <2>1, <3>1, <3>5, <1>5 DEF src
        <5>2. s[k] = xyb[k]  BY <5>1, <3>4, <3>5
        <5>3. xyb[k] = y[k - Len(x)]  BY <5>1, <3>2
        <5> QED  BY <5>1, <5>2, <5>3, <3>1
      <4>3. CASE ~(k < a) /\ ~(k < j-(b-a+1)) /\ k < j
        <5>1. /\ k \in 1..Len(xyb) /\ ~(k <= Len(x)) /\ ~(k <= Len(x) + Len(y))
              /\ k - Len(x) - Len(y) \in 1..(b-a+1) /\ a + (k - Len(x) - Len(y)) - 1 = src(k)
              /\ k <= Len(xyb)
          BY <4>0, <4>3, <2>1, <3>1, <3>5, <1>5 DEF src
        <5>2. s[k] = xyb[k]  BY <5>1, <3>4, <3>5
        <5>3. xyb[k] = block[k - Len(x) - Len(y)]  BY <5>1, <3>2
        <5> QED  BY <5>1, <5>2, <5>3, <2>0
      <4>4. CASE ~(k < j)
        <5>1. /\ ~(k <= Len(xyb)) /\ k - Len(xyb) \in 1..(N-j+1) /\ j + (k - Len(xyb)) - 1 = src(k)
              /\ k \in 1..(Len(xyb) + Len(z))
          BY <4>0, <4>4, <2>1, <3>1, <3>5, <1>5 DEF src
        <5>2. s[k] = z[k - Len(xyb)]  BY <5>1, <3>4
        <5> QED  BY <5>1, <5>2, <3>1
      <4> QED  BY <4>1, <4>2, <4>3, <4>4
    <3> QED  BY <3>4, <3>5, <3>6
  <2>2. CASE ~(j > b)
    <3> DEFINE x == SubSeq(q, 1, j-1)
               y == SubSeq(q, j, a-1)
               z == SubSeq(q, b+1, N)
               xby == x \o block \o y
    <3>1. /\ x \in Seq(Nodes) /\ Len(x) = j-1 /\ \A k \in 1..(j-1) : x[k] = q[k]
          /\ y \in Seq(Nodes) /\ Len(y) = a-j /\ \A k \in 1..(a-j) : y[k] = q[j+k-1]
          /\ z \in Seq(Nodes) /\ Len(z) = N-b /\ \A k \in 1..(N-b) : z[k] = q[b+k]
      <4>1. /\ 1 \in 1..(N+1) /\ j-1 \in (1-1)..N /\ j \in 1..(N+1) /\ a-1 \in (j-1)..N
            /\ b+1 \in 1..(N+1) /\ N \in (b+1-1)..N
        BY <2>2, <1>5
      <4>2. /\ x \in Seq(Nodes) /\ Len(x) = j-1-1+1 /\ \A k \in 1..(j-1-1+1) : x[k] = q[1+k-1]
        BY <4>1, <1>2, PieceFacts DEF N
      <4>3. /\ y \in Seq(Nodes) /\ Len(y) = a-1-j+1 /\ \A k \in 1..(a-1-j+1) : y[k] = q[j+k-1]
        BY <4>1, <1>2, PieceFacts DEF N
      <4>4. /\ z \in Seq(Nodes) /\ Len(z) = N-(b+1)+1 /\ \A k \in 1..(N-(b+1)+1) : z[k] = q[b+1+k-1]
        BY <4>1, <1>2, PieceFacts DEF N
      <4>5. \A k \in 1..(N-b) : b+1+k-1 = b+k  BY <1>5
      <4>6. N-(b+1)+1 = N-b /\ a-1-j+1 = a-j /\ j-1-1+1 = j-1  BY <1>5
      <4>7. \A k \in 1..(j-1) : 1+k-1 = k  BY <1>5
      <4> HIDE DEF x, y, z
      <4>8. z \in Seq(Nodes) /\ Len(z) = N-b /\ \A k \in 1..(N-b) : z[k] = q[b+k]
        BY <4>4, <4>5, <4>6
      <4>9. x \in Seq(Nodes) /\ Len(x) = j-1 /\ \A k \in 1..(j-1) : x[k] = q[k]
        BY <4>2, <4>6, <4>7
      <4> QED  BY <4>3, <4>6, <4>8, <4>9
    <3> HIDE DEF x, y, z, block
    <3>2. /\ xby \in Seq(Nodes) /\ Len(xby) = Len(x) + Len(block) + Len(y)
          /\ \A k \in 1..Len(xby) :
               xby[k] = IF k <= Len(x) THEN x[k]
                        ELSE IF k <= Len(x) + Len(block) THEN block[k - Len(x)]
                        ELSE y[k - Len(x) - Len(block)]
      <4>1. x \in Seq(Nodes) /\ y \in Seq(Nodes) /\ block \in Seq(Nodes)  BY <2>0, <3>1
      <4> QED  BY <4>1, ThreePieces
    <3>3. s = xby \o z  BY <2>2 DEF x, y, z
    <3> HIDE DEF xby, s, src
    <3>4. /\ s \in Seq(Nodes) /\ Len(s) = Len(xby) + Len(z)
          /\ \A k \in 1..(Len(xby) + Len(z)) : s[k] = IF k <= Len(xby) THEN xby[k] ELSE z[k - Len(xby)]
      <4>1. xby \in Seq(Nodes) /\ z \in Seq(Nodes)  BY <3>1, <3>2
      <4> QED  BY <4>1, <3>3, ConcatProperties
    <3>5. Len(xby) = b /\ Len(s) = N
      BY <2>0, <3>1, <3>2, <3>4, <1>5
    <3>6. ASSUME NEW k \in 1..N PROVE s[k] = q[src(k)]
      <4>0. k \in Int /\ 1 <= k /\ k <= N  BY <1>5
      <4>1. CASE k < j
        <5>1. k \in 1..Len(xby) /\ k <= Len(x) /\ k \in 1..(j-1) /\ src(k) = k /\ k <= Len(xby)
          BY <4>0, <4>1, <2>2, <3>1, <3>5, <1>5 DEF src
        <5>2. s[k] = xby[k]  BY <5>1, <3>4, <3>5
        <5>3. xby[k] = x[k]  BY <5>1, <3>2
        <5> QED  BY <5>1, <5>2, <5>3, <3>1
      <4>2. CASE ~(k < j) /\ k < j+(b-a+1)
        <5>0. Len(x) = j-1 /\ Len(block) = b-a+1 /\ Len(xby) = b /\ src(k) = k-j+a
          BY <4>2, <2>0, <2>2, <3>1, <3>5 DEF src
        <5>1. /\ k \in 1..Len(xby) /\ ~(k <= Len(x)) /\ k <= Len(x) + Len(block)
              /\ k - Len(x) \in 1..(b-a+1) /\ a + (k - Len(x)) - 1 = src(k) /\ k <= Len(xby)
          BY <5>0, <4>0, <4>2, <2>2, <1>5
        <5>2. s[k] = xby[k]  BY <5>1, <3>4, <3>5
        <5>3. xby[k] = block[k - Len(x)]  BY <5>1, <3>2
        <5> QED  BY <5>1, <5>2, <5>3, <2>0
      <4>3. CASE ~(k < j) /\ ~(k < j+(b-a+1)) /\ k <= b
        <5>1. /\ k \in 1..Len(xby) /\ ~(k <= Len(x)) /\ ~(k <= Len(x) + Len(block))
              /\ k - Len(x) - Len(block) \in 1..(a-j) /\ j + (k - Len(x) - Len(block)) - 1 = src(k)
              /\ k <= Len(xby)
          BY <4>0, <4>3, <2>0, <2>2, <3>1, <3>5, <1>5 DEF src
        <5>2. s[k] = xby[k]  BY <5>1, <3>4, <3>5
        <5>3. xby[k] = y[k - Len(x) - Len(block)]  BY <5>1, <3>2
        <5> QED  BY <5>1, <5>2, <5>3, <3>1
      <4>4. CASE ~(k <= b)
        <5>1. /\ ~(k <= Len(xby)) /\ k - Len(xby) \in 1..(N-b) /\ b + (k - Len(xby)) = src(k)
              /\ k \in 1..(Len(xby) + Len(z))
          BY <4>0, <4>4, <2>2, <3>1, <3>5, <1>5 DEF src
        <5>2. s[k] = z[k - Len(xby)]  BY <5>1, <3>4
        <5> QED  BY <5>1, <5>2, <3>1
      <4> QED  BY <4>1, <4>2, <4>3, <4>4, <4>0, <1>5, <2>2
    <3> QED  BY <3>4, <3>5, <3>6
  <2> QED  BY <2>1, <2>2
<1> HIDE DEF s
<1>13. /\ src(0) = 0 /\ src(N+1) = N+1
       /\ \A k \in 1..N : src(k) \in 1..N
       /\ \A k, l \in 1..N : src(k) = src(l) => k = l
  BY <1>5
<1>14. \A k \in 0..N : nx(src(k)) = src(k+1) /\ pv(src(k+1)) = src(k)
  BY <1>5 DEF ui
<1> HIDE DEF src, nx, pv
<1>15. \A k \in 0..(N+1) : At(h, s, k) = c(src(k))
  <2> SUFFICES ASSUME NEW k \in 0..(N+1) PROVE At(h, s, k) = c(src(k))
    OBVIOUS
  <2>1. CASE k = 0  BY <2>1, <1>3, <1>12, <1>13 DEF At
  <2>2. CASE k = N+1  BY <2>2, <1>3, <1>5, <1>12, <1>13 DEF At
  <2>3. CASE k \in 1..N
    <3>1. At(h, s, k) = q[src(k)]  BY <2>3, <1>12 DEF At
    <3>2. src(k) \in 1..Len(q)  BY <2>3, <1>13 DEF N
    <3> QED  BY <3>1, <3>2 DEF c, At
  <2> QED  BY <2>1, <2>2, <2>3, <1>5
<1>16. Chain(h, s)
  <2> SUFFICES ASSUME NEW k \in 1..N, NEW l \in 1..N, s[k] = s[l] PROVE k = l
    BY <1>2, <1>12 DEF Chain
  <2>1. src(k) = src(l)  BY <1>1, <1>12, <1>13 DEF Chain, N
  <2> QED  BY <2>1, <1>13
<1>17. Ring(r, h, s)
  <2> SUFFICES ASSUME NEW k \in 0..N
               PROVE  r.next[At(h, s, k)] = At(h, s, k+1) /\ r.prev[At(h, s, k+1)] = At(h, s, k)
    BY <1>12 DEF Ring
  <2>1. k \in 0..(N+1) /\ k+1 \in 0..(N+1)  BY <1>5
  <2>2. At(h, s, k) = c(src(k)) /\ At(h, s, k+1) = c(src(k+1))  BY <2>1, <1>15
  <2>3. src(k) \in 0..N
    <3>1. CASE k = 0  BY <3>1, <1>5, <1>13
    <3>2. CASE k \in 1..N
      <4>1. src(k) \in 1..N  BY <3>2, <1>13
      <4> QED  BY <4>1, <1>5
    <3> QED  BY <3>1, <3>2, <1>5
  <2>4. src(k+1) \in 1..(N+1)
    <3>1. CASE k = N  BY <3>1, <1>5, <1>13
    <3>2. CASE k # N
      <4>1. k+1 \in 1..N  BY <3>2, <1>5
      <4> QED  BY <4>1, <1>5, <1>13
    <3> QED  BY <3>1, <3>2
  <2>5. r.next[c(src(k))] = c(nx(src(k)))  BY <2>3, <1>10
  <2>6. r.prev[c(src(k+1))] = c(pv(src(k+1)))  BY <2>4, <1>11
  <2> QED  BY <2>2, <2>5, <2>6, <1>14
<1>18. Spares(m, r, L, h)
  <2>1. \A y \in Addr \ {p, n, t, u, first, last} : r.next[y] = m.next[y] /\ r.prev[y] = m.prev[y]
    <3> HIDE DEF p, n, t, u, first, last
    <3> QED  BY <1>9
  <2>2. \A y \in {p, n, t, u, first, last} : \E k : At(h, q, k) = y
    BY <1>3 DEF c
  <2> HIDE DEF p, n, t, u, first, last
  <2>3. \A y \in Addr : (\A k : At(h, L[h], k) # y) => r.next[y] = m.next[y] /\ r.prev[y] = m.prev[y]
    BY <2>1, <2>2 DEF q
  <2> QED  BY <2>3, SparesOwn
<1>19. Apart(L, h, s)
  <2>1. ASSUME NEW f \in LiveIn(L) \ {h}, NEW y \in 1..Len(L[f])
        PROVE  \A k \in 1..N : L[f][y] # q[k]
    BY DEF Good, q, N
  <2>2. \A k \in 1..Len(s) : src(k) \in 1..N /\ s[k] = q[src(k)]
    BY <1>12, <1>13
  <2> SUFFICES ASSUME NEW f \in LiveIn(L) \ {h}, NEW y \in 1..Len(L[f]), NEW k \in 1..Len(s)
               PROVE  L[f][y] # s[k]
    BY DEF Apart
  <2> QED  BY <2>1, <2>2
<1>20. Good(r, [L EXCEPT ![h] = s])
  BY <1>9, <1>16, <1>17, <1>18, <1>19, UpdateOne
<1> QED  BY <1>20 DEF s, r, q, N, c

-----------------------------------------------------------------------------
(* The invariant of the specification.                                     *)

\* The inductive invariant: the steps need the memory's type and every ring.
IInv == TypeOK /\ Represents

\* The inductive invariant says that the memory is good for the lists.
LEMMA IInvIsGood ==
  /\ IInv <=> Good(mem, lists)
  /\ IInv' <=> Good(mem', lists')
  /\ Live = LiveIn(lists)
BY DEF IInv, Good, TypeOK, ListsType, Represents, NodesDistinct, Live, LiveIn, AllLists, Positions

\* The initial states satisfy the inductive invariant.
LEMMA InitGood == Init => IInv
<1> SUFFICES ASSUME Init PROVE IInv
  OBVIOUS
<1>1. Live = {}
  BY DEF Init, Live
<1>2. mem \in Memory(Addr)
  BY DEF Init, Memory
<1>3. lists \in [Heads -> Seq(Nodes) \cup {Undefined}]
  BY DEF Init
<1> QED  BY <1>1, <1>2, <1>3 DEF IInv, TypeOK, ListsType, Represents, NodesDistinct

\* A free node is on no list.
LEMMA FreeIsOff ==
  ASSUME NEW n \in Free
  PROVE  Off(lists, n) /\ n \in Nodes /\ n \in Addr
BY CellsAssumption DEF Free, Off, Live, LiveIn, Addr

\* The steps that give or take a node.
LEMMA NodeStepGood ==
  ASSUME IInv, NEW n \in Nodes, NodeStep(n)
  PROVE  IInv'
<1> USE DEF Cell, Positions, Gaps
<1>0. Good(mem, lists) /\ Live = LiveIn(lists)
  BY IInvIsGood
<1> SUFFICES Good(mem', lists')
  BY IInvIsGood
<1>1. CASE InitNode(n)
  BY <1>0, <1>1, FreeIsOff, InitOff DEF InitNode
<1>2. ASSUME NEW h \in Live, NEW i \in Gaps(h), ListAdd(n, h, i)
      PROVE  Good(mem', lists')
  BY <1>0, <1>2, FreeIsOff, InsertGood DEF ListAdd, Insert
<1>3. ASSUME NEW h \in Live, NEW i \in Gaps(h), ListAddTail(n, h, i)
      PROVE  Good(mem', lists')
  BY <1>0, <1>3, FreeIsOff, InsertGood DEF ListAddTail, Insert
<1>4. ASSUME NEW h \in Live, NEW i \in Positions(h), ListReplace(h, i, n)
      PROVE  Good(mem', lists')
  BY <1>0, <1>4, FreeIsOff, ReplaceGood DEF ListReplace, Substitute
<1>5. ASSUME NEW h \in Live, NEW i \in Positions(h), ListReplaceInit(h, i, n)
      PROVE  Good(mem', lists')
  <2> DEFINE e == lists[h][i]
             r == list_replace(mem, e, n)
             M == [lists EXCEPT ![h] = ReplaceAt(lists[h], i, n)]
  <2>1. Good(r, M) /\ Off(M, e)
    BY <1>0, <1>5, FreeIsOff, ReplaceGood DEF ListReplaceInit
  <2>2. e \in Addr
    BY <1>0, GoodFacts, AtFacts DEF Addr
  <2>3. mem' = INIT_LIST_HEAD(r, e) /\ lists' = M
    BY <1>5 DEF ListReplaceInit, Substitute, list_replace_init
  <2> HIDE DEF r, M, e
  <2> QED  BY <2>1, <2>2, <2>3, InitOff
<1> QED  BY <1>1, <1>2, <1>3, <1>4, <1>5 DEF NodeStep

\* The steps that take an entry off, or move entries of live lists.
LEMMA EntryStepGood ==
  ASSUME IInv, NEW h \in Live, NEW i \in Positions(h), EntryStep(h, i)
  PROVE  IInv'
<1> USE DEF Cell, Positions, Gaps
<1> DEFINE e == lists[h][i]
           a == __list_del_entry(mem, e)
           M == Without(lists, h, i)
<1>0. Good(mem, lists) /\ Live = LiveIn(lists)
  BY IInvIsGood
<1> SUFFICES Good(mem', lists')
  BY IInvIsGood
<1>1. Good(a, M) /\ Off(M, e) /\ e \in Addr
  <2>1. Good(a, M) /\ Off(M, e)  BY <1>0, RemoveGood
  <2>2. e \in Nodes  BY <1>0, GoodFacts, AtFacts
  <2> QED  BY <2>1, <2>2 DEF Addr
<1>2. CASE ListDel(h, i)
  <2> DEFINE b == SetNext(a, e, LIST_POISON1)
  <2>1. mem' = SetPrev(b, e, LIST_POISON2) /\ lists' = M
    BY <1>2 DEF ListDel, Delete, list_del
  <2> HIDE DEF a, M, e
  <2>2. Good(b, M)  BY <1>1, WriteOff
  <2> HIDE DEF b
  <2> QED  BY <1>1, <2>1, <2>2, WriteOff
<1>3. CASE ListDelInit(h, i)
  <2>1. mem' = INIT_LIST_HEAD(a, e) /\ lists' = M
    BY <1>3 DEF ListDelInit, Delete, list_del_init
  <2> HIDE DEF a, M, e
  <2> QED  BY <1>1, <2>1, InitOff
<1>4. CASE ListDelClearprev(h, i)
  <2>1. mem' = SetPrev(a, e, NULL) /\ lists' = M
    BY <1>4 DEF ListDelClearprev, Delete, __list_del_clearprev
  <2> HIDE DEF a, M, e
  <2> QED  BY <1>1, <2>1, WriteOff
<1>5. CASE ListRotateToFront(h, i)
  BY <1>0, <1>5, RotateGood DEF ListRotateToFront, Rotate
<1>6. ASSUME NEW g \in Live, NEW j \in Positions(g), ListSwap(h, i, g, j)
      PROVE  Good(mem', lists')
  BY <1>0, <1>6, SwapGood DEF ListSwap, Exchange
<1>7. ASSUME NEW g \in Live, NEW j \in Gaps(g), ListMove(h, i, g, j)
      PROVE  Good(mem', lists')
  BY <1>0, <1>7, MoveGood DEF ListMove, Move
<1>8. ASSUME NEW g \in Live, NEW j \in Gaps(g), ListMoveTail(h, i, g, j)
      PROVE  Good(mem', lists')
  BY <1>0, <1>8, MoveGood DEF ListMoveTail, Move
<1>9. ASSUME NEW b \in Positions(h), NEW j \in Gaps(h), ListBulkMoveTail(h, i, b, j)
      PROVE  Good(mem', lists')
  <2>1. /\ h \in LiveIn(lists) /\ i \in 1..Len(lists[h]) /\ b \in i..Len(lists[h])
        /\ j \in (1..(Len(lists[h])+1)) \ (i..b)
    BY <1>0, <1>9 DEF ListBulkMoveTail
  <2> QED  BY <1>0, <1>9, <2>1, BulkMoveGood DEF ListBulkMoveTail, MoveBlock
<1> QED  BY <1>2, <1>3, <1>4, <1>5, <1>6, <1>7, <1>8, <1>9 DEF EntryStep

\* What the tests on a head and the pointers next to it say, of a good memory.
LEMMA HeadFacts ==
  ASSUME NEW m, NEW L, Good(m, L), NEW h \in LiveIn(L)
  PROVE  /\ L[h] \in Seq(Nodes) /\ Len(L[h]) \in Nat /\ (L[h] = <<>> <=> Len(L[h]) = 0)
         /\ h \in Heads /\ h \in Addr
         /\ list_empty(m, h) <=> L[h] = <<>>
         /\ \A k \in 0..Len(L[h]) : /\ m.next[At(h, L[h], k)] = At(h, L[h], k+1)
                                    /\ m.prev[At(h, L[h], k+1)] = At(h, L[h], k)
         /\ m.next[h] = At(h, L[h], 1)
<1> DEFINE q == L[h]
<1>1. Chain(h, q) /\ Ring(m, h, q)
  BY GoodFacts
<1> HIDE DEF q
<1>2. q \in Seq(Nodes) /\ Len(q) \in Nat /\ h \in Heads /\ h \in Addr /\ (q = <<>> <=> Len(q) = 0)
  BY <1>1, AtFacts, EmptySeq DEF Chain, Addr
<1>3. m.next[h] = At(h, q, 1)
  <2>1. 0 \in 0..Len(q) /\ At(h, q, 0) = h /\ 0+1 = 1  BY <1>1, <1>2, AtFacts
  <2> QED  BY <2>1, <1>1 DEF Ring
<1>4. list_empty(m, h) <=> Len(q) = 0
  <2>1. CASE Len(q) = 0  BY <2>1, <1>3 DEF list_empty, At
  <2>2. CASE Len(q) # 0
    <3>1. 1 \in 1..Len(q)  BY <2>2, <1>2
    <3> QED  BY <2>2, <3>1, <1>1, <1>3, AtFacts DEF list_empty
  <2> QED  BY <2>1, <2>2
<1> QED  BY <1>1, <1>2, <1>3, <1>4 DEF Ring, q

\* The lists and the memory after all of g is spliced into gap j of h.
Joined(L, h, g, j, rest) ==
  [L EXCEPT ![h] = SubSeq(L[h], 1, j-1) \o L[g] \o SubSeq(L[h], j, Len(L[h])), ![g] = rest]

SplicedMem(m, L, h, g, j) == __list_splice(m, g, At(h, L[h], j-1), At(h, L[h], j))

\* Splicing leaves the donor behind; the _init forms make it an empty list.
LEMMA JoinGood ==
  ASSUME NEW m, NEW L, Good(m, L), NEW h \in LiveIn(L), NEW g \in LiveIn(L) \ {h},
         L[g] # <<>>, NEW j \in 1..(Len(L[h])+1)
  PROVE  /\ Good(SplicedMem(m, L, h, g, j), Joined(L, h, g, j, Undefined))
         /\ Good(INIT_LIST_HEAD(SplicedMem(m, L, h, g, j), g), Joined(L, h, g, j, <<>>))
         /\ m.next[At(h, L[h], j-1)] = At(h, L[h], j)
         /\ m.prev[At(h, L[h], j)] = At(h, L[h], j-1)
<1> DEFINE M == Joined(L, h, g, j, Undefined)
           r == SplicedMem(m, L, h, g, j)
<1>1. Good(r, M)
  BY SpliceGood DEF Joined, SplicedMem
<1>2. h \in Heads /\ g \in Heads /\ L \in AllLists /\ h # g
  BY DEF LiveIn, Good
<1>3. Good(INIT_LIST_HEAD(r, g), [M EXCEPT ![g] = <<>>])
  <2> HIDE DEF M, r
  <2> QED  BY <1>1, <1>2, InitHeadGood
<1>4. [M EXCEPT ![g] = <<>>] = Joined(L, h, g, j, <<>>)
  BY <1>2 DEF AllLists, Joined
<1>5. Good(INIT_LIST_HEAD(r, g), Joined(L, h, g, j, <<>>))
  BY <1>3, <1>4
<1>6. j-1 \in 0..Len(L[h]) /\ j-1+1 = j
  BY HeadFacts
<1>7. m.next[At(h, L[h], j-1)] = At(h, L[h], j) /\ m.prev[At(h, L[h], j)] = At(h, L[h], j-1)
  BY <1>6, HeadFacts
<1> QED  BY <1>1, <1>5, <1>7

\* The first function of the two that cut is its common part, unless the entry
\* is the head; the second is, unless the entry is the first.
LEMMA CutFacts ==
  ASSUME NEW m, NEW L, Good(m, L), NEW h \in LiveIn(L), NEW g \in Heads \ {h},
         NEW k \in 0..Len(L[h]), L[h] # <<>>
  PROVE  /\ list_cut_position(m, g, h, At(h, L[h], k)) =
              IF k = 0 THEN INIT_LIST_HEAD(m, g) ELSE __list_cut_position(m, g, h, L[h][k])
         /\ list_cut_before(m, g, h, At(h, L[h], k+1)) =
              IF k = 0 THEN INIT_LIST_HEAD(m, g) ELSE __list_cut_position(m, g, h, L[h][k])
<1> DEFINE q == L[h]
           N == Len(q)
           entry == At(h, q, k)
           nf == At(h, q, k+1)
           first == At(h, q, 1)
<1>1. /\ N \in Nat /\ N # 0 /\ ~list_empty(m, h) /\ m \in Memory(Addr) /\ h \in Addr
      /\ m.next[h] = first /\ m.next[entry] = nf /\ m.prev[nf] = entry
  BY HeadFacts DEF Good
<1>2. /\ Chain(h, q) /\ \A x, y \in 0..N : At(h, q, x) = At(h, q, y) => x = y
      /\ \A x, y \in 1..(N+1) : At(h, q, x) = At(h, q, y) => x = y
      /\ At(h, q, 0) = h /\ \A x : At(h, q, x) \in Addr
  BY GoodFacts, AtFacts
<1>3. g \in Addr /\ g # h /\ \A x : At(h, q, x) # g
  <2>1. \A x \in 1..N : q[x] \in Nodes  BY <1>2, AtFacts
  <2> QED  BY <2>1, CellsAssumption DEF Addr, At
<1>4. k # 0 => entry = q[k]
  BY <1>1 DEF At
<1>5. (entry = h <=> k = 0) /\ (first = nf <=> k = 0)
  <2>1. 0 \in 0..N /\ k \in 0..N /\ 1 \in 1..(N+1) /\ k+1 \in 1..(N+1)  BY <1>1
  <2> QED  BY <2>1, <1>2
<1>6. ~(list_is_singular(m, h) /\ m.next[h] # entry /\ h # entry)
  <2> SUFFICES ASSUME list_is_singular(m, h), h # entry PROVE first = entry
    BY <1>1
  <2>1. m.prev[h] = first  BY <1>1 DEF list_is_singular
  <2>2. m.prev[h] = At(h, q, N)
    <3>1. N \in 0..N /\ At(h, q, N+1) = h  BY <1>1, <1>2, AtFacts
    <3> QED  BY <3>1, HeadFacts
  <2>3. N = 1
    <3>1. N \in 0..N /\ 1 \in 0..N  BY <1>1
    <3> QED  BY <3>1, <2>1, <2>2, <1>2
  <2> QED  BY <2>3, <1>5
<1>7. list_cut_position(m, g, h, entry) = IF k = 0 THEN INIT_LIST_HEAD(m, g) ELSE __list_cut_position(m, g, h, q[k])
  BY <1>1, <1>4, <1>5, <1>6 DEF list_cut_position
<1>8. list_cut_before(m, g, h, nf) = IF k = 0 THEN INIT_LIST_HEAD(m, g) ELSE __list_cut_position(m, g, h, q[k])
  <2>1. CASE k = 0
    BY <2>1, <1>1, <1>5 DEF list_cut_before
  <2>2. CASE k # 0
    <3>1. first # nf /\ entry # h /\ entry # g /\ first # g /\ nf # g /\ first \in Addr /\ nf \in Addr /\ entry \in Addr
      BY <2>2, <1>2, <1>3, <1>5
    <3> HIDE DEF first, nf, entry, q
    <3>2. list_cut_before(m, g, h, nf) = __list_cut_position(m, g, h, entry)
      <4> DEFINE m1 == SetNext(m, g, first)
                 m2 == SetPrev(m1, first, g)
      <4>1. /\ m1.next[g] = first /\ m1.prev = m.prev /\ m1.next = [m.next EXCEPT ![g] = first]
        BY <1>1, <1>3 DEF SetNext, Memory
      <4>2. m2.prev = [m.prev EXCEPT ![first] = g] /\ m2.next = m1.next
        BY <4>1 DEF SetPrev
      <4>3. m2.prev[nf] = entry
        BY <4>2, <3>1, <1>1 DEF Memory
      <4>4. SetPrev(m2, g, entry).prev[g] = entry
        <5> HIDE DEF m2
        <5> QED  BY <4>2, <1>1, <1>3 DEF SetPrev, Memory
      <4> QED  BY <4>1, <4>3, <4>4, <3>1, <1>1 DEF list_cut_before, __list_cut_position
    <3> QED  BY <2>2, <3>2, <1>4
  <2> QED  BY <2>1, <2>2
<1> QED  BY <1>7, <1>8

\* The lists after a cut at k, whichever function makes it.
LEMMA SplitGood ==
  ASSUME NEW m, NEW L, Good(m, L), NEW h \in LiveIn(L), NEW g \in Heads \ {h},
         NEW k \in 0..Len(L[h]), NEW r,
         r = IF k = 0 THEN INIT_LIST_HEAD(m, g) ELSE __list_cut_position(m, g, h, L[h][k])
  PROVE  Good(r, [L EXCEPT ![g] = SubSeq(L[h], 1, k), ![h] = SubSeq(L[h], k+1, Len(L[h]))])
<1>1. L[h] \in Seq(Nodes) /\ Len(L[h]) \in Nat /\ h \in Heads /\ L \in AllLists
  BY HeadFacts DEF Good
<1>2. CASE k = 0
  <2>1. SubSeq(L[h], 1, k) = <<>> /\ SubSeq(L[h], k+1, Len(L[h])) = L[h]
    BY <1>1, <1>2, SubSeqEmpty, SubSeqFull
  <2>2. [L EXCEPT ![g] = <<>>, ![h] = L[h]] = [L EXCEPT ![g] = <<>>]
    BY <1>1 DEF AllLists
  <2>3. Good(r, [L EXCEPT ![g] = <<>>])
    BY <1>2, InitHeadGood
  <2> QED  BY <2>1, <2>2, <2>3
<1>3. CASE k # 0
  <2>1. k \in 1..Len(L[h])  BY <1>1, <1>3
  <2> QED  BY <2>1, <1>3, CutGood
<1> QED  BY <1>2, <1>3

\* The steps that work on whole lists.
LEMMA HeadStepGood ==
  ASSUME IInv, NEW h \in Live, HeadStep(h)
  PROVE  IInv'
<1> USE DEF Cell, Positions, Gaps
<1>0. Good(mem, lists) /\ Live = LiveIn(lists) /\ lists \in AllLists
  BY IInvIsGood DEF Good
<1>a. /\ lists[h] \in Seq(Nodes) /\ Len(lists[h]) \in Nat /\ (lists[h] = <<>> <=> Len(lists[h]) = 0)
      /\ h \in Heads /\ (list_empty(mem, h) <=> lists[h] = <<>>)
      /\ mem.next[h] = At(h, lists[h], 1)
  BY <1>0, HeadFacts
<1> SUFFICES Good(mem', lists')
  BY IInvIsGood
<1>1. CASE ListRotateLeft(h)
  <2>1. CASE lists[h] = <<>>
    BY <2>1, <1>0, <1>1, <1>a DEF ListRotateLeft, list_rotate_left
  <2>2. CASE lists[h] # <<>>
    <3> DEFINE left == Without(lists, h, 1)
               j == Len(lists[h])
    <3>1. 1 \in 1..Len(lists[h]) /\ mem.next[h] = lists[h][1]
      BY <2>2, <1>a DEF At
    <3>2. left[h] = RemoveAt(lists[h], 1)
      BY <3>1, <1>0, WithoutFacts
    <3>3. Len(left[h]) = Len(lists[h]) - 1
      BY <3>1, <3>2, <1>a, RemoveAtFacts
    <3> HIDE DEF left
    <3>4. j \in 1..(Len(left[h])+1) /\ At(h, left[h], j) = h
      BY <3>1, <3>3, <1>a DEF At
    <3>5. Good(list_move_tail(mem, lists[h][1], At(h, left[h], j)), With(left, h, j, lists[h][1]))
      BY <3>1, <3>4, <1>0, MoveGood DEF left
    <3> QED  BY <2>2, <3>1, <3>4, <3>5, <1>1, <1>a DEF ListRotateLeft, list_rotate_left, Move, left
  <2> QED  BY <2>1, <2>2
<1>2. ASSUME NEW g \in Heads \ {h}, ListReplaceHead(h, g)
      PROVE  Good(mem', lists')
  BY <1>0, <1>2, TakeOverGood DEF ListReplaceHead, TakeOver
<1>3. ASSUME NEW g \in Heads \ {h}, ListReplaceInitHead(h, g)
      PROVE  Good(mem', lists')
  <2> DEFINE M == [lists EXCEPT ![g] = lists[h], ![h] = Undefined]
             r == list_replace(mem, h, g)
  <2>1. Good(r, M)  BY <1>0, TakeOverGood
  <2>2. mem' = INIT_LIST_HEAD(r, h)
    BY <1>3 DEF ListReplaceInitHead, list_replace_init
  <2>3. lists' = [M EXCEPT ![h] = <<>>]
    BY <1>0, <1>3, <1>a DEF ListReplaceInitHead, TakeOver, AllLists
  <2> HIDE DEF M, r
  <2> QED  BY <2>1, <2>2, <2>3, <1>a, InitHeadGood
<1>4. ASSUME NEW g \in Heads \ {h}, NEW k \in 0..Len(lists[h]), ListCutPosition(g, h, k)
      PROVE  Good(mem', lists')
  <2>1. CASE lists[h] = <<>>
    BY <2>1, <1>0, <1>4, <1>a DEF ListCutPosition, list_cut_position
  <2>2. CASE lists[h] # <<>>
    <3>1. mem' = IF k = 0 THEN INIT_LIST_HEAD(mem, g) ELSE __list_cut_position(mem, g, h, lists[h][k])
      BY <2>2, <1>0, <1>4, CutFacts DEF ListCutPosition
    <3>2. lists' = [lists EXCEPT ![g] = SubSeq(lists[h], 1, k),
                                 ![h] = SubSeq(lists[h], k+1, Len(lists[h]))]
      BY <2>2, <1>4 DEF ListCutPosition, Split
    <3> QED  BY <3>1, <3>2, <1>0, SplitGood
  <2> QED  BY <2>1, <2>2
<1>5. ASSUME NEW g \in Heads \ {h}, NEW k \in 0..Len(lists[h]), ListCutBefore(g, h, k)
      PROVE  Good(mem', lists')
  <2>1. mem' = IF k = 0 THEN INIT_LIST_HEAD(mem, g) ELSE __list_cut_position(mem, g, h, lists[h][k])
    <3>1. CASE lists[h] = <<>>
      <4>1. k = 0 /\ At(h, lists[h], k+1) = h /\ mem.next[h] = h  BY <3>1, <1>a DEF At
      <4> QED  BY <4>1, <1>5 DEF ListCutBefore, list_cut_before
    <3>2. CASE lists[h] # <<>>
      BY <3>2, <1>0, <1>5, CutFacts DEF ListCutBefore
    <3> QED  BY <3>1, <3>2
  <2>2. lists' = [lists EXCEPT ![g] = SubSeq(lists[h], 1, k),
                               ![h] = SubSeq(lists[h], k+1, Len(lists[h]))]
    BY <1>5 DEF ListCutBefore, Split
  <2> QED  BY <2>1, <2>2, <1>0, SplitGood
<1>6. ASSUME NEW g \in Live \ {h}, NEW j \in Gaps(h), ListSplice(g, h, j) \/ ListSpliceTail(g, h, j)
      PROVE  Good(mem', lists')
  <2>0. g \in Heads /\ g # h /\ (list_empty(mem, g) <=> lists[g] = <<>>)
    BY <1>0, HeadFacts
  <2>1. CASE lists[g] = <<>>
    <3>1. mem' = mem
      BY <2>0, <2>1, <1>6 DEF ListSplice, ListSpliceTail, list_splice, list_splice_init,
                              list_splice_tail, list_splice_tail_init
    <3>2. lists' = [lists EXCEPT ![h] = SubSeq(lists[h], 1, j-1) \o <<>> \o SubSeq(lists[h], j, Len(lists[h])),
                                 ![g] = <<>>]
      BY <2>1, <1>6 DEF ListSplice, ListSpliceTail, Join
    <3>3. SubSeq(lists[h], 1, j-1) \o <<>> \o SubSeq(lists[h], j, Len(lists[h])) = lists[h]
      <4> DEFINE x == SubSeq(lists[h], 1, j-1)
                 y == SubSeq(lists[h], j, Len(lists[h]))
      <4>1. x \in Seq(Nodes)  BY <1>a, PieceFacts
      <4>2. x \o <<>> = x  BY <4>1, ConcatEmptySeq
      <4>3. x \o y = lists[h]
        BY <1>a, TwoPieces
      <4> HIDE DEF x, y
      <4>4. x \o <<>> \o y = lists[h]  BY <4>2, <4>3
      <4> QED  BY <4>4 DEF x, y
    <3>4. lists' = lists
      BY <2>0, <2>1, <3>2, <3>3, <1>0, <1>a DEF AllLists
    <3> QED  BY <3>1, <3>4, <1>0
  <2>2. CASE lists[g] # <<>>
    <3> DEFINE r == SplicedMem(mem, lists, h, g, j)
    <3>1. g \in LiveIn(lists) \ {h} /\ h \in LiveIn(lists) /\ j \in 1..(Len(lists[h])+1)
      BY <1>0
    <3>2. /\ Good(r, Joined(lists, h, g, j, Undefined))
          /\ Good(INIT_LIST_HEAD(r, g), Joined(lists, h, g, j, <<>>))
          /\ mem.next[At(h, lists[h], j-1)] = At(h, lists[h], j)
          /\ mem.prev[At(h, lists[h], j)] = At(h, lists[h], j-1)
      BY <3>1, <2>2, <1>0, JoinGood
    <3>3. \/ mem' = r /\ lists' = Joined(lists, h, g, j, Undefined)
          \/ mem' = INIT_LIST_HEAD(r, g) /\ lists' = Joined(lists, h, g, j, <<>>)
      <4>1. CASE ListSplice(g, h, j)
        BY <2>0, <2>2, <3>2, <4>1
        DEF ListSplice, Join, list_splice, list_splice_init, Joined, SplicedMem
      <4>2. CASE ListSpliceTail(g, h, j)
        BY <2>0, <2>2, <3>2, <4>2
        DEF ListSpliceTail, Join, list_splice_tail, list_splice_tail_init, Joined, SplicedMem
      <4> QED  BY <4>1, <4>2, <1>6
    <3> QED  BY <3>2, <3>3
  <2> QED  BY <2>1, <2>2
<1> QED  BY <1>1, <1>2, <1>3, <1>4, <1>5, <1>6 DEF HeadStep


\* Every step of the program keeps the invariant.
LEMMA StepGood == IInv /\ [Next]_vars => IInv'
<1> SUFFICES ASSUME IInv, [Next]_vars  PROVE IInv'
  OBVIOUS
<1>1. ASSUME NEW h \in Heads, InitHead(h)  PROVE IInv'
  <2>1. Good(mem, lists)  BY IInvIsGood
  <2>2. Good(mem', lists')
    BY <2>1, <1>1, InitHeadGood DEF InitHead, Initialise
  <2> QED  BY <2>2, IInvIsGood
<1>2. ASSUME NEW n \in Nodes, NodeStep(n)  PROVE IInv'
  BY <1>2, NodeStepGood
<1>3. ASSUME NEW h \in Live, HeadStep(h)  PROVE IInv'
  BY <1>3, HeadStepGood
<1>4. ASSUME NEW h \in Live, NEW i \in Positions(h), EntryStep(h, i)  PROVE IInv'
  BY <1>4, EntryStepGood
<1>5. ASSUME UNCHANGED vars  PROVE IInv'
  <2>1. mem' = mem /\ lists' = lists  BY <1>5 DEF vars
  <2> QED  BY <2>1, IInvIsGood
<1> QED  BY <1>1, <1>2, <1>3, <1>4, <1>5 DEF Next

\* In every state the program can reach, every pointer of every list is where
\* the calls so far put it, for any number of heads and nodes.
THEOREM ListInvariant == Spec => []IInv
<1>1. Init => IInv  BY InitGood
<1>2. IInv /\ [Next]_vars => IInv'  BY StepGood
<1> QED  BY <1>1, <1>2, PTL DEF Spec

\* No call stores anything but the address of a cell, null or a poison value in
\* a pointer of struct list_head.
THEOREM ListTypeOK == Spec => []TypeOK
<1>1. IInv => TypeOK  BY DEF IInv
<1> QED  BY <1>1, ListInvariant, PTL

\* The rings of pointers that the functions of list.h leave are the lists their
\* contracts promise, disjoint, closed and consistent in both directions.
THEOREM ListRepresents == Spec => []Represents
<1>1. IInv => Represents  BY DEF IInv
<1> QED  BY <1>1, ListInvariant, PTL

-----------------------------------------------------------------------------
(* What a caller can read off two pointers.                                *)

\* The constant-time tests are right about every memory that holds its lists.
LEMMA TestsGood ==
  ASSUME IInv
  PROVE  TestsAnswerForTheList
<1>0. Good(mem, lists) /\ Live = LiveIn(lists)
  BY IInvIsGood
<1> SUFFICES ASSUME NEW h \in Live
             PROVE  /\ list_empty(mem, h) <=> lists[h] = <<>>
                    /\ list_is_singular(mem, h) <=> Len(lists[h]) = 1
                    /\ \A g \in Live : \A i \in Positions(g) :
                         /\ list_is_first(mem, lists[g][i], h) <=> g = h /\ i = 1
                         /\ list_is_last(mem, lists[g][i], h) <=> g = h /\ i = Len(lists[h])
  BY DEF TestsAnswerForTheList
<1>1. ASSUME NEW g \in Live
      PROVE  /\ Len(lists[g]) \in Nat /\ (lists[g] = <<>> <=> Len(lists[g]) = 0)
             /\ g \in Heads /\ (list_empty(mem, g) <=> lists[g] = <<>>)
             /\ \A k \in 0..Len(lists[g]) : /\ mem.next[At(g, lists[g], k)] = At(g, lists[g], k+1)
                                            /\ mem.prev[At(g, lists[g], k+1)] = At(g, lists[g], k)
             /\ At(g, lists[g], 0) = g /\ At(g, lists[g], Len(lists[g])+1) = g
             /\ \A k \in Positions(g) : /\ At(g, lists[g], k) = lists[g][k]
                                        /\ lists[g][k] \in Nodes
             /\ \A k, l \in Positions(g) : lists[g][k] = lists[g][l] => k = l
  BY <1>0, HeadFacts, GoodFacts, AtFacts DEF Chain, Positions, At
<1>2. list_is_singular(mem, h) <=> Len(lists[h]) = 1
  <2> DEFINE N == Len(lists[h])
  <2>1. N \in Nat  BY <1>1
  <2>2. mem.next[h] = At(h, lists[h], 1)
    <3>1. 0 \in 0..N /\ 0+1 = 1  BY <2>1
    <3> QED  BY <3>1, <1>1
  <2>3. mem.prev[h] = At(h, lists[h], N)
    <3>1. N \in 0..N  BY <2>1
    <3> QED  BY <3>1, <1>1
  <2>4. CASE N = 0
    BY <2>4, <1>1 DEF list_is_singular
  <2>5. CASE N # 0
    <3>1. 1 \in Positions(h) /\ N \in Positions(h) /\ ~list_empty(mem, h)
      BY <2>1, <2>5, <1>1 DEF Positions
    <3>2. mem.next[h] = mem.prev[h] <=> lists[h][1] = lists[h][N]
      BY <3>1, <2>2, <2>3, <1>1
    <3> QED  BY <3>1, <3>2, <1>1 DEF list_is_singular
  <2> QED  BY <2>4, <2>5
<1>3. ASSUME NEW g \in Live, NEW i \in Positions(g)
      PROVE  /\ list_is_first(mem, lists[g][i], h) <=> g = h /\ i = 1
             /\ list_is_last(mem, lists[g][i], h) <=> g = h /\ i = Len(lists[h])
  <2> DEFINE N == Len(lists[g])
  <2>1. N \in Nat /\ i \in 1..N /\ At(g, lists[g], i) = lists[g][i]
    BY <1>1 DEF Positions
  <2>2. mem.prev[lists[g][i]] = At(g, lists[g], i-1)
    <3>1. i-1 \in 0..N /\ i-1+1 = i  BY <2>1
    <3> QED  BY <3>1, <2>1, <1>1
  <2>3. mem.next[lists[g][i]] = At(g, lists[g], i+1)
    <3>1. i \in 0..N  BY <2>1
    <3> QED  BY <3>1, <2>1, <1>1
  <2>4. ASSUME NEW k \in 0..(N+1)
        PROVE  At(g, lists[g], k) = h <=> g = h /\ (k = 0 \/ k = N+1)
    <3>1. CASE k \in Positions(g)
      <4>1. At(g, lists[g], k) \in Nodes /\ h \in Heads  BY <3>1, <1>1
      <4>2. k # 0 /\ k # N+1  BY <3>1, <2>1 DEF Positions
      <4> QED  BY <4>1, <4>2, CellsAssumption
    <3>2. CASE k \notin Positions(g)
      <4>1. k = 0 \/ k = N+1  BY <3>2, <2>1 DEF Positions
      <4> QED  BY <4>1, <1>1
    <3> QED  BY <3>1, <3>2
  <2>5. /\ i-1 \in 0..(N+1) /\ i+1 \in 0..(N+1)
        /\ (i-1 = 0 \/ i-1 = N+1) <=> i = 1
        /\ (i+1 = 0 \/ i+1 = N+1) <=> i = N
    BY <2>1
  <2> QED  BY <2>2, <2>3, <2>4, <2>5 DEF list_is_first, list_is_last
<1> QED  BY <1>1, <1>2, <1>3

\* list_empty(), list_is_singular(), list_is_first() and list_is_last() look at
\* one or two pointers and answer for the whole list, in every reachable state.
THEOREM ListTests == Spec => []TestsAnswerForTheList
<1>1. IInv => TestsAnswerForTheList  BY TestsGood
<1> QED  BY <1>1, ListInvariant, PTL
-----------------------------------------------------------------------------
(* The cells a call may write.  C are the cells on lists, whose pointers   *)
(* lead to cells of C again: a function that starts at a cell of C, and    *)
(* reads a cell it was given only after writing it, never gets out of C    *)
(* and the cells it was given.                                             *)

\* The pointers of the cells of C lead to cells of C.
Closed(m, C) == C \subseteq Addr /\ \A x \in C : m.next[x] \in C /\ m.prev[x] \in C

\* From m to r only cells of C are written, and r does not point out of C.
Stays(m, r, C) ==
  /\ r \in Memory(Addr)
  /\ Closed(r, C)
  /\ \A x \in Addr \ C : r.next[x] = m.next[x] /\ r.prev[x] = m.prev[x]

\* A store to a cell of C of the address of another.
LEMMA StoreStays ==
  ASSUME NEW m \in Memory(Addr), NEW C, Closed(m, C), NEW x \in C, NEW p \in C
  PROVE  Stays(m, SetNext(m, x, p), C) /\ Stays(m, SetPrev(m, x, p), C)
BY DEF Stays, Closed, Memory, SetNext, SetPrev

\* One function after another.
LEMMA StaysOn ==
  ASSUME NEW m, NEW r, NEW s, NEW C, NEW D, C \subseteq D, Stays(m, r, C), Stays(r, s, D)
  PROVE  Stays(m, s, D)
BY DEF Stays

\* __list_add() of a cell that need not point anywhere.
LEMMA AddStays ==
  ASSUME NEW m \in Memory(Addr), NEW C, Closed(m, C), NEW n \in Addr, NEW p \in C, NEW t \in C
  PROVE  Stays(m, __list_add(m, n, p, t), C \cup {n})
BY DEF Stays, Closed, Memory, SetNext, SetPrev, __list_add

\* list_add() and list_add_tail() of such a cell, next to a cell of a list.
LEMMA ListAddStays ==
  ASSUME NEW m \in Memory(Addr), NEW C, Closed(m, C), NEW n \in Addr, NEW h \in C
  PROVE  /\ Stays(m, list_add(m, n, h), C \cup {n})
         /\ Stays(m, list_add_tail(m, n, h), C \cup {n})
<1>1. m.next[h] \in C /\ m.prev[h] \in C
  BY DEF Closed
<1> QED  BY <1>1, AddStays DEF list_add, list_add_tail

\* INIT_LIST_HEAD() of a cell on a list or off it.
LEMMA InitStays ==
  ASSUME NEW m \in Memory(Addr), NEW C, Closed(m, C), NEW x \in Addr
  PROVE  Stays(m, INIT_LIST_HEAD(m, x), C \cup {x})
BY DEF Stays, Closed, Memory, SetNext, SetPrev, INIT_LIST_HEAD

\* Unlinking a cell of a list: it still points into the list.
LEMMA DelEntryStays ==
  ASSUME NEW m \in Memory(Addr), NEW C, Closed(m, C), NEW e \in C
  PROVE  Stays(m, __list_del_entry(m, e), C)
<1> DEFINE p == m.prev[e]
           t == m.next[e]
           a == SetPrev(m, t, p)
<1>1. p \in C /\ t \in C
  BY DEF Closed
<1> HIDE DEF p, t
<1>2. Stays(m, a, C)
  BY <1>1, StoreStays
<1> HIDE DEF a
<1>3. Stays(a, SetNext(a, p, t), C)
  BY <1>1, <1>2, StoreStays DEF Stays
<1>4. Stays(m, SetNext(a, p, t), C)
  BY <1>2, <1>3, StaysOn
<1> QED  BY <1>4 DEF __list_del_entry, __list_del, a, p, t

\* list_move() and list_move_tail() from one cell to the side of another.
LEMMA MoveStays ==
  ASSUME NEW m \in Memory(Addr), NEW C, Closed(m, C), NEW e \in C, NEW h \in C
  PROVE  Stays(m, list_move(m, e, h), C) /\ Stays(m, list_move_tail(m, e, h), C)
<1> DEFINE a == __list_del_entry(m, e)
<1>1. Stays(m, a, C) /\ e \in Addr /\ C \cup {e} = C
  BY DelEntryStays DEF Closed
<1> HIDE DEF a
<1>2. Stays(a, list_add(a, e, h), C) /\ Stays(a, list_add_tail(a, e, h), C)
  <2>1. a \in Memory(Addr) /\ Closed(a, C)
    BY <1>1 DEF Stays
  <2>2. Stays(a, list_add(a, e, h), C \cup {e}) /\ Stays(a, list_add_tail(a, e, h), C \cup {e})
    BY <1>1, <2>1, ListAddStays
  <2> QED  BY <1>1, <2>2
<1>3. Stays(m, list_add(a, e, h), C) /\ Stays(m, list_add_tail(a, e, h), C)
  BY <1>1, <1>2, StaysOn
<1> QED  BY <1>3 DEF list_move, list_move_tail, a

\* list_replace() of a cell of a list by any cell.
LEMMA ReplaceStays ==
  ASSUME NEW m \in Memory(Addr), NEW C, Closed(m, C), NEW o \in C, NEW n \in Addr
  PROVE  Stays(m, list_replace(m, o, n), C \cup {n})
BY DEF Stays, Closed, Memory, SetNext, SetPrev, list_replace

\* list_replace_init() leaves the old cell pointing to itself.
LEMMA ReplaceInitStays ==
  ASSUME NEW m \in Memory(Addr), NEW C, Closed(m, C), NEW o \in C, NEW n \in Addr
  PROVE  Stays(m, list_replace_init(m, o, n), C \cup {n})
<1> DEFINE r == list_replace(m, o, n)
           D == C \cup {n}
<1>1. Stays(m, r, D) /\ o \in Addr /\ D \cup {o} = D
  BY ReplaceStays DEF Closed
<1> HIDE DEF r, D
<1>2. r \in Memory(Addr) /\ Closed(r, D)
  BY <1>1 DEF Stays
<1>3. Stays(r, INIT_LIST_HEAD(r, o), D)
  BY <1>1, <1>2, InitStays
<1>4. Stays(m, INIT_LIST_HEAD(r, o), D)
  BY <1>1, <1>3, StaysOn
<1> QED  BY <1>4 DEF list_replace_init, r, D

\* The functions that delete an entry leave it with poison, null or itself.
LEMMA DelOutside ==
  ASSUME NEW m \in Memory(Addr), NEW C, Closed(m, C), NEW e \in C, NEW x \in Addr \ C,
         NEW r \in {list_del(m, e), list_del_init(m, e), __list_del_clearprev(m, e)}
  PROVE  r.next[x] = m.next[x] /\ r.prev[x] = m.prev[x]
<1> DEFINE a == __list_del_entry(m, e)
<1>1. a \in Memory(Addr) /\ a.next[x] = m.next[x] /\ a.prev[x] = m.prev[x] /\ e \in Addr /\ e # x
  BY DelEntryStays DEF Stays, Closed
<1>2. \/ r = SetPrev(SetNext(a, e, LIST_POISON1), e, LIST_POISON2)
      \/ r = SetPrev(SetNext(a, e, e), e, e)
      \/ r = SetPrev(a, e, NULL)
  BY DEF list_del, list_del_init, __list_del_clearprev, INIT_LIST_HEAD
<1> HIDE DEF a
<1> QED  BY <1>1, <1>2 DEF SetNext, SetPrev, Memory

\* list_swap(): between its calls, the second entry is poisoned.
LEMMA SwapStays ==
  ASSUME NEW m \in Memory(Addr), NEW C, Closed(m, C), NEW e \in C, NEW f \in C, e # f
  PROVE  Stays(m, list_swap(m, e, f), C)
<1> DEFINE pos == m.prev[f]
           d == list_del(m, f)
           r == list_replace(d, e, f)
           at == IF pos = e THEN f ELSE pos
<1>1. /\ d \in Memory(Addr)
      /\ \A x \in C \ {f} : d.next[x] \in C /\ d.prev[x] \in C
      /\ \A x \in Addr \ C : d.next[x] = m.next[x] /\ d.prev[x] = m.prev[x]
  <2> DEFINE a == __list_del_entry(m, f)
  <2>1. Stays(m, a, C) /\ f \in Addr
    BY DelEntryStays DEF Closed
  <2>2. d = SetPrev(SetNext(a, f, LIST_POISON1), f, LIST_POISON2)
    BY DEF list_del
  <2> HIDE DEF a, d
  <2> QED  BY <2>1, <2>2 DEF Stays, Closed, Memory, SetNext, SetPrev
<1>2. C \subseteq Addr /\ pos \in C
  BY DEF Closed
<1> HIDE DEF d, pos
<1>3. /\ r \in Memory(Addr) /\ Closed(r, C)
      /\ \A x \in Addr \ C : r.next[x] = m.next[x] /\ r.prev[x] = m.prev[x]
  BY <1>1, <1>2 DEF Closed, Memory, SetNext, SetPrev, list_replace
<1>4. Stays(m, r, C)
  BY <1>3 DEF Stays
<1>5. at \in C /\ e \in Addr /\ C \cup {e} = C
  BY <1>2
<1> HIDE DEF r, at
<1>6. Stays(r, list_add(r, e, at), C)
  BY <1>3, <1>5, ListAddStays
<1>7. Stays(m, list_add(r, e, at), C)
  BY <1>4, <1>6, StaysOn
<1> QED  BY <1>7 DEF list_swap, r, d, pos, at
\* list_bulk_move_tail(): six stores of what cells of lists point to.
LEMMA BulkMoveStays ==
  ASSUME NEW m \in Memory(Addr), NEW C, Closed(m, C),
         NEW h \in C, NEW first \in C, NEW last \in C
  PROVE  Stays(m, list_bulk_move_tail(m, h, first, last), C)
<1> DEFINE m1 == SetNext(m, m.prev[first], m.next[last])
           m2 == SetPrev(m1, m1.next[last], m1.prev[first])
           m3 == SetNext(m2, m2.prev[h], first)
           m4 == SetPrev(m3, first, m3.prev[h])
           m5 == SetNext(m4, last, h)
           m6 == SetPrev(m5, h, last)
<1>7. list_bulk_move_tail(m, h, first, last) = m6
  BY DEF list_bulk_move_tail
<1>1. Stays(m, m1, C)
  BY StoreStays DEF Closed
<1> HIDE DEF m1
<1>2. Stays(m1, m2, C)
  <2>1. m1 \in Memory(Addr) /\ Closed(m1, C) /\ m1.next[last] \in C /\ m1.prev[first] \in C
    BY <1>1 DEF Stays, Closed
  <2> QED  BY <2>1, StoreStays
<1> HIDE DEF m2
<1>3. Stays(m2, m3, C)
  <2>1. m2 \in Memory(Addr) /\ Closed(m2, C) /\ m2.prev[h] \in C
    BY <1>2 DEF Stays, Closed
  <2> QED  BY <2>1, StoreStays
<1> HIDE DEF m3
<1>4. Stays(m3, m4, C)
  <2>1. m3 \in Memory(Addr) /\ Closed(m3, C) /\ m3.prev[h] \in C
    BY <1>3 DEF Stays, Closed
  <2> QED  BY <2>1, StoreStays
<1> HIDE DEF m4
<1>5. Stays(m4, m5, C)
  BY <1>4, StoreStays DEF Stays
<1> HIDE DEF m5
<1>6. Stays(m5, m6, C)
  BY <1>5, StoreStays DEF Stays
<1> HIDE DEF m6
<1>8. Stays(m, m3, C)  BY <1>1, <1>2, <1>3, StaysOn
<1>9. Stays(m, m5, C)  BY <1>8, <1>4, <1>5, StaysOn
<1> QED  BY <1>6, <1>7, <1>9, StaysOn

\* A memory that is not written stays as it is.
LEMMA SameStays ==
  ASSUME NEW m \in Memory(Addr), NEW C, Closed(m, C)
  PROVE  Stays(m, m, C)
BY DEF Stays

\* list_rotate_left() of a head on its list.
LEMMA RotateLeftStays ==
  ASSUME NEW m \in Memory(Addr), NEW C, Closed(m, C), NEW h \in C
  PROVE  Stays(m, list_rotate_left(m, h), C)
<1>1. m.next[h] \in C
  BY DEF Closed
<1> QED  BY <1>1, SameStays, MoveStays DEF list_rotate_left

\* Cutting: the head that gets the entries need not point anywhere.
LEMMA CutStays ==
  ASSUME NEW m \in Memory(Addr), NEW C, Closed(m, C), NEW g \in Addr, NEW h \in C, NEW e \in C,
         NEW x \in Addr \ (C \cup {g})
  PROVE  /\ list_cut_position(m, g, h, e).next[x] = m.next[x]
         /\ list_cut_position(m, g, h, e).prev[x] = m.prev[x]
         /\ list_cut_before(m, g, h, e).next[x] = m.next[x]
         /\ list_cut_before(m, g, h, e).prev[x] = m.prev[x]
<1>1. Stays(m, INIT_LIST_HEAD(m, g), C \cup {g})
  BY InitStays
<1>2. __list_cut_position(m, g, h, e).next[x] = m.next[x] /\ __list_cut_position(m, g, h, e).prev[x] = m.prev[x]
  BY DEF Closed, Memory, SetNext, SetPrev, __list_cut_position
<1>3. list_cut_before(m, g, h, e).next[x] = m.next[x] /\ list_cut_before(m, g, h, e).prev[x] = m.prev[x]
  <2>1. CASE m.next[h] = e
    BY <2>1, <1>1 DEF list_cut_before, Stays
  <2>2. CASE m.next[h] # e
    BY <2>2 DEF Closed, Memory, SetNext, SetPrev, list_cut_before
  <2> QED  BY <2>1, <2>2
<1>4. list_cut_position(m, g, h, e) \in {m, INIT_LIST_HEAD(m, g), __list_cut_position(m, g, h, e)}
  BY DEF list_cut_position
<1> QED  BY <1>1, <1>2, <1>3, <1>4 DEF Stays

\* Splicing: both lists are lists.
LEMMA SpliceStays ==
  ASSUME NEW m \in Memory(Addr), NEW C, Closed(m, C), NEW g \in C, NEW p \in C, NEW t \in C
  PROVE  LET r == __list_splice(m, g, p, t)
         IN  Stays(m, r, C) /\ Stays(m, INIT_LIST_HEAD(r, g), C)
<1> DEFINE first == m.next[g]
           last == m.prev[g]
           m1 == SetPrev(m, first, p)
           m2 == SetNext(m1, p, first)
           m3 == SetNext(m2, last, t)
           r == SetPrev(m3, t, last)
<1>1. first \in C /\ last \in C
  BY DEF Closed
<1>2. r = __list_splice(m, g, p, t)
  BY DEF __list_splice
<1> HIDE DEF first, last
<1>3. Stays(m, m1, C)  BY <1>1, StoreStays
<1> HIDE DEF m1
<1>4. Stays(m1, m2, C)  BY <1>1, <1>3, StoreStays DEF Stays
<1> HIDE DEF m2
<1>5. Stays(m2, m3, C)  BY <1>1, <1>4, StoreStays DEF Stays
<1> HIDE DEF m3
<1>6. Stays(m3, r, C)  BY <1>1, <1>5, StoreStays DEF Stays
<1> HIDE DEF r
<1>7. Stays(m, r, C)
  <2>1. Stays(m, m2, C)  BY <1>3, <1>4, StaysOn
  <2>2. Stays(m, m3, C)  BY <2>1, <1>5, StaysOn
  <2> QED  BY <2>2, <1>6, StaysOn
<1>8. Stays(r, INIT_LIST_HEAD(r, g), C)
  <2>1. g \in Addr /\ C \cup {g} = C  BY DEF Closed
  <2>2. r \in Memory(Addr) /\ Closed(r, C)  BY <1>6 DEF Stays
  <2>3. Stays(r, INIT_LIST_HEAD(r, g), C \cup {g})  BY <2>1, <2>2, InitStays
  <2> QED  BY <2>1, <2>3
<1>9. Stays(m, INIT_LIST_HEAD(r, g), C)
  BY <1>7, <1>8, StaysOn
<1> QED  BY <1>2, <1>7, <1>9

\* The four functions that splice, next to any cell of a list.
LEMMA ListSpliceStays ==
  ASSUME NEW m \in Memory(Addr), NEW C, Closed(m, C), NEW g \in C, NEW h \in C
  PROVE  /\ Stays(m, list_splice(m, g, h), C)
         /\ Stays(m, list_splice_tail(m, g, h), C)
         /\ Stays(m, list_splice_init(m, g, h), C)
         /\ Stays(m, list_splice_tail_init(m, g, h), C)
<1>1. m.next[h] \in C /\ m.prev[h] \in C /\ Stays(m, m, C)
  BY SameStays DEF Closed
<1>2. /\ Stays(m, __list_splice(m, g, h, m.next[h]), C)
      /\ Stays(m, __list_splice(m, g, m.prev[h], h), C)
      /\ Stays(m, INIT_LIST_HEAD(__list_splice(m, g, h, m.next[h]), g), C)
      /\ Stays(m, INIT_LIST_HEAD(__list_splice(m, g, m.prev[h], h), g), C)
  BY <1>1, SpliceStays
<1> QED  BY <1>1, <1>2 DEF list_splice, list_splice_tail, list_splice_init, list_splice_tail_init

-----------------------------------------------------------------------------
(* The cells on lists, and the steps.                                      *)

\* The cells of the lists of L.
OnLists(L) == {x \in Addr : ~Off(L, x)}

\* In a good memory they are closed, and every cell of a list is one of them.
LEMMA OnListsClosed ==
  ASSUME NEW m, NEW L, Good(m, L)
  PROVE  /\ m \in Memory(Addr) /\ Closed(m, OnLists(L))
         /\ \A h \in LiveIn(L) : \A i : At(h, L[h], i) \in OnLists(L)
<1>1. m \in Memory(Addr)
  BY DEF Good
<1>2. ASSUME NEW h \in LiveIn(L), NEW i PROVE At(h, L[h], i) \in OnLists(L)
  <2>1. At(h, L[h], i) \in Addr
    BY GoodFacts, AtFacts
  <2> QED  BY <2>1 DEF OnLists, Off, At
<1>3. ASSUME NEW x \in OnLists(L) PROVE m.next[x] \in OnLists(L) /\ m.prev[x] \in OnLists(L)
  <2>1. PICK h \in LiveIn(L) : x = h \/ \E i \in 1..Len(L[h]) : L[h][i] = x
    BY DEF OnLists, Off
  <2> DEFINE q == L[h]
  <2>2. Chain(h, q) /\ Ring(m, h, q)
    BY GoodFacts
  <2>3. \A i : At(h, q, i) \in OnLists(L)
    BY <1>2
  <2> HIDE DEF q
  <2>4. Len(q) \in Nat /\ At(h, q, 0) = h /\ At(h, q, Len(q)+1) = h /\ \A i \in 1..Len(q) : At(h, q, i) = q[i]
    BY <2>2, AtFacts
  <2>5. \E i \in 0..Len(q) : x = At(h, q, i)
    BY <2>1, <2>4 DEF q
  <2>6. \E i \in 0..Len(q) : x = At(h, q, i+1)
    <3>1. CASE x = h
      BY <3>1, <2>4
    <3>2. ASSUME NEW i \in 1..Len(q), q[i] = x PROVE \E k \in 0..Len(q) : x = At(h, q, k+1)
      <4>1. i-1 \in 0..Len(q) /\ i-1+1 = i  BY <2>4
      <4>2. x = At(h, q, i-1+1)  BY <4>1, <2>4, <3>2
      <4> QED  BY <4>1, <4>2
    <3> QED  BY <2>1, <3>1, <3>2 DEF q
  <2> QED  BY <2>2, <2>3, <2>5, <2>6 DEF Ring
<1> QED  BY <1>1, <1>2, <1>3 DEF Closed, OnLists

\* The step writes nothing to x.
Untouched(x) == mem'.next[x] = mem.next[x] /\ mem'.prev[x] = mem.prev[x]

\* A detached cell is not among the cells of lists.
LEMMA DetachedIsOff ==
  ASSUME IInv, NEW x \in Detached
  PROVE  x \in Addr \ OnLists(lists)
<1>1. Off(lists, x) /\ x \in Addr
  <2>1. CASE x \in Free
    BY <2>1, FreeIsOff
  <2>2. CASE x \in Heads \ Live
    <3>1. \A h \in LiveIn(lists) : \A i \in 1..Len(lists[h]) : lists[h][i] \in Nodes
      BY IInvIsGood, GoodFacts, AtFacts
    <3> QED  BY <2>2, <3>1, CellsAssumption DEF Off, Live, LiveIn, Addr
  <2> QED  BY <2>1, <2>2 DEF Detached
<1> QED  BY <1>1 DEF OnLists

\* A cell that a call puts on a list, or makes the head of one, is not detached
\* when it returns.
LEMMA TakenIsOn ==
  ASSUME NEW x \in Detached', NEW h \in Heads, lists'[h] # Undefined
  PROVE  /\ x # h
         /\ \A n \in Nodes : (\E i \in 1..Len(lists'[h]) : lists'[h][i] = n) => x # n
BY CellsAssumption DEF Detached, Free, Live

\* Where a call that stays within cells of lists, or cells it was given, writes.
LEMMA StaysAway ==
  ASSUME NEW C, Stays(mem, mem', C), NEW x \in Addr, x \notin C
  PROVE  Untouched(x)
BY DEF Stays, Untouched

\* The cells of what is left of a list are cells of the lists.
LEMMA LeftOnLists ==
  ASSUME IInv, NEW h \in Live, NEW i \in Positions(h), NEW g \in Live, NEW k
  PROVE  Cell(Without(lists, h, i), g, k) \in OnLists(lists)
<1> DEFINE M == Without(lists, h, i)
<1>1. Good(mem, lists) /\ Live = LiveIn(lists) /\ i \in 1..Len(lists[h])
  BY IInvIsGood DEF Positions
<1>2. Good(__list_del_entry(mem, lists[h][i]), M)
  BY <1>1, RemoveGood
<1>3. g \in LiveIn(M) /\ \A x : Off(lists, x) => Off(M, x)
  BY <1>1, WithoutFacts
<1> HIDE DEF M
<1>4. At(g, M[g], k) \in OnLists(M)
  BY <1>2, <1>3, OnListsClosed
<1>5. At(g, M[g], k) \in OnLists(lists)
  BY <1>3, <1>4 DEF OnLists
<1> QED  BY <1>5 DEF Cell, M

\* What the steps need of the memory they start from.
LEMMA StepFacts ==
  ASSUME IInv
  PROVE  /\ mem \in Memory(Addr) /\ Closed(mem, OnLists(lists)) /\ Good(mem, lists)
         /\ Live = LiveIn(lists)
         /\ \A h \in Live : h \in OnLists(lists) /\ h \in Heads
         /\ \A h \in Live : \A i : Cell(lists, h, i) \in OnLists(lists)
         /\ \A h \in Live : \A i \in Positions(h) : lists[h][i] \in OnLists(lists)
<1>1. Good(mem, lists) /\ Live = LiveIn(lists)
  BY IInvIsGood
<1>2. /\ mem \in Memory(Addr) /\ Closed(mem, OnLists(lists))
      /\ \A h \in Live : \A i : At(h, lists[h], i) \in OnLists(lists)
  BY <1>1, OnListsClosed
<1>3. \A h \in Live : At(h, lists[h], 0) = h /\ h \in Heads /\ \A i \in Positions(h) : At(h, lists[h], i) = lists[h][i]
  BY <1>1, GoodFacts, AtFacts DEF Positions, LiveIn
<1> QED  BY <1>1, <1>2, <1>3 DEF Cell

\* The steps that give or take a node write to that node and cells of lists.
LEMMA NodeStepSpares ==
  ASSUME IInv, NEW x \in Detached, x \in Detached', NEW n \in Nodes, NodeStep(n)
  PROVE  Untouched(x) \/ mem' = INIT_LIST_HEAD(mem, x)
<1> DEFINE C == OnLists(lists)
<1>1. x \in Addr /\ x \notin C /\ n \in Addr
  BY DetachedIsOff DEF Addr
<1>2. /\ mem \in Memory(Addr) /\ Closed(mem, C) /\ Good(mem, lists) /\ Live = LiveIn(lists)
      /\ \A h \in Live : h \in Heads /\ \A i : Cell(lists, h, i) \in C
      /\ \A h \in Live : \A i \in Positions(h) : lists[h][i] \in C
  BY StepFacts
<1> HIDE DEF C
<1>3. CASE InitNode(n)
  <2>1. CASE x = n
    BY <2>1, <1>3 DEF InitNode
  <2>2. CASE x # n
    <3>1. Stays(mem, mem', C \cup {n})
      BY <1>1, <1>2, <1>3, InitStays DEF InitNode
    <3> QED  BY <1>1, <2>2, <3>1, StaysAway
  <2> QED  BY <2>1, <2>2
<1>4. ASSUME Stays(mem, mem', C \cup {n}), x # n
      PROVE  Untouched(x)
  BY <1>1, <1>4, StaysAway
<1>5. ASSUME NEW h \in Live, NEW i \in Gaps(h), ListAdd(n, h, i) \/ ListAddTail(n, h, i)
      PROVE  Untouched(x)
  <2>1. Stays(mem, mem', C \cup {n})
    BY <1>1, <1>2, <1>5, ListAddStays DEF ListAdd, ListAddTail
  <2>2. lists' = With(lists, h, i, n) /\ lists[h] \in Seq(Nodes) /\ i \in 1..(Len(lists[h]) + 1)
        /\ lists \in AllLists /\ h \in Heads
    BY <1>2, <1>5, GoodFacts DEF ListAdd, ListAddTail, Insert, Chain, Gaps, Good
  <2>3. Len(lists[h]) \in Nat
    BY <2>2, LenProperties
  <2>4. lists'[h] = InsertAt(lists[h], i, n)
    BY <2>2 DEF With, AllLists
  <2>5. i \in 1..Len(lists'[h]) /\ lists'[h][i] = n /\ lists'[h] \in Seq(Nodes)
    BY <2>2, <2>3, <2>4, InsertAtFacts
  <2>6. x # n
    BY <2>2, <2>5, CellsAssumption, TakenIsOn
  <2> QED  BY <1>4, <2>1, <2>6
<1>6. ASSUME NEW h \in Live, NEW i \in Positions(h), ListReplace(h, i, n) \/ ListReplaceInit(h, i, n)
      PROVE  Untouched(x)
  <2>1. Stays(mem, mem', C \cup {n})
    BY <1>1, <1>2, <1>6, ReplaceStays, ReplaceInitStays DEF ListReplace, ListReplaceInit
  <2>2. lists' = [lists EXCEPT ![h] = ReplaceAt(lists[h], i, n)] /\ lists[h] \in Seq(Nodes) /\ i \in 1..Len(lists[h])
        /\ lists \in AllLists /\ h \in Heads
    BY <1>2, <1>6, GoodFacts DEF ListReplace, ListReplaceInit, Substitute, Chain, Positions, Good
  <2>3. Len(lists[h]) \in Nat
    BY <2>2, LenProperties
  <2>4. lists'[h] = ReplaceAt(lists[h], i, n)
    BY <2>2 DEF AllLists
  <2>5. i \in 1..Len(lists'[h]) /\ lists'[h][i] = n /\ lists'[h] \in Seq(Nodes)
    BY <2>2, <2>3, <2>4, LenProperties, ElementOfSeq DEF ReplaceAt
  <2>6. x # n
    BY <2>2, <2>5, CellsAssumption, TakenIsOn
  <2> QED  BY <1>4, <2>1, <2>6
<1> QED  BY <1>3, <1>5, <1>6 DEF NodeStep

\* The steps that take an entry off, or move entries of live lists, write to
\* cells of lists only.
LEMMA EntryStepSpares ==
  ASSUME IInv, NEW x \in Detached, NEW h \in Live, NEW i \in Positions(h), EntryStep(h, i)
  PROVE  Untouched(x)
<1> DEFINE C == OnLists(lists)
           e == lists[h][i]
<1>1. x \in Addr /\ x \notin C
  BY DetachedIsOff
<1>2. /\ mem \in Memory(Addr) /\ Closed(mem, C)
      /\ \A g \in Live : \A k : Cell(lists, g, k) \in C
      /\ \A g \in Live : \A k \in Positions(g) : lists[g][k] \in C
  BY StepFacts
<1>3. e \in C
  BY <1>2
<1>4. \A g \in Live : \A k : Cell(Without(lists, h, i), g, k) \in C
  BY LeftOnLists
<1> HIDE DEF C
<1>5. CASE ListDel(h, i) \/ ListDelInit(h, i) \/ ListDelClearprev(h, i)
  <2>1. mem' \in {list_del(mem, e), list_del_init(mem, e), __list_del_clearprev(mem, e)}
    BY <1>5 DEF ListDel, ListDelInit, ListDelClearprev
  <2> QED  BY <1>1, <1>2, <1>3, <2>1, DelOutside DEF Untouched
<1>6. CASE ListRotateToFront(h, i)
  <2>1. h \in C
    BY StepFacts DEF C
  <2>2. mem' = list_move_tail(mem, h, e)
    BY <1>6 DEF ListRotateToFront, list_rotate_to_front
  <2>3. Stays(mem, mem', C)
    BY <1>2, <1>3, <2>1, <2>2, MoveStays
  <2> QED  BY <1>1, <2>3, StaysAway
<1>7. ASSUME NEW g \in Live, NEW j \in Positions(g), ListSwap(h, i, g, j)
      PROVE  Untouched(x)
  <2>1. lists[g][j] \in C
    BY <1>2
  <2>2. lists[g][j] # e
    <3>1. Good(mem, lists) /\ Live = LiveIn(lists) /\ <<h, i>> # <<g, j>>
      BY <1>7, StepFacts DEF ListSwap
    <3> QED  BY <3>1 DEF Good, Positions
  <2>3. Stays(mem, mem', C)
    BY <1>2, <1>3, <1>7, <2>1, <2>2, SwapStays DEF ListSwap
  <2> QED  BY <1>1, <2>3, StaysAway
<1>8. ASSUME NEW g \in Live, NEW j \in Gaps(g), ListMove(h, i, g, j) \/ ListMoveTail(h, i, g, j)
      PROVE  Untouched(x)
  <2>1. Stays(mem, mem', C)
    BY <1>2, <1>3, <1>4, <1>8, MoveStays DEF ListMove, ListMoveTail
  <2> QED  BY <1>1, <2>1, StaysAway
<1>9. ASSUME NEW b \in Positions(h), NEW j \in Gaps(h), ListBulkMoveTail(h, i, b, j)
      PROVE  Untouched(x)
  <2>1. lists[h][b] \in C /\ Cell(lists, h, j) \in C
    BY <1>2
  <2>2. mem' = list_bulk_move_tail(mem, Cell(lists, h, j), e, lists[h][b])
    BY <1>9 DEF ListBulkMoveTail
  <2>3. Stays(mem, mem', C)
    BY <1>2, <1>3, <2>1, <2>2, BulkMoveStays
  <2> QED  BY <1>1, <2>3, StaysAway
<1> QED  BY <1>5, <1>6, <1>7, <1>8, <1>9 DEF EntryStep

\* The steps on whole lists write to cells of lists, and to the head that gets
\* the entries.
LEMMA HeadStepSpares ==
  ASSUME IInv, NEW x \in Detached, x \in Detached', NEW h \in Live, HeadStep(h)
  PROVE  Untouched(x)
<1> DEFINE C == OnLists(lists)
<1>1. x \in Addr /\ x \notin C /\ \A g \in Heads : g \in Addr
  BY DetachedIsOff DEF Addr
<1>2. /\ mem \in Memory(Addr) /\ Closed(mem, C) /\ Live = LiveIn(lists)
      /\ \A g \in Live : g \in C /\ g \in Heads
      /\ \A g \in Live : \A k : Cell(lists, g, k) \in C
      /\ lists \in AllLists
  BY StepFacts DEF Good
<1>3. lists[h] \in Seq(Nodes)
  BY <1>2 DEF LiveIn, AllLists
<1> HIDE DEF C
<1>4. ASSUME NEW g \in Heads, lists'[g] # Undefined
      PROVE  x \notin C \cup {g}
  BY <1>1, <1>4, TakenIsOn
<1>5. CASE ListRotateLeft(h)
  <2>1. Stays(mem, mem', C)
    BY <1>2, <1>5, RotateLeftStays DEF ListRotateLeft
  <2> QED  BY <1>1, <2>1, StaysAway
<1>6. ASSUME NEW g \in Heads \ {h}, ListReplaceHead(h, g) \/ ListReplaceInitHead(h, g)
      PROVE  Untouched(x)
  <2>1. Stays(mem, mem', C \cup {g})
    BY <1>1, <1>2, <1>6, ReplaceStays, ReplaceInitStays DEF ListReplaceHead, ListReplaceInitHead
  <2>2. lists'[g] = lists[h]
    BY <1>2, <1>6 DEF ListReplaceHead, ListReplaceInitHead, TakeOver, AllLists
  <2> QED  BY <1>1, <1>2, <1>4, <2>1, <2>2, StaysAway DEF LiveIn
<1>7. ASSUME NEW g \in Heads \ {h}, NEW k \in 0..Len(lists[h]), ListCutPosition(g, h, k) \/ ListCutBefore(g, h, k)
      PROVE  Untouched(x)
  <2>1. CASE lists[h] = <<>> /\ ListCutPosition(g, h, k)
    <3>1. list_empty(mem, h)
      <4>1. Good(mem, lists)  BY StepFacts
      <4> QED  BY <4>1, <1>2, <2>1, HeadFacts
    <3>2. mem' = mem
      BY <3>1, <2>1 DEF ListCutPosition, list_cut_position
    <3> QED  BY <3>2 DEF Untouched
  <2>2. CASE ~(lists[h] = <<>> /\ ListCutPosition(g, h, k))
    <3>1. Split(g, h, k)
      BY <1>7, <2>2 DEF ListCutPosition, ListCutBefore
    <3>2. lists'[g] = SubSeq(lists[h], 1, k)
      BY <3>1, <1>2 DEF Split, AllLists
    <3>3. SubSeq(lists[h], 1, k) \in Seq(Nodes)
      BY <1>3, SubSeqProperties
    <3>4. x \in Addr \ (C \cup {g})
      BY <1>1, <1>4, <3>2, <3>3, CellsAssumption
    <3>5. Cell(lists, h, k) \in C /\ Cell(lists, h, k+1) \in C /\ h \in C /\ g \in Addr
      BY <1>1, <1>2
    <3>6. \E c \in C : mem' = list_cut_position(mem, g, h, c) \/ mem' = list_cut_before(mem, g, h, c)
      BY <1>7, <3>5 DEF ListCutPosition, ListCutBefore
    <3> QED  BY <1>2, <3>4, <3>5, <3>6, CutStays DEF Untouched
  <2> QED  BY <2>1, <2>2
<1>8. ASSUME NEW g \in Live \ {h}, NEW j \in Gaps(h), ListSplice(g, h, j) \/ ListSpliceTail(g, h, j)
      PROVE  Untouched(x)
  <2>1. \E c \in C : \/ mem' = list_splice(mem, g, c) \/ mem' = list_splice_init(mem, g, c)
                     \/ mem' = list_splice_tail(mem, g, c) \/ mem' = list_splice_tail_init(mem, g, c)
    BY <1>2, <1>8 DEF ListSplice, ListSpliceTail
  <2>2. Stays(mem, mem', C)
    BY <1>2, <2>1, ListSpliceStays
  <2> QED  BY <1>1, <2>2, StaysAway
<1> QED  BY <1>5, <1>6, <1>7, <1>8 DEF HeadStep

\* No step writes to a detached cell that stays detached, unless it is the one
\* to initialise.
LEMMA StepSpares ==
  ASSUME IInv, [Next]_vars, NEW x \in Detached, x \in Detached'
  PROVE  Untouched(x) \/ mem' = INIT_LIST_HEAD(mem, x)
<1>1. ASSUME NEW h \in Heads, InitHead(h)
      PROVE  Untouched(x) \/ mem' = INIT_LIST_HEAD(mem, x)
  <2>1. CASE x = h
    BY <2>1, <1>1 DEF InitHead
  <2>2. CASE x # h
    <3>1. x \in Addr /\ x \notin OnLists(lists) /\ h \in Addr
      BY DetachedIsOff DEF Addr
    <3>2. Stays(mem, mem', OnLists(lists) \cup {h})
      BY <1>1, <3>1, StepFacts, InitStays DEF InitHead
    <3> QED  BY <2>2, <3>1, <3>2, StaysAway
  <2> QED  BY <2>1, <2>2
<1>2. ASSUME NEW n \in Nodes, NodeStep(n)
      PROVE  Untouched(x) \/ mem' = INIT_LIST_HEAD(mem, x)
  BY <1>2, NodeStepSpares
<1>3. ASSUME NEW h \in Live, HeadStep(h)  PROVE Untouched(x)
  BY <1>3, HeadStepSpares
<1>4. ASSUME NEW h \in Live, NEW i \in Positions(h), EntryStep(h, i)  PROVE Untouched(x)
  BY <1>4, EntryStepSpares
<1>5. ASSUME UNCHANGED vars  PROVE Untouched(x)
  BY <1>5 DEF vars, Untouched
<1> QED  BY <1>1, <1>2, <1>3, <1>4, <1>5 DEF Next

\* No function of list.h writes to a cell that is on no list before and after
\* the call, except to initialise it: what was taken off a list may be freed.
THEOREM ListDetached == Spec => DetachedCellsLeftAlone
<1>1. IInv /\ [Next]_vars =>
        [\A x \in Detached \cap Detached' :
           \/ mem'.next[x] = mem.next[x] /\ mem'.prev[x] = mem.prev[x]
           \/ mem' = INIT_LIST_HEAD(mem, x)]_vars
  BY StepSpares DEF Untouched
<1> QED  BY <1>1, ListInvariant, PTL DEF Spec, DetachedCellsLeftAlone

=============================================================================
