---------------------------- MODULE HlistIterProofs ----------------------------
(***************************************************************************)
(* The other two users of include/list.h, for any number of entries.       *)
(*                                                                         *)
(* Hlist: the pointers are those of the hash lists, the tests answer for   *)
(* them, and no call writes to a node that is on no list.                  *)
(*                                                                         *)
(* ListIter: a loop whose bodies change the list is at some place of it,   *)
(* with all that it must still see behind that place.                      *)
(***************************************************************************)
EXTENDS Hlist, ListIter, RingProofs

-----------------------------------------------------------------------------
(* Good(m, L, st) is the inductive invariant, as a relation between a      *)
(* memory, the lists and the states it should hold.                        *)

Cells == Heads \cup Nodes

\* How a node that is on no list is left.
Rested(m, n, s) ==
  /\ s \in {"unhashed", "fake", "deleted"}
  /\ s = "unhashed" => m.link[n] = NULL /\ m.pprev[n] = NULL
  /\ s = "fake"     => m.link[n] = NULL /\ m.pprev[n] = n
  /\ s = "deleted"  => m.pprev[n] = LIST_POISON2

OnList(L, n) == \E h \in Heads : \E i \in 1..Len(L[h]) : L[h][i] = n

Disjoint(L) ==
  \A g, h \in Heads : \A i \in 1..Len(L[g]), j \in 1..Len(L[h]) :
    L[g][i] = L[h][j] => g = h /\ i = j

Good(m, L, st) ==
  /\ m \in HMemory(Heads, Nodes)
  /\ L \in [Heads -> Seq(Nodes)]
  /\ st \in [Nodes -> NodeStates]
  /\ Disjoint(L)
  /\ \A h \in Heads : Thread(m, h, L[h])
  /\ \A n \in Nodes : st[n] = "hashed" <=> OnList(L, n)
  /\ \A n \in Nodes : st[n] # "hashed" => Rested(m, n, st[n])

\* Memory and history have their types.
TypeOK ==
  /\ mem \in HMemory(Heads, Nodes)
  /\ lists \in [Heads -> Seq(Nodes)]
  /\ state \in [Nodes -> NodeStates]

\* The states are those the lists tell, and a node on no list is as it was left.
StatesOK ==
  \A n \in Nodes : /\ state[n] = "hashed" <=> OnList(lists, n)
                   /\ state[n] # "hashed" => Rested(mem, n, state[n])

IInv == TypeOK /\ Represents /\ StatesOK

SameNode(m, r, x) == r.link[x] = m.link[x] /\ r.pprev[x] = m.pprev[x]

-----------------------------------------------------------------------------
LEMMA GoodFacts ==
  ASSUME NEW m, NEW L, NEW st, Good(m, L, st), NEW h \in Heads
  PROVE  /\ Strand(Heads, Nodes, h, L[h]) /\ Thread(m, h, L[h])
         /\ Len(L[h]) \in Nat /\ \A i \in 1..Len(L[h]) : L[h][i] \in Nodes /\ st[L[h][i]] = "hashed"
<1>1. Strand(Heads, Nodes, h, L[h])
  BY HlistAssumption DEF Good, Strand, Disjoint
<1>2. \A i \in 1..Len(L[h]) : L[h][i] \in Nodes
  BY <1>1, PlaceFacts
<1>3. \A i \in 1..Len(L[h]) : OnList(L, L[h][i])
  BY DEF OnList
<1> QED  BY <1>1, <1>2, <1>3, PlaceFacts DEF Good

\* Represents says with neighbours what Thread says with places.
LEMMA ThreadIsRepresented ==
  ASSUME NEW h \in Heads, lists[h] \in Seq(Nodes)
  PROVE  Thread(mem, h, lists[h]) <=>
           /\ lists[h] = <<>> => mem.link[h] = NULL
           /\ \A i \in Entries(h) : /\ mem.link[Holder(h, i)] = lists[h][i]
                                    /\ mem.pprev[lists[h][i]] = Holder(h, i)
                                    /\ mem.link[lists[h][i]] = Follower(h, i)
<1> DEFINE q == lists[h]
<1>1. Len(q) \in Nat /\ (q = <<>> <=> Len(q) = 0)
  BY LenProperties, EmptySeq
<1>2. \A i \in 1..Len(q) : /\ Place(h, q, i) = q[i] /\ Place(h, q, i-1) = Holder(h, i)
                           /\ Place(h, q, i+1) = Follower(h, i)
  BY <1>1 DEF Place, Holder, Follower
<1>3. Place(h, q, 0) = h /\ (Len(q) = 0 => Place(h, q, 1) = NULL)
  BY <1>1 DEF Place
<1>4. ASSUME Thread(mem, h, q)
      PROVE  /\ q = <<>> => mem.link[h] = NULL
             /\ \A i \in 1..Len(q) : /\ mem.link[Holder(h, i)] = q[i]
                                     /\ mem.pprev[q[i]] = Holder(h, i)
                                     /\ mem.link[q[i]] = Follower(h, i)
  <2>1. q = <<>> => mem.link[h] = NULL
    <3>1. 0 \in 0..Len(q) /\ 0+1 = 1  BY <1>1
    <3> QED  BY <1>1, <1>3, <1>4, <3>1 DEF Thread
  <2>2. ASSUME NEW i \in 1..Len(q)
        PROVE  /\ mem.link[Holder(h, i)] = q[i]
               /\ mem.pprev[q[i]] = Holder(h, i)
               /\ mem.link[q[i]] = Follower(h, i)
    <3>1. i-1 \in 0..Len(q) /\ i \in 0..Len(q) /\ (i-1)+1 = i  BY <1>1
    <3> QED  BY <1>2, <1>4, <3>1 DEF Thread
  <2> QED  BY <2>1, <2>2
<1>5. ASSUME q = <<>> => mem.link[h] = NULL,
             \A i \in 1..Len(q) : /\ mem.link[Holder(h, i)] = q[i]
                                  /\ mem.pprev[q[i]] = Holder(h, i)
                                  /\ mem.link[q[i]] = Follower(h, i)
      PROVE  Thread(mem, h, q)
  <2>1. ASSUME NEW i \in 0..Len(q) PROVE mem.link[Place(h, q, i)] = Place(h, q, i+1)
    <3>1. CASE i # 0
      <4>1. i \in 1..Len(q)  BY <3>1, <1>1
      <4> QED  BY <4>1, <1>2, <1>5
    <3>2. CASE i = 0 /\ Len(q) = 0  BY <3>2, <1>1, <1>3, <1>5
    <3>3. CASE i = 0 /\ Len(q) # 0
      <4>1. 1 \in 1..Len(q) /\ 0+1 = 1  BY <3>3, <1>1
      <4>2. Holder(h, 1) = h  BY DEF Holder
      <4> QED  BY <3>3, <4>1, <4>2, <1>2, <1>3, <1>5
    <3> QED  BY <3>1, <3>2, <3>3
  <2>2. \A i \in 1..Len(q) : mem.pprev[q[i]] = Place(h, q, i-1)  BY <1>2, <1>5
  <2> QED  BY <2>1, <2>2 DEF Thread
<1> QED  BY <1>4, <1>5 DEF Entries

LEMMA IInvIsGood == IInv <=> Good(mem, lists, state)
<1>1. ASSUME lists \in [Heads -> Seq(Nodes)]
      PROVE  Represents <=> Disjoint(lists) /\ \A h \in Heads : Thread(mem, h, lists[h])
  BY <1>1, ThreadIsRepresented DEF Represents, Disjoint, Entries
<1> QED  BY <1>1 DEF IInv, TypeOK, StatesOK, Good

\* The lists K are the lists L but for that of h.
Elsewhere(L, K, h) == \A g \in Heads \ {h} : K[g] = L[g]

LEMMA OnOneList ==
  ASSUME NEW L, NEW h \in Heads, NEW x
  PROVE  OnList(L, x) <=> \/ \E k \in 1..Len(L[h]) : L[h][k] = x
                          \/ \E g \in Heads \ {h} : \E k \in 1..Len(L[g]) : L[g][k] = x
BY DEF OnList

\* If a list changes, the lists stay disjoint if what it has gained is on no other.
LEMMA StillDisjoint ==
  ASSUME NEW L, Disjoint(L), NEW K, NEW h \in Heads, Elsewhere(L, K, h),
         \A j, k \in 1..Len(K[h]) : K[h][j] = K[h][k] => j = k,
         \A g \in Heads \ {h} : \A j \in 1..Len(L[g]) : \A k \in 1..Len(K[h]) : L[g][j] # K[h][k]
  PROVE  Disjoint(K)
<1> SUFFICES ASSUME NEW g \in Heads, NEW f \in Heads, NEW j \in 1..Len(K[g]), NEW k \in 1..Len(K[f]),
                    K[g][j] = K[f][k]
             PROVE  g = f /\ j = k
  BY DEF Disjoint
<1>1. CASE g = h /\ f = h  BY <1>1
<1>2. CASE g = h /\ f # h
  <2>1. K[f] = L[f]  BY <1>2 DEF Elsewhere
  <2> QED  BY <1>2, <2>1
<1>3. CASE g # h /\ f = h
  <2>1. K[g] = L[g]  BY <1>3 DEF Elsewhere
  <2> QED  BY <1>3, <2>1
<1>4. CASE g # h /\ f # h
  <2>1. K[f] = L[f] /\ K[g] = L[g]  BY <1>4 DEF Elsewhere
  <2> QED  BY <2>1 DEF Disjoint
<1> QED  BY <1>1, <1>2, <1>3, <1>4

-----------------------------------------------------------------------------
(* What the primitives keep.                                               *)

\* A node that is tied in where the list has a gap is on the list there.
LEMMA EnterGood ==
  ASSUME NEW m, NEW L, NEW st, Good(m, L, st), NEW n \in Nodes, st[n] # "hashed",
         NEW h \in Heads, NEW i \in 1..(Len(L[h])+1), NEW r \in HMemory(Heads, Nodes),
         Tied(m, r, n, Place(h, L[h], i-1), Place(h, L[h], i))
  PROVE  /\ Good(r, [L EXCEPT ![h] = InsertAt(L[h], i, n)], [st EXCEPT ![n] = "hashed"])
         /\ \A x \in Nodes \ {n} : st[x] # "hashed" => SameNode(m, r, x)
<1> DEFINE q == L[h]
           s == InsertAt(q, i, n)
           K == [L EXCEPT ![h] = s]
           u == [st EXCEPT ![n] = "hashed"]
           p == Place(h, q, i-1)
           t == Place(h, q, i)
<1>1. /\ m \in HMemory(Heads, Nodes) /\ L \in [Heads -> Seq(Nodes)] /\ st \in [Nodes -> NodeStates]
      /\ DOMAIN m.link = Cells /\ DOMAIN m.pprev = Nodes
  BY DEF Good, HMemory, Cells
<1>2. Strand(Heads, Nodes, h, q) /\ Thread(m, h, q) /\ Len(q) \in Nat
  BY GoodFacts
<1>3. \A g \in Heads : \A k \in 1..Len(L[g]) : L[g][k] # n /\ L[g][k] \in Nodes /\ st[L[g][k]] = "hashed"
  BY GoodFacts
<1>4. Strand(Heads, Nodes, h, s) /\ Thread(r, h, s)
  BY <1>1, <1>2, <1>3, ThreadAdd
<1>5. /\ s \in Seq(Nodes) /\ Len(s) = Len(q) + 1
      /\ \A k \in 1..Len(s) : s[k] = IF k < i THEN q[k] ELSE IF k = i THEN n ELSE q[k-1]
  BY <1>1, InsertAtFacts
<1>6. K \in [Heads -> Seq(Nodes)] /\ K[h] = s /\ \A g \in Heads \ {h} : K[g] = L[g]
  BY <1>1, <1>5
<1>7. u \in [Nodes -> NodeStates] /\ u[n] = "hashed" /\ \A x \in Nodes \ {n} : u[x] = st[x]
  BY <1>1 DEF NodeStates
<1> HIDE DEF s, K, u
<1>8. \A x \in Nodes : (\E k \in 1..Len(s) : s[k] = x) <=> x = n \/ \E k \in 1..Len(q) : q[k] = x
  <2>1. ASSUME NEW k \in 1..Len(q) PROVE \E l \in 1..Len(s) : s[l] = q[k]
    <3>1. CASE k < i  BY <3>1, <1>2, <1>5
    <3>2. CASE ~(k < i)
      <4>1. PICK l \in 1..Len(s) : l = k+1 /\ l-1 = k /\ ~(l < i) /\ l # i  BY <3>2, <1>2, <1>5
      <4> QED  BY <4>1, <1>5
    <3> QED  BY <3>1, <3>2
  <2>2. ASSUME NEW k \in 1..Len(s) PROVE s[k] = n \/ \E l \in 1..Len(q) : s[k] = q[l]
    <3>1. CASE k < i
      <4>1. k \in 1..Len(q)  BY <3>1, <1>2
      <4> QED  BY <3>1, <4>1, <1>5
    <3>2. CASE k = i  BY <3>2, <1>5
    <3>3. CASE k > i
      <4>1. PICK l \in 1..Len(q) : l = k-1  BY <3>3, <1>2, <1>5
      <4> QED  BY <3>3, <4>1, <1>5
    <3> QED  BY <3>1, <3>2, <3>3, <1>2
  <2>3. i \in 1..Len(s) /\ s[i] = n  BY <1>2, <1>5
  <2>4. ASSUME NEW x \in Nodes, NEW k \in 1..Len(s), s[k] = x
        PROVE  x = n \/ \E l \in 1..Len(q) : q[l] = x
    BY <2>2, <2>4
  <2>5. ASSUME NEW x \in Nodes, NEW k \in 1..Len(q), q[k] = x
        PROVE  \E l \in 1..Len(s) : s[l] = x
    BY <2>1, <2>5
  <2> QED  BY <2>3, <2>4, <2>5
<1>9. ASSUME NEW x \in Nodes  PROVE OnList(K, x) <=> x = n \/ OnList(L, x)
  <2>1. OnList(K, x) <=> \/ \E k \in 1..Len(K[h]) : K[h][k] = x
                         \/ \E g \in Heads \ {h} : \E k \in 1..Len(K[g]) : K[g][k] = x
    BY OnOneList
  <2>2. OnList(L, x) <=> \/ \E k \in 1..Len(L[h]) : L[h][k] = x
                         \/ \E g \in Heads \ {h} : \E k \in 1..Len(L[g]) : L[g][k] = x
    BY OnOneList
  <2> QED  BY <2>1, <2>2, <1>6, <1>8
<1>10. \A x : (\E k \in 0..(Len(q)+1) : Place(h, q, k) = x) =>
              x = h \/ x = NULL \/ \E k \in 1..Len(q) : q[k] = x
  BY DEF Place
<1>11. p # n /\ (p = h \/ p = NULL \/ \E k \in 1..Len(q) : q[k] = p) /\ (t = h \/ t = NULL \/ \E k \in 1..Len(q) : q[k] = t)
  <2>1. i-1 \in 0..(Len(q)+1) /\ i \in 0..(Len(q)+1)  BY <1>2
  <2>2. n # h /\ n # NULL  BY HlistAssumption
  <2> QED  BY <2>1, <2>2, <1>3, <1>10
<1> HIDE DEF p, t
<1>12. ASSUME NEW x \in Nodes, x # n, \A k \in 1..Len(q) : q[k] # x
       PROVE  SameNode(m, r, x)
  <2>1. x # p /\ x # t  BY <1>11, <1>12, HlistAssumption
  <2> QED  BY <2>1, <1>1, <1>12 DEF Tied, SameNode, Cells, p, t
<1>13. ASSUME NEW g \in Heads, g # h  PROVE r.link[g] = m.link[g]
  <2>1. g # p /\ g # n
    <3>1. \A k \in 1..Len(q) : q[k] # g  BY <1>3, HlistAssumption
    <3> QED  BY <1>11, <1>13, <3>1, HlistAssumption
  <2> QED  BY <2>1, <1>1 DEF Tied, Cells, p, t
<1>14. \A g \in Heads : Thread(r, g, K[g])
  <2> SUFFICES ASSUME NEW g \in Heads, g # h PROVE Thread(r, g, L[g])
    BY <1>4, <1>6
  <2>1. ASSUME NEW k \in 1..Len(L[g]) PROVE SameNode(m, r, L[g][k])
    <3>1. \A l \in 1..Len(q) : q[l] # L[g][k]  BY DEF Good, Disjoint
    <3> QED  BY <3>1, <1>3, <1>12
  <2>2. Strand(Heads, Nodes, g, L[g]) /\ Thread(m, g, L[g])  BY GoodFacts
  <2> QED  BY <2>1, <2>2, <1>13, ThreadLeftAlone DEF SameNode
<1>15. Disjoint(K)
  <2>1. \A g \in Heads \ {h} : \A j \in 1..Len(L[g]), k \in 1..Len(s) : L[g][j] # s[k]
    <3> SUFFICES ASSUME NEW g \in Heads \ {h}, NEW j \in 1..Len(L[g]), NEW k \in 1..Len(s), L[g][j] = s[k]
                 PROVE  FALSE
      OBVIOUS
    <3>1. L[g][j] # n /\ L[g][j] \in Nodes  BY <1>3
    <3>2. PICK l \in 1..Len(q) : q[l] = L[g][j]  BY <3>1, <1>8
    <3> QED  BY <3>2 DEF Good, Disjoint
  <2>2. \A j, k \in 1..Len(s) : s[j] = s[k] => j = k  BY <1>4 DEF Strand
  <2>3. Disjoint(L) /\ Elsewhere(L, K, h)  BY <1>6 DEF Good, Elsewhere
  <2> QED  BY <2>1, <2>2, <2>3, <1>6, StillDisjoint
<1>16. \A x \in Nodes \ {n} : st[x] # "hashed" => SameNode(m, r, x)
  BY <1>3, <1>12
<1>17. ASSUME NEW x \in Nodes
       PROVE  (u[x] = "hashed" <=> OnList(K, x)) /\ (u[x] # "hashed" => Rested(r, x, u[x]))
  <2>1. CASE x = n  BY <2>1, <1>7, <1>9
  <2>2. CASE x # n
    <3>1. u[x] = st[x]  BY <2>2, <1>7
    <3>2. st[x] = "hashed" <=> OnList(L, x)  BY DEF Good
    <3>3. st[x] # "hashed" => Rested(m, x, st[x])  BY DEF Good
    <3> QED  BY <2>2, <3>1, <3>2, <3>3, <1>9, <1>16 DEF Rested, SameNode
  <2> QED  BY <2>1, <2>2
<1>18. Good(r, K, u)
  BY <1>6, <1>7, <1>14, <1>15, <1>17 DEF Good
<1> QED  BY <1>16, <1>18 DEF K, s, u

\* A node that is untied is on no list, and the memory says so if the node itself
\* is left as the state s wants it.
LEMMA LeaveGood ==
  ASSUME NEW m, NEW L, NEW st, Good(m, L, st),
         NEW h \in Heads, NEW i \in 1..Len(L[h]), NEW r \in HMemory(Heads, Nodes), NEW s,
         Untied(m, r, L[h][i], Place(h, L[h], i-1), Place(h, L[h], i+1)),
         Rested(r, L[h][i], s)
  PROVE  /\ Good(r, [L EXCEPT ![h] = RemoveAt(L[h], i)], [st EXCEPT ![L[h][i]] = s])
         /\ \A x \in Nodes : st[x] # "hashed" => SameNode(m, r, x)
<1> DEFINE q == L[h]
           n == q[i]
           w == RemoveAt(q, i)
           K == [L EXCEPT ![h] = w]
           u == [st EXCEPT ![n] = s]
           p == Place(h, q, i-1)
           t == Place(h, q, i+1)
<1>1. /\ m \in HMemory(Heads, Nodes) /\ L \in [Heads -> Seq(Nodes)] /\ st \in [Nodes -> NodeStates]
      /\ DOMAIN m.link = Cells /\ DOMAIN m.pprev = Nodes
  BY DEF Good, HMemory, Cells
<1>2. Strand(Heads, Nodes, h, q) /\ Thread(m, h, q) /\ Len(q) \in Nat
  BY GoodFacts
<1>3. \A g \in Heads : \A k \in 1..Len(L[g]) : L[g][k] \in Nodes /\ st[L[g][k]] = "hashed"
  BY GoodFacts
<1>4. Strand(Heads, Nodes, h, w) /\ Thread(r, h, w)
  BY <1>1, <1>2, ThreadDel
<1>5. /\ w \in Seq(Nodes) /\ Len(w) = Len(q) - 1
      /\ \A k \in 1..Len(w) : w[k] = IF k < i THEN q[k] ELSE q[k+1]
  BY <1>1, RemoveAtFacts
<1>6. K \in [Heads -> Seq(Nodes)] /\ K[h] = w /\ \A g \in Heads \ {h} : K[g] = L[g]
  BY <1>1, <1>5
<1>7. /\ u \in [Nodes -> NodeStates] /\ u[n] = s /\ n \in Nodes /\ s # "hashed"
      /\ \A x \in Nodes \ {n} : u[x] = st[x]
  <2>1. s \in NodeStates /\ s # "hashed"  BY DEF Rested, NodeStates
  <2> QED  BY <2>1, <1>1, <1>3
<1>8. \A x \in Nodes : (\E k \in 1..Len(w) : w[k] = x) <=> x # n /\ \E k \in 1..Len(q) : q[k] = x
  <2>1. ASSUME NEW k \in 1..Len(q), q[k] # n PROVE \E l \in 1..Len(w) : w[l] = q[k]
    <3>1. CASE k < i  BY <3>1, <1>2, <1>5
    <3>2. CASE k > i
      <4>1. PICK l \in 1..Len(w) : l+1 = k /\ ~(l < i)
        <5>1. k-1 \in 1..Len(w) /\ (k-1)+1 = k /\ ~(k-1 < i)  BY <3>2, <1>2, <1>5
        <5> QED  BY <5>1
      <4> QED  BY <4>1, <1>5
    <3> QED  BY <2>1, <3>1, <3>2, <1>2
  <2>2. ASSUME NEW k \in 1..Len(w) PROVE w[k] # n /\ \E l \in 1..Len(q) : w[k] = q[l]
    <3>1. PICK l \in 1..Len(q) : l # i /\ w[k] = q[l]
      <4>1. CASE k < i
        <5>1. k \in 1..Len(q) /\ k # i  BY <4>1, <1>2
        <5> QED  BY <4>1, <5>1, <1>5
      <4>2. CASE ~(k < i)
        <5>1. PICK l \in 1..Len(q) : l = k+1 /\ l # i  BY <4>2, <1>2, <1>5
        <5> QED  BY <4>2, <5>1, <1>5
      <4> QED  BY <4>1, <4>2
    <3> QED  BY <3>1, <1>2 DEF Strand
  <2> QED  BY <2>1, <2>2
<1> HIDE DEF w, K, u
<1>9. ASSUME NEW x \in Nodes  PROVE OnList(K, x) <=> x # n /\ OnList(L, x)
  <2>1. OnList(K, x) <=> \/ \E k \in 1..Len(K[h]) : K[h][k] = x
                         \/ \E g \in Heads \ {h} : \E k \in 1..Len(K[g]) : K[g][k] = x
    BY OnOneList
  <2>2. OnList(L, x) <=> \/ \E k \in 1..Len(L[h]) : L[h][k] = x
                         \/ \E g \in Heads \ {h} : \E k \in 1..Len(L[g]) : L[g][k] = x
    BY OnOneList
  <2>3. \A g \in Heads \ {h} : \A k \in 1..Len(L[g]) : L[g][k] # n  BY DEF Good, Disjoint
  <2> HIDE DEF n
  <2>4. CASE x = n  BY <2>1, <2>3, <2>4, <1>6, <1>8
  <2>5. CASE x # n  BY <2>1, <2>2, <2>5, <1>6, <1>8, SMTT(20)
  <2> QED  BY <2>4, <2>5
<1>10. \A x : (\E k \in 0..(Len(q)+1) : Place(h, q, k) = x) =>
              x = h \/ x = NULL \/ \E k \in 1..Len(q) : q[k] = x
  BY DEF Place
<1>11. (p = h \/ p = NULL \/ \E k \in 1..Len(q) : q[k] = p) /\ (t = h \/ t = NULL \/ \E k \in 1..Len(q) : q[k] = t)
  <2>1. i-1 \in 0..(Len(q)+1) /\ i+1 \in 0..(Len(q)+1)  BY <1>2
  <2> QED  BY <2>1, <1>10
<1> HIDE DEF p, t
<1>12. ASSUME NEW x \in Nodes, \A k \in 1..Len(q) : q[k] # x
       PROVE  SameNode(m, r, x)
  <2>1. x # p /\ x # t /\ x # n  BY <1>11, <1>12, HlistAssumption
  <2> QED  BY <2>1, <1>1, <1>12 DEF Untied, SameNode, Cells, p, t
<1>13. ASSUME NEW g \in Heads, g # h  PROVE r.link[g] = m.link[g]
  <2>1. g # p /\ g # n
    <3>1. \A k \in 1..Len(q) : q[k] # g  BY <1>3, HlistAssumption
    <3> QED  BY <1>11, <1>13, <3>1, HlistAssumption
  <2> QED  BY <2>1, <1>1 DEF Untied, Cells, p, t
<1>14. \A g \in Heads : Thread(r, g, K[g])
  <2> SUFFICES ASSUME NEW g \in Heads, g # h PROVE Thread(r, g, L[g])
    BY <1>4, <1>6
  <2>1. ASSUME NEW k \in 1..Len(L[g]) PROVE SameNode(m, r, L[g][k])
    <3>1. \A l \in 1..Len(q) : q[l] # L[g][k]  BY DEF Good, Disjoint
    <3> QED  BY <3>1, <1>3, <1>12
  <2>2. Strand(Heads, Nodes, g, L[g]) /\ Thread(m, g, L[g])  BY GoodFacts
  <2> QED  BY <2>1, <2>2, <1>13, ThreadLeftAlone DEF SameNode
<1>15. Disjoint(K)
  <2>1. \A g \in Heads \ {h} : \A j \in 1..Len(L[g]), k \in 1..Len(w) : L[g][j] # w[k]
    <3> SUFFICES ASSUME NEW g \in Heads \ {h}, NEW j \in 1..Len(L[g]), NEW k \in 1..Len(w), L[g][j] = w[k]
                 PROVE  FALSE
      OBVIOUS
    <3>1. L[g][j] \in Nodes  BY <1>3
    <3>2. PICK l \in 1..Len(q) : q[l] = L[g][j]  BY <3>1, <1>8
    <3> QED  BY <3>2 DEF Good, Disjoint
  <2>2. \A j, k \in 1..Len(w) : w[j] = w[k] => j = k  BY <1>4 DEF Strand
  <2>3. Disjoint(L) /\ Elsewhere(L, K, h)  BY <1>6 DEF Good, Elsewhere
  <2> QED  BY <2>1, <2>2, <2>3, <1>6, StillDisjoint
<1>16. \A x \in Nodes : st[x] # "hashed" => SameNode(m, r, x)
  BY <1>3, <1>12
<1>17. ASSUME NEW x \in Nodes
       PROVE  (u[x] = "hashed" <=> OnList(K, x)) /\ (u[x] # "hashed" => Rested(r, x, u[x]))
  <2>1. CASE x = n  BY <2>1, <1>7, <1>9
  <2>2. CASE x # n
    <3>1. u[x] = st[x]  BY <2>2, <1>7
    <3>2. st[x] = "hashed" <=> OnList(L, x)  BY DEF Good
    <3>3. st[x] # "hashed" => Rested(m, x, st[x])  BY DEF Good
    <3> QED  BY <2>2, <3>1, <3>2, <3>3, <1>9, <1>16 DEF Rested, SameNode
  <2> QED  BY <2>1, <2>2
<1>18. Good(r, K, u)
  BY <1>6, <1>7, <1>14, <1>15, <1>17 DEF Good
<1> QED  BY <1>16, <1>18 DEF K, w, u

\* A node on no list may be left in any of the states of such a node.
LEMMA RestGood ==
  ASSUME NEW m, NEW L, NEW st, Good(m, L, st), NEW n \in Nodes, st[n] # "hashed",
         NEW r \in HMemory(Heads, Nodes), NEW s, Rested(r, n, s),
         \A x \in Cells \ {n} : r.link[x] = m.link[x],
         \A x \in Nodes \ {n} : r.pprev[x] = m.pprev[x]
  PROVE  Good(r, L, [st EXCEPT ![n] = s])
<1> DEFINE u == [st EXCEPT ![n] = s]
<1>1. \A g \in Heads : \A k \in 1..Len(L[g]) : L[g][k] \in Nodes \ {n}
  BY GoodFacts
<1>2. \A g \in Heads : Thread(r, g, L[g])
  <2> SUFFICES ASSUME NEW g \in Heads PROVE Thread(r, g, L[g])
    OBVIOUS
  <2>1. Strand(Heads, Nodes, g, L[g]) /\ Thread(m, g, L[g])  BY GoodFacts
  <2>2. g \in Cells \ {n}  BY HlistAssumption DEF Cells
  <2> QED  BY <1>1, <2>1, <2>2, ThreadLeftAlone DEF Cells
<1>3. /\ st \in [Nodes -> NodeStates] /\ L \in [Heads -> Seq(Nodes)] /\ Disjoint(L)
      /\ \A x \in Nodes : st[x] = "hashed" <=> OnList(L, x)
      /\ \A x \in Nodes : st[x] # "hashed" => Rested(m, x, st[x])
  BY DEF Good
<1>4. s \in NodeStates /\ s # "hashed"  BY DEF Rested, NodeStates
<1>5. /\ u \in [Nodes -> NodeStates] /\ u[n] = s /\ \A x \in Nodes \ {n} : u[x] = st[x]
  BY <1>3, <1>4
<1> HIDE DEF u
<1>6. ASSUME NEW x \in Nodes
      PROVE  (u[x] = "hashed" <=> OnList(L, x)) /\ (u[x] # "hashed" => Rested(r, x, u[x]))
  <2>1. CASE x = n  BY <2>1, <1>3, <1>4, <1>5
  <2>2. CASE x # n
    <3>1. x \in Cells \ {n} /\ x \in Nodes \ {n}  BY <2>2 DEF Cells
    <3> QED  BY <3>1, <1>3, <1>5 DEF Rested
  <2> QED  BY <2>1, <2>2
<1>7. Good(r, L, u)
  BY <1>2, <1>3, <1>5, <1>6 DEF Good
<1> QED  BY <1>7 DEF u

\* list_move: the nodes of one head become those of another, that has none.
LEMMA MoveListGood ==
  ASSUME NEW m, NEW L, NEW st, Good(m, L, st), NEW old \in Heads, NEW new \in Heads,
         old # new, L[new] = <<>>
  PROVE  LET r == hlist_move_list(m, old, new)
         IN  /\ Good(r, [L EXCEPT ![new] = L[old], ![old] = <<>>], st)
             /\ \A x \in Nodes : st[x] # "hashed" => SameNode(m, r, x)
<1> DEFINE q == L[old]
           first == m.link[old]
           r == hlist_move_list(m, old, new)
           K == [L EXCEPT ![new] = L[old], ![old] = <<>>]
<1>1. /\ m \in HMemory(Heads, Nodes) /\ L \in [Heads -> Seq(Nodes)] /\ st \in [Nodes -> NodeStates]
      /\ DOMAIN m.link = Cells /\ DOMAIN m.pprev = Nodes
      /\ Disjoint(L)
      /\ \A x \in Nodes : st[x] = "hashed" <=> OnList(L, x)
      /\ \A x \in Nodes : st[x] # "hashed" => Rested(m, x, st[x])
  BY DEF Good, HMemory, Cells
<1>2. Strand(Heads, Nodes, old, q) /\ Thread(m, old, q) /\ Len(q) \in Nat
  BY GoodFacts
<1>3. \A g \in Heads : \A k \in 1..Len(L[g]) : L[g][k] \in Nodes /\ st[L[g][k]] = "hashed"
  BY GoodFacts
<1>4. first = Place(old, q, 1) /\ first \in Nodes \cup {NULL}
  <2>1. 0 \in 0..Len(q) /\ 0+1 = 1 /\ 1 \in 1..(Len(q)+1)  BY <1>2
  <2>2. Place(old, q, 0) = old /\ Place(old, q, 1) \in Nodes \cup {NULL}  BY <1>2, <2>1, PlaceFacts
  <2> QED  BY <1>2, <2>1, <2>2 DEF Thread
<1>5. /\ r \in HMemory(Heads, Nodes)
      /\ \A x \in Cells : r.link[x] = IF x = old THEN NULL ELSE IF x = new THEN first ELSE m.link[x]
      /\ \A x \in Nodes : r.pprev[x] = IF x = first THEN new ELSE m.pprev[x]
  <2> DEFINE m1 == SetLink(m, new, first)
             m2 == FixPprev(m1, m1.link[new], new)
  <2>1. /\ m1 \in HMemory(Heads, Nodes) /\ m1.pprev = m.pprev
        /\ \A x \in Cells : m1.link[x] = IF x = new THEN first ELSE m.link[x]
    BY <1>1, <1>4 DEF SetLink, HMemory, Cells
  <2>2. m1.link[new] = first  BY <2>1 DEF Cells
  <2> HIDE DEF m1, first
  <2>3. /\ m2 \in HMemory(Heads, Nodes) /\ m2.link = m1.link
        /\ \A x \in Nodes : m2.pprev[x] = IF x = first THEN new ELSE m.pprev[x]
    BY <1>4, <2>1, <2>2, HlistAssumption DEF FixPprev, SetPprev, HMemory
  <2>4. r = SetLink(m2, old, NULL)  BY DEF hlist_move_list, m1, first
  <2> HIDE DEF m2, r
  <2>5. /\ r \in HMemory(Heads, Nodes) /\ r.pprev = m2.pprev
        /\ \A x \in Cells : r.link[x] = IF x = old THEN NULL ELSE m2.link[x]
    BY <2>3, <2>4 DEF SetLink, HMemory, Cells
  <2> QED  BY <2>1, <2>3, <2>5
<1>6. /\ K \in [Heads -> Seq(Nodes)] /\ K[new] = q /\ K[old] = <<>>
      /\ \A g \in Heads \ {old, new} : K[g] = L[g]
  BY <1>1
<1> HIDE DEF r, first, K
<1>7. \A x \in Nodes : OnList(K, x) <=> OnList(L, x)
  <2>1. ASSUME NEW x, OnList(K, x) PROVE OnList(L, x)
    <3>1. PICK g \in Heads : \E k \in 1..Len(K[g]) : K[g][k] = x  BY <2>1 DEF OnList
    <3>2. Len(K[old]) = 0  BY <1>6
    <3>3. g # old  BY <3>1, <3>2
    <3> QED  BY <3>1, <3>3, <1>6 DEF OnList
  <2>2. ASSUME NEW x, OnList(L, x) PROVE OnList(K, x)
    <3>1. PICK g \in Heads : \E k \in 1..Len(L[g]) : L[g][k] = x  BY <2>2 DEF OnList
    <3>2. Len(L[new]) = 0  OBVIOUS
    <3>3. g # new  BY <3>1, <3>2
    <3> QED  BY <3>1, <3>3, <1>6 DEF OnList
  <2> QED  BY <2>1, <2>2
<1>8. Disjoint(K)
  <2> SUFFICES ASSUME NEW g \in Heads, NEW f \in Heads, NEW j \in 1..Len(K[g]), NEW k \in 1..Len(K[f]),
                      K[g][j] = K[f][k]
               PROVE  g = f /\ j = k
    BY DEF Disjoint
  <2> DEFINE o(x) == IF x = new THEN old ELSE x
  <2>1. g # old /\ f # old  BY <1>6
  <2>2. o(g) \in Heads /\ o(f) \in Heads /\ K[g] = L[o(g)] /\ K[f] = L[o(f)]  BY <1>6, <2>1
  <2>3. PICK a, b : a = o(g) /\ b = o(f)  OBVIOUS
  <2>4. /\ a \in Heads /\ b \in Heads /\ L[a] = K[g] /\ L[b] = K[f]
        /\ j \in 1..Len(L[a]) /\ k \in 1..Len(L[b]) /\ L[a][j] = L[b][k]
    BY <2>2, <2>3
  <2>5. Disjoint(L)  BY <1>1
  <2>6. a = b /\ j = k  BY <2>4, <2>5 DEF Disjoint
  <2> QED  BY <2>1, <2>3, <2>6
<1>9. Strand(Heads, Nodes, new, q)  BY <1>2 DEF Strand
<1>10. Thread(r, new, q)
  <2>1. \A k \in 1..(Len(q)+1) : Place(new, q, k) = Place(old, q, k)  BY <1>2 DEF Place
  <2>2. ASSUME NEW k \in 0..Len(q) PROVE r.link[Place(new, q, k)] = Place(new, q, k+1)
    <3>1. CASE k = 0
      <4>1. Place(new, q, 0) = new /\ 1 \in 1..(Len(q)+1)  BY <1>2 DEF Place
      <4> QED  BY <3>1, <4>1, <2>1, <1>4, <1>5 DEF Cells
    <3>2. CASE k # 0
      <4>1. k \in 1..Len(q) /\ k \in 1..(Len(q)+1) /\ k+1 \in 1..(Len(q)+1)  BY <3>2, <1>2
      <4>2. Place(old, q, k) \in Cells /\ Place(old, q, k) # old /\ Place(old, q, k) # new
        <5>1. Place(old, q, k) = q[k] /\ q[k] \in Nodes  BY <4>1, <1>2, PlaceFacts
        <5> QED  BY <5>1, HlistAssumption DEF Cells
      <4>3. m.link[Place(old, q, k)] = Place(old, q, k+1)  BY <1>2 DEF Thread
      <4> QED  BY <4>1, <4>2, <4>3, <2>1, <1>5
    <3> QED  BY <3>1, <3>2
  <2>3. ASSUME NEW k \in 1..Len(q) PROVE r.pprev[q[k]] = Place(new, q, k-1)
    <3>1. CASE k = 1
      <4>1. q[k] = first /\ q[k] \in Nodes  BY <3>1, <1>2, <1>4, PlaceFacts
      <4>2. Place(new, q, k-1) = new  BY <3>1 DEF Place
      <4> QED  BY <4>1, <4>2, <1>5
    <3>2. CASE k # 1
      <4>1. k-1 \in 1..(Len(q)+1) /\ 1 \in 0..(Len(q)+1) /\ k \in 0..(Len(q)+1)  BY <3>2, <1>2
      <4>2. q[k] # first /\ q[k] \in Nodes  BY <3>2, <4>1, <1>2, <1>4, PlaceFacts
      <4>3. m.pprev[q[k]] = Place(old, q, k-1)  BY <1>2 DEF Thread
      <4> QED  BY <4>1, <4>2, <4>3, <2>1, <1>5
    <3> QED  BY <3>1, <3>2
  <2> QED  BY <2>2, <2>3 DEF Thread
<1>11. ASSUME NEW x \in Nodes, \A k \in 1..Len(q) : q[k] # x  PROVE SameNode(m, r, x)
  <2>1. x # first /\ x # old /\ x # new
    <3>1. first = NULL \/ \E k \in 1..Len(q) : q[k] = first  BY <1>2, <1>4 DEF Place
    <3> QED  BY <3>1, <1>11, HlistAssumption
  <2> QED  BY <2>1, <1>5 DEF SameNode, Cells
<1>12. Thread(r, old, <<>>)
  <2>1. Len(<<>>) = 0 /\ \A k : Place(old, <<>>, k) = IF k = 0 THEN old ELSE NULL
    BY DEF Place
  <2>2. r.link[old] = NULL  BY <1>5 DEF Cells
  <2> QED  BY <2>1, <2>2 DEF Thread
<1>13. ASSUME NEW g \in Heads PROVE Thread(r, g, K[g])
  <2>1. CASE g = old  BY <2>1, <1>6, <1>12
  <2>2. CASE g = new  BY <2>2, <1>6, <1>10
  <2>3. CASE g # old /\ g # new
    <3>1. ASSUME NEW k \in 1..Len(L[g]) PROVE SameNode(m, r, L[g][k])
      <4>1. \A l \in 1..Len(q) : q[l] # L[g][k]  BY <2>3, <1>1 DEF Disjoint
      <4> QED  BY <4>1, <1>3, <1>11
    <3>2. r.link[g] = m.link[g]  BY <2>3, <1>5 DEF Cells
    <3>3. Strand(Heads, Nodes, g, L[g]) /\ Thread(m, g, L[g])  BY GoodFacts
    <3>4. Thread(r, g, L[g])  BY <3>1, <3>2, <3>3, ThreadLeftAlone DEF SameNode
    <3> QED  BY <2>3, <3>4, <1>6
  <2> QED  BY <2>1, <2>2, <2>3
<1>14. \A x \in Nodes : st[x] # "hashed" => SameNode(m, r, x)
  BY <1>3, <1>11
<1>15. \A x \in Nodes : st[x] # "hashed" => Rested(r, x, st[x])
  BY <1>1, <1>14 DEF Rested, SameNode
<1>16. Good(r, K, st)
  BY <1>1, <1>5, <1>6, <1>7, <1>8, <1>13, <1>15 DEF Good
<1> QED  BY <1>14, <1>16 DEF r, K

-----------------------------------------------------------------------------
(* What the functions that add a node beside another leave: they make      *)
(* their stores in other orders than hlist_add_head and leave the same.    *)

LEMMA AddBeforeTies ==
  ASSUME NEW m \in HMemory(Heads, Nodes), NEW n \in Nodes, NEW t \in Nodes, n # t,
         m.pprev[t] \in Cells
  PROVE  LET r == hlist_add_before(m, n, t)
         IN  r \in HMemory(Heads, Nodes) /\ Tied(m, r, n, m.pprev[t], t)
<1> DEFINE p == m.pprev[t]
           m1 == SetPprev(m, n, p)
           m2 == SetLink(m1, n, t)
           m3 == SetPprev(m2, t, n)
<1>1. m1 \in HMemory(Heads, Nodes) /\ m1.link = m.link /\ m1.pprev = [m.pprev EXCEPT ![n] = p]
  BY DEF SetPprev, HMemory, Cells
<1>2. m2 \in HMemory(Heads, Nodes) /\ m2.pprev = m1.pprev /\ m2.link = [m1.link EXCEPT ![n] = t]
  <2> HIDE DEF m1
  <2> QED  BY <1>1 DEF SetLink, HMemory
<1>3. m3 \in HMemory(Heads, Nodes) /\ m3.link = m2.link /\ m3.pprev = [m2.pprev EXCEPT ![t] = n]
  <2> HIDE DEF m2
  <2> QED  BY <1>2 DEF SetPprev, HMemory
<1>4. hlist_add_before(m, n, t) = SetLink(m3, m3.pprev[n], n)
  BY DEF hlist_add_before
<1> HIDE DEF m1, m2, m3
<1>5. m3.pprev[n] = p  BY <1>1, <1>2, <1>3 DEF HMemory
<1> QED  BY <1>1, <1>2, <1>3, <1>4, <1>5 DEF SetLink, HMemory, Tied, Cells

LEMMA AddBehindTies ==
  ASSUME NEW m \in HMemory(Heads, Nodes), NEW n \in Nodes, NEW p \in Nodes, n # p,
         m.link[p] \in Nodes \cup {NULL}
  PROVE  LET r == hlist_add_behind(m, n, p)
         IN  r \in HMemory(Heads, Nodes) /\ (m.link[p] # n => Tied(m, r, n, p, m.link[p]))
<1> DEFINE t == m.link[p]
           m1 == SetLink(m, n, t)
           m2 == SetLink(m1, p, n)
           m3 == SetPprev(m2, n, p)
<1>1. m1 \in HMemory(Heads, Nodes) /\ m1.pprev = m.pprev /\ m1.link = [m.link EXCEPT ![n] = t]
  BY DEF SetLink, HMemory
<1>2. m2 \in HMemory(Heads, Nodes) /\ m2.pprev = m1.pprev /\ m2.link = [m1.link EXCEPT ![p] = n]
  <2> HIDE DEF m1
  <2> QED  BY <1>1 DEF SetLink, HMemory
<1>3. m3 \in HMemory(Heads, Nodes) /\ m3.link = m2.link /\ m3.pprev = [m2.pprev EXCEPT ![n] = p]
  <2> HIDE DEF m2
  <2> QED  BY <1>2 DEF SetPprev, HMemory
<1>4. hlist_add_behind(m, n, p) = FixPprev(m3, m3.link[n], n)
  BY DEF hlist_add_behind
<1> HIDE DEF m1, m2, m3
<1>5. m3.link[n] = t  BY <1>1, <1>2, <1>3 DEF HMemory
<1>6. /\ hlist_add_behind(m, n, p).link = m3.link
      /\ hlist_add_behind(m, n, p).pprev = IF t = NULL THEN m3.pprev ELSE [m3.pprev EXCEPT ![t] = n]
      /\ hlist_add_behind(m, n, p) \in HMemory(Heads, Nodes)
  BY <1>3, <1>4, <1>5 DEF FixPprev, SetPprev, HMemory
<1>7. t \in Nodes => t # NULL  BY HlistAssumption
<1> QED  BY <1>1, <1>2, <1>3, <1>6, <1>7 DEF HMemory, Tied

-----------------------------------------------------------------------------
(* The steps.                                                              *)

LEMMA InitGood == Init => IInv
<1> SUFFICES ASSUME Init PROVE Good(mem, lists, state)
  BY IInvIsGood
<1>1. mem \in HMemory(Heads, Nodes) /\ lists \in [Heads -> Seq(Nodes)] /\ state \in [Nodes -> NodeStates]
  BY DEF Init, HMemory, NodeStates
<1>2. \A h \in Heads : Len(lists[h]) = 0 /\ lists[h] = <<>>
  BY DEF Init
<1>3. ASSUME NEW h \in Heads PROVE Thread(mem, h, lists[h])
  <2>1. mem.link[h] = NULL  BY DEF Init
  <2>2. Place(h, lists[h], 0) = h /\ Place(h, lists[h], 1) = NULL  BY <1>2 DEF Place
  <2> QED  BY <1>2, <2>1, <2>2 DEF Thread
<1>4. Disjoint(lists)  BY <1>2 DEF Disjoint
<1>5. ASSUME NEW n \in Nodes
      PROVE  ~OnList(lists, n) /\ state[n] = "unhashed" /\ Rested(mem, n, "unhashed")
  BY <1>2 DEF Init, OnList, Rested
<1> QED  BY <1>1, <1>3, <1>4, <1>5 DEF Good

\* What a step may not do to a node that is on no list.
FreeStep ==
  \A n \in Nodes : n \in Free /\ n \in Free' /\ state'[n] = state[n] =>
    \/ mem'.link[n] = mem.link[n] /\ mem'.pprev[n] = mem.pprev[n]
    \/ mem' = INIT_HLIST_NODE(mem, n)

Kept == IInv' /\ FreeStep

LEMMA GoodNext == Good(mem, lists, state)' => IInv'
<1>1. Good(mem, lists, state) => IInv  BY IInvIsGood
<1> QED  BY <1>1, PTL

LEMMA GoodIsKept ==
  ASSUME Good(mem', lists', state'), FreeStep
  PROVE  Kept
BY GoodNext DEF Kept

LEMMA NodeTypes ==
  ASSUME IInv, NEW n \in Nodes
  PROVE  /\ mem \in HMemory(Heads, Nodes) /\ state \in [Nodes -> NodeStates]
         /\ state[n] # "hashed" => Rested(mem, n, state[n])
BY DEF IInv, TypeOK, StatesOK

LEMMA InitNodeKept == ASSUME IInv, NEW n \in Nodes, InitNode(n) PROVE Kept
<1>1. Good(mem, lists, state) /\ state[n] # "hashed" /\ state \in [Nodes -> NodeStates]
      /\ mem \in HMemory(Heads, Nodes)
  BY IInvIsGood, NodeTypes DEF InitNode, Free
<1>2. /\ mem' \in HMemory(Heads, Nodes) /\ Rested(mem', n, "unhashed")
      /\ \A x \in Cells \ {n} : mem'.link[x] = mem.link[x]
      /\ \A x \in Nodes \ {n} : mem'.pprev[x] = mem.pprev[x]
  BY <1>1 DEF InitNode, INIT_HLIST_NODE, SetLink, SetPprev, HMemory, Rested, Cells
<1>3. Good(mem', lists', state')
  <2>1. Good(mem', lists, [state EXCEPT ![n] = "unhashed"])  BY <1>1, <1>2, RestGood
  <2>2. lists' = lists /\ state' = [state EXCEPT ![n] = "unhashed"]  BY DEF InitNode, Rest
  <2> QED  BY <2>1, <2>2, Zenon
<1>4. FreeStep
  BY <1>2 DEF FreeStep, InitNode, Cells
<1> QED  BY <1>3, <1>4, GoodIsKept

\* hlist_del, hlist_del_init and hlist_add_fake of a node that is on no list
\* write to nothing else, and leave it in another state or do nothing.
LEMMA RestKept ==
  ASSUME IInv, NEW n \in Nodes, DelFake(n) \/ DelInitFree(n) \/ AddFake(n)
  PROVE  Kept
<1>1. Good(mem, lists, state) /\ state \in [Nodes -> NodeStates] /\ mem \in HMemory(Heads, Nodes)
      /\ (state[n] # "hashed" => Rested(mem, n, state[n]))
  BY IInvIsGood, NodeTypes
<1>2. n # NULL  BY HlistAssumption
<1>3. ASSUME NEW s, state[n] # "hashed", Rest(n, s), mem' \in HMemory(Heads, Nodes),
             Rested(mem', n, s),
             \A x \in Cells \ {n} : mem'.link[x] = mem.link[x],
             \A x \in Nodes \ {n} : mem'.pprev[x] = mem.pprev[x],
             s # state[n] \/ mem' = mem
      PROVE  Kept
  <2>1. Good(mem', lists', state')  BY <1>1, <1>3, RestGood DEF Rest
  <2>2. FreeStep
    <3> SUFFICES ASSUME NEW x \in Nodes, state'[x] = state[x]
                 PROVE  mem'.link[x] = mem.link[x] /\ mem'.pprev[x] = mem.pprev[x]
      BY DEF FreeStep
    <3>1. x # n \/ mem' = mem  BY <1>1, <1>3 DEF Rest
    <3> QED  BY <1>3, <3>1 DEF Cells
  <2> QED  BY <2>1, <2>2, GoodIsKept
<1>4. ASSUME state[n] = "fake"
      PROVE  __hlist_del(mem, n) = SetLink(mem, n, NULL)
  BY <1>1, <1>4 DEF Rested, __hlist_del, FixPprev
<1>5. CASE DelFake(n)
  <2>1. state[n] = "fake" /\ mem' = SetPprev(SetLink(SetLink(mem, n, NULL), n, LIST_POISON1), n, LIST_POISON2)
    BY <1>4, <1>5 DEF DelFake, hlist_del
  <2>2. /\ mem' \in HMemory(Heads, Nodes) /\ Rested(mem', n, "deleted")
        /\ \A x \in Cells \ {n} : mem'.link[x] = mem.link[x]
        /\ \A x \in Nodes \ {n} : mem'.pprev[x] = mem.pprev[x]
    BY <1>1, <2>1 DEF SetLink, SetPprev, HMemory, Rested, Cells
  <2> QED  BY <1>3, <1>5, <2>1, <2>2 DEF DelFake
<1>6. CASE DelInitFree(n) /\ state[n] = "fake"
  <2>1. mem.pprev[n] = n  BY <1>1, <1>6 DEF Rested
  <2>2. mem' = SetPprev(SetLink(SetLink(mem, n, NULL), n, NULL), n, NULL)
    BY <1>2, <1>4, <1>6, <2>1 DEF DelInitFree, hlist_del_init, hlist_unhashed, INIT_HLIST_NODE
  <2>3. /\ mem' \in HMemory(Heads, Nodes) /\ Rested(mem', n, "unhashed")
        /\ \A x \in Cells \ {n} : mem'.link[x] = mem.link[x]
        /\ \A x \in Nodes \ {n} : mem'.pprev[x] = mem.pprev[x]
    BY <1>1, <2>2 DEF SetLink, SetPprev, HMemory, Rested, Cells
  <2> QED  BY <1>3, <1>6, <2>3 DEF DelInitFree
<1>7. CASE DelInitFree(n) /\ state[n] = "unhashed"
  <2>1. mem.pprev[n] = NULL /\ Rested(mem, n, "unhashed")  BY <1>1, <1>7 DEF Rested
  <2>2. mem' = mem  BY <1>7, <2>1 DEF DelInitFree, hlist_del_init, hlist_unhashed
  <2> QED  BY <1>1, <1>3, <1>7, <2>1, <2>2 DEF DelInitFree
<1>8. CASE AddFake(n)
  <2>1. mem.link[n] = NULL /\ mem' = SetPprev(mem, n, n) /\ state[n] = "unhashed"
    BY <1>1, <1>8 DEF AddFake, hlist_add_fake, Rested
  <2>2. /\ mem' \in HMemory(Heads, Nodes) /\ Rested(mem', n, "fake")
        /\ \A x \in Cells \ {n} : mem'.link[x] = mem.link[x]
        /\ \A x \in Nodes \ {n} : mem'.pprev[x] = mem.pprev[x]
    BY <1>1, <2>1 DEF SetPprev, HMemory, Rested, Cells
  <2> QED  BY <1>3, <1>8, <2>1, <2>2 DEF AddFake
<1> QED  BY <1>5, <1>6, <1>7, <1>8 DEF DelInitFree

\* A step that ties a free node in.
LEMMA EnterKept ==
  ASSUME IInv, NEW n \in Nodes, NEW h \in Heads, NEW i \in 1..(Len(lists[h])+1),
         n \in Free, Enter(n, h, i), mem' \in HMemory(Heads, Nodes),
         Tied(mem, mem', n, Place(h, lists[h], i-1), Place(h, lists[h], i))
  PROVE  Kept
<1>1. Good(mem, lists, state) /\ state[n] # "hashed" /\ state \in [Nodes -> NodeStates]
  BY IInvIsGood, NodeTypes DEF Free
<1>2. /\ Good(mem', lists', state')
      /\ \A x \in Nodes \ {n} : state[x] # "hashed" => SameNode(mem, mem', x)
  BY <1>1, EnterGood DEF Enter
<1>3. FreeStep
  <2> SUFFICES ASSUME NEW x \in Nodes, x \in Free, x \in Free'
               PROVE  mem'.link[x] = mem.link[x] /\ mem'.pprev[x] = mem.pprev[x]
    BY DEF FreeStep
  <2>1. x # n /\ state[x] # "hashed"
    <3>1. state'[n] = "hashed"  BY <1>1 DEF Enter
    <3> QED  BY <3>1 DEF Free
  <2> QED  BY <1>2, <2>1 DEF SameNode
<1> QED  BY <1>2, <1>3, GoodIsKept

\* The neighbours of entry i, as memory has them.
LEMMA EntryFacts ==
  ASSUME IInv, NEW h \in Heads, NEW i \in Entries(h)
  PROVE  LET e == lists[h][i]
         IN  /\ Len(lists[h]) \in Nat /\ i \in 1..Len(lists[h]) /\ e \in Nodes /\ e \notin Free
             /\ Place(h, lists[h], i) = e
             /\ mem.pprev[e] = Place(h, lists[h], i-1) /\ mem.pprev[e] \in Cells
             /\ mem.link[e] = Place(h, lists[h], i+1) /\ mem.link[e] \in Nodes \cup {NULL}
<1>1. Good(mem, lists, state)  BY IInvIsGood
<1>2. Strand(Heads, Nodes, h, lists[h]) /\ Thread(mem, h, lists[h]) /\ Len(lists[h]) \in Nat
      /\ i \in 1..Len(lists[h]) /\ lists[h][i] \in Nodes /\ state[lists[h][i]] = "hashed"
  BY <1>1, GoodFacts DEF Entries
<1>3. i-1 \in 0..Len(lists[h]) /\ i \in 0..Len(lists[h]) /\ i+1 \in 1..(Len(lists[h])+1)
  BY <1>2
<1>4. Place(h, lists[h], i) = lists[h][i]  BY <1>2, PlaceFacts
<1>5. mem.pprev[lists[h][i]] = Place(h, lists[h], i-1)  BY <1>2 DEF Thread
<1>6. mem.link[lists[h][i]] = Place(h, lists[h], i+1)  BY <1>2, <1>3, <1>4 DEF Thread
<1>7. Place(h, lists[h], i-1) \in Cells /\ Place(h, lists[h], i+1) \in Nodes \cup {NULL}
  BY <1>2, <1>3, PlaceFacts DEF Cells
<1> QED  BY <1>2, <1>4, <1>5, <1>6, <1>7 DEF Free

LEMMA AddKept ==
  ASSUME IInv, NEW n \in Nodes, NEW h \in Heads,
         \/ AddHead(n, h)
         \/ \E i \in Entries(h) : AddBefore(n, h, i) \/ AddBehind(n, h, i)
  PROVE  Kept
<1> DEFINE q == lists[h]
<1>1. mem \in HMemory(Heads, Nodes)  BY NodeTypes
<1>2. CASE AddHead(n, h)
  <2>1. Strand(Heads, Nodes, h, q) /\ Thread(mem, h, q) /\ Len(q) \in Nat
    BY IInvIsGood, GoodFacts
  <2>2. 1 \in 1..(Len(q)+1) /\ 0 \in 0..Len(q) /\ 0+1 = 1 /\ 1-1 = 0  BY <2>1
  <2>3. mem.link[h] = Place(h, q, 1) /\ h = Place(h, q, 0) /\ Place(h, q, 1) \in Nodes \cup {NULL}
    BY <2>1, <2>2, PlaceFacts DEF Thread
  <2>4. mem' = hlist_add_head(mem, n, h) /\ n \in Free /\ Enter(n, h, 1)  BY <1>2 DEF AddHead
  <2>5. mem' \in HMemory(Heads, Nodes) /\ Tied(mem, mem', n, Place(h, q, 0), Place(h, q, 1))
    BY <1>1, <2>3, <2>4, HlistAssumption, AddHeadTies
  <2> QED  BY <2>2, <2>4, <2>5, EnterKept
<1>3. ASSUME NEW i \in Entries(h), AddBefore(n, h, i)  PROVE Kept
  <2>1. /\ Len(q) \in Nat /\ i \in 1..Len(q) /\ q[i] \in Nodes /\ q[i] \notin Free
        /\ Place(h, q, i) = q[i]
        /\ mem.pprev[q[i]] = Place(h, q, i-1) /\ mem.pprev[q[i]] \in Cells
    BY <1>3, EntryFacts
  <2>2. mem' = hlist_add_before(mem, n, q[i]) /\ n \in Free /\ Enter(n, h, i)  BY <1>3 DEF AddBefore
  <2>3. mem' \in HMemory(Heads, Nodes) /\ Tied(mem, mem', n, Place(h, q, i-1), Place(h, q, i))
    BY <1>1, <2>1, <2>2, AddBeforeTies
  <2>4. i \in 1..(Len(q)+1)  BY <2>1
  <2> QED  BY <2>2, <2>3, <2>4, EnterKept
<1>4. ASSUME NEW i \in Entries(h), AddBehind(n, h, i)  PROVE Kept
  <2>1. /\ Len(q) \in Nat /\ i \in 1..Len(q) /\ q[i] \in Nodes /\ q[i] \notin Free
        /\ Place(h, q, i) = q[i]
        /\ mem.link[q[i]] = Place(h, q, i+1) /\ mem.link[q[i]] \in Nodes \cup {NULL}
    BY <1>4, EntryFacts
  <2>2. mem' = hlist_add_behind(mem, n, q[i]) /\ n \in Free /\ Enter(n, h, i+1)  BY <1>4 DEF AddBehind
  <2>3. mem.link[q[i]] # n
    <3>1. CASE i+1 \in Entries(h)
      <4>1. Place(h, q, i+1) \notin Free  BY <3>1, EntryFacts
      <4> QED  BY <4>1, <2>1, <2>2
    <3>2. CASE i+1 \notin Entries(h)
      <4>1. Place(h, q, i+1) = NULL  BY <3>2, <2>1 DEF Place, Entries
      <4> QED  BY <4>1, <2>1, HlistAssumption
    <3> QED  BY <3>1, <3>2
  <2>4. mem' \in HMemory(Heads, Nodes) /\ Tied(mem, mem', n, Place(h, q, i), Place(h, q, i+1))
    BY <1>1, <2>1, <2>2, <2>3, AddBehindTies
  <2>5. PICK j \in 1..(Len(q)+1) : j = i+1 /\ j-1 = i  BY <2>1
  <2> QED  BY <2>2, <2>4, <2>5, EnterKept
<1> QED  BY <1>2, <1>3, <1>4

LEMMA DelKept ==
  ASSUME IInv, NEW h \in Heads, NEW i \in Entries(h), Del(h, i) \/ DelInit(h, i)
  PROVE  Kept
<1> DEFINE q == lists[h]
           n == q[i]
<1>1. mem \in HMemory(Heads, Nodes) /\ Good(mem, lists, state)  BY IInvIsGood DEF Good
<1>2. /\ i \in 1..Len(q) /\ n \in Nodes
      /\ mem.pprev[n] = Place(h, q, i-1) /\ mem.pprev[n] \in Cells
      /\ mem.link[n] = Place(h, q, i+1) /\ mem.link[n] \in Nodes \cup {NULL}
  BY EntryFacts
<1>3. PICK s : /\ Leave(h, i, s)
               /\ mem' \in HMemory(Heads, Nodes) /\ Rested(mem', n, s)
               /\ Untied(mem, mem', n, Place(h, q, i-1), Place(h, q, i+1))
  <2>0. NULL \notin Heads \cup Nodes  BY HlistAssumption
  <2>1. CASE Del(h, i)  BY <2>0, <2>1, <1>1, <1>2, DelUnties DEF Del, Cells, Rested
  <2>2. CASE DelInit(h, i)  BY <2>0, <2>2, <1>1, <1>2, DelUnties DEF DelInit, Cells, Rested
  <2> QED  BY <2>1, <2>2
<1>4. /\ Good(mem', lists', state')
      /\ \A x \in Nodes : state[x] # "hashed" => SameNode(mem, mem', x)
  BY <1>1, <1>2, <1>3, LeaveGood DEF Leave
<1>5. FreeStep
  BY <1>4 DEF FreeStep, Free, SameNode
<1> QED  BY <1>4, <1>5, GoodIsKept

LEMMA MoveListKept ==
  ASSUME IInv, NEW old \in Heads, NEW new \in Heads, MoveList(old, new)
  PROVE  Kept
<1>1. Good(mem, lists, state)  BY IInvIsGood
<1>2. /\ Good(mem', lists', state')
      /\ \A x \in Nodes : state[x] # "hashed" => SameNode(mem, mem', x)
  BY <1>1, MoveListGood DEF MoveList
<1>3. FreeStep
  BY <1>2 DEF FreeStep, Free, SameNode
<1> QED  BY <1>2, <1>3, GoodIsKept

LEMMA StepKept == IInv /\ [Next]_vars => IInv' /\ [FreeStep]_vars
<1>1. CASE UNCHANGED vars
  BY <1>1 DEF vars, IInv, TypeOK, Represents, StatesOK, Entries, Holder, Follower, OnList
<1>2. ASSUME IInv, Next PROVE Kept
  BY <1>2, InitNodeKept, RestKept, AddKept, DelKept, MoveListKept DEF Next
<1> QED  BY <1>1, <1>2 DEF Kept

-----------------------------------------------------------------------------
\* For any heads and nodes, the invariant holds: memory and lists agree, and so
\* do the states and the nodes on no list.
THEOREM HlistInvariant == Spec => []IInv
<1>1. Init => IInv  BY InitGood
<1>2. IInv /\ [Next]_vars => IInv'  BY StepKept
<1> QED  BY <1>1, <1>2, PTL DEF Spec

\* For any heads and nodes, every next and every pprev pointer is the one of the
\* lists that the calls promised, whichever calls of list.h were made (801-891).
THEOREM HlistRepresents == Spec => []Represents
<1>1. IInv => Represents  BY DEF IInv
<1> QED  BY <1>1, HlistInvariant, PTL

\* For any heads and nodes, no call of list.h writes to a node that is on no list
\* before and after it, but to initialise that very node (list.h:740-830).
THEOREM HlistLeavesFreeAlone == Spec => FreeNodesLeftAlone
<1>1. IInv /\ [Next]_vars => [FreeStep]_vars  BY StepKept
<1>2. Spec => [][FreeStep]_vars
  BY <1>1, HlistInvariant, PTL DEF Spec
<1> QED  BY <1>2 DEF FreeNodesLeftAlone, FreeStep

\* The invariant is all that the tests need.
LEMMA TestsGood == IInv => TestsAnswerForTheList
<1> SUFFICES ASSUME IInv PROVE TestsAnswerForTheList
  OBVIOUS
<1>1. Good(mem, lists, state)  BY IInvIsGood
<1>2. ASSUME NEW n \in Nodes, state[n] = "hashed"
      PROVE  \E h \in Heads : \E i \in Entries(h) : lists[h][i] = n
  BY <1>1, <1>2 DEF Good, OnList, Entries
<1>3. ASSUME NEW n \in Nodes, state[n] # "hashed"  PROVE Rested(mem, n, state[n])
  BY <1>1, <1>3 DEF Good
<1>4. ASSUME NEW n \in Nodes, state[n] = "hashed"
      PROVE  mem.pprev[n] \in Cells /\ mem.pprev[n] # n /\ mem.pprev[n] # NULL
  <2>1. PICK h \in Heads : \E i \in Entries(h) : lists[h][i] = n  BY <1>2, <1>4
  <2>2. PICK i \in Entries(h) : lists[h][i] = n  BY <2>1
  <2>3. /\ Len(lists[h]) \in Nat /\ i \in 1..Len(lists[h])
        /\ mem.pprev[n] = Place(h, lists[h], i-1) /\ mem.pprev[n] \in Cells
        /\ Place(h, lists[h], i) = n
    BY <2>2, EntryFacts
  <2>4. Strand(Heads, Nodes, h, lists[h])  BY <1>1, GoodFacts
  <2>5. i-1 \in 0..(Len(lists[h])+1) /\ i \in 0..(Len(lists[h])+1) /\ i-1 # i  BY <2>3
  <2>6. mem.pprev[n] # n  BY <2>3, <2>4, <2>5, PlaceFacts
  <2> QED  BY <2>3, <2>6, HlistAssumption DEF Cells
<1>5. ASSUME NEW n \in Nodes
      PROVE  /\ hlist_unhashed(mem, n) <=> state[n] = "unhashed"
             /\ hlist_fake(mem, n) <=> state[n] = "fake"
             /\ state[n] \in {"unhashed", "fake"} => mem.link[n] = NULL
  <2>1. CASE state[n] = "hashed"  BY <2>1, <1>4 DEF hlist_unhashed, hlist_fake
  <2>2. CASE state[n] # "hashed"
    <3>1. n # NULL /\ n # LIST_POISON2 /\ NULL # LIST_POISON2  BY HlistAssumption
    <3> QED  BY <2>2, <3>1, <1>3 DEF Rested, hlist_unhashed, hlist_fake
  <2> QED  BY <2>1, <2>2
<1>6. ASSUME NEW h \in Heads PROVE hlist_empty(mem, h) <=> lists[h] = <<>>
  <2>1. Strand(Heads, Nodes, h, lists[h]) /\ Thread(mem, h, lists[h]) /\ Len(lists[h]) \in Nat
    BY <1>1, GoodFacts
  <2>2. lists[h] = <<>> <=> Len(lists[h]) = 0  BY <2>1, EmptySeq, LenProperties DEF Strand
  <2>3. mem.link[h] = Place(h, lists[h], 1)
    <3>1. 0 \in 0..Len(lists[h]) /\ 0+1 = 1 /\ Place(h, lists[h], 0) = h  BY <2>1 DEF Place
    <3> QED  BY <2>1, <3>1 DEF Thread
  <2>4. CASE Len(lists[h]) = 0
    <3>1. Place(h, lists[h], 1) = NULL  BY <2>4 DEF Place
    <3> QED  BY <2>2, <2>3, <2>4, <3>1 DEF hlist_empty
  <2>5. CASE Len(lists[h]) # 0
    <3>1. 1 \in 1..Len(lists[h])  BY <2>1, <2>5
    <3>2. Place(h, lists[h], 1) # NULL  BY <2>1, <3>1, PlaceFacts
    <3> QED  BY <2>2, <2>3, <2>5, <3>2 DEF hlist_empty
  <2> QED  BY <2>4, <2>5
<1>7. ASSUME NEW h \in Heads, NEW n \in Nodes, hlist_is_singular_node(mem, n, h)
      PROVE  lists[h] = <<n>>
  <2>0. mem.link[n] = NULL /\ mem.pprev[n] = h  BY <1>7 DEF hlist_is_singular_node
  <2>1. state[n] = "hashed"
    <3>1. h # n /\ h # NULL /\ h # LIST_POISON2  BY HlistAssumption
    <3> QED  BY <2>0, <3>1, <1>3 DEF Rested
  <2>2. PICK g \in Heads : \E i \in Entries(g) : lists[g][i] = n  BY <1>2, <2>1
  <2>3. PICK i \in Entries(g) : lists[g][i] = n  BY <2>2
  <2>4. /\ Len(lists[g]) \in Nat /\ i \in 1..Len(lists[g])
        /\ mem.pprev[n] = Place(g, lists[g], i-1) /\ mem.link[n] = Place(g, lists[g], i+1)
    BY <2>3, EntryFacts
  <2>5. Strand(Heads, Nodes, g, lists[g])  BY <1>1, GoodFacts
  <2>6. i = 1
    <3>1. i # 1 => i-1 \in 1..Len(lists[g])  BY <2>4
    <3>2. i # 1 => h \in Nodes  BY <3>1, <2>0, <2>4, <2>5, PlaceFacts
    <3> QED  BY <3>2, HlistAssumption
  <2>7. g = h  BY <2>0, <2>4, <2>6 DEF Place
  <2>8. Len(lists[g]) = 1
    <3>1. Len(lists[g]) # 1 => i+1 \in 1..Len(lists[g])  BY <2>4, <2>6
    <3> QED  BY <3>1, <2>0, <2>4, <2>5, PlaceFacts
  <2>9. lists[h] \in Seq(Nodes) /\ Len(lists[h]) = 1 /\ lists[h][1] = n
    BY <2>3, <2>5, <2>6, <2>7, <2>8 DEF Strand
  <2> QED  BY <2>9
<1>8. ASSUME NEW h \in Heads, NEW n \in Nodes, lists[h] = <<n>>
      PROVE  hlist_is_singular_node(mem, n, h)
  <2>1. 1 \in Entries(h) /\ lists[h][1] = n /\ Len(lists[h]) = 1  BY <1>8 DEF Entries
  <2>2. mem.pprev[n] = Place(h, lists[h], 1-1) /\ mem.link[n] = Place(h, lists[h], 1+1)
    BY <2>1, EntryFacts
  <2>3. Place(h, lists[h], 1-1) = h /\ Place(h, lists[h], 1+1) = NULL  BY <2>1 DEF Place
  <2> QED  BY <2>2, <2>3 DEF hlist_is_singular_node
<1> QED  BY <1>5, <1>6, <1>7, <1>8 DEF TestsAnswerForTheList

\* For any heads and nodes, the tests of list.h that look at one pointer or two
\* answer for the whole list and the whole history of a node (list.h:735-900).
THEOREM HlistTests == Spec => []TestsAnswerForTheList
<1>1. IInv => TestsAnswerForTheList  BY TestsGood
<1> QED  BY <1>1, HlistInvariant, PTL

-----------------------------------------------------------------------------
(* A running loop over a list.                                             *)

ListCells == {TheHead} \cup Items

InLoopOrder(q, fwd) == IF fwd THEN q ELSE Reverse(q)

ListLoops ==
  [op : {"turn", "end"}, fwd : BOOLEAN, safe : BOOLEAN, pos : ListCells \cup {NULL},
   tmp : ListCells \cup {NULL}, pinned : BOOLEAN, fresh : BOOLEAN,
   seen : SUBSET Items, stayed : SUBSET Items, entered : SUBSET Items]

\* Of the entries s, in the order of the loop l, those behind place p are new to it,
\* or came back, and what it must still see is at place j or behind.
Ahead(s, l, p, j) ==
  /\ \A i \in 1..Len(s) : p < i /\ s[i] \in l.seen => s[i] \in l.entered
  /\ \A n \in l.stayed : n \in l.seen \/ \E i \in 1..Len(s) : j <= i /\ s[i] = n

\* The body runs.  The cursor pos is, or was before it left, at place p, and the
\* next one is at place j, unless it is stale.
AtPlaces(s, l, p, j) ==
  /\ p \in 0..Len(s) /\ j \in 1..(Len(s)+1) /\ p < j
  /\ l.pinned => p # 0 /\ s[p] = l.pos
  /\ l.safe /\ l.fresh => l.tmp = At(TheHead, s, j)
  /\ l.safe /\ ~l.fresh => l.pinned /\ l.tmp # l.pos
  /\ ~l.safe => l.pinned
  /\ Ahead(s, l, p, j)

IterOK(s, l) ==
  /\ l \in ListLoops
  /\ l.op = "turn" => \E p, j \in 0..(Len(s)+1) : AtPlaces(s, l, p, j)
  /\ l.op = "end" => l.stayed \subseteq l.seen

Holds(q) ==
  /\ Circle(ListCells, TheHead, q) /\ Ring(links, TheHead, q)
  /\ loop = NoLoop \/ IterOK(InLoopOrder(q, loop.fwd), loop)

IterInv == links \in Memory(ListCells) /\ \E q : Holds(q)


\* A new entry at any place.
LEMMA AddIterOK ==
  ASSUME NEW s, Circle(ListCells, TheHead, s), NEW l, IterOK(s, l), l.op = "turn",
         NEW i \in 1..(Len(s)+1), NEW e \in Items
  PROVE  IterOK(InsertAt(s, i, e), [l EXCEPT !.entered = @ \cup {e}])
<1> DEFINE r == InsertAt(s, i, e)
           a == [l EXCEPT !.entered = @ \cup {e}]
<1>1. l \in ListLoops  BY DEF IterOK
<1>0. a = [l EXCEPT !.entered = @ \cup {e}]  OBVIOUS
<1> HIDE DEF a
<1>2. /\ a \in ListLoops /\ a.op = l.op /\ a.safe = l.safe /\ a.pos = l.pos /\ a.tmp = l.tmp
      /\ a.pinned = l.pinned /\ a.fresh = l.fresh /\ a.seen = l.seen /\ a.stayed = l.stayed
      /\ a.entered = l.entered \cup {e}
  <2>1. PICK y : y = l.entered \cup {e}  OBVIOUS
  <2>2. a = [l EXCEPT !.entered = y]  BY <1>0, <2>1
  <2>3. y \in SUBSET Items  BY <1>1, <2>1 DEF ListLoops
  <2>4. a \in ListLoops  BY <1>1, <2>2, <2>3 DEF ListLoops
  <2>5. /\ a.op = l.op /\ a.safe = l.safe /\ a.pos = l.pos /\ a.tmp = l.tmp
        /\ a.pinned = l.pinned /\ a.fresh = l.fresh /\ a.seen = l.seen /\ a.stayed = l.stayed
        /\ a.entered = y
    BY <1>1, <2>2 DEF ListLoops
  <2> QED  BY <2>1, <2>4, <2>5
<1>3. PICK p, j \in 0..(Len(s)+1) : AtPlaces(s, l, p, j)  BY DEF IterOK
<1>4. p \in 0..Len(s) /\ j \in 1..(Len(s)+1) /\ p < j  BY <1>3 DEF AtPlaces
<1>5. /\ Len(s) \in Nat /\ Len(r) = Len(s) + 1
      /\ \A k \in 1..Len(r) : r[k] = IF k < i THEN s[k] ELSE IF k = i THEN e ELSE s[k-1]
  <2>1. Len(s) \in Nat /\ s \in Seq(ListCells) /\ e \in ListCells
    BY CircleCells DEF Circle, ListCells
  <2> QED  BY <2>1, InsertAtFacts
<1> DEFINE n == Len(s)
<1> HIDE DEF r
<1>6. PICK t : t = n + 1  OBVIOUS
<1>7. PICK u \in 0..t, v \in 1..(t+1) :
        /\ u = IF i <= p THEN p+1 ELSE p
        /\ v = IF i <= j THEN j+1 ELSE j
        /\ u < v
  BY <1>4, <1>5, <1>6
<1>8. Len(r) = t  BY <1>5, <1>6
<1>9. p # 0 => u # 0 /\ r[u] = s[p]
  <2> SUFFICES ASSUME p # 0 PROVE u # 0 /\ r[u] = s[p]  OBVIOUS
  <2>1. CASE i <= p  BY <2>1, <1>4, <1>5, <1>6, <1>7
  <2>2. CASE ~(i <= p)  BY <2>2, <1>4, <1>5, <1>6, <1>7
  <2> QED  BY <2>1, <2>2
<1>10. At(TheHead, r, v) = At(TheHead, s, j)
  <2>1. CASE j \in 1..n
    <3>1. v \in 1..t /\ r[v] = s[j]
      <4>1. CASE i <= j  BY <4>1, <2>1, <1>5, <1>6, <1>7
      <4>2. CASE ~(i <= j)  BY <4>2, <2>1, <1>5, <1>6, <1>7
      <4> QED  BY <4>1, <4>2
    <3> QED  BY <3>1, <2>1, <1>8 DEF At
  <2>2. CASE j \notin 1..n
    <3>1. v \notin 1..t  BY <2>2, <1>4, <1>5, <1>6, <1>7
    <3> QED  BY <3>1, <2>2, <1>8 DEF At
  <2> QED  BY <2>1, <2>2
<1>11. Ahead(r, a, u, v)
  <2>1. Ahead(s, l, p, j)  BY <1>3 DEF AtPlaces
  <2>2. ASSUME NEW k \in 1..Len(r), u < k, r[k] \in l.seen PROVE r[k] \in l.entered \cup {e}
    <3>1. CASE k < i
      <4>1. r[k] = s[k] /\ k \in 1..n /\ p < k  BY <3>1, <2>2, <1>4, <1>5, <1>6, <1>7
      <4> QED  BY <4>1, <2>1, <2>2 DEF Ahead
    <3>2. CASE k = i  BY <3>2, <1>5
    <3>3. CASE i < k
      <4>1. PICK x : x = k-1  OBVIOUS
      <4>2. r[k] = s[x] /\ x \in 1..n /\ p < x  BY <4>1, <3>3, <2>2, <1>4, <1>5, <1>6, <1>7
      <4> QED  BY <4>2, <2>1, <2>2 DEF Ahead
    <3> QED  BY <3>1, <3>2, <3>3, <1>5
  <2>3. ASSUME NEW x \in l.stayed PROVE x \in l.seen \/ \E k \in 1..Len(r) : v <= k /\ r[k] = x
    <3>1. CASE x \in l.seen  BY <3>1
    <3>2. CASE x \notin l.seen
      <4>1. PICK k \in 1..n : j <= k /\ s[k] = x  BY <3>2, <2>1 DEF Ahead
      <4>2. CASE k < i
        <5>1. k \in 1..Len(r) /\ v <= k /\ r[k] = x  BY <4>1, <4>2, <1>4, <1>5, <1>6, <1>7
        <5> QED  BY <5>1
      <4>3. CASE ~(k < i)
        <5>1. PICK y : y = k+1  OBVIOUS
        <5>2. y \in 1..Len(r) /\ v <= y /\ r[y] = x  BY <5>1, <4>1, <4>3, <1>4, <1>5, <1>6, <1>7
        <5> QED  BY <5>2
      <4> QED  BY <4>2, <4>3
    <3> QED  BY <3>1, <3>2
  <2> QED  BY <2>2, <2>3, <1>2 DEF Ahead
<1>12. AtPlaces(r, a, u, v)
  BY <1>2, <1>3, <1>7, <1>8, <1>9, <1>10, <1>11 DEF AtPlaces
<1>13. IterOK(r, a)
  <2>1. u \in 0..(Len(r)+1) /\ v \in 0..(Len(r)+1)  BY <1>5, <1>6, <1>7, <1>8
  <2> QED  BY <2>1, <1>2, <1>12 DEF IterOK
<1> QED  BY <1>13 DEF a, r


\* An entry leaves that a body may take away (MayLeave).
LEMMA LeaveIterOK ==
  ASSUME NEW s, Circle(ListCells, TheHead, s), NEW l, IterOK(s, l), l.op = "turn",
         NEW d \in 1..Len(s), NEW e, e = s[d],
         IF ~l.safe THEN e # l.pos ELSE IF e = l.tmp THEN l.pinned ELSE e = l.pos => l.fresh
  PROVE  IterOK(RemoveAt(s, d), [l EXCEPT !.stayed = @ \ {e}, !.pinned = @ /\ e # l.pos,
                                          !.fresh = @ /\ e # l.tmp])
<1> DEFINE r == RemoveAt(s, d)
           a == [l EXCEPT !.stayed = @ \ {e}, !.pinned = @ /\ e # l.pos, !.fresh = @ /\ e # l.tmp]
           n == Len(s)
<1>1. l \in ListLoops  BY DEF IterOK
<1>2. /\ a \in ListLoops /\ a.op = l.op /\ a.safe = l.safe /\ a.pos = l.pos /\ a.tmp = l.tmp
      /\ a.seen = l.seen /\ a.entered = l.entered /\ a.stayed = l.stayed \ {e}
      /\ a.pinned <=> l.pinned /\ e # l.pos
      /\ a.fresh <=> l.fresh /\ e # l.tmp
  <2>1. PICK x, y, z : /\ x = l.stayed \ {e}
                       /\ y \in BOOLEAN /\ y = (l.pinned /\ e # l.pos)
                       /\ z \in BOOLEAN /\ z = (l.fresh /\ e # l.tmp)
    OBVIOUS
  <2>2. a = [l EXCEPT !.stayed = x, !.pinned = y, !.fresh = z]  BY <2>1
  <2>3. x \in SUBSET Items  BY <1>1, <2>1 DEF ListLoops
  <2>4. a \in ListLoops  BY <1>1, <2>1, <2>2, <2>3 DEF ListLoops
  <2> QED  BY <1>1, <2>1, <2>2, <2>4 DEF ListLoops
<1>3. PICK p, j \in 0..(Len(s)+1) : AtPlaces(s, l, p, j)  BY DEF IterOK
<1>4. p \in 0..n /\ j \in 1..(n+1) /\ p < j  BY <1>3 DEF AtPlaces
<1>5. /\ n \in Nat /\ Len(r) = n - 1
      /\ \A k \in 1..Len(r) : r[k] = IF k < d THEN s[k] ELSE s[k+1]
  BY CircleCells, RemoveAtFacts DEF Circle
<1>6. \A i, k \in 1..n : s[i] = s[k] => i = k  BY DEF Circle
<1> HIDE DEF a, r, n
<1>7. PICK t \in Nat : t = n - 1 /\ n = t + 1 /\ Len(r) = t /\ d \in 1..n  BY <1>5 DEF n
<1>8. PICK u \in 0..t, v \in 1..(t+1) :
        /\ u = IF d <= p THEN p-1 ELSE p
        /\ v = IF d < j THEN j-1 ELSE j
        /\ u < v
  BY <1>4, <1>7
<1>9. p # 0 /\ p # d => u # 0 /\ r[u] = s[p]
  <2> SUFFICES ASSUME p # 0, p # d PROVE u # 0 /\ r[u] = s[p]  OBVIOUS
  <2>1. CASE d <= p
    <3>1. u \in 1..t /\ u + 1 = p /\ ~(u < d)  BY <2>1, <1>4, <1>7, <1>8
    <3> QED  BY <3>1, <1>5, <1>7
  <2>2. CASE ~(d <= p)
    <3>1. u = p /\ u \in 1..t /\ u < d  BY <2>2, <1>4, <1>7, <1>8
    <3> QED  BY <3>1, <1>5, <1>7
  <2> QED  BY <2>1, <2>2
<1>10. j # d => At(TheHead, r, v) = At(TheHead, s, j)
  <2> SUFFICES ASSUME j # d PROVE At(TheHead, r, v) = At(TheHead, s, j)  OBVIOUS
  <2>1. CASE j \in 1..n
    <3>1. v \in 1..t /\ r[v] = s[j]
      <4>1. CASE d < j
        <5>1. v \in 1..t /\ v + 1 = j /\ ~(v < d)  BY <4>1, <2>1, <1>7, <1>8
        <5> QED  BY <5>1, <1>5, <1>7
      <4>2. CASE ~(d < j)
        <5>1. v = j /\ v \in 1..t /\ v < d  BY <4>2, <2>1, <1>7, <1>8
        <5> QED  BY <5>1, <1>5, <1>7
      <4> QED  BY <4>1, <4>2
    <3> QED  BY <3>1, <2>1, <1>7 DEF At, n
  <2>2. CASE j \notin 1..n
    <3>1. v \notin 1..t  BY <2>2, <1>4, <1>7, <1>8
    <3> QED  BY <3>1, <2>2, <1>7 DEF At, n
  <2> QED  BY <2>1, <2>2
<1>11. Ahead(r, a, u, v)
  <2>1. Ahead(s, l, p, j)  BY <1>3 DEF AtPlaces
  <2>2. ASSUME NEW k \in 1..Len(r), u < k, r[k] \in l.seen PROVE r[k] \in l.entered
    <3>1. CASE k < d
      <4>1. r[k] = s[k] /\ k \in 1..n /\ p < k  BY <3>1, <2>2, <1>4, <1>5, <1>7, <1>8
      <4> QED  BY <4>1, <2>1, <2>2 DEF Ahead, n
    <3>2. CASE ~(k < d)
      <4>1. PICK x : x = k+1  OBVIOUS
      <4>2. r[k] = s[x] /\ x \in 1..n /\ p < x  BY <4>1, <3>2, <2>2, <1>4, <1>5, <1>7, <1>8
      <4> QED  BY <4>2, <2>1, <2>2 DEF Ahead, n
    <3> QED  BY <3>1, <3>2
  <2>3. ASSUME NEW x \in l.stayed \ {e} PROVE x \in l.seen \/ \E k \in 1..Len(r) : v <= k /\ r[k] = x
    <3>1. CASE x \in l.seen  BY <3>1
    <3>2. CASE x \notin l.seen
      <4>1. PICK k \in 1..n : j <= k /\ s[k] = x  BY <3>2, <2>1 DEF Ahead, n
      <4>2. k # d  BY <4>1
      <4>3. CASE k < d
        <5>1. k \in 1..Len(r) /\ v <= k /\ r[k] = x  BY <4>1, <4>3, <1>4, <1>5, <1>7, <1>8
        <5> QED  BY <5>1
      <4>4. CASE d < k
        <5>1. PICK y : y = k-1  OBVIOUS
        <5>2. y \in 1..Len(r) /\ v <= y /\ y + 1 = k /\ ~(y < d)
          BY <5>1, <4>1, <4>4, <1>4, <1>7, <1>8
        <5>3. r[y] = x  BY <5>2, <4>1, <1>5
        <5> QED  BY <5>2, <5>3
      <4> QED  BY <4>2, <4>3, <4>4, <1>7
    <3> QED  BY <3>1, <3>2
  <2> QED  BY <2>2, <2>3, <1>2 DEF Ahead
<1>12. a.pinned => u # 0 /\ r[u] = a.pos
  <2> SUFFICES ASSUME a.pinned PROVE u # 0 /\ r[u] = a.pos  OBVIOUS
  <2>1. p # 0 /\ s[p] = l.pos /\ e # l.pos  BY <1>2, <1>3 DEF AtPlaces
  <2> QED  BY <2>1, <1>2, <1>9
<1>13. l.safe /\ l.fresh => (e = l.tmp <=> j = d)
  <2> SUFFICES ASSUME l.safe, l.fresh PROVE e = l.tmp <=> j = d  OBVIOUS
  <2>1. l.tmp = At(TheHead, s, j)  BY <1>3 DEF AtPlaces
  <2>2. e # TheHead  BY DEF Circle
  <2> QED  BY <2>1, <2>2, <1>6, <1>7 DEF At, n
<1>14. a.safe /\ a.fresh => a.tmp = At(TheHead, r, v)
  <2> SUFFICES ASSUME a.safe, a.fresh PROVE a.tmp = At(TheHead, r, v)  OBVIOUS
  <2>1. l.tmp = At(TheHead, s, j) /\ j # d  BY <1>2, <1>3, <1>13 DEF AtPlaces
  <2> QED  BY <2>1, <1>2, <1>10
<1>15. a.safe /\ ~a.fresh => a.pinned /\ a.tmp # a.pos
  <2> SUFFICES ASSUME l.safe, ~a.fresh PROVE l.pinned /\ e # l.pos /\ l.tmp # l.pos  BY <1>2
  <2>1. CASE l.fresh
    <3>1. e = l.tmp /\ l.pinned  BY <2>1, <1>2
    <3>2. s[p] = l.pos /\ p # 0 /\ j = d /\ s[d] = e  BY <2>1, <3>1, <1>3, <1>13 DEF AtPlaces
    <3>3. p \in 1..n /\ p # d  BY <3>2, <1>4, <1>7
    <3> QED  BY <3>1, <3>2, <3>3, <1>6, <1>7
  <2>2. CASE ~l.fresh
    <3>1. l.pinned /\ l.tmp # l.pos  BY <2>2, <1>3 DEF AtPlaces
    <3> QED  BY <3>1, <2>2
  <2> QED  BY <2>1, <2>2
<1>16. ~a.safe => a.pinned  BY <1>2, <1>3 DEF AtPlaces
<1>17. AtPlaces(r, a, u, v)
  BY <1>7, <1>8, <1>11, <1>12, <1>14, <1>15, <1>16 DEF AtPlaces
<1>18. IterOK(r, a)
  <2>1. u \in 0..(Len(r)+1) /\ v \in 0..(Len(r)+1)  BY <1>7, <1>8
  <2> QED  BY <2>1, <1>2, <1>17 DEF IterOK
<1> QED  BY <1>18 DEF a, r


-----------------------------------------------------------------------------
(* What a loop arrives at.                                                 *)

\* The links that a loop of that direction follows run through the entries s.
Ordered(s, q, fwd) ==
  /\ Circle(ListCells, TheHead, s) /\ Len(s) = Len(q) /\ Len(s) \in Nat
  /\ \A i \in 0..Len(s) : Neighbour(At(TheHead, s, i), fwd) = At(TheHead, s, i+1)
  /\ \A x : (\E i \in 1..Len(s) : s[i] = x) <=> (\E i \in 1..Len(q) : q[i] = x)

\* The list in the order of a loop, forwards or backwards (list.h:529-553).
LEMMA OrderFacts ==
  ASSUME NEW q, Circle(ListCells, TheHead, q), Ring(links, TheHead, q), NEW fwd \in BOOLEAN
  PROVE  Ordered(InLoopOrder(q, fwd), q, fwd)
<1>0. Len(q) \in Nat  BY CircleCells
<1>1. CASE fwd
  <2>1. InLoopOrder(q, fwd) = q  BY <1>1 DEF InLoopOrder
  <2>2. \A i \in 0..Len(q) : Neighbour(At(TheHead, q, i), fwd) = At(TheHead, q, i+1)
    BY <1>1 DEF Ring, Neighbour
  <2> QED  BY <1>0, <2>1, <2>2 DEF Ordered
<1>2. CASE ~fwd
  <2>1. InLoopOrder(q, fwd) = Reverse(q)  BY <1>2 DEF InLoopOrder
  <2>2. Circle(ListCells, TheHead, Reverse(q)) /\ Len(Reverse(q)) = Len(q)  BY ReverseFacts
  <2>3. \A i \in 0..Len(q) :
          Neighbour(At(TheHead, Reverse(q), i), fwd) = At(TheHead, Reverse(q), i+1)
    BY <1>2, ReverseRing DEF Neighbour
  <2>4. \A i \in 1..Len(q) : Reverse(q)[i] = q[(Len(q) - i) + 1]
    BY <1>0 DEF Reverse
  <2>5. \A i \in 1..Len(q) : \E k \in 1..Len(q) : k = (Len(q) - i) + 1 /\ i = (Len(q) - k) + 1
    BY <1>0
  <2>6. \A x : (\E i \in 1..Len(q) : Reverse(q)[i] = x) <=> (\E i \in 1..Len(q) : q[i] = x)
    <3>1. ASSUME NEW i \in 1..Len(q)
          PROVE  (\E k \in 1..Len(q) : q[k] = Reverse(q)[i]) /\ (\E k \in 1..Len(q) : Reverse(q)[k] = q[i])
      <4>1. PICK k \in 1..Len(q) : k = (Len(q) - i) + 1 /\ i = (Len(q) - k) + 1  BY <2>5
      <4>2. Reverse(q)[i] = q[k] /\ Reverse(q)[k] = q[i]  BY <2>4, <4>1
      <4> QED  BY <4>2
    <3>2. ASSUME NEW x
          PROVE  (\E i \in 1..Len(q) : Reverse(q)[i] = x) <=> (\E i \in 1..Len(q) : q[i] = x)
      BY <3>1
    <3> QED  BY <3>2
  <2> QED  BY <1>0, <2>1, <2>2, <2>3, <2>6 DEF Ordered
<1> QED  BY <1>1, <1>2

\* The assignments and the test at the top of a loop, at place k.
LEMMA ArriveIterOK ==
  ASSUME NEW q, Circle(ListCells, TheHead, q), Ring(links, TheHead, q), NEW l \in ListLoops,
         NEW k \in 1..(Len(q)+1), NEW s, s = InLoopOrder(q, l.fwd),
         \A i \in 1..Len(s) : k <= i /\ s[i] \in l.seen => s[i] \in l.entered,
         \A n \in l.stayed : n \in l.seen \/ \E i \in 1..Len(s) : k <= i /\ s[i] = n,
         NEW a, a = Arrive(l, At(TheHead, s, k))
  PROVE  /\ IterOK(s, a) /\ a.fwd = l.fwd
         /\ a.op = "turn" => /\ \E i \in 1..Len(q) : q[i] = a.pos
                             /\ a.pos \in l.seen => a.pos \in l.entered
<1> DEFINE pos == At(TheHead, s, k)
<1>1. l.fwd \in BOOLEAN /\ l.safe \in BOOLEAN /\ l.seen \subseteq Items  BY DEF ListLoops
<1>2. /\ Circle(ListCells, TheHead, s) /\ Len(s) = Len(q) /\ Len(s) \in Nat
      /\ \A i \in 0..Len(s) : Neighbour(At(TheHead, s, i), l.fwd) = At(TheHead, s, i+1)
      /\ \A x : (\E i \in 1..Len(s) : s[i] = x) <=> (\E i \in 1..Len(q) : q[i] = x)
  <2>1. PICK f : f = l.fwd  OBVIOUS
  <2>2. f \in BOOLEAN /\ s = InLoopOrder(q, f)  BY <1>1, <2>1
  <2>3. Ordered(s, q, f)  BY <2>2, OrderFacts
  <2> QED  BY <2>1, <2>3 DEF Ordered
<1>3. CASE k \in 1..Len(s)
  <2>1. pos = s[k] /\ pos \in Items /\ pos # TheHead  BY <1>2, <1>3, CircleCells DEF ListCells
  <2>2. PICK y : y = At(TheHead, s, k+1)  OBVIOUS
  <2>3. Neighbour(pos, l.fwd) = y /\ y \in ListCells
    BY <1>2, <1>3, <2>2, CircleCells
  <2>4. PICK x, t : x = l.seen \cup {pos} /\ t = (IF l.safe THEN y ELSE NULL)  OBVIOUS
  <2>5. x \in SUBSET Items  BY <1>1, <2>1, <2>4
  <2>6. t \in ListCells \cup {NULL}  BY <2>3, <2>4
  <2>7. a = [l EXCEPT !.op = "turn", !.pos = pos, !.pinned = TRUE, !.fresh = TRUE,
                      !.tmp = t, !.seen = x]
    BY <2>1, <2>3, <2>4 DEF Arrive
  <2> HIDE DEF pos
  <2>8. a \in ListLoops
    <3>1. a = [op |-> "turn", fwd |-> l.fwd, safe |-> l.safe, pos |-> pos, tmp |-> t,
               pinned |-> TRUE, fresh |-> TRUE, seen |-> x,
               stayed |-> l.stayed, entered |-> l.entered]
      BY <2>7 DEF ListLoops
    <3>2. l.stayed \in SUBSET Items /\ l.entered \in SUBSET Items  BY DEF ListLoops
    <3>3. pos \in ListCells \cup {NULL}  BY <2>1 DEF ListCells
    <3> QED  BY <1>1, <2>5, <2>6, <3>1, <3>2, <3>3 DEF ListLoops
  <2>9. /\ a.op = "turn" /\ a.fwd = l.fwd /\ a.safe = l.safe /\ a.pos = pos /\ a.tmp = t
        /\ a.pinned = TRUE /\ a.fresh = TRUE /\ a.seen = x /\ a.stayed = l.stayed
        /\ a.entered = l.entered
    BY <2>7 DEF ListLoops
  <2>10. PICK j : j = k + 1  OBVIOUS
  <2>11. Ahead(s, a, k, j)
    <3>1. ASSUME NEW i \in 1..Len(s), k < i, s[i] \in x PROVE s[i] \in l.entered
      <4>1. s[i] # s[k]  BY <1>2, <1>3, <3>1 DEF Circle
      <4>2. s[i] \in l.seen  BY <2>1, <2>4, <3>1, <4>1
      <4>3. k <= i  BY <3>1, <1>2
      <4> QED  BY <4>2, <4>3
    <3>2. ASSUME NEW n \in l.stayed PROVE n \in x \/ \E i \in 1..Len(s) : j <= i /\ s[i] = n
      <4>1. CASE n \in l.seen  BY <4>1, <2>4
      <4>2. CASE n \notin l.seen
        <5>1. PICK i \in 1..Len(s) : k <= i /\ s[i] = n  BY <4>2
        <5>2. i = k \/ j <= i  BY <5>1, <2>10, <1>2
        <5> QED  BY <5>1, <5>2, <2>1, <2>4
      <4> QED  BY <4>1, <4>2
    <3> QED  BY <2>9, <3>1, <3>2 DEF Ahead
  <2>12. k # 0 /\ k \in 0..Len(s) /\ j \in 1..(Len(s)+1) /\ k < j
         /\ k \in 0..(Len(s)+1) /\ j \in 0..(Len(s)+1)
    BY <1>2, <1>3, <2>10
  <2>13. l.safe => t = At(TheHead, s, j)  BY <2>2, <2>4, <2>10
  <2>14. AtPlaces(s, a, k, j)
    BY <2>1, <2>9, <2>11, <2>12, <2>13 DEF AtPlaces
  <2>15. IterOK(s, a)  BY <2>8, <2>9, <2>12, <2>14 DEF IterOK
  <2>16. pos \in l.seen => pos \in l.entered  BY <1>2, <1>3, <2>1
  <2>17. \E i \in 1..Len(q) : q[i] = pos  BY <1>2, <1>3, <2>1
  <2> QED  BY <2>9, <2>15, <2>16, <2>17
<1>4. CASE k \notin 1..Len(s)
  <2>1. pos = TheHead  BY <1>4 DEF At
  <2>2. a = [l EXCEPT !.op = "end", !.pos = NULL, !.tmp = NULL]  BY <2>1 DEF Arrive
  <2>3. a \in ListLoops  BY <2>2 DEF ListLoops
  <2>4. a.op = "end" /\ a.fwd = l.fwd /\ a.seen = l.seen /\ a.stayed = l.stayed
    BY <2>2 DEF ListLoops
  <2>5. \A i \in 1..Len(s) : ~(k <= i)  BY <1>2, <1>4
  <2>6. a.stayed \subseteq a.seen  BY <2>4, <2>5
  <2>7. IterOK(s, a)  BY <2>3, <2>4, <2>6 DEF IterOK
  <2> QED  BY <2>4, <2>7
<1> QED  BY <1>3, <1>4


-----------------------------------------------------------------------------
(* What an entry that comes or goes is in the order of a loop.             *)

\* Entry by entry, a list backwards.
LEMMA ReverseEntries ==
  ASSUME NEW S, NEW q \in Seq(S)
  PROVE  /\ Reverse(q) \in Seq(S) /\ Len(Reverse(q)) = Len(q) /\ Len(q) \in Nat
         /\ \A i \in 1..Len(q) : Reverse(q)[i] = q[(Len(q) - i) + 1]
<1>1. Len(q) \in Nat /\ \A i \in 1..Len(q) : q[i] \in S  BY LenProperties, ElementOfSeq
<1> DEFINE n == Len(q)
           r == Reverse(q)
<1>2. r = [i \in 1..n |-> q[(n - i) + 1]]  BY DEF Reverse
<1> HIDE DEF r, n
<1>3. n \in Nat /\ \A i \in 1..n : (n - i) + 1 \in 1..n /\ q[(n - i) + 1] \in S
  <2>1. \A i \in 1..n : (n - i) + 1 \in 1..n  BY <1>1 DEF n
  <2> QED  BY <1>1, <2>1 DEF n
<1>4. r \in [1..n -> S]  BY <1>2, <1>3
<1>5. r \in Seq(S) /\ Len(r) = n  BY <1>3, <1>4
<1> QED  BY <1>2, <1>3, <1>5 DEF r, n

\* b is the sequence s with e at place k, and its length is t.
Inserted(b, S, s, t, k, e) ==
  /\ b \in Seq(S) /\ Len(b) = t
  /\ \A x \in 1..t : b[x] = IF x < k THEN s[x] ELSE IF x = k THEN e ELSE s[x-1]

LEMMA InsertEntries ==
  ASSUME NEW S, NEW q \in Seq(S), NEW t, t = Len(q) + 1, NEW i \in 1..t, NEW e \in S
  PROVE  Inserted(InsertAt(q, i, e), S, q, t, i, e)
BY InsertAtFacts DEF Inserted

\* Where an entry comes in the order of a loop, when it is added to the list.
LEMMA OrderAdd ==
  ASSUME NEW S, NEW q \in Seq(S), NEW fwd \in BOOLEAN, NEW i \in 1..(Len(q)+1), NEW e \in S
  PROVE  \E k \in 1..(Len(q)+1) :
           InLoopOrder(InsertAt(q, i, e), fwd) = InsertAt(InLoopOrder(q, fwd), k, e)
<1>1. CASE fwd  BY <1>1 DEF InLoopOrder
<1>2. CASE ~fwd
  <2> DEFINE r == InsertAt(q, i, e)
             s == Reverse(q)
             n == Len(q)
             a == Reverse(r)
  <2>1. /\ r \in Seq(S) /\ Len(r) = n + 1 /\ n \in Nat /\ i \in 1..(n+1)
        /\ \A x \in 1..(n+1) : r[x] = IF x < i THEN q[x] ELSE IF x = i THEN e ELSE q[x-1]
    <3>1. PICK t : t = Len(q) + 1  OBVIOUS
    <3>2. i \in 1..t /\ n \in Nat  BY <3>1, LenProperties
    <3>3. Inserted(r, S, q, t, i, e)  BY <3>1, <3>2, InsertEntries
    <3> HIDE DEF r
    <3> QED  BY <3>1, <3>2, <3>3 DEF Inserted
  <2>2. s \in Seq(S) /\ Len(s) = n /\ \A x \in 1..n : s[x] = q[(n - x) + 1]
    BY ReverseEntries
  <2> HIDE DEF r
  <2>3. a \in Seq(S) /\ Len(a) = n + 1 /\ \A x \in 1..(n+1) : a[x] = r[((n + 1) - x) + 1]
    BY <2>1, ReverseEntries
  <2> HIDE DEF s, n, a
  <2>4. PICK k \in 1..(n+1) : k = (n + 2) - i  BY <2>1
  <2> DEFINE b == InsertAt(s, k, e)
  <2>5. /\ b \in Seq(S) /\ Len(b) = n + 1
        /\ \A x \in 1..(n+1) : b[x] = IF x < k THEN s[x] ELSE IF x = k THEN e ELSE s[x-1]
    <3>1. PICK t : t = Len(s) + 1  OBVIOUS
    <3>2. t = n + 1 /\ k \in 1..t  BY <2>2, <2>4, <3>1
    <3>3. s \in Seq(S)  BY <2>2
    <3>4. Inserted(InsertAt(s, k, e), S, s, t, k, e)  BY <3>1, <3>2, <3>3, InsertEntries
    <3> QED  BY <3>2, <3>4 DEF Inserted
  <2> HIDE DEF b
  <2>6. ASSUME NEW x \in 1..(n+1) PROVE a[x] = b[x]
    <3>1. PICK y \in 1..(n+1) : y = ((n + 1) - x) + 1  BY <2>1
    <3>2. a[x] = r[y]  BY <2>3, <3>1
    <3>3. CASE x < k
      <4>1. ~(y < i) /\ y # i /\ y-1 = (n - x) + 1 /\ x \in 1..n  BY <3>1, <3>3, <2>1, <2>4
      <4>2. r[y] = q[y-1]  BY <4>1, <2>1
      <4>3. s[x] = q[(n - x) + 1]  BY <4>1, <2>2
      <4>4. b[x] = s[x]  BY <3>3, <2>5
      <4>5. q[y-1] = q[(n - x) + 1]  BY <4>1
      <4> QED  BY <3>2, <4>2, <4>3, <4>4, <4>5
    <3>4. CASE x = k
      <4>1. ~(y < i) /\ y = i /\ ~(x < k)  BY <3>1, <3>4, <2>1, <2>4
      <4> QED  BY <3>2, <3>4, <4>1, <2>1, <2>5
    <3>5. CASE x > k
      <4>1. PICK z \in 1..n : z = x-1  BY <3>5, <2>1, <2>4
      <4>2. y < i /\ y = (n - z) + 1 /\ ~(x < k) /\ x # k  BY <3>1, <3>5, <4>1, <2>1, <2>4
      <4>3. r[y] = q[y]  BY <4>2, <2>1
      <4>4. b[x] = s[z]  BY <4>1, <4>2, <2>5
      <4>5. s[z] = q[y]  BY <4>2, <2>2
      <4> QED  BY <3>2, <4>3, <4>4, <4>5
    <3> QED  BY <3>3, <3>4, <3>5, <2>1, <2>4
  <2>7. a = b  BY <2>3, <2>5, <2>6, SeqEqual
  <2> QED  BY <1>2, <2>4, <2>7 DEF InLoopOrder, a, b, r, s, n
<1> QED  BY <1>1, <1>2

\* And what is left of that order without it.
LEMMA OrderRemove ==
  ASSUME NEW S, NEW q \in Seq(S), NEW fwd \in BOOLEAN, NEW d \in 1..Len(q)
  PROVE  \E k \in 1..Len(q) : /\ InLoopOrder(q, fwd)[k] = q[d]
                              /\ InLoopOrder(RemoveAt(q, d), fwd) = RemoveAt(InLoopOrder(q, fwd), k)
<1>1. CASE fwd  BY <1>1 DEF InLoopOrder
<1>2. CASE ~fwd
  <2> DEFINE r == RemoveAt(q, d)
             s == Reverse(q)
             n == Len(q)
             a == Reverse(r)
  <2>1. /\ r \in Seq(S) /\ Len(r) = n - 1 /\ n \in Nat /\ d \in 1..n
        /\ \A x \in 1..(n-1) : r[x] = IF x < d THEN q[x] ELSE q[x+1]
    BY RemoveAtFacts, LenProperties
  <2>2. s \in Seq(S) /\ Len(s) = n /\ \A x \in 1..n : s[x] = q[(n - x) + 1]
    BY ReverseEntries
  <2> HIDE DEF r
  <2>3. a \in Seq(S) /\ Len(a) = n - 1 /\ \A x \in 1..(n-1) : a[x] = r[((n - 1) - x) + 1]
    <3>1. a \in Seq(S) /\ Len(a) = Len(r) /\ \A x \in 1..Len(r) : a[x] = r[(Len(r) - x) + 1]
      BY <2>1, ReverseEntries
    <3> HIDE DEF a, n
    <3> QED  BY <2>1, <3>1
  <2> HIDE DEF s, n, a
  <2>4. PICK k \in 1..n : k = (n - d) + 1 /\ d = (n - k) + 1  BY <2>1
  <2> DEFINE b == RemoveAt(s, k)
  <2>5. /\ b \in Seq(S) /\ Len(b) = n - 1
        /\ \A x \in 1..(n-1) : b[x] = IF x < k THEN s[x] ELSE s[x+1]
    <3>1. k \in 1..Len(s) /\ s \in Seq(S)  BY <2>2, <2>4
    <3>2. /\ b \in Seq(S) /\ Len(b) = Len(s) - 1
          /\ \A x \in 1..Len(b) : b[x] = IF x < k THEN s[x] ELSE s[x+1]
      BY <3>1, RemoveAtFacts
    <3> QED  BY <3>2, <2>2
  <2> HIDE DEF b
  <2>6. ASSUME NEW x \in 1..(n-1) PROVE a[x] = b[x]
    <3>1. PICK y \in 1..(n-1) : y = ((n - 1) - x) + 1  BY <2>1
    <3>2. a[x] = r[y]  BY <2>3, <3>1
    <3>3. CASE x < k
      <4>1. ~(y < d) /\ y+1 = (n - x) + 1 /\ x \in 1..n  BY <3>1, <3>3, <2>1, <2>4
      <4> QED  BY <3>2, <3>3, <4>1, <2>1, <2>2, <2>5
    <3>4. CASE ~(x < k)
      <4>1. PICK z \in 1..n : z = x+1  BY <2>1
      <4>2. y < d /\ y = (n - z) + 1  BY <3>1, <3>4, <4>1, <2>1, <2>4
      <4>3. r[y] = q[y]  BY <4>2, <2>1
      <4>4. b[x] = s[z]  BY <4>1, <3>4, <2>5
      <4>5. s[z] = q[y]  BY <4>2, <2>2
      <4> QED  BY <3>2, <4>3, <4>4, <4>5
    <3> QED  BY <3>3, <3>4
  <2>7. a = b  BY <2>3, <2>5, <2>6, SeqEqual
  <2>8. s[k] = q[d]  BY <2>2, <2>4
  <2> QED  BY <1>2, <2>4, <2>7, <2>8 DEF InLoopOrder, a, b, r, s, n
<1> QED  BY <1>1, <1>2


-----------------------------------------------------------------------------
(* What a call of a body does to the list.                                 *)

\* An entry that is put between two neighbours (list.h:70-105).
LEMMA PutIn ==
  ASSUME NEW m \in Memory(ListCells), NEW q, Circle(ListCells, TheHead, q), Ring(m, TheHead, q),
         TheHead \notin Items, NEW node \in Items, \A k \in 1..Len(q) : q[k] # node,
         NEW i \in 1..(Len(q)+1),
         NEW r, r = __list_add(m, node, At(TheHead, q, i-1), At(TheHead, q, i))
  PROVE  /\ r \in Memory(ListCells) /\ Circle(ListCells, TheHead, InsertAt(q, i, node))
         /\ Ring(r, TheHead, InsertAt(q, i, node))
<1>1. node \in ListCells \ {TheHead}  BY DEF ListCells
<1>2. Circle(ListCells, TheHead, InsertAt(q, i, node)) /\ Ring(r, TheHead, InsertAt(q, i, node))
  BY <1>1, CircleAdd
<1>3. PICK p, t : p = At(TheHead, q, i-1) /\ t = At(TheHead, q, i)  OBVIOUS
<1>4. p \in ListCells /\ t \in ListCells  BY <1>3, CircleCells
<1>5. r \in Memory(ListCells)
  <2>1. r = __list_add(m, node, p, t)  BY <1>3
  <2> QED  BY <2>1, <1>1, <1>4 DEF __list_add, SetNext, SetPrev, Memory
<1> QED  BY <1>2, <1>5

\* An entry that is taken out, with its pointers left or poisoned (list.h:114-150).
LEMMA TakenOut ==
  ASSUME NEW m \in Memory(ListCells), NEW q, Circle(ListCells, TheHead, q), Ring(m, TheHead, q),
         NEW d \in 1..Len(q), NEW e, e = q[d], NEW s, s = RemoveAt(q, d)
  PROVE  /\ Circle(ListCells, TheHead, s)
         /\ __list_del_entry(m, e) \in Memory(ListCells) /\ Ring(__list_del_entry(m, e), TheHead, s)
         /\ list_del(m, e) \in Memory(ListCells) /\ Ring(list_del(m, e), TheHead, s)
         /\ \A k \in 1..Len(s) : s[k] # e
<1> DEFINE a == __list_del_entry(m, e)
           b == list_del(m, e)
<1>1. /\ Circle(ListCells, TheHead, s) /\ Ring(a, TheHead, s)
      /\ a = __list_del(m, At(TheHead, q, d-1), At(TheHead, q, d+1))
  BY CircleDel
<1>2. e \in ListCells /\ e # TheHead /\ Len(q) \in Nat  BY CircleCells
<1>3. a \in Memory(ListCells)
  <2>1. PICK p, t : p = At(TheHead, q, d-1) /\ t = At(TheHead, q, d+1)  OBVIOUS
  <2>2. p \in ListCells /\ t \in ListCells /\ a = __list_del(m, p, t)  BY <1>1, <2>1, CircleCells
  <2> HIDE DEF a
  <2> QED  BY <2>2 DEF __list_del, SetNext, SetPrev, Memory
<1>4. /\ b \in Memory(ListCells)
      /\ \A x \in ListCells \ {e} : SameCell(a, b, x)
  <2>1. b = SetPrev(SetNext(a, e, LIST_POISON1), e, LIST_POISON2)  BY DEF list_del
  <2> HIDE DEF a, b
  <2> QED  BY <2>1, <1>2, <1>3 DEF SetNext, SetPrev, Memory, SameCell
<1>5. ASSUME NEW k \in 1..Len(s) PROVE s[k] # e
  <2>1. q \in Seq(ListCells)  BY DEF Circle
  <2>2. Len(s) = Len(q) - 1 /\ s[k] = IF k < d THEN q[k] ELSE q[k+1]
    BY <2>1, RemoveAtFacts
  <2>3. CASE k < d
    <3>1. k \in 1..Len(q) /\ k # d  BY <2>2, <2>3, <1>2
    <3> QED  BY <3>1, <2>2, <2>3 DEF Circle
  <2>4. CASE ~(k < d)
    <3>1. PICK x : x = k+1  OBVIOUS
    <3>2. x \in 1..Len(q) /\ x # d  BY <2>2, <2>4, <3>1, <1>2
    <3> QED  BY <3>1, <3>2, <2>2, <2>4 DEF Circle
  <2> QED  BY <2>3, <2>4
<1>6. Ring(b, TheHead, s)
  <2>1. \A x \in Around(TheHead, s) : x \in ListCells \ {e}
    <3>1. \A k \in 1..Len(s) : s[k] \in ListCells  BY <1>1, CircleCells
    <3> QED  BY <3>1, <1>2, <1>5 DEF Around, ListCells
  <2> HIDE DEF a, b
  <2> QED  BY <2>1, <1>1, <1>4, CircleLeftAlone
<1> QED  BY <1>1, <1>3, <1>4, <1>5, <1>6

\* A loop over the list finds its entries.
LEMMA InOrderFacts ==
  ASSUME links \in Memory(ListCells), NEW q, Circle(ListCells, TheHead, q),
         Ring(links, TheHead, q)
  PROVE  /\ \A fwd \in BOOLEAN : InOrder(fwd) = InLoopOrder(q, fwd)
         /\ OnTheList = {q[i] : i \in 1..Len(q)}
         /\ Cardinality(OnTheList) = Len(q)
<1>1. IsFiniteSet(ListCells)
  BY FS_Singleton, FS_Union, ListIterAssumption DEF ListCells
<1>2. DOMAIN links.next = ListCells /\ DOMAIN links.prev = ListCells  BY DEF Memory
<1>3. list_for_each(links, TheHead) = q /\ list_for_each_prev(links, TheHead) = Reverse(q)
  BY <1>1, <1>2, CircleLoops
<1>5. \A fwd \in BOOLEAN : InOrder(fwd) = InLoopOrder(q, fwd)
  BY <1>3 DEF InOrder, InLoopOrder
<1>6. OnTheList = {q[i] : i \in 1..Len(q)}
  <2>1. DOMAIN q = 1..Len(q)  BY DEF Circle
  <2> QED  BY <1>3, <2>1 DEF OnTheList, InOrder, ToSet
<1>7. Cardinality(OnTheList) = Len(q)
  <2>1. Len(q) \in Nat  BY CircleCells
  <2> DEFINE n == Len(q)
             f == [i \in 1..n |-> q[i]]
  <2>2. f \in [1..n -> OnTheList] /\ \A y \in OnTheList : \E i \in 1..n : f[i] = y
    BY <1>6
  <2>3. \A i, k \in 1..n : f[i] = f[k] => i = k  BY DEF Circle
  <2> HIDE DEF f
  <2>4. ExistsBijection(1..n, OnTheList)
    BY <2>2, <2>3 DEF ExistsBijection, Bijection, Injection, Surjection, IsInjective
  <2>5. IsFiniteSet(1..n) /\ Cardinality(1..n) = n
    <3>1. PICK a \in Int, b \in Int : a = 1 /\ b = n  BY <2>1
    <3>2. IsFiniteSet(a..b) /\ Cardinality(a..b) = IF a > b THEN 0 ELSE b - a + 1
      BY FS_Interval
    <3> HIDE DEF n
    <3>3. n \in Nat  BY <2>1 DEF n
    <3> QED  BY <3>1, <3>2, <3>3
  <2> QED  BY <2>4, <2>5, FS_Bijection
<1> QED  BY <1>5, <1>6, <1>7


-----------------------------------------------------------------------------
(* The steps of ListIter.                                                  *)

LEMMA ListStepKept ==
  ASSUME links' \in Memory(ListCells), NEW r, Circle(ListCells, TheHead, r), Ring(links', TheHead, r),
         loop' = NoLoop \/ IterOK(InLoopOrder(r, loop'.fwd), loop')
  PROVE  IterInv'
<1>1. (NoLoop)' = NoLoop  BY DEF NoLoop
<1>2. Holds(r)'  BY <1>1 DEF Holds
<1> QED  BY <1>2 DEF IterInv

\* What the loop that runs, if there is one, knows.
LEMMA ListRunning ==
  ASSUME NEW q, Holds(q), Callable
  PROVE  loop # NoLoop => /\ loop \in ListLoops /\ loop.op = "turn" /\ loop.fwd \in BOOLEAN
                               /\ IterOK(InLoopOrder(q, loop.fwd), loop)
<1> SUFFICES ASSUME loop # NoLoop
             PROVE  /\ loop \in ListLoops /\ loop.op = "turn" /\ loop.fwd \in BOOLEAN
                    /\ IterOK(InLoopOrder(q, loop.fwd), loop)
  OBVIOUS
<1>1. IterOK(InLoopOrder(q, loop.fwd), loop)  BY DEF Holds
<1>2. loop \in ListLoops  BY <1>1 DEF IterOK
<1> QED  BY <1>1, <1>2 DEF ListLoops, Callable

\* A loop knows of an entry that came, wherever it came to.
LEMMA EnteredOK ==
  ASSUME NEW q, Circle(ListCells, TheHead, q), NEW l, l.fwd \in BOOLEAN, l.op = "turn",
         IterOK(InLoopOrder(q, l.fwd), l), NEW i \in 1..(Len(q)+1), NEW e \in Items,
         NEW a, a = Entered(l, e)
  PROVE  IterOK(InLoopOrder(InsertAt(q, i, e), a.fwd), a)
<1>1. a = [l EXCEPT !.entered = @ \cup {e}] /\ a.fwd = l.fwd
  <2>1. l \in ListLoops  BY DEF IterOK
  <2>2. l # NoLoop  BY DEF NoLoop
  <2> QED  BY <2>1, <2>2 DEF Entered, ListLoops
<1>2. PICK f : f = l.fwd  OBVIOUS
<1>3. PICK s : s = InLoopOrder(q, f)  OBVIOUS
<1>4. Circle(ListCells, TheHead, s) /\ Len(s) = Len(q)
  BY <1>2, <1>3, ReverseFacts DEF InLoopOrder
<1>5. q \in Seq(ListCells) /\ e \in ListCells /\ f \in BOOLEAN  BY <1>2 DEF Circle, ListCells
<1>6. PICK k \in 1..(Len(q)+1) : InLoopOrder(InsertAt(q, i, e), f) = InsertAt(s, k, e)
  BY <1>3, <1>5, OrderAdd
<1>7. k \in 1..(Len(s)+1)  BY <1>4
<1>8. IterOK(InsertAt(s, k, e), [l EXCEPT !.entered = @ \cup {e}])
  BY <1>2, <1>3, <1>4, <1>7, AddIterOK
<1> QED  BY <1>1, <1>2, <1>6, <1>8

\* And of one that went.
LEMMA LeftOK ==
  ASSUME NEW q, Circle(ListCells, TheHead, q), NEW l, l.fwd \in BOOLEAN, l.op = "turn",
         IterOK(InLoopOrder(q, l.fwd), l), NEW d \in 1..Len(q), NEW e, e = q[d],
         IF ~l.safe THEN e # l.pos ELSE IF e = l.tmp THEN l.pinned ELSE e = l.pos => l.fresh,
         NEW a, a = Left(l, e)
  PROVE  /\ IterOK(InLoopOrder(RemoveAt(q, d), a.fwd), a)
         /\ a.fwd = l.fwd /\ a.op = l.op
<1>1. /\ a = [l EXCEPT !.stayed = @ \ {e}, !.pinned = @ /\ e # l.pos, !.fresh = @ /\ e # l.tmp]
      /\ a.fwd = l.fwd /\ a.op = l.op
  <2>1. l \in ListLoops  BY DEF IterOK
  <2>2. l # NoLoop  BY DEF NoLoop
  <2>3. a = [l EXCEPT !.stayed = @ \ {e}, !.pinned = @ /\ e # l.pos, !.fresh = @ /\ e # l.tmp]
    BY <2>2 DEF Left
  <2> QED  BY <2>1, <2>3 DEF ListLoops
<1>2. PICK f : f = l.fwd  OBVIOUS
<1>3. PICK s : s = InLoopOrder(q, f)  OBVIOUS
<1>4. Circle(ListCells, TheHead, s) /\ Len(s) = Len(q)
  BY <1>2, <1>3, ReverseFacts DEF InLoopOrder
<1>5. q \in Seq(ListCells) /\ f \in BOOLEAN  BY <1>2 DEF Circle
<1>6. PICK k \in 1..Len(q) : s[k] = e /\ InLoopOrder(RemoveAt(q, d), f) = RemoveAt(s, k)
  BY <1>3, <1>5, OrderRemove
<1>7. k \in 1..Len(s) /\ e = s[k] /\ IterOK(s, l)  BY <1>2, <1>3, <1>4, <1>6
<1>8. IterOK(RemoveAt(s, k), [l EXCEPT !.stayed = @ \ {e}, !.pinned = @ /\ e # l.pos,
                                       !.fresh = @ /\ e # l.tmp])
  BY <1>4, <1>7, LeaveIterOK
<1> QED  BY <1>1, <1>2, <1>6, <1>8

LEMMA ListAddKept ==
  ASSUME IterInv, NEW node \in Items, NEW at \in {TheHead} \cup OnTheList,
         BodyAdd(node, at)
  PROVE  IterInv'
<1>1. PICK q : Holds(q)  BY DEF IterInv
<1>2. Circle(ListCells, TheHead, q) /\ Ring(links, TheHead, q) /\ links \in Memory(ListCells)
  BY <1>1 DEF Holds, IterInv
<1>3. OnTheList = {q[i] : i \in 1..Len(q)}  BY <1>2, InOrderFacts
<1>4. /\ links' = list_add(links, node, at) /\ loop' = Entered(loop, node)
      /\ Callable /\ node \notin OnTheList
  BY DEF BodyAdd
<1>5. PICK i \in 1..(Len(q)+1), p \in 0..Len(q) : p = i-1 /\ At(TheHead, q, p) = at
  <2>1. Len(q) \in Nat /\ At(TheHead, q, 0) = TheHead /\ \A x \in 1..Len(q) : At(TheHead, q, x) = q[x]
    BY <1>2, CircleCells
  <2>2. PICK p \in 0..Len(q) : At(TheHead, q, p) = at  BY <1>3, <2>1
  <2>3. PICK i : i = p + 1  OBVIOUS
  <2>4. i \in 1..(Len(q)+1) /\ p = i-1  BY <2>1, <2>3
  <2> QED  BY <2>2, <2>4
<1>6. links' = __list_add(links, node, At(TheHead, q, i-1), At(TheHead, q, i))
  <2>1. links.next[At(TheHead, q, p)] = At(TheHead, q, p+1)  BY <1>2, <1>5 DEF Ring
  <2>2. Len(q) \in Nat  BY <1>2, CircleCells
  <2>3. p + 1 = i  BY <1>5, <2>2
  <2> QED  BY <1>4, <1>5, <2>1, <2>3 DEF list_add
<1>7. \A k \in 1..Len(q) : q[k] # node  BY <1>3, <1>4
<1> DEFINE r == InsertAt(q, i, node)
<1>8. links' \in Memory(ListCells) /\ Circle(ListCells, TheHead, r) /\ Ring(links', TheHead, r)
  BY <1>2, <1>6, <1>7, PutIn, ListIterAssumption
<1>9. loop' = NoLoop \/ IterOK(InLoopOrder(r, loop'.fwd), loop')
  <2>1. CASE loop = NoLoop  BY <2>1, <1>4 DEF Entered
  <2>2. CASE loop # NoLoop
    <3>1. /\ loop.op = "turn" /\ loop.fwd \in BOOLEAN /\ IterOK(InLoopOrder(q, loop.fwd), loop)
      BY <2>2, <1>1, <1>4, ListRunning
    <3> QED  BY <3>1, <1>2, <1>4, EnteredOK
  <2> QED  BY <2>1, <2>2
<1> HIDE DEF r
<1> QED  BY <1>8, <1>9, ListStepKept


\* An entry that a body may take away is at some place, and not the one to go on from.
LEMMA LeaveFacts ==
  ASSUME IterInv, NEW q, Holds(q), NEW node, Callable, MayLeave(node)
  PROVE  /\ \E d \in 1..Len(q) : q[d] = node
         /\ loop # NoLoop =>
              IF ~loop.safe THEN node # loop.pos
              ELSE IF node = loop.tmp THEN loop.pinned ELSE node = loop.pos => loop.fresh
<1>1. Circle(ListCells, TheHead, q) /\ Ring(links, TheHead, q) /\ links \in Memory(ListCells)
  BY DEF Holds, IterInv
<1>2. node \in {q[i] : i \in 1..Len(q)}  BY <1>1, InOrderFacts DEF MayLeave
<1>3. loop # NoLoop => Running  BY ListRunning DEF Running
<1> QED  BY <1>2, <1>3 DEF MayLeave

LEMMA ListDelKept ==
  ASSUME IterInv, NEW node \in Items, BodyDel(node)
  PROVE  IterInv'
<1>1. PICK q : Holds(q)  BY DEF IterInv
<1>2. Circle(ListCells, TheHead, q) /\ Ring(links, TheHead, q) /\ links \in Memory(ListCells)
  BY <1>1 DEF Holds, IterInv
<1>3. /\ links' = list_del(links, node) /\ loop' = Left(loop, node)
      /\ Callable /\ MayLeave(node)
  BY DEF BodyDel
<1>4. PICK d \in 1..Len(q) : q[d] = node  BY <1>1, <1>3, LeaveFacts
<1>5. PICK r : r = RemoveAt(q, d)  OBVIOUS
<1>6. links' \in Memory(ListCells) /\ Circle(ListCells, TheHead, r) /\ Ring(links', TheHead, r)
  BY <1>2, <1>3, <1>4, <1>5, TakenOut
<1>7. loop' = NoLoop \/ IterOK(InLoopOrder(r, loop'.fwd), loop')
  <2>1. CASE loop = NoLoop  BY <2>1, <1>3 DEF Left
  <2>2. CASE loop # NoLoop
    <3>1. /\ loop.op = "turn" /\ loop.fwd \in BOOLEAN /\ IterOK(InLoopOrder(q, loop.fwd), loop)
      BY <2>2, <1>1, <1>3, ListRunning
    <3>2. IF ~loop.safe THEN node # loop.pos
          ELSE IF node = loop.tmp THEN loop.pinned ELSE node = loop.pos => loop.fresh
      BY <2>2, <1>1, <1>3, LeaveFacts
    <3> QED  BY <3>1, <3>2, <1>2, <1>3, <1>4, <1>5, LeftOK
  <2> QED  BY <2>1, <2>2
<1> QED  BY <1>6, <1>7, ListStepKept

LEMMA ListMoveTailKept ==
  ASSUME IterInv, NEW node \in Items, BodyMoveTail(node)
  PROVE  IterInv'
<1>1. PICK q : Holds(q)  BY DEF IterInv
<1>2. Circle(ListCells, TheHead, q) /\ Ring(links, TheHead, q) /\ links \in Memory(ListCells)
  BY <1>1 DEF Holds, IterInv
<1>3. /\ links' = list_move_tail(links, node, TheHead)
      /\ loop' = Entered(Left(loop, node), node)
      /\ Callable /\ MayLeave(node)
  BY DEF BodyMoveTail
<1>4. PICK d \in 1..Len(q) : q[d] = node  BY <1>1, <1>3, LeaveFacts
<1>5. PICK s : s = RemoveAt(q, d)  OBVIOUS
<1>6. PICK m : m = __list_del_entry(links, node)  OBVIOUS
<1>7. /\ m \in Memory(ListCells) /\ Circle(ListCells, TheHead, s) /\ Ring(m, TheHead, s)
      /\ \A k \in 1..Len(s) : s[k] # node
  BY <1>2, <1>4, <1>5, <1>6, TakenOut
<1>8. PICK i \in 1..(Len(s)+1) : i = Len(s)+1 /\ i-1 = Len(s)
  <2>1. Len(s) \in Nat  BY <1>7, CircleCells
  <2> QED  BY <2>1
<1>9. links' = __list_add(m, node, At(TheHead, s, i-1), At(TheHead, s, i))
  <2>1. Len(s) \in Nat /\ At(TheHead, s, Len(s)+1) = TheHead  BY <1>7, CircleCells
  <2>2. m.prev[At(TheHead, s, Len(s)+1)] = At(TheHead, s, Len(s))
    BY <2>1, <1>7 DEF Ring
  <2>3. At(TheHead, s, i) = TheHead /\ m.prev[TheHead] = At(TheHead, s, i-1)
    BY <2>1, <2>2, <1>8
  <2>4. links' = __list_add(m, node, m.prev[TheHead], TheHead)
    BY <1>3, <1>6 DEF list_move_tail, list_add_tail
  <2> QED  BY <2>3, <2>4
<1>10. PICK r : r = InsertAt(s, i, node)  OBVIOUS
<1>11. links' \in Memory(ListCells) /\ Circle(ListCells, TheHead, r) /\ Ring(links', TheHead, r)
  BY <1>7, <1>9, <1>10, PutIn, ListIterAssumption
<1>12. loop' = NoLoop \/ IterOK(InLoopOrder(r, loop'.fwd), loop')
  <2>1. CASE loop = NoLoop  BY <2>1, <1>3 DEF Left, Entered
  <2>2. CASE loop # NoLoop
    <3>1. /\ loop.op = "turn" /\ loop.fwd \in BOOLEAN /\ IterOK(InLoopOrder(q, loop.fwd), loop)
      BY <2>2, <1>1, <1>3, ListRunning
    <3>2. IF ~loop.safe THEN node # loop.pos
          ELSE IF node = loop.tmp THEN loop.pinned ELSE node = loop.pos => loop.fresh
      BY <2>2, <1>1, <1>3, LeaveFacts
    <3>3. PICK a : a = Left(loop, node)  OBVIOUS
    <3>4. IterOK(InLoopOrder(s, a.fwd), a) /\ a.fwd \in BOOLEAN /\ a.op = "turn"
      BY <3>1, <3>2, <3>3, <1>2, <1>4, <1>5, LeftOK
    <3>5. loop' = Entered(a, node)  BY <3>3, <1>3
    <3>6. IterOK(InLoopOrder(InsertAt(s, i, node), loop'.fwd), loop')
      BY <3>4, <3>5, <1>7, EnteredOK
    <3> QED  BY <3>6, <1>10
  <2> QED  BY <2>1, <2>2
<1> QED  BY <1>11, <1>12, ListStepKept

-----------------------------------------------------------------------------
(* The turns.                                                              *)

\* A loop that goes on at place k, with what it must still see from there on.
LEMMA ListArriveKept ==
  ASSUME IterInv, UNCHANGED links, NEW q, Holds(q), NEW l \in ListLoops,
         NEW k \in 1..(Len(q)+1), NEW s, s = InLoopOrder(q, l.fwd),
         \A i \in 1..Len(s) : k <= i /\ s[i] \in l.seen => s[i] \in l.entered,
         \A n \in l.stayed : n \in l.seen \/ \E i \in 1..Len(s) : k <= i /\ s[i] = n,
         loop' = Arrive(l, At(TheHead, s, k))
  PROVE  /\ IterInv'
         /\ loop'.op = "turn" =>
              loop'.pos \in OnTheList /\ (loop'.pos \in l.seen => loop'.pos \in l.entered)
<1>1. Circle(ListCells, TheHead, q) /\ Ring(links, TheHead, q) /\ links \in Memory(ListCells)
  BY DEF Holds, IterInv
<1>2. PICK a : a = Arrive(l, At(TheHead, s, k)) /\ a = loop'  OBVIOUS
<1>3. /\ IterOK(s, a) /\ a.fwd = l.fwd
      /\ a.op = "turn" => /\ \E i \in 1..Len(q) : q[i] = a.pos
                          /\ a.pos \in l.seen => a.pos \in l.entered
  BY <1>1, <1>2, ArriveIterOK
<1>4. IterInv'
  <2>1. IterOK(InLoopOrder(q, loop'.fwd), loop')  BY <1>2, <1>3
  <2> QED  BY <2>1, <1>1, ListStepKept
<1>5. OnTheList = {q[i] : i \in 1..Len(q)}  BY <1>1, InOrderFacts
<1> QED  BY <1>2, <1>3, <1>4, <1>5

\* What a loop has before it when it begins at place k.
LEMMA ListBeginKept ==
  ASSUME IterInv, NEW q, Holds(q), NEW fwd \in BOOLEAN, NEW safe \in BOOLEAN,
         NEW k \in 1..(Len(q)+1), NEW s, s = InLoopOrder(q, fwd), NEW scope,
         \A n \in ToSet(scope) : \E i \in 1..Len(s) : k <= i /\ s[i] = n,
         Begin(At(TheHead, s, k), scope, fwd, safe)
  PROVE  IterInv'
<1>1. Circle(ListCells, TheHead, q)  BY DEF Holds
<1>2. Circle(ListCells, TheHead, s)  BY <1>1, ReverseFacts DEF InLoopOrder
<1>3. \A i \in 1..Len(s) : s[i] \in Items  BY <1>2, CircleCells DEF ListCells
<1>4. PICK x : x = ToSet(scope)  OBVIOUS
<1>5. x \in SUBSET Items  BY <1>3, <1>4
<1> DEFINE l == [op |-> "end", fwd |-> fwd, safe |-> safe, pos |-> NULL, tmp |-> NULL,
                 pinned |-> TRUE, fresh |-> TRUE, seen |-> {}, stayed |-> x, entered |-> {}]
<1>6. l \in ListLoops /\ l.fwd = fwd /\ l.seen = {} /\ l.stayed = x
  BY <1>5 DEF ListLoops
<1>7. loop' = Arrive(l, At(TheHead, s, k)) /\ UNCHANGED links  BY <1>4 DEF Begin
<1> HIDE DEF l
<1>8. \A n \in l.stayed : n \in l.seen \/ \E i \in 1..Len(s) : k <= i /\ s[i] = n
  BY <1>4, <1>6
<1>9. \A i \in 1..Len(s) : k <= i /\ s[i] \in l.seen => s[i] \in l.entered  BY <1>6
<1>10. s = InLoopOrder(q, l.fwd)  BY <1>6
<1> QED  BY <1>6, <1>7, <1>8, <1>9, <1>10, ListArriveKept


\* What is behind a place of a list, the place included.
LEMMA BehindFacts ==
  ASSUME NEW A, NEW s, Circle(A, TheHead, s), NEW k \in 1..(Len(s)+1),
         NEW n \in ToSet(SubSeq(s, k, Len(s)))
  PROVE  \E i \in 1..Len(s) : k <= i /\ s[i] = n
<1>1. s \in Seq(A) /\ Len(s) \in Nat  BY CircleCells DEF Circle
<1>2. PICK r : r = SubSeq(s, k, Len(s))  OBVIOUS
<1>3. PICK b : b = Len(s)  OBVIOUS
<1>4. b \in (k-1)..Len(s)  BY <1>1, <1>3
<1>5. /\ r \in Seq(A) /\ Len(r) = b-k+1
      /\ \A x \in 1..(b-k+1) : r[x] = s[k+x-1]
  BY <1>1, <1>2, <1>3, <1>4, PieceFacts
<1>6. n \in {r[x] : x \in DOMAIN r}  BY <1>2 DEF ToSet
<1>7. DOMAIN r = 1..Len(r)  BY <1>5
<1>8. PICK x \in 1..(b-k+1) : n = r[x]  BY <1>5, <1>6, <1>7
<1>9. PICK i : i = k+x-1  OBVIOUS
<1>10. i \in 1..Len(s) /\ k <= i  BY <1>1, <1>3, <1>8, <1>9
<1> QED  BY <1>5, <1>8, <1>9, <1>10

LEMMA ListStartKept ==
  ASSUME IterInv, NEW fwd \in BOOLEAN, NEW safe \in BOOLEAN,
         LoopStart(fwd, safe)
  PROVE  IterInv'
<1>1. PICK q : Holds(q)  BY DEF IterInv
<1>2. Circle(ListCells, TheHead, q) /\ Ring(links, TheHead, q) /\ links \in Memory(ListCells)
  BY <1>1 DEF Holds, IterInv
<1>3. PICK s : s = InLoopOrder(q, fwd)  OBVIOUS
<1>4. Ordered(s, q, fwd)  BY <1>2, <1>3, OrderFacts
<1>5. PICK k : k = 0+1 /\ k = 1  OBVIOUS
<1>6. k \in 1..(Len(q)+1) /\ \A i \in 1..Len(s) : k <= i  BY <1>4, <1>5 DEF Ordered
<1>7. Neighbour(TheHead, fwd) = At(TheHead, s, k)
  <2>1. Neighbour(At(TheHead, s, 0), fwd) = At(TheHead, s, 0+1)  BY <1>4 DEF Ordered
  <2> QED  BY <2>1, <1>5 DEF At
<1>8. InOrder(fwd) = s  BY <1>2, <1>3, InOrderFacts
<1>9. \A n \in ToSet(s) : \E i \in 1..Len(s) : k <= i /\ s[i] = n
  <2>1. DOMAIN s = 1..Len(s)  BY <1>4 DEF Ordered, Circle
  <2> QED  BY <2>1, <1>6 DEF ToSet
<1>10. Begin(At(TheHead, s, k), s, fwd, safe)  BY <1>7, <1>8 DEF LoopStart
<1> QED  BY <1>1, <1>3, <1>6, <1>9, <1>10, ListBeginKept

\* The entries before a loop that starts behind entry number i, or at it.
LEMMA ListContinueKept ==
  ASSUME IterInv, NEW fwd \in BOOLEAN, NEW safe \in BOOLEAN,
         NEW i \in 1..Cardinality(OnTheList),
         LoopContinue(i, fwd, safe) \/ LoopFrom(i, fwd, safe)
  PROVE  IterInv'
<1>1. PICK q : Holds(q)  BY DEF IterInv
<1>2. Circle(ListCells, TheHead, q) /\ Ring(links, TheHead, q) /\ links \in Memory(ListCells)
  BY <1>1 DEF Holds, IterInv
<1>3. PICK s : s = InLoopOrder(q, fwd)  OBVIOUS
<1>4. Ordered(s, q, fwd)  BY <1>2, <1>3, OrderFacts
<1>5. Circle(ListCells, TheHead, s) /\ Len(s) = Len(q) /\ Len(s) \in Nat  BY <1>4 DEF Ordered
<1>6. i \in 1..Len(s)  BY <1>2, <1>5, InOrderFacts
<1>7. InOrder(fwd) = s  BY <1>2, <1>3, InOrderFacts
<1>8. At(TheHead, s, i) = s[i]  BY <1>5, <1>6, CircleCells
<1>9. PICK k : k = i+1  OBVIOUS
<1>10. k \in 1..(Len(q)+1) /\ i \in 1..(Len(q)+1)  BY <1>5, <1>6, <1>9
<1>11. CASE LoopContinue(i, fwd, safe)
  <2>1. Neighbour(s[i], fwd) = At(TheHead, s, k)
    <3>1. Neighbour(At(TheHead, s, i), fwd) = At(TheHead, s, i+1)
      BY <1>4, <1>6 DEF Ordered
    <3> QED  BY <3>1, <1>8, <1>9
  <2>2. PICK scope : scope = SubSeq(s, k, Len(s))  OBVIOUS
  <2>3. \A n \in ToSet(scope) : \E x \in 1..Len(s) : k <= x /\ s[x] = n
    BY <1>5, <1>10, <2>2, BehindFacts
  <2>4. Begin(At(TheHead, s, k), scope, fwd, safe)
    BY <1>7, <1>9, <1>11, <2>1, <2>2 DEF LoopContinue
  <2> QED  BY <1>1, <1>3, <1>10, <2>3, <2>4, ListBeginKept
<1>12. CASE LoopFrom(i, fwd, safe)
  <2>1. PICK scope : scope = SubSeq(s, i, Len(s))  OBVIOUS
  <2>2. \A n \in ToSet(scope) : \E x \in 1..Len(s) : i <= x /\ s[x] = n
    BY <1>5, <1>10, <2>1, BehindFacts
  <2>3. Begin(At(TheHead, s, i), scope, fwd, safe)
    BY <1>7, <1>8, <1>12, <2>1 DEF LoopFrom
  <2> QED  BY <1>1, <1>3, <1>10, <2>2, <2>3, ListBeginKept
<1> QED  BY <1>11, <1>12

\* A turn goes on at the place behind the cursor's, or at the one of the next
\* entry, which may be farther on.
LEMMA ListTurnKept ==
  ASSUME IterInv, LoopTurn
  PROVE  /\ IterInv'
         /\ loop'.op = "turn" =>
              /\ loop'.pos \in OnTheList
              /\ loop'.pos \in loop.seen => loop'.pos \in loop.entered
<1>1. PICK q : Holds(q)  BY DEF IterInv
<1>2. Circle(ListCells, TheHead, q) /\ Ring(links, TheHead, q) /\ links \in Memory(ListCells)
  BY <1>1 DEF Holds, IterInv
<1>3. /\ loop.op = "turn" /\ loop.fresh /\ UNCHANGED links
      /\ loop' = Arrive(loop, NextPos)
  BY DEF LoopTurn, Running
<1>4. loop # NoLoop  BY <1>3 DEF NoLoop
<1>5. loop \in ListLoops /\ loop.fwd \in BOOLEAN /\ IterOK(InLoopOrder(q, loop.fwd), loop)
  BY <1>1, <1>3, <1>4, ListRunning DEF Callable
<1>6. PICK f : f = loop.fwd /\ f \in BOOLEAN  BY <1>5
<1>7. PICK s : s = InLoopOrder(q, f)  OBVIOUS
<1>8. Ordered(s, q, f)  BY <1>2, <1>6, <1>7, OrderFacts
<1>9. Circle(ListCells, TheHead, s) /\ Len(s) = Len(q) /\ Len(s) \in Nat
  BY <1>8 DEF Ordered
<1>10. PICK p, j \in 0..(Len(s)+1) : AtPlaces(s, loop, p, j)
  BY <1>3, <1>5, <1>6, <1>7 DEF IterOK
<1>11. p \in 0..Len(s) /\ j \in 1..(Len(s)+1) /\ p < j /\ Ahead(s, loop, p, j)
  BY <1>10 DEF AtPlaces
<1>12. PICK k \in 1..(Len(s)+1) : p < k /\ k <= j /\ NextPos = At(TheHead, s, k)
  <2>1. CASE loop.safe
    <3>1. NextPos = At(TheHead, s, j)
      BY <1>3, <1>10, <2>1 DEF AtPlaces, NextPos
    <3>2. j <= j  BY <1>9, <1>11
    <3> QED  BY <3>1, <3>2, <1>11
  <2>2. CASE ~loop.safe
    <3>1. p # 0 /\ s[p] = loop.pos  BY <1>10, <2>2 DEF AtPlaces
    <3>2. p \in 1..Len(s)  BY <3>1, <1>9, <1>11
    <3>3. At(TheHead, s, p) = s[p]  BY <3>2, <1>9, CircleCells
    <3>4. Neighbour(At(TheHead, s, p), f) = At(TheHead, s, p+1)
      BY <3>2, <1>8 DEF Ordered
    <3>5. PICK k : k = p+1  OBVIOUS
    <3>6. k \in 1..(Len(s)+1) /\ p < k /\ k <= j  BY <3>2, <3>5, <1>9, <1>11
    <3>7. NextPos = At(TheHead, s, k)
      BY <3>1, <3>3, <3>4, <3>5, <2>2, <1>6 DEF NextPos
    <3> QED  BY <3>6, <3>7
  <2> QED  BY <2>1, <2>2
<1>13. \A i \in 1..Len(s) : k <= i /\ s[i] \in loop.seen => s[i] \in loop.entered
  <2>1. \A i \in 1..Len(s) : k <= i => p < i  BY <1>9, <1>11, <1>12
  <2> QED  BY <2>1, <1>11 DEF Ahead
<1>14. \A n \in loop.stayed : n \in loop.seen \/ \E i \in 1..Len(s) : k <= i /\ s[i] = n
  <2>1. \A i \in 1..Len(s) : j <= i => k <= i  BY <1>9, <1>11, <1>12
  <2> QED  BY <2>1, <1>11 DEF Ahead
<1>15. loop' = Arrive(loop, At(TheHead, s, k))  BY <1>3, <1>12
<1>16. k \in 1..(Len(q)+1) /\ s = InLoopOrder(q, loop.fwd)  BY <1>6, <1>7, <1>9
<1> QED  BY <1>1, <1>3, <1>5, <1>13, <1>14, <1>15, <1>16, ListArriveKept


\* list_safe_reset_next() makes the entry behind the cursor the next one (list.h:743).
LEMMA ListResetKept ==
  ASSUME IterInv, SafeResetNext
  PROVE  IterInv'
<1>1. PICK q : Holds(q)  BY DEF IterInv
<1>2. Circle(ListCells, TheHead, q) /\ Ring(links, TheHead, q) /\ links \in Memory(ListCells)
  BY <1>1 DEF Holds, IterInv
<1>3. /\ loop.op = "turn" /\ loop.safe /\ loop.fwd /\ loop.pinned /\ UNCHANGED links
      /\ loop' = [loop EXCEPT !.tmp = links.next[loop.pos], !.fresh = TRUE]
  BY DEF SafeResetNext, Running, ResetNext
<1>4. loop # NoLoop  BY <1>3 DEF NoLoop
<1>5. loop \in ListLoops /\ IterOK(InLoopOrder(q, loop.fwd), loop)
  BY <1>1, <1>3, <1>4, ListRunning DEF Callable
<1>6. InLoopOrder(q, loop.fwd) = q  BY <1>3 DEF InLoopOrder
<1>7. PICK p, j \in 0..(Len(q)+1) : AtPlaces(q, loop, p, j)
  BY <1>3, <1>5, <1>6 DEF IterOK
<1>8. /\ p \in 0..Len(q) /\ j \in 1..(Len(q)+1) /\ p < j /\ p # 0 /\ q[p] = loop.pos
      /\ Ahead(q, loop, p, j)
  BY <1>3, <1>7 DEF AtPlaces
<1>9. Len(q) \in Nat /\ \A i : At(TheHead, q, i) \in ListCells  BY <1>2, CircleCells
<1>10. PICK k : k = p+1  OBVIOUS
<1>11. p \in 1..Len(q) /\ k \in 1..(Len(q)+1) /\ p < k /\ k <= j /\ k \in 0..(Len(q)+1)
  BY <1>8, <1>9, <1>10
<1>12. PICK t : t = At(TheHead, q, k) /\ t \in ListCells  BY <1>9
<1>13. links.next[loop.pos] = t
  <2>1. At(TheHead, q, p) = loop.pos  BY <1>2, <1>8, <1>11, CircleCells
  <2>2. links.next[At(TheHead, q, p)] = At(TheHead, q, p+1)  BY <1>2, <1>8 DEF Ring
  <2> QED  BY <2>1, <2>2, <1>10, <1>12
<1>14. PICK a : a = loop'  OBVIOUS
<1>15. a = [loop EXCEPT !.tmp = t, !.fresh = TRUE]  BY <1>3, <1>13, <1>14
<1>16. a \in ListLoops  BY <1>5, <1>12, <1>15 DEF ListLoops
<1>17. /\ a.op = "turn" /\ a.fwd = loop.fwd /\ a.safe = loop.safe /\ a.pos = loop.pos
       /\ a.pinned = loop.pinned /\ a.tmp = t /\ a.fresh = TRUE
       /\ a.seen = loop.seen /\ a.stayed = loop.stayed /\ a.entered = loop.entered
  BY <1>3, <1>5, <1>15 DEF ListLoops
<1>18. Ahead(q, a, p, k)
  <2>1. \A i \in 1..Len(q) : j <= i => k <= i  BY <1>8, <1>9, <1>11
  <2> QED  BY <2>1, <1>8, <1>17 DEF Ahead
<1>19. AtPlaces(q, a, p, k)
  BY <1>3, <1>8, <1>11, <1>12, <1>17, <1>18 DEF AtPlaces
<1>20. IterOK(q, a)  BY <1>7, <1>11, <1>16, <1>17, <1>19 DEF IterOK
<1>21. InLoopOrder(q, loop'.fwd) = q  BY <1>6, <1>14, <1>17
<1>22. IterOK(InLoopOrder(q, loop'.fwd), loop')  BY <1>14, <1>20, <1>21
<1> QED  BY <1>2, <1>3, <1>22, ListStepKept

\* The loop is left, or a step that changes nothing is taken.
LEMMA ListLoopLeft ==
  ASSUME IterInv, UNCHANGED links, loop' = loop \/ loop' = NoLoop
  PROVE  IterInv'
<1>1. PICK q : Holds(q)  BY DEF IterInv
<1>2. Circle(ListCells, TheHead, q) /\ Ring(links, TheHead, q) /\ links \in Memory(ListCells)
  BY <1>1 DEF Holds, IterInv
<1>3. loop' = NoLoop \/ IterOK(InLoopOrder(q, loop'.fwd), loop')
  BY <1>1 DEF Holds
<1> QED  BY <1>2, <1>3, ListStepKept

LEMMA ListInit ==
  ASSUME IterInit
  PROVE  IterInv
<1>1. PICK m : m = [next |-> [x \in ListCells |-> NULL], prev |-> [x \in ListCells |-> NULL]]
  OBVIOUS
<1>2. m \in Memory(ListCells)  BY <1>1 DEF Memory
<1>3. TheHead \in ListCells  BY DEF ListCells
<1>4. links = INIT_LIST_HEAD(m, TheHead) /\ loop = NoLoop
  BY <1>1 DEF IterInit, ListCells
<1>5. links \in Memory(ListCells) /\ Circle(ListCells, TheHead, <<>>) /\ Ring(links, TheHead, <<>>)
  BY <1>2, <1>3, <1>4, CircleInit
<1>6. Holds(<<>>)  BY <1>4, <1>5 DEF Holds
<1> QED  BY <1>5, <1>6 DEF IterInv

LEMMA ListNext ==
  ASSUME IterInv, [IterNext]_(iterVars)
  PROVE  IterInv'
<1>1. ASSUME NEW node \in Items, BodyDel(node) PROVE IterInv'
  BY <1>1, ListDelKept
<1>2. ASSUME NEW node \in Items, BodyMoveTail(node) PROVE IterInv'
  BY <1>2, ListMoveTailKept
<1>3. ASSUME NEW node \in Items, NEW at \in {TheHead} \cup OnTheList, BodyAdd(node, at)
      PROVE IterInv'
  BY <1>3, ListAddKept
<1>4. ASSUME NEW fwd \in BOOLEAN, NEW safe \in BOOLEAN, LoopStart(fwd, safe) PROVE IterInv'
  BY <1>4, ListStartKept
<1>5. ASSUME NEW fwd \in BOOLEAN, NEW safe \in BOOLEAN,
             NEW i \in 1..Cardinality(OnTheList),
             LoopContinue(i, fwd, safe) \/ LoopFrom(i, fwd, safe)
      PROVE IterInv'
  BY <1>5, ListContinueKept
<1>6. CASE LoopTurn  BY <1>6, ListTurnKept
<1>7. CASE SafeResetNext  BY <1>7, ListResetKept
<1>8. CASE LoopBreak  BY <1>8, ListLoopLeft DEF LoopBreak
<1>9. CASE LoopEnd  BY <1>9, ListLoopLeft DEF LoopEnd
<1>10. CASE UNCHANGED iterVars  BY <1>10, ListLoopLeft DEF iterVars
<1> QED
  BY <1>1, <1>2, <1>3, <1>4, <1>5, <1>6, <1>7, <1>8, <1>9, <1>10 DEF IterNext

\* A list that its loops' bodies change stays a ring, and the loop that runs knows
\* its place in it (list.h:534-744).
THEOREM ListLoopInvariant == IterSpec => []IterInv
<1>1. IterInit => IterInv  BY ListInit
<1>2. IterInv /\ [IterNext]_(iterVars) => IterInv'  BY ListNext
<1> QED  BY <1>1, <1>2, PTL DEF IterSpec

\* A loop that has run to its end has taken up every entry that was before it when
\* it began and stayed there, in either direction, wherever the loop began, and
\* whatever its body added, deleted and moved on either side (list.h:534-744).
THEOREM ListLoopMissNobody == IterSpec => []LoopsMissNobody
<1>1. IterInv => LoopsMissNobody
  <2> SUFFICES ASSUME IterInv, loop.op = "end" PROVE loop.stayed \subseteq loop.seen
    BY DEF LoopsMissNobody
  <2>1. PICK q : Holds(q)  BY DEF IterInv
  <2>2. loop # NoLoop  BY DEF NoLoop
  <2> QED  BY <2>1, <2>2 DEF Holds, IterOK
<1> QED  BY <1>1, ListLoopInvariant, PTL

\* A turn takes up an entry of the list, never the head or an entry that a body has
\* deleted, and none a second time but one that a body put there again
\* (list.h:534-744).
THEOREM ListLoopTurns == IterSpec => TurnsTakeUpEntries
<1> DEFINE A == LoopTurn /\ loop'.op = "turn" =>
                  /\ loop'.pos \in OnTheList
                  /\ loop'.pos \in loop.seen => loop'.pos \in loop.entered
<1>1. IterInv /\ [IterNext]_(iterVars) => [A]_(iterVars)  BY ListTurnKept
<1> QED  BY <1>1, ListLoopInvariant, PTL DEF IterSpec, TurnsTakeUpEntries

================================================================================
