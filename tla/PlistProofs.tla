------------------------------ MODULE PlistProofs ------------------------------
(***************************************************************************)
(* The priority lists of Plist.tla, for any heads, nodes and priorities:   *)
(* the list and its prio_list stay in step, the list is the queue that     *)
(* PlistSpec promises, and a requeue is a deletion and an addition.        *)
(*                                                                         *)
(* The invariant says that there are lists Q and prio_lists W which the    *)
(* two memories hold: a node_list is a ring with a head, a prio_list one   *)
(* without, a wheel; Q[h] is sorted and W[h] leads it, with the first      *)
(* entry of each priority.  A call then changes Q and W as sequences, and  *)
(* the search it does ends at the slot of the entry, the one position      *)
(* between what is served before it and what is served after.              *)
(***************************************************************************)
EXTENDS Plist, RingProofs

-----------------------------------------------------------------------------
(* A wheel: a ring without a head, like the prio_list.  list.h does not    *)
(* know the difference: it adds between any two neighbours.                *)

\* Around n places, j comes after i.
Turn(i, j, n) == j = i+1 \/ (i = n /\ j = 1)

\* In m, the entries w, each once, are linked in both directions.
Wheel(A, m, w) ==
  /\ w \in Seq(A)
  /\ \A i, j \in 1..Len(w) : w[i] = w[j] => i = j
  /\ \A i, j \in 1..Len(w) : Turn(i, j, Len(w)) => m.next[w[i]] = w[j] /\ m.prev[w[j]] = w[i]

\* Every entry of a wheel has one before it and one behind it.
LEMMA WheelTurns ==
  ASSUME NEW A, NEW m, NEW w, Wheel(A, m, w), NEW i \in 1..Len(w)
  PROVE  /\ Len(w) \in Nat /\ w[i] \in A
         /\ \E a \in 1..Len(w) : Turn(a, i, Len(w)) /\ m.prev[w[i]] = w[a]
         /\ \E b \in 1..Len(w) : Turn(i, b, Len(w)) /\ m.next[w[i]] = w[b]
<1>1. Len(w) \in Nat /\ w[i] \in A
  BY LenProperties, ElementOfSeq DEF Wheel
<1>2. \E a \in 1..Len(w) : Turn(a, i, Len(w))
  <2>1. CASE i = 1  BY <2>1, <1>1 DEF Turn
  <2>2. CASE i # 1
    <3>1. i-1 \in 1..Len(w) /\ Turn(i-1, i, Len(w))  BY <2>2, <1>1 DEF Turn
    <3> QED  BY <3>1
  <2> QED  BY <2>1, <2>2
<1>3. \E b \in 1..Len(w) : Turn(i, b, Len(w))
  <2>1. CASE i = Len(w)
    <3>1. 1 \in 1..Len(w) /\ Turn(i, 1, Len(w))  BY <2>1, <1>1 DEF Turn
    <3> QED  BY <3>1
  <2>2. CASE i # Len(w)
    <3>1. i+1 \in 1..Len(w) /\ Turn(i, i+1, Len(w))  BY <2>2, <1>1 DEF Turn
    <3> QED  BY <3>1
  <2> QED  BY <2>1, <2>2
<1> QED  BY <1>1, <1>2, <1>3 DEF Wheel

\* An entry of a wheel is its own neighbour only if it is alone.
LEMMA WheelOfOne ==
  ASSUME NEW A, NEW m, NEW w, Wheel(A, m, w), NEW k \in 1..Len(w)
  PROVE  m.next[w[k]] = w[k] <=> Len(w) = 1
<1>1. PICK b \in 1..Len(w) : Turn(k, b, Len(w)) /\ m.next[w[k]] = w[b]
  BY WheelTurns
<1>2. Len(w) \in Nat
  BY WheelTurns
<1>3. k = b <=> Len(w) = 1
  <2>1. PICK n \in Nat : n = Len(w)  BY <1>2
  <2>2. k \in 1..n /\ b \in 1..n /\ Turn(k, b, n)  BY <1>1, <2>1
  <2>3. k = b <=> n = 1  BY <2>2 DEF Turn
  <2> QED  BY <2>1, <2>3
<1>4. w[k] = w[b] => k = b
  BY DEF Wheel
<1> QED  BY <1>1, <1>3, <1>4

\* Adding between two neighbours: behind the first of them, or, between the last
\* and the first, in front.
LEMMA WheelAdd ==
  ASSUME NEW A, NEW m \in Memory(A), NEW w, Wheel(A, m, w),
         NEW n \in A, \A k \in 1..Len(w) : w[k] # n,
         NEW a \in 1..Len(w), NEW b \in 1..Len(w), Turn(a, b, Len(w)),
         NEW i \in 1..(Len(w)+1), i = a+1 \/ (i = 1 /\ b = 1)
  PROVE  LET r == __list_add(m, n, w[a], w[b])
             s == InsertAt(w, i, n)
         IN  /\ r \in Memory(A) /\ Wheel(A, r, s)
             /\ \A x \in A : x # n /\ x # w[a] /\ x # w[b] => SameCell(m, r, x)
<1> DEFINE p == w[a]
           t == w[b]
           r == __list_add(m, n, p, t)
           s == InsertAt(w, i, n)
<1>1. /\ w \in Seq(A) /\ Len(w) \in Nat
      /\ \A k, l \in 1..Len(w) : w[k] = w[l] => k = l
      /\ \A k, l \in 1..Len(w) : Turn(k, l, Len(w)) => m.next[w[k]] = w[l] /\ m.prev[w[l]] = w[k]
  BY LenProperties DEF Wheel
<1>2. \A k \in 1..Len(w) : w[k] \in A /\ w[k] # n
  BY <1>1, ElementOfSeq
<1>3. p \in A /\ t \in A /\ p # n /\ t # n
  BY <1>2
<1>4. /\ r \in Memory(A)
      /\ \A x \in A : /\ r.next[x] = IF x = p THEN n ELSE IF x = n THEN t ELSE m.next[x]
                      /\ r.prev[x] = IF x = n THEN p ELSE IF x = t THEN n ELSE m.prev[x]
  <2> HIDE DEF p, t
  <2> QED  BY <1>3 DEF Memory, SetNext, SetPrev, __list_add
<1>5. \A x \in A : x # n /\ x # p /\ x # t => SameCell(m, r, x)
  <2> HIDE DEF r, p, t
  <2> QED  BY <1>4 DEF SameCell
<1>6. /\ s \in Seq(A) /\ Len(s) = Len(w) + 1
      /\ \A k \in 1..Len(s) : s[k] = IF k < i THEN w[k] ELSE IF k = i THEN n ELSE w[k-1]
  <2>1. /\ InsertAt(w, i, n) \in Seq(A) /\ Len(InsertAt(w, i, n)) = Len(w) + 1
        /\ \A k \in 1..Len(InsertAt(w, i, n)) :
             InsertAt(w, i, n)[k] = IF k < i THEN w[k] ELSE IF k = i THEN n ELSE w[k-1]
    BY <1>1, InsertAtFacts
  <2> QED  BY <2>1
<1> HIDE DEF r, s, p, t
<1>7. ASSUME NEW k \in 1..Len(s), k # i
      PROVE  \E x \in 1..Len(w) : s[k] = w[x] /\ x = IF k < i THEN k ELSE k-1
  <2>1. CASE k < i  BY <2>1, <1>1, <1>6
  <2>2. CASE ~(k < i)
    <3>1. k-1 \in 1..Len(w) /\ s[k] = w[k-1]  BY <2>2, <1>1, <1>6, <1>7
    <3> QED  BY <3>1, <2>2
  <2> QED  BY <2>1, <2>2
<1>8. s[i] = n
  BY <1>1, <1>6
<1>9. \A k, l \in 1..Len(s) : s[k] = s[l] => k = l
  <2> SUFFICES ASSUME NEW k \in 1..Len(s), NEW l \in 1..Len(s), s[k] = s[l] PROVE k = l
    OBVIOUS
  <2>1. CASE k = i  BY <2>1, <1>2, <1>7, <1>8
  <2>2. CASE l = i  BY <2>2, <1>2, <1>7, <1>8
  <2>3. CASE k # i /\ l # i
    <3>1. PICK x \in 1..Len(w) : s[k] = w[x] /\ x = IF k < i THEN k ELSE k-1  BY <2>3, <1>7
    <3>2. PICK y \in 1..Len(w) : s[l] = w[y] /\ y = IF l < i THEN l ELSE l-1  BY <2>3, <1>7
    <3>0. w[x] = w[y]  BY <3>1, <3>2
    <3>3. x = y  BY <3>0, <1>1
    <3> QED  BY <3>1, <3>2, <3>3, <2>3
  <2> QED  BY <2>1, <2>2, <2>3
<1>10. ASSUME NEW k \in 1..Len(s), NEW l \in 1..Len(s), Turn(k, l, Len(s))
       PROVE  r.next[s[k]] = s[l] /\ r.prev[s[l]] = s[k]
  <2>1. CASE k = i
    <3>1. l # i  BY <2>1, <1>10, <1>1, <1>6 DEF Turn
    <3>2. PICK y \in 1..Len(w) : s[l] = w[y] /\ y = IF l < i THEN l ELSE l-1  BY <3>1, <1>7
    <3>3. y = b  BY <2>1, <3>2, <1>10, <1>1, <1>6 DEF Turn
    <3>4. s[l] = t  BY <3>2, <3>3 DEF t
    <3>5. p # n /\ t # n /\ t \in A /\ s[k] = n  BY <1>3, <1>8, <2>1
    <3>6. r.next[n] = t /\ r.prev[t] = n  BY <3>5, <1>3, <1>4
    <3> QED  BY <3>4, <3>5, <3>6
  <2>2. CASE l = i
    <3>1. k # i  BY <2>2, <1>10, <1>1, <1>6 DEF Turn
    <3>2. PICK x \in 1..Len(w) : s[k] = w[x] /\ x = IF k < i THEN k ELSE k-1  BY <3>1, <1>7
    <3>3. x = a  BY <2>2, <3>2, <1>10, <1>1, <1>6 DEF Turn
    <3>4. s[k] = p /\ s[l] = n  BY <2>2, <3>2, <3>3, <1>8 DEF p
    <3>5. r.next[p] = n /\ r.prev[n] = p  BY <1>3, <1>4
    <3> QED  BY <3>4, <3>5
  <2>3. CASE k # i /\ l # i
    <3>1. PICK x \in 1..Len(w) : s[k] = w[x] /\ x = IF k < i THEN k ELSE k-1  BY <2>3, <1>7
    <3>2. PICK y \in 1..Len(w) : s[l] = w[y] /\ y = IF l < i THEN l ELSE l-1  BY <2>3, <1>7
    <3>3. Turn(x, y, Len(w)) /\ x # a /\ y # b
      BY <3>1, <3>2, <2>3, <1>10, <1>1, <1>6 DEF Turn
    <3>4. m.next[w[x]] = w[y] /\ m.prev[w[y]] = w[x]  BY <3>3, <1>1
    <3>5. w[x] # p /\ w[y] # t /\ w[x] # n /\ w[y] # n /\ w[x] \in A /\ w[y] \in A
      BY <3>3, <1>1, <1>2 DEF p, t
    <3>6. r.next[w[x]] = m.next[w[x]] /\ r.prev[w[y]] = m.prev[w[y]]  BY <3>5, <1>4
    <3> QED  BY <3>1, <3>2, <3>4, <3>6
  <2> QED  BY <2>1, <2>2, <2>3
<1>11. Wheel(A, r, s)
  BY <1>6, <1>9, <1>10 DEF Wheel
<1> QED  BY <1>4, <1>5, <1>11 DEF r, s, p, t

\* Unlinking an entry of a wheel of two or more.
LEMMA WheelDel ==
  ASSUME NEW A, NEW m \in Memory(A), NEW w, Wheel(A, m, w), NEW i \in 1..Len(w), Len(w) # 1
  PROVE  LET r == __list_del_entry(m, w[i])
             s == RemoveAt(w, i)
         IN  /\ r \in Memory(A) /\ Wheel(A, r, s)
             /\ \A x \in A : (\A k \in 1..Len(w) : w[k] # x) => SameCell(m, r, x)
<1> DEFINE r == __list_del_entry(m, w[i])
           s == RemoveAt(w, i)
           p == m.prev[w[i]]
           t == m.next[w[i]]
<1>1. /\ w \in Seq(A) /\ Len(w) \in Nat
      /\ \A k, l \in 1..Len(w) : w[k] = w[l] => k = l
      /\ \A k, l \in 1..Len(w) : Turn(k, l, Len(w)) => m.next[w[k]] = w[l] /\ m.prev[w[l]] = w[k]
  BY LenProperties DEF Wheel
<1>2. \A k \in 1..Len(w) : w[k] \in A
  BY <1>1, ElementOfSeq
<1>3. PICK a \in 1..Len(w) : Turn(a, i, Len(w)) /\ p = w[a]
  BY WheelTurns
<1>4. PICK b \in 1..Len(w) : Turn(i, b, Len(w)) /\ t = w[b]
  BY WheelTurns
<1>5. r = __list_del(m, p, t)
  BY DEF __list_del_entry
<1> HIDE DEF r, p, t
<1>6. /\ r \in Memory(A)
      /\ \A x \in A : /\ r.next[x] = IF x = p THEN t ELSE m.next[x]
                      /\ r.prev[x] = IF x = t THEN p ELSE m.prev[x]
  <2>1. p \in A /\ t \in A  BY <1>2, <1>3, <1>4
  <2> QED  BY <2>1, <1>5 DEF Memory, SetNext, SetPrev, __list_del
<1>7. \A x \in A : (\A k \in 1..Len(w) : w[k] # x) => SameCell(m, r, x)
  BY <1>3, <1>4, <1>6 DEF SameCell
<1>8. /\ s \in Seq(A) /\ Len(s) = Len(w) - 1
      /\ \A k \in 1..Len(s) : s[k] = IF k < i THEN w[k] ELSE w[k+1]
  <2>1. /\ RemoveAt(w, i) \in Seq(A) /\ Len(RemoveAt(w, i)) = Len(w) - 1
        /\ \A k \in 1..Len(RemoveAt(w, i)) : RemoveAt(w, i)[k] = IF k < i THEN w[k] ELSE w[k+1]
    BY <1>1, RemoveAtFacts
  <2> QED  BY <2>1
<1> HIDE DEF s
<1>9. ASSUME NEW k \in 1..Len(s)
      PROVE  \E x \in 1..Len(w) : x # i /\ s[k] = w[x] /\ x = IF k < i THEN k ELSE k+1
  <2>1. CASE k < i  BY <2>1, <1>1, <1>8
  <2>2. CASE ~(k < i)
    <3>1. k+1 \in 1..Len(w) /\ s[k] = w[k+1] /\ k+1 # i  BY <2>2, <1>1, <1>8
    <3> QED  BY <3>1, <2>2
  <2> QED  BY <2>1, <2>2
<1>10. \A k, l \in 1..Len(s) : s[k] = s[l] => k = l
  <2> SUFFICES ASSUME NEW k \in 1..Len(s), NEW l \in 1..Len(s), s[k] = s[l] PROVE k = l
    OBVIOUS
  <2>1. PICK x \in 1..Len(w) : x # i /\ s[k] = w[x] /\ x = IF k < i THEN k ELSE k+1  BY <1>9
  <2>2. PICK y \in 1..Len(w) : y # i /\ s[l] = w[y] /\ y = IF l < i THEN l ELSE l+1  BY <1>9
  <2>0. w[x] = w[y]  BY <2>1, <2>2
  <2>3. x = y  BY <2>0, <1>1
  <2> QED  BY <2>1, <2>2, <2>3
<1>11. ASSUME NEW k \in 1..Len(s), NEW l \in 1..Len(s), Turn(k, l, Len(s))
       PROVE  r.next[s[k]] = s[l] /\ r.prev[s[l]] = s[k]
  <2>1. PICK x \in 1..Len(w) : x # i /\ s[k] = w[x] /\ x = IF k < i THEN k ELSE k+1  BY <1>9
  <2>2. PICK y \in 1..Len(w) : y # i /\ s[l] = w[y] /\ y = IF l < i THEN l ELSE l+1  BY <1>9
  <2>3. x = a <=> y = b
    BY <2>1, <2>2, <1>1, <1>3, <1>4, <1>8, <1>11 DEF Turn
  <2>4. x # a => Turn(x, y, Len(w))
    BY <2>1, <2>2, <1>1, <1>3, <1>4, <1>8, <1>11 DEF Turn
  <2>5. w[x] \in A /\ w[y] \in A  BY <1>2
  <2>6. CASE x = a
    <3>1. w[x] = p /\ w[y] = t  BY <2>3, <2>6, <1>3, <1>4
    <3> QED  BY <3>1, <2>1, <2>2, <2>5, <1>6
  <2>7. CASE x # a
    <3>1. w[x] # p /\ w[y] # t  BY <2>3, <2>7, <1>1, <1>3, <1>4
    <3>2. m.next[w[x]] = w[y] /\ m.prev[w[y]] = w[x]  BY <2>4, <2>7, <1>1
    <3> QED  BY <3>1, <3>2, <2>1, <2>2, <2>5, <1>6
  <2> QED  BY <2>6, <2>7
<1>12. Wheel(A, r, s)
  BY <1>8, <1>10, <1>11 DEF Wheel
<1> QED  BY <1>6, <1>7, <1>12 DEF r, s
\* Seen from its first entry, a wheel is a ring, and one turn of it is the wheel.
LEMMA WheelIsRing ==
  ASSUME NEW A, NEW m \in Memory(A), NEW w, Wheel(A, m, w), Len(w) # 0
  PROVE  Circle(A, w[1], Tail(w)) /\ Ring(m, w[1], Tail(w)) /\ <<w[1]>> \o Tail(w) = w
<1> DEFINE t == Tail(w)
           h == w[1]
           n == Len(t)
<1>1. /\ w \in Seq(A) /\ Len(w) \in Nat /\ (\A k \in 1..Len(w) : w[k] \in A)
      /\ \A k, l \in 1..Len(w) : w[k] = w[l] => k = l
      /\ \A k, l \in 1..Len(w) : Turn(k, l, Len(w)) => m.next[w[k]] = w[l] /\ m.prev[w[l]] = w[k]
  BY LenProperties, ElementOfSeq DEF Wheel
<1>2. w # <<>>
  <2>1. Len(<<>>) = 0  OBVIOUS
  <2> QED  BY <2>1
<1>3. /\ t \in Seq(A) /\ n = Len(w)-1 /\ h \in A /\ 1 \in 1..Len(w) /\ n \in Nat
      /\ \A k \in 1..n : t[k] = w[k+1] /\ k+1 \in 1..Len(w)
  BY <1>1, <1>2, HeadTailProperties
<1> HIDE DEF t, h, n
<1>4. /\ \A k \in 1..n : t[k] # h
      /\ \A k, l \in 1..n : t[k] = t[l] => k = l
  <2>1. ASSUME NEW k \in 1..n, t[k] = h PROVE FALSE
    <3>1. w[k+1] = w[1]  BY <2>1, <1>3 DEF h
    <3>2. k+1 = 1  BY <3>1, <1>1, <1>3
    <3> QED  BY <3>2
  <2>2. ASSUME NEW k \in 1..n, NEW l \in 1..n, t[k] = t[l] PROVE k = l
    <3>1. w[k+1] = w[l+1]  BY <2>2, <1>3
    <3>2. k+1 = l+1  BY <3>1, <1>1, <1>3
    <3> QED  BY <3>2
  <2> QED  BY <2>1, <2>2
<1>5. Circle(A, h, t)
  BY <1>3, <1>4 DEF Circle, n
<1>6. ASSUME NEW i \in 0..n
      PROVE  m.next[At(h, t, i)] = At(h, t, i+1) /\ m.prev[At(h, t, i+1)] = At(h, t, i)
  <2>1. PICK k \in 1..Len(w) : k = i+1 /\ At(h, t, i) = w[k]
    <3>1. CASE i = 0  BY <3>1, <1>1, <1>3 DEF At, h
    <3>2. CASE i # 0  BY <3>2, <1>1, <1>3 DEF At, h, n
    <3> QED  BY <3>1, <3>2
  <2>2. PICK l \in 1..Len(w) : Turn(k, l, Len(w)) /\ At(h, t, i+1) = w[l]
    <3>1. CASE i = n
      <4>1. At(h, t, i+1) = w[1]  BY <3>1, <1>3 DEF At, h, n
      <4>2. Turn(k, 1, Len(w))  BY <3>1, <2>1, <1>1, <1>3 DEF Turn
      <4> QED  BY <4>1, <4>2, <1>3
    <3>2. CASE i # n
      <4>1. i+1 \in 1..n /\ i+1+1 \in 1..Len(w)  BY <3>2, <1>1, <1>3
      <4>2. At(h, t, i+1) = w[i+1+1]  BY <4>1, <1>3 DEF At, n
      <4>3. Turn(k, i+1+1, Len(w))  BY <2>1 DEF Turn
      <4> QED  BY <4>1, <4>2, <4>3
    <3> QED  BY <3>1, <3>2
  <2> QED  BY <2>1, <2>2, <1>1
<1>7. Ring(m, h, t)
  BY <1>6 DEF Ring, n
<1>8. <<h>> \o t = w
  <2> DEFINE c == <<h>> \o t
  <2>1. c = InsertAt(t, 1, h)
    <3>1. SubSeq(t, 1, 0) = <<>> /\ SubSeq(t, 1, Len(t)) = t  BY <1>3
    <3>2. InsertAt(t, 1, h) = SubSeq(t, 1, 1-1) \o <<h>> \o SubSeq(t, 1, Len(t))  BY DEF InsertAt
    <3> QED  BY <3>1, <3>2, <1>3
  <2>2. /\ c \in Seq(A) /\ Len(c) = n + 1
        /\ \A k \in 1..Len(c) : c[k] = IF k < 1 THEN t[k] ELSE IF k = 1 THEN h ELSE t[k-1]
    <3> HIDE DEF c
    <3>1. 1 \in 1..(Len(t)+1)  BY <1>3 DEF n
    <3> QED  BY <3>1, <2>1, <1>3, InsertAtFacts DEF n
  <2>3. ASSUME NEW k \in 1..Len(w) PROVE c[k] = w[k]
    <3>1. CASE k = 1  BY <3>1, <2>2, <1>3 DEF h
    <3>2. CASE k # 1
      <4>1. PICK l \in 1..n : l = k-1  BY <3>2, <1>1, <1>3
      <4>2. t[l] = w[l+1] /\ l+1 = k  BY <4>1, <1>1, <1>3
      <4>3. c[k] = t[k-1]  BY <3>2, <2>2, <1>1, <1>3
      <4> QED  BY <4>1, <4>2, <4>3
    <3> QED  BY <3>1, <3>2
  <2>4. Len(c) = Len(w)  BY <2>2, <1>1, <1>3
  <2>5. c = w  BY <2>2, <2>3, <2>4, <1>1, SeqEqual
  <2> QED  BY <2>5 DEF c
<1> QED  BY <1>5, <1>7, <1>8 DEF h, t

\* The loops over a wheel.
LEMMA WheelLoops ==
  ASSUME NEW A, IsFiniteSet(A), NEW m \in Memory(A), NEW w, Wheel(A, m, w), Len(w) # 0
  PROVE  /\ <<w[1]>> \o list_for_each(m, w[1]) = w
         /\ list_for_each(m, w[1]) = Tail(w)
         /\ list_for_each_prev(m, w[1]) = Reverse(Tail(w))
<1>1. Circle(A, w[1], Tail(w)) /\ Ring(m, w[1], Tail(w)) /\ <<w[1]>> \o Tail(w) = w
  BY WheelIsRing
<1>2. DOMAIN m.next = A /\ DOMAIN m.prev = A
  BY DEF Memory
<1>3. list_for_each(m, w[1]) = Tail(w) /\ list_for_each_prev(m, w[1]) = Reverse(Tail(w))
  <2> DEFINE t == Tail(w)
  <2>1. Circle(A, w[1], t) /\ Ring(m, w[1], t)
    BY <1>1
  <2> HIDE DEF t
  <2>2. list_for_each(m, w[1]) = t /\ list_for_each_prev(m, w[1]) = Reverse(t)
    BY <1>2, <2>1, CircleLoops
  <2> QED  BY <2>2 DEF t
<1> QED  BY <1>1, <1>3

-----------------------------------------------------------------------------
(* Sequences, and cells that are linked to themselves.                     *)

Has(q, x) == \E k \in 1..Len(q) : q[k] = x

\* Where the entries of q are in s, which is q with e inserted at i.
Inserted(q, i, e, s) ==
  /\ Len(s) = Len(q) + 1 /\ Len(q) \in Nat /\ i \in 1..Len(s) /\ s[i] = e
  /\ \A x \in 1..Len(q) : \E k \in 1..Len(s) : s[k] = q[x] /\ k = IF x < i THEN x ELSE x+1
  /\ \A k \in 1..Len(s) : k # i => \E x \in 1..Len(q) : s[k] = q[x] /\ x = IF k < i THEN k ELSE k-1

\* And in s, which is q without the entry at i.
Removed(q, i, s) ==
  /\ Len(s) = Len(q) - 1 /\ Len(q) \in Nat
  /\ \A x \in 1..Len(q) : x # i => \E k \in 1..Len(s) : s[k] = q[x] /\ k = IF x < i THEN x ELSE x-1
  /\ \A k \in 1..Len(s) : \E x \in 1..Len(q) : x # i /\ s[k] = q[x] /\ x = IF k < i THEN k ELSE k+1

LEMMA InsertIndex ==
  ASSUME NEW S, NEW q \in Seq(S), NEW i \in 1..(Len(q)+1), NEW e \in S
  PROVE  LET s == InsertAt(q, i, e)
         IN  /\ s \in Seq(S) /\ Inserted(q, i, e, s)
             /\ \A x : Has(s, x) <=> x = e \/ Has(q, x)
<1> DEFINE s == InsertAt(q, i, e)
<1>1. /\ s \in Seq(S) /\ Len(s) = Len(q) + 1 /\ Len(q) \in Nat
      /\ \A k \in 1..Len(s) : s[k] = IF k < i THEN q[k] ELSE IF k = i THEN e ELSE q[k-1]
  <2>1. /\ s \in Seq(S) /\ Len(s) = Len(q) + 1
        /\ \A k \in 1..Len(s) : s[k] = IF k < i THEN q[k] ELSE IF k = i THEN e ELSE q[k-1]
    BY InsertAtFacts
  <2>2. Len(q) \in Nat
    BY LenProperties
  <2> QED  BY <2>1, <2>2
<1> HIDE DEF s
<1>2. i \in 1..Len(s) /\ s[i] = e
  BY <1>1
<1>3. ASSUME NEW x \in 1..Len(q)
      PROVE  \E k \in 1..Len(s) : s[k] = q[x] /\ k = IF x < i THEN x ELSE x+1
  <2>1. CASE x < i  BY <2>1, <1>1
  <2>2. CASE ~(x < i)
    <3>1. x+1 \in 1..Len(s) /\ ~(x+1 < i) /\ x+1 # i /\ x+1-1 = x  BY <2>2, <1>1
    <3> QED  BY <3>1, <2>2, <1>1
  <2> QED  BY <2>1, <2>2
<1>4. ASSUME NEW k \in 1..Len(s), k # i
      PROVE  \E x \in 1..Len(q) : s[k] = q[x] /\ x = IF k < i THEN k ELSE k-1
  <2>1. CASE k < i  BY <2>1, <1>1
  <2>2. CASE ~(k < i)
    <3>1. k-1 \in 1..Len(q) /\ s[k] = q[k-1]  BY <2>2, <1>1, <1>4
    <3> QED  BY <3>1, <2>2
  <2> QED  BY <2>1, <2>2
<1>5. ASSUME NEW x PROVE Has(s, x) <=> x = e \/ Has(q, x)
  BY <1>2, <1>3, <1>4 DEF Has
<1> QED  BY <1>1, <1>2, <1>3, <1>4, <1>5 DEF s, Inserted

LEMMA RemoveIndex ==
  ASSUME NEW S, NEW q \in Seq(S), NEW i \in 1..Len(q)
  PROVE  RemoveAt(q, i) \in Seq(S) /\ Removed(q, i, RemoveAt(q, i))
<1> DEFINE s == RemoveAt(q, i)
<1>1. /\ s \in Seq(S) /\ Len(s) = Len(q) - 1 /\ Len(q) \in Nat
      /\ \A k \in 1..Len(s) : s[k] = IF k < i THEN q[k] ELSE q[k+1]
  <2>1. /\ s \in Seq(S) /\ Len(s) = Len(q) - 1
        /\ \A k \in 1..Len(s) : s[k] = IF k < i THEN q[k] ELSE q[k+1]
    BY RemoveAtFacts
  <2>2. Len(q) \in Nat
    BY LenProperties
  <2> QED  BY <2>1, <2>2
<1> HIDE DEF s
<1>2. ASSUME NEW x \in 1..Len(q), x # i
      PROVE  \E k \in 1..Len(s) : s[k] = q[x] /\ k = IF x < i THEN x ELSE x-1
  <2>1. CASE x < i
    <3>1. x \in 1..Len(s)  BY <2>1, <1>1
    <3> QED  BY <3>1, <2>1, <1>1
  <2>2. CASE ~(x < i)
    <3>1. x-1 \in 1..Len(s) /\ ~(x-1 < i) /\ x-1+1 = x  BY <2>2, <1>1, <1>2
    <3> QED  BY <3>1, <2>2, <1>1
  <2> QED  BY <2>1, <2>2
<1>3. ASSUME NEW k \in 1..Len(s)
      PROVE  \E x \in 1..Len(q) : x # i /\ s[k] = q[x] /\ x = IF k < i THEN k ELSE k+1
  <2>1. CASE k < i  BY <2>1, <1>1
  <2>2. CASE ~(k < i)
    <3>1. k+1 \in 1..Len(q) /\ s[k] = q[k+1] /\ k+1 # i  BY <2>2, <1>1
    <3> QED  BY <3>1, <2>2
  <2> QED  BY <2>1, <2>2
<1> QED  BY <1>1, <1>2, <1>3 DEF s, Removed

LEMMA RemoveHas ==
  ASSUME NEW S, NEW q \in Seq(S), NEW i \in 1..Len(q), \A j, k \in 1..Len(q) : q[j] = q[k] => j = k
  PROVE  \A x : Has(RemoveAt(q, i), x) <=> Has(q, x) /\ x # q[i]
<1> DEFINE s == RemoveAt(q, i)
<1>0. Removed(q, i, s)
  BY RemoveIndex
<1> HIDE DEF s
<1>1. /\ \A x \in 1..Len(q) : x # i => \E k \in 1..Len(s) : s[k] = q[x]
      /\ \A k \in 1..Len(s) : \E x \in 1..Len(q) : x # i /\ s[k] = q[x]
  <2>1. ASSUME NEW x \in 1..Len(q), x # i PROVE \E k \in 1..Len(s) : s[k] = q[x]
    BY <1>0, <2>1 DEF Removed
  <2>2. ASSUME NEW k \in 1..Len(s) PROVE \E x \in 1..Len(q) : x # i /\ s[k] = q[x]
    BY <1>0 DEF Removed
  <2> QED  BY <2>1, <2>2
<1>2. ASSUME NEW x PROVE Has(s, x) <=> Has(q, x) /\ x # q[i]
  <2>1. ASSUME Has(s, x) PROVE Has(q, x) /\ x # q[i]
    <3>1. PICK k \in 1..Len(s) : s[k] = x  BY <2>1 DEF Has
    <3>2. PICK y \in 1..Len(q) : y # i /\ s[k] = q[y]  BY <1>1
    <3> QED  BY <3>1, <3>2 DEF Has
  <2>2. ASSUME Has(q, x), x # q[i] PROVE Has(s, x)
    <3>1. PICK y \in 1..Len(q) : q[y] = x  BY <2>2 DEF Has
    <3>2. PICK k \in 1..Len(s) : s[k] = q[y]  BY <1>1, <2>2, <3>1
    <3> QED  BY <3>1, <3>2 DEF Has
  <2> QED  BY <2>1, <2>2
<1> QED  BY <1>2 DEF s

\* A sequence of one entry, and of none.
LEMMA ShortSeqs ==
  ASSUME NEW S, NEW x \in S
  PROVE  /\ <<x>> \in Seq(S) /\ Len(<<x>>) = 1 /\ <<x>>[1] = x /\ \A y : Has(<<x>>, y) <=> y = x
         /\ <<>> \in Seq(S) /\ Len(<<>>) = 0 /\ \A y : ~Has(<<>>, y)
<1>1. <<x>> \in Seq(S) /\ Len(<<x>>) = 1 /\ <<x>>[1] = x /\ 1..1 = {1}
  OBVIOUS
<1>2. <<>> \in Seq(S) /\ Len(<<>>) = 0 /\ 1..0 = {}
  OBVIOUS
<1>3. \A y : Has(<<x>>, y) <=> y = x
  BY <1>1 DEF Has
<1>4. \A y : ~Has(<<>>, y)
  BY <1>2 DEF Has
<1> QED  BY <1>1, <1>2, <1>3, <1>4

\* In m, the cell x is linked to itself.
Rests(m, x) == m.next[x] = x /\ m.prev[x] = x

LEMMA InitRests ==
  ASSUME NEW A, NEW m \in Memory(A), NEW x \in A
  PROVE  LET r == INIT_LIST_HEAD(m, x)
         IN  /\ r \in Memory(A) /\ Rests(r, x)
             /\ \A y \in A \ {x} : SameCell(m, r, y)
             /\ Rests(m, x) => r = m
<1> DEFINE r == INIT_LIST_HEAD(m, x)
<1>1. /\ r \in Memory(A) /\ Rests(r, x)
      /\ \A y \in A \ {x} : SameCell(m, r, y)
  BY DEF INIT_LIST_HEAD, SetNext, SetPrev, Memory, Rests, SameCell
<1>2. Rests(m, x) => r = m
  BY DEF INIT_LIST_HEAD, SetNext, SetPrev, Memory, Rests
<1> QED  BY <1>1, <1>2

-----------------------------------------------------------------------------
(* The prio_lists of all heads in one memory.                              *)

\* The node x is in no sequence of W.
OnNone(W, x) == \A h \in Heads : ~Has(W[h], x)

Disjoint(W) == \A g, h \in Heads, x \in Nodes : Has(W[g], x) /\ Has(W[h], x) => g = h

\* The memory p holds the wheels W, and every other node is linked to itself.
Wheels(p, W) ==
  /\ p \in Memory(Nodes)
  /\ W \in [Heads -> Seq(Nodes)]
  /\ \A h \in Heads : Wheel(Nodes, p, W[h])
  /\ Disjoint(W)
  /\ \A x \in Nodes : OnNone(W, x) => Rests(p, x)

\* A wheel whose links are not written is still one.
LEMMA WheelLeftAlone ==
  ASSUME NEW A, NEW m, NEW r, NEW w, Wheel(A, m, w), \A k \in 1..Len(w) : SameCell(m, r, w[k])
  PROVE  Wheel(A, r, w)
BY DEF Wheel, SameCell

\* Of a changed sequence of sequences: who is where.
LEMMA ChangedOne ==
  ASSUME NEW W \in [Heads -> Seq(Nodes)], Disjoint(W), NEW h \in Heads, NEW s \in Seq(Nodes),
         \A x \in Nodes : Has(s, x) => OnNone(W, x) \/ Has(W[h], x)
  PROVE  LET V == [W EXCEPT ![h] = s]
         IN  /\ V \in [Heads -> Seq(Nodes)] /\ V[h] = s /\ \A g \in Heads \ {h} : V[g] = W[g]
             /\ Disjoint(V)
             /\ \A g \in Heads \ {h}, x \in Nodes : Has(W[g], x) => ~Has(s, x) /\ ~Has(W[h], x)
             /\ \A x \in Nodes : OnNone(V, x) => ~Has(s, x) /\ (OnNone(W, x) \/ Has(W[h], x))
<1> DEFINE V == [W EXCEPT ![h] = s]
<1>1. V \in [Heads -> Seq(Nodes)] /\ V[h] = s /\ \A g \in Heads \ {h} : V[g] = W[g]
  OBVIOUS
<1> HIDE DEF V
<1>2. \A g \in Heads \ {h}, x \in Nodes : Has(W[g], x) => ~Has(s, x) /\ ~Has(W[h], x)
  BY DEF OnNone, Disjoint
<1>3. Disjoint(V)
  <2> SUFFICES ASSUME NEW f \in Heads, NEW g \in Heads, NEW x \in Nodes, Has(V[f], x), Has(V[g], x)
               PROVE  f = g
    BY DEF Disjoint
  <2>1. CASE f = h /\ g # h  BY <2>1, <1>1, <1>2
  <2>2. CASE f # h /\ g = h  BY <2>2, <1>1, <1>2
  <2>3. CASE f # h /\ g # h  BY <2>3, <1>1 DEF Disjoint
  <2> QED  BY <2>1, <2>2, <2>3
<1>4. ASSUME NEW x \in Nodes, OnNone(V, x) PROVE ~Has(s, x) /\ (OnNone(W, x) \/ Has(W[h], x))
  <2>1. ~Has(s, x)  BY <1>1, <1>4 DEF OnNone
  <2>2. \A g \in Heads \ {h} : ~Has(W[g], x)  BY <1>1, <1>4 DEF OnNone
  <2> QED  BY <2>1, <2>2 DEF OnNone
<1> QED  BY <1>1, <1>2, <1>3, <1>4 DEF V

\* One wheel changes, into entries it had or that were on none.
LEMMA WheelsUpdate ==
  ASSUME NEW p, NEW W, Wheels(p, W), NEW h \in Heads, NEW r \in Memory(Nodes),
         NEW s, Wheel(Nodes, r, s),
         \A x \in Nodes : Has(s, x) => OnNone(W, x) \/ Has(W[h], x),
         \A x \in Nodes : ~Has(W[h], x) /\ ~Has(s, x) => SameCell(p, r, x),
         \A x \in Nodes : Has(W[h], x) /\ ~Has(s, x) => Rests(r, x)
  PROVE  Wheels(r, [W EXCEPT ![h] = s])
<1> DEFINE V == [W EXCEPT ![h] = s]
<1>1. W \in [Heads -> Seq(Nodes)] /\ Disjoint(W) /\ s \in Seq(Nodes)
  BY DEF Wheels, Wheel
<1>2. /\ V \in [Heads -> Seq(Nodes)] /\ V[h] = s /\ \A g \in Heads \ {h} : V[g] = W[g]
      /\ Disjoint(V)
      /\ \A g \in Heads \ {h}, x \in Nodes : Has(W[g], x) => ~Has(s, x) /\ ~Has(W[h], x)
      /\ \A x \in Nodes : OnNone(V, x) => ~Has(s, x) /\ (OnNone(W, x) \/ Has(W[h], x))
  BY <1>1, ChangedOne
<1> HIDE DEF V
<1>3. ASSUME NEW g \in Heads PROVE Wheel(Nodes, r, V[g])
  <2>1. CASE g = h  BY <2>1, <1>2
  <2>2. CASE g # h
    <3>1. Wheel(Nodes, p, W[g])  BY DEF Wheels
    <3>2. ASSUME NEW k \in 1..Len(W[g]) PROVE SameCell(p, r, W[g][k])
      <4>1. W[g][k] \in Nodes /\ Has(W[g], W[g][k])  BY <1>1, ElementOfSeq DEF Has
      <4> QED  BY <4>1, <2>2, <1>2
    <3> QED  BY <3>1, <3>2, <2>2, <1>2, WheelLeftAlone
  <2> QED  BY <2>1, <2>2
<1>4. ASSUME NEW x \in Nodes, OnNone(V, x) PROVE Rests(r, x)
  <2>1. ~Has(s, x) /\ (OnNone(W, x) \/ Has(W[h], x))  BY <1>2, <1>4
  <2>2. CASE Has(W[h], x)  BY <2>1, <2>2
  <2>3. CASE ~Has(W[h], x)
    <3>1. Rests(p, x) /\ SameCell(p, r, x)  BY <2>1, <2>3 DEF Wheels
    <3> QED  BY <3>1 DEF Rests, SameCell
  <2> QED  BY <2>2, <2>3
<1>5. Wheels(r, V)
  BY <1>2, <1>3, <1>4 DEF Wheels
<1> QED  BY <1>5 DEF V

\* A node on no prio_list gets on one, between two neighbours.
LEMMA WheelsAdd ==
  ASSUME NEW p, NEW W, Wheels(p, W), NEW h \in Heads, NEW n \in Nodes, OnNone(W, n),
         NEW a \in 1..Len(W[h]), NEW b \in 1..Len(W[h]), Turn(a, b, Len(W[h])),
         NEW i \in 1..(Len(W[h])+1), i = a+1 \/ (i = 1 /\ b = 1)
  PROVE  LET V == [W EXCEPT ![h] = InsertAt(W[h], i, n)]
         IN  /\ list_add(p, n, W[h][a]) = list_add_tail(p, n, W[h][b])
             /\ Wheels(list_add(p, n, W[h][a]), V)
<1> DEFINE w == W[h]
           r == __list_add(p, n, w[a], w[b])
           s == InsertAt(w, i, n)
<1>1. p \in Memory(Nodes) /\ Wheel(Nodes, p, w) /\ w \in Seq(Nodes)
  BY DEF Wheels
<1>2. \A k \in 1..Len(w) : w[k] # n /\ w[k] \in Nodes
  <2>1. \A k \in 1..Len(w) : w[k] # n  BY DEF OnNone, Has
  <2> HIDE DEF w
  <2> QED  BY <2>1, <1>1, ElementOfSeq
<1>3. /\ r \in Memory(Nodes) /\ Wheel(Nodes, r, s)
      /\ \A x \in Nodes : x # n /\ x # w[a] /\ x # w[b] => SameCell(p, r, x)
  <2> HIDE DEF w
  <2>1. a \in 1..Len(w) /\ b \in 1..Len(w) /\ Turn(a, b, Len(w)) /\ i \in 1..(Len(w)+1)
    BY DEF w
  <2>2. /\ __list_add(p, n, w[a], w[b]) \in Memory(Nodes)
        /\ Wheel(Nodes, __list_add(p, n, w[a], w[b]), InsertAt(w, i, n))
        /\ \A x \in Nodes : x # n /\ x # w[a] /\ x # w[b] => SameCell(p, __list_add(p, n, w[a], w[b]), x)
    BY <1>1, <1>2, <2>1, WheelAdd
  <2> QED  BY <2>2
<1>4. p.next[w[a]] = w[b] /\ p.prev[w[b]] = w[a]
  BY <1>1 DEF Wheel
<1>5. list_add(p, n, w[a]) = r /\ list_add_tail(p, n, w[b]) = r
  BY <1>4 DEF list_add, list_add_tail
<1>6. \A x : Has(s, x) <=> x = n \/ Has(w, x)
  <2> HIDE DEF w
  <2>1. i \in 1..(Len(w)+1)  BY DEF w
  <2> QED  BY <1>1, <2>1, InsertIndex
<1>7. Has(w, w[a]) /\ Has(w, w[b])
  BY DEF Has
<1> HIDE DEF r, s
<1>8. Wheels(r, [W EXCEPT ![h] = s])
  <2>1. \A x \in Nodes : Has(s, x) => OnNone(W, x) \/ Has(W[h], x)
    BY <1>6
  <2>2. \A x \in Nodes : ~Has(W[h], x) /\ ~Has(s, x) => SameCell(p, r, x)
    BY <1>3, <1>6, <1>7
  <2>3. \A x \in Nodes : Has(W[h], x) /\ ~Has(s, x) => Rests(r, x)
    BY <1>6
  <2> QED  BY <1>3, <2>1, <2>2, <2>3, WheelsUpdate
<1> QED  BY <1>5, <1>8 DEF s, w

\* A node leaves a prio_list of two or more, and is linked to itself.
LEMMA WheelsDel ==
  ASSUME NEW p, NEW W, Wheels(p, W), NEW h \in Heads, NEW i \in 1..Len(W[h]), Len(W[h]) # 1
  PROVE  Wheels(list_del_init(p, W[h][i]), [W EXCEPT ![h] = RemoveAt(W[h], i)])
<1> DEFINE w == W[h]
           e == w[i]
           d == __list_del_entry(p, e)
           r == INIT_LIST_HEAD(d, e)
           s == RemoveAt(w, i)
<1>1. /\ p \in Memory(Nodes) /\ Wheel(Nodes, p, w) /\ w \in Seq(Nodes)
      /\ \A k, j \in 1..Len(w) : w[k] = w[j] => k = j
  BY DEF Wheels, Wheel
<1>2. e \in Nodes /\ Has(w, e)
  BY <1>1, ElementOfSeq DEF Has
<1>3. /\ d \in Memory(Nodes) /\ Wheel(Nodes, d, s)
      /\ \A x \in Nodes : ~Has(w, x) => SameCell(p, d, x)
  <2> HIDE DEF w
  <2>1. i \in 1..Len(w) /\ Len(w) # 1  BY DEF w
  <2>2. /\ __list_del_entry(p, w[i]) \in Memory(Nodes) /\ Wheel(Nodes, __list_del_entry(p, w[i]), RemoveAt(w, i))
        /\ \A x \in Nodes : (\A k \in 1..Len(w) : w[k] # x) => SameCell(p, __list_del_entry(p, w[i]), x)
    BY <1>1, <2>1, WheelDel
  <2> QED  BY <2>2 DEF Has
<1>4. \A x : Has(s, x) <=> Has(w, x) /\ x # e
  <2> HIDE DEF w
  <2>1. i \in 1..Len(w)  BY DEF w
  <2> QED  BY <1>1, <2>1, RemoveHas
<1> HIDE DEF d
<1>5. r \in Memory(Nodes) /\ Rests(r, e) /\ \A y \in Nodes \ {e} : SameCell(d, r, y)
  BY <1>2, <1>3, InitRests
<1> HIDE DEF r, s, e
<1>6. Wheel(Nodes, r, s)
  <2>1. ASSUME NEW k \in 1..Len(s) PROVE SameCell(d, r, s[k])
    <3>1. s[k] # e /\ s[k] \in Nodes
      <4>1. Has(s, s[k])  BY DEF Has
      <4>2. s \in Seq(Nodes)  BY <1>3 DEF Wheel
      <4> QED  BY <4>1, <4>2, <1>4, ElementOfSeq
    <3> QED  BY <3>1, <1>5
  <2> QED  BY <2>1, <1>3, WheelLeftAlone
<1>7. Wheels(r, [W EXCEPT ![h] = s])
  <2>1. \A x \in Nodes : Has(s, x) => OnNone(W, x) \/ Has(W[h], x)
    BY <1>4
  <2>2. \A x \in Nodes : ~Has(W[h], x) /\ ~Has(s, x) => SameCell(p, r, x)
    BY <1>2, <1>3, <1>5 DEF SameCell
  <2>3. \A x \in Nodes : Has(W[h], x) /\ ~Has(s, x) => Rests(r, x)
    BY <1>4, <1>5
  <2> QED  BY <1>5, <1>6, <2>1, <2>2, <2>3, WheelsUpdate
<1>8. r = list_del_init(p, e)
  BY DEF list_del_init, r, d
<1> QED  BY <1>7, <1>8 DEF s, e

\* A prio_list of one entry or none is nothing to the memory: the entry is linked
\* to itself, as a node on none is.
LEMMA WheelsFew ==
  ASSUME NEW p, NEW W, Wheels(p, W), NEW h \in Heads, Len(W[h]) = 0 \/ Len(W[h]) = 1
  PROVE  /\ \A x : Has(W[h], x) => Rests(p, x)
         /\ Wheels(p, [W EXCEPT ![h] = <<>>])
         /\ \A x \in Nodes : OnNone(W, x) => Wheels(p, [W EXCEPT ![h] = <<x>>])
<1>1. p \in Memory(Nodes) /\ Wheel(Nodes, p, W[h])
  BY DEF Wheels
<1>2. ASSUME NEW x, Has(W[h], x) PROVE Rests(p, x)
  <2>1. PICK k \in 1..Len(W[h]) : W[h][k] = x  BY <1>2 DEF Has
  <2>2. k = 1 /\ Len(W[h]) = 1
    <3>1. CASE Len(W[h]) = 0
      <4>1. k \in 1..0  BY <3>1
      <4> QED  BY <4>1
    <3>2. CASE Len(W[h]) = 1
      <4>1. k \in 1..1  BY <3>2
      <4> QED  BY <3>2, <4>1
    <3> QED  BY <3>1, <3>2
  <2>3. Turn(k, k, Len(W[h]))  BY <2>2 DEF Turn
  <2> QED  BY <2>1, <2>3, <1>1 DEF Wheel, Rests
<1>3. \A x \in Nodes : SameCell(p, p, x)
  BY DEF SameCell
<1>4. Wheels(p, [W EXCEPT ![h] = <<>>])
  <2> DEFINE s == <<>>
  <2>0. Len(<<>>) = 0 /\ 1..0 = {}
    OBVIOUS
  <2>1. s \in Seq(Nodes) /\ Len(s) = 0 /\ \A x : ~Has(s, x)
    BY <2>0 DEF Has
  <2> HIDE DEF s
  <2>2. Wheel(Nodes, p, s)
    BY <2>1 DEF Wheel
  <2>3. Wheels(p, [W EXCEPT ![h] = s])
    BY <1>1, <1>2, <1>3, <2>1, <2>2, WheelsUpdate
  <2> QED  BY <2>3 DEF s
<1>5. ASSUME NEW x \in Nodes, OnNone(W, x) PROVE Wheels(p, [W EXCEPT ![h] = <<x>>])
  <2> DEFINE s == <<x>>
  <2>1. s \in Seq(Nodes) /\ Len(s) = 1 /\ s[1] = x /\ \A y : Has(s, y) <=> y = x
    BY ShortSeqs
  <2>2. Rests(p, x)
    BY <1>5 DEF Wheels
  <2> HIDE DEF s
  <2>3. Wheel(Nodes, p, s)
    BY <2>1, <2>2 DEF Wheel, Rests
  <2>4. Wheels(p, [W EXCEPT ![h] = s])
    BY <1>1, <1>2, <1>3, <1>5, <2>1, <2>3, WheelsUpdate
  <2> QED  BY <2>4 DEF s
<1> QED  BY <1>2, <1>4, <1>5

-----------------------------------------------------------------------------
(* The node_lists of all heads in one memory.                              *)

Cells == Heads \cup Nodes

\* The memory m holds the lists Q, and every other node is linked to itself.
Queues(m, Q) ==
  /\ m \in Memory(Cells)
  /\ Q \in [Heads -> Seq(Nodes)]
  /\ \A h \in Heads : Circle(Cells, h, Q[h]) /\ Ring(m, h, Q[h])
  /\ Disjoint(Q)
  /\ \A x \in Nodes : OnNone(Q, x) => Rests(m, x)

LEMMA QueueFacts ==
  ASSUME NEW m, NEW Q, Queues(m, Q), NEW h \in Heads
  PROVE  /\ h \in Cells /\ h \notin Nodes /\ Nodes \subseteq Cells
         /\ Q[h] \in Seq(Nodes) /\ Len(Q[h]) \in Nat
         /\ Circle(Cells, h, Q[h]) /\ Ring(m, h, Q[h])
         /\ \A k \in 1..Len(Q[h]) : Q[h][k] \in Nodes /\ Q[h][k] # h
         /\ \A j, k \in 1..Len(Q[h]) : Q[h][j] = Q[h][k] => j = k
         /\ \A i : At(h, Q[h], i) \in Cells
         /\ \A i : At(h, Q[h], i) = h \/ Has(Q[h], At(h, Q[h], i))
<1>1. h \in Cells /\ h \notin Nodes /\ Nodes \subseteq Cells
  BY PlistAssumption DEF Cells
<1>2. Q[h] \in Seq(Nodes) /\ Circle(Cells, h, Q[h]) /\ Ring(m, h, Q[h])
  BY DEF Queues
<1> DEFINE q == Q[h]
<1> HIDE DEF q
<1>3. q \in Seq(Nodes) /\ Circle(Cells, h, q)
  BY <1>2 DEF q
<1>4. Len(q) \in Nat /\ \A k \in 1..Len(q) : q[k] \in Nodes /\ q[k] # h
  BY <1>1, <1>3, LenProperties, ElementOfSeq
<1>5. \A j, k \in 1..Len(q) : q[j] = q[k] => j = k
  BY <1>3 DEF Circle
<1>6. \A i : At(h, q, i) \in Cells /\ (At(h, q, i) = h \/ Has(q, At(h, q, i)))
  BY <1>1, <1>4 DEF At, Has
<1> QED  BY <1>1, <1>2, <1>4, <1>5, <1>6 DEF q

\* One list changes, into entries it had or that were on none.
LEMMA QueuesUpdate ==
  ASSUME NEW m, NEW Q, Queues(m, Q), NEW h \in Heads, NEW r \in Memory(Cells),
         NEW s \in Seq(Nodes), Circle(Cells, h, s), Ring(r, h, s),
         \A x \in Nodes : Has(s, x) => OnNone(Q, x) \/ Has(Q[h], x),
         \A x \in Cells : x # h /\ ~Has(Q[h], x) /\ ~Has(s, x) => SameCell(m, r, x),
         \A x \in Nodes : Has(Q[h], x) /\ ~Has(s, x) => Rests(r, x)
  PROVE  Queues(r, [Q EXCEPT ![h] = s])
<1> DEFINE V == [Q EXCEPT ![h] = s]
<1>1. Q \in [Heads -> Seq(Nodes)] /\ Disjoint(Q)
  BY DEF Queues
<1>2. /\ V \in [Heads -> Seq(Nodes)] /\ V[h] = s /\ \A g \in Heads \ {h} : V[g] = Q[g]
      /\ Disjoint(V)
      /\ \A g \in Heads \ {h}, x \in Nodes : Has(Q[g], x) => ~Has(s, x) /\ ~Has(Q[h], x)
      /\ \A x \in Nodes : OnNone(V, x) => ~Has(s, x) /\ (OnNone(Q, x) \/ Has(Q[h], x))
  BY <1>1, ChangedOne
<1> HIDE DEF V
<1>3. ASSUME NEW g \in Heads PROVE Circle(Cells, g, V[g]) /\ Ring(r, g, V[g])
  <2>1. CASE g = h  BY <2>1, <1>2
  <2>2. CASE g # h
    <3>1. Circle(Cells, g, Q[g]) /\ Ring(m, g, Q[g])  BY QueueFacts
    <3>2. ASSUME NEW x \in Around(g, Q[g]) PROVE SameCell(m, r, x)
      <4>1. x \in Cells /\ (x = g \/ Has(Q[g], x))
        <5>1. g \in Cells /\ \A k \in 1..Len(Q[g]) : Q[g][k] \in Cells  BY QueueFacts
        <5>2. x = g \/ \E k \in 1..Len(Q[g]) : x = Q[g][k]  BY DEF Around
        <5> QED  BY <5>1, <5>2 DEF Has
      <4>2. CASE x = g
        <5>1. g \notin Nodes  BY QueueFacts
        <5>2. ~Has(Q[h], g)  BY <5>1, QueueFacts DEF Has
        <5>3. ~Has(s, g)  BY <5>1, ElementOfSeq DEF Has
        <5> QED  BY <4>1, <4>2, <5>2, <5>3, <2>2
      <4>3. CASE Has(Q[g], x)
        <5>1. x \in Nodes  BY <4>3, QueueFacts DEF Has
        <5>2. ~Has(s, x) /\ ~Has(Q[h], x) /\ x # h  BY <5>1, <4>3, <2>2, <1>2, QueueFacts
        <5> QED  BY <4>1, <5>2
      <4> QED  BY <4>1, <4>2, <4>3
    <3>3. Ring(r, g, Q[g])  BY <3>1, <3>2, CircleLeftAlone
    <3> QED  BY <3>1, <3>3, <2>2, <1>2
  <2> QED  BY <2>1, <2>2
<1>4. ASSUME NEW x \in Nodes, OnNone(V, x) PROVE Rests(r, x)
  <2>1. ~Has(s, x) /\ (OnNone(Q, x) \/ Has(Q[h], x))  BY <1>2, <1>4
  <2>2. CASE Has(Q[h], x)  BY <2>1, <2>2
  <2>3. CASE ~Has(Q[h], x)
    <3>0. x \in Cells /\ x # h  BY QueueFacts
    <3>1. Rests(m, x) /\ SameCell(m, r, x)  BY <2>1, <2>3, <3>0 DEF Queues
    <3> QED  BY <3>1 DEF Rests, SameCell
  <2> QED  BY <2>2, <2>3
<1>5. Queues(r, V)
  BY <1>2, <1>3, <1>4 DEF Queues
<1> QED  BY <1>5 DEF V

\* list_add_tail() in front of the entry at position i, or of the head.
LEMMA QueueAdd ==
  ASSUME NEW m, NEW Q, Queues(m, Q), NEW h \in Heads, NEW n \in Nodes, OnNone(Q, n),
         NEW i \in 1..(Len(Q[h])+1)
  PROVE  Queues(list_add_tail(m, n, At(h, Q[h], i)), [Q EXCEPT ![h] = InsertAt(Q[h], i, n)])
<1> DEFINE q == Q[h]
<1>1. /\ h \in Cells /\ h \notin Nodes /\ n \in Cells \ {h} /\ m \in Memory(Cells)
      /\ q \in Seq(Nodes) /\ Len(q) \in Nat /\ Circle(Cells, h, q) /\ Ring(m, h, q)
      /\ \A k : At(h, q, k) \in Cells /\ (At(h, q, k) = h \/ Has(q, At(h, q, k)))
  BY QueueFacts DEF Queues
<1>2. \A k \in 1..Len(q) : q[k] # n
  BY DEF OnNone, Has
<1>3. i \in 1..(Len(q)+1)
  OBVIOUS
<1> HIDE DEF q
<1> DEFINE p == At(h, q, i-1)
           t == At(h, q, i)
           r == __list_add(m, n, p, t)
           s == InsertAt(q, i, n)
<1>4. Circle(Cells, h, s) /\ Ring(r, h, s)
  BY <1>1, <1>2, <1>3, CircleAdd
<1>5. s \in Seq(Nodes) /\ \A x : Has(s, x) <=> x = n \/ Has(q, x)
  BY <1>1, <1>3, InsertIndex
<1>6. p \in Cells /\ t \in Cells /\ m.prev[t] = p /\ (p = h \/ Has(q, p)) /\ (t = h \/ Has(q, t))
  <2>1. m.prev[t] = p
    <3>1. PICK k \in 0..Len(q) : k = i-1 /\ k+1 = i  BY <1>1, <1>3
    <3> QED  BY <3>1, <1>1 DEF Ring
  <2> QED  BY <2>1, <1>1
<1>7. list_add_tail(m, n, t) = r
  BY <1>6 DEF list_add_tail
<1> HIDE DEF p, t
<1>8. r \in Memory(Cells) /\ \A x \in Cells : x # n /\ x # p /\ x # t => SameCell(m, r, x)
  BY <1>1, <1>6 DEF Memory, SetNext, SetPrev, __list_add, SameCell
<1> HIDE DEF r, s
<1>9. Queues(r, [Q EXCEPT ![h] = s])
  <2>1. \A x \in Nodes : Has(s, x) => OnNone(Q, x) \/ Has(Q[h], x)
    BY <1>5 DEF q
  <2>2. \A x \in Cells : x # h /\ ~Has(Q[h], x) /\ ~Has(s, x) => SameCell(m, r, x)
    BY <1>5, <1>6, <1>8 DEF q
  <2>3. \A x \in Nodes : Has(Q[h], x) /\ ~Has(s, x) => Rests(r, x)
    BY <1>5 DEF q
  <2> QED  BY <1>4, <1>5, <1>8, <2>1, <2>2, <2>3, QueuesUpdate
<1> QED  BY <1>7, <1>9 DEF s, t, q

\* list_del_init() of the entry at position i.
LEMMA QueueDel ==
  ASSUME NEW m, NEW Q, Queues(m, Q), NEW h \in Heads, NEW i \in 1..Len(Q[h])
  PROVE  Queues(list_del_init(m, Q[h][i]), [Q EXCEPT ![h] = RemoveAt(Q[h], i)])
<1> DEFINE q == Q[h]
<1>1. /\ h \in Cells /\ h \notin Nodes /\ Nodes \subseteq Cells /\ m \in Memory(Cells)
      /\ q \in Seq(Nodes) /\ Len(q) \in Nat /\ Circle(Cells, h, q) /\ Ring(m, h, q)
      /\ \A k \in 1..Len(q) : q[k] \in Nodes /\ q[k] # h
      /\ \A j, k \in 1..Len(q) : q[j] = q[k] => j = k
      /\ \A k : At(h, q, k) \in Cells /\ (At(h, q, k) = h \/ Has(q, At(h, q, k)))
  <2>1. m \in Memory(Cells)  BY DEF Queues
  <2> QED  BY <2>1, QueueFacts
<1>2. i \in 1..Len(q)
  OBVIOUS
<1> HIDE DEF q
<1> DEFINE e == q[i]
           p == At(h, q, i-1)
           t == At(h, q, i+1)
           d == __list_del_entry(m, e)
           s == RemoveAt(q, i)
           r == INIT_LIST_HEAD(d, e)
<1>3. Circle(Cells, h, s) /\ Ring(d, h, s) /\ d = __list_del(m, p, t)
  BY <1>1, <1>2, CircleDel
<1>4. s \in Seq(Nodes) /\ \A x : Has(s, x) <=> Has(q, x) /\ x # e
  <2> HIDE DEF e
  <2>0. q \in Seq(Nodes) /\ i \in 1..Len(q) /\ \A j, k \in 1..Len(q) : q[j] = q[k] => j = k
    BY <1>1, <1>2
  <2>1. RemoveAt(q, i) \in Seq(Nodes)
    BY <2>0, RemoveIndex
  <2>2. \A x : Has(RemoveAt(q, i), x) <=> Has(q, x) /\ x # q[i]
    BY <2>0, RemoveHas
  <2> QED  BY <2>1, <2>2 DEF e
<1>5. /\ e \in Nodes /\ e # h /\ Has(q, e)
      /\ p \in Cells /\ t \in Cells /\ (p = h \/ Has(q, p)) /\ (t = h \/ Has(q, t))
  BY <1>1, <1>2 DEF Has
<1> HIDE DEF p, t, d
<1>6. d \in Memory(Cells) /\ \A x \in Cells : x # p /\ x # t => SameCell(m, d, x)
  BY <1>1, <1>3, <1>5 DEF Memory, SetNext, SetPrev, __list_del, SameCell
<1>7. r \in Memory(Cells) /\ Rests(r, e) /\ \A y \in Cells \ {e} : SameCell(d, r, y)
  BY <1>1, <1>5, <1>6, InitRests
<1> HIDE DEF r, s, e
<1>8. Ring(r, h, s)
  <2>1. ASSUME NEW x \in Around(h, s) PROVE SameCell(d, r, x)
    <3>1. x \in Cells /\ (x = h \/ Has(s, x))
      BY <1>1, <1>3, CircleCells DEF Around, At, Has
    <3> QED  BY <3>1, <1>4, <1>5, <1>7
  <2> QED  BY <2>1, <1>3, CircleLeftAlone
<1>9. Queues(r, [Q EXCEPT ![h] = s])
  <2>1. \A x \in Nodes : Has(s, x) => OnNone(Q, x) \/ Has(Q[h], x)
    BY <1>4 DEF q
  <2>2. \A x \in Cells : x # h /\ ~Has(Q[h], x) /\ ~Has(s, x) => SameCell(m, r, x)
    BY <1>4, <1>5, <1>6, <1>7 DEF q, SameCell
  <2>3. \A x \in Nodes : Has(Q[h], x) /\ ~Has(s, x) => Rests(r, x)
    BY <1>4, <1>7 DEF q
  <2> QED  BY <1>3, <1>4, <1>7, <1>8, <2>1, <2>2, <2>3, QueuesUpdate
<1>10. r = list_del_init(m, e)
  BY DEF list_del_init, r, d
<1> QED  BY <1>9, <1>10 DEF s, e, q

\* The loops over the list of a head, its ends, and the neighbours of an entry.
LEMMA QueueReads ==
  ASSUME NEW m, NEW Q, Queues(m, Q), NEW h \in Heads
  PROVE  /\ list_for_each(m, h) = Q[h]
         /\ m.next[h] = At(h, Q[h], 1) /\ m.prev[h] = At(h, Q[h], Len(Q[h]))
         /\ \A i \in 1..Len(Q[h]) : m.next[Q[h][i]] = At(h, Q[h], i+1)
         /\ m.next[h] = h <=> Len(Q[h]) = 0
<1> DEFINE q == Q[h]
<1>1. /\ h \in Cells /\ Len(q) \in Nat /\ Circle(Cells, h, q) /\ Ring(m, h, q)
      /\ \A k \in 1..Len(q) : q[k] \in Nodes /\ q[k] # h
  BY QueueFacts
<1>2. IsFiniteSet(Cells) /\ DOMAIN m.next = Cells /\ DOMAIN m.prev = Cells
  BY PlistAssumption DEF Cells, Queues, Memory
<1> HIDE DEF q
<1>3. list_for_each(m, h) = q
  BY <1>1, <1>2, CircleLoops
<1>4. At(h, q, 0) = h /\ At(h, q, Len(q)+1) = h /\ \A i \in 1..Len(q) : At(h, q, i) = q[i]
  BY <1>1, CircleCells
<1>5. m.next[h] = At(h, q, 1)
  <2>1. 0 \in 0..Len(q) /\ 0+1 = 1  BY <1>1
  <2> QED  BY <2>1, <1>1, <1>4 DEF Ring
<1>6. m.prev[h] = At(h, q, Len(q))
  <2>1. Len(q) \in 0..Len(q)  BY <1>1
  <2> QED  BY <2>1, <1>1, <1>4 DEF Ring
<1>7. \A i \in 1..Len(q) : m.next[q[i]] = At(h, q, i+1)
  <2>1. \A i \in 1..Len(q) : i \in 0..Len(q)  OBVIOUS
  <2> QED  BY <2>1, <1>1, <1>4 DEF Ring
<1>8. m.next[h] = h <=> Len(q) = 0
  <2>1. CASE Len(q) = 0
    <3>1. Len(q)+1 = 1  BY <2>1
    <3> QED  BY <3>1, <2>1, <1>4, <1>5
  <2>2. CASE Len(q) # 0
    <3>1. 1 \in 1..Len(q)  BY <2>2, <1>1
    <3> QED  BY <3>1, <2>2, <1>1, <1>4, <1>5
  <2> QED  BY <2>1, <2>2
<1> QED  BY <1>3, <1>5, <1>6, <1>7, <1>8 DEF q

-----------------------------------------------------------------------------
(* The order of a list q and of the prio_list w that goes with it, when the *)
(* priorities are pr.                                                      *)

Sorted(q, pr) == \A i, j \in 1..Len(q) : i < j => pr[q[i]] <= pr[q[j]]

\* No entry before position i of q has the priority of the one that is there.
LeadsAt(q, pr, i) == \A l \in 1..Len(q) : l < i => pr[q[l]] # pr[q[i]]

\* The entries of w are the first of q of each priority, in the order of q.
Leads(w, q, pr) ==
  /\ \A k \in 1..Len(w) : \E i \in 1..Len(q) : w[k] = q[i] /\ LeadsAt(q, pr, i)
  /\ \A i \in 1..Len(q) : \E k \in 1..Len(w) : pr[w[k]] = pr[q[i]]
  /\ \A j, k \in 1..Len(w) : j < k => pr[w[j]] < pr[w[k]]

\* Position i of q is behind all the entries to be served before n, or of the
\* priority of n, and in front of the others.
Slot(q, pr, i, n) == \A l \in 1..Len(q) : l < i <=> pr[q[l]] <= pr[n]

\* Adding at its slot keeps a list in order.
LEMMA SlotSorted ==
  ASSUME NEW pr \in [Nodes -> Int], NEW q \in Seq(Nodes), Sorted(q, pr), NEW n \in Nodes,
         NEW i \in 1..(Len(q)+1), Slot(q, pr, i, n)
  PROVE  Sorted(InsertAt(q, i, n), pr)
<1> DEFINE s == InsertAt(q, i, n)
<1>1. /\ s[i] = n /\ Len(q) \in Nat /\ Len(s) = Len(q) + 1
      /\ \A k \in 1..Len(s) : k # i => \E x \in 1..Len(q) : s[k] = q[x] /\ x = IF k < i THEN k ELSE k-1
  <2>1. Inserted(q, i, n, s)  BY InsertIndex
  <2> HIDE DEF s
  <2> QED  BY <2>1 DEF Inserted
<1> HIDE DEF s
<1>2. pr[n] \in Int /\ \A k \in 1..Len(q) : pr[q[k]] \in Int
  BY ElementOfSeq
<1>3. ASSUME NEW k \in 1..Len(s), NEW l \in 1..Len(s), k < l PROVE pr[s[k]] <= pr[s[l]]
  <2>1. CASE k = i
    <3>1. PICK y \in 1..Len(q) : s[l] = q[y] /\ y = IF l < i THEN l ELSE l-1  BY <2>1, <1>1, <1>3
    <3>2. ~(y < i)  BY <2>1, <3>1, <1>3
    <3>3. ~(pr[q[y]] <= pr[n])  BY <3>2 DEF Slot
    <3> QED  BY <3>1, <3>3, <2>1, <1>1, <1>2
  <2>2. CASE l = i
    <3>1. PICK x \in 1..Len(q) : s[k] = q[x] /\ x = IF k < i THEN k ELSE k-1  BY <2>2, <1>1, <1>3
    <3>2. x < i  BY <2>2, <3>1, <1>3
    <3>3. pr[q[x]] <= pr[n]  BY <3>2 DEF Slot
    <3> QED  BY <3>1, <3>3, <2>2, <1>1
  <2>3. CASE k # i /\ l # i
    <3>1. PICK x \in 1..Len(q) : s[k] = q[x] /\ x = IF k < i THEN k ELSE k-1  BY <2>3, <1>1
    <3>2. PICK y \in 1..Len(q) : s[l] = q[y] /\ y = IF l < i THEN l ELSE l-1  BY <2>3, <1>1
    <3>3. x < y  BY <3>1, <3>2, <2>3, <1>3
    <3> QED  BY <3>1, <3>2, <3>3 DEF Sorted
  <2> QED  BY <2>1, <2>2, <2>3
<1> QED  BY <1>3 DEF Sorted, s

\* The entry is not the first of its priority.
LEMMA LeadsInsertOld ==
  ASSUME NEW pr \in [Nodes -> Int], NEW q \in Seq(Nodes), NEW w, Leads(w, q, pr),
         NEW n \in Nodes, NEW i \in 1..(Len(q)+1), Slot(q, pr, i, n),
         \E k \in 1..Len(w) : pr[w[k]] = pr[n]
  PROVE  Leads(w, InsertAt(q, i, n), pr)
<1> DEFINE s == InsertAt(q, i, n)
<1>1. /\ s[i] = n /\ Len(q) \in Nat /\ Len(s) = Len(q) + 1
      /\ \A x \in 1..Len(q) : \E k \in 1..Len(s) : s[k] = q[x] /\ k = IF x < i THEN x ELSE x+1
      /\ \A k \in 1..Len(s) : k # i => \E x \in 1..Len(q) : s[k] = q[x] /\ x = IF k < i THEN k ELSE k-1
  <2>1. Inserted(q, i, n, s)  BY InsertIndex
  <2> HIDE DEF s
  <2> QED  BY <2>1 DEF Inserted
<1> HIDE DEF s
<1>2. pr[n] \in Int /\ \A k \in 1..Len(q) : pr[q[k]] \in Int
  BY ElementOfSeq
<1>3. ASSUME NEW k \in 1..Len(w) PROVE \E y \in 1..Len(s) : w[k] = s[y] /\ LeadsAt(s, pr, y)
  <2>1. PICK x \in 1..Len(q) : w[k] = q[x] /\ LeadsAt(q, pr, x)  BY DEF Leads
  <2>2. PICK y \in 1..Len(s) : s[y] = q[x] /\ y = IF x < i THEN x ELSE x+1  BY <1>1
  <2>3. ASSUME NEW l \in 1..Len(s), l < y PROVE pr[s[l]] # pr[s[y]]
    <3>1. CASE l = i
      <4>1. ~(x < i)  BY <3>1, <2>2, <2>3
      <4>2. ~(pr[q[x]] <= pr[n])  BY <4>1 DEF Slot
      <4> QED  BY <4>2, <3>1, <2>2, <1>1, <1>2
    <3>2. CASE l # i
      <4>1. PICK z \in 1..Len(q) : s[l] = q[z] /\ z = IF l < i THEN l ELSE l-1  BY <3>2, <1>1
      <4>2. z < x  BY <4>1, <2>2, <2>3, <3>2, SMTT(20)
      <4> QED  BY <4>1, <4>2, <2>1, <2>2 DEF LeadsAt
    <3> QED  BY <3>1, <3>2
  <2> QED  BY <2>1, <2>2, <2>3 DEF LeadsAt
<1>4. ASSUME NEW y \in 1..Len(s) PROVE \E k \in 1..Len(w) : pr[w[k]] = pr[s[y]]
  <2>1. CASE y = i  BY <2>1, <1>1
  <2>2. CASE y # i
    <3>1. PICK x \in 1..Len(q) : s[y] = q[x]  BY <2>2, <1>1
    <3> QED  BY <3>1 DEF Leads
  <2> QED  BY <2>1, <2>2
<1> QED  BY <1>3, <1>4 DEF Leads, s

\* The entry is the only one of its priority, and gets on w at t, behind those of
\* smaller priorities and in front of those of larger ones.
LEMMA LeadsInsertNew ==
  ASSUME NEW pr \in [Nodes -> Int], NEW q \in Seq(Nodes), NEW w \in Seq(Nodes), Leads(w, q, pr),
         NEW n \in Nodes, NEW i \in 1..(Len(q)+1), Slot(q, pr, i, n),
         NEW t \in 1..(Len(w)+1),
         \A k \in 1..Len(w) : k < t => pr[w[k]] < pr[n],
         \A k \in 1..Len(w) : ~(k < t) => pr[n] < pr[w[k]]
  PROVE  Leads(InsertAt(w, t, n), InsertAt(q, i, n), pr)
<1> DEFINE s == InsertAt(q, i, n)
           v == InsertAt(w, t, n)
<1>1. /\ s[i] = n /\ i \in 1..Len(s) /\ Len(q) \in Nat /\ Len(s) = Len(q) + 1
      /\ \A x \in 1..Len(q) : \E k \in 1..Len(s) : s[k] = q[x] /\ k = IF x < i THEN x ELSE x+1
      /\ \A k \in 1..Len(s) : k # i => \E x \in 1..Len(q) : s[k] = q[x] /\ x = IF k < i THEN k ELSE k-1
  <2>1. Inserted(q, i, n, s)  BY InsertIndex
  <2> HIDE DEF s
  <2> QED  BY <2>1 DEF Inserted
<1>2. /\ v[t] = n /\ t \in 1..Len(v) /\ Len(w) \in Nat /\ Len(v) = Len(w) + 1
      /\ \A x \in 1..Len(w) : \E k \in 1..Len(v) : v[k] = w[x] /\ k = IF x < t THEN x ELSE x+1
      /\ \A k \in 1..Len(v) : k # t => \E x \in 1..Len(w) : v[k] = w[x] /\ x = IF k < t THEN k ELSE k-1
  <2>1. Inserted(w, t, n, v)  BY InsertIndex
  <2> HIDE DEF v
  <2> QED  BY <2>1 DEF Inserted
<1> HIDE DEF s, v
<1>3. /\ pr[n] \in Int /\ (\A k \in 1..Len(q) : pr[q[k]] \in Int)
      /\ \A k \in 1..Len(w) : pr[w[k]] \in Int /\ pr[w[k]] # pr[n]
  BY ElementOfSeq
<1>4. \A x \in 1..Len(q) : pr[q[x]] # pr[n]
  BY <1>3 DEF Leads
<1>5. ASSUME NEW k \in 1..Len(v) PROVE \E y \in 1..Len(s) : v[k] = s[y] /\ LeadsAt(s, pr, y)
  <2>1. CASE k = t
    <3>1. LeadsAt(s, pr, i)
      <4>1. ASSUME NEW l \in 1..Len(s), l < i PROVE pr[s[l]] # pr[s[i]]
        <5>1. PICK z \in 1..Len(q) : s[l] = q[z]  BY <4>1, <1>1
        <5> QED  BY <5>1, <1>1, <1>4
      <4> QED  BY <4>1 DEF LeadsAt
    <3> QED  BY <3>1, <2>1, <1>1, <1>2
  <2>2. CASE k # t
    <3>0. PICK k1 \in 1..Len(w) : v[k] = w[k1]  BY <2>2, <1>2
    <3>1. PICK x \in 1..Len(q) : w[k1] = q[x] /\ LeadsAt(q, pr, x)  BY DEF Leads
    <3>2. PICK y \in 1..Len(s) : s[y] = q[x] /\ y = IF x < i THEN x ELSE x+1  BY <1>1
    <3>3. ASSUME NEW l \in 1..Len(s), l < y PROVE pr[s[l]] # pr[s[y]]
      <4>1. CASE l = i  BY <4>1, <1>1, <1>4, <3>2
      <4>2. CASE l # i
        <5>1. PICK z \in 1..Len(q) : s[l] = q[z] /\ z = IF l < i THEN l ELSE l-1  BY <4>2, <1>1
        <5>2. z < x
          <6>1. CASE x < i
            <7>1. y = x  BY <6>1, <3>2
            <7>2. l < i /\ z = l  BY <7>1, <6>1, <5>1, <3>3
            <7> QED  BY <7>1, <7>2, <3>3
          <6>2. CASE ~(x < i)
            <7>1. y = x+1  BY <6>2, <3>2
            <7>2. CASE l < i
              <8>1. z = l  BY <7>2, <5>1
              <8> QED  BY <8>1, <7>2, <6>2
            <7>3. CASE ~(l < i)
              <8>1. z = l-1  BY <7>3, <5>1
              <8> QED  BY <8>1, <7>1, <3>3
            <7> QED  BY <7>2, <7>3
          <6> QED  BY <6>1, <6>2
        <5> QED  BY <5>1, <5>2, <3>1, <3>2 DEF LeadsAt
      <4> QED  BY <4>1, <4>2
    <3> QED  BY <3>0, <3>1, <3>2, <3>3 DEF LeadsAt
  <2> QED  BY <2>1, <2>2
<1>6. ASSUME NEW y \in 1..Len(s) PROVE \E k \in 1..Len(v) : pr[v[k]] = pr[s[y]]
  <2>1. CASE y = i  BY <2>1, <1>1, <1>2
  <2>2. CASE y # i
    <3>1. PICK x \in 1..Len(q) : s[y] = q[x]  BY <2>2, <1>1
    <3>2. PICK k1 \in 1..Len(w) : pr[w[k1]] = pr[q[x]]  BY DEF Leads
    <3>3. PICK k \in 1..Len(v) : v[k] = w[k1]  BY <1>2
    <3> QED  BY <3>1, <3>2, <3>3
  <2> QED  BY <2>1, <2>2
<1>7. ASSUME NEW j \in 1..Len(v), NEW k \in 1..Len(v), j < k PROVE pr[v[j]] < pr[v[k]]
  <2>1. CASE j = t
    <3>1. PICK y \in 1..Len(w) : v[k] = w[y] /\ y = IF k < t THEN k ELSE k-1  BY <2>1, <1>2, <1>7
    <3>2. ~(y < t)  BY <2>1, <3>1, <1>7
    <3> QED  BY <3>1, <3>2, <2>1, <1>2
  <2>2. CASE k = t
    <3>1. PICK x \in 1..Len(w) : v[j] = w[x] /\ x = IF j < t THEN j ELSE j-1  BY <2>2, <1>2, <1>7
    <3>2. x < t  BY <2>2, <3>1, <1>7
    <3> QED  BY <3>1, <3>2, <2>2, <1>2
  <2>3. CASE j # t /\ k # t
    <3>1. PICK x \in 1..Len(w) : v[j] = w[x] /\ x = IF j < t THEN j ELSE j-1  BY <2>3, <1>2
    <3>2. PICK y \in 1..Len(w) : v[k] = w[y] /\ y = IF k < t THEN k ELSE k-1  BY <2>3, <1>2
    <3>3. x < y  BY <3>1, <3>2, <2>3, <1>7
    <3> QED  BY <3>1, <3>2, <3>3 DEF Leads
  <2> QED  BY <2>1, <2>2, <2>3
<1> QED  BY <1>5, <1>6, <1>7 DEF Leads, s, v

\* Removing keeps a list in order.
LEMMA SortedRemove ==
  ASSUME NEW pr, NEW q \in Seq(Nodes), Sorted(q, pr), NEW i \in 1..Len(q)
  PROVE  Sorted(RemoveAt(q, i), pr)
<1> DEFINE s == RemoveAt(q, i)
<1>1. \A k \in 1..Len(s) : \E x \in 1..Len(q) : x # i /\ s[k] = q[x] /\ x = IF k < i THEN k ELSE k+1
  <2>1. Removed(q, i, s)  BY RemoveIndex
  <2> HIDE DEF s
  <2> QED  BY <2>1 DEF Removed
<1> HIDE DEF s
<1>2. ASSUME NEW k \in 1..Len(s), NEW l \in 1..Len(s), k < l PROVE pr[s[k]] <= pr[s[l]]
  <2>1. PICK x \in 1..Len(q) : x # i /\ s[k] = q[x] /\ x = IF k < i THEN k ELSE k+1  BY <1>1
  <2>2. PICK y \in 1..Len(q) : y # i /\ s[l] = q[y] /\ y = IF l < i THEN l ELSE l+1  BY <1>1
  <2>3. x < y  BY <2>1, <2>2, <1>2
  <2> QED  BY <2>1, <2>2, <2>3 DEF Sorted
<1> QED  BY <1>2 DEF Sorted, s

\* What is left of a list when the entry at i leaves, and of the first entries, v in
\* the place of w: all but the one that left, and another of its priority
\* if there is one.
LEMMA LeadsRemove ==
  ASSUME NEW pr, NEW q \in Seq(Nodes), NEW w, Leads(w, q, pr),
         NEW i \in 1..Len(q), NEW v,
         \* Each of v is one of w that stays, or the next entry for the one that leaves.
         \A k \in 1..Len(v) :
           \/ \E x \in 1..Len(q) : x # i /\ v[k] = q[x] /\ LeadsAt(q, pr, x)
           \/ i+1 \in 1..Len(q) /\ v[k] = q[i+1] /\ LeadsAt(q, pr, i) /\ pr[q[i+1]] = pr[q[i]],
         \A x \in 1..Len(q) : x # i => \E k \in 1..Len(v) : pr[v[k]] = pr[q[x]],
         \A j, k \in 1..Len(v) : j < k => pr[v[j]] < pr[v[k]]
  PROVE  Leads(v, RemoveAt(q, i), pr)
<1> DEFINE s == RemoveAt(q, i)
<1>1. /\ \A x \in 1..Len(q) : x # i => \E k \in 1..Len(s) : s[k] = q[x] /\ k = IF x < i THEN x ELSE x-1
      /\ \A k \in 1..Len(s) : \E x \in 1..Len(q) : x # i /\ s[k] = q[x] /\ x = IF k < i THEN k ELSE k+1
  <2>1. Removed(q, i, s)  BY RemoveIndex
  <2> HIDE DEF s
  <2> QED  BY <2>1 DEF Removed
<1> HIDE DEF s
<1>2. ASSUME NEW k \in 1..Len(v) PROVE \E y \in 1..Len(s) : v[k] = s[y] /\ LeadsAt(s, pr, y)
  <2>1. ASSUME NEW x \in 1..Len(q), x # i, v[k] = q[x], LeadsAt(q, pr, x)
        PROVE  \E y \in 1..Len(s) : v[k] = s[y] /\ LeadsAt(s, pr, y)
    <3>1. PICK y \in 1..Len(s) : s[y] = q[x] /\ y = IF x < i THEN x ELSE x-1  BY <1>1, <2>1
    <3>2. ASSUME NEW l \in 1..Len(s), l < y PROVE pr[s[l]] # pr[s[y]]
      <4>1. PICK z \in 1..Len(q) : z # i /\ s[l] = q[z] /\ z = IF l < i THEN l ELSE l+1  BY <1>1
      <4>2. z < x  BY <4>1, <3>1, <3>2, <2>1
      <4> QED  BY <4>1, <4>2, <3>1, <2>1 DEF LeadsAt
    <3> QED  BY <3>1, <3>2, <2>1 DEF LeadsAt
  <2>2. ASSUME NEW x \in 1..Len(q), x = i+1, v[k] = q[x], LeadsAt(q, pr, i), pr[q[x]] = pr[q[i]]
        PROVE  \E y \in 1..Len(s) : v[k] = s[y] /\ LeadsAt(s, pr, y)
    <3>0. x # i /\ ~(x < i)  BY <2>2
    <3>1. PICK y \in 1..Len(s) : s[y] = q[x] /\ y = i  BY <1>1, <2>2, <3>0
    <3>2. ASSUME NEW l \in 1..Len(s), l < y PROVE pr[s[l]] # pr[s[y]]
      <4>1. PICK z \in 1..Len(q) : z # i /\ s[l] = q[z] /\ z = IF l < i THEN l ELSE l+1  BY <1>1
      <4>2. z < i  BY <4>1, <3>1, <3>2
      <4> QED  BY <4>1, <4>2, <3>1, <2>2 DEF LeadsAt
    <3> QED  BY <3>1, <3>2, <2>2 DEF LeadsAt
  <2> QED  BY <2>1, <2>2
<1>3. ASSUME NEW y \in 1..Len(s) PROVE \E k \in 1..Len(v) : pr[v[k]] = pr[s[y]]
  <2>1. PICK x \in 1..Len(q) : x # i /\ s[y] = q[x]  BY <1>1
  <2> QED  BY <2>1
<1> QED  BY <1>2, <1>3 DEF Leads, s

\* The first of a list is the first of its prio_list, and one is empty with the other.
LEMMA LeadsFirst ==
  ASSUME NEW pr \in [Nodes -> Int], NEW q \in Seq(Nodes), Sorted(q, pr),
         NEW w \in Seq(Nodes), Leads(w, q, pr)
  PROVE  /\ Len(q) = 0 <=> Len(w) = 0
         /\ Len(q) # 0 => w[1] = q[1]
         /\ \A x : Has(w, x) => Has(q, x)
<1>1. Len(q) \in Nat /\ Len(w) \in Nat
  BY LenProperties
<1>2. \A k \in 1..Len(q) : pr[q[k]] \in Int
  BY ElementOfSeq
<1>3. Len(q) # 0 => 1 \in 1..Len(q)
  BY <1>1
<1>4. Len(w) # 0 => 1 \in 1..Len(w)
  BY <1>1
<1>5. ASSUME Len(q) # 0 PROVE Len(w) # 0 /\ w[1] = q[1]
  <2>1. PICK k \in 1..Len(w) : pr[w[k]] = pr[q[1]]  BY <1>3, <1>5 DEF Leads
  <2>2. Len(w) # 0 /\ 1 \in 1..Len(w)  BY <2>1, <1>1
  <2>3. PICK i \in 1..Len(q) : w[1] = q[i] /\ LeadsAt(q, pr, i)  BY <2>2 DEF Leads
  <2>4. PICK j \in 1..Len(q) : w[k] = q[j]  BY DEF Leads
  <2>5. pr[w[1]] <= pr[w[k]]
    <3>1. CASE k = 1  BY <3>1, <2>4, <1>2
    <3>2. CASE k # 1
      <4>1. 1 < k  BY <3>2, <1>1
      <4>2. pr[w[1]] < pr[w[k]]  BY <4>1, <2>2 DEF Leads
      <4> QED  BY <4>2, <2>3, <2>4, <1>2
    <3> QED  BY <3>1, <3>2
  <2>6. i = 1
    <3>1. SUFFICES ASSUME i # 1 PROVE FALSE  OBVIOUS
    <3>2. 1 < i /\ 1 \in 1..Len(q)  BY <3>1, <1>3, <1>5
    <3>3. pr[q[1]] <= pr[q[i]] /\ pr[q[1]] # pr[q[i]]  BY <3>2, <2>3 DEF Sorted, LeadsAt
    <3> QED  BY <3>2, <3>3, <2>1, <2>3, <2>5, <1>2
  <2> QED  BY <2>2, <2>3, <2>6
<1>6. ASSUME Len(w) # 0 PROVE Len(q) # 0
  <2>1. PICK i \in 1..Len(q) : w[1] = q[i]  BY <1>4, <1>6 DEF Leads
  <2> QED  BY <2>1, <1>1
<1>7. ASSUME NEW x, Has(w, x) PROVE Has(q, x)
  <2>1. PICK k \in 1..Len(w) : w[k] = x  BY <1>7 DEF Has
  <2>2. PICK i \in 1..Len(q) : w[k] = q[i]  BY DEF Leads
  <2> QED  BY <2>1, <2>2 DEF Has
<1> QED  BY <1>5, <1>6, <1>7

\* The first t of w, and no others, are served before n or have its priority.
Cut(w, pr, t, n) == \A k \in 1..Len(w) : k <= t <=> pr[w[k]] <= pr[n]

\* The place where the search on the prio_list ends is the slot in the list.
LEMMA CutIsSlot ==
  ASSUME NEW pr \in [Nodes -> Int], NEW q \in Seq(Nodes), Sorted(q, pr),
         NEW w \in Seq(Nodes), Leads(w, q, pr), NEW n \in Nodes,
         NEW t \in 0..Len(w), Cut(w, pr, t, n)
  PROVE  /\ t = Len(w) => Slot(q, pr, Len(q)+1, n)
         /\ t # Len(w) => \E i \in 1..Len(q) : q[i] = w[t+1] /\ Slot(q, pr, i, n)
<1>1. Len(q) \in Nat /\ Len(w) \in Nat
  BY LenProperties
<1>2. pr[n] \in Int /\ (\A k \in 1..Len(q) : pr[q[k]] \in Int) /\ \A k \in 1..Len(w) : pr[w[k]] \in Int
  BY ElementOfSeq
<1>3. ASSUME t = Len(w), NEW l \in 1..Len(q) PROVE l < Len(q)+1 /\ pr[q[l]] <= pr[n]
  <2>1. PICK k \in 1..Len(w) : pr[w[k]] = pr[q[l]]  BY DEF Leads
  <2>2. k <= t  BY <1>3
  <2> QED  BY <2>1, <2>2, <1>1 DEF Cut
<1>4. ASSUME t # Len(w) PROVE \E i \in 1..Len(q) : q[i] = w[t+1] /\ Slot(q, pr, i, n)
  <2>1. PICK u \in 1..Len(w) : u = t+1 /\ ~(u <= t)  BY <1>1, <1>4
  <2>2. PICK i \in 1..Len(q) : w[u] = q[i] /\ LeadsAt(q, pr, i)  BY DEF Leads
  <2>3. ~(pr[w[u]] <= pr[n])  BY <2>1 DEF Cut
  <2>4. ASSUME NEW l \in 1..Len(q), l < i PROVE pr[q[l]] <= pr[n]
    <3>1. pr[q[l]] <= pr[q[i]] /\ pr[q[l]] # pr[q[i]]  BY <2>4, <2>2 DEF Sorted, LeadsAt
    <3>2. PICK k \in 1..Len(w) : pr[w[k]] = pr[q[l]]  BY DEF Leads
    <3>3. k # u /\ ~(u < k)
      <4>1. k # u  BY <3>1, <3>2, <2>2
      <4>2. u < k => pr[w[u]] < pr[w[k]]  BY DEF Leads
      <4> QED  BY <4>1, <4>2, <3>1, <3>2, <2>2, <1>2, SMTT(20)
    <3>4. k <= t  BY <3>3, <2>1
    <3> QED  BY <3>2, <3>4 DEF Cut
  <2>5. ASSUME NEW l \in 1..Len(q), ~(l < i) PROVE ~(pr[q[l]] <= pr[n])
    <3>1. CASE l = i  BY <3>1, <2>2, <2>3
    <3>2. CASE l # i
      <4>1. i < l  BY <3>2, <2>5
      <4>2. pr[q[i]] <= pr[q[l]]  BY <4>1 DEF Sorted
      <4> QED  BY <4>2, <2>2, <2>3, <1>2
    <3> QED  BY <3>1, <3>2
  <2>6. Slot(q, pr, i, n)  BY <2>4, <2>5 DEF Slot
  <2> QED  BY <2>1, <2>2, <2>6
<1> QED  BY <1>3, <1>4 DEF Slot

\* What the do loop of plist_add() counts (plist.c:64-74).
LEMMA SearchCuts ==
  ASSUME NEW pr \in [Nodes -> Int], NEW q \in Seq(Nodes), NEW w \in Seq(Nodes), Leads(w, q, pr),
         NEW n \in Nodes
  PROVE  LET after == {i \in 1..Len(w) : pr[n] < pr[w[i]]}
             turns == IF after = {} THEN Len(w) ELSE Min(after) - 1
         IN  /\ turns \in 0..Len(w) /\ Cut(w, pr, turns, n)
             /\ after = {} <=> turns = Len(w)
<1> DEFINE after == {i \in 1..Len(w) : pr[n] < pr[w[i]]}
           turns == IF after = {} THEN Len(w) ELSE Min(after) - 1
<1>1. Len(w) \in Nat
  BY LenProperties
<1>2. pr[n] \in Int /\ \A k \in 1..Len(w) : pr[w[k]] \in Int
  BY ElementOfSeq
<1>3. \A k \in 1..Len(w) : k \in after <=> ~(pr[w[k]] <= pr[n])
  BY <1>2
<1>4. CASE after = {}
  <2>1. turns = Len(w)  BY <1>4
  <2>2. \A k \in 1..Len(w) : k <= Len(w) /\ pr[w[k]] <= pr[n]  BY <1>1, <1>3, <1>4
  <2> QED  BY <2>1, <2>2, <1>1, <1>4 DEF Cut
<1>5. CASE after # {}
  <2>1. after \in SUBSET Nat /\ after \subseteq 1..Len(w)  OBVIOUS
  <2> HIDE DEF after
  <2>2. PICK u \in after : \A j \in after : u <= j  BY <2>1, <1>5, Least
  <2>3. Min(after) = u
    <3>1. after \in SUBSET Int  BY <2>1
    <3> QED  BY <3>1, <2>2, LeastIsMin
  <2>4. turns = u-1  BY <2>3, <1>5
  <2>5. PICK t \in 0..Len(w) : t = u-1 /\ t # Len(w) /\ u \in 1..Len(w)  BY <2>1, <2>2, <1>1
  <2>6. ASSUME NEW k \in 1..Len(w) PROVE k <= t <=> pr[w[k]] <= pr[n]
    <3>1. CASE k <= t
      <4>1. ~(u <= k)  BY <3>1, <2>5
      <4>2. k \notin after  BY <4>1, <2>2
      <4> QED  BY <3>1, <4>2, <1>3
    <3>2. CASE ~(k <= t)
      <4>1. k = u \/ u < k  BY <3>2, <2>5
      <4>2. ~(pr[w[u]] <= pr[n])  BY <2>2, <2>5, <1>3
      <4>3. u < k => pr[w[u]] < pr[w[k]]  BY <2>5 DEF Leads
      <4> QED  BY <3>2, <4>1, <4>2, <4>3, <2>5, <1>2
    <3> QED  BY <3>1, <3>2
  <2>7. Cut(w, pr, t, n)  BY <2>6 DEF Cut
  <2> HIDE DEF turns
  <2>8. turns = t  BY <2>4, <2>5
  <2> QED  BY <2>5, <2>7, <2>8, <1>5 DEF after, turns
<1> QED  BY <1>4, <1>5

-----------------------------------------------------------------------------
(* The state: the two kinds of lists, in step.                             *)

Good(m, p, pr, Q, W) ==
  /\ Queues(m, Q)
  /\ Wheels(p, W)
  /\ pr \in [Nodes -> Prios]
  /\ \A h \in Heads : Sorted(Q[h], pr) /\ Leads(W[h], Q[h], pr)

LEMMA GoodFacts ==
  ASSUME NEW m, NEW p, NEW pr, NEW Q, NEW W, Good(m, p, pr, Q, W), NEW h \in Heads
  PROVE  /\ Queues(m, Q) /\ Wheels(p, W) /\ pr \in [Nodes -> Int]
         /\ Q \in [Heads -> Seq(Nodes)] /\ W \in [Heads -> Seq(Nodes)]
         /\ Q[h] \in Seq(Nodes) /\ W[h] \in Seq(Nodes) /\ Len(Q[h]) \in Nat /\ Len(W[h]) \in Nat
         /\ Sorted(Q[h], pr) /\ Leads(W[h], Q[h], pr)
         /\ Len(Q[h]) = 0 <=> Len(W[h]) = 0
         /\ Len(Q[h]) # 0 => W[h][1] = Q[h][1]
         /\ \A x \in Nodes : OnNone(Q, x) => OnNone(W, x)
<1>1. /\ Queues(m, Q) /\ Wheels(p, W) /\ pr \in [Nodes -> Int]
      /\ Q \in [Heads -> Seq(Nodes)] /\ W \in [Heads -> Seq(Nodes)]
  BY PlistAssumption DEF Good, Queues, Wheels
<1>2. ASSUME NEW g \in Heads
      PROVE  /\ Q[g] \in Seq(Nodes) /\ W[g] \in Seq(Nodes) /\ Len(Q[g]) \in Nat /\ Len(W[g]) \in Nat
             /\ Sorted(Q[g], pr) /\ Leads(W[g], Q[g], pr)
             /\ Len(Q[g]) = 0 <=> Len(W[g]) = 0
             /\ Len(Q[g]) # 0 => W[g][1] = Q[g][1]
             /\ \A x : Has(W[g], x) => Has(Q[g], x)
  <2>1. Q[g] \in Seq(Nodes) /\ W[g] \in Seq(Nodes) /\ Sorted(Q[g], pr) /\ Leads(W[g], Q[g], pr)
    BY <1>1 DEF Good
  <2>2. Len(Q[g]) \in Nat /\ Len(W[g]) \in Nat
    BY <2>1, LenProperties
  <2> DEFINE q == Q[g]
             w == W[g]
  <2> HIDE DEF q, w
  <2>3. q \in Seq(Nodes) /\ w \in Seq(Nodes) /\ Sorted(q, pr) /\ Leads(w, q, pr)
    BY <2>1 DEF q, w
  <2>4. (Len(q) = 0 <=> Len(w) = 0) /\ (Len(q) # 0 => w[1] = q[1]) /\ \A x : Has(w, x) => Has(q, x)
    BY <2>3, <1>1, LeadsFirst
  <2> QED  BY <2>1, <2>2, <2>4 DEF q, w
<1>3. \A x \in Nodes : OnNone(Q, x) => OnNone(W, x)
  BY <1>2 DEF OnNone
<1> QED  BY <1>1, <1>2, <1>3

\* One list and its prio_list change.
LEMMA GoodAfter ==
  ASSUME NEW m, NEW p, NEW pr, NEW Q, NEW W, Good(m, p, pr, Q, W), NEW h \in Heads,
         NEW r, NEW o, NEW s, NEW v, Queues(r, [Q EXCEPT ![h] = s]), Wheels(o, [W EXCEPT ![h] = v]),
         Sorted(s, pr), Leads(v, s, pr)
  PROVE  Good(r, o, pr, [Q EXCEPT ![h] = s], [W EXCEPT ![h] = v])
<1> DEFINE Q2 == [Q EXCEPT ![h] = s]
           W2 == [W EXCEPT ![h] = v]
<1>1. Q \in [Heads -> Seq(Nodes)] /\ W \in [Heads -> Seq(Nodes)] /\ pr \in [Nodes -> Prios]
  BY DEF Good, Queues, Wheels
<1>2. Q2[h] = s /\ W2[h] = v /\ \A g \in Heads \ {h} : Q2[g] = Q[g] /\ W2[g] = W[g]
  BY <1>1
<1>3. Queues(r, Q2) /\ Wheels(o, W2)
  OBVIOUS
<1> HIDE DEF Q2, W2
<1>4. \A g \in Heads : Sorted(Q2[g], pr) /\ Leads(W2[g], Q2[g], pr)
  <2> TAKE g \in Heads
  <2>1. CASE g = h  BY <2>1, <1>2
  <2>2. CASE g # h  BY <2>2, <1>2 DEF Good
  <2> QED  BY <2>1, <2>2
<1>5. Good(r, o, pr, Q2, W2)
  BY <1>1, <1>3, <1>4 DEF Good
<1> QED  BY <1>5 DEF Q2, W2

\* list_empty() of the node_list tells whether a node is on a list.
LEMMA EmptyIsOff ==
  ASSUME NEW m, NEW Q, Queues(m, Q), NEW n \in Nodes
  PROVE  m.next[n] = n <=> OnNone(Q, n)
<1>1. ASSUME ~OnNone(Q, n) PROVE m.next[n] # n
  <2>1. PICK h \in Heads : Has(Q[h], n)  BY <1>1 DEF OnNone
  <2> DEFINE q == Q[h]
  <2>2. Circle(Cells, h, q) /\ \A i \in 1..Len(q) : m.next[q[i]] = At(h, q, i+1)
    BY QueueFacts, QueueReads
  <2>3. PICK k \in 1..Len(q) : q[k] = n  BY <2>1 DEF Has
  <2> HIDE DEF q
  <2>4. Len(q) \in Nat /\ At(h, q, k) = q[k]
        /\ \A i, j \in 1..(Len(q)+1) : At(h, q, i) = At(h, q, j) => i = j
    BY <2>2, CircleCells
  <2>5. PICK j \in 1..(Len(q)+1) : j = k+1 /\ k \in 1..(Len(q)+1) /\ j # k  BY <2>4
  <2>6. At(h, q, j) # At(h, q, k)  BY <2>4, <2>5
  <2>7. m.next[n] = At(h, q, j)  BY <2>2, <2>3, <2>5
  <2> QED  BY <2>3, <2>4, <2>6, <2>7
<1>2. OnNone(Q, n) => m.next[n] = n
  BY DEF Queues, Rests
<1> QED  BY <1>1, <1>2

\* list_empty() of the prio_list tells whether a node is on one with others.
LEMMA EmptyOnWheel ==
  ASSUME NEW p, NEW W, Wheels(p, W)
  PROVE  /\ \A x \in Nodes : OnNone(W, x) => p.next[x] = x
         /\ \A h \in Heads : \A k \in 1..Len(W[h]) : p.next[W[h][k]] = W[h][k] <=> Len(W[h]) = 1
<1>1. \A x \in Nodes : OnNone(W, x) => p.next[x] = x
  BY DEF Wheels, Rests
<1>2. ASSUME NEW h \in Heads, NEW k \in 1..Len(W[h])
      PROVE  p.next[W[h][k]] = W[h][k] <=> Len(W[h]) = 1
  <2> DEFINE w == W[h]
  <2>1. Wheel(Nodes, p, w) /\ k \in 1..Len(w)
    BY DEF Wheels
  <2> HIDE DEF w
  <2>2. p.next[w[k]] = w[k] <=> Len(w) = 1
    BY <2>1, WheelOfOne
  <2> QED  BY <2>2 DEF w
<1> QED  BY <1>1, <1>2

-----------------------------------------------------------------------------
(* plist_add().                                                            *)

LEMMA AddToEmpty ==
  ASSUME NEW m, NEW p, NEW pr, NEW Q, NEW W, Good(m, p, pr, Q, W), NEW h \in Heads,
         NEW n \in Nodes, OnNone(Q, n), Len(Q[h]) = 0
  PROVE  /\ 1 \in 1..(Len(Q[h])+1) /\ Slot(Q[h], pr, 1, n)
         /\ Good(list_add_tail(m, n, h), p, pr, [Q EXCEPT ![h] = InsertAt(Q[h], 1, n)], [W EXCEPT ![h] = <<n>>])
<1>1. /\ Queues(m, Q) /\ Wheels(p, W) /\ pr \in [Nodes -> Int] /\ Q[h] \in Seq(Nodes)
      /\ Sorted(Q[h], pr) /\ Len(W[h]) = 0 /\ OnNone(W, n)
  BY GoodFacts
<1> DEFINE q == Q[h]
<1>2. Len(q) = 0 /\ 1 \in 1..(Len(q)+1) /\ q \in Seq(Nodes) /\ Sorted(q, pr)
  BY <1>1
<1>3. Wheels(p, [W EXCEPT ![h] = <<n>>])
  BY <1>1, WheelsFew
<1>4. At(h, q, 1) = h
  <2> HIDE DEF q
  <2>1. 1 \notin 1..Len(q)  BY <1>2
  <2> QED  BY <2>1 DEF At
<1> HIDE DEF q
<1> DEFINE s == InsertAt(q, 1, n)
           v == <<n>>
<1>5. Queues(list_add_tail(m, n, h), [Q EXCEPT ![h] = s])
  <2>1. Queues(list_add_tail(m, n, At(h, Q[h], 1)), [Q EXCEPT ![h] = InsertAt(Q[h], 1, n)])
    <3>1. 1 \in 1..(Len(Q[h])+1)  BY <1>2 DEF q
    <3> QED  BY <1>1, <3>1, QueueAdd
  <2> QED  BY <2>1, <1>4 DEF q
<1>6. Slot(q, pr, 1, n)
  <2>1. 1..Len(q) = {}  BY <1>2
  <2> QED  BY <2>1 DEF Slot
<1>7. Sorted(s, pr)
  BY <1>1, <1>2, <1>6, SlotSorted
<1>8. Inserted(q, 1, n, s)
  BY <1>2, InsertIndex
<1>9. Len(v) = 1 /\ v[1] = n
  OBVIOUS
<1> HIDE DEF s, v
<1>10. Leads(v, s, pr)
  <2>1. Len(s) = 1 /\ s[1] = n /\ 1..1 = {1}  BY <1>2, <1>8 DEF Inserted
  <2> QED  BY <2>1, <1>9 DEF Leads, LeadsAt
<1>11. Good(list_add_tail(m, n, h), p, pr, [Q EXCEPT ![h] = s], [W EXCEPT ![h] = v])
  <2>1. Wheels(p, [W EXCEPT ![h] = v])  BY <1>3 DEF v
  <2> QED  BY <2>1, <1>5, <1>7, <1>10, GoodAfter
<1> QED  BY <1>2, <1>6, <1>11 DEF s, v, q

\* x is the first of w behind t entries, or end if there is none.
StopsAt(w, t, end, x) == x = IF t = Len(w) THEN end ELSE w[t+1]

\* The prio_lists after n was added behind t entries: n gets on one if it is the
\* first of its priority.
GetsOn(p, w, pr, t, n, iter) ==
  IF t = 0 \/ pr[w[t]] # pr[n] THEN list_add_tail(p, n, iter) ELSE p

\* t entries of the prio_list are served before n or have its priority: n gets on
\* it if none has its priority, or not.
LEMMA AddToOthers ==
  ASSUME NEW m, NEW p, NEW pr, NEW Q, NEW W, Good(m, p, pr, Q, W), NEW h \in Heads,
         NEW n \in Nodes, OnNone(Q, n), Len(Q[h]) # 0,
         NEW t \in 0..Len(W[h]), Cut(W[h], pr, t, n),
         NEW node_next, StopsAt(W[h], t, h, node_next),
         NEW iter, StopsAt(W[h], t, W[h][1], iter)
  PROVE  \E i \in 1..(Len(Q[h])+1) : \E v :
           /\ Slot(Q[h], pr, i, n)
           /\ Good(list_add_tail(m, n, node_next), GetsOn(p, W[h], pr, t, n, iter), pr,
                   [Q EXCEPT ![h] = InsertAt(Q[h], i, n)], [W EXCEPT ![h] = v])
<1> DEFINE q == Q[h]
           w == W[h]
           new_prio == t = 0 \/ pr[w[t]] # pr[n]
<1>1. /\ Queues(m, Q) /\ Wheels(p, W) /\ pr \in [Nodes -> Int] /\ q \in Seq(Nodes) /\ w \in Seq(Nodes)
      /\ Sorted(q, pr) /\ Leads(w, q, pr) /\ OnNone(W, n) /\ Len(q) \in Nat /\ Len(w) \in Nat
      /\ Len(q) # 0 /\ Len(w) # 0 /\ w[1] = q[1] /\ W \in [Heads -> Seq(Nodes)]
  BY GoodFacts
<1>2. t \in 0..Len(w) /\ Cut(w, pr, t, n)
  OBVIOUS
<1>3. /\ node_next = IF t = Len(w) THEN h ELSE w[t+1]
      /\ iter = IF t = Len(w) THEN w[1] ELSE w[t+1]
  BY DEF StopsAt
<1>4. \A i \in 1..(Len(q)+1) :
        Queues(list_add_tail(m, n, At(h, q, i)), [Q EXCEPT ![h] = InsertAt(q, i, n)])
  BY <1>1, QueueAdd
<1>5. ASSUME NEW a \in 1..Len(w), NEW b \in 1..Len(w), Turn(a, b, Len(w)),
             NEW k \in 1..(Len(w)+1), k = a+1 \/ (k = 1 /\ b = 1)
      PROVE  Wheels(list_add_tail(p, n, w[b]), [W EXCEPT ![h] = InsertAt(w, k, n)])
  <2>1. /\ list_add(p, n, W[h][a]) = list_add_tail(p, n, W[h][b])
        /\ Wheels(list_add(p, n, W[h][a]), [W EXCEPT ![h] = InsertAt(W[h], k, n)])
    <3>1. Wheels(p, W) /\ OnNone(W, n)  BY <1>1
    <3>2. /\ a \in 1..Len(W[h]) /\ b \in 1..Len(W[h]) /\ Turn(a, b, Len(W[h]))
          /\ k \in 1..(Len(W[h])+1) /\ (k = a+1 \/ (k = 1 /\ b = 1))
      BY <1>5
    <3> QED  BY <3>1, <3>2, WheelsAdd
  <2> QED  BY <2>1
<1> HIDE DEF q, w
<1>6. PICK i \in 1..(Len(q)+1) : Slot(q, pr, i, n) /\ node_next = At(h, q, i)
  <2>1. CASE t = Len(w)
    <3>1. Slot(q, pr, Len(q)+1, n)  BY <1>1, <1>2, <2>1, CutIsSlot
    <3>2. Len(q)+1 \in 1..(Len(q)+1) /\ Len(q)+1 \notin 1..Len(q)  BY <1>1
    <3> QED  BY <3>1, <3>2, <2>1, <1>3 DEF At
  <2>2. CASE t # Len(w)
    <3>1. PICK i \in 1..Len(q) : q[i] = w[t+1] /\ Slot(q, pr, i, n)  BY <1>1, <1>2, <2>2, CutIsSlot
    <3>2. i \in 1..(Len(q)+1)  BY <1>1
    <3> QED  BY <3>1, <3>2, <2>2, <1>3 DEF At
  <2> QED  BY <2>1, <2>2
<1> DEFINE s == InsertAt(q, i, n)
<1>7. Queues(list_add_tail(m, n, node_next), [Q EXCEPT ![h] = s])
  BY <1>4, <1>6
<1>8. Sorted(s, pr)
  BY <1>1, <1>6, SlotSorted
<1>9. pr[n] \in Int /\ \A k \in 1..Len(w) : pr[w[k]] \in Int
  BY <1>1, ElementOfSeq
<1>10. CASE ~new_prio
  <2>1. t \in 1..Len(w) /\ pr[w[t]] = pr[n]  BY <1>2, <1>10
  <2>2. Leads(w, s, pr)  BY <2>1, <1>1, <1>6, LeadsInsertOld
  <2>3. [W EXCEPT ![h] = w] = W  BY <1>1 DEF w
  <2>4. Wheels(p, [W EXCEPT ![h] = w])  BY <2>3, <1>1
  <2> HIDE DEF s
  <2>5. Good(list_add_tail(m, n, node_next), p, pr, [Q EXCEPT ![h] = s], [W EXCEPT ![h] = w])
    BY <2>2, <2>4, <1>7, <1>8, GoodAfter
  <2> QED  BY <2>5, <1>6, <1>10 DEF s, q, w, GetsOn
<1>11. CASE new_prio
  <2>1. PICK k \in 1..(Len(w)+1) : k = t+1  BY <1>1, <1>2
  <2>2. /\ \A j \in 1..Len(w) : j < k => pr[w[j]] < pr[n]
        /\ \A j \in 1..Len(w) : ~(j < k) => pr[n] < pr[w[j]]
    <3>1. ASSUME NEW j \in 1..Len(w), j < k PROVE pr[w[j]] < pr[n]
      <4>1. j <= t /\ t \in 1..Len(w)  BY <3>1, <2>1, <1>2
      <4>2. pr[w[j]] <= pr[n] /\ pr[w[t]] <= pr[n]  BY <4>1, <1>2 DEF Cut
      <4>3. pr[w[t]] # pr[n]  BY <4>1, <1>11
      <4>4. j < t => pr[w[j]] < pr[w[t]]  BY <4>1, <1>1 DEF Leads
      <4>5. j = t \/ j < t  BY <4>1
      <4> QED  BY <4>1, <4>2, <4>3, <4>4, <4>5, <1>9
    <3>2. ASSUME NEW j \in 1..Len(w), ~(j < k) PROVE pr[n] < pr[w[j]]
      <4>1. ~(j <= t)  BY <3>2, <2>1, <1>2
      <4>2. ~(pr[w[j]] <= pr[n])  BY <4>1, <1>2 DEF Cut
      <4> QED  BY <4>2, <1>9
    <3> QED  BY <3>1, <3>2
  <2> DEFINE v == InsertAt(w, k, n)
  <2>3. Leads(v, s, pr)
    <3>1. q \in Seq(Nodes) /\ w \in Seq(Nodes) /\ Leads(w, q, pr) /\ pr \in [Nodes -> Int]  BY <1>1
    <3> QED  BY <3>1, <1>6, <2>2, LeadsInsertNew
  <2>4. PICK b \in 1..Len(w) : iter = w[b] /\ b = IF t = Len(w) THEN 1 ELSE t+1
    <3>1. CASE t = Len(w)
      <4>1. 1 \in 1..Len(w)  BY <1>1
      <4> QED  BY <4>1, <3>1, <1>3
    <3>2. CASE t # Len(w)
      <4>1. t+1 \in 1..Len(w)  BY <3>2, <1>1, <1>2
      <4> QED  BY <4>1, <3>2, <1>3
    <3> QED  BY <3>1, <3>2
  <2>5. PICK a \in 1..Len(w) : a = IF t = 0 THEN Len(w) ELSE t
    <3>1. Len(w) \in 1..Len(w)  BY <1>1
    <3>2. t # 0 => t \in 1..Len(w)  BY <1>2
    <3> QED  BY <3>1, <3>2
  <2>6. Turn(a, b, Len(w)) /\ (k = a+1 \/ (k = 1 /\ b = 1))
    BY <2>1, <2>4, <2>5, <1>1, <1>2 DEF Turn
  <2>7. Wheels(list_add_tail(p, n, iter), [W EXCEPT ![h] = v])
    BY <2>4, <2>6, <1>5
  <2> HIDE DEF s, v
  <2>8. Good(list_add_tail(m, n, node_next), list_add_tail(p, n, iter), pr,
             [Q EXCEPT ![h] = s], [W EXCEPT ![h] = v])
    BY <2>3, <2>7, <1>7, <1>8, GoodAfter
  <2> QED  BY <2>8, <1>6, <1>11 DEF s, q, w, GetsOn
<1> QED  BY <1>10, <1>11

-----------------------------------------------------------------------------
(* plist_del().                                                            *)

\* The entry that leaves is not on the prio_list.
LEMMA LeaveOffList ==
  ASSUME NEW pr, NEW q \in Seq(Nodes), NEW w, Leads(w, q, pr), NEW i \in 1..Len(q), ~Has(w, q[i])
  PROVE  Leads(w, RemoveAt(q, i), pr)
<1>1. ASSUME NEW k \in 1..Len(w)
      PROVE  \E x \in 1..Len(q) : x # i /\ w[k] = q[x] /\ LeadsAt(q, pr, x)
  <2>1. PICK x \in 1..Len(q) : w[k] = q[x] /\ LeadsAt(q, pr, x)  BY DEF Leads
  <2>2. x # i  BY <2>1 DEF Has
  <2> QED  BY <2>1, <2>2
<1>2. \A x \in 1..Len(q) : x # i => \E k \in 1..Len(w) : pr[w[k]] = pr[q[x]]
  BY DEF Leads
<1>3. \A j, k \in 1..Len(w) : j < k => pr[w[j]] < pr[w[k]]
  BY DEF Leads
<1> QED  BY <1>1, <1>2, <1>3, LeadsRemove

LEMMA OneBehind ==
  ASSUME NEW n \in Nat, NEW i \in 1..n, NEW x \in 1..n, x # i, ~(x < i)
  PROVE  \E j \in 1..n : j = i+1 /\ i < j /\ (x = j \/ j < x)
<1>1. i+1 \in 1..n /\ i < i+1 /\ (x = i+1 \/ i+1 < x)
  OBVIOUS
<1> QED  BY <1>1

\* The entry that leaves is on it, and so is the one behind it, if there is one: it is
\* the only one of its priority.
LEMMA LeaveAlone ==
  ASSUME NEW pr \in [Nodes -> Int], NEW q \in Seq(Nodes), Sorted(q, pr),
         \A j, k \in 1..Len(q) : q[j] = q[k] => j = k,
         NEW w \in Seq(Nodes), Leads(w, q, pr),
         NEW i \in 1..Len(q), NEW k \in 1..Len(w), w[k] = q[i],
         \A j \in 1..Len(q) : j = i+1 => Has(w, q[j])
  PROVE  Leads(RemoveAt(w, k), RemoveAt(q, i), pr)
<1> DEFINE v == RemoveAt(w, k)
<1>1. Removed(w, k, v)
  BY RemoveIndex
<1> HIDE DEF v
<1>2. (\A j \in 1..Len(q) : pr[q[j]] \in Int) /\ (\A j \in 1..Len(w) : pr[w[j]] \in Int) /\ Len(q) \in Nat
  BY ElementOfSeq, LenProperties
<1>3. \A j, l \in 1..Len(w) : j < l => pr[w[j]] < pr[w[l]]
  BY DEF Leads
<1>4. \A j \in 1..Len(w) : \E x \in 1..Len(q) : w[j] = q[x] /\ LeadsAt(q, pr, x)
  BY DEF Leads
<1>5. LeadsAt(q, pr, i)
  <2>1. PICK x \in 1..Len(q) : w[k] = q[x] /\ LeadsAt(q, pr, x)  BY <1>4
  <2>2. x = i  BY <2>1
  <2> QED  BY <2>1, <2>2
<1>6. ASSUME NEW x \in 1..Len(q), x # i PROVE pr[q[x]] # pr[q[i]]
  <2>1. CASE x < i  BY <2>1, <1>5 DEF LeadsAt
  <2>2. CASE ~(x < i)
    <3>1. PICK j \in 1..Len(q) : j = i+1 /\ i < j /\ (x = j \/ j < x)  BY <2>2, <1>2, <1>6, OneBehind
    <3>2. PICK l \in 1..Len(w) : w[l] = q[j]  BY <3>1 DEF Has
    <3>3. PICK y \in 1..Len(q) : w[l] = q[y] /\ LeadsAt(q, pr, y)  BY <1>4
    <3>4. y = j  BY <3>2, <3>3
    <3>5. pr[q[i]] # pr[q[j]]  BY <3>1, <3>3, <3>4 DEF LeadsAt
    <3>6. pr[q[i]] <= pr[q[j]]  BY <3>1 DEF Sorted
    <3>7. pr[q[j]] <= pr[q[x]]
      <4>1. CASE x = j  BY <4>1, <1>2, SMTT(20)
      <4>2. CASE j < x  BY <4>2 DEF Sorted
      <4> QED  BY <4>1, <4>2, <3>1
    <3>8. pr[q[i]] \in Int /\ pr[q[j]] \in Int /\ pr[q[x]] \in Int  BY <1>2
    <3>9. PICK a, b, c \in Int : a = pr[q[i]] /\ b = pr[q[j]] /\ c = pr[q[x]]  BY <3>8
    <3>10. a # b /\ a <= b /\ b <= c  BY <3>5, <3>6, <3>7, <3>9, Zenon
    <3>11. a # c  BY <3>10
    <3> QED  BY <3>9, <3>11, Zenon
  <2> QED  BY <2>1, <2>2
<1>7. ASSUME NEW j \in 1..Len(v)
      PROVE  \E x \in 1..Len(q) : x # i /\ v[j] = q[x] /\ LeadsAt(q, pr, x)
  <2>1. PICK l \in 1..Len(w) : l # k /\ v[j] = w[l]  BY <1>1 DEF Removed
  <2>2. PICK x \in 1..Len(q) : w[l] = q[x] /\ LeadsAt(q, pr, x)  BY <1>4
  <2>3. pr[w[l]] # pr[w[k]]
    <3>1. l < k \/ k < l  BY <2>1
    <3>2. (l < k => pr[w[l]] < pr[w[k]]) /\ (k < l => pr[w[k]] < pr[w[l]])  BY <1>3
    <3> QED  BY <3>1, <3>2, <1>2
  <2>4. x # i  BY <2>2, <2>3
  <2> QED  BY <2>1, <2>2, <2>4
<1>8. ASSUME NEW x \in 1..Len(q), x # i PROVE \E j \in 1..Len(v) : pr[v[j]] = pr[q[x]]
  <2>1. PICK l \in 1..Len(w) : pr[w[l]] = pr[q[x]]  BY DEF Leads
  <2>2. l # k  BY <2>1, <1>6, <1>8
  <2>3. PICK j \in 1..Len(v) : v[j] = w[l]  BY <2>2, <1>1 DEF Removed
  <2> QED  BY <2>1, <2>3
<1>9. ASSUME NEW j \in 1..Len(v), NEW l \in 1..Len(v), j < l PROVE pr[v[j]] < pr[v[l]]
  <2>1. PICK x \in 1..Len(w) : x # k /\ v[j] = w[x] /\ x = IF j < k THEN j ELSE j+1  BY <1>1 DEF Removed
  <2>2. PICK y \in 1..Len(w) : y # k /\ v[l] = w[y] /\ y = IF l < k THEN l ELSE l+1  BY <1>1 DEF Removed
  <2>3. x < y  BY <2>1, <2>2, <1>9, SMTT(20)
  <2> QED  BY <2>1, <2>2, <2>3, <1>3
<1>10. Leads(v, RemoveAt(q, i), pr)
  BY <1>7, <1>8, <1>9, LeadsRemove
<1> QED  BY <1>10 DEF v

\* v is w with e in the place of the entry at k.
Replaced(w, k, e, v) == Len(v) = Len(w) /\ \A j \in 1..Len(w) : v[j] = IF j = k THEN e ELSE w[j]

\* The entry that leaves is on it, and the one behind it is not: that one takes its
\* place.
LEMMA LeaveToNext ==
  ASSUME NEW pr \in [Nodes -> Int], NEW q \in Seq(Nodes), Sorted(q, pr),
         \A j, k \in 1..Len(q) : q[j] = q[k] => j = k,
         NEW w \in Seq(Nodes), Leads(w, q, pr),
         NEW i \in 1..Len(q), NEW k \in 1..Len(w), w[k] = q[i],
         NEW e \in 1..Len(q), e = i+1, ~Has(w, q[e]),
         NEW v, Replaced(w, k, q[e], v)
  PROVE  Leads(v, RemoveAt(q, i), pr)
<1>1. Len(v) = Len(w) /\ \A j \in 1..Len(w) : v[j] = IF j = k THEN q[e] ELSE w[j]
  BY DEF Replaced
<1>2. (\A j \in 1..Len(q) : pr[q[j]] \in Int) /\ (\A j \in 1..Len(w) : pr[w[j]] \in Int) /\ Len(q) \in Nat
  BY ElementOfSeq, LenProperties
<1>3. \A j, l \in 1..Len(w) : j < l => pr[w[j]] < pr[w[l]]
  BY DEF Leads
<1>4. \A j \in 1..Len(w) : \E x \in 1..Len(q) : w[j] = q[x] /\ LeadsAt(q, pr, x)
  BY DEF Leads
<1>5. LeadsAt(q, pr, i)
  <2>1. PICK x \in 1..Len(q) : w[k] = q[x] /\ LeadsAt(q, pr, x)  BY <1>4
  <2>2. x = i  BY <2>1
  <2> QED  BY <2>1, <2>2
<1>6. pr[q[e]] = pr[q[i]]
  <2>1. PICK l \in 1..Len(w) : pr[w[l]] = pr[q[e]]  BY DEF Leads
  <2>2. PICK x \in 1..Len(q) : w[l] = q[x] /\ LeadsAt(q, pr, x)  BY <1>4
  <2>3. x # e  BY <2>2 DEF Has
  <2>4. ~(e < x)
    <3>1. e < x => pr[q[e]] # pr[q[x]]  BY <2>2 DEF LeadsAt
    <3> QED  BY <3>1, <2>1, <2>2
  <2>5. x = i \/ x < i
    <3>1. ~(x < i) /\ x # i => x = e \/ e < x  BY <1>2, OneBehind
    <3> QED  BY <3>1, <2>3, <2>4
  <2>6. CASE x = i  BY <2>6, <2>1, <2>2
  <2>7. CASE x < i
    <3>1. pr[q[x]] <= pr[q[i]]  BY <2>7 DEF Sorted
    <3>2. i < e  OBVIOUS
    <3>3. pr[q[i]] <= pr[q[e]]  BY <3>2 DEF Sorted
    <3>4. pr[q[x]] \in Int /\ pr[q[i]] \in Int /\ pr[q[e]] \in Int  BY <1>2
    <3>5. pr[q[x]] = pr[q[e]]  BY <2>1, <2>2
    <3> QED  BY <3>1, <3>3, <3>4, <3>5, SMTT(20)
  <2> QED  BY <2>5, <2>6, <2>7
<1>7. \A j \in 1..Len(w) : pr[v[j]] = pr[w[j]]
  BY <1>1, <1>6
<1>8. ASSUME NEW j \in 1..Len(v)
      PROVE  \/ \E x \in 1..Len(q) : x # i /\ v[j] = q[x] /\ LeadsAt(q, pr, x)
             \/ i+1 \in 1..Len(q) /\ v[j] = q[i+1] /\ LeadsAt(q, pr, i) /\ pr[q[i+1]] = pr[q[i]]
  <2>1. CASE j = k
    <3>1. v[j] = q[e]  BY <2>1, <1>1
    <3> QED  BY <3>1, <1>5, <1>6
  <2>2. CASE j # k
    <3>1. j \in 1..Len(w) /\ v[j] = w[j]  BY <2>2, <1>1
    <3>2. PICK x \in 1..Len(q) : w[j] = q[x] /\ LeadsAt(q, pr, x)  BY <3>1, <1>4
    <3>3. pr[w[j]] # pr[w[k]]
      <4>1. j < k \/ k < j  BY <2>2, <3>1
      <4>2. (j < k => pr[w[j]] < pr[w[k]]) /\ (k < j => pr[w[k]] < pr[w[j]])  BY <3>1, <1>3
      <4> QED  BY <4>1, <4>2, <3>1, <1>2, SMTT(20)
    <3>4. x # i  BY <3>2, <3>3
    <3> QED  BY <3>1, <3>2, <3>4
  <2> QED  BY <2>1, <2>2
<1>9. ASSUME NEW x \in 1..Len(q), x # i PROVE \E j \in 1..Len(v) : pr[v[j]] = pr[q[x]]
  <2>1. PICK l \in 1..Len(w) : pr[w[l]] = pr[q[x]]  BY DEF Leads
  <2> QED  BY <2>1, <1>1, <1>7
<1>10. ASSUME NEW j \in 1..Len(v), NEW l \in 1..Len(v), j < l PROVE pr[v[j]] < pr[v[l]]
  BY <1>1, <1>3, <1>7, <1>10
<1> QED  BY <1>8, <1>9, <1>10, LeadsRemove

\* Inserting behind an entry and removing that entry replaces it.
LEMMA InsertThenRemove ==
  ASSUME NEW S, NEW w \in Seq(S), NEW k \in 1..Len(w), NEW e \in S, NEW a \in 1..(Len(w)+1), a = k+1
  PROVE  LET x == InsertAt(w, a, e)
         IN  k \in 1..Len(x) /\ Len(x) # 1 /\ x[k] = w[k] /\ Replaced(w, k, e, RemoveAt(x, k))
<1> DEFINE x == InsertAt(w, a, e)
           v == RemoveAt(x, k)
<1>1. x \in Seq(S) /\ Inserted(w, a, e, x)
  BY InsertIndex
<1> HIDE DEF x
<1>2. /\ Len(x) = Len(w) + 1 /\ Len(w) \in Nat /\ a \in 1..Len(x) /\ x[a] = e
      /\ \A y \in 1..Len(w) : \E j \in 1..Len(x) : x[j] = w[y] /\ j = IF y < a THEN y ELSE y+1
      /\ \A j \in 1..Len(x) : j # a => \E y \in 1..Len(w) : x[j] = w[y] /\ y = IF j < a THEN j ELSE j-1
  BY <1>1 DEF Inserted
<1>3. k \in 1..Len(x) /\ x[k] = w[k]
  BY <1>2
<1>4. Removed(x, k, v)
  BY <1>1, <1>3, RemoveIndex
<1> HIDE DEF v
<1>5. /\ Len(v) = Len(x) - 1
      /\ \A j \in 1..Len(v) : \E y \in 1..Len(x) : y # k /\ v[j] = x[y] /\ y = IF j < k THEN j ELSE j+1
  BY <1>4 DEF Removed
<1>6. Len(v) = Len(w)
  BY <1>2, <1>5
<1>7. ASSUME NEW j \in 1..Len(w) PROVE v[j] = IF j = k THEN e ELSE w[j]
  <2>1. PICK y \in 1..Len(x) : y # k /\ v[j] = x[y] /\ y = IF j < k THEN j ELSE j+1  BY <1>5, <1>6
  <2>2. CASE j = k
    <3>1. y = a  BY <2>1, <2>2
    <3> QED  BY <3>1, <2>1, <2>2, <1>2
  <2>3. CASE j # k
    <3>1. y # a  BY <2>1, <2>3
    <3>2. PICK z \in 1..Len(w) : x[y] = w[z] /\ z = IF y < a THEN y ELSE y-1  BY <3>1, <1>2
    <3>3. z = j  BY <3>2, <2>1, <2>3
    <3> QED  BY <3>2, <3>3, <2>1, <2>3
  <2> QED  BY <2>2, <2>3
<1>8. Len(x) # 1
  BY <1>2
<1> QED  BY <1>3, <1>6, <1>7, <1>8 DEF x, v, Replaced

\* What plist_del() leaves of the prio_lists, when next is the entry behind n.
Left(p, h, n, next) ==
  IF list_empty(p, n) THEN p
  ELSE list_del_init(IF next # h /\ list_empty(p, next) THEN list_add(p, next, n) ELSE p, n)

LEMMA Leave ==
  ASSUME NEW m, NEW p, NEW pr, NEW Q, NEW W, Good(m, p, pr, Q, W), NEW h \in Heads,
         NEW i \in 1..Len(Q[h]), NEW n, n = Q[h][i], NEW next, next = m.next[n]
  PROVE  \E v : /\ Leads(v, RemoveAt(Q[h], i), pr)
                /\ Wheels(Left(p, h, n, next), [W EXCEPT ![h] = v])
<1> DEFINE q == Q[h]
           w == W[h]
<1>1. /\ Queues(m, Q) /\ Wheels(p, W) /\ pr \in [Nodes -> Int] /\ q \in Seq(Nodes) /\ w \in Seq(Nodes)
      /\ Sorted(q, pr) /\ Leads(w, q, pr) /\ Len(q) \in Nat /\ Len(w) \in Nat
      /\ W \in [Heads -> Seq(Nodes)]
      /\ \A x \in Nodes : OnNone(Q, x) => OnNone(W, x)
  BY GoodFacts
<1>2. /\ \A g \in Heads : \A x : Has(W[g], x) => Has(Q[g], x)
      /\ Disjoint(Q)
  <2>1. ASSUME NEW g \in Heads, NEW x, Has(W[g], x) PROVE Has(Q[g], x)
    <3> DEFINE a == Q[g]
               b == W[g]
    <3>1. a \in Seq(Nodes) /\ Sorted(a, pr) /\ b \in Seq(Nodes) /\ Leads(b, a, pr) /\ Has(b, x)
      BY <2>1, GoodFacts
    <3> HIDE DEF a, b
    <3>2. Has(a, x)  BY <3>1, <1>1, LeadsFirst
    <3> QED  BY <3>2 DEF a
  <2> QED  BY <2>1, <1>1 DEF Queues
<1>3. /\ \A j, k \in 1..Len(q) : q[j] = q[k] => j = k
      /\ \A k \in 1..Len(q) : q[k] \in Nodes /\ q[k] # h
      /\ m.next[q[i]] = At(h, q, i+1) /\ i \in 1..Len(q) /\ n = q[i]
  BY <1>1, QueueFacts, QueueReads, SMTT(20)
<1>4. /\ \A x \in Nodes : OnNone(W, x) => p.next[x] = x
      /\ \A k \in 1..Len(w) : p.next[w[k]] = w[k] <=> Len(w) = 1
  BY <1>1, EmptyOnWheel
<1>5. ASSUME NEW x \in Nodes, Has(q, x), ~Has(w, x) PROVE OnNone(W, x)
  BY <1>2, <1>5 DEF OnNone, Disjoint
<1>6. Has(q, n) /\ n \in Nodes
  BY <1>3 DEF Has
<1>7. \A k \in 1..Len(w) : Len(w) # 1 =>
        Wheels(list_del_init(p, w[k]), [W EXCEPT ![h] = RemoveAt(w, k)])
  BY <1>1, WheelsDel
<1>8. [W EXCEPT ![h] = w] = W
  BY <1>1
<1>9. Len(w) = 1 => /\ Wheels(p, [W EXCEPT ![h] = <<>>])
                    /\ \A x \in Nodes : OnNone(W, x) => Wheels(p, [W EXCEPT ![h] = <<x>>])
  BY <1>1, WheelsFew
<1>10. ASSUME NEW k \in 1..Len(w), NEW e \in Nodes, OnNone(W, e), Len(w) # 1
       PROVE  \E v : /\ Replaced(w, k, e, v)
                     /\ Wheels(list_del_init(list_add(p, e, w[k]), w[k]), [W EXCEPT ![h] = v])
  <2>1. PICK b \in 1..Len(w) : Turn(k, b, Len(w))
    <3>1. Wheel(Nodes, p, w)  BY <1>1 DEF Wheels
    <3> HIDE DEF w
    <3> QED  BY <3>1, WheelTurns
  <2>2. PICK a \in 1..(Len(w)+1) : a = k+1
    <3>1. k+1 \in 1..(Len(w)+1)  BY <1>1, SMTT(20)
    <3> QED  BY <3>1
  <2> DEFINE x == InsertAt(w, a, e)
             v == RemoveAt(x, k)
             r == list_add(p, e, w[k])
             V == [W EXCEPT ![h] = x]
  <2>3. Wheels(r, V)
    <3>1. Wheels(list_add(p, e, W[h][k]), [W EXCEPT ![h] = InsertAt(W[h], a, e)])
      BY <1>1, <1>10, <2>1, <2>2, WheelsAdd
    <3> QED  BY <3>1
  <2> HIDE DEF w
  <2>4. k \in 1..Len(x) /\ Len(x) # 1 /\ x[k] = w[k] /\ Replaced(w, k, e, v)
    <3>1. w \in Seq(Nodes)  BY <1>1
    <3> QED  BY <3>1, <2>2, InsertThenRemove
  <2> HIDE DEF x
  <2>5. V[h] = x /\ [V EXCEPT ![h] = v] = [W EXCEPT ![h] = v]
    BY <1>1
  <2> HIDE DEF V, r
  <2>6. k \in 1..Len(V[h]) /\ Len(V[h]) # 1
    BY <2>4, <2>5
  <2>7. Wheels(list_del_init(r, V[h][k]), [V EXCEPT ![h] = RemoveAt(V[h], k)])
    BY <2>3, <2>6, WheelsDel
  <2>8. Wheels(list_del_init(r, w[k]), [W EXCEPT ![h] = v])
    BY <2>4, <2>5, <2>7
  <2> HIDE DEF v
  <2> QED  BY <2>4, <2>8 DEF r
<1> HIDE DEF q, w
<1> DEFINE s == RemoveAt(q, i)
           gone == IF list_empty(p, n) THEN p
                   ELSE list_del_init(IF next # h /\ list_empty(p, next) THEN list_add(p, next, n) ELSE p, n)
<1> SUFFICES \E v : Leads(v, s, pr) /\ Wheels(gone, [W EXCEPT ![h] = v])
  BY DEF q, Left
<1>11. next = At(h, q, i+1)
  BY <1>3
<1>12. next # h => \E e \in 1..Len(q) : e = i+1 /\ next = q[e]
  <2>1. i+1 \in 1..Len(q) => next = q[i+1]  BY <1>11 DEF At
  <2>2. i+1 \notin 1..Len(q) => next = h  BY <1>11 DEF At
  <2> QED  BY <2>1, <2>2
<1>13. \A j \in 1..Len(q) : j = i+1 => next = q[j] /\ next # h
  BY <1>3, <1>11 DEF At
<1>14. CASE ~Has(w, n)
  <2>1. Leads(w, s, pr)  BY <1>1, <1>3, <1>14, LeaveOffList
  <2>2. list_empty(p, n)  BY <1>4, <1>5, <1>6, <1>14 DEF list_empty
  <2>3. Wheels(gone, [W EXCEPT ![h] = w])  BY <2>2, <1>1, <1>8
  <2> QED  BY <2>1, <2>3
<1>15. CASE Has(w, n)
  <2>1. PICK k \in 1..Len(w) : w[k] = n  BY <1>15 DEF Has
  <2>2. list_empty(p, n) <=> Len(w) = 1  BY <2>1, <1>4 DEF list_empty
  <2>3. ASSUME \A j \in 1..Len(q) : j = i+1 => Has(w, q[j])
        PROVE  Leads(RemoveAt(w, k), s, pr)
    <3>1. w[k] = q[i]  BY <2>1, <1>3
    <3> QED  BY <1>1, <1>3, <2>3, <3>1, LeaveAlone
  <2>4. ASSUME NEW e \in 1..Len(q), e = i+1, ~Has(w, q[e]),
               NEW v, Replaced(w, k, q[e], v)
        PROVE  Leads(v, s, pr)
    <3>1. w[k] = q[i]  BY <2>1, <1>3
    <3> QED  BY <1>1, <1>3, <2>4, <3>1, LeaveToNext
  <2>5. CASE \A j \in 1..Len(q) : j = i+1 => Has(w, q[j])
    <3>1. CASE Len(w) = 1
      <4>1. RemoveAt(w, k) = <<>>
        <5>1. RemoveAt(w, k) \in Seq(Nodes) /\ Removed(w, k, RemoveAt(w, k))
          BY <1>1, RemoveIndex
        <5>2. Len(RemoveAt(w, k)) = 0
          BY <5>1, <3>1 DEF Removed
        <5> QED  BY <5>1, <5>2
      <4>2. Wheels(gone, [W EXCEPT ![h] = <<>>])  BY <3>1, <2>2, <1>9
      <4> QED  BY <4>1, <4>2, <2>3, <2>5
    <3>2. CASE Len(w) # 1
      <4>1. ~(next # h /\ list_empty(p, next))
        <5> SUFFICES ASSUME next # h PROVE ~list_empty(p, next)  OBVIOUS
        <5>1. PICK e \in 1..Len(q) : e = i+1 /\ next = q[e]  BY <1>12
        <5>2. PICK l \in 1..Len(w) : w[l] = next  BY <5>1, <2>5 DEF Has
        <5> QED  BY <5>2, <3>2, <1>4 DEF list_empty
      <4>2. gone = list_del_init(p, w[k])  BY <4>1, <3>2, <2>1, <2>2
      <4>3. Wheels(gone, [W EXCEPT ![h] = RemoveAt(w, k)])  BY <4>2, <3>2, <1>7
      <4> QED  BY <4>3, <2>3, <2>5
    <3> QED  BY <3>1, <3>2
  <2>6. CASE \E j \in 1..Len(q) : j = i+1 /\ ~Has(w, q[j])
    <3>0. PICK e \in 1..Len(q) : e = i+1 /\ ~Has(w, q[e])  BY <2>6
    <3>1. next = q[e] /\ next # h /\ next \in Nodes /\ Has(q, next)  BY <3>0, <1>3, <1>13 DEF Has
    <3>2. OnNone(W, next)  BY <3>0, <3>1, <1>5
    <3>3. CASE Len(w) = 1
      <4> DEFINE v == <<next>>
      <4>1. Len(v) = 1 /\ v[1] = next  OBVIOUS
      <4>2. Wheels(gone, [W EXCEPT ![h] = v])  BY <3>1, <3>2, <3>3, <2>2, <1>9
      <4> HIDE DEF v
      <4>3. Replaced(w, k, q[e], v)
        <5>1. 1..Len(w) = {1} /\ k = 1  BY <3>3
        <5> QED  BY <5>1, <4>1, <3>1, <3>3 DEF Replaced
      <4>4. Leads(v, s, pr)  BY <2>4, <3>0, <4>3
      <4> QED  BY <4>2, <4>4
    <3>4. CASE Len(w) # 1
      <4>1. list_empty(p, next)  BY <3>1, <3>2, <1>4 DEF list_empty
      <4>2. gone = list_del_init(list_add(p, next, w[k]), w[k])  BY <4>1, <3>1, <3>4, <2>1, <2>2
      <4> HIDE DEF gone
      <4>3. PICK v : /\ Replaced(w, k, next, v)
                     /\ Wheels(list_del_init(list_add(p, next, w[k]), w[k]), [W EXCEPT ![h] = v])
        BY <3>1, <3>2, <3>4, <1>10
      <4>4. Leads(v, s, pr)  BY <2>4, <3>0, <3>1, <4>3
      <4> QED  BY <4>2, <4>3, <4>4
    <3> QED  BY <3>3, <3>4
  <2> QED  BY <2>5, <2>6
<1> QED  BY <1>14, <1>15

-----------------------------------------------------------------------------
(* The slot is the place that PlistSpec promises.                          *)

\* The entries in front of position i are i-1.
LEMMA CountInFront ==
  ASSUME NEW S, NEW q \in Seq(S), \A j, k \in 1..Len(q) : q[j] = q[k] => j = k, NEW i \in 1..(Len(q)+1),
         NEW pr, NEW n, Slot(q, pr, i, n)
  PROVE  Cardinality({x \in ToSet(q) : pr[x] <= pr[n]}) = i-1
<1> DEFINE T == {x \in ToSet(q) : pr[x] <= pr[n]}
           f == [l \in 1..(i-1) |-> q[l]]
<1>1. Len(q) \in Nat /\ i-1 \in Nat /\ 1..(i-1) \subseteq 1..Len(q) /\ DOMAIN q = 1..Len(q)
  BY LenProperties
<1>2. \A l \in 1..Len(q) : l \in 1..(i-1) <=> l < i
  BY <1>1
<1>3. f \in [1..(i-1) -> T]
  <2>1. ASSUME NEW l \in 1..(i-1) PROVE q[l] \in T
    <3>1. l \in 1..Len(q) /\ pr[q[l]] <= pr[n]  BY <1>1, <1>2 DEF Slot
    <3> QED  BY <3>1, <1>1 DEF ToSet
  <2> QED  BY <2>1
<1>4. \A x \in T : \E l \in 1..(i-1) : f[l] = x
  <2> TAKE x \in T
  <2>1. PICK l \in 1..Len(q) : q[l] = x  BY <1>1 DEF ToSet
  <2>2. l \in 1..(i-1)  BY <2>1, <1>2 DEF Slot
  <2> QED  BY <2>1, <2>2
<1>5. \A j, k \in 1..(i-1) : f[j] = f[k] => j = k
  BY <1>1
<1> HIDE DEF f, T
<1>6. DOMAIN f = 1..(i-1)
  BY <1>3
<1>7. f \in Bijection(1..(i-1), T)
  BY <1>3, <1>4, <1>5, <1>6 DEF Bijection, Injection, Surjection, IsInjective
<1>8. ExistsBijection(1..(i-1), T)
  BY <1>7 DEF ExistsBijection
<1>9. Cardinality(T) = i-1
  <2>1. PICK c \in Nat : c = i-1  BY <1>1
  <2>2. ExistsBijection(1..c, T)  BY <1>8, <2>1
  <2>3. Cardinality(T) = c  BY <2>2, FS_CountingElements
  <2> QED  BY <2>1, <2>3
<1> QED  BY <1>9 DEF T

LEMMA SlotIsEnqueue ==
  ASSUME prio \in [Nodes -> Int], NEW q \in Seq(Nodes), \A j, k \in 1..Len(q) : q[j] = q[k] => j = k,
         NEW n \in Nodes, NEW i \in 1..(Len(q)+1), Slot(q, prio, i, n)
  PROVE  Promise!Enqueue(q, n) = InsertAt(q, i, n)
<1> DEFINE T == {x \in ToSet(q) : prio[x] <= prio[n]}
<1>2. Cardinality(T) = i-1
  BY CountInFront
<1>3. Promise!Enqueue(q, n) = InsertAt(q, Cardinality(T)+1, n)
  BY DEF Promise!Enqueue, Promise!InsertAt, InsertAt, Promise!ToSet, ToSet, Promise!Cardinality, Cardinality
<1> HIDE DEF T
<1>4. i-1+1 = i
  OBVIOUS
<1> QED  BY <1>2, <1>3, <1>4

LEMMA DequeueIsRemove ==
  ASSUME NEW q \in Seq(Nodes), \A j, k \in 1..Len(q) : q[j] = q[k] => j = k, NEW i \in 1..Len(q)
  PROVE  Promise!Dequeue(q, q[i]) = RemoveAt(q, i)
<1>1. DOMAIN q = 1..Len(q)
  BY LenProperties
<1>2. (CHOOSE j \in DOMAIN q : q[j] = q[i]) = i
  BY <1>1
<1> QED  BY <1>2 DEF Promise!Dequeue, Promise!RemoveAt, RemoveAt

-----------------------------------------------------------------------------
(* plist_requeue().                                                        *)

\* The last of its priority is where it would be added again.
LEMMA PlaceKept ==
  ASSUME NEW pr \in [Nodes -> Int], NEW q \in Seq(Nodes), Sorted(q, pr), NEW i \in 1..Len(q),
         \A e \in 1..Len(q) : e = i+1 => pr[q[e]] # pr[q[i]]
  PROVE  /\ i \in 1..(Len(RemoveAt(q, i))+1)
         /\ Slot(RemoveAt(q, i), pr, i, q[i])
         /\ InsertAt(RemoveAt(q, i), i, q[i]) = q
<1> DEFINE s == RemoveAt(q, i)
           n == q[i]
<1>1. s \in Seq(Nodes) /\ Removed(q, i, s)
  BY RemoveIndex
<1>2. (\A k \in 1..Len(q) : pr[q[k]] \in Int) /\ n \in Nodes /\ pr[n] \in Int
  BY ElementOfSeq
<1> HIDE DEF s
<1>3. /\ Len(s) = Len(q) - 1 /\ Len(q) \in Nat
      /\ \A k \in 1..Len(s) : \E x \in 1..Len(q) : x # i /\ s[k] = q[x] /\ x = IF k < i THEN k ELSE k+1
  BY <1>1 DEF Removed
<1>4. i \in 1..(Len(s)+1)
  BY <1>3
<1>5. ASSUME NEW l \in 1..Len(s) PROVE l < i <=> pr[s[l]] <= pr[n]
  <2>1. PICK x \in 1..Len(q) : x # i /\ s[l] = q[x] /\ x = IF l < i THEN l ELSE l+1  BY <1>3
  <2>2. CASE l < i
    <3>1. x < i  BY <2>1, <2>2
    <3>2. pr[q[x]] <= pr[q[i]]  BY <3>1 DEF Sorted
    <3> QED  BY <3>2, <2>1, <2>2
  <2>3. CASE ~(l < i)
    <3>1. ~(x < i)  BY <2>1, <2>3
    <3>2. PICK e \in 1..Len(q) : e = i+1 /\ i < e /\ (x = e \/ e < x)  BY <3>1, <2>1, <1>3, OneBehind
    <3>3. pr[q[e]] # pr[q[i]] /\ pr[q[i]] <= pr[q[e]]  BY <3>2 DEF Sorted
    <3>4. pr[q[e]] <= pr[q[x]]
      <4>1. CASE x = e  BY <4>1, <1>2
      <4>2. CASE e < x  BY <4>2 DEF Sorted
      <4> QED  BY <4>1, <4>2, <3>2
    <3>5. pr[q[i]] \in Int /\ pr[q[e]] \in Int /\ pr[q[x]] \in Int  BY <1>2
    <3>6. ~(pr[q[x]] <= pr[q[i]])  BY <3>3, <3>4, <3>5
    <3> QED  BY <3>6, <2>1, <2>3
  <2> QED  BY <2>2, <2>3
<1>6. Slot(s, pr, i, n)
  BY <1>5 DEF Slot
<1> DEFINE r == InsertAt(s, i, n)
<1>7. r \in Seq(Nodes) /\ Inserted(s, i, n, r)
  BY <1>1, <1>2, <1>4, InsertIndex
<1> HIDE DEF r
<1>8. /\ Len(r) = Len(s) + 1 /\ r[i] = n
      /\ \A k \in 1..Len(r) : k # i => \E x \in 1..Len(s) : r[k] = s[x] /\ x = IF k < i THEN k ELSE k-1
  BY <1>7 DEF Inserted
<1>9. Len(r) = Len(q)
  BY <1>3, <1>8
<1>10. ASSUME NEW k \in 1..Len(q) PROVE r[k] = q[k]
  <2>1. CASE k = i  BY <2>1, <1>8
  <2>2. CASE k # i
    <3>1. PICK x \in 1..Len(s) : r[k] = s[x] /\ x = IF k < i THEN k ELSE k-1  BY <2>2, <1>8, <1>9
    <3>2. PICK y \in 1..Len(q) : y # i /\ s[x] = q[y] /\ y = IF x < i THEN x ELSE x+1  BY <1>3
    <3>3. y = k  BY <3>1, <3>2, <2>2
    <3> QED  BY <3>1, <3>2, <3>3
  <2> QED  BY <2>1, <2>2
<1>11. r = q
  BY <1>7, <1>9, <1>10, SeqEqual
<1> QED  BY <1>4, <1>6, <1>11 DEF s, r

\* The entries behind x that have another priority than n.
Others(s, x, pr, n) == {j \in Behind(s, x) : pr[s[j]] # pr[n]}

\* What the search finds is at position c.
EndsAt(other, s, c) == \A h : (IF other = {} THEN h ELSE s[Min(other)]) = At(h, s, c)

\* The search of plist_requeue() from the entry behind it ends at the slot
\* (plist.c:160-171).
LEMMA RequeueSlot ==
  ASSUME NEW pr \in [Nodes -> Int], NEW s \in Seq(Nodes), Sorted(s, pr),
         \A j, k \in 1..Len(s) : s[j] = s[k] => j = k,
         NEW n \in Nodes, NEW i \in 1..Len(s), pr[s[i]] = pr[n]
  PROVE  \E c \in 1..(Len(s)+1) : Slot(s, pr, c, n) /\ EndsAt(Others(s, s[i], pr, n), s, c)
<1> DEFINE other == Others(s, s[i], pr, n)
<1>1. Len(s) \in Nat /\ pr[n] \in Int /\ \A k \in 1..Len(s) : pr[s[k]] \in Int
  BY LenProperties, ElementOfSeq
<1>2. \A j \in 1..Len(s) : j \in Behind(s, s[i]) <=> i < j
  <2>1. ASSUME NEW j \in 1..Len(s), i < j PROVE j \in Behind(s, s[i])
    <3>1. i \in 1..(j-1)  BY <2>1
    <3> QED  BY <3>1 DEF Behind
  <2>2. ASSUME NEW j \in 1..Len(s), j \in Behind(s, s[i]) PROVE i < j
    <3>1. PICK k \in 1..(j-1) : s[k] = s[i]  BY <2>2 DEF Behind
    <3>2. k \in 1..Len(s) /\ k < j  BY <1>1
    <3>3. k = i  BY <3>1, <3>2
    <3> QED  BY <3>2, <3>3
  <2> QED  BY <2>1, <2>2
<1>3. other \subseteq 1..Len(s) /\ \A j \in 1..Len(s) : j \in other <=> i < j /\ pr[s[j]] # pr[n]
  BY <1>2 DEF Others, Behind
<1> HIDE DEF other
<1>4. ASSUME NEW l \in 1..Len(s), l \notin other PROVE pr[s[l]] <= pr[n]
  <2>1. CASE i < l  BY <2>1, <1>1, <1>3, <1>4
  <2>2. CASE l = i  BY <2>2, <1>1
  <2>3. CASE l < i
    <3>1. pr[s[l]] <= pr[s[i]]  BY <2>3 DEF Sorted
    <3> QED  BY <3>1
  <2> QED  BY <2>1, <2>2, <2>3
<1>5. CASE other = {}
  <2>1. Len(s)+1 \in 1..(Len(s)+1) /\ Len(s)+1 \notin 1..Len(s) /\ \A l \in 1..Len(s) : l < Len(s)+1  BY <1>1
  <2>2. Slot(s, pr, Len(s)+1, n)  BY <2>1, <1>4, <1>5 DEF Slot
  <2>3. \A h : At(h, s, Len(s)+1) = h  BY <2>1 DEF At
  <2>4. EndsAt(other, s, Len(s)+1)  BY <2>3, <1>5 DEF EndsAt
  <2> QED  BY <2>1, <2>2, <2>4 DEF other
<1>6. CASE other # {}
  <2>0. other \in SUBSET Nat /\ other \in SUBSET Int  BY <1>3
  <2>1. PICK c \in other : \A j \in other : c <= j  BY <2>0, <1>6, Least
  <2>2. Min(other) = c  BY <2>0, <2>1, LeastIsMin
  <2>3. c \in 1..Len(s) /\ i < c /\ pr[s[c]] # pr[n] /\ c \in 1..(Len(s)+1)  BY <2>1, <1>1, <1>3
  <2>4. pr[s[i]] <= pr[s[c]]  BY <2>3 DEF Sorted
  <2>5. ASSUME NEW l \in 1..Len(s) PROVE l < c <=> pr[s[l]] <= pr[n]
    <3>1. CASE l < c
      <4>1. l \notin other  BY <3>1, <2>1, <2>3
      <4> QED  BY <4>1, <3>1, <1>4
    <3>2. CASE ~(l < c)
      <4>1. pr[s[c]] <= pr[s[l]]
        <5>1. CASE l = c  BY <5>1, <1>1
        <5>2. CASE c < l  BY <5>2, <2>3 DEF Sorted
        <5> QED  BY <5>1, <5>2, <3>2, <2>3
      <4>2. pr[s[c]] \in Int /\ pr[s[l]] \in Int /\ pr[n] \in Int  BY <2>3, <1>1
      <4> QED  BY <4>1, <4>2, <3>2, <2>3, <2>4
    <3> QED  BY <3>1, <3>2
  <2>6. Slot(s, pr, c, n)  BY <2>5 DEF Slot
  <2>7. \A h : At(h, s, c) = s[c]  BY <2>3 DEF At
  <2>8. EndsAt(other, s, c)  BY <2>2, <2>7, <1>6 DEF EndsAt
  <2> QED  BY <2>3, <2>6, <2>8 DEF other
<1> QED  BY <1>5, <1>6

-----------------------------------------------------------------------------
(* The inductive invariant, and the calls.                                 *)

\* There are lists and prio_lists, in step, that the two memories hold.
IInv == \E Q, W : Good(nl, pl, prio, Q, W)

\* The lists are those that the loop visits.
LEMMA QueueIsList ==
  ASSUME NEW m, NEW Q, Queues(m, Q)
  PROVE  [h \in Heads |-> list_for_each(m, h)] = Q
<1>1. \A h \in Heads : list_for_each(m, h) = Q[h]
  BY QueueReads
<1>2. Q \in [Heads -> Seq(Nodes)]
  BY DEF Queues
<1> QED  BY <1>1, <1>2

LEMMA InitGood ==
  ASSUME Init
  PROVE  LET N == [h \in Heads |-> <<>>] IN Good(nl, pl, prio, N, N)
<1> DEFINE N == [h \in Heads |-> <<>>]
<1>1. N \in [Heads -> Seq(Nodes)] /\ \A h \in Heads : N[h] = <<>>
  OBVIOUS
<1>2. Len(<<>>) = 0 /\ 1..0 = {} /\ 0..0 = {0}
  OBVIOUS
<1> HIDE DEF N
<1>3. \A h \in Heads : \A x : ~Has(N[h], x)
  BY <1>1, <1>2 DEF Has
<1>4. Disjoint(N)
  BY <1>3 DEF Disjoint
<1>5. nl \in Memory(Cells) /\ \A x \in Cells : nl.next[x] = x /\ nl.prev[x] = x
  BY DEF Init, Self, Memory, Cells
<1>6. pl \in Memory(Nodes) /\ \A x \in Nodes : Rests(pl, x)
  BY DEF Init, Self, Memory, Rests
<1>7. ASSUME NEW h \in Heads PROVE Circle(Cells, h, N[h]) /\ Ring(nl, h, N[h])
  <2> DEFINE q == N[h]
  <2>1. h \in Cells /\ q = <<>> /\ Len(q) = 0 /\ q \in Seq(Cells)  BY <1>1, <1>2 DEF Cells
  <2> HIDE DEF q
  <2>2. Circle(Cells, h, q)  BY <2>1, <1>2 DEF Circle
  <2>3. \A i : At(h, q, i) = h  BY <2>1, <1>2 DEF At
  <2>4. Ring(nl, h, q)  BY <2>1, <2>3, <1>5 DEF Ring
  <2> QED  BY <2>2, <2>4 DEF q
<1>8. Queues(nl, N)
  <2>1. \A x \in Nodes : Rests(nl, x)  BY <1>5 DEF Rests, Cells
  <2> QED  BY <2>1, <1>1, <1>4, <1>5, <1>7 DEF Queues
<1>9. Wheels(pl, N)
  <2>1. ASSUME NEW h \in Heads PROVE Wheel(Nodes, pl, N[h])
    <3>1. N[h] \in Seq(Nodes) /\ 1..Len(N[h]) = {}  BY <1>1, <1>2
    <3> QED  BY <3>1 DEF Wheel
  <2> QED  BY <2>1, <1>1, <1>4, <1>6 DEF Wheels
<1>10. ASSUME NEW h \in Heads PROVE Sorted(N[h], prio) /\ Leads(N[h], N[h], prio)
  <2>1. 1..Len(N[h]) = {}  BY <1>1, <1>2
  <2> QED  BY <2>1 DEF Sorted, Leads
<1>11. prio \in [Nodes -> Prios]
  BY DEF Init
<1>12. Good(nl, pl, prio, N, N)
  BY <1>8, <1>9, <1>10, <1>11 DEF Good
<1> QED  BY <1>12 DEF N

\* plist_head_init() on an empty head changes nothing (plist.c, plist.h).
LEMMA HeadInitStep ==
  ASSUME NEW Q, NEW W, Good(nl, pl, prio, Q, W), NEW h \in Heads, PlistHeadInit(h)
  PROVE  UNCHANGED vars
<1>1. Queues(nl, Q) /\ h \in Cells /\ nl \in Memory(Cells)
  BY DEF Good, Queues, Cells
<1>2. nl.next[h] = h /\ nl' = INIT_LIST_HEAD(nl, h) /\ pl' = pl /\ prio' = prio
  BY DEF PlistHeadInit, plist_head_empty, list_empty
<1>3. nl.prev[h] = h
  <2> DEFINE q == Q[h]
  <2>1. Len(q) = 0 /\ nl.prev[h] = At(h, q, Len(q))  BY <1>1, <1>2, QueueReads
  <2> HIDE DEF q
  <2>2. At(h, q, Len(q)) = h
    <3>1. Len(q) \notin 1..Len(q)  BY <2>1
    <3> QED  BY <3>1 DEF At
  <2> QED  BY <2>1, <2>2
<1>4. INIT_LIST_HEAD(nl, h) = nl
  BY <1>1, <1>2, <1>3, InitRests DEF Rests
<1> QED  BY <1>2, <1>4 DEF vars

LEMMA NodeInitStep ==
  ASSUME NEW Q, NEW W, Good(nl, pl, prio, Q, W), NEW n \in Nodes, NEW p \in Prios, PlistNodeInit(n, p)
  PROVE  OnNone(Q, n) /\ nl' = nl /\ prio' = [prio EXCEPT ![n] = p] /\ Good(nl', pl', prio', Q, W)
<1>1. /\ Queues(nl, Q) /\ Wheels(pl, W) /\ prio \in [Nodes -> Prios]
      /\ \A h \in Heads : Sorted(Q[h], prio) /\ Leads(W[h], Q[h], prio)
  BY DEF Good
<1>2. /\ nl.next[n] = n /\ nl' = INIT_LIST_HEAD(nl, n) /\ pl' = INIT_LIST_HEAD(pl, n)
      /\ prio' = [prio EXCEPT ![n] = p]
  BY DEF PlistNodeInit, plist_node_empty, list_empty
<1>3. OnNone(Q, n)
  BY <1>1, <1>2, EmptyIsOff
<1>4. OnNone(W, n)
  <2>1. ASSUME NEW h \in Heads PROVE OnNone(W, n)  BY <1>3, GoodFacts
  <2> QED  BY <2>1 DEF OnNone
<1>5. nl' = nl
  <2>1. Rests(nl, n) /\ nl \in Memory(Cells) /\ n \in Cells  BY <1>1, <1>3 DEF Queues, Cells
  <2> QED  BY <2>1, <1>2, InitRests
<1>6. pl' = pl
  <2>1. Rests(pl, n) /\ pl \in Memory(Nodes)  BY <1>1, <1>4 DEF Wheels
  <2> QED  BY <2>1, <1>2, InitRests
<1>7. prio' \in [Nodes -> Prios] /\ \A x : x # n => prio'[x] = prio[x]
  BY <1>1, <1>2
<1>8. ASSUME NEW h \in Heads PROVE Sorted(Q[h], prio') /\ Leads(W[h], Q[h], prio')
  <2>1. (\A k \in 1..Len(Q[h]) : Q[h][k] # n) /\ \A k \in 1..Len(W[h]) : W[h][k] # n
    BY <1>3, <1>4 DEF OnNone, Has
  <2>2. Sorted(Q[h], prio')
    BY <2>1, <1>1, <1>7 DEF Sorted
  <2> DEFINE q == Q[h]
             w == W[h]
  <2> HIDE DEF q, w
  <2>3. /\ \A k \in 1..Len(q) : prio'[q[k]] = prio[q[k]]
        /\ \A k \in 1..Len(w) : prio'[w[k]] = prio[w[k]]
    BY <2>1, <1>7 DEF q, w
  <2>4. Leads(w, q, prio)
    BY <1>1 DEF q, w
  <2>5. ASSUME NEW i \in 1..Len(q), LeadsAt(q, prio, i) PROVE LeadsAt(q, prio', i)
    BY <2>3, <2>5 DEF LeadsAt
  <2>6. Leads(w, q, prio')
    <3>1. \A k \in 1..Len(w) : \E i \in 1..Len(q) : w[k] = q[i] /\ LeadsAt(q, prio', i)
      BY <2>4, <2>5 DEF Leads
    <3>2. \A i \in 1..Len(q) : \E k \in 1..Len(w) : prio'[w[k]] = prio'[q[i]]
      BY <2>3, <2>4 DEF Leads
    <3>3. \A j, k \in 1..Len(w) : j < k => prio'[w[j]] < prio'[w[k]]
      BY <2>3, <2>4 DEF Leads
    <3> QED  BY <3>1, <3>2, <3>3 DEF Leads
  <2> QED  BY <2>2, <2>6 DEF q, w
<1>9. Good(nl', pl', prio', Q, W)
  BY <1>1, <1>5, <1>6, <1>7, <1>8 DEF Good
<1> QED  BY <1>2, <1>3, <1>5, <1>9

\* plist_add() puts the entry at its slot.
LEMMA AddStep ==
  ASSUME NEW Q, NEW W, Good(nl, pl, prio, Q, W), NEW n \in Nodes, NEW h \in Heads, PlistAdd(n, h)
  PROVE  /\ OnNone(Q, n) /\ prio' = prio
         /\ \E i \in 1..(Len(Q[h])+1) : \E v :
              /\ Slot(Q[h], prio, i, n)
              /\ Good(nl', pl', prio, [Q EXCEPT ![h] = InsertAt(Q[h], i, n)], [W EXCEPT ![h] = v])
<1> DEFINE q == Q[h]
           w == W[h]
<1>1. /\ Queues(nl, Q) /\ Wheels(pl, W) /\ prio \in [Nodes -> Int] /\ q \in Seq(Nodes) /\ w \in Seq(Nodes)
      /\ Sorted(q, prio) /\ Leads(w, q, prio) /\ Len(q) \in Nat /\ Len(w) \in Nat
      /\ Len(q) = 0 <=> Len(w) = 0
      /\ Len(q) # 0 => w[1] = q[1]
  BY GoodFacts
<1>2. prio' = prio /\ nl.next[n] = n
  BY DEF PlistAdd, plist_node_empty, list_empty
<1>3. OnNone(Q, n)
  BY <1>1, <1>2, EmptyIsOff
<1>4. plist_head_empty(h) <=> Len(q) = 0
  <2>1. nl.next[h] = h <=> Len(Q[h]) = 0  BY <1>1, QueueReads
  <2> QED  BY <2>1 DEF plist_head_empty, list_empty
<1>5. CASE Len(q) = 0
  <2>1. nl' = list_add_tail(nl, n, h) /\ pl' = pl
    BY <1>4, <1>5 DEF PlistAdd
  <2>2. /\ 1 \in 1..(Len(Q[h])+1) /\ Slot(Q[h], prio, 1, n)
        /\ Good(list_add_tail(nl, n, h), pl, prio, [Q EXCEPT ![h] = InsertAt(Q[h], 1, n)], [W EXCEPT ![h] = <<n>>])
    BY <1>3, <1>5, AddToEmpty
  <2> QED  BY <2>1, <2>2, <1>2, <1>3
<1>6. CASE Len(q) # 0
  <2> DEFINE first == plist_first(h)
             lap   == Lap(first)
             after == {i \in 1..Len(lap) : ServedBefore(n, lap[i])}
             turns == IF after = {} THEN Len(lap) ELSE Min(after) - 1
             iter  == IF after = {} THEN lap[1] ELSE lap[turns + 1]
             node_next == IF after = {} THEN h ELSE iter
             new_prio  == turns = 0 \/ prio[lap[turns]] # prio[n]
  <2>1. /\ nl' = list_add_tail(nl, n, node_next)
        /\ pl' = IF new_prio THEN list_add_tail(pl, n, iter) ELSE pl
    <3>1. ~plist_head_empty(h)  BY <1>4, <1>6
    <3> QED  BY <3>1 DEF PlistAdd
  <2>2. first = w[1]
    <3>1. nl.next[h] = At(h, Q[h], 1)  BY <1>1, QueueReads
    <3>2. 1 \in 1..Len(Q[h])  BY <1>1, <1>6
    <3>3. At(h, Q[h], 1) = Q[h][1]  BY <3>2 DEF At
    <3> QED  BY <3>1, <3>3, <1>1, <1>6 DEF plist_first
  <2> HIDE DEF first
  <2>3. lap = w
    <3>1. Wheel(Nodes, pl, w) /\ pl \in Memory(Nodes) /\ Len(w) # 0 /\ IsFiniteSet(Nodes)
      <4>1. IsFiniteSet(Nodes)
        <5>1. Nodes \subseteq Heads \cup Nodes  OBVIOUS
        <5> QED  BY <5>1, PlistAssumption, FS_Subset
      <4> QED  BY <4>1, <1>1, <1>6 DEF Wheels
    <3> HIDE DEF w
    <3>2. <<w[1]>> \o list_for_each(pl, w[1]) = w  BY <3>1, WheelLoops
    <3> QED  BY <3>2, <2>2 DEF Lap
  <2> HIDE DEF lap
  <2>4. after = {i \in 1..Len(w) : prio[n] < prio[w[i]]}
    BY <2>3 DEF ServedBefore
  <2> HIDE DEF after
  <2>5. turns \in 0..Len(w) /\ Cut(w, prio, turns, n) /\ (after = {} <=> turns = Len(w))
    <3> DEFINE A == {i \in 1..Len(w) : prio[n] < prio[w[i]]}
               t == IF A = {} THEN Len(w) ELSE Min(A) - 1
    <3>1. t \in 0..Len(w) /\ Cut(w, prio, t, n) /\ (A = {} <=> t = Len(w))
      <4> HIDE DEF q, w
      <4>1. prio \in [Nodes -> Int] /\ q \in Seq(Nodes) /\ w \in Seq(Nodes) /\ Leads(w, q, prio)  BY <1>1
      <4> QED  BY <4>1, SearchCuts
    <3>2. A = after  BY <2>4
    <3> HIDE DEF A
    <3>3. t = turns  BY <3>2, <2>3
    <3> HIDE DEF t, turns
    <3> QED  BY <3>1, <3>2, <3>3
  <2> HIDE DEF turns
  <2>6. /\ node_next = IF turns = Len(w) THEN h ELSE w[turns+1]
        /\ iter = IF turns = Len(w) THEN w[1] ELSE w[turns+1]
        /\ new_prio <=> turns = 0 \/ prio[w[turns]] # prio[n]
    BY <2>3, <2>5
  <2> HIDE DEF node_next, iter, new_prio
  <2> HIDE DEF w
  <2>11. StopsAt(w, turns, h, node_next) /\ StopsAt(w, turns, w[1], iter)
    BY <2>6 DEF StopsAt
  <2>7. \E i \in 1..(Len(Q[h])+1) : \E v :
           /\ Slot(Q[h], prio, i, n)
           /\ Good(list_add_tail(nl, n, node_next), GetsOn(pl, W[h], prio, turns, n, iter), prio,
                   [Q EXCEPT ![h] = InsertAt(Q[h], i, n)], [W EXCEPT ![h] = v])
    <3>1. /\ turns \in 0..Len(W[h]) /\ Cut(W[h], prio, turns, n)
          /\ StopsAt(W[h], turns, h, node_next) /\ StopsAt(W[h], turns, W[h][1], iter)
      BY <2>5, <2>11 DEF w
    <3> QED  BY <3>1, <1>3, <1>6, AddToOthers
  <2>8. nl' = list_add_tail(nl, n, node_next)
    BY <2>1
  <2>9. pl' = GetsOn(pl, W[h], prio, turns, n, iter)
    BY <2>1, <2>6 DEF w, GetsOn
  <2>10. \E i \in 1..(Len(Q[h])+1) : \E v :
            /\ Slot(Q[h], prio, i, n)
            /\ Good(nl', pl', prio, [Q EXCEPT ![h] = InsertAt(Q[h], i, n)], [W EXCEPT ![h] = v])
    BY <2>7, <2>8, <2>9
  <2> QED  BY <2>10, <1>2, <1>3
<1> QED  BY <1>5, <1>6

\* plist_del() takes the entry out of its list.
LEMMA DelStep ==
  ASSUME NEW Q, NEW W, Good(nl, pl, prio, Q, W), NEW n \in Nodes, NEW h \in Heads, PlistDel(n, h)
  PROVE  /\ prio' = prio
         /\ \E i \in 1..Len(Q[h]) : \E v :
              /\ Q[h][i] = n
              /\ Good(nl', pl', prio, [Q EXCEPT ![h] = RemoveAt(Q[h], i)], [W EXCEPT ![h] = v])
<1>1. /\ Queues(nl, Q) /\ Q[h] \in Seq(Nodes) /\ Sorted(Q[h], prio) /\ DOMAIN Q[h] = 1..Len(Q[h])
  BY GoodFacts, LenProperties
<1>2. /\ prio' = prio /\ nl' = list_del_init(nl, n) /\ pl' = LeavePrioList(n, h)
      /\ n \in ToSet(Queue(h))
  BY DEF PlistDel, plist_del
<1>3. Queue(h) = Q[h]
  BY <1>1, QueueReads DEF Queue
<1>4. PICK i \in 1..Len(Q[h]) : Q[h][i] = n
  BY <1>1, <1>2, <1>3 DEF ToSet
<1>5. pl' = Left(pl, h, n, nl.next[n])
  BY <1>2 DEF LeavePrioList, StandsFor, plist_next, Left
<1>6. PICK v : /\ Leads(v, RemoveAt(Q[h], i), prio)
               /\ Wheels(Left(pl, h, n, nl.next[n]), [W EXCEPT ![h] = v])
  BY <1>4, Leave
<1>7. Queues(nl', [Q EXCEPT ![h] = RemoveAt(Q[h], i)])
  BY <1>1, <1>2, <1>4, QueueDel
<1>8. Sorted(RemoveAt(Q[h], i), prio)
  BY <1>1, SortedRemove
<1> DEFINE s == RemoveAt(Q[h], i)
<1>9. Good(nl', pl', prio, [Q EXCEPT ![h] = s], [W EXCEPT ![h] = v])
  <2>1. Leads(v, s, prio) /\ Wheels(pl', [W EXCEPT ![h] = v]) /\ Queues(nl', [Q EXCEPT ![h] = s]) /\ Sorted(s, prio)
    BY <1>5, <1>6, <1>7, <1>8
  <2> HIDE DEF s
  <2> QED  BY <2>1, GoodAfter
<1> QED  BY <1>2, <1>4, <1>9

\* plist_requeue() takes the entry out and puts it at its slot in what is left.
LEMMA RequeueStep ==
  ASSUME NEW Q, NEW W, Good(nl, pl, prio, Q, W), NEW n \in Nodes, NEW h \in Heads, PlistRequeue(n, h)
  PROVE  /\ prio' = prio
         /\ \E i \in 1..Len(Q[h]) : \E c, v :
              /\ Q[h][i] = n
              /\ c \in 1..(Len(RemoveAt(Q[h], i))+1) /\ Slot(RemoveAt(Q[h], i), prio, c, n)
              /\ Good(nl', pl', prio, [Q EXCEPT ![h] = InsertAt(RemoveAt(Q[h], i), c, n)], [W EXCEPT ![h] = v])
<1> DEFINE q == Q[h]
           iter == plist_next(n)
           gone == list_del_init(nl, n)
           rest == list_for_each(gone, h)
           other == {i \in Behind(rest, iter) : prio[rest[i]] # prio[n]}
           node_next == IF other = {} THEN h ELSE rest[Min(other)]
<1>1. /\ Queues(nl, Q) /\ prio \in [Nodes -> Int] /\ q \in Seq(Nodes) /\ Sorted(q, prio)
      /\ DOMAIN q = 1..Len(q) /\ Len(q) \in Nat
      /\ Q \in [Heads -> Seq(Nodes)] /\ W \in [Heads -> Seq(Nodes)]
  BY GoodFacts, LenProperties
<1>2. /\ prio' = prio /\ n \in ToSet(Queue(h))
      /\ IF n = plist_last(h) \/ prio[n] # prio[iter]
         THEN nl' = nl /\ pl' = pl
         ELSE nl' = list_add_tail(gone, n, node_next) /\ pl' = LeavePrioList(n, h)
  BY DEF PlistRequeue
<1>3. Queue(h) = q /\ plist_last(h) = At(h, q, Len(q)) /\ \A i \in 1..Len(q) : nl.next[q[i]] = At(h, q, i+1)
  <2>1. Queues(nl, Q)  BY <1>1
  <2>2. /\ list_for_each(nl, h) = Q[h] /\ nl.prev[h] = At(h, Q[h], Len(Q[h]))
        /\ \A i \in 1..Len(Q[h]) : nl.next[Q[h][i]] = At(h, Q[h], i+1)
    BY <2>1, QueueReads
  <2> QED  BY <2>2 DEF Queue, plist_last
<1>4. /\ \A j, k \in 1..Len(q) : q[j] = q[k] => j = k
      /\ \A k \in 1..Len(q) : q[k] # h
  BY <1>1, QueueFacts
<1>5. PICK i \in 1..Len(q) : q[i] = n
  BY <1>1, <1>2, <1>3 DEF ToSet
<1>6. iter = At(h, q, i+1)
  BY <1>3, <1>5 DEF plist_next
<1> HIDE DEF iter
<1>7. plist_last(h) = q[Len(q)]
  <2>1. Len(q) \in 1..Len(q)  BY <1>1, <1>5
  <2> QED  BY <2>1, <1>3 DEF At
<1>8. CASE n = plist_last(h) \/ prio[n] # prio[iter]
  <2>1. \A e \in 1..Len(q) : e = i+1 => prio[q[e]] # prio[q[i]]
    <3> SUFFICES ASSUME NEW e \in 1..Len(q), e = i+1 PROVE prio[q[e]] # prio[q[i]]  OBVIOUS
    <3>1. iter = q[e]
      <4>1. iter = At(h, q, e)  BY <1>6
      <4> HIDE DEF q
      <4> QED  BY <4>1 DEF At
    <3>2. n # plist_last(h)
      <4>1. Len(q) \in Nat  BY <1>1
      <4> HIDE DEF q
      <4>2. Len(q) \in 1..Len(q) /\ Len(q) # i  BY <4>1
      <4> QED  BY <4>2, <1>4, <1>5, <1>7
    <3> QED  BY <3>1, <3>2, <1>5, <1>8
  <2>2. /\ i \in 1..(Len(RemoveAt(q, i))+1) /\ Slot(RemoveAt(q, i), prio, i, q[i])
        /\ InsertAt(RemoveAt(q, i), i, q[i]) = q
    <3> HIDE DEF q
    <3> QED  BY <2>1, <1>1, PlaceKept
  <2>3. [Q EXCEPT ![h] = q] = Q /\ [W EXCEPT ![h] = W[h]] = W
    BY <1>1
  <2>4. nl' = nl /\ pl' = pl
    BY <1>2, <1>8
  <2>5. Good(nl', pl', prio, [Q EXCEPT ![h] = InsertAt(RemoveAt(q, i), i, n)], [W EXCEPT ![h] = W[h]])
    BY <2>2, <2>3, <2>4, <1>5
  <2> QED  BY <2>2, <2>5, <1>2, <1>5
<1>9. CASE ~(n = plist_last(h) \/ prio[n] # prio[iter])
  <2> DEFINE s == RemoveAt(q, i)
             G == [Q EXCEPT ![h] = s]
  <2>1. nl' = list_add_tail(gone, n, node_next) /\ pl' = Left(pl, h, n, nl.next[n])
    BY <1>2, <1>9 DEF LeavePrioList, StandsFor, plist_next, Left
  <2>2. PICK e \in 1..Len(q) : e = i+1 /\ iter = q[e] /\ prio[q[e]] = prio[n]
    <3>1. i # Len(q)  BY <1>5, <1>7, <1>9
    <3>2. Len(q) \in Nat /\ iter = At(h, q, i+1)  BY <1>1, <1>6
    <3> HIDE DEF q
    <3>3. PICK e \in 1..Len(q) : e = i+1  BY <3>1, <3>2
    <3>4. iter = q[e]  BY <3>2, <3>3 DEF At
    <3> QED  BY <3>3, <3>4, <1>9
  <2>3. PICK v : Leads(v, s, prio) /\ Wheels(Left(pl, h, n, nl.next[n]), [W EXCEPT ![h] = v])
    <3>1. \E v : Leads(v, RemoveAt(Q[h], i), prio) /\ Wheels(Left(pl, h, n, nl.next[n]), [W EXCEPT ![h] = v])
      BY <1>5, Leave
    <3> QED  BY <3>1
  <2>4. Queues(gone, G) /\ G[h] = s
    <3>1. Queues(list_del_init(nl, Q[h][i]), [Q EXCEPT ![h] = RemoveAt(Q[h], i)])  BY <1>1, QueueDel
    <3> QED  BY <3>1, <1>1, <1>5
  <2>5. \A g \in Heads \ {h} : G[g] = Q[g]
    BY <1>1
  <2> HIDE DEF G, gone, q
  <2>6. Sorted(s, prio) /\ s \in Seq(Nodes) /\ Removed(q, i, s)
    BY <1>1, RemoveIndex, SortedRemove
  <2>7. rest = s
    BY <2>4, QueueReads
  <2>8. \A j, k \in 1..Len(s) : s[j] = s[k] => j = k
    BY <2>4, QueueFacts
  <2>9. \A x : Has(s, x) <=> Has(q, x) /\ x # n
    BY <1>1, <1>4, <1>5, RemoveHas
  <2> HIDE DEF s, rest
  <2>10. i \in 1..Len(s) /\ s[i] = q[e]
    <3>1. e # i /\ ~(e < i) /\ e-1 = i  BY <2>2
    <3>2. PICK k \in 1..Len(s) : s[k] = q[e] /\ k = IF e < i THEN e ELSE e-1  BY <2>6, <3>1 DEF Removed
    <3> QED  BY <3>1, <3>2
  <2>11. other = Others(s, s[i], prio, n)
    BY <2>2, <2>7, <2>10 DEF Others
  <2> HIDE DEF other
  <2>12. PICK c \in 1..(Len(s)+1) : Slot(s, prio, c, n) /\ EndsAt(other, s, c)
    <3>1. prio[s[i]] = prio[n] /\ i \in 1..Len(s)  BY <2>2, <2>10
    <3>2. prio \in [Nodes -> Int] /\ s \in Seq(Nodes) /\ Sorted(s, prio)  BY <1>1, <2>6
    <3>3. \E c \in 1..(Len(s)+1) : Slot(s, prio, c, n) /\ EndsAt(Others(s, s[i], prio, n), s, c)
      BY <3>1, <3>2, <2>8, RequeueSlot
    <3> QED  BY <3>3, <2>11
  <2>13. node_next = At(h, s, c)
    BY <2>7, <2>12 DEF EndsAt
  <2> HIDE DEF node_next
  <2> DEFINE r == InsertAt(s, c, n)
  <2>14. Queues(nl', [Q EXCEPT ![h] = r])
    <3>1. OnNone(G, n)
      <4>1. ~Has(G[h], n)  BY <2>4, <2>9
      <4>2. Has(q, n)  BY <1>5 DEF Has
      <4>3. \A g \in Heads \ {h} : ~Has(G[g], n)
        <5>1. Has(Q[h], n)  BY <4>2 DEF q
        <5> QED  BY <5>1, <2>5, <1>1 DEF Queues, Disjoint
      <4> QED  BY <4>1, <4>3 DEF OnNone
    <3>2. c \in 1..(Len(G[h])+1)  BY <2>4
    <3>3. Queues(list_add_tail(gone, n, At(h, G[h], c)), [G EXCEPT ![h] = InsertAt(G[h], c, n)])
      BY <3>1, <3>2, <2>4, QueueAdd
    <3>4. [G EXCEPT ![h] = r] = [Q EXCEPT ![h] = r]
      BY <1>1 DEF G
    <3> QED  BY <3>3, <3>4, <2>1, <2>4, <2>13
  <2>15. Sorted(r, prio)
    BY <1>1, <2>6, <2>12, SlotSorted
  <2>16. Leads(v, r, prio)
    <3>1. \E k \in 1..Len(v) : prio[v[k]] = prio[n]
      <4>1. \E k \in 1..Len(v) : prio[v[k]] = prio[s[i]]  BY <2>3, <2>10 DEF Leads
      <4> QED  BY <4>1, <2>2, <2>10
    <3> QED  BY <3>1, <1>1, <2>3, <2>6, <2>12, LeadsInsertOld
  <2>17. Good(nl', pl', prio, [Q EXCEPT ![h] = r], [W EXCEPT ![h] = v])
    <3> HIDE DEF r
    <3>1. Wheels(pl', [W EXCEPT ![h] = v])  BY <2>1, <2>3
    <3> QED  BY <3>1, <2>14, <2>15, <2>16, GoodAfter
  <2>18. /\ Q[h][i] = n /\ i \in 1..Len(Q[h])
         /\ c \in 1..(Len(RemoveAt(Q[h], i))+1) /\ Slot(RemoveAt(Q[h], i), prio, c, n)
         /\ Good(nl', pl', prio, [Q EXCEPT ![h] = InsertAt(RemoveAt(Q[h], i), c, n)], [W EXCEPT ![h] = v])
    BY <1>5, <2>12, <2>17 DEF q, s
  <2> QED  BY <2>18, <1>2
<1> QED  BY <1>8, <1>9

-----------------------------------------------------------------------------
(* Every step keeps the invariant, and is one that PlistSpec allows.       *)

\* An entry is on the list that PlistSpec sees if it is in the sequence.
LEMMA OnIsHas ==
  ASSUME NEW q \in Seq(Nodes), NEW x
  PROVE  /\ x \in Promise!ToSet(q) <=> Has(q, x)
         /\ x \in ToSet(q) <=> Has(q, x)
<1>1. DOMAIN q = 1..Len(q)
  BY LenProperties
<1> QED  BY <1>1 DEF Promise!ToSet, ToSet, Has

LEMMA QueueNow ==
  ASSUME NEW Q, Queues(nl, Q)
  PROVE  [h \in Heads |-> Queue(h)] = Q
BY QueueIsList DEF Queue

LEMMA QueueThen ==
  ASSUME NEW Q, Queues(nl', Q)
  PROVE  [h \in Heads |-> Queue(h)]' = Q
<1>1. [h \in Heads |-> list_for_each(nl', h)] = Q
  BY QueueIsList
<1> QED  BY <1>1 DEF Queue

\* What a call does to the list of h.
LEMMA QueuePair ==
  ASSUME NEW Q, NEW W, Good(nl, pl, prio, Q, W), NEW h \in Heads, NEW s, NEW V, NEW pr,
         Good(nl', pl', pr, [Q EXCEPT ![h] = s], V)
  PROVE  /\ [g \in Heads |-> Queue(g)] = Q
         /\ [g \in Heads |-> Queue(g)]' = [Q EXCEPT ![h] = s]
<1>1. Queues(nl, Q) /\ Queues(nl', [Q EXCEPT ![h] = s])
  BY DEF Good
<1>2. [g \in Heads |-> Queue(g)] = Q
  BY <1>1, QueueNow
<1>3. [g \in Heads |-> Queue(g)]' = [Q EXCEPT ![h] = s]
  BY <1>1, QueueThen
<1> QED  BY <1>2, <1>3

LEMMA AddPromised ==
  ASSUME IInv, NEW n \in Nodes, NEW h \in Heads, PlistAdd(n, h)
  PROVE  IInv' /\ Promise!Add(n, h)
<1>1. PICK Q, W : Good(nl, pl, prio, Q, W)
  BY DEF IInv
<1>2. OnNone(Q, n) /\ prio' = prio
  BY <1>1, AddStep
<1>3. PICK i, v :
         /\ i \in 1..(Len(Q[h])+1)
         /\ Slot(Q[h], prio, i, n)
         /\ Good(nl', pl', prio, [Q EXCEPT ![h] = InsertAt(Q[h], i, n)], [W EXCEPT ![h] = v])
  BY <1>1, AddStep
<1>4. IInv'
  BY <1>2, <1>3 DEF IInv
<1>5. /\ [g \in Heads |-> Queue(g)] = Q
      /\ [g \in Heads |-> Queue(g)]' = [Q EXCEPT ![h] = InsertAt(Q[h], i, n)]
  BY <1>1, <1>3, QueuePair
<1>6. Queues(nl, Q) /\ prio \in [Nodes -> Int] /\ Q \in [Heads -> Seq(Nodes)] /\ Q[h] \in Seq(Nodes)
  BY <1>1, GoodFacts
<1>7. \A j, k \in 1..Len(Q[h]) : Q[h][j] = Q[h][k] => j = k
  BY <1>6, QueueFacts
<1>8. Promise!Enqueue(Q[h], n) = InsertAt(Q[h], i, n)
  BY <1>3, <1>6, <1>7, SlotIsEnqueue
<1>9. \A g \in Heads : n \notin Promise!ToSet(Q[g])
  BY <1>2, <1>6, OnIsHas DEF OnNone
<1> QED  BY <1>2, <1>4, <1>5, <1>8, <1>9 DEF Promise!Add, Promise!On

LEMMA DelPromised ==
  ASSUME IInv, NEW n \in Nodes, NEW h \in Heads, PlistDel(n, h)
  PROVE  IInv' /\ Promise!Del(n, h)
<1>1. PICK Q, W : Good(nl, pl, prio, Q, W)
  BY DEF IInv
<1>2. prio' = prio
  BY <1>1, DelStep
<1>3. PICK i, v :
         /\ i \in 1..Len(Q[h])
         /\ Q[h][i] = n
         /\ Good(nl', pl', prio, [Q EXCEPT ![h] = RemoveAt(Q[h], i)], [W EXCEPT ![h] = v])
  BY <1>1, DelStep
<1>4. IInv'
  BY <1>2, <1>3 DEF IInv
<1>5. /\ [g \in Heads |-> Queue(g)] = Q
      /\ [g \in Heads |-> Queue(g)]' = [Q EXCEPT ![h] = RemoveAt(Q[h], i)]
  BY <1>1, <1>3, QueuePair
<1>6. Queues(nl, Q) /\ Q[h] \in Seq(Nodes)
  BY <1>1, GoodFacts
<1>7. \A j, k \in 1..Len(Q[h]) : Q[h][j] = Q[h][k] => j = k
  BY <1>6, QueueFacts
<1>8. Promise!Dequeue(Q[h], n) = RemoveAt(Q[h], i)
  BY <1>3, <1>6, <1>7, DequeueIsRemove
<1>9. n \in Promise!ToSet(Q[h])
  BY <1>3, <1>6, OnIsHas DEF Has
<1> QED  BY <1>2, <1>4, <1>5, <1>8, <1>9 DEF Promise!Del, Promise!On

LEMMA RequeuePromised ==
  ASSUME IInv, NEW n \in Nodes, NEW h \in Heads, PlistRequeue(n, h)
  PROVE  IInv' /\ Promise!Requeue(n, h)
<1>1. PICK Q, W : Good(nl, pl, prio, Q, W)
  BY DEF IInv
<1>2. prio' = prio
  BY <1>1, RequeueStep
<1>3. PICK i, c, v :
         /\ i \in 1..Len(Q[h])
         /\ Q[h][i] = n
         /\ c \in 1..(Len(RemoveAt(Q[h], i))+1) /\ Slot(RemoveAt(Q[h], i), prio, c, n)
         /\ Good(nl', pl', prio, [Q EXCEPT ![h] = InsertAt(RemoveAt(Q[h], i), c, n)], [W EXCEPT ![h] = v])
  BY <1>1, RequeueStep
<1>4. IInv'
  BY <1>2, <1>3 DEF IInv
<1> DEFINE s == RemoveAt(Q[h], i)
<1>5. /\ [g \in Heads |-> Queue(g)] = Q
      /\ [g \in Heads |-> Queue(g)]' = [Q EXCEPT ![h] = InsertAt(s, c, n)]
  BY <1>1, <1>3, QueuePair
<1>6. Queues(nl, Q) /\ prio \in [Nodes -> Int] /\ Q[h] \in Seq(Nodes)
  BY <1>1, GoodFacts
<1>7. \A j, k \in 1..Len(Q[h]) : Q[h][j] = Q[h][k] => j = k
  BY <1>6, QueueFacts
<1>8. Promise!Dequeue(Q[h], n) = s
  BY <1>3, <1>6, <1>7, DequeueIsRemove
<1>9. n \in Promise!ToSet(Q[h])
  BY <1>3, <1>6, OnIsHas DEF Has
<1>10. i \in 1..Len(Q[h]) /\ s \in Seq(Nodes) /\ Removed(Q[h], i, s)
  BY <1>3, <1>6, RemoveIndex
<1>11. c \in 1..(Len(s)+1) /\ Slot(s, prio, c, n)
  BY <1>3
<1> HIDE DEF s
<1>12. \A j, k \in 1..Len(s) : s[j] = s[k] => j = k
  <2>1. /\ Len(Q[h]) \in Nat
        /\ \A k \in 1..Len(s) : \E x \in 1..Len(Q[h]) : x # i /\ s[k] = Q[h][x] /\ x = IF k < i THEN k ELSE k+1
    BY <1>10 DEF Removed
  <2> TAKE j, k \in 1..Len(s)
  <2> HAVE s[j] = s[k]
  <2>2. PICK x \in 1..Len(Q[h]) : x # i /\ s[j] = Q[h][x] /\ x = IF j < i THEN j ELSE j+1  BY <2>1
  <2>3. PICK y \in 1..Len(Q[h]) : y # i /\ s[k] = Q[h][y] /\ y = IF k < i THEN k ELSE k+1  BY <2>1
  <2>4. x = y  BY <2>2, <2>3, <1>7
  <2> QED  BY <2>2, <2>3, <2>4, <1>10
<1>13. Promise!Enqueue(s, n) = InsertAt(s, c, n)
  BY <1>6, <1>10, <1>11, <1>12, SlotIsEnqueue
<1> QED  BY <1>2, <1>4, <1>5, <1>8, <1>9, <1>13 DEF Promise!Requeue, Promise!On

LEMMA NodeInitPromised ==
  ASSUME IInv, NEW n \in Nodes, NEW p \in Prios, PlistNodeInit(n, p)
  PROVE  IInv' /\ Promise!NodeInit(n, p)
<1>1. PICK Q, W : Good(nl, pl, prio, Q, W)
  BY DEF IInv
<1>2. /\ OnNone(Q, n) /\ nl' = nl /\ prio' = [prio EXCEPT ![n] = p]
      /\ Good(nl', pl', prio', Q, W)
  BY <1>1, NodeInitStep
<1>3. IInv'
  BY <1>2 DEF IInv
<1>4. Queues(nl, Q) /\ Queues(nl', Q) /\ Q \in [Heads -> Seq(Nodes)]
  BY <1>1, <1>2 DEF Good, Queues
<1>5. [g \in Heads |-> Queue(g)] = Q
  BY <1>4, QueueNow
<1>6. [g \in Heads |-> Queue(g)]' = Q
  BY <1>4, QueueThen
<1>7. \A g \in Heads : n \notin Promise!ToSet(Q[g])
  BY <1>2, <1>4, OnIsHas DEF OnNone
<1> QED  BY <1>2, <1>3, <1>5, <1>6, <1>7 DEF Promise!NodeInit, Promise!On

\* Every step of the plist keeps the invariant and its promise.
LEMMA StepPromised ==
  IInv /\ [Next]_vars => IInv' /\ [Promise!Next]_(Promise!vars)
<1> SUFFICES ASSUME IInv, [Next]_vars PROVE IInv' /\ [Promise!Next]_(Promise!vars)
  OBVIOUS
<1>1. CASE UNCHANGED vars
  <2>1. nl' = nl /\ pl' = pl /\ prio' = prio  BY <1>1 DEF vars
  <2>2. IInv'  BY <2>1 DEF IInv
  <2>3. UNCHANGED Promise!vars  BY <2>1 DEF Promise!vars, Queue
  <2> QED  BY <2>2, <2>3
<1>2. ASSUME NEW h \in Heads, PlistHeadInit(h)
      PROVE  IInv' /\ [Promise!Next]_(Promise!vars)
  <2>1. PICK Q, W : Good(nl, pl, prio, Q, W)  BY DEF IInv
  <2>2. UNCHANGED vars  BY <1>2, <2>1, HeadInitStep
  <2> QED  BY <2>2, <1>1
<1>3. ASSUME NEW n \in Nodes, NEW p \in Prios, PlistNodeInit(n, p)
      PROVE  IInv' /\ Promise!Next
  BY <1>3, NodeInitPromised DEF Promise!Next
<1>4. ASSUME NEW n \in Nodes, NEW h \in Heads, PlistAdd(n, h)
      PROVE  IInv' /\ Promise!Next
  BY <1>4, AddPromised DEF Promise!Next
<1>5. ASSUME NEW n \in Nodes, NEW h \in Heads, PlistDel(n, h)
      PROVE  IInv' /\ Promise!Next
  BY <1>5, DelPromised DEF Promise!Next
<1>6. ASSUME NEW n \in Nodes, NEW h \in Heads, PlistRequeue(n, h)
      PROVE  IInv' /\ Promise!Next
  BY <1>6, RequeuePromised DEF Promise!Next
<1> QED  BY <1>1, <1>2, <1>3, <1>4, <1>5, <1>6 DEF Next

\* At first all lists are empty.
LEMMA InitPromised ==
  Init => IInv /\ Promise!Init
<1> SUFFICES ASSUME Init PROVE IInv /\ Promise!Init
  OBVIOUS
<1> DEFINE N == [h \in Heads |-> <<>>]
<1>1. Good(nl, pl, prio, N, N)
  BY InitGood
<1>2. IInv
  BY <1>1 DEF IInv
<1>3. [h \in Heads |-> Queue(h)] = N
  <2> HIDE DEF N
  <2>1. Queues(nl, N)  BY <1>1 DEF Good
  <2> QED  BY <2>1, QueueNow
<1>4. prio \in [Nodes -> Prios]
  BY DEF Init
<1> QED  BY <1>2, <1>3, <1>4 DEF Promise!Init

-----------------------------------------------------------------------------
(* What the invariant says of the lists as the code walks them.            *)

\* In a sorted list the one before tells whether an entry is the first of its
\* priority.
LEMMA LeaderByNeighbour ==
  ASSUME NEW pr \in [Nodes -> Int], NEW q \in Seq(Nodes), Sorted(q, pr), NEW i \in 1..Len(q)
  PROVE  LeadsAt(q, pr, i) <=> i = 1 \/ pr[q[i-1]] # pr[q[i]]
<1>1. Len(q) \in Nat /\ \A k \in 1..Len(q) : pr[q[k]] \in Int
  BY LenProperties, ElementOfSeq
<1>2. CASE i = 1
  BY <1>1, <1>2 DEF LeadsAt
<1>3. CASE i # 1
  <2>1. PICK e \in 1..Len(q) : e = i-1 /\ e < i  BY <1>1, <1>3
  <2>2. ASSUME NEW l \in 1..Len(q), l < i, pr[q[e]] # pr[q[i]] PROVE pr[q[l]] # pr[q[i]]
    <3>1. l = e \/ l < e  BY <2>1, <2>2
    <3>2. CASE l = e  BY <2>2, <3>2
    <3>3. CASE l < e
      <4>1. pr[q[l]] <= pr[q[e]] /\ pr[q[e]] <= pr[q[i]]  BY <2>1, <3>3 DEF Sorted
      <4>2. pr[q[l]] \in Int /\ pr[q[e]] \in Int /\ pr[q[i]] \in Int  BY <1>1
      <4> QED  BY <2>2, <4>1, <4>2
    <3> QED  BY <3>1, <3>2, <3>3
  <2>3. LeadsAt(q, pr, i) <=> pr[q[e]] # pr[q[i]]
    BY <2>1, <2>2 DEF LeadsAt
  <2> QED  BY <2>1, <2>3, <1>3
<1> QED  BY <1>2, <1>3

LEMMA LeadsAreLeaders ==
  ASSUME NEW pr \in [Nodes -> Int], NEW q \in Seq(Nodes), Sorted(q, pr),
         NEW w \in Seq(Nodes), Leads(w, q, pr)
  PROVE  ToSet(w) = {q[i] : i \in {j \in 1..Len(q) : j = 1 \/ pr[q[j-1]] # pr[q[j]]}}
<1> DEFINE L == {j \in 1..Len(q) : j = 1 \/ pr[q[j-1]] # pr[q[j]]}
<1>1. \A i \in 1..Len(q) : i \in L <=> LeadsAt(q, pr, i)
  BY LeaderByNeighbour
<1>2. L \subseteq 1..Len(q) /\ DOMAIN w = 1..Len(w)
  BY LenProperties
<1> HIDE DEF L
<1>3. ASSUME NEW i \in L PROVE q[i] \in ToSet(w)
  <2>1. i \in 1..Len(q) /\ LeadsAt(q, pr, i)  BY <1>1, <1>2
  <2>2. PICK k \in 1..Len(w) : pr[w[k]] = pr[q[i]]  BY <2>1 DEF Leads
  <2>3. PICK e \in 1..Len(q) : w[k] = q[e] /\ LeadsAt(q, pr, e)  BY DEF Leads
  <2>4. pr[q[e]] = pr[q[i]]  BY <2>2, <2>3
  <2>5. ~(e < i)  BY <2>1, <2>4 DEF LeadsAt
  <2>6. ~(i < e)  BY <2>1, <2>3, <2>4 DEF LeadsAt
  <2>7. e = i  BY <2>1, <2>5, <2>6
  <2> QED  BY <2>3, <2>7, <1>2 DEF ToSet
<1>4. ASSUME NEW x \in ToSet(w) PROVE \E i \in L : x = q[i]
  <2>1. PICK k \in 1..Len(w) : w[k] = x  BY <1>2 DEF ToSet
  <2>2. PICK e \in 1..Len(q) : w[k] = q[e] /\ LeadsAt(q, pr, e)  BY DEF Leads
  <2> QED  BY <2>1, <2>2, <1>1
<1> QED  BY <1>3, <1>4 DEF L

\* What plist_first() and the two loops find, of a head that is not empty.
LEMMA LapIsWheel ==
  ASSUME NEW Q, NEW W, Good(nl, pl, prio, Q, W), NEW h \in Heads, ~plist_head_empty(h)
  PROVE  /\ Len(W[h]) # 0 /\ plist_first(h) = W[h][1]
         /\ Lap(plist_first(h)) = W[h]
         /\ list_for_each(pl, plist_first(h)) = Tail(W[h])
         /\ list_for_each_prev(pl, plist_first(h)) = Reverse(Tail(W[h]))
<1>1. /\ Queues(nl, Q) /\ Wheels(pl, W) /\ Len(Q[h]) \in Nat
      /\ Len(Q[h]) = 0 <=> Len(W[h]) = 0
      /\ Len(Q[h]) # 0 => W[h][1] = Q[h][1]
  BY GoodFacts
<1>2. nl.next[h] = At(h, Q[h], 1) /\ (nl.next[h] = h <=> Len(Q[h]) = 0)
  BY <1>1, QueueReads
<1>3. Len(Q[h]) # 0 /\ Len(W[h]) # 0
  BY <1>1, <1>2 DEF plist_head_empty, list_empty
<1>4. plist_first(h) = W[h][1]
  <2>1. 1 \in 1..Len(Q[h])  BY <1>1, <1>3
  <2> QED  BY <2>1, <1>1, <1>2, <1>3 DEF plist_first, At
<1> DEFINE w == W[h]
<1>5. Wheel(Nodes, pl, w) /\ pl \in Memory(Nodes) /\ Len(w) # 0 /\ IsFiniteSet(Nodes)
  <2>1. Nodes \subseteq Heads \cup Nodes  OBVIOUS
  <2>2. IsFiniteSet(Nodes)  BY <2>1, PlistAssumption, FS_Subset
  <2> QED  BY <2>2, <1>1, <1>3 DEF Wheels
<1> HIDE DEF w
<1>6. /\ <<w[1]>> \o list_for_each(pl, w[1]) = w
      /\ list_for_each(pl, w[1]) = Tail(w)
      /\ list_for_each_prev(pl, w[1]) = Reverse(Tail(w))
  BY <1>5, WheelLoops
<1> QED  BY <1>3, <1>4, <1>6 DEF Lap, w

LEMMA JoinsNow == IInv => PrioListJoinsTheLeaders
<1> SUFFICES ASSUME IInv PROVE PrioListJoinsTheLeaders
  OBVIOUS
<1>1. PICK Q, W : Good(nl, pl, prio, Q, W)
  BY DEF IInv
<1>2. ASSUME NEW h \in Heads
      PROVE  ToSet(W[h]) = Leaders(h) /\ (\A i, j \in 1..Len(W[h]) : i < j => prio[W[h][i]] < prio[W[h][j]])
             /\ W[h] \in Seq(Nodes)
  <2>1. /\ Queues(nl, Q) /\ prio \in [Nodes -> Int] /\ Q[h] \in Seq(Nodes) /\ W[h] \in Seq(Nodes)
        /\ Sorted(Q[h], prio) /\ Leads(W[h], Q[h], prio)
    BY <1>1, GoodFacts
  <2>2. Queue(h) = Q[h]
    BY <2>1, QueueReads DEF Queue
  <2> DEFINE q == Q[h]
             w == W[h]
  <2> HIDE DEF q, w
  <2>3. ToSet(w) = {q[i] : i \in {j \in 1..Len(q) : j = 1 \/ prio[q[j-1]] # prio[q[j]]}}
    <3>1. prio \in [Nodes -> Int] /\ q \in Seq(Nodes) /\ w \in Seq(Nodes) /\ Sorted(q, prio) /\ Leads(w, q, prio)
      BY <2>1 DEF q, w
    <3> QED  BY <3>1, LeadsAreLeaders
  <2>4. ToSet(w) = Leaders(h)
    BY <2>2, <2>3 DEF Leaders, q
  <2> QED  BY <2>1, <2>4 DEF Leads, w
<1>3. ASSUME NEW h \in Heads, ~plist_head_empty(h)
      PROVE  /\ ToSet(Lap(plist_first(h))) = Leaders(h)
             /\ \A i, j \in 1..Len(Lap(plist_first(h))) :
                  i < j => prio[Lap(plist_first(h))[i]] < prio[Lap(plist_first(h))[j]]
             /\ list_for_each_prev(pl, plist_first(h)) = Reverse(Tail(Lap(plist_first(h))))
  <2>1. Lap(plist_first(h)) = W[h] /\ list_for_each_prev(pl, plist_first(h)) = Reverse(Tail(W[h]))
    BY <1>1, <1>3, LapIsWheel
  <2> QED  BY <2>1, <1>2
<1>4. ASSUME NEW n \in Nodes, n \notin UNION {Leaders(h) : h \in Heads}
      PROVE  pl.next[n] = n /\ pl.prev[n] = n
  <2>1. ASSUME NEW h \in Heads PROVE ~Has(W[h], n)
    <3>1. n \notin Leaders(h)  BY <1>4
    <3>2. n \notin ToSet(W[h])  BY <3>1, <1>2
    <3> QED  BY <3>2, <1>2, OnIsHas
  <2>2. OnNone(W, n)  BY <2>1 DEF OnNone
  <2> QED  BY <2>2, <1>1 DEF Good, Wheels, Rests
<1> QED  BY <1>3, <1>4 DEF PrioListJoinsTheLeaders

\* The check of DEBUG_PLIST follows a wheel and finds it closed.
LEMMA WheelChecks ==
  ASSUME NEW A, NEW m, NEW w, Wheel(A, m, w), Len(w) # 0, list_for_each(m, w[1]) = Tail(w)
  PROVE  plist_check_list(m, w[1])
<1>1. w \in Seq(A) /\ Len(w) \in Nat /\ 1 \in 1..Len(w)
  BY LenProperties DEF Wheel
<1>2. ASSUME NEW x \in ToSet(Tail(w)) PROVE \E k \in 1..Len(w) : x = w[k]
  <2>1. PICK j \in DOMAIN Tail(w) : Tail(w)[j] = x  BY DEF ToSet
  <2>2. w # <<>>  BY <1>1
  <2>3. Tail(w) \in Seq(A) /\ Len(Tail(w)) = Len(w)-1 /\ \A i \in 1..Len(Tail(w)) : Tail(w)[i] = w[i+1]
    BY <2>2, <1>1, HeadTailProperties
  <2>4. DOMAIN Tail(w) = 1..Len(Tail(w))  BY <2>3, LenProperties
  <2>5. j+1 \in 1..Len(w) /\ x = w[j+1]  BY <2>1, <2>3, <2>4, <1>1
  <2> QED  BY <2>5
<1>3. ASSUME NEW k \in 1..Len(w) PROVE m.prev[m.next[w[k]]] = w[k]
  <2>1. PICK j \in 1..Len(w) : Turn(k, j, Len(w))  BY WheelTurns
  <2> QED  BY <2>1 DEF Wheel
<1> QED  BY <1>1, <1>2, <1>3 DEF plist_check_list

\* And so does that of a list with a head.
LEMMA RingChecks ==
  ASSUME NEW A, NEW h, NEW q, Circle(A, h, q), NEW m, Ring(m, h, q), list_for_each(m, h) = q
  PROVE  plist_check_list(m, h)
<1>1. Len(q) \in Nat /\ DOMAIN q = 1..Len(q) /\ At(h, q, 0) = h /\ \A i \in 1..Len(q) : At(h, q, i) = q[i]
  BY CircleCells, LenProperties DEF Circle
<1>2. ASSUME NEW x \in {h} \cup ToSet(q) PROVE \E i \in 0..Len(q) : x = At(h, q, i)
  <2>1. CASE x = h
    <3>1. 0 \in 0..Len(q)  BY <1>1
    <3> QED  BY <3>1, <2>1, <1>1
  <2>2. CASE x \in ToSet(q)
    <3>1. PICK i \in 1..Len(q) : x = q[i]  BY <2>2, <1>1 DEF ToSet
    <3>2. i \in 0..Len(q)  OBVIOUS
    <3> QED  BY <3>1, <3>2, <1>1
  <2> QED  BY <2>1, <2>2
<1>3. \A i \in 0..Len(q) : m.prev[m.next[At(h, q, i)]] = At(h, q, i)
  BY DEF Ring
<1> QED  BY <1>2, <1>3 DEF plist_check_list

LEMMA LinkedNow == IInv => QueuesAreLinked
<1> SUFFICES ASSUME IInv PROVE QueuesAreLinked
  OBVIOUS
<1>1. PICK Q, W : Good(nl, pl, prio, Q, W)
  BY DEF IInv
<1>2. Queues(nl, Q) /\ Wheels(pl, W) /\ Q \in [Heads -> Seq(Nodes)]
  BY <1>1 DEF Good, Queues
<1>3. \A h \in Heads : Queue(h) = Q[h]
  BY <1>2, QueueReads DEF Queue
<1>4. \A h \in Heads : Q[h] \in Seq(Nodes) /\ DOMAIN Q[h] = 1..Len(Q[h])
  BY <1>2, LenProperties
<1>5. ASSUME NEW h \in Heads PROVE plist_check_head(h)
  <2>1. ASSUME ~plist_head_empty(h) PROVE plist_check_list(pl, plist_first(h))
    <3>1. Len(W[h]) # 0 /\ plist_first(h) = W[h][1] /\ list_for_each(pl, plist_first(h)) = Tail(W[h])
      BY <1>1, <2>1, LapIsWheel
    <3>2. Wheel(Nodes, pl, W[h])  BY <1>2 DEF Wheels
    <3> DEFINE w == W[h]
    <3>3. Wheel(Nodes, pl, w) /\ Len(w) # 0 /\ list_for_each(pl, w[1]) = Tail(w)  BY <3>1, <3>2
    <3> HIDE DEF w
    <3>4. plist_check_list(pl, w[1])  BY <3>3, WheelChecks
    <3> QED  BY <3>1, <3>4 DEF w
  <2>2. plist_check_list(nl, h)
    <3>1. Circle(Cells, h, Q[h]) /\ Ring(nl, h, Q[h])  BY <1>2 DEF Queues
    <3>2. list_for_each(nl, h) = Q[h]  BY <1>3 DEF Queue
    <3> QED  BY <3>1, <3>2, RingChecks
  <2> QED  BY <2>1, <2>2 DEF plist_check_head
<1>6. ASSUME NEW h \in Heads PROVE IsInjective(Queue(h)) /\ ToSet(Queue(h)) \subseteq Nodes
  <2>1. \A j, k \in 1..Len(Q[h]) : Q[h][j] = Q[h][k] => j = k  BY <1>2, QueueFacts
  <2>2. IsInjective(Q[h])  BY <2>1, <1>4 DEF IsInjective
  <2>3. ToSet(Q[h]) \subseteq Nodes  BY <1>4, ElementOfSeq DEF ToSet
  <2> QED  BY <2>2, <2>3, <1>3
<1>7. ASSUME NEW h \in Heads, NEW g \in Heads \ {h}
      PROVE  ToSet(Queue(h)) \cap ToSet(Queue(g)) = {}
  <2>1. ASSUME NEW x \in ToSet(Queue(h)), x \in ToSet(Queue(g)) PROVE FALSE
    <3>1. Has(Q[h], x) /\ Has(Q[g], x)  BY <2>1, <1>3, <1>4, OnIsHas
    <3>2. x \in Nodes  BY <2>1, <1>6
    <3> QED  BY <3>1, <3>2, <1>2 DEF Queues, Disjoint
  <2> QED  BY <2>1
<1>8. ASSUME NEW n \in Nodes, n \notin UNION {ToSet(Queue(h)) : h \in Heads}
      PROVE  list_empty(nl, n) /\ list_empty(pl, n)
  <2>1. ASSUME NEW h \in Heads PROVE ~Has(Q[h], n)
    <3>1. n \notin ToSet(Q[h])  BY <1>8, <1>3
    <3> QED  BY <3>1, <1>4, OnIsHas
  <2>2. OnNone(Q, n)  BY <2>1 DEF OnNone
  <2>3. Rests(nl, n)  BY <2>2, <1>2 DEF Queues
  <2>4. OnNone(W, n)
    <3>1. ASSUME NEW h \in Heads PROVE OnNone(W, n)  BY <2>2, <1>1, GoodFacts
    <3> QED  BY <3>1 DEF OnNone
  <2>5. Rests(pl, n)  BY <2>4, <1>2 DEF Wheels
  <2> QED  BY <2>3, <2>5 DEF Rests, list_empty
<1> QED  BY <1>5, <1>6, <1>7, <1>8 DEF QueuesAreLinked

-----------------------------------------------------------------------------
\* For any heads, nodes and priorities, there are lists and prio_lists, in step,
\* that the two memories hold, whichever calls of plist.c were made (plist.c:1-177).
THEOREM PlistInvariant == Spec => []IInv
<1>1. Init => IInv  BY InitPromised
<1>2. IInv /\ [Next]_vars => IInv'  BY StepPromised
<1> QED  BY <1>1, <1>2, PTL DEF Spec

\* For any heads, nodes and priorities, the prio_list joins the first entry of each
\* priority, in order, and no other: plist_add(), plist_del() and plist_requeue()
\* keep the two lists in step (plist.c:68-171).
THEOREM PlistLeaders == Spec => []PrioListJoinsTheLeaders
<1>1. IInv => PrioListJoinsTheLeaders  BY JoinsNow
<1> QED  BY <1>1, PlistInvariant, PTL

\* For any heads, nodes and priorities, the checks of DEBUG_PLIST never warn, no
\* node is on two lists, and one that is on none is linked to itself (plist.c:20-62).
THEOREM PlistLinked == Spec => []QueuesAreLinked
<1>1. IInv => QueuesAreLinked  BY LinkedNow
<1> QED  BY <1>1, PlistInvariant, PTL

\* For any heads, nodes and priorities, the plist is the queue that plist.h
\* promises: by priority, and first-in first-out within one (plist.h:1-75).
THEOREM PlistKeepsThePromise == Spec => KeepsThePromise
<1>1. Init => Promise!Init  BY InitPromised
<1>2. IInv /\ [Next]_vars => [Promise!Next]_(Promise!vars)  BY StepPromised
<1>3. Spec => Promise!Spec
  BY <1>1, <1>2, PlistInvariant, PTL DEF Spec, Promise!Spec
<1> QED  BY <1>3 DEF KeepsThePromise

\* A requeue of some entry is a deletion and an addition.
RequeueStepPromised == \A n \in Nodes, h \in Heads : PlistRequeue(n, h) => Promise!Requeue(n, h)

\* For any heads, nodes and priorities, plist_requeue() leaves the queue that
\* plist_del() and plist_add() would, also when it returns early (plist.c:133-171).
THEOREM PlistRequeueIsDelAndAdd == Spec => RequeueIsDelAndAdd
<1>1. IInv => RequeueStepPromised  BY RequeuePromised DEF RequeueStepPromised
<1>2. IInv /\ [Next]_vars => [RequeueStepPromised]_vars  BY <1>1
<1>3. Spec => [][RequeueStepPromised]_vars
  BY <1>2, PlistInvariant, PTL DEF Spec
<1> QED  BY <1>3 DEF RequeueIsDelAndAdd, RequeueStepPromised

================================================================================
