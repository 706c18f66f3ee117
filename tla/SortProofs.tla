------------------------------- MODULE SortProofs ------------------------------
(***************************************************************************)
(* list_sort() of list_sort.c, for lists of any length and any weak order: *)
(* it sorts stably, merges the runs that it says it merges, 2:1 at worst,  *)
(* and gives cmp() its arguments in the order of the list.                 *)
(***************************************************************************)
EXTENDS ListSort, RingProofs

-----------------------------------------------------------------------------
(* Powers of two, and the bits of a number.                                *)

\* A set of n elements has 2^n subsets.
LEMMA PowerType == ASSUME NEW n \in Nat PROVE 2^n \in Nat
<1>1. PICK a, b : a = 1 /\ b = n  OBVIOUS
<1>2. IsFiniteSet(a..b) /\ Cardinality(a..b) = n  BY <1>1, FS_Interval
<1>3. IsFiniteSet(SUBSET (a..b)) /\ Cardinality(SUBSET (a..b)) = 2^n  BY <1>2, FS_SUBSET
<1> QED  BY <1>3, FS_CardinalityType

LEMMA PowerDoubles == ASSUME NEW n \in Nat PROVE 2^(n+1) = 2 * 2^n
<1>1. PICK a, b, c : a = 1 /\ b = n /\ c = n+1  OBVIOUS
<1> DEFINE S == a..b
           T == a..c
           P == SUBSET S
           Q == {A \cup {c} : A \in P}
<1>2. IsFiniteSet(S) /\ Cardinality(S) = n  BY <1>1, FS_Interval
<1>3. IsFiniteSet(T) /\ Cardinality(T) = n+1  BY <1>1, FS_Interval
<1>4. IsFiniteSet(P) /\ Cardinality(P) = 2^n  BY <1>2, FS_SUBSET
<1>5. Cardinality(SUBSET T) = 2^(n+1)  BY <1>3, FS_SUBSET
<1>6. T = S \cup {c} /\ c \notin S  BY <1>1
<1>7. SUBSET T = P \cup Q /\ P \cap Q = {}
  <2>1. ASSUME NEW B \in SUBSET T PROVE B \in P \cup Q
    <3>1. CASE c \in B
      <4>1. B = (B \ {c}) \cup {c} /\ B \ {c} \in P  BY <3>1, <1>6
      <4> QED  BY <4>1
    <3>2. CASE c \notin B  BY <3>2, <1>6
    <3> QED  BY <3>1, <3>2
  <2>2. ASSUME NEW B \in P PROVE B \in SUBSET T /\ c \notin B  BY <1>6
  <2>3. ASSUME NEW B \in Q PROVE B \in SUBSET T /\ c \in B
    <3>1. PICK A \in P : B = A \cup {c}  OBVIOUS
    <3> QED  BY <3>1, <2>2, <1>6
  <2> HIDE DEF P, Q, T
  <2> QED  BY <2>1, <2>2, <2>3
<1>8. IsFiniteSet(Q) /\ Cardinality(Q) = Cardinality(P)
  <2> DEFINE f == [A \in P |-> A \cup {c}]
  <2>1. f \in [P -> Q] /\ \A B \in Q : \E A \in P : f[A] = B  OBVIOUS
  <2>2. ASSUME NEW A \in P, NEW B \in P, f[A] = f[B] PROVE A = B
    <3>1. A \cup {c} = B \cup {c} /\ c \notin A /\ c \notin B  BY <2>2, <1>6
    <3> QED  BY <3>1
  <2> HIDE DEF f
  <2>3. ExistsBijection(P, Q)
    BY <2>1, <2>2 DEF ExistsBijection, Bijection, Injection, Surjection, IsInjective
  <2> QED  BY <2>3, <1>4, FS_Bijection
<1>9. Cardinality(SUBSET T) = Cardinality(P) + Cardinality(Q)
  <2>1. Cardinality(P \cup Q) = Cardinality(P) + Cardinality(Q) - Cardinality(P \cap Q)
    BY <1>4, <1>8, FS_Union
  <2>2. Cardinality(P \cap Q) = 0  BY <1>7, FS_EmptySet
  <2>3. Cardinality(P) \in Nat  BY <1>4, FS_CardinalityType
  <2>4. PICK z : z = Cardinality(P \cap Q)  OBVIOUS
  <2>5. PICK w : w = Cardinality(P)  OBVIOUS
  <2>6. Cardinality(P \cup Q) = w + w - 0 /\ w \in Nat
    BY <2>1, <2>2, <2>3, <2>5, <1>8
  <2>7. Cardinality(SUBSET T) = Cardinality(P \cup Q)  BY <1>7
  <2> HIDE DEF P, Q, T
  <2>8. w + w - 0 = w + w  BY <2>6
  <2> QED  BY <2>5, <2>6, <2>7, <2>8, <1>8
<1>10. PICK w : w = 2^n  OBVIOUS
<1>11. w \in Nat  BY <1>10, PowerType
<1>12. 2^(n+1) = w + w
  <2> HIDE DEF P, Q, T
  <2> QED  BY <1>4, <1>5, <1>8, <1>9, <1>10
<1>13. w + w = 2 * w  BY <1>11
<1> QED  BY <1>10, <1>12, <1>13

LEMMA PowerGrows ==
  ASSUME NEW n \in Nat
  PROVE  2^n > n
<1> DEFINE T == {j \in Nat : ~(2^j > j)}
<1>1. SUFFICES T = {}  OBVIOUS
<1>2. SUFFICES ASSUME T # {} PROVE FALSE  OBVIOUS
<1>3. PICK k \in T : \A j \in T : k <= j
  <2>1. T \in SUBSET Nat  OBVIOUS
  <2> HIDE DEF T
  <2> QED  BY <1>2, <2>1, Least
<1>4. k # 0
  <2>1. 2^0 = 1  OBVIOUS
  <2>2. ASSUME k = 0 PROVE 2^k = 1
    <3>1. 2^k = 2^0  BY <2>2, Zenon
    <3> QED  BY <2>1, <3>1, Zenon
  <2> QED  BY <1>3, <2>2
<1>5. PICK i \in Nat : k = i + 1  BY <1>3, <1>4
<1>6. i \notin T  BY <1>3, <1>5
<1>7. PICK p : p = 2^i  OBVIOUS
<1>8. p > i  BY <1>6, <1>7
<1>9. p \in Nat  BY <1>7, PowerType
<1>10. 2^k = 2 * p  BY <1>5, <1>7, PowerDoubles
<1> QED  BY <1>3, <1>5, <1>8, <1>9, <1>10

LEMMA PowerOrder ==
  ASSUME NEW i \in Nat, NEW j \in Nat, i < j
  PROVE  2 * 2^i <= 2^j
<1> DEFINE T == {n \in Nat : n > i /\ ~(2 * 2^i <= 2^n)}
<1>1. SUFFICES T = {}  OBVIOUS
<1>2. SUFFICES ASSUME T # {} PROVE FALSE  OBVIOUS
<1>3. PICK k \in T : \A n \in T : k <= n
  <2>1. T \in SUBSET Nat  OBVIOUS
  <2> HIDE DEF T
  <2> QED  BY <1>2, <2>1, Least
<1>4. PICK h \in Nat : k = h + 1  BY <1>3
<1>5. PICK p : p = 2^h  OBVIOUS
<1>6. PICK o : o = 2^i  OBVIOUS
<1>7. p \in Nat /\ o \in Nat  BY <1>5, <1>6, PowerType
<1>8. 2^k = 2 * p  BY <1>4, <1>5, PowerDoubles
<1>9. ~(2 * o <= 2^k)  BY <1>3, <1>6
<1>10. h # i  BY <1>5, <1>6, <1>7, <1>8, <1>9
<1>11. h \notin T /\ h > i  BY <1>3, <1>4, <1>10
<1>12. 2 * o <= p  BY <1>5, <1>6, <1>11
<1> QED  BY <1>7, <1>8, <1>9, <1>12

\* The quotient and the remainder.
LEMMA Divided ==
  ASSUME NEW c \in Nat, NEW p \in Nat \ {0}
  PROVE  \E q \in Nat, r \in 0..(p-1) : c \div p = q /\ c = q * p + r
OBVIOUS

LEMMA DividedOnce ==
  ASSUME NEW p \in Nat \ {0}, NEW q \in Nat, NEW r \in 0..(p-1)
  PROVE  (q * p + r) \div p = q
OBVIOUS

\* c with its lowest j bits cleared.
Cleared(c, j) == (c \div 2^j) * 2^j

LEMMA ClearedFacts ==
  ASSUME NEW c \in Nat, NEW j \in Nat
  PROVE  /\ Cleared(c, j) \in Nat /\ 2^j \in Nat /\ 2^j > 0 /\ c \div 2^j \in Nat
         /\ Cleared(c, j) <= c /\ c < Cleared(c, j) + 2^j
         /\ c \div 2^j = 0 => Cleared(c, j) = 0
         /\ c \div 2^j # 0 => Cleared(c, j) >= 2^j
         /\ c \div 2^j > 1 => Cleared(c, j) >= 2 * 2^j
<1>1. PICK p : p = 2^j  OBVIOUS
<1>2. p \in Nat /\ p > 0  BY <1>1, PowerType, PowerGrows
<1>3. PICK q \in Nat, r \in 0..(p-1) : c \div p = q /\ c = q * p + r  BY <1>2, Divided
<1>4. PICK z : z = q * p  OBVIOUS
<1>5. z \in Nat /\ (q = 0 => z = 0) /\ (q # 0 => z >= p) /\ (q > 1 => z >= 2 * p)
  BY <1>2, <1>4
<1>6. Cleared(c, j) = z  BY <1>1, <1>3, <1>4 DEF Cleared
<1>7. c \div 2^j = q  BY <1>1, <1>3
<1>8. c = z + r  BY <1>3, <1>4
<1> QED  BY <1>1, <1>2, <1>5, <1>6, <1>7, <1>8

\* Conversely, this tells what a number with cleared bits is.
LEMMA ClearedIs ==
  ASSUME NEW c \in Nat, NEW d \in Nat, NEW j \in Nat, Cleared(c, j) <= d, d < Cleared(c, j) + 2^j
  PROVE  d \div 2^j = c \div 2^j /\ Cleared(d, j) = Cleared(c, j)
<1>1. PICK p : p = 2^j  OBVIOUS
<1>2. p \in Nat \ {0}  BY <1>1, PowerType, PowerGrows
<1>3. PICK q \in Nat : c \div p = q  BY <1>2, Divided
<1>4. Cleared(c, j) = q * p  BY <1>1, <1>3 DEF Cleared
<1>5. PICK z \in Nat : z = q * p  BY <1>2
<1>6. PICK r \in 0..(p-1) : r = d - z  BY <1>1, <1>2, <1>4, <1>5
<1>7. d = q * p + r  BY <1>5, <1>6
<1>8. d \div p = q  BY <1>2, <1>7, DividedOnce
<1> QED  BY <1>1, <1>3, <1>8 DEF Cleared

LEMMA ClearedNone ==
  ASSUME NEW c \in Nat
  PROVE  Cleared(c, 0) = c /\ 2^0 = 1
<1>1. 2^0 = 1  OBVIOUS
<1>2. PICK p : p = 2^0  OBVIOUS
<1>3. p = 1  BY <1>1, <1>2
<1>4. (c \div p) * p = c  BY <1>3
<1> QED  BY <1>1, <1>2, <1>4 DEF Cleared

\* One more bit is cleared.
LEMMA ClearedNext ==
  ASSUME NEW c \in Nat, NEW j \in Nat
  PROVE  /\ 2^(j+1) = 2 * 2^j
         /\ c \div 2^(j+1) = (c \div 2^j) \div 2
         /\ (c \div 2^j) % 2 \in {0, 1}
         /\ Cleared(c, j) = Cleared(c, j+1) + (IF (c \div 2^j) % 2 = 1 THEN 2^j ELSE 0)
<1>1. PICK p : p = 2^j  OBVIOUS
<1>2. p \in Nat \ {0}  BY <1>1, PowerType, PowerGrows
<1>3. 2^(j+1) = 2 * p  BY <1>1, PowerDoubles
<1>4. PICK q \in Nat, r \in 0..(p-1) : c \div p = q /\ c = q * p + r  BY <1>2, Divided
<1>5. PICK h \in Nat, b \in {0, 1} : q \div 2 = h /\ q = 2 * h + b /\ q % 2 = b  BY <1>4
<1>6. PICK x \in Nat : x = h * p  BY <1>2
<1>7. q * p = 2 * x + (IF b = 1 THEN p ELSE 0)  BY <1>2, <1>5, <1>6
<1>8. PICK o \in Nat \ {0} : o = 2 * p  BY <1>2
<1>9. h * o = 2 * x  BY <1>2, <1>6, <1>8
<1>10. PICK s \in 0..(o-1) : s = r + (IF b = 1 THEN p ELSE 0)  BY <1>2, <1>4, <1>8
<1>11. c = h * o + s
  <2>1. PICK y, z : y = q * p /\ z = h * o  OBVIOUS
  <2>2. c = y + r  BY <1>4, <2>1
  <2>3. y = z + (IF b = 1 THEN p ELSE 0) /\ z \in Nat  BY <1>7, <1>9, <2>1
  <2>4. c = z + s  BY <1>2, <1>4, <1>10, <2>2, <2>3
  <2> QED  BY <2>1, <2>4
<1>12. c \div o = h  BY <1>8, <1>11, DividedOnce
<1>13. Cleared(c, j) = 2 * x + (IF b = 1 THEN p ELSE 0)  BY <1>1, <1>4, <1>7 DEF Cleared
<1>14. Cleared(c, j+1) = 2 * x
  <2>1. 2^(j+1) = o  BY <1>3, <1>8
  <2> QED  BY <2>1, <1>12, <1>9 DEF Cleared
<1>15. c \div 2^(j+1) = h  BY <1>3, <1>8, <1>12
<1>16. c \div 2^j = q  BY <1>1, <1>4
<1>17. (c \div 2^j) \div 2 = h /\ (c \div 2^j) % 2 = b  BY <1>16, <1>5
<1>18. 2^j = p  BY <1>1
<1> QED  BY <1>3, <1>13, <1>14, <1>15, <1>17, <1>18

\* k is the lowest bit of c that is clear.
IsClear(c, k) ==
  /\ k \in Nat /\ (c \div 2^k) % 2 = 0
  /\ \A j \in Nat : j < k => (c \div 2^j) % 2 = 1

\* The loop over the bits of count finds it.
LEMMA ClearBitIsClear ==
  ASSUME count \in Nat
  PROVE  IsClear(count, ClearBit) /\ ClearBit \in 0..count
<1> DEFINE T == {k \in 0..count : (count \div 2^k) % 2 = 0}
<1>1. count \in T
  <2>1. PICK p : p = 2^count  OBVIOUS
  <2>2. p \in Nat /\ p > count  BY <2>1, PowerType, PowerGrows
  <2>3. count \div p = 0  BY <2>2
  <2>4. (count \div 2^count) % 2 = 0
    <3>1. count \div 2^count = 0  BY <2>1, <2>3, Zenon
    <3>2. 0 % 2 = 0  OBVIOUS
    <3> QED  BY <3>1, <3>2, Zenon
  <2> QED  BY <2>4
<1>2. T \in SUBSET Nat  OBVIOUS
<1>3. PICK k \in T : \A j \in T : k <= j
  <2> HIDE DEF T
  <2> QED  BY <1>1, <1>2, Least
<1>4. Min(T) = k
  <2>1. T \in SUBSET Int  BY <1>2
  <2> HIDE DEF T
  <2> QED  BY <1>3, <2>1, LeastIsMin
<1>5. ClearBit = k  BY <1>4 DEF ClearBit
<1>6. ASSUME NEW j \in Nat, j < k PROVE (count \div 2^j) % 2 = 1
  <2>1. j \in 0..count /\ j \notin T  BY <1>3, <1>6
  <2>2. (count \div 2^j) % 2 # 0  BY <2>1
  <2> QED  BY <2>2, ClearedNext
<1>7. k \in 0..count /\ (count \div 2^k) % 2 = 0  BY <1>3
<1> QED  BY <1>5, <1>6, <1>7 DEF IsClear

\* The bits below it are set.
LEMMA LowOnes ==
  ASSUME NEW c \in Nat, NEW k, IsClear(c, k), NEW j \in Nat, j <= k
  PROVE  Cleared(c, j) = c + 1 - 2^j
<1> DEFINE T == {n \in Nat : n <= k /\ Cleared(c, n) # c + 1 - 2^n}
<1>1. SUFFICES T = {}  OBVIOUS
<1>2. SUFFICES ASSUME T # {} PROVE FALSE  OBVIOUS
<1>3. PICK n \in T : \A i \in T : n <= i
  <2>1. T \in SUBSET Nat  OBVIOUS
  <2> HIDE DEF T
  <2> QED  BY <1>2, <2>1, Least
<1>4. k \in Nat  BY DEF IsClear
<1>5. n # 0
  <2>1. Cleared(c, 0) = c + 1 - 1 /\ 2^0 = 1  BY ClearedNone
  <2>2. ASSUME n = 0 PROVE Cleared(c, n) = c + 1 - 2^n
    <3>1. Cleared(c, n) = Cleared(c, 0) /\ 2^n = 2^0  BY <2>2, Zenon
    <3> QED  BY <2>1, <3>1, Zenon
  <2> QED  BY <1>3, <2>2
<1>6. PICK i \in Nat : n = i + 1 /\ i < k  BY <1>3, <1>4, <1>5
<1>7. i \notin T  BY <1>3, <1>6
<1>8. PICK p : p = 2^i  OBVIOUS
<1>9. PICK y : y = Cleared(c, i)  OBVIOUS
<1>10. PICK z : z = Cleared(c, i+1)  OBVIOUS
<1>11. p \in Nat /\ y \in Nat /\ z \in Nat
  <2>1. i + 1 \in Nat  OBVIOUS
  <2> QED  BY <1>8, <1>9, <1>10, <2>1, ClearedFacts
<1>12. y = c + 1 - p  BY <1>4, <1>6, <1>7, <1>8, <1>9
<1>13. (c \div 2^i) % 2 = 1  BY <1>6 DEF IsClear
<1>14. 2^(i+1) = 2 * p /\ y = z + p  BY <1>8, <1>9, <1>10, <1>13, ClearedNext
<1>15. z = c + 1 - 2 * p  BY <1>11, <1>12, <1>14
<1>16. Cleared(c, n) = c + 1 - 2^n  BY <1>6, <1>10, <1>14, <1>15
<1> QED  BY <1>3, <1>16

\* Counting clears them and sets it, and leaves the bits above it alone.
LEMMA Counted ==
  ASSUME NEW c \in Nat, NEW k, IsClear(c, k), NEW j \in Nat
  PROVE  Cleared(c+1, j) = IF j <= k THEN c + 1 ELSE Cleared(c, j)
<1>1. k \in Nat /\ c + 1 \in Nat  BY DEF IsClear
<1>2. CASE j <= k
  <2>1. PICK p : p = 2^j  OBVIOUS
  <2>2. p \in Nat \ {0}  BY <2>1, PowerType, PowerGrows
  <2>3. PICK q \in Nat : c \div p = q  BY <2>2, Divided
  <2>4. Cleared(c, j) = q * p  BY <2>1, <2>3 DEF Cleared
  <2>5. PICK z \in Nat : z = q * p  BY <2>2
  <2>6. z = c + 1 - p  BY <1>2, <2>1, <2>4, <2>5, LowOnes
  <2>7. (q + 1) * p = z + p  BY <2>2, <2>5
  <2>8. c + 1 = (q + 1) * p + 0  BY <2>2, <2>5, <2>6, <2>7
  <2>9. PICK o \in Nat : o = q + 1  OBVIOUS
  <2>10. c + 1 = o * p + 0 /\ 0 \in 0..(p-1)  BY <2>2, <2>8, <2>9
  <2>11. (c + 1) \div p = o  BY <2>2, <2>10, DividedOnce
  <2>12. o * p = c + 1
    <3>1. o * p \in Nat  BY <2>2
    <3> QED  BY <2>10, <3>1
  <2>13. Cleared(c+1, j) = c + 1  BY <2>1, <2>11, <2>12 DEF Cleared
  <2> QED  BY <1>2, <2>13
<1>3. CASE j > k
  <2> DEFINE T == {n \in Nat : n > k /\ ~(c + 1 < Cleared(c, n) + 2^n)}
  <2>1. T = {}
    <3>1. SUFFICES ASSUME T # {} PROVE FALSE  OBVIOUS
    <3>2. PICK n \in T : \A i \in T : n <= i
      <4>1. T \in SUBSET Nat  OBVIOUS
      <4> HIDE DEF T
      <4> QED  BY <3>1, <4>1, Least
    <3>3. PICK i \in Nat : n = i + 1 /\ i >= k  BY <1>1, <3>2
    <3>4. PICK p, y, z : p = 2^i /\ y = Cleared(c, i) /\ z = Cleared(c, i+1)  OBVIOUS
    <3>5. p \in Nat /\ p > 0 /\ y \in Nat /\ z \in Nat
      <4>1. i + 1 \in Nat  OBVIOUS
      <4> QED  BY <3>4, <4>1, ClearedFacts
    <3>6. 2^n = 2 * p /\ Cleared(c, n) = z  BY <3>3, <3>4, ClearedNext
    <3>7. y = z + (IF (c \div 2^i) % 2 = 1 THEN p ELSE 0)  BY <3>4, ClearedNext
    <3>8. CASE i = k
      <4>1. y = c + 1 - p  BY <1>1, <3>4, <3>8, LowOnes
      <4>2. (c \div 2^i) % 2 = 0  BY <3>8 DEF IsClear
      <4>3. y = z  BY <3>5, <3>7, <4>2
      <4> QED  BY <3>2, <3>5, <3>6, <4>1, <4>3
    <3>9. CASE i > k
      <4>1. i \notin T  BY <3>2, <3>3
      <4>2. c + 1 < y + p  BY <3>4, <3>9, <4>1
      <4>3. y <= z + p  BY <3>5, <3>7
      <4> QED  BY <3>2, <3>5, <3>6, <4>2, <4>3
    <3> QED  BY <1>1, <3>3, <3>8, <3>9
  <2>2. PICK z, p : z = Cleared(c, j) /\ p = 2^j  OBVIOUS
  <2>3. z \in Nat /\ z <= c  BY <2>2, ClearedFacts
  <2>4. c + 1 < z + p  BY <1>3, <2>1, <2>2
  <2>5. z <= c + 1  BY <2>3
  <2>6. Cleared(c+1, j) = Cleared(c, j)  BY <1>1, <2>2, <2>4, <2>5, ClearedIs
  <2> QED  BY <1>1, <1>3, <2>6
<1> QED  BY <1>1, <1>2, <1>3

-----------------------------------------------------------------------------
(* Where one pending run ends and the next begins.                         *)

\* Of the runs that count = c stands for, the newest first, run i holds the
\* entries from Edge(c, i)+1 to Edge(c, i-1).
Edge(c, i) == IF i = 0 THEN c ELSE Cleared(c, i-1) - 2^(i-1)

LEMMA EdgeType ==
  ASSUME NEW c \in Nat, NEW i \in Nat
  PROVE  Edge(c, i) \in Int /\ Edge(c, i) <= c /\ Edge(c, 0) = c /\ Edge(c, 1) = c - 1
<1>1. Edge(c, 0) = c  BY DEF Edge
<1>2. Edge(c, 1) = c - 1
  <2>1. Edge(c, 1) = Cleared(c, 1-1) - 2^(1-1)  BY DEF Edge
  <2>2. 1 - 1 = 0  OBVIOUS
  <2>3. Edge(c, 1) = Cleared(c, 0) - 2^0  BY <2>1, <2>2, Zenon
  <2> QED  BY <2>3, ClearedNone, Zenon
<1>3. CASE i # 0
  <2>1. PICK j \in Nat : j = i - 1  BY <1>3
  <2>2. Edge(c, i) = Cleared(c, j) - 2^j  BY <1>3, <2>1 DEF Edge
  <2>3. PICK y, p : y = Cleared(c, j) /\ p = 2^j  OBVIOUS
  <2>4. y \in Nat /\ p \in Nat /\ y <= c  BY <2>3, ClearedFacts
  <2> QED  BY <1>1, <1>2, <2>2, <2>3, <2>4
<1> QED  BY <1>1, <1>2, <1>3

\* The size of a run is the bit's weight, or twice that.
LEMMA RunSize ==
  ASSUME NEW c \in Nat, NEW i \in Nat \ {0}
  PROVE  Edge(c, i) - Edge(c, i+1) = IF (c \div 2^(i-1)) % 2 = 1 THEN 2 * 2^(i-1) ELSE 2^(i-1)
<1>1. PICK j \in Nat : j = i - 1  OBVIOUS
<1>2. PICK y, z, p : y = Cleared(c, j) /\ z = Cleared(c, j+1) /\ p = 2^j  OBVIOUS
<1>3. y \in Nat /\ z \in Nat /\ p \in Nat
  <2>1. j + 1 \in Nat  OBVIOUS
  <2> QED  BY <1>2, <2>1, ClearedFacts
<1>4. Edge(c, i) = y - p  BY <1>1, <1>2 DEF Edge
<1>5. Edge(c, i+1) = z - 2 * p
  <2>1. Edge(c, i+1) = Cleared(c, i) - 2^i  BY DEF Edge
  <2>2. i = j + 1  BY <1>1
  <2> QED  BY <2>1, <2>2, <1>2, ClearedNext
<1>6. y = z + (IF (c \div 2^j) % 2 = 1 THEN p ELSE 0)  BY <1>2, ClearedNext
<1>7. Edge(c, i) - Edge(c, i+1) = IF (c \div 2^j) % 2 = 1 THEN 2 * p ELSE p
  BY <1>3, <1>4, <1>5, <1>6
<1> QED  BY <1>1, <1>2, <1>7

\* The newest run has one entry.
LEMMA NewestRunSize ==
  ASSUME NEW c \in Nat
  PROVE  Edge(c, 0) - Edge(c, 1) = 1
BY EdgeType

LEMMA EdgesDescend ==
  ASSUME NEW c \in Nat, NEW i \in Nat
  PROVE  Edge(c, i+1) < Edge(c, i)
<1>1. CASE i = 0
  <2>1. i + 1 = 1  BY <1>1
  <2>2. Edge(c, i) = c /\ Edge(c, i+1) = c - 1  BY <1>1, <2>1, EdgeType
  <2> QED  BY <2>2
<1>2. CASE i # 0
  <2>1. PICK j \in Nat : j = i - 1  BY <1>2
  <2>2. PICK p, y, z : p = 2^j /\ y = Edge(c, i) /\ z = Edge(c, i+1)  OBVIOUS
  <2>3. p \in Nat /\ p > 0  BY <2>2, PowerType, PowerGrows
  <2>4. y \in Int /\ z \in Int
    <3>1. i + 1 \in Nat  OBVIOUS
    <3> QED  BY <2>2, <3>1, EdgeType
  <2>5. y - z = IF (c \div 2^j) % 2 = 1 THEN 2 * p ELSE p  BY <1>2, <2>1, <2>2, RunSize
  <2>6. z < y  BY <2>3, <2>4, <2>5
  <2> QED  BY <2>2, <2>6
<1> QED  BY <1>1, <1>2

LEMMA EdgesOrder ==
  ASSUME NEW c \in Nat, NEW i \in Nat, NEW j \in Nat, i <= j
  PROVE  Edge(c, i) - Edge(c, j) >= j - i
<1> DEFINE T == {n \in Nat : n >= i /\ ~(Edge(c, i) - Edge(c, n) >= n - i)}
<1>1. SUFFICES T = {}  OBVIOUS
<1>2. SUFFICES ASSUME T # {} PROVE FALSE  OBVIOUS
<1>3. PICK n \in T : \A k \in T : n <= k
  <2>1. T \in SUBSET Nat  OBVIOUS
  <2> HIDE DEF T
  <2> QED  BY <1>2, <2>1, Least
<1>4. n # i
  <2>1. Edge(c, i) \in Int  BY EdgeType
  <2> QED  BY <1>3, <2>1
<1>5. PICK h \in Nat : n = h + 1 /\ h >= i  BY <1>3, <1>4
<1>6. h \notin T  BY <1>3, <1>5
<1>7. PICK x, y, z : x = Edge(c, i) /\ y = Edge(c, h) /\ z = Edge(c, n)  OBVIOUS
<1>8. x \in Int /\ y \in Int /\ z \in Int  BY <1>3, <1>7, EdgeType
<1>9. x - y >= h - i  BY <1>5, <1>6, <1>7
<1>10. z < y  BY <1>5, <1>7, EdgesDescend
<1>11. x - z >= n - i  BY <1>5, <1>8, <1>9, <1>10
<1> QED  BY <1>3, <1>7, <1>11

\* How many runs there are: those of the last L whose edge is 0.
LEMMA EdgesAbove ==
  ASSUME NEW c \in Nat, NEW L \in Nat, Edge(c, L) = 0, NEW i \in Nat, i <= L
  PROVE  Edge(c, i) \in Nat /\ Edge(c, i) >= L - i /\ L <= c
<1>1. Edge(c, i) - 0 >= L - i  BY EdgesOrder
<1>2. Edge(c, 0) - 0 >= L - 0
  <2>1. 0 <= L  OBVIOUS
  <2> QED  BY <2>1, EdgesOrder
<1>3. Edge(c, 0) = c /\ Edge(c, i) \in Int  BY EdgeType
<1> QED  BY <1>1, <1>2, <1>3

\* A run that is pushed is the newest, and two that were merged are one.
LEMMA CountedEdges ==
  ASSUME NEW c \in Nat, NEW k, IsClear(c, k), NEW j \in Nat
  PROVE  Edge(c+1, j+1) = IF j <= k THEN Edge(c, j) ELSE Edge(c, j+1)
<1>1. k \in Nat /\ c + 1 \in Nat  BY DEF IsClear
<1>2. Edge(c+1, j+1) = Cleared(c+1, j) - 2^j  BY DEF Edge
<1>3. Cleared(c+1, j) = IF j <= k THEN c + 1 ELSE Cleared(c, j)  BY Counted
<1>4. CASE j > k
  <2>1. Edge(c, j+1) = Cleared(c, j) - 2^j  BY DEF Edge
  <2> QED  BY <1>1, <1>2, <1>3, <1>4, <2>1
<1>5. CASE j <= k /\ j = 0
  <2>1. 2^j = 1
    <3>1. 2^j = 2^0  BY <1>5, Zenon
    <3> QED  BY <3>1, ClearedNone, Zenon
  <2>2. Edge(c, j) = c  BY <1>5 DEF Edge
  <2>3. Edge(c+1, j+1) = (c + 1) - 1  BY <1>2, <1>3, <1>5, <2>1
  <2> QED  BY <1>5, <2>2, <2>3
<1>6. CASE j <= k /\ j # 0
  <2>1. PICK i \in Nat : j = i + 1 /\ i <= k  BY <1>1, <1>6
  <2>2. PICK p, y : p = 2^i /\ y = Cleared(c, i)  OBVIOUS
  <2>3. p \in Nat /\ y \in Nat  BY <2>2, ClearedFacts
  <2>4. 2^j = 2 * p  BY <2>1, <2>2, PowerDoubles
  <2>5. y = c + 1 - p  BY <2>1, <2>2, LowOnes
  <2>6. Edge(c, j) = y - p
    <3>1. j - 1 = i  BY <2>1
    <3> QED  BY <1>6, <2>2, <3>1 DEF Edge
  <2>7. Edge(c+1, j+1) = c + 1 - 2 * p  BY <1>2, <1>3, <1>6, <2>4
  <2> QED  BY <1>6, <2>3, <2>5, <2>6, <2>7
<1> QED  BY <1>1, <1>4, <1>5, <1>6

\* Nothing is merged when all the bits are set: there are at most k runs.
LEMMA NothingToMerge ==
  ASSUME NEW c \in Nat, NEW k, IsClear(c, k), c \div 2^k = 0, NEW L \in Nat, Edge(c, L) = 0
  PROVE  L <= k
<1>1. k \in Nat  BY DEF IsClear
<1>2. Edge(c, k) = 0
  <2>1. CASE k = 0
    <3>1. c \div 2^k = c
      <4>1. 2^k = 1
        <5>1. 2^k = 2^0  BY <2>1, Zenon
        <5> QED  BY <5>1, ClearedNone, Zenon
      <4>2. c \div 1 = c  OBVIOUS
      <4> QED  BY <4>1, <4>2, Zenon
    <3> QED  BY <2>1, <3>1 DEF Edge
  <2>2. CASE k # 0
    <3>1. PICK i \in Nat : k = i + 1 /\ i <= k  BY <1>1, <2>2
    <3>2. PICK p, y : p = 2^i /\ y = Cleared(c, i)  OBVIOUS
    <3>3. p \in Nat /\ y \in Nat  BY <3>2, ClearedFacts
    <3>4. 2^k = 2 * p  BY <3>1, <3>2, PowerDoubles
    <3>5. y = c + 1 - p  BY <3>1, <3>2, LowOnes
    <3>6. Cleared(c, k) = c + 1 - 2 * p
      <4>1. k <= k  BY <1>1
      <4> QED  BY <1>1, <3>4, <4>1, LowOnes
    <3>7. Cleared(c, k) = 0  BY <1>1, ClearedFacts
    <3>8. Edge(c, k) = y - p
      <4>1. k - 1 = i  BY <3>1
      <4> QED  BY <2>2, <3>2, <4>1 DEF Edge
    <3> QED  BY <3>3, <3>5, <3>6, <3>7, <3>8
  <2> QED  BY <2>1, <2>2
<1>3. SUFFICES ASSUME k <= L, k # L PROVE FALSE  BY <1>1
<1>4. Edge(c, k) - Edge(c, L) >= L - k  BY <1>1, <1>3, EdgesOrder
<1>5. 0 - 0 >= L - k  BY <1>2, <1>4
<1> QED  BY <1>1, <1>3, <1>5

\* Otherwise there are two runs to merge, both of the bit's weight.
LEMMA TwoToMerge ==
  ASSUME NEW c \in Nat, NEW k, IsClear(c, k), c \div 2^k # 0, NEW L \in Nat, Edge(c, L) = 0
  PROVE  /\ k + 2 <= L
         /\ Edge(c, k) - Edge(c, k+1) = 2^k
         /\ Edge(c, k+1) - Edge(c, k+2) = 2^k
<1>1. k \in Nat /\ (c \div 2^k) % 2 = 0  BY DEF IsClear
<1>2. c \div 2^k > 1
  <2>1. PICK q : q = c \div 2^k  OBVIOUS
  <2>2. q \in Nat /\ q # 0 /\ q % 2 = 0  BY <1>1, <2>1, ClearedFacts
  <2>3. q # 1  BY <2>2
  <2> QED  BY <2>1, <2>2, <2>3
<1>3. PICK p, y : p = 2^k /\ y = Cleared(c, k)  OBVIOUS
<1>4. p \in Nat /\ p > 0 /\ y \in Nat /\ y >= 2 * p  BY <1>1, <1>2, <1>3, ClearedFacts
<1>5. Edge(c, k+1) = y - p
  <2>1. PICK h : h = k + 1 /\ h # 0 /\ h - 1 = k  BY <1>1
  <2>2. Edge(c, h) = y - p  BY <1>3, <2>1 DEF Edge
  <2> QED  BY <2>1, <2>2
<1>6. k + 2 <= L
  <2>1. SUFFICES ASSUME L <= k + 1 PROVE FALSE  BY <1>1
  <2>2. PICK h \in Nat : h = k + 1  BY <1>1
  <2>3. Edge(c, L) - Edge(c, h) >= h - L  BY <2>1, <2>2, EdgesOrder
  <2>4. 0 - (y - p) >= h - L  BY <1>5, <2>2, <2>3
  <2> QED  BY <1>4, <2>1, <2>2, <2>4
<1>7. Edge(c, k+1) - Edge(c, k+2) = p
  <2>1. PICK h \in Nat \ {0} : h = k + 1  BY <1>1
  <2>2. h - 1 = k /\ h + 1 = k + 2  BY <1>1, <2>1
  <2>3. Edge(c, h) - Edge(c, h+1) = p  BY <1>1, <1>3, <2>2, RunSize
  <2> QED  BY <2>1, <2>2, <2>3
<1>8. Edge(c, k) = y
  <2>1. y = c + 1 - p
    <3>1. k <= k  BY <1>1
    <3> QED  BY <1>1, <1>3, <3>1, LowOnes
  <2>2. CASE k = 0
    <3>1. 2^k = 1
      <4>1. 2^k = 2^0  BY <2>2, Zenon
      <4> QED  BY <4>1, ClearedNone, Zenon
    <3>2. Edge(c, k) = c  BY <2>2 DEF Edge
    <3> QED  BY <1>3, <2>1, <3>1, <3>2
  <2>3. CASE k # 0
    <3>1. PICK i \in Nat : k = i + 1 /\ i <= k  BY <1>1, <2>3
    <3>2. PICK w, z : w = 2^i /\ z = Cleared(c, i)  OBVIOUS
    <3>3. w \in Nat /\ z \in Nat  BY <3>2, ClearedFacts
    <3>4. p = 2 * w  BY <1>3, <3>1, <3>2, PowerDoubles
    <3>5. z = c + 1 - w  BY <3>1, <3>2, LowOnes
    <3>6. Edge(c, k) = z - w
      <4>1. k - 1 = i  BY <3>1
      <4> QED  BY <2>3, <3>2, <4>1 DEF Edge
    <3> QED  BY <2>1, <3>3, <3>4, <3>5, <3>6
  <2> QED  BY <2>2, <2>3
<1>9. Edge(c, k) - Edge(c, k+1) = p  BY <1>4, <1>5, <1>8
<1> QED  BY <1>3, <1>6, <1>7, <1>9

\* At the end a run is collected with those before it, which together are less
\* than twice as long and more than half as long.
LEMMA BalancedEdges ==
  ASSUME NEW c \in Nat, NEW i \in Nat \ {0}
  PROVE  /\ Edge(c, i) - Edge(c, i+1) <= 2 * (c - Edge(c, i))
         /\ c - Edge(c, i) < 2 * (Edge(c, i) - Edge(c, i+1))
<1>1. PICK j \in Nat : j = i - 1  OBVIOUS
<1>2. PICK p, y, e, f : p = 2^j /\ y = Cleared(c, j) /\ e = Edge(c, i) /\ f = Edge(c, i+1)
  OBVIOUS
<1>3. p \in Nat /\ p > 0 /\ y \in Nat /\ y <= c /\ c < y + p  BY <1>2, ClearedFacts
<1>4. e = y - p  BY <1>1, <1>2 DEF Edge
<1>5. f \in Int
  <2>1. i + 1 \in Nat  OBVIOUS
  <2> QED  BY <1>2, <2>1, EdgeType
<1>6. e - f = IF (c \div 2^j) % 2 = 1 THEN 2 * p ELSE p  BY <1>1, <1>2, RunSize
<1>7. e - f <= 2 * (c - e) /\ c - e < 2 * (e - f)  BY <1>3, <1>4, <1>5, <1>6
<1> QED  BY <1>2, <1>7

-----------------------------------------------------------------------------
(* Runs as sequences of entries.                                           *)

\* q is made of the entries of the set S, each once.
Lists(q, S) == q \in Seq(1..N) /\ IsInjective(q) /\ ToSet(q) = S

\* Its first entry, and its last one.
Lead(q)   == IF q = <<>> THEN NULL ELSE q[1]
End(q, x) == IF q = <<>> THEN x ELSE q[Len(q)]

\* O stands for an order on the entries.
Sorted(O, q) == \A i, j \in 1..Len(q) : i < j => <<q[i], q[j]>> \in O

IsTransitive(O) == \A x, y, z : <<x, y>> \in O /\ <<y, z>> \in O => <<x, z>> \in O

\* The pointers link lead along q to the null pointer.
Chain(link, q) ==
  \A i \in 1..Len(q) : link[q[i]] = IF i < Len(q) THEN q[i+1] ELSE NULL

LEMMA ListsFacts ==
  ASSUME NEW q, NEW S, Lists(q, S)
  PROVE  /\ q \in Seq(1..N) /\ Len(q) \in Nat /\ DOMAIN q = 1..Len(q)
         /\ (q = <<>> <=> Len(q) = 0) /\ (q = <<>> <=> S = {})
         /\ \A i \in 1..Len(q) : q[i] \in S
         /\ \A i, j \in 1..Len(q) : q[i] = q[j] => i = j
         /\ \A e \in S : \E i \in 1..Len(q) : q[i] = e
         /\ S \subseteq 1..N
<1>1. q \in Seq(1..N)  BY DEF Lists
<1>2. Len(q) \in Nat /\ DOMAIN q = 1..Len(q) /\ \A i \in 1..Len(q) : q[i] \in 1..N
  BY <1>1, LenProperties, ElementOfSeq
<1>3. S = {q[i] : i \in 1..Len(q)}  BY <1>2 DEF Lists, ToSet
<1>4. \A i \in 1..Len(q) : q[i] \in S  BY <1>3
<1>5. \A e \in S : \E i \in 1..Len(q) : q[i] = e  BY <1>3
<1>6. S \subseteq 1..N  BY <1>2, <1>3
<1>7. \A i, j \in 1..Len(q) : q[i] = q[j] => i = j  BY <1>2 DEF Lists, IsInjective
<1>8. q = <<>> <=> Len(q) = 0  BY <1>1, EmptySeq
<1>9. q = <<>> <=> S = {}
  <2>1. ASSUME Len(q) = 0 PROVE S = {}
    <3>1. 1..Len(q) = {}  BY <2>1
    <3> QED  BY <1>5, <3>1
  <2>2. ASSUME Len(q) # 0 PROVE q[1] \in S
    <3>1. 1 \in 1..Len(q)  BY <1>2, <2>2
    <3> QED  BY <1>4, <3>1
  <2> QED  BY <1>8, <2>1, <2>2
<1> QED  BY <1>1, <1>2, <1>4, <1>5, <1>6, <1>7, <1>8, <1>9

\* This is how to show it.
LEMMA ListsIf ==
  ASSUME NEW q \in Seq(1..N), NEW S,
         \A i \in 1..Len(q) : q[i] \in S,
         \A i, j \in 1..Len(q) : q[i] = q[j] => i = j,
         \A e \in S : \E i \in 1..Len(q) : q[i] = e
  PROVE  Lists(q, S)
<1>1. DOMAIN q = 1..Len(q)  BY LenProperties
<1>2. ToSet(q) = S  BY <1>1 DEF ToSet
<1>3. IsInjective(q)  BY <1>1 DEF IsInjective
<1> QED  BY <1>2, <1>3 DEF Lists

LEMMA ListsItself ==
  ASSUME NEW q, NEW S, Lists(q, S)
  PROVE  Lists(q, ToSet(q)) /\ ToSet(q) = S
BY DEF Lists

\* How many they are.
LEMMA ListsCount ==
  ASSUME NEW q, NEW S, Lists(q, S)
  PROVE  IsFiniteSet(S) /\ Cardinality(S) = Len(q)
<1>1. PICK n \in Nat : n = Len(q)  BY ListsFacts
<1>2. DOMAIN q = 1..n /\ q \in [1..n -> S]
  BY <1>1, ListsFacts, LenProperties
<1>3. \A i, j \in 1..n : q[i] = q[j] => i = j  BY <1>1, ListsFacts
<1>4. \A e \in S : \E i \in 1..n : q[i] = e  BY <1>1, ListsFacts
<1>5. ExistsBijection(1..n, S)
  BY <1>2, <1>3, <1>4 DEF ExistsBijection, Bijection, Injection, Surjection, IsInjective
<1>6. PICK a \in Int : a = 1  OBVIOUS
<1>7. IsFiniteSet(a..n) /\ Cardinality(a..n) = n  BY <1>6, FS_Interval
<1>8. IsFiniteSet(1..n) /\ Cardinality(1..n) = n  BY <1>6, <1>7
<1>9. IsFiniteSet(S) /\ Cardinality(S) = Cardinality(1..n)  BY <1>5, <1>8, FS_Bijection
<1> QED  BY <1>1, <1>8, <1>9

LEMMA ListsInterval ==
  ASSUME NEW q, NEW a \in Int, NEW b \in Int, a <= b, Lists(q, (a+1)..b)
  PROVE  Len(q) = b - a
<1>1. PICK d \in Int : d = a + 1  OBVIOUS
<1>2. Cardinality(d..b) = IF d > b THEN 0 ELSE b - d + 1  BY FS_Interval
<1>3. Cardinality(d..b) = b - a  BY <1>1, <1>2
<1>4. Cardinality((a+1)..b) = Len(q)  BY ListsCount
<1> QED  BY <1>1, <1>3, <1>4

\* There cannot be more than N.
LEMMA ListsAtMost ==
  ASSUME NEW q, NEW S, Lists(q, S)
  PROVE  Len(q) <= N
<1>1. S \subseteq 1..N  BY ListsFacts
<1>2. PICK a, b : a = 1 /\ b = N  OBVIOUS
<1>3. a \in Int /\ b \in Int /\ N \in Nat  BY <1>2, SortAssumption
<1>4. IsFiniteSet(a..b) /\ Cardinality(a..b) = IF a > b THEN 0 ELSE b - a + 1  BY <1>3, FS_Interval
<1>5. IsFiniteSet(1..N) /\ Cardinality(1..N) = N  BY <1>2, <1>3, <1>4
<1>6. Cardinality(S) <= Cardinality(1..N)  BY <1>1, <1>5, FS_Subset
<1> QED  BY <1>5, <1>6, ListsCount

-----------------------------------------------------------------------------
(* The sequences of cells that the properties follow.                      *)

\* The cursor of Run().
Walks(link, x, f) ==
  f = [i \in 1..N+1 |-> IF i = 1 THEN x ELSE IF f[i-1] = NULL THEN NULL ELSE link[f[i-1]]]

LEMMA WalksOnce ==
  ASSUME NEW link, NEW x, NEW f, NEW g, Walks(link, x, f), Walks(link, x, g)
  PROVE  f = g
<1> DEFINE T == {i \in 1..N+1 : f[i] # g[i]}
<1>1. ASSUME T # {} PROVE FALSE
  <2>1. PICK k \in T : \A j \in T : k <= j
    <3>1. T \in SUBSET Nat  OBVIOUS
    <3> HIDE DEF T
    <3> QED  BY <1>1, <3>1, Least
  <2>2. CASE k = 1  BY <2>1, <2>2 DEF Walks
  <2>3. CASE k # 1
    <3>1. k-1 \in 1..N+1 /\ k \in 1..N+1 /\ k-1 \notin T  BY <2>1, <2>3, SortAssumption
    <3>2. f[k-1] = g[k-1]  BY <3>1
    <3> QED  BY <2>1, <2>3, <3>1, <3>2 DEF Walks
  <2> QED  BY <2>2, <2>3
<1>2. DOMAIN f = 1..N+1 /\ DOMAIN g = 1..N+1  BY DEF Walks
<1> QED  BY <1>1, <1>2 DEF Walks

\* Run() finds what a chain holds.
LEMMA RunFacts ==
  ASSUME NEW q, NEW S, Lists(q, S), NEW link, Chain(link, q)
  PROVE  Run(link, Lead(q)) = q
<1> DEFINE x == Lead(q)
           cell[i \in 1..N+1] ==
             IF i = 1 THEN x ELSE IF cell[i-1] = NULL THEN NULL ELSE link[cell[i-1]]
           g == [i \in 1..N+1 |-> IF i <= Len(q) THEN q[i] ELSE NULL]
           ends == {j \in 1..N+1 : cell[j] = NULL} \cup {N+1}
<1>1. Run(link, x) = [i \in 1..Min(ends) - 1 |-> cell[i]]  BY DEF Run
<1>2. PICK n \in Nat : n = Len(q)  BY ListsFacts
<1>3. n <= N /\ N \in Nat  BY <1>2, ListsAtMost, SortAssumption
<1>4. \A i \in 1..n : q[i] # NULL
  <2>1. \A i \in 1..n : q[i] \in 1..N  BY <1>2, ListsFacts
  <2>2. NULL \notin 1..N  BY SortAssumption
  <2> QED  BY <2>1, <2>2
<1>5. Walks(link, x, g)
  <2>1. ASSUME NEW i \in 1..N+1
        PROVE  g[i] = IF i = 1 THEN x ELSE IF g[i-1] = NULL THEN NULL ELSE link[g[i-1]]
    <3>1. CASE i = 1
      <4>1. CASE n = 0
        <5>1. x = NULL  BY <1>2, <4>1, ListsFacts DEF Lead
        <5> QED  BY <1>2, <3>1, <4>1, <5>1
      <4>2. CASE n # 0
        <5>1. x = q[1]  BY <1>2, <4>2, ListsFacts DEF Lead
        <5> QED  BY <1>2, <3>1, <4>2, <5>1
      <4> QED  BY <4>1, <4>2
    <3>2. CASE i # 1
      <4>1. PICK h \in 1..N : i = h + 1  BY <1>3, <3>2
      <4>2. g[h] = (IF h <= n THEN q[h] ELSE NULL) /\ g[i] = IF i <= n THEN q[i] ELSE NULL
        BY <1>2, <1>3, <4>1
      <4>3. i - 1 = h  BY <4>1
      <4> HIDE DEF g
      <4>4. CASE h > n
        <5>1. g[h] = NULL /\ g[i] = NULL  BY <1>3, <4>1, <4>2, <4>4
        <5> QED  BY <3>2, <4>3, <5>1
      <4>5. CASE h <= n
        <5>1. h \in 1..n  BY <1>2, <4>5
        <5>2. g[h] = q[h] /\ g[h] # NULL  BY <1>4, <4>2, <5>1
        <5>3. link[q[h]] = IF h < n THEN q[h+1] ELSE NULL  BY <1>2, <5>1 DEF Chain
        <5>4. g[i] = IF h < n THEN q[h+1] ELSE NULL  BY <1>2, <4>1, <4>2
        <5>5. g[i] = link[g[h]]  BY <5>2, <5>3, <5>4
        <5> QED  BY <3>2, <4>3, <5>2, <5>5
      <4> QED  BY <1>2, <4>4, <4>5
    <3> QED  BY <3>1, <3>2
  <2>2. g = [i \in 1..N+1 |-> g[i]]  OBVIOUS
  <2> HIDE DEF g, x
  <2> QED  BY <2>1, <2>2 DEF Walks
<1>6. cell = g
  <2>1. cell = CHOOSE f : Walks(link, x, f)  BY DEF Walks
  <2>2. \E f : Walks(link, x, f)
    <3> HIDE DEF g
    <3> QED  BY <1>5
  <2> HIDE DEF cell, g, x
  <2>3. Walks(link, x, cell)  BY <2>1, <2>2
  <2> QED  BY <1>5, <2>3, WalksOnce
<1>7. Min(ends) = n + 1
  <2>1. ASSUME NEW j \in 1..N+1 PROVE cell[j] = NULL <=> j > n
    <3>1. cell[j] = g[j]  BY <1>6
    <3>2. g[j] = IF j <= n THEN q[j] ELSE NULL  BY <1>2
    <3> HIDE DEF cell, g
    <3> QED  BY <1>2, <1>4, <3>1, <3>2
  <2> HIDE DEF cell
  <2>2. n + 1 \in ends  BY <1>2, <1>3, <2>1
  <2>3. ends \in SUBSET Int  BY <1>3
  <2>4. \A j \in ends : n + 1 <= j
    <3>1. ASSUME NEW j \in ends PROVE n + 1 <= j
      <4>1. j \in 1..N+1 /\ (j = N + 1 \/ cell[j] = NULL)  BY <1>3
      <4> HIDE DEF ends
      <4> QED  BY <1>2, <1>3, <2>1, <4>1
    <3> QED  BY <3>1
  <2>5. PICK m \in ends : m = n + 1  BY <2>2
  <2> HIDE DEF ends
  <2> QED  BY <2>3, <2>4, <2>5, LeastIsMin
<1>8. Run(link, x) = [i \in 1..n |-> cell[i]]
  <2>1. Min(ends) - 1 = n  BY <1>2, <1>7
  <2> HIDE DEF ends, cell
  <2> QED  BY <1>1, <2>1
<1>9. \A i \in 1..n : cell[i] = q[i]
  <2>1. \A i \in 1..n : g[i] = q[i]  BY <1>2, <1>3
  <2> HIDE DEF cell, g
  <2> QED  BY <1>6, <2>1
<1>10. q = [i \in 1..n |-> q[i]]
  <2>1. q \in [1..n -> 1..N]  BY <1>2, ListsFacts, LenProperties
  <2> QED  BY <2>1
<1> HIDE DEF cell, x
<1>11. Run(link, x) = q  BY <1>8, <1>9, <1>10
<1> QED  BY <1>11 DEF x

-----------------------------------------------------------------------------
(* Merging two runs.                                                       *)

LEMMA ListsAppend ==
  ASSUME NEW t, NEW S, Lists(t, S), NEW e \in 1..N, e \notin S
  PROVE  LET s == Append(t, e)
         IN  /\ Lists(s, S \cup {e}) /\ Len(s) = Len(t) + 1 /\ s[Len(t)+1] = e
             /\ \A i \in 1..Len(t) : s[i] = t[i]
             /\ s # <<>>
<1> DEFINE s == Append(t, e)
<1>1. PICK n \in Nat : n = Len(t)  BY ListsFacts
<1>2. t \in Seq(1..N)  BY ListsFacts
<1>3. /\ s \in Seq(1..N) /\ s # <<>> /\ Len(s) = n + 1
      /\ (\A i \in 1..n : s[i] = t[i]) /\ s[n+1] = e
  <2>1. s \in Seq(1..N) /\ s # <<>>  BY <1>2, AppendProperties
  <2>2. Len(s) = Len(t) + 1  BY <1>2, AppendProperties
  <2>3. \A i \in 1..Len(t) : s[i] = t[i]  BY <1>2, AppendProperties
  <2>4. s[Len(t)+1] = e  BY <1>2, AppendProperties
  <2> HIDE DEF s
  <2> QED  BY <1>1, <2>1, <2>2, <2>3, <2>4
<1> HIDE DEF s
<1>4. \A i \in 1..n : t[i] \in S  BY <1>1, ListsFacts
<1>5. \A i \in 1..(n+1) : s[i] = IF i = n+1 THEN e ELSE t[i]  BY <1>1, <1>3
<1>6. \A i \in 1..Len(s) : s[i] \in S \cup {e}  BY <1>1, <1>3, <1>4, <1>5
<1>7. \A i, j \in 1..Len(s) : s[i] = s[j] => i = j
  <2>1. \A i, j \in 1..n : t[i] = t[j] => i = j  BY <1>1, ListsFacts
  <2> QED  BY <1>1, <1>3, <1>4, <1>5, <2>1
<1>8. ASSUME NEW d \in S \cup {e} PROVE \E i \in 1..Len(s) : s[i] = d
  <2>1. CASE d = e  BY <1>1, <1>3, <2>1
  <2>2. CASE d \in S
    <3>1. PICK i \in 1..n : t[i] = d  BY <1>1, <2>2, ListsFacts
    <3>2. i \in 1..Len(s) /\ s[i] = d  BY <1>1, <1>3, <3>1
    <3> QED  BY <3>2
  <2> QED  BY <2>1, <2>2
<1>9. Lists(s, S \cup {e})  BY <1>3, <1>6, <1>7, <1>8, ListsIf
<1> QED  BY <1>1, <1>3, <1>9 DEF s

LEMMA ListsTail ==
  ASSUME NEW x, NEW S, Lists(x, S), x # <<>>
  PROVE  LET s == Tail(x)
         IN  /\ Lists(s, S \ {x[1]}) /\ Len(s) = Len(x) - 1
             /\ \A i \in 1..Len(s) : s[i] = x[i+1]
<1> DEFINE s == Tail(x)
<1>1. PICK n \in Nat : n = Len(x) /\ n # 0  BY ListsFacts
<1>2. x \in Seq(1..N)  BY ListsFacts
<1>3. s \in Seq(1..N) /\ Len(s) = n - 1 /\ \A i \in 1..(n-1) : s[i] = x[i+1]
  BY <1>1, <1>2, HeadTailProperties
<1> HIDE DEF s
<1>4. \A i, j \in 1..n : x[i] = x[j] => i = j  BY <1>1, ListsFacts
<1>5. \A i \in 1..n : x[i] \in S  BY <1>1, ListsFacts
<1>6. ASSUME NEW i \in 1..(n-1) PROVE s[i] \in S \ {x[1]}
  <2>1. i + 1 \in 1..n /\ 1 \in 1..n /\ i + 1 # 1  BY <1>1
  <2>2. x[i+1] \in S /\ x[i+1] # x[1]  BY <1>4, <1>5, <2>1
  <2> QED  BY <1>3, <2>2
<1>7. ASSUME NEW i \in 1..(n-1), NEW j \in 1..(n-1), s[i] = s[j] PROVE i = j
  <2>1. PICK k \in 1..n, l \in 1..n : k = i + 1 /\ l = j + 1  BY <1>1
  <2>2. x[k] = x[l]  BY <1>3, <1>7, <2>1
  <2>3. k = l  BY <1>4, <2>2
  <2> QED  BY <2>1, <2>3
<1>8. ASSUME NEW d \in S \ {x[1]} PROVE \E i \in 1..(n-1) : s[i] = d
  <2>1. PICK j \in 1..n : x[j] = d  BY <1>1, ListsFacts
  <2>2. PICK i \in 1..(n-1) : j = i + 1  BY <1>1, <1>8, <2>1
  <2> QED  BY <1>3, <2>1, <2>2
<1>9. Lists(s, S \ {x[1]})  BY <1>3, <1>6, <1>7, <1>8, ListsIf
<1> QED  BY <1>1, <1>3, <1>9 DEF s

LEMMA ListsConcat ==
  ASSUME NEW t, NEW A, Lists(t, A), NEW y, NEW B, Lists(y, B), A \cap B = {}
  PROVE  LET r == t \o y
         IN  /\ Lists(r, A \cup B) /\ Len(r) = Len(t) + Len(y)
             /\ \A i \in 1..(Len(t)+Len(y)) : r[i] = IF i <= Len(t) THEN t[i] ELSE y[i-Len(t)]
<1> DEFINE r == t \o y
<1>1. PICK m \in Nat, n \in Nat : m = Len(t) /\ n = Len(y)  BY ListsFacts
<1>2. t \in Seq(1..N) /\ y \in Seq(1..N)  BY ListsFacts
<1>3. /\ r \in Seq(1..N) /\ Len(r) = m + n
      /\ \A i \in 1..(m+n) : r[i] = IF i <= m THEN t[i] ELSE y[i-m]
  BY <1>1, <1>2, ConcatProperties
<1> HIDE DEF r
<1>4. (\A i \in 1..m : t[i] \in A) /\ (\A i \in 1..n : y[i] \in B)  BY <1>1, ListsFacts
<1>5. ASSUME NEW i \in 1..(m+n)
      PROVE  \/ i \in 1..m /\ r[i] = t[i] /\ r[i] \in A
             \/ i - m \in 1..n /\ r[i] = y[i-m] /\ r[i] \in B
  <2>1. CASE i <= m  BY <1>3, <1>4, <2>1
  <2>2. CASE i > m
    <3>1. i - m \in 1..n  BY <1>1, <2>2
    <3> QED  BY <1>1, <1>3, <1>4, <2>2, <3>1
  <2> QED  BY <1>1, <2>1, <2>2
<1>6. \A i \in 1..Len(r) : r[i] \in A \cup B  BY <1>3, <1>5
<1>7. ASSUME NEW i \in 1..(m+n), NEW j \in 1..(m+n), r[i] = r[j] PROVE i = j
  <2>1. \A a, b \in 1..m : t[a] = t[b] => a = b  BY <1>1, ListsFacts
  <2>2. \A a, b \in 1..n : y[a] = y[b] => a = b  BY <1>1, ListsFacts
  <2>3. CASE i \in 1..m /\ r[i] = t[i] /\ r[i] \in A
    <3>1. j \in 1..m /\ r[j] = t[j]  BY <1>5, <1>7, <2>3
    <3> QED  BY <1>7, <2>1, <2>3, <3>1
  <2>4. CASE i - m \in 1..n /\ r[i] = y[i-m] /\ r[i] \in B
    <3>1. j - m \in 1..n /\ r[j] = y[j-m]  BY <1>5, <1>7, <2>4
    <3>2. i - m = j - m  BY <1>7, <2>2, <2>4, <3>1
    <3> QED  BY <1>1, <3>2
  <2> QED  BY <1>5, <2>3, <2>4
<1>8. ASSUME NEW d \in A \cup B PROVE \E i \in 1..(m+n) : r[i] = d
  <2>1. CASE d \in A
    <3>1. PICK i \in 1..m : t[i] = d  BY <1>1, <2>1, ListsFacts
    <3>2. i \in 1..(m+n) /\ r[i] = d  BY <1>1, <1>3, <3>1
    <3> QED  BY <3>2
  <2>2. CASE d \in B
    <3>1. PICK i \in 1..n : y[i] = d  BY <1>1, <2>2, ListsFacts
    <3>2. PICK j \in 1..(m+n) : j = i + m  BY <1>1
    <3>3. r[j] = d
      <4>1. ~(j <= m) /\ j - m = i  BY <1>1, <3>2
      <4> QED  BY <1>3, <3>1, <4>1
    <3> QED  BY <3>3
  <2> QED  BY <2>1, <2>2
<1>9. Lists(r, A \cup B)  BY <1>3, <1>6, <1>7, <1>8, ListsIf
<1> QED  BY <1>1, <1>3, <1>9 DEF r

\* In the middle of a merge: t has the entries that were taken, and all of them
\* come before those of x and y, which are what is left of the two runs.
Merging(link, O, t, x, y, S) ==
  /\ Lists(t, ToSet(t)) /\ Lists(x, ToSet(x)) /\ Lists(y, ToSet(y))
  /\ ToSet(t) \cap ToSet(x) = {} /\ ToSet(t) \cap ToSet(y) = {} /\ ToSet(x) \cap ToSet(y) = {}
  /\ ToSet(t) \cup ToSet(x) \cup ToSet(y) = S
  /\ \A i \in 1..Len(t) : i < Len(t) => link[t[i]] = t[i+1]
  /\ Chain(link, x) /\ Chain(link, y)
  /\ Sorted(O, t) /\ Sorted(O, x) /\ Sorted(O, y)
  /\ \A d \in ToSet(t), e \in ToSet(x) \cup ToSet(y) : <<d, e>> \in O

LEMMA MergingExchanged ==
  ASSUME NEW link, NEW O, NEW t, NEW x, NEW y, NEW S, Merging(link, O, t, x, y, S)
  PROVE  Merging(link, O, t, y, x, S)
BY DEF Merging

\* The entry x[1] is linked to the end of t.
LinkedTo(link, to, t, x, S) ==
  /\ \A c \in S : (t = <<>> \/ c # t[Len(t)]) => to[c] = link[c]
  /\ t # <<>> => to[t[Len(t)]] = x[1]

\* The smaller first entry is taken.
LEMMA MergeTakes ==
  ASSUME NEW link, NEW O, IsTransitive(O), NEW t, NEW x, NEW y, NEW S,
         Merging(link, O, t, x, y, S), x # <<>>, y # <<>>, <<x[1], y[1]>> \in O,
         NEW to, LinkedTo(link, to, t, x, S)
  PROVE  Merging(to, O, Append(t, x[1]), Tail(x), y, S) /\ to[x[1]] = Lead(Tail(x))
<1> DEFINE A == ToSet(t)
           B == ToSet(x)
           C == ToSet(y)
           e == x[1]
           s == Append(t, e)
           z == Tail(x)
<1>1. Lists(t, A) /\ Lists(x, B) /\ Lists(y, C)  BY DEF Merging
<1>2. A \cap B = {} /\ A \cap C = {} /\ B \cap C = {} /\ A \cup B \cup C = S  BY DEF Merging
<1>3. PICK l \in Nat, m \in Nat, n \in Nat :
        l = Len(t) /\ m = Len(x) /\ n = Len(y) /\ m # 0 /\ n # 0
  BY <1>1, ListsFacts
<1>4. e \in B /\ e \in 1..N /\ e \notin A /\ e \notin C
  <2>1. 1 \in 1..m  BY <1>3
  <2>2. e \in B /\ B \subseteq 1..N  BY <1>1, <1>3, <2>1, ListsFacts
  <2> QED  BY <1>2, <2>2
<1>5. /\ Lists(s, A \cup {e}) /\ Len(s) = l + 1 /\ s[l+1] = e
      /\ \A i \in 1..l : s[i] = t[i]
  BY <1>1, <1>3, <1>4, ListsAppend
<1>6. /\ Lists(z, B \ {e}) /\ Len(z) = m - 1
      /\ \A i \in 1..(m-1) : z[i] = x[i+1]
  BY <1>1, <1>3, ListsTail
<1>7. Sorted(O, t) /\ Sorted(O, x) /\ Sorted(O, y)
      /\ \A d \in A, c \in B \cup C : <<d, c>> \in O
  BY DEF Merging
<1> HIDE DEF s, z
<1>8. ToSet(s) = A \cup {e} /\ Lists(s, ToSet(s)) /\ ToSet(z) = B \ {e} /\ Lists(z, ToSet(z))
  BY <1>5, <1>6, ListsItself
<1>9. (\A i \in 1..l : t[i] \in A) /\ (\A i \in 1..m : x[i] \in B) /\ (\A i \in 1..n : y[i] \in C)
  BY <1>1, <1>3, ListsFacts
<1>10. \A i \in 1..(l+1) : s[i] = IF i = l+1 THEN e ELSE t[i]  BY <1>3, <1>5
<1>11. \A c \in S : (l = 0 \/ c # t[l]) => to[c] = link[c]
  BY <1>1, <1>3, ListsFacts DEF LinkedTo
<1>12. l # 0 => to[t[l]] = e  BY <1>1, <1>3, ListsFacts DEF LinkedTo
<1>13. \A i \in 1..Len(s) : i < Len(s) => to[s[i]] = s[i+1]
  <2>1. SUFFICES ASSUME NEW i \in 1..l PROVE to[s[i]] = s[i+1]  BY <1>3, <1>5
  <2>2. CASE i = l  BY <1>3, <1>5, <1>12, <2>2
  <2>3. CASE i # l
    <3>1. i < l /\ i + 1 \in 1..l /\ l \in 1..l  BY <1>3, <2>3
    <3>2. t[i] # t[l]  BY <1>1, <1>3, <2>3, <3>1, ListsFacts
    <3>3. t[i] \in S  BY <1>2, <1>9
    <3>4. to[t[i]] = link[t[i]]  BY <1>11, <3>2, <3>3
    <3>5. link[t[i]] = t[i+1]  BY <1>3, <3>1 DEF Merging
    <3> QED  BY <1>5, <3>1, <3>4, <3>5
  <2> QED  BY <2>2, <2>3
<1>14. \A c \in B \cup C : to[c] = link[c]
  <2> SUFFICES ASSUME NEW c \in B \cup C PROVE to[c] = link[c]  OBVIOUS
  <2>1. c \in S /\ c \notin A  BY <1>2
  <2>2. l # 0 => t[l] \in A  BY <1>3, <1>9
  <2> QED  BY <1>11, <2>1, <2>2
<1>15. Chain(to, y)
  <2>1. Chain(link, y)  BY DEF Merging
  <2> QED  BY <1>3, <1>9, <1>14, <2>1 DEF Chain
<1>16. \A i \in 1..m : to[x[i]] = IF i < m THEN x[i+1] ELSE NULL
  <2>1. Chain(link, x)  BY DEF Merging
  <2> QED  BY <1>3, <1>9, <1>14, <2>1 DEF Chain
<1>17. Chain(to, z)
  <2>1. ASSUME NEW i \in 1..(m-1) PROVE to[z[i]] = IF i < m-1 THEN z[i+1] ELSE NULL
    <3>1. PICK j \in 1..m : j = i + 1  BY <1>3
    <3>2. z[i] = x[j]  BY <1>6, <3>1
    <3>3. to[x[j]] = IF j < m THEN x[j+1] ELSE NULL  BY <1>16
    <3>4. i < m-1 => z[i+1] = x[j+1]
      <4>1. ASSUME i < m-1 PROVE z[i+1] = x[j+1]
        <5>1. PICK h \in 1..(m-1) : h = i + 1  BY <1>3, <4>1
        <5>2. z[h] = x[h+1]  BY <1>6
        <5> QED  BY <3>1, <5>1, <5>2
      <4> QED  BY <4>1
    <3>5. i < m-1 <=> j < m  BY <1>3, <3>1
    <3> QED  BY <3>2, <3>3, <3>4, <3>5
  <2> QED  BY <1>6, <2>1 DEF Chain
<1>18. to[e] = Lead(z)
  <2>1. to[x[1]] = IF 1 < m THEN x[1+1] ELSE NULL
    <3>1. 1 \in 1..m  BY <1>3
    <3> QED  BY <1>16, <3>1
  <2>2. CASE m = 1
    <3>1. z = <<>>  BY <1>6, <2>2, ListsFacts
    <3> QED  BY <2>1, <2>2, <3>1 DEF Lead
  <2>3. CASE m # 1
    <3>1. z # <<>>  BY <1>3, <1>6, <2>3, ListsFacts
    <3>2. 1 \in 1..(m-1)  BY <1>3, <2>3
    <3>3. z[1] = x[1+1]  BY <1>6, <3>2
    <3>4. 1 < m  BY <1>3, <2>3
    <3> QED  BY <2>1, <3>1, <3>3, <3>4 DEF Lead
  <2> QED  BY <2>2, <2>3
<1>19. Sorted(O, s)
  <2>1. ASSUME NEW i \in 1..(l+1), NEW j \in 1..(l+1), i < j PROVE <<s[i], s[j]>> \in O
    <3>1. i \in 1..l /\ s[i] = t[i]  BY <1>3, <1>5, <2>1
    <3>2. CASE j = l + 1
      <4>1. s[j] = e /\ t[i] \in A /\ e \in B \cup C  BY <1>4, <1>9, <1>10, <3>1, <3>2
      <4> QED  BY <1>7, <3>1, <4>1
    <3>3. CASE j # l + 1
      <4>1. j \in 1..l /\ s[j] = t[j]  BY <1>3, <1>5, <3>3
      <4> QED  BY <1>3, <1>7, <2>1, <3>1, <4>1 DEF Sorted
    <3> QED  BY <3>2, <3>3
  <2> QED  BY <1>5, <2>1 DEF Sorted
<1>20. Sorted(O, z)
  <2>1. ASSUME NEW i \in 1..(m-1), NEW j \in 1..(m-1), i < j PROVE <<z[i], z[j]>> \in O
    <3>1. PICK h \in 1..m, k \in 1..m : h = i + 1 /\ k = j + 1 /\ h < k  BY <1>3, <2>1
    <3>2. z[i] = x[h] /\ z[j] = x[k]  BY <1>6, <3>1
    <3>3. <<x[h], x[k]>> \in O  BY <1>3, <1>7, <3>1 DEF Sorted
    <3> QED  BY <3>2, <3>3
  <2> QED  BY <1>6, <2>1 DEF Sorted
<1>21. \A c \in (B \ {e}) \cup C : <<e, c>> \in O
  <2>1. ASSUME NEW c \in B, c # e PROVE <<e, c>> \in O
    <3>1. PICK j \in 1..m : x[j] = c  BY <1>1, <1>3, ListsFacts
    <3>2. j # 1 /\ 1 \in 1..m /\ 1 < j  BY <1>3, <2>1, <3>1
    <3> QED  BY <1>3, <1>7, <3>1, <3>2 DEF Sorted
  <2>2. ASSUME NEW c \in C PROVE <<e, c>> \in O
    <3>1. PICK j \in 1..n : y[j] = c  BY <1>1, <1>3, ListsFacts
    <3>2. CASE j = 1  BY <3>1, <3>2
    <3>3. CASE j # 1
      <4>1. 1 \in 1..n /\ 1 < j  BY <1>3, <3>3
      <4>2. <<y[1], y[j]>> \in O  BY <1>3, <1>7, <4>1 DEF Sorted
      <4> QED  BY <3>1, <4>2 DEF IsTransitive
    <3> QED  BY <3>2, <3>3
  <2> QED  BY <2>1, <2>2
<1>22. \A d \in A \cup {e}, c \in (B \ {e}) \cup C : <<d, c>> \in O  BY <1>7, <1>21
<1>23. /\ (A \cup {e}) \cap (B \ {e}) = {} /\ (A \cup {e}) \cap C = {} /\ (B \ {e}) \cap C = {}
       /\ (A \cup {e}) \cup (B \ {e}) \cup C = S
  BY <1>2, <1>4
<1>24. Merging(to, O, s, z, y, S)
  <2> HIDE DEF e, A, B
  <2> QED
    BY <1>1, <1>7, <1>8, <1>13, <1>15, <1>17, <1>19, <1>20, <1>22, <1>23 DEF Merging, C
<1> QED  BY <1>18, <1>24 DEF s, z

\* The run r is t followed by y.
Joined(link, O, t, y, r, S) ==
  /\ Lists(r, S) /\ Chain(link, r) /\ Sorted(O, r)
  /\ Len(r) = Len(t) + Len(y) /\ r # <<>> /\ r[1] = t[1]
  /\ r[Len(t)+1] = y[1] /\ \A i \in 1..Len(t) : r[i] = t[i]

\* The entry that empties one run is followed by what is left of the other.
LEMMA MergeEnds ==
  ASSUME NEW link, NEW O, NEW t, NEW y, NEW S, Merging(link, O, t, <<>>, y, S),
         t # <<>>, y # <<>>,
         NEW to, to[t[Len(t)]] = y[1], \A c \in S : c # t[Len(t)] => to[c] = link[c]
  PROVE  Joined(to, O, t, y, t \o y, S)
<1> DEFINE A == ToSet(t)
           C == ToSet(y)
           r == t \o y
<1>1. Lists(t, A) /\ Lists(y, C) /\ A \cap C = {}  BY DEF Merging
<1>2. A \cup C = S
  <2>1. ToSet(<<>>) = {}  BY DEF ToSet
  <2> QED  BY <2>1 DEF Merging
<1>3. PICK l \in Nat, n \in Nat : l = Len(t) /\ n = Len(y) /\ l # 0 /\ n # 0
  BY <1>1, ListsFacts
<1>4. /\ Lists(r, S) /\ Len(r) = l + n
      /\ \A i \in 1..(l+n) : r[i] = IF i <= l THEN t[i] ELSE y[i-l]
  BY <1>1, <1>2, <1>3, ListsConcat
<1> HIDE DEF r
<1>5. (\A i \in 1..l : t[i] \in A /\ r[i] = t[i]) /\ (\A i \in 1..n : y[i] \in C)
  BY <1>1, <1>3, <1>4, ListsFacts
<1>6. \A i \in 1..n : r[l+i] = y[i]
  <2> SUFFICES ASSUME NEW i \in 1..n PROVE r[l+i] = y[i]  OBVIOUS
  <2>1. PICK j \in 1..(l+n) : j = l + i  BY <1>3
  <2>2. ~(j <= l) /\ j - l = i  BY <1>3, <2>1
  <2> QED  BY <1>4, <2>1, <2>2
<1>7. \A i \in 1..(l+n) : i \in 1..l \/ \E k \in 1..n : i = l + k
  <2> SUFFICES ASSUME NEW i \in 1..(l+n), i \notin 1..l PROVE \E k \in 1..n : i = l + k  OBVIOUS
  <2>1. i - l \in 1..n /\ i = l + (i - l)  BY <1>3
  <2> QED  BY <2>1
<1>8. ASSUME NEW i \in 1..(l+n) PROVE to[r[i]] = IF i < l+n THEN r[i+1] ELSE NULL
  <2>1. CASE i = l
    <3>1. i < l + n /\ 1 \in 1..n /\ l \in 1..l  BY <1>3, <2>1
    <3>2. r[l+1] = y[1]  BY <1>6, <3>1
    <3> QED  BY <1>3, <1>5, <2>1, <3>1, <3>2
  <2>2. CASE i \in 1..l /\ i # l
    <3>1. i < l /\ i + 1 \in 1..l /\ i < l + n /\ l \in 1..l  BY <1>3, <2>2
    <3>2. link[t[i]] = t[i+1]  BY <1>3, <3>1 DEF Merging
    <3>3. t[i] # t[l]  BY <1>1, <1>3, <2>2, <3>1, ListsFacts
    <3>4. t[i] \in S  BY <1>2, <1>5, <2>2
    <3>5. to[t[i]] = link[t[i]]  BY <1>3, <3>3, <3>4
    <3> QED  BY <1>5, <2>2, <3>1, <3>2, <3>5
  <2>3. ASSUME NEW k \in 1..n, i = l + k PROVE to[r[i]] = IF i < l+n THEN r[i+1] ELSE NULL
    <3>1. r[i] = y[k]  BY <1>6, <2>3
    <3>2. Chain(link, y)  BY DEF Merging
    <3>3. link[y[k]] = IF k < n THEN y[k+1] ELSE NULL  BY <1>3, <3>2 DEF Chain
    <3>4. t[l] \in A /\ y[k] \in C  BY <1>3, <1>5
    <3>5. y[k] \in S /\ y[k] # t[l]  BY <1>1, <1>2, <3>4
    <3>6. to[y[k]] = link[y[k]]  BY <1>3, <3>5
    <3>7. k < n => r[i+1] = y[k+1]
      <4>1. ASSUME k < n PROVE r[i+1] = y[k+1]
        <5>1. PICK h \in 1..n : h = k + 1  BY <1>3, <4>1
        <5>2. r[l+h] = y[h] /\ i + 1 = l + h  BY <1>3, <1>6, <2>3, <5>1
        <5> QED  BY <5>1, <5>2
      <4> QED  BY <4>1
    <3>8. k < n <=> i < l+n  BY <1>3, <2>3
    <3> QED  BY <3>1, <3>3, <3>6, <3>7, <3>8
  <2> QED  BY <1>7, <2>1, <2>2, <2>3
<1>9. Chain(to, r)  BY <1>4, <1>8 DEF Chain
<1>10. ASSUME NEW i \in 1..(l+n), NEW j \in 1..(l+n), i < j PROVE <<r[i], r[j]>> \in O
  <2>1. Sorted(O, t) /\ Sorted(O, y) /\ \A d \in A, c \in C : <<d, c>> \in O  BY DEF Merging
  <2>2. CASE j \in 1..l
    <3>1. i \in 1..l  BY <1>10, <2>2
    <3> QED  BY <1>3, <1>5, <1>10, <2>1, <2>2, <3>1 DEF Sorted
  <2>3. ASSUME NEW h \in 1..n, j = l + h, i \in 1..l PROVE <<r[i], r[j]>> \in O
    BY <1>5, <1>6, <2>1, <2>3
  <2>4. ASSUME NEW h \in 1..n, j = l + h, NEW k \in 1..n, i = l + k PROVE <<r[i], r[j]>> \in O
    <3>1. k < h  BY <1>3, <1>10, <2>4
    <3>2. <<y[k], y[h]>> \in O  BY <1>3, <2>1, <3>1 DEF Sorted
    <3> QED  BY <1>6, <2>4, <3>2
  <2> QED  BY <1>7, <2>2, <2>3, <2>4
<1>11. Sorted(O, r)  BY <1>4, <1>10 DEF Sorted
<1>12. r # <<>> /\ r[1] = t[1] /\ r[l+1] = y[1]
  <2>1. 1 \in 1..l /\ 1 \in 1..n /\ l + n # 0  BY <1>3
  <2> QED  BY <1>4, <1>5, <1>6, <2>1, ListsFacts
<1>13. Joined(to, O, t, y, r, S)  BY <1>3, <1>4, <1>5, <1>9, <1>11, <1>12 DEF Joined
<1> QED  BY <1>13 DEF r

-----------------------------------------------------------------------------
(* The order that cmp() stands for.                                        *)

\* For a cmp() that answers anything at all, every order is right.
Order == {p \in (1..len) \X (1..len) : erratic \/ Before(p[1], p[2])}

LEMMA OrderIsTransitive ==
  ASSUME len \in Nat, key \in [1..len -> Int]
  PROVE  IsTransitive(Order)
<1> SUFFICES ASSUME NEW x, NEW y, NEW z, <<x, y>> \in Order, <<y, z>> \in Order
             PROVE <<x, z>> \in Order
  BY DEF IsTransitive
<1>1. x \in 1..len /\ y \in 1..len /\ z \in 1..len  BY DEF Order
<1>2. erratic \/ (Before(x, y) /\ Before(y, z))  BY DEF Order
<1>3. key[x] \in Int /\ key[y] \in Int /\ key[z] \in Int  BY <1>1
<1>4. Before(x, y) /\ Before(y, z) => Before(x, z)  BY <1>1, <1>3 DEF Before
<1>5. erratic \/ Before(x, z)  BY <1>2, <1>4
<1> QED  BY <1>1, <1>5 DEF Order

\* What cmp() says agrees with it, if a came first in the input.
LEMMA ComparisonAgrees ==
  ASSUME len \in Nat, key \in [1..len -> Int], erratic \in BOOLEAN,
         NEW a \in 1..len, NEW b \in 1..len, a < b, NEW first \in Comparisons(a, b)
  PROVE  IF first THEN <<a, b>> \in Order ELSE <<b, a>> \in Order
<1>1. key[a] \in Int /\ key[b] \in Int  OBVIOUS
<1>2. CASE erratic  BY <1>2 DEF Order
<1>3. CASE ~erratic
  <2>1. first = (key[a] <= key[b])  BY <1>3 DEF Comparisons
  <2>2. CASE key[a] <= key[b]
    <3>1. Before(a, b)  BY <1>1, <2>2 DEF Before
    <3> QED  BY <2>1, <2>2, <3>1 DEF Order
  <2>3. CASE ~(key[a] <= key[b])
    <3>1. Before(b, a)  BY <1>1, <2>3 DEF Before
    <3> QED  BY <2>1, <2>3, <3>1 DEF Order
  <2> QED  BY <2>2, <2>3
<1> QED  BY <1>2, <1>3

-----------------------------------------------------------------------------
(* The pending runs.                                                       *)

Span(c, i) == (Edge(c, i) + 1)..Edge(c, i-1)

LEMMA EntriesFacts ==
  ASSUME NEW c \in Nat, NEW L \in Nat, Edge(c, L) = 0, NEW i \in 1..L
  PROVE  /\ Edge(c, i) \in Nat /\ Edge(c, i-1) \in Nat
         /\ Edge(c, i) < Edge(c, i-1) /\ Edge(c, i-1) <= c
         /\ Span(c, i) \subseteq 1..c /\ Span(c, i) # {}
<1>1. PICK h \in Nat : i = h + 1 /\ h = i - 1 /\ h <= L /\ i <= L  OBVIOUS
<1>2. Edge(c, i) \in Nat /\ Edge(c, h) \in Nat  BY <1>1, EdgesAbove
<1>3. Edge(c, i) < Edge(c, h)  BY <1>1, EdgesDescend
<1>4. Edge(c, h) <= c  BY <1>1, EdgeType
<1>5. PICK d, e : d = Edge(c, i) /\ e = Edge(c, h)  OBVIOUS
<1>6. Span(c, i) = (d + 1)..e  BY <1>1, <1>5 DEF Span
<1>7. d \in Nat /\ e \in Nat /\ d < e /\ e <= c  BY <1>2, <1>3, <1>4, <1>5
<1>8. (d + 1)..e \subseteq 1..c /\ d + 1 \in (d + 1)..e  BY <1>7
<1> QED  BY <1>1, <1>2, <1>3, <1>4, <1>6, <1>8

\* An older run has earlier entries.
LEMMA EntriesOrder ==
  ASSUME NEW c \in Nat, NEW L \in Nat, Edge(c, L) = 0, NEW i \in 1..L, NEW j \in 1..L, i < j,
         NEW d \in Span(c, j), NEW e \in Span(c, i)
  PROVE  d < e
<1>1. PICK h \in Nat : h = j - 1 /\ i <= h /\ h <= L  OBVIOUS
<1>2. Edge(c, i) - Edge(c, h) >= h - i
  <2>1. i \in Nat  OBVIOUS
  <2> QED  BY <1>1, <2>1, EdgesOrder
<1>3. PICK a, b, f, g : a = Edge(c, i) /\ b = Edge(c, h) /\ f = Edge(c, j) /\ g = Edge(c, i-1)
  OBVIOUS
<1>4. a \in Nat /\ b \in Nat /\ f \in Nat /\ g \in Nat  BY <1>1, <1>3, EntriesFacts
<1>5. d \in (f + 1)..b /\ e \in (a + 1)..g  BY <1>1, <1>3 DEF Span
<1> QED  BY <1>1, <1>2, <1>3, <1>4, <1>5

LEMMA EntriesApart ==
  ASSUME NEW c \in Nat, NEW L \in Nat, Edge(c, L) = 0, NEW i \in 1..L, NEW j \in 1..L, i # j
  PROVE  Span(c, i) \cap Span(c, j) = {}
<1> SUFFICES ASSUME NEW d \in Span(c, i), d \in Span(c, j) PROVE FALSE  OBVIOUS
<1>1. d \in Int  BY EntriesFacts
<1>2. CASE i < j
  <2>1. d < d  BY <1>2, EntriesOrder
  <2> QED  BY <1>1, <2>1
<1>3. CASE j < i
  <2>1. d < d  BY <1>3, EntriesOrder
  <2> QED  BY <1>1, <2>1
<1> QED  BY <1>2, <1>3

\* The runs W[lo], ..., W[L] hang together by the prev pointers of their first
\* entries.
HeadOf(W, lo, L) == IF lo <= L THEN W[lo][1] ELSE NULL

Heads(back, W, c, lo, L) ==
  \A i \in lo..L : Lists(W[i], Span(c, i)) /\ back[W[i][1]] = HeadOf(W, i+1, L)

\* All of them are runs that end and are in order.
Runs(link, O, W, I) == \A i \in I : Chain(link, W[i]) /\ Sorted(O, W[i])

LEMMA HeadFacts ==
  ASSUME NEW c \in Nat, NEW L \in Nat, Edge(c, L) = 0, NEW lo \in Nat, lo > 0,
         NEW back, NEW W, Heads(back, W, c, lo, L), NEW i \in lo..L
  PROVE  W[i][1] \in Span(c, i) /\ W[i][1] \in 1..c /\ W[i] # <<>> /\ W[i][1] # NULL
<1>1. i \in 1..L  OBVIOUS
<1>2. Lists(W[i], Span(c, i))  BY DEF Heads
<1>3. Span(c, i) # {} /\ Span(c, i) \subseteq 1..c  BY <1>1, EntriesFacts
<1>4. PICK q : q = W[i]  OBVIOUS
<1>5. Lists(q, Span(c, i))  BY <1>2, <1>4
<1>6. q # <<>> /\ Len(q) \in Nat /\ Len(q) # 0  BY <1>3, <1>5, ListsFacts
<1>7. 1 \in 1..Len(q)  BY <1>6
<1>8. q[1] \in Span(c, i)  BY <1>5, <1>7, ListsFacts
<1>9. q[1] # NULL  BY <1>3, <1>8, SortAssumption
<1> QED  BY <1>3, <1>4, <1>6, <1>8, <1>9

\* Pending is what the C function finds when it follows them.
LEMMA PendingIs ==
  ASSUME NEW c \in Nat, NEW L \in Nat, Edge(c, L) = 0, NEW W, Heads(mem.prev, W, c, 1, L),
         pending = HeadOf(W, 1, L)
  PROVE  Len(Pending) = L /\ \A i \in 1..L : Pending[i] = W[i][1]
<1> DEFINE q == [i \in 1..L |-> W[i][1]]
<1>1. \A i \in 1..L : W[i] # <<>> /\ W[i][1] \in Span(c, i)
  <2> SUFFICES ASSUME NEW i \in 1..L PROVE W[i] # <<>> /\ W[i][1] \in Span(c, i)  OBVIOUS
  <2> QED  BY HeadFacts
<1>2. \A i \in 1..L : W[i][1] \in 1..N
  <2> SUFFICES ASSUME NEW i \in 1..L PROVE W[i][1] \in 1..N  OBVIOUS
  <2>1. Lists(W[i], Span(c, i))  BY DEF Heads
  <2> QED  BY <1>1, <2>1, ListsFacts
<1>3. q \in Seq(1..N) /\ Len(q) = L /\ \A i \in 1..L : q[i] = W[i][1]
  BY <1>2
<1> HIDE DEF q
<1>4. ASSUME NEW i \in 1..L, NEW j \in 1..L, q[i] = q[j] PROVE i = j
  <2>1. q[i] \in Span(c, i) /\ q[i] \in Span(c, j)  BY <1>1, <1>3, <1>4
  <2> QED  BY <2>1, EntriesApart
<1>5. Lists(q, ToSet(q))
  <2>1. \A i \in 1..Len(q) : q[i] \in ToSet(q)  BY <1>3, LenProperties DEF ToSet
  <2>2. \A e \in ToSet(q) : \E i \in 1..Len(q) : q[i] = e  BY <1>3, LenProperties DEF ToSet
  <2> QED  BY <1>3, <1>4, <2>1, <2>2, ListsIf
<1>6. Chain(mem.prev, q)
  <2> SUFFICES ASSUME NEW i \in 1..L
               PROVE  mem.prev[q[i]] = IF i < L THEN q[i+1] ELSE NULL
    BY <1>3 DEF Chain
  <2>1. mem.prev[W[i][1]] = HeadOf(W, i+1, L)  BY DEF Heads
  <2>2. i < L => i + 1 \in 1..L  OBVIOUS
  <2>3. i < L <=> i + 1 <= L  OBVIOUS
  <2> QED  BY <1>3, <2>1, <2>2, <2>3 DEF HeadOf
<1>7. pending = Lead(q)
  <2>1. CASE L = 0
    <3>1. ~(1 <= L)  BY <2>1
    <3>2. q = <<>>  BY <1>3, <1>5, <2>1, ListsFacts
    <3> QED  BY <3>1, <3>2 DEF HeadOf, Lead
  <2>2. CASE L # 0
    <3>1. 1 <= L /\ 1 \in 1..L  BY <2>2
    <3>2. q # <<>>  BY <1>3, <1>5, <2>2, ListsFacts
    <3> QED  BY <1>3, <3>1, <3>2 DEF HeadOf, Lead
  <2> QED  BY <2>1, <2>2
<1>8. Pending = q  BY <1>5, <1>6, <1>7, RunFacts DEF Pending
<1> QED  BY <1>3, <1>8

-----------------------------------------------------------------------------
(* One turn of the loop of merge().                                        *)

CellOrNone == Cells \cup {NULL}
Links == [next : [Cells -> CellOrNone], prev : [Cells -> CellOrNone]]

\* What does not change while list_sort() runs, and the type of memory.
Data == len \in 0..N /\ key \in [1..len -> Int] /\ erratic \in BOOLEAN /\ mem \in Links

LEMMA DataFacts ==
  ASSUME Data
  PROVE  /\ len \in Nat /\ N \in Nat /\ len <= N /\ 1..len \subseteq Cells /\ head \in Cells
         /\ IsTransitive(Order)
         /\ mem.next \in [Cells -> CellOrNone] /\ mem.prev \in [Cells -> CellOrNone]
         /\ mem = [next |-> mem.next, prev |-> mem.prev]
<1>1. len \in Nat /\ N \in Nat /\ len <= N  BY SortAssumption DEF Data
<1>2. 1..len \subseteq Cells /\ head \in Cells  BY <1>1 DEF Cells, head
<1>3. IsTransitive(Order)  BY <1>1, OrderIsTransitive DEF Data
<1>4. /\ mem.next \in [Cells -> CellOrNone] /\ mem.prev \in [Cells -> CellOrNone]
      /\ mem = [next |-> mem.next, prev |-> mem.prev]
  BY DEF Data, Links
<1> QED  BY <1>1, <1>2, <1>3, <1>4

\* What link, the runs and what was taken of them become.
Taken(to, last, O, t, u, v, s, S) ==
  /\ last \in [Cells -> CellOrNone] /\ \A c \in Cells \ S : last[c] = to[c]
  /\ s # <<>> /\ End(s, NULL) = u[1] /\ Len(s) = Len(t) + 1
  /\ s[Len(s)] = u[1] /\ (\A i \in 1..Len(t) : s[i] = t[i])
  /\ Lead(s) = IF t = <<>> THEN u[1] ELSE t[1]
  /\ u[1] \in S /\ v[1] \in S
  /\ to[u[1]] # NULL => /\ Tail(u) # <<>> /\ Tail(u)[1] = to[u[1]]
                        /\ ToSet(Tail(u)) \subseteq ToSet(u)
                        /\ Merging(last, O, s, Tail(u), v, S)
  /\ to[u[1]] = NULL => Joined(last, O, s, v, s \o v, S)

\* The entry u[1] is taken; if it was the last of its run, what is left of the
\* other one is put behind it.
LEMMA TakeStep ==
  ASSUME NEW S, S \subseteq 1..N, NEW O, IsTransitive(O), NEW t, NEW u, NEW v, NEW link,
         Merging(link, O, t, u, v, S), u # <<>>, v # <<>>, <<u[1], v[1]>> \in O,
         NEW to \in [Cells -> CellOrNone], LinkedTo(link, to, t, u, S),
         NEW last, last = IF to[u[1]] = NULL THEN [to EXCEPT ![u[1]] = v[1]] ELSE to
  PROVE  Taken(to, last, O, t, u, v, Append(t, u[1]), S)
<1> DEFINE e == u[1]
           s == Append(t, u[1])
           r == s \o v
<1>1. Merging(to, O, s, Tail(u), v, S) /\ to[e] = Lead(Tail(u))
  BY MergeTakes
<1>2. Lists(t, ToSet(t)) /\ Lists(u, ToSet(u)) /\ Lists(v, ToSet(v))
      /\ ToSet(t) \cup ToSet(u) \cup ToSet(v) = S /\ ToSet(t) \cap ToSet(u) = {}
  BY DEF Merging
<1>3. e \in ToSet(u) /\ e \in S /\ v[1] \in S /\ e \in Cells /\ v[1] \in CellOrNone
  <2>1. 1 \in 1..Len(u) /\ 1 \in 1..Len(v)  BY <1>2, ListsFacts
  <2>2. e \in ToSet(u) /\ v[1] \in ToSet(v)  BY <1>2, <2>1, ListsFacts
  <2>3. e \in S /\ v[1] \in S  BY <1>2, <2>2
  <2>4. S \subseteq Cells  BY SortAssumption DEF Cells
  <2> QED  BY <2>2, <2>3, <2>4 DEF CellOrNone
<1>4. last \in [Cells -> CellOrNone] /\ \A c \in Cells \ S : last[c] = to[c]
  <2>1. CASE to[e] = NULL
    <3>1. last = [to EXCEPT ![e] = v[1]]  BY <2>1
    <3>2. \A c \in Cells : last[c] = IF c = e THEN v[1] ELSE to[c]  BY <3>1
    <3>3. last \in [Cells -> CellOrNone]  BY <1>3, <3>1
    <3> HIDE DEF e
    <3> QED  BY <1>3, <3>2, <3>3
  <2>2. CASE to[e] # NULL
    <3>1. last = to  BY <2>2
    <3> QED  BY <3>1
  <2> QED  BY <2>1, <2>2
<1>5. /\ s # <<>> /\ Len(s) = Len(t) + 1 /\ s[Len(t)+1] = e
      /\ \A i \in 1..Len(t) : s[i] = t[i]
  <2>1. e \in 1..N /\ e \notin ToSet(t)  BY <1>2, <1>3
  <2> QED  BY <1>2, <2>1, ListsAppend
<1> HIDE DEF s
<1>6. End(s, NULL) = e /\ s[Len(s)] = e  BY <1>5 DEF End
<1>7. Lead(s) = IF t = <<>> THEN e ELSE t[1]
  <2>1. Lead(s) = s[1]  BY <1>5 DEF Lead
  <2>2. CASE t = <<>>
    <3>1. Len(t) + 1 = 1  BY <1>2, <2>2, ListsFacts
    <3> QED  BY <1>5, <2>1, <2>2, <3>1
  <2>3. CASE t # <<>>
    <3>1. 1 \in 1..Len(t)  BY <1>2, <2>3, ListsFacts
    <3> QED  BY <1>5, <2>1, <2>3, <3>1
  <2> QED  BY <2>2, <2>3
<1>8. ASSUME to[e] # NULL
      PROVE  /\ Tail(u) # <<>> /\ Tail(u)[1] = to[e]
             /\ ToSet(Tail(u)) \subseteq ToSet(u)
             /\ Merging(last, O, s, Tail(u), v, S)
  <2>1. Tail(u) # <<>> /\ Tail(u)[1] = to[e]  BY <1>1, <1>8 DEF Lead
  <2>2. ToSet(Tail(u)) = ToSet(u) \ {u[1]}  BY <1>2, ListsTail, ListsItself
  <2>3. last = to  BY <1>8
  <2> QED  BY <1>1, <2>1, <2>2, <2>3
<1>9. ASSUME to[e] = NULL
      PROVE  Joined(last, O, s, v, r, S)
  <2>1. Tail(u) = <<>>
    <3>1. SUFFICES ASSUME Tail(u) # <<>> PROVE FALSE  OBVIOUS
    <3>2. NULL = Tail(u)[1]  BY <1>1, <1>9, <3>1 DEF Lead
    <3>3. Lists(Tail(u), ToSet(u) \ {u[1]})  BY <1>2, ListsTail
    <3>4. PICK w : w = Tail(u)  OBVIOUS
    <3>5. Lists(w, ToSet(u) \ {u[1]}) /\ w # <<>>  BY <3>1, <3>3, <3>4
    <3>6. 1 \in 1..Len(w)  BY <3>5, ListsFacts
    <3>7. w[1] \in 1..N  BY <3>5, <3>6, ListsFacts
    <3>8. NULL = w[1]  BY <3>2, <3>4
    <3>9. NULL \notin 1..N  BY SortAssumption
    <3> QED  BY <3>7, <3>8, <3>9
  <2>2. Merging(to, O, s, <<>>, v, S)  BY <1>1, <2>1
  <2>3. last = [to EXCEPT ![e] = v[1]]  BY <1>9
  <2>4. last[s[Len(s)]] = v[1] /\ \A c \in S : c # s[Len(s)] => last[c] = to[c]
    <3>1. S \subseteq Cells  BY SortAssumption DEF Cells
    <3> HIDE DEF e
    <3> QED  BY <1>3, <1>6, <2>3, <3>1
  <2>5. s # <<>>  BY <1>5
  <2>6. last[s[Len(s)]] = v[1]  BY <2>4
  <2>7. \A c \in S : c # s[Len(s)] => last[c] = to[c]  BY <2>4
  <2>8. Joined(last, O, s, v, s \o v, S)
    <3> HIDE DEF e, r
    <3> QED  BY <2>2, <2>5, <2>6, <2>7, MergeEnds
  <2> QED  BY <2>8
<1> HIDE DEF e, r
<1>10. End(s, NULL) = u[1] /\ s[Len(s)] = u[1] /\ Lead(s) = (IF t = <<>> THEN u[1] ELSE t[1])
       /\ u[1] \in S
  BY <1>3, <1>6, <1>7 DEF e
<1>11. Taken(to, last, O, t, u, v, s, S)
  BY <1>3, <1>4, <1>5, <1>8, <1>9, <1>10 DEF Taken, r, e
<1> QED  BY <1>11 DEF s

\* What a turn leaves: there is more to merge, or there is one run.
Going(link, O, mg, S) ==
  \E t, x, y :
    /\ Merging(link, O, t, x, y, S) /\ x # <<>> /\ y # <<>>
    /\ \A d \in ToSet(x), e \in ToSet(y) : d < e
    /\ mg = [a |-> x[1], b |-> y[1], tail |-> End(t, NULL), head |-> Lead(t), count |-> 0]

Merged(link, O, h, S) == \E r : Lists(r, S) /\ Chain(link, r) /\ Sorted(O, r) /\ r # <<>> /\ r[1] = h

\* A turn that takes u[1] makes m2 of mem by way of m1.
TurnTaking(m1, m2, t, u, v, s, S) ==
  /\ m2 \in Links /\ m2.prev = mem.prev
  /\ \A c \in Cells \ S : m2.next[c] = mem.next[c]
  /\ End(s, NULL) = u[1]
  /\ Lead(s) = IF End(t, NULL) = NULL THEN u[1] ELSE Lead(t)
  /\ Rest(m1, u[1]) # NULL =>
       /\ Tail(u) # <<>> /\ Tail(u)[1] = Rest(m1, u[1])
       /\ ToSet(Tail(u)) \subseteq ToSet(u)
       /\ Merging(m2.next, Order, s, Tail(u), v, S)
  /\ Rest(m1, u[1]) = NULL =>
       Merged(m2.next, Order, IF End(t, NULL) = NULL THEN u[1] ELSE Lead(t), S)

LEMMA TurnTakes ==
  ASSUME Data, NEW S, S \subseteq 1..len, NEW t, NEW u, NEW v,
         Merging(mem.next, Order, t, u, v, S), u # <<>>, v # <<>>, <<u[1], v[1]>> \in Order,
         NEW m1, m1 = IF End(t, NULL) = NULL THEN mem ELSE SetNext(mem, End(t, NULL), u[1]),
         NEW m2, m2 = IF Rest(m1, u[1]) = NULL THEN SetNext(m1, u[1], v[1]) ELSE m1
  PROVE  TurnTaking(m1, m2, t, u, v, Append(t, u[1]), S)
<1> DEFINE link == mem.next
           to == m1.next
           last == m2.next
           s == Append(t, u[1])
<1>1. /\ link \in [Cells -> CellOrNone] /\ mem.prev \in [Cells -> CellOrNone]
      /\ mem = [next |-> link, prev |-> mem.prev]
      /\ S \subseteq Cells /\ S \subseteq 1..N /\ IsTransitive(Order) /\ NULL \notin Cells
  <2>1. NULL \notin Cells /\ 1..len \subseteq 1..N  BY DataFacts, SortAssumption DEF Cells
  <2> QED  BY <2>1, DataFacts
<1>2. Lists(t, ToSet(t)) /\ Lists(u, ToSet(u)) /\ ToSet(t) \cup ToSet(u) \cup ToSet(v) = S
  BY DEF Merging
<1>3. u[1] \in S
  <2>1. 1 \in 1..Len(u)  BY <1>2, ListsFacts
  <2>2. u[1] \in ToSet(u)  BY <1>2, <2>1, ListsFacts
  <2> QED  BY <1>2, <2>2
<1>4. t # <<>> => t[Len(t)] \in S /\ t[Len(t)] # NULL
  <2> SUFFICES ASSUME t # <<>> PROVE t[Len(t)] \in S /\ t[Len(t)] # NULL  OBVIOUS
  <2>1. Len(t) \in 1..Len(t)  BY <1>2, ListsFacts
  <2>2. t[Len(t)] \in ToSet(t)  BY <1>2, <2>1, ListsFacts
  <2> QED  BY <1>1, <1>2, <2>2
<1>5. (End(t, NULL) = NULL <=> t = <<>>) /\ (t # <<>> => End(t, NULL) = t[Len(t)])
  BY <1>4 DEF End
<1>6. /\ to \in [Cells -> CellOrNone] /\ LinkedTo(link, to, t, u, S)
      /\ m1.prev = mem.prev /\ m1 = [next |-> to, prev |-> m1.prev]
      /\ \A c \in Cells \ S : to[c] = link[c]
  <2>1. CASE t = <<>>
    <3>1. m1 = mem  BY <1>5, <2>1
    <3> QED  BY <1>1, <2>1, <3>1 DEF LinkedTo
  <2>2. CASE t # <<>>
    <3>1. m1 = SetNext(mem, t[Len(t)], u[1])  BY <1>5, <2>2
    <3>2. to = [link EXCEPT ![t[Len(t)]] = u[1]] /\ m1.prev = mem.prev
          /\ m1 = [next |-> to, prev |-> m1.prev]
      BY <3>1 DEF SetNext
    <3>3. PICK z \in S : z = t[Len(t)]  BY <1>4, <2>2
    <3>4. \A c \in Cells : to[c] = IF c = z THEN u[1] ELSE link[c]  BY <1>1, <3>2, <3>3
    <3>5. to \in [Cells -> CellOrNone]  BY <1>1, <1>3, <3>2, <3>3 DEF CellOrNone
    <3>6. LinkedTo(link, to, t, u, S)
      <4> HIDE DEF link, to
      <4> QED  BY <1>1, <2>2, <3>3, <3>4 DEF LinkedTo
    <3> HIDE DEF link, to
    <3> QED  BY <3>2, <3>3, <3>4, <3>5, <3>6
  <2> QED  BY <2>1, <2>2
<1>7. Rest(m1, u[1]) = to[u[1]]  BY DEF Rest
<1>8. /\ m2.prev = m1.prev /\ m2 = [next |-> last, prev |-> m2.prev]
      /\ last = IF to[u[1]] = NULL THEN [to EXCEPT ![u[1]] = v[1]] ELSE to
  <2>1. CASE to[u[1]] = NULL  BY <1>7, <2>1 DEF SetNext
  <2>2. CASE to[u[1]] # NULL
    <3>1. m2 = m1  BY <1>7, <2>2
    <3> QED  BY <1>6, <2>2, <3>1
  <2> QED  BY <2>1, <2>2
<1>9. /\ last \in [Cells -> CellOrNone] /\ \A c \in Cells \ S : last[c] = to[c]
      /\ s # <<>> /\ End(s, NULL) = u[1]
      /\ Lead(s) = IF t = <<>> THEN u[1] ELSE t[1]
      /\ to[u[1]] # NULL => /\ Tail(u) # <<>> /\ Tail(u)[1] = to[u[1]]
                            /\ ToSet(Tail(u)) \subseteq ToSet(u)
                            /\ Merging(last, Order, s, Tail(u), v, S)
      /\ to[u[1]] = NULL => Joined(last, Order, s, v, s \o v, S)
  <2>1. Taken(to, last, Order, t, u, v, s, S)
    <3>1. Merging(link, Order, t, u, v, S)  OBVIOUS
    <3> HIDE DEF link, to, last
    <3> QED  BY <1>1, <1>6, <1>8, <3>1, TakeStep
  <2> HIDE DEF link, to, last, s
  <2> QED  BY <2>1 DEF Taken
<1>10. m2 \in Links /\ m2.prev = mem.prev
  BY <1>1, <1>6, <1>8, <1>9 DEF Links
<1>11. Lead(s) = IF End(t, NULL) = NULL THEN u[1] ELSE Lead(t)
  BY <1>5, <1>9 DEF Lead
<1>12. ASSUME to[u[1]] = NULL
       PROVE  Merged(last, Order, IF End(t, NULL) = NULL THEN u[1] ELSE Lead(t), S)
  <2>1. Joined(last, Order, s, v, s \o v, S)  BY <1>9, <1>12
  <2>2. Lead(s) = s[1]  BY <1>9 DEF Lead
  <2>3. PICK r : r = s \o v  OBVIOUS
  <2>4. Joined(last, Order, s, v, r, S)  BY <2>1, <2>3
  <2>5. r[1] = IF End(t, NULL) = NULL THEN u[1] ELSE Lead(t)  BY <1>11, <2>2, <2>4 DEF Joined
  <2>6. Lists(r, S) /\ Chain(last, r) /\ Sorted(Order, r) /\ r # <<>>  BY <2>4 DEF Joined
  <2> HIDE DEF last
  <2> QED  BY <2>5, <2>6 DEF Merged
<1>13. \A c \in Cells \ S : last[c] = link[c]  BY <1>6, <1>9
<1> HIDE DEF to, link, last, s
<1>14. TurnTaking(m1, m2, t, u, v, s, S)
  BY <1>7, <1>9, <1>10, <1>11, <1>12, <1>13 DEF TurnTaking, link, last
<1> QED  BY <1>14 DEF s

LEMMA MergeTurnStep ==
  ASSUME Data, MergeTurn, NEW S, S \subseteq 1..len, Going(mem.next, Order, merging, S)
  PROVE  /\ mem' \in Links /\ mem'.prev = mem.prev
         /\ \A c \in Cells \ S : mem'.next[c] = mem.next[c]
         /\ \/ pc' = pc /\ Going(mem'.next, Order, merging', S)
            \/ /\ pc' = IF pc = "merge" THEN "install" ELSE "collected"
               /\ Merged(mem'.next, Order, merging'.head, S)
<1>1. PICK t, x, y :
        /\ Merging(mem.next, Order, t, x, y, S) /\ x # <<>> /\ y # <<>>
        /\ \A d \in ToSet(x), e \in ToSet(y) : d < e
        /\ merging = [a |-> x[1], b |-> y[1], tail |-> End(t, NULL), head |-> Lead(t), count |-> 0]
  BY DEF Going
<1>2. merging.a = x[1] /\ merging.b = y[1] /\ merging.tail = End(t, NULL) /\ merging.head = Lead(t)
  BY <1>1
<1>3. PICK first \in Comparisons(merging.a, merging.b) :
       LET taken == IF first THEN merging.a ELSE merging.b
           other == IF first THEN merging.b ELSE merging.a
           m1    == IF merging.tail = NULL THEN mem ELSE SetNext(mem, merging.tail, taken)
           rest  == Rest(m1, taken)
       IN  /\ mem' = IF rest = NULL THEN SetNext(m1, taken, other) ELSE m1
           /\ merging' = [merging EXCEPT !.a = IF first THEN rest ELSE @,
                                         !.b = IF first THEN @ ELSE rest,
                                         !.tail = taken,
                                         !.head = IF merging.tail = NULL THEN taken ELSE @]
           /\ pc' = IF rest # NULL THEN pc
                    ELSE IF pc = "merge" THEN "install" ELSE "collected"
  BY DEF MergeTurn
<1>4. x[1] \in ToSet(x) /\ y[1] \in ToSet(y) /\ x[1] \in 1..len /\ y[1] \in 1..len
  <2>1. Lists(x, ToSet(x)) /\ Lists(y, ToSet(y)) /\ ToSet(x) \subseteq S /\ ToSet(y) \subseteq S
    BY <1>1 DEF Merging
  <2>2. 1 \in 1..Len(x) /\ 1 \in 1..Len(y)  BY <1>1, <2>1, ListsFacts
  <2>3. x[1] \in ToSet(x) /\ y[1] \in ToSet(y)  BY <2>1, <2>2, ListsFacts
  <2> QED  BY <2>1, <2>3
<1>5. x[1] < y[1]  BY <1>1, <1>4
<1>6. IF first THEN <<x[1], y[1]>> \in Order ELSE <<y[1], x[1]>> \in Order
  BY <1>2, <1>3, <1>4, <1>5, DataFacts, ComparisonAgrees DEF Data
<1>7. CASE first
  <2>1. PICK m1 : m1 = IF End(t, NULL) = NULL THEN mem ELSE SetNext(mem, End(t, NULL), x[1])  OBVIOUS
  <2>2. PICK rest : rest = Rest(m1, x[1])  OBVIOUS
  <2>3. /\ mem' = IF rest = NULL THEN SetNext(m1, x[1], y[1]) ELSE m1
        /\ merging' = [merging EXCEPT !.a = rest, !.tail = x[1],
                                      !.head = IF End(t, NULL) = NULL THEN x[1] ELSE Lead(t)]
        /\ pc' = IF rest # NULL THEN pc
                 ELSE IF pc = "merge" THEN "install" ELSE "collected"
    BY <1>2, <1>3, <1>7, <2>1, <2>2, Zenon
  <2>4. <<x[1], y[1]>> \in Order  BY <1>6, <1>7
  <2>5. /\ mem' \in Links /\ mem'.prev = mem.prev
        /\ \A c \in Cells \ S : mem'.next[c] = mem.next[c]
        /\ End(Append(t, x[1]), NULL) = x[1]
        /\ Lead(Append(t, x[1])) = IF End(t, NULL) = NULL THEN x[1] ELSE Lead(t)
        /\ rest # NULL =>
              /\ Tail(x) # <<>> /\ Tail(x)[1] = rest
              /\ ToSet(Tail(x)) \subseteq ToSet(x)
              /\ Merging(mem'.next, Order, Append(t, x[1]), Tail(x), y, S)
        /\ rest = NULL =>
              Merged(mem'.next, Order, IF End(t, NULL) = NULL THEN x[1] ELSE Lead(t), S)
    <3>1. TurnTaking(m1, mem', t, x, y, Append(t, x[1]), S)
        BY <1>1, <2>1, <2>2, <2>3, <2>4, TurnTakes
    <3> QED  BY <2>2, <3>1 DEF TurnTaking
  <2>6. CASE rest = NULL
    <3>1. merging'.head = IF End(t, NULL) = NULL THEN x[1] ELSE Lead(t)  BY <1>1, <2>3
    <3> QED  BY <2>3, <2>5, <2>6, <3>1
  <2>7. CASE rest # NULL
    <3>1. PICK s, z : s = Append(t, x[1]) /\ z = Tail(x)  OBVIOUS
    <3>2. merging' = [a |-> z[1], b |-> y[1], tail |-> End(s, NULL), head |-> Lead(s), count |-> 0]
      BY <1>1, <2>3, <2>5, <2>7, <3>1
    <3>3. \A d \in ToSet(z), e \in ToSet(y) : d < e  BY <1>1, <2>5, <2>7, <3>1
    <3>4. Merging(mem'.next, Order, s, z, y, S) /\ z # <<>>  BY <2>5, <2>7, <3>1
    <3>5. Going(mem'.next, Order, merging', S)  BY <1>1, <3>2, <3>3, <3>4 DEF Going
    <3> QED  BY <2>3, <2>5, <2>7, <3>5
  <2> QED  BY <2>6, <2>7
<1>8. CASE ~first
  <2>1. PICK m1 : m1 = IF End(t, NULL) = NULL THEN mem ELSE SetNext(mem, End(t, NULL), y[1])  OBVIOUS
  <2>2. PICK rest : rest = Rest(m1, y[1])  OBVIOUS
  <2>3. /\ mem' = IF rest = NULL THEN SetNext(m1, y[1], x[1]) ELSE m1
        /\ merging' = [merging EXCEPT !.b = rest, !.tail = y[1],
                                      !.head = IF End(t, NULL) = NULL THEN y[1] ELSE Lead(t)]
        /\ pc' = IF rest # NULL THEN pc
                 ELSE IF pc = "merge" THEN "install" ELSE "collected"
    BY <1>2, <1>3, <1>8, <2>1, <2>2, Zenon
  <2>4. <<y[1], x[1]>> \in Order  BY <1>6, <1>8
  <2>5. Merging(mem.next, Order, t, y, x, S)  BY <1>1, MergingExchanged
  <2>6. /\ mem' \in Links /\ mem'.prev = mem.prev
        /\ \A c \in Cells \ S : mem'.next[c] = mem.next[c]
        /\ End(Append(t, y[1]), NULL) = y[1]
        /\ Lead(Append(t, y[1])) = IF End(t, NULL) = NULL THEN y[1] ELSE Lead(t)
        /\ rest # NULL =>
              /\ Tail(y) # <<>> /\ Tail(y)[1] = rest
              /\ ToSet(Tail(y)) \subseteq ToSet(y)
              /\ Merging(mem'.next, Order, Append(t, y[1]), Tail(y), x, S)
        /\ rest = NULL =>
              Merged(mem'.next, Order, IF End(t, NULL) = NULL THEN y[1] ELSE Lead(t), S)
    <3>1. TurnTaking(m1, mem', t, y, x, Append(t, y[1]), S)
        BY <1>1, <2>1, <2>2, <2>3, <2>4, <2>5, TurnTakes
    <3> QED  BY <2>2, <3>1 DEF TurnTaking
  <2>7. CASE rest = NULL
    <3>1. merging'.head = IF End(t, NULL) = NULL THEN y[1] ELSE Lead(t)  BY <1>1, <2>3
    <3> QED  BY <2>3, <2>6, <2>7, <3>1
  <2>8. CASE rest # NULL
    <3>1. PICK s, z : s = Append(t, y[1]) /\ z = Tail(y)  OBVIOUS
    <3>2. merging' = [a |-> x[1], b |-> z[1], tail |-> End(s, NULL), head |-> Lead(s), count |-> 0]
      BY <1>1, <2>3, <2>6, <2>8, <3>1
    <3>3. \A d \in ToSet(x), e \in ToSet(z) : d < e  BY <1>1, <2>6, <2>8, <3>1
    <3>4. Merging(mem'.next, Order, s, z, x, S) /\ z # <<>>  BY <2>6, <2>8, <3>1
    <3>5. Merging(mem'.next, Order, s, x, z, S)  BY <3>4, MergingExchanged
    <3>6. Going(mem'.next, Order, merging', S)  BY <1>1, <3>2, <3>3, <3>4, <3>5 DEF Going
    <3> QED  BY <2>3, <2>6, <2>8, <3>6
  <2> QED  BY <2>7, <2>8
<1> QED  BY <1>7, <1>8

-----------------------------------------------------------------------------
(* What the steps between the merges do to the pending runs.               *)

\* The runs W[lo], ..., W[L] wait on the chain that begins at p; those that I
\* names are runs that end and are in order.
Stack(m, p, O, c, lo, L, W, I) ==
  /\ L \in Nat /\ Edge(c, L) = 0
  /\ Heads(m.prev, W, c, lo, L) /\ p = HeadOf(W, lo, L)
  /\ Runs(m.next, O, W, I)

LEMMA ChainLeftAlone ==
  ASSUME NEW q, NEW S, Lists(q, S), NEW link, Chain(link, q),
         NEW to, \A e \in S : to[e] = link[e]
  PROVE  Chain(to, q)
<1>1. \A i \in 1..Len(q) : q[i] \in S  BY ListsFacts
<1> QED  BY <1>1 DEF Chain

\* A store outside of them leaves them alone.
LEMMA StackLeftAlone ==
  ASSUME NEW m, NEW p, NEW O, NEW c \in Nat, NEW lo \in Nat, lo > 0, NEW L, NEW W,
         NEW I \in SUBSET (lo..L), Stack(m, p, O, c, lo, L, W, I),
         NEW r, \A i \in lo..L : r.prev[W[i][1]] = m.prev[W[i][1]],
         \A i \in I : \A e \in Span(c, i) : r.next[e] = m.next[e]
  PROVE  Stack(r, p, O, c, lo, L, W, I)
<1>1. Heads(r.prev, W, c, lo, L)  BY DEF Stack, Heads
<1>2. ASSUME NEW i \in I PROVE Chain(r.next, W[i]) /\ Sorted(O, W[i])
  <2>1. Lists(W[i], Span(c, i))  BY DEF Stack, Heads
  <2>2. Chain(m.next, W[i]) /\ Sorted(O, W[i])  BY DEF Stack, Runs
  <2>3. \A e \in Span(c, i) : r.next[e] = m.next[e]  OBVIOUS
  <2> QED  BY <2>1, <2>2, <2>3, ChainLeftAlone
<1> QED  BY <1>1, <1>2 DEF Stack, Runs

\* Counting makes run i run i+1, up to the bit that it sets; a run behind the
\* two that this bit is about keeps its number.
LEMMA EntriesCounted ==
  ASSUME NEW c \in Nat, NEW k, IsClear(c, k), NEW i \in Nat, i > 0
  PROVE  /\ i <= k => Span(c+1, i+1) = Span(c, i)
         /\ i > k + 2 => Span(c+1, i) = Span(c, i)
<1>1. k \in Nat  BY DEF IsClear
<1>2. PICK h \in Nat : i = h + 1 /\ h = i - 1  OBVIOUS
<1>3. PICK j \in Nat : j = i + 1 /\ j - 1 = i  OBVIOUS
<1>4. CASE i <= k
  <2>1. Edge(c+1, i+1) = Edge(c, i)  BY <1>1, <1>4, CountedEdges
  <2>2. Edge(c+1, i) = Edge(c, h)
    <3>1. h <= k  BY <1>1, <1>2, <1>4
    <3> QED  BY <1>2, <3>1, CountedEdges
  <2>3. Span(c+1, j) = Span(c, i)
    <3>1. Span(c+1, j) = (Edge(c+1, j) + 1)..Edge(c+1, i)  BY <1>3 DEF Span
    <3>2. Span(c, i) = (Edge(c, i) + 1)..Edge(c, h)  BY <1>2 DEF Span
    <3> QED  BY <1>3, <2>1, <2>2, <3>1, <3>2
  <2> QED  BY <1>1, <1>3, <1>4, <2>3
<1>5. CASE i > k + 2
  <2>1. PICK g \in Nat : h = g + 1 /\ g > k /\ h > k /\ ~(g <= k) /\ ~(h <= k)
    BY <1>1, <1>2, <1>5
  <2>2. Edge(c+1, h+1) = Edge(c, h+1)  BY <2>1, CountedEdges
  <2>3. Edge(c+1, g+1) = Edge(c, g+1)  BY <2>1, CountedEdges
  <2>4. Edge(c+1, i) = Edge(c, i) /\ Edge(c+1, h) = Edge(c, h)  BY <1>2, <2>1, <2>2, <2>3
  <2>5. Span(c+1, i) = Span(c, i)
    <3>1. Span(c+1, i) = (Edge(c+1, i) + 1)..Edge(c+1, h)  BY <1>2 DEF Span
    <3>2. Span(c, i) = (Edge(c, i) + 1)..Edge(c, h)  BY <1>2 DEF Span
    <3> QED  BY <2>4, <3>1, <3>2
  <2> QED  BY <1>1, <1>5, <2>5
<1> QED  BY <1>1, <1>4, <1>5

\* The two runs that are merged in one round.
Pair(c, k) == Span(c, k+2) \cup Span(c, k+1)

LEMMA PairIsRun ==
  ASSUME NEW c \in Nat, NEW k, IsClear(c, k), c \div 2^k # 0, NEW L \in Nat, Edge(c, L) = 0
  PROVE  Pair(c, k) = Span(c+1, k+2) /\ k + 2 <= L /\ Pair(c, k) \subseteq 1..c
<1>1. k \in Nat /\ k + 2 <= L  BY TwoToMerge DEF IsClear
<1>2. PICK i, j : i = k + 1 /\ j = k + 2 /\ i \in 1..L /\ j \in 1..L /\ i \in Nat
                  /\ i - 1 = k /\ j - 1 = i /\ i + 1 = j
  BY <1>1
<1>3. PICK x, y, z : x = Edge(c, j) /\ y = Edge(c, i) /\ z = Edge(c, k)  OBVIOUS
<1>4. x \in Nat /\ y \in Nat /\ z \in Nat /\ x < y /\ y < z  BY <1>2, <1>3, EntriesFacts
<1>5. Span(c, j) = (x + 1)..y /\ Span(c, i) = (y + 1)..z  BY <1>2, <1>3 DEF Span
<1>6. Edge(c+1, j) = x
  <2>1. ~(i <= k)  BY <1>1, <1>2
  <2>2. Edge(c+1, i+1) = Edge(c, i+1)  BY <1>2, <2>1, CountedEdges
  <2> QED  BY <1>2, <1>3, <2>2
<1>7. Edge(c+1, i) = z
  <2>1. k <= k  BY <1>1
  <2>2. Edge(c+1, k+1) = Edge(c, k)  BY <1>1, <2>1, CountedEdges
  <2> QED  BY <1>2, <1>3, <2>2
<1>8. Span(c+1, j) = (x + 1)..z  BY <1>2, <1>6, <1>7 DEF Span
<1>9. (x + 1)..z = ((x + 1)..y) \cup ((y + 1)..z)  BY <1>4
<1>10. Pair(c, k) = Span(c, j) \cup Span(c, i)  BY <1>2 DEF Pair
<1>11. Span(c, j) \subseteq 1..c /\ Span(c, i) \subseteq 1..c  BY <1>2, EntriesFacts
<1> QED  BY <1>1, <1>2, <1>5, <1>8, <1>9, <1>10, <1>11

\* When nothing is to be merged, the runs make room for the next one.
LEMMA StackShifts ==
  ASSUME NEW m, NEW p, NEW O, NEW c \in Nat, NEW L, NEW W, Stack(m, p, O, c, 1, L, W, 1..L),
         NEW k, IsClear(c, k), c \div 2^k = 0
  PROVE  \E T, V : Stack(m, p, O, c+1, 2, T, V, 2..T)
<1>1. L \in Nat /\ Edge(c, L) = 0 /\ L <= k /\ k \in Nat
  BY NothingToMerge DEF Stack, IsClear
<1>2. PICK T \in Nat : T = L + 1  BY <1>1
<1> DEFINE V == [i \in 2..T |-> W[i-1]]
<1>3. Edge(c+1, T) = 0  BY <1>1, <1>2, CountedEdges
<1>4. ASSUME NEW i \in 2..T
      PROVE  \E h \in 1..L : i = h + 1 /\ V[i] = W[h] /\ Span(c+1, i) = Span(c, h)
  <2>1. PICK h \in 1..L : i = h + 1 /\ i - 1 = h  BY <1>1, <1>2
  <2>2. V[i] = W[h]  BY <2>1
  <2>3. Span(c+1, h+1) = Span(c, h)
    <3>1. h \in Nat /\ h > 0 /\ h <= k  BY <1>1
    <3> QED  BY <3>1, EntriesCounted
  <2> QED  BY <2>1, <2>2, <2>3
<1>5. ASSUME NEW i \in 1..(L+1) PROVE HeadOf(V, i+1, T) = HeadOf(W, i, L)
  <2>1. CASE i = L + 1
    <3>1. ~(i + 1 <= T) /\ ~(i <= L)  BY <1>1, <1>2, <2>1
    <3> QED  BY <3>1 DEF HeadOf
  <2>2. CASE i # L + 1
    <3>1. PICK j \in 2..T : j = i + 1 /\ j - 1 = i  BY <1>1, <1>2, <2>2
    <3>2. V[j] = W[i]  BY <3>1
    <3>3. j <= T /\ i <= L  BY <1>1, <1>2, <3>1
    <3> HIDE DEF V
    <3> QED  BY <3>1, <3>2, <3>3 DEF HeadOf
  <2> QED  BY <2>1, <2>2
<1> HIDE DEF V
<1>6. Heads(m.prev, V, c+1, 2, T)
  <2> SUFFICES ASSUME NEW i \in 2..T
               PROVE  Lists(V[i], Span(c+1, i)) /\ m.prev[V[i][1]] = HeadOf(V, i+1, T)
    BY DEF Heads
  <2>1. PICK h \in 1..L : i = h + 1 /\ V[i] = W[h] /\ Span(c+1, i) = Span(c, h)  BY <1>4
  <2>2. Lists(W[h], Span(c, h)) /\ m.prev[W[h][1]] = HeadOf(W, h+1, L)  BY DEF Stack, Heads
  <2>3. HeadOf(V, i+1, T) = HeadOf(W, i, L)
    <3>1. i \in 1..(L+1)  BY <1>1, <2>1
    <3> QED  BY <1>5, <3>1
  <2> QED  BY <2>1, <2>2, <2>3
<1>7. p = HeadOf(V, 2, T)
  <2>1. p = HeadOf(W, 1, L)  BY DEF Stack
  <2>2. 1 \in 1..(L+1)  BY <1>1
  <2>3. HeadOf(V, 1+1, T) = HeadOf(W, 1, L)  BY <1>5, <2>2
  <2>4. 1 + 1 = 2  OBVIOUS
  <2> QED  BY <2>1, <2>3, <2>4
<1>8. Runs(m.next, O, V, 2..T)
  <2> SUFFICES ASSUME NEW i \in 2..T PROVE Chain(m.next, V[i]) /\ Sorted(O, V[i])  BY DEF Runs
  <2>1. PICK h \in 1..L : V[i] = W[h]  BY <1>4
  <2> QED  BY <2>1 DEF Stack, Runs
<1> QED  BY <1>2, <1>3, <1>6, <1>7, <1>8 DEF Stack

Installed(r, new, m, O, c, L) ==
  r \in Links /\ r.next = m.next /\ \E V : Stack(r, new, O, c+1, 2, L, V, 2..L)

\* The merged run, which begins at h, takes the place of the two.
Installing(r, new, m1, m, p, O, c, k, L, W, b, h) ==
  /\ m \in Links /\ c \in Nat /\ c <= N /\ IsClear(c, k) /\ c \div 2^k # 0
  /\ Stack(m, p, O, c, 1, L, W, (1..L) \ {k+1, k+2}) /\ Merged(m.next, O, h, Pair(c, k))
  /\ b = W[k+2][1] /\ m1 = SetPrev(m, h, m.prev[b])
  /\ r = (IF k = 0 THEN m1 ELSE SetPrev(m1, W[k][1], h)) /\ new = (IF k = 0 THEN h ELSE p)

LEMMA StackInstalls ==
  ASSUME NEW r, NEW new, NEW m1, NEW m, NEW p, NEW O, NEW c, NEW k, NEW L, NEW W, NEW b, NEW h,
         Installing(r, new, m1, m, p, O, c, k, L, W, b, h)
  PROVE  Installed(r, new, m, O, c, L)
<1> USE DEF Installing
<1>1. L \in Nat /\ Edge(c, L) = 0 /\ k \in Nat /\ k + 2 <= L
      /\ Pair(c, k) = Span(c+1, k+2) /\ Pair(c, k) \subseteq 1..c
  BY PairIsRun DEF Stack, IsClear
<1>2. PICK q : Lists(q, Pair(c, k)) /\ Chain(m.next, q) /\ Sorted(O, q) /\ q # <<>> /\ q[1] = h
  BY DEF Merged
<1>3. PICK j : j = k + 2 /\ j \in 1..L /\ j \in 2..L  BY <1>1
<1>4. b = W[j][1]  BY <1>3
<1>5. Heads(m.prev, W, c, 1, L) /\ Runs(m.next, O, W, (1..L) \ {k+1, k+2}) /\ p = HeadOf(W, 1, L)
  BY DEF Stack
<1>6. ASSUME NEW i \in 1..L
      PROVE  /\ Lists(W[i], Span(c, i)) /\ m.prev[W[i][1]] = HeadOf(W, i+1, L)
             /\ W[i][1] \in Span(c, i) /\ W[i][1] \in 1..c
  <2>1. 1 \in Nat /\ 1 > 0  OBVIOUS
  <2>2. W[i][1] \in Span(c, i) /\ W[i][1] \in 1..c  BY <1>1, <1>5, <2>1, HeadFacts
  <2> QED  BY <1>5, <2>2 DEF Heads
<1>7. h \in Pair(c, k) /\ h \in 1..c
  <2>1. 1 \in 1..Len(q)  BY <1>2, ListsFacts
  <2> QED  BY <1>1, <1>2, <2>1, ListsFacts
<1>8. 1..c \subseteq Cells  BY SortAssumption DEF Cells
<1>9. ASSUME NEW i \in 1..L, i \notin {k+1, k+2} PROVE W[i][1] # h
  <2>1. PICK g \in 1..L : g = k + 1  BY <1>1
  <2>2. Span(c, i) \cap Span(c, g) = {} /\ Span(c, i) \cap Span(c, j) = {}
    BY <1>1, <1>3, <1>9, <2>1, EntriesApart
  <2>3. Pair(c, k) = Span(c, j) \cup Span(c, g)  BY <1>3, <2>1 DEF Pair
  <2> QED  BY <1>6, <1>7, <2>2, <2>3
<1>10. ASSUME NEW i \in 1..L, NEW g \in 1..L, i # g PROVE W[i][1] # W[g][1]
  <2>1. Span(c, i) \cap Span(c, g) = {}  BY <1>1, <1>10, EntriesApart
  <2> QED  BY <1>6, <2>1
<1>11. m.prev[b] = HeadOf(W, k+3, L) /\ m1 = SetPrev(m, h, m.prev[b])
       /\ m.prev[b] \in CellOrNone
  <2>1. j + 1 = k + 3  BY <1>1, <1>3
  <2>2. m.prev[b] = HeadOf(W, j+1, L) /\ b \in 1..c  BY <1>3, <1>4, <1>6
  <2>3. m.prev \in [Cells -> CellOrNone]  BY DEF Links
  <2> QED  BY <1>3, <1>4, <1>8, <2>1, <2>2, <2>3
<1>12. /\ r \in Links /\ r.next = m.next
       /\ \A x \in Cells : r.prev[x] = IF k # 0 /\ x = W[k][1] THEN h
                                       ELSE IF x = h THEN m.prev[b] ELSE m.prev[x]
  <2>1. m.next \in [Cells -> CellOrNone] /\ m.prev \in [Cells -> CellOrNone]  BY DEF Links
  <2>2. h \in Cells /\ h \in CellOrNone  BY <1>7, <1>8 DEF CellOrNone
  <2>3. m1.next = m.next /\ m1.prev = [m.prev EXCEPT ![h] = m.prev[b]]
        /\ m1 = [next |-> m1.next, prev |-> m1.prev]
    BY <1>11 DEF SetPrev
  <2>4. m1.prev \in [Cells -> CellOrNone]  BY <1>11, <2>1, <2>2, <2>3
  <2>5. \A x \in Cells : m1.prev[x] = IF x = h THEN m.prev[b] ELSE m.prev[x]
    BY <2>1, <2>2, <2>3
  <2>6. CASE k = 0
    <3>1. r = m1  BY <2>6
    <3>2. r \in Links /\ r.next = m.next  BY <2>1, <2>3, <2>4, <3>1, SMTT(20) DEF Links
    <3> QED  BY <2>5, <2>6, <3>1, <3>2
  <2>7. CASE k # 0
    <3>1. PICK w \in Cells : w = W[k][1]
      <4>1. k \in 1..L  BY <1>1, <2>7
      <4> QED  BY <1>6, <1>8, <4>1
    <3>2. r = SetPrev(m1, w, h)  BY <2>7, <3>1
    <3>3. r.next = m1.next /\ r.prev = [m1.prev EXCEPT ![w] = h]
          /\ r = [next |-> r.next, prev |-> r.prev]
      BY <3>2 DEF SetPrev
    <3>4. r.prev \in [Cells -> CellOrNone]  BY <2>2, <2>4, <3>3
    <3>5. \A x \in Cells : r.prev[x] = IF x = w THEN h ELSE m1.prev[x]  BY <2>4, <3>3
    <3>6. r \in Links /\ r.next = m.next  BY <2>1, <2>3, <3>3, <3>4 DEF Links
    <3> QED  BY <2>5, <2>7, <3>1, <3>5, <3>6
  <2> QED  BY <2>6, <2>7
<1> DEFINE V == [i \in 2..L |-> IF i = j THEN q ELSE IF i < j THEN W[i-1] ELSE W[i]]
<1>13. /\ V[j] = q
       /\ \A i \in 1..k : i+1 \in 2..L /\ i \in 1..L /\ V[i+1] = W[i]
       /\ \A i \in 2..L : i > j => V[i] = W[i]
  <2>1. V[j] = q  BY <1>3
  <2>2. ASSUME NEW i \in 1..k PROVE i+1 \in 2..L /\ i \in 1..L /\ V[i+1] = W[i]
    <3>1. PICK g \in 2..L : g = i + 1 /\ g < j /\ g # j /\ g - 1 = i /\ i \in 1..L  BY <1>1, <1>3
    <3>2. V[g] = W[i]  BY <1>3, <3>1
    <3> HIDE DEF V
    <3> QED  BY <3>1, <3>2
  <2>3. ASSUME NEW i \in 2..L, i > j PROVE V[i] = W[i]
    <3>1. i # j /\ ~(i < j)  BY <1>3, <2>3
    <3> QED  BY <3>1
  <2> HIDE DEF V
  <2> QED  BY <2>1, <2>2, <2>3
<1>14. \A i \in 2..L : i = j \/ (i > j /\ i \in 1..L) \/ \E g \in 1..k : i = g + 1
  <2> SUFFICES ASSUME NEW i \in 2..L, i # j, ~(i > j) PROVE \E g \in 1..k : i = g + 1
    OBVIOUS
  <2>1. i - 1 \in 1..k /\ i = (i - 1) + 1  BY <1>1, <1>3
  <2> QED  BY <2>1
<1> HIDE DEF V
<1>15. ASSUME NEW i \in Int, i > j PROVE HeadOf(V, i, L) = HeadOf(W, i, L)
  <2>1. CASE i <= L
    <3>1. i \in 2..L  BY <1>3, <1>15, <2>1
    <3> QED  BY <1>13, <1>15, <2>1, <3>1 DEF HeadOf
  <2>2. CASE ~(i <= L)  BY <2>2 DEF HeadOf
  <2> QED  BY <2>1, <2>2
<1>16. HeadOf(V, j, L) = h
  <2>1. j <= L  BY <1>3
  <2> QED  BY <1>2, <1>13, <2>1 DEF HeadOf
<1>17. ASSUME NEW i \in 1..k PROVE HeadOf(V, i+1, L) = W[i][1] /\ HeadOf(W, i, L) = W[i][1]
  <2>1. i + 1 <= L /\ i <= L  BY <1>1
  <2> QED  BY <1>13, <2>1 DEF HeadOf
<1>18. ASSUME NEW i \in 2..L
       PROVE  Lists(V[i], Span(c+1, i)) /\ r.prev[V[i][1]] = HeadOf(V, i+1, L)
              /\ Chain(m.next, V[i]) /\ Sorted(O, V[i])
  <2>1. CASE i = j
    <3>1. Lists(V[i], Span(c+1, i)) /\ V[i][1] = h /\ Chain(m.next, V[i]) /\ Sorted(O, V[i])
      BY <1>1, <1>2, <1>3, <1>13, <2>1
    <3>2. ~(k # 0 /\ h = W[k][1])
      <4>1. k # 0 => k \in 1..L /\ k \notin {k+1, k+2}  BY <1>1
      <4> QED  BY <1>9, <4>1
    <3>3. h \in Cells  BY <1>7, <1>8
    <3>4. r.prev[h] = m.prev[b]  BY <1>12, <3>2, <3>3
    <3>5. i + 1 = k + 3 /\ i + 1 \in Int /\ i + 1 > j  BY <1>1, <1>3, <2>1
    <3>6. HeadOf(V, i+1, L) = HeadOf(W, i+1, L)  BY <1>15, <3>5
    <3> QED  BY <1>11, <3>1, <3>4, <3>5, <3>6
  <2>2. CASE i > j /\ i \in 1..L
    <3>1. V[i] = W[i]  BY <1>13, <2>2
    <3>2. i \notin {k+1, k+2} /\ (k # 0 => k \in 1..L /\ i # k)  BY <1>1, <1>3, <2>2
    <3>3. Span(c+1, i) = Span(c, i)
      <4>1. i \in Nat /\ i > 0 /\ i > k + 2  BY <1>3, <2>2
      <4> QED  BY <4>1, EntriesCounted
    <3>4. W[i][1] # h /\ ~(k # 0 /\ W[i][1] = W[k][1])  BY <1>9, <1>10, <2>2, <3>2
    <3>5. W[i][1] \in Cells  BY <1>6, <1>8, <2>2
    <3>6. r.prev[W[i][1]] = m.prev[W[i][1]]  BY <1>12, <3>4, <3>5
    <3>7. i + 1 \in Int /\ i + 1 > j  BY <1>3, <2>2
    <3>8. HeadOf(V, i+1, L) = HeadOf(W, i+1, L)  BY <1>15, <3>7
    <3>9. Chain(m.next, W[i]) /\ Sorted(O, W[i])  BY <1>5, <2>2, <3>2 DEF Runs
    <3> QED  BY <1>6, <2>2, <3>1, <3>3, <3>6, <3>8, <3>9
  <2>3. ASSUME NEW g \in 1..k, i = g + 1
        PROVE  Lists(V[i], Span(c+1, i)) /\ r.prev[V[i][1]] = HeadOf(V, i+1, L)
               /\ Chain(m.next, V[i]) /\ Sorted(O, V[i])
    <3>1. V[i] = W[g] /\ g \in 1..L  BY <1>13, <2>3
    <3>2. g \notin {k+1, k+2} /\ k # 0 /\ k \in 1..L  BY <1>1
    <3>3. Span(c+1, i) = Span(c, g)
      <4>1. g \in Nat /\ g > 0 /\ g <= k  BY <1>1
      <4> QED  BY <2>3, <4>1, EntriesCounted
    <3>4. W[g][1] # h /\ W[g][1] \in Cells  BY <1>6, <1>8, <1>9, <3>1, <3>2
    <3>5. Lists(W[g], Span(c, g)) /\ Chain(m.next, W[g]) /\ Sorted(O, W[g])
      BY <1>5, <1>6, <3>1, <3>2 DEF Runs
    <3>6. r.prev[W[g][1]] = HeadOf(V, i+1, L)
      <4>1. CASE g = k
        <5>1. r.prev[W[g][1]] = h  BY <1>12, <3>2, <3>4, <4>1
        <5>2. i + 1 = j  BY <1>1, <1>3, <2>3, <4>1
        <5> QED  BY <1>16, <5>1, <5>2
      <4>2. CASE g # k
        <5>1. W[g][1] # W[k][1]  BY <1>10, <3>1, <3>2, <4>2
        <5>2. r.prev[W[g][1]] = m.prev[W[g][1]]  BY <1>12, <3>4, <5>1
        <5>3. m.prev[W[g][1]] = HeadOf(W, i, L)  BY <1>6, <2>3, <3>1
        <5>4. i \in 1..k  BY <1>1, <2>3, <4>2
        <5> QED  BY <1>17, <5>2, <5>3, <5>4
      <4> QED  BY <4>1, <4>2
    <3> QED  BY <3>1, <3>3, <3>5, <3>6
  <2> QED  BY <1>14, <2>1, <2>2, <2>3
<1>19. new = HeadOf(V, 2, L)
  <2>1. CASE k = 0
    <3>1. j = 2  BY <1>3, <2>1
    <3> QED  BY <1>16, <2>1, <3>1
  <2>2. CASE k # 0
    <3>1. 1 \in 1..k /\ 1 + 1 = 2  BY <1>1, <2>2
    <3>2. HeadOf(V, 1+1, L) = W[1][1] /\ HeadOf(W, 1, L) = W[1][1]  BY <1>17, <3>1
    <3> QED  BY <1>5, <2>2, <3>1, <3>2
  <2> QED  BY <2>1, <2>2
<1>20. Edge(c+1, L) = 0
  <2>1. PICK g \in Nat : L = g + 1 /\ g > k /\ ~(g <= k)  BY <1>1
  <2>2. Edge(c+1, g+1) = Edge(c, g+1)  BY <2>1, CountedEdges
  <2> QED  BY <1>1, <2>1, <2>2
<1>21. Heads(r.prev, V, c+1, 2, L)  BY <1>18 DEF Heads
<1>22. Runs(r.next, O, V, 2..L)  BY <1>12, <1>18 DEF Runs
<1>23. Stack(r, new, O, c+1, 2, L, V, 2..L)  BY <1>1, <1>19, <1>20, <1>21, <1>22 DEF Stack
<1> QED  BY <1>12, <1>23 DEF Installed

\* The next entry of the input is a run.
LEMMA SingleRun ==
  ASSUME NEW c \in Nat, c + 1 <= N, NEW O, NEW link, link[c+1] = NULL
  PROVE  /\ Lists(<<c+1>>, Span(c+1, 1)) /\ Chain(link, <<c+1>>) /\ Sorted(O, <<c+1>>)
         /\ Span(c+1, 1) = {c+1} /\ Span(c+1, 1) = (Edge(c+1, 1) + 1)..(c+1)
<1>1. PICK x : x = c + 1 /\ x \in 1..N /\ x \in Nat  BY SortAssumption
<1>2. Edge(x, 0) = x /\ Edge(x, 1) = x - 1  BY <1>1, EdgeType
<1>3. 1 - 1 = 0  OBVIOUS
<1>4. Span(x, 1) = (Edge(x, 1) + 1)..Edge(x, 0)  BY <1>3 DEF Span
<1>5. (Edge(x, 1) + 1)..Edge(x, 0) = x..x  BY <1>1, <1>2
<1>6. x..x = {x}  BY <1>1
<1>7. PICK q : q = <<x>>  OBVIOUS
<1>8. q \in Seq(1..N) /\ Len(q) = 1 /\ q[1] = x  BY <1>1, <1>7
<1>9. Lists(q, {x})
  <2>1. \A i \in 1..Len(q) : q[i] \in {x}  BY <1>8
  <2>2. \A i, j \in 1..Len(q) : q[i] = q[j] => i = j  BY <1>8
  <2>3. \A e \in {x} : \E i \in 1..Len(q) : q[i] = e  BY <1>8
  <2> QED  BY <1>8, <2>1, <2>2, <2>3, ListsIf
<1>10. Chain(link, q)  BY <1>1, <1>8 DEF Chain
<1>11. Sorted(O, q)  BY <1>8 DEF Sorted
<1>12. Span(x, 1) = {x} /\ Span(x, 1) = (Edge(x, 1) + 1)..x  BY <1>2, <1>4, <1>5, <1>6
<1> QED  BY <1>1, <1>7, <1>9, <1>10, <1>11, <1>12

Pushed(r, m, p, O, c, x, L, W) ==
  /\ r \in Links /\ \A y \in Cells : y # x => r.next[y] = m.next[y]
  /\ Stack(r, p, O, x, 2, L, W, 2..L) /\ L \in Nat /\ L > 0
  /\ c # 0 => L > 1
  /\ Merged(r.next, O, x, (Edge(x, 1) + 1)..x)
  /\ \E V : Stack(r, x, O, x, 1, L, V, 1..L)

LEMMA StackPushes ==
  ASSUME NEW m \in Links, NEW p, NEW O, NEW c \in Nat, NEW x, x = c + 1, x <= N, NEW L, NEW W,
         Stack(m, p, O, x, 2, L, W, 2..L),
         NEW r, r = SetNext(SetPrev(m, x, p), x, NULL)
  PROVE  Pushed(r, m, p, O, c, x, L, W)
<1>1. x = c + 1 /\ x \in 1..N /\ x \in Nat  BY SortAssumption
<1>2. /\ L \in Nat /\ Edge(x, L) = 0 /\ Heads(m.prev, W, x, 2, L) /\ p = HeadOf(W, 2, L)
      /\ Runs(m.next, O, W, 2..L) /\ Stack(m, p, O, x, 2, L, W, 2..L)
  BY <1>1 DEF Stack
<1>3. Edge(x, 0) = x /\ Edge(x, 1) = x - 1  BY <1>1, EdgeType
<1>4. L > 0 /\ (c # 0 => L > 1)
  <2>1. L # 0  BY <1>1, <1>2, <1>3
  <2>2. ASSUME L = 1 PROVE c = 0  BY <1>1, <1>2, <1>3, <2>2
  <2> QED  BY <1>2, <2>1, <2>2
<1>5. ASSUME NEW i \in 2..L
      PROVE  W[i][1] \in 1..x /\ W[i][1] # x /\ x \notin Span(x, i) /\ Span(x, i) \subseteq 1..x
  <2>1. i \in 1..L /\ 1 \in 1..L /\ i # 1  BY <1>2
  <2>2. Span(x, i) \cap Span(x, 1) = {}  BY <1>1, <1>2, <2>1, EntriesApart
  <2>3. Span(x, 1) = {x}
    <3>1. 1 - 1 = 0  OBVIOUS
    <3>2. Span(x, 1) = (Edge(x, 1) + 1)..Edge(x, 0)  BY <3>1 DEF Span
    <3>3. (Edge(x, 1) + 1)..Edge(x, 0) = x..x  BY <1>1, <1>3
    <3>4. x..x = {x}  BY <1>1
    <3> QED  BY <3>2, <3>3, <3>4
  <2>4. 2 \in Nat /\ 2 > 0  OBVIOUS
  <2>5. W[i][1] \in Span(x, i) /\ W[i][1] \in 1..x  BY <1>1, <1>2, <2>4, HeadFacts
  <2>6. Span(x, i) \subseteq 1..x  BY <1>1, <1>2, <2>1, EntriesFacts
  <2> QED  BY <2>2, <2>3, <2>5, <2>6
<1>6. 1..x \subseteq Cells /\ NULL \in CellOrNone
  BY <1>1, SortAssumption DEF Cells, CellOrNone
<1>7. p \in CellOrNone
  <2>1. CASE 2 <= L
    <3>1. 2 \in 2..L  BY <1>2, <2>1
    <3> QED  BY <1>2, <1>5, <1>6, <2>1, <3>1 DEF HeadOf, CellOrNone
  <2>2. CASE ~(2 <= L)  BY <1>2, <1>6, <2>2 DEF HeadOf
  <2> QED  BY <2>1, <2>2
<1>8. /\ r \in Links
      /\ \A y \in Cells : r.next[y] = IF y = x THEN NULL ELSE m.next[y]
      /\ \A y \in Cells : r.prev[y] = IF y = x THEN p ELSE m.prev[y]
  <2>1. m.next \in [Cells -> CellOrNone] /\ m.prev \in [Cells -> CellOrNone]  BY DEF Links
  <2>2. /\ r = [next |-> r.next, prev |-> r.prev]
        /\ r.next = [m.next EXCEPT ![x] = NULL] /\ r.prev = [m.prev EXCEPT ![x] = p]
    BY <1>1 DEF SetNext, SetPrev
  <2>3. x \in Cells  BY <1>1, <1>6
  <2>4. r.next \in [Cells -> CellOrNone] /\ r.prev \in [Cells -> CellOrNone]
    BY <1>6, <1>7, <2>1, <2>2, <2>3
  <2>5. r \in Links  BY <2>2, <2>4 DEF Links
  <2> QED  BY <2>1, <2>2, <2>3, <2>5
<1>9. Stack(r, p, O, x, 2, L, W, 2..L)
  <2>1. ASSUME NEW i \in 2..L PROVE r.prev[W[i][1]] = m.prev[W[i][1]]
    BY <1>5, <1>6, <1>8
  <2>2. ASSUME NEW i \in 2..L, NEW e \in Span(x, i) PROVE r.next[e] = m.next[e]
    BY <1>5, <1>6, <1>8
  <2>3. 2 \in Nat /\ 2 > 0  OBVIOUS
  <2> QED  BY <1>1, <1>2, <2>1, <2>2, <2>3, StackLeftAlone
<1>10. /\ Lists(<<x>>, Span(x, 1)) /\ Chain(r.next, <<x>>) /\ Sorted(O, <<x>>)
       /\ Span(x, 1) = {x} /\ Span(x, 1) = (Edge(x, 1) + 1)..x
  <2>1. r.next[x] = NULL  BY <1>1, <1>6, <1>8
  <2> QED  BY <1>1, <2>1, SingleRun
<1>11. Merged(r.next, O, x, (Edge(x, 1) + 1)..x)
  <2>1. PICK q : q = <<x>>  OBVIOUS
  <2>2. q # <<>> /\ q[1] = x  BY <2>1
  <2> QED  BY <1>10, <2>1, <2>2 DEF Merged
<1> DEFINE V == [i \in 1..L |-> IF i = 1 THEN <<x>> ELSE W[i]]
<1>12. V[1] = <<x>> /\ \A i \in 2..L : V[i] = W[i]
  <2>1. 1 \in 1..L  BY <1>2, <1>4
  <2>2. \A i \in 2..L : i \in 1..L /\ i # 1  BY <1>2
  <2> QED  BY <2>1, <2>2
<1> HIDE DEF V
<1>13. ASSUME NEW i \in 2..(L+1) PROVE HeadOf(V, i, L) = HeadOf(W, i, L)
  <2>1. CASE i <= L
    <3>1. i \in 2..L  BY <2>1
    <3> QED  BY <1>12, <2>1, <3>1 DEF HeadOf
  <2>2. CASE ~(i <= L)  BY <2>2 DEF HeadOf
  <2> QED  BY <2>1, <2>2
<1>14. ASSUME NEW i \in 1..L
       PROVE  /\ Lists(V[i], Span(x, i)) /\ r.prev[V[i][1]] = HeadOf(V, i+1, L)
              /\ Chain(r.next, V[i]) /\ Sorted(O, V[i])
  <2>1. PICK j \in 2..(L+1) : j = i + 1  BY <1>2
  <2>2. HeadOf(V, j, L) = HeadOf(W, j, L)  BY <1>13
  <2>3. CASE i = 1
    <3>1. V[i][1] = x  BY <1>12, <2>3
    <3>2. r.prev[x] = p  BY <1>1, <1>6, <1>8
    <3>3. j = 2  BY <2>1, <2>3
    <3> QED  BY <1>2, <1>10, <1>12, <2>1, <2>2, <2>3, <3>1, <3>2, <3>3
  <2>4. CASE i # 1
    <3>1. i \in 2..L  BY <2>4
    <3>2. V[i] = W[i]  BY <1>12, <3>1
    <3>3. Lists(W[i], Span(x, i)) /\ r.prev[W[i][1]] = HeadOf(W, i+1, L)
          /\ Chain(r.next, W[i]) /\ Sorted(O, W[i])
      BY <1>9, <3>1 DEF Stack, Heads, Runs
    <3> QED  BY <2>1, <2>2, <3>2, <3>3
  <2> QED  BY <2>3, <2>4
<1>15. x = HeadOf(V, 1, L)
  <2>1. 1 <= L  BY <1>2, <1>4
  <2> QED  BY <1>12, <2>1 DEF HeadOf
<1>16. Stack(r, x, O, x, 1, L, V, 1..L)
  BY <1>2, <1>14, <1>15 DEF Stack, Heads, Runs
<1> QED  BY <1>1, <1>2, <1>4, <1>8, <1>9, <1>11, <1>16 DEF Pushed

\* The first turn finds both runs whole.
LEMMA MergingBegins ==
  ASSUME NEW link, NEW O, NEW x, NEW A, Lists(x, A), Chain(link, x), Sorted(O, x),
         NEW y, NEW B, Lists(y, B), Chain(link, y), Sorted(O, y), A \cap B = {}
  PROVE  Merging(link, O, <<>>, x, y, A \cup B) /\ ToSet(x) = A /\ ToSet(y) = B
<1>1. Lists(<<>>, {})
  <2>1. <<>> \in Seq(1..N) /\ Len(<<>>) = 0  BY EmptySeq
  <2>2. PICK q : q = <<>>  OBVIOUS
  <2>3. q \in Seq(1..N) /\ 1..Len(q) = {}  BY <2>1, <2>2
  <2>4. Lists(q, {})  BY <2>3, ListsIf
  <2> QED  BY <2>2, <2>4
<1>2. ToSet(<<>>) = {} /\ ToSet(x) = A /\ ToSet(y) = B
      /\ Lists(<<>>, ToSet(<<>>)) /\ Lists(x, ToSet(x)) /\ Lists(y, ToSet(y))
  BY <1>1, ListsItself
<1>3. Len(<<>>) = 0  OBVIOUS
<1>4. Sorted(O, <<>>)  BY <1>3 DEF Sorted
<1> QED  BY <1>2, <1>3, <1>4 DEF Merging

-----------------------------------------------------------------------------
(* merge_final().                                                          *)

\* The list is doubly linked again from its head to the end of t.
Backed(m, t) ==
  /\ t # <<>> => m.next[head] = t[1]
  /\ \A i \in 1..Len(t) : m.prev[t[i]] = At(head, t, i-1)

FinalGoing(m, O, mg, S) ==
  \E t, x, y :
    /\ Merging(m.next, O, t, x, y, S) /\ x # <<>> /\ y # <<>> /\ Backed(m, t)
    /\ \A d \in ToSet(x), e \in ToSet(y) : d < e
    /\ mg = [a |-> x[1], b |-> y[1], tail |-> End(t, head), head |-> NULL, count |-> 0]

\* All entries are chained, and k of them are linked back.
Resting(m, O, r, k, S) ==
  /\ Lists(r, S) /\ Chain(m.next, r) /\ Sorted(O, r) /\ r # <<>>
  /\ k \in 1..Len(r) /\ m.next[head] = r[1]
  /\ \A i \in 1..k : m.prev[r[i]] = At(head, r, i-1)

FinalTaking(m1, m2, t, u, v, s, S) ==
  /\ m2 \in Links /\ End(s, head) = u[1]
  /\ Rest(m1, u[1]) # NULL =>
       /\ Tail(u) # <<>> /\ Tail(u)[1] = Rest(m1, u[1])
       /\ ToSet(Tail(u)) \subseteq ToSet(u)
       /\ Merging(m2.next, Order, s, Tail(u), v, S) /\ Backed(m2, s)
  /\ Rest(m1, u[1]) = NULL =>
       \E r, k : /\ Resting(m2, Order, r, k, S) /\ k < Len(r)
                 /\ r[k] = u[1] /\ r[k+1] = v[1]

LEMMA FinalTakes ==
  ASSUME Data, NEW S, S \subseteq 1..len, NEW t, NEW u, NEW v,
         Merging(mem.next, Order, t, u, v, S), u # <<>>, v # <<>>, <<u[1], v[1]>> \in Order,
         Backed(mem, t),
         NEW m1, m1 = Appended(mem, End(t, head), u[1]),
         NEW m2, m2 = IF Rest(m1, u[1]) = NULL THEN SetNext(m1, u[1], v[1]) ELSE m1
  PROVE  FinalTaking(m1, m2, t, u, v, Append(t, u[1]), S)
<1> DEFINE link == mem.next
           to == m1.next
           last == m2.next
           s == Append(t, u[1])
<1>1. /\ link \in [Cells -> CellOrNone] /\ mem.prev \in [Cells -> CellOrNone]
      /\ S \subseteq Cells /\ S \subseteq 1..N /\ IsTransitive(Order) /\ NULL \notin Cells
      /\ head \in Cells /\ head \notin S
  <2>1. NULL \notin Cells /\ 1..len \subseteq 1..N  BY DataFacts, SortAssumption DEF Cells
  <2>2. head \notin S  BY DataFacts DEF head
  <2> QED  BY <2>1, <2>2, DataFacts
<1>2. Lists(t, ToSet(t)) /\ Lists(u, ToSet(u)) /\ ToSet(t) \cup ToSet(u) \cup ToSet(v) = S
      /\ Lists(v, ToSet(v)) /\ ToSet(t) \cap ToSet(u) = {}
  BY DEF Merging
<1>3. u[1] \in S /\ u[1] \notin ToSet(t) /\ \A i \in 1..Len(t) : t[i] # u[1] /\ t[i] \in S
  <2>1. 1 \in 1..Len(u)  BY <1>2, ListsFacts
  <2>2. u[1] \in ToSet(u)  BY <1>2, <2>1, ListsFacts
  <2>3. \A i \in 1..Len(t) : t[i] \in ToSet(t)  BY <1>2, ListsFacts
  <2> QED  BY <1>2, <2>2, <2>3
<1>4. PICK n \in Nat : n = Len(t) /\ (t = <<>> <=> n = 0)  BY <1>2, ListsFacts
<1>5. PICK z : z = End(t, head)  OBVIOUS
<1>6. z \in Cells /\ (n # 0 => z = t[n] /\ z \in S /\ z # head) /\ (n = 0 => z = head)
  <2>1. CASE n = 0  BY <1>1, <1>4, <1>5, <2>1 DEF End
  <2>2. CASE n # 0
    <3>1. z = t[n]  BY <1>4, <1>5, <2>2 DEF End
    <3>2. n \in 1..n  BY <1>4, <2>2
    <3>3. z \in S  BY <1>3, <1>4, <3>1, <3>2
    <3> QED  BY <1>1, <2>2, <3>1, <3>3
  <2> QED  BY <2>1, <2>2
<1>7. /\ to \in [Cells -> CellOrNone] /\ m1.prev \in [Cells -> CellOrNone]
      /\ m1 = [next |-> to, prev |-> m1.prev]
      /\ \A c \in Cells : to[c] = IF c = z THEN u[1] ELSE link[c]
      /\ \A c \in Cells : m1.prev[c] = IF c = u[1] THEN z ELSE mem.prev[c]
  <2>1. to = [link EXCEPT ![z] = u[1]] /\ m1.prev = [mem.prev EXCEPT ![u[1]] = z]
        /\ m1 = [next |-> to, prev |-> m1.prev]
    BY <1>5 DEF Appended, SetNext, SetPrev
  <2>2. PICK e \in Cells : e = u[1]  BY <1>1, <1>3
  <2>3. e \in CellOrNone /\ z \in CellOrNone  BY <1>6, <2>2 DEF CellOrNone
  <2> HIDE DEF to, link
  <2>4. to \in [Cells -> CellOrNone] /\ m1.prev \in [Cells -> CellOrNone]
    BY <1>1, <1>6, <2>1, <2>2, <2>3
  <2>5. \A c \in Cells : to[c] = IF c = z THEN u[1] ELSE link[c]  BY <1>1, <1>6, <2>1
  <2>6. \A c \in Cells : m1.prev[c] = IF c = u[1] THEN z ELSE mem.prev[c]  BY <1>1, <2>1
  <2> QED  BY <2>1, <2>4, <2>5, <2>6
<1>8. LinkedTo(link, to, t, u, S)
  <2>1. \A c \in S : (n = 0 \/ c # t[n]) => to[c] = link[c]
    <3> HIDE DEF to, link
    <3> QED  BY <1>1, <1>6, <1>7
  <2>2. n # 0 => to[t[n]] = u[1]
    <3> HIDE DEF to, link
    <3> QED  BY <1>6, <1>7
  <2> HIDE DEF to, link
  <2> QED  BY <1>4, <2>1, <2>2 DEF LinkedTo
<1>9. Rest(m1, u[1]) = to[u[1]]  BY DEF Rest
<1>10. /\ m2.prev = m1.prev /\ m2 = [next |-> last, prev |-> m2.prev]
       /\ last = IF to[u[1]] = NULL THEN [to EXCEPT ![u[1]] = v[1]] ELSE to
  <2>1. CASE to[u[1]] = NULL  BY <1>9, <2>1 DEF SetNext
  <2>2. CASE to[u[1]] # NULL
    <3>1. m2 = m1  BY <1>9, <2>2
    <3> QED  BY <1>7, <2>2, <3>1
  <2> QED  BY <2>1, <2>2
<1>11. Taken(to, last, Order, t, u, v, s, S)
  <2>1. Merging(link, Order, t, u, v, S)  OBVIOUS
  <2> HIDE DEF link, to, last
  <2> QED  BY <1>1, <1>7, <1>8, <1>10, <2>1, TakeStep
<1> HIDE DEF link, to, last, s
<1>12. /\ last \in [Cells -> CellOrNone] /\ \A c \in Cells \ S : last[c] = to[c]
       /\ s # <<>> /\ End(s, NULL) = u[1] /\ Len(s) = n + 1
       /\ s[n+1] = u[1] /\ (\A i \in 1..n : s[i] = t[i])
       /\ to[u[1]] # NULL => /\ Tail(u) # <<>> /\ Tail(u)[1] = to[u[1]]
                             /\ ToSet(Tail(u)) \subseteq ToSet(u)
                             /\ Merging(last, Order, s, Tail(u), v, S)
       /\ to[u[1]] = NULL => Joined(last, Order, s, v, s \o v, S)
  BY <1>4, <1>11 DEF Taken
<1>13. m2 \in Links  BY <1>7, <1>10, <1>12, SMTT(20) DEF Links
<1>14. End(s, head) = u[1]  BY <1>12 DEF End
<1>15. m2.next[head] = s[1]
  <2>1. m2.next[head] = to[head]  BY <1>1, <1>12 DEF last
  <2>2. CASE n = 0
    <3>1. s[1] = u[1]
      <4>1. n + 1 = 1  BY <2>2
      <4> QED  BY <1>12, <4>1
    <3>2. to[head] = u[1]  BY <1>1, <1>6, <1>7, <2>2
    <3> QED  BY <2>1, <3>1, <3>2
  <2>3. CASE n # 0
    <3>1. s[1] = t[1]
      <4>1. 1 \in 1..n  BY <1>4, <2>3
      <4> QED  BY <1>12, <4>1
    <3>2. to[head] = link[head]  BY <1>1, <1>6, <1>7, <2>3
    <3>3. link[head] = t[1]  BY <1>4, <2>3 DEF Backed, link
    <3> QED  BY <2>1, <3>1, <3>2, <3>3
  <2> QED  BY <2>2, <2>3
<1>16. ASSUME NEW i \in 1..(n+1) PROVE m2.prev[s[i]] = At(head, s, i-1)
  <2>1. CASE i = n + 1
    <3>1. s[i] = u[1]  BY <1>12, <2>1
    <3>2. m2.prev[u[1]] = z  BY <1>1, <1>3, <1>7, <1>10
    <3>3. At(head, s, n) = z
      <4>1. CASE n = 0
        <5>1. n \notin 1..Len(s)  BY <4>1
        <5> QED  BY <1>6, <4>1, <5>1 DEF At
      <4>2. CASE n # 0
        <5>1. n \in 1..Len(s) /\ n \in 1..n  BY <1>4, <1>12, <4>2
        <5> QED  BY <1>6, <1>12, <4>2, <5>1 DEF At
      <4> QED  BY <4>1, <4>2
    <3>4. i - 1 = n  BY <1>4, <2>1
    <3> QED  BY <3>1, <3>2, <3>3, <3>4
  <2>2. CASE i # n + 1
    <3>1. i \in 1..n /\ i \in 1..Len(t)  BY <1>4, <2>2
    <3>2. s[i] = t[i] /\ t[i] # u[1] /\ t[i] \in Cells  BY <1>1, <1>3, <1>12, <3>1
    <3>3. m2.prev[t[i]] = mem.prev[t[i]]  BY <1>7, <1>10, <3>2
    <3>4. mem.prev[t[i]] = At(head, t, i-1)  BY <3>1 DEF Backed
    <3>5. At(head, t, i-1) = At(head, s, i-1)
      <4>1. PICK h \in 0..n : h = i - 1 /\ h # n + 1  BY <1>4, <3>1
      <4>2. At(head, t, h) = At(head, s, h)
        <5>1. h \in 1..n => h \in 1..Len(t) /\ h \in 1..Len(s) /\ s[h] = t[h]  BY <1>4, <1>12
        <5>2. h \notin 1..n => h \notin 1..Len(t) /\ h \notin 1..Len(s)  BY <1>4, <1>12, <4>1
        <5> QED  BY <5>1, <5>2 DEF At
      <4> QED  BY <4>1, <4>2
    <3> QED  BY <3>2, <3>3, <3>4, <3>5
  <2> QED  BY <2>1, <2>2
<1>17. Backed(m2, s)  BY <1>12, <1>15, <1>16 DEF Backed
<1>18. ASSUME to[u[1]] = NULL
       PROVE  \E r, k : /\ Resting(m2, Order, r, k, S) /\ k < Len(r)
                        /\ r[k] = u[1] /\ r[k+1] = v[1]
  <2>1. PICK r : r = s \o v  OBVIOUS
  <2>2. Joined(last, Order, s, v, r, S)  BY <1>12, <1>18, <2>1
  <2>3. PICK k \in Nat : k = n + 1 /\ k # 0 /\ k = Len(s)  BY <1>12
  <2>4. PICK l \in Nat : l = Len(v) /\ l # 0  BY <1>2, ListsFacts
  <2>5. /\ Lists(r, S) /\ Chain(last, r) /\ Sorted(Order, r) /\ Len(r) = k + l /\ r # <<>>
        /\ r[1] = s[1] /\ r[k+1] = v[1] /\ \A i \in 1..k : r[i] = s[i]
    BY <2>2, <2>3, <2>4 DEF Joined
  <2>6. k \in 1..Len(r) /\ k < Len(r) /\ k \in 1..k  BY <2>3, <2>4, <2>5
  <2>7. r[k] = u[1]  BY <1>12, <2>3, <2>5, <2>6
  <2>8. ASSUME NEW i \in 1..k PROVE m2.prev[r[i]] = At(head, r, i-1)
    <3>1. i \in 1..(n+1)  BY <2>3
    <3>2. m2.prev[s[i]] = At(head, s, i-1)  BY <1>16, <3>1
    <3>3. PICK h \in 0..k : h = i - 1  BY <2>3
    <3>4. At(head, s, h) = At(head, r, h)
      <4>1. h \in 1..k => h \in 1..Len(s) /\ h \in 1..Len(r) /\ r[h] = s[h]
        BY <2>3, <2>4, <2>5
      <4>2. h \notin 1..k => h \notin 1..Len(s) /\ h \notin 1..Len(r)  BY <2>3, <2>5
      <4> QED  BY <4>1, <4>2 DEF At
    <3> QED  BY <2>5, <3>2, <3>3, <3>4
  <2>9. m2.next[head] = r[1]  BY <1>15, <2>5
  <2>10. Resting(m2, Order, r, k, S)  BY <2>5, <2>6, <2>8, <2>9 DEF Resting, last
  <2> QED  BY <2>5, <2>6, <2>7, <2>10
<1>19. FinalTaking(m1, m2, t, u, v, s, S)
  BY <1>9, <1>12, <1>13, <1>14, <1>17, <1>18 DEF FinalTaking, last
<1> QED  BY <1>19 DEF s

LEMMA FinalTurnStep ==
  ASSUME Data, FinalTurn, NEW S, S \subseteq 1..len, FinalGoing(mem, Order, merging, S)
  PROVE  /\ mem' \in Links
         /\ \/ pc' = pc /\ FinalGoing(mem', Order, merging', S)
            \/ /\ pc' = "rest"
               /\ \E r, k, z : /\ Resting(mem', Order, r, k, S) /\ k < Len(r)
                               /\ merging' = [a |-> NULL, b |-> r[k+1], tail |-> r[k],
                                              head |-> NULL, count |-> z]
<1>1. PICK t, x, y :
        /\ Merging(mem.next, Order, t, x, y, S) /\ x # <<>> /\ y # <<>> /\ Backed(mem, t)
        /\ \A d \in ToSet(x), e \in ToSet(y) : d < e
        /\ merging = [a |-> x[1], b |-> y[1], tail |-> End(t, head), head |-> NULL, count |-> 0]
  BY DEF FinalGoing
<1>2. merging.a = x[1] /\ merging.b = y[1] /\ merging.tail = End(t, head)
  BY <1>1
<1>3. PICK first \in Comparisons(merging.a, merging.b) :
       LET taken == IF first THEN merging.a ELSE merging.b
           other == IF first THEN merging.b ELSE merging.a
           m1    == Appended(mem, merging.tail, taken)
           rest  == Rest(m1, taken)
       IN  IF rest = NULL
           THEN /\ mem' = SetNext(m1, taken, other)
                /\ merging' = [merging EXCEPT !.a = NULL, !.b = other, !.tail = taken]
                /\ pc' = "rest"
           ELSE /\ mem' = m1
                /\ merging' = [merging EXCEPT !.a = IF first THEN rest ELSE @,
                                              !.b = IF first THEN @ ELSE rest,
                                              !.tail = taken]
                /\ UNCHANGED pc
  BY DEF FinalTurn
<1>4. x[1] \in ToSet(x) /\ y[1] \in ToSet(y) /\ x[1] \in 1..len /\ y[1] \in 1..len
  <2>1. Lists(x, ToSet(x)) /\ Lists(y, ToSet(y)) /\ ToSet(x) \subseteq S /\ ToSet(y) \subseteq S
    BY <1>1 DEF Merging
  <2>2. 1 \in 1..Len(x) /\ 1 \in 1..Len(y)  BY <1>1, <2>1, ListsFacts
  <2>3. x[1] \in ToSet(x) /\ y[1] \in ToSet(y)  BY <2>1, <2>2, ListsFacts
  <2> QED  BY <2>1, <2>3
<1>5. x[1] < y[1]  BY <1>1, <1>4
<1>6. IF first THEN <<x[1], y[1]>> \in Order ELSE <<y[1], x[1]>> \in Order
  BY <1>2, <1>3, <1>4, <1>5, DataFacts, ComparisonAgrees DEF Data
<1>7. CASE first
  <2>1. PICK m1 : m1 = Appended(mem, End(t, head), x[1])  OBVIOUS
  <2>2. PICK rest : rest = Rest(m1, x[1])  OBVIOUS
  <2>3. IF rest = NULL
        THEN /\ mem' = SetNext(m1, x[1], y[1])
             /\ merging' = [merging EXCEPT !.a = NULL, !.b = y[1], !.tail = x[1]]
             /\ pc' = "rest"
        ELSE /\ mem' = m1
             /\ merging' = [merging EXCEPT !.a = rest, !.b = y[1], !.tail = x[1]]
             /\ pc' = pc
    BY <1>2, <1>3, <1>7, <2>1, <2>2, Zenon
  <2>4. mem' = IF Rest(m1, x[1]) = NULL THEN SetNext(m1, x[1], y[1]) ELSE m1  BY <2>2, <2>3
  <2>5. <<x[1], y[1]>> \in Order  BY <1>6, <1>7
  <2>6. FinalTaking(m1, mem', t, x, y, Append(t, x[1]), S)
    BY <1>1, <2>1, <2>4, <2>5, FinalTakes
  <2>7. CASE rest = NULL
    <3>1. PICK r, k : /\ Resting(mem', Order, r, k, S) /\ k < Len(r)
                      /\ r[k] = x[1] /\ r[k+1] = y[1]
      BY <2>2, <2>6, <2>7 DEF FinalTaking
    <3>2. merging' = [a |-> NULL, b |-> r[k+1], tail |-> r[k], head |-> NULL, count |-> 0]
      BY <1>1, <2>3, <2>7, <3>1
    <3>3. mem' \in Links /\ pc' = "rest"  BY <2>3, <2>6, <2>7 DEF FinalTaking
    <3> QED  BY <3>1, <3>2, <3>3
  <2>8. CASE rest # NULL
    <3>1. PICK s, z : s = Append(t, x[1]) /\ z = Tail(x)  OBVIOUS
    <3>2. /\ mem' \in Links /\ End(s, head) = x[1]
          /\ z # <<>> /\ z[1] = rest /\ ToSet(z) \subseteq ToSet(x)
          /\ Merging(mem'.next, Order, s, z, y, S) /\ Backed(mem', s)
      BY <2>2, <2>6, <2>8, <3>1 DEF FinalTaking
    <3>3. merging' = [a |-> z[1], b |-> y[1], tail |-> End(s, head), head |-> NULL, count |-> 0]
      BY <1>1, <2>3, <2>8, <3>2
    <3>4. \A d \in ToSet(z), e \in ToSet(y) : d < e  BY <1>1, <3>2
    <3>5. FinalGoing(mem', Order, merging', S)  BY <1>1, <3>2, <3>3, <3>4 DEF FinalGoing
    <3> QED  BY <2>3, <2>8, <3>2, <3>5
  <2> QED  BY <2>7, <2>8
<1>8. CASE ~first
  <2>1. PICK m1 : m1 = Appended(mem, End(t, head), y[1])  OBVIOUS
  <2>2. PICK rest : rest = Rest(m1, y[1])  OBVIOUS
  <2>3. IF rest = NULL
        THEN /\ mem' = SetNext(m1, y[1], x[1])
             /\ merging' = [merging EXCEPT !.a = NULL, !.b = x[1], !.tail = y[1]]
             /\ pc' = "rest"
        ELSE /\ mem' = m1
             /\ merging' = [merging EXCEPT !.a = x[1], !.b = rest, !.tail = y[1]]
             /\ pc' = pc
    BY <1>2, <1>3, <1>8, <2>1, <2>2, Zenon
  <2>4. mem' = IF Rest(m1, y[1]) = NULL THEN SetNext(m1, y[1], x[1]) ELSE m1  BY <2>2, <2>3
  <2>5. <<y[1], x[1]>> \in Order  BY <1>6, <1>8
  <2>6. Merging(mem.next, Order, t, y, x, S)  BY <1>1, MergingExchanged
  <2>7. FinalTaking(m1, mem', t, y, x, Append(t, y[1]), S)
    BY <1>1, <2>1, <2>4, <2>5, <2>6, FinalTakes
  <2>8. CASE rest = NULL
    <3>1. PICK r, k : /\ Resting(mem', Order, r, k, S) /\ k < Len(r)
                      /\ r[k] = y[1] /\ r[k+1] = x[1]
      BY <2>2, <2>7, <2>8 DEF FinalTaking
    <3>2. merging' = [a |-> NULL, b |-> r[k+1], tail |-> r[k], head |-> NULL, count |-> 0]
      BY <1>1, <2>3, <2>8, <3>1
    <3>3. mem' \in Links /\ pc' = "rest"  BY <2>3, <2>7, <2>8 DEF FinalTaking
    <3> QED  BY <3>1, <3>2, <3>3
  <2>9. CASE rest # NULL
    <3>1. PICK s, z : s = Append(t, y[1]) /\ z = Tail(y)  OBVIOUS
    <3>2. /\ mem' \in Links /\ End(s, head) = y[1]
          /\ z # <<>> /\ z[1] = rest /\ ToSet(z) \subseteq ToSet(y)
          /\ Merging(mem'.next, Order, s, z, x, S) /\ Backed(mem', s)
      BY <2>2, <2>7, <2>9, <3>1 DEF FinalTaking
    <3>3. merging' = [a |-> x[1], b |-> z[1], tail |-> End(s, head), head |-> NULL, count |-> 0]
      BY <1>1, <2>3, <2>9, <3>2
    <3>4. \A d \in ToSet(x), e \in ToSet(z) : d < e  BY <1>1, <3>2
    <3>5. Merging(mem'.next, Order, s, x, z, S)  BY <3>2, MergingExchanged
    <3>6. FinalGoing(mem', Order, merging', S)  BY <1>1, <3>2, <3>3, <3>4, <3>5 DEF FinalGoing
    <3> QED  BY <2>3, <2>9, <3>2, <3>6
  <2> QED  BY <2>8, <2>9
<1> QED  BY <1>7, <1>8

LEMMA FinalRestStep ==
  ASSUME Data, FinalRest, NEW S, S \subseteq 1..len, NEW r, NEW k, NEW z,
         Resting(mem, Order, r, k, S), k < Len(r),
         merging = [a |-> NULL, b |-> r[k+1], tail |-> r[k], head |-> NULL, count |-> z]
  PROVE  /\ mem' \in Links
         /\ \/ /\ pc' = pc
               /\ \E y : /\ Resting(mem', Order, r, k+1, S) /\ k+1 < Len(r)
                         /\ merging' = [a |-> NULL, b |-> r[k+1+1], tail |-> r[k+1],
                                        head |-> NULL, count |-> y]
            \/ pc' = "done" /\ Ring(mem', head, r)
<1>1. PICK n \in Nat : n = Len(r)  BY ListsFacts DEF Resting
<1>2. /\ Lists(r, S) /\ Chain(mem.next, r) /\ Sorted(Order, r) /\ r # <<>>
      /\ k \in 1..n /\ k < n /\ mem.next[head] = r[1]
      /\ \A i \in 1..k : mem.prev[r[i]] = At(head, r, i-1)
  BY <1>1 DEF Resting
<1>3. PICK j \in 1..n : j = k + 1  BY <1>1, <1>2
<1>4. PICK b : b = r[j]  OBVIOUS
<1>5. /\ mem.next \in [Cells -> CellOrNone] /\ mem.prev \in [Cells -> CellOrNone]
      /\ S \subseteq Cells /\ NULL \notin Cells /\ head \in Cells /\ head \notin S
  <2>1. NULL \notin Cells  BY SortAssumption DEF Cells
  <2>2. head \notin S  BY DataFacts DEF head
  <2> QED  BY <2>1, <2>2, DataFacts
<1>6. \A i \in 1..n : r[i] \in S /\ r[i] \in Cells /\ r[i] # head  BY <1>1, <1>2, <1>5, ListsFacts
<1>7. \A g, h \in 1..n : r[g] = r[h] => g = h  BY <1>1, <1>2, ListsFacts
<1>8. PICK m : m = SetPrev(mem, b, r[k])  OBVIOUS
<1>9. /\ m.next = mem.next /\ m \in Links
      /\ \A c \in Cells : m.prev[c] = IF c = b THEN r[k] ELSE mem.prev[c]
  <2>1. m.next = mem.next /\ m.prev = [mem.prev EXCEPT ![b] = r[k]]
        /\ m = [next |-> m.next, prev |-> m.prev]
    BY <1>8 DEF SetPrev
  <2>2. b \in Cells /\ r[k] \in CellOrNone  BY <1>2, <1>4, <1>6 DEF CellOrNone
  <2>3. m.prev \in [Cells -> CellOrNone]  BY <1>5, <2>1, <2>2
  <2>4. m \in Links  BY <1>5, <2>1, <2>3 DEF Links
  <2> QED  BY <1>5, <2>1, <2>2, <2>4
<1>10. merging.b = b /\ merging.tail = r[k]  BY <1>3, <1>4
<1>11. PICK rest : rest = mem.next[b] /\ rest = IF j < n THEN r[j+1] ELSE NULL
  BY <1>1, <1>2, <1>3, <1>4 DEF Chain
<1>12. /\ merging' = [merging EXCEPT !.b = rest, !.tail = b, !.count = (@ + 1) % TwoTo8]
       /\ IF rest # NULL
          THEN mem' = m /\ pc' = pc
          ELSE mem' = Appended(m, b, head) /\ pc' = "done"
  BY <1>8, <1>9, <1>10, <1>11 DEF FinalRest, Rest
<1>13. \A i \in 1..j : m.prev[r[i]] = At(head, r, i-1)
  <2> SUFFICES ASSUME NEW i \in 1..j PROVE m.prev[r[i]] = At(head, r, i-1)  OBVIOUS
  <2>1. CASE i = j
    <3>1. m.prev[b] = r[k]  BY <1>4, <1>6, <1>9
    <3>2. i - 1 = k /\ k \in 1..Len(r)  BY <1>1, <1>2, <1>3, <2>1
    <3>3. At(head, r, k) = r[k]  BY <3>2 DEF At
    <3> QED  BY <1>4, <2>1, <3>1, <3>2, <3>3
  <2>2. CASE i # j
    <3>1. i \in 1..k /\ i \in 1..n  BY <1>2, <1>3, <2>2
    <3>2. r[i] # b /\ r[i] \in Cells  BY <1>4, <1>6, <1>7, <2>2, <3>1
    <3> QED  BY <1>2, <1>9, <3>1, <3>2
  <2> QED  BY <2>1, <2>2
<1>14. CASE j < n
  <2>1. j + 1 \in 1..n  BY <1>14
  <2>2. rest = r[j+1] /\ rest # NULL  BY <1>5, <1>6, <1>11, <1>14, <2>1
  <2>3. mem' = m /\ pc' = pc  BY <1>12, <2>2
  <2>4. PICK y : y = (z + 1) % TwoTo8  OBVIOUS
  <2>5. merging' = [a |-> NULL, b |-> r[j+1], tail |-> r[j], head |-> NULL, count |-> y]
    BY <1>4, <1>12, <2>2, <2>4
  <2>6. Resting(mem', Order, r, j, S)
    BY <1>1, <1>2, <1>9, <1>13, <2>3 DEF Resting
  <2> QED  BY <1>1, <1>3, <1>9, <1>14, <2>3, <2>5, <2>6
<1>15. CASE ~(j < n)
  <2>1. j = n /\ rest = NULL  BY <1>11, <1>15
  <2>2. mem' = Appended(m, b, head) /\ pc' = "done"  BY <1>12, <2>1
  <2>3. /\ mem'.next = [mem.next EXCEPT ![b] = head] /\ mem'.prev = [m.prev EXCEPT ![head] = b]
        /\ mem' = [next |-> mem'.next, prev |-> mem'.prev]
    BY <1>9, <2>2 DEF Appended, SetNext, SetPrev
  <2>4. m.prev \in [Cells -> CellOrNone]  BY <1>9 DEF Links
  <2>5. b \in Cells /\ b \in CellOrNone /\ head \in CellOrNone /\ b # head
    BY <1>4, <1>5, <1>6 DEF CellOrNone
  <2>6. mem' \in Links
    <3>1. mem'.next \in [Cells -> CellOrNone] /\ mem'.prev \in [Cells -> CellOrNone]
      BY <1>5, <2>3, <2>4, <2>5
    <3> QED  BY <2>3, <3>1 DEF Links
  <2>7. /\ \A c \in Cells : mem'.next[c] = IF c = b THEN head ELSE mem.next[c]
        /\ \A c \in Cells : mem'.prev[c] = IF c = head THEN b ELSE m.prev[c]
    BY <1>5, <2>3, <2>4, <2>5
  <2>8. ASSUME NEW i \in 0..n PROVE mem'.next[At(head, r, i)] = At(head, r, i+1)
    <3>1. CASE i = 0
      <4>1. i \notin 1..n /\ i + 1 \in 1..n /\ i + 1 = 1  BY <1>3, <3>1
      <4>2. At(head, r, i) = head /\ At(head, r, i+1) = r[1]  BY <1>1, <4>1 DEF At
      <4>3. mem'.next[head] = mem.next[head]  BY <1>5, <2>5, <2>7
      <4> QED  BY <1>2, <4>2, <4>3
    <3>2. CASE i # 0 /\ i # n
      <4>1. i \in 1..n /\ i + 1 \in 1..n /\ i < n  BY <3>2
      <4>2. At(head, r, i) = r[i] /\ At(head, r, i+1) = r[i+1]  BY <1>1, <4>1 DEF At
      <4>3. r[i] # b /\ r[i] \in Cells  BY <1>4, <1>6, <1>7, <2>1, <3>2, <4>1
      <4>4. mem.next[r[i]] = r[i+1]  BY <1>1, <1>2, <4>1 DEF Chain
      <4> QED  BY <2>7, <4>2, <4>3, <4>4
    <3>3. CASE i = n
      <4>1. n \in 1..n /\ n + 1 \notin 1..n  BY <2>1
      <4>2. At(head, r, n) = r[n] /\ At(head, r, n+1) = head  BY <1>1, <4>1 DEF At
      <4> QED  BY <1>4, <2>1, <2>5, <2>7, <3>3, <4>2
    <3> QED  BY <3>1, <3>2, <3>3
  <2>9. ASSUME NEW i \in 0..n PROVE mem'.prev[At(head, r, i+1)] = At(head, r, i)
    <3>1. CASE i = n
      <4>1. n \in 1..n /\ n + 1 \notin 1..n  BY <2>1
      <4>2. At(head, r, n) = r[n] /\ At(head, r, n+1) = head  BY <1>1, <4>1 DEF At
      <4> QED  BY <1>4, <1>5, <2>1, <2>7, <3>1, <4>2
    <3>2. CASE i # n
      <4>1. PICK h \in 1..n : h = i + 1 /\ h - 1 = i  BY <3>2
      <4>2. At(head, r, h) = r[h]  BY <1>1 DEF At
      <4>3. r[h] # head /\ r[h] \in Cells  BY <1>6
      <4>4. m.prev[r[h]] = At(head, r, h-1)  BY <1>13, <2>1
      <4> QED  BY <2>7, <4>1, <4>2, <4>3, <4>4
    <3> QED  BY <3>1, <3>2
  <2>10. Ring(mem', head, r)  BY <1>1, <2>8, <2>9 DEF Ring
  <2> QED  BY <2>2, <2>6, <2>10
<1> QED  BY <1>14, <1>15

-----------------------------------------------------------------------------
(* The inductive invariant: what is true at each place of the function.    *)

\* The entries from a on are still linked as in the input.
Input(link, a) == \A x \in a..len : link[x] = IF x < len THEN x + 1 ELSE NULL

InLoop ==
  /\ list = count + 1 /\ count \in Nat /\ count < len /\ 2 <= len
  /\ Input(mem.next, count + 1)

AtStart == pending = NULL /\ count = 0 /\ Ring(mem, head, [i \in 1..len |-> i])

AtRound == InLoop /\ \E L, W : Stack(mem, pending, Order, count, 1, L, W, 1..L)

\* Two runs are being merged; the others wait.
Parted == \E L, W : Stack(mem, pending, Order, count, 1, L, W, (1..L) \ {ClearBit+1, ClearBit+2})

AtMerge ==
  /\ InLoop /\ count \div 2^ClearBit # 0 /\ Parted
  /\ Going(mem.next, Order, merging, Pair(count, ClearBit))

AtInstall ==
  /\ InLoop /\ count \div 2^ClearBit # 0 /\ Parted
  /\ Merged(mem.next, Order, merging.head, Pair(count, ClearBit))

\* There is room for a run of one entry.
AtPush == InLoop /\ \E L, W : Stack(mem, pending, Order, count+1, 2, L, W, 2..L)

\* The runs 1, ..., i are one run by now, and those that lo, ..., L number are
\* not in use; the newest one that waits is the run i+1.
Waiting(i, lo, L, W) ==
  /\ count = len /\ 2 <= len /\ i \in Nat \ {0} /\ i + 1 <= lo
  /\ Stack(mem, pending, Order, len, i+1, L, W, lo..L)

Newer(i) == (Edge(len, i) + 1)..len

AtCollect ==
  \E i, L, W : Waiting(i, i+1, L, W) /\ i < L /\ Merged(mem.next, Order, list, Newer(i))

AtCollectMerge ==
  \E i, L, W : Waiting(i, i+2, L, W) /\ i+1 < L /\ Going(mem.next, Order, merging, Newer(i+1))

AtCollected ==
  \E i, L, W : /\ Waiting(i, i+2, L, W) /\ i+1 < L
               /\ Merged(mem.next, Order, merging.head, Newer(i+1))

AtFinal == FinalGoing(mem, Order, merging, 1..len)

AtRest ==
  \E r, k, z : /\ Resting(mem, Order, r, k, 1..len) /\ k < Len(r)
               /\ merging = [a |-> NULL, b |-> r[k+1], tail |-> r[k], head |-> NULL, count |-> z]

AtDone == \E r : Lists(r, 1..len) /\ Sorted(Order, r) /\ Ring(mem, head, r)

SortInv ==
  /\ Data
  /\ \/ pc = "start"         /\ AtStart
     \/ pc = "round"         /\ AtRound
     \/ pc = "merge"         /\ AtMerge
     \/ pc = "install"       /\ AtInstall
     \/ pc = "push"          /\ AtPush
     \/ pc = "collect"       /\ AtCollect
     \/ pc = "collect merge" /\ AtCollectMerge
     \/ pc = "collected"     /\ AtCollected
     \/ pc = "final"         /\ AtFinal
     \/ pc = "rest"          /\ AtRest
     \/ pc = "done"          /\ AtDone

LEMMA DataKept ==
  ASSUME Data, UNCHANGED <<len, key, erratic>>, mem' \in Links
  PROVE  Data' /\ Order' = Order
<1>1. len' = len /\ key' = key /\ erratic' = erratic  OBVIOUS
<1>2. Data'  BY <1>1 DEF Data, Links, CellOrNone, Cells
<1>3. Order' = Order  BY <1>1 DEF Order, Before
<1> QED  BY <1>2, <1>3

LEMMA IdentityLists ==
  ASSUME NEW n \in 0..N, NEW q, q = [i \in 1..n |-> i]
  PROVE  Lists(q, 1..n) /\ Len(q) = n /\ \A i \in 1..n : q[i] = i
<1>1. n \in Nat /\ N \in Nat /\ n <= N  BY SortAssumption
<1>2. q \in Seq(1..N) /\ Len(q) = n /\ \A i \in 1..n : q[i] = i  BY <1>1
<1>3. Lists(q, 1..n)
  <2>1. \A i \in 1..Len(q) : q[i] \in 1..n  BY <1>2
  <2>2. \A i, j \in 1..Len(q) : q[i] = q[j] => i = j  BY <1>2
  <2>3. \A e \in 1..n : \E i \in 1..Len(q) : q[i] = e  BY <1>2
  <2> QED  BY <1>2, <2>1, <2>2, <2>3, ListsIf
<1> QED  BY <1>2, <1>3

LEMMA SortInvInit == Init => SortInv
<1> SUFFICES ASSUME Init PROVE SortInv  OBVIOUS
<1>1. N \in Nat /\ M \in 0..N /\ Keys \subseteq Int /\ NULL \notin Int  BY SortAssumption
<1>2. len \in 0..N /\ len \in Nat /\ erratic \in BOOLEAN
  <2>1. CASE erratic  BY <1>1, <2>1 DEF Init
  <2>2. CASE ~erratic  BY <1>1, <2>2 DEF Init
  <2> QED  BY <2>1, <2>2
<1>3. key \in [1..len -> Int]
  <2>1. CASE erratic
    <3>1. key = [x \in 1..len |-> 0]  BY <2>1 DEF Init
    <3> QED  BY <3>1
  <2>2. CASE ~erratic
    <3>1. key \in [1..len -> Keys]  BY <2>2 DEF Init
    <3> QED  BY <1>1, <3>1
  <2> QED  BY <2>1, <2>2
<1>4. /\ mem = [next |-> mem.next, prev |-> mem.prev]
      /\ mem.next = [x \in Cells |-> IF x < len THEN x + 1 ELSE IF x = len THEN head ELSE NULL]
      /\ mem.prev = [x \in Cells |-> IF x = head THEN len ELSE IF x <= len THEN x - 1 ELSE NULL]
  BY DEF Init
<1>5. mem.next \in [Cells -> CellOrNone] /\ mem.prev \in [Cells -> CellOrNone]
  BY <1>1, <1>2, <1>4 DEF Cells, CellOrNone, head
<1>6. Data
  <2>1. mem \in Links  BY <1>4, <1>5 DEF Links
  <2> QED  BY <1>2, <1>3, <2>1 DEF Data
<1>7. PICK q : q = [i \in 1..len |-> i]  OBVIOUS
<1>8. Len(q) = len /\ \A i \in 1..len : q[i] = i  BY <1>2, <1>7, IdentityLists
<1>9. Ring(mem, head, q)
  <2> SUFFICES ASSUME NEW i \in 0..len
               PROVE  mem.next[At(head, q, i)] = At(head, q, i+1) /\ mem.prev[At(head, q, i+1)] = At(head, q, i)
    BY <1>8 DEF Ring
  <2>1. At(head, q, i) = i /\ At(head, q, i+1) = IF i < len THEN i + 1 ELSE 0
    BY <1>2, <1>8 DEF At, head
  <2>2. i \in Cells /\ (i < len => i + 1 \in Cells) /\ 0 \in Cells  BY <1>1, <1>2 DEF Cells
  <2> QED  BY <1>2, <1>4, <2>1, <2>2 DEF head
<1>10. AtStart  BY <1>7, <1>9 DEF AtStart, Init
<1> QED  BY <1>6, <1>10 DEF SortInv, Init

LEMMA StartStep ==
  ASSUME Data, AtStart, Start
  PROVE  SortInv'
<1>1. PICK q : q = [i \in 1..len |-> i]  OBVIOUS
<1>2. /\ len \in Nat /\ Lists(q, 1..len) /\ Len(q) = len /\ \A i \in 1..len : q[i] = i
  BY <1>1, IdentityLists DEF Data
<1>3. Ring(mem, head, q) /\ count = 0 /\ pending = NULL  BY <1>1 DEF AtStart
<1>4. \A i \in 0..len : mem.next[i] = (IF i < len THEN i + 1 ELSE 0)
  <2> TAKE i \in 0..len
  <2>1. At(head, q, i) = i /\ At(head, q, i+1) = IF i < len THEN i + 1 ELSE 0
    BY <1>2 DEF At, head
  <2> QED  BY <1>2, <1>3, <2>1 DEF Ring
<1>5. mem.prev[0] = len
  <2>1. At(head, q, len) = len /\ At(head, q, len+1) = 0  BY <1>2 DEF At, head
  <2> QED  BY <1>2, <1>3, <2>1 DEF Ring
<1>6. mem.next[0] = mem.prev[0] <=> len < 2
  <2>1. mem.next[0] = IF 0 < len THEN 1 ELSE 0  BY <1>2, <1>4
  <2> QED  BY <1>2, <1>5, <2>1
<1>7. UNCHANGED <<len, key, erratic>>  BY DEF Start
<1>8. CASE len < 2
  <2>1. pc' = "done" /\ mem' = mem  BY <1>6, <1>8 DEF Start, head
  <2>2. Data' /\ Order' = Order  BY <1>7, <2>1, DataKept DEF Data
  <2>3. Sorted(Order, q)
    <3> SUFFICES ASSUME NEW i \in 1..Len(q), NEW j \in 1..Len(q), i < j PROVE FALSE  BY DEF Sorted
    <3> QED  BY <1>2, <1>8
  <2>4. AtDone'  BY <1>2, <1>3, <1>7, <2>1, <2>2, <2>3 DEF AtDone, head
  <2> QED  BY <2>1, <2>2, <2>4 DEF SortInv
<1>9. CASE ~(len < 2)
  <2>1. pc' = "round" /\ mem' = SetNext(mem, len, NULL) /\ list' = 1 /\ count' = 0 /\ pending' = NULL
    <3>1. mem.next[0] # mem.prev[0] /\ mem.next[0] = 1  BY <1>2, <1>4, <1>6, <1>9
    <3> QED  BY <1>3, <1>5, <3>1 DEF Start, Opened, head
  <2>2. /\ mem' \in Links /\ \A x \in 0..len : mem'.next[x] = IF x = len THEN NULL ELSE mem.next[x]
    <3>1. mem.next \in [Cells -> CellOrNone] /\ mem.prev \in [Cells -> CellOrNone]
          /\ 1..len \subseteq Cells /\ 0 \in Cells
      BY DataFacts DEF head
    <3>2. mem'.next = [mem.next EXCEPT ![len] = NULL] /\ mem'.prev = mem.prev
          /\ mem' = [next |-> mem'.next, prev |-> mem'.prev]
      BY <2>1 DEF SetNext
    <3>3. len \in Cells  BY <1>2, <1>9, <3>1
    <3>4. \A x \in 0..len : x \in Cells  BY <1>2, <3>1
    <3>5. mem'.next \in [Cells -> CellOrNone]  BY <3>1, <3>2 DEF CellOrNone
    <3> QED  BY <3>1, <3>2, <3>3, <3>4, <3>5 DEF Links
  <2>3. Data' /\ Order' = Order  BY <1>7, <2>2, DataKept
  <2>4. InLoop'
    <3>1. len' = len  BY <1>7
    <3>2. \A x \in 1..len : mem'.next[x] = IF x < len THEN x + 1 ELSE NULL  BY <1>2, <1>4, <2>2
    <3> QED  BY <1>2, <1>9, <2>1, <3>1, <3>2 DEF InLoop, Input
  <2>5. PICK z : z = 0  OBVIOUS
  <2>6. Stack(mem', pending', Order', z, 1, 0, <<>>, 1..0)
    <3>1. Edge(z, 0) = z  BY <2>5, EdgeType
    <3> QED  BY <2>1, <2>5, <3>1 DEF Stack, Heads, Runs, HeadOf
  <2>7. AtRound'  BY <2>1, <2>4, <2>5, <2>6 DEF AtRound
  <2> QED  BY <2>1, <2>3, <2>7 DEF SortInv
<1> QED  BY <1>8, <1>9

LEMMA MergesTwoRuns ==
  ASSUME NEW link, NEW O, NEW c \in Nat, NEW L \in Nat, Edge(c, L) = 0,
         NEW i \in 1..L, NEW x, Lists(x, Span(c, i)), Chain(link, x), Sorted(O, x),
         NEW S, NEW y, Lists(y, S), Chain(link, y), Sorted(O, y), y # <<>>,
         \A d \in Span(c, i), e \in S : d < e,
         NEW mg, mg = [NoMerge EXCEPT !.a = x[1], !.b = y[1]]
  PROVE  Going(link, O, mg, Span(c, i) \cup S)
<1>1. x # <<>>  BY EntriesFacts, ListsFacts
<1>2. Span(c, i) \subseteq 1..c  BY EntriesFacts
<1>3. Span(c, i) \cap S = {}
  <2> SUFFICES ASSUME NEW d \in Span(c, i), d \in S PROVE FALSE  OBVIOUS
  <2>1. d < d /\ d \in Nat  BY <1>2
  <2> QED  BY <2>1
<1>4. /\ Merging(link, O, <<>>, x, y, Span(c, i) \cup S)
      /\ ToSet(x) = Span(c, i) /\ ToSet(y) = S
  BY <1>3, MergingBegins
<1>5. End(<<>>, NULL) = NULL /\ Lead(<<>>) = NULL  BY DEF End, Lead
<1>6. mg = [a |-> x[1], b |-> y[1], tail |-> NULL, head |-> NULL, count |-> 0]  BY DEF NoMerge
<1>7. \A d \in ToSet(x), e \in ToSet(y) : d < e  BY <1>4, Zenon
<1>8. mg = [a |-> x[1], b |-> y[1], tail |-> End(<<>>, NULL), head |-> Lead(<<>>), count |-> 0]
  BY <1>5, <1>6, Zenon
<1>9. PICK t : t = <<>>  OBVIOUS
<1>10. /\ Merging(link, O, t, x, y, Span(c, i) \cup S)
       /\ mg = [a |-> x[1], b |-> y[1], tail |-> End(t, NULL), head |-> Lead(t), count |-> 0]
  BY <1>4, <1>8, <1>9, Zenon
<1> QED  BY <1>1, <1>7, <1>10 DEF Going

LEMMA RoundStep ==
  ASSUME Data, AtRound, Round
  PROVE  SortInv'
<1>1. /\ list = count + 1 /\ count \in Nat /\ count < len /\ 2 <= len
      /\ Input(mem.next, count + 1) /\ InLoop
  BY DEF AtRound, InLoop
<1>2. PICK L, W : Stack(mem, pending, Order, count, 1, L, W, 1..L)  BY DEF AtRound
<1>3. UNCHANGED <<mem, len, key, erratic, list, pending, count>>  BY DEF Round
<1>4. Data' /\ Order' = Order  BY <1>3, DataKept DEF Data
<1>5. PICK k : k = ClearBit  OBVIOUS
<1>6. IsClear(count, k) /\ k \in 0..count /\ k \in Nat  BY <1>1, <1>5, ClearBitIsClear
<1>7. k' = k /\ ClearBit' = ClearBit  BY <1>3 DEF ClearBit
<1>8. InLoop'  BY <1>1, <1>3 DEF InLoop, Input
<1>9. CASE count \div 2^k = 0
  <2>1. pc' = "push"  BY <1>5, <1>9 DEF Round
  <2>2. \E T, V : Stack(mem, pending, Order, count+1, 2, T, V, 2..T)
    BY <1>1, <1>2, <1>6, <1>9, StackShifts
  <2>3. AtPush'  BY <1>3, <1>4, <1>8, <2>2 DEF AtPush
  <2> QED  BY <1>4, <2>1, <2>3 DEF SortInv
<1>10. CASE count \div 2^k # 0
  <2>1. /\ L \in Nat /\ Edge(count, L) = 0 /\ Heads(mem.prev, W, count, 1, L)
        /\ pending = HeadOf(W, 1, L) /\ Runs(mem.next, Order, W, 1..L)
    BY <1>2 DEF Stack
  <2>2. k + 2 <= L /\ Pair(count, k) \subseteq 1..count
    BY <1>1, <1>6, <1>10, <2>1, PairIsRun
  <2>3. PICK i, j : i = k + 1 /\ j = k + 2 /\ i \in 1..L /\ j \in 1..L /\ j = i + 1 /\ i < j /\ i \in Nat
    BY <1>6, <2>1, <2>2
  <2>4. Pending[i] = W[i][1]  BY <1>1, <2>1, <2>3, PendingIs
  <2>5. mem.prev[W[i][1]] = W[j][1]
    <3>1. mem.prev[W[i][1]] = HeadOf(W, i+1, L)  BY <2>1, <2>3 DEF Heads
    <3>2. HeadOf(W, j, L) = W[j][1]  BY <2>1, <2>3 DEF HeadOf
    <3> QED  BY <2>3, <3>1, <3>2
  <2>6. pc' = "merge" /\ merging' = [NoMerge EXCEPT !.a = W[j][1], !.b = W[i][1]]
    <3>1. Pending[k+1] = W[i][1]  BY <2>3, <2>4
    <3>2. pc' = "merge" /\ BeginMerge(mem.prev[Pending[k+1]], Pending[k+1])
      BY <1>5, <1>10 DEF Round
    <3> QED  BY <2>5, <3>1, <3>2 DEF BeginMerge
  <2>7. /\ Lists(W[i], Span(count, i)) /\ Chain(mem.next, W[i]) /\ Sorted(Order, W[i]) /\ W[i] # <<>>
        /\ Lists(W[j], Span(count, j)) /\ Chain(mem.next, W[j]) /\ Sorted(Order, W[j])
    <3>1. Lists(W[i], Span(count, i)) /\ Lists(W[j], Span(count, j))  BY <2>1, <2>3 DEF Heads
    <3>2. Span(count, i) # {}  BY <1>1, <2>1, <2>3, EntriesFacts
    <3>3. W[i] # <<>>  BY <3>1, <3>2, ListsFacts
    <3> QED  BY <2>1, <2>3, <3>1, <3>3 DEF Runs
  <2>8. \A d \in Span(count, j), e \in Span(count, i) : d < e
    BY <1>1, <2>1, <2>3, EntriesOrder
  <2>9. Going(mem.next, Order, merging', Span(count, j) \cup Span(count, i))
    BY <1>1, <2>1, <2>3, <2>6, <2>7, <2>8, MergesTwoRuns
  <2>10. Span(count, j) \cup Span(count, i) = Pair(count, k)  BY <2>3 DEF Pair
  <2>11. Stack(mem, pending, Order, count, 1, L, W, (1..L) \ {k+1, k+2})
    BY <1>2 DEF Stack, Runs
  <2>12. Parted'  BY <1>3, <1>4, <1>5, <1>7, <2>11 DEF Parted
  <2>13. Going(mem'.next, Order', merging', Pair(count', ClearBit'))
    BY <1>3, <1>4, <1>5, <1>7, <2>9, <2>10
  <2>14. (count \div 2^ClearBit # 0)'  BY <1>3, <1>5, <1>7, <1>10
  <2>15. AtMerge'  BY <1>8, <2>12, <2>13, <2>14 DEF AtMerge
  <2> QED  BY <1>4, <2>6, <2>15 DEF SortInv
<1> QED  BY <1>9, <1>10

\* The entries of a pair are not among those of the other runs or of the input.
LEMMA PartedLeftAlone ==
  ASSUME Data, InLoop, Parted, count \div 2^ClearBit # 0,
         mem'.prev = mem.prev, mem' \in Links, UNCHANGED <<len, key, erratic, list, pending, count>>,
         \A c \in Cells \ Pair(count, ClearBit) : mem'.next[c] = mem.next[c]
  PROVE  InLoop' /\ Parted' /\ ClearBit' = ClearBit /\ Order' = Order /\ Data'
<1>1. /\ list = count + 1 /\ count \in Nat /\ count < len /\ 2 <= len
      /\ Input(mem.next, count + 1)
  BY DEF InLoop
<1>2. PICK k : k = ClearBit  OBVIOUS
<1>3. IsClear(count, k) /\ k \in 0..count /\ k \in Nat  BY <1>1, <1>2, ClearBitIsClear
<1>4. PICK L, W : Stack(mem, pending, Order, count, 1, L, W, (1..L) \ {k+1, k+2})
  BY <1>2 DEF Parted
<1>5. L \in Nat /\ Edge(count, L) = 0  BY <1>4 DEF Stack
<1>6. k + 2 <= L /\ Pair(count, k) \subseteq 1..count
  BY <1>1, <1>2, <1>3, <1>5, PairIsRun
<1>7. /\ len \in Nat /\ 1..len \subseteq Cells  BY DataFacts
<1>8. Data' /\ Order' = Order  BY DataKept
<1>9. ClearBit' = ClearBit  BY DEF ClearBit
<1>10. InLoop'
  <2>1. ASSUME NEW x \in (count+1)..len PROVE mem'.next[x] = mem.next[x]
    <3>1. x \in Cells /\ x \notin 1..count  BY <1>1, <1>7
    <3> QED  BY <1>2, <1>6, <3>1
  <2>2. list' = list /\ count' = count /\ len' = len  OBVIOUS
  <2>3. \A x \in (count+1)..len : mem'.next[x] = IF x < len THEN x + 1 ELSE NULL
    BY <1>1, <2>1 DEF Input
  <2>4. Input(mem.next, count+1)'  BY <2>2, <2>3 DEF Input
  <2> QED  BY <1>1, <2>2, <2>4 DEF InLoop
<1>11. PICK i, j : i = k + 1 /\ j = k + 2 /\ i \in 1..L /\ j \in 1..L  BY <1>3, <1>5, <1>6
<1>12. Stack(mem', pending, Order, count, 1, L, W, (1..L) \ {i, j})
  <2>1. Pair(count, k) = Span(count, j) \cup Span(count, i)  BY <1>11 DEF Pair
  <2>2. ASSUME NEW g \in (1..L) \ {i, j}, NEW e \in Span(count, g)
        PROVE  mem'.next[e] = mem.next[e]
    <3>1. Span(count, g) \subseteq 1..count  BY <1>1, <1>5, EntriesFacts
    <3>2. Span(count, g) \cap Span(count, i) = {} /\ Span(count, g) \cap Span(count, j) = {}
      BY <1>1, <1>5, <1>11, EntriesApart
    <3>3. e \in Cells /\ e \notin Pair(count, k)  BY <1>1, <1>7, <2>1, <3>1, <3>2
    <3> QED  BY <1>2, <3>3
  <2>3. PICK I : I = (1..L) \ {i, j}  OBVIOUS
  <2>4. I \in SUBSET (1..L) /\ Stack(mem, pending, Order, count, 1, L, W, I)
    BY <1>4, <1>11, <2>3
  <2>5. \A g \in I : \A e \in Span(count, g) : mem'.next[e] = mem.next[e]  BY <2>2, <2>3
  <2>6. PICK lo, m, r : lo = 1 /\ lo \in Nat /\ lo > 0 /\ m = mem /\ r = mem'  OBVIOUS
  <2>7. \A g \in lo..L : r.prev[W[g][1]] = m.prev[W[g][1]]  BY <2>6
  <2>8. \A g \in I : \A e \in Span(count, g) : r.next[e] = m.next[e]  BY <2>5, <2>6
  <2>9. I \in SUBSET (lo..L) /\ Stack(m, pending, Order, count, lo, L, W, I)
    BY <2>4, <2>6, Zenon
  <2>10. Stack(r, pending, Order, count, lo, L, W, I)
    BY <1>1, <2>6, <2>7, <2>8, <2>9, StackLeftAlone
  <2> QED  BY <2>3, <2>6, <2>10, Zenon
<1>13. Parted'
  BY <1>2, <1>8, <1>9, <1>11, <1>12 DEF Parted
<1> QED  BY <1>8, <1>9, <1>10, <1>13

LEMMA PairInInput ==
  ASSUME Data, InLoop, Parted, count \div 2^ClearBit # 0
  PROVE  Pair(count, ClearBit) \subseteq 1..len
<1>1. count \in Nat /\ count < len /\ len \in Nat  BY DEF InLoop, Data
<1>2. PICK k : k = ClearBit  OBVIOUS
<1>3. IsClear(count, k)  BY <1>1, <1>2, ClearBitIsClear
<1>4. PICK L, W : Stack(mem, pending, Order, count, 1, L, W, (1..L) \ {k+1, k+2})
  BY <1>2 DEF Parted
<1>5. L \in Nat /\ Edge(count, L) = 0  BY <1>4 DEF Stack
<1>6. Pair(count, k) \subseteq 1..count  BY <1>1, <1>2, <1>3, <1>5, PairIsRun
<1> QED  BY <1>1, <1>2, <1>6

LEMMA MergeStep ==
  ASSUME Data, pc = "merge", AtMerge, MergeTurn
  PROVE  SortInv'
<1>1. InLoop /\ Parted /\ count \div 2^ClearBit # 0 /\ Going(mem.next, Order, merging, Pair(count, ClearBit))
  BY DEF AtMerge
<1>2. PICK S : S = Pair(count, ClearBit)  OBVIOUS
<1>3. S \subseteq 1..len  BY <1>1, <1>2, PairInInput
<1>4. /\ mem' \in Links /\ mem'.prev = mem.prev
      /\ \A c \in Cells \ S : mem'.next[c] = mem.next[c]
      /\ \/ pc' = pc /\ Going(mem'.next, Order, merging', S)
         \/ /\ pc' = IF pc = "merge" THEN "install" ELSE "collected"
            /\ Merged(mem'.next, Order, merging'.head, S)
  BY <1>1, <1>2, <1>3, MergeTurnStep
<1>5. UNCHANGED <<len, key, erratic, list, pending, count>>  BY DEF MergeTurn
<1>6. InLoop' /\ Parted' /\ ClearBit' = ClearBit /\ Order' = Order /\ Data'
  BY <1>1, <1>2, <1>4, <1>5, PartedLeftAlone
<1>7. (count \div 2^ClearBit # 0)' /\ S = Pair(count, ClearBit)'  BY <1>1, <1>2, <1>5, <1>6
<1>8. CASE pc' = pc /\ Going(mem'.next, Order, merging', S)
  <2>1. Going(mem.next, Order, merging, Pair(count, ClearBit))'  BY <1>6, <1>7, <1>8
  <2>2. AtMerge'  BY <1>6, <1>7, <2>1 DEF AtMerge
  <2> QED  BY <1>6, <1>8, <2>2 DEF SortInv
<1>9. CASE pc' = "install" /\ Merged(mem'.next, Order, merging'.head, S)
  <2>1. Merged(mem.next, Order, merging.head, Pair(count, ClearBit))'  BY <1>6, <1>7, <1>9
  <2>2. AtInstall'  BY <1>6, <1>7, <2>1 DEF AtInstall
  <2> QED  BY <1>6, <1>9, <2>2 DEF SortInv
<1> QED  BY <1>4, <1>8, <1>9

LEMMA InstallStep ==
  ASSUME Data, AtInstall, Install
  PROVE  SortInv'
<1>1. /\ list = count + 1 /\ count \in Nat /\ count < len /\ 2 <= len
      /\ Input(mem.next, count + 1) /\ InLoop /\ Parted /\ count \div 2^ClearBit # 0
      /\ Merged(mem.next, Order, merging.head, Pair(count, ClearBit))
  BY DEF AtInstall, InLoop
<1>2. PICK k : k = ClearBit  OBVIOUS
<1>3. IsClear(count, k) /\ k \in 0..count /\ k \in Nat  BY <1>1, <1>2, ClearBitIsClear
<1>4. PICK L, W : Stack(mem, pending, Order, count, 1, L, W, (1..L) \ {k+1, k+2})
  BY <1>1, <1>2 DEF Parted
<1>5. /\ L \in Nat /\ Edge(count, L) = 0 /\ Heads(mem.prev, W, count, 1, L)
      /\ pending = HeadOf(W, 1, L)
  BY <1>4 DEF Stack
<1>6. k + 2 <= L  BY <1>1, <1>2, <1>3, <1>5, PairIsRun
<1>7. PICK i, j : i = k + 1 /\ j = k + 2 /\ i \in 1..L /\ j \in 1..L /\ j = i + 1
  BY <1>3, <1>5, <1>6
<1>8. \A g \in 1..L : Pending[g] = W[g][1]  BY <1>1, <1>5, PendingIs
<1>9. mem.prev[W[i][1]] = W[j][1]
  <2>1. mem.prev[W[i][1]] = HeadOf(W, i+1, L)  BY <1>5, <1>7 DEF Heads
  <2>2. HeadOf(W, j, L) = W[j][1]  BY <1>5, <1>7 DEF HeadOf
  <2> QED  BY <1>7, <2>1, <2>2
<1>10. Pending[k+1] = W[i][1] /\ W[j][1] = W[k+2][1] /\ (k # 0 => Pending[k] = W[k][1])
  <2>1. k # 0 => k \in 1..L  BY <1>3, <1>5, <1>6
  <2> QED  BY <1>7, <1>8, <2>1
<1>11. PICK h : h = merging.head  OBVIOUS
<1>12. PICK m : m = SetPrev(mem, h, mem.prev[W[k+2][1]])  OBVIOUS
<1>13. /\ mem' = IF k = 0 THEN m ELSE SetPrev(m, W[k][1], h)
       /\ pending' = IF k = 0 THEN h ELSE pending
       /\ pc' = "push" /\ UNCHANGED <<len, key, erratic, list, count>>
  <2>1. m = SetPrev(mem, merging.head, mem.prev[mem.prev[Pending[ClearBit+1]]])
    BY <1>2, <1>9, <1>10, <1>11, <1>12
  <2>2. /\ IF k = 0
           THEN mem' = m /\ pending' = h
           ELSE mem' = SetPrev(m, Pending[k], h) /\ pending' = pending
        /\ pc' = "push" /\ UNCHANGED <<len, key, erratic, list, count>>
    BY <1>2, <1>11, <2>1 DEF Install
  <2> QED  BY <1>10, <2>2
<1>14. mem \in Links /\ len \in Nat /\ N \in Nat /\ len <= N  BY DataFacts DEF Data
<1>15. PICK r, new : r = mem' /\ new = pending'  OBVIOUS
<1>16. /\ r \in Links /\ r.next = mem.next
       /\ \E V : Stack(r, new, Order, count+1, 2, L, V, 2..L)
  <2>1. count <= N  BY <1>1, <1>14
  <2>2. Merged(mem.next, Order, h, Pair(count, k))  BY <1>1, <1>2, <1>11
  <2>3. count \div 2^k # 0  BY <1>1, <1>2
  <2>4. r = (IF k = 0 THEN m ELSE SetPrev(m, W[k][1], h)) /\ new = (IF k = 0 THEN h ELSE pending)
    BY <1>13, <1>15
  <2>5. PICK b : b = W[k+2][1]  OBVIOUS
  <2>6. Installing(r, new, m, mem, pending, Order, count, k, L, W, b, h)
    BY <1>1, <1>3, <1>4, <1>12, <1>14, <2>1, <2>2, <2>3, <2>4, <2>5, Zenon DEF Installing
  <2>7. Installed(r, new, mem, Order, count, L)  BY <2>6, StackInstalls
  <2>8. r \in Links /\ r.next = mem.next /\ \E V : Stack(r, new, Order, count+1, 2, L, V, 2..L)
    BY <2>7 DEF Installed
  <2> QED  BY <2>8
<1>17. Data' /\ Order' = Order  BY <1>13, <1>15, <1>16, DataKept
<1>18. InLoop'  BY <1>1, <1>13, <1>15, <1>16 DEF InLoop, Input
<1>19. AtPush'  BY <1>13, <1>15, <1>16, <1>17, <1>18 DEF AtPush
<1> QED  BY <1>13, <1>17, <1>19 DEF SortInv

LEMMA PushStep ==
  ASSUME Data, AtPush, Push
  PROVE  SortInv'
<1>1. /\ list = count + 1 /\ count \in Nat /\ count < len /\ 2 <= len
      /\ Input(mem.next, count + 1)
  BY DEF AtPush, InLoop
<1>2. PICK L, W : Stack(mem, pending, Order, count+1, 2, L, W, 2..L)  BY DEF AtPush
<1>3. mem \in Links /\ len \in Nat /\ N \in Nat /\ len <= N  BY DataFacts DEF Data
<1>4. PICK x : x = count + 1 /\ x \in 1..N /\ x \in Nat  BY <1>1, <1>3
<1>5. PICK r : r = SetNext(SetPrev(mem, x, pending), x, NULL)  OBVIOUS
<1>6. /\ r \in Links /\ \A y \in Cells : y # x => r.next[y] = mem.next[y]
      /\ Stack(r, pending, Order, x, 2, L, W, 2..L) /\ L \in Nat
      /\ count # 0 => L > 1
      /\ Merged(r.next, Order, x, (Edge(x, 1) + 1)..x)
      /\ \E V : Stack(r, x, Order, x, 1, L, V, 1..L)
  <2>1. x <= N /\ count \in Nat  BY <1>1, <1>3, <1>4
  <2>2. Stack(mem, pending, Order, x, 2, L, W, 2..L)  BY <1>2, <1>4, Zenon
  <2>3. Pushed(r, mem, pending, Order, count, x, L, W)
    BY <1>3, <1>4, <1>5, <2>1, <2>2, StackPushes
  <2> QED  BY <2>3 DEF Pushed
<1>7. /\ mem' = r /\ count' = x /\ UNCHANGED <<len, key, erratic>>
      /\ IF mem.next[x] # NULL THEN list' = mem.next[x] /\ pending' = x /\ pc' = "round"
                               ELSE pc' = "collect" /\ list' = x /\ pending' = pending
  BY <1>1, <1>5, <1>4 DEF Push
<1>8. mem.next[x] = (IF x < len THEN x + 1 ELSE NULL) /\ x <= len
  BY <1>1, <1>3, <1>4 DEF Input
<1>9. Data' /\ Order' = Order  BY <1>6, <1>7, DataKept
<1>10. CASE x < len
  <2>1. mem.next[x] = x + 1 /\ mem.next[x] # NULL  BY <1>4, <1>8, <1>10, SortAssumption
  <2>2. list' = x + 1 /\ pending' = x /\ pc' = "round"  BY <1>7, <2>1
  <2>3. ASSUME NEW y \in (x+1)..len PROVE r.next[y] = IF y < len THEN y + 1 ELSE NULL
    <3>1. y \in Cells /\ y # x  BY <1>3, <1>4, SortAssumption DEF Cells
    <3>2. mem.next[y] = IF y < len THEN y + 1 ELSE NULL
      <4>1. y \in (count+1)..len  BY <1>1, <1>3, <1>4
      <4> QED  BY <1>1, <4>1 DEF Input
    <3> QED  BY <1>6, <3>1, <3>2
  <2>4. InLoop'  BY <1>1, <1>4, <1>7, <1>10, <2>2, <2>3 DEF InLoop, Input
  <2>5. AtRound'  BY <1>6, <1>7, <1>9, <2>2, <2>4 DEF AtRound
  <2> QED  BY <1>9, <2>2, <2>5 DEF SortInv
<1>11. CASE ~(x < len)
  <2>1. x = len /\ mem.next[x] = NULL  BY <1>3, <1>4, <1>8, <1>11
  <2>2. pc' = "collect" /\ list' = x /\ pending' = pending /\ count' = x /\ len' = x
    BY <1>7, <2>1
  <2>3. PICK i : i = 1  OBVIOUS
  <2>4. /\ Stack(mem', pending', Order', len', i+1, L, W, (i+1)..L)
        /\ Merged(mem'.next, Order', list', (Edge(len', i) + 1)..len')
    <3>1. i + 1 = 2  BY <2>3
    <3> QED  BY <1>6, <1>7, <1>9, <2>2, <2>3, <3>1, Zenon
  <2>5. Waiting(i, i+1, L, W)'
    <3>1. i \in Nat \ {0} /\ i + 1 <= i + 1  BY <2>3
    <3>2. count' = len' /\ 2 <= len'  BY <1>1, <1>7, <2>2
    <3> QED  BY <2>4, <3>1, <3>2 DEF Waiting
  <2>6. i < L  BY <1>1, <1>4, <1>6, <2>1, <2>3
  <2>7. AtCollect'  BY <2>4, <2>5, <2>6 DEF AtCollect, Newer
  <2> QED  BY <1>9, <2>2, <2>7 DEF SortInv
<1> QED  BY <1>10, <1>11

LEMMA NewerFacts ==
  ASSUME NEW L \in Nat, len \in Nat, Edge(len, L) = 0, NEW i \in Nat, NEW j, j = i + 1, j <= L
  PROVE  /\ Newer(j) = Span(len, j) \cup Newer(i)
         /\ \A d \in Span(len, j), e \in Newer(i) : d < e
         /\ Newer(j) \subseteq 1..len /\ j \in 1..L
<1>1. j \in Nat /\ j \in 1..L /\ j - 1 = i  OBVIOUS
<1>2. /\ Edge(len, j) \in Nat /\ Edge(len, i) \in Nat
      /\ Edge(len, j) < Edge(len, i) /\ Edge(len, i) <= len
      /\ Span(len, j) \subseteq 1..len
  BY <1>1, EntriesFacts, Zenon
<1>3. PICK a, b : a = Edge(len, j) /\ b = Edge(len, i)  OBVIOUS
<1>4. Span(len, j) = (a+1)..b /\ Newer(j) = (a+1)..len /\ Newer(i) = (b+1)..len
  BY <1>1, <1>3 DEF Span, Newer
<1>5. a \in Nat /\ b \in Nat /\ a < b /\ b <= len  BY <1>2, <1>3
<1>6. (a+1)..len = ((a+1)..b) \cup ((b+1)..len)  BY <1>5
<1>7. (a+1)..len \subseteq 1..len  BY <1>5
<1>8. \A d \in (a+1)..b, e \in (b+1)..len : d < e  BY <1>5
<1>9. Newer(j) = Span(len, j) \cup Newer(i)  BY <1>4, <1>6, Zenon
<1>10. \A d \in Span(len, j), e \in Newer(i) : d < e  BY <1>4, <1>8, Zenon
<1> QED  BY <1>1, <1>4, <1>7, <1>9, <1>10

LEMMA CollectStep ==
  ASSUME Data, AtCollect, Collect
  PROVE  SortInv'
<1>1. PICK i, L, W : Waiting(i, i+1, L, W) /\ i < L /\ Merged(mem.next, Order, list, Newer(i))
  BY DEF AtCollect
<1>2. /\ count = len /\ 2 <= len /\ i \in Nat \ {0}
      /\ Stack(mem, pending, Order, len, i+1, L, W, (i+1)..L)
  BY <1>1 DEF Waiting
<1>3. /\ L \in Nat /\ Edge(len, L) = 0 /\ Heads(mem.prev, W, len, i+1, L)
      /\ pending = HeadOf(W, i+1, L) /\ Runs(mem.next, Order, W, (i+1)..L)
  BY <1>2 DEF Stack
<1>4. PICK j : j = i + 1 /\ j \in Nat /\ j <= L /\ j \in j..L /\ j \in 1..L /\ j > 0
  BY <1>1, <1>2, <1>3
<1>5. len \in Nat  BY DataFacts
<1>6. /\ Newer(j) = Span(len, j) \cup Newer(i)
      /\ \A d \in Span(len, j), e \in Newer(i) : d < e
      /\ Newer(j) \subseteq 1..len
  BY <1>2, <1>3, <1>4, <1>5, NewerFacts
<1>7. UNCHANGED <<mem, len, key, erratic, list, pending, count>>  BY DEF Collect
<1>8. Data' /\ Order' = Order  BY <1>7, DataKept DEF Data
<1>9. /\ pending = W[j][1] /\ mem.prev[pending] = HeadOf(W, j+1, L)
      /\ Lists(W[j], Span(len, j)) /\ Chain(mem.next, W[j]) /\ Sorted(Order, W[j])
  BY <1>3, <1>4 DEF Heads, Runs, HeadOf
<1>10. PICK y : /\ Lists(y, Newer(i)) /\ Chain(mem.next, y) /\ Sorted(Order, y)
                /\ y # <<>> /\ y[1] = list
  BY <1>1 DEF Merged
<1>11. CASE j = L
  <2>1. HeadOf(W, j+1, L) = NULL  BY <1>4, <1>11 DEF HeadOf
  <2>2. /\ pc' = "final"
        /\ merging' = [NoMerge EXCEPT !.a = W[j][1], !.b = y[1], !.tail = head]
    BY <1>9, <1>10, <2>1 DEF Collect
  <2>3. PICK x : x = W[j]  OBVIOUS
  <2>4. x # <<>>
    <3>1. Span(len, j) # {}  BY <1>3, <1>4, <1>5, EntriesFacts
    <3> QED  BY <1>9, <2>3, <3>1, ListsFacts
  <2>5. /\ Merging(mem.next, Order, <<>>, x, y, Newer(j))
        /\ ToSet(x) = Span(len, j) /\ ToSet(y) = Newer(i)
    <3>1. Span(len, j) \cap Newer(i) = {}
      <4> SUFFICES ASSUME NEW d \in Span(len, j), d \in Newer(i) PROVE FALSE  OBVIOUS
      <4>1. d < d /\ d \in Nat  BY <1>6
      <4> QED  BY <4>1
    <3> QED  BY <1>6, <1>9, <1>10, <2>3, <3>1, MergingBegins
  <2>6. Newer(j) = 1..len
    <3>1. 0 + 1 = 1  OBVIOUS
    <3> QED  BY <1>3, <1>11, <3>1 DEF Newer
  <2>7. PICK t : t = <<>>  OBVIOUS
  <2>8. Backed(mem, t) /\ End(t, head) = head  BY <2>7 DEF Backed, End
  <2>9. merging' = [a |-> x[1], b |-> y[1], tail |-> End(t, head), head |-> NULL, count |-> 0]
    BY <2>2, <2>3, <2>8 DEF NoMerge
  <2>10. \A d \in ToSet(x), e \in ToSet(y) : d < e  BY <1>6, <2>5, Zenon
  <2>11. Merging(mem.next, Order, t, x, y, 1..len)  BY <2>5, <2>6, <2>7, Zenon
  <2>12. FinalGoing(mem, Order, merging', 1..len)
    BY <1>10, <2>4, <2>8, <2>9, <2>10, <2>11 DEF FinalGoing
  <2>13. AtFinal'  BY <1>7, <1>8, <2>12 DEF AtFinal
  <2> QED  BY <1>8, <2>2, <2>13 DEF SortInv
<1>12. CASE j # L
  <2>1. PICK g : g = j + 1 /\ g \in j..L  BY <1>3, <1>4, <1>12
  <2>2. W[g][1] # NULL
    <3>1. Heads(mem.prev, W, len, j, L)  BY <1>3, <1>4
    <3>2. W[g][1] \in 1..len  BY <1>3, <1>4, <1>5, <2>1, <3>1, HeadFacts
    <3> QED  BY <3>2, SortAssumption
  <2>3. HeadOf(W, j+1, L) # NULL  BY <2>1, <2>2 DEF HeadOf
  <2>4. /\ pc' = "collect merge"
        /\ merging' = [NoMerge EXCEPT !.a = W[j][1], !.b = y[1]]
    BY <1>9, <1>10, <2>3 DEF Collect, BeginMerge
  <2>5. Going(mem.next, Order, merging', Span(len, j) \cup Newer(i))
    <3>1. PICK x : x = W[j]  OBVIOUS
    <3>2. Lists(x, Span(len, j)) /\ Chain(mem.next, x) /\ Sorted(Order, x)  BY <1>9, <3>1
    <3>3. merging' = [NoMerge EXCEPT !.a = x[1], !.b = y[1]]  BY <2>4, <3>1
    <3> QED  BY <1>3, <1>4, <1>5, <1>6, <1>10, <3>2, <3>3, MergesTwoRuns
  <2>6. Waiting(i, i+2, L, W)
    <3>1. /\ i + 1 <= i + 2 /\ (i+2)..L \subseteq (i+1)..L  BY <1>2, <1>3
    <3>2. Runs(mem.next, Order, W, (i+2)..L)  BY <1>3, <3>1 DEF Runs
    <3>3. Stack(mem, pending, Order, len, i+1, L, W, (i+2)..L)  BY <1>3, <3>2 DEF Stack
    <3> QED  BY <1>2, <3>1, <3>3 DEF Waiting
  <2>7. i+1 < L  BY <1>3, <1>4, <1>12
  <2>8. Going(mem.next, Order, merging', Newer(i+1))  BY <1>4, <1>6, <2>5
  <2>9. AtCollectMerge'
    <3>1. Waiting(i, i+2, L, W)'  BY <1>7, <1>8, <2>6 DEF Waiting
    <3>2. Going(mem.next, Order, merging, Newer(i+1))'  BY <1>7, <1>8, <2>8 DEF Newer
    <3> QED  BY <2>7, <3>1, <3>2 DEF AtCollectMerge
  <2> QED  BY <1>8, <2>4, <2>9 DEF SortInv
<1> QED  BY <1>11, <1>12

LEMMA CollectMergeStep ==
  ASSUME Data, pc # "merge", AtCollectMerge, MergeTurn
  PROVE  Data' /\ ((pc' = pc /\ AtCollectMerge') \/ (pc' = "collected" /\ AtCollected'))
<1>1. PICK i, L, W : Waiting(i, i+2, L, W) /\ i+1 < L /\ Going(mem.next, Order, merging, Newer(i+1))
  BY DEF AtCollectMerge
<1>2. /\ count = len /\ 2 <= len /\ i \in Nat \ {0}
      /\ Stack(mem, pending, Order, len, i+1, L, W, (i+2)..L)
  BY <1>1 DEF Waiting
<1>3. L \in Nat /\ Edge(len, L) = 0 /\ len \in Nat  BY <1>2, DataFacts DEF Stack
<1>4. PICK j, S : j = i + 1 /\ S = Newer(j)  OBVIOUS
<1>5. j \in Nat /\ j \in 1..L /\ j > 0 /\ i + 2 = j + 1  BY <1>1, <1>2, <1>3, <1>4
<1>6. S \subseteq 1..len
  <2>1. i \in Nat /\ j = i + 1 /\ j <= L  BY <1>2, <1>3, <1>4, <1>5
  <2>2. Newer(j) \subseteq 1..len  BY <1>3, <2>1, NewerFacts
  <2> QED  BY <1>4, <2>2
<1>7. /\ mem' \in Links /\ mem'.prev = mem.prev
      /\ \A c \in Cells \ S : mem'.next[c] = mem.next[c]
      /\ \/ pc' = pc /\ Going(mem'.next, Order, merging', S)
         \/ /\ pc' = IF pc = "merge" THEN "install" ELSE "collected"
            /\ Merged(mem'.next, Order, merging'.head, S)
  BY <1>1, <1>4, <1>6, MergeTurnStep
<1>8. UNCHANGED <<len, key, erratic, list, pending, count>>  BY DEF MergeTurn
<1>9. Data' /\ Order' = Order  BY <1>7, <1>8, DataKept
<1>10. Stack(mem', pending, Order, len, j, L, W, (j+1)..L)
  <2>1. Stack(mem, pending, Order, len, j, L, W, (j+1)..L)  BY <1>2, <1>4, <1>5
  <2>2. PICK I : I = (j+1)..L  OBVIOUS
  <2>3. I \in SUBSET (j..L)  BY <1>3, <1>5, <2>2
  <2>4. ASSUME NEW g \in I, NEW e \in Span(len, g) PROVE mem'.next[e] = mem.next[e]
    <3>1. g \in 1..L /\ j < g /\ g \in Nat /\ g > j  BY <1>3, <1>5, <2>2
    <3>2. Span(len, g) \subseteq 1..len  BY <1>3, <3>1, EntriesFacts
    <3>3. e \notin S
      <4>1. PICK h \in Nat : g = h + 1 /\ j <= h  BY <1>5, <3>1
      <4>2. e <= Edge(len, h) /\ e \in Int
        <5>1. g - 1 = h  BY <3>1, <4>1
        <5>2. Span(len, g) = (Edge(len, g) + 1)..Edge(len, h)  BY <5>1 DEF Span
        <5>3. Edge(len, g) \in Int /\ Edge(len, h) \in Int  BY <1>3, <3>1, <4>1, EdgeType
        <5> QED  BY <5>2, <5>3
      <4>3. Edge(len, j) - Edge(len, h) >= h - j  BY <1>3, <1>5, <4>1, EdgesOrder
      <4>4. Edge(len, j) \in Int /\ Edge(len, h) \in Int  BY <1>3, <1>5, <4>1, EdgeType
      <4>5. e <= Edge(len, j)  BY <1>5, <4>1, <4>2, <4>3, <4>4
      <4> QED  BY <1>3, <1>4, <4>2, <4>4, <4>5 DEF Newer
    <3>4. e \in Cells  BY <3>2, DataFacts
    <3> QED  BY <1>7, <3>3, <3>4
  <2>5. Stack(mem, pending, Order, len, j, L, W, I)  BY <2>1, <2>2
  <2>6. \A g \in j..L : mem'.prev[W[g][1]] = mem.prev[W[g][1]]  BY <1>7
  <2>7. \A g \in I : \A e \in Span(len, g) : mem'.next[e] = mem.next[e]  BY <2>4
  <2>8. Stack(mem', pending, Order, len, j, L, W, I)
    BY <1>3, <1>5, <2>3, <2>5, <2>6, <2>7, StackLeftAlone
  <2> QED  BY <2>2, <2>8
<1>11. Waiting(i, i+2, L, W)'
  <2>1. i + 1 <= i + 2  BY <1>2
  <2>2. Stack(mem, pending, Order, len, i+1, L, W, (i+2)..L)'
    BY <1>4, <1>5, <1>8, <1>9, <1>10
  <2> QED  BY <1>2, <1>8, <2>1, <2>2 DEF Waiting
<1>12. S = Newer(i+1)'  BY <1>4, <1>8 DEF Newer
<1>13. CASE pc' = pc /\ Going(mem'.next, Order, merging', S)
  <2>1. Going(mem.next, Order, merging, Newer(i+1))'  BY <1>9, <1>12, <1>13
  <2>2. AtCollectMerge'  BY <1>1, <1>11, <2>1 DEF AtCollectMerge
  <2> QED  BY <1>9, <1>13, <2>2
<1>14. CASE pc' = "collected" /\ Merged(mem'.next, Order, merging'.head, S)
  <2>1. Merged(mem.next, Order, merging.head, Newer(i+1))'  BY <1>9, <1>12, <1>14
  <2>2. AtCollected'  BY <1>1, <1>11, <2>1 DEF AtCollected
  <2> QED  BY <1>9, <1>14, <2>2
<1> QED  BY <1>7, <1>13, <1>14

LEMMA CollectedStep ==
  ASSUME Data, AtCollected, Collected
  PROVE  SortInv'
<1>1. PICK i, L, W : /\ Waiting(i, i+2, L, W) /\ i+1 < L
                     /\ Merged(mem.next, Order, merging.head, Newer(i+1))
  BY DEF AtCollected
<1>2. /\ count = len /\ 2 <= len /\ i \in Nat \ {0}
      /\ Stack(mem, pending, Order, len, i+1, L, W, (i+2)..L)
  BY <1>1 DEF Waiting
<1>3. PICK j : j = i + 1 /\ j \in Nat \ {0} /\ j + 1 = i + 2  BY <1>2
<1>4. /\ L \in Nat /\ Edge(len, L) = 0 /\ Heads(mem.prev, W, len, j, L)
      /\ pending = HeadOf(W, j, L) /\ Runs(mem.next, Order, W, (j+1)..L) /\ j < L
  BY <1>1, <1>2, <1>3 DEF Stack
<1>5. /\ UNCHANGED <<mem, len, key, erratic, count>> /\ pc' = "collect"
      /\ list' = merging.head /\ pending' = mem.prev[pending]
  BY DEF Collected
<1>6. Data' /\ Order' = Order  BY <1>5, DataKept DEF Data
<1>7. pending' = HeadOf(W, j+1, L)
  <2>1. j \in j..L /\ j <= L  BY <1>3, <1>4
  <2> QED  BY <1>4, <1>5, <2>1 DEF Heads, HeadOf
<1>8. Heads(mem.prev, W, len, j+1, L)
  <2>1. (j+1)..L \subseteq j..L  BY <1>3, <1>4
  <2> QED  BY <1>4, <2>1 DEF Heads
<1>9. Stack(mem, pending', Order, len, j+1, L, W, (j+1)..L)  BY <1>4, <1>7, <1>8 DEF Stack
<1>10. Waiting(j, j+1, L, W)'  BY <1>2, <1>3, <1>5, <1>6, <1>9 DEF Waiting
<1>11. Merged(mem.next, Order, list, Newer(j))'  BY <1>1, <1>3, <1>5, <1>6 DEF Newer
<1>12. AtCollect'  BY <1>4, <1>10, <1>11 DEF AtCollect
<1> QED  BY <1>5, <1>6, <1>12 DEF SortInv

LEMMA FinalStep ==
  ASSUME Data, pc = "final", AtFinal, FinalTurn
  PROVE  SortInv'
<1>1. PICK S : S = 1..len /\ S \subseteq 1..len  OBVIOUS
<1>2. FinalGoing(mem, Order, merging, S)  BY <1>1 DEF AtFinal
<1>3. /\ mem' \in Links
      /\ \/ pc' = pc /\ FinalGoing(mem', Order, merging', S)
         \/ /\ pc' = "rest"
            /\ \E r, k, z : /\ Resting(mem', Order, r, k, S) /\ k < Len(r)
                            /\ merging' = [a |-> NULL, b |-> r[k+1], tail |-> r[k],
                                           head |-> NULL, count |-> z]
  BY <1>1, <1>2, FinalTurnStep
<1>4. UNCHANGED <<len, key, erratic, list, pending, count>>  BY DEF FinalTurn
<1>5. Data' /\ Order' = Order /\ S = (1..len)'  BY <1>1, <1>3, <1>4, DataKept
<1>6. CASE pc' = pc /\ FinalGoing(mem', Order, merging', S)
  <2>1. AtFinal'  BY <1>5, <1>6 DEF AtFinal
  <2> QED  BY <1>5, <1>6, <2>1 DEF SortInv
<1>7. CASE /\ pc' = "rest"
           /\ \E r, k, z : /\ Resting(mem', Order, r, k, S) /\ k < Len(r)
                           /\ merging' = [a |-> NULL, b |-> r[k+1], tail |-> r[k],
                                          head |-> NULL, count |-> z]
  <2>1. AtRest'  BY <1>5, <1>7 DEF AtRest
  <2> QED  BY <1>5, <1>7, <2>1 DEF SortInv
<1> QED  BY <1>3, <1>6, <1>7

LEMMA RestStep ==
  ASSUME Data, pc = "rest", AtRest, FinalRest
  PROVE  SortInv'
<1>1. PICK S : S = 1..len /\ S \subseteq 1..len  OBVIOUS
<1>2. PICK r, k, z :
        /\ Resting(mem, Order, r, k, S) /\ k < Len(r)
        /\ merging = [a |-> NULL, b |-> r[k+1], tail |-> r[k], head |-> NULL, count |-> z]
  BY <1>1 DEF AtRest
<1>3. /\ mem' \in Links
      /\ \/ /\ pc' = pc
            /\ \E y : /\ Resting(mem', Order, r, k+1, S) /\ k+1 < Len(r)
                      /\ merging' = [a |-> NULL, b |-> r[k+1+1], tail |-> r[k+1],
                                     head |-> NULL, count |-> y]
         \/ pc' = "done" /\ Ring(mem', head, r)
  BY <1>1, <1>2, FinalRestStep
<1>4. UNCHANGED <<len, key, erratic, list, pending, count>>  BY DEF FinalRest
<1>5. Data' /\ Order' = Order /\ S = (1..len)'  BY <1>1, <1>3, <1>4, DataKept
<1>6. CASE /\ pc' = pc
           /\ \E y : /\ Resting(mem', Order, r, k+1, S) /\ k+1 < Len(r)
                     /\ merging' = [a |-> NULL, b |-> r[k+1+1], tail |-> r[k+1],
                                    head |-> NULL, count |-> y]
  <2>1. PICK j, y : /\ j = k + 1 /\ Resting(mem', Order, r, j, S) /\ j < Len(r)
                    /\ merging' = [a |-> NULL, b |-> r[j+1], tail |-> r[j],
                                   head |-> NULL, count |-> y]
    BY <1>6
  <2>2. AtRest'  BY <1>5, <2>1 DEF AtRest
  <2> QED  BY <1>5, <1>6, <2>2 DEF SortInv
<1>7. CASE pc' = "done" /\ Ring(mem', head, r)
  <2>1. Lists(r, S) /\ Sorted(Order, r)  BY <1>2 DEF Resting
  <2>2. AtDone'  BY <1>5, <1>7, <2>1 DEF AtDone, head
  <2> QED  BY <1>5, <1>7, <2>2 DEF SortInv
<1> QED  BY <1>3, <1>6, <1>7

LEMMA SortInvNext == SortInv /\ [Next]_vars => SortInv'
<1> SUFFICES ASSUME SortInv, [Next]_vars PROVE SortInv'  OBVIOUS
<1>1. Data  BY DEF SortInv
<1>2. CASE Start      BY <1>1, <1>2, StartStep DEF SortInv, Start
<1>3. CASE Round      BY <1>1, <1>3, RoundStep DEF SortInv, Round
<1>4. CASE MergeTurn
  <2>1. CASE pc = "merge" /\ AtMerge  BY <1>1, <1>4, <2>1, MergeStep
  <2>2. CASE pc = "collect merge" /\ AtCollectMerge
    <3>1. pc # "merge"  BY <2>2, Zenon
    <3>2. Data' /\ ((pc' = pc /\ AtCollectMerge') \/ (pc' = "collected" /\ AtCollected'))
      BY <1>1, <1>4, <2>2, <3>1, CollectMergeStep, Zenon
    <3> QED  BY <2>2, <3>2, Zenon DEF SortInv
  <2> QED  BY <1>4, <2>1, <2>2, Zenon DEF SortInv, MergeTurn
<1>5. CASE Install    BY <1>1, <1>5, InstallStep DEF SortInv, Install
<1>6. CASE Push       BY <1>1, <1>6, PushStep DEF SortInv, Push
<1>7. CASE Collect    BY <1>1, <1>7, CollectStep DEF SortInv, Collect
<1>8. CASE Collected  BY <1>1, <1>8, CollectedStep DEF SortInv, Collected
<1>9. CASE FinalTurn  BY <1>1, <1>9, FinalStep DEF SortInv, FinalTurn
<1>10. CASE FinalRest BY <1>1, <1>10, RestStep DEF SortInv, FinalRest
<1>11. CASE UNCHANGED vars
  <2>1. /\ mem' = mem /\ len' = len /\ key' = key /\ erratic' = erratic /\ pc' = pc
        /\ list' = list /\ pending' = pending /\ count' = count /\ merging' = merging
    BY <1>11 DEF vars
  <2>2. Data' /\ Order' = Order  BY <1>1, <2>1, DataKept DEF Data
  <2>3. ClearBit' = ClearBit  BY <2>1 DEF ClearBit
  <2>4. InLoop' = InLoop  BY <2>1 DEF InLoop, Input
  <2>5. CASE pc = "start" /\ AtStart
    BY <2>1, <2>2, <2>5 DEF SortInv, AtStart, head
  <2>6. CASE pc = "round" /\ AtRound
    BY <2>1, <2>2, <2>4, <2>6 DEF SortInv, AtRound
  <2>7. CASE pc = "merge" /\ AtMerge
    BY <2>1, <2>2, <2>3, <2>4, <2>7 DEF SortInv, AtMerge, Parted
  <2>8. CASE pc = "install" /\ AtInstall
    BY <2>1, <2>2, <2>3, <2>4, <2>8 DEF SortInv, AtInstall, Parted
  <2>9. CASE pc = "push" /\ AtPush
    BY <2>1, <2>2, <2>4, <2>9 DEF SortInv, AtPush
  <2>10. CASE pc = "collect" /\ AtCollect
    BY <2>1, <2>2, <2>10 DEF SortInv, AtCollect, Waiting, Newer
  <2>11. CASE pc = "collect merge" /\ AtCollectMerge
    BY <2>1, <2>2, <2>11 DEF SortInv, AtCollectMerge, Waiting, Newer
  <2>12. CASE pc = "collected" /\ AtCollected
    BY <2>1, <2>2, <2>12 DEF SortInv, AtCollected, Waiting, Newer
  <2>13. CASE pc = "final" /\ AtFinal  BY <2>1, <2>2, <2>13 DEF SortInv, AtFinal
  <2>14. CASE pc = "rest" /\ AtRest  BY <2>1, <2>2, <2>14 DEF SortInv, AtRest
  <2>15. CASE pc = "done" /\ AtDone  BY <2>1, <2>2, <2>15 DEF SortInv, AtDone, head
  <2> QED  BY <2>5, <2>6, <2>7, <2>8, <2>9, <2>10, <2>11, <2>12, <2>13, <2>14, <2>15 DEF SortInv
<1> QED  BY <1>2, <1>3, <1>4, <1>5, <1>6, <1>7, <1>8, <1>9, <1>10, <1>11 DEF Next

-----------------------------------------------------------------------------
(* What the invariant says of the four properties.                         *)

LEMMA SortInvSorted == SortInv => SortedAndStable
<1> SUFFICES ASSUME SortInv, pc = "done"
             PROVE  LET s == list_for_each(mem, head)
                    IN  /\ ToSet(s) = 1..len /\ Len(s) = len
                        /\ list_for_each_prev(mem, head) = Reverse(s)
                        /\ erratic \/ IsOrdered(s)
  BY DEF SortedAndStable
<1>1. Data /\ AtDone  BY DEF SortInv
<1>2. PICK r : Lists(r, 1..len) /\ Sorted(Order, r) /\ Ring(mem, head, r)  BY <1>1 DEF AtDone
<1>3. /\ len \in Nat /\ N \in Nat /\ head \in Cells
      /\ mem.next \in [Cells -> CellOrNone] /\ mem.prev \in [Cells -> CellOrNone]
  BY <1>1, DataFacts
<1>4. ToSet(r) = 1..len /\ Len(r) = len
  <2>1. PICK a, b : a = 0 /\ b = len /\ a \in Int /\ b \in Int /\ a <= b /\ a + 1 = 1  BY <1>3
  <2>2. Lists(r, (a+1)..b)  BY <1>2, <2>1
  <2>3. Len(r) = b - a  BY <2>1, <2>2, ListsInterval
  <2> QED  BY <1>2, <1>3, <2>1, <2>3 DEF Lists
<1>5. Circle(Cells, head, r)
  <2>1. 1..N \subseteq Cells /\ head \notin 1..N  BY <1>3 DEF Cells, head
  <2>2. r \in Seq(1..N) /\ IsInjective(r)  BY <1>2 DEF Lists
  <2>3. Len(r) \in Nat /\ \A i \in 1..Len(r) : r[i] \in 1..N  BY <2>2, LenProperties, ElementOfSeq
  <2>4. \A i, j \in 1..Len(r) : r[i] = r[j] => i = j  BY <1>2, ListsFacts
  <2>5. r \in Seq(Cells)
    <3>1. PICK n \in Nat : n = Len(r)  BY <2>3
    <3>2. r \in [1..n -> 1..N]  BY <2>2, <3>1, LenProperties
    <3>3. r \in [1..n -> Cells]  BY <2>1, <3>2
    <3> QED  BY <3>1, <3>3, SeqDef
  <2>6. head \notin ToSet(r)
    <3>1. 0 \notin 1..len  BY <1>3
    <3> QED  BY <1>4, <3>1 DEF head
  <2> QED  BY <1>3, <2>1, <2>2, <2>3, <2>4, <2>5, <2>6 DEF Circle
<1>6. IsFiniteSet(Cells)
  <2>1. PICK a, b : a = 0 /\ b = N /\ a \in Int /\ b \in Int  BY <1>3
  <2>2. IsFiniteSet(a..b)  BY <2>1, FS_Interval
  <2> QED  BY <2>1, <2>2 DEF Cells
<1>7. list_for_each(mem, head) = r /\ list_for_each_prev(mem, head) = Reverse(r)
  BY <1>2, <1>3, <1>5, <1>6, CircleLoops
<1>8. erratic \/ IsOrdered(r)  BY <1>2 DEF Sorted, Order, IsOrdered
<1> QED  BY <1>4, <1>7, <1>8

LEMMA MergingInOrder ==
  ASSUME Data, AtMerge \/ AtCollectMerge \/ AtFinal
  PROVE  merging.a \in 1..len /\ merging.b \in 1..len /\ merging.a < merging.b
<1>1. AtMerge \/ AtCollectMerge \/ AtFinal  OBVIOUS
<1>2. len \in Nat /\ Data  BY DataFacts
<1>3. ASSUME NEW S, S \subseteq 1..len, NEW t, NEW x, NEW y, Merging(mem.next, Order, t, x, y, S),
             x # <<>>, y # <<>>, \A d \in ToSet(x), e \in ToSet(y) : d < e
      PROVE  x[1] \in 1..len /\ y[1] \in 1..len /\ x[1] < y[1]
  <2>1. Lists(x, ToSet(x)) /\ Lists(y, ToSet(y))  BY <1>3 DEF Merging
  <2>2. x[1] \in ToSet(x) /\ y[1] \in ToSet(y)
    <3>1. 1 \in 1..Len(x) /\ 1 \in 1..Len(y)  BY <1>3, <2>1, ListsFacts
    <3> QED  BY <2>1, <3>1, ListsFacts
  <2>3. ToSet(x) \subseteq 1..len /\ ToSet(y) \subseteq 1..len  BY <1>3 DEF Merging
  <2> QED  BY <1>3, <2>2, <2>3
<1>4. ASSUME NEW S, S \subseteq 1..len, Going(mem.next, Order, merging, S)
      PROVE  merging.a \in 1..len /\ merging.b \in 1..len /\ merging.a < merging.b
  <2>1. PICK t, x, y :
          /\ Merging(mem.next, Order, t, x, y, S) /\ x # <<>> /\ y # <<>>
          /\ \A d \in ToSet(x), e \in ToSet(y) : d < e
          /\ merging = [a |-> x[1], b |-> y[1], tail |-> End(t, NULL), head |-> Lead(t), count |-> 0]
    BY <1>4 DEF Going
  <2>2. x[1] \in 1..len /\ y[1] \in 1..len /\ x[1] < y[1]  BY <1>3, <1>4, <2>1
  <2>3. merging.a = x[1] /\ merging.b = y[1]  BY <2>1
  <2> QED  BY <2>2, <2>3
<1>5. ASSUME NEW S, S \subseteq 1..len, FinalGoing(mem, Order, merging, S)
      PROVE  merging.a \in 1..len /\ merging.b \in 1..len /\ merging.a < merging.b
  <2>1. PICK t, x, y :
          /\ Merging(mem.next, Order, t, x, y, S) /\ x # <<>> /\ y # <<>>
          /\ \A d \in ToSet(x), e \in ToSet(y) : d < e
          /\ merging = [a |-> x[1], b |-> y[1], tail |-> End(t, head), head |-> NULL, count |-> 0]
    BY <1>5 DEF FinalGoing
  <2>2. x[1] \in 1..len /\ y[1] \in 1..len /\ x[1] < y[1]  BY <1>3, <1>5, <2>1
  <2>3. merging.a = x[1] /\ merging.b = y[1]  BY <2>1
  <2> QED  BY <2>2, <2>3
<1>6. CASE AtMerge
  <2>1. PICK S : S = Pair(count, ClearBit)  OBVIOUS
  <2>2. Going(mem.next, Order, merging, S) /\ S \subseteq 1..len
    BY <1>2, <1>6, <2>1, PairInInput DEF AtMerge
  <2> QED  BY <1>4, <2>2
<1>7. CASE AtCollectMerge
  <2>1. PICK i, L, W : Waiting(i, i+2, L, W) /\ i+1 < L /\ Going(mem.next, Order, merging, Newer(i+1))
    BY <1>7 DEF AtCollectMerge
  <2>2. i \in Nat /\ L \in Nat /\ Edge(len, L) = 0  BY <2>1 DEF Waiting, Stack
  <2>3. PICK j, S : j = i + 1 /\ S = Newer(j)  OBVIOUS
  <2>4. j <= L  BY <2>1, <2>2, <2>3
  <2>5. Newer(j) \subseteq 1..len  BY <1>2, <2>2, <2>3, <2>4, NewerFacts
  <2>6. Going(mem.next, Order, merging, S) /\ S \subseteq 1..len  BY <2>1, <2>3, <2>5
  <2> QED  BY <1>4, <2>6
<1>8. CASE AtFinal
  <2>1. PICK S : S = 1..len  OBVIOUS
  <2>2. FinalGoing(mem, Order, merging, S) /\ S \subseteq 1..len  BY <1>8, <2>1 DEF AtFinal
  <2> QED  BY <1>5, <2>2
<1> QED  BY <1>1, <1>6, <1>7, <1>8

\* The callback of merge_final() is about an entry that is still to be linked back.
LEMMA RestingEntry ==
  ASSUME AtRest
  PROVE  merging.b \in 1..len
<1>1. PICK r, k, z :
        /\ Resting(mem, Order, r, k, 1..len) /\ k < Len(r)
        /\ merging = [a |-> NULL, b |-> r[k+1], tail |-> r[k], head |-> NULL, count |-> z]
  BY DEF AtRest
<1>2. Lists(r, 1..len) /\ k \in 1..Len(r)  BY <1>1 DEF Resting
<1>3. Len(r) \in Nat /\ \A i \in 1..Len(r) : r[i] \in 1..len  BY <1>2, ListsFacts
<1>4. k + 1 \in 1..Len(r)  BY <1>1, <1>2, <1>3
<1> QED  BY <1>1, <1>3, <1>4

LEMMA SortInvFirst == SortInv => FirstInInputIsFirstArgument
<1> SUFFICES ASSUME SortInv, NEW c \in CmpCalls
             PROVE  /\ c \in (1..len) \X (1..len)
                    /\ c[1] < c[2] \/ (c[1] = c[2] /\ pc = "rest")
  BY DEF FirstInInputIsFirstArgument
<1>1. CASE pc \in {"merge", "collect merge", "final"}
  <2>1. Data /\ (AtMerge \/ AtCollectMerge \/ AtFinal)  BY <1>1, Zenon DEF SortInv
  <2>2. merging.a \in 1..len /\ merging.b \in 1..len /\ merging.a < merging.b
    BY <2>1, MergingInOrder
  <2>3. c = <<merging.a, merging.b>>  BY <1>1, Zenon DEF CmpCalls
  <2> QED  BY <2>2, <2>3
<1>2. CASE pc \notin {"merge", "collect merge", "final"}
  <2>1. pc = "rest" /\ c = <<merging.b, merging.b>>  BY <1>2, Zenon DEF CmpCalls
  <2>2. AtRest  BY <2>1, Zenon DEF SortInv
  <2>3. merging.b \in 1..len  BY <2>2, RestingEntry
  <2> QED  BY <2>1, <2>3
<1> QED  BY <1>1, <1>2

\* What Run() finds of a pending run, and how long it is.
LEMMA PendingRun ==
  ASSUME NEW c \in Nat, NEW L \in Nat, Edge(c, L) = 0, NEW g \in 1..L,
         NEW w, Lists(w, Span(c, g)), NEW link, Chain(link, w), NEW h \in Nat, g = h + 1
  PROVE  Run(link, w[1]) = w /\ ToSet(w) = Span(c, g) /\ Len(w) = Edge(c, h) - Edge(c, g)
<1>1. Span(c, g) # {}  BY EntriesFacts
<1>2. w # <<>>  BY <1>1, ListsFacts
<1>3. Run(link, w[1]) = w
  <2>1. Lead(w) = w[1]  BY <1>2 DEF Lead
  <2>2. Run(link, Lead(w)) = w  BY RunFacts
  <2> QED  BY <2>1, <2>2, Zenon
<1>4. PICK a, b : a = Edge(c, g) /\ b = Edge(c, h)  OBVIOUS
<1>5. a \in Int /\ b \in Int /\ a <= b
  <2>1. g \in Nat  OBVIOUS
  <2>2. Edge(c, h+1) < Edge(c, h)  BY EdgesDescend
  <2>3. h + 1 = g  OBVIOUS
  <2>4. a < b  BY <1>4, <2>2, <2>3
  <2>5. a \in Int /\ b \in Int  BY <1>4, <2>1, EdgeType
  <2> QED  BY <2>4, <2>5
<1>6. Lists(w, (a+1)..b)
  <2>1. g - 1 = h  OBVIOUS
  <2> QED  BY <1>4, <2>1 DEF Span
<1>7. Len(w) = b - a  BY <1>5, <1>6, ListsInterval
<1>8. ToSet(w) = Span(c, g)  BY ListsItself
<1> QED  BY <1>3, <1>4, <1>7, <1>8

LEMMA BalancedInRound ==
  ASSUME Data, AtRound, count \div 2^ClearBit # 0, NEW i \in 1..2
  PROVE  Len(Run(mem.next, Pending[ClearBit + i])) = 2^ClearBit
<1>1. count \in Nat  BY DEF AtRound, InLoop
<1>2. PICK L, W : Stack(mem, pending, Order, count, 1, L, W, 1..L)  BY DEF AtRound
<1>3. /\ L \in Nat /\ Edge(count, L) = 0 /\ Heads(mem.prev, W, count, 1, L)
      /\ pending = HeadOf(W, 1, L) /\ Runs(mem.next, Order, W, 1..L)
  BY <1>2 DEF Stack
<1>4. PICK k : k = ClearBit  OBVIOUS
<1>5. IsClear(count, k) /\ k \in Nat /\ count \div 2^k # 0  BY <1>1, <1>4, ClearBitIsClear
<1>6. /\ k + 2 <= L
      /\ Edge(count, k) - Edge(count, k+1) = 2^k /\ Edge(count, k+1) - Edge(count, k+2) = 2^k
  BY <1>1, <1>3, <1>5, TwoToMerge
<1>7. PICK g, h : g = k + i /\ h = k + i - 1 /\ g \in 1..L /\ h \in Nat /\ g = h + 1
  BY <1>3, <1>5, <1>6
<1>8. Pending[g] = W[g][1]  BY <1>1, <1>3, <1>7, PendingIs
<1>9. Lists(W[g], Span(count, g)) /\ Chain(mem.next, W[g])  BY <1>3, <1>7 DEF Heads, Runs
<1>10. Run(mem.next, W[g][1]) = W[g] /\ Len(W[g]) = Edge(count, h) - Edge(count, g)
  BY <1>1, <1>3, <1>7, <1>9, PendingRun
<1>11. Edge(count, h) - Edge(count, g) = 2^k
  <2>1. CASE i = 1
    <3>1. h = k /\ g = k + 1  BY <1>5, <1>7, <2>1
    <3> QED  BY <1>6, <3>1
  <2>2. CASE i = 2
    <3>1. h = k + 1 /\ g = k + 2  BY <1>5, <1>7, <2>2
    <3> QED  BY <1>6, <3>1
  <2> QED  BY <2>1, <2>2
<1>12. Len(Run(mem.next, Pending[g])) = 2^k  BY <1>8, <1>10, <1>11
<1> QED  BY <1>4, <1>7, <1>12, Zenon

LEMMA BalancedInCollect ==
  ASSUME Data, AtCollect
  PROVE  LET Size(x) == Len(Run(mem.next, x))
         IN  Size(pending) <= 2 * Size(list) /\ Size(list) < 2 * Size(pending)
<1>1. PICK i, L, W : Waiting(i, i+1, L, W) /\ i < L /\ Merged(mem.next, Order, list, Newer(i))
  BY DEF AtCollect
<1>2. /\ count = len /\ 2 <= len /\ i \in Nat \ {0}
      /\ Stack(mem, pending, Order, len, i+1, L, W, (i+1)..L)
  BY <1>1 DEF Waiting
<1>3. /\ L \in Nat /\ Edge(len, L) = 0 /\ Heads(mem.prev, W, len, i+1, L)
      /\ pending = HeadOf(W, i+1, L) /\ Runs(mem.next, Order, W, (i+1)..L)
  BY <1>2 DEF Stack
<1>4. PICK j : j = i + 1 /\ j \in Nat /\ j <= L /\ j \in j..L /\ j \in 1..L
  BY <1>1, <1>2, <1>3
<1>5. len \in Nat  BY DataFacts
<1>6. /\ pending = W[j][1] /\ Lists(W[j], Span(len, j)) /\ Chain(mem.next, W[j])
  BY <1>3, <1>4 DEF Heads, Runs, HeadOf
<1>7. Run(mem.next, pending) = W[j] /\ Len(W[j]) = Edge(len, i) - Edge(len, j)
  BY <1>2, <1>3, <1>4, <1>5, <1>6, PendingRun
<1>8. PICK y : /\ Lists(y, Newer(i)) /\ Chain(mem.next, y) /\ y # <<>> /\ y[1] = list
  BY <1>1 DEF Merged
<1>9. Run(mem.next, list) = y
  <2>1. Lead(y) = list  BY <1>8 DEF Lead
  <2>2. Run(mem.next, Lead(y)) = y  BY <1>8, RunFacts
  <2> QED  BY <2>1, <2>2, Zenon
<1>10. PICK a, b, s : a = Edge(len, i) /\ b = len /\ s = Edge(len, j)  OBVIOUS
<1>11. a \in Int /\ b \in Int /\ a <= b /\ s \in Int  BY <1>2, <1>4, <1>5, <1>10, EdgeType
<1>12. Len(y) = b - a
  <2>1. Lists(y, (a+1)..b)  BY <1>8, <1>10 DEF Newer
  <2> QED  BY <1>11, <2>1, ListsInterval
<1>13. a - s <= 2 * (b - a) /\ b - a < 2 * (a - s)
  <2>1. /\ Edge(len, i) - Edge(len, i+1) <= 2 * (len - Edge(len, i))
        /\ len - Edge(len, i) < 2 * (Edge(len, i) - Edge(len, i+1))
    BY <1>2, <1>5, BalancedEdges
  <2> QED  BY <1>4, <1>10, <2>1
<1>14. Len(W[j]) = a - s  BY <1>7, <1>10
<1> QED  BY <1>7, <1>9, <1>12, <1>13, <1>14

LEMMA SortInvBalanced == SortInv => MergesAreBalanced
<1> SUFFICES ASSUME SortInv PROVE MergesAreBalanced  OBVIOUS
<1>1. Data /\ (pc = "round" => AtRound) /\ (pc = "collect" => AtCollect)  BY DEF SortInv
<1>2. pc = "round" /\ count \div 2^ClearBit # 0 =>
        \A i \in 1..2 : Len(Run(mem.next, Pending[ClearBit + i])) = 2^ClearBit
  BY <1>1, BalancedInRound
<1>3. pc = "collect" => /\ Len(Run(mem.next, pending)) <= 2 * Len(Run(mem.next, list))
                        /\ Len(Run(mem.next, list)) < 2 * Len(Run(mem.next, pending))
  BY <1>1, BalancedInCollect
<1> QED  BY <1>2, <1>3 DEF MergesAreBalanced

-----------------------------------------------------------------------------
(* The sizes of the pending runs, by the bits of count.                    *)

\* As in the comment of list_sort(), there is a bit that is set below the lowest.
BitOf(c, k) == IF k < 0 THEN 1 ELSE (c \div 2^k) % 2

SizeOf(c, i) == Edge(c, i-1) - Edge(c, i)

\* Bit i-2 says which of two sizes run i has.
LEMMA SizeByBit ==
  ASSUME NEW c \in Nat, NEW h \in Nat, NEW i, i = h + 1
  PROVE  /\ SizeOf(c, i) = Edge(c, h) - Edge(c, i)
         /\ BitOf(c, h-1) = 1 => SizeOf(c, i) = 2^h
         /\ BitOf(c, h-1) # 1 => h # 0 /\ 2 * SizeOf(c, i) = 2^h
         /\ \A g \in Nat : h = g + 1 => 2^h = 2 * 2^g /\ BitOf(c, h-1) = BitOf(c, g)
<1>1. i - 1 = h  OBVIOUS
<1>2. SizeOf(c, i) = Edge(c, h) - Edge(c, i)  BY <1>1 DEF SizeOf
<1>3. CASE h = 0
  <2>1. i = 1  BY <1>3
  <2>2. SizeOf(c, i) = 1  BY <1>2, <1>3, <2>1, NewestRunSize
  <2>3. 2^h = 1
    <3>1. 2^h = 2^0  BY <1>3, Zenon
    <3> QED  BY <3>1, ClearedNone, Zenon
  <2>4. BitOf(c, h-1) = 1
    <3>1. h - 1 < 0  BY <1>3
    <3> QED  BY <3>1 DEF BitOf
  <2> QED  BY <1>2, <1>3, <2>2, <2>3, <2>4
<1>4. CASE h # 0
  <2>1. PICK g \in Nat : h = g + 1 /\ h - 1 = g  BY <1>4
  <2>2. PICK p, q : p = 2^g /\ q = 2^h  OBVIOUS
  <2>3. p \in Nat  BY <2>2, PowerType
  <2>4. q = 2 * p  BY <2>1, <2>2, PowerDoubles
  <2>5. SizeOf(c, i) = IF (c \div 2^g) % 2 = 1 THEN 2 * p ELSE p
    <3>1. h \in Nat \ {0}  BY <1>4
    <3>2. Edge(c, h) - Edge(c, h+1) = IF (c \div 2^(h-1)) % 2 = 1 THEN 2 * 2^(h-1) ELSE 2^(h-1)
      BY <3>1, RunSize
    <3> QED  BY <1>2, <2>1, <2>2, <3>2
  <2>6. BitOf(c, h-1) = BitOf(c, g) /\ BitOf(c, g) = (c \div 2^g) % 2
    <3>1. ~(g < 0)  BY <2>1
    <3> QED  BY <2>1, <3>1 DEF BitOf
  <2>7. /\ BitOf(c, h-1) = 1 => SizeOf(c, i) = q
        /\ BitOf(c, h-1) # 1 => 2 * SizeOf(c, i) = q
    BY <2>3, <2>4, <2>5, <2>6
  <2>8. \A k \in Nat : h = k + 1 => k = g  BY <2>1
  <2> QED  BY <1>2, <1>4, <2>2, <2>4, <2>6, <2>7, <2>8
<1> QED  BY <1>3, <1>4

\* So the sizes do not decrease, and no two powers of two are the same.
LEMMA SizeBounds ==
  ASSUME NEW c \in Nat, NEW h \in Nat, NEW i, i = h + 1
  PROVE  SizeOf(c, i) \in Nat /\ SizeOf(c, i) <= 2^h /\ 2^h <= 2 * SizeOf(c, i)
<1>1. PICK p, s : p = 2^h /\ s = SizeOf(c, i)  OBVIOUS
<1>2. p \in Nat  BY <1>1, PowerType
<1>3. s \in Int
  <2>1. i \in Nat  OBVIOUS
  <2>2. Edge(c, h) \in Int /\ Edge(c, i) \in Int  BY <2>1, EdgeType
  <2> QED  BY <1>1, <2>2, SizeByBit
<1>4. s = p \/ 2 * s = p  BY <1>1, SizeByBit
<1> QED  BY <1>1, <1>2, <1>3, <1>4

LEMMA SizesAscend ==
  ASSUME NEW c \in Nat, NEW i \in Nat \ {0}, NEW j \in Nat \ {0}, i < j
  PROVE  SizeOf(c, i) <= SizeOf(c, j)
<1>1. PICK g \in Nat, h \in Nat : i = g + 1 /\ j = h + 1 /\ g < h
  <2>1. i - 1 \in Nat /\ j - 1 \in Nat /\ i = (i - 1) + 1 /\ j = (j - 1) + 1 /\ i - 1 < j - 1  OBVIOUS
  <2> QED  BY <2>1
<1>2. PICK p, q, s, t : p = 2^g /\ q = 2^h /\ s = SizeOf(c, i) /\ t = SizeOf(c, j)  OBVIOUS
<1>3. p \in Nat /\ q \in Nat  BY <1>2, PowerType
<1>4. s \in Nat /\ s <= p /\ t \in Nat /\ q <= 2 * t  BY <1>1, <1>2, SizeBounds
<1>5. 2 * p <= q  BY <1>1, <1>2, PowerOrder
<1>6. s <= t  BY <1>3, <1>4, <1>5
<1> QED  BY <1>2, <1>6

LEMMA PowersDiffer ==
  ASSUME NEW i \in Nat, NEW j \in Nat, 2^i = 2^j
  PROVE  i = j
<1>1. PICK p, q : p = 2^i /\ q = 2^j  OBVIOUS
<1>2. p \in Nat /\ q \in Nat /\ p > 0 /\ q > 0  BY <1>1, PowerType, PowerGrows
<1>3. p = q  BY <1>1
<1>4. ~(i < j)
  <2> SUFFICES ASSUME i < j PROVE FALSE  OBVIOUS
  <2>1. 2 * p <= q  BY <1>1, PowerOrder
  <2> QED  BY <1>2, <1>3, <2>1
<1>5. ~(j < i)
  <2> SUFFICES ASSUME j < i PROVE FALSE  OBVIOUS
  <2>1. 2 * q <= p  BY <1>1, PowerOrder
  <2> QED  BY <1>2, <1>3, <2>1
<1> QED  BY <1>4, <1>5

\* Only two runs can have the size 2^k.
LEMMA WhoHasSize ==
  ASSUME NEW c \in Nat, NEW k \in Nat, NEW i \in Nat \ {0}
  PROVE  SizeOf(c, i) = 2^k <=> \/ i = k + 1 /\ BitOf(c, k-1) = 1
                                \/ i = k + 2 /\ BitOf(c, k) # 1
<1>1. PICK h \in Nat : i = h + 1  OBVIOUS
<1>2. CASE BitOf(c, h-1) = 1
  <2>1. SizeOf(c, i) = 2^h  BY <1>1, <1>2, SizeByBit
  <2>2. SizeOf(c, i) = 2^k <=> h = k
    <3>1. ASSUME h = k PROVE 2^h = 2^k  BY <3>1, Zenon
    <3> QED  BY <2>1, <3>1, PowersDiffer
  <2>3. h = k => BitOf(c, k-1) = 1  BY <1>2
  <2>4. i = k + 2 => BitOf(c, k) = 1
    <3>1. i = k + 2 => h - 1 = k  BY <1>1
    <3> QED  BY <1>2, <3>1
  <2>5. i = k + 1 <=> h = k  BY <1>1
  <2> QED  BY <2>2, <2>3, <2>4, <2>5
<1>3. CASE BitOf(c, h-1) # 1
  <2>1. h # 0 /\ 2 * SizeOf(c, i) = 2^h  BY <1>1, <1>3, SizeByBit
  <2>2. PICK g \in Nat : h = g + 1 /\ h - 1 = g  BY <2>1
  <2>3. 2^h = 2 * 2^g  BY <2>2, PowerDoubles
  <2>4. SizeOf(c, i) = 2^g
    <3>1. PICK p, q, s : p = 2^g /\ q = 2^h /\ s = SizeOf(c, i)  OBVIOUS
    <3>2. p \in Nat /\ s \in Nat  BY <1>1, <3>1, PowerType, SizeBounds
    <3>3. 2 * s = 2 * p  BY <2>1, <2>3, <3>1
    <3>4. s = p  BY <3>2, <3>3
    <3> QED  BY <3>1, <3>4
  <2>5. SizeOf(c, i) = 2^k <=> g = k
    <3>1. ASSUME g = k PROVE 2^g = 2^k  BY <3>1, Zenon
    <3> QED  BY <2>4, <3>1, PowersDiffer
  <2>6. g = k => BitOf(c, k) # 1  BY <1>3, <2>2
  <2>7. i = k + 1 => BitOf(c, k-1) # 1
    <3>1. i = k + 1 => h - 1 = k - 1  BY <1>1
    <3> QED  BY <1>3, <3>1
  <2>8. i = k + 2 <=> g = k  BY <1>1, <2>2
  <2> QED  BY <2>5, <2>6, <2>7, <2>8
<1> QED  BY <1>2, <1>3

\* There are as many runs as count has bits.
LEMMA BitsAreRuns ==
  ASSUME NEW c \in Nat, NEW L \in Nat, Edge(c, L) = 0, NEW k \in Nat
  PROVE  c >= 2^k <=> k < L
<1>1. CASE L = 0
  <2>1. c = 0  BY <1>1, EdgeType
  <2>2. 2^k > 0  BY PowerType, PowerGrows
  <2>3. 2^k \in Nat  BY PowerType
  <2> QED  BY <1>1, <2>1, <2>2, <2>3
<1>2. CASE L # 0
  <2>1. PICK h \in Nat : L = h + 1 /\ h = L - 1  BY <1>2
  <2>2. PICK p, q, y : p = 2^h /\ q = 2^k /\ y = Cleared(c, h)  OBVIOUS
  <2>3. p \in Nat /\ q \in Nat /\ p > 0 /\ q > 0  BY <2>2, PowerType, PowerGrows
  <2>4. y \in Nat /\ y <= c /\ c < y + p  BY <2>2, ClearedFacts
  <2>5. y = p
    <3>1. Edge(c, L) = Cleared(c, h) - 2^h  BY <1>2, <2>1 DEF Edge
    <3> QED  BY <2>2, <2>3, <2>4, <3>1
  <2>6. p <= c /\ c < 2 * p  BY <2>3, <2>4, <2>5
  <2>7. CASE k < h
    <3>1. 2 * q <= p  BY <2>2, <2>7, PowerOrder
    <3>2. c >= q  BY <2>3, <2>6, <3>1
    <3> QED  BY <2>1, <2>2, <2>7, <3>2
  <2>8. CASE k = h
    <3>1. q = p  BY <2>2, <2>8, Zenon
    <3> QED  BY <2>1, <2>2, <2>6, <2>8, <3>1
  <2>9. CASE h < k
    <3>1. 2 * p <= q  BY <2>2, <2>9, PowerOrder
    <3>2. ~(c >= q)  BY <2>3, <2>6, <3>1
    <3> QED  BY <2>1, <2>2, <2>9, <3>2
  <2> QED  BY <2>1, <2>7, <2>8, <2>9
<1> QED  BY <1>1, <1>2

LEMMA BitFacts ==
  ASSUME NEW c \in Nat, NEW k \in Nat
  PROVE  /\ BitOf(c, k-1) \in {0, 1}
         /\ BitOf(c, k) = 1 => c >= 2^k
         /\ BitOf(c, k) # 1 => c >= 2^(k+1) \/ ~(c >= 2^k)
<1>1. PICK p, d, y : p = 2^k /\ d = c \div 2^k /\ y = Cleared(c, k)  OBVIOUS
<1>2. /\ y \in Nat /\ p \in Nat /\ p > 0 /\ d \in Nat /\ y <= c /\ c < y + p
      /\ d = 0 => y = 0
      /\ d # 0 => y >= p
      /\ d > 1 => y >= 2 * p
  BY <1>1, ClearedFacts
<1>3. 2^(k+1) = 2 * p  BY <1>1, PowerDoubles
<1>4. BitOf(c, k) = d % 2
  <2>1. ~(k < 0)  OBVIOUS
  <2> QED  BY <1>1, <2>1 DEF BitOf
<1>5. BitOf(c, k-1) \in {0, 1}
  <2>1. CASE k - 1 < 0  BY <2>1 DEF BitOf
  <2>2. CASE ~(k - 1 < 0)
    <3>1. PICK g \in Nat : g = k - 1 /\ ~(g < 0)  BY <2>2
    <3>2. BitOf(c, g) \in {0, 1}  BY <3>1, ClearedNext DEF BitOf
    <3> QED  BY <3>1, <3>2
  <2> QED  BY <2>1, <2>2
<1>6. d % 2 = 1 => d # 0
  <2>1. 0 % 2 # 1  OBVIOUS
  <2> QED  BY <2>1
<1>7. d % 2 # 1 => d # 1
  <2>1. 1 % 2 = 1  OBVIOUS
  <2> QED  BY <2>1
<1>8. d # 0 => c >= p  BY <1>2
<1>9. d # 1 => c >= 2 * p \/ ~(c >= p)
  <2>1. CASE d = 0  BY <1>2, <2>1
  <2>2. CASE d > 1  BY <1>2, <2>2
  <2> QED  BY <1>2, <2>1, <2>2
<1> QED  BY <1>1, <1>3, <1>4, <1>5, <1>6, <1>7, <1>8, <1>9

WithSize(c, L, k) == {i \in 1..L : SizeOf(c, i) = 2^k}

HowMany(c, k) ==
  IF BitOf(c, k) = 1 THEN BitOf(c, k-1) ELSE IF c >= 2^(k+1) THEN 1 + BitOf(c, k-1) ELSE 0

LEMMA RunsBySize ==
  ASSUME NEW c \in Nat, NEW L \in Nat, Edge(c, L) = 0, NEW k \in Nat
  PROVE  Cardinality(WithSize(c, L, k)) = HowMany(c, k)
<1> SUFFICES ASSUME NEW T, T = {i \in 1..L : SizeOf(c, i) = 2^k}
             PROVE  Cardinality(T) = IF BitOf(c, k) = 1 THEN BitOf(c, k-1)
                                     ELSE IF c >= 2^(k+1) THEN 1 + BitOf(c, k-1) ELSE 0
  BY DEF WithSize, HowMany
<1>1. PICK a, b : a = k + 1 /\ b = k + 2 /\ a \in Nat \ {0} /\ b \in Nat \ {0} /\ a # b  OBVIOUS
<1>2. \A i \in 1..L : i \in T <=> \/ i = a /\ BitOf(c, k-1) = 1
                                  \/ i = b /\ BitOf(c, k) # 1
  <2> TAKE i \in 1..L
  <2>1. SizeOf(c, i) = 2^k <=> \/ i = k + 1 /\ BitOf(c, k-1) = 1
                               \/ i = k + 2 /\ BitOf(c, k) # 1
    <3>1. i \in Nat \ {0}  OBVIOUS
    <3> QED  BY <3>1, WhoHasSize
  <2> QED  BY <1>1, <2>1
<1>3. T \subseteq 1..L  OBVIOUS
<1>4. c >= 2^k <=> a \in 1..L
  <2>1. c >= 2^k <=> k < L  BY BitsAreRuns
  <2> QED  BY <1>1, <2>1
<1>5. c >= 2^(k+1) <=> b \in 1..L
  <2>1. a \in Nat  BY <1>1
  <2>2. c >= 2^a <=> a < L  BY <2>1, BitsAreRuns
  <2>3. a < L <=> b \in 1..L  BY <1>1
  <2> QED  BY <1>1, <2>2, <2>3
<1>6. /\ BitOf(c, k-1) \in {0, 1}
      /\ BitOf(c, k) = 1 => c >= 2^k
      /\ BitOf(c, k) # 1 => c >= 2^(k+1) \/ ~(c >= 2^k)
  BY BitFacts
<1>7. a \in 1..L \/ b \notin 1..L  BY <1>1
<1>8. \A x : Cardinality({x}) = 1 /\ IsFiniteSet({x})  BY FS_Singleton
<1>9. Cardinality({}) = 0  BY FS_EmptySet
<1>10. CASE BitOf(c, k) = 1 /\ BitOf(c, k-1) = 1
  <2>1. T = {a}  BY <1>2, <1>3, <1>4, <1>6, <1>10
  <2> QED  BY <1>8, <1>10, <2>1
<1>11. CASE BitOf(c, k) = 1 /\ BitOf(c, k-1) # 1
  <2>1. T = {}  BY <1>2, <1>3, <1>11
  <2> QED  BY <1>6, <1>9, <1>11, <2>1
<1>12. CASE BitOf(c, k) # 1 /\ c >= 2^(k+1)
  <2>1. a \in 1..L /\ b \in 1..L  BY <1>5, <1>7, <1>12
  <2>2. CASE BitOf(c, k-1) = 1
    <3>1. T = {a} \cup {b}  BY <1>2, <1>3, <1>12, <2>1, <2>2
    <3>2. Cardinality({a} \cup {b}) = Cardinality({a}) + 1
      <4>1. b \notin {a} /\ IsFiniteSet({a})  BY <1>1, <1>8
      <4> QED  BY <4>1, FS_AddElement
    <3>3. Cardinality(T) = Cardinality({a}) + 1  BY <3>1, <3>2, Zenon
    <3>4. Cardinality({a}) = 1  BY <1>8, Zenon
    <3>5. Cardinality(T) = 2  BY <3>3, <3>4
    <3> QED  BY <1>12, <2>2, <3>5
  <2>3. CASE BitOf(c, k-1) # 1
    <3>1. T = {b}  BY <1>2, <1>3, <1>12, <2>1, <2>3
    <3>2. Cardinality(T) = 1  BY <1>8, <3>1
    <3>3. BitOf(c, k-1) = 0  BY <1>6, <2>3
    <3> QED  BY <1>12, <3>2, <3>3
  <2> QED  BY <2>2, <2>3
<1>13. CASE BitOf(c, k) # 1 /\ ~(c >= 2^(k+1))
  <2>1. a \notin 1..L /\ b \notin 1..L  BY <1>4, <1>5, <1>6, <1>13
  <2>2. T = {}  BY <1>2, <1>3, <2>1
  <2> QED  BY <1>9, <1>13, <2>2
<1> QED  BY <1>10, <1>11, <1>12, <1>13

\* Each entry of the input so far is in one of the runs.
LEMMA RunsCover ==
  ASSUME NEW c \in Nat, NEW L \in Nat, Edge(c, L) = 0, NEW x \in 1..c
  PROVE  \E i \in 1..L : x \in Span(c, i)
<1> DEFINE T == {i \in 0..L : Edge(c, i) < x}
<1>1. L \in T  OBVIOUS
<1>2. PICK i \in T : \A j \in T : i <= j
  <2>1. T \in SUBSET Nat  OBVIOUS
  <2> HIDE DEF T
  <2> QED  BY <1>1, <2>1, Least
<1>3. i # 0
  <2>1. Edge(c, 0) = c  BY EdgeType
  <2> QED  BY <1>2, <2>1
<1>4. PICK h \in 0..L : i = h + 1 /\ i - 1 = h  BY <1>2, <1>3
<1>5. ~(Edge(c, h) < x)
  <2>1. h \notin T  BY <1>2, <1>4
  <2> QED  BY <2>1
<1>6. PICK a, b : a = Edge(c, i) /\ b = Edge(c, h)  OBVIOUS
<1>7. a \in Int /\ b \in Int
  <2>1. i \in Nat /\ h \in Nat  BY <1>2, <1>4
  <2> QED  BY <1>6, <2>1, EdgeType
<1>8. a < x /\ x <= b  BY <1>2, <1>5, <1>6, <1>7
<1>9. x \in (a+1)..b  BY <1>7, <1>8
<1>10. Span(c, i) = (a+1)..b  BY <1>4, <1>6 DEF Span
<1>11. i \in 1..L  BY <1>2, <1>3
<1> QED  BY <1>9, <1>10, <1>11

LEMMA SortInvDocumented == SortInv => PendingRunsAsDocumented
<1> DEFINE runs == [i \in 1..Len(Pending) |-> Run(mem.next, Pending[i])]
           Size(i) == Len(runs[i])
           Bit(k) == IF k < 0 THEN 1 ELSE (count \div 2^k) % 2
           RunsOfSize(k) ==
             IF Bit(k) = 1 THEN Bit(k-1) ELSE IF count >= 2^(k+1) THEN 1 + Bit(k-1) ELSE 0
<1> SUFFICES ASSUME SortInv, pc = "round"
             PROVE  /\ \A i \in 1..Len(runs) : erratic \/ IsOrdered(runs[i])
                    /\ \A i, j \in 1..Len(runs) : i < j =>
                         /\ Size(i) <= Size(j)
                         /\ \A x \in ToSet(runs[i]), y \in ToSet(runs[j]) : y < x
                    /\ UNION {ToSet(runs[i]) : i \in 1..Len(runs)} = 1..count
                    /\ \A i \in 1..Len(runs) : Size(i) \in {2^k : k \in 0..count}
                    /\ \A k \in 0..count :
                         Cardinality({i \in 1..Len(runs) : Size(i) = 2^k}) = RunsOfSize(k)
  BY DEF PendingRunsAsDocumented
<1>1. Data /\ AtRound  BY DEF SortInv
<1>2. PICK c : c = count /\ c \in Nat  BY <1>1 DEF AtRound, InLoop
<1>3. PICK L, W : Stack(mem, pending, Order, count, 1, L, W, 1..L)  BY <1>1 DEF AtRound
<1>4. /\ L \in Nat /\ Edge(c, L) = 0 /\ Heads(mem.prev, W, c, 1, L)
      /\ pending = HeadOf(W, 1, L) /\ Runs(mem.next, Order, W, 1..L)
  BY <1>2, <1>3 DEF Stack
<1>5. Len(Pending) = L /\ \A i \in 1..L : Pending[i] = W[i][1]  BY <1>2, <1>4, PendingIs
<1>6. runs = [i \in 1..L |-> Run(mem.next, Pending[i])]  BY <1>5, Zenon
<1>7. Len(runs) = L /\ \A i \in 1..L : runs[i] = Run(mem.next, W[i][1])
  <2> HIDE DEF runs
  <2> QED  BY <1>4, <1>5, <1>6
<1>8. ASSUME NEW i \in 1..L
      PROVE  /\ ToSet(runs[i]) = Span(c, i) /\ Size(i) = SizeOf(c, i)
             /\ erratic \/ IsOrdered(runs[i])
  <2>1. PICK h \in Nat : i = h + 1  OBVIOUS
  <2>2. Lists(W[i], Span(c, i)) /\ Chain(mem.next, W[i])  BY <1>4 DEF Heads, Runs
  <2>3. /\ Run(mem.next, W[i][1]) = W[i] /\ ToSet(W[i]) = Span(c, i)
        /\ Len(W[i]) = Edge(c, h) - Edge(c, i)
    BY <1>2, <1>4, <2>1, <2>2, PendingRun
  <2>4. SizeOf(c, i) = Edge(c, h) - Edge(c, i)  BY <1>2, <2>1, SizeByBit
  <2>5. runs[i] = W[i]  BY <1>7, <2>3
  <2>6. erratic \/ IsOrdered(W[i])
    <3>1. Sorted(Order, W[i])  BY <1>4 DEF Runs
    <3> QED  BY <3>1 DEF Sorted, Order, IsOrdered
  <2> HIDE DEF runs
  <2> QED  BY <2>3, <2>4, <2>5, <2>6
<1>9. \A k : Bit(k) = BitOf(c, k)  BY <1>2 DEF BitOf
<1> HIDE DEF runs, Bit
<1>10. \A i, j \in 1..L : i < j =>
         /\ Size(i) <= Size(j)
         /\ \A x \in ToSet(runs[i]), y \in ToSet(runs[j]) : y < x
  <2> SUFFICES ASSUME NEW i \in 1..L, NEW j \in 1..L, i < j
               PROVE  /\ Size(i) <= Size(j)
                      /\ \A x \in ToSet(runs[i]), y \in ToSet(runs[j]) : y < x
    OBVIOUS
  <2>1. SizeOf(c, i) <= SizeOf(c, j)
    <3>1. i \in Nat \ {0} /\ j \in Nat \ {0}  OBVIOUS
    <3> QED  BY <1>2, <3>1, SizesAscend
  <2>2. \A x \in Span(c, i), y \in Span(c, j) : y < x  BY <1>2, <1>4, EntriesOrder
  <2>3. ToSet(runs[i]) = Span(c, i) /\ ToSet(runs[j]) = Span(c, j)  BY <1>8
  <2>4. Size(i) <= Size(j)  BY <1>8, <2>1
  <2> QED  BY <2>2, <2>3, <2>4, Zenon
<1>11. UNION {ToSet(runs[i]) : i \in 1..L} = 1..c
  <2>1. \A i \in 1..L : ToSet(runs[i]) \subseteq 1..c  BY <1>2, <1>4, <1>8, EntriesFacts
  <2>2. \A x \in 1..c : \E i \in 1..L : x \in ToSet(runs[i])
    <3> TAKE x \in 1..c
    <3>1. PICK i \in 1..L : x \in Span(c, i)  BY <1>2, <1>4, RunsCover
    <3> QED  BY <1>8, <3>1
  <2> QED  BY <2>1, <2>2
<1>12. \A i \in 1..L : Size(i) \in {2^k : k \in 0..c}
  <2> TAKE i \in 1..L
  <2>1. PICK h \in Nat : i = h + 1  OBVIOUS
  <2>2. h <= c
    <3>1. 0 <= L  BY <1>4
    <3>2. L <= c  BY <1>2, <1>4, <3>1, EdgesAbove
    <3> QED  BY <1>2, <1>4, <2>1, <3>2
  <2>3. \E k \in 0..c : SizeOf(c, i) = 2^k
    <3>1. CASE BitOf(c, h-1) = 1
      <4>1. SizeOf(c, i) = 2^h /\ h \in 0..c  BY <1>2, <2>1, <2>2, <3>1, SizeByBit
      <4> QED  BY <4>1
    <3>2. CASE BitOf(c, h-1) # 1
      <4>1. h # 0  BY <1>2, <2>1, <3>2, SizeByBit
      <4>2. PICK g \in Nat : h = g + 1 /\ h - 1 = g /\ i = g + 2  BY <2>1, <4>1
      <4>3. BitOf(c, g) # 1  BY <3>2, <4>2
      <4>4. i \in Nat \ {0}  OBVIOUS
      <4>5. SizeOf(c, i) = 2^g  BY <1>2, <4>2, <4>3, <4>4, WhoHasSize
      <4>6. g \in 0..c  BY <1>2, <2>2, <4>2
      <4> QED  BY <4>5, <4>6
    <3> QED  BY <3>1, <3>2
  <2> QED  BY <1>8, <2>3
<1>13. \A k \in 0..c : Cardinality({i \in 1..L : Size(i) = 2^k}) = RunsOfSize(k)
  <2> TAKE k \in 0..c
  <2>1. k \in Nat  BY <1>2
  <2>2. Cardinality(WithSize(c, L, k)) = HowMany(c, k)  BY <1>2, <1>4, <2>1, RunsBySize
  <2>3. {i \in 1..L : Size(i) = 2^k} = WithSize(c, L, k)  BY <1>8 DEF WithSize
  <2>4. RunsOfSize(k) = HowMany(c, k)  BY <1>2, <1>9, Zenon DEF HowMany
  <2> QED  BY <2>2, <2>3, <2>4, Zenon
<1>14. \A i \in 1..L : erratic \/ IsOrdered(runs[i])  BY <1>8
<1> QED  BY <1>2, <1>7, <1>14, <1>10, <1>11, <1>12, <1>13, Zenon

-----------------------------------------------------------------------------
(* list_sort(), for lists of any length.                                   *)

\* Between two steps the waiting runs hang together as count says, and what is
\* being merged is split into what was taken and what is left of two runs
\* (src/list_sort.c:185-253).
THEOREM SortInvariant == Spec => []SortInv
<1>1. Init => SortInv  BY SortInvInit
<1>2. SortInv /\ [Next]_vars => SortInv'  BY SortInvNext
<1> QED  BY <1>1, <1>2, PTL DEF Spec

\* When list_sort() returns, the list is a ring of the entries it held, each once
\* and in the order of cmp(), those that compare equal as they were in the input
\* (src/list_sort.c:100-117, 185-253).
THEOREM SortsStably == Spec => []SortedAndStable
<1> QED  BY SortInvSorted, SortInvariant, PTL

\* The pending runs and their sizes are what the comment in list_sort() says, for
\* every count, and each of them is sorted, unless cmp() answers anything
\* (src/list_sort.c:147-182).
THEOREM SortPendingRuns == Spec => []PendingRunsAsDocumented
<1> QED  BY SortInvDocumented, SortInvariant, PTL

\* No merge joins runs of which one is more than twice the other
\* (src/list_sort.c:129-136, 206-209).
THEOREM SortBalanced == Spec => []MergesAreBalanced
<1> QED  BY SortInvBalanced, SortInvariant, PTL

\* cmp() is called with two entries of the list, the one that came first in the
\* input as its first argument; the callback of merge_final() alone is called with
\* one entry twice (src/list_sort.c:90-91, 108-113).
THEOREM SortFirstArgument == Spec => []FirstInInputIsFirstArgument
<1> QED  BY SortInvFirst, SortInvariant, PTL

=============================================================================
