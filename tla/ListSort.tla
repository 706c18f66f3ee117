------------------------------- MODULE ListSort -------------------------------
(***************************************************************************)
(* One call of list_sort() (src/list_sort.c).  It takes a list apart into  *)
(* null-terminated runs, keeps the sorted runs that wait to be merged on a *)
(* chain through their prev pointers, and decides from the bits of one     *)
(* counter which two to merge next.  The pointers are those of ListHead;   *)
(* list, pending, count, a, b, tail and head are the local variables of    *)
(* the C functions, and every call of the caller's cmp() is a step.        *)
(*                                                                         *)
(* The entries are the numbers 1, 2, ... in the order of the input, and 0  *)
(* is the head.                                                            *)
(***************************************************************************)
EXTENDS ListHead, SequencesExt

CONSTANTS
  N,        \* the longest list
  Keys,     \* what cmp() compares
  M,        \* the longest list for a cmp() that answers anything at all
  TwoTo8    \* the number of values of a u8

ASSUME SortAssumption ==
  N \in Nat /\ M \in 0..N /\ Keys \subseteq Int /\ TwoTo8 \in Nat \ {0} /\ NULL \notin Int

VARIABLES
  mem,      \* the pointers
  len,      \* how long the list is
  key,      \* what the entries hold
  erratic,  \* whether cmp() answers anything at all instead of comparing them
  pc,       \* where the call is
  list, pending, count,   \* of list_sort()
  merging   \* of merge() or merge_final(): a, b, tail, head and count

vars == <<mem, len, key, erratic, pc, list, pending, count, merging>>

Cells == 0..N
head  == 0

\* merge() stores through tail, which points at its variable head at first.
NoMerge == [a |-> NULL, b |-> NULL, tail |-> NULL, head |-> NULL, count |-> 0]

Init ==
  /\ erratic \in BOOLEAN
  /\ len \in 0..(IF erratic THEN M ELSE N)
  /\ key \in IF erratic THEN {[x \in 1..len |-> 0]} ELSE [1..len -> Keys]
  /\ mem = [next |-> [x \in Cells |-> IF x < len THEN x + 1 ELSE IF x = len THEN head ELSE NULL],
            prev |-> [x \in Cells |-> IF x = head THEN len ELSE IF x <= len THEN x - 1 ELSE NULL]]
  /\ pc = "start" /\ list = NULL /\ pending = NULL /\ count = 0 /\ merging = NoMerge

\* A mistake: of two that are equal, the second is taken.
ComparisonsUnstable(a, b) == IF erratic THEN BOOLEAN ELSE {key[a] < key[b]}

\* Whether cmp(a, b) <= 0.
Comparisons(a, b) == IF erratic THEN BOOLEAN ELSE {key[a] <= key[b]}

\* The cells from x along link to the null pointer.
Run(link, x) ==
  LET cell[i \in 1..N+1] ==
        IF i = 1 THEN x ELSE IF cell[i-1] = NULL THEN NULL ELSE link[cell[i-1]]
  IN  [i \in 1..Min({j \in 1..N+1 : cell[j] = NULL} \cup {N+1}) - 1 |-> cell[i]]

\* The pending runs, the newest first, by their first entries.
Pending == Run(mem.prev, pending)

\* How far the loop over the bits of count gets: to its lowest bit that is clear.
ClearBit == Min({k \in 0..count : (count \div 2^k) % 2 = 0})

-----------------------------------------------------------------------------
Opened(m) == SetNext(m, m.prev[head], NULL)

\* A list of no or one entry is left alone; another one loses its ends.
Start ==
  /\ pc = "start"
  /\ IF mem.next[head] = mem.prev[head]
     THEN pc' = "done" /\ UNCHANGED <<mem, list>>
     ELSE /\ mem' = Opened(mem)
          /\ list' = mem.next[head]
          /\ pc' = "round"
  /\ UNCHANGED <<len, key, erratic, pending, count, merging>>

\* A mistake: the runs in the wrong order.
BeginMergeExchanged(a, b) == merging' = [NoMerge EXCEPT !.a = b, !.b = a]

BeginMerge(a, b) == merging' = [NoMerge EXCEPT !.a = a, !.b = b]

\* A mistake: nothing is merged before the end of the input.
RoundLazy == pc = "round" /\ pc' = "push" /\ UNCHANGED <<mem, len, key, erratic, list, pending, count, merging>>

\* The top of the do loop: is there a pair of runs to merge first?
Round ==
  /\ pc = "round"
  /\ IF count \div 2^ClearBit = 0
     THEN pc' = "push" /\ UNCHANGED merging
     ELSE LET a == Pending[ClearBit + 1]
          IN  pc' = "merge" /\ BeginMerge(mem.prev[a], a)
  /\ UNCHANGED <<mem, len, key, erratic, list, pending, count>>

\* A mistake: the cursor of the run that gave an entry stays.
RestSame(m, x) == x

\* What is left of a run once its entry x is taken.
Rest(m, x) == m.next[x]

\* One turn of the loop of merge(): cmp() says which run gives the next entry.
\* The turn that empties a run appends what is left of the other.
MergeTurn ==
  /\ pc \in {"merge", "collect merge"}
  /\ \E first \in Comparisons(merging.a, merging.b) :
       LET taken == IF first THEN merging.a ELSE merging.b
           other == IF first THEN merging.b ELSE merging.a
           m1    == IF merging.tail = NULL THEN mem ELSE SetNext(mem, merging.tail, taken)
           rest  == Rest(m1, taken)
       IN  /\ mem' = IF rest = NULL THEN SetNext(m1, taken, other) ELSE m1
           /\ merging' = [merging EXCEPT !.a = IF first THEN rest ELSE @,
                                         !.b = IF first THEN @ ELSE rest,
                                         !.tail = taken,
                                         !.head = IF merging.tail = NULL THEN taken ELSE @]
           /\ pc' = IF rest # NULL THEN pc
                    ELSE IF pc = "merge" THEN "install" ELSE "collected"
  /\ UNCHANGED <<len, key, erratic, list, pending, count>>

\* A mistake: the merged run goes to the front of the chain.
InstallInFront ==
  LET b == mem.prev[Pending[ClearBit + 1]]
  IN  /\ pc = "install"
      /\ mem' = SetPrev(mem, merging.head, mem.prev[b]) /\ pending' = merging.head
      /\ merging' = NoMerge
      /\ pc' = "push"
      /\ UNCHANGED <<len, key, erratic, list, count>>

\* The merged run takes the place of the two on the chain.
Install ==
  LET a == Pending[ClearBit + 1]
      b == mem.prev[a]
      m == SetPrev(mem, merging.head, mem.prev[b])
  IN  /\ pc = "install"
      /\ IF ClearBit = 0
         THEN mem' = m /\ pending' = merging.head
         ELSE mem' = SetPrev(m, Pending[ClearBit], merging.head) /\ UNCHANGED pending
      /\ merging' = NoMerge
      /\ pc' = "push"
      /\ UNCHANGED <<len, key, erratic, list, count>>

\* The next entry of the input becomes a run.  After the last one, it stays in
\* list and pending is what was there before.
Push ==
  LET next == mem.next[list]
  IN  /\ pc = "push"
      /\ mem' = SetNext(SetPrev(mem, list, pending), list, NULL)
      /\ count' = count + 1
      /\ IF next # NULL THEN list' = next /\ pending' = list /\ pc' = "round"
                        ELSE pc' = "collect" /\ UNCHANGED <<list, pending>>
      /\ UNCHANGED <<len, key, erratic, merging>>

\* The loop that merges what is pending, from the newest run to the oldest; the
\* last merge is another function.
Collect ==
  /\ pc = "collect"
  /\ IF mem.prev[pending] = NULL
     THEN /\ pc' = "final"
          /\ merging' = [NoMerge EXCEPT !.a = pending, !.b = list, !.tail = head]
     ELSE pc' = "collect merge" /\ BeginMerge(pending, list)
  /\ UNCHANGED <<mem, len, key, erratic, list, pending, count>>

Collected ==
  /\ pc = "collected"
  /\ list' = merging.head
  /\ pending' = mem.prev[pending]
  /\ merging' = NoMerge
  /\ pc' = "collect"
  /\ UNCHANGED <<mem, len, key, erratic, count>>

Appended(m, tail, x) == SetPrev(SetNext(m, tail, x), x, tail)

\* One turn of the first loop of merge_final(), which keeps the prev pointers.
FinalTurn ==
  /\ pc = "final"
  /\ \E first \in Comparisons(merging.a, merging.b) :
       LET taken == IF first THEN merging.a ELSE merging.b
           other == IF first THEN merging.b ELSE merging.a
           m1    == Appended(mem, merging.tail, taken)
           rest  == Rest(m1, taken)
       IN  IF rest = NULL
           THEN /\ mem' = SetNext(m1, taken, other)
                /\ merging' = [merging EXCEPT !.a = NULL, !.b = other, !.tail = taken]
                /\ pc' = "rest"
           ELSE /\ mem' = m1
                /\ merging' = [merging EXCEPT !.a = IF first THEN rest ELSE @,
                                              !.b = IF first THEN @ ELSE rest,
                                              !.tail = taken]
                /\ UNCHANGED pc
  /\ UNCHANGED <<len, key, erratic, list, pending, count>>

\* One turn of its second loop.  When the counter wraps, the turn begins with
\* cmp(b, b), whose answer is not used (CmpCalls).
FinalRest ==
  LET b    == merging.b
      m    == SetPrev(mem, b, merging.tail)
      rest == Rest(m, b)
  IN  /\ pc = "rest"
      /\ merging' = [merging EXCEPT !.b = rest, !.tail = b, !.count = (@ + 1) % TwoTo8]
      /\ IF rest # NULL
         THEN mem' = m /\ UNCHANGED pc
         ELSE mem' = Appended(m, b, head) /\ pc' = "done"
      /\ UNCHANGED <<len, key, erratic, list, pending, count>>

\* The arguments of the call of cmp() that the next step makes, if it makes one.
CmpCalls ==
  IF pc \in {"merge", "collect merge", "final"} THEN {<<merging.a, merging.b>>}
  ELSE IF pc = "rest" /\ (merging.count + 1) % TwoTo8 = 0 THEN {<<merging.b, merging.b>>}
  ELSE {}

Next == \/ Start \/ Round \/ MergeTurn \/ Install \/ Push
        \/ Collect \/ Collected \/ FinalTurn \/ FinalRest

Spec == Init /\ [][Next]_vars

\* The function runs on: only cmp() could keep it waiting, and cmp() returns.
FairSpec == Spec /\ WF_vars(Next)

-----------------------------------------------------------------------------
Before(x, y) == key[x] < key[y] \/ (key[x] = key[y] /\ x <= y)

IsOrdered(s) == \A i, j \in 1..Len(s) : i < j => Before(s[i], s[j])

(***************************************************************************)
(* When list_sort() returns, the list holds the entries it held, each      *)
(* once, and can be walked both ways, whatever cmp() answered.  Where it   *)
(* compared the keys, the list is sorted, and entries that compare equal   *)
(* are in the order of the input.                                          *)
(***************************************************************************)
SortedAndStable ==
  pc = "done" =>
    LET s == list_for_each(mem, head)
    IN  /\ ToSet(s) = 1..len /\ Len(s) = len
        /\ list_for_each_prev(mem, head) = Reverse(s)
        /\ erratic \/ IsOrdered(s)

(***************************************************************************)
(* What the comment in list_sort() says of the pending runs, before each   *)
(* round: each is sorted, with equal entries as they were in the input,    *)
(* the older a run the further back and the larger it is, every            *)
(* size is a power of two, the runs together are the input so far, and     *)
(* how many there are of a size 2^k follows from bits k and k-1 of count   *)
(* and from whether a higher bit is set (the six states of the comment).   *)
(***************************************************************************)
PendingRunsAsDocumented ==
  pc = "round" =>
    LET runs == [i \in 1..Len(Pending) |-> Run(mem.next, Pending[i])]
        Size(i) == Len(runs[i])
        Bit(k)  == IF k < 0 THEN 1 ELSE (count \div 2^k) % 2
        RunsOfSize(k) ==
          IF Bit(k) = 1 THEN Bit(k-1) ELSE IF count >= 2^(k+1) THEN 1 + Bit(k-1) ELSE 0
    IN  /\ \A i \in 1..Len(runs) : erratic \/ IsOrdered(runs[i])
        /\ \A i, j \in 1..Len(runs) : i < j =>
             /\ Size(i) <= Size(j)
             /\ \A x \in ToSet(runs[i]), y \in ToSet(runs[j]) : y < x
        /\ UNION {ToSet(runs[i]) : i \in 1..Len(runs)} = 1..count
        /\ \A i \in 1..Len(runs) : Size(i) \in {2^k : k \in 0..count}
        /\ \A k \in 0..count : Cardinality({i \in 1..Len(runs) : Size(i) = 2^k}) = RunsOfSize(k)

(***************************************************************************)
(* The comment's promise on the cost: the merges of the main loop join two *)
(* runs of the size of the bit that count is about to set, and at the end  *)
(* neither run is more than twice as long as the other.                    *)
(***************************************************************************)
MergesAreBalanced ==
  LET Size(x) == Len(Run(mem.next, x))
  IN  /\ pc = "round" /\ count \div 2^ClearBit # 0 =>
           \A i \in 1..2 : Size(Pending[ClearBit + i]) = 2^ClearBit
      /\ pc = "collect" => /\ Size(pending) <= 2 * Size(list)
                           /\ Size(list) < 2 * Size(pending)

(***************************************************************************)
(* "It is always called with the element that came first in the input in   *)
(* @a": a cmp() that only tells greater from not greater gives a stable    *)
(* sort because of this.  It is never called with the head or with the     *)
(* null pointer, and where it is called with one entry twice, that is the  *)
(* callback of merge_final(), whose answer is not used.                    *)
(***************************************************************************)
FirstInInputIsFirstArgument ==
  \A c \in CmpCalls : /\ c \in (1..len) \X (1..len)
                      /\ c[1] < c[2] \/ (c[1] = c[2] /\ pc = "rest")

\* list_sort() returns, whatever cmp() answers.
Returns == <>(pc = "done")
=============================================================================
