------------------------------ MODULE PlistSpec ------------------------------
(***************************************************************************)
(* What include/plist.h promises of a plist: a queue that is ordered by    *)
(* priority, the smallest number first, and first-in first-out among the   *)
(* entries of one priority.                                                *)
(***************************************************************************)
EXTENDS Integers, SequencesExt, FiniteSetsExt

CONSTANTS
  Heads,   \* the struct plist_head
  Nodes,   \* the struct plist_node
  Prios    \* the priorities in use

VARIABLES
  queue,   \* the entries of each head, in order
  prio     \* node->prio

vars == <<queue, prio>>

On(h) == ToSet(queue[h])

\* q with n behind every entry that is not to be served after it.
Enqueue(q, n) == InsertAt(q, Cardinality({m \in ToSet(q) : prio[m] <= prio[n]}) + 1, n)

Dequeue(q, n) == RemoveAt(q, CHOOSE i \in DOMAIN q : q[i] = n)

Init == queue = [h \in Heads |-> <<>>] /\ prio \in [Nodes -> Prios]

NodeInit(n, p) ==
  /\ \A h \in Heads : n \notin On(h)
  /\ prio' = [prio EXCEPT ![n] = p]
  /\ UNCHANGED queue

Add(n, h) ==
  /\ \A g \in Heads : n \notin On(g)
  /\ queue' = [queue EXCEPT ![h] = Enqueue(@, n)]
  /\ UNCHANGED prio

Del(n, h) ==
  /\ n \in On(h)
  /\ queue' = [queue EXCEPT ![h] = Dequeue(@, n)]
  /\ UNCHANGED prio

\* A deletion and an addition.
Requeue(n, h) ==
  /\ n \in On(h)
  /\ queue' = [queue EXCEPT ![h] = Enqueue(Dequeue(@, n), n)]
  /\ UNCHANGED prio

Next ==
  \E n \in Nodes :
    \/ \E p \in Prios : NodeInit(n, p)
    \/ \E h \in Heads : Add(n, h) \/ Del(n, h) \/ Requeue(n, h)

Spec == Init /\ [][Next]_vars
=============================================================================
