-------------------------------- MODULE Plist --------------------------------
(***************************************************************************)
(* The priority-sorted list of src/plist.c.  A node has two links: the     *)
(* node_list of all the entries of a head, in the order they are served,   *)
(* and the prio_list, a ring with no head of its own that joins the first  *)
(* entry of each priority so that an insertion skips the others.  The      *)
(* functions must keep the two lists in step, and there are two ways an    *)
(* entry gets on or off the prio_list: by itself, or because the entry it  *)
(* stood behind leaves.                                                    *)
(*                                                                         *)
(* The two links lie in different members, which no function confuses:     *)
(* nl is the memory of all node_list members, pl that of all prio_list     *)
(* members, both as in ListHead.                                           *)
(***************************************************************************)
EXTENDS ListHead, SequencesExt

CONSTANTS
  Heads,   \* the struct plist_head
  Nodes,   \* the struct plist_node
  Prios    \* the priorities in use

ASSUME PlistAssumption == /\ Prios \subseteq Int
                          /\ Heads \cap Nodes = {}
                          /\ IsFiniteSet(Heads \cup Nodes)

VARIABLES nl, pl, prio

vars == <<nl, pl, prio>>

Self(A) == [next |-> [x \in A |-> x], prev |-> [x \in A |-> x]]

\* PLIST_HEAD_INIT and PLIST_NODE_INIT.
Init ==
  /\ nl = Self(Heads \cup Nodes) /\ pl = Self(Nodes)
  /\ prio \in [Nodes -> Prios]

plist_head_empty(h) == list_empty(nl, h)
plist_node_empty(n) == list_empty(nl, n)
plist_first(h) == nl.next[h]
plist_last(h)  == nl.prev[h]
plist_next(n)  == nl.next[n]

\* plist_for_each: the entries of h, in order.
Queue(h) == list_for_each(nl, h)

\* The entries of the prio_list from iter on, once around.
Lap(iter) == <<iter>> \o list_for_each(pl, iter)

\* The checks that DEBUG_PLIST compiles, around each call: no warning.
plist_check_list(m, top) == \A p \in {top} \cup ToSet(list_for_each(m, top)) : m.prev[m.next[p]] = p

plist_check_head(h) ==
  /\ ~plist_head_empty(h) => plist_check_list(pl, plist_first(h))
  /\ plist_check_list(nl, h)

-----------------------------------------------------------------------------
\* Only while nobody is on the list.
PlistHeadInit(head) ==
  /\ plist_head_empty(head)
  /\ nl' = INIT_LIST_HEAD(nl, head)
  /\ UNCHANGED <<pl, prio>>

PlistNodeInit(node, p) ==
  /\ plist_node_empty(node)
  /\ prio' = [prio EXCEPT ![node] = p]
  /\ pl' = INIT_LIST_HEAD(pl, node)
  /\ nl' = INIT_LIST_HEAD(nl, node)

\* A mistake: an entry goes in front of those of its own priority.
ServedBeforeEquals(node, iter) == prio[node] <= prio[iter]

ServedBefore(node, iter) == prio[node] < prio[iter]

(***************************************************************************)
(* The do loop leaves iter at the first entry of the prio_list that is to  *)
(* be served after node, or back at the first of all, and prev at the one  *)
(* before.                                                                 *)
(***************************************************************************)
PlistAdd(node, head) ==
  LET lap       == Lap(plist_first(head))
      after     == {i \in 1..Len(lap) : ServedBefore(node, lap[i])}
      turns     == IF after = {} THEN Len(lap) ELSE Min(after) - 1
      iter      == IF after = {} THEN lap[1] ELSE lap[turns + 1]
      node_next == IF after = {} THEN head ELSE iter
      new_prio  == turns = 0 \/ prio[lap[turns]] # prio[node]
  IN  /\ plist_node_empty(node)
      /\ IF plist_head_empty(head)
         THEN nl' = list_add_tail(nl, node, head) /\ UNCHANGED pl
         ELSE /\ nl' = list_add_tail(nl, node, node_next)
              /\ pl' = IF new_prio THEN list_add_tail(pl, node, iter) ELSE pl
      /\ UNCHANGED prio

\* A mistake: the next entry may be on the prio_list already.
StandsForAny(next, head) == next # head

\* The next entry is one of the same priority, and gets on the prio_list.
StandsFor(next, head) == next # head /\ list_empty(pl, next)

\* The prio_list after plist_del(): the next entry takes the place of node if it
\* has none of its own.
LeavePrioList(node, head) ==
  LET next == plist_next(node)
  IN  IF list_empty(pl, node) THEN pl
      ELSE list_del_init(IF StandsFor(next, head) THEN list_add(pl, next, node) ELSE pl, node)

\* A mistake: the node keeps its place on the prio_list.
plist_del_one_list(node, head) ==
  /\ nl' = list_del_init(nl, node)
  /\ pl' = pl

plist_del(node, head) ==
  /\ nl' = list_del_init(nl, node)
  /\ pl' = LeavePrioList(node, head)

PlistDel(node, head) ==
  /\ node \in ToSet(Queue(head))
  /\ plist_del(node, head)
  /\ UNCHANGED prio

\* A mistake: the search starts at the head.
BehindHead(q, iter) == 1..Len(q)

\* plist_for_each_continue: the positions in q behind iter.
Behind(q, iter) == {i \in 1..Len(q) : \E j \in 1..i-1 : q[j] = iter}

(***************************************************************************)
(* Nothing to do for the last of its priority.  Otherwise node is deleted  *)
(* and goes in front of the first entry of another priority behind the one *)
(* that followed it.  It does not get on the prio_list again.              *)
(***************************************************************************)
PlistRequeue(node, head) ==
  LET iter  == plist_next(node)
      gone  == list_del_init(nl, node)
      rest  == list_for_each(gone, head)
      other == {i \in Behind(rest, iter) : prio[rest[i]] # prio[node]}
      node_next == IF other = {} THEN head ELSE rest[Min(other)]
  IN  /\ node \in ToSet(Queue(head))
      /\ IF node = plist_last(head) \/ prio[node] # prio[iter]
         THEN UNCHANGED <<nl, pl>>
         ELSE /\ nl' = list_add_tail(gone, node, node_next)
              /\ pl' = LeavePrioList(node, head)
      /\ UNCHANGED prio

Next ==
  \/ \E head \in Heads : PlistHeadInit(head)
  \/ \E node \in Nodes :
       \/ \E p \in Prios : PlistNodeInit(node, p)
       \/ \E head \in Heads : \/ PlistAdd(node, head)
                              \/ PlistDel(node, head)
                              \/ PlistRequeue(node, head)

Spec == Init /\ [][Next]_vars

-----------------------------------------------------------------------------
\* The entries of h that are the first of their priority.
Leaders(h) ==
  LET q == Queue(h)
  IN  {q[i] : i \in {j \in 1..Len(q) : j = 1 \/ prio[q[j-1]] # prio[q[j]]}}

(***************************************************************************)
(* The prio_list of a head that is not empty joins exactly the first entry *)
(* of each priority, from the smallest to the largest, in both directions, *)
(* and every other node is off it.  An insertion that finds another node   *)
(* there, or misses one, puts its entry in the wrong place.                *)
(***************************************************************************)
PrioListJoinsTheLeaders ==
  /\ \A h \in Heads : ~plist_head_empty(h) =>
       LET lap == Lap(plist_first(h))
       IN  /\ ToSet(lap) = Leaders(h)
           /\ \A i, j \in 1..Len(lap) : i < j => prio[lap[i]] < prio[lap[j]]
           /\ list_for_each_prev(pl, plist_first(h)) = Reverse(Tail(lap))
  /\ \A n \in Nodes : n \notin UNION {Leaders(h) : h \in Heads} =>
       pl.next[n] = n /\ pl.prev[n] = n

(***************************************************************************)
(* The checks of DEBUG_PLIST, which no build enables, would never warn, a  *)
(* node is on one queue at most, and a node on none is linked to itself in *)
(* both lists: the tests that plist_add() warns about (warn_on) pass       *)
(* whatever was done to the node.                                          *)
(***************************************************************************)
QueuesAreLinked ==
  /\ \A h \in Heads : /\ plist_check_head(h)
                      /\ IsInjective(Queue(h)) /\ ToSet(Queue(h)) \subseteq Nodes
                      /\ \A g \in Heads \ {h} : ToSet(Queue(h)) \cap ToSet(Queue(g)) = {}
  /\ \A n \in Nodes : n \notin UNION {ToSet(Queue(h)) : h \in Heads} =>
       list_empty(nl, n) /\ list_empty(pl, n)

(***************************************************************************)
(* The plist keeps the promise of plist.h (PlistSpec): an entry is added   *)
(* behind all the entries of its priority and in front of all the entries  *)
(* of larger ones, however the search on the prio_list finds that place.   *)
(***************************************************************************)
Promise == INSTANCE PlistSpec WITH queue <- [h \in Heads |-> Queue(h)]

KeepsThePromise == Promise!Spec

(***************************************************************************)
(* Requeueing is what plist.c says, an optimised deletion and addition: an *)
(* early return, too, leaves the queue as those two calls would.           *)
(***************************************************************************)
RequeueIsDelAndAdd ==
  [][\A n \in Nodes, h \in Heads : PlistRequeue(n, h) => Promise!Requeue(n, h)]_vars
=============================================================================
