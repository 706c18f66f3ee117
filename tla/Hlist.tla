--------------------------------- MODULE Hlist ---------------------------------
(***************************************************************************)
(* A program that uses the hash lists of include/list.h by their           *)
(* contracts.  mem is what the functions read and write; lists and state   *)
(* are history variables, what the calls so far promise of the lists and   *)
(* of the nodes that are on none.  Every action is one call.               *)
(***************************************************************************)
EXTENDS HlistHead, SequencesExt

CONSTANTS
  Heads,  \* the struct hlist_head
  Nodes   \* the struct hlist_node

ASSUME HlistAssumption == /\ Heads \cap Nodes = {}
                          /\ {NULL, LIST_POISON1, LIST_POISON2} \cap (Heads \cup Nodes) = {}
                          /\ LIST_POISON2 # NULL

VARIABLES
  mem,
  lists,  \* the nodes of each head, first to last
  state   \* how the last call left each node

vars == <<mem, lists, state>>

NodeStates == {"hashed", "unhashed", "fake", "deleted"}

\* HLIST_HEAD_INIT, and nodes in zeroed memory.
Init ==
  /\ mem = [link |-> [x \in Heads \cup Nodes |-> NULL], pprev |-> [n \in Nodes |-> NULL]]
  /\ lists = [h \in Heads |-> <<>>]
  /\ state = [n \in Nodes |-> "unhashed"]

Free == {n \in Nodes : state[n] # "hashed"}

Entries(h) == 1..Len(lists[h])

\* What the calls promise: n gets on or off list h at position i.
Enter(n, h, i) ==
  /\ lists' = [lists EXCEPT ![h] = InsertAt(@, i, n)]
  /\ state' = [state EXCEPT ![n] = "hashed"]

Leave(h, i, s) ==
  /\ lists' = [lists EXCEPT ![h] = RemoveAt(@, i)]
  /\ state' = [state EXCEPT ![lists[h][i]] = s]

Rest(n, s) == state' = [state EXCEPT ![n] = s] /\ UNCHANGED lists

-----------------------------------------------------------------------------
InitNode(n) == n \in Free /\ Rest(n, "unhashed") /\ mem' = INIT_HLIST_NODE(mem, n)

AddHead(n, h) == n \in Free /\ Enter(n, h, 1) /\ mem' = hlist_add_head(mem, n, h)

AddBefore(n, h, i) == n \in Free /\ Enter(n, h, i) /\ mem' = hlist_add_before(mem, n, lists[h][i])

AddBehind(n, h, i) == n \in Free /\ Enter(n, h, i+1) /\ mem' = hlist_add_behind(mem, n, lists[h][i])

Del(h, i) == Leave(h, i, "deleted") /\ mem' = hlist_del(mem, lists[h][i])

DelInit(h, i) == Leave(h, i, "unhashed") /\ mem' = hlist_del_init(mem, lists[h][i])

\* "to allow things like hlist_del() to work correctly in cases where there is
\* no list": the deletions are called for a fake node too.
DelFake(n) == state[n] = "fake" /\ Rest(n, "deleted") /\ mem' = hlist_del(mem, n)

\* Nothing to do for a node that is unhashed.
DelInitFree(n) ==
  /\ state[n] \in {"fake", "unhashed"}
  /\ Rest(n, "unhashed")
  /\ mem' = hlist_del_init(mem, n)

\* A fake list is of one node: its next pointer must be null already.
AddFake(n) == state[n] = "unhashed" /\ Rest(n, "fake") /\ mem' = hlist_add_fake(mem, n)

\* The new head has no nodes: they would be lost.
MoveList(old, new) ==
  /\ old # new /\ lists[new] = <<>>
  /\ lists' = [lists EXCEPT ![new] = lists[old], ![old] = <<>>]
  /\ mem' = hlist_move_list(mem, old, new)
  /\ UNCHANGED state

Next ==
  \/ \E n \in Nodes : \/ InitNode(n) \/ DelFake(n) \/ DelInitFree(n) \/ AddFake(n)
                      \/ \E h \in Heads : \/ AddHead(n, h)
                                          \/ \E i \in Entries(h) : AddBefore(n, h, i) \/ AddBehind(n, h, i)
  \/ \E h \in Heads : \E i \in Entries(h) : Del(h, i) \/ DelInit(h, i)
  \/ \E old, new \in Heads : MoveList(old, new)

Spec == Init /\ [][Next]_vars

-----------------------------------------------------------------------------
\* The location that holds the pointer to entry i of h, and what follows it.
Holder(h, i)   == IF i = 1 THEN h ELSE lists[h][i-1]
Follower(h, i) == IF i = Len(lists[h]) THEN NULL ELSE lists[h][i+1]

(***************************************************************************)
(* The pointers say what the calls promised: the nodes of a head follow    *)
(* from first to the null pointer, each points back at the very location   *)
(* that points to it, whether that lies in a head or in a node, and no     *)
(* node is on two lists or twice on one.                                   *)
(***************************************************************************)
Represents ==
  /\ \A h \in Heads :
       /\ lists[h] = <<>> => mem.link[h] = NULL
       /\ \A i \in Entries(h) : /\ mem.link[Holder(h, i)] = lists[h][i]
                                /\ mem.pprev[lists[h][i]] = Holder(h, i)
                                /\ mem.link[lists[h][i]] = Follower(h, i)
  /\ \A g, h \in Heads : \A i \in Entries(g), j \in Entries(h) :
       lists[g][i] = lists[h][j] => g = h /\ i = j

(***************************************************************************)
(* The tests look at one or two pointers and answer for the whole history: *)
(* only a node that was initialised or hlist_del_init()ed is unhashed, and *)
(* is on no list; a fake node points at itself and at nothing, so that to  *)
(* delete a node in either state stays within the node; and a node is      *)
(* singular on its head and no other, which the test does not look at.     *)
(***************************************************************************)
TestsAnswerForTheList ==
  /\ \A n \in Nodes : /\ hlist_unhashed(mem, n) <=> state[n] = "unhashed"
                      /\ hlist_fake(mem, n) <=> state[n] = "fake"
                      /\ state[n] \in {"unhashed", "fake"} => mem.link[n] = NULL
  /\ \A h \in Heads : /\ hlist_empty(mem, h) <=> lists[h] = <<>>
                      /\ \A n \in Nodes : hlist_is_singular_node(mem, n, h) <=> lists[h] = <<n>>

(***************************************************************************)
(* No call writes to a node that is on no list before and after it, unless *)
(* it was called for that node: a deleted node may be freed at once.       *)
(***************************************************************************)
FreeNodesLeftAlone ==
  [][\A n \in Nodes : n \in Free /\ n \in Free' /\ state'[n] = state[n] =>
       \/ mem'.link[n] = mem.link[n] /\ mem'.pprev[n] = mem.pprev[n]
       \/ mem' = INIT_HLIST_NODE(mem, n)]_vars
=============================================================================
