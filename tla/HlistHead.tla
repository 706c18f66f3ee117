------------------------------- MODULE HlistHead -------------------------------
(***************************************************************************)
(* The hash lists of include/list.h, as operators on memory.  A head has   *)
(* one pointer and a node points back not at a node but at the location    *)
(* that holds the pointer to it: the first member of a head or the next    *)
(* member of another node.  A location is therefore named by the head or   *)
(* the node it lies in: m.link[x] is x->first for a head and x->next for a *)
(* node, and m.pprev[n] is such an x.                                      *)
(*                                                                         *)
(* As in ListHead, an operator has the name of the C function and makes    *)
(* its loads and stores in the order of the code.                          *)
(***************************************************************************)
EXTENDS Integers, Sequences, FiniteSetsExt, Pointers

\* struct hlist_head and struct hlist_node, for heads H and nodes N.
HMemory(H, N) ==
  [link  : [H \cup N -> N \cup {NULL, LIST_POISON1}],
   pprev : [N -> H \cup N \cup {NULL, LIST_POISON2}]]

SetLink(m, x, p)  == [link |-> [m.link EXCEPT ![x] = p], pprev |-> m.pprev]
SetPprev(m, n, p) == [link |-> m.link, pprev |-> [m.pprev EXCEPT ![n] = p]]

\* The store a null check guards: only a node has a pprev to fix.
FixPprev(m, n, p) == IF n = NULL THEN m ELSE SetPprev(m, n, p)

-----------------------------------------------------------------------------
INIT_HLIST_HEAD(m, ptr) == SetLink(m, ptr, NULL)

INIT_HLIST_NODE(m, h) == SetPprev(SetLink(m, h, NULL), h, NULL)

hlist_unhashed(m, h) == m.pprev[h] = NULL

hlist_empty(m, h) == m.link[h] = NULL

__hlist_del(m, n) == FixPprev(SetLink(m, m.pprev[n], m.link[n]), m.link[n], m.pprev[n])

\* A mistake: the node still looks unhashed.
hlist_del_looks_unhashed(m, n) == SetPprev(SetLink(__hlist_del(m, n), n, LIST_POISON1), n, NULL)

hlist_del(m, n) == SetPprev(SetLink(__hlist_del(m, n), n, LIST_POISON1), n, LIST_POISON2)

hlist_del_init(m, n) ==
  IF hlist_unhashed(m, n) THEN m ELSE INIT_HLIST_NODE(__hlist_del(m, n), n)

\* A mistake: the old first node points back at the head.
hlist_add_head_stale_pprev(m, n, h) == SetPprev(SetLink(SetLink(m, n, m.link[h]), h, n), n, h)

hlist_add_head(m, n, h) ==
  LET first == m.link[h]
      m1    == SetLink(m, n, first)
      m2    == FixPprev(m1, first, n)
  IN  SetPprev(SetLink(m2, h, n), n, h)

\* A mistake: pprev is read after it was overwritten.
hlist_add_before_late(m, n, next) ==
  LET m1 == SetPprev(SetLink(m, n, next), next, n)
  IN  SetPprev(m1, n, m1.pprev[next])

hlist_add_before(m, n, next) ==
  LET m1 == SetPprev(m, n, m.pprev[next])
      m2 == SetLink(m1, n, next)
      m3 == SetPprev(m2, next, n)
  IN  SetLink(m3, m3.pprev[n], n)

hlist_add_behind(m, n, prev) ==
  LET m1 == SetLink(m, n, m.link[prev])
      m2 == SetLink(m1, prev, n)
      m3 == SetPprev(m2, n, prev)
  IN  FixPprev(m3, m3.link[n], n)

hlist_add_fake(m, n) == SetPprev(m, n, n)

hlist_fake(m, h) == m.pprev[h] = h

hlist_is_singular_node(m, n, h) == m.link[n] = NULL /\ m.pprev[n] = h

hlist_move_list(m, old, new) ==
  LET m1 == SetLink(m, new, m.link[old])
      m2 == FixPprev(m1, m1.link[new], new)
  IN  SetLink(m2, old, NULL)

-----------------------------------------------------------------------------
(* Iteration.  The nodes that a loop visits until the null pointer, or     *)
(* Astray when it meets something else or never ends.                      *)

hlist_for_each(m, head) ==
  LET fuel == Cardinality(DOMAIN m.pprev) + 1
      pos[i \in 1..fuel] ==
        IF i = 1 THEN m.link[head]
        ELSE LET p == pos[i-1] IN IF p \in DOMAIN m.pprev THEN m.link[p] ELSE p
      ends == {i \in 1..fuel : pos[i] = NULL}
  IN  IF ends = {} THEN Astray ELSE [i \in 1..Min(ends)-1 |-> pos[i]]
=============================================================================
