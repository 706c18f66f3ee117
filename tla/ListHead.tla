------------------------------- MODULE ListHead -------------------------------
(***************************************************************************)
(* The circular doubly linked list of include/list.h, as operators on      *)
(* memory.  A memory m is a record of two functions, m.next and m.prev,    *)
(* that give the two pointers of every struct list_head in the program.    *)
(* Every operator has the name of the C function, takes the memory the     *)
(* function finds and returns the memory it leaves, one LET binding or one *)
(* EXCEPT per assignment and in the order of the assignments, because a    *)
(* cell may be its own neighbour and then the order matters.               *)
(*                                                                         *)
(* READ_ONCE and WRITE_ONCE are single loads and stores (include/rwonce.h) *)
(* and need no operator of their own.                                      *)
(***************************************************************************)
EXTENDS Integers, Sequences, FiniteSetsExt, Pointers

\* struct list_head: two pointers per cell of A, each with a poison of its own.
Memory(A) ==
  [next : [A -> A \cup {NULL, LIST_POISON1}], prev : [A -> A \cup {NULL, LIST_POISON2}]]

SetNext(m, x, p) == [next |-> [m.next EXCEPT ![x] = p], prev |-> m.prev]
SetPrev(m, x, p) == [next |-> m.next, prev |-> [m.prev EXCEPT ![x] = p]]

-----------------------------------------------------------------------------
(* Initialisation, insertion and removal.                                  *)

INIT_LIST_HEAD(m, list) ==
  SetPrev(SetNext(m, list, list), list, list)

__list_add(m, new, prev, next) ==
  LET m1 == SetPrev(m, next, new)
      m2 == SetNext(m1, new, next)
      m3 == SetPrev(m2, new, prev)
  IN  SetNext(m3, prev, new)

list_add(m, new, head) == __list_add(m, new, head, m.next[head])

list_add_tail(m, new, head) == __list_add(m, new, m.prev[head], head)

__list_del(m, prev, next) == SetNext(SetPrev(m, next, prev), prev, next)

__list_del_entry(m, entry) == __list_del(m, m.prev[entry], m.next[entry])

__list_del_clearprev(m, entry) == SetPrev(__list_del_entry(m, entry), entry, NULL)

\* A mistake: the two poison values exchanged.
list_del_poisons_swapped(m, entry) ==
  SetPrev(SetNext(__list_del_entry(m, entry), entry, LIST_POISON2),
          entry, LIST_POISON1)

list_del(m, entry) ==
  SetPrev(SetNext(__list_del_entry(m, entry), entry, LIST_POISON1),
          entry, LIST_POISON2)

list_del_init(m, entry) == INIT_LIST_HEAD(__list_del_entry(m, entry), entry)

-----------------------------------------------------------------------------
(* Replacing, exchanging and moving entries.                               *)

\* A mistake: the entry that follows is not told of the new one.
list_replace_one_side(m, old, new) ==
  LET m1 == SetNext(m, new, m.next[old])
      m2 == SetPrev(m1, new, m1.prev[old])
  IN  SetNext(m2, m2.prev[new], new)

list_replace(m, old, new) ==
  LET m1 == SetNext(m, new, m.next[old])
      m2 == SetPrev(m1, m1.next[new], new)
      m3 == SetPrev(m2, new, m2.prev[old])
  IN  SetNext(m3, m3.prev[new], new)

list_replace_init(m, old, new) == INIT_LIST_HEAD(list_replace(m, old, new), old)

\* A mistake: neighbours are not told apart.
list_swap_neighbours_forgotten(m, entry1, entry2) ==
  LET pos == m.prev[entry2]
  IN  list_add(list_replace(list_del(m, entry2), entry1, entry2), entry1, pos)

list_swap(m, entry1, entry2) ==
  LET pos == m.prev[entry2]
      m1  == list_del(m, entry2)
      m2  == list_replace(m1, entry1, entry2)
  IN  list_add(m2, entry1, IF pos = entry1 THEN entry2 ELSE pos)

list_move(m, list, head) == list_add(__list_del_entry(m, list), list, head)

list_move_tail(m, list, head) == list_add_tail(__list_del_entry(m, list), list, head)

list_bulk_move_tail(m, head, first, last) ==
  LET m1 == SetNext(m, m.prev[first], m.next[last])
      m2 == SetPrev(m1, m1.next[last], m1.prev[first])
      m3 == SetNext(m2, m2.prev[head], first)
      m4 == SetPrev(m3, first, m3.prev[head])
      m5 == SetNext(m4, last, head)
  IN  SetPrev(m5, head, last)

-----------------------------------------------------------------------------
(* Tests.                                                                  *)

list_is_first(m, list, head) == m.prev[list] = head

list_is_last(m, list, head) == m.next[list] = head

list_empty(m, head) == m.next[head] = head

\* A mistake: an empty list passes for a list of one.
list_is_singular_or_empty(m, head) == m.next[head] = m.prev[head]

list_is_singular(m, head) == ~list_empty(m, head) /\ m.next[head] = m.prev[head]

-----------------------------------------------------------------------------
(* Rotating, cutting and joining whole lists.                              *)

list_rotate_left(m, head) ==
  IF list_empty(m, head) THEN m ELSE list_move_tail(m, m.next[head], head)

list_rotate_to_front(m, list, head) == list_move_tail(m, head, list)

__list_cut_position(m, list, head, entry) ==
  LET new_first == m.next[entry]
      m1 == SetNext(m, list, m.next[head])
      m2 == SetPrev(m1, m1.next[list], list)
      m3 == SetPrev(m2, list, entry)
      m4 == SetNext(m3, entry, list)
      m5 == SetNext(m4, head, new_first)
  IN  SetPrev(m5, new_first, head)

list_cut_position(m, list, head, entry) ==
  IF \/ list_empty(m, head)
     \/ list_is_singular(m, head) /\ m.next[head] # entry /\ head # entry
  THEN m
  ELSE IF entry = head THEN INIT_LIST_HEAD(m, list)
                       ELSE __list_cut_position(m, list, head, entry)

list_cut_before(m, list, head, entry) ==
  IF m.next[head] = entry THEN INIT_LIST_HEAD(m, list)
  ELSE LET m1 == SetNext(m, list, m.next[head])
           m2 == SetPrev(m1, m1.next[list], list)
           m3 == SetPrev(m2, list, m2.prev[entry])
           m4 == SetNext(m3, m3.prev[list], list)
           m5 == SetNext(m4, head, entry)
       IN  SetPrev(m5, entry, head)

__list_splice(m, list, prev, next) ==
  LET first == m.next[list]
      last  == m.prev[list]
      m1 == SetPrev(m, first, prev)
      m2 == SetNext(m1, prev, first)
      m3 == SetNext(m2, last, next)
  IN  SetPrev(m3, next, last)

list_splice(m, list, head) ==
  IF list_empty(m, list) THEN m ELSE __list_splice(m, list, head, m.next[head])

list_splice_tail(m, list, head) ==
  IF list_empty(m, list) THEN m ELSE __list_splice(m, list, m.prev[head], head)

list_splice_init(m, list, head) ==
  IF list_empty(m, list) THEN m
  ELSE INIT_LIST_HEAD(__list_splice(m, list, head, m.next[head]), list)

list_splice_tail_init(m, list, head) ==
  IF list_empty(m, list) THEN m
  ELSE INIT_LIST_HEAD(__list_splice(m, list, m.prev[head], head), list)

-----------------------------------------------------------------------------
(* Iteration.  A for_each loop is modelled by the sequence of cells its    *)
(* cursor visits before it comes back to head.  A cursor that reaches      *)
(* something that is not a cell (C would fault) or never meets head again  *)
(* gives Astray.                                                           *)

Chase(link, head) ==
  LET fuel == Cardinality(DOMAIN link)
      pos[i \in 0..fuel] ==
        IF i = 0 THEN head
        ELSE LET p == pos[i-1] IN IF p \in DOMAIN link THEN link[p] ELSE p
      laps == {i \in 1..fuel : pos[i] = head}
  IN  IF laps = {} THEN Astray ELSE [i \in 1..Min(laps)-1 |-> pos[i]]

list_for_each(m, head) == Chase(m.next, head)

list_for_each_prev(m, head) == Chase(m.prev, head)
=============================================================================
