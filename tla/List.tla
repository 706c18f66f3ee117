--------------------------------- MODULE List ---------------------------------
(***************************************************************************)
(* A program that uses the lists of include/list.h by their contracts.     *)
(* mem is the memory the functions read and write.  lists is a history     *)
(* variable: what the calls made so far promise, kept by ListSpec.  Every  *)
(* action is one call: the contract (a guard over lists), the promise (an  *)
(* action of ListSpec) and the pointer assignments (an operator of         *)
(* ListHead).  Nothing in the pointer part reads lists.                    *)
(***************************************************************************)
EXTENDS ListSpec, ListHead

VARIABLE mem

vars == <<mem, lists>>

Addr == Heads \cup Nodes

\* All the cells are static storage, zeroed, and no head is initialised.
Init ==
  /\ mem = [next |-> [x \in Addr |-> NULL], prev |-> [x \in Addr |-> NULL]]
  /\ lists = [h \in Heads |-> Undefined]

-----------------------------------------------------------------------------
InitHead(h) == Initialise(h) /\ mem' = INIT_LIST_HEAD(mem, h)

InitNode(n) ==
  /\ n \in Free
  /\ mem' = INIT_LIST_HEAD(mem, n)
  /\ UNCHANGED lists

\* list_add() after any cell of the list, the head or an entry.
ListAdd(n, h, i) ==
  /\ n \in Free /\ h \in Live /\ i \in Gaps(h)
  /\ Insert(n, h, i)
  /\ mem' = list_add(mem, n, Cell(lists, h, i-1))

\* list_add_tail() before any cell of the list.
ListAddTail(n, h, i) ==
  /\ n \in Free /\ h \in Live /\ i \in Gaps(h)
  /\ Insert(n, h, i)
  /\ mem' = list_add_tail(mem, n, Cell(lists, h, i))

ListDel(h, i) ==
  /\ h \in Live /\ i \in Positions(h)
  /\ Delete(h, i)
  /\ mem' = list_del(mem, lists[h][i])

ListDelInit(h, i) ==
  /\ h \in Live /\ i \in Positions(h)
  /\ Delete(h, i)
  /\ mem' = list_del_init(mem, lists[h][i])

ListDelClearprev(h, i) ==
  /\ h \in Live /\ i \in Positions(h)
  /\ Delete(h, i)
  /\ mem' = __list_del_clearprev(mem, lists[h][i])

ListReplace(h, i, n) ==
  /\ n \in Free /\ h \in Live /\ i \in Positions(h)
  /\ Substitute(h, i, n)
  /\ mem' = list_replace(mem, lists[h][i], n)

ListReplaceInit(h, i, n) ==
  /\ n \in Free /\ h \in Live /\ i \in Positions(h)
  /\ Substitute(h, i, n)
  /\ mem' = list_replace_init(mem, lists[h][i], n)

\* The cell replaced may be a head: the list, empty or not, gets another head.
ListReplaceHead(h, g) ==
  /\ h \in Live /\ g # h
  /\ TakeOver(g, h, Undefined)
  /\ mem' = list_replace(mem, h, g)

ListReplaceInitHead(h, g) ==
  /\ h \in Live /\ g # h
  /\ TakeOver(g, h, <<>>)
  /\ mem' = list_replace_init(mem, h, g)

ListSwap(h, i, g, j) ==
  /\ h \in Live /\ i \in Positions(h) /\ g \in Live /\ j \in Positions(g)
  /\ <<h, i>> # <<g, j>>
  /\ Exchange(h, i, g, j)
  /\ mem' = list_swap(mem, lists[h][i], lists[g][j])

\* The target of a move is any cell of any list but the entry itself.
ListMove(h, i, g, j) ==
  LET left == Without(lists, h, i)
  IN  /\ h \in Live /\ i \in Positions(h) /\ g \in Live /\ j \in 1..(Len(left[g]) + 1)
      /\ Move(h, i, g, j)
      /\ mem' = list_move(mem, lists[h][i], Cell(left, g, j-1))

ListMoveTail(h, i, g, j) ==
  LET left == Without(lists, h, i)
  IN  /\ h \in Live /\ i \in Positions(h) /\ g \in Live /\ j \in 1..(Len(left[g]) + 1)
      /\ Move(h, i, g, j)
      /\ mem' = list_move_tail(mem, lists[h][i], Cell(left, g, j))

ListBulkMoveTail(h, a, b, j) ==
  /\ h \in Live /\ a \in Positions(h) /\ b \in a..Len(lists[h]) /\ j \in Gaps(h) \ (a..b)
  /\ MoveBlock(h, a, b, j)
  /\ mem' = list_bulk_move_tail(mem, Cell(lists, h, j), lists[h][a], lists[h][b])

ListRotateLeft(h) ==
  /\ h \in Live
  /\ IF lists[h] = <<>> THEN UNCHANGED lists ELSE Move(h, 1, h, Len(lists[h]))
  /\ mem' = list_rotate_left(mem, h)

ListRotateToFront(h, i) ==
  /\ h \in Live /\ i \in Positions(h)
  /\ Rotate(h, i)
  /\ mem' = list_rotate_to_front(mem, lists[h][i], h)

\* With an empty @head the function returns at once and @list keeps its contents.
ListCutPosition(g, h, k) ==
  /\ h \in Live /\ g # h /\ k \in 0..Len(lists[h])
  /\ IF lists[h] = <<>> THEN UNCHANGED lists ELSE Split(g, h, k)
  /\ mem' = list_cut_position(mem, g, h, Cell(lists, h, k))

ListCutBefore(g, h, k) ==
  /\ h \in Live /\ g # h /\ k \in 0..Len(lists[h])
  /\ Split(g, h, k)
  /\ mem' = list_cut_before(mem, g, h, Cell(lists, h, k+1))

\* list_splice() after any cell of another list; list_splice_tail() before one.
ListSplice(g, h, j) ==
  /\ g \in Live /\ h \in Live /\ g # h /\ j \in Gaps(h)
  /\ \/ Join(g, h, j, Undefined) /\ mem' = list_splice(mem, g, Cell(lists, h, j-1))
     \/ Join(g, h, j, <<>>)      /\ mem' = list_splice_init(mem, g, Cell(lists, h, j-1))

ListSpliceTail(g, h, j) ==
  /\ g \in Live /\ h \in Live /\ g # h /\ j \in Gaps(h)
  /\ \/ Join(g, h, j, Undefined) /\ mem' = list_splice_tail(mem, g, Cell(lists, h, j))
     \/ Join(g, h, j, <<>>)      /\ mem' = list_splice_tail_init(mem, g, Cell(lists, h, j))

-----------------------------------------------------------------------------
NodeStep(n) ==
  \/ InitNode(n)
  \/ \E h \in Live : \E i \in Gaps(h) :
       \/ ListAdd(n, h, i)
       \/ ListAddTail(n, h, i)
  \/ \E h \in Live : \E i \in Positions(h) :
       \/ ListReplace(h, i, n)
       \/ ListReplaceInit(h, i, n)

EntryStep(h, i) ==
  \/ ListDel(h, i)
  \/ ListDelInit(h, i)
  \/ ListDelClearprev(h, i)
  \/ ListRotateToFront(h, i)
  \/ \E g \in Live : \E j \in Positions(g) : ListSwap(h, i, g, j)
  \/ \E g \in Live : \E j \in Gaps(g) :
       \/ ListMove(h, i, g, j)
       \/ ListMoveTail(h, i, g, j)
  \/ \E b \in Positions(h), j \in Gaps(h) : ListBulkMoveTail(h, i, b, j)

HeadStep(h) ==
  \/ ListRotateLeft(h)
  \/ \E g \in Heads \ {h} :
       \/ ListReplaceHead(h, g)
       \/ ListReplaceInitHead(h, g)
       \/ \E k \in 0..Len(lists[h]) :
            \/ ListCutPosition(g, h, k)
            \/ ListCutBefore(g, h, k)
  \/ \E g \in Live \ {h} : \E j \in Gaps(h) :
       \/ ListSplice(g, h, j)
       \/ ListSpliceTail(g, h, j)

Next ==
  \/ \E h \in Heads : InitHead(h)
  \/ \E n \in Nodes : NodeStep(n)
  \/ \E h \in Live : HeadStep(h)
  \/ \E h \in Live : \E i \in Positions(h) : EntryStep(h, i)

Spec == Init /\ [][Next]_vars

-----------------------------------------------------------------------------
\* Memory and history have their types.
TypeOK == mem \in Memory(Addr) /\ ListsType

(***************************************************************************)
(* The pointers say what the calls promised: every live head is the head   *)
(* of a ring of exactly its entries, in order, and no node is on two rings *)
(* or twice on one.  This is what each function of list.h must keep for    *)
(* its own list and for every other.                                       *)
(***************************************************************************)
Represents == NodesDistinct /\ \A h \in Live : Ring(mem, h, lists[h])

(***************************************************************************)
(* The constant-time tests answer for the list, though they look at one or *)
(* two pointers only: emptiness, having one entry, and being the first or  *)
(* the last entry of this head and of no other.                            *)
(***************************************************************************)
TestsAnswerForTheList ==
  \A h \in Live :
    /\ list_empty(mem, h) <=> lists[h] = <<>>
    /\ list_is_singular(mem, h) <=> Len(lists[h]) = 1
    /\ \A g \in Live : \A i \in Positions(g) :
         /\ list_is_first(mem, lists[g][i], h) <=> g = h /\ i = 1
         /\ list_is_last(mem, lists[g][i], h) <=> g = h /\ i = Len(lists[h])

(***************************************************************************)
(* No call writes to a cell that is on no list when it starts and on none  *)
(* when it returns: an object taken off a list may be freed or reused, and *)
(* a head left behind by list_splice() or list_replace() still points into *)
(* the list it has lost.  Only initialising that very cell may touch it.   *)
(***************************************************************************)
Detached == Free \cup (Heads \ Live)

DetachedCellsLeftAlone ==
  [][\A x \in Detached \cap Detached' :
       \/ mem'.next[x] = mem.next[x] /\ mem'.prev[x] = mem.prev[x]
       \/ mem' = INIT_LIST_HEAD(mem, x)]_vars
=============================================================================
