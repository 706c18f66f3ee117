------------------------------- MODULE ListSpec -------------------------------
(***************************************************************************)
(* What include/list.h promises, with no pointers in it: every list head   *)
(* stands for a sequence of nodes, and every operation rearranges those    *)
(* sequences.  The contracts in the comments of list.h are the guards: an  *)
(* entry to add is on no list, an entry to delete is on one, @list is not  *)
(* @head, and so on.                                                       *)
(*                                                                         *)
(* A head nobody has initialised yet, or that list_splice() or             *)
(* list_replace() left behind, is Undefined until INIT_LIST_HEAD().        *)
(***************************************************************************)
EXTENDS Rings, SequencesExt

CONSTANTS
  Heads,      \* the struct list_head that head a list
  Nodes,      \* the struct list_head embedded in objects
  Undefined   \* the contents of a head that is not initialised

ASSUME CellsAssumption == /\ Heads \cap Nodes = {}
                          /\ Undefined \notin Seq(Nodes)

VARIABLE lists

Live == {h \in Heads : lists[h] # Undefined}

\* The nodes that are on no list.
Free == {n \in Nodes : \A h \in Live : \A i \in 1..Len(lists[h]) : lists[h][i] # n}

Positions(h) == 1..Len(lists[h])        \* where an entry of h is
Gaps(h)      == 1..(Len(lists[h]) + 1)  \* where an entry of h could be put

\* The cell at position i of the list of h in s.
Cell(s, h, i) == At(h, s[h], i)

Without(s, h, i) == [s EXCEPT ![h] = RemoveAt(s[h], i)]
With(s, h, i, n) == [s EXCEPT ![h] = InsertAt(s[h], i, n)]

-----------------------------------------------------------------------------
Initialise(h) == lists' = [lists EXCEPT ![h] = <<>>]

Insert(n, h, i) == lists' = With(lists, h, i, n)

Delete(h, i) == lists' = Without(lists, h, i)

Substitute(h, i, n) == lists' = [lists EXCEPT ![h] = ReplaceAt(lists[h], i, n)]

\* Head g takes over the entries of h, and h is left as rest.
TakeOver(g, h, rest) == lists' = [lists EXCEPT ![g] = lists[h], ![h] = rest]

Exchange(h, i, g, j) ==
  lists' = [lists EXCEPT ![h][i] = lists[g][j], ![g][j] = lists[h][i]]

\* Entry i of h goes to gap j of what is left of g once it is gone.
Move(h, i, g, j) == lists' = With(Without(lists, h, i), g, j, lists[h][i])

Rotate(h, i) ==
  lists' = [lists EXCEPT ![h] = SubSeq(lists[h], i, Len(lists[h])) \o SubSeq(lists[h], 1, i-1)]

\* Entries a..b of h go in front of gap j, which is not among them.
MoveBlock(h, a, b, j) ==
  LET s     == lists[h]
      block == SubSeq(s, a, b)
  IN  lists' = [lists EXCEPT ![h] =
                 IF j > b
                 THEN SubSeq(s, 1, a-1) \o SubSeq(s, b+1, j-1) \o block \o SubSeq(s, j, Len(s))
                 ELSE SubSeq(s, 1, j-1) \o block \o SubSeq(s, j, a-1) \o SubSeq(s, b+1, Len(s))]

\* All the entries of g go into gap j of h, and g is left as rest.
Join(g, h, j, rest) ==
  LET s == lists[h]
  IN  lists' = [lists EXCEPT ![h] = SubSeq(s, 1, j-1) \o lists[g] \o SubSeq(s, j, Len(s)),
                             ![g] = IF lists[g] = <<>> THEN <<>> ELSE rest]

\* The first k entries of h become the contents of g; what g held is lost.
Split(g, h, k) ==
  lists' = [lists EXCEPT ![g] = SubSeq(lists[h], 1, k),
                         ![h] = SubSeq(lists[h], k+1, Len(lists[h]))]

-----------------------------------------------------------------------------
(* Properties of the sequences themselves.                                 *)

ListsType == lists \in [Heads -> Seq(Nodes) \cup {Undefined}]

\* A node is on at most one list, and there only once.
NodesDistinct ==
  \A h, g \in Live : \A i \in Positions(h), j \in Positions(g) :
    lists[h][i] = lists[g][j] => h = g /\ i = j
=============================================================================
