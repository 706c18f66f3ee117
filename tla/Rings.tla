--------------------------------- MODULE Rings ---------------------------------
(***************************************************************************)
(* What it means that a list of include/list.h holds a sequence of cells:  *)
(* its links are a ring through the head and the entries.                  *)
(***************************************************************************)
EXTENDS Integers, Sequences

\* The cell at position i around the head h of the entries q.  Positions 0 and
\* Len(q)+1 are the head itself.
At(h, q, i) == IF i \in 1..Len(q) THEN q[i] ELSE h

\* In m, the next pointers run from the head h through the entries q and back to
\* h, and every prev pointer undoes a next pointer.
Ring(m, h, q) ==
  \A i \in 0..Len(q) : /\ m.next[At(h, q, i)] = At(h, q, i+1)
                       /\ m.prev[At(h, q, i+1)] = At(h, q, i)
=============================================================================
