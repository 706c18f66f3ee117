--------------------------------- MODULE Fifo ---------------------------------
(***************************************************************************)
(* A bounded queue between one producer and one consumer, which move       *)
(* several items at a time: what todo/circ_buf.h is for.                   *)
(***************************************************************************)
EXTENDS Naturals, Sequences

CONSTANTS Items, Capacity

VARIABLES
  queue,  \* the items put and not taken yet
  taken   \* what the consumer took and has not used yet

vars == <<queue, taken>>

\* What can be put at once when there is room for n.
Chunks(n) == UNION {[1..k -> Items] : k \in 1..n}

Init == queue = <<>> /\ taken = <<>>

Put ==
  \E chunk \in Chunks(Capacity - Len(queue)) :
    queue' = queue \o chunk /\ UNCHANGED taken

Take ==
  \E n \in 1..Len(queue) :
    /\ taken = <<>>
    /\ taken' = SubSeq(queue, 1, n)
    /\ queue' = SubSeq(queue, n + 1, Len(queue))

Use == taken' = <<>> /\ UNCHANGED queue

Next == Put \/ Take \/ Use

Spec == Init /\ [][Next]_vars
=============================================================================
