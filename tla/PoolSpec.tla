------------------------------- MODULE PoolSpec -------------------------------
(***************************************************************************)
(* What include/pool.h promises: objects are either free or in use by the  *)
(* caller, an object comes from the free ones, a free one is one that was  *)
(* given back or one that nobody has seen, and destroying a pool takes     *)
(* them all.  Which free object a caller gets is not promised.             *)
(***************************************************************************)
CONSTANT Objects   \* the addresses an object may have

VARIABLES free, used

vars == <<free, used>>

Init == free = {} /\ used = {}

Grow ==
  \E o \in Objects \ (free \cup used) : free' = free \cup {o} /\ UNCHANGED used

Get == \E o \in free : free' = free \ {o} /\ used' = used \cup {o}

Put == \E o \in used : free' = free \cup {o} /\ used' = used \ {o}

Destroy == free' = {} /\ used' = {}

Next == Grow \/ Get \/ Put \/ Destroy

Spec == Init /\ [][Next]_vars
=============================================================================
