------------------------------- MODULE ListIter -------------------------------
(***************************************************************************)
(* The loops of include/list.h whose body changes the list they go over.   *)
(* They differ in where they start (at the head, behind an entry or at     *)
(* one), in their direction, and in whether they take the next entry       *)
(* before the body runs (safe) or after.  A turn of the loop is an action, *)
(* and so is every call that the body makes.                               *)
(*                                                                         *)
(* A body may change the list as it likes but for the entry the loop goes  *)
(* on from: pos, or tmp in a safe loop.  If that goes, the body must call  *)
(* list_safe_reset_next() while pos still is where it was.                 *)
(***************************************************************************)
EXTENDS ListHead, SequencesExt

CONSTANTS
  TheHead,  \* the head of the list
  Items  \* the entries

ASSUME ListIterAssumption == TheHead \notin Items /\ IsFiniteSet(Items)

VARIABLES
  links,
  loop  \* the loop that is running and its variables, and for the properties
        \* the entries it has seen, those that stayed in its way, and those
        \* that entered the list, since it began

iterVars == <<links, loop>>

NoLoop == [op |-> "none"]

\* LIST_HEAD_INIT, and entries on no list.
IterInit ==
  /\ links = INIT_LIST_HEAD([next |-> [x \in {TheHead} \cup Items |-> NULL],
                           prev |-> [x \in {TheHead} \cup Items |-> NULL]], TheHead)
  /\ loop = NoLoop

\* The entries in the order of a loop in that direction.
InOrder(fwd) == IF fwd THEN list_for_each(links, TheHead) ELSE list_for_each_prev(links, TheHead)

OnTheList == ToSet(InOrder(TRUE))

Running == loop.op = "turn"

Callable == loop.op \in {"none", "turn"}

-----------------------------------------------------------------------------
(* What a body, or the program between two loops, does to the list.        *)

\* Bound: a body adds or moves an entry once only, so that it does not feed
\* the loop for ever.
MayEnter(node) == Running => node \notin loop.entered

MayLeave(node) ==
  /\ node \in OnTheList
  /\ Running => IF ~loop.safe THEN node # loop.pos
                ELSE IF node = loop.tmp THEN loop.pinned /\ loop.fwd
                ELSE node = loop.pos => loop.fresh

Left(l, node) ==
  IF l = NoLoop THEN l
  ELSE [l EXCEPT !.stayed = @ \ {node}, !.pinned = @ /\ node # l.pos,
                 !.fresh = @ /\ node # l.tmp]

Entered(l, node) == IF l = NoLoop THEN l ELSE [l EXCEPT !.entered = @ \cup {node}]

BodyAdd(node, at) ==
  /\ Callable /\ node \notin OnTheList /\ MayEnter(node)
  /\ links' = list_add(links, node, at)
  /\ loop' = Entered(loop, node)

BodyDel(node) ==
  /\ Callable /\ MayLeave(node)
  /\ links' = list_del(links, node)
  /\ loop' = Left(loop, node)

BodyMoveTail(node) ==
  /\ Callable /\ MayLeave(node) /\ MayEnter(node)
  /\ links' = list_move_tail(links, node, TheHead)
  /\ loop' = Entered(Left(loop, node), node)

-----------------------------------------------------------------------------
\* list_next_entry and list_prev_entry.
Neighbour(x, fwd) == IF fwd THEN links.next[x] ELSE links.prev[x]

\* The assignments and the test at the top of a loop.
Arrive(l, pos) ==
  IF pos = TheHead THEN [l EXCEPT !.op = "end", !.pos = NULL, !.tmp = NULL]
  ELSE [l EXCEPT !.op = "turn", !.pos = pos, !.pinned = TRUE, !.fresh = TRUE,
                 !.tmp  = IF l.safe THEN Neighbour(pos, l.fwd) ELSE NULL,
                 !.seen = @ \cup {pos}]

\* A loop about to begin with pos, which has the entries of scope before it.
Begin(pos, scope, fwd, safe) ==
  /\ loop = NoLoop
  /\ loop' = Arrive([op |-> "end", fwd |-> fwd, safe |-> safe, pos |-> NULL, tmp |-> NULL,
                     pinned |-> TRUE, fresh |-> TRUE, seen |-> {}, stayed |-> ToSet(scope),
                     entered |-> {}], pos)
  /\ UNCHANGED links

\* list_for_each and its variants: prev, reverse, safe.
LoopStart(fwd, safe) == Begin(Neighbour(TheHead, fwd), InOrder(fwd), fwd, safe)

\* The variants that go on behind entry number i, or at it.  No safe loop
\* goes backwards from an entry.
LoopContinue(i, fwd, safe) ==
  /\ safe => fwd
  /\ Begin(Neighbour(InOrder(fwd)[i], fwd), SubSeq(InOrder(fwd), i+1, Len(InOrder(fwd))), fwd, safe)

LoopFrom(i, fwd, safe) ==
  /\ safe => fwd
  /\ Begin(InOrder(fwd)[i], SubSeq(InOrder(fwd), i, Len(InOrder(fwd))), fwd, safe)

\* A mistake: n is advanced before pos takes its value.
NextPosAdvanced == IF loop.safe THEN Neighbour(loop.tmp, loop.fwd) ELSE Neighbour(loop.pos, loop.fwd)

NextPos == IF loop.safe THEN loop.tmp ELSE Neighbour(loop.pos, loop.fwd)

LoopTurn == Running /\ loop.fresh /\ loop' = Arrive(loop, NextPos) /\ UNCHANGED links

\* A mistake: the entry before pos, and not the one behind it.
ResetNextBackwards == links.prev[loop.pos]

ResetNext == links.next[loop.pos]

\* list_safe_reset_next(): "if the cursor element (pos) is pinned in the list".
SafeResetNext ==
  /\ Running /\ loop.safe /\ loop.fwd /\ loop.pinned
  /\ loop' = [loop EXCEPT !.tmp = ResetNext, !.fresh = TRUE]
  /\ UNCHANGED links

LoopBreak == Running /\ loop' = NoLoop /\ UNCHANGED links

LoopEnd == loop.op = "end" /\ loop' = NoLoop /\ UNCHANGED links

IterNext ==
  \/ \E node \in Items : \/ BodyDel(node) \/ BodyMoveTail(node)
                         \/ \E at \in {TheHead} \cup OnTheList : BodyAdd(node, at)
  \/ \E fwd, safe \in BOOLEAN :
       \/ LoopStart(fwd, safe)
       \/ \E i \in 1..Cardinality(OnTheList) : LoopContinue(i, fwd, safe) \/ LoopFrom(i, fwd, safe)
  \/ LoopTurn \/ SafeResetNext \/ LoopBreak \/ LoopEnd

IterSpec == IterInit /\ [][IterNext]_iterVars

\* A body that made its next entry stale resets it, ends, and the loop goes on.
IterFairSpec == IterSpec /\ WF_iterVars(LoopTurn \/ LoopEnd) /\ WF_iterVars(Running /\ ~loop.fresh /\ SafeResetNext)

-----------------------------------------------------------------------------
(***************************************************************************)
(* A loop that ran to its end has seen every entry that was in its way     *)
(* when it began and was neither deleted nor moved by a body, whatever the *)
(* bodies did to the entries on either side.                               *)
(***************************************************************************)
LoopsMissNobody == loop.op = "end" => loop.stayed \subseteq loop.seen

(***************************************************************************)
(* A turn takes up an entry of the list, never one that was deleted or the *)
(* head, and none a second time but one that a body put there again.       *)
(***************************************************************************)
TurnsTakeUpEntries ==
  [][LoopTurn /\ loop'.op = "turn" =>
       loop'.pos \in OnTheList /\ (loop'.pos \in loop.seen => loop'.pos \in loop.entered)]_iterVars

\* A loop ends, if its bodies do not feed it for ever.
LoopsEnd == loop # NoLoop ~> loop = NoLoop
=============================================================================
