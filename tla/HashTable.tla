------------------------------- MODULE HashTable -------------------------------
(***************************************************************************)
(* The hash table of include/hashtable.h, an array of hash lists, and a    *)
(* program that adds and removes objects while it iterates over it.  The   *)
(* four loops differ in two ways: over one bucket ("possible") or over     *)
(* all, and safe, when the loop takes the next node before the body runs,  *)
(* or not.  A turn of a loop is an action, and so is every call that its   *)
(* body makes.                                                             *)
(*                                                                         *)
(* The bucket of a key is the value of hash_min(), about which nothing is  *)
(* assumed but its range: a behaviour is one hash function.                *)
(***************************************************************************)
EXTENDS HlistHead, SequencesExt

CONSTANTS
  Nodes,     \* the struct hlist_node of the objects
  Keys,
  HASH_SIZE  \* the length of the array that DEFINE_HASHTABLE makes for @bits

ASSUME HashTableAssumption == /\ HASH_SIZE \in Nat \ {0}
                              /\ \E bits \in 0..HASH_SIZE : HASH_SIZE = 2^bits
                              /\ Nodes \cap Int = {} /\ IsFiniteSet(Nodes)
                              /\ NULL \notin Nodes \cup Int

VARIABLES
  mem,    \* the buckets are the heads 0, 1, ...
  ready,  \* whether the table has been initialised
  hash,   \* hash_min() of each key
  key,    \* the key of each object
  loop    \* the loop that is running, its variables, and for the properties
          \* the nodes it has seen and those in its scope since it began

vars == <<mem, ready, hash, key, loop>>

Buckets == 0..HASH_SIZE-1

NoLoop == [op |-> "none"]

\* DEFINE_HASHTABLE initialises a table, DECLARE_HASHTABLE leaves what was there.
Init ==
  /\ ready \in BOOLEAN
  /\ mem = [link  |-> [x \in Buckets \cup Nodes |->
                        IF x \in Buckets /\ ~ready THEN LIST_POISON1 ELSE NULL],
            pprev |-> [n \in Nodes |-> NULL]]
  /\ hash \in [Keys -> Buckets]
  /\ key \in [Nodes -> Keys]
  /\ loop = NoLoop

hash_hashed(node) == ~hlist_unhashed(mem, node)

\* A mistake: the last bucket is forgotten.
__hash_init_short(m, sz) ==
  [link |-> [x \in DOMAIN m.link |-> IF x \in 0..sz-2 THEN NULL ELSE m.link[x]], pprev |-> m.pprev]

__hash_init(m, sz) ==
  [link |-> [x \in DOMAIN m.link |-> IF x \in 0..sz-1 THEN NULL ELSE m.link[x]], pprev |-> m.pprev]

__hash_empty(m, sz) == \A i \in 0..sz-1 : hlist_empty(m, i)

\* The bucket of an object.
BucketOf(node) == hash[key[node]]

-----------------------------------------------------------------------------
HashInit ==
  /\ loop = NoLoop /\ \A n \in Nodes : ~hash_hashed(n)
  /\ mem' = __hash_init(mem, HASH_SIZE)
  /\ ready' = TRUE
  /\ UNCHANGED <<hash, key, loop>>

\* The program calls from outside of any loop, or from the body of one.
Callable == loop.op \in {"none", "turn"}

HashAdd(node) ==
  /\ ready /\ Callable /\ ~hash_hashed(node)
  /\ mem' = hlist_add_head(mem, node, BucketOf(node))
  /\ UNCHANGED <<ready, hash, key, loop>>

\* The node the running loop will go on from.  A body may delete any other.
Anchor == IF loop.op # "turn" THEN NULL ELSE IF loop.safe THEN loop.tmp ELSE loop.obj

\* hash_del() of a node that is in no table does nothing.
HashDel(node) ==
  /\ ready /\ Callable /\ node # Anchor
  /\ mem' = hlist_del_init(mem, node)
  /\ loop' = IF loop = NoLoop THEN loop ELSE [loop EXCEPT !.stayed = @ \ {node}]
  /\ UNCHANGED <<ready, hash, key>>

-----------------------------------------------------------------------------
\* The loop over one bucket arrives at obj: the body is next, or the bucket ends.
Arrive(l, obj) ==
  IF obj = NULL THEN [l EXCEPT !.op = "bucket", !.obj = NULL]
  ELSE [l EXCEPT !.op = "turn", !.obj = obj, !.seen = @ \cup {obj},
                 !.tmp = IF l.safe THEN mem.link[obj] ELSE NULL]

InScope(from, to) == {n \in Nodes : hash_hashed(n) /\ BucketOf(n) \in from..to}

\* from and to are the buckets: all of them, or that of the key twice.
LoopStart(from, to, safe) ==
  /\ ready /\ loop = NoLoop
  /\ loop' = Arrive([op |-> "bucket", bkt |-> from, to |-> to, safe |-> safe, obj |-> NULL,
                     tmp |-> NULL, seen |-> {}, stayed |-> InScope(from, to)],
                    mem.link[from])
  /\ UNCHANGED <<mem, ready, hash, key>>

\* A mistake: a safe loop, too, goes on from the node the body had.
NextNodeUnsafe == mem.link[loop.obj]

NextNode == IF loop.safe THEN loop.tmp ELSE mem.link[loop.obj]

LoopTurn ==
  /\ loop.op = "turn"
  /\ loop' = Arrive(loop, NextNode)
  /\ UNCHANGED <<mem, ready, hash, key>>

\* A mistake: the loop over the buckets does not advance.
NextBucketStays == loop.bkt

NextBucket == loop.bkt + 1

\* obj is NULL at the end of a bucket, and the loop over the buckets goes on.
LoopNextBucket ==
  /\ loop.op = "bucket"
  /\ loop' = IF loop.bkt < loop.to
             THEN Arrive([loop EXCEPT !.bkt = NextBucket], mem.link[NextBucket])
             ELSE [loop EXCEPT !.op = "end"]
  /\ UNCHANGED <<mem, ready, hash, key>>

\* A break leaves obj as it is, not NULL, which ends both loops.
LoopBreak == loop.op = "turn" /\ loop' = NoLoop /\ UNCHANGED <<mem, ready, hash, key>>

LoopEnd == loop.op = "end" /\ loop' = NoLoop /\ UNCHANGED <<mem, ready, hash, key>>

Looping == LoopTurn \/ LoopNextBucket \/ LoopEnd

Next ==
  \/ HashInit
  \/ \E node \in Nodes : HashAdd(node) \/ HashDel(node)
  \/ \E safe \in BOOLEAN : \/ LoopStart(0, HASH_SIZE-1, safe)
                           \/ \E k \in Keys : LoopStart(hash[k], hash[k], safe)
  \/ LoopBreak
  \/ Looping

Spec == Init /\ [][Next]_vars

\* The body of a loop ends, and the loop then goes on.
FairSpec == Spec /\ WF_vars(Looping)

-----------------------------------------------------------------------------
(***************************************************************************)
(* An object is in the table exactly if it is in the bucket of its key,    *)
(* once, and in no other: hash_for_each_possible() of its key finds it,    *)
(* hash_hashed() knows it, and the buckets stay lists while loops run over *)
(* them and their bodies change them.                                      *)
(***************************************************************************)
ObjectsAreInTheirBuckets ==
  ready =>
    /\ \A b \in Buckets :
         LET s == hlist_for_each(mem, b)
         IN  ToSet(s) = {n \in Nodes : hash_hashed(n) /\ BucketOf(n) = b} /\ IsInjective(s)
    /\ __hash_empty(mem, HASH_SIZE) <=> \A n \in Nodes : ~hash_hashed(n)

\* A loop that ran to its end has seen every object that was there all the time.
LoopsMissNobody == loop.op = "end" => loop.stayed \subseteq loop.seen

(***************************************************************************)
(* A turn of a loop takes up an object that is in a bucket of the loop,    *)
(* and one it has not had yet, even if the body deleted objects and added  *)
(* them again.                                                             *)
(***************************************************************************)
LoopsVisitOnce ==
  [][(LoopTurn \/ LoopNextBucket) /\ loop'.op = "turn" =>
         loop'.obj \notin loop.seen /\ hash_hashed(loop'.obj) /\ BucketOf(loop'.obj) = loop'.bkt]_vars

\* Whatever its body adds or deletes, a loop ends.
LoopsEnd == loop # NoLoop ~> loop = NoLoop
=============================================================================
