--------------------------------- MODULE Pool ---------------------------------
(***************************************************************************)
(* The memory pool of src/pool.c, and a caller that uses one pool as       *)
(* pool.h allows.  The pool keeps its objects on a list threaded through   *)
(* the objects themselves, so the links lie in memory the caller writes to *)
(* whenever it holds the object, and in blocks that pool_destroy() frees   *)
(* while it walks them.                                                    *)
(*                                                                         *)
(* pool_create() and pool_add() are one action each.  pool_get() and       *)
(* pool_destroy() have loops: call holds the local variables of the one    *)
(* that is running, and each turn of its loop is an action.                *)
(***************************************************************************)
EXTENDS ListHead, SequencesExt

CONSTANTS
  Blocks,          \* the addresses malloc() may return for a block
  Offsets,         \* offsets into block->data, in units of memory
  GrowSizes,       \* the @grow arguments of pool_create()
  Sizes,           \* its @size arguments, in the same units
  LinkSize,        \* sizeof(struct list_head)
  MaxObjects,      \* bound: malloc() fails beyond
  TwoTo32,         \* the number of values of a u32
  TwoTo64,         \* the number of values of a size_t
  list_available,  \* &pool->list_available
  list_blocks      \* &pool->list_blocks

MaxOf(a, b) == IF a > b THEN a ELSE b

\* The members of pool_t, all but the two list heads.
PoolType(g) == [eltsize : 0..TwoTo64-1, growsize : g, available : 0..TwoTo32-1,
                allocated : 0..TwoTo32-1, nblocks : 0..TwoTo32-1]

ASSUME PoolAssumption ==
  /\ TwoTo32 \in Nat \ {0} /\ TwoTo64 \in Nat \ {0}
  /\ GrowSizes \subseteq Nat /\ Sizes \subseteq 0..TwoTo64-1 /\ Offsets \subseteq Nat
  /\ LinkSize \in 1..TwoTo64-1
  /\ \A g \in GrowSizes, s \in Sizes : \A i \in 0..g-1 :
       (i * MaxOf(s, LinkSize)) % TwoTo64 \in Offsets

\* Fewer objects than a u32 counts can ever exist at once.
ASSUME CountersSuffice ==
  /\ IsFiniteSet(Blocks)
  /\ Cardinality(Blocks) < TwoTo32
  /\ \A g \in GrowSizes : Cardinality(Blocks) * g < TwoTo32

Objects == Blocks \X Offsets
Cells   == {list_available, list_blocks} \cup Blocks \cup Objects

\* The heads, the blocks and the objects lie in different places, finitely many,
\* and NULL is none of the pools malloc() may return.
ASSUME CellsAreApart ==
  /\ list_available # list_blocks
  /\ {list_available, list_blocks} \cap (Blocks \cup Objects) = {}
  /\ Blocks \cap Objects = {}
  /\ IsFiniteSet(Offsets)
  /\ NULL \notin PoolType(GrowSizes)

VARIABLES
  mem,    \* the struct list_head in the pool, the blocks and the objects
  pool,   \* the counters of pool_t, or NULL when there is no pool
  heap,   \* the size of each block malloc() gave out; 0 when it is not allocated
  call,   \* the call that is running
  errno,
  held,   \* the objects the caller has
  size,   \* the @size it asked for
  free,   \* history: the objects put on list_available, first to last
  blocks  \* history: the blocks put on list_blocks, first to last

vars == <<mem, pool, heap, call, errno, held, size, free, blocks>>

Idle == [op |-> "none"]

\* pool_get() is about to put a link, or to have an object, where no block is.
\* The memory is not the pool's, and the model follows the program no further.
Strayed == [op |-> "strayed"]

\* What the lists and the counters say is for callers to rely on.
Steady == call.op \notin {"destroy", "strayed"}

Ready == pool # NULL /\ call = Idle

Allocated == {b \in Blocks : heap[b] # 0}

Init ==
  /\ mem = [next |-> [x \in Cells |-> NULL], prev |-> [x \in Cells |-> NULL]]
  /\ pool = NULL /\ heap = [b \in Blocks |-> 0] /\ call = Idle /\ errno = "none"
  /\ held = {} /\ size = 0 /\ free = <<>> /\ blocks = <<>>

\* The cells of S hold something else than links: free() or the caller, whose
\* memory they are, may have left anything there.
Scrub(m, S) ==
  [next |-> [x \in DOMAIN m.next |-> IF x \in S THEN NULL ELSE m.next[x]],
   prev |-> [x \in DOMAIN m.prev |-> IF x \in S THEN NULL ELSE m.prev[x]]]

-----------------------------------------------------------------------------
\* A mistake: objects may be smaller than a link.
AdjustedNot(eltsize) == eltsize

Adjusted(eltsize) == MaxOf(eltsize, LinkSize)

PoolCreate(g, s) ==
  /\ pool = NULL
  /\ pool' = [eltsize |-> Adjusted(s), growsize |-> g,
              available |-> 0, allocated |-> 0, nblocks |-> 0]
  /\ mem' = INIT_LIST_HEAD(INIT_LIST_HEAD(mem, list_available), list_blocks)
  /\ size' = s
  /\ UNCHANGED <<heap, call, errno, held, free, blocks>>

PoolCreateFails ==
  /\ pool = NULL
  /\ errno' = "ENOMEM"
  /\ UNCHANGED <<mem, pool, heap, call, held, size, free, blocks>>

\* The static function: list_add() and the counter.
_pool_add(elt) ==
  /\ mem' = list_add(mem, elt, list_available)
  /\ pool' = [pool EXCEPT !.available = (@ + 1) % TwoTo32]
  /\ free' = <<elt>> \o free

PoolAdd(elt) ==
  /\ Ready /\ elt \in held
  /\ _pool_add(elt)
  /\ held' = held \ {elt}
  /\ UNCHANGED <<heap, call, errno, size, blocks>>

\* A mistake: the object stays on the list.
_pool_get_still_linked ==
  /\ pool' = [pool EXCEPT !.available = (@ - 1) % TwoTo32]
  /\ mem' = mem
  /\ free' = SubSeq(free, 2, Len(free))
  /\ held' = held \cup {mem.next[list_available]}

\* The static function takes whatever list_available.next is.
_pool_get ==
  LET res == mem.next[list_available]
  IN  /\ pool' = [pool EXCEPT !.available = (@ - 1) % TwoTo32]
      /\ mem' = list_del(mem, res)
      /\ free' = SubSeq(free, 2, Len(free))
      /\ held' = held \cup {res}

PoolGet ==
  /\ Ready /\ pool.available # 0
  /\ _pool_get
  /\ UNCHANGED <<heap, call, errno, size, blocks>>

PoolGetFails ==
  /\ Ready /\ pool.available = 0
  /\ errno' = "ENOMEM"
  /\ UNCHANGED <<mem, pool, heap, call, held, size, free, blocks>>

\* The argument of malloc(): a size_t, which wraps.
Asked == (LinkSize + pool.eltsize * pool.growsize) % TwoTo64

\* malloc() is called, and gives the pool a block.
MallocGives(block) ==
  /\ Ready /\ pool.available = 0 /\ block \notin Allocated
  /\ (Cardinality(Allocated) + 1) * pool.growsize <= MaxObjects

PoolGetGrow(block) ==
  /\ MallocGives(block) /\ Asked >= LinkSize
  /\ heap' = [heap EXCEPT ![block] = Asked]
  /\ mem' = list_add(mem, block, list_blocks)
  /\ pool' = [pool EXCEPT !.nblocks = (@ + 1) % TwoTo32,
                          !.allocated = (@ + pool.growsize) % TwoTo32]
  /\ blocks' = <<block>> \o blocks
  /\ call' = [op |-> "grow", block |-> block, i |-> 0]
  /\ UNCHANGED <<errno, held, size, free>>

\* The block has no room for its own link.
PoolGetStrays(block) ==
  /\ MallocGives(block) /\ Asked < LinkSize
  /\ call' = Strayed
  /\ UNCHANGED <<mem, pool, heap, errno, held, size, free, blocks>>

\* A mistake: i counts units of memory, not objects.
CurUnscaled(block, i) == <<block, i>>

\* The address of an object; the product is a size_t too.
Cur(block, i) == <<block, (i * pool.eltsize) % TwoTo64>>

\* The object is in the block: block->data begins behind a link.
Inside(elt) == elt[2] + pool.eltsize <= heap[elt[1]] - LinkSize

\* for (i = 0; i < growsize; ++i): thread one more object of the new block.
GrowLoop ==
  /\ call.op = "grow" /\ call.i < pool.growsize
  /\ Inside(Cur(call.block, call.i))
  /\ _pool_add(Cur(call.block, call.i))
  /\ call' = [call EXCEPT !.i = @ + 1]
  /\ UNCHANGED <<heap, errno, held, size, blocks>>

GrowStrays ==
  /\ call.op = "grow" /\ call.i < pool.growsize
  /\ ~Inside(Cur(call.block, call.i))
  /\ call' = Strayed
  /\ UNCHANGED <<mem, pool, heap, errno, held, size, free, blocks>>

GrowDone ==
  /\ call.op = "grow" /\ call.i >= pool.growsize
  /\ _pool_get
  /\ call' = Idle
  /\ UNCHANGED <<heap, errno, size, blocks>>

\* list_for_each_entry_safe() keeps block (pos) and the one after it (tmp).  The
\* caller's objects go with the pool.
PoolDestroy ==
  LET first == mem.next[list_blocks]
  IN  /\ Ready
      /\ call' = [op |-> "destroy", pos |-> first, tmp |-> mem.next[first]]
      /\ held' = {} /\ free' = <<>>
      /\ UNCHANGED <<mem, pool, heap, errno, size, blocks>>

\* A mistake: a block is freed while it is on the list.
ReleasedStillLinked(block) == Scrub(mem, {block} \cup {block} \X Offsets)

\* The memory after list_del() and free().
Released(block) == Scrub(list_del(mem, block), {block} \cup {block} \X Offsets)

\* Mistakes: the next block is read from the one just freed, as the loop that is
\* not "safe" does; the loop ends after one turn; the loop stays where it is.
NextTurnUnsafe(m, block) == [call EXCEPT !.pos = m.next[block]]
NextTurnLast(m, block)   == [call EXCEPT !.pos = list_blocks]
NextTurnStays(m, block)  == call

NextTurn(m, block) == [call EXCEPT !.pos = call.tmp, !.tmp = m.next[call.tmp]]

DestroyLoop ==
  LET block == call.pos
      m     == Released(block)
  IN  /\ call.op = "destroy" /\ block # list_blocks
      /\ mem' = m
      /\ heap' = [heap EXCEPT ![block] = 0]
      /\ blocks' = SubSeq(blocks, 2, Len(blocks))
      /\ call' = NextTurn(m, block)
      /\ UNCHANGED <<pool, errno, held, size, free>>

DestroyDone ==
  /\ call.op = "destroy" /\ call.pos = list_blocks
  /\ mem' = Scrub(mem, {list_available, list_blocks})
  /\ pool' = NULL /\ size' = 0
  /\ call' = Idle
  /\ UNCHANGED <<heap, errno, held, free, blocks>>

\* The caller uses an object it has, over the memory of the links.
Write(elt) ==
  /\ Ready /\ elt \in held
  /\ mem' = Scrub(mem, {elt})
  /\ UNCHANGED <<pool, heap, call, errno, held, size, free, blocks>>

-----------------------------------------------------------------------------
\* Nothing is said of a program that went astray.
Stopped == call = Strayed /\ UNCHANGED vars

\* pool_get() and pool_destroy() running on.
Running == GrowLoop \/ GrowStrays \/ GrowDone \/ DestroyLoop \/ DestroyDone

Next ==
  \/ \E g \in GrowSizes, s \in Sizes : PoolCreate(g, s)
  \/ PoolCreateFails
  \/ \E elt \in held : PoolAdd(elt) \/ Write(elt)
  \/ PoolGet
  \/ PoolGetFails
  \/ \E block \in Blocks : PoolGetGrow(block) \/ PoolGetStrays(block)
  \/ PoolDestroy
  \/ Running
  \/ Stopped

Spec == Init /\ [][Next]_vars

\* A call that has begun goes on: nothing in pool.c waits for anything.
FairSpec == Spec /\ WF_vars(Running)

-----------------------------------------------------------------------------
TypeOK ==
  /\ mem \in Memory(Cells)
  /\ pool \in {NULL} \cup PoolType(GrowSizes)
  /\ heap \in [Blocks -> Nat]
  /\ call \in {Idle, Strayed} \cup [op : {"grow"}, block : Blocks, i : Nat]
                     \cup [op : {"destroy"}, pos : Cells, tmp : Cells]
  /\ errno \in {"none", "ENOMEM"}
  /\ held \subseteq Objects /\ size \in Sizes \cup {0}
  /\ free \in Seq(Objects) /\ blocks \in Seq(Blocks)

\* The objects of a block that are on the list or with the caller: all of them,
\* but for the block pool_get() is still threading.
ObjectsOf(block) ==
  LET count == IF call.op = "grow" /\ call.block = block THEN call.i ELSE pool.growsize
  IN  {<<block, i * pool.eltsize>> : i \in 0..count-1}

(***************************************************************************)
(* Every object of every block is either on list_available, once, or with  *)
(* the caller: none is lost, none is handed out twice, and the counter the *)
(* pool decides by when to grow is the length of the list.  The pool knows *)
(* every block malloc() gave it, also in the middle of a call, and leaves  *)
(* none allocated when it goes.                                            *)
(***************************************************************************)
EveryObjectAccountedFor ==
  /\ ToSet(blocks) = Allocated /\ IsInjective(blocks)
  /\ pool = NULL => Allocated = {}
  /\ pool # NULL /\ Steady =>
       /\ pool.nblocks = Cardinality(Allocated)
       /\ pool.allocated = pool.growsize * Cardinality(Allocated)
       /\ pool.available = Len(free) /\ IsInjective(free)
       /\ ToSet(free) \cap held = {}
       /\ ToSet(free) \cup held = UNION {ObjectsOf(b) : b \in Allocated}

(***************************************************************************)
(* The links of the two lists say what was put on them, although they lie  *)
(* in memory that goes back and forth between the pool and the caller.     *)
(***************************************************************************)
ListsAreLinked ==
  pool # NULL =>
    /\ list_for_each(mem, list_blocks) = blocks
    /\ list_for_each_prev(mem, list_blocks) = Reverse(blocks)
    /\ Steady => /\ list_for_each(mem, list_available) = free
                 /\ list_for_each_prev(mem, list_available) = Reverse(free)

(***************************************************************************)
(* Objects share no memory and stay within what malloc() was asked for,    *)
(* whether the caller fills one up to the size it asked for or the pool    *)
(* keeps a link in it, which may be larger.  That size is a size_t and may *)
(* have wrapped: nothing else takes the pool out of its blocks, and then   *)
(* no object of such a block is ever handed out.                           *)
(***************************************************************************)
ObjectsDoNotOverlap ==
  LET need == MaxOf(size, LinkSize)
      Extent(o) == o[2] .. o[2] + need - 1
      asked == LinkSize + pool.eltsize * pool.growsize
  IN  pool # NULL =>
        /\ call = Strayed => asked >= TwoTo64
        /\ held # {} => asked < TwoTo64
        /\ call # Strayed => \A b \in Allocated : \A o \in ObjectsOf(b) :
             /\ Extent(o) \subseteq 0..heap[b] - LinkSize - 1
             /\ \A p \in ObjectsOf(b) \ {o} : Extent(o) \cap Extent(p) = {}

\* Whatever pool_get() returned is an object of a block the pool owns.
HeldAreObjects == \A o \in held : \E b \in Allocated : o \in ObjectsOf(b)

(***************************************************************************)
(* The loop of pool_destroy() frees the blocks it walks.  Before each turn *)
(* everything that turn will read or write is still allocated: the block,  *)
(* its two neighbours, and the block saved for the next turn.              *)
(***************************************************************************)
DestroyTouchesLiveMemory ==
  call.op = "destroy" =>
    LET live == Allocated \cup {list_available, list_blocks}
    IN  /\ {call.pos, call.tmp} \subseteq live
        /\ call.pos # list_blocks =>
             /\ {mem.next[call.pos], mem.prev[call.pos]} \subseteq live
             /\ call.tmp # call.pos

(***************************************************************************)
(* While the caller has an object, no call writes to it: neither growing   *)
(* the pool nor giving objects back and taking others reaches through a    *)
(* stale link into memory in use.                                          *)
(***************************************************************************)
HeldObjectsLeftAlone ==
  [][\A o \in held \cap held' :
       \/ mem'.next[o] = mem.next[o] /\ mem'.prev[o] = mem.prev[o]
       \/ Write(o)]_vars

(***************************************************************************)
(* The pool keeps the promise of pool.h (PoolSpec): each turn of the loop  *)
(* of pool_get() is a growth by one object or a stutter, and the objects   *)
(* are gone when pool_destroy() begins.                                    *)
(***************************************************************************)
Promise == INSTANCE PoolSpec WITH free <- ToSet(free), used <- held

KeepsThePromise == Promise!Spec

\* pool_get() and pool_destroy() return, unless they go astray: their loops end
\* whatever the lists hold.
CallsReturn == call # Idle ~> call \in {Idle, Strayed}
=============================================================================
