------------------------------ MODULE PoolProofs ------------------------------
(***************************************************************************)
(* That the memory pool loses and shares no object, for any number and     *)
(* size of objects and whatever its caller does.                           *)
(***************************************************************************)
EXTENDS Pool, RingProofs

-----------------------------------------------------------------------------
(* The inductive invariant.                                                *)

\* A pool that grows by no object at all has nothing to hand out, and hands out
\* the address of its own list head instead.
GrowsByAtLeastOne == 0 \notin GrowSizes

Lives == pool # NULL

Destroying == call.op = "destroy"

\* The two lists are rings, but for list_available while the pool is destroyed.
Linked ==
  Lives => /\ Ring(mem, list_blocks, blocks)
           /\ Steady => Ring(mem, list_available, free)

\* The objects that were put on list_available since the pool was created.
Threaded ==
  IF call.op = "grow" THEN pool.growsize * (Cardinality(Allocated) - 1) + call.i
                      ELSE pool.growsize * Cardinality(Allocated)

\* How many objects of a block were threaded.
CountOf(b) == IF call.op = "grow" /\ call.block = b THEN call.i ELSE pool.growsize

\* The memory that a block of all its objects takes, whatever a size_t can say.
Whole == LinkSize + pool.eltsize * pool.growsize

\* Nothing is left of a pool that is gone.  While one is there its objects have
\* the size asked for, room for a link in any case, and its blocks hold them: each
\* those that were threaded.  One that handed out an object holds them all.
Counted ==
  /\ IsFiniteSet(held)
  /\ ~Lives => free = <<>> /\ held = {} /\ call = Idle /\ size = 0
  /\ Lives => /\ size \in Sizes /\ pool.eltsize = MaxOf(size, LinkSize)
              /\ held # {} => Whole < TwoTo64
  /\ Lives /\ call # Strayed => \A b \in Allocated :
       heap[b] = Asked /\ LinkSize + CountOf(b) * pool.eltsize <= heap[b]
  /\ Lives /\ Steady => Len(free) + Cardinality(held) = Threaded

\* Where the loops of pool_get() and pool_destroy() are.
LoopsOK ==
  /\ call.op = "grow" =>
       /\ call.block \in Allocated /\ call.i <= pool.growsize /\ Len(free) = call.i
  /\ Destroying =>
       /\ free = <<>> /\ held = {}
       /\ call.pos = At(list_blocks, blocks, 1) /\ call.tmp = At(list_blocks, blocks, 2)
  /\ call = Strayed => Lives /\ TwoTo64 <= Whole

IInv == TypeOK /\ EveryObjectAccountedFor /\ Linked /\ Counted /\ LoopsOK

-----------------------------------------------------------------------------
(* Arithmetic.                                                             *)

LEMMA Products ==
  ASSUME NEW g \in Nat, NEW n \in Nat
  PROVE  /\ g * n \in Nat /\ g * (n + 1) = g * n + g /\ g * 0 = 0
         /\ n # 0 => g * n = g * (n - 1) + g
OBVIOUS

LEMMA ProductsGrow ==
  ASSUME NEW g \in Nat, NEW n \in Nat, NEW k \in Nat, n <= k
  PROVE  g * n <= g * k /\ n * g <= k * g
OBVIOUS

\* Two spans of memory, of e units each.
LEMMA Spans ==
  ASSUME NEW x \in Nat, NEW y \in Nat, NEW e \in Nat
  PROVE  /\ x + e <= y => x .. x + e - 1 \subseteq 0..y-1
         /\ x + e <= y \/ y + e <= x => (x .. x + e - 1) \cap (y .. y + e - 1) = {}
OBVIOUS

-----------------------------------------------------------------------------
(* The cells.                                                              *)

\* The heads, the blocks and the objects, each where no other is.
LEMMA CellFacts ==
  /\ list_available \in Cells /\ list_blocks \in Cells /\ list_available # list_blocks
  /\ Blocks \in SUBSET (Cells \ {list_blocks}) /\ Objects \in SUBSET (Cells \ {list_available})
  /\ list_available \notin Blocks /\ list_blocks \notin Objects
  /\ Blocks \cap Objects = {}
BY CellsAreApart DEF Cells

LEMMA CellsFinite == IsFiniteSet(Cells)
<1>1. IsFiniteSet(Blocks) /\ IsFiniteSet(Offsets)  BY CountersSuffice, CellsAreApart
<1>2. IsFiniteSet(Objects)  BY <1>1, FS_Product DEF Objects
<1>3. IsFiniteSet({list_available, list_blocks})
  <2>1. IsFiniteSet({list_available})  BY FS_Singleton
  <2>2. IsFiniteSet({list_available} \cup {list_blocks})  BY <2>1, FS_AddElement
  <2>3. {list_available} \cup {list_blocks} = {list_available, list_blocks}  OBVIOUS
  <2> QED  BY <2>2, <2>3
<1> QED  BY <1>1, <1>2, <1>3, FS_Union DEF Cells

\* What is left of memory the pool no longer owns.
LEMMA ScrubFacts ==
  ASSUME NEW m \in Memory(Cells), NEW S
  PROVE  /\ Scrub(m, S) \in Memory(Cells)
         /\ \A x \in Cells \ S : SameCell(m, Scrub(m, S), x)
BY DEF Memory, Scrub, SameCell

\* What the type invariant says of the counters of a pool.
LEMMA PoolFacts ==
  ASSUME TypeOK, Lives
  PROVE  /\ pool \in PoolType(GrowSizes)
         /\ pool.eltsize \in Nat /\ pool.eltsize \in 0..TwoTo64-1
         /\ pool.growsize \in Nat /\ pool.growsize \in GrowSizes
         /\ pool.available \in 0..TwoTo32-1 /\ pool.allocated \in 0..TwoTo32-1
         /\ pool.nblocks \in 0..TwoTo32-1
<1>1. pool \in PoolType(GrowSizes)  BY DEF TypeOK, Lives
<1>2. GrowSizes \subseteq Nat  BY PoolAssumption
<1>3. pool.eltsize \in 0..TwoTo64-1 /\ TwoTo64 \in Nat  BY <1>1, PoolAssumption DEF PoolType
<1>4. pool.eltsize \in Nat  BY <1>3
<1> QED  BY <1>1, <1>2, <1>3, <1>4 DEF PoolType

\* Blocks is finite, and so are the blocks in use.
LEMMA AllocatedFacts ==
  ASSUME TypeOK
  PROVE  /\ Allocated \subseteq Blocks /\ IsFiniteSet(Allocated)
         /\ Cardinality(Allocated) \in Nat /\ Cardinality(Allocated) <= Cardinality(Blocks)
         /\ Cardinality(Blocks) \in Nat /\ TwoTo32 \in Nat /\ Cardinality(Allocated) < TwoTo32
<1>1. Allocated \in SUBSET Blocks  BY DEF Allocated
<1>2. IsFiniteSet(Blocks) /\ TwoTo32 \in Nat /\ Cardinality(Blocks) < TwoTo32
  BY CountersSuffice, PoolAssumption
<1>3. Cardinality(Blocks) \in Nat  BY <1>2, FS_CardinalityType
<1>4. IsFiniteSet(Allocated) /\ Cardinality(Allocated) <= Cardinality(Blocks)
  BY <1>1, <1>2, FS_Subset
<1>5. Cardinality(Allocated) \in Nat  BY <1>4, FS_CardinalityType
<1> QED  BY <1>1, <1>2, <1>3, <1>4, <1>5

-----------------------------------------------------------------------------
(* The initial state.                                                      *)

LEMMA InitIInv == Init => IInv
<1> SUFFICES ASSUME Init PROVE IInv  OBVIOUS
<1> USE DEF Init
<1>1. Allocated = {}  BY DEF Allocated
<1>2. TypeOK
  <2>1. mem \in Memory(Cells)  BY DEF Memory
  <2> QED  BY <2>1 DEF TypeOK
<1>3. EveryObjectAccountedFor
  <2>1. ToSet(blocks) = {} /\ IsInjective(blocks)  BY DEF ToSet, IsInjective
  <2> QED  BY <1>1, <2>1 DEF EveryObjectAccountedFor
<1>4. Linked  BY DEF Linked, Lives
<1>5. Counted  BY FS_EmptySet DEF Counted, Lives
<1>6. LoopsOK  BY DEF LoopsOK, Destroying, Idle, Strayed
<1> QED  BY <1>2, <1>3, <1>4, <1>5, <1>6 DEF IInv

-----------------------------------------------------------------------------
(* The objects of the blocks.                                              *)

Owned == UNION {ObjectsOf(b) : b \in Allocated}

LEMMA ObjectsOfIs ==
  /\ \A b : ObjectsOf(b) = {<<b, i * pool.eltsize>> : i \in 0..CountOf(b)-1}
  /\ \A b : ObjectsOf(b)' = {<<b, i * pool'.eltsize>> : i \in 0..CountOf(b)'-1}
BY DEF ObjectsOf, CountOf

\* While nothing is threaded, the objects stay the ones they are.
LEMMA SameObjects ==
  ASSUME Allocated' = Allocated, pool'.eltsize = pool.eltsize,
         \A b \in Allocated : CountOf(b)' = CountOf(b)
  PROVE  Owned' = Owned
<1>1. \A b \in Allocated : ObjectsOf(b)' = ObjectsOf(b)  BY ObjectsOfIs
<1> QED  BY <1>1 DEF Owned

\* What a live pool promises of its lists, in the words of the invariant.
LEMMA LiveFacts ==
  ASSUME IInv, Lives
  PROVE  /\ mem \in Memory(Cells) /\ free \in Seq(Objects) /\ blocks \in Seq(Blocks)
         /\ Len(free) \in Nat /\ Len(blocks) \in Nat
         /\ IsInjective(blocks) /\ ToSet(blocks) = Allocated /\ ToSet(blocks) \subseteq Blocks
         /\ Ring(mem, list_blocks, blocks)
         /\ Steady => /\ IsInjective(free) /\ Ring(mem, list_available, free)
                           /\ pool.available = Len(free) /\ ToSet(free) \cap held = {}
                           /\ ToSet(free) \cup held = Owned /\ ToSet(free) \subseteq Objects
                           /\ pool.nblocks = Cardinality(Allocated)
                           /\ pool.allocated = pool.growsize * Cardinality(Allocated)
         /\ held \subseteq Objects /\ IsFiniteSet(held)
<1>1. mem \in Memory(Cells) /\ free \in Seq(Objects) /\ blocks \in Seq(Blocks) /\ held \subseteq Objects
  BY DEF IInv, TypeOK
<1>2. Len(free) \in Nat /\ Len(blocks) \in Nat  BY <1>1, LenProperties
<1>3. ToSet(free) \subseteq Objects /\ ToSet(blocks) \subseteq Blocks
  BY <1>1, CellFacts, ListIsCircle
<1>4. /\ IsInjective(blocks) /\ ToSet(blocks) = Allocated
      /\ Steady => /\ IsInjective(free) /\ pool.available = Len(free)
                        /\ ToSet(free) \cap held = {} /\ ToSet(free) \cup held = Owned
                        /\ pool.nblocks = Cardinality(Allocated)
                        /\ pool.allocated = pool.growsize * Cardinality(Allocated)
  BY DEF IInv, EveryObjectAccountedFor, Lives, Owned
<1>5. Ring(mem, list_blocks, blocks) /\ (Steady => Ring(mem, list_available, free))
  BY DEF IInv, Linked
<1>6. IsFiniteSet(held)  BY DEF IInv, Counted
<1> QED  BY <1>1, <1>2, <1>3, <1>4, <1>5, <1>6

\* What _pool_add() does to the lists of a pool.
LEMMA PoolAddsElt ==
  ASSUME IInv, Lives, Steady, NEW elt \in Objects, elt \notin ToSet(free), _pool_add(elt)
  PROVE  /\ mem' \in Memory(Cells) /\ free' \in Seq(Objects) /\ IsInjective(free')
         /\ ToSet(free') = ToSet(free) \cup {elt} /\ Len(free') = Len(free) + 1
         /\ Ring(mem', list_available, free') /\ Ring(mem', list_blocks, blocks)
         /\ Len(free) + 1 < TwoTo32 => pool' = [pool EXCEPT !.available = Len(free) + 1]
         /\ \A x \in Objects : x \notin ToSet(free) /\ x # elt => SameCell(mem, mem', x)
<1> DEFINE r == list_add(mem, elt, list_available)
           s == <<elt>> \o free
<1>1. mem' = r /\ free' = s /\ pool' = [pool EXCEPT !.available = (@ + 1) % TwoTo32]
  BY DEF _pool_add
<1>2. /\ r \in Memory(Cells) /\ s \in Seq(Objects) /\ IsInjective(s) /\ Ring(r, list_available, s)
      /\ ToSet(s) = ToSet(free) \cup {elt} /\ Len(s) = Len(free) + 1
      /\ \A x \in Cells : x # list_available /\ x \notin ToSet(free) /\ x # elt => SameCell(mem, r, x)
  BY LiveFacts, CellFacts, AddToList
<1> HIDE DEF r, s
<1>3. Ring(r, list_blocks, blocks)
  <2>1. \A x \in {list_blocks} \cup ToSet(blocks) : SameCell(mem, r, x)
    BY <1>2, LiveFacts, CellFacts
  <2> QED  BY <2>1, LiveFacts, CellFacts, ListLeftAlone
<1>4. ASSUME Len(free) + 1 < TwoTo32 PROVE pool' = [pool EXCEPT !.available = Len(free) + 1]
  <2>1. (Len(free) + 1) % TwoTo32 = Len(free) + 1
    <3>1. TwoTo32 \in Nat \ {0} /\ Len(free) \in Nat  BY PoolAssumption, LiveFacts
    <3> QED  BY <3>1, <1>4
  <2> QED  BY <1>1, <2>1, LiveFacts
<1>5. \A x \in Objects : x \in Cells /\ x # list_available  BY CellFacts
<1> QED  BY <1>1, <1>2, <1>3, <1>4, <1>5

\* What _pool_get() does to them, when there is an object to get.
LEMMA PoolGetsElt ==
  ASSUME IInv, Lives, Steady, Len(free) # 0, _pool_get
  PROVE  /\ mem' \in Memory(Cells) /\ free' \in Seq(Objects) /\ IsInjective(free')
         /\ Len(free') = Len(free) - 1
         /\ \E e \in ToSet(free) : ToSet(free') = ToSet(free) \ {e} /\ held' = held \cup {e}
         /\ Ring(mem', list_available, free') /\ Ring(mem', list_blocks, blocks)
         /\ pool' = [pool EXCEPT !.available = Len(free) - 1]
         /\ \A x \in Objects : x \notin ToSet(free) => SameCell(mem, mem', x)
<1> DEFINE e == mem.next[list_available]
           r == list_del(mem, e)
           s == SubSeq(free, 2, Len(free))
<1>1. /\ mem' = r /\ free' = s /\ held' = held \cup {e}
      /\ pool' = [pool EXCEPT !.available = (@ - 1) % TwoTo32]
  BY DEF _pool_get
<1>2. /\ e \in ToSet(free)
      /\ r \in Memory(Cells) /\ s \in Seq(Objects) /\ IsInjective(s) /\ Ring(r, list_available, s)
      /\ ToSet(s) = ToSet(free) \ {e} /\ Len(s) = Len(free) - 1
      /\ \A x \in Cells : x # list_available /\ x \notin ToSet(free) => SameCell(mem, r, x)
  BY LiveFacts, CellFacts, TakeFromList
<1> HIDE DEF e, r, s
<1>3. Ring(r, list_blocks, blocks)
  <2>1. \A x \in {list_blocks} \cup ToSet(blocks) : SameCell(mem, r, x)
    BY <1>2, LiveFacts, CellFacts
  <2> QED  BY <2>1, LiveFacts, CellFacts, ListLeftAlone
<1>4. pool' = [pool EXCEPT !.available = Len(free) - 1]
  <2>1. (Len(free) - 1) % TwoTo32 = Len(free) - 1
    <3>1. /\ TwoTo32 \in Nat \ {0} /\ Len(free) \in Nat /\ Len(free) # 0
          /\ Len(free) \in 0..TwoTo32-1
      BY PoolAssumption, LiveFacts, PoolFacts DEF IInv
    <3> QED  BY <3>1
  <2> QED  BY <1>1, <2>1, LiveFacts
<1>5. \A x \in Objects : x \in Cells /\ x # list_available  BY CellFacts
<1> QED  BY <1>1, <1>2, <1>3, <1>4, <1>5

-----------------------------------------------------------------------------
(* The memory of the blocks.                                               *)

LEMMA Remainder ==
  ASSUME NEW x \in Nat, NEW t \in Nat \ {0}
  PROVE  x % t \in 0..t-1 /\ (x < t => x % t = x)
OBVIOUS

\* What malloc() is asked for is all the objects take, or that has wrapped.
LEMMA SizeFacts ==
  ASSUME IInv, Lives
  PROVE  /\ LinkSize \in Nat \ {0} /\ TwoTo64 \in Nat \ {0}
         /\ pool.eltsize \in Nat /\ pool.growsize \in Nat
         /\ Whole \in Nat /\ Asked \in Nat /\ Asked < TwoTo64
         /\ Whole < TwoTo64 => Asked = Whole
         /\ Whole = LinkSize + pool.growsize * pool.eltsize
<1>1. LinkSize \in Nat \ {0} /\ TwoTo64 \in Nat \ {0}  BY PoolAssumption
<1>2. pool.eltsize \in Nat /\ pool.growsize \in Nat  BY PoolFacts DEF IInv
<1>3. PICK x : x = pool.eltsize * pool.growsize  OBVIOUS
<1>4. x \in Nat /\ x = pool.growsize * pool.eltsize  BY <1>2, <1>3
<1>5. Whole = LinkSize + x /\ Asked = Whole % TwoTo64  BY <1>3 DEF Whole, Asked
<1>6. Whole \in Nat  BY <1>1, <1>4, <1>5
<1>7. Asked \in 0..TwoTo64-1 /\ (Whole < TwoTo64 => Asked = Whole)
  BY <1>1, <1>5, <1>6, Remainder
<1> QED  BY <1>1, <1>2, <1>4, <1>5, <1>6, <1>7

\* A block has the size malloc() was asked for, and holds what was threaded; one
\* that holds all its objects shows that the size did not wrap.
LEMMA BlockFacts ==
  ASSUME IInv, Lives, call # Strayed, NEW b \in Allocated
  PROVE  /\ heap[b] = Asked /\ LinkSize + CountOf(b) * pool.eltsize <= Asked
         /\ CountOf(b) = pool.growsize => Whole < TwoTo64
<1>1. heap[b] = Asked /\ LinkSize + CountOf(b) * pool.eltsize <= Asked
  BY DEF IInv, Counted
<1>2. CountOf(b) = pool.growsize => Whole <= Asked  BY <1>1, SizeFacts
<1> QED  BY <1>1, <1>2, SizeFacts

-----------------------------------------------------------------------------
(* The steps, one by one.                                                  *)

\* A pool that lives is not NULL again until it is destroyed.
LEMMA StillLives == ASSUME pool' \in PoolType(GrowSizes) PROVE pool' # NULL
BY CellsAreApart

\* In a pool that is not growing, the objects on the list and with the caller are
\* all of them; their number is less than a u32 counts.
LEMMA Room ==
  ASSUME IInv, Lives, Steady
  PROVE  /\ Len(free) \in Nat /\ Cardinality(held) \in Nat
         /\ Len(free) + Cardinality(held) = Threaded
         /\ pool.growsize * Cardinality(Allocated) < TwoTo32
         /\ pool.growsize * Cardinality(Allocated) \in Nat
         /\ Len(free) + Cardinality(held) <= pool.growsize * Cardinality(Allocated)
<1>1. Len(free) \in Nat /\ Cardinality(held) \in Nat  BY LiveFacts, FS_CardinalityType
<1>2. Len(free) + Cardinality(held) = Threaded  BY DEF IInv, Counted
<1> DEFINE g == pool.growsize
           n == Cardinality(Allocated)
           k == Cardinality(Blocks)
<1>3. g \in Nat /\ g \in GrowSizes /\ n \in Nat /\ k \in Nat /\ n <= k /\ TwoTo32 \in Nat
  BY PoolFacts, AllocatedFacts DEF IInv
<1>4. k * g < TwoTo32  BY <1>3, CountersSuffice
<1> HIDE DEF g, n, k
<1>5. g * n \in Nat /\ g * n < TwoTo32
  <2>1. n * g <= k * g  BY <1>3, ProductsGrow
  <2>2. n * g = g * n /\ g * n \in Nat /\ k * g \in Nat  BY <1>3, Products
  <2> QED  BY <1>3, <1>4, <2>1, <2>2
<1>6. Threaded <= g * n
  <2>1. CASE call.op = "grow"
    <3>1. call.block \in Allocated /\ call.i <= g  BY <2>1 DEF IInv, LoopsOK, g
    <3>2. n # 0
      <4>1. Cardinality(Allocated) = 0 <=> Allocated = {}
        BY AllocatedFacts, FS_EmptySet DEF IInv
      <4> QED  BY <3>1, <4>1 DEF n
    <3>3. g * n = g * (n - 1) + g  BY <1>3, <3>2, Products
    <3>4. g * (n - 1) \in Nat /\ call.i \in Nat
      <4>1. n - 1 \in Nat  BY <1>3, <3>2
      <4>2. g * (n - 1) \in Nat  BY <1>3, <4>1, Products
      <4>3. call.i \in Nat  BY <2>1 DEF IInv, TypeOK, Idle, Strayed
      <4> QED  BY <4>2, <4>3
    <3> QED  BY <1>3, <2>1, <3>1, <3>3, <3>4 DEF Threaded, g, n
  <2>2. CASE call.op # "grow"
    <3>1. Threaded = g * n  BY <2>2 DEF Threaded, g, n
    <3> QED  BY <3>1, <1>5
  <2> QED  BY <2>1, <2>2
<1>7. Len(free) + Cardinality(held) <= g * n  BY <1>2, <1>6
<1> QED  BY <1>1, <1>2, <1>5, <1>7 DEF g, n

LEMMA CreateKeeps ==
  ASSUME IInv, NEW g \in GrowSizes, NEW s \in Sizes, PoolCreate(g, s)
  PROVE  IInv'
<1>1. /\ pool = NULL
      /\ pool' = [eltsize |-> MaxOf(s, LinkSize), growsize |-> g,
                  available |-> 0, allocated |-> 0, nblocks |-> 0]
      /\ mem' = INIT_LIST_HEAD(INIT_LIST_HEAD(mem, list_available), list_blocks)
      /\ size' = s /\ UNCHANGED <<heap, call, errno, held, free, blocks>>
  BY DEF PoolCreate, Adjusted
<1>2. free = <<>> /\ held = {} /\ call = Idle /\ IsFiniteSet(held)
  BY <1>1 DEF IInv, Counted, Lives
<1>3. Allocated = {} /\ Allocated' = {} /\ ToSet(blocks) = {} /\ IsInjective(blocks)
  BY <1>1 DEF IInv, EveryObjectAccountedFor, Allocated
<1>4. blocks = <<>>
  <2>1. blocks \in Seq(Blocks)  BY DEF IInv, TypeOK
  <2>2. Len(blocks) \in Nat /\ DOMAIN blocks = 1..Len(blocks)  BY <2>1
  <2>3. DOMAIN blocks = {}  BY <1>3 DEF ToSet
  <2>4. Len(blocks) = 0  BY <2>2, <2>3
  <2> QED  BY <2>1, <2>4
<1>5. pool' \in PoolType(GrowSizes) /\ pool' # NULL
  <2>1. MaxOf(s, LinkSize) \in 0..TwoTo64-1 /\ 0 \in 0..TwoTo32-1
    BY PoolAssumption DEF MaxOf
  <2>2. pool' \in PoolType(GrowSizes)  BY <1>1, <2>1 DEF PoolType
  <2> QED  BY <2>2, StillLives
<1>6. mem' \in Memory(Cells) /\ Ring(mem', list_available, <<>>) /\ Ring(mem', list_blocks, <<>>)
  <2> DEFINE a == INIT_LIST_HEAD(mem, list_available)
             b == INIT_LIST_HEAD(a, list_blocks)
  <2>1. mem \in Memory(Cells)  BY DEF IInv, TypeOK
  <2>2. a \in Memory(Cells) /\ Circle(Cells, list_available, <<>>) /\ Ring(a, list_available, <<>>)
    BY <2>1, CellFacts, CircleInit
  <2> HIDE DEF a
  <2>3. /\ b \in Memory(Cells) /\ Ring(b, list_blocks, <<>>)
        /\ \A x \in Cells \ {list_blocks} : SameCell(a, b, x)
    BY <2>2, CellFacts, CircleInit
  <2> HIDE DEF b
  <2>4. Around(list_available, <<>>) = {list_available}  BY DEF Around
  <2>5. \A x \in Around(list_available, <<>>) : SameCell(a, b, x)  BY <2>3, <2>4, CellFacts
  <2>6. Ring(b, list_available, <<>>)  BY <2>2, <2>5, CircleLeftAlone
  <2> QED  BY <1>1, <2>3, <2>6 DEF a, b
<1>7. TypeOK'
  <2>1. heap' \in [Blocks -> Nat] /\ call' = Idle /\ errno' \in {"none", "ENOMEM"}
        /\ held' = {} /\ size' \in Sizes /\ free' = <<>> /\ blocks' = <<>>
    BY <1>1, <1>2, <1>4 DEF IInv, TypeOK
  <2>2. pool' \in {NULL} \cup PoolType(GrowSizes)  BY <1>5
  <2> QED  BY <1>6, <2>1, <2>2 DEF TypeOK
<1>8. EveryObjectAccountedFor'
  <2>1. ToSet(blocks') = {} /\ ToSet(free') = {} /\ IsInjective(free') /\ Len(free') = 0
    BY <1>1, <1>2, <1>3 DEF ToSet, IsInjective
  <2>2. Cardinality({}) = 0 /\ g * 0 = 0
    <3>1. g \in Nat  BY PoolAssumption
    <3> QED  BY <3>1, FS_EmptySet
  <2>3. pool'.nblocks = 0 /\ pool'.allocated = 0 /\ pool'.available = 0 /\ pool'.growsize = g
    BY <1>1
  <2> QED  BY <1>1, <1>2, <1>3, <1>5, <2>1, <2>2, <2>3 DEF EveryObjectAccountedFor
<1>9. Linked'  BY <1>1, <1>2, <1>4, <1>6 DEF Linked
<1>10. Counted'
  <2>1. Cardinality({}) = 0 /\ g * 0 = 0 /\ IsFiniteSet({})
    <3>1. g \in Nat  BY PoolAssumption
    <3> QED  BY <3>1, FS_EmptySet
  <2>2. Threaded' = 0  BY <1>1, <1>2, <1>3, <2>1 DEF Threaded, Idle
  <2>3. Len(free') + Cardinality(held') = 0  BY <1>1, <1>2, <2>1
  <2>4. pool'.eltsize = MaxOf(size', LinkSize) /\ size' \in Sizes  BY <1>1
  <2> QED  BY <1>1, <1>2, <1>3, <1>5, <2>1, <2>2, <2>3, <2>4 DEF Counted, Lives
<1>11. LoopsOK'  BY <1>1, <1>2 DEF LoopsOK, Destroying, Idle, Strayed
<1> QED  BY <1>7, <1>8, <1>9, <1>10, <1>11 DEF IInv

\* A step that moves objects between the list and the caller, or threads one more,
\* keeps the invariant if it keeps the lists and the objects together.
LEMMA ObjectsMoveKeeps ==
  ASSUME IInv, Lives, Steady, UNCHANGED <<heap, size, blocks>>,
         errno' \in {"none", "ENOMEM"},
         mem' \in Memory(Cells), free' \in Seq(Objects), IsInjective(free'),
         Ring(mem', list_available, free'), Ring(mem', list_blocks, blocks),
         pool' = [pool EXCEPT !.available = Len(free')], Len(free') < TwoTo32,
         ToSet(free') \cap held' = {}, ToSet(free') \cup held' = Owned',
         held' \subseteq Objects, IsFiniteSet(held'),
         call' \in {Idle} \cup [op : {"grow"}, block : Blocks, i : Nat],
         Len(free') + Cardinality(held') = Threaded', LoopsOK',
         held' # {} => Whole < TwoTo64,
         \A b \in Allocated : LinkSize + CountOf(b)' * pool.eltsize <= heap[b]
  PROVE  IInv'
<1>1. Len(free') \in 0..TwoTo32-1
  <2>1. Len(free') \in Nat /\ TwoTo32 \in Nat  BY PoolAssumption, LenProperties
  <2> QED  BY <2>1
<1>2. /\ pool \in PoolType(GrowSizes) /\ pool' \in PoolType(GrowSizes) /\ pool' # NULL
      /\ pool'.available = Len(free') /\ pool'.growsize = pool.growsize
      /\ pool'.eltsize = pool.eltsize /\ pool'.nblocks = pool.nblocks
      /\ pool'.allocated = pool.allocated
  <2>1. pool \in PoolType(GrowSizes)  BY PoolFacts DEF IInv
  <2>2. pool' \in PoolType(GrowSizes)  BY <1>1, <2>1 DEF PoolType
  <2>3. pool' # NULL  BY <2>2, StillLives
  <2> QED  BY <2>1, <2>2, <2>3 DEF PoolType
<1>3. Allocated' = Allocated  BY DEF Allocated
<1>4. /\ Steady' /\ (call'.op = "grow" \/ call' = Idle)
      /\ call # Strayed /\ call' # Strayed
  BY DEF Idle, Steady, Strayed
<1>5. TypeOK'
  <2>1. heap' \in [Blocks -> Nat] /\ size' \in Sizes \cup {0} /\ blocks' \in Seq(Blocks)
    BY DEF IInv, TypeOK
  <2>2. pool' \in {NULL} \cup PoolType(GrowSizes)  BY <1>2
  <2>3. call' \in {Idle, Strayed} \cup [op : {"grow"}, block : Blocks, i : Nat]
                        \cup [op : {"destroy"}, pos : Cells, tmp : Cells]
    OBVIOUS
  <2> QED  BY <2>1, <2>2, <2>3 DEF TypeOK
<1>6. EveryObjectAccountedFor'
  <2>1. /\ ToSet(blocks') = Allocated' /\ IsInjective(blocks')
        /\ pool'.nblocks = Cardinality(Allocated')
        /\ pool'.allocated = pool'.growsize * Cardinality(Allocated')
    BY <1>2, <1>3, LiveFacts
  <2>2. ToSet(free') \cup held' = UNION {ObjectsOf(b)' : b \in Allocated'}  BY DEF Owned
  <2> QED  BY <1>2, <2>1, <2>2 DEF EveryObjectAccountedFor
<1>7. Linked'  BY <1>4 DEF Linked
<1>8. Counted'
  <2>1. size \in Sizes /\ pool.eltsize = MaxOf(size, LinkSize)  BY DEF IInv, Counted
  <2>2. Asked' = Asked /\ Whole' = Whole  BY <1>2 DEF Asked, Whole
  <2>3. \A b \in Allocated : heap[b] = Asked  BY <1>4, BlockFacts
  <2>4. \A b \in Allocated' : heap'[b] = Asked' /\ LinkSize + CountOf(b)' * pool'.eltsize <= heap'[b]
    BY <1>2, <1>3, <2>2, <2>3
  <2> QED  BY <1>2, <2>1, <2>2, <2>4 DEF Counted, Lives
<1> QED  BY <1>5, <1>6, <1>7, <1>8 DEF IInv

\* In a call that is not running a loop every block counts in full.
LEMMA IdleCounts ==
  ASSUME IInv, Lives, call = Idle
  PROVE  /\ Steady /\ call # Strayed /\ \A b : CountOf(b) = pool.growsize
         /\ Threaded = pool.growsize * Cardinality(Allocated)
BY DEF Steady, Strayed, Idle, CountOf, Threaded

LEMMA IdleCountsNext ==
  ASSUME call' = Idle
  PROVE  /\ \A b : CountOf(b)' = pool'.growsize
         /\ Threaded' = pool'.growsize * Cardinality(Allocated') /\ LoopsOK'
BY DEF Idle, CountOf, Threaded, LoopsOK, Destroying, Strayed

LEMMA AddKeeps ==
  ASSUME IInv, NEW elt \in held, PoolAdd(elt)
  PROVE  IInv'
<1>1. /\ Lives /\ call = Idle /\ call' = Idle /\ _pool_add(elt) /\ held' = held \ {elt}
      /\ UNCHANGED <<heap, call, errno, size, blocks>>
  BY DEF PoolAdd, Ready, Lives
<1>2. Steady  BY <1>1, IdleCounts
<1>3. elt \in Objects /\ elt \notin ToSet(free)  BY <1>1, <1>2, LiveFacts
<1>4. Cardinality(held') = Cardinality(held) - 1 /\ IsFiniteSet(held')
  BY <1>1, LiveFacts, FS_RemoveElement
<1>5. /\ Len(free) \in Nat /\ Cardinality(held) \in Nat /\ TwoTo32 \in Nat
      /\ Cardinality(held) - 1 \in Nat
      /\ Len(free) + Cardinality(held) < TwoTo32
      /\ Len(free) + Cardinality(held) = pool.growsize * Cardinality(Allocated)
  <2>1. Cardinality(held) # 0
    <3>1. Cardinality(held) = 0 <=> held = {}  BY LiveFacts, <1>1, FS_EmptySet
    <3> QED  BY <3>1
  <2>2. TwoTo32 \in Nat  BY PoolAssumption
  <2>3. /\ Len(free) \in Nat /\ Cardinality(held) \in Nat
        /\ pool.growsize * Cardinality(Allocated) < TwoTo32
        /\ pool.growsize * Cardinality(Allocated) \in Nat
        /\ Len(free) + Cardinality(held) = pool.growsize * Cardinality(Allocated)
    BY <1>1, <1>2, Room, IdleCounts
  <2> QED  BY <2>1, <2>2, <2>3
<1>6. Len(free) + 1 < TwoTo32  BY <1>5
<1>7. /\ mem' \in Memory(Cells) /\ free' \in Seq(Objects) /\ IsInjective(free')
      /\ ToSet(free') = ToSet(free) \cup {elt} /\ Len(free') = Len(free) + 1
      /\ Ring(mem', list_available, free') /\ Ring(mem', list_blocks, blocks)
      /\ pool' = [pool EXCEPT !.available = Len(free) + 1]
  BY <1>1, <1>2, <1>3, <1>6, PoolAddsElt
<1>8. pool'.growsize = pool.growsize /\ pool'.eltsize = pool.eltsize /\ Allocated' = Allocated
  <2>1. pool \in PoolType(GrowSizes)  BY <1>1, PoolFacts DEF IInv
  <2> QED  BY <1>1, <1>7, <2>1 DEF PoolType, Allocated
<1>9. Owned' = Owned
  BY <1>1, <1>8, IdleCounts, IdleCountsNext, SameObjects
<1>10. ToSet(free') \cap held' = {} /\ ToSet(free') \cup held' = Owned' /\ held' \subseteq Objects
  BY <1>1, <1>2, <1>7, <1>9, LiveFacts
<1>11. Len(free') + Cardinality(held') = Threaded'
  BY <1>1, <1>4, <1>5, <1>7, <1>8, IdleCountsNext
<1>12. errno' \in {"none", "ENOMEM"}  BY <1>1 DEF IInv, TypeOK
<1>13. LoopsOK'  BY <1>1, IdleCountsNext
<1>14. Len(free') < TwoTo32 /\ pool' = [pool EXCEPT !.available = Len(free')]  BY <1>6, <1>7
<1>15. /\ Whole < TwoTo64
       /\ \A b \in Allocated : LinkSize + CountOf(b)' * pool.eltsize <= heap[b]
  <2>1. \A b \in Allocated : CountOf(b)' = CountOf(b)  BY <1>1, <1>8, IdleCounts, IdleCountsNext
  <2>2. Whole < TwoTo64  BY <1>1 DEF IInv, Counted
  <2> QED  BY <1>1, <2>1, <2>2, IdleCounts, BlockFacts
<1> QED  BY <1>1, <1>2, <1>4, <1>7, <1>10, <1>11, <1>12, <1>13, <1>14, <1>15, ObjectsMoveKeeps

\* The end of pool_get(): an object goes from the list to the caller.
LEMMA GetsKeep ==
  ASSUME IInv, Lives, Steady, Len(free) # 0, _pool_get, call' = Idle, call # Strayed,
         UNCHANGED <<heap, errno, size, blocks>>,
         \A b \in Allocated : CountOf(b) = pool.growsize,
         Threaded = pool.growsize * Cardinality(Allocated)
  PROVE  IInv'
<1>1. /\ mem' \in Memory(Cells) /\ free' \in Seq(Objects) /\ IsInjective(free')
      /\ Len(free') = Len(free) - 1
      /\ Ring(mem', list_available, free') /\ Ring(mem', list_blocks, blocks)
      /\ pool' = [pool EXCEPT !.available = Len(free) - 1]
      /\ \E e \in ToSet(free) : ToSet(free') = ToSet(free) \ {e} /\ held' = held \cup {e}
  BY PoolGetsElt
<1>2. PICK e \in ToSet(free) : ToSet(free') = ToSet(free) \ {e} /\ held' = held \cup {e}
  BY <1>1
<1>3. e \notin held /\ e \in Objects /\ held \subseteq Objects  BY LiveFacts
<1>4. Cardinality(held') = Cardinality(held) + 1 /\ IsFiniteSet(held')
  BY <1>2, <1>3, LiveFacts, FS_AddElement
<1>5. pool'.growsize = pool.growsize /\ pool'.eltsize = pool.eltsize /\ Allocated' = Allocated
  <2>1. pool \in PoolType(GrowSizes)  BY PoolFacts DEF IInv
  <2> QED  BY <1>1, <2>1 DEF PoolType, Allocated
<1>6. Owned' = Owned  BY <1>5, IdleCountsNext, SameObjects
<1>7. ToSet(free') \cap held' = {} /\ ToSet(free') \cup held' = Owned' /\ held' \subseteq Objects
  BY <1>2, <1>3, <1>6, LiveFacts
<1>8. /\ Len(free) \in Nat /\ Cardinality(held) \in Nat /\ TwoTo32 \in Nat
      /\ Len(free) + Cardinality(held) = pool.growsize * Cardinality(Allocated)
      /\ Len(free) + Cardinality(held) < TwoTo32
  <2>1. TwoTo32 \in Nat  BY PoolAssumption
  <2> QED  BY <2>1, Room
<1>9. Len(free') + Cardinality(held') = Threaded'
  BY <1>1, <1>4, <1>5, <1>8, IdleCountsNext
<1>10. Len(free') < TwoTo32 /\ pool' = [pool EXCEPT !.available = Len(free')]  BY <1>1, <1>8
<1>11. errno' \in {"none", "ENOMEM"}  BY DEF IInv, TypeOK
<1>12. LoopsOK'  BY IdleCountsNext
<1>13. \A b \in Allocated : LinkSize + CountOf(b)' * pool.eltsize <= heap[b]
  <2>1. \A b \in Allocated : CountOf(b)' = CountOf(b)  BY <1>5, IdleCountsNext
  <2> QED  BY <2>1, BlockFacts
<1>14. Whole < TwoTo64
  <2>1. e \in Owned  BY <1>2, LiveFacts
  <2>2. PICK b \in Allocated : e \in ObjectsOf(b)  BY <2>1 DEF Owned
  <2> QED  BY <2>2, BlockFacts
<1> QED  BY <1>1, <1>4, <1>7, <1>9, <1>10, <1>11, <1>12, <1>13, <1>14, ObjectsMoveKeeps

LEMMA GetKeeps == ASSUME IInv, PoolGet PROVE IInv'
<1>1. /\ Lives /\ call = Idle /\ call' = Idle /\ pool.available # 0 /\ _pool_get
      /\ UNCHANGED <<heap, call, errno, size, blocks>>
  BY DEF PoolGet, Ready, Lives
<1>2. Steady /\ Len(free) # 0  BY <1>1, IdleCounts, LiveFacts
<1> QED  BY <1>1, <1>2, IdleCounts, GetsKeep

\* When the loop of pool_get() ends there is an object to get.
LEMMA GrowEnds ==
  ASSUME GrowsByAtLeastOne, IInv, call.op = "grow", call.i >= pool.growsize
  PROVE  /\ Lives /\ Steady /\ call.block \in Allocated
         /\ call.i = pool.growsize /\ pool.growsize \in Nat /\ Len(free) # 0
<1>1. Lives /\ Steady  BY DEF Steady, Idle, IInv, Counted
<1>2. call.block \in Allocated /\ call.i <= pool.growsize /\ Len(free) = call.i
  BY DEF IInv, LoopsOK
<1>3. call.i \in Nat /\ pool.growsize \in Nat /\ pool.growsize # 0
  <2>1. call.i \in Nat  BY DEF IInv, TypeOK, Idle, Strayed
  <2>2. pool.growsize \in GrowSizes /\ pool.growsize \in Nat  BY <1>1, PoolFacts DEF IInv
  <2> QED  BY <2>1, <2>2 DEF GrowsByAtLeastOne
<1> QED  BY <1>1, <1>2, <1>3

LEMMA GrowDoneKeeps ==
  ASSUME GrowsByAtLeastOne, IInv, GrowDone
  PROVE  IInv'
<1>1. /\ call.op = "grow" /\ call.i >= pool.growsize /\ _pool_get /\ call' = Idle
      /\ UNCHANGED <<heap, errno, size, blocks>>
  BY DEF GrowDone
<1>2. Lives /\ Steady /\ call.block \in Allocated /\ pool.growsize \in Nat
  BY <1>1, GrowEnds
<1>3. call.i = pool.growsize /\ Len(free) # 0  BY <1>1, GrowEnds
<1>4. \A b \in Allocated : CountOf(b) = pool.growsize  BY <1>3 DEF CountOf
<1>5. Threaded = pool.growsize * Cardinality(Allocated)
  <2> DEFINE g == pool.growsize
             n == Cardinality(Allocated)
  <2>1. n \in Nat /\ n # 0
    <3>1. Cardinality(Allocated) = 0 <=> Allocated = {}
      BY AllocatedFacts, FS_EmptySet DEF IInv
    <3> QED  BY <1>2, <3>1, AllocatedFacts DEF IInv
  <2>2. g \in Nat  BY <1>2
  <2>3. Threaded = g * (n - 1) + g  BY <1>1, <1>3 DEF Threaded
  <2> HIDE DEF g, n
  <2>4. Threaded = g * n  BY <2>1, <2>2, <2>3, Products
  <2> QED  BY <2>4 DEF g, n
<1>6. call # Strayed  BY <1>1 DEF Strayed
<1> QED  BY <1>1, <1>2, <1>3, <1>4, <1>5, <1>6, GetsKeep

\* Objects of different places in a block are different: they are at least a link
\* apart.
LEMMA ObjectsDiffer ==
  ASSUME NEW e \in Nat \ {0}, NEW i \in Nat, NEW j \in Nat, i < j
  PROVE  i * e + e <= j * e /\ i * e # j * e
<1>1. (i + 1) * e <= j * e
  <2>1. i + 1 \in Nat /\ i + 1 <= j  OBVIOUS
  <2> QED  BY <2>1, ProductsGrow
<1>2. (i + 1) * e = i * e + e  OBVIOUS
<1>3. i * e \in Nat /\ j * e \in Nat  BY Products
<1> QED  BY <1>1, <1>2, <1>3

\* A live pool's objects are at least a link apart, and where Offsets has them.
LEMMA ElementSize ==
  ASSUME IInv, Lives
  PROVE  /\ pool.eltsize \in Nat \ {0} /\ pool.eltsize = MaxOf(size, LinkSize) /\ size \in Sizes
         /\ \A i \in 0..pool.growsize-1 : (i * pool.eltsize) % TwoTo64 \in Offsets
<1>1. pool.eltsize = MaxOf(size, LinkSize) /\ size \in Sizes  BY DEF IInv, Counted
<1>2. size \in Nat /\ LinkSize \in Nat \ {0}  BY <1>1, PoolAssumption
<1>3. pool.eltsize \in Nat \ {0}  BY <1>1, <1>2 DEF MaxOf
<1>4. pool.growsize \in GrowSizes  BY PoolFacts DEF IInv
<1>5. \A i \in 0..pool.growsize-1 : (i * MaxOf(size, LinkSize)) % TwoTo64 \in Offsets
  BY <1>1, <1>4, PoolAssumption
<1> QED  BY <1>1, <1>3, <1>5

\* Where the loop of pool_get() is while it runs.
LEMMA GrowFacts ==
  ASSUME IInv, call.op = "grow"
  PROVE  /\ Lives /\ Steady
         /\ call \in [op : {"grow"}, block : Blocks, i : Nat]
         /\ call.block \in Allocated /\ call.i \in Nat /\ call.i <= pool.growsize
         /\ Len(free) = call.i /\ call # Strayed
<1>1. Lives /\ Steady /\ call # Strayed  BY DEF Steady, Strayed, Idle, IInv, Counted
<1>2. call \in [op : {"grow"}, block : Blocks, i : Nat]  BY DEF IInv, TypeOK, Idle, Strayed
<1> QED  BY <1>1, <1>2 DEF IInv, LoopsOK

\* While a block is threaded its next object begins behind those there are: if it
\* is in the block, what was threaded is still in it, and if it is not, the size of
\* the block has wrapped.
LEMMA NextOffset ==
  ASSUME IInv, call.op = "grow", call.i < pool.growsize
  PROVE  LET c == Cur(call.block, call.i)
         IN  /\ c = <<call.block, call.i * pool.eltsize>>
             /\ Inside(c) => LinkSize + (call.i + 1) * pool.eltsize <= heap[call.block]
             /\ ~Inside(c) => TwoTo64 <= Whole
<1> DEFINE e == pool.eltsize
           g == pool.growsize
           k == call.block
<1>1. Lives /\ call # Strayed /\ k \in Allocated /\ call.i \in Nat  BY GrowFacts
<1>2. /\ LinkSize \in Nat \ {0} /\ TwoTo64 \in Nat \ {0} /\ e \in Nat /\ g \in Nat
      /\ Whole \in Nat /\ Asked \in Nat /\ Asked < TwoTo64
      /\ Whole < TwoTo64 => Asked = Whole
      /\ Whole = LinkSize + g * e
  BY <1>1, SizeFacts
<1>3. heap[k] = Asked /\ LinkSize + call.i * e <= Asked
  <2>1. CountOf(k) = call.i  BY DEF CountOf
  <2> QED  BY <1>1, <2>1, BlockFacts
<1>4. (call.i + 1) * e = call.i * e + e /\ call.i * e \in Nat /\ g * e \in Nat
  BY <1>1, <1>2
<1>5. (call.i + 1) * e <= g * e
  <2>1. call.i + 1 \in Nat /\ call.i + 1 <= g  BY <1>1, <1>2
  <2> QED  BY <1>2, <2>1, ProductsGrow
<1>6. PICK x \in Nat : x = call.i * e  BY <1>4
<1>7. PICK y \in Nat : y = g * e  BY <1>4
<1>8. x % TwoTo64 = x
  <2>1. x < TwoTo64  BY <1>2, <1>3, <1>6
  <2> QED  BY <1>2, <2>1, Remainder
<1>9. Cur(k, call.i) = <<k, x>>  BY <1>6, <1>8 DEF Cur
<1>10. Inside(Cur(k, call.i)) <=> x + e <= Asked - LinkSize  BY <1>3, <1>9 DEF Inside
<1> HIDE DEF e, g, k
<1>11. Inside(Cur(k, call.i)) => LinkSize + (call.i + 1) * e <= Asked
  BY <1>2, <1>4, <1>6, <1>10
<1>12. ~Inside(Cur(k, call.i)) => TwoTo64 <= Whole
  <2>1. x + e <= y  BY <1>4, <1>5, <1>6, <1>7
  <2> QED  BY <1>2, <1>7, <1>10, <2>1
<1> QED  BY <1>3, <1>6, <1>9, <1>11, <1>12 DEF e, g, k

\* The object that is threaded next is none that was threaded before.
LEMMA NewObject ==
  ASSUME IInv, call.op = "grow", call.i < pool.growsize
  PROVE  LET c == Cur(call.block, call.i) IN c \in Objects /\ c \notin Owned
<1> DEFINE c == Cur(call.block, call.i)
           e == pool.eltsize
<1>1. call.block \in Allocated /\ call.block \in Blocks /\ call.i \in Nat /\ pool.growsize \in Nat
  BY GrowFacts, PoolFacts DEF IInv
<1>2. c = <<call.block, call.i * e>> /\ c = <<call.block, (call.i * e) % TwoTo64>>
  BY NextOffset DEF Cur
<1>3. e \in Nat \ {0} /\ \A i \in 0..pool.growsize-1 : (i * e) % TwoTo64 \in Offsets
  BY GrowFacts, ElementSize
<1>4. c \in Objects
  <2>1. call.i \in 0..pool.growsize-1  BY <1>1
  <2>2. (call.i * e) % TwoTo64 \in Offsets  BY <2>1, <1>3
  <2> QED  BY <1>1, <1>2, <2>2 DEF Objects
<1> HIDE DEF e
<1>5. ASSUME NEW b \in Allocated, c \in ObjectsOf(b) PROVE FALSE
  <2>1. PICK i \in 0..CountOf(b)-1 : c = <<b, i * e>>  BY <1>5, ObjectsOfIs DEF e
  <2>2. b = call.block /\ i * e = call.i * e  BY <1>2, <2>1
  <2>3. CountOf(b) = call.i  BY <2>2 DEF CountOf
  <2>4. i \in Nat /\ i < call.i  BY <1>1, <2>1, <2>3
  <2> QED  BY <1>1, <1>3, <2>2, <2>4, ObjectsDiffer
<1> QED  BY <1>4, <1>5 DEF Owned

LEMMA GrowLoopKeeps ==
  ASSUME IInv, GrowLoop
  PROVE  IInv'
<1> DEFINE c == Cur(call.block, call.i)
<1>1. /\ call.op = "grow" /\ call.i < pool.growsize /\ Inside(c) /\ _pool_add(c)
      /\ call' = [call EXCEPT !.i = @ + 1]
      /\ UNCHANGED <<heap, errno, held, size, blocks>>
  BY DEF GrowLoop
<1>2. /\ Lives /\ Steady
      /\ call \in [op : {"grow"}, block : Blocks, i : Nat]
      /\ call.block \in Allocated /\ call.i \in Nat /\ Len(free) = call.i /\ call # Strayed
  BY <1>1, GrowFacts
<1>3. /\ c \in Objects /\ c \notin Owned /\ c = <<call.block, call.i * pool.eltsize>>
      /\ LinkSize + (call.i + 1) * pool.eltsize <= heap[call.block]
  BY <1>1, NewObject, NextOffset
<1> HIDE DEF c
<1>4. c \notin ToSet(free) /\ c \notin held  BY <1>2, <1>3, LiveFacts
<1>5. Cardinality(held) \in Nat /\ Len(free) \in Nat /\ TwoTo32 \in Nat
  BY <1>2, Room, PoolAssumption
<1>6. Len(free) + 1 < TwoTo32
  <2> DEFINE g == pool.growsize
             n == Cardinality(Allocated)
  <2>1. g \in Nat /\ n \in Nat /\ n # 0
    <3>1. Cardinality(Allocated) = 0 <=> Allocated = {}
      BY AllocatedFacts, FS_EmptySet DEF IInv
    <3> QED  BY <1>2, <3>1, AllocatedFacts, PoolFacts DEF IInv
  <2>2. g * n < TwoTo32 /\ g * n \in Nat  BY <1>2, Room
  <2>3. Len(free) + 1 <= g  BY <1>1, <1>2, <2>1
  <2> HIDE DEF g, n
  <2>4. g * n = g * (n - 1) + g /\ g * (n - 1) \in Nat
    <3>1. n - 1 \in Nat  BY <2>1
    <3> QED  BY <2>1, <3>1, Products
  <2> QED  BY <1>5, <2>1, <2>2, <2>3, <2>4
<1>7. /\ mem' \in Memory(Cells) /\ free' \in Seq(Objects) /\ IsInjective(free')
      /\ ToSet(free') = ToSet(free) \cup {c} /\ Len(free') = Len(free) + 1
      /\ Ring(mem', list_available, free') /\ Ring(mem', list_blocks, blocks)
      /\ pool' = [pool EXCEPT !.available = Len(free) + 1]
  BY <1>1, <1>2, <1>3, <1>4, <1>6, PoolAddsElt
<1>8. pool'.growsize = pool.growsize /\ pool'.eltsize = pool.eltsize /\ Allocated' = Allocated
  <2>1. pool \in PoolType(GrowSizes)  BY <1>2, PoolFacts DEF IInv
  <2> QED  BY <1>1, <1>7, <2>1 DEF PoolType, Allocated
<1>9. /\ call' \in [op : {"grow"}, block : Blocks, i : Nat]
      /\ call'.op = "grow" /\ call'.block = call.block /\ call'.i = call.i + 1
  BY <1>1, <1>2
<1>10. Owned' = Owned \cup {c}
  <2>1. PICK k \in Allocated : k = call.block  BY <1>2
  <2>2. ASSUME NEW b \in Allocated, b # k PROVE ObjectsOf(b)' = ObjectsOf(b)
    <3>1. CountOf(b)' = CountOf(b)  BY <1>8, <1>9, <2>1, <2>2 DEF CountOf
    <3> QED  BY <1>8, <3>1, ObjectsOfIs
  <2>3. ObjectsOf(k)' = ObjectsOf(k) \cup {c}
    <3>1. CountOf(k) = call.i /\ CountOf(k)' = call.i + 1
      BY <1>1, <1>9, <2>1 DEF CountOf
    <3>2. 0..CountOf(k)'-1 = (0..call.i-1) \cup {call.i}  BY <1>2, <3>1
    <3>3. ObjectsOf(k)' = {<<k, i * pool.eltsize>> : i \in 0..CountOf(k)'-1}
      <4>1. ObjectsOf(k)' = {<<k, i * pool'.eltsize>> : i \in 0..CountOf(k)'-1}  BY ObjectsOfIs
      <4> QED  BY <1>8, <4>1
    <3>4. ObjectsOf(k) = {<<k, i * pool.eltsize>> : i \in 0..call.i-1}
      BY <3>1, ObjectsOfIs
    <3> QED  BY <1>3, <2>1, <3>2, <3>3, <3>4
  <2>4. Owned' = UNION {ObjectsOf(b)' : b \in Allocated}  BY <1>8 DEF Owned
  <2>5. \A o : o \in Owned' <=> o \in Owned \/ o = c
    <3>1. \A o : o \in Owned' <=> \E b \in Allocated : o \in ObjectsOf(b)'  BY <2>4
    <3>2. \A o : o \in Owned <=> \E b \in Allocated : o \in ObjectsOf(b)  BY DEF Owned
    <3> QED  BY <2>1, <2>2, <2>3, <3>1, <3>2
  <2> QED  BY <2>5
<1>11. ToSet(free') \cap held' = {} /\ ToSet(free') \cup held' = Owned' /\ held' \subseteq Objects
       /\ IsFiniteSet(held')
  BY <1>1, <1>2, <1>4, <1>7, <1>10, LiveFacts
<1>12. Len(free') + Cardinality(held') = Threaded'
  <2> DEFINE x == pool.growsize * (Cardinality(Allocated) - 1)
  <2>1. Len(free) + Cardinality(held) = x + call.i  BY <1>1, <1>2, Room DEF Threaded
  <2>2. Threaded' = x + (call.i + 1)  BY <1>8, <1>9 DEF Threaded
  <2>3. x \in Int
    <3>1. pool.growsize \in Nat /\ Cardinality(Allocated) - 1 \in Int
      BY <1>2, AllocatedFacts, PoolFacts DEF IInv
    <3> QED  BY <3>1
  <2> HIDE DEF x
  <2> QED  BY <1>1, <1>2, <1>5, <1>7, <2>1, <2>2, <2>3
<1>13. LoopsOK'
  <2>1. pool.growsize \in Nat  BY <1>2, PoolFacts DEF IInv
  <2> QED  BY <1>1, <1>2, <1>7, <1>8, <1>9, <2>1 DEF LoopsOK, Destroying, Strayed
<1>14. errno' \in {"none", "ENOMEM"}  BY <1>1 DEF IInv, TypeOK
<1>15. Len(free') < TwoTo32 /\ pool' = [pool EXCEPT !.available = Len(free')]  BY <1>6, <1>7
<1>16. \A b \in Allocated : LinkSize + CountOf(b)' * pool.eltsize <= heap[b]
  <2> SUFFICES ASSUME NEW b \in Allocated
               PROVE  LinkSize + CountOf(b)' * pool.eltsize <= heap[b]
    OBVIOUS
  <2>1. CASE b = call.block
    <3>1. CountOf(b)' = call.i + 1  BY <1>9, <2>1 DEF CountOf
    <3> QED  BY <1>3, <2>1, <3>1
  <2>2. CASE b # call.block
    <3>1. CountOf(b)' = CountOf(b)  BY <1>8, <1>9, <2>2 DEF CountOf
    <3> QED  BY <1>2, <3>1, BlockFacts
  <2> QED  BY <2>1, <2>2
<1>17. held' # {} => Whole < TwoTo64  BY <1>1, <1>2 DEF IInv, Counted
<1> QED  BY <1>1, <1>2, <1>7, <1>9, <1>11, <1>12, <1>13, <1>14, <1>15, <1>16, <1>17, ObjectsMoveKeeps

\* A new block is one more, with the objects the pool grows by; a u32 counts them.
LEMMA GrowCounts ==
  ASSUME IInv, NEW block \in Blocks, PoolGetGrow(block)
  PROVE  LET n == Cardinality(Allocated)
             g == pool.growsize
         IN  /\ Allocated' = Allocated \cup {block} /\ Cardinality(Allocated') = n + 1
             /\ pool' \in PoolType(GrowSizes) /\ pool' # NULL
             /\ pool'.growsize = g /\ pool'.eltsize = pool.eltsize
             /\ pool'.available = pool.available
             /\ pool.nblocks = n /\ pool'.nblocks = n + 1
             /\ pool'.allocated = pool.allocated + g /\ pool'.allocated = g * (n + 1)
<1> DEFINE n == Cardinality(Allocated)
           g == pool.growsize
<1>1. /\ Lives /\ Steady /\ block \notin Allocated
      /\ Asked >= LinkSize /\ heap' = [heap EXCEPT ![block] = Asked]
      /\ pool' = [pool EXCEPT !.nblocks = (@ + 1) % TwoTo32,
                              !.allocated = (@ + pool.growsize) % TwoTo32]
  BY IdleCounts DEF PoolGetGrow, MallocGives, Ready, Lives
<1>2. Allocated' = Allocated \cup {block}
  <2>1. Asked # 0 /\ heap \in [Blocks -> Nat]  BY <1>1, SizeFacts DEF IInv, TypeOK
  <2> QED  BY <1>1, <2>1 DEF Allocated
<1>3. /\ n \in Nat /\ g \in Nat /\ g \in GrowSizes /\ TwoTo32 \in Nat \ {0}
      /\ Cardinality(Allocated') = n + 1
  <2>1. Cardinality(Allocated') = n + 1  BY <1>1, <1>2, AllocatedFacts, FS_AddElement DEF IInv
  <2> QED  BY <1>1, <2>1, AllocatedFacts, PoolFacts, PoolAssumption DEF IInv
<1>4. n + 1 < TwoTo32 /\ g * n + g < TwoTo32 /\ g * n \in Nat /\ g * (n + 1) = g * n + g
  <2> DEFINE k == Cardinality(Blocks)
  <2>1. k \in Nat /\ n + 1 <= k
    <3>1. Allocated' \in SUBSET Blocks  BY <1>2, AllocatedFacts DEF IInv
    <3>2. IsFiniteSet(Blocks)  BY CountersSuffice
    <3>3. Cardinality(Allocated') <= k  BY <3>1, <3>2, FS_Subset
    <3> QED  BY <1>3, <3>3, AllocatedFacts DEF IInv
  <2>2. k < TwoTo32 /\ k * g < TwoTo32  BY <1>3, CountersSuffice
  <2> HIDE DEF k, g, n
  <2>3. g * n \in Nat /\ g * (n + 1) = g * n + g  BY <1>3, Products
  <2>4. (n + 1) * g <= k * g
    <3>1. n + 1 \in Nat  BY <1>3
    <3> QED  BY <1>3, <2>1, <3>1, ProductsGrow
  <2>5. (n + 1) * g = g * (n + 1) /\ k * g \in Nat  BY <1>3, <2>1, Products
  <2> QED  BY <1>3, <2>1, <2>2, <2>3, <2>4, <2>5
<1>5. /\ pool' \in PoolType(GrowSizes) /\ pool' # NULL
       /\ pool'.growsize = g /\ pool'.eltsize = pool.eltsize /\ pool'.available = pool.available
       /\ pool'.nblocks = n + 1 /\ pool'.allocated = g * (n + 1)
  <2>1. pool \in PoolType(GrowSizes)  BY <1>1, PoolFacts DEF IInv
  <2>2. pool.nblocks = n /\ pool.allocated = g * n  BY <1>1, LiveFacts
  <2> HIDE DEF n, g
  <2>3. (n + 1) % TwoTo32 = n + 1  BY <1>3, <1>4
  <2>4. PICK x \in Nat : x = g * n  BY <1>4
  <2>5. (x + g) % TwoTo32 = x + g  BY <1>3, <1>4, <2>4
  <2>6. pool' = [pool EXCEPT !.nblocks = n + 1, !.allocated = x + g]
    BY <1>1, <2>1, <2>2, <2>3, <2>4, <2>5 DEF PoolType, g
  <2>7. n + 1 \in 0..TwoTo32-1 /\ x + g \in 0..TwoTo32-1  BY <1>3, <1>4, <2>4
  <2>8. pool' \in PoolType(GrowSizes)  BY <2>1, <2>6, <2>7 DEF PoolType
  <2>9. pool'.nblocks = n + 1 /\ pool'.allocated = x + g  BY <2>1, <2>6 DEF PoolType
  <2>10. pool'.growsize = g /\ pool'.eltsize = pool.eltsize /\ pool'.available = pool.available
    BY <2>1, <2>6 DEF PoolType, g
  <2> QED  BY <1>4, <2>4, <2>8, <2>9, <2>10, StillLives
<1>6. pool.nblocks = n /\ pool'.allocated = pool.allocated + g
  <2>1. pool.nblocks = n /\ pool.allocated = g * n  BY <1>1, LiveFacts
  <2> QED  BY <1>4, <1>5, <2>1
<1> QED  BY <1>2, <1>3, <1>5, <1>6

\* A new block has no objects yet.
LEMMA GetGrowKeeps ==
  ASSUME IInv, NEW block \in Blocks, PoolGetGrow(block)
  PROVE  IInv'
<1> DEFINE r == list_add(mem, block, list_blocks)
           s == <<block>> \o blocks
           n == Cardinality(Allocated)
           g == pool.growsize
<1>1. /\ Lives /\ call = Idle /\ pool.available = 0 /\ block \notin Allocated
      /\ Asked >= LinkSize /\ heap' = [heap EXCEPT ![block] = Asked]
      /\ mem' = r /\ blocks' = s
      /\ pool' = [pool EXCEPT !.nblocks = (@ + 1) % TwoTo32,
                              !.allocated = (@ + pool.growsize) % TwoTo32]
      /\ call' = [op |-> "grow", block |-> block, i |-> 0]
      /\ UNCHANGED <<errno, held, size, free>>
  BY DEF PoolGetGrow, MallocGives, Ready, Lives
<1>2. Steady /\ Len(free) = 0  BY <1>1, IdleCounts, LiveFacts
<1>3. /\ r \in Memory(Cells) /\ s \in Seq(Blocks) /\ IsInjective(s) /\ Ring(r, list_blocks, s)
      /\ ToSet(s) = Allocated \cup {block}
      /\ \A x \in Cells : x # list_blocks /\ x \notin Allocated /\ x # block => SameCell(mem, r, x)
  <2>1. /\ mem \in Memory(Cells) /\ blocks \in Seq(Blocks) /\ IsInjective(blocks)
        /\ Ring(mem, list_blocks, blocks) /\ ToSet(blocks) = Allocated
    BY <1>1, LiveFacts
  <2>2. list_blocks \in Cells /\ Blocks \in SUBSET (Cells \ {list_blocks})  BY CellFacts
  <2>3. block \in Blocks \ ToSet(blocks)  BY <1>1, <2>1
  <2>4. /\ r \in Memory(Cells) /\ s \in Seq(Blocks) /\ IsInjective(s) /\ Ring(r, list_blocks, s)
        /\ ToSet(s) = ToSet(blocks) \cup {block}
        /\ \A x \in Cells : x # list_blocks /\ x \notin ToSet(blocks) /\ x # block => SameCell(mem, r, x)
    BY <2>1, <2>2, <2>3, AddToList
  <2> QED  BY <2>1, <2>4
<1> HIDE DEF r, s
<1>4. Ring(r, list_available, free)
  <2>1. ToSet(free) \subseteq Objects /\ Allocated \subseteq Blocks  BY <1>1, <1>2, LiveFacts
  <2>2. \A x \in {list_available} \cup ToSet(free) : SameCell(mem, r, x)
    <3>1. \A x \in Objects : x \in Cells /\ x # list_blocks /\ x \notin Blocks  BY CellFacts
    <3>2. list_available \in Cells /\ list_available # list_blocks /\ list_available \notin Blocks
      BY CellFacts
    <3> QED  BY <1>3, <2>1, <3>1, <3>2
  <2> QED  BY <1>1, <1>2, <2>2, LiveFacts, CellFacts, ListLeftAlone
<1>5. Asked \in Nat  BY <1>1, SizeFacts
<1>6. heap \in [Blocks -> Nat]  BY DEF IInv, TypeOK
<1>7. Allocated' = Allocated \cup {block}  BY GrowCounts
<1>8. n \in Nat /\ g \in Nat /\ Cardinality(Allocated') = n + 1
  BY <1>1, GrowCounts, AllocatedFacts, PoolFacts DEF IInv
<1>9. g * n \in Nat  BY <1>8, Products
<1>10. /\ pool' \in PoolType(GrowSizes) /\ pool' # NULL
       /\ pool'.growsize = g /\ pool'.eltsize = pool.eltsize /\ pool'.available = pool.available
       /\ pool'.nblocks = n + 1 /\ pool'.allocated = g * (n + 1)
  BY GrowCounts
<1>11. TypeOK'
  <2>1. heap' \in [Blocks -> Nat]  BY <1>1, <1>5, <1>6
  <2>2. call' \in [op : {"grow"}, block : Blocks, i : Nat]  BY <1>1
  <2>3. /\ errno' \in {"none", "ENOMEM"} /\ held' \subseteq Objects /\ size' \in Sizes \cup {0}
        /\ free' \in Seq(Objects)
    BY <1>1 DEF IInv, TypeOK
  <2> QED  BY <1>1, <1>3, <1>10, <2>1, <2>2, <2>3 DEF TypeOK
<1>12. Owned' = Owned
  <2>1. ObjectsOf(block)' = {}
    <3>1. CountOf(block)' = 0  BY <1>1 DEF CountOf
    <3>2. 0..CountOf(block)'-1 = {}  BY <3>1
    <3>3. ObjectsOf(block)' = {<<block, i * pool'.eltsize>> : i \in 0..CountOf(block)'-1}
      BY ObjectsOfIs
    <3> QED  BY <3>2, <3>3
  <2>2. ASSUME NEW b \in Allocated PROVE ObjectsOf(b)' = ObjectsOf(b)
    <3>1. CountOf(b) = g  BY <1>1, IdleCounts
    <3>2. CountOf(b)' = g  BY <1>1, <1>10 DEF CountOf
    <3>3. ObjectsOf(b)' = {<<b, i * pool'.eltsize>> : i \in 0..CountOf(b)'-1}  BY ObjectsOfIs
    <3>4. ObjectsOf(b) = {<<b, i * pool.eltsize>> : i \in 0..CountOf(b)-1}  BY ObjectsOfIs
    <3> QED  BY <1>10, <3>1, <3>2, <3>3, <3>4
  <2>3. Owned' = UNION {ObjectsOf(b)' : b \in Allocated'}  BY DEF Owned
  <2>4. \A o : o \in Owned' <=> \E b \in Allocated' : o \in ObjectsOf(b)'  BY <2>3
  <2>5. \A o : o \in Owned <=> \E b \in Allocated : o \in ObjectsOf(b)  BY DEF Owned
  <2>6. \A o : o \in Owned' <=> o \in Owned  BY <1>7, <2>1, <2>2, <2>4, <2>5
  <2> QED  BY <2>6
<1>13. EveryObjectAccountedFor'
  <2>1. /\ ToSet(blocks') = Allocated' /\ IsInjective(blocks')  BY <1>1, <1>3, <1>7
  <2>2. /\ pool'.nblocks = Cardinality(Allocated')
        /\ pool'.allocated = pool'.growsize * Cardinality(Allocated')
        /\ pool'.available = Len(free')
    BY <1>1, <1>2, <1>8, <1>10
  <2>3. IsInjective(free') /\ ToSet(free') \cap held' = {} /\ ToSet(free') \cup held' = Owned'
    BY <1>1, <1>2, <1>12, LiveFacts
  <2>4. Owned' = UNION {ObjectsOf(b)' : b \in Allocated'}  BY DEF Owned
  <2> QED  BY <1>10, <2>1, <2>2, <2>3, <2>4 DEF EveryObjectAccountedFor
<1>14. Linked'  BY <1>1, <1>3, <1>4 DEF Linked
<1>15. Counted'
  <2>1. /\ size \in Sizes /\ pool.eltsize = MaxOf(size, LinkSize)
        /\ held # {} => Whole < TwoTo64
    BY <1>1 DEF IInv, Counted
  <2>2. \A b \in Allocated' : heap'[b] = Asked' /\ LinkSize + CountOf(b)' * pool'.eltsize <= heap'[b]
    <3>1. ASSUME NEW b \in Allocated
          PROVE  heap'[b] = Asked /\ LinkSize + CountOf(b)' * pool.eltsize <= heap'[b]
      <4>1. b \in Blocks /\ b # block /\ heap'[b] = heap[b]  BY <1>1, <1>6 DEF Allocated
      <4>2. CountOf(b) = g /\ call # Strayed  BY <1>1, IdleCounts
      <4>3. CountOf(b)' = g  BY <1>1, <1>10, <4>1 DEF CountOf
      <4> QED  BY <1>1, <4>1, <4>2, <4>3, BlockFacts
    <3>2. heap'[block] = Asked /\ LinkSize + CountOf(block)' * pool.eltsize <= heap'[block]
      <4>1. CountOf(block)' = 0  BY <1>1 DEF CountOf
      <4>2. 0 * pool.eltsize = 0 /\ LinkSize + 0 = LinkSize  BY <1>1, SizeFacts
      <4> QED  BY <1>1, <1>6, <4>1, <4>2
    <3>3. Asked' = Asked /\ pool'.eltsize = pool.eltsize  BY <1>10 DEF Asked
    <3> QED  BY <1>7, <3>1, <3>2, <3>3
  <2>3. Len(free') + Cardinality(held') = Threaded'
    <3>1. Len(free) + Cardinality(held) = g * n  BY <1>1, <1>2, Room, IdleCounts
    <3>2. Threaded' = g * (n + 1 - 1) + 0  BY <1>1, <1>8, <1>10 DEF Threaded
    <3>3. n + 1 - 1 = n /\ g * n + 0 = g * n  BY <1>8, <1>9
    <3> QED  BY <1>1, <3>1, <3>2, <3>3
  <2>4. IsFiniteSet(held')  BY <1>1, LiveFacts
  <2>5. Whole' = Whole  BY <1>10 DEF Whole
  <2> QED  BY <1>1, <1>10, <2>1, <2>2, <2>3, <2>4, <2>5 DEF Counted, Lives
<1>16. LoopsOK'
  <2>1. 0 <= g  BY <1>8
  <2> QED  BY <1>1, <1>2, <1>7, <1>10, <2>1 DEF LoopsOK, Destroying, Strayed
<1> QED  BY <1>11, <1>13, <1>14, <1>15, <1>16 DEF IInv

\* Only a size that has wrapped takes pool_get() out of its blocks.
LEMMA StraysWrapped ==
  ASSUME IInv, GrowStrays \/ \E block \in Blocks : PoolGetStrays(block)
  PROVE  Lives /\ Steady /\ call' = Strayed /\ TwoTo64 <= Whole
<1>1. CASE \E block \in Blocks : PoolGetStrays(block)
  <2>1. Lives /\ call = Idle /\ call' = Strayed /\ Asked < LinkSize
    BY <1>1 DEF PoolGetStrays, MallocGives, Ready, Lives
  <2>2. PICK x : x = pool.growsize * pool.eltsize  OBVIOUS
  <2>3. x \in Nat  BY <2>1, <2>2, SizeFacts
  <2>4. TwoTo64 <= Whole  BY <2>1, <2>2, <2>3, SizeFacts
  <2> QED  BY <2>1, <2>4, IdleCounts
<1>2. CASE GrowStrays
  <2>1. /\ call.op = "grow" /\ call.i < pool.growsize /\ ~Inside(Cur(call.block, call.i))
        /\ call' = Strayed
    BY <1>2 DEF GrowStrays
  <2> QED  BY <2>1, NextOffset, GrowFacts
<1> QED  BY <1>1, <1>2

LEMMA StraysKeep ==
  ASSUME IInv, GrowStrays \/ \E block \in Blocks : PoolGetStrays(block)
  PROVE  IInv'
<1>1. Lives /\ call' = Strayed /\ TwoTo64 <= Whole  BY StraysWrapped
<1>2. UNCHANGED <<mem, pool, heap, errno, held, size, free, blocks>>
  BY DEF GrowStrays, PoolGetStrays
<1>3. ~Steady' /\ ~Destroying' /\ call'.op # "grow" /\ Allocated' = Allocated
  BY <1>1, <1>2 DEF Strayed, Steady, Destroying, Allocated
<1>4. TypeOK'  BY <1>1, <1>2 DEF IInv, TypeOK
<1>5. EveryObjectAccountedFor'  BY <1>2, <1>3 DEF IInv, EveryObjectAccountedFor
<1>6. Linked'  BY <1>1, <1>2, <1>3 DEF IInv, Linked, Lives
<1>7. Whole' = Whole /\ Lives'  BY <1>1, <1>2 DEF Whole, Lives
<1>8. Counted'  BY <1>1, <1>2, <1>3, <1>7 DEF IInv, Counted
<1>9. LoopsOK'  BY <1>1, <1>3, <1>7 DEF LoopsOK
<1> QED  BY <1>4, <1>5, <1>6, <1>8, <1>9 DEF IInv

\* The first two cells of a list, or its head when it has none.
LEMMA FirstCells ==
  ASSUME NEW m, NEW h, NEW q, Len(q) \in Nat, Ring(m, h, q)
  PROVE  m.next[h] = At(h, q, 1) /\ m.next[At(h, q, 1)] = At(h, q, 2)
<1>1. At(h, q, 0) = h  BY DEF At
<1>2. m.next[h] = At(h, q, 1)
  <2>1. 0 \in 0..Len(q) /\ 0+1 = 1  OBVIOUS
  <2> QED  BY <1>1, <2>1 DEF Ring
<1>3. m.next[At(h, q, 1)] = At(h, q, 2)
  <2>1. CASE Len(q) = 0  BY <2>1, <1>2 DEF At
  <2>2. CASE Len(q) # 0
    <3>1. 1 \in 0..Len(q) /\ 1+1 = 2  BY <2>2
    <3> QED  BY <3>1 DEF Ring
  <2> QED  BY <2>1, <2>2
<1> QED  BY <1>2, <1>3

\* Where the loop of pool_destroy() is while it runs.
LEMMA DestroyFacts ==
  ASSUME IInv, Destroying
  PROVE  /\ Lives /\ call \in [op : {"destroy"}, pos : Cells, tmp : Cells]
         /\ free = <<>> /\ held = {}
         /\ call.pos = At(list_blocks, blocks, 1) /\ call.tmp = At(list_blocks, blocks, 2)
         /\ call.pos = list_blocks => blocks = <<>>
         /\ call.pos # list_blocks => Len(blocks) # 0 /\ call.pos = blocks[1]
<1>1. Lives  BY DEF Destroying, Idle, IInv, Counted
<1>2. call \in [op : {"destroy"}, pos : Cells, tmp : Cells]
  BY DEF IInv, TypeOK, Idle, Strayed, Destroying
<1>3. /\ free = <<>> /\ held = {}
      /\ call.pos = At(list_blocks, blocks, 1) /\ call.tmp = At(list_blocks, blocks, 2)
  BY DEF IInv, LoopsOK
<1>4. blocks \in Seq(Blocks) /\ Len(blocks) \in Nat  BY <1>1, LiveFacts
<1>5. CASE Len(blocks) = 0
  <2>1. blocks = <<>>  BY <1>4, <1>5
  <2>2. At(list_blocks, blocks, 1) = list_blocks  BY <1>5 DEF At
  <2> QED  BY <1>1, <1>2, <1>3, <2>1, <2>2
<1>6. CASE Len(blocks) # 0
  <2>1. 1 \in 1..Len(blocks)  BY <1>4, <1>6
  <2>2. blocks[1] \in Blocks  BY <1>4, <2>1, ElementOfSeq
  <2>3. At(list_blocks, blocks, 1) = blocks[1] /\ blocks[1] # list_blocks
    BY <2>1, <2>2, CellFacts DEF At
  <2> QED  BY <1>1, <1>2, <1>3, <1>6, <2>3
<1> QED  BY <1>5, <1>6

LEMMA DestroyKeeps ==
  ASSUME IInv, PoolDestroy
  PROVE  IInv'
<1>1. /\ Lives /\ held' = {} /\ free' = <<>>
      /\ call' = [op |-> "destroy", pos |-> mem.next[list_blocks],
                  tmp |-> mem.next[mem.next[list_blocks]]]
      /\ UNCHANGED <<mem, pool, heap, errno, size, blocks>>
  BY DEF PoolDestroy, Ready, Lives
<1>2. /\ blocks \in Seq(Blocks) /\ Len(blocks) \in Nat /\ IsInjective(blocks)
      /\ Ring(mem, list_blocks, blocks) /\ ToSet(blocks) = Allocated
  BY <1>1, LiveFacts
<1>3. call'.op = "destroy" /\ call'.pos = At(list_blocks, blocks, 1) /\ call'.tmp = At(list_blocks, blocks, 2)
  BY <1>1, <1>2, FirstCells
<1>4. call' \in [op : {"destroy"}, pos : Cells, tmp : Cells]
  <2>1. Circle(Cells, list_blocks, blocks)  BY <1>2, CellFacts, ListIsCircle
  <2>2. \A i : At(list_blocks, blocks, i) \in Cells  BY <2>1, CircleCells
  <2> QED  BY <1>1, <1>3, <2>2
<1>5. TypeOK'
  <2>1. /\ mem' \in Memory(Cells) /\ pool' \in {NULL} \cup PoolType(GrowSizes) /\ heap' \in [Blocks -> Nat]
        /\ errno' \in {"none", "ENOMEM"} /\ size' \in Sizes \cup {0} /\ blocks' \in Seq(Blocks)
    BY <1>1 DEF IInv, TypeOK
  <2>2. held' \subseteq Objects /\ free' \in Seq(Objects)  BY <1>1
  <2> QED  BY <1>4, <2>1, <2>2 DEF TypeOK
<1>6. Allocated' = Allocated  BY <1>1 DEF Allocated
<1>7. EveryObjectAccountedFor'
  BY <1>1, <1>2, <1>3, <1>6 DEF EveryObjectAccountedFor, Lives, Steady
<1>8. Linked'  BY <1>1, <1>2, <1>3 DEF Linked, Steady
<1>9. Counted'
  <2>1. size \in Sizes /\ pool.eltsize = MaxOf(size, LinkSize)
    BY <1>1 DEF IInv, Counted
  <2>2. \A b \in Allocated : heap[b] = Asked /\ LinkSize + CountOf(b)' * pool.eltsize <= heap[b]
    <3>1. call = Idle  BY DEF PoolDestroy, Ready
    <3>2. \A b \in Allocated : CountOf(b)' = CountOf(b)  BY <1>1, <1>3, <3>1, IdleCounts DEF CountOf
    <3> QED  BY <1>1, <3>1, <3>2, IdleCounts, BlockFacts
  <2>3. Asked' = Asked /\ ~Steady'  BY <1>1, <1>3 DEF Asked, Steady
  <2> QED  BY <1>1, <1>6, <2>1, <2>2, <2>3, FS_EmptySet DEF Counted, Lives
<1>10. LoopsOK'  BY <1>1, <1>3 DEF LoopsOK, Destroying, Strayed
<1> QED  BY <1>5, <1>7, <1>8, <1>9, <1>10 DEF IInv

\* A turn of the loop of pool_destroy() leaves a list of the other blocks.
LEMMA DestroyTurn ==
  ASSUME IInv, DestroyLoop
  PROVE  LET s == SubSeq(blocks, 2, Len(blocks))
         IN  /\ Destroying /\ Lives /\ call.pos \in Allocated
             /\ mem' \in Memory(Cells) /\ Ring(mem', list_blocks, s)
             /\ s \in Seq(Blocks) /\ IsInjective(s) /\ ToSet(s) = Allocated \ {call.pos}
             /\ blocks' = s /\ heap' = [heap EXCEPT ![call.pos] = 0]
             /\ call'.op = "destroy"
             /\ call'.pos = At(list_blocks, s, 1) /\ call'.tmp = At(list_blocks, s, 2)
             /\ UNCHANGED <<pool, errno, held, size, free>>
<1> DEFINE e == mem.next[list_blocks]
           r == list_del(mem, e)
           s == SubSeq(blocks, 2, Len(blocks))
           gone == {e} \cup {e} \X Offsets
<1>1. /\ call.op = "destroy" /\ call.pos # list_blocks
      /\ mem' = Released(call.pos) /\ heap' = [heap EXCEPT ![call.pos] = 0]
      /\ blocks' = s /\ call' = NextTurn(Released(call.pos), call.pos)
      /\ UNCHANGED <<pool, errno, held, size, free>>
  BY DEF DestroyLoop
<1>2. Destroying  BY <1>1 DEF Destroying
<1>3. /\ Lives /\ call \in [op : {"destroy"}, pos : Cells, tmp : Cells]
      /\ call.pos = blocks[1] /\ call.tmp = At(list_blocks, blocks, 2) /\ Len(blocks) # 0
  BY <1>1, <1>2, DestroyFacts
<1>4. /\ mem \in Memory(Cells) /\ blocks \in Seq(Blocks) /\ IsInjective(blocks) /\ Len(blocks) \in Nat
      /\ Ring(mem, list_blocks, blocks) /\ ToSet(blocks) = Allocated
  BY <1>3, LiveFacts
<1>5. /\ e = blocks[1] /\ e \in ToSet(blocks)
      /\ r \in Memory(Cells) /\ s \in Seq(Blocks) /\ IsInjective(s) /\ Ring(r, list_blocks, s)
      /\ ToSet(s) = ToSet(blocks) \ {e} /\ Len(s) = Len(blocks) - 1
  <2>1. list_blocks \in Cells /\ Blocks \in SUBSET (Cells \ {list_blocks})  BY CellFacts
  <2> QED  BY <1>3, <1>4, <2>1, TakeFromList
<1>6. mem' = Scrub(r, gone)  BY <1>1, <1>3, <1>5 DEF Released
<1> HIDE DEF e, r, s
<1>7. e \in Blocks /\ ToSet(s) \subseteq Blocks
  <2>1. ToSet(blocks) \subseteq Blocks  BY <1>3, LiveFacts
  <2> QED  BY <1>5, <2>1
<1>8. gone \subseteq {e} \cup Objects  BY <1>7 DEF Objects
<1> HIDE DEF gone
<1>9. mem' \in Memory(Cells) /\ \A x \in Cells \ gone : SameCell(r, mem', x)
  BY <1>5, <1>6, ScrubFacts
<1>10. Ring(mem', list_blocks, s)
  <2>1. \A x \in {list_blocks} \cup ToSet(s) : SameCell(r, mem', x)
    BY <1>5, <1>7, <1>8, <1>9, CellFacts
  <2> QED  BY <1>5, <2>1, CellFacts, ListLeftAlone
<1>11. At(list_blocks, blocks, 2) = At(list_blocks, s, 1)
  <2>1. Len(s) \in Nat /\ 2 \in 1..(Len(blocks)+1) /\ Len(blocks) \in (2-1)..Len(blocks)
        /\ Len(blocks) - 2 + 1 = Len(s)
    BY <1>3, <1>4, <1>5
  <2>2. \A k \in 1..Len(s) : s[k] = blocks[2+k-1]  BY <1>4, <2>1, PieceFacts DEF s
  <2>3. CASE Len(s) = 0
    <3>1. Len(blocks) = 1  BY <2>3, <1>4, <1>5
    <3>2. 2 \notin 1..Len(blocks) /\ 1 \notin 1..Len(s)  BY <2>3, <3>1
    <3> QED  BY <3>2 DEF At
  <2>4. CASE Len(s) # 0
    <3>1. 1 \in 1..Len(s) /\ 2 \in 1..Len(blocks) /\ 2+1-1 = 2  BY <2>1, <2>4
    <3>2. s[1] = blocks[2+1-1]  BY <2>2, <3>1
    <3> QED  BY <3>1, <3>2 DEF At
  <2> QED  BY <2>3, <2>4
<1>12. call' = [call EXCEPT !.pos = call.tmp, !.tmp = mem'.next[call.tmp]]
  BY <1>1 DEF NextTurn
<1>13. mem'.next[At(list_blocks, s, 1)] = At(list_blocks, s, 2)
  <2>1. Len(s) \in Nat  BY <1>5, LenProperties
  <2> QED  BY <1>10, <2>1, FirstCells
<1>14. call'.op = "destroy" /\ call'.pos = At(list_blocks, s, 1) /\ call'.tmp = At(list_blocks, s, 2)
  BY <1>3, <1>11, <1>12, <1>13
<1> QED  BY <1>1, <1>2, <1>3, <1>4, <1>5, <1>9, <1>10, <1>14 DEF s

LEMMA DestroyLoopKeeps ==
  ASSUME IInv, DestroyLoop
  PROVE  IInv'
<1> DEFINE s == SubSeq(blocks, 2, Len(blocks))
<1>1. /\ Destroying /\ Lives /\ call.pos \in Allocated
      /\ mem' \in Memory(Cells) /\ Ring(mem', list_blocks, s)
      /\ s \in Seq(Blocks) /\ IsInjective(s) /\ ToSet(s) = Allocated \ {call.pos}
      /\ blocks' = s /\ heap' = [heap EXCEPT ![call.pos] = 0]
      /\ call'.op = "destroy"
      /\ call'.pos = At(list_blocks, s, 1) /\ call'.tmp = At(list_blocks, s, 2)
      /\ UNCHANGED <<pool, errno, held, size, free>>
  BY DestroyTurn
<1> HIDE DEF s
<1>2. free = <<>> /\ held = {} /\ call \in [op : {"destroy"}, pos : Cells, tmp : Cells]
  BY <1>1, DestroyFacts
<1>3. heap \in [Blocks -> Nat]  BY DEF IInv, TypeOK
<1>4. Allocated' = Allocated \ {call.pos}  BY <1>1, <1>3 DEF Allocated
<1>5. call' \in [op : {"destroy"}, pos : Cells, tmp : Cells]
  <2>1. Circle(Cells, list_blocks, s)  BY <1>1, CellFacts, ListIsCircle
  <2>2. \A i : At(list_blocks, s, i) \in Cells  BY <2>1, CircleCells
  <2>3. \E p, t : call' = [call EXCEPT !.pos = p, !.tmp = t]  BY DEF DestroyLoop, NextTurn
  <2>4. call' = [op |-> "destroy", pos |-> call'.pos, tmp |-> call'.tmp]  BY <1>2, <2>3
  <2> QED  BY <1>1, <2>2, <2>4
<1>6. TypeOK'
  <2>1. /\ pool' \in {NULL} \cup PoolType(GrowSizes)
        /\ errno' \in {"none", "ENOMEM"} /\ size' \in Sizes \cup {0}
        /\ held' \subseteq Objects /\ free' \in Seq(Objects)
    BY <1>1 DEF IInv, TypeOK
  <2>2. heap' \in [Blocks -> Nat]  BY <1>1, <1>3
  <2> QED  BY <1>1, <1>5, <2>1, <2>2 DEF TypeOK
<1>7. EveryObjectAccountedFor'  BY <1>1, <1>4 DEF EveryObjectAccountedFor, Lives, Steady
<1>8. Linked'  BY <1>1 DEF Linked, Steady
<1>9. Counted'
  <2>1. size \in Sizes /\ pool.eltsize = MaxOf(size, LinkSize)
    BY <1>1 DEF IInv, Counted
  <2>2. \A b \in Allocated' : b \in Allocated /\ heap'[b] = heap[b]
    BY <1>1, <1>3, <1>4 DEF Allocated
  <2>3. \A b \in Allocated : heap[b] = Asked /\ LinkSize + CountOf(b) * pool.eltsize <= heap[b]
    BY <1>1, BlockFacts DEF Destroying, Strayed
  <2>4. \A b : CountOf(b)' = CountOf(b)  BY <1>1 DEF CountOf, Destroying
  <2>5. Asked' = Asked /\ ~Steady'  BY <1>1 DEF Asked, Steady
  <2> QED  BY <1>1, <1>2, <2>1, <2>2, <2>3, <2>4, <2>5, FS_EmptySet DEF Counted, Lives
<1>10. LoopsOK'  BY <1>1, <1>2 DEF LoopsOK, Destroying, Strayed
<1> QED  BY <1>6, <1>7, <1>8, <1>9, <1>10 DEF IInv

LEMMA DestroyDoneKeeps ==
  ASSUME IInv, DestroyDone
  PROVE  IInv'
<1>1. /\ Destroying /\ call.pos = list_blocks
      /\ mem' = Scrub(mem, {list_available, list_blocks})
      /\ pool' = NULL /\ size' = 0 /\ call' = Idle
      /\ UNCHANGED <<heap, errno, held, free, blocks>>
  BY DEF DestroyDone, Destroying
<1>2. Lives /\ free = <<>> /\ held = {} /\ blocks = <<>>  BY <1>1, DestroyFacts
<1>3. mem' \in Memory(Cells)  BY <1>1, <1>2, LiveFacts, ScrubFacts
<1>4. Allocated = {} /\ Allocated' = {} /\ ToSet(blocks) = Allocated /\ IsInjective(blocks)
  <2>1. ToSet(blocks) = Allocated /\ IsInjective(blocks)  BY <1>2, LiveFacts
  <2>2. ToSet(blocks) = {}  BY <1>2 DEF ToSet
  <2> QED  BY <1>1, <2>1, <2>2 DEF Allocated
<1>5. TypeOK'
  <2>1. heap' \in [Blocks -> Nat] /\ errno' \in {"none", "ENOMEM"}  BY <1>1 DEF IInv, TypeOK
  <2>2. held' \subseteq Objects /\ free' \in Seq(Objects) /\ blocks' \in Seq(Blocks)  BY <1>1, <1>2
  <2> QED  BY <1>1, <1>3, <2>1, <2>2 DEF TypeOK
<1>6. EveryObjectAccountedFor'  BY <1>1, <1>4 DEF EveryObjectAccountedFor
<1>7. Linked' /\ LoopsOK'  BY <1>1 DEF Linked, Lives, LoopsOK, Idle, Destroying, Strayed
<1>8. Counted'  BY <1>1, <1>2, FS_EmptySet DEF Counted, Lives
<1> QED  BY <1>5, <1>6, <1>7, <1>8 DEF IInv

\* The caller writes to memory that is on no list.
LEMMA WriteKeeps ==
  ASSUME IInv, NEW elt \in held, Write(elt)
  PROVE  IInv'
<1>1. /\ Lives /\ call = Idle /\ mem' = Scrub(mem, {elt})
      /\ UNCHANGED <<pool, heap, call, errno, held, size, free, blocks>>
  BY DEF Write, Ready, Lives
<1>2. Steady  BY <1>1, IdleCounts
<1>3. /\ mem \in Memory(Cells) /\ free \in Seq(Objects) /\ blocks \in Seq(Blocks)
      /\ IsInjective(free) /\ IsInjective(blocks)
      /\ Ring(mem, list_available, free) /\ Ring(mem, list_blocks, blocks)
      /\ ToSet(free) \cap held = {} /\ ToSet(free) \subseteq Objects /\ ToSet(blocks) \subseteq Blocks
      /\ elt \in Objects
  BY <1>1, <1>2, LiveFacts
<1>4. mem' \in Memory(Cells) /\ \A x \in Cells \ {elt} : SameCell(mem, mem', x)
  BY <1>1, <1>3, ScrubFacts
<1>5. Ring(mem', list_available, free)
  <2>1. \A x \in {list_available} \cup ToSet(free) : SameCell(mem, mem', x)
    BY <1>3, <1>4, CellFacts
  <2> QED  BY <1>3, <2>1, CellFacts, ListLeftAlone
<1>6. Ring(mem', list_blocks, blocks)
  <2>1. \A x \in {list_blocks} \cup ToSet(blocks) : SameCell(mem, mem', x)
    BY <1>3, <1>4, CellFacts
  <2> QED  BY <1>3, <2>1, CellFacts, ListLeftAlone
<1>7. TypeOK'  BY <1>1, <1>4 DEF IInv, TypeOK
<1>8. EveryObjectAccountedFor'
  BY <1>1 DEF IInv, EveryObjectAccountedFor, Allocated, ObjectsOf, Steady
<1>9. Linked'  BY <1>1, <1>5, <1>6 DEF Linked
<1>10. Counted' /\ LoopsOK'
  BY <1>1 DEF IInv, Counted, LoopsOK, Lives, Destroying, Steady, Threaded, Allocated, CountOf, Asked, Whole
<1> QED  BY <1>7, <1>8, <1>9, <1>10 DEF IInv

\* Only errno changes when malloc() fails.
LEMMA FailKeeps ==
  ASSUME IInv, PoolCreateFails \/ PoolGetFails \/ Stopped \/ UNCHANGED vars
  PROVE  IInv'
<1>1. /\ UNCHANGED <<mem, pool, heap, call, held, size, free, blocks>>
      /\ errno' = "ENOMEM" \/ errno' = errno
  BY DEF PoolCreateFails, PoolGetFails, Stopped, vars
<1>2. TypeOK'  BY <1>1 DEF IInv, TypeOK
<1>3. EveryObjectAccountedFor'
  BY <1>1 DEF IInv, EveryObjectAccountedFor, Allocated, ObjectsOf, Steady
<1>4. Linked'  BY <1>1 DEF IInv, Linked, Lives, Steady
<1>5. Counted' /\ LoopsOK'
  BY <1>1 DEF IInv, Counted, LoopsOK, Lives, Destroying, Steady, Threaded, Allocated, CountOf, Asked, Whole
<1> QED  BY <1>2, <1>3, <1>4, <1>5 DEF IInv

-----------------------------------------------------------------------------
(* Every step keeps the invariant.                                         *)

LEMMA NextIInv == GrowsByAtLeastOne /\ IInv /\ [Next]_vars => IInv'
<1> SUFFICES ASSUME GrowsByAtLeastOne, IInv, [Next]_vars PROVE IInv'  OBVIOUS
<1>1. CASE \E g \in GrowSizes, s \in Sizes : PoolCreate(g, s)  BY <1>1, CreateKeeps
<1>2. CASE \E elt \in held : PoolAdd(elt) \/ Write(elt)  BY <1>2, AddKeeps, WriteKeeps
<1>3. CASE PoolGet  BY <1>3, GetKeeps
<1>4. CASE \E block \in Blocks : PoolGetGrow(block) \/ PoolGetStrays(block)
  BY <1>4, GetGrowKeeps, StraysKeep
<1>5. CASE PoolDestroy  BY <1>5, DestroyKeeps
<1>6. CASE Running
  BY <1>6, GrowLoopKeeps, StraysKeep, GrowDoneKeeps, DestroyLoopKeeps, DestroyDoneKeeps DEF Running
<1>7. CASE PoolCreateFails \/ PoolGetFails \/ Stopped \/ UNCHANGED vars  BY <1>7, FailKeeps
<1> QED  BY <1>1, <1>2, <1>3, <1>4, <1>5, <1>6, <1>7 DEF Next

\* The invariant holds in every state of a pool that grows by at least one object.
THEOREM PoolInvariant ==
  ASSUME GrowsByAtLeastOne
  PROVE  Spec => []IInv
BY InitIInv, NextIInv, PTL DEF Spec

-----------------------------------------------------------------------------
(* What the invariant says of the lists, the memory of the objects, and    *)
(* the loop that frees the blocks.                                         *)

LEMMA ListsFromInv == IInv => ListsAreLinked
<1> SUFFICES ASSUME IInv, Lives
             PROVE  /\ list_for_each(mem, list_blocks) = blocks
                    /\ list_for_each_prev(mem, list_blocks) = Reverse(blocks)
                    /\ Steady => /\ list_for_each(mem, list_available) = free
                                      /\ list_for_each_prev(mem, list_available) = Reverse(free)
  BY DEF ListsAreLinked, Lives
<1>1. DOMAIN mem.next = Cells /\ DOMAIN mem.prev = Cells  BY LiveFacts DEF Memory
<1>2. Circle(Cells, list_blocks, blocks) /\ Ring(mem, list_blocks, blocks)
  BY LiveFacts, CellFacts, ListIsCircle
<1>3. Steady => Circle(Cells, list_available, free) /\ Ring(mem, list_available, free)
  BY LiveFacts, CellFacts, ListIsCircle
<1> QED  BY <1>1, <1>2, <1>3, CellsFinite, CircleLoops

LEMMA ExtentsFromInv == IInv => ObjectsDoNotOverlap
<1> DEFINE need == MaxOf(size, LinkSize)
           Extent(o) == o[2] .. o[2] + need - 1
<1> SUFFICES ASSUME IInv, Lives, call # Strayed, NEW b \in Allocated, NEW o \in ObjectsOf(b)
             PROVE  /\ Extent(o) \subseteq 0..heap[b] - LinkSize - 1
                    /\ \A p \in ObjectsOf(b) \ {o} : Extent(o) \cap Extent(p) = {}
  <2>1. ASSUME IInv, Lives
        PROVE  /\ call = Strayed => Whole >= TwoTo64
               /\ held # {} => Whole < TwoTo64
    <3>1. call = Strayed => TwoTo64 <= Whole  BY <2>1 DEF IInv, LoopsOK
    <3>2. held # {} => Whole < TwoTo64  BY <2>1 DEF IInv, Counted
    <3> QED  BY <2>1, <3>1, <3>2, SizeFacts
  <2> QED  BY <2>1 DEF ObjectsDoNotOverlap, Lives, Whole
<1> DEFINE e == pool.eltsize
           g == pool.growsize
<1>1. e \in Nat \ {0} /\ e = need /\ g \in Nat /\ LinkSize \in Nat
  BY ElementSize, PoolFacts, PoolAssumption DEF IInv
<1>2. LinkSize + CountOf(b) * e <= heap[b] /\ heap[b] \in Nat  BY BlockFacts, SizeFacts
<1>3. CountOf(b) \in Nat
  <2>1. CASE call.op = "grow"  BY <1>1, <2>1, GrowFacts DEF CountOf
  <2>2. CASE call.op # "grow"  BY <1>1, <2>2 DEF CountOf
  <2> QED  BY <2>1, <2>2
<1>4. \A p \in ObjectsOf(b) : \E i \in 0..CountOf(b)-1 : p = <<b, i * e>>
  BY ObjectsOfIs
<1>5. PICK i \in 0..CountOf(b)-1 : o = <<b, i * e>>  BY <1>4
<1>6. i \in Nat /\ i < CountOf(b) /\ i * e \in Nat /\ o[2] = i * e
  <2>1. i \in Nat /\ i < CountOf(b) /\ o[2] = i * e  BY <1>1, <1>3, <1>5
  <2> QED  BY <1>1, <2>1, Products
<1>7. Extent(o) \subseteq 0..heap[b] - LinkSize - 1
  <2>1. PICK n \in Nat : n = CountOf(b)  BY <1>3
  <2>2. i * e + e <= n * e /\ n * e \in Nat  BY <1>1, <1>6, <2>1, ObjectsDiffer, Products
  <2>3. PICK x \in Nat : x = i * e  BY <1>6
  <2>4. PICK y \in Nat : y = heap[b] - LinkSize
    <3>1. PICK z \in Nat : z = n * e  BY <2>2
    <3> QED  BY <1>1, <1>2, <2>1, <3>1
  <2> HIDE DEF e, need
  <2>5. x + e <= y
    <3>1. PICK z \in Nat : z = n * e  BY <2>2
    <3> QED  BY <1>1, <1>2, <2>1, <2>2, <2>3, <2>4, <3>1
  <2>6. heap[b] - LinkSize - 1 = y - 1  BY <2>4
  <2>7. Extent(o) = x .. x + e - 1  BY <1>1, <1>6, <2>3
  <2> HIDE DEF Extent
  <2>8. x .. x + e - 1 \subseteq 0..y-1  BY <1>1, <2>5, Spans
  <2> QED  BY <2>6, <2>7, <2>8
<1>8. ASSUME NEW p \in ObjectsOf(b), p # o PROVE Extent(o) \cap Extent(p) = {}
  <2>1. PICK j \in 0..CountOf(b)-1 : p = <<b, j * e>>  BY <1>4
  <2>2. j \in Nat /\ i # j /\ p[2] = j * e /\ j * e \in Nat
    <3>1. j \in Nat /\ i # j /\ p[2] = j * e  BY <1>3, <1>5, <1>8, <2>1
    <3> QED  BY <1>1, <3>1, Products
  <2>3. i * e + e <= j * e \/ j * e + e <= i * e
    <3>1. CASE i < j  BY <1>1, <1>6, <2>2, <3>1, ObjectsDiffer
    <3>2. CASE j < i  BY <1>1, <1>6, <2>2, <3>2, ObjectsDiffer
    <3> QED  BY <1>6, <2>2, <3>1, <3>2
  <2>4. PICK x \in Nat : x = i * e  BY <1>6
  <2>5. PICK y \in Nat : y = j * e  BY <2>2
  <2> HIDE DEF e, need
  <2>6. Extent(o) = x .. x + e - 1 /\ Extent(p) = y .. y + e - 1  BY <1>1, <1>6, <2>2, <2>4, <2>5
  <2>7. x + e <= y \/ y + e <= x  BY <2>3, <2>4, <2>5
  <2> HIDE DEF Extent
  <2>8. (x .. x + e - 1) \cap (y .. y + e - 1) = {}  BY <1>1, <2>7, Spans
  <2> QED  BY <2>6, <2>8
<1> QED  BY <1>7, <1>8

LEMMA TouchesFromInv == IInv => DestroyTouchesLiveMemory
<1> SUFFICES ASSUME IInv, Destroying
             PROVE  LET live == Allocated \cup {list_available, list_blocks}
                    IN  /\ {call.pos, call.tmp} \subseteq live
                        /\ call.pos # list_blocks =>
                             /\ {mem.next[call.pos], mem.prev[call.pos]} \subseteq live
                             /\ call.tmp # call.pos
  BY DEF DestroyTouchesLiveMemory, Destroying
<1> DEFINE live == Allocated \cup {list_available, list_blocks}
           A(i) == At(list_blocks, blocks, i)
<1>1. /\ Lives /\ call.pos = A(1) /\ call.tmp = A(2)
      /\ call.pos # list_blocks => Len(blocks) # 0
  BY DestroyFacts
<1>2. /\ blocks \in Seq(Blocks) /\ Len(blocks) \in Nat /\ IsInjective(blocks)
      /\ Ring(mem, list_blocks, blocks) /\ ToSet(blocks) = Allocated
      /\ Circle(Cells, list_blocks, blocks)
  BY <1>1, LiveFacts, CellFacts, ListIsCircle
<1>3. \A i : A(i) \in live
  <2>1. DOMAIN blocks = 1..Len(blocks)  BY <1>2
  <2> QED  BY <1>2, <2>1 DEF At, ToSet
<1>4. ASSUME Len(blocks) # 0
      PROVE  mem.next[A(1)] = A(2) /\ mem.prev[A(1)] = A(0) /\ A(2) # A(1)
  <2>1. 1 \in 0..Len(blocks) /\ 0 \in 0..Len(blocks) /\ 1+1 = 2 /\ 0+1 = 1
        /\ 1 \in 1..(Len(blocks)+1) /\ 2 \in 1..(Len(blocks)+1) /\ 1 # 2
    BY <1>2, <1>4
  <2>2. A(2) # A(1)  BY <1>2, <2>1, CircleCells
  <2> QED  BY <1>2, <2>1, <2>2 DEF Ring
<1> HIDE DEF A
<1> QED  BY <1>1, <1>3, <1>4

-----------------------------------------------------------------------------
(* The counters.                                                           *)

\* What the steps that change a counter make of it, with no remainder taken.
NoCounterWraps ==
  /\ GrowLoop \/ (\E elt \in held : PoolAdd(elt)) => pool'.available = pool.available + 1
  /\ GrowDone \/ PoolGet => pool'.available = pool.available - 1
  /\ (\E block \in Blocks : PoolGetGrow(block)) =>
       /\ pool'.nblocks = pool.nblocks + 1
       /\ pool'.allocated = pool.allocated + pool.growsize

\* pool.available is changed as a u32, and the pool stays one.
LEMMA AvailableMoves ==
  ASSUME IInv, Lives, _pool_get \/ \E elt : _pool_add(elt)
  PROVE  Lives'
<1>1. pool \in PoolType(GrowSizes) /\ pool.available \in Nat /\ TwoTo32 \in Nat \ {0}
  <2>1. TwoTo32 \in Nat \ {0}  BY PoolAssumption
  <2> QED  BY <2>1, PoolFacts DEF IInv
<1>2. PICK v : pool' = [pool EXCEPT !.available = v] /\ v \in 0..TwoTo32-1
  <2>1. CASE _pool_get
    <3>1. (pool.available - 1) % TwoTo32 \in 0..TwoTo32-1  BY <1>1
    <3> QED  BY <2>1, <3>1 DEF _pool_get
  <2>2. CASE \E elt : _pool_add(elt)
    <3>1. (pool.available + 1) % TwoTo32 \in 0..TwoTo32-1  BY <1>1
    <3> QED  BY <2>2, <3>1 DEF _pool_add
  <2> QED  BY <2>1, <2>2
<1>3. pool' \in PoolType(GrowSizes)  BY <1>1, <1>2 DEF PoolType
<1> QED  BY <1>3, StillLives DEF Lives

LEMMA CountersMove ==
  ASSUME GrowsByAtLeastOne, IInv, [Next]_vars
  PROVE  NoCounterWraps
<1>1. EveryObjectAccountedFor'  BY NextIInv DEF IInv
<1>2. ASSUME Lives, Steady, Lives', Steady'
      PROVE  pool.available = Len(free) /\ pool'.available = Len(free')
  BY <1>1, <1>2, LiveFacts DEF EveryObjectAccountedFor, Lives
<1>3. ASSUME Lives, Steady, Steady', NEW elt, _pool_add(elt), elt \in Objects
      PROVE  pool'.available = pool.available + 1
  <2>1. free \in Seq(Objects)  BY <1>3, LiveFacts
  <2>2. free' = <<elt>> \o free  BY <1>3 DEF _pool_add
  <2>3. Len(<<elt>> \o free) = Len(free) + 1
    <3>1. <<elt>> \in Seq(Objects) /\ Len(<<elt>>) = 1  BY <1>3
    <3> QED  BY <2>1, <3>1
  <2> QED  BY <1>2, <1>3, <2>2, <2>3, AvailableMoves
<1>4. ASSUME Lives, Steady, Steady', Len(free) # 0, _pool_get
      PROVE  pool'.available = pool.available - 1
  <2>1. Len(free') = Len(free) - 1  BY <1>4, PoolGetsElt
  <2> QED  BY <1>2, <1>4, <2>1, AvailableMoves
<1>5. ASSUME GrowLoop PROVE pool'.available = pool.available + 1
  <2>1. /\ call.op = "grow" /\ call.i < pool.growsize /\ _pool_add(Cur(call.block, call.i))
        /\ call' = [call EXCEPT !.i = @ + 1]
    BY <1>5 DEF GrowLoop
  <2>2. Lives /\ Steady /\ call \in [op : {"grow"}, block : Blocks, i : Nat]
    BY <2>1, GrowFacts
  <2>3. Cur(call.block, call.i) \in Objects  BY <2>1, NewObject
  <2>4. Steady'  BY <2>1, <2>2 DEF Steady
  <2> QED  BY <1>3, <2>1, <2>2, <2>3, <2>4
<1>6. ASSUME NEW elt \in held, PoolAdd(elt) PROVE pool'.available = pool.available + 1
  <2>1. Lives /\ call = Idle /\ call' = Idle /\ _pool_add(elt)
    BY <1>6 DEF PoolAdd, Ready, Lives
  <2>2. Steady /\ Steady' /\ elt \in Objects
    BY <2>1, LiveFacts DEF Steady, Idle
  <2> QED  BY <1>3, <2>1, <2>2
<1>7. ASSUME GrowDone PROVE pool'.available = pool.available - 1
  <2>1. call.op = "grow" /\ call.i >= pool.growsize /\ _pool_get /\ call' = Idle
    BY <1>7 DEF GrowDone
  <2>2. Lives /\ Steady /\ Len(free) # 0  BY <2>1, GrowEnds
  <2> QED  BY <1>4, <2>1, <2>2 DEF Steady, Idle
<1>8. ASSUME PoolGet PROVE pool'.available = pool.available - 1
  <2>1. Lives /\ call = Idle /\ call' = Idle /\ pool.available # 0 /\ _pool_get
    BY <1>8 DEF PoolGet, Ready, Lives
  <2>2. Steady /\ Len(free) # 0  BY <2>1, IdleCounts, LiveFacts
  <2> QED  BY <1>4, <2>1, <2>2 DEF Steady, Idle
<1>9. ASSUME NEW block \in Blocks, PoolGetGrow(block)
      PROVE  /\ pool'.nblocks = pool.nblocks + 1
             /\ pool'.allocated = pool.allocated + pool.growsize
  BY <1>9, GrowCounts
<1> QED  BY <1>5, <1>6, <1>7, <1>8, <1>9 DEF NoCounterWraps

\* Every variable of the pool has its type, and no update of its three counters
\* wraps: available by _pool_add() and _pool_get(), nblocks and allocated by
\* pool_get() when it grows (pool.c:83, 94, 117, 127).
THEOREM PoolTypeOK ==
  ASSUME GrowsByAtLeastOne
  PROVE  Spec => []TypeOK /\ [][NoCounterWraps]_vars
<1>1. IInv => TypeOK  BY DEF IInv
<1>2. GrowsByAtLeastOne /\ IInv /\ [Next]_vars => [NoCounterWraps]_vars  BY CountersMove
<1> QED  BY <1>1, <1>2, PoolInvariant, PTL DEF Spec

-----------------------------------------------------------------------------
(* The invariants of the runs.                                             *)

\* The pool never loses an object or a block, never hands an object out twice,
\* and counts right, whatever its caller does (pool.c:73-163).
THEOREM PoolAccounts ==
  ASSUME GrowsByAtLeastOne
  PROVE  Spec => []EveryObjectAccountedFor
<1>1. IInv => EveryObjectAccountedFor  BY DEF IInv
<1> QED  BY <1>1, PoolInvariant, PTL

\* The links in the objects and the blocks say what is on the two lists, in both
\* directions, although they lie in memory the caller writes to.
THEOREM PoolListsAreLinked ==
  ASSUME GrowsByAtLeastOne
  PROVE  Spec => []ListsAreLinked
BY ListsFromInv, PoolInvariant, PTL

\* Objects of any size share no memory and stay inside what malloc() was asked
\* for.  Where that size wraps, and nowhere else, the program leaves the block; it
\* does so before it hands out an object (pool.c:104, 128-134).
THEOREM PoolObjectsDoNotOverlap ==
  ASSUME GrowsByAtLeastOne
  PROVE  Spec => []ObjectsDoNotOverlap
BY ExtentsFromInv, PoolInvariant, PTL

\* The loop of pool_destroy() reads no block that it has freed.
THEOREM PoolDestroyIsSafe ==
  ASSUME GrowsByAtLeastOne
  PROVE  Spec => []DestroyTouchesLiveMemory
BY TouchesFromInv, PoolInvariant, PTL

-----------------------------------------------------------------------------
(* What a step does to the objects the caller holds.                       *)

\* A new block is written to, and its neighbours on list_blocks; no object is.
LEMMA GetGrowSpares ==
  ASSUME IInv, NEW block \in Blocks, PoolGetGrow(block)
  PROVE  \A x \in Objects : SameCell(mem, mem', x)
<1>1. Lives /\ block \notin Allocated /\ mem' = list_add(mem, block, list_blocks)
  BY DEF PoolGetGrow, MallocGives, Ready, Lives
<1>2. /\ mem \in Memory(Cells) /\ blocks \in Seq(Blocks) /\ IsInjective(blocks)
      /\ Ring(mem, list_blocks, blocks) /\ ToSet(blocks) = Allocated /\ ToSet(blocks) \subseteq Blocks
  BY <1>1, LiveFacts
<1>3. list_blocks \in Cells /\ Blocks \in SUBSET (Cells \ {list_blocks})  BY CellFacts
<1>4. block \in Blocks \ ToSet(blocks)  BY <1>1, <1>2
<1>5. \A x \in Cells : x # list_blocks /\ x \notin ToSet(blocks) /\ x # block => SameCell(mem, mem', x)
  BY <1>1, <1>2, <1>3, <1>4, AddToList
<1>6. \A x \in Objects : x \in Cells /\ x # list_blocks /\ x \notin Blocks  BY CellFacts
<1> QED  BY <1>2, <1>5, <1>6

LEMMA NextSpares ==
  ASSUME GrowsByAtLeastOne, IInv, [Next]_vars, NEW o \in held, o \in held'
  PROVE  SameCell(mem, mem', o) \/ Write(o)
<1>1. held \subseteq Objects  BY DEF IInv, TypeOK
<1>2. mem' = mem => SameCell(mem, mem', o)  BY DEF SameCell
<1>3. Lives  BY DEF IInv, Counted
<1>4. ASSUME Steady PROVE o \notin ToSet(free)  BY <1>3, <1>4, LiveFacts
<1>5. CASE \E g \in GrowSizes, s \in Sizes : PoolCreate(g, s)
  BY <1>3, <1>5 DEF PoolCreate, Lives
<1>6. ASSUME NEW elt \in held, PoolAdd(elt) PROVE SameCell(mem, mem', o)
  <2>1. Lives /\ call = Idle /\ _pool_add(elt) /\ held' = held \ {elt}
    BY <1>6 DEF PoolAdd, Ready, Lives
  <2>2. Steady /\ elt \notin ToSet(free) /\ elt \in Objects /\ o # elt
    BY <1>1, <2>1, IdleCounts, LiveFacts
  <2> QED  BY <1>1, <1>4, <2>1, <2>2, PoolAddsElt
<1>7. ASSUME NEW elt \in held, Write(elt) PROVE SameCell(mem, mem', o) \/ Write(o)
  <2>1. Lives /\ mem' = Scrub(mem, {elt})  BY <1>7 DEF Write, Ready, Lives
  <2>2. \A x \in Cells \ {elt} : SameCell(mem, mem', x)  BY <2>1, LiveFacts, ScrubFacts
  <2>3. o \in Cells  BY <1>1, CellFacts
  <2> QED  BY <1>7, <2>2, <2>3
<1>8. ASSUME Lives, Steady, Len(free) # 0, _pool_get PROVE SameCell(mem, mem', o)
  BY <1>1, <1>4, <1>8, PoolGetsElt
<1>9. CASE PoolGet
  <2>1. Lives /\ call = Idle /\ pool.available # 0 /\ _pool_get  BY <1>9 DEF PoolGet, Ready, Lives
  <2>2. Steady /\ Len(free) # 0  BY <2>1, IdleCounts, LiveFacts
  <2> QED  BY <1>8, <2>1, <2>2
<1>10. CASE \E block \in Blocks : PoolGetGrow(block)  BY <1>1, <1>10, GetGrowSpares
<1>11. CASE PoolDestroy  BY <1>11 DEF PoolDestroy
<1>12. CASE GrowLoop
  <2>1. call.op = "grow" /\ call.i < pool.growsize /\ _pool_add(Cur(call.block, call.i))
    BY <1>12 DEF GrowLoop
  <2>2. Lives /\ Steady  BY <2>1, GrowFacts
  <2>3. PICK c \in Objects : c = Cur(call.block, call.i) /\ c \notin Owned  BY <2>1, NewObject
  <2>4. c \notin ToSet(free) /\ o # c  BY <2>2, <2>3, LiveFacts
  <2> QED  BY <1>1, <1>4, <2>1, <2>2, <2>3, <2>4, PoolAddsElt
<1>13. CASE GrowDone
  <2>1. call.op = "grow" /\ call.i >= pool.growsize /\ _pool_get  BY <1>13 DEF GrowDone
  <2>2. Lives /\ Steady /\ Len(free) # 0  BY <2>1, GrowEnds
  <2> QED  BY <1>8, <2>1, <2>2
<1>14. CASE DestroyLoop \/ DestroyDone
  <2>1. Destroying  BY <1>14 DEF DestroyLoop, DestroyDone, Destroying
  <2> QED  BY <2>1, DestroyFacts
<1>15. CASE \/ GrowStrays \/ \E block \in Blocks : PoolGetStrays(block)
            \/ PoolCreateFails \/ PoolGetFails \/ Stopped \/ UNCHANGED vars
  BY <1>2, <1>15 DEF GrowStrays, PoolGetStrays, PoolCreateFails, PoolGetFails, Stopped, vars
<1> QED
  BY <1>5, <1>6, <1>7, <1>9, <1>10, <1>11, <1>12, <1>13, <1>14, <1>15 DEF Next, Running

\* While the caller has an object, no call of the pool writes to it.
THEOREM PoolLeavesHeldAlone ==
  ASSUME GrowsByAtLeastOne
  PROVE  Spec => HeldObjectsLeftAlone
<1>1. ASSUME IInv, [Next]_vars
      PROVE  [\A o \in held \cap held' :
                \/ mem'.next[o] = mem.next[o] /\ mem'.prev[o] = mem.prev[o]
                \/ Write(o)]_vars
  BY <1>1, NextSpares DEF SameCell
<1> QED  BY <1>1, PoolInvariant, PTL DEF Spec, HeldObjectsLeftAlone

-----------------------------------------------------------------------------
(* The pool implements PoolSpec, with the objects on list_available free   *)
(* and those of the caller in use.                                         *)

LEMMA InitPromise == Init => Promise!Init
BY DEF Init, Promise!Init, ToSet

LEMMA NextPromise ==
  ASSUME GrowsByAtLeastOne, IInv, [Next]_vars
  PROVE  Promise!Next \/ UNCHANGED Promise!vars
<1>1. free' = free /\ held' = held => UNCHANGED Promise!vars  BY DEF Promise!vars
<1>2. ASSUME NEW g \in GrowSizes, NEW s \in Sizes, PoolCreate(g, s) PROVE UNCHANGED Promise!vars
  BY <1>1, <1>2 DEF PoolCreate
<1>3. ASSUME NEW elt \in held, PoolAdd(elt) PROVE Promise!Put
  <2>1. Lives /\ call = Idle /\ _pool_add(elt) /\ held' = held \ {elt}
    BY <1>3 DEF PoolAdd, Ready, Lives
  <2>2. Steady /\ elt \notin ToSet(free) /\ elt \in Objects
    BY <2>1, IdleCounts, LiveFacts
  <2>3. ToSet(free') = ToSet(free) \cup {elt}  BY <2>1, <2>2, PoolAddsElt
  <2> QED  BY <2>1, <2>3 DEF Promise!Put
<1>4. ASSUME NEW elt \in held, Write(elt) PROVE UNCHANGED Promise!vars
  BY <1>1, <1>4 DEF Write
<1>5. ASSUME Lives, Steady, Len(free) # 0, _pool_get PROVE Promise!Get
  <2>1. \E e \in ToSet(free) : ToSet(free') = ToSet(free) \ {e} /\ held' = held \cup {e}
    BY <1>5, PoolGetsElt
  <2> QED  BY <2>1 DEF Promise!Get
<1>6. CASE PoolGet
  <2>1. Lives /\ call = Idle /\ pool.available # 0 /\ _pool_get  BY <1>6 DEF PoolGet, Ready, Lives
  <2>2. Steady /\ Len(free) # 0  BY <2>1, IdleCounts, LiveFacts
  <2> QED  BY <1>5, <2>1, <2>2 DEF Promise!Next
<1>7. CASE \E block \in Blocks : PoolGetGrow(block)  BY <1>1, <1>7 DEF PoolGetGrow
<1>8. CASE PoolDestroy
  <2>1. ToSet(free') = {} /\ held' = {}  BY <1>8 DEF PoolDestroy, ToSet
  <2> QED  BY <2>1 DEF Promise!Next, Promise!Destroy
<1>9. CASE GrowLoop
  <2>1. call.op = "grow" /\ call.i < pool.growsize /\ _pool_add(Cur(call.block, call.i)) /\ held' = held
    BY <1>9 DEF GrowLoop
  <2>2. Lives /\ Steady  BY <2>1, GrowFacts
  <2>3. PICK c \in Objects : c = Cur(call.block, call.i) /\ c \notin Owned  BY <2>1, NewObject
  <2>4. c \notin ToSet(free) /\ c \notin held  BY <2>2, <2>3, LiveFacts
  <2>5. ToSet(free') = ToSet(free) \cup {c}  BY <2>1, <2>2, <2>3, <2>4, PoolAddsElt
  <2> QED  BY <2>1, <2>4, <2>5 DEF Promise!Next, Promise!Grow
<1>10. CASE GrowDone
  <2>1. call.op = "grow" /\ call.i >= pool.growsize /\ _pool_get  BY <1>10 DEF GrowDone
  <2>2. Lives /\ Steady /\ Len(free) # 0  BY <2>1, GrowEnds
  <2> QED  BY <1>5, <2>1, <2>2 DEF Promise!Next
<1>11. CASE DestroyLoop \/ DestroyDone  BY <1>1, <1>11 DEF DestroyLoop, DestroyDone
<1>12. CASE \/ GrowStrays \/ \E block \in Blocks : PoolGetStrays(block)
            \/ PoolCreateFails \/ PoolGetFails \/ Stopped \/ UNCHANGED vars
  BY <1>1, <1>12 DEF GrowStrays, PoolGetStrays, PoolCreateFails, PoolGetFails, Stopped, vars
<1> QED
  BY <1>2, <1>3, <1>4, <1>6, <1>7, <1>8, <1>9, <1>10, <1>11, <1>12
  DEF Next, Running, Promise!Next

\* Of a pool with any number of objects of any size, a caller sees what pool.h
\* promises.
THEOREM PoolIsFreeAndUsed ==
  ASSUME GrowsByAtLeastOne
  PROVE  Spec => KeepsThePromise
<1>1. ASSUME IInv, [Next]_vars PROVE [Promise!Next]_(Promise!vars)
  BY <1>1, NextPromise
<1> QED  BY <1>1, InitPromise, PoolInvariant, PTL DEF Spec, KeepsThePromise, Promise!Spec

=============================================================================
