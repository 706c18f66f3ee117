# brlib in TLA+

brlib is a small C library: intrusive linked lists, priority lists, hash tables, a
memory pool, a list sort, bit operations and hash functions. Nearly all of it is
sequential code without locks or threads. What is hard in it is pointer surgery: functions
that rewrite a handful of links in an order that matters, take arguments that may be
neighbours of each other, the same cell, or a head where an entry is usual, and rely
on their callers to have left every cell in a state they never check. One wrong link
shows up many calls later, in another function. The models here follow the pointers,
write by write, and relate them to what the calls promised. The rest is arithmetic on
bits, where one mask of many may be wrong; a hash of an input that arrives in pieces, where
the pieces may be cut anywhere; and the indices of a circular buffer, the one part made for two
threads.

## The system

| component | state | operations | built on |
|---|---|---|---|
| `list.h`, `struct list_head` | two pointers per cell; a list is a ring through its head | 26 functions: init, add, delete, replace, swap, move, rotate, cut, splice, tests; iteration macros | - |
| `list.h`, `struct hlist_head` | a head with one pointer; nodes with `next` and `pprev`, the location that points to them | add, delete, move, fake and hashed tests, iteration | - |
| `pool.c` | counters and two lists: blocks from `malloc`, free objects threaded through the objects' own memory | create, get (grows), add, destroy, stats | `list.h` |
| `plist.c` | per head one list of all nodes, plus a ring through the first node of each priority | node init, add, delete, requeue, iteration | `list.h` |
| `list_sort.c` | during a call: null-terminated runs, chained through `prev` | `list_sort` with the caller's comparison | `list.h` |
| `hashtable.h`, `hash.h` | an array of `hlist_head` | add, delete, iterate over one bucket or all | hlist, hash functions |
| `bitops.h`, `bitops-emulated/` | none | find first/last bit, count, rotate, byte swap | - |
| `hash.h`, `stringhash.h`, `pjwhash` | none | hash of a word, of a string | - |
| `debug.c` | level, stream, timers | init, level set, log, timers | - |
| `brlib.h` and small headers | none | compile-time macros | - |
| `todo/xxhash.c` | per hash of an input in pieces: four lanes, a buffer of less than a stripe, a count | hash at once; reset, update, digest, copy | `asm/unaligned.h` |
| `todo/circ_buf.h` | a buffer and two indices, each written by one side and read by both | counts of full and free slots, around the end and up to it | - |
| rest of `todo/` | none | a program that prints hashes, declarations | - |

Components meet through memory. `pool.c`, `plist.c` and `list_sort.c` call `list.h` or
write its pointers themselves, and the caller of `pool.c` writes to the very memory
that holds the pool's links. There are two callbacks to the caller: the comparison of
`list_sort`, and the body of an iteration macro, which may change the list it walks.
The only failure the code handles is that of `malloc` in `pool.c`, and an update by a null pointer in
`xxhash.c`. No state outlives the process, so there is no crash or restart to model, and
nothing waits for anything. The producer and the consumer of a `circ_buf` are the only
actors that run at the same time. `todo/` is not built by the Makefile; what it holds is
modelled as it stands.

What makes each component correct, in a sentence:

- *list*: after any sequence of legal calls, the pointers of every list are those of
  the entries the calls put there, in that order, and cells on no list are left alone;
- *pool*: every object of every block is free, held by the caller, or being added;
  none is two of these, overlaps another, or is written by the pool while it is held;
- *plist*: entries are served by priority and then by age, and the two chains agree;
- *list_sort*: the result is a sorted, stable permutation, still a list both ways;
- *hlist and hash table*: a node is in the bucket of its key, and `pprev` is always
  the location that points to the node;
- *bits and hashes*: the emulations compute what the builtins do, a hash is inside its
  table and made of the high bits, and the two hashes of a string agree;
- *xxhash*: the digest of a state is the hash of everything it was given, however that was cut;
- *circ_buf*: no slot is written by one side while it belongs to the other, and a consumer
  that polls gets on.

## The modules

| module | what it is |
|---|---|
| `Pointers` | the null pointer and the two poison values |
| `ListHead` | the functions of `list.h` on `struct list_head`, as operators on a memory of two pointers per cell, written store by store |
| `ListSpec` | what the calls mean for the lists as sequences, without pointers |
| `List` | the state machine: every call of the API, the pointers (`mem`) beside the sequences (`lists`) |
| `Rings` | what it means that a list of cells is a ring in memory |
| `RingProofs` | lemmas on sequences, on rings with a head and on hash lists, for the proofs of every list |
| `ListProofs` | the theorems about `List` |
| `PoolSpec` | a pool as two sets, free and used |
| `Pool` | `pool.c`, and a caller that uses and overwrites what it got |
| `PoolProofs` | the theorems about `Pool` |
| `PlistSpec` | a priority list as a sequence per head |
| `Plist` | `plist.c` |
| `PlistProofs` | the theorems about `Plist` |
| `ListSort` | one call of `list_sort`, one comparison or loop turn a step |
| `SortProofs` | the theorems about `ListSort` |
| `ListIter` | the loops of `list.h`, and bodies that change the list under them |
| `HlistHead` | the functions of `list.h` on `struct hlist_head`, like `ListHead` |
| `Hlist` | the state machine: every call on hash lists, the pointers beside the sequences |
| `HlistIterProofs` | the theorems about `Hlist` and `ListIter`, of whose names none is in both |
| `HashTable` | `hashtable.h`: a table, and its loops with bodies that change it |
| `HashTableProofs` | the theorems about `HashTable` |
| `Words` | the unsigned arithmetic of C on words that are sets of bits |
| `Bitops` | the operations of `bitops.h` and their emulations, and the loops over the bits of a word |
| `Hash` | `hash.h`, `hash.c` and `pjwhash-inline.h` |
| `MCWords` | the properties of `Hash`, on the words of `Bitops` |
| `Xxhash` | `xxhash.c`: the hash of an input at once, and in pieces |
| `Fifo` | a bounded queue that moves several items at a time |
| `CircBuf` | `circ_buf.h` between a producer and a consumer |
| `TodoProofs` | the theorems about `Xxhash` and `CircBuf`, of whose names none is in both |
| `MCList`, `MCPlist`, `MCHlist` | symmetry sets for TLC |

`ListHead` is the common ground: `List`, `ListIter`, `Pool`, `Plist` and `ListSort` all EXTEND it,
so a pool is threaded with the same `list_add` and `list_del`; what these do to a ring is proved
once, in `RingProofs`.

### Lists (`ListHead`, `ListSpec`, `List`)

A memory `m` is a record of two functions, `m.next` and `m.prev`, from cells to cells,
`NULL` or a poison value. An operator such as `list_swap(m, entry1, entry2)` is the
memory after the C function, with each read taken from the memory as it is at that
point: the order of the stores, and what a read sees when two arguments are the same
cell or neighbours, are those of the code.

In `List` an action makes one call. Its precondition is what a caller may do: insert a
node that is on no list, delete one that is on a list, and so on, but wherever the code
takes *a* `struct list_head`, the action passes every cell it may be: heads as well as
entries for insertions, replacements and splices, neighbours and entries of two lists
for `list_swap`, blocks of any length for `list_bulk_move_tail`. `lists` is a history
variable: what the calls done so far promise of each list, or `Undefined` for a head
that is not initialised or whose contents were spliced away. Heads that lost their list
keep their stale pointers in `mem`, as in C.

`list_for_each` is the sequence of cells the loop visits if nothing changes meanwhile; a
loop that would fault or not end gives `Astray`, which equals no list.

### Loops (`ListIter`)

Here a turn of a loop is an action, and a body is any number of `Add`, `Del` and
`MoveTail` between two turns. `loop` holds the cursors `pos` and, in a safe loop, `tmp`
(the macros' `n`). The fifteen macros differ in start, direction and safety:
`LoopStart`, `LoopContinue` and `LoopFrom` are the starts, and the other two are
parameters. What a body may not do is their contract: take away the entry the loop goes
on from (`MayLeave`), unless it is the `tmp` of a forward loop, `pos` is still in its
place, and `list_safe_reset_next` is called (`SafeResetNext`) before the next turn.
`seen`, `stayed` and `entered` are history: what a loop owes its caller.

### Hash lists and tables (`HlistHead`, `Hlist`, `HashTable`)

`pprev` points at a location, not at a node. A location is named by the head or node it
is in, so `link[x]` is `first` of a head and `next` of a node, and `pprev[n]` is an `x`.
The null pointer and the poison values are no head and no node, and differ. `state` in `Hlist` is how the last call left each node; deletions are called for fake
and unhashed nodes too, where the code says they may be. `HashTable` takes the hash of a
key as any function into the buckets, fixed in `Init`, and the length of the table, `HASH_SIZE`, as any power of
two; its loops work as in `ListIter`.

### Bits and hashes (`Words`, `Bitops`, `Hash`, `MCWords`)

A word of 32 or 64 bits is the set of the positions of its set bits, so `&`, `|`, `^` are set
operations, and sums and products carry bit by bit (`Plus`, `Times`): no number is larger
than those of TLC. The emulations are translated step by step, and compared with the
definition of the builtin in the first state of a behaviour; the rest of the behaviour is
a loop over the bits of the word, `Find` its assignment to `pos`, `Turn` its body. `ctz` of 0 is
any number. `__popcount_emulated` is a macro that counts down the variable it is given, so its result is a
count and what is left in that variable. `__ffs_popcount` is `ffs` in a build that has the builtin popcount and no
builtin `ffs`; the versions that no build can compile are left out (Findings). The operators of `Hash` take the width of a `long`, which selects the code that is
compiled; `MCWords` uses each word of `Bitops` as an integer, a pointer, a salt and the bytes of a
string.

### Hash in pieces (`Xxhash`)

The mixing is left out, and which bytes are mixed where is kept: a lane is the sequence of the
words it took, a digest is the lanes (or the seed, if there was no stripe), the length, and the
words and bytes of the rest. So two digests that are equal in the model are equal in C,
for every seed, and the digest of a wrong byte, or of a byte at a wrong place, differs: each byte of
an input is its position. One module has the functions of 32 and of 64 bits, whose difference is
the `word`, the count and `large_len`. `given` is history, how much a state was given. The buffer
keeps stale bytes behind `memsize`, as in C. The count of the 32 bit hash wraps at `TwoTo32`,
which may be any number above 30, as 2^32 is: two short pieces
then cannot wrap the count past a stripe that nobody noticed.

### Circular buffer (`Fifo`, `CircBuf`)

The header defines four counts and nothing else, so who reads and stores what is modelled
from its comment on indices that "can change underneath us", and marked external: each side reads the
other's index once, copies slot by slot, and then stores its own index, each a step.
Either side may count with the macro up to the end of the buffer, as for a `memcpy`, or with
the one around it. The memory barriers that keep this order on a real machine are the user's.
The size is a constant, a power of two, which the masks of the macros need. `Fifo` is the
promise: items leave in order, each once.

### Pool (`PoolSpec`, `Pool`)

Blocks are addresses `malloc` may return, an object is a block and an offset, and the
links of the two lists lie in blocks and objects. `pool_create` and `pool_add` are one
action each; `pool_get` is `PoolGet`, `PoolGetFails`, or, when it grows, `PoolGetGrow`
followed by one `GrowLoop` per object and `GrowDone`; `pool_destroy` is one
`DestroyLoop` per block. Between calls the caller may overwrite any object it holds
(`Write`): the links there are gone. `free()` does the same to a block, so that a loop
reading a freed block finds nothing to follow.
`free` and `blocks` are history variables, the objects and blocks in list order.
Sizes are in units such that a link takes `LinkSize` of them, so that objects smaller
than a link would overlap. What `malloc` is asked for (`Asked`) is a `size_t`, a sum of a product, and wraps at
`TwoTo64`, as does the address of an object (`Cur`). The block is then smaller than what the loop
threads: if it has no room for its own link (`PoolGetStrays`), or once the next object is not `Inside`
of it (`GrowStrays`), the call has `Strayed`. C says nothing of a program that writes outside of a block, so the
model stops there; what it does say is that a pool strays in no other case, and before it has
handed out an object. `malloc` fails at any time, and always beyond `MaxObjects`. Blocks and objects lie apart from
each other and from the heads (`CellsAreApart`), and no more objects can exist at once than a `u32`
counts (`CountersSuffice`).

### Priority list (`PlistSpec`, `Plist`)

`nl` and `pl` are the memories of the `node_list` and `prio_list` members. One action per
function. The loops of `plist_add` and `plist_requeue` change nothing until they end, so
they are expressions: `Lap` is the ring `plist_add` searches, `Behind` the entries that
`plist_for_each_continue` goes through. The checks of `plist_check_head`, which every function
makes before and after its work when they are compiled in, are part of `QueuesAreLinked`. (No
build does: `plist.c` compiles them under `DEBUG_PLIST`, `plist.h` under `CONFIG_DEBUG_PLIST`.)

### Sort (`ListSort`)

The list is built once, in `Init`, with every length up to `N` and every assignment of
keys. `Start` opens the ring, then each `Round` decides from `count` whether to merge
first (`MergeTurn`s, `Install`) and takes one entry (`Push`). `Collect` and `Collected`
are the loop at the end of the input, and `FinalTurn` and `FinalRest` the two loops of
`merge_final`. `CmpCalls` is the call of `cmp` the next step makes: two entries to compare, or, when the
counter of `FinalRest` wraps, one entry twice, for a client that wants to be called now and then. `erratic`, chosen in `Init`, says whether the
comparison is one of the keys or answers anything.

## The runs

| run | question | bounds | states |
|---|---|---|---|
| `list` | do the pointers always say what the calls promised? | 2 heads, 4 nodes, symmetric | 109,000 |
| `list_iter` | do the loops miss nobody, visit nobody twice, and end, whatever their bodies do? | 4 nodes; a body adds or moves an entry once | 265,000 |
| `pool` | is any object or block lost, shared, overlapped or overwritten? does the pool implement `PoolSpec`? do its calls return? | 3 blocks of 1, 2 or 3 objects, 4 objects, sizes below and above a link, and so large that `malloc`'s argument wraps | 20,000 |
| `pool_grow_zero` | what of a pool that grows by 0 objects? | growth 0; a violation | - |
| `plist` | do the two chains agree, and are entries served in order? does `Plist` implement `PlistSpec`? | 2 heads, 5 nodes, 3 priorities, symmetric | 680 |
| `list_sort` | is the result sorted and stable, with the promised merges and arguments of `cmp`? does it return, and the list survive, whatever `cmp` answers? | up to 12 entries, 2 keys; up to 7 when `cmp` is erratic | 545,000 |
| `hlist` | do the pointers and the tests say what the calls promised? | 3 heads, 6 nodes, symmetric | 155 |
| `hash_table` | is an object in the bucket of its key and no other; do the loops miss nobody, visit nobody twice, and end? | 3 nodes, 2 keys, 2 buckets, every hash function | 51,000 |
| `bitops` | do the emulations agree with the builtins (but for `ffs` of 0), and the loops visit every bit? are hashes inside the table, and made of the high bits? do the two hashes of a string agree? | words of 32 and 64 bits with up to 2 bits set or up to 1 clear; tables of 2 and 256 buckets | 368,000 |
| `bitops_ctz_zero` | is `ctz` asked of 0? | as `bitops`; a violation | - |
| `xxhash` | is the digest of a state the hash of what it was given? | 2 states; pieces of 0, 1, 5, 15, 31 and 33 bytes; 2 stripes and a word; a count that wraps at 31 | 30,000 |
| `circ_buf` | are the slots of the two sides apart? is the buffer a queue, and does the consumer get on? | 4 slots, 2 items, either macro on each side | 23,000 |

Why the bounds suffice. Every function of `list.h` touches at most two lists and the
neighbours of at most three cells, so two heads and four nodes give every aliasing:
empty, singular and longer lists, neighbours both ways round, a cell on each side that
must not change. A pool needs one block to grow, two to be destroyed one after the
other and three for the loop to be in the middle of its list; growth by 1, 2 and 3
tells the first object of a block from the others. Of the sizes, 1 and 3 never make a block wrap a `size_t` of
16 values; with 7 and 8, a block of one object does not wrap, one of two has no room
for its link or for that alone, and one of three has room for no object or for the first. Five nodes of three priorities give
a priority of three entries between two others, or two runs of two. Twelve entries run
`list_sort` through every state of its table of pending runs for runs of 1, 2 and 4
entries, the final collection of up to three runs included; two keys suffice to see
every outcome of a comparison and entries that are equal. `TwoTo8 = 3` lets the `u8` of
`merge_final` wrap. Four entries give a loop the
one it is at, the next, and one on either side of the two; three hash nodes give a bucket
its current node, the next and another, or split them. Six nodes on three heads are all
shapes of two lists with an empty head to move to. A word with one bit set, or one clear,
distinguishes every mask and shift of the emulations, and two bits the order of a loop; the
words of a hash are the same, and 2 and 256 buckets are the smallest table and one for which every
bit of the key counts. The pieces of `xxhash` are nothing, a byte, a word and a byte, one less than a
stripe of either hash and one more than the larger: sums of these end at, before and behind the end
of every stripe and of the count. Four slots let three be full, in every position around the end.
`TwoTo32 = 16` is above the number of objects of the largest pool,
as 2^32 is in a real one (`CountersSuffice`).

Deadlock is checked except for `ListSort`, which is one call, and `Bitops` and `MCWords`, whose
behaviours are one loop. Symmetry is used where every property is a safety property and no
constant is singled out.

Fairness is assumed in five places: `Pool!FairSpec` (a call of the pool that has begun
goes on: nothing in `pool.c` waits), `ListSort!FairSpec` (the same of the sort,
provided that `cmp` returns), and `ListIter!IterFairSpec` and `HashTable!FairSpec` (a loop goes on,
provided that its body returns; in `ListIter`, that it resets a stale `tmp`, as
`list_safe_reset_next` is there for), and `CircBuf!BufFairSpec` (a consumer that polls, and finishes
its copy; the producer owes nothing). The caller is never obliged to call anything.
`ListIter!LoopsEnd` needs the bound of one entry per node and loop: a body that moves the current
entry to the tail each time keeps a list loop running for ever. A hash table has no
such case, since `hash_add` adds in front of the loop's position only.

## Findings

`pool_create()` accepts `grow = 0`. `pool_get()` on such a pool allocates a block with
no object, and `_pool_get()` takes `list_available.next`, the list head itself, as the
object: it decrements `available` to 2^32-1, poisons the head of the pool's own list and
returns its address, where `pool.h:65` promises "The address of the object, or NULL if
error." The run `pool_grow_zero` shows it in three steps.

The step of `bit_for_each32` and `bit_for_each64` computes `ctz(tmp)` before `tmp` is tested, so
every loop ends with `ctz` of 0, which `bitops.h:108` says is "Not defined if no bit set, so
check for non-zero before calling this." The value is not used, but the call is
undefined behaviour of the builtin. The run `bitops_ctz_zero` shows it for words that are not 0.
The loops themselves are right whatever the value is (`LoopsVisitEachBit`).

Smaller, and without a run of their own: the size `pool_get()` gives `malloc` at `pool.c:104` wraps for a large
`grow` and `size`, which `pool_create()` does not refuse and `pool.h:45-56` sets no limit to (`GrowStrays`);
`__ffs32_popcount(0)` (`bitops.h:84`) is 32 and that of 64 bits is 64, where `bitops.h:153`
says that `ffs` returns 0; `__popcount_emulated` (`bitops.h:90-96`) assigns to its argument, so that it sets a
variable it is given to 0 and does not compile with an expression, which `ffs32` and `ffs64` (`bitops.h:163-164`)
give it in a build without the builtins; `bitops.h:80-81` and `bitops.h:171` use the names `popcount`,
`popcountll` and `__ffs64_ctzll`, which nothing defines; the example of `ffz32` at
`bitops.h:150` gives 2 for 00101010, where the code gives 1; `HASH_BITS` of `hashtable.h:30`
uses a macro `ilog2` that the library does not define; `hash_32` by 0 bits, for a table of one
bucket, shifts a word of 32 bits by 32, which C does not define (nothing in the repository has such
a table); `debug.c:26` says that the log is output when "< level", where `debug()` outputs at the
level too; `debug.h:81` gives an indent as "2 spaces each", where the code writes two less;
`plist.c` and `plist.h` test different macros for the same checks.

## The proofs

Eight modules hold them. None bounds anything: the theorems hold for any number of cells, blocks,
nodes or states, for lists of any length, and for every value the assumptions on the constants
allow. A result is stated for the specification (`Spec => ...`) and rests on an invariant `IInv` that
`Init` implies and every step keeps, one lemma per action.

| module | theorems | assumes |
|---|---|---|
| `RingProofs` | `CircleLoops` | - |
| `ListProofs` | `ListTypeOK`, `ListRepresents`, `ListTests`, `ListDetached` | heads and nodes apart, and no null pointer or poison among them (`CellsAssumption`) |
| `HlistIterProofs` | `HlistRepresents`, `HlistTests`, `HlistLeavesFreeAlone` | the same, and that `LIST_POISON2` is not null |
| | `ListLoopMissNobody`, `ListLoopTurns` | the entries are finitely many, and the head is none of them |
| `PoolProofs` | `PoolTypeOK`, `PoolAccounts`, `PoolListsAreLinked`, `PoolObjectsDoNotOverlap`, `PoolDestroyIsSafe`, `PoolLeavesHeldAlone`, `PoolIsFreeAndUsed` | that the pool grows by at least one object (`GrowsByAtLeastOne`); that blocks and objects lie apart; that there are less than 2^32; that sizes are `size_t` values |
| `PlistProofs` | `PlistLeaders`, `PlistLinked`, `PlistKeepsThePromise`, `PlistRequeueIsDelAndAdd` | heads and nodes apart and finitely many; priorities are integers |
| `HashTableProofs` | `HashTableObjects`, `HashTableMissNobody`, `HashTableVisitOnce` | `HASH_SIZE` is a power of two; the nodes are finitely many, and no integers; the null pointer is neither |
| `SortProofs` | `SortsStably`, `SortPendingRuns`, `SortBalanced`, `SortFirstArgument` | keys are integers, the null pointer is no entry, and a `u8` has at least one value |
| `TodoProofs` | `XxhashStates`, `XxhashDigests` | the count wraps above 30 |
| | `CircBufClaims`, `CircBufIsAQueue` | the size is a power of two above 1 |

**Rings** (`RingProofs`). `Circle(A, h, q)` says that a head `h` and entries `q` are different
cells of `A`, `Ring(m, h, q)` (of `Rings`) that the pointers of `m` run through them. `CircleAdd`
and `CircleDel` say what `list_add`, `list_add_tail` and `__list_del` between any two neighbours
do to a ring; `Thread`, `ThreadAdd` and `ThreadDel` are the same for hash lists, where the neighbour
before is a location. Every module on lists uses them. `CircleLoops` is what a loop visits: `Chase`
is a recursive function, and the proof needs no induction but takes the least position at which
the function and the ring would differ (`Least`). Backwards, a ring is the ring of the
reversed entries (`ReverseRing`). `ThreadVisits` is the same for the loop over a hash list.

**Lists** (`ListProofs`). `IInv == TypeOK /\ Represents`. `Represents` is not inductive without
`TypeOK`: an update at a cell outside the memory would be lost. Together they are: a ring
determines every pointer of its own cells, and nothing is needed of other cells, since no function
reads one that is not on a live list before it writes it. The argument has three layers. Lemmas on
sequences give the entries of `InsertAt`, `RemoveAt` and of concatenated pieces. Lemmas on
one ring say what a call does to the ring it works on. `Good(m, L)` states the invariant for any memory
and any lists, so that a call made of others (`list_move` of `__list_del_entry` and `list_add`) is
proved by composing theirs; the frame (`Spares`, `Apart`) says the other rings are not written.
`ListDetached` is about cells, not lists: the cells on lists are closed under both pointers
(`Closed`), a call starts from cells it is given and from heads, and follows pointers of a
cell it is given only after writing them, so that it stays (`Stays`) within the cells on lists and
its arguments.

**Hash lists** (`HlistIterProofs`). `IInv == TypeOK /\ Represents /\ StatesOK`: beside the lists, a node on
none has the pointers that its last call left, because the next one reads them
(`hlist_del_init` of an unhashed node, `hlist_del` of a fake one). `Tied` and `Untied` say which
stores a call makes around one place; `FreeStep` is the step that leaves the other nodes alone.

**Pool** (`PoolProofs`). `IInv` adds to the accounting that the links are rings (`Linked`), that the counters
count (`Counted`), and where the two loops are (`LoopsOK`): the loop that threads a new block has
threaded objects `0..i-1` of it and no other, and the loop of `pool_destroy` holds the next block, which is
not the one it frees. `TypeOK` alone would hold of counters that wrap; `PoolTypeOK` also states `NoCounterWraps`,
a property of steps: the new value is the sum, not its remainder. It needs a count of everything at once: free
objects, held ones and those not yet threaded make up the blocks, and these are fewer than `TwoTo32`.
For `ObjectsDoNotOverlap`, `Counted` says that each block has room for the objects threaded so far. In a block that is
not being threaded these are all of them, so that its size without the wrap (`Whole`) is a `size_t`; the
call that gets a block for which it is not strays before it returns, and hands nothing out.
As long as objects are inside, their addresses do not wrap either
(`NextOffset`), and an object that is not inside means that the size wrapped (`StraysWrapped`). The hypothesis
`GrowsByAtLeastOne` is the finding of `pool_grow_zero`, without which nothing of this holds.

**Priority lists** (`PlistProofs`). `IInv` says that there are lists `Q` and prio_lists `W` that the two
memories hold: `Queues`, rings with a head, and `Wheels`, rings without one, for which the lemmas are
new; no node is on two, and one that is on none is linked to itself; `Q[h]` is `Sorted`, and `W[h]` has
the first entry of every priority in `Q[h]`, in order (`Leads`). The entries equal in priority to the new
one end at one position of the list, its `Slot`. The search of `plist_add` over the
prio_list finds a `Cut` of the wheel, and `CutIsSlot` that the entry there is at the slot of the list, which is
why skipping the others is right; `RequeueSlot` is the same of the search that starts behind an
entry. `LeadsInsertOld` and `LeadsInsertNew` tell when the new entry must get on the wheel, and
`Leave` that a leader that goes may be replaced by the next entry exactly if that is not on the wheel.
`PlistSpec` counts where an entry goes, and `CountInFront` that this is the slot.

**Loops** (`HashTableProofs`, `HlistIterProofs`). What a loop has seen and must still see are sets, and no step preserves that one is
inside the other at the end: it needs to be known where everything is. In the hash table there are lists
`L`, one to a bucket (`Good`), and the cursor of the loop is at a place `j` of its bucket: what it has seen is
before `j`, in its bucket or one below, and what it must still see from `j` on, or in one above (`Ahead`).
An addition moves `j` up by one, a deletion before it down by one, and a deletion of the next node of a
loop that is not safe moves nothing, since `j` is then the place of the node before. The place is a witness
for each step; no step changes what is on which side of it. A list of `list.h` is gone through in either direction, so its
invariant `IterInv` is about the entries in the order of the loop (`InLoopOrder`): the reversed list
for a loop that goes backwards, for which an insertion behind is an insertion in front (`OrderAdd`,
`OrderRemove`). It has two places, `p` of `pos` and `j` of `tmp`, since bodies may add between the two
what a safe loop does not visit, and may take either away (`AtPlaces`): no entry behind `p` has been seen
unless it came back, and what must still be seen is at `j` or behind (`Ahead`). A loop that is not safe goes on at
`p + 1`, a safe one at `j`, and `list_safe_reset_next` makes `j` be `p + 1`.

**Hash in pieces** (`TodoProofs`). `DigestsAgree` is not inductive: from an arbitrary state whose
digest happens to be right, an update may go wrong. `IInv` says what a state is: its lanes have taken
`k` stripes, its buffer starts with `m` bytes more, and `given` is `k` stripes and `m` bytes
(`Follows`), with the types that let a buffer be updated. `Taken(w, k)` names the lanes with `k`
stripes; `RoundsTake` says that `n` stripes more make it `Taken(w, k + n)`. The three ways through
an update have a lemma each (`BufferedHolds`, `CompletedHolds`, `StreamedHolds`), which
`AbsorbedHolds` puts together. `WrapsCompose` is the count: wrapping at each update is wrapping once, and
`CountFollows` that `large_len` stays right when it does. For the digests, `StripesHeld` identifies `k`
with the quotient that the hash of the whole input computes, and `SameRest` shows that buffer and input
give the same rest.

**Circular buffer** (`TodoProofs`). `ClaimsAreApart` compares what each side counted in the past. `SideOK`
says what is left of that now: a claim starts at the side's own index and is at most the room there is
now, since the other side only ever makes it larger; and a claim up to the end of the buffer does not go
around it. `CopiedOK` says that what the consumer has copied is still in the slots it came from. The
refinement maps the buffer to the slots from `tail` to `head` (`Run`), and what the consumer
took is `got`, from when it stores its index on.

**Sort** (`SortProofs`). None of the four properties is inductive: each looks at the lists between two steps, and
none says what a merge that has begun does. `SortInv` says what holds at each place of the function.
In the loop, `Stack` says that the pending runs are lists `W[1]`, ..., `W[L]`, newest first, chained
through the `prev` of their first entries, each sorted and made of one interval of the
input, and that these intervals are those between the `Edge`s of `count`: what is left of `count` with its
lower bits cleared, less one bit. `Edge` is where the code's reasoning about bits ends and arithmetic begins: `RunSize` and
`NewestRunSize` give the sizes, and `EdgesDescend` that the intervals come one before the other. Adding one to
`count` sets the bit the code found clear and clears those below it (`Counted`), and so
merging two runs and pushing one gives the edges of `count + 1` (`CountedEdges`). During a merge the two runs are split (`Going`): what was taken, sorted and linked up to `tail`, and what is left
of each, `a` before `b` in the input, with everything taken before everything left
(`Merging`). The order is `Order`, a relation on entries that is transitive and
holds from an entry to an equal one behind it, so that it holds sortedness and stability at once; for an erratic
`cmp` it holds of every two entries, and the same proof shows that the list survives. `FinalGoing` and `Resting`
add to this the `prev` pointers that `merge_final` restores. Powers of 2 are a recursive function, known here
only by the number of subsets (`PowerDoubles`), and what a run visits is proved as for rings, by
the least position that differs (`Walks`). `PendingRunsAsDocumented` follows by counting
the `i` with an edge distance of `2^k`, and its first part, that each run is sorted, from the `Stack`.
`FirstInInputIsFirstArgument` is about the callback of `merge_final` too, which is about an entry not yet
linked back (`RestingEntry`). `SortInv` speaks of all sequences of entries, which TLC
cannot enumerate; the four properties it implies are what the run checks.

Model-checked only: the bits and hashes (`EmulationsAgree`, `LoopsVisitEachBit`, `HashesFitTheTable`,
`StringHashesAgree`), which are folds over words and strings; and all liveness (`CallsReturn`, `Returns`,
`LoopsEnd`, `NothingIsStuck`), which the prover does not do.

## What is not modelled

Left out for good: `debug.c` (a level, a stream and two clock values on which only the output
depends; what is wrong with it is listed under Findings), `brlib.h`, `container-of.h`, `rwonce.h`,
`struct-group.h`, `likely.h` and `bug.h` (compile-time macros without state), `stringhash.h`, which
no file includes (it is the string part of `hash.h`, but declares `full_name_hash`, which the library does not
define, where `hash.h` has `hash_string`), what a pool does after it has left a block, the alignment of objects (a
`size` that is no multiple of a link's alignment leaves links unaligned), the versions of `ctz`, `ffs` and
popcount that do not compile (Findings), `pool_stats` and other printing, the names of
pools, `plist_first_entry` and the iteration macros of `plist.h`, which are those of `list.h` (`ListIter`) with
a member name, `hashtest.c`, `packed_struct.h` and `asm/unaligned.h` of `todo/`, which print, declare
and cast, the tests and the Makefile.
