# Formal models of the chunk memory structure (`comm::chk`)

`src/chk` is a C++ library for data that uses no pointers: every reference is a
chunk number and an offset, so that a structure built in a set of 16 KiB chunks
can be compressed, sent or mapped elsewhere as it is. A *chunk index*
(`ChkIndex`) owns the chunks of one structure and is its private allocator;
strings, lists and hash lists are built in the memory it gives out.

This directory holds TLA+ modules that model the library, TLC configurations
that check them on small instances, and proofs for every value of the
constants. `PROJECT.json` lists the runs, the theorems, the source lines behind
every definition, the hazards of the code and the findings.

## 1. Inventory of the system

| Part | Source | State | Operations |
|------|--------|-------|------------|
| Chunk, `ChkMetadata` | `chk_base.{h,cpp}` | header at the start of each chunk: `_capacity` (steps of 1 KiB), `_used`, `_virgin` (units of 8 bytes), `_alloc_capacity` (0 if the chunk is part of another allocation) | `enlarge`, `shrink`, `alloc` from the virgin part, `free` at the virgin mark, `destruct` |
| Pool, `ChkMemMgr` | `chk_mem_mgr.{h,cpp}` | in the first chunk: `_total_used`, `_total_free`, `_total_capacity`, three block sizes, three free lists | `alloc` (take a block, give its end back), `free` (cut a region into blocks), `preset_free_sizes` |
| Chunk index, `ChkIndex` | `chk_base.{h,cpp}` | `_chk_num`, `_chk_addr[_chk_addr_size]`, `_mem_alloc_type`, `_compressed` | `alloc`, `free`, `enlarge`, `shrink`, `chk_enlarge`; life cycle: `compress`, `uncompress`, `split_continuous_chunk`, `destruct`, `swap`, `init_boot`, `boot_addr` |
| Chunk source, `ChkMemalign` | `chk_memalign.{h,cpp}` | vector of free 16 KiB chunks, `_used_chunks`, a mutex | `init`, `alloc` (refills when empty, calls a monitor), `dellocate` |
| Plain allocator, `ChkDefaultMemAlloc` | `chk_memalign.{h,cpp}` | `_alloc_size`, a mutex | `init`, `alloc`, `reallocate`, `dellocate` |
| Lists | `chk_list.h` | nodes linked by `ChkPtr` inside chunks | singly and doubly linked lists, iteration, merge |
| Hash list | `chk_hash_list.h` | a union: one list, or a block of buckets | insert, erase, iterate, `resize_buckets` |
| Strings | `chk_string.h` | up to 7 bytes in place, else a block | `set_data`, `init`, `uninit` |
| Address search | `chk_base.cpp` | none | `chk_addr2chk` scans back for a header |

How they interact: `ChkIndex::alloc` calls `ChkMemMgr::alloc`, then
`ChkMetadata::alloc` on the last chunk, then `chk_enlarge`, which asks the
installed memory functions (`_allocate`, `_dellocate`, `_reallocate`) for a
chunk: plain `posix_memalign`, or `ChkMemalign` once it is initialised. The
first chunk also holds the manager. `alloc`, `free`, `enlarge` and `boot_addr`
uncompress a compressed index first. A chunk index belongs to one thread; the
two memory sources are shared by all threads.

What is hard about it:

* Memory is recycled in two ways, by the virgin mark and by the pool, and cut
  again and again; a mistake shows only after a long sequence of calls.
* Four counters in two structures are kept by hand in six places.
* Chunks move in `enlarge` and `shrink`, and addresses into them go stale.
* Fields of 4, 5, 7, 9, 11 and 12 bits hold sizes, offsets and numbers.
* An index changes its physical layout (separate chunks, one continuous
  allocation, a compressed image), and which layout it has is derived from
  counters.
* The memory sources run in several threads, with a callback under a mutex.

Nothing is persisted by the library: there is no crash recovery to model (the
design document mentions a log, the code has none).

What makes each part correct: *pool and index*: no unit of memory has two
owners, blocks stay inside their chunk, the counters count what is there,
nothing moves under a caller, sizes fit their fields; *pool loop*: it ends, and
yields the closed form used here; *life cycle*: contents survive compress and
uncompress, every allocation is released once, in the way it was made; *memory
sources*: no chunk has two owners, the counters agree with the chunks, no thread
waits for ever; *lists, hash list, strings*: they refine sequences, sets and
values and return every block.

## 2. Plan

In this order, the most important behaviour first:

1. `ChkBase`, `ChkMemMgr`, `ChkHeap`, `BlockHeap`, `ChkAccounts`,
   `ChkHeapLoose` with their runs and `ChkHeapProofs`. **Done**.
2. `ChkMemMgrFree`, `ChkMemalign` with `ChunkOwners`, and
   `ChkDefaultMemAlloc` with their runs. **Done**.
3. `ChkIndexLife` with `ChunkContents` and its runs, `ChkMemalign::init` and
   `chk_addr2chk` included. **Done**. Left: `swap`.
4. `ChkList` with `NodeLists`; `ChkStr` and `ChkHashSList` over `IndexSpace`,
   composed in `StrNodes`. **Done**.
5. Proofs about `ChkMemalign`. **Done** (`ChkMemalignProofs`).
6. Proofs about `ChkList`: `WellLinked`, the refinement of `NodeLists`, the loops
   and the merge. **Done** (`ChkListProofs`).
7. Proofs about `ChkDefaultMemAlloc`: `FreedAsHeld`. **Done**
   (`ChkDefaultMemAllocProofs`).
8. Proofs about the counters of the heap (`ChkAccountsProofs`), about
   `StrNodes` (`StrNodesProofs`), about the loop of `ChkMemMgr::free`
   (`ChkMemMgrFreeProofs`), and of `UsedMem` and `ModeStays`. **Done**.
9. Proofs about `ChkIndexLife`: all its invariants and the refinement of
   `ChunkContents`, by one invariant that says which of its layouts an index has.
   **Done** (`ChkIndexLifeProofs`).

With these every invariant and every action property of the runs that pass has a
theorem. What is left to TLC is at the end of section 5.

## 3. What is modelled

**`ChkBase`** is the vocabulary: units of 8 bytes, capacities in steps, the
header of a chunk as a record, and what `ChkMetadata`'s methods do to it. Its
constants are the layout of the library (`MetaUnits` is the size of the header,
`MgrUnits` that of the manager); `LayoutAssumption` says that the headers and
one block of the largest size fit in a chunk of the last level, which the code
takes for granted (`assert(!chk_ptr.is_null())`, `chk_base.cpp:297`).

**`ChkMemMgr`** is the pool. A free list, in the code a stack threaded through
the free memory, is the sequence of its blocks, top first. `PoolFree` gives the
result of the cutting loop in closed form, which is right for sizes in
increasing order; `PoolAlloc` takes the top of the first list that can serve and
gives the end back.

**`ChkHeap`** is the index as an allocator. Operators map an index to the index an
operation leaves (`AppendChk`, `Collect`, `FromPool`, `Freed`, ...), and the actions
compose them as the handlers call one another: `AllocFromPool`, `AllocFromVirgin`,
`AllocFromNewChk` are the three ways through `alloc`, `Free`, `Enlarge` and `Shrink`
are the public operations. The variables `live` and `handed`, which the program does
not have, are the set of blocks callers hold, with the bytes they asked for, and the
number of blocks handed out and not freed, without which handing out the same block
twice would go unseen. A failing `alloc` (too large, the last chunk must be enlarged
first, too many chunks, no memory) changes nothing and is a stuttering step. Callers
free by the `ChkPtr` they were given, as the tests do with `free(ptr)`.

**`BlockHeap`** is the promise to the callers, with `live` and `handed` alone: a
block has the requested size, lies in one chunk above the headers, and shares no
unit with another held block. `ChkHeap` implements it (`KeepsPromise`).

**`ChkAccounts`** defines what the counters should count, as sets of cells (a
cell is a unit of a chunk).

**`ChkHeapLoose`** adds a use the interface invites and the code does not
carry: `free` with the size that was asked for.

**`ChkMemMgrFree`** is the loop behind `PoolFree`, one turn per step, with the sizes
as `preset_free_sizes` and the constructor of the manager compute them and with the
fields' widths. Its calls are a sequence of regions of different chunks on one
manager, so that the second finds lists that are not empty. A manager whose smallest
size is 0 fails the assertion in `free` (`Fail`). `FreeSize` is faithful where the
code wraps: the presets that `preset_free_sizes` admits at its limits (127, 255 and
1023 bytes) are rounded up to 16, 32 and 128 units, one more than the fields hold,
and become 0. A class of size 0 always fits, and a turn that cuts it (`Cut`) takes
nothing: it pushes the same place on the same list, which makes that node its own
next (`PushedOn`), and so leaves the state as it is. What is freed lies within a chunk
(`FreeAssumption`): the index frees blocks and rests of its own chunks.

**`ChkMemalign`** is the shared source of chunks, with threads that call `alloc`
and `dellocate` through `_allocate_func` and `_dellocate_func`. Each access to
`_free_chunks` and `_used_chunks` is a step, so that the mutex is what keeps the
threads apart; the clearing of a chunk happens after the unlock, as in the code.
The monitor is a step that returns. **`ChunkOwners`** is the promise: a thread
gets a chunk nobody has. A chunk changes hands at `pop_back` and `push_back`.

**`ChkDefaultMemAlloc`** is the counting allocator with the calls `ChkIndex`
makes of it: a thread allocates the most an image can need, reallocates it to
its length, frees the first block if that fails, and later frees the image. The
counter, a `size_t`, is read and written in separate steps modulo `WordSize`.
`init` may come again whenever no thread is in a call, as in the `SetUp` of the
tests. `block` is what the system has given a thread, `short` whether `realloc`
ever failed; the program has neither.

**`ChkIndexLife`** is the other half of the index: where its chunks live. Its state
is the index with, for each chunk, the header and the piece of memory it lies in;
the pieces of memory that are allocated, each with the function it came from; and,
when the index is compressed, the headers inside the image. The operators map an
index to an index (`Unpacked`, `SplitUp`, `Destructed`, `Grown`, `ShrunkIndex`, ...)
and the actions compose them as the handlers call one another: `alloc`, `free`,
`enlarge` and `boot_addr` all begin with `Uncompressed`. `split` is
`UNCOMPRESS_SPLIT`: with it the chunks come from `ChkMemalign`, which reallocates in
place, and `uncompress` goes through raw memory. `Given` notes (`misused`) when
memory is given back that is not the start of a piece, has another kind, or another
size. `intact` says of a chunk whether every copy so far took all that lies below
its mark. `stage` follows an index through `destruct` and `~ChkIndex` to a new one.
Of the blocks only those at a virgin mark show: the pool is the business of
`ChkHeap`. `InitMemalign` is the switch of the memory functions by
`ChkMemalign::init`, before an index has chunks (an image it has is not memory of
theirs). `FoundFrom` is the scan of `chk_addr2chk` from an address in a step of a
chunk. A `compress` that fails or does not reach the target percentage gives back
what it took and changes nothing, and so does an `uncompress` that fails; the snappy
library is taken as lossless. A `split_continuous_chunk` that gets no memory ends
the program (`assert(new_chk)`) and is left out. **`ChunkContents`** is the promise:
only requests change what the chunks hold, and it goes away only when the index
does.

In `Spec` callers shrink only a chunk that has memory of its own, which `enlarge`
ensures, and delete an index only when it is not compressed. `LooseSpec` drops
both conditions, which the code does not state.

**`ChkList`** is the doubly linked list, link by link. The operators `Inserted`,
`Deleted` and `Spliced` map the links (`next` and `prev` of every head and node)
to what the assignments of the function leave, in the cases where the items
coincide too. A `for_each` loop is a step per turn with `walk` as its variables,
and its body may be any of the other operations; `Held` is the node the loop goes
on from, which a body must not delete, and is `tmp` in the safe loops and `pos` in
the others. `chk_list_merge` is a step per turn with its two iterators. `due` and
`seen`, which the program does not have, say what a loop must meet and has met.
`Follow` is what a loop of the caller's would meet if nothing changed; it stops
after as many turns as there are nodes (`FiniteAssumption`), which in a ring with
one head is never too early.
**`NodeLists`** is the promise: every list is a sequence, a node is on one list at
most, and a turn of a merge is a removal or a move.

**`IndexSpace`** is what the structures need of an index: blocks with their size
and the text in them, `alloc` of a block that nobody has, as `BlockHeap` promises,
or of nothing, and `free`. It notes (`misused`) a block freed that is not
allocated and a text written past the end of its block. **`ChkStr`** is the
string, in place or in a block, with the three ways through `set_data`; a text is
a model value with a length. **`ChkHashSList`** is the table in its two forms,
told apart as in the code by the `_size` bits of its head (`SizeBits`,
`bucket_size`), with `resize_buckets` in both directions: the nodes are taken list
by list (`InTurn`) and pushed one by one to their new lists (`Pushed`), which turns
their order round. `Matching` is the set of nodes `find` could stop at. The lists are
sequences; `tail` keeps the `_size` bits of the null pointer at the end of the
single list, which travel with it. **`StrNodes`** composes the three as
`chk_testor.h` does: nodes with a string, in a table that goes by the hash of
their texts, all in one index whose memory may run out in any call. A node's text
changes only while it is not in the table, which is how the tests use it.
`StackBits` is what uninitialised stack memory can hold where `resize_buckets`
declares `single_list`.

What is abstracted: the bytes in blocks; addresses (that a chunk moves shows as a
change of its capacity, the only time `_reallocate` is called); `_chk_addr` and its
growth (in `ChkIndexLife` instead); `bzero`, logging; the width of the fields
(`FitsFields`, which `FieldsSuffice` proves for the sizes of the code, says that nothing
is lost).

## 4. What the runs show

| Run | Instance | Shows |
|-----|----------|-------|
| `heap_small` | chunks of up to 8 units, 2 chunks, pool sizes 2, 3, 4, requests of 1 and 5 units | every interleaving of the operations keeps `TypeOK`, `InVirgin`, `Separation`, `Balanced`, `UsedIsLive`, `PoolWithinFree`, `ChunksStay`, `FreeUndoesAlloc`, and implements `BlockHeap` |
| `heap_leak` | requests of 12 bytes, freed by size | violation of `UsedIsLive`: a unit stays in use that nobody holds |
| `pool_loop` | the real layout and field widths, presets of the tests, smallest, largest, rounded, unordered, absent and such that a size becomes 0, 13 regions, 2 calls | the loop ends when no size is 0 (`Ends`), its result is the closed form (`ClosedForm`), less than a smallest block is dropped (`RestIsSmall`), the offset keeps its width (`TypeOK`) |
| `pool_wrap` | as above, presets 64, 128, 1024 and 64, 256, 512, which have a maximum of the comment `chk_mem_mgr.h:24-26` | violation of `AlwaysEnds`: the third or second size becomes 0 and the loop goes on for ever |
| `index_life` | chunks of 2 to 6 units in steps of 2, 3 chunks, with and without `UNCOMPRESS_SPLIT` | contents survive every change of layout (`KeepsContents`), memory is given back once and whole (`GivenBackWhole`) and is never lost (`Accounted`), `_chk_addr` has room (`AddrFits`), the guess of the layout is right (`LayoutKnown`), the capacity is that of the headers found (`TotalIsSum`), `chk_addr2chk` finds the chunk of every address (`AddrFindsChk`) |
| `index_leak` | as above, `LooseSpec` | violation of `Accounted`: `destruct` of a compressed index frees nothing |
| `index_shrink` | as above, `LooseSpec` | violation of `GivenBackWhole`: `shrink` of a chunk inside the memory of another |
| `memalign` | 2 threads, 8 chunks of which 5 are in use for good, at most 5 more | no chunk has two owners or gets lost (`OneOwner`, `Conserved`, `KeepsOwners`), the monitor's numbers are exact (`MonitorExact`), memory is asked for only when all is used (`LazyRefill`), the mutex is released (`LockReleased`), no deadlock |
| `compressed_mem` | 2 threads, images of 5 and 7 bytes, a counter of 64 values | the counter is exact while `realloc` finds memory (`UsedMem`), blocks are given back with their size (`FreedAsHeld`), the realloc mode stays while blocks are out (`ModeStays`) |
| `lists` | 2 lists, 4 nodes with keys 1, 2, 2, 3 | next and prev agree (`WellLinked`), the lists are the sequences of `NodeLists` (`KeepsPromise`), a loop meets every node that stays once, whatever its body does (`WalkComplete`), a merge yields the sorted union of the keys (`MergeResult`) and ends (`MergeEnds`) |
| `str_nodes` | 3 nodes, texts of 0, 7, 8 and 16 bytes, 5 blocks, resizes to 1, 2 and 3 buckets | strings keep their texts (`KeepsText`), the table has exactly its members where `find` looks (`Found`), every block has one owner, is large enough and is freed once (`OwnedOnce`) |
| `hash_single` | as above, the stack holds 0 or 1 | violation of `SingleIsList`: after a resize to one list the table takes the list for buckets that do not exist |

The bounds. Two chunks are enough for everything that distinguishes chunks: the
first has the manager, the last is the one that is cut and resized, and the
first becomes an older chunk when the second is appended; the limit on the
number of chunks is also reached. Eight units leave, in a chunk, blocks at the
mark and below it, pool blocks of each class, splits with and without a rest,
and a rest that is too small to pool. Requests of 1 and 5 units are the smallest
and the largest (`MaxContinus`); 5 units are larger than every pool class, so
that one request is never served by the pool. No run of the index needs
`CHECK_DEADLOCK FALSE` but those of `ChkHeapLoose` and `LooseSpec`, where the program really
ends when an assertion fails or memory is misused.

In `index_life` three chunks are the least with a first, a middle and a last one,
and the least with which two chunks in one piece of memory can be followed by one
of their own. Levels of 1 and 3 steps let `shrink` take both of its ways, in
place and into new memory, and let an image end within each step of a chunk.
Five pieces of memory are as many as an operation ever needs at once.

In `pool_loop` the regions lie in the middle and at the end of a chunk, with
sizes below, at and above every block size up to the largest a `ChkPtr` can
have (511 units); two calls are enough because a call only pushes on the lists
it finds. The presets include the largest that keep their size (120, 248 and 1016),
the smallest that do not in the third place (1017), a second one that does not (250)
and a third of 0: for these three `Ends` says nothing, and the other properties speak
of the calls that return. The counterexample of `pool_wrap` ends in one state for
ever, with the loop not left: a turn that takes nothing changes nothing, so that weak
fairness of the turns, which holds, brings no end. Both say `CHECK_DEADLOCK FALSE`
because the program stops calling, or ends at the assertion.

In `memalign` the threads take the 3 chunks that are left and need a refill of 2 for the fourth and fifth; with `Kept` chunks in use for
good the refill, which the code makes only after at least 8 chunks, comes within
reach. Two threads are the least that race and wait; a third adds waiting only.
In `compressed_mem` the counter never reaches 64 unless it wraps below zero.

In `lists` four nodes are enough for a node with neighbours on both sides, for
equal keys in one list and across the two, and for a splice of several nodes to
several; a walk then still has nodes before and behind it to lose. In `str_nodes`
the texts lie at the limits of the representation: 7 bytes are the most in place,
8 bytes and their 0 need 16, 16 need 24, so that a block is used again, is too
small by one byte, or is given up for none. Five blocks are three strings, the old
buckets and the new ones; any call may be refused memory before that. A resize to 3 is
rounded to 4 buckets, so 1, 2 and 4 buckets come about, and two of the hashes
share a bucket in some of them. The nodes are interchangeable (symmetry).

Disagreements with the code's comments that need no interleaving to see, and so no
run: `ChkMetadata::enlarge` reads its null argument for an index of type `NEED`
(`chk_base.cpp:92`, against the comment `chk_base.h:116`); and
`ChkDefaultMemAlloc::reallocate` counts a `realloc` that failed
(`chk_memalign.cpp:210`), which is why `UsedMem` speaks of the time before one.

Fairness. An index acts only when its caller calls, so `ChkHeap` has none.
`ChkMemMgrFree` assumes that a call is not stopped in the middle (weak fairness of
its turns and its return). `ChkMemalign` assumes that a thread that has the mutex
goes on (weak fairness of its steps inside): nothing there blocks, provided the
monitor returns. Nothing is assumed about who gets the mutex next, as POSIX promises
nothing; hence no property says that a given thread is served. `ChkList` assumes
that a merge goes on once it is called (weak fairness of its turns and of its end):
nothing in it waits, and `cmp_func` only compares. Loops have no fairness, since
their bodies are the caller's.

## 5. What is proved

The theorems hold for every value of the constants that the named assumptions
allow; each of those is evaluated by TLC in a run.

**The index.** `ChkHeapProofs` proves, for every layout, every increasing triple of
pool sizes, either allocation type and every set of requests (the assumptions are
`LayoutAssumption` and `HeapAssumption`, both evaluated by TLC in the runs):

* `Typed`: `Spec => []TypeOK`
* `BlocksInside`: `Spec => []InVirgin`
* `BlocksApart`: `Spec => []Separation`
* `NoChunkMoves`: `Spec => ChunksStay`
* `Implements`: `Spec => KeepsPromise`, the refinement of `BlockHeap`

The argument. None of these is inductive alone: that a block from the virgin part
is apart from all others follows from `InVirgin`, that lowering the mark cuts
nothing off follows from `Separation`, and that a split pool block stays apart
needs `Separation` of the lists before. The invariant `IInv` is the conjunction
`Good(index, live)` (types, marks between headers and capacity, blocks inside,
everything apart, held sizes as requested) and the fact that an index of type
`NEED` never gets a chunk. `Good` is a predicate of an index and a set of blocks
rather than of the variables, so that it can be carried through the operators an
action is composed of: each operator has a lemma (`GoodAppended`,
`GoodCollected`, `GoodFromVirgin`, `GoodFromPool`, `GoodFreed`, `GoodRecapped`),
each action a step lemma (`AllocStep`, `FreeStep`, `EnlargeStep`, `ShrinkStep`).
Below them lie the lemmas on the pool: `LeftOver` and `CarvedBlock` say where the
cut blocks are, `CarvedApart`, `PoolFreed` and `PoolServed` that they are apart
from each other and from the rest.

**The chunk source.** `ChkMemalignProofs` proves, for any set of threads, any
number of configured chunks from 8 up, any number of them kept by others and any
limit on what a thread holds (`MemalignAssumption`):

* `OwnedByOne`: `Spec => []OneOwner`
* `NothingLost`: `Spec => []Conserved`
* `MonitorSeesAll`: `Spec => []MonitorExact`
* `Typed`: `Spec => []TypeOK`
* `RefillsLate`: `Spec => LazyRefill`
* `Implements`: `Spec => KeepsOwners`, the refinement of `ChunkOwners`

The argument. That a chunk has one owner rests on the mutex, and the mutex on the
program counters: `Mutex` says that at most the thread that holds the lock is
inside. `Ready` says what that thread knows at each of its steps (there is a chunk
to pop after a refill, the chunk it carries is its own), and `Balance` how far the
counters run ahead of the lists there: `Ahead` is what the thread has done but not
yet counted. With `Covered` (every chunk made is free, held or on its way) these
are inductive, and `OneOwner`, `Conserved` and `MonitorExact` follow at every
step. That `_used_chunks` does not fall below 0 needs that `_free_chunks` has no
chunk twice, hence no more of them than were made.

**The lists.** `ChkListProofs` proves, for any lists, nodes and keys
(`ListAssumption`, `FiniteAssumption`):

* `Linked`: `Spec => []WellLinked`
* `PromiseKept`: `Spec => KeepsPromise`, the lists implement `NodeLists`
* `WalksAreComplete`: `Spec => WalkComplete`
* `MergesRight`: `Spec => MergeResult`

The argument for the first. That both directions agree is not inductive: to take a
node out, its neighbours must be other items than itself; to splice, the last node
of the one list must not be on the other. `Placed(links, home, rank)` says where
each item is: `home` is the list it is on, the same for neighbours, and `rank` grows
along `next` until the head comes, so that each ring has one head and no node is its
own neighbour. The invariant is that there are such a `home` and `rank`, and that
the item a loop goes on from, and both iterators of a merge, are at home on their
lists (`OnTrack`). `InsertedPlaced`, `DeletedPlaced` and `SplicedPlaced` say how the
three ways of changing links change `home` and `rank`; every action is one of them
or a composition.

The other three need to know what is on a list, in which order, and that is a second
invariant on top of this one, `Sequences(Now)` (`HeldSequences`), where `Now` are the
sequences that `Follow` computes. It has three parts.

* `Holds(links, q)`: no node is in the sequences `q` twice, `next` and `prev` go
  along them from the head to the head (`Spot(l, s, k)` is node `k`, and the head at
  0 and past the end), and a node outside them is not linked. `HoldsInserted`,
  `HoldsDeleted` and `HoldsSpliced` say what the functions do to the sequences, and
  `FollowIs` that a loop along links that hold a sequence meets just that sequence:
  so `Now` is what `Holds` says (`Chains`), and each step can be shown for a
  sequence that is at hand rather than for what a recursion yields.
* `OnWalk`: a loop has `k` nodes of its list behind it. Those it has met, followed by
  those ahead, have no node twice and begin with all that are due. It stays so when a
  body adds a node at either end, deletes one behind or ahead (`MeetsFront`,
  `MeetsBack`, `MeetsDeleted`); at the end nothing is ahead, which is `WalkComplete`.
  That callers do not add a node again that the loop has met is part of `MayAdd`.
* `OnMerge`: both lists are sorted, `iter_rh` is at the first node that is left in
  `rh`, the node before `iter_lf` is no larger; both together have the keys they
  had before the merge, and every node of `lf` is still there, in its order.

**The counters of the index.** `ChkAccountsProofs` proves, under the assumptions of
`ChkHeapProofs`:

* `CountersBalance`: `Spec => []Balanced`
* `NothingElseUsed`: `Spec => []UsedIsLive`
* `PoolIsCounted`: `Spec => []PoolWithinFree`
* `NoneBelowZero`: no counter is ever below 0
* `FieldsSuffice`: `Spec => []FitsFields`, for steps of 128 units, chunks of at
  most 16 steps, blocks of at most 511 units and at most 2047 chunks, which are
  the numbers of the code
* `FreeUndoes`: `Spec => FreeUndoesAlloc`

The argument. A counter is the cardinality of a set of cells, and an operation adds
or takes away a set of known size: the cells of a block (`BlockSize`), of a column
that grows (`ColumnRaised`), of the blocks cut for the pool. That the sets to add
are new, and those to take away are there, is `Separation` and `InVirgin`, so the
proof goes with `Good` of `ChkHeapProofs`: `Books(x, held)` says what the fields
of an index have to say of its cells, and each operator has a lemma that keeps it
(`BooksAppended`, ...). `_used` is kept chunk by chunk, since the free of a block
lowers that of its own chunk only. `FreeUndoes` compares two indices field by field
along alloc and free.

**The loop of the pool.** `ChkMemMgrFreeProofs` proves, for any presets, any regions
of a chunk and any number of calls (`LayoutAssumption`, `FreeAssumption`):

* `Typed`: `Spec => []TypeOK`
* `RestSmall`: `Spec => []RestIsSmall`, whatever the order of the sizes
* `LoopIsClosedForm`: `Spec => []ClosedForm`

The last one is what entitles the models of the index to use `PoolFree` for the
loop. The argument. `AddsUp` (what is pooled and what is left make up the region),
`InRegion` (`_offset` is the start plus what is gone, modulo its width) and `Fresh`
(what lies on top of a list of blocks that are not empty is of an earlier call or
before `_offset`) are inductive together: by `Fresh` a block that is not empty is
never pushed on itself, so that the lists grow by one block a turn, and an empty one
adds nothing to the sum. For sizes in order `Shape(a, b, c)` says that the call has cut a blocks
of the largest class, then b of the middle one, then c of the smallest, and that
what was left when it turned to a smaller class was less than a block of the larger
one: a turn that cuts the larger class again would contradict it. At the end a, b
and c are the quotients of the closed form, because division has one result
(`Divided`). That the offset does not wrap before the last turn is the assumption
that a region lies in a chunk.

**Strings and the table.** `StrNodesProofs` proves, for any nodes, texts, hashes,
blocks and table sizes (`StrNodesAssumption`):

* `TextsStay`: `Spec => []KeepsText`, whatever the stack holds
* `OneOwner`: `Spec => []OwnedOnce`, if the stack holds no stray bits
  (`StackBits \subseteq {0}`)
* `SingleStays`: `Spec => []SingleIsList`, under the same condition
* `MembersFound`: `Spec => []Found`, under the same condition

The condition is what the run `hash_single` is about: with stray bits `SingleIsList`
is violated. So the uninitialised pointer is the only way to that violation.
The argument. Every action is an exchange of blocks (`Exchange`): an owner gives
back some of its own and gets some that nobody has, and no other block changes.
`Keeps` says that a string's block is allocated, holds its text and has room for it,
`Owned` and `Table` whose the blocks are; that these are disjoint and make up what
is allocated is inductive together. `Careful` (the bits at the end of the single
list are 0, and nothing was misused) is the part that needs the condition.
`Found` needs a third part, `Filing`: a member is in the list its hash names, once,
and in no other, and nothing else is in a list. `Filed` says so of any lists and any
number of them, so that `FiledPushed` can carry it through the pushes of a resize, one
node at a time, and `FiledMoved` through a resize as a whole: what is pushed are all
nodes of all old lists (`Flattened`).

**The accounting allocator.** `ChkDefaultMemAllocProofs` proves, for any threads,
any images and any width of the counter (`DefaultAssumption`):

* `Typed`: `Spec => []TypeOK`
* `Exclusive`: at most one thread is between lock and unlock, although `init`
  makes the mutex anew
* `SizesAgree`: `Spec => []FreedAsHeld`
* `CounterExact`: `Spec => []UsedMem`
* `ModeIsKept`: `Spec => ModeStays`

The last two assume that the counter can count the memory all threads have at once
(`MemoryAssumption`), as a `size_t` can: the blocks lie in one address space.

The argument. `Agrees(t)` says what block a thread has, by its image and its call:
without a call the image's length, before a call has touched the memory the
`org_size` given to it, and after it the size the call returned, which for a
`realloc` that failed is the old one. Only the thread itself changes any of these
(`OthersAgree`), so the invariant needs nothing of the counter.

The counter is exact because the thread with the mutex knows by how much it is
ahead of the memory (`Ahead`: the memory changes first, then the new size is added,
then the old one taken away), modulo the width of the counter (`Wraps`); when the
mutex is free nobody is ahead. The sum over all threads is a fold of the library, a
recursive function over sets. `SumIsArea` shows that it is the number of points
below the graph of `block`: that number has the recursive property (`AreaSplit`),
and no other function has, since a smallest set on which two of them differ would
be empty (`Smallest`). So the sum changes with one block as it should
(`BytesChange`).

**Where the chunks live.** `ChkIndexLifeProofs` proves, for any number of chunks,
any sizes of them and both ways of `uncompress` (`LayoutAssumption`):

* `Inductive`: `Spec => []LayoutInv`, the invariant the others rest on
* `TypesHold`: `Spec => []TypeOK`
* `WholeMemory`: `Spec => []GivenBackWhole`
* `NoLeak`: `Spec => []Accounted`
* `RoomForAll`: `Spec => []AddrFits`
* `LayoutTold`: `Spec => []LayoutKnown`
* `TotalKept`: `Spec => []TotalIsSum`
* `SearchFinds`: `Spec => []AddrFindsChk`
* `ContentsKept`: `Spec => KeepsContents`, the refinement of `ChunkContents`

They are about `Spec`, in which callers keep the two conditions of section 3; the
runs `index_leak` and `index_shrink` show that without them `Accounted` and
`GivenBackWhole` are violated.

The argument. That memory is given back whole needs to know who owns it, that the
owner is known needs `_total_capacity` to be the sum, since the guess of the layout
compares with it, and that the sum is right after an image was unwrapped needs its
headers to be found where they were written. `LayoutInv` says all of this at once: an index
is `Open` or `Packed`. In an open one the first `p` chunks lie one behind the
other in one piece of memory, owned by the first, and every other in a piece of its
own (`Laid(x, p)`): `p = 1` is the layout that `enlarge` builds, `p = chk_num` the
one after an `uncompress`, and the ones between come from appending to that.
`LayoutTold` follows: `_alloc_capacity` of the first chunk is the sum of the first
`p` capacities, none of which is 0, so it is `_total_capacity` only if `p` is
`chk_num`. A packed one has an
image that ends at the mark of its last chunk, so that the walk along it finds each
header (`WalkedIs`). The invariant is on an index rather than on the variables, and
each operator of `ChkIndexLife` has a lemma: `GrownOpen`, `ShrunkOpen`,
`AppendedOpen`, `SplitOpen`, `UnwrappedJoined`, `UncompressedOpen`, `DestructedIs`.
The same lemmas say what becomes of the marks, which gives the refinement. Sums are
counted as in the proof about the allocator; the loop of `destruct`, a fold as well,
gives back the memory of all chunks in whatever order (`DestructIsWithout`).
`SearchFinds` uses that chunks in the same memory do not overlap (`ChksApart`), so
that the first header the scan meets is that of the chunk the address is in.

Only model-checked: `Ends` of `ChkMemMgrFree`, for sizes that are not 0, and the liveness properties of
`ChkMemalign` and `ChkList` (`MergeEnds`), as liveness under fairness is out of the
prover's reach; and the runs that expect a violation, which are counterexamples.
Recursion (`Follow`, `Pushed`, folds) is proved about by induction over a set of
numbers, one definition at a time (`Least`, `Induction`, `Recurrence`), because the
library's induction theorems cannot be instantiated.

## 6. Not modelled

`swap` exchanges two indices bit by bit; every model has one index, and nothing in
the code calls it. Memory freed at the mark of a chunk that is not the last is
never allocated again (`alloc` only looks at the last one); no property says
otherwise. Of `ChkMemalign` the models leave out an `init` that races with callers
(the tests call it first), chunks allocated before `init` and freed after it, a
monitor that calls back, and the end of the program when the system has no memory
for a refill (`assert(init_mem)`). Of `ChkStr` a text that is part of the string
it is set to. That data in a chunk never looks like a header is taken for granted
in `AddrFindsChk`: the code goes by two magic numbers.

Not planned: logging (`utils/logger.h`) and the helper macros
(`utils/shortcuts_util.h`), which keep no state of the structure; the snappy
library, which appears only as a lossless conversion that may fail;
`yf_coroutine_testor.cpp`, the tests of a coroutine library that is not in this
repository; the build files.
