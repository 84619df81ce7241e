------------------------------ MODULE ChkHeap ------------------------------
(***************************************************************************)
(* A chunk index as an allocator: ChkIndex::alloc, free, enlarge, shrink   *)
(* and the private chk_enlarge, on chunks that live in memory of their own *)
(* (the index is never compressed), for callers that free a block by the   *)
(* pointer alloc gave them.                                                *)
(*                                                                         *)
(* The operators map an index to the index an operation leaves behind, so  *)
(* that the handlers of the code, which call one another, are compositions *)
(* of them.  A block request is served from the pool, else from the virgin *)
(* part of the last chunk, else from a chunk that is appended; the rest of *)
(* the previous last chunk then goes to the pool.                          *)
(*                                                                         *)
(* live is what the callers hold: for every ChkPtr that alloc returned and *)
(* that is not freed, the block, its _size and the bytes that were asked   *)
(* for; handed counts these calls, so that a block handed out twice shows. *)
(* The program has no such variables.                                      *)
(***************************************************************************)
EXTENDS ChkMemMgr

CONSTANTS
  FreeSizes,   \* <<_free_0, _free_1, _free_2>>, in units
  AllocType,   \* _mem_alloc_type, "MAX" or "NEED"
  Requests     \* the sizes in bytes the callers ask for

ASSUME HeapAssumption ==
  /\ Increasing(FreeSizes)
  /\ AllocType \in {"MAX", "NEED"}
  /\ Requests \subseteq Nat \ {0}

VARIABLES
  index,   \* the ChkIndex with its chunk headers and its ChkMemMgr
  live,    \* the blocks the callers hold
  handed   \* how many blocks were handed out and not freed

vars == <<index, live, handed>>

(* A constructed ChkIndex: no chunk, hence no manager. *)
EmptyIndex ==
  [chk_num |-> 0, chk |-> [n \in ChkNos |-> NoChk],
   total_used |-> 0, total_free |-> 0, total_capacity |-> 0,
   free_list |-> EmptyLists]

LastNo(x) == x.chk_num - 1
LastChk(x) == x.chk[LastNo(x)]

---------------------------------------------------------------------------
(* The capacity ChkMetadata::enlarge gives a chunk: the last level, or in  *)
(* NEED mode the first level above the present capacity.                   *)
EnlargeLevel(capacity) ==
  IF AllocType = "MAX" THEN MaxCapacity
  ELSE CHOOSE c \in MemSizes :
         c > capacity /\ \A d \in MemSizes : d > capacity => c <= d

(* chk_enlarge, first half: the last chunk grows in place. *)
GrowLast(x) ==
  LET level == EnlargeLevel(LastChk(x).capacity)
  IN  [x EXCEPT !.chk[LastNo(x)] = Enlarged(@, level),
                !.total_capacity = @ + (level - LastChk(x).capacity)]

(* chk_enlarge, second half: a chunk is appended.  The first one also      *)
(* holds the manager.                                                      *)
AppendChk(x) ==
  LET fresh == FreshChk(x.chk_num, MaxCapacity)
  IN  [x EXCEPT !.chk_num = @ + 1,
                !.chk[x.chk_num] = fresh,
                !.total_capacity = @ + MaxCapacity,
                !.total_used = @ + fresh.used]

---------------------------------------------------------------------------
(* The virgin block of the given size in chunk n, and taking it. *)
VirginBlock(x, n) == [no |-> n, off |-> x.chk[n].virgin]
TakeVirgin(x, n, size) == [x EXCEPT !.chk[n].virgin = @ + size]

(* The units of chunk n above its virgin mark. *)
Rest(x, n) == Units(x.chk[n].capacity) - x.chk[n].virgin

(* The previous last chunk n gives the rest of its memory to the pool.     *)
(* A mutant does not count the rest.                                       *)
BugUncounted(x, n) ==
  IF Rest(x, n) = 0 THEN x
  ELSE [TakeVirgin(x, n, Rest(x, n)) EXCEPT
         !.free_list = PoolFree(FreeSizes, @, VirginBlock(x, n), Rest(x, n))]

Collect(x, n) ==
  IF Rest(x, n) = 0 THEN x
  ELSE [TakeVirgin(x, n, Rest(x, n)) EXCEPT
         !.free_list = PoolFree(FreeSizes, @, VirginBlock(x, n), Rest(x, n)),
         !.total_free = @ + Rest(x, n)]

(* What alloc makes of an index whose last chunk is too full. *)
Extended(x) ==
  IF CanEnlarge(LastChk(x)) THEN GrowLast(x)
  ELSE Collect(AppendChk(x), LastNo(x))

(* The accounting alloc ends with, for a block of chunk n. *)
CountUsed(x, n, size) ==
  [x EXCEPT !.chk[n].used = @ + size, !.total_used = @ + size]

(* The first chunk is made on demand. *)
Booted(x) == IF x.chk_num = 0 THEN AppendChk(x) ELSE x

(* The two ways alloc serves a request of size units from a booted index.  *)
(* The pool gives the unused end of the block it took back to itself.  A   *)
(* mutant takes the whole block off the free count.                        *)
BugFromPool(x, size) ==
  LET b == PoolTaken(FreeSizes, x.free_list, size)
      whole == FreeSizes[Served(FreeSizes, x.free_list, size)]
      y == [x EXCEPT !.free_list = PoolAlloc(FreeSizes, @, size),
                     !.total_free = @ - whole]
  IN  CountUsed(y, b.no, size)

FromPool(x, size) ==
  LET b == PoolTaken(FreeSizes, x.free_list, size)
      y == [x EXCEPT !.free_list = PoolAlloc(FreeSizes, @, size),
                     !.total_free = @ - size]
  IN  CountUsed(y, b.no, size)

FromVirgin(x, size) ==
  CountUsed(TakeVirgin(x, LastNo(x), size), LastNo(x), size)

(* When alloc refuses and when the pool can serve.  In MAX mode a last     *)
(* chunk that could still grow refuses every request: growing would move   *)
(* blocks whose addresses the callers hold.  A mutant has no such guard.   *)
BugMustEnlarge(x) == FALSE

MustEnlarge(x) == AllocType = "MAX" /\ CanEnlarge(LastChk(x))
InPool(x, size) == Serving(FreeSizes, x.free_list, size) # {}

(* ChkIndex::free of size units at block b.  A block that ends at the      *)
(* virgin mark lowers it; any other block goes to the pool.  Mutants give  *)
(* every block to the pool, or also pool a block that lowered the mark, or *)
(* leave the chunk's own count as it is.                                   *)
BugAtVirgin(x, b, size) == FALSE

AtVirgin(x, b, size) == End(b, size) = x.chk[b.no].virgin

BugFreed(x, b, size) ==
  LET y == IF AtVirgin(x, b, size)
           THEN [x EXCEPT !.chk[b.no].virgin = @ - size]
           ELSE [x EXCEPT !.free_list = PoolFree(FreeSizes, @, b, size),
                          !.total_free = @ + size]
  IN  [y EXCEPT !.total_used = @ - size]

BugFreedTwice(x, b, size) ==
  LET y == IF AtVirgin(x, b, size)
           THEN [x EXCEPT !.chk[b.no].virgin = @ - size]
           ELSE x
  IN  [y EXCEPT !.free_list = PoolFree(FreeSizes, @, b, size),
                !.total_free = @ + size,
                !.chk[b.no].used = @ - size, !.total_used = @ - size]

Freed(x, b, size) ==
  LET y == IF AtVirgin(x, b, size)
           THEN [x EXCEPT !.chk[b.no].virgin = @ - size]
           ELSE [x EXCEPT !.free_list = PoolFree(FreeSizes, @, b, size),
                          !.total_free = @ + size]
  IN  [y EXCEPT !.chk[b.no].used = @ - size, !.total_used = @ - size]

(* ChkIndex::shrink of the last chunk. *)
ShrunkIndex(x) ==
  [x EXCEPT !.chk[LastNo(x)] = Shrunk(@),
            !.total_capacity = @ - Surplus(LastChk(x))]

---------------------------------------------------------------------------
Init ==
  /\ index = EmptyIndex
  /\ live = {}
  /\ handed = 0

(* alloc returns block b to a caller that asked for bytes. *)
Handed(b, bytes) ==
  [no |-> b.no, off |-> b.off, size |-> AlignedSize(bytes), bytes |-> bytes]

Grant(b, bytes) ==
  /\ live' = live \cup {Handed(b, bytes)}
  /\ handed' = handed + 1

(* The guard of every successful alloc.  An alloc that fails (the request  *)
(* is too big, the last chunk must be enlarged first, there are too many   *)
(* chunks or the system has no memory) returns CHK_NULL and leaves the     *)
(* index as it was: a stuttering step.                                     *)
Admits(bytes) ==
  /\ AlignedSize(bytes) <= MaxContinus
  /\ index.chk_num = 0 => AllocType = "MAX"
  /\ ~MustEnlarge(Booted(index))

AllocFromPool(bytes) ==
  LET x == Booted(index)
      size == AlignedSize(bytes)
  IN  /\ Admits(bytes)
      /\ InPool(x, size)
      /\ index' = FromPool(x, size)
      /\ Grant(PoolTaken(FreeSizes, x.free_list, size), bytes)

AllocFromVirgin(bytes) ==
  LET x == Booted(index)
      size == AlignedSize(bytes)
  IN  /\ Admits(bytes)
      /\ ~InPool(x, size)
      /\ Fits(LastChk(x), size)
      /\ index' = FromVirgin(x, size)
      /\ Grant(VirginBlock(x, LastNo(x)), bytes)

AllocFromNewChk(bytes) ==
  LET x == Booted(index)
      size == AlignedSize(bytes)
      y == Extended(x)
  IN  /\ Admits(bytes)
      /\ ~InPool(x, size)
      /\ ~Fits(LastChk(x), size)
      /\ CanEnlarge(LastChk(x)) \/ x.chk_num < MaxChkNum
      /\ index' = FromVirgin(y, size)
      /\ Grant(VirginBlock(y, LastNo(y)), bytes)

(* free(ptr) *)
Free(b) ==
  /\ index' = Freed(index, b, b.size)
  /\ live' = live \ {b}
  /\ handed' = handed - 1

(* enlarge(): only the last chunk grows, and only if it can. *)
Enlarge ==
  /\ index.chk_num > 0
  /\ CanEnlarge(LastChk(index))
  /\ index' = GrowLast(index)
  /\ UNCHANGED <<live, handed>>

Shrink ==
  /\ index.chk_num > 0
  /\ Surplus(LastChk(index)) > 0
  /\ index' = ShrunkIndex(index)
  /\ UNCHANGED <<live, handed>>

Alloc(bytes) ==
  \/ AllocFromPool(bytes)
  \/ AllocFromVirgin(bytes)
  \/ AllocFromNewChk(bytes)

Next ==
  \/ \E bytes \in Requests : Alloc(bytes)
  \/ \E b \in live : Free(b)
  \/ Enlarge
  \/ Shrink

Spec == Init /\ [][Next]_vars

---------------------------------------------------------------------------
Blocks == [no : ChkNos, off : Nat]
Lists == [Classes -> Seq(Blocks)]

ChkIndexes ==
  [chk_num : 0 .. MaxChkNum, chk : [ChkNos -> ChkMetadata],
   total_used : Int, total_free : Int, total_capacity : Int,
   free_list : Lists]

LiveBlocks ==
  [no : ChkNos, off : Nat, size : Nat \ {0}, bytes : Requests]

(* Every variable has its type: there are at most CHK_MAX_CHK_NUM chunks   *)
(* and none grows beyond the last level.  (That no counter falls below     *)
(* zero follows from UsedIsLive and PoolWithinFree of ChkAccounts.)        *)
TypeOK ==
  /\ index \in ChkIndexes
  /\ live \subseteq LiveBlocks
  /\ handed \in Int

(* A block of chunk n, held or pooled, lies above the headers of the chunk *)
(* and below its virgin mark.                                              *)
Inside(x, b, size) ==
  /\ b.no < x.chk_num
  /\ Overhead(b.no) <= b.off
  /\ End(b, size) <= x.chk[b.no].virgin

(* Every block that is held or pooled lies between the headers of its      *)
(* chunk and the virgin mark, and the mark within the capacity, whatever   *)
(* shrink, enlarge, and frees at the mark do.  chk_addrchk2ptr asserts it. *)
InVirgin ==
  /\ \A n \in 0 .. LastNo(index) :
       index.chk[n].virgin <= Units(index.chk[n].capacity)
  /\ \A b \in live : Inside(index, b, b.size)
  /\ \A i \in Classes : \A k \in DOMAIN index.free_list[i] :
       Inside(index, index.free_list[i][k], FreeSizes[i])

(* No unit belongs to two blocks: neither to two the callers hold, nor to  *)
(* one that is held and one in a free list, nor to two places of the free  *)
(* lists.                                                                  *)
LiveApart ==
  \A b, c \in live : b # c => Disjoint(b, b.size, c, c.size)

(* A block shares no unit with the blocks of the given free lists. *)
OffPool(lists, b, size) ==
  \A i \in Classes : \A k \in DOMAIN lists[i] :
    Disjoint(b, size, lists[i][k], FreeSizes[i])

Apart(lists) ==
  \A i, j \in Classes :
    \A k \in DOMAIN lists[i], l \in DOMAIN lists[j] :
      <<i, k>> # <<j, l>> =>
        Disjoint(lists[i][k], FreeSizes[i], lists[j][l], FreeSizes[j])

LiveOffPool == \A b \in live : OffPool(index.free_list, b, b.size)
PoolApart == Apart(index.free_list)

Separation == LiveApart /\ LiveOffPool /\ PoolApart

(* Memory never moves under a caller: a chunk changes its capacity, which  *)
(* moves it, only in enlarge and shrink, and only the last chunk does.     *)
(* alloc and free leave every chunk that exists where it is.               *)
ChunksStay ==
  [][\A n \in 0 .. LastNo(index) :
       index'.chk[n].capacity # index.chk[n].capacity =>
         n = LastNo(index) /\ live' = live]_vars

(* Every number fits the bit field the code keeps it in, for the sizes the *)
(* code has: _offset (in steps of 4 bytes) and _size of a ChkPtr, the      *)
(* fields of a chunk header, and _total_capacity of the manager.  It is    *)
(* not checked but proved, for these sizes: FieldsSuffice.                 *)
FitsFields ==
  /\ \A b \in live : 2 * b.off < 2^12 /\ b.size < 2^9
  /\ \A i \in Classes : \A k \in DOMAIN index.free_list[i] :
       2 * index.free_list[i][k].off < 2^12
  /\ \A n \in 0 .. LastNo(index) :
       /\ index.chk[n].capacity < 2^5
       /\ index.chk[n].used < 2^12
       /\ index.chk[n].virgin < 2^12
  /\ index.total_capacity < 2^16

(* free undoes alloc: freeing a block that has just been cut from the      *)
(* virgin part brings the index back, counters and free lists included.    *)
FreeUndoesAlloc ==
  [][\A bytes \in Requests :
       AllocFromVirgin(bytes) =>
         \A b \in live' \ live : Freed(index', b, b.size) = Booted(index)]_vars

(* The index keeps the promise of BlockHeap: the callers see blocks of the *)
(* size they asked for, apart from each other and from the headers, each   *)
(* handed out once.                                                        *)
Abstract == INSTANCE BlockHeap
KeepsPromise == Abstract!Spec
=============================================================================
