---------------------------- MODULE ChkIndexLife ---------------------------
(***************************************************************************)
(* The life cycle of a chunk index: where its chunks live.  They are       *)
(* allocated one by one, or lie in one piece of memory after an uncompress *)
(* (the first one then owns it all), or are a compressed image; enlarge,   *)
(* shrink, compress, uncompress, split_continuous_chunk and destruct move  *)
(* them from one layout to another.  ChkHeap models what is inside.        *)
(*                                                                         *)
(* index is the ChkIndex, its chunk headers and the memory it was given:   *)
(* operators map an index to the index an operation leaves, and the        *)
(* handlers, which call one another, are compositions of them.  Pool       *)
(* blocks do not show: of the blocks, only those at a virgin mark do.      *)
(* The index has type MAX.                                                 *)
(***************************************************************************)
EXTENDS ChkBase, FiniteSetsExt, Functions, Sequences

VARIABLES
  index,   \* the index with its memory
  split,   \* UNCOMPRESS_SPLIT, TRUE if ChkMemalign provides the chunks
  stage    \* "in use", "destructed" by the last call, or "gone"

vars == <<index, split, stage>>

(* Pieces of memory: at most every chunk, the piece they are split from    *)
(* or compressed to, and one that moves.                                   *)
MemIds == 1 .. MaxChkNum + 2
NoMem == [kind |-> "none", size |-> 0]

(* A chunk header with the memory it is in, at which step, and if all that *)
(* was written below its virgin mark is still there.                       *)
NoEntry ==
  [capacity |-> 0, virgin |-> 0, alloc_capacity |-> 0,
   id |-> 0, at |-> 0, intact |-> TRUE]

NoImage == [count |-> 0, chk |-> [n \in ChkNos |-> NoEntry], len |-> 0, id |-> 0]

EmptyIndex ==
  [chk_num |-> 0, compressed |-> FALSE, addr_size |-> 0, total_capacity |-> 0,
   chk |-> [n \in ChkNos |-> NoEntry], image |-> NoImage,
   mem |-> [id \in MemIds |-> NoMem], misused |-> FALSE]

LastNo(x) == x.chk_num - 1
LastChk(x) == x.chk[LastNo(x)]
Chks(x) == 0 .. LastNo(x)

---------------------------------------------------------------------------
(* The memory functions.  "chunk" is memory of _allocate, "raw" of malloc, *)
(* "image" of _unalign_allocate.  ChkMemalign's chunks all have the same   *)
(* size.                                                                   *)
FreeIds(x) == {id \in MemIds : x.mem[id] = NoMem}

(* The k-th piece of memory that is free, counted from 0. *)
FreeId(x, k) ==
  CHOOSE id \in FreeIds(x) : Cardinality({j \in FreeIds(x) : j < id}) = k

Memory(kind, capacity) ==
  [kind |-> kind,
   size |-> IF kind # "chunk" THEN 0
            ELSE IF split THEN MaxCapacity ELSE capacity]

Taken(x, kind, capacity) ==
  [x EXCEPT !.mem[FreeId(x, 0)] = Memory(kind, capacity)]

(* Memory may be given back where it starts, once, to the function for its *)
(* kind, and with its size.  _dellocate_func asserts that the size fits,   *)
(* and ChkMemalign hands all its chunks out as chunks of the last level.   *)
MayGive(x, c, kind, capacity) ==
  /\ c.at = 0
  /\ c.id \in MemIds
  /\ x.mem[c.id].kind = kind
  /\ kind = "chunk" =>
       IF split THEN capacity <= MaxCapacity /\ x.mem[c.id].size = MaxCapacity
       ELSE capacity = x.mem[c.id].size

Given(x, c, kind, capacity) ==
  IF MayGive(x, c, kind, capacity) THEN [x EXCEPT !.mem[c.id] = NoMem]
  ELSE [x EXCEPT !.misused = TRUE]

(* Copying the first units of a chunk. *)
Copied(c, units) == [c EXCEPT !.intact = @ /\ c.virgin <= units]

(* The last chunk becomes c in memory of c's capacity: _allocate, memcpy   *)
(* and _dellocate, which is what realloc_wrap does too.                    *)
MovedLast(x, c) ==
  LET old == LastChk(x)
      y == Taken(x, "chunk", c.capacity)
  IN  Given([y EXCEPT !.chk[LastNo(x)] = [c EXCEPT !.id = FreeId(x, 0), !.at = 0]],
            old, "chunk", old.capacity)

(* _reallocate of the last chunk; ChkMemalign leaves it where it is. *)
ReallocatedLast(x, c) ==
  IF split THEN [x EXCEPT !.chk[LastNo(x)] = c] ELSE MovedLast(x, c)

---------------------------------------------------------------------------
(* ChkMetadata::destruct.  A mutant does not ask who owns the memory. *)
BugDestructChk(x, c) == Given(x, c, "chunk", c.alloc_capacity)

DestructChk(x, c) ==
  IF c.alloc_capacity = 0 THEN x ELSE Given(x, c, "chunk", c.alloc_capacity)

(* ChkIndex::destruct *)
DestructAll(x) ==
  [FoldSet(LAMBDA n, y : DestructChk(y, x.chk[n]), x, Chks(x)) EXCEPT
     !.chk = [n \in ChkNos |-> NoEntry], !.chk_num = 0, !.total_capacity = 0]

Destructed(x) ==
  IF x.chk_num = 0 THEN x
  ELSE IF x.compressed
       THEN [Given(x, [id |-> x.image.id, at |-> 0], "image", 0) EXCEPT
               !.chk_num = 0, !.compressed = FALSE]
       ELSE DestructAll(x)

(* is_continuous_chunk: the first chunk owns the capacity of all.  A       *)
(* mutant is content with a part of it.                                    *)
BugContinuous(x) ==
  x.chk_num > 1 /\ x.total_capacity >= x.chk[0].alloc_capacity

Continuous(x) ==
  x.chk_num > 1 /\ x.total_capacity = x.chk[0].alloc_capacity

(* split_continuous_chunk: every chunk moves to memory of its own.  The    *)
(* last one is copied up to its mark only, as raw memory ends there.       *)
OwnChk(x, n) ==
  LET c == x.chk[n]
      copied == IF n < LastNo(x) THEN Units(c.capacity) ELSE c.virgin
  IN  [Copied(c, copied) EXCEPT !.alloc_capacity = c.capacity,
                                !.id = FreeId(x, n), !.at = 0]

(* Giving back the memory the chunks lay in; a mutant forgets it. *)
BugReleased(x, org) == x

Released(x, org) ==
  IF split THEN Given(x, org, "raw", 0) ELSE DestructChk(x, org)

SplitUp(x) ==
  LET number == AntiFunction([n \in Chks(x) |-> FreeId(x, n)])
      y == [x EXCEPT
             !.chk = [n \in ChkNos |-> IF n \in Chks(x) THEN OwnChk(x, n) ELSE @[n]],
             !.mem = [id \in MemIds |->
               IF id \in DOMAIN number
               THEN Memory("chunk", x.chk[number[id]].capacity) ELSE @[id]]]
  IN  IF Continuous(x) THEN Released(y, x.chk[0]) ELSE x

---------------------------------------------------------------------------
(* The units that are compressed: all but those above the last mark.  A    *)
(* mutant leaves the last chunk out.                                       *)
BugStored(x) == Units(x.total_capacity - LastChk(x).capacity)

Stored(x) ==
  Units(x.total_capacity) - Units(LastChk(x).capacity) + LastChk(x).virgin

(* compress, when it succeeds and the rate is what the caller wants: the   *)
(* image takes the place of the first entry of _chk_addr, and _chk_num     *)
(* stays 0.                                                                *)
Compressed(x) ==
  [Destructed(Taken(x, "image", 0)) EXCEPT
     !.compressed = TRUE,
     !.image = [count |-> x.chk_num, chk |-> x.chk, len |-> Stored(x),
                id |-> FreeId(x, 0)]]

(* The step at which chunk n of an image begins. *)
Start(image, n) == MapThenSumSet(LAMBDA m : image.chk[m].capacity, 0 .. n - 1)

(* chk_align_capaicty: units to steps, rounded up. *)
AlignedCapacity(units) == (units + UnitsPerCap - 1) \div UnitsPerCap

(* Chunk n of an image that was uncompressed to memory id: the last one is *)
(* cut where the image ends, and the first one owns the memory.            *)
ImageChk(image, n, id) ==
  LET c == image.chk[n]
      total == AlignedCapacity(image.len)
      left == total - Start(image, n)
  IN  [Copied(c, image.len - Units(Start(image, n))) EXCEPT
         !.capacity = IF left < @ THEN left ELSE @,
         !.alloc_capacity = IF n = 0 THEN total ELSE 0,
         !.id = id, !.at = Start(image, n)]

(* The headers uncompress finds while it walks through the image. *)
Walked(image) ==
  {n \in 0 .. image.count - 1 : Start(image, n) < AlignedCapacity(image.len)}

(* uncompress, when there is an image and it succeeds *)
Unpacked(x) ==
  LET image == x.image
      total == AlignedCapacity(image.len)
      kind == IF ~split \/ total <= MaxCapacity THEN "chunk" ELSE "raw"
      id == FreeId(x, 0)
      y == [Taken(x, kind, total) EXCEPT
             !.chk_num = Cardinality(Walked(image)),
             !.chk = [n \in ChkNos |->
               IF n \in Walked(image) THEN ImageChk(image, n, id) ELSE NoEntry],
             !.total_capacity = total,
             !.image = NoImage,
             !.compressed = FALSE]
      z == Given(y, [id |-> image.id, at |-> 0], "image", 0)
  IN  IF split THEN SplitUp(z) ELSE z

Uncompressed(x) == IF x.compressed THEN Unpacked(x) ELSE x

---------------------------------------------------------------------------
(* chk_enlarge makes room in _chk_addr before it asks for the chunk.  A    *)
(* mutant does so one entry late.                                          *)
BugAddrGrown(x) ==
  IF x.chk_num <= x.addr_size THEN x
  ELSE [x EXCEPT !.addr_size = IF @ = 0 THEN 1 ELSE 2 * @]

AddrGrown(x) ==
  IF x.chk_num # x.addr_size THEN x
  ELSE [x EXCEPT !.addr_size = IF @ = 0 THEN 1 ELSE 2 * @]

(* chk_enlarge appends a chunk. *)
Appended(x) ==
  [Taken(AddrGrown(x), "chunk", MaxCapacity) EXCEPT
     !.chk_num = @ + 1,
     !.chk[x.chk_num] =
       [capacity |-> MaxCapacity, virgin |-> Overhead(x.chk_num),
        alloc_capacity |-> MaxCapacity, id |-> FreeId(x, 0), at |-> 0,
        intact |-> TRUE],
     !.total_capacity = @ + MaxCapacity]

Booted(x) == IF x.chk_num = 0 THEN Appended(x) ELSE x

(* The rest of chunk n goes to the pool. *)
UsedUp(x, n) == [x EXCEPT !.chk[n].virgin = Units(x.chk[n].capacity)]

(* A block of size units from the last chunk. *)
Served(x, size) == [x EXCEPT !.chk[LastNo(x)].virgin = @ + size]

(* chk_enlarge(1), when the system has memory for the larger chunk *)
Grown(x) ==
  IF x.chk_num = 0 \/ ~CanEnlarge(LastChk(x)) THEN x
  ELSE [ReallocatedLast(x, Copied(Enlarged(LastChk(x), MaxCapacity),
                                  Units(LastChk(x).capacity))) EXCEPT
          !.total_capacity = @ + (MaxCapacity - LastChk(x).capacity)]

(* ChkMetadata::shrink of the last chunk, which has a surplus: in place    *)
(* if less than half of it goes, else into new memory.                     *)
ShrunkLast(x) ==
  LET c == Shrunk(LastChk(x))
  IN  IF Surplus(LastChk(x)) < c.capacity
      THEN ReallocatedLast(x, Copied(c, Units(c.capacity)))
      ELSE MovedLast(x, Copied(c, c.virgin))

(* A mutant forgets the manager. *)
BugShrunkIndex(x) == ShrunkLast(x)

ShrunkIndex(x) ==
  [ShrunkLast(x) EXCEPT !.total_capacity = @ - Surplus(LastChk(x))]

---------------------------------------------------------------------------
(* chk_addr2chk for an address in step k of chunk c, counted from 1 and    *)
(* rounded up: the first header met on the way back, in steps of 1 KiB, of *)
(* a chunk that reaches as far.  A mutant takes one that reaches farther.  *)
BugReaches(c, i) == c.capacity > i

Reaches(c, i) == c.capacity >= i

FoundFrom(x, c, k) ==
  LET HeaderAt(n, i) ==
        x.chk[n].id = c.id /\ x.chk[n].at = c.at + k - i /\ Reaches(x.chk[n], i)
      back == {i \in 1 .. MaxCapacity : \E n \in Chks(x) : HeaderAt(n, i)}
  IN  {n \in Chks(x) : back # {} /\ HeaderAt(n, Min(back))}

---------------------------------------------------------------------------
Init ==
  /\ index = EmptyIndex
  /\ split \in BOOLEAN
  /\ stage = "in use"

(* A call on an index that leaves it as x. *)
Leaves(x) ==
  /\ stage # "gone"
  /\ index' = x
  /\ stage' = "in use"
  /\ UNCHANGED split

(* alloc from the virgin part of the last chunk, the first one made on     *)
(* demand; a last chunk that could grow serves nothing.                    *)
AllocInLast(size) ==
  LET x == Booted(Uncompressed(index))
  IN  /\ ~CanEnlarge(LastChk(x))
      /\ Fits(LastChk(x), size)
      /\ Leaves(Served(x, size))

(* alloc from a chunk that is appended; the rest of the previous one is    *)
(* collected                                                               *)
AllocInNewChk(size) ==
  LET x == Booted(Uncompressed(index))
  IN  /\ ~CanEnlarge(LastChk(x))
      /\ ~Fits(LastChk(x), size)
      /\ x.chk_num < MaxChkNum
      /\ Leaves(Served(UsedUp(Appended(x), LastNo(x)), size))

(* alloc that needs a chunk and does not get it from the system *)
AllocFails(size) ==
  LET x == Uncompressed(index)
  IN  /\ x.chk_num > 0 => ~CanEnlarge(LastChk(x)) /\ ~Fits(LastChk(x), size)
      /\ x.chk_num < MaxChkNum
      /\ Leaves(AddrGrown(x))

(* boot_addr, and the calls of alloc and free that concern the pool or are *)
(* refused: what they do besides is uncompress.                            *)
Access == index.compressed /\ Leaves(Uncompressed(index))

(* free of a block at the mark of chunk n *)
FreeAtMark(n, size) ==
  LET x == Uncompressed(index)
  IN  /\ n \in Chks(x)
      /\ x.chk[n].virgin - size >= Overhead(n)
      /\ Leaves([x EXCEPT !.chk[n].virgin = @ - size])

(* enlarge(), which uncompresses and splits first, and the case where the  *)
(* system has no memory for the larger chunk                               *)
Enlarge ==
  LET x == SplitUp(Uncompressed(index))
  IN  Leaves(Grown(x)) \/ Leaves(x)

(* shrink() *)
ShrinkAny ==
  /\ index.chk_num > 0
  /\ Surplus(LastChk(index)) > 0
  /\ Leaves(ShrunkIndex(index))

(* Callers that shrink only a chunk with memory of its own, as they may    *)
(* after enlarge.                                                          *)
Shrink ==
  /\ index.chk_num > 0
  /\ LastChk(index).alloc_capacity # 0
  /\ ShrinkAny

(* compress(); an attempt that fails or is given up gives back all it took *)
Compress ==
  /\ index.chk_num > 0
  /\ ~index.compressed
  /\ Leaves(Compressed(index))

(* destruct() *)
Destruct ==
  /\ stage = "in use"
  /\ index' = Destructed(index)
  /\ stage' = "destructed"
  /\ UNCHANGED split

(* ~ChkIndex frees _chk_addr and no chunk: callers call destruct before.   *)
DeleteAny ==
  /\ stage = "destructed"
  /\ index' = [EmptyIndex EXCEPT !.mem = index.mem, !.misused = index.misused]
  /\ stage' = "gone"
  /\ UNCHANGED split

(* Callers that do not destruct an index while it is compressed. *)
Delete == ~index.compressed /\ DeleteAny

(* A new index, in the same memory. *)
Construct ==
  /\ stage = "gone"
  /\ stage' = "in use"
  /\ UNCHANGED <<index, split>>

(* ChkMemalign::init switches the memory functions for good.  Callers do   *)
(* so before an index has chunks; an image is not memory of theirs.        *)
InitMemalign ==
  /\ ~split
  /\ index.chk_num = 0
  /\ split' = TRUE
  /\ UNCHANGED <<index, stage>>

Use ==
  \/ \E size \in 1 .. MaxContinus : AllocInLast(size)
  \/ \E size \in 1 .. MaxContinus : AllocInNewChk(size)
  \/ \E size \in 1 .. MaxContinus : AllocFails(size)
  \/ \E n \in ChkNos, size \in 1 .. MaxContinus : FreeAtMark(n, size)
  \/ Access
  \/ Enlarge
  \/ Compress
  \/ Destruct
  \/ Construct

Next == Use \/ Shrink \/ Delete \/ InitMemalign

Spec == Init /\ [][Next]_vars

(* Callers that shrink and delete an index in whatever layout it is. *)
LooseNext == ~index.misused /\ (Use \/ ShrinkAny \/ DeleteAny)

LooseSpec == Init /\ [][LooseNext]_vars

---------------------------------------------------------------------------
Entries ==
  [capacity : 0 .. MaxCapacity, virgin : 0 .. Units(MaxCapacity),
   alloc_capacity : Nat, id : {0} \cup MemIds, at : Nat, intact : BOOLEAN]

Memories == [kind : {"none", "chunk", "raw", "image"}, size : Nat]

Images ==
  [count : 0 .. MaxChkNum, chk : [ChkNos -> Entries], len : Nat,
   id : {0} \cup MemIds]

ChkIndexes ==
  [chk_num : 0 .. MaxChkNum, compressed : BOOLEAN, addr_size : Nat,
   total_capacity : Nat, chk : [ChkNos -> Entries], image : Images,
   mem : [MemIds -> Memories], misused : BOOLEAN]

(* Every variable has its type, and no mark lies above its capacity,       *)
(* wherever uncompress cuts the last chunk.                                *)
TypeOK ==
  /\ index \in ChkIndexes
  /\ split \in BOOLEAN
  /\ stage \in {"in use", "destructed", "gone"}
  /\ \A n \in Chks(index) :
       index.chk[n].virgin <= Units(index.chk[n].capacity)

(* Memory is given back where it starts, once, to the function it came     *)
(* from: no chunk that lies inside the memory of another is freed or       *)
(* reallocated by destruct, shrink, enlarge or split_continuous_chunk.     *)
GivenBackWhole == ~index.misused

(* The memory the index refers to. *)
Referred ==
  {index.chk[n].id : n \in Chks(index)} \cup
  (IF index.compressed THEN {index.image.id} ELSE {})

(* No memory leaks, and none is used after it was given back: what is      *)
(* allocated is what the index refers to, in every layout, and nothing     *)
(* once the index is gone.                                                 *)
Accounted == {id \in MemIds : index.mem[id] # NoMem} = Referred

(* _chk_addr has room for every chunk, also for those uncompress will      *)
(* enter into it, which does not ask for room.                             *)
AddrFits ==
  /\ index.chk_num <= index.addr_size
  /\ index.image.count <= index.addr_size

(* is_continuous_chunk, which compares two totals, is right: it says yes   *)
(* if and only if all chunks lie in the memory of the first one.           *)
LayoutKnown ==
  Continuous(index) <=>
    index.chk_num > 1 /\ \A n \in Chks(index) : index.chk[n].id = index.chk[0].id

(* _total_capacity is what the chunks have, as uncompress asserts of the   *)
(* headers it walks through.                                               *)
TotalIsSum ==
  index.total_capacity =
    MapThenSumSet(LAMBDA n : index.chk[n].capacity, Chks(index))

(* chk_addr2chk finds the chunk of every address in a block, and so        *)
(* chk_addr2ptr and chk_listnode2chk the ChkPtr, in each layout: the scan  *)
(* stops at no header of another chunk in the same memory and does not     *)
(* pass the right one.                                                     *)
AddrFindsChk ==
  \A n \in Chks(index) :
    \A k \in 1 .. AlignedCapacity(index.chk[n].virgin) :
      FoundFrom(index, index.chk[n], k) = {n}

(* What the chunks hold, -1 if something below a mark was lost. *)
Held(chk, num) ==
  [k \in 1 .. num |-> IF chk[k - 1].intact THEN chk[k - 1].virgin ELSE -1]

marks == IF index.compressed THEN Held(index.image.chk, index.image.count)
         ELSE Held(index.chk, index.chk_num)

(* The contents survive every change of layout: the index implements       *)
(* ChunkContents, where only requests change them.                         *)
Contents == INSTANCE ChunkContents
KeepsContents == Contents!Spec
=============================================================================
