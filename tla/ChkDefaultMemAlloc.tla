------------------------- MODULE ChkDefaultMemAlloc -------------------------
(***************************************************************************)
(* The allocator that counts the bytes of compressed structures, shared by *)
(* the threads of a program: ChkDefaultMemAlloc, with the calls that       *)
(* ChkIndex makes of it through _unalign_allocate, _unalign_reallocate and *)
(* _unalign_dellocate.                                                     *)
(*                                                                         *)
(* chk_compress allocates the most that the image can need and reallocates *)
(* it to the bytes it has; destruct, uncompress, and compress when it      *)
(* gives up, free them.  A thread works on one structure at a time.  The   *)
(* counter is read and written in separate steps, as the machine does it.  *)
(***************************************************************************)
EXTENDS Integers, FiniteSets, FiniteSetsExt

CONSTANTS
  Threads,       \* the threads that compress structures
  NoThread,      \* the owner of the unlocked mutex
  Images,        \* records [most, len]: bytes allocated, and bytes needed
  WordSize       \* how many values size_t has; 2^64 in the code

(* The bytes that threads with these blocks have from the system. *)
Bytes(b) == MapThenSumSet(LAMBDA t : b[t], Threads)

(* What a block can have: the bytes allocated, or those the image needs.   *)
BlockSizes == {0} \cup {i.most : i \in Images} \cup {i.len : i \in Images}

ASSUME DefaultAssumption ==
  /\ IsFiniteSet(Threads)
  /\ NoThread \notin Threads
  /\ Images \subseteq [most : Nat \ {0}, len : Nat \ {0}]
  /\ \A i \in Images : i.len <= i.most
  /\ WordSize \in Nat \ {0}

(* The blocks of all threads lie in one memory, which size_t can count.    *)
ASSUME MemoryAssumption ==
  \A b \in [Threads -> BlockSizes] : Bytes(b) < WordSize

VARIABLES
  alloc_size,    \* _alloc_size
  realloc_fix,   \* _realloc_fix
  owner,         \* the thread that has locked _mutex
  pc,            \* where each thread is
  call,          \* its call: [op, org_size, size]
  reg,           \* the counter as it has read it
  image,         \* the image it makes or has
  block,         \* the bytes of memory it has from the system
  null,          \* its last call returned NULL
  short          \* not in the program: ::realloc has returned NULL once

vars ==
  <<alloc_size, realloc_fix, owner, pc, call, reg, image, block, null, short>>

(* The calls a thread makes: alloc, reallocate and dellocate. *)
NoCall == [op |-> "none", org_size |-> 0, size |-> 0]
AllocOf(i) == [op |-> "alloc", org_size |-> 0, size |-> i.most]
FreeOf(bytes) == [op |-> "free", org_size |-> bytes, size |-> 0]

(* A mutant gives the length of the image as the size of the block.        *)
BugReallocOf(i) == [op |-> "realloc", org_size |-> i.len, size |-> i.len]

ReallocOf(i) == [op |-> "realloc", org_size |-> i.most, size |-> i.len]

NoImage == [most |-> 0, len |-> 0]

Init ==
  /\ alloc_size = 0
  /\ realloc_fix \in BOOLEAN
  /\ owner = NoThread
  /\ pc = [t \in Threads |-> "out"]
  /\ call = [t \in Threads |-> NoCall]
  /\ reg = [t \in Threads |-> 0]
  /\ image = [t \in Threads |-> NoImage]
  /\ block = [t \in Threads |-> 0]
  /\ null = [t \in Threads |-> FALSE]
  /\ short = FALSE

Goto(t, label) == pc' = [pc EXCEPT ![t] = label]

(* pthread_mutex_lock returns; a mutant does not wait. *)
BugCanLock == TRUE

CanLock == owner = NoThread

---------------------------------------------------------------------------
(* init, called again while no thread is in a call: when nothing is        *)
(* counted it takes the new mode and a fresh mutex, else it returns.  A    *)
(* mutant never returns early.                                             *)
BugInited == FALSE

Inited == alloc_size > 0

Reinit ==
  /\ ~Inited
  /\ \A t \in Threads : pc[t] = "out"
  /\ realloc_fix' \in BOOLEAN
  /\ owner' = NoThread
  /\ UNCHANGED <<alloc_size, pc, call, reg, image, block, null, short>>

Begin(t, c) ==
  /\ call' = [call EXCEPT ![t] = c]
  /\ Goto(t, "lock")

(* chk_compress allocates. *)
Compress(t) ==
  /\ pc[t] = "out"
  /\ image[t] = NoImage
  /\ \E i \in Images : /\ image' = [image EXCEPT ![t] = i]
                       /\ Begin(t, AllocOf(i))
  /\ UNCHANGED <<alloc_size, realloc_fix, owner, reg, block, null, short>>

(* Then it reallocates, and frees what it allocated if that fails.         *)
AfterAlloc(t) ==
  /\ pc[t] = "done"
  /\ call[t].op = "alloc"
  /\ Begin(t, ReallocOf(image[t]))
  /\ UNCHANGED <<alloc_size, realloc_fix, owner, reg, image,
                 block, null, short>>

ReallocFailed(t) ==
  /\ pc[t] = "done"
  /\ call[t].op = "realloc"
  /\ null[t]
  /\ Begin(t, FreeOf(image[t].most))
  /\ null' = [null EXCEPT ![t] = FALSE]
  /\ UNCHANGED <<alloc_size, realloc_fix, owner, reg, image, block, short>>

Compressed(t) ==
  /\ pc[t] = "done"
  /\ call[t].op = "realloc"
  /\ ~null[t]
  /\ call' = [call EXCEPT ![t] = NoCall]
  /\ Goto(t, "out")
  /\ UNCHANGED <<alloc_size, realloc_fix, owner, reg, image,
                 block, null, short>>

(* destruct, uncompress, or the compression was not worth it: the length   *)
(* is read from the image.                                                 *)
Release(t) ==
  /\ pc[t] = "out"
  /\ image[t] # NoImage
  /\ Begin(t, FreeOf(image[t].len))
  /\ UNCHANGED <<alloc_size, realloc_fix, owner, reg, image,
                 block, null, short>>

Released(t) ==
  /\ pc[t] = "done"
  /\ call[t].op = "free"
  /\ call' = [call EXCEPT ![t] = NoCall]
  /\ image' = [image EXCEPT ![t] = NoImage]
  /\ Goto(t, "out")
  /\ UNCHANGED <<alloc_size, realloc_fix, owner, reg, block, null, short>>

---------------------------------------------------------------------------
Lock(t) ==
  /\ pc[t] = "lock"
  /\ CanLock
  /\ owner' = t
  /\ Goto(t, "memory")
  /\ UNCHANGED <<alloc_size, realloc_fix, call, reg, image,
                 block, null, short>>

(* malloc, the copy of reallocate with _realloc_fix, realloc, or free.     *)
(* malloc does not fail (assert).                                          *)
Memory(t) ==
  /\ pc[t] = "memory"
  /\ block' = [block EXCEPT ![t] = call[t].size]
  /\ Goto(t, IF call[t].op = "free" THEN "load_minus" ELSE "load_plus")
  /\ UNCHANGED <<alloc_size, realloc_fix, owner, call, reg,
                 image, null, short>>

(* ::realloc has no memory: the old block stays, NULL is returned. *)
NoMemory(t) ==
  /\ pc[t] = "memory"
  /\ call[t].op = "realloc"
  /\ ~realloc_fix
  /\ short' = TRUE
  /\ null' = [null EXCEPT ![t] = TRUE]
  /\ Goto(t, "load_plus")
  /\ UNCHANGED <<alloc_size, realloc_fix, owner, call, reg,
                 image, block>>

Load(t) ==
  /\ pc[t] \in {"load_plus", "load_minus"}
  /\ reg' = [reg EXCEPT ![t] = alloc_size]
  /\ Goto(t, IF pc[t] = "load_plus" THEN "plus" ELSE "minus")
  /\ UNCHANGED <<alloc_size, realloc_fix, owner, call, image,
                 block, null, short>>

(* What _alloc_size -= ... leaves. *)
Minus(t) == (reg[t] - call[t].org_size) % WordSize

(* _alloc_size += size *)
AddSize(t) ==
  /\ pc[t] = "plus"
  /\ alloc_size' = (reg[t] + call[t].size) % WordSize
  /\ reg' = [reg EXCEPT ![t] = 0]
  /\ Goto(t, IF call[t].op = "realloc" THEN "load_minus" ELSE "unlock")
  /\ UNCHANGED <<realloc_fix, owner, call, image, block, null, short>>

(* _alloc_size -= org_size, or size in dellocate *)
SubtractSize(t) ==
  /\ pc[t] = "minus"
  /\ alloc_size' = Minus(t)
  /\ reg' = [reg EXCEPT ![t] = 0]
  /\ Goto(t, "unlock")
  /\ UNCHANGED <<realloc_fix, owner, call, image, block, null, short>>

Unlock(t) ==
  /\ pc[t] = "unlock"
  /\ owner' = NoThread
  /\ Goto(t, "done")
  /\ UNCHANGED <<alloc_size, realloc_fix, call, reg, image,
                 block, null, short>>

Client(t) ==
  \/ Compress(t) \/ AfterAlloc(t) \/ ReallocFailed(t) \/ Compressed(t)
  \/ Release(t) \/ Released(t)

Allocator(t) ==
  \/ Lock(t) \/ Memory(t) \/ NoMemory(t) \/ Load(t) \/ AddSize(t)
  \/ SubtractSize(t) \/ Unlock(t)

Next == Reinit \/ \E t \in Threads : Client(t) \/ Allocator(t)

Spec == Init /\ [][Next]_vars

---------------------------------------------------------------------------
TypeOK ==
  /\ alloc_size \in 0 .. WordSize - 1
  /\ realloc_fix \in BOOLEAN
  /\ owner \in Threads \cup {NoThread}
  /\ pc \in [Threads -> {"out", "lock", "memory", "load_plus", "plus",
                         "load_minus", "minus", "unlock", "done"}]
  /\ call \in [Threads -> [op : {"none", "alloc", "realloc", "free"},
                           org_size : Nat, size : Nat]]
  /\ reg \in [Threads -> 0 .. WordSize - 1]
  /\ image \in [Threads -> Images \cup {NoImage}]
  /\ block \in [Threads -> Nat]
  /\ null \in [Threads -> BOOLEAN]
  /\ short \in BOOLEAN

(* "used mem" of the log: when no thread is in the allocator, _alloc_size  *)
(* is the memory the threads have from it ...                              *)
CountIsExact == alloc_size = Bytes(block)

(* ... as long as realloc finds memory, in each order of the threads: a    *)
(* realloc that fails is counted as if it had not.                         *)
UsedMem == owner = NoThread /\ ~short => CountIsExact

(* A block that reallocate will move is moved in the mode in which it was  *)
(* made: while blocks are out init returns early, because the counter it   *)
(* looks at is not zero.                                                   *)
ModeStays ==
  [][(~short /\ realloc_fix' # realloc_fix) =>
       \A t \in Threads : block[t] = 0]_vars

(* A thread gives a block back or resizes it with the size the block has,  *)
(* and once, also after a realloc that failed.                             *)
FreedAsHeld ==
  \A t \in Threads :
    pc[t] = "memory" =>
      block[t] = (IF call[t].op = "alloc" THEN 0 ELSE call[t].org_size)
=============================================================================
