---------------------------- MODULE ChkMemalign ----------------------------
(***************************************************************************)
(* The source of pre-allocated chunks that the threads of a program share: *)
(* ChkMemalign::alloc and dellocate with their mutex, as the functions     *)
(* init installs in ChkMetadata::_allocate and _dellocate call them.       *)
(*                                                                         *)
(* Every access to the shared fields is a step of its own, so that it is   *)
(* the mutex and not the model that keeps the threads apart.  Chunks are   *)
(* numbered in the order in which the system provided them.  init runs     *)
(* before the threads; it is the initial state, after the first Kept       *)
(* chunks went to structures that stay.                                    *)
(***************************************************************************)
EXTENDS Integers, Sequences, FiniteSets

CONSTANTS
  Threads,      \* the threads that call alloc and dellocate
  NoThread,     \* the owner of the unlocked mutex
  ConfChunks,   \* _conf_chunks, at least 8 (assert in init)
  Kept,         \* how many chunks are in use for good
  MaxHeld       \* bound: chunks the threads ask for at the same time

ASSUME MemalignAssumption ==
  /\ NoThread \notin Threads
  /\ ConfChunks \in Nat /\ ConfChunks >= 8
  /\ Kept \in 0 .. ConfChunks
  /\ MaxHeld \in Nat

VARIABLES
  owner,         \* the thread that has locked _mutex
  free_chunks,   \* _free_chunks; its back is the end of the sequence
  used_chunks,   \* _used_chunks
  provided,      \* how many chunks the system has provided
  pc,            \* where each thread is
  chunk,         \* its new_chunk in alloc, its ptr in dellocate, else 0
  held           \* the chunks it uses

vars == <<owner, free_chunks, used_chunks, provided, pc, chunk, held>>

(* The chunks Init hands to the structures that stay: the back ones. *)
KeptChunks == (ConfChunks - Kept + 1) .. ConfChunks

Init ==
  /\ owner = NoThread
  /\ free_chunks = [i \in 1 .. ConfChunks - Kept |-> i]
  /\ used_chunks = Kept
  /\ provided = ConfChunks
  /\ pc = [t \in Threads |-> "out"]
  /\ chunk = [t \in Threads |-> 0]
  /\ held = [t \in Threads |-> {}]

Goto(t, label) == pc' = [pc EXCEPT ![t] = label]

(* pthread_mutex_lock returns, and the lock after pthread_mutex_unlock.  A *)
(* mutant does not wait.                                                   *)
BugCanLock == TRUE

CanLock == owner = NoThread

Lock(t) ==
  /\ CanLock
  /\ owner' = t

(* How many chunks a refill brings, and the free chunks after it.  Mutants *)
(* divide once more, and push one chunk too many.                          *)
BugRefillNum == ConfChunks \div 16

RefillNum == ConfChunks \div 4

BugRefilled == free_chunks \o [i \in 1 .. RefillNum + 1 |-> provided + i]

Refilled == free_chunks \o [i \in 1 .. RefillNum |-> provided + i]

(* When alloc refills; a mutant keeps one chunk in reserve. *)
BugMustRefill == Len(free_chunks) <= 1

MustRefill == free_chunks = << >>

(* _free_chunks.back() and the vector after pop_back().  A mutant takes    *)
(* the front.                                                              *)
BugBack == free_chunks[1]

Back == free_chunks[Len(free_chunks)]

Popped == SubSeq(free_chunks, 1, Len(free_chunks) - 1)

(* _used_chunks after a chunk came back; a mutant forgets it. *)
BugUncounted == used_chunks

Uncounted == used_chunks - 1

---------------------------------------------------------------------------
(* A thread calls alloc.  MaxHeld bounds what all of them ask for.         *)
CallAlloc(t) ==
  /\ pc[t] = "out"
  /\ Cardinality(UNION {held[u] : u \in Threads})
       + Cardinality({u \in Threads : pc[u] # "out"}) < MaxHeld
  /\ Goto(t, "alloc")
  /\ UNCHANGED <<owner, free_chunks, used_chunks, provided, chunk, held>>

LockAlloc(t) ==
  /\ pc[t] = "alloc"
  /\ Lock(t)
  /\ Goto(t, "back")
  /\ UNCHANGED <<free_chunks, used_chunks, provided, chunk, held>>

(* refill_chunks.  The assertion that the system has memory holds. *)
Refill(t) ==
  /\ pc[t] = "back"
  /\ MustRefill
  /\ free_chunks' = Refilled
  /\ provided' = provided + RefillNum
  /\ UNCHANGED <<owner, used_chunks, pc, chunk, held>>

TakeBack(t) ==
  /\ pc[t] = "back"
  /\ ~MustRefill
  /\ chunk' = [chunk EXCEPT ![t] = Back]
  /\ Goto(t, "pop")
  /\ UNCHANGED <<owner, free_chunks, used_chunks, provided, held>>

PopBack(t) ==
  /\ pc[t] = "pop"
  /\ free_chunks' = Popped
  /\ Goto(t, "count")
  /\ UNCHANGED <<owner, used_chunks, provided, chunk, held>>

Count(t) ==
  /\ pc[t] = "count"
  /\ used_chunks' = used_chunks + 1
  /\ Goto(t, "monitor")
  /\ UNCHANGED <<owner, free_chunks, provided, chunk, held>>

(* The monitor, which is given _used_chunks and the number of free chunks, *)
(* has returned; alloc unlocks.                                            *)
UnlockAlloc(t) ==
  /\ pc[t] = "monitor"
  /\ owner' = NoThread
  /\ Goto(t, "clear")
  /\ UNCHANGED <<free_chunks, used_chunks, provided, chunk, held>>

(* _allocate_func clears the chunk, without the mutex, and returns it. *)
Clear(t) ==
  /\ pc[t] = "clear"
  /\ held' = [held EXCEPT ![t] = @ \cup {chunk[t]}]
  /\ chunk' = [chunk EXCEPT ![t] = 0]
  /\ Goto(t, "out")
  /\ UNCHANGED <<owner, free_chunks, used_chunks, provided>>

(* A thread calls dellocate for a chunk it has. *)
CallFree(t) ==
  /\ pc[t] = "out"
  /\ \E c \in held[t] :
       /\ chunk' = [chunk EXCEPT ![t] = c]
       /\ held' = [held EXCEPT ![t] = @ \ {c}]
  /\ Goto(t, "free")
  /\ UNCHANGED <<owner, free_chunks, used_chunks, provided>>

LockFree(t) ==
  /\ pc[t] = "free"
  /\ Lock(t)
  /\ Goto(t, "push")
  /\ UNCHANGED <<free_chunks, used_chunks, provided, chunk, held>>

PushBack(t) ==
  /\ pc[t] = "push"
  /\ free_chunks' = Append(free_chunks, chunk[t])
  /\ Goto(t, "uncount")
  /\ UNCHANGED <<owner, used_chunks, provided, chunk, held>>

Uncount(t) ==
  /\ pc[t] = "uncount"
  /\ used_chunks' = Uncounted
  /\ Goto(t, "unlock")
  /\ UNCHANGED <<owner, free_chunks, provided, chunk, held>>

UnlockFree(t) ==
  /\ pc[t] = "unlock"
  /\ owner' = NoThread
  /\ chunk' = [chunk EXCEPT ![t] = 0]
  /\ Goto(t, "out")
  /\ UNCHANGED <<free_chunks, used_chunks, provided, held>>

(* The steps of a thread that has the mutex, and the others. *)
Inside(t) ==
  \/ Refill(t) \/ TakeBack(t) \/ PopBack(t) \/ Count(t) \/ UnlockAlloc(t)
  \/ PushBack(t) \/ Uncount(t) \/ UnlockFree(t)

Outside(t) ==
  CallAlloc(t) \/ LockAlloc(t) \/ Clear(t) \/ CallFree(t) \/ LockFree(t)

Next == \E t \in Threads : Inside(t) \/ Outside(t)

(* Between lock and unlock nothing blocks, if the monitor returns: a       *)
(* thread that has the mutex goes on.  Nothing is assumed of the order in  *)
(* which the mutex is granted.                                             *)
Spec == Init /\ [][Next]_vars /\ \A t \in Threads : WF_vars(Inside(t))

---------------------------------------------------------------------------
Chunks == 1 .. provided

TypeOK ==
  /\ owner \in Threads \cup {NoThread}
  /\ provided \in Nat
  /\ free_chunks \in Seq(Chunks)
  /\ used_chunks \in 0 .. provided
  /\ pc \in [Threads -> {"out", "alloc", "back", "pop", "count", "monitor",
                         "clear", "free", "push", "uncount", "unlock"}]
  /\ chunk \in [Threads -> 0 .. provided]
  /\ held \in [Threads -> SUBSET Chunks]

(* The chunks thread t has: those it uses, and the one that alloc has      *)
(* popped for it or dellocate has not yet pushed.                          *)
Carries(t) == pc[t] \in {"count", "monitor", "clear", "free", "push"}

Owns(t) == held[t] \cup (IF Carries(t) THEN {chunk[t]} ELSE {})

FreeSet == {free_chunks[i] : i \in DOMAIN free_chunks}

(* Every chunk the system has provided has one owner: it is free, and in   *)
(* _free_chunks once, or kept, or one thread has it, also while alloc or   *)
(* dellocate are under way.                                                *)
OneOwner ==
  /\ \A i, j \in DOMAIN free_chunks :
       free_chunks[i] = free_chunks[j] => i = j
  /\ FreeSet \cap KeptChunks = {}
  /\ \A t \in Threads :
       /\ Owns(t) \cap (FreeSet \cup KeptChunks) = {}
       /\ Carries(t) => chunk[t] \notin held[t]
       /\ \A u \in Threads \ {t} : Owns(t) \cap Owns(u) = {}

(* When nobody has the mutex, _used_chunks counts the chunks that are not  *)
(* free, and no chunk is lost.                                             *)
Conserved ==
  owner = NoThread =>
    /\ used_chunks + Len(free_chunks) = provided
    /\ Chunks = FreeSet \cup KeptChunks \cup UNION {Owns(t) : t \in Threads}

(* The numbers alloc gives the monitor add up to all chunks there are, and *)
(* include the chunk it is about to return.                                *)
MonitorExact ==
  \A t \in Threads :
    pc[t] = "monitor" => /\ used_chunks + Len(free_chunks) = provided
                         /\ chunk[t] \notin FreeSet

(* alloc asks the system for memory only when every chunk is in use. *)
LazyRefill == [][provided' # provided => used_chunks = provided]_vars

(* The source keeps its promise to the threads. *)
Owners == INSTANCE ChunkOwners WITH owned <- [t \in Threads |-> Owns(t)]
KeepsOwners == Owners!Spec

(* A thread that has locked the mutex unlocks it, also when the refill     *)
(* comes in between.                                                       *)
LockReleased == \A t \in Threads : owner = t ~> owner # t
=============================================================================
