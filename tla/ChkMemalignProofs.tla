------------------------- MODULE ChkMemalignProofs -------------------------
(***************************************************************************)
(* Proofs about ChkMemalign, for any number of threads and chunks.         *)
(***************************************************************************)
EXTENDS ChkMemalign, FiniteSetTheorems, FunctionTheorems, SequenceTheorems, TLAPS

(* The places between lock and unlock. *)
Locked(t) ==
  pc[t] \in {"back", "pop", "count", "monitor", "push", "uncount", "unlock"}

(* The mutex excludes: a thread is inside if and only if it has it. *)
Mutex == \A t \in Threads : Locked(t) <=> owner = t

(* TypeOK but for the bounds of used_chunks. *)
Types ==
  /\ owner \in Threads \cup {NoThread}
  /\ provided \in Nat /\ provided >= ConfChunks
  /\ free_chunks \in Seq(Chunks)
  /\ used_chunks \in Int
  /\ pc \in [Threads -> {"out", "alloc", "back", "pop", "count", "monitor",
                         "clear", "free", "push", "uncount", "unlock"}]
  /\ chunk \in [Threads -> 0 .. provided]
  /\ held \in [Threads -> SUBSET Chunks]

(* What a thread that is inside relies on. *)
Ready ==
  \A t \in Threads :
    /\ pc[t] = "pop" => free_chunks # << >> /\ chunk[t] = Back
    /\ Carries(t) => chunk[t] \in Chunks
    /\ pc[t] = "uncount" => free_chunks # << >>

(* How far the sum of used and free chunks is ahead of what there is,      *)
(* while the thread inside has changed one and not the other.              *)
Ahead ==
  IF owner = NoThread THEN 0
  ELSE IF pc[owner] = "count" THEN -1
  ELSE IF pc[owner] = "uncount" THEN 1
  ELSE 0

Balance == used_chunks + Len(free_chunks) = provided + Ahead

Covered ==
  Chunks = FreeSet \cup KeptChunks \cup UNION {Owns(t) : t \in Threads}

IInv == Types /\ Mutex /\ Ready /\ Balance /\ OneOwner /\ Covered
---------------------------------------------------------------------------
LEMMA Constants ==
  /\ NoThread \notin Threads
  /\ ConfChunks \in Nat /\ Kept \in Nat /\ Kept <= ConfChunks
  /\ RefillNum \in Nat
  /\ KeptChunks \subseteq 1 .. ConfChunks
<1>1. /\ NoThread \notin Threads
      /\ ConfChunks \in Nat /\ Kept \in Nat /\ Kept <= ConfChunks
  BY MemalignAssumption
<1>2. RefillNum \in Nat
  BY <1>1 DEF RefillNum
<1>3. KeptChunks \subseteq 1 .. ConfChunks
  BY <1>1 DEF KeptChunks
<1> QED
  BY <1>1, <1>2, <1>3

LEMMA InitIInv == Init => IInv
<1> SUFFICES ASSUME Init PROVE IInv
  OBVIOUS
<1> USE Constants
<1>1. /\ Chunks = 1 .. ConfChunks
      /\ FreeSet = 1 .. ConfChunks - Kept
      /\ Len(free_chunks) = ConfChunks - Kept
      /\ DOMAIN free_chunks = 1 .. ConfChunks - Kept
      /\ free_chunks \in Seq(Chunks)
  BY DEF Init, Chunks, FreeSet
<1>2. \A t \in Threads : ~Carries(t) /\ ~Locked(t) /\ Owns(t) = {}
  BY DEF Init, Carries, Locked, Owns
<1>3. Types
  BY <1>1 DEF Init, Types
<1>4. Mutex
  BY <1>2 DEF Init, Mutex
<1>5. Ready
  BY <1>2 DEF Init, Ready
<1>6. Balance
  BY <1>1 DEF Init, Balance, Ahead
<1>7. FreeSet \cap KeptChunks = {}
  BY <1>1 DEF KeptChunks
<1>8. \A i, j \in DOMAIN free_chunks : free_chunks[i] = free_chunks[j] => i = j
  BY <1>1 DEF Init
<1>9. OneOwner
  BY <1>2, <1>7, <1>8 DEF OneOwner
<1>10. Covered
  <2>1. UNION {Owns(t) : t \in Threads} = {}
    BY <1>2
  <2>2. FreeSet \cup KeptChunks = 1 .. ConfChunks
    BY <1>1 DEF KeptChunks
  <2> QED
    BY <1>1, <2>1, <2>2 DEF Covered
<1> QED
  BY <1>3, <1>4, <1>5, <1>6, <1>9, <1>10 DEF IInv
---------------------------------------------------------------------------
(* A step after which every thread has what it had before, be it in use or *)
(* carried by alloc or dellocate.                                          *)
Same ==
  /\ free_chunks' = free_chunks
  /\ provided' = provided
  /\ \A u \in Threads : Owns(u)' = Owns(u)
  /\ \A u \in Threads : Carries(u)' => chunk'[u] \notin held'[u]

LEMMA SameOwners ==
  ASSUME OneOwner, Covered, Same
  PROVE  OneOwner' /\ Covered'
<1>1. FreeSet' = FreeSet /\ Chunks' = Chunks /\ KeptChunks' = KeptChunks
  BY DEF Same, FreeSet, Chunks, KeptChunks
<1>2. OneOwner'
  BY <1>1 DEF OneOwner, Same
<1>3. {Owns(t) : t \in Threads}' = {Owns(t) : t \in Threads}
  BY DEF Same
<1>4. Covered'
  BY <1>1, <1>3 DEF Covered
<1> QED
  BY <1>2, <1>4
---------------------------------------------------------------------------

LEMMA CallAllocStep ==
  ASSUME IInv, NEW t \in Threads, CallAlloc(t)
  PROVE  IInv'
<1> USE Constants
<1>1. Types'
  BY DEF IInv, Types, Chunks, CallAlloc, Goto
<1>2. Mutex'
  BY DEF IInv, Types, Mutex, Locked, CallAlloc, Goto
<1>3. Ready'
  BY DEF IInv, Types, Mutex, Locked, Ready, Carries, Chunks, Back, CallAlloc, Goto
<1>4. Balance'
  BY DEF IInv, Types, Mutex, Locked, Balance, Ahead, CallAlloc, Goto
<1>5. Same
  BY DEF IInv, Types, Mutex, Locked, OneOwner, Same, Owns, Carries, Chunks, CallAlloc, Goto
<1> QED
  BY <1>1, <1>2, <1>3, <1>4, <1>5, SameOwners DEF IInv

LEMMA LockAllocStep ==
  ASSUME IInv, NEW t \in Threads, LockAlloc(t)
  PROVE  IInv'
<1> USE Constants
<1>1. Types'
  BY DEF IInv, Types, Chunks, LockAlloc, Goto, Lock, CanLock
<1>2. Mutex'
  BY DEF IInv, Types, Mutex, Locked, LockAlloc, Goto, Lock, CanLock
<1>3. Ready'
  BY DEF IInv, Types, Mutex, Locked, Ready, Carries, Chunks, Back, LockAlloc, Goto, Lock, CanLock
<1>4. Balance'
  BY DEF IInv, Types, Mutex, Locked, Balance, Ahead, LockAlloc, Goto, Lock, CanLock
<1>5. Same
  BY DEF IInv, Types, Mutex, Locked, OneOwner, Same, Owns, Carries, Chunks, LockAlloc, Goto, Lock, CanLock
<1> QED
  BY <1>1, <1>2, <1>3, <1>4, <1>5, SameOwners DEF IInv

LEMMA TakeBackStep ==
  ASSUME IInv, NEW t \in Threads, TakeBack(t)
  PROVE  IInv'
<1> USE Constants
<1>1. Types'
  BY DEF IInv, Types, Chunks, TakeBack, Goto, MustRefill, Back, Mutex, Locked
<1>2. Mutex'
  BY DEF IInv, Types, Mutex, Locked, TakeBack, Goto, MustRefill
<1>3. Ready'
  BY DEF IInv, Types, Mutex, Locked, Ready, Carries, Chunks, Back, TakeBack, Goto, MustRefill
<1>4. Balance'
  BY DEF IInv, Types, Mutex, Locked, Balance, Ahead, TakeBack, Goto, MustRefill
<1>5. Same
  BY DEF IInv, Types, Mutex, Locked, OneOwner, Same, Owns, Carries, Chunks, TakeBack, Goto, MustRefill
<1> QED
  BY <1>1, <1>2, <1>3, <1>4, <1>5, SameOwners DEF IInv

LEMMA CountStep ==
  ASSUME IInv, NEW t \in Threads, Count(t)
  PROVE  IInv'
<1> USE Constants
<1>1. Types'
  BY DEF IInv, Types, Chunks, Count, Goto
<1>2. Mutex'
  BY DEF IInv, Types, Mutex, Locked, Count, Goto
<1>3. Ready'
  BY DEF IInv, Types, Mutex, Locked, Ready, Carries, Chunks, Back, Count, Goto
<1>4. Balance'
  <2>1. /\ owner = t /\ owner # NoThread /\ pc[t] = "count" /\ pc'[t] = "monitor"
        /\ owner' = owner /\ used_chunks' = used_chunks + 1
        /\ free_chunks' = free_chunks /\ provided' = provided
    BY DEF IInv, Types, Mutex, Locked, Count, Goto
  <2>2. Ahead = -1 /\ Ahead' = 0
    BY <2>1 DEF Ahead
  <2>3. used_chunks \in Int /\ Len(free_chunks) \in Nat /\ provided \in Nat
    BY DEF IInv, Types
  <2> QED
    BY <2>1, <2>2, <2>3 DEF IInv, Balance
<1>5. Same
  BY DEF IInv, Types, Mutex, Locked, OneOwner, Same, Owns, Carries, Chunks, Count, Goto
<1> QED
  BY <1>1, <1>2, <1>3, <1>4, <1>5, SameOwners DEF IInv

LEMMA UnlockAllocStep ==
  ASSUME IInv, NEW t \in Threads, UnlockAlloc(t)
  PROVE  IInv'
<1> USE Constants
<1>1. Types'
  BY DEF IInv, Types, Chunks, UnlockAlloc, Goto
<1>2. Mutex'
  BY DEF IInv, Types, Mutex, Locked, UnlockAlloc, Goto
<1>3. Ready'
  BY DEF IInv, Types, Mutex, Locked, Ready, Carries, Chunks, Back, UnlockAlloc, Goto
<1>4. Balance'
  BY DEF IInv, Types, Mutex, Locked, Balance, Ahead, UnlockAlloc, Goto
<1>5. Same
  BY DEF IInv, Types, Mutex, Locked, OneOwner, Same, Owns, Carries, Chunks, UnlockAlloc, Goto
<1> QED
  BY <1>1, <1>2, <1>3, <1>4, <1>5, SameOwners DEF IInv

LEMMA ClearStep ==
  ASSUME IInv, NEW t \in Threads, Clear(t)
  PROVE  IInv'
<1> USE Constants
<1>1. Types'
  BY DEF IInv, Types, Ready, Carries, Chunks, Clear, Goto
<1>2. Mutex'
  BY DEF IInv, Types, Mutex, Locked, Clear, Goto
<1>3. Ready'
  BY DEF IInv, Types, Mutex, Locked, Ready, Carries, Chunks, Back, Clear, Goto
<1>4. Balance'
  BY DEF IInv, Types, Mutex, Locked, Balance, Ahead, Clear, Goto
<1>5. Same
  BY DEF IInv, Types, Mutex, Locked, OneOwner, Same, Owns, Carries, Chunks, Clear, Goto
<1> QED
  BY <1>1, <1>2, <1>3, <1>4, <1>5, SameOwners DEF IInv

LEMMA CallFreeStep ==
  ASSUME IInv, NEW t \in Threads, CallFree(t)
  PROVE  IInv'
<1> USE Constants
<1>1. Types'
  BY DEF IInv, Types, Chunks, CallFree, Goto
<1>2. Mutex'
  BY DEF IInv, Types, Mutex, Locked, CallFree, Goto
<1>3. Ready'
  BY DEF IInv, Types, Mutex, Locked, Ready, Carries, Chunks, Back, CallFree, Goto
<1>4. Balance'
  BY DEF IInv, Types, Mutex, Locked, Balance, Ahead, CallFree, Goto
<1>5. Same
  BY DEF IInv, Types, Mutex, Locked, OneOwner, Same, Owns, Carries, Chunks, CallFree, Goto
<1> QED
  BY <1>1, <1>2, <1>3, <1>4, <1>5, SameOwners DEF IInv

LEMMA LockFreeStep ==
  ASSUME IInv, NEW t \in Threads, LockFree(t)
  PROVE  IInv'
<1> USE Constants
<1>1. Types'
  BY DEF IInv, Types, Chunks, LockFree, Goto, Lock, CanLock
<1>2. Mutex'
  BY DEF IInv, Types, Mutex, Locked, LockFree, Goto, Lock, CanLock
<1>3. Ready'
  BY DEF IInv, Types, Mutex, Locked, Ready, Carries, Chunks, Back, LockFree, Goto, Lock, CanLock
<1>4. Balance'
  BY DEF IInv, Types, Mutex, Locked, Balance, Ahead, LockFree, Goto, Lock, CanLock
<1>5. Same
  BY DEF IInv, Types, Mutex, Locked, OneOwner, Same, Owns, Carries, Chunks, LockFree, Goto, Lock, CanLock
<1> QED
  BY <1>1, <1>2, <1>3, <1>4, <1>5, SameOwners DEF IInv

LEMMA UncountStep ==
  ASSUME IInv, NEW t \in Threads, Uncount(t)
  PROVE  IInv'
<1> USE Constants
<1>1. Types'
  BY DEF IInv, Types, Chunks, Uncount, Goto, Uncounted
<1>2. Mutex'
  BY DEF IInv, Types, Mutex, Locked, Uncount, Goto, Uncounted
<1>3. Ready'
  BY DEF IInv, Types, Mutex, Locked, Ready, Carries, Chunks, Back, Uncount, Goto, Uncounted
<1>4. Balance'
  BY DEF IInv, Types, Mutex, Locked, Balance, Ahead, Uncount, Goto, Uncounted
<1>5. Same
  BY DEF IInv, Types, Mutex, Locked, OneOwner, Same, Owns, Carries, Chunks, Uncount, Goto, Uncounted
<1> QED
  BY <1>1, <1>2, <1>3, <1>4, <1>5, SameOwners DEF IInv

LEMMA UnlockFreeStep ==
  ASSUME IInv, NEW t \in Threads, UnlockFree(t)
  PROVE  IInv'
<1> USE Constants
<1>1. Types'
  BY DEF IInv, Types, Chunks, UnlockFree, Goto
<1>2. Mutex'
  BY DEF IInv, Types, Mutex, Locked, UnlockFree, Goto
<1>3. Ready'
  BY DEF IInv, Types, Mutex, Locked, Ready, Carries, Chunks, Back, UnlockFree, Goto
<1>4. Balance'
  BY DEF IInv, Types, Mutex, Locked, Balance, Ahead, UnlockFree, Goto
<1>5. Same
  BY DEF IInv, Types, Mutex, Locked, OneOwner, Same, Owns, Carries, Chunks, UnlockFree, Goto
<1> QED
  BY <1>1, <1>2, <1>3, <1>4, <1>5, SameOwners DEF IInv

(* The refill makes new chunks, which are free. *)
LEMMA RefillStep ==
  ASSUME IInv, NEW t \in Threads, Refill(t)
  PROVE  IInv'
<1> USE Constants
<1>1. /\ free_chunks = << >>
      /\ free_chunks' = [i \in 1 .. RefillNum |-> provided + i]
      /\ provided' = provided + RefillNum
      /\ UNCHANGED <<owner, used_chunks, pc, chunk, held>>
  BY DEF IInv, Types, Refill, MustRefill, Refilled
<1>2. Types'
  <2>1. free_chunks' \in Seq(Chunks')
    BY <1>1 DEF IInv, Types, Chunks
  <2>2. held' \in [Threads -> SUBSET Chunks']
    BY <1>1 DEF IInv, Types, Chunks
  <2>3. chunk' \in [Threads -> 0 .. provided']
    BY <1>1 DEF IInv, Types
  <2> QED
    BY <1>1, <2>1, <2>2, <2>3 DEF IInv, Types
<1>3. Mutex'
  BY <1>1 DEF IInv, Mutex, Locked
<1>4. Ready'
  BY <1>1 DEF IInv, Types, Mutex, Locked, Ready, Carries, Chunks, Refill
<1>5. Balance'
  BY <1>1 DEF IInv, Types, Mutex, Locked, Balance, Ahead, Refill
<1>6. \A u \in Threads : Owns(u)' = Owns(u)
  BY <1>1 DEF Owns, Carries
<1>7. /\ FreeSet = {}
      /\ FreeSet' = (provided + 1) .. (provided + RefillNum)
  <2>1. DOMAIN free_chunks = {} /\ DOMAIN free_chunks' = 1 .. RefillNum
    BY <1>1
  <2>2. \A i \in 1 .. RefillNum : free_chunks'[i] = provided + i
    BY <1>1
  <2>3. \A c \in (provided + 1) .. (provided + RefillNum) :
          c - provided \in 1 .. RefillNum /\ c = provided + (c - provided)
    BY DEF IInv, Types
  <2>4. \A i \in 1 .. RefillNum :
          provided + i \in (provided + 1) .. (provided + RefillNum)
    BY DEF IInv, Types
  <2>5. FreeSet = {}
    BY <2>1 DEF FreeSet
  <2>6. FreeSet' = {provided + i : i \in 1 .. RefillNum}
    BY <2>1, <2>2 DEF FreeSet
  <2> QED
    BY <2>3, <2>4, <2>5, <2>6
<1>8. \A u \in Threads : Owns(u) \subseteq Chunks
  BY DEF IInv, Types, Ready, Owns
<1>9. OneOwner'
  <2>1. FreeSet' \cap KeptChunks = {}
    BY <1>7 DEF IInv, Types
  <2>2. \A u \in Threads : Owns(u)' \cap (FreeSet' \cup KeptChunks) = {}
    BY <1>6, <1>7, <1>8 DEF IInv, Types, Chunks, OneOwner
  <2>3. \A i, j \in DOMAIN free_chunks' :
          free_chunks'[i] = free_chunks'[j] => i = j
    BY <1>1 DEF IInv, Types
  <2> QED
    BY <1>1, <1>6, <2>1, <2>2, <2>3 DEF IInv, OneOwner, Carries, KeptChunks
<1>10. Covered'
  <2>1. Chunks' = Chunks \cup FreeSet'
    BY <1>1, <1>7 DEF IInv, Types, Chunks
  <2>2. {Owns(u) : u \in Threads}' = {Owns(u) : u \in Threads}
    BY <1>6
  <2> QED
    BY <1>7, <2>1, <2>2 DEF IInv, Covered, KeptChunks
<1> QED
  BY <1>2, <1>3, <1>4, <1>5, <1>9, <1>10 DEF IInv

(* What pop_back takes out of the free chunks, and nothing else. *)
LEMMA PopBackMoves ==
  ASSUME IInv, NEW t \in Threads, PopBack(t)
  PROVE  /\ chunk[t] \in FreeSet
         /\ FreeSet' = FreeSet \ {chunk[t]}
         /\ Owns(t)' = Owns(t) \cup {chunk[t]}
         /\ \A u \in Threads \ {t} : Owns(u)' = Owns(u)
<1> DEFINE n == Len(free_chunks)
<1>1. /\ free_chunks \in Seq(Chunks)
      /\ n \in Nat /\ n > 0
      /\ chunk[t] = free_chunks[n]
      /\ DOMAIN free_chunks = 1 .. n
  BY DEF IInv, Types, Ready, Back, PopBack
<1>2. /\ DOMAIN free_chunks' = 1 .. n - 1
      /\ \A i \in 1 .. n - 1 : free_chunks'[i] = free_chunks[i]
  BY <1>1 DEF PopBack, Popped
<1> HIDE DEF n
<1>3. \A i \in 1 .. n - 1 : free_chunks[i] # free_chunks[n]
  BY <1>1 DEF IInv, OneOwner
<1>4. chunk[t] \in FreeSet
  BY <1>1 DEF FreeSet
<1>5. FreeSet' = FreeSet \ {chunk[t]}
  <2>1. FreeSet = {free_chunks[i] : i \in 1 .. n}
    BY <1>1 DEF FreeSet
  <2>2. FreeSet' = {free_chunks[i] : i \in 1 .. n - 1}
    BY <1>2 DEF FreeSet
  <2>3. \A i \in 1 .. n : i = n \/ i \in 1 .. n - 1
    BY <1>1
  <2>4. \A i \in 1 .. n - 1 : i \in 1 .. n
    BY <1>1
  <2> QED
    BY <1>1, <1>3, <2>1, <2>2, <2>3, <2>4
<1>6. Owns(t)' = Owns(t) \cup {chunk[t]}
  BY DEF IInv, Types, PopBack, Goto, Owns, Carries
<1>7. \A u \in Threads \ {t} : Owns(u)' = Owns(u)
  BY DEF IInv, Types, PopBack, Goto, Owns, Carries
<1> QED
  BY <1>4, <1>5, <1>6, <1>7

LEMMA PopBackStep ==
  ASSUME IInv, NEW t \in Threads, PopBack(t)
  PROVE  IInv'
<1> USE Constants
<1>1. /\ free_chunks' \in Seq(Chunks)
      /\ Len(free_chunks') = Len(free_chunks) - 1
      /\ DOMAIN free_chunks' \subseteq DOMAIN free_chunks
      /\ \A i \in DOMAIN free_chunks' : free_chunks'[i] = free_chunks[i]
  <2>1. /\ free_chunks \in Seq(Chunks)
        /\ Len(free_chunks) \in Nat /\ Len(free_chunks) > 0
        /\ free_chunks' = SubSeq(free_chunks, 1, Len(free_chunks) - 1)
    BY DEF IInv, Types, Ready, PopBack, Popped
  <2>2. /\ DOMAIN free_chunks = 1 .. Len(free_chunks)
        /\ DOMAIN free_chunks' = 1 .. Len(free_chunks) - 1
    BY <2>1
  <2>3. /\ free_chunks' \in Seq(Chunks)
        /\ Len(free_chunks') = Len(free_chunks) - 1
    <3>1. \A i \in 1 .. Len(free_chunks) - 1 : free_chunks[i] \in Chunks
      BY <2>1
    <3> DEFINE n == Len(free_chunks) - 1
    <3>2. n \in Int /\ n >= 0 /\ 1 \in Int
      BY <2>1
    <3>3. free_chunks' = SubSeq(free_chunks, 1, n)
      BY <2>1
    <3> HIDE DEF n
    <3>4. /\ SubSeq(free_chunks, 1, n) \in Seq(Chunks)
          /\ Len(SubSeq(free_chunks, 1, n)) = IF 1 <= n THEN n - 1 + 1 ELSE 0
      BY <3>1, <3>2, SubSeqProperties DEF n
    <3>5. Len(SubSeq(free_chunks, 1, n)) = n
      BY <3>2, <3>4
    <3> QED
      BY <3>3, <3>4, <3>5 DEF n
  <2>4. \A i \in DOMAIN free_chunks' : free_chunks'[i] = free_chunks[i]
    BY <2>1, <2>2
  <2> QED
    BY <2>1, <2>2, <2>3, <2>4
<1>m. /\ chunk[t] \in FreeSet
      /\ FreeSet' = FreeSet \ {chunk[t]}
      /\ Owns(t)' = Owns(t) \cup {chunk[t]}
      /\ \A u \in Threads \ {t} : Owns(u)' = Owns(u)
  BY PopBackMoves
<1>2. Types'
  BY <1>1 DEF IInv, Types, Chunks, PopBack, Goto
<1>3. Mutex'
  BY DEF IInv, Types, Mutex, Locked, PopBack, Goto
<1>4. Ready'
  <2>1. chunk[t] \in Chunks
    BY <1>m DEF IInv, Types, FreeSet
  <2> QED
    BY <2>1 DEF IInv, Types, Mutex, Locked, Ready, Carries, Chunks, PopBack, Goto
<1>5. Balance'
  BY <1>1 DEF IInv, Types, Mutex, Locked, Balance, Ahead, PopBack, Goto
<1>6. OneOwner'
  <2>1. \A i, j \in DOMAIN free_chunks' :
          free_chunks'[i] = free_chunks'[j] => i = j
    BY <1>1 DEF IInv, OneOwner
  <2>2. FreeSet' \cap KeptChunks = {} /\ KeptChunks' = KeptChunks
    BY <1>m DEF IInv, OneOwner, KeptChunks
  <2>3. \A u \in Threads : Owns(u)' \cap (FreeSet' \cup KeptChunks) = {}
    BY <1>m DEF IInv, OneOwner
  <2>4. chunk[t] \notin held[t]
    BY <1>m DEF IInv, OneOwner, Owns
  <2>5. \A u \in Threads : Carries(u)' => chunk'[u] \notin held'[u]
    BY <2>4 DEF IInv, Types, OneOwner, Carries, PopBack, Goto
  <2>6. \A u, v \in Threads : u # v => Owns(u)' \cap Owns(v)' = {}
    BY <1>m DEF IInv, OneOwner
  <2> QED
    BY <2>1, <2>2, <2>3, <2>5, <2>6 DEF OneOwner
<1>7. Covered'
  <2>1. UNION {Owns(u)' : u \in Threads}
          = (UNION {Owns(u) : u \in Threads}) \cup {chunk[t]}
    BY <1>m
  <2>2. Chunks' = Chunks /\ KeptChunks' = KeptChunks
    BY DEF PopBack, Chunks, KeptChunks
  <2> QED
    BY <1>m, <2>1, <2>2 DEF IInv, Covered
<1> QED
  BY <1>2, <1>3, <1>4, <1>5, <1>6, <1>7 DEF IInv

(* What push_back adds to the free chunks, and nothing else. *)
LEMMA PushBackMoves ==
  ASSUME IInv, NEW t \in Threads, PushBack(t)
  PROVE  /\ chunk[t] \in Owns(t)
         /\ FreeSet' = FreeSet \cup {chunk[t]}
         /\ Owns(t)' = Owns(t) \ {chunk[t]}
         /\ \A u \in Threads \ {t} : Owns(u)' = Owns(u)
<1> DEFINE n == Len(free_chunks)
<1>1. /\ free_chunks \in Seq(Chunks)
      /\ n \in Nat
      /\ DOMAIN free_chunks = 1 .. n
      /\ chunk[t] \in Chunks
  BY DEF IInv, Types, Ready, Carries, PushBack
<1>2. /\ DOMAIN free_chunks' = 1 .. n + 1
      /\ \A i \in 1 .. n : free_chunks'[i] = free_chunks[i]
      /\ free_chunks'[n + 1] = chunk[t]
  BY <1>1 DEF PushBack
<1>3. FreeSet' = FreeSet \cup {chunk[t]}
  <2>1. FreeSet = {free_chunks[i] : i \in 1 .. n}
    BY <1>1 DEF FreeSet
  <2>2. FreeSet' = {free_chunks'[i] : i \in 1 .. n + 1}
    BY <1>2 DEF FreeSet
  <2>3. \A i \in 1 .. n + 1 : i = n + 1 \/ i \in 1 .. n
    BY <1>1
  <2>4. n + 1 \in 1 .. n + 1 /\ \A i \in 1 .. n : i \in 1 .. n + 1
    BY <1>1
  <2> QED
    BY <1>2, <2>1, <2>2, <2>3, <2>4
<1>4. chunk[t] \in Owns(t) /\ Owns(t)' = Owns(t) \ {chunk[t]}
  BY DEF IInv, Types, OneOwner, PushBack, Goto, Owns, Carries
<1>5. \A u \in Threads \ {t} : Owns(u)' = Owns(u)
  BY DEF IInv, Types, PushBack, Goto, Owns, Carries
<1> QED
  BY <1>3, <1>4, <1>5

LEMMA PushBackStep ==
  ASSUME IInv, NEW t \in Threads, PushBack(t)
  PROVE  IInv'
<1> USE Constants
<1>1. /\ free_chunks \in Seq(Chunks)
      /\ chunk[t] \in Chunks
      /\ free_chunks' = Append(free_chunks, chunk[t])
  BY DEF IInv, Types, Ready, Carries, PushBack
<1>m. /\ chunk[t] \in Owns(t)
      /\ FreeSet' = FreeSet \cup {chunk[t]}
      /\ Owns(t)' = Owns(t) \ {chunk[t]}
      /\ \A u \in Threads \ {t} : Owns(u)' = Owns(u)
  BY PushBackMoves
<1>2. Types'
  BY <1>1 DEF IInv, Types, Chunks, PushBack, Goto
<1>3. Mutex'
  BY DEF IInv, Types, Mutex, Locked, PushBack, Goto
<1>4. Ready'
  <2>1. /\ owner = t /\ pc' = [pc EXCEPT ![t] = "uncount"]
        /\ chunk' = chunk /\ provided' = provided
        /\ \A u \in Threads \ {t} : ~Locked(u)
    BY DEF IInv, Types, Mutex, Locked, PushBack, Goto
  <2>2. free_chunks' # << >>
    BY <1>1
  <2>3. \A u \in Threads \ {t} : pc'[u] = pc[u] /\ pc[u] # "pop"
    BY <2>1 DEF IInv, Types, Locked
  <2>4. pc'[t] = "uncount"
    BY <2>1 DEF IInv, Types
  <2> QED
    BY <2>1, <2>2, <2>3, <2>4 DEF IInv, Ready, Carries, Chunks
<1>5. Balance'
  BY <1>1 DEF IInv, Types, Mutex, Locked, Balance, Ahead, PushBack, Goto
<1>6. OneOwner'
  <2>1. chunk[t] \notin FreeSet
    BY <1>m DEF IInv, OneOwner
  <2>2. \A i, j \in DOMAIN free_chunks' :
          free_chunks'[i] = free_chunks'[j] => i = j
    BY <1>1, <2>1 DEF IInv, OneOwner, FreeSet
  <2>3. FreeSet' \cap KeptChunks = {} /\ KeptChunks' = KeptChunks
    BY <1>m DEF IInv, OneOwner, KeptChunks
  <2>4. \A u \in Threads : Owns(u)' \cap (FreeSet' \cup KeptChunks) = {}
    BY <1>m DEF IInv, OneOwner
  <2>5. \A u \in Threads : Carries(u)' => chunk'[u] \notin held'[u]
    BY DEF IInv, Types, OneOwner, Carries, PushBack, Goto
  <2>6. \A u, v \in Threads : u # v => Owns(u)' \cap Owns(v)' = {}
    BY <1>m DEF IInv, OneOwner
  <2> QED
    BY <2>2, <2>3, <2>4, <2>5, <2>6 DEF OneOwner
<1>7. Covered'
  <2>1. UNION {Owns(u) : u \in Threads}
          = (UNION {Owns(u)' : u \in Threads}) \cup {chunk[t]}
    BY <1>m
  <2>2. Chunks' = Chunks /\ KeptChunks' = KeptChunks
    BY DEF PushBack, Chunks, KeptChunks
  <2> QED
    BY <1>m, <2>1, <2>2 DEF IInv, Covered
<1> QED
  BY <1>2, <1>3, <1>4, <1>5, <1>6, <1>7 DEF IInv
---------------------------------------------------------------------------
LEMMA StepIInv == IInv /\ [Next]_vars => IInv'
<1> SUFFICES ASSUME IInv, [Next]_vars PROVE IInv'
  OBVIOUS
<1>1. CASE UNCHANGED vars
  <2>1. Types' /\ Mutex' /\ Ready' /\ Balance'
    BY <1>1 DEF IInv, vars, Types, Chunks, Mutex, Locked, Ready, Carries, Back,
                Balance, Ahead
  <2>2. Same
    BY <1>1 DEF IInv, vars, Same, Owns, Carries, OneOwner
  <2> QED
    BY <2>1, <2>2, SameOwners DEF IInv
<1>2. ASSUME NEW t \in Threads, Inside(t) PROVE IInv'
  BY <1>2, RefillStep, TakeBackStep, PopBackStep, CountStep, UnlockAllocStep,
     PushBackStep, UncountStep, UnlockFreeStep DEF Inside
<1>3. ASSUME NEW t \in Threads, Outside(t) PROVE IInv'
  BY <1>3, CallAllocStep, LockAllocStep, ClearStep, CallFreeStep, LockFreeStep
  DEF Outside
<1> QED
  BY <1>1, <1>2, <1>3 DEF Next

(* The mutex, the places of the threads and the counters are always as     *)
(* IInv says.                                                              *)
THEOREM Invariant == Spec => []IInv
<1>1. Init => IInv
  BY InitIInv
<1>2. IInv /\ [Next]_vars => IInv'
  BY StepIInv
<1> QED
  BY <1>1, <1>2, PTL DEF Spec

(* alloc and dellocate never give a chunk two owners, and never put one    *)
(* into _free_chunks twice, for any number of threads.                     *)
THEOREM OwnedByOne == Spec => []OneOwner
<1>1. IInv => OneOwner
  BY DEF IInv
<1> QED
  BY <1>1, Invariant, PTL

(* No chunk is lost, and _used_chunks counts those in use whenever the     *)
(* mutex is free.                                                          *)
THEOREM NothingLost == Spec => []Conserved
<1>1. IInv => Conserved
  <2> SUFFICES ASSUME IInv, owner = NoThread PROVE Conserved
    BY DEF Conserved
  <2>1. used_chunks + Len(free_chunks) = provided
    BY DEF IInv, Types, Balance, Ahead
  <2> QED
    BY <2>1 DEF IInv, Covered, Conserved
<1> QED
  BY <1>1, Invariant, PTL

(* The two numbers the monitor is given add up to the chunks there are,    *)
(* and the chunk that is about to be returned is among the used ones.      *)
THEOREM MonitorSeesAll == Spec => []MonitorExact
<1>1. IInv => MonitorExact
  <2> SUFFICES ASSUME IInv, NEW t \in Threads, pc[t] = "monitor"
               PROVE  /\ used_chunks + Len(free_chunks) = provided
                      /\ chunk[t] \notin FreeSet
    BY DEF MonitorExact
  <2>1. owner = t /\ owner # NoThread
    BY Constants DEF IInv, Mutex, Locked
  <2>2. used_chunks + Len(free_chunks) = provided
    BY <2>1 DEF IInv, Types, Balance, Ahead
  <2>3. chunk[t] \in Owns(t)
    BY DEF Owns, Carries
  <2> QED
    BY <2>2, <2>3 DEF IInv, OneOwner
<1> QED
  BY <1>1, Invariant, PTL
---------------------------------------------------------------------------
(* There are never more free chunks than chunks. *)
LEMMA FreeAtMost ==
  ASSUME IInv, NEW n \in Nat, FreeSet \subseteq 1 .. n
  PROVE  Len(free_chunks) <= n
<1>1. Len(free_chunks) \in Nat /\ DOMAIN free_chunks = 1 .. Len(free_chunks)
  BY DEF IInv, Types
<1> DEFINE f == [i \in 1 .. Len(free_chunks) |-> free_chunks[i]]
<1>2. f \in Injection(1 .. Len(free_chunks), 1 .. n)
  <2>1. \A i \in 1 .. Len(free_chunks) : free_chunks[i] \in 1 .. n
    BY <1>1 DEF FreeSet
  <2>2. f \in [1 .. Len(free_chunks) -> 1 .. n]
    BY <2>1
  <2>3. \A i, j \in 1 .. Len(free_chunks) : f[i] = f[j] => i = j
    BY <1>1 DEF IInv, OneOwner
  <2> QED
    BY <2>2, <2>3 DEF Injection, IsInjective
<1>3. /\ IsFiniteSet(1 .. n) /\ Cardinality(1 .. n) = n
      /\ Cardinality(1 .. Len(free_chunks)) = Len(free_chunks)
  <2>1. \A k \in Nat : IsFiniteSet(1 .. k) /\ Cardinality(1 .. k) = k
    <3> SUFFICES ASSUME NEW k \in Nat
                 PROVE  IsFiniteSet(1 .. k) /\ Cardinality(1 .. k) = k
      OBVIOUS
    <3>1. 1 \in Int /\ k \in Int
      OBVIOUS
    <3>2. /\ IsFiniteSet(1 .. k)
          /\ Cardinality(1 .. k) = IF 1 > k THEN 0 ELSE k - 1 + 1
      BY <3>1, FS_Interval
    <3> QED
      BY <3>2
  <2> QED
    BY <1>1, <2>1
<1>4. Cardinality(1 .. Len(free_chunks)) <= Cardinality(1 .. n)
  BY <1>2, <1>3, FS_Injection
<1> QED
  BY <1>3, <1>4

(* When there are as many, every chunk is free. *)
LEMMA FullSet ==
  ASSUME IInv, NEW n \in Nat, FreeSet \subseteq 1 .. n, Len(free_chunks) = n,
         NEW c \in 1 .. n
  PROVE  c \in FreeSet
<1>1. DOMAIN free_chunks = 1 .. n
  BY DEF IInv, Types
<1> DEFINE f == [i \in 1 .. n |-> free_chunks[i]]
<1>2. f \in Injection(1 .. n, 1 .. n)
  <2>1. \A i \in 1 .. n : free_chunks[i] \in 1 .. n
    BY <1>1 DEF FreeSet
  <2>2. \A i, j \in 1 .. n : f[i] = f[j] => i = j
    BY <1>1 DEF IInv, OneOwner
  <2>3. f \in [1 .. n -> 1 .. n]
    BY <2>1
  <2> QED
    BY <2>2, <2>3, Fun_IsInj
<1>3. IsFiniteSet(1 .. n)
  <2>1. 1 \in Int /\ n \in Int
    OBVIOUS
  <2> QED
    BY <2>1, FS_Interval
<1> HIDE DEF f
<1>4. f \in Surjection(1 .. n, 1 .. n)
  BY <1>2, <1>3, FS_Injection
<1>5. PICK i \in 1 .. n : f[i] = c
  BY <1>4 DEF Surjection
<1> QED
  BY <1>1, <1>5 DEF f, FreeSet

(* The counter stays between 0 and the number of chunks: it is never       *)
(* decremented for a chunk that was not counted.                           *)
THEOREM Typed == Spec => []TypeOK
<1>1. IInv => TypeOK
  <2> SUFFICES ASSUME IInv PROVE used_chunks \in 0 .. provided
    BY DEF IInv, Types, TypeOK
  <2> USE Constants
  <2>1. FreeSet \subseteq 1 .. provided
    BY DEF IInv, Types, FreeSet, Chunks
  <2>2. /\ Len(free_chunks) \in Nat /\ provided \in Nat
        /\ used_chunks \in Int
        /\ Len(free_chunks) <= provided
    BY <2>1, FreeAtMost DEF IInv, Types
  <2>3. CASE Ahead = 0
    BY <2>2, <2>3 DEF IInv, Balance
  <2>4. CASE Ahead = 1
    <3>1. owner \in Threads /\ pc[owner] = "uncount"
      BY <2>4 DEF Ahead, IInv, Types
    <3>2. Len(free_chunks) > 0
      BY <3>1, <2>2 DEF IInv, Ready, Types
    <3> QED
      BY <2>2, <2>4, <3>2 DEF IInv, Balance
  <2>5. CASE Ahead = -1
    <3>1. owner \in Threads /\ pc[owner] = "count"
      BY <2>5 DEF Ahead, IInv, Types
    <3>2. /\ chunk[owner] \in 1 .. provided
          /\ chunk[owner] \notin FreeSet
      BY <3>1 DEF IInv, Ready, Carries, Chunks, OneOwner, Owns
    <3>3. Len(free_chunks) # provided
      BY <2>1, <2>2, <3>2, FullSet
    <3> QED
      BY <2>2, <2>5, <3>3 DEF IInv, Balance
  <2> QED
    BY <2>3, <2>4, <2>5 DEF Ahead
<1> QED
  BY <1>1, Invariant, PTL

(* The system is asked for chunks only when every chunk it has provided is *)
(* in use.                                                                 *)
THEOREM RefillsLate == Spec => LazyRefill
<1>1. IInv /\ [Next]_vars => [provided' # provided => used_chunks = provided]_vars
  <2> SUFFICES ASSUME IInv, Next, provided' # provided
               PROVE  used_chunks = provided
    OBVIOUS
  <2>1. PICK t \in Threads : Refill(t)
    BY DEF Next, Inside, Outside, TakeBack, PopBack, Count, UnlockAlloc, Clear,
           PushBack, Uncount, UnlockFree, CallAlloc, LockAlloc, CallFree, LockFree
  <2>2. /\ owner = t /\ owner # NoThread
        /\ pc[t] = "back" /\ free_chunks = << >>
    BY <2>1, Constants DEF IInv, Mutex, Locked, Refill, MustRefill
  <2> QED
    BY <2>2 DEF IInv, Types, Balance, Ahead
<1> QED
  BY <1>1, Invariant, PTL DEF Spec, LazyRefill

(* The source implements ChunkOwners: a thread is only ever given a chunk  *)
(* nobody has.                                                             *)
THEOREM Implements == Spec => KeepsOwners
<1> DEFINE owned == [t \in Threads |-> Owns(t)]
<1>1. Init => Owners!Init
  BY DEF Init, Owners!Init, Owns, Carries
<1>2. IInv /\ [Next]_vars => [Owners!Next]_owned
  <2> SUFFICES ASSUME IInv, Next PROVE Owners!Next \/ owned' = owned
    <3>1. UNCHANGED vars => owned' = owned
      BY DEF vars, Owns, Carries
    <3> QED
      BY <3>1
  <2>1. PICK t \in Threads : Inside(t) \/ Outside(t)
    BY DEF Next
  <2>2. CASE PopBack(t)
    <3>1. /\ chunk[t] \in FreeSet
          /\ Owns(t)' = Owns(t) \cup {chunk[t]}
          /\ \A u \in Threads \ {t} : Owns(u)' = Owns(u)
      BY <2>2, PopBackMoves
    <3>2. owned' = [owned EXCEPT ![t] = @ \cup {chunk[t]}]
      BY <3>1
    <3>3. chunk[t] \notin Owners!Owned
      BY <3>1 DEF IInv, OneOwner, Owners!Owned
    <3>4. Owners!Take(t)
      BY <3>1, <3>2, <3>3 DEF Owners!Take
    <3> QED
      BY <3>4 DEF Owners!Next
  <2>3. CASE PushBack(t)
    <3>1. /\ chunk[t] \in Owns(t)
          /\ Owns(t)' = Owns(t) \ {chunk[t]}
          /\ \A u \in Threads \ {t} : Owns(u)' = Owns(u)
      BY <2>3, PushBackMoves
    <3>2. owned' = [owned EXCEPT ![t] = @ \ {chunk[t]}]
      BY <3>1
    <3>3. Owners!Give(t)
      BY <3>1, <3>2 DEF Owners!Give
    <3> QED
      BY <3>3 DEF Owners!Next
  <2>4. CASE ~PopBack(t) /\ ~PushBack(t)
    <3>1. \A u \in Threads : Owns(u)' = Owns(u)
      BY <2>1, <2>4
      DEF IInv, Types, Owns, Carries, Inside, Outside, Refill, TakeBack, Count,
          UnlockAlloc, Clear, Uncount, UnlockFree, CallAlloc, LockAlloc, CallFree,
          LockFree, Goto
    <3> QED
      BY <3>1
  <2> QED
    BY <2>2, <2>3, <2>4
<1> QED
  BY <1>1, <1>2, Invariant, PTL DEF Spec, KeepsOwners, Owners!Spec
=============================================================================
