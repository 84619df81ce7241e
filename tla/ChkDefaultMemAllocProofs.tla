---------------------- MODULE ChkDefaultMemAllocProofs ----------------------
(***************************************************************************)
(* Proofs about ChkDefaultMemAlloc, for any threads, any images and any    *)
(* width of the counter: the types, the mutex, and that the sizes which    *)
(* callers give are those of their blocks.                                 *)
(***************************************************************************)
EXTENDS ChkDefaultMemAlloc, FiniteSetTheorems, WellFoundedInduction, TLAPS

(* Between lock and unlock. *)
Inside == {"memory", "load_plus", "plus", "load_minus", "minus", "unlock"}

(* A call has not touched the memory yet, or has. *)
Before == {"lock", "memory"}
After == {"load_plus", "plus", "load_minus", "minus", "unlock", "done"}

Mutex == \A t \in Threads : pc[t] \in Inside <=> owner = t

(* The block of a thread, as its image and its call have it: without a     *)
(* call it is the image, before a call has touched the memory it is the    *)
(* org_size given, and after it is what the call returned.                 *)
Agrees(t) ==
  /\ pc[t] = "out" => block[t] = image[t].len /\ ~null[t]
  /\ pc[t] \in Before =>
       /\ ~null[t]
       /\ \/ call[t] = AllocOf(image[t]) /\ block[t] = 0
          \/ call[t] = ReallocOf(image[t]) /\ block[t] = image[t].most
          \/ call[t] = FreeOf(block[t])
  /\ pc[t] \in After =>
       \/ call[t] = AllocOf(image[t]) /\ block[t] = image[t].most /\ ~null[t]
       \/ /\ call[t] = ReallocOf(image[t])
          /\ block[t] = IF null[t] THEN image[t].most ELSE image[t].len
       \/ call[t].op = "free" /\ call[t].size = 0 /\ block[t] = 0 /\ ~null[t]

IInv ==
  /\ TypeOK
  /\ Mutex
  /\ \A t \in Threads : Agrees(t)

---------------------------------------------------------------------------
(* What a call is, as a record. *)
LEMMA Calls ==
  /\ \A i : AllocOf(i).op = "alloc" /\ AllocOf(i).size = i.most
  /\ \A i : /\ ReallocOf(i).op = "realloc"
            /\ ReallocOf(i).org_size = i.most /\ ReallocOf(i).size = i.len
  /\ \A b : FreeOf(b).op = "free" /\ FreeOf(b).org_size = b /\ FreeOf(b).size = 0
  BY DEF AllocOf, ReallocOf, FreeOf

(* The calls have the type of calls. *)
LEMMA CallTypes ==
  ASSUME TypeOK, NEW t \in Threads
  PROVE  /\ image[t].most \in Nat /\ image[t].len \in Nat
         /\ \A i \in Images : i.most \in Nat /\ i.len \in Nat
  BY DefaultAssumption DEF TypeOK, NoImage

LEMMA InitIInv == Init => IInv
<1> SUFFICES ASSUME Init PROVE IInv
  OBVIOUS
<1>1. TypeOK
  <2>1. NoCall \in [op : {"none", "alloc", "realloc", "free"}, org_size : Nat, size : Nat]
    BY DEF NoCall
  <2>2. 0 \in 0 .. WordSize - 1
    BY DefaultAssumption
  <2> QED
    BY <2>1, <2>2 DEF Init, TypeOK
<1>2. Mutex
  BY DefaultAssumption DEF Init, Mutex, Inside
<1>3. \A t \in Threads : Agrees(t)
  BY DEF Init, Agrees, NoImage, Before, After
<1> QED
  BY <1>1, <1>2, <1>3 DEF IInv

(* A step of thread t alone: the other threads agree as before. *)
LEMMA OthersAgree ==
  ASSUME IInv, NEW t \in Threads,
         \A u \in Threads \ {t} :
           /\ pc'[u] = pc[u] /\ call'[u] = call[u] /\ image'[u] = image[u]
           /\ block'[u] = block[u] /\ null'[u] = null[u],
         Agrees(t)'
  PROVE  \A u \in Threads : Agrees(u)'
<1> SUFFICES ASSUME NEW u \in Threads, u # t PROVE Agrees(u)'
  OBVIOUS
<1> QED
  BY DEF IInv, Agrees

(* The steps of a caller: one per action. *)
LEMMA CompressStep ==
  ASSUME IInv, NEW t \in Threads, Compress(t)
  PROVE  IInv'
<1>1. PICK i \in Images : image' = [image EXCEPT ![t] = i] /\ Begin(t, AllocOf(i))
  BY DEF Compress
<1>2. TypeOK'
  <2>1. AllocOf(i) \in [op : {"none", "alloc", "realloc", "free"}, org_size : Nat, size : Nat]
    BY CallTypes DEF IInv, AllocOf
  <2> QED
    BY <1>1, <2>1 DEF IInv, TypeOK, Compress, Begin, Goto
<1>3. Mutex'
  BY <1>1 DEF IInv, TypeOK, Mutex, Inside, Compress, Begin, Goto
<1>4. Agrees(t)'
  BY <1>1 DEF IInv, TypeOK, Agrees, Compress, Begin, Goto, Before, After, NoImage
<1>5. \A u \in Threads : Agrees(u)'
  BY <1>1, <1>4, OthersAgree DEF IInv, TypeOK, Compress, Begin, Goto
<1> QED
  BY <1>2, <1>3, <1>5 DEF IInv

LEMMA AfterAllocStep ==
  ASSUME IInv, NEW t \in Threads, AfterAlloc(t)
  PROVE  IInv'
<1>1. TypeOK'
  <2>1. ReallocOf(image[t]) \in [op : {"none", "alloc", "realloc", "free"},
                                 org_size : Nat, size : Nat]
    BY CallTypes DEF IInv, ReallocOf
  <2> QED
    BY <2>1 DEF IInv, TypeOK, AfterAlloc, Begin, Goto
<1>2. Mutex'
  BY DEF IInv, TypeOK, Mutex, Inside, AfterAlloc, Begin, Goto
<1>3. Agrees(t)'
  BY Calls DEF IInv, TypeOK, Agrees, AfterAlloc, Begin, Goto, Before, After
<1>4. \A u \in Threads : Agrees(u)'
  BY <1>3, OthersAgree DEF IInv, TypeOK, AfterAlloc, Begin, Goto
<1> QED
  BY <1>1, <1>2, <1>4 DEF IInv

LEMMA ReallocFailedStep ==
  ASSUME IInv, NEW t \in Threads, ReallocFailed(t)
  PROVE  IInv'
<1>1. TypeOK'
  <2>1. FreeOf(image[t].most) \in [op : {"none", "alloc", "realloc", "free"},
                                   org_size : Nat, size : Nat]
    BY CallTypes DEF IInv, FreeOf
  <2> QED
    BY <2>1 DEF IInv, TypeOK, ReallocFailed, Begin, Goto
<1>2. Mutex'
  BY DEF IInv, TypeOK, Mutex, Inside, ReallocFailed, Begin, Goto
<1>3. Agrees(t)'
  BY Calls DEF IInv, TypeOK, Agrees, ReallocFailed, Begin, Goto, Before, After
<1>4. \A u \in Threads : Agrees(u)'
  BY <1>3, OthersAgree DEF IInv, TypeOK, ReallocFailed, Begin, Goto
<1> QED
  BY <1>1, <1>2, <1>4 DEF IInv

LEMMA CompressedStep ==
  ASSUME IInv, NEW t \in Threads, Compressed(t)
  PROVE  IInv'
<1>1. TypeOK'
  BY DEF IInv, TypeOK, Compressed, Goto, NoCall
<1>2. Mutex'
  BY DEF IInv, TypeOK, Mutex, Inside, Compressed, Goto
<1>3. Agrees(t)'
  BY Calls DEF IInv, TypeOK, Agrees, Compressed, Goto, Before, After
<1>4. \A u \in Threads : Agrees(u)'
  BY <1>3, OthersAgree DEF IInv, TypeOK, Compressed, Goto
<1> QED
  BY <1>1, <1>2, <1>4 DEF IInv

LEMMA ReleaseStep ==
  ASSUME IInv, NEW t \in Threads, Release(t)
  PROVE  IInv'
<1>1. TypeOK'
  <2>1. FreeOf(image[t].len) \in [op : {"none", "alloc", "realloc", "free"},
                                  org_size : Nat, size : Nat]
    BY CallTypes DEF IInv, FreeOf
  <2> QED
    BY <2>1 DEF IInv, TypeOK, Release, Begin, Goto
<1>2. Mutex'
  BY DEF IInv, TypeOK, Mutex, Inside, Release, Begin, Goto
<1>3. Agrees(t)'
  BY DEF IInv, TypeOK, Agrees, Release, Begin, Goto, Before, After
<1>4. \A u \in Threads : Agrees(u)'
  BY <1>3, OthersAgree DEF IInv, TypeOK, Release, Begin, Goto
<1> QED
  BY <1>1, <1>2, <1>4 DEF IInv

LEMMA ReleasedStep ==
  ASSUME IInv, NEW t \in Threads, Released(t)
  PROVE  IInv'
<1>1. TypeOK'
  BY DEF IInv, TypeOK, Released, Goto, NoCall
<1>2. Mutex'
  BY DEF IInv, TypeOK, Mutex, Inside, Released, Goto
<1>3. Agrees(t)'
  BY Calls DEF IInv, TypeOK, Agrees, Released, Goto, Before, After, NoImage
<1>4. \A u \in Threads : Agrees(u)'
  BY <1>3, OthersAgree DEF IInv, TypeOK, Released, Goto
<1> QED
  BY <1>1, <1>2, <1>4 DEF IInv

---------------------------------------------------------------------------
(* The steps of the allocator. *)
LEMMA LockStep ==
  ASSUME IInv, NEW t \in Threads, Lock(t)
  PROVE  IInv'
<1>1. TypeOK'
  BY DEF IInv, TypeOK, Lock, Goto
<1>2. Mutex'
  BY DefaultAssumption DEF IInv, TypeOK, Mutex, Inside, Lock, CanLock, Goto
<1>3. Agrees(t)'
  BY DEF IInv, TypeOK, Agrees, Lock, Goto, Before, After
<1>4. \A u \in Threads : Agrees(u)'
  BY <1>3, OthersAgree DEF IInv, TypeOK, Lock, Goto
<1> QED
  BY <1>1, <1>2, <1>4 DEF IInv

LEMMA MemoryStep ==
  ASSUME IInv, NEW t \in Threads, Memory(t)
  PROVE  IInv'
<1>1. TypeOK'
  BY DEF IInv, TypeOK, Memory, Goto
<1>2. Mutex'
  BY DEF IInv, TypeOK, Mutex, Inside, Memory, Goto
<1>3. Agrees(t)'
  <2>1. /\ pc[t] = "memory" /\ Agrees(t)
        /\ block'[t] = call[t].size /\ pc'[t] \in {"load_plus", "load_minus"}
        /\ call'[t] = call[t] /\ image'[t] = image[t] /\ null'[t] = null[t]
    BY DEF IInv, TypeOK, Memory, Goto
  <2>2. /\ ~null[t]
        /\ \/ call[t] = AllocOf(image[t]) /\ block'[t] = image[t].most
           \/ call[t] = ReallocOf(image[t]) /\ block'[t] = image[t].len
           \/ call[t].op = "free" /\ call[t].size = 0 /\ block'[t] = 0
    <3>1. /\ ~null[t]
          /\ \/ call[t] = AllocOf(image[t]) /\ block[t] = 0
             \/ call[t] = ReallocOf(image[t]) /\ block[t] = image[t].most
             \/ call[t] = FreeOf(block[t])
      BY <2>1 DEF Agrees, Before
    <3>2. block'[t] = call[t].size
      BY <2>1
    <3>3. CASE call[t] = AllocOf(image[t]) /\ block[t] = 0
      BY <3>1, <3>2, <3>3, Calls
    <3>4. CASE call[t] = ReallocOf(image[t]) /\ block[t] = image[t].most
      BY <3>1, <3>2, <3>4, Calls
    <3>5. CASE call[t] = FreeOf(block[t])
      <4>1. FreeOf(block[t]).op = "free" /\ FreeOf(block[t]).size = 0
        BY Calls
      <4> QED
        BY <3>1, <3>2, <3>5, <4>1
    <3> QED
      BY <3>1, <3>3, <3>4, <3>5
  <2> QED
    BY <2>1, <2>2 DEF Agrees, Before, After
<1>4. \A u \in Threads : Agrees(u)'
  BY <1>3, OthersAgree DEF IInv, TypeOK, Memory, Goto
<1> QED
  BY <1>1, <1>2, <1>4 DEF IInv

LEMMA NoMemoryStep ==
  ASSUME IInv, NEW t \in Threads, NoMemory(t)
  PROVE  IInv'
<1>1. TypeOK'
  BY DEF IInv, TypeOK, NoMemory, Goto
<1>2. Mutex'
  BY DEF IInv, TypeOK, Mutex, Inside, NoMemory, Goto
<1>3. Agrees(t)'
  <2>1. /\ pc[t] = "memory" /\ call[t].op = "realloc" /\ pc'[t] = "load_plus"
        /\ Agrees(t) /\ block' = block /\ call' = call /\ image' = image
        /\ null'[t]
    BY DEF IInv, TypeOK, NoMemory, Goto
  <2>2. call[t] = ReallocOf(image[t]) /\ block[t] = image[t].most
    BY <2>1, Calls DEF Agrees, Before
  <2> QED
    BY <2>1, <2>2 DEF Agrees, Before, After
<1>4. \A u \in Threads : Agrees(u)'
  BY <1>3, OthersAgree DEF IInv, TypeOK, NoMemory, Goto
<1> QED
  BY <1>1, <1>2, <1>4 DEF IInv

LEMMA LoadStep ==
  ASSUME IInv, NEW t \in Threads, Load(t)
  PROVE  IInv'
<1>1. TypeOK'
  BY DEF IInv, TypeOK, Load, Goto
<1>2. Mutex'
  BY DEF IInv, TypeOK, Mutex, Inside, Load, Goto
<1>3. Agrees(t)'
  BY DEF IInv, TypeOK, Agrees, Load, Goto, Before, After
<1>4. \A u \in Threads : Agrees(u)'
  BY <1>3, OthersAgree DEF IInv, TypeOK, Load, Goto
<1> QED
  BY <1>1, <1>2, <1>4 DEF IInv

(* The counter wraps and stays a word. *)
LEMMA Words ==
  ASSUME NEW n \in Int
  PROVE  n % WordSize \in 0 .. WordSize - 1
  BY DefaultAssumption

LEMMA AddSizeStep ==
  ASSUME IInv, NEW t \in Threads, AddSize(t)
  PROVE  IInv'
<1>1. TypeOK'
  <2>1. alloc_size' \in 0 .. WordSize - 1 /\ 0 \in 0 .. WordSize - 1
    <3>1. reg[t] + call[t].size \in Int
      BY DefaultAssumption DEF IInv, TypeOK
    <3> QED
      BY <3>1, Words, DefaultAssumption DEF AddSize
  <2> QED
    BY <2>1 DEF IInv, TypeOK, AddSize, Goto
<1>2. Mutex'
  BY DEF IInv, TypeOK, Mutex, Inside, AddSize, Goto
<1>3. Agrees(t)'
  BY DEF IInv, TypeOK, Agrees, AddSize, Goto, Before, After
<1>4. \A u \in Threads : Agrees(u)'
  BY <1>3, OthersAgree DEF IInv, TypeOK, AddSize, Goto
<1> QED
  BY <1>1, <1>2, <1>4 DEF IInv

LEMMA SubtractSizeStep ==
  ASSUME IInv, NEW t \in Threads, SubtractSize(t)
  PROVE  IInv'
<1>1. TypeOK'
  <2>1. alloc_size' \in 0 .. WordSize - 1 /\ 0 \in 0 .. WordSize - 1
    <3>1. reg[t] - call[t].org_size \in Int
      BY DefaultAssumption DEF IInv, TypeOK
    <3> QED
      BY <3>1, Words, DefaultAssumption DEF SubtractSize, Minus
  <2> QED
    BY <2>1 DEF IInv, TypeOK, SubtractSize, Goto
<1>2. Mutex'
  BY DEF IInv, TypeOK, Mutex, Inside, SubtractSize, Goto
<1>3. Agrees(t)'
  BY DEF IInv, TypeOK, Agrees, SubtractSize, Goto, Before, After
<1>4. \A u \in Threads : Agrees(u)'
  BY <1>3, OthersAgree DEF IInv, TypeOK, SubtractSize, Goto
<1> QED
  BY <1>1, <1>2, <1>4 DEF IInv

LEMMA UnlockStep ==
  ASSUME IInv, NEW t \in Threads, Unlock(t)
  PROVE  IInv'
<1>1. TypeOK'
  BY DEF IInv, TypeOK, Unlock, Goto
<1>2. Mutex'
  BY DefaultAssumption DEF IInv, TypeOK, Mutex, Inside, Unlock, Goto
<1>3. Agrees(t)'
  BY DEF IInv, TypeOK, Agrees, Unlock, Goto, Before, After
<1>4. \A u \in Threads : Agrees(u)'
  BY <1>3, OthersAgree DEF IInv, TypeOK, Unlock, Goto
<1> QED
  BY <1>1, <1>2, <1>4 DEF IInv

(* The fresh mutex of init is unlocked, and nobody held the old one. *)
LEMMA ReinitStep ==
  ASSUME IInv, Reinit
  PROVE  IInv'
<1>1. TypeOK'
  BY DEF IInv, TypeOK, Reinit
<1>2. Mutex'
  BY DefaultAssumption DEF IInv, TypeOK, Mutex, Inside, Reinit
<1>3. \A t \in Threads : Agrees(t)'
  BY DEF IInv, Agrees, Reinit
<1> QED
  BY <1>1, <1>2, <1>3 DEF IInv

LEMMA StepIInv == IInv /\ [Next]_vars => IInv'
<1> SUFFICES ASSUME IInv, [Next]_vars PROVE IInv'
  OBVIOUS
<1>1. CASE Reinit
  BY <1>1, ReinitStep
<1>2. ASSUME NEW t \in Threads, Client(t) PROVE IInv'
  BY <1>2, CompressStep, AfterAllocStep, ReallocFailedStep, CompressedStep,
     ReleaseStep, ReleasedStep DEF Client
<1>3. ASSUME NEW t \in Threads, Allocator(t) PROVE IInv'
  BY <1>3, LockStep, MemoryStep, NoMemoryStep, LoadStep, AddSizeStep,
     SubtractSizeStep, UnlockStep DEF Allocator
<1>4. CASE UNCHANGED vars
  BY <1>4 DEF vars, IInv, TypeOK, Mutex, Agrees
<1> QED
  BY <1>1, <1>2, <1>3, <1>4 DEF Next

---------------------------------------------------------------------------
(* The invariant that carries the theorems below. *)
THEOREM Invariant == Spec => []IInv
<1> QED
  BY InitIInv, StepIInv, PTL DEF Spec

(* Every variable keeps its type; the counter stays a word. *)
THEOREM Typed == Spec => []TypeOK
<1>1. IInv => TypeOK
  BY DEF IInv
<1> QED
  BY <1>1, Invariant, PTL

(* At most one thread is between lock and unlock, although init makes the  *)
(* mutex anew.                                                             *)
THEOREM Exclusive ==
  Spec => [](\A t, u \in Threads : pc[t] \in Inside /\ pc[u] \in Inside => t = u)
<1>1. IInv => \A t, u \in Threads : pc[t] \in Inside /\ pc[u] \in Inside => t = u
  BY DEF IInv, Mutex
<1> QED
  BY <1>1, Invariant, PTL

(* A thread resizes and frees a block with the size it has, and once, also *)
(* after a realloc that failed, in any order of any threads.               *)
THEOREM SizesAgree == Spec => []FreedAsHeld
<1>1. IInv => FreedAsHeld
  <2> SUFFICES ASSUME IInv, NEW t \in Threads, pc[t] = "memory"
               PROVE  block[t] = IF call[t].op = "alloc" THEN 0 ELSE call[t].org_size
    BY DEF FreedAsHeld
  <2> QED
    <3>1. \/ call[t] = AllocOf(image[t]) /\ block[t] = 0
          \/ call[t] = ReallocOf(image[t]) /\ block[t] = image[t].most
          \/ call[t] = FreeOf(block[t])
      BY DEF IInv, Agrees, Before
    <3> QED
      BY <3>1, Calls
<1> QED
  BY <1>1, Invariant, PTL

---------------------------------------------------------------------------
(* Sums.  The library adds up the values b[t] by a recursive function over *)
(* sets; here the sum is the number of points below the graph of b.        *)

(* A set of sets has one that is left as soon as an element is dropped. *)
LEMMA Smallest ==
  ASSUME NEW S, IsFiniteSet(S), NEW B, B \subseteq SUBSET S, B # {}
  PROVE  \E s \in B : \A x \in s : s \ {x} \notin B
<1> DEFINE T == {Cardinality(s) : s \in B}
<1>1. \A s \in B : IsFiniteSet(s) /\ Cardinality(s) \in Nat
  BY FS_Subset, FS_CardinalityType
<1>2. T \subseteq Nat /\ T # {}
  BY <1>1
<1> HIDE DEF T
<1>3. PICK m \in T : \A k \in T : <<k, m>> \notin OpToRel(<, Nat)
  BY <1>2, WFMin, NatLessThanWellFounded, Zenon
<1>4. \A k \in T : k \in Nat /\ ~ (k < m)
  BY <1>2, <1>3, Zenon DEF OpToRel
<1>5. PICK s \in B : m = Cardinality(s)
  BY <1>3 DEF T
<1>6. ASSUME NEW x \in s, s \ {x} \in B
      PROVE  FALSE
  <2>1. Cardinality(s \ {x}) = Cardinality(s) - 1
    BY <1>1, <1>6, FS_RemoveElement
  <2>2. Cardinality(s \ {x}) \in T
    BY <1>6 DEF T
  <2> QED
    BY <1>1, <1>4, <1>5, <2>1, <2>2
<1> QED
  BY <1>6

(* The points below b over s. *)
Area(b, s) == {p \in s \X Nat : p[2] < b[p[1]]}

LEMMA AreaNone ==
  ASSUME NEW b
  PROVE  IsFiniteSet(Area(b, {})) /\ Cardinality(Area(b, {})) = 0
<1>1. Area(b, {}) = {}
  BY DEF Area
<1> QED
  BY <1>1, FS_EmptySet

LEMMA AreaSplit ==
  ASSUME NEW b, NEW s, NEW x \in s, b[x] \in Nat, IsFiniteSet(Area(b, s \ {x}))
  PROVE  /\ IsFiniteSet(Area(b, s))
         /\ Cardinality(Area(b, s)) = b[x] + Cardinality(Area(b, s \ {x}))
         /\ Cardinality(Area(b, s \ {x})) \in Nat
<1> DEFINE K == 0 .. b[x] - 1
           strip == {x} \X K
           rest == Area(b, s \ {x})
<1>1. \A k \in Nat : k \in K <=> k < b[x]
  OBVIOUS
<1>2. K \subseteq Nat
  OBVIOUS
<1>3. IsFiniteSet(K) /\ Cardinality(K) = b[x]
  <2> DEFINE m == b[x]
  <2>1. m \in Nat
    OBVIOUS
  <2> HIDE DEF m
  <2>2. 0 \in Int /\ m - 1 \in Int
    BY <2>1
  <2>3. /\ IsFiniteSet(0 .. m - 1)
        /\ Cardinality(0 .. m - 1) = IF 0 > m - 1 THEN 0 ELSE (m - 1) - 0 + 1
    BY <2>2, FS_Interval
  <2>4. IsFiniteSet(0 .. m - 1) /\ Cardinality(0 .. m - 1) = m
    BY <2>1, <2>3
  <2> QED
    BY <2>4 DEF m
<1> HIDE DEF K
<1>4. IsFiniteSet(strip) /\ Cardinality(strip) = b[x]
  <2>1. IsFiniteSet({x}) /\ Cardinality({x}) = 1
    BY FS_Singleton
  <2>2. /\ IsFiniteSet({x} \X K)
        /\ Cardinality({x} \X K) = Cardinality({x}) * Cardinality(K)
    BY <1>3, <2>1, FS_Product
  <2> QED
    BY <1>3, <2>1, <2>2
<1>5. Area(b, s) = strip \cup rest
  <2>1. ASSUME NEW p \in Area(b, s)
        PROVE  p \in strip \cup rest
    <3>1. PICK y \in s, k \in Nat : p = <<y, k>> /\ k < b[y]
      BY <2>1 DEF Area
    <3>2. CASE y = x
      BY <3>1, <3>2, <1>1
    <3>3. CASE y # x
      BY <3>1, <3>3 DEF Area
    <3> QED
      BY <3>2, <3>3
  <2>2. ASSUME NEW p \in strip
        PROVE  p \in Area(b, s)
    <3>1. PICK k \in K : p = <<x, k>>
      BY <2>2
    <3>2. k \in Nat /\ k < b[x]
      BY <3>1, <1>1, <1>2
    <3> QED
      BY <3>1, <3>2 DEF Area
  <2>3. rest \subseteq Area(b, s)
    BY DEF Area
  <2> QED
    BY <2>1, <2>2, <2>3
<1>6. strip \cap rest = {}
  BY DEF Area
<1> HIDE DEF strip, rest
<1>7. Cardinality(strip) \in Nat /\ Cardinality(rest) \in Nat /\ IsFiniteSet(rest)
  BY <1>4, FS_CardinalityType DEF rest
<1>8. /\ IsFiniteSet(strip \cup rest)
      /\ Cardinality(strip \cup rest) =
           Cardinality(strip) + Cardinality(rest) - Cardinality(strip \cap rest)
  BY <1>4, <1>7, FS_Union
<1>9. Cardinality(strip \cap rest) = 0
  BY <1>6, FS_EmptySet
<1>10. Cardinality(strip \cup rest) = b[x] + Cardinality(rest)
  BY <1>4, <1>7, <1>8, <1>9
<1> QED
  BY <1>5, <1>7, <1>8, <1>10 DEF rest

LEMMA AreaFinite ==
  ASSUME NEW S, IsFiniteSet(S), NEW b \in [S -> Nat]
  PROVE  \A s \in SUBSET S : /\ IsFiniteSet(Area(b, s))
                             /\ Cardinality(Area(b, s)) \in Nat
<1> DEFINE B == {s \in SUBSET S : ~ IsFiniteSet(Area(b, s))}
<1>1. B = {}
  <2> SUFFICES ASSUME B # {} PROVE FALSE
    OBVIOUS
  <2>1. B \subseteq SUBSET S
    OBVIOUS
  <2>2. PICK s \in B : \A x \in s : s \ {x} \notin B
    <3> HIDE DEF B
    <3> QED
      BY <2>1, Smallest
  <2>3. s # {}
    BY <2>2, AreaNone
  <2>4. PICK x \in s : TRUE
    BY <2>3
  <2>5. b[x] \in Nat /\ IsFiniteSet(Area(b, s \ {x}))
    BY <2>2, <2>4
  <2>6. IsFiniteSet(Area(b, s))
    BY <2>4, <2>5, AreaSplit
  <2> QED
    BY <2>2, <2>6
<1> QED
  BY <1>1, FS_CardinalityType

(* The recursive function behind the library's sum. *)
Chosen(s) == CHOOSE x \in s : TRUE

Sums(g, b, S) ==
  g = [s \in SUBSET S |-> IF s = {} THEN 0
                          ELSE b[Chosen(s)] + g[s \ {Chosen(s)}]]

LEMMA SumIsFold ==
  ASSUME NEW S, NEW b
  PROVE  MapThenSumSet(LAMBDA t : b[t], S) = (CHOOSE g : Sums(g, b, S))[S]
  BY Zenon DEF MapThenSumSet, MapThenFoldSet, Sums, Chosen

LEMMA SumIsArea ==
  ASSUME NEW S, IsFiniteSet(S), NEW b \in [S -> Nat]
  PROVE  MapThenSumSet(LAMBDA t : b[t], S) = Cardinality(Area(b, S))
<1> DEFINE area == [s \in SUBSET S |-> Cardinality(Area(b, s))]
           g == CHOOSE h : Sums(h, b, S)
<1>1. \A s \in SUBSET S : s # {} => Chosen(s) \in s
  BY DEF Chosen
<1>2. \A s \in SUBSET S : \A x \in s :
        Cardinality(Area(b, s)) = b[x] + Cardinality(Area(b, s \ {x}))
  <2> SUFFICES ASSUME NEW s \in SUBSET S, NEW x \in s
               PROVE  Cardinality(Area(b, s)) = b[x] + Cardinality(Area(b, s \ {x}))
    OBVIOUS
  <2>1. b[x] \in Nat /\ s \ {x} \in SUBSET S
    OBVIOUS
  <2>2. IsFiniteSet(Area(b, s \ {x}))
    BY <2>1, AreaFinite
  <2> QED
    BY <2>1, <2>2, AreaSplit
<1>3. Sums(area, b, S)
  <2> SUFFICES ASSUME NEW s \in SUBSET S
               PROVE  area[s] = IF s = {} THEN 0
                                ELSE b[Chosen(s)] + area[s \ {Chosen(s)}]
    BY DEF Sums
  <2>1. CASE s = {}
    BY <2>1, AreaNone
  <2>2. CASE s # {}
    <3>1. Chosen(s) \in s /\ s \ {Chosen(s)} \in SUBSET S
      BY <2>2, <1>1
    <3>2. Cardinality(Area(b, s))
            = b[Chosen(s)] + Cardinality(Area(b, s \ {Chosen(s)}))
      BY <3>1, <1>2
    <3> QED
      BY <2>2, <3>1, <3>2
  <2> QED
    BY <2>1, <2>2
<1> HIDE DEF area
<1>4. Sums(g, b, S)
  BY <1>3
<1> HIDE DEF g
<1>5. \A s \in SUBSET S : g[s] = IF s = {} THEN 0
                                 ELSE b[Chosen(s)] + g[s \ {Chosen(s)}]
  BY <1>4 DEF Sums
<1> DEFINE B == {s \in SUBSET S : g[s] # Cardinality(Area(b, s))}
<1>6. B = {}
  <2> SUFFICES ASSUME B # {} PROVE FALSE
    OBVIOUS
  <2>1. B \subseteq SUBSET S
    OBVIOUS
  <2>2. PICK s \in B : \A x \in s : s \ {x} \notin B
    <3> HIDE DEF B
    <3> QED
      BY <2>1, Smallest
  <2>3. s # {}
    BY <2>2, <1>5, AreaNone
  <2>4. Chosen(s) \in s /\ s \ {Chosen(s)} \in SUBSET S /\ s \in SUBSET S
    BY <1>1, <2>2, <2>3
  <2>5. g[s \ {Chosen(s)}] = Cardinality(Area(b, s \ {Chosen(s)}))
    BY <2>2, <2>4
  <2>6. g[s] = b[Chosen(s)] + g[s \ {Chosen(s)}]
    BY <1>5, <2>3, <2>4
  <2>7. g[s] = Cardinality(Area(b, s))
    BY <1>2, <2>4, <2>5, <2>6
  <2> QED
    BY <2>2, <2>7
<1>7. g[S] = Cardinality(Area(b, S))
  BY <1>6
<1> QED
  BY <1>7, SumIsFold DEF g

(* One block changes: the sum changes with it. *)
LEMMA BytesChange ==
  ASSUME NEW b \in [Threads -> Nat], NEW t \in Threads, NEW n \in Nat
  PROVE  /\ Bytes(b) \in Nat
         /\ Bytes([b EXCEPT ![t] = n]) = (Bytes(b) - b[t]) + n
<1> DEFINE c == [b EXCEPT ![t] = n]
           rest == Threads \ {t}
<1>1. c \in [Threads -> Nat] /\ c[t] = n /\ \A u \in rest : c[u] = b[u]
  OBVIOUS
<1> HIDE DEF c
<1>2. Bytes(b) = Cardinality(Area(b, Threads))
  BY SumIsArea, DefaultAssumption DEF Bytes
<1>3. Bytes(c) = Cardinality(Area(c, Threads))
  BY <1>1, SumIsArea, DefaultAssumption DEF Bytes
<1>4. Area(c, rest) = Area(b, rest)
  BY <1>1 DEF Area
<1>5. IsFiniteSet(Area(b, rest)) /\ IsFiniteSet(Area(c, rest))
  BY <1>1, AreaFinite, DefaultAssumption
<1>6. /\ Cardinality(Area(b, Threads)) = b[t] + Cardinality(Area(b, rest))
      /\ Cardinality(Area(b, rest)) \in Nat
  BY <1>5, AreaSplit
<1>7. Cardinality(Area(c, Threads)) = n + Cardinality(Area(c, rest))
  BY <1>1, <1>5, AreaSplit
<1>8. b[t] \in Nat
  OBVIOUS
<1> QED
  BY <1>2, <1>3, <1>4, <1>6, <1>7, <1>8 DEF c

(* No block is larger than the sum. *)
LEMMA BytesBound ==
  ASSUME NEW b \in [Threads -> Nat], NEW t \in Threads
  PROVE  Bytes(b) \in Nat /\ b[t] <= Bytes(b)
<1> DEFINE rest == Threads \ {t}
<1>1. Bytes(b) = Cardinality(Area(b, Threads))
  BY SumIsArea, DefaultAssumption DEF Bytes
<1>2. IsFiniteSet(Area(b, rest))
  BY AreaFinite, DefaultAssumption
<1>3. b[t] \in Nat
  OBVIOUS
<1>4. /\ Cardinality(Area(b, Threads)) = b[t] + Cardinality(Area(b, rest))
      /\ Cardinality(Area(b, rest)) \in Nat
  BY <1>2, <1>3, AreaSplit
<1> QED
  BY <1>1, <1>4, <1>3

(* Without a block there is nothing to count. *)
LEMMA BytesNone ==
  ASSUME NEW b \in [Threads -> Nat], \A t \in Threads : b[t] = 0
  PROVE  Bytes(b) = 0
<1>1. Bytes(b) = Cardinality(Area(b, Threads))
  BY SumIsArea, DefaultAssumption DEF Bytes
<1>2. Area(b, Threads) = {}
  BY DEF Area
<1> QED
  BY <1>1, <1>2, FS_EmptySet

(* A remainder is not changed by the multiples that are dropped before. *)
LEMMA Wraps ==
  ASSUME NEW x \in Int, NEW d \in Int
  PROVE  /\ ((x % WordSize) + d) % WordSize = (x + d) % WordSize
         /\ x % WordSize \in Nat
         /\ (0 <= x /\ x < WordSize) => x % WordSize = x
<1> DEFINE W == WordSize
<1>1. W \in Nat \ {0}
  BY DefaultAssumption
<1> HIDE DEF W
<1>2. ASSUME NEW y \in Int
      PROVE  /\ y \div W \in Int /\ y % W \in 0 .. W - 1
             /\ y = (W * (y \div W)) + (y % W)
  BY <1>1, SMT
<1>3. ASSUME NEW p \in Int, NEW q \in Int, NEW r \in 0 .. W - 1,
             NEW s \in 0 .. W - 1, (W * p) + r = (W * q) + s
      PROVE  r = s
  <2>1. ASSUME NEW k \in Int, k >= 1
        PROVE  W * k >= W /\ W * k \in Int
    <3>1. W * k = W + (W * (k - 1)) /\ W * (k - 1) >= 0 /\ W * (k - 1) \in Int
      BY <1>1, <2>1
    <3> QED
      BY <3>1, <1>1
  <2>2. /\ W * p \in Int /\ W * q \in Int
        /\ W * (p - q) = (W * p) - (W * q) /\ W * (q - p) = (W * q) - (W * p)
    BY <1>1
  <2>3. r \in Int /\ s \in Int /\ r - s < W /\ s - r < W
    BY <1>1
  <2>4. ~ (p - q >= 1)
    BY <1>3, <2>1, <2>2, <2>3, <1>1
  <2>5. ~ (q - p >= 1)
    BY <1>3, <2>1, <2>2, <2>3, <1>1
  <2>6. p = q
    BY <2>4, <2>5
  <2> QED
    BY <1>3, <2>2, <2>3, <2>6
<1>4. ((x % W) + d) % W = (x + d) % W
  <2> DEFINE a == x \div W
             y == (x % W) + d
             z == x + d
  <2>1. /\ a \in Int /\ y \in Int /\ z \in Int
        /\ z = (W * a) + y /\ W * a \in Int
    <3>1. /\ x \div W \in Int /\ x % W \in 0 .. W - 1
          /\ x = (W * (x \div W)) + (x % W)
      BY <1>2
    <3>2. x % W \in Int
      BY <3>1, <1>1
    <3>3. W * (x \div W) \in Int
      BY <3>1, <1>1
    <3> QED
      BY <3>1, <3>2, <3>3
  <2> HIDE DEF a, y, z
  <2>2. /\ y \div W \in Int /\ y % W \in 0 .. W - 1
        /\ y = (W * (y \div W)) + (y % W)
    BY <1>2, <2>1
  <2>3. /\ z \div W \in Int /\ z % W \in 0 .. W - 1
        /\ z = (W * (z \div W)) + (z % W)
    BY <1>2, <2>1
  <2>4. W * (a + (y \div W)) = (W * a) + (W * (y \div W)) /\ a + (y \div W) \in Int
        /\ W * (y \div W) \in Int
    BY <1>1, <2>1, <2>2
  <2>5. (W * (a + (y \div W))) + (y % W) = (W * (z \div W)) + (z % W)
    BY <2>1, <2>2, <2>3, <2>4
  <2>6. y % W = z % W
    BY <2>2, <2>3, <2>4, <2>5, <1>3
  <2> QED
    BY <2>6 DEF y, z
<1>5. ASSUME 0 <= x, x < W
      PROVE  x % W = x
  <2>1. x \in 0 .. W - 1
    BY <1>1, <1>5
  <2>2. (W * 0) + x = x
    BY <1>1
  <2>3. /\ x \div W \in Int /\ x % W \in 0 .. W - 1
        /\ x = (W * (x \div W)) + (x % W)
    BY <1>2
  <2> QED
    BY <2>1, <2>2, <2>3, <1>3
<1>6. x % W \in Nat
  <2>1. x % W \in 0 .. W - 1
    BY <1>2
  <2> QED
    BY <2>1, <1>1
<1> QED
  BY <1>4, <1>5, <1>6 DEF W

---------------------------------------------------------------------------
(* By how much the counter is ahead of the memory, for the thread that has *)
(* the mutex: the memory changes first, then the new size is added, then   *)
(* the old one taken away.                                                 *)
Ahead(t) ==
  IF pc[t] \in {"load_plus", "plus"} THEN call[t].org_size - call[t].size
  ELSE IF pc[t] \in {"load_minus", "minus"} THEN call[t].org_size
  ELSE 0

Counted(t) ==
  /\ alloc_size = (Bytes(block) + Ahead(t)) % WordSize
  /\ pc[t] \in {"plus", "minus"} => reg[t] = alloc_size

CountInv ==
  /\ owner = NoThread => alloc_size = Bytes(block) % WordSize
  /\ \A t \in Threads : owner = t => Counted(t)

Sized == \A t \in Threads : block[t] \in BlockSizes

Counts == Sized /\ (~short => CountInv)

(* dellocate adds nothing. *)
Adds == \A t \in Threads : pc[t] \in {"load_plus", "plus"} => call[t].op # "free"

LEMMA InitAdds == Init => Adds
  BY DEF Init, Adds

LEMMA StepAdds == IInv /\ Adds /\ [Next]_vars => Adds'
<1> SUFFICES ASSUME IInv, Adds, [Next]_vars, NEW u \in Threads,
                    pc'[u] \in {"load_plus", "plus"}
             PROVE  call'[u].op # "free"
  BY DEF Adds
<1> USE DEF IInv, TypeOK, Goto
<1>1. CASE Reinit \/ UNCHANGED vars
  BY <1>1 DEF Reinit, vars, Adds
<1>2. ASSUME NEW t \in Threads, Client(t)
      PROVE  call'[u].op # "free"
  <2>1. pc'[t] \in {"lock", "out"} /\ \A v \in Threads \ {t} :
          pc'[v] = pc[v] /\ call'[v] = call[v]
    BY <1>2 DEF Client, Compress, AfterAlloc, ReallocFailed, Compressed, Release,
       Released, Begin
  <2> QED
    BY <2>1 DEF Adds
<1>3. ASSUME NEW t \in Threads, Allocator(t)
      PROVE  call'[u].op # "free"
  <2>1. call' = call
    BY <1>3 DEF Allocator, Lock, Memory, NoMemory, Load, AddSize, SubtractSize, Unlock
  <2>2. CASE Memory(t)
    BY <2>1, <2>2 DEF Adds, Memory
  <2>3. CASE NoMemory(t)
    BY <2>1, <2>3 DEF Adds, NoMemory
  <2>4. CASE Load(t)
    BY <2>1, <2>4 DEF Adds, Load
  <2>5. CASE Lock(t) \/ AddSize(t) \/ SubtractSize(t) \/ Unlock(t)
    BY <2>1, <2>5 DEF Adds, Lock, AddSize, SubtractSize, Unlock
  <2> QED
    BY <1>3, <2>2, <2>3, <2>4, <2>5 DEF Allocator
<1> QED
  BY <1>1, <1>2, <1>3 DEF Next

LEMMA InitCounts == Init => Counts
<1> SUFFICES ASSUME Init PROVE Counts
  OBVIOUS
<1>1. block = [t \in Threads |-> 0] /\ owner = NoThread /\ alloc_size = 0
  BY DEF Init
<1>2. block \in [Threads -> Nat] /\ \A t \in Threads : block[t] = 0
  BY <1>1
<1>3. Bytes(block) = 0
  BY <1>2, BytesNone
<1>4. 0 % WordSize = 0
  BY DefaultAssumption, Wraps
<1>5. Sized
  BY <1>2 DEF Sized, BlockSizes
<1> QED
  BY <1>1, <1>3, <1>4, <1>5, DefaultAssumption DEF Counts, CountInv

(* What is known of the thread that takes the next step. *)
LEMMA Known ==
  ASSUME IInv, NEW t \in Threads
  PROVE  /\ block \in [Threads -> Nat] /\ block[t] \in Nat
         /\ Bytes(block) \in Nat
         /\ call[t].org_size \in Nat /\ call[t].size \in Nat
         /\ reg[t] \in Int
         /\ owner = t <=> pc[t] \in Inside
<1>1. block \in [Threads -> Nat] /\ block[t] \in Nat
  BY DEF IInv, TypeOK
<1>2. Bytes(block) \in Nat
  BY <1>1, BytesBound
<1>3. call[t] \in [op : {"none", "alloc", "realloc", "free"},
                   org_size : Nat, size : Nat]
  BY DEF IInv, TypeOK
<1>4. reg[t] \in 0 .. WordSize - 1
  BY DEF IInv, TypeOK
<1>5. reg[t] \in Int
  BY <1>4, DefaultAssumption
<1> QED
  BY <1>1, <1>2, <1>3, <1>5 DEF IInv, Mutex

(* A step of a thread that neither has the mutex nor takes it. *)
LEMMA ApartStep ==
  ASSUME Counts, NEW t \in Threads, owner # t,
         UNCHANGED <<alloc_size, owner, block, short>>,
         \A u \in Threads \ {t} :
           pc'[u] = pc[u] /\ call'[u] = call[u] /\ reg'[u] = reg[u]
  PROVE  Counts'
<1>1. Sized'
  BY DEF Counts, Sized
<1>2. ASSUME CountInv
      PROVE  CountInv'
  BY <1>2 DEF CountInv, Counted, Ahead
<1> QED
  BY <1>1, <1>2 DEF Counts

LEMMA ClientCounts ==
  ASSUME IInv, Counts, NEW t \in Threads, Client(t)
  PROVE  Counts'
<1>1. owner # t
  <2>1. pc[t] \in {"out", "done"}
    BY DEF Client, Compress, AfterAlloc, ReallocFailed, Compressed, Release, Released
  <2> QED
    BY <2>1, Known DEF Inside
<1>2. UNCHANGED <<alloc_size, owner, block, short, reg>>
  BY DEF Client, Compress, AfterAlloc, ReallocFailed, Compressed, Release, Released
<1>3. \A u \in Threads \ {t} : pc'[u] = pc[u] /\ call'[u] = call[u]
  BY DEF IInv, TypeOK, Client, Compress, AfterAlloc, ReallocFailed, Compressed,
         Release, Released, Begin, Goto
<1> QED
  BY <1>1, <1>2, <1>3, ApartStep

(* A step of the thread that has the mutex, or takes it, and not the last. *)
LEMMA HolderStep ==
  ASSUME NEW t \in Threads, owner' = t,
         Sized', (~short') => Counted(t)'
  PROVE  Counts'
  BY DefaultAssumption DEF Counts, CountInv

LEMMA SizedStays ==
  ASSUME Counts, UNCHANGED block
  PROVE  Sized'
  BY DEF Counts, Sized

LEMMA LockCounts ==
  ASSUME IInv, Counts, NEW t \in Threads, Lock(t)
  PROVE  Counts'
<1>1. /\ owner = NoThread /\ owner' = t /\ pc'[t] = "memory"
      /\ UNCHANGED <<alloc_size, block, short>>
  BY DEF IInv, TypeOK, Lock, CanLock, Goto
<1>2. Ahead(t)' = 0
  BY <1>1 DEF Ahead
<1>3. Bytes(block) + 0 = Bytes(block)
  BY Known
<1>4. ~short' => Counted(t)'
  BY <1>1, <1>2, <1>3 DEF Counts, CountInv, Counted
<1> QED
  BY <1>1, <1>4, HolderStep, SizedStays

LEMMA MemoryCounts ==
  ASSUME IInv, Counts, NEW t \in Threads, Memory(t)
  PROVE  Counts'
<1> DEFINE c == call[t]
<1>1. /\ pc[t] = "memory" /\ owner = t /\ owner' = t
      /\ block' = [block EXCEPT ![t] = c.size]
      /\ pc'[t] = IF c.op = "free" THEN "load_minus" ELSE "load_plus"
      /\ UNCHANGED <<alloc_size, short, call>>
  BY Known DEF IInv, TypeOK, Memory, Goto, Inside
<1>2. /\ c.org_size = block[t]
      /\ c.op = "free" => c.size = 0
      /\ c.size \in BlockSizes
  <2>1. \/ c = AllocOf(image[t]) /\ block[t] = 0
        \/ c = ReallocOf(image[t]) /\ block[t] = image[t].most
        \/ c = FreeOf(block[t])
    BY <1>1 DEF IInv, Agrees, Before
  <2>2. image[t] \in Images \cup {NoImage}
    BY DEF IInv, TypeOK
  <2>3. image[t].most \in BlockSizes /\ image[t].len \in BlockSizes
    BY <2>2 DEF BlockSizes, NoImage
  <2>4. 0 \in BlockSizes
    BY DEF BlockSizes
  <2> QED
    BY <2>1, <2>3, <2>4 DEF AllocOf, ReallocOf, FreeOf
<1>3. Sized'
  BY <1>1, <1>2 DEF IInv, TypeOK, Counts, Sized
<1>4. /\ c.size \in Nat /\ c.org_size \in Nat /\ Bytes(block) \in Nat
      /\ block \in [Threads -> Nat]
  BY Known
<1>5. Bytes(block') = (Bytes(block) - c.org_size) + c.size
  <2> DEFINE n == c.size
  <2>1. n \in Nat /\ block' = [block EXCEPT ![t] = n]
    BY <1>1, <1>4
  <2> HIDE DEF n
  <2>2. Bytes([block EXCEPT ![t] = n]) = (Bytes(block) - block[t]) + n
    BY <1>4, <2>1, BytesChange
  <2> QED
    BY <1>2, <2>1, <2>2 DEF n
<1>6. Bytes(block') + Ahead(t)' = Bytes(block)
  <2>1. CASE c.op = "free"
    <3>1. Ahead(t)' = c.org_size
      BY <1>1, <2>1 DEF Ahead
    <3> QED
      BY <3>1, <2>1, <1>2, <1>4, <1>5
  <2>2. CASE c.op # "free"
    <3>1. Ahead(t)' = c.org_size - c.size
      BY <1>1, <2>2 DEF Ahead
    <3> QED
      BY <3>1, <1>4, <1>5
  <2> QED
    BY <2>1, <2>2
<1>7. ~short => alloc_size = Bytes(block) % WordSize
  <2>1. Ahead(t) = 0 /\ Bytes(block) + 0 = Bytes(block)
    BY <1>1, <1>4 DEF Ahead
  <2> QED
    BY <1>1, <2>1 DEF Counts, CountInv, Counted
<1>8. ~short' => Counted(t)'
  BY <1>1, <1>6, <1>7 DEF Counted
<1> QED
  BY <1>1, <1>3, <1>8, HolderStep

LEMMA NoMemoryCounts ==
  ASSUME IInv, Counts, NEW t \in Threads, NoMemory(t)
  PROVE  Counts'
<1>1. short' /\ UNCHANGED block
  BY DEF NoMemory
<1> QED
  BY <1>1, SizedStays DEF Counts

LEMMA LoadCounts ==
  ASSUME IInv, Counts, NEW t \in Threads, Load(t)
  PROVE  Counts'
<1>1. /\ owner = t /\ owner' = t
      /\ pc[t] \in {"load_plus", "load_minus"}
      /\ pc'[t] = IF pc[t] = "load_plus" THEN "plus" ELSE "minus"
      /\ reg'[t] = alloc_size
      /\ UNCHANGED <<alloc_size, block, short, call>>
  BY Known DEF IInv, TypeOK, Load, Goto, Inside
<1>2. Ahead(t)' = Ahead(t)
  BY <1>1 DEF Ahead
<1>3. ~short' => Counted(t)'
  BY <1>1, <1>2 DEF Counts, CountInv, Counted
<1> QED
  BY <1>1, <1>3, HolderStep, SizedStays

LEMMA AddSizeCounts ==
  ASSUME IInv, Adds, Counts, NEW t \in Threads, AddSize(t)
  PROVE  Counts'
<1> DEFINE c == call[t]
<1>1. /\ pc[t] = "plus" /\ owner = t /\ owner' = t
      /\ alloc_size' = (reg[t] + c.size) % WordSize
      /\ pc'[t] = IF c.op = "realloc" THEN "load_minus" ELSE "unlock"
      /\ UNCHANGED <<block, short, call>>
  BY Known DEF IInv, TypeOK, AddSize, Goto, Inside
<1>2. c.size \in Nat /\ c.org_size \in Nat /\ Bytes(block) \in Nat
  BY Known
<1>3. c.op # "realloc" => Ahead(t)' = 0 /\ c.org_size = 0
  <2>1. ASSUME c.op # "realloc", c.op # "free"
        PROVE  c.org_size = 0
    <3>1. \/ c = AllocOf(image[t]) \/ c = ReallocOf(image[t]) \/ c.op = "free"
      BY <1>1 DEF IInv, Agrees, After
    <3>2. c # ReallocOf(image[t])
      BY <2>1, Calls
    <3>3. c = AllocOf(image[t])
      BY <2>1, <3>1, <3>2
    <3> QED
      BY <3>3 DEF AllocOf
  <2>2. c.op # "free"
    BY <1>1 DEF Adds
  <2> QED
    BY <1>1, <2>1, <2>2 DEF Ahead
<1>4. c.op = "realloc" => Ahead(t)' = c.org_size
  BY <1>1 DEF Ahead
<1>5. Ahead(t)' = c.org_size
  BY <1>3, <1>4
<1>6. ASSUME ~short
      PROVE  alloc_size' = (Bytes(block) + c.org_size) % WordSize
  <2>1. reg[t] = (Bytes(block) + (c.org_size - c.size)) % WordSize
    BY <1>1, <1>6 DEF Counts, CountInv, Counted, Ahead
  <2> DEFINE x == Bytes(block) + (c.org_size - c.size)
             d == c.size
  <2>2. x \in Int /\ d \in Int /\ x + d = Bytes(block) + c.org_size
    BY <1>2
  <2>3. reg[t] = x % WordSize /\ alloc_size' = (reg[t] + d) % WordSize
    BY <1>1, <2>1
  <2> HIDE DEF x, d
  <2>4. ((x % WordSize) + d) % WordSize = (x + d) % WordSize
    BY <2>2, Wraps
  <2> QED
    BY <2>2, <2>3, <2>4
<1>7. ~short' => Counted(t)'
  BY <1>1, <1>5, <1>6 DEF Counted
<1> QED
  BY <1>1, <1>7, HolderStep, SizedStays

LEMMA SubtractSizeCounts ==
  ASSUME IInv, Counts, NEW t \in Threads, SubtractSize(t)
  PROVE  Counts'
<1> DEFINE c == call[t]
<1>1. /\ pc[t] = "minus" /\ owner = t /\ owner' = t
      /\ alloc_size' = (reg[t] - c.org_size) % WordSize
      /\ pc'[t] = "unlock"
      /\ UNCHANGED <<block, short, call>>
  BY Known DEF IInv, TypeOK, SubtractSize, Minus, Goto, Inside
<1>2. c.org_size \in Nat /\ Bytes(block) \in Nat /\ reg[t] \in Int
  BY Known
<1>3. Ahead(t)' = 0 /\ Bytes(block) + 0 = Bytes(block)
  BY <1>1, <1>2 DEF Ahead
<1>4. ASSUME ~short
      PROVE  alloc_size' = Bytes(block) % WordSize
  <2>1. reg[t] = (Bytes(block) + c.org_size) % WordSize
    BY <1>1, <1>4 DEF Counts, CountInv, Counted, Ahead
  <2> DEFINE x == Bytes(block) + c.org_size
             d == 0 - c.org_size
  <2>2. x \in Int /\ d \in Int /\ x + d = Bytes(block)
        /\ reg[t] - c.org_size = reg[t] + d
    BY <1>2
  <2>3. reg[t] = x % WordSize
    BY <2>1
  <2> HIDE DEF x, d
  <2>4. ((x % WordSize) + d) % WordSize = (x + d) % WordSize
    BY <2>2, Wraps
  <2> QED
    BY <1>1, <2>2, <2>3, <2>4
<1>5. ~short' => Counted(t)'
  BY <1>1, <1>3, <1>4 DEF Counted
<1> QED
  BY <1>1, <1>5, HolderStep, SizedStays

LEMMA UnlockCounts ==
  ASSUME IInv, Counts, NEW t \in Threads, Unlock(t)
  PROVE  Counts'
<1>1. /\ pc[t] = "unlock" /\ owner = t /\ owner' = NoThread
      /\ UNCHANGED <<alloc_size, block, short>>
  BY Known DEF IInv, TypeOK, Unlock, Inside
<1>2. Ahead(t) = 0 /\ Bytes(block) + 0 = Bytes(block)
  BY <1>1, Known DEF Ahead
<1>3. ~short => alloc_size = Bytes(block) % WordSize
  BY <1>1, <1>2 DEF Counts, CountInv, Counted
<1>4. ~short' => CountInv'
  BY <1>1, <1>3, DefaultAssumption DEF CountInv
<1> QED
  BY <1>1, <1>4, SizedStays DEF Counts

LEMMA ReinitCounts ==
  ASSUME IInv, Counts, Reinit
  PROVE  Counts'
<1>1. /\ \A t \in Threads : pc[t] = "out"
      /\ owner' = NoThread /\ UNCHANGED <<alloc_size, block, short>>
  BY DEF Reinit
<1>2. owner = NoThread
  BY <1>1 DEF IInv, TypeOK, Mutex, Inside
<1>3. ~short' => CountInv'
  BY <1>1, <1>2, DefaultAssumption DEF Counts, CountInv
<1> QED
  BY <1>1, <1>3, SizedStays DEF Counts

LEMMA StepCounts == IInv /\ Adds /\ Counts /\ [Next]_vars => Counts'
<1> SUFFICES ASSUME IInv, Adds, Counts, [Next]_vars PROVE Counts'
  OBVIOUS
<1>1. CASE Reinit
  BY <1>1, ReinitCounts
<1>2. ASSUME NEW t \in Threads, Client(t) PROVE Counts'
  BY <1>2, ClientCounts
<1>3. ASSUME NEW t \in Threads, Allocator(t) PROVE Counts'
  BY <1>3, LockCounts, MemoryCounts, NoMemoryCounts, LoadCounts, AddSizeCounts,
     SubtractSizeCounts, UnlockCounts DEF Allocator
<1>4. CASE UNCHANGED vars
  BY <1>4 DEF vars, Counts, Sized, CountInv, Counted, Ahead
<1> QED
  BY <1>1, <1>2, <1>3, <1>4 DEF Next

(* What the counter can say, the memory the threads have is below. *)
LEMMA BytesFit ==
  ASSUME IInv, Sized
  PROVE  Bytes(block) \in Nat /\ Bytes(block) % WordSize = Bytes(block)
<1>1. block \in [Threads -> Nat]
  BY DEF IInv, TypeOK
<1>2. block \in [Threads -> BlockSizes]
  BY <1>1 DEF Sized
<1>3. Bytes(block) < WordSize
  BY <1>2, MemoryAssumption
<1>4. Bytes(block) \in Nat
  <2>1. CASE Threads = {}
    <3>1. \A t \in Threads : block[t] = 0
      BY <2>1
    <3>2. Bytes(block) = 0
      BY <1>1, <3>1, BytesNone
    <3> QED
      BY <3>2
  <2>2. CASE Threads # {}
    BY <1>1, <2>2, BytesBound
  <2> QED
    BY <2>1, <2>2
<1> QED
  BY <1>3, <1>4, Wraps

(* The counter is exact whenever the mutex is free, for any number of      *)
(* threads in any order, as long as realloc finds memory.                  *)
THEOREM CounterExact == Spec => []UsedMem
<1>1. IInv /\ Counts => UsedMem
  <2> SUFFICES ASSUME IInv, Counts, owner = NoThread, ~short
               PROVE  alloc_size = Bytes(block)
    BY DEF UsedMem, CountIsExact
  <2>1. alloc_size = Bytes(block) % WordSize
    BY DEF Counts, CountInv
  <2> QED
    BY <2>1, BytesFit DEF Counts
<1> QED
  BY <1>1, Invariant, InitAdds, StepAdds, InitCounts, StepCounts, PTL DEF Spec

(* init takes another mode only while no thread has a block: the counter   *)
(* it looks at is zero only then.                                          *)
THEOREM ModeIsKept == Spec => ModeStays
<1>1. IInv /\ Counts /\ [Next]_vars =>
        [(~short /\ realloc_fix' # realloc_fix) =>
           \A t \in Threads : block[t] = 0]_vars
  <2> SUFFICES ASSUME IInv, Counts, [Next]_vars, ~short, realloc_fix' # realloc_fix,
                      NEW t \in Threads
               PROVE  block[t] = 0
    OBVIOUS
  <2>1. CASE Reinit
    <3>1. \A u \in Threads : pc[u] = "out"
      BY <2>1 DEF Reinit
    <3>2. owner = NoThread
      BY <3>1 DEF IInv, TypeOK, Mutex, Inside
    <3>3. alloc_size = Bytes(block)
      BY <3>2, BytesFit DEF Counts, CountInv
    <3>4. alloc_size = 0
      <4>1. ~ (alloc_size > 0) /\ alloc_size \in 0 .. WordSize - 1
        BY <2>1 DEF Reinit, Inited, IInv, TypeOK
      <4> QED
        BY <4>1, DefaultAssumption
    <3>5. block \in [Threads -> Nat] /\ block[t] \in Nat
      BY DEF IInv, TypeOK
    <3>6. block[t] <= Bytes(block)
      BY <3>5, BytesBound
    <3> QED
      BY <3>3, <3>4, <3>5, <3>6
  <2>2. CASE ~ Reinit
    <3>1. realloc_fix' = realloc_fix
      BY <2>2 DEF Next, vars, Client, Compress, AfterAlloc, ReallocFailed,
         Compressed, Release, Released, Allocator, Lock, Memory, NoMemory, Load,
         AddSize, SubtractSize, Unlock
    <3> QED
      BY <3>1
  <2> QED
    BY <2>1, <2>2
<1> QED
  BY <1>1, Invariant, InitAdds, StepAdds, InitCounts, StepCounts, PTL DEF Spec, ModeStays
=============================================================================
