------------------------- MODULE ChkAccountsProofs -------------------------
(***************************************************************************)
(* Proofs about ChkAccounts: the counters of an index are cardinalities of *)
(* sets of cells.                                                          *)
(***************************************************************************)
EXTENDS ChkAccounts, ChkHeapProofs, FiniteSetTheorems

(* Sets without a common element add up. *)
LEMMA JoinSize ==
  ASSUME NEW S, IsFiniteSet(S), NEW T, IsFiniteSet(T), S \cap T = {}
  PROVE  /\ IsFiniteSet(S \cup T)
         /\ Cardinality(S \cup T) = Cardinality(S) + Cardinality(T)
         /\ Cardinality(S) \in Nat
         /\ Cardinality(T) \in Nat
<1>1. Cardinality(S \cap T) = 0
  BY FS_EmptySet
<1>2. Cardinality(S) \in Nat /\ Cardinality(T) \in Nat
  BY FS_CardinalityType
<1>3. /\ IsFiniteSet(S \cup T)
      /\ Cardinality(S \cup T) =
           Cardinality(S) + Cardinality(T) - Cardinality(S \cap T)
  BY FS_Union
<1> QED
  BY <1>1, <1>2, <1>3

(* The cells of one chunk from one offset up to another. *)
LEMMA StripSize ==
  ASSUME NEW n, NEW lo \in Nat, NEW hi \in Nat, lo <= hi
  PROVE  /\ IsFiniteSet({n} \X (lo .. hi - 1))
         /\ Cardinality({n} \X (lo .. hi - 1)) = hi - lo
<1>1. IsFiniteSet({n}) /\ Cardinality({n}) = 1
  BY FS_Singleton
<1> DEFINE K == lo .. hi - 1
<1>2. IsFiniteSet(K) /\ Cardinality(K) = hi - lo
  <2>1. lo \in Int /\ hi - 1 \in Int
    OBVIOUS
  <2>2. /\ IsFiniteSet(K)
        /\ Cardinality(K) = IF lo > hi - 1 THEN 0 ELSE (hi - 1) - lo + 1
    BY <2>1, FS_Interval
  <2> QED
    BY <2>2
<1> HIDE DEF K
<1>3. /\ IsFiniteSet({n} \X K)
      /\ Cardinality({n} \X K) = Cardinality({n}) * Cardinality(K)
  BY <1>1, <1>2, FS_Product
<1> QED
  BY <1>1, <1>2, <1>3 DEF K

LEMMA BlockSize ==
  ASSUME NEW b, b.off \in Nat, NEW size \in Nat
  PROVE  IsFiniteSet(Cells(b, size)) /\ Cardinality(Cells(b, size)) = size
<1>1. End(b, size) \in Nat /\ b.off <= End(b, size) /\ End(b, size) - b.off = size
  BY DEF End
<1> QED
  BY <1>1, StripSize DEF Cells

LEMMA CellIn ==
  ASSUME NEW b, NEW size, NEW c
  PROVE  c \in Cells(b, size) <=>
           \E k \in b.off .. End(b, size) - 1 : c = <<b.no, k>>
  BY DEF Cells

(* Blocks that are apart have no cell in common. *)
LEMMA ApartCells ==
  ASSUME NEW b, b.off \in Nat, NEW bsize \in Nat,
         NEW c, c.off \in Nat, NEW csize \in Nat,
         Disjoint(b, bsize, c, csize)
  PROVE  Cells(b, bsize) \cap Cells(c, csize) = {}
<1> SUFFICES ASSUME NEW k \in b.off .. End(b, bsize) - 1,
                    NEW l \in c.off .. End(c, csize) - 1,
                    <<b.no, k>> = <<c.no, l>>
             PROVE  FALSE
  BY CellIn
<1>1. b.no = c.no /\ k = l
  OBVIOUS
<1> QED
  BY <1>1 DEF Disjoint, End

(* A block within another has its cells only. *)
LEMMA WithinCells ==
  ASSUME NEW b, b.off \in Nat, NEW bsize \in Nat,
         NEW c, c.off \in Nat, NEW csize \in Nat,
         Within(c, csize, b, bsize)
  PROVE  Cells(c, csize) \subseteq Cells(b, bsize)
<1> SUFFICES ASSUME NEW k \in c.off .. End(c, csize) - 1
             PROVE  <<c.no, k>> \in Cells(b, bsize)
  BY CellIn
<1>1. c.no = b.no /\ k \in b.off .. End(b, bsize) - 1
  BY DEF Within, End
<1> QED
  BY <1>1, CellIn
---------------------------------------------------------------------------
(* Columns: what a change of one height or one more chunk does to them.    *)

LEMMA ColumnCell ==
  ASSUME NEW x \in ChkIndexes, NEW h, NEW c
  PROVE  c \in Columns(x, h) <=>
           \E n \in ChkNos, k \in Int :
             n < x.chk_num /\ k \in 0 .. h[n] - 1 /\ c = <<n, k>>
<1>1. x.chk_num \in Nat /\ \A n \in Nat : n < x.chk_num => n \in ChkNos
  BY IndexFields
<1>2. \A n : n \in 0 .. LastNo(x) <=> n \in ChkNos /\ n < x.chk_num
  BY <1>1 DEF LastNo, ChkNos
<1>3. c \in Columns(x, h) <=>
        \E n \in 0 .. LastNo(x) : c \in {n} \X (0 .. h[n] - 1)
  BY DEF Columns
<1>4. \A n : c \in {n} \X (0 .. h[n] - 1) <=>
               \E k \in 0 .. h[n] - 1 : c = <<n, k>>
  OBVIOUS
<1> QED
  BY <1>2, <1>3, <1>4

LEMMA ColumnsFinite ==
  ASSUME NEW x \in ChkIndexes, NEW h, NEW bound \in Nat,
         \A n \in ChkNos : n < x.chk_num => h[n] \in Nat /\ h[n] <= bound
  PROVE  /\ IsFiniteSet(Columns(x, h))
         /\ Cardinality(Columns(x, h)) \in Nat
         /\ Cardinality(Columns(x, h)) <= x.chk_num * bound
<1> DEFINE N == 0 .. x.chk_num - 1
           K == 0 .. bound - 1
<1>1. x.chk_num \in Nat
  BY IndexFields
<1>2. IsFiniteSet(N) /\ Cardinality(N) = x.chk_num
  <2>1. 0 \in Int /\ x.chk_num - 1 \in Int
    BY <1>1
  <2>2. /\ IsFiniteSet(N)
        /\ Cardinality(N) =
             IF 0 > x.chk_num - 1 THEN 0 ELSE (x.chk_num - 1) - 0 + 1
    BY <2>1, FS_Interval
  <2> QED
    BY <2>2, <1>1
<1>3. IsFiniteSet(K) /\ Cardinality(K) = bound
  <2>1. 0 \in Int /\ bound - 1 \in Int
    OBVIOUS
  <2>2. /\ IsFiniteSet(K)
        /\ Cardinality(K) = IF 0 > bound - 1 THEN 0 ELSE (bound - 1) - 0 + 1
    BY <2>1, FS_Interval
  <2> QED
    BY <2>2
<1>4. Columns(x, h) \subseteq N \X K
  <2> SUFFICES ASSUME NEW c \in Columns(x, h)
               PROVE  c \in N \X K
    OBVIOUS
  <2>1. PICK n \in ChkNos, k \in Int :
          n < x.chk_num /\ k \in 0 .. h[n] - 1 /\ c = <<n, k>>
    BY ColumnCell
  <2>2. n \in N /\ k \in K
    BY <2>1, <1>1 DEF ChkNos
  <2> QED
    BY <2>1, <2>2
<1> HIDE DEF N, K
<1>5. IsFiniteSet(N \X K) /\ Cardinality(N \X K) = x.chk_num * bound
  BY <1>2, <1>3, FS_Product
<1>6. IsFiniteSet(Columns(x, h))
  BY <1>4, <1>5, FS_Subset
<1>7. Cardinality(Columns(x, h)) <= x.chk_num * bound
  BY <1>4, <1>5, FS_Subset
<1> QED
  BY <1>6, <1>7, FS_CardinalityType

(* Heights agree but at chunk n. *)
SameBut(n, g, h) == \A m \in ChkNos \ {n} : h[m] = g[m]

LEMMA ColumnRaised ==
  ASSUME NEW x \in ChkIndexes, NEW y \in ChkIndexes, y.chk_num = x.chk_num,
         NEW n \in ChkNos, n < x.chk_num,
         NEW g, NEW h, SameBut(n, g, h), g[n] \in Nat, h[n] \in Nat,
         g[n] <= h[n], IsFiniteSet(Columns(x, g))
  PROVE  Cardinality(Columns(y, h)) =
           Cardinality(Columns(x, g)) + (h[n] - g[n])
<1> DEFINE top == {n} \X (g[n] .. h[n] - 1)
<1>1. IsFiniteSet(top) /\ Cardinality(top) = h[n] - g[n]
  BY StripSize
<1>2. \A c : c \in top <=> \E k \in g[n] .. h[n] - 1 : c = <<n, k>>
  OBVIOUS
<1> HIDE DEF top
<1>3. top \cap Columns(x, g) = {}
  <2> SUFFICES ASSUME NEW k \in g[n] .. h[n] - 1,
                      NEW m \in ChkNos, NEW l \in Int, l \in 0 .. g[m] - 1,
                      <<n, k>> = <<m, l>>
               PROVE  FALSE
    BY <1>2, ColumnCell
  <2> QED
    OBVIOUS
<1>4. Columns(y, h) = Columns(x, g) \cup top
  <2>1. ASSUME NEW c \in Columns(y, h)
        PROVE  c \in Columns(x, g) \cup top
    <3>1. PICK m \in ChkNos, k \in Int :
            m < x.chk_num /\ k \in 0 .. h[m] - 1 /\ c = <<m, k>>
      BY ColumnCell
    <3>2. CASE m # n
      BY <3>1, <3>2, ColumnCell DEF SameBut
    <3>3. CASE m = n
      <4>1. k \in 0 .. g[n] - 1 \/ k \in g[n] .. h[n] - 1
        BY <3>1, <3>3
      <4> QED
        BY <4>1, <3>1, <3>3, <1>2, ColumnCell
    <3> QED
      BY <3>2, <3>3
  <2>2. ASSUME NEW c \in Columns(x, g)
        PROVE  c \in Columns(y, h)
    <3>1. PICK m \in ChkNos, k \in Int :
            m < x.chk_num /\ k \in 0 .. g[m] - 1 /\ c = <<m, k>>
      BY ColumnCell
    <3>2. k \in 0 .. h[m] - 1
      <4>1. CASE m = n
        BY <4>1, <3>1
      <4>2. CASE m # n
        BY <4>2, <3>1 DEF SameBut
      <4> QED
        BY <4>1, <4>2
    <3> QED
      BY <3>1, <3>2, ColumnCell
  <2>3. ASSUME NEW c \in top
        PROVE  c \in Columns(y, h)
    <3>1. PICK k \in g[n] .. h[n] - 1 : c = <<n, k>>
      BY <1>2
    <3>2. k \in 0 .. h[n] - 1
      OBVIOUS
    <3> QED
      BY <3>1, <3>2, ColumnCell
  <2> QED
    BY <2>1, <2>2, <2>3
<1> QED
  BY <1>1, <1>3, <1>4, JoinSize

LEMMA ColumnMoved ==
  ASSUME NEW x \in ChkIndexes, NEW y \in ChkIndexes, y.chk_num = x.chk_num,
         NEW n \in ChkNos, n < x.chk_num,
         NEW g, NEW h, SameBut(n, g, h), g[n] \in Nat, h[n] \in Nat,
         IsFiniteSet(Columns(x, g)), IsFiniteSet(Columns(y, h))
  PROVE  Cardinality(Columns(y, h)) =
           Cardinality(Columns(x, g)) + (h[n] - g[n])
<1>1. CASE g[n] <= h[n]
  BY <1>1, ColumnRaised
<1>2. CASE h[n] <= g[n]
  <2>1. Cardinality(Columns(x, g)) =
          Cardinality(Columns(y, h)) + (g[n] - h[n])
    BY <1>2, ColumnRaised DEF SameBut
  <2>2. Cardinality(Columns(x, g)) \in Nat /\ Cardinality(Columns(y, h)) \in Nat
    BY FS_CardinalityType
  <2> QED
    BY <2>1, <2>2
<1> QED
  BY <1>1, <1>2

(* One more chunk. *)
LEMMA ColumnAdded ==
  ASSUME NEW x \in ChkIndexes, NEW y \in ChkIndexes,
         y.chk_num = x.chk_num + 1,
         NEW g, NEW h, SameBut(x.chk_num, g, h), h[x.chk_num] \in Nat,
         IsFiniteSet(Columns(x, g))
  PROVE  Cardinality(Columns(y, h)) =
           Cardinality(Columns(x, g)) + h[x.chk_num]
<1> DEFINE n == x.chk_num
           top == {n} \X (0 .. h[n] - 1)
<1>1. n \in Nat /\ n \in ChkNos
  <2>1. n \in Nat /\ n < y.chk_num
    BY IndexFields
  <2> QED
    BY <2>1, IndexFields
<1>2. IsFiniteSet(top) /\ Cardinality(top) = h[n]
  <2>1. 0 \in Nat /\ h[n] \in Nat /\ 0 <= h[n] /\ h[n] - 0 = h[n]
    OBVIOUS
  <2> QED
    BY <2>1, StripSize
<1>3. \A c : c \in top <=> \E k \in 0 .. h[n] - 1 : c = <<n, k>>
  OBVIOUS
<1> HIDE DEF top
<1>4. \A m \in ChkNos : m < y.chk_num <=> m < n \/ m = n
  BY <1>1 DEF ChkNos
<1>5. top \cap Columns(x, g) = {}
  <2> SUFFICES ASSUME NEW k, NEW m \in ChkNos, m < n, NEW l,
                      <<n, k>> = <<m, l>>
               PROVE  FALSE
    BY <1>3, ColumnCell
  <2> QED
    BY <1>1 DEF ChkNos
<1>6. Columns(y, h) = Columns(x, g) \cup top
  <2>1. ASSUME NEW c \in Columns(y, h)
        PROVE  c \in Columns(x, g) \cup top
    <3>1. PICK m \in ChkNos, k \in Int :
            m < y.chk_num /\ k \in 0 .. h[m] - 1 /\ c = <<m, k>>
      BY ColumnCell
    <3>2. CASE m = n
      BY <3>1, <3>2, <1>3
    <3>3. CASE m < n
      <4>1. m # n
        BY <3>3, <1>1
      <4> QED
        BY <4>1, <3>1, <3>3, ColumnCell DEF SameBut
    <3> QED
      BY <3>1, <3>2, <3>3, <1>4
  <2>2. ASSUME NEW c \in Columns(x, g)
        PROVE  c \in Columns(y, h)
    <3>1. PICK m \in ChkNos, k \in Int :
            m < x.chk_num /\ k \in 0 .. g[m] - 1 /\ c = <<m, k>>
      BY ColumnCell
    <3>2. m # n /\ m < y.chk_num
      BY <3>1, <1>1, <1>4 DEF ChkNos
    <3> QED
      BY <3>1, <3>2, ColumnCell DEF SameBut
  <2>3. ASSUME NEW c \in top
        PROVE  c \in Columns(y, h)
    BY <1>1, <1>3, <1>4, ColumnCell
  <2> QED
    BY <2>1, <2>2, <2>3
<1> QED
  BY <1>2, <1>5, <1>6, JoinSize
---------------------------------------------------------------------------
(* The cells of a good index: all of them lie below the virgin marks, and  *)
(* there are finitely many.                                                *)

Virgins(x) == [n \in ChkNos |-> x.chk[n].virgin]
Capacities(x) == [n \in ChkNos |-> x.chk[n].capacity]
Overheads == [n \in ChkNos |-> Overhead(n)]

LEMMA Heights ==
  ASSUME NEW x \in ChkIndexes
  PROVE  /\ TouchedCells(x) = Columns(x, Virgins(x))
         /\ CapacitySteps(x) = Columns(x, Capacities(x))
         /\ HeaderCells(x) = Columns(x, Overheads)
         /\ \A n \in ChkNos :
              /\ Virgins(x)[n] = x.chk[n].virgin
              /\ Capacities(x)[n] = x.chk[n].capacity
              /\ Overheads[n] = Overhead(n)
              /\ Virgins(x)[n] \in Nat
              /\ Capacities(x)[n] \in Nat
              /\ Overheads[n] \in Nat
<1>1. /\ TouchedCells(x) = Columns(x, Virgins(x))
      /\ CapacitySteps(x) = Columns(x, Capacities(x))
      /\ HeaderCells(x) = Columns(x, Overheads)
  BY DEF TouchedCells, CapacitySteps, HeaderCells, Virgins, Capacities, Overheads
<1> QED
  BY <1>1, IndexFields, Layout DEF Virgins, Capacities, Overheads

LEMMA VirginBound ==
  ASSUME NEW x, GoodIndex(x), NEW n \in ChkNos, n < x.chk_num
  PROVE  /\ x.chk[n].virgin \in Nat
         /\ x.chk[n].virgin <= Units(MaxCapacity)
         /\ Units(MaxCapacity) \in Nat
<1>1. x \in ChkIndexes /\ x.chk[n].virgin <= Units(x.chk[n].capacity)
  BY DEF GoodIndex
<1>2. /\ x.chk[n].virgin \in Nat
      /\ x.chk[n].capacity \in Nat
      /\ x.chk[n].capacity <= MaxCapacity
      /\ MaxCapacity \in Nat
  BY <1>1, IndexFields, Layout
<1>3. /\ Units(x.chk[n].capacity) \in Nat
      /\ Units(MaxCapacity) \in Nat
      /\ Units(x.chk[n].capacity) <= Units(MaxCapacity)
  BY <1>2, UnitsGrow, Layout
<1> QED
  BY <1>1, <1>2, <1>3

LEMMA TouchedFinite ==
  ASSUME NEW x, GoodIndex(x)
  PROVE  /\ IsFiniteSet(TouchedCells(x))
         /\ Cardinality(TouchedCells(x)) \in Nat
<1>1. x \in ChkIndexes /\ Units(MaxCapacity) \in Nat
  BY Layout DEF GoodIndex
<1>2. \A n \in ChkNos : n < x.chk_num =>
        Virgins(x)[n] \in Nat /\ Virgins(x)[n] <= Units(MaxCapacity)
  BY <1>1, VirginBound, Heights
<1> QED
  BY <1>1, <1>2, ColumnsFinite, Heights

LEMMA StepsFinite ==
  ASSUME NEW x \in ChkIndexes
  PROVE  /\ IsFiniteSet(CapacitySteps(x))
         /\ Cardinality(CapacitySteps(x)) \in Nat
         /\ Cardinality(CapacitySteps(x)) <= x.chk_num * MaxCapacity
<1>1. MaxCapacity \in Nat
  BY Layout
<1>2. \A n \in ChkNos : n < x.chk_num =>
        Capacities(x)[n] \in Nat /\ Capacities(x)[n] <= MaxCapacity
  BY <1>1, Heights, IndexFields
<1> QED
  BY <1>1, <1>2, ColumnsFinite, Heights

LEMMA HeadersFinite ==
  ASSUME NEW x \in ChkIndexes
  PROVE  /\ IsFiniteSet(HeaderCells(x))
         /\ Cardinality(HeaderCells(x)) \in Nat
<1>1. /\ MetaUnits + MgrUnits \in Nat
      /\ \A n \in ChkNos : Overhead(n) \in Nat /\ Overhead(n) <= MetaUnits + MgrUnits
  BY LayoutAssumption DEF Overhead
<1>2. \A n \in ChkNos : n < x.chk_num =>
        Overheads[n] \in Nat /\ Overheads[n] <= MetaUnits + MgrUnits
  BY <1>1, Heights
<1> QED
  BY <1>1, <1>2, ColumnsFinite, Heights

(* The cells of a block that is inside are touched. *)
LEMMA InsideTouched ==
  ASSUME NEW x \in ChkIndexes, NEW b, b.no \in ChkNos, b.off \in Nat,
         NEW size \in Nat, Inside(x, b, size)
  PROVE  Cells(b, size) \subseteq TouchedCells(x)
<1> SUFFICES ASSUME NEW k \in b.off .. End(b, size) - 1
             PROVE  <<b.no, k>> \in Columns(x, Virgins(x))
  BY CellIn, Heights
<1>1. /\ b.no < x.chk_num
      /\ End(b, size) <= Virgins(x)[b.no]
      /\ End(b, size) \in Nat
      /\ Virgins(x)[b.no] \in Nat
  BY Heights DEF Inside, End
<1>2. k \in Int /\ k \in 0 .. Virgins(x)[b.no] - 1
  BY <1>1
<1> QED
  BY <1>1, <1>2, ColumnCell

LEMMA HeldCell ==
  ASSUME NEW held, NEW c
  PROVE  c \in HeldCells(held) <=> \E b \in held : c \in Cells(b, b.size)
  BY DEF HeldCells

LEMMA PooledCell ==
  ASSUME NEW lists, NEW c
  PROVE  c \in PooledCells(lists) <=>
           \E i \in Classes : \E k \in DOMAIN lists[i] :
             c \in Cells(lists[i][k], FreeSizes[i])
  BY DEF PooledCells

LEMMA HeldFinite ==
  ASSUME NEW x, NEW held, Good(x, held)
  PROVE  /\ IsFiniteSet(HeldCells(held))
         /\ Cardinality(HeldCells(held)) \in Nat
<1>1. HeldCells(held) \subseteq TouchedCells(x)
  <2> SUFFICES ASSUME NEW b \in held
               PROVE  Cells(b, b.size) \subseteq TouchedCells(x)
    BY HeldCell
  <2>1. x \in ChkIndexes /\ b \in LiveBlocks /\ Inside(x, b, b.size)
    BY DEF Good, GoodIndex, GoodLive
  <2> QED
    BY <2>1, LiveTypes, InsideTouched
<1>2. IsFiniteSet(HeldCells(held))
  BY <1>1, TouchedFinite, FS_Subset DEF Good
<1> QED
  BY <1>2, FS_CardinalityType

LEMMA PooledFinite ==
  ASSUME NEW x, GoodIndex(x)
  PROVE  /\ IsFiniteSet(PooledCells(x.free_list))
         /\ Cardinality(PooledCells(x.free_list)) \in Nat
<1>1. PooledCells(x.free_list) \subseteq TouchedCells(x)
  <2> SUFFICES ASSUME NEW i \in Classes, NEW k \in DOMAIN x.free_list[i]
               PROVE  Cells(x.free_list[i][k], FreeSizes[i])
                        \subseteq TouchedCells(x)
    BY PooledCell
  <2>1. /\ x \in ChkIndexes /\ x.free_list \in Lists
        /\ Inside(x, x.free_list[i][k], FreeSizes[i])
    BY IndexFields DEF GoodIndex
  <2> QED
    BY <2>1, PoolTypes, InsideTouched
<1>2. IsFiniteSet(PooledCells(x.free_list))
  BY <1>1, TouchedFinite, FS_Subset
<1> QED
  BY <1>2, FS_CardinalityType

(* What a caller holds in chunk n. *)
HeldIn(held, n) == {c \in HeldCells(held) : c[1] = n}

LEMMA HeldInFinite ==
  ASSUME NEW x, NEW held, Good(x, held), NEW n
  PROVE  Cardinality(HeldIn(held, n)) \in Nat
<1>1. IsFiniteSet(HeldIn(held, n))
  BY HeldFinite, FS_Subset DEF HeldIn
<1> QED
  BY <1>1, FS_CardinalityType

(* A block apart from the others that are held adds its size. *)
LEMMA HeldOne ==
  ASSUME NEW x, NEW held, Good(x, held), NEW b \in held
  PROVE  LET less == held \ {b}
         IN  /\ Cardinality(HeldCells(held)) =
                  Cardinality(HeldCells(less)) + b.size
             /\ Cardinality(HeldIn(held, b.no)) =
                  Cardinality(HeldIn(less, b.no)) + b.size
             /\ \A m \in ChkNos \ {b.no} : HeldIn(held, m) = HeldIn(less, m)
             /\ Cardinality(HeldCells(less)) \in Nat
             /\ Cardinality(HeldIn(less, b.no)) \in Nat
<1> DEFINE less == held \ {b}
           own == Cells(b, b.size)
           n == b.no
<1>1. n \in ChkNos /\ b.off \in Nat /\ b.size \in Nat \ {0}
  BY LiveTypes DEF Good, GoodLive
<1>2. IsFiniteSet(own) /\ Cardinality(own) = b.size
  BY <1>1, BlockSize
<1>3. \A c \in own : c[1] = n
  BY CellIn
<1>4. IsFiniteSet(HeldCells(held))
  BY HeldFinite
<1>5. own \cap HeldCells(less) = {}
  <2> SUFFICES ASSUME NEW c \in less
               PROVE  own \cap Cells(c, c.size) = {}
    BY HeldCell
  <2>1. c.off \in Nat /\ c.size \in Nat /\ Disjoint(b, b.size, c, c.size)
    BY LiveTypes DEF Good, GoodLive
  <2> QED
    BY <2>1, <1>1, ApartCells
<1>6. HeldCells(held) = HeldCells(less) \cup own
  BY HeldCell
<1> HIDE DEF less, own, n
<1>7. IsFiniteSet(HeldCells(less))
  BY <1>4, <1>6, FS_Subset
<1>8. IsFiniteSet(HeldIn(less, n))
  BY <1>7, FS_Subset DEF HeldIn
<1>9. HeldIn(held, n) = HeldIn(less, n) \cup own
  BY <1>3, <1>6 DEF HeldIn
<1>10. HeldIn(less, n) \cap own = {}
  BY <1>5 DEF HeldIn
<1>11. \A m \in ChkNos \ {n} : HeldIn(held, m) = HeldIn(less, m)
  BY <1>3, <1>6 DEF HeldIn
<1>12. /\ Cardinality(HeldCells(held)) = Cardinality(HeldCells(less)) + b.size
       /\ Cardinality(HeldCells(less)) \in Nat
  BY <1>2, <1>5, <1>6, <1>7, JoinSize
<1>13. /\ Cardinality(HeldIn(held, n)) = Cardinality(HeldIn(less, n)) + b.size
       /\ Cardinality(HeldIn(less, n)) \in Nat
  BY <1>2, <1>8, <1>9, <1>10, JoinSize
<1> QED
  BY <1>11, <1>12, <1>13 DEF less, n

(* ChkMemMgr::free adds at most the cells of the region it is given. *)
LEMMA PooledMore ==
  ASSUME NEW lists \in Lists, IsFiniteSet(PooledCells(lists)),
         NEW b \in Blocks, NEW size \in Nat
  PROVE  LET new == PoolFree(FreeSizes, lists, b, size)
         IN  /\ Cardinality(PooledCells(new)) \in Nat
             /\ Cardinality(PooledCells(new))
                  <= Cardinality(PooledCells(lists)) + size
<1> DEFINE new == PoolFree(FreeSizes, lists, b, size)
           own == Cells(b, size)
           all == PooledCells(lists) \cup own
<1>1. new \in Lists /\ Derived(new, lists, b, size)
  BY PoolFreed
<1>2. b.off \in Nat
  BY DEF Blocks
<1>3. IsFiniteSet(own) /\ Cardinality(own) = size
  BY <1>2, BlockSize
<1> HIDE DEF new
<1>4. PooledCells(new) \subseteq all
  <2> SUFFICES ASSUME NEW i \in Classes, NEW k \in DOMAIN new[i]
               PROVE  Cells(new[i][k], FreeSizes[i]) \subseteq all
    BY PooledCell
  <2>1. new[i][k].off \in Nat /\ FreeSizes[i] \in Nat
    BY <1>1, PoolTypes
  <2>2. CASE Within(new[i][k], FreeSizes[i], b, size)
    BY <2>1, <2>2, <1>2, WithinCells
  <2>3. CASE \E l \in DOMAIN lists[i] : new[i][k] = lists[i][l]
    BY <2>3, PooledCell
  <2> QED
    BY <2>2, <2>3, <1>1 DEF Derived
<1> HIDE DEF own
<1>5. /\ IsFiniteSet(all)
      /\ Cardinality(all) = Cardinality(PooledCells(lists)) + Cardinality(own)
                              - Cardinality(PooledCells(lists) \cap own)
  BY <1>3, FS_Union
<1>6. /\ Cardinality(PooledCells(lists) \cap own) \in Nat
      /\ Cardinality(PooledCells(lists)) \in Nat
      /\ size \in Nat
  BY <1>3, FS_Intersection, FS_CardinalityType
<1>7. Cardinality(all) <= Cardinality(PooledCells(lists)) + size
  BY <1>3, <1>5, <1>6
<1>8. /\ IsFiniteSet(PooledCells(new))
      /\ Cardinality(PooledCells(new)) <= Cardinality(all)
  BY <1>4, <1>5, FS_Subset
<1>9. Cardinality(PooledCells(new)) \in Nat /\ Cardinality(all) \in Nat
  BY <1>5, <1>8, FS_CardinalityType
<1> QED
  BY <1>6, <1>7, <1>8, <1>9 DEF new

(* ChkMemMgr::alloc takes the block it hands out from the pool's cells. *)
LEMMA PooledLess ==
  ASSUME NEW lists \in Lists, IsFiniteSet(PooledCells(lists)), Apart(lists),
         NEW size \in Nat, Serving(FreeSizes, lists, size) # {}
  PROVE  LET new == PoolAlloc(FreeSizes, lists, size)
         IN  /\ Cardinality(PooledCells(new)) \in Nat
             /\ Cardinality(PooledCells(new)) + size
                  <= Cardinality(PooledCells(lists))
<1> DEFINE new == PoolAlloc(FreeSizes, lists, size)
           b == PoolTaken(FreeSizes, lists, size)
           i == Served(FreeSizes, lists, size)
           own == Cells(b, size)
<1>1. /\ i \in Classes
      /\ size <= FreeSizes[i]
      /\ 1 \in DOMAIN lists[i]
      /\ b = lists[i][1]
      /\ b \in Blocks
      /\ new \in Lists
      /\ OffPool(new, b, size)
      /\ Derived(new, lists, b, FreeSizes[i])
  BY PoolServed
<1> HIDE DEF new, i, b
<1>2. b.off \in Nat /\ FreeSizes[i] \in Nat
  BY <1>1, FreeSizesPos DEF Blocks
<1>3. IsFiniteSet(own) /\ Cardinality(own) = size
  BY <1>2, BlockSize
<1>4. Cells(b, FreeSizes[i]) \subseteq PooledCells(lists)
  BY <1>1, PooledCell
<1>5. own \subseteq PooledCells(lists)
  <2>1. Within(b, size, b, FreeSizes[i])
    BY <1>1, <1>2 DEF Within, End
  <2> QED
    BY <2>1, <1>2, <1>4, WithinCells
<1>6. PooledCells(new) \subseteq PooledCells(lists)
  <2> SUFFICES ASSUME NEW j \in Classes, NEW k \in DOMAIN new[j]
               PROVE  Cells(new[j][k], FreeSizes[j]) \subseteq PooledCells(lists)
    BY PooledCell
  <2>1. new[j][k].off \in Nat /\ FreeSizes[j] \in Nat
    BY <1>1, PoolTypes
  <2>2. CASE Within(new[j][k], FreeSizes[j], b, FreeSizes[i])
    BY <2>1, <2>2, <1>2, <1>4, WithinCells
  <2>3. CASE \E l \in DOMAIN lists[j] : new[j][k] = lists[j][l]
    BY <2>3, PooledCell
  <2> QED
    BY <2>2, <2>3, <1>1 DEF Derived
<1>7. own \cap PooledCells(new) = {}
  <2> SUFFICES ASSUME NEW j \in Classes, NEW k \in DOMAIN new[j]
               PROVE  own \cap Cells(new[j][k], FreeSizes[j]) = {}
    BY PooledCell
  <2>1. /\ new[j][k].off \in Nat /\ FreeSizes[j] \in Nat
        /\ Disjoint(b, size, new[j][k], FreeSizes[j])
    BY <1>1, PoolTypes DEF OffPool
  <2> QED
    BY <2>1, <1>2, ApartCells
<1> HIDE DEF own
<1>8. IsFiniteSet(PooledCells(new))
  BY <1>6, FS_Subset
<1>9. /\ Cardinality(PooledCells(new) \cup own) =
           Cardinality(PooledCells(new)) + size
      /\ Cardinality(PooledCells(new)) \in Nat
  BY <1>3, <1>7, <1>8, JoinSize
<1>10. Cardinality(PooledCells(new) \cup own) <= Cardinality(PooledCells(lists))
  BY <1>5, <1>6, FS_Subset
<1> QED
  BY <1>9, <1>10 DEF new
---------------------------------------------------------------------------
(* What the fields of an index have to say about its cells.                *)

Books(x, held) ==
  /\ x.total_used + x.total_free = Cardinality(TouchedCells(x))
  /\ x.total_capacity = Cardinality(CapacitySteps(x))
  /\ \A n \in ChkNos : n < x.chk_num =>
       x.chk[n].used = Overhead(n) + Cardinality(HeldIn(held, n))
  /\ x.total_used = Cardinality(HeaderCells(x)) + Cardinality(HeldCells(held))
  /\ Cardinality(PooledCells(x.free_list)) <= x.total_free

LEMMA Totals ==
  ASSUME NEW x \in ChkIndexes
  PROVE  /\ x.total_used \in Int /\ x.total_free \in Int
         /\ x.total_capacity \in Int
         /\ \A n \in ChkNos : x.chk[n].used \in Int
<1>1. /\ x.total_used \in Int /\ x.total_free \in Int
      /\ x.total_capacity \in Int
      /\ \A n \in ChkNos : x.chk[n] \in ChkMetadata
  BY DEF ChkIndexes
<1>2. \A h \in ChkMetadata : h.used \in Int
  BY DEF ChkMetadata
<1> QED
  BY <1>1, <1>2

LEMMA TouchedMoved ==
  ASSUME NEW x, GoodIndex(x), NEW y, GoodIndex(y), y.chk_num = x.chk_num,
         NEW n \in ChkNos, n < x.chk_num,
         \A m \in ChkNos \ {n} : y.chk[m].virgin = x.chk[m].virgin
  PROVE  /\ Cardinality(TouchedCells(y)) =
              Cardinality(TouchedCells(x)) + (y.chk[n].virgin - x.chk[n].virgin)
         /\ Cardinality(TouchedCells(x)) \in Nat
         /\ x.chk[n].virgin \in Nat
         /\ y.chk[n].virgin \in Nat
<1>1. x \in ChkIndexes /\ y \in ChkIndexes
  BY DEF GoodIndex
<1>2. SameBut(n, Virgins(x), Virgins(y))
  BY <1>1, Heights DEF SameBut
<1>3. /\ IsFiniteSet(Columns(x, Virgins(x)))
      /\ IsFiniteSet(Columns(y, Virgins(y)))
  BY <1>1, TouchedFinite, Heights
<1>4. Cardinality(Columns(y, Virgins(y))) =
        Cardinality(Columns(x, Virgins(x))) + (Virgins(y)[n] - Virgins(x)[n])
  BY <1>1, <1>2, <1>3, ColumnMoved, Heights
<1> QED
  BY <1>1, <1>4, TouchedFinite, Heights

LEMMA StepsMoved ==
  ASSUME NEW x \in ChkIndexes, NEW y \in ChkIndexes, y.chk_num = x.chk_num,
         NEW n \in ChkNos, n < x.chk_num,
         \A m \in ChkNos \ {n} : y.chk[m].capacity = x.chk[m].capacity
  PROVE  /\ Cardinality(CapacitySteps(y)) =
              Cardinality(CapacitySteps(x))
                + (y.chk[n].capacity - x.chk[n].capacity)
         /\ Cardinality(CapacitySteps(x)) \in Nat
         /\ x.chk[n].capacity \in Nat
         /\ y.chk[n].capacity \in Nat
<1>1. SameBut(n, Capacities(x), Capacities(y))
  BY Heights DEF SameBut
<1>2. /\ IsFiniteSet(Columns(x, Capacities(x)))
      /\ IsFiniteSet(Columns(y, Capacities(y)))
  BY StepsFinite, Heights
<1>3. Cardinality(Columns(y, Capacities(y))) =
        Cardinality(Columns(x, Capacities(x)))
          + (Capacities(y)[n] - Capacities(x)[n])
  BY <1>1, <1>2, ColumnMoved, Heights
<1> QED
  BY <1>3, StepsFinite, Heights

LEMMA HeadersSame ==
  ASSUME NEW x, NEW y, y.chk_num = x.chk_num
  PROVE  HeaderCells(y) = HeaderCells(x)
  BY DEF HeaderCells, Columns, LastNo

(* A chunk is appended: its headers are touched and used. *)
LEMMA BooksAppended ==
  ASSUME NEW x, NEW held, Good(x, held), Books(x, held), x.chk_num < MaxChkNum
  PROVE  Books(AppendChk(x), held)
<1> DEFINE y == AppendChk(x)
           n == x.chk_num
           o == Overhead(n)
<1>1. x \in ChkIndexes /\ n \in Nat
  BY IndexFields DEF Good, GoodIndex
<1>2. /\ y \in ChkIndexes
      /\ y.chk_num = n + 1
      /\ n \in ChkNos
      /\ y.free_list = x.free_list
      /\ y.total_used = x.total_used + o
      /\ y.total_free = x.total_free
      /\ y.total_capacity = x.total_capacity + MaxCapacity
      /\ y.chk[n].virgin = o
      /\ y.chk[n].capacity = MaxCapacity
      /\ y.chk[n].used = o
      /\ \A m \in ChkNos \ {n} : y.chk[m] = x.chk[m]
  BY <1>1, Appended
<1>3. o \in Nat
  BY <1>2, Layout
<1>4. GoodIndex(x) /\ GoodIndex(y)
  BY GoodAppended DEF Good
<1> HIDE DEF y
<1>5. x \in ChkIndexes /\ y \in ChkIndexes
  BY <1>1, <1>2
<1>6. y.chk_num = x.chk_num + 1
  BY <1>2
<1>7. Cardinality(TouchedCells(y)) = Cardinality(TouchedCells(x)) + o
  <2>1. SameBut(n, Virgins(x), Virgins(y))
    BY <1>1, <1>2, Heights DEF SameBut
  <2>2. Virgins(y)[n] = o /\ Virgins(y)[n] \in Nat
    BY <1>2, Heights
  <2>3. IsFiniteSet(Columns(x, Virgins(x)))
    BY <1>1, <1>4, TouchedFinite, Heights
  <2>4. Cardinality(Columns(y, Virgins(y))) =
          Cardinality(Columns(x, Virgins(x))) + Virgins(y)[n]
    BY <2>1, <2>2, <2>3, <1>5, <1>6, ColumnAdded
  <2> QED
    BY <2>2, <2>4, <1>1, <1>2, Heights
<1>8. Cardinality(CapacitySteps(y)) = Cardinality(CapacitySteps(x)) + MaxCapacity
  <2>1. SameBut(n, Capacities(x), Capacities(y))
    BY <1>1, <1>2, Heights DEF SameBut
  <2>2. Capacities(y)[n] = MaxCapacity /\ MaxCapacity \in Nat
    BY <1>2, Heights, Layout
  <2>3. IsFiniteSet(Columns(x, Capacities(x)))
    BY <1>1, StepsFinite, Heights
  <2>4. Cardinality(Columns(y, Capacities(y))) =
          Cardinality(Columns(x, Capacities(x))) + Capacities(y)[n]
    BY <2>1, <2>2, <2>3, <1>5, <1>6, ColumnAdded
  <2> QED
    BY <2>2, <2>4, <1>1, <1>2, Heights
<1>9. Cardinality(HeaderCells(y)) = Cardinality(HeaderCells(x)) + o
  <2>1. SameBut(n, Overheads, Overheads)
    BY DEF SameBut
  <2>2. Overheads[n] = o /\ Overheads[n] \in Nat
    BY <1>1, <1>2, Heights
  <2>3. IsFiniteSet(Columns(x, Overheads))
    BY <1>1, HeadersFinite, Heights
  <2>4. Cardinality(Columns(y, Overheads)) =
          Cardinality(Columns(x, Overheads)) + Overheads[n]
    BY <2>1, <2>2, <2>3, <1>5, <1>6, ColumnAdded
  <2> QED
    BY <2>2, <2>4, <1>1, <1>2, Heights
<1>10. HeldIn(held, n) = {}
  <2> SUFFICES ASSUME NEW b \in held, NEW c \in Cells(b, b.size), c[1] = n
               PROVE  FALSE
    BY HeldCell DEF HeldIn
  <2>1. b.no \in ChkNos /\ b.no < n
    BY LiveTypes DEF Good, GoodLive, Inside
  <2>2. c[1] = b.no
    BY CellIn
  <2> QED
    BY <2>1, <2>2, <1>1 DEF ChkNos
<1>11. ASSUME NEW m \in ChkNos, m < y.chk_num
      PROVE  y.chk[m].used = Overhead(m) + Cardinality(HeldIn(held, m))
  <2>1. CASE m = n
    <3>1. Cardinality(HeldIn(held, m)) = 0
      BY <2>1, <1>10, FS_EmptySet
    <3> QED
      BY <2>1, <3>1, <1>2, <1>3
  <2>2. CASE m # n
    <3>1. m < x.chk_num
      BY <2>2, <1>1, <1>2, <1>11 DEF ChkNos
    <3> QED
      BY <2>2, <3>1, <1>2 DEF Books
  <2> QED
    BY <2>1, <2>2
<1>12. /\ Cardinality(TouchedCells(x)) \in Nat
       /\ Cardinality(CapacitySteps(x)) \in Nat
       /\ Cardinality(HeaderCells(x)) \in Nat
       /\ Cardinality(HeldCells(held)) \in Nat
       /\ x.total_used \in Int /\ x.total_free \in Int
       /\ MaxCapacity \in Nat
  BY <1>1, <1>4, TouchedFinite, StepsFinite, HeadersFinite, HeldFinite, Totals,
     Layout
<1> HIDE DEF o
<1>13. y.total_used + y.total_free = Cardinality(TouchedCells(y))
  BY <1>2, <1>3, <1>7, <1>12 DEF Books
<1>14. y.total_capacity = Cardinality(CapacitySteps(y))
  BY <1>2, <1>8, <1>12 DEF Books
<1>15. y.total_used = Cardinality(HeaderCells(y)) + Cardinality(HeldCells(held))
  BY <1>2, <1>3, <1>9, <1>12 DEF Books
<1>16. Cardinality(PooledCells(y.free_list)) <= y.total_free
  BY <1>2 DEF Books
<1> QED
  BY <1>11, <1>13, <1>14, <1>15, <1>16 DEF Books, y

(* Chunk n books d cells more as used and e cells more as free, and its    *)
(* virgin mark moves by both.                                              *)
LEMMA Rebooked ==
  ASSUME NEW x, NEW held, Good(x, held), Books(x, held),
         NEW y, NEW all, Good(y, all), y.chk_num = x.chk_num,
         NEW n \in ChkNos, n < x.chk_num,
         \A m \in ChkNos \ {n} : y.chk[m] = x.chk[m],
         NEW d \in Int,
         y.chk[n].used = x.chk[n].used + d,
         y.total_used = x.total_used + d,
         Cardinality(HeldCells(all)) = Cardinality(HeldCells(held)) + d,
         Cardinality(HeldIn(all, n)) = Cardinality(HeldIn(held, n)) + d,
         \A m \in ChkNos \ {n} : HeldIn(all, m) = HeldIn(held, m),
         NEW e \in Int,
         y.total_free = x.total_free + e,
         y.chk[n].virgin = x.chk[n].virgin + d + e,
         y.total_capacity =
           x.total_capacity + (y.chk[n].capacity - x.chk[n].capacity),
         Cardinality(PooledCells(y.free_list)) <= y.total_free
  PROVE  Books(y, all)
<1>1. /\ x \in ChkIndexes /\ y \in ChkIndexes
      /\ GoodIndex(x) /\ GoodIndex(y)
  BY DEF Good, GoodIndex
<1>2. /\ x.total_used \in Int /\ x.total_free \in Int
      /\ x.total_capacity \in Int
      /\ x.chk[n].used \in Int
  BY <1>1, Totals
<1>3. /\ Cardinality(TouchedCells(y)) =
           Cardinality(TouchedCells(x)) + (y.chk[n].virgin - x.chk[n].virgin)
      /\ Cardinality(TouchedCells(x)) \in Nat
      /\ x.chk[n].virgin \in Nat
      /\ y.chk[n].virgin \in Nat
  BY <1>1, TouchedMoved
<1>4. Cardinality(TouchedCells(y)) = Cardinality(TouchedCells(x)) + d + e
  BY <1>3
<1>5. y.total_used + y.total_free = Cardinality(TouchedCells(y))
  BY <1>2, <1>3, <1>4 DEF Books
<1>6. y.total_capacity = Cardinality(CapacitySteps(y))
  BY <1>1, <1>2, StepsMoved DEF Books
<1>7. y.total_used = Cardinality(HeaderCells(y)) + Cardinality(HeldCells(all))
  <2>1. /\ Cardinality(HeaderCells(x)) \in Nat
        /\ HeaderCells(y) = HeaderCells(x)
        /\ Cardinality(HeldCells(held)) \in Nat
    BY <1>1, HeadersFinite, HeadersSame, HeldFinite
  <2> QED
    BY <2>1, <1>2 DEF Books
<1>8. ASSUME NEW m \in ChkNos, m < y.chk_num
      PROVE  y.chk[m].used = Overhead(m) + Cardinality(HeldIn(all, m))
  <2>1. CASE m = n
    <3>1. Cardinality(HeldIn(held, n)) \in Nat /\ Overhead(n) \in Nat
      BY HeldInFinite, Layout
    <3>2. x.chk[n].used = Overhead(n) + Cardinality(HeldIn(held, n))
      BY DEF Books
    <3> QED
      BY <2>1, <3>1, <3>2
  <2>2. CASE m # n
    BY <2>2, <1>8 DEF Books
  <2> QED
    BY <2>1, <2>2
<1> QED
  BY <1>5, <1>6, <1>7, <1>8 DEF Books

(* The rest of a chunk is collected: it is touched, and free. *)
LEMMA BooksCollected ==
  ASSUME NEW x, NEW held, Good(x, held), Books(x, held),
         NEW n \in ChkNos, n < x.chk_num
  PROVE  Books(Collect(x, n), held)
<1> DEFINE size == Rest(x, n)
           b == VirginBlock(x, n)
           z == TakeVirgin(x, n, size)
           lists == PoolFree(FreeSizes, x.free_list, b, size)
           y == Collect(x, n)
<1>1. x \in ChkIndexes /\ x.free_list \in Lists /\ GoodIndex(x)
  BY IndexFields DEF Good, GoodIndex
<1>2. /\ x.chk[n].virgin \in Nat
      /\ Units(x.chk[n].capacity) \in Nat
      /\ x.chk[n].virgin <= Units(x.chk[n].capacity)
  BY <1>1, IndexFields, Layout DEF Good, GoodIndex
<1>3. size \in Nat /\ x.chk[n].virgin + size \in Nat
  BY <1>2 DEF Rest
<1>4. b \in Blocks
  BY <1>2 DEF VirginBlock, Blocks
<1>5. CASE size = 0
  BY <1>5 DEF Collect
<1>6. CASE size # 0
  <2>1. /\ z \in ChkIndexes
        /\ z.chk_num = x.chk_num
        /\ z.free_list = x.free_list
        /\ z.total_used = x.total_used
        /\ z.total_free = x.total_free
        /\ z.total_capacity = x.total_capacity
        /\ z.chk[n].virgin = x.chk[n].virgin + size
        /\ z.chk[n].capacity = x.chk[n].capacity
        /\ z.chk[n].used = x.chk[n].used
        /\ \A m \in ChkNos \ {n} : z.chk[m] = x.chk[m]
    BY <1>1, <1>3, TakenVirgin
  <2>2. y = Repool(z, lists, x.total_free + size)
    BY <2>1, <1>6 DEF Collect, Repool
  <2>3. Good(y, held)
    BY GoodCollected
  <2> HIDE DEF size, b, z, y
  <2>4. lists \in Lists
    BY <1>1, <1>3, <1>4, PoolFreed
  <2>5. x.total_free \in Int /\ x.total_free + size \in Int
    BY <1>1, <1>3, Totals
  <2>6. /\ Cardinality(PooledCells(lists)) \in Nat
        /\ Cardinality(PooledCells(x.free_list)) \in Nat
        /\ Cardinality(PooledCells(lists))
             <= Cardinality(PooledCells(x.free_list)) + size
    BY <1>1, <1>3, <1>4, PooledFinite, PooledMore
  <2> HIDE DEF lists
  <2>7. /\ y.chk_num = x.chk_num
        /\ y.chk = z.chk
        /\ y.free_list = lists
        /\ y.total_used = x.total_used
        /\ y.total_free = x.total_free + size
        /\ y.total_capacity = x.total_capacity
    BY <2>1, <2>2, <2>4, <2>5, Repooled
  <2>8. /\ y.chk[n].used = x.chk[n].used + 0
        /\ y.total_used = x.total_used + 0
        /\ y.chk[n].virgin = x.chk[n].virgin + 0 + size
        /\ y.total_capacity =
             x.total_capacity + (y.chk[n].capacity - x.chk[n].capacity)
    BY <2>1, <2>7, <1>1, <1>2, Totals, IndexFields
  <2>9. /\ Cardinality(HeldCells(held)) = Cardinality(HeldCells(held)) + 0
        /\ Cardinality(HeldIn(held, n)) = Cardinality(HeldIn(held, n)) + 0
    <3>1. /\ Cardinality(HeldIn(held, n)) \in Nat
          /\ Cardinality(HeldCells(held)) \in Nat
      BY HeldFinite, HeldInFinite
    <3> QED
      BY <3>1
  <2>10. Cardinality(PooledCells(y.free_list)) <= y.total_free
    BY <2>5, <2>6, <2>7, <1>3 DEF Books
  <2>11. \A m \in ChkNos \ {n} : y.chk[m] = x.chk[m]
    BY <2>1, <2>7
  <2>12. 0 \in Int /\ size \in Int
    BY <1>3
  <2>13. Books(y, held)
    BY <2>3, <2>7, <2>8, <2>9, <2>10, <2>11, <2>12, Rebooked
  <2> QED
    BY <2>13 DEF y
<1> QED
  BY <1>5, <1>6

(* The last chunk changes its capacity. *)
LEMMA BooksResized ==
  ASSUME NEW x, NEW held, Good(x, held), Books(x, held), x.chk_num > 0,
         NEW y, Recapped(x, y)
  PROVE  Books(y, held)
<1> DEFINE n == LastNo(x)
           t(c) == x.total_capacity + (c - x.chk[n].capacity)
<1>1. x \in ChkIndexes
  BY DEF Good, GoodIndex
<1>2. n \in ChkNos /\ n < x.chk_num
  BY <1>1, LastIn
<1>3. PICK c \in 0 .. MaxCapacity :
        x.chk[n].virgin <= Units(c) /\ y = Recap(x, n, c, t(c))
  BY DEF Recapped
<1>4. t(c) \in Int
  BY <1>1, <1>2, IndexFields DEF ChkIndexes
<1> HIDE DEF n
<1>5. /\ Good(y, held)
      /\ y.chk_num = x.chk_num
      /\ y.free_list = x.free_list
      /\ y.total_used = x.total_used
      /\ y.total_free = x.total_free
      /\ y.total_capacity = t(c)
      /\ y.chk[n].virgin = x.chk[n].virgin
      /\ y.chk[n].capacity = c
      /\ y.chk[n].used = x.chk[n].used
      /\ \A m \in ChkNos \ {n} : y.chk[m] = x.chk[m]
  <2> HIDE DEF t
  <2> QED
    BY <1>2, <1>3, <1>4, GoodRecapped
<1>6. /\ x.total_used \in Int /\ x.total_free \in Int
      /\ x.chk[n].used \in Int /\ x.chk[n].virgin \in Nat
  BY <1>1, <1>2, Totals, IndexFields
<1>7. /\ y.chk[n].used = x.chk[n].used + 0
      /\ y.total_used = x.total_used + 0
      /\ y.total_free = x.total_free + 0
      /\ y.chk[n].virgin = x.chk[n].virgin + 0 + 0
  BY <1>5, <1>6
<1>8. y.total_capacity =
        x.total_capacity + (y.chk[n].capacity - x.chk[n].capacity)
  BY <1>5
<1>9. /\ Cardinality(HeldCells(held)) = Cardinality(HeldCells(held)) + 0
      /\ Cardinality(HeldIn(held, n)) = Cardinality(HeldIn(held, n)) + 0
  <2>1. /\ Cardinality(HeldIn(held, n)) \in Nat
        /\ Cardinality(HeldCells(held)) \in Nat
    BY HeldFinite, HeldInFinite
  <2> QED
    BY <2>1
<1>10. Cardinality(PooledCells(y.free_list)) <= y.total_free
  BY <1>5 DEF Books
<1> HIDE DEF t
<1> QED
  BY <1>2, <1>5, <1>7, <1>8, <1>9, <1>10, Rebooked

(* A block is handed to a caller: how far the held cells grow. *)
LEMMA HeldGrant ==
  ASSUME NEW y, NEW held, NEW b \in Blocks, NEW bytes \in Requests,
         Good(y, held \cup {Handed(b, bytes)}), Handed(b, bytes) \notin held
  PROVE  LET all == held \cup {Handed(b, bytes)}
             size == AlignedSize(bytes)
         IN  /\ Cardinality(HeldCells(all)) = Cardinality(HeldCells(held)) + size
             /\ Cardinality(HeldIn(all, b.no)) =
                  Cardinality(HeldIn(held, b.no)) + size
             /\ \A m \in ChkNos \ {b.no} : HeldIn(all, m) = HeldIn(held, m)
<1> DEFINE h == Handed(b, bytes)
           all == held \cup {h}
<1>1. h.no = b.no /\ h.size = AlignedSize(bytes)
  BY DEF Handed
<1> HIDE DEF h
<1>2. h \in all /\ all \ {h} = held
  BY DEF h
<1> HIDE DEF all
<1>3. /\ Cardinality(HeldCells(all)) =
           Cardinality(HeldCells(all \ {h})) + h.size
      /\ Cardinality(HeldIn(all, h.no)) =
           Cardinality(HeldIn(all \ {h}, h.no)) + h.size
      /\ \A m \in ChkNos \ {h.no} : HeldIn(all, m) = HeldIn(all \ {h}, m)
  <2>1. Good(y, all)
    BY DEF all, h
  <2> QED
    BY <2>1, <1>2, HeldOne
<1> QED
  BY <1>1, <1>2, <1>3 DEF all, h

(* alloc from the virgin part: the block is touched and used. *)
LEMMA BooksFromVirgin ==
  ASSUME NEW x, NEW held, Good(x, held), Books(x, held), x.chk_num > 0,
         NEW bytes \in Requests, AlignedSize(bytes) <= MaxContinus,
         Fits(LastChk(x), AlignedSize(bytes))
  PROVE  Books(FromVirgin(x, AlignedSize(bytes)),
               held \cup {Handed(VirginBlock(x, LastNo(x)), bytes)})
<1> DEFINE n == LastNo(x)
           size == AlignedSize(bytes)
           z == TakeVirgin(x, n, size)
           y == FromVirgin(x, size)
           b == VirginBlock(x, n)
           all == held \cup {Handed(b, bytes)}
<1>1. x \in ChkIndexes
  BY DEF Good, GoodIndex
<1>2. n \in ChkNos /\ n < x.chk_num
  BY <1>1, LastIn
<1>3. size \in Nat
  BY RequestSize
<1>4. Good(y, all) /\ Handed(b, bytes) \notin held
  BY GoodFromVirgin
<1>5. y = CountUsed(z, n, size)
  BY DEF FromVirgin
<1> HIDE DEF y
<1>6. x.chk[n].virgin \in Nat /\ x.chk[n].capacity \in Nat
  BY <1>1, <1>2, IndexFields
<1>7. b \in Blocks /\ b.no = n
  BY <1>2, <1>6 DEF VirginBlock, Blocks
<1> HIDE DEF n, size, b
<1>8. /\ Cardinality(HeldCells(all)) = Cardinality(HeldCells(held)) + size
      /\ Cardinality(HeldIn(all, n)) = Cardinality(HeldIn(held, n)) + size
      /\ \A m \in ChkNos \ {n} : HeldIn(all, m) = HeldIn(held, m)
  BY <1>4, <1>7, HeldGrant DEF size
<1> HIDE DEF all
<1>9. /\ z \in ChkIndexes
      /\ z.chk_num = x.chk_num
      /\ z.free_list = x.free_list
      /\ z.total_used = x.total_used
      /\ z.total_free = x.total_free
      /\ z.total_capacity = x.total_capacity
      /\ z.chk[n].virgin = x.chk[n].virgin + size
      /\ z.chk[n].capacity = x.chk[n].capacity
      /\ z.chk[n].used = x.chk[n].used
      /\ \A m \in ChkNos \ {n} : z.chk[m] = x.chk[m]
  <2>1. x.chk[n].virgin + size \in Nat /\ size \in Int
    BY <1>3, <1>6
  <2> QED
    BY <2>1, <1>1, <1>2, TakenVirgin
<1> HIDE DEF z
<1>10. /\ y.chk_num = z.chk_num
       /\ y.free_list = z.free_list
       /\ y.total_used = z.total_used + size
       /\ y.total_free = z.total_free
       /\ y.total_capacity = z.total_capacity
       /\ y.chk[n].used = z.chk[n].used + size
       /\ y.chk[n].virgin = z.chk[n].virgin
       /\ y.chk[n].capacity = z.chk[n].capacity
       /\ \A m \in ChkNos \ {n} : y.chk[m] = z.chk[m]
  <2>1. size \in Int
    BY <1>3
  <2> QED
    BY <2>1, <1>2, <1>5, <1>9, CountedUsed
<1>11. x.total_free \in Int /\ x.total_capacity \in Int
  BY <1>1, Totals
<1>12. /\ y.total_free = x.total_free + 0
       /\ y.chk[n].virgin = x.chk[n].virgin + size + 0
       /\ y.total_capacity =
            x.total_capacity + (y.chk[n].capacity - x.chk[n].capacity)
  BY <1>3, <1>6, <1>9, <1>10, <1>11
<1>13. /\ y.chk_num = x.chk_num
       /\ y.chk[n].used = x.chk[n].used + size
       /\ y.total_used = x.total_used + size
       /\ \A m \in ChkNos \ {n} : y.chk[m] = x.chk[m]
  BY <1>9, <1>10
<1>14. Cardinality(PooledCells(y.free_list)) <= y.total_free
  BY <1>9, <1>10 DEF Books
<1>15. size \in Int
  BY <1>3
<1>16. Books(y, all)
  BY <1>2, <1>4, <1>8, <1>12, <1>13, <1>14, <1>15, Rebooked
<1> QED
  BY <1>16 DEF y, all, b, n, size

(* alloc from the pool: free cells become used ones. *)
LEMMA BooksFromPool ==
  ASSUME NEW x, NEW held, Good(x, held), Books(x, held),
         NEW bytes \in Requests, AlignedSize(bytes) <= MaxContinus,
         InPool(x, AlignedSize(bytes))
  PROVE  Books(FromPool(x, AlignedSize(bytes)),
               held \cup {Handed(PoolTaken(FreeSizes, x.free_list,
                                           AlignedSize(bytes)), bytes)})
<1> DEFINE size == AlignedSize(bytes)
           lists == x.free_list
           i == Served(FreeSizes, lists, size)
           b == PoolTaken(FreeSizes, lists, size)
           n == b.no
           new == PoolAlloc(FreeSizes, lists, size)
           t == x.total_free - size
           z == Repool(x, new, t)
           y == FromPool(x, size)
           all == held \cup {Handed(b, bytes)}
<1>1. /\ x \in ChkIndexes /\ lists \in Lists
      /\ GoodIndex(x) /\ Apart(lists)
  BY IndexFields DEF Good, GoodIndex
<1>2. size \in Nat
  BY RequestSize
<1>3. Good(y, all) /\ Handed(b, bytes) \notin held /\ y.chk_num = x.chk_num
  BY GoodFromPool
<1>4. y = CountUsed(z, n, size)
  BY <1>1 DEF FromPool, Repool, ChkIndexes
<1> HIDE DEF y
<1>5. Serving(FreeSizes, lists, size) # {}
  BY DEF InPool
<1>6. x.total_free \in Int /\ x.total_capacity \in Int /\ t \in Int
  BY <1>1, <1>2, Totals
<1> HIDE DEF size, t
<1>7. /\ i \in Classes
      /\ 1 \in DOMAIN lists[i]
      /\ b = lists[i][1]
      /\ b \in Blocks
      /\ new \in Lists
  BY <1>1, <1>2, <1>5, PoolServed
<1>8. /\ Cardinality(PooledCells(new)) \in Nat
      /\ Cardinality(PooledCells(lists)) \in Nat
      /\ Cardinality(PooledCells(new)) + size <= Cardinality(PooledCells(lists))
  BY <1>1, <1>2, <1>5, PooledFinite, PooledLess
<1> HIDE DEF i, b, new
<1>9. n \in ChkNos /\ n < x.chk_num
  BY <1>1, <1>7 DEF Blocks, GoodIndex, Inside
<1>10. /\ Cardinality(HeldCells(all)) = Cardinality(HeldCells(held)) + size
       /\ Cardinality(HeldIn(all, n)) = Cardinality(HeldIn(held, n)) + size
       /\ \A m \in ChkNos \ {n} : HeldIn(all, m) = HeldIn(held, m)
  BY <1>3, <1>7, HeldGrant DEF size
<1> HIDE DEF all, n
<1>11. /\ z \in ChkIndexes
       /\ z.chk_num = x.chk_num
       /\ z.chk = x.chk
       /\ z.free_list = new
       /\ z.total_used = x.total_used
       /\ z.total_free = t
       /\ z.total_capacity = x.total_capacity
  BY <1>1, <1>6, <1>7, Repooled
<1> HIDE DEF z
<1>12. /\ y.free_list = z.free_list
       /\ y.total_used = z.total_used + size
       /\ y.total_free = z.total_free
       /\ y.total_capacity = z.total_capacity
       /\ y.chk[n].used = z.chk[n].used + size
       /\ y.chk[n].virgin = z.chk[n].virgin
       /\ y.chk[n].capacity = z.chk[n].capacity
       /\ \A m \in ChkNos \ {n} : y.chk[m] = z.chk[m]
  <2>1. size \in Int
    BY <1>2
  <2> QED
    BY <2>1, <1>4, <1>9, <1>11, CountedUsed
<1>13. x.chk[n].virgin \in Nat /\ x.chk[n].capacity \in Nat
  BY <1>1, <1>9, IndexFields
<1>14. /\ size \in Int /\ -size \in Int
       /\ y.total_free = x.total_free + (-size)
       /\ y.chk[n].virgin = x.chk[n].virgin + size + (-size)
       /\ y.total_capacity =
            x.total_capacity + (y.chk[n].capacity - x.chk[n].capacity)
  BY <1>2, <1>6, <1>11, <1>12, <1>13 DEF t
<1>15. /\ y.chk[n].used = x.chk[n].used + size
       /\ y.total_used = x.total_used + size
       /\ \A m \in ChkNos \ {n} : y.chk[m] = x.chk[m]
  BY <1>11, <1>12
<1>16. Cardinality(PooledCells(y.free_list)) <= y.total_free
  <2>1. Cardinality(PooledCells(lists)) <= x.total_free
    BY DEF Books
  <2> QED
    BY <2>1, <1>2, <1>6, <1>8, <1>11, <1>12 DEF t
<1>17. Books(y, all)
  BY <1>3, <1>9, <1>10, <1>14, <1>15, <1>16, Rebooked
<1> QED
  BY <1>17 DEF y, all, b, n, size

(* What is left of an index when a block is no longer counted as used. *)
LEMMA FreedFields ==
  ASSUME NEW x \in ChkIndexes, NEW b, b.no \in ChkNos, b.off \in Nat,
         NEW size \in Nat
  PROVE  LET y == Freed(x, b, size)
             n == b.no
             lists == PoolFree(FreeSizes, x.free_list, b, size)
         IN  /\ y.total_capacity = x.total_capacity
             /\ y.total_used = x.total_used + (-size)
             /\ y.chk[n].used = x.chk[n].used + (-size)
             /\ y.chk[n].capacity = x.chk[n].capacity
             /\ y.chk[n].alloc_capacity = x.chk[n].alloc_capacity
             /\ \A m \in ChkNos \ {n} : y.chk[m] = x.chk[m]
             /\ AtVirgin(x, b, size) =>
                  /\ y.free_list = x.free_list
                  /\ y.total_free = x.total_free
                  /\ y.chk[n].virgin = x.chk[n].virgin + (-size)
             /\ ~AtVirgin(x, b, size) =>
                  /\ y.free_list = lists
                  /\ y.total_free = x.total_free + size
                  /\ y.chk[n].virgin = x.chk[n].virgin
<1> DEFINE n == b.no
           low == TakeVirgin(x, n, -size)
           lists == PoolFree(FreeSizes, x.free_list, b, size)
           f == x.total_free + size
           z == IF AtVirgin(x, b, size) THEN low ELSE Repool(x, lists, f)
           u == z.chk[n].used - size
           t == z.total_used - size
           y == Freed(x, b, size)
<1>1. /\ x.free_list \in Lists
      /\ x.chk[n].virgin \in Nat
      /\ x.total_free \in Int /\ x.total_used \in Int
      /\ x.chk[n].used \in Int
  BY IndexFields, Totals
<1>2. lists \in Lists
  <2> DEFINE d == [no |-> b.no, off |-> b.off]
  <2>1. d \in Blocks
    BY DEF Blocks
  <2>2. lists = PoolFree(FreeSizes, x.free_list, d, size)
    BY DEF PoolFree, Carved
  <2> HIDE DEF d, lists
  <2> QED
    BY <2>1, <2>2, <1>1, PoolFreed
<1>3. f \in Int
  BY <1>1
<1>4. low = [x EXCEPT !.chk[n].virgin = @ - size]
  <2>1. x.chk[n].virgin + (-size) = x.chk[n].virgin - size
    BY <1>1
  <2> QED
    BY <2>1 DEF TakeVirgin
<1>5. z = IF AtVirgin(x, b, size)
          THEN [x EXCEPT !.chk[b.no].virgin = @ - size]
          ELSE [x EXCEPT !.free_list = PoolFree(FreeSizes, @, b, size),
                         !.total_free = @ + size]
  BY <1>4 DEF Repool, ChkIndexes
<1>6. y = [z EXCEPT !.chk[b.no].used = @ - size, !.total_used = @ - size]
  BY <1>5 DEF Freed
<1> HIDE DEF y
<1>7. CASE AtVirgin(x, b, size)
  <2>1. z = low /\ x.chk[n].virgin + (-size) \in Nat
    BY <1>7, <1>1 DEF AtVirgin, End
  <2>2. /\ low \in ChkIndexes
        /\ low.chk_num = x.chk_num
        /\ low.free_list = x.free_list
        /\ low.total_used = x.total_used
        /\ low.total_free = x.total_free
        /\ low.total_capacity = x.total_capacity
        /\ low.chk[n].virgin = x.chk[n].virgin + (-size)
        /\ low.chk[n].capacity = x.chk[n].capacity
        /\ low.chk[n].used = x.chk[n].used
        /\ low.chk[n].alloc_capacity = x.chk[n].alloc_capacity
        /\ \A m \in ChkNos \ {n} : low.chk[m] = x.chk[m]
    <3>1. -size \in Int
      OBVIOUS
    <3> HIDE DEF low
    <3> QED
      BY <3>1, <2>1, TakenVirgin DEF low
  <2> HIDE DEF z, low
  <2>3. y = Recount(z, n, u, t)
    BY <2>1, <2>2, <1>6 DEF Recount, ChkIndexes
  <2>4. u = x.chk[n].used + (-size) /\ t = x.total_used + (-size)
    BY <2>1, <2>2, <1>1
  <2>5. u \in Int /\ t \in Int
    BY <2>4, <1>1
  <2> HIDE DEF u, t
  <2>6. /\ y.free_list = z.free_list
        /\ y.total_used = t
        /\ y.total_free = z.total_free
        /\ y.total_capacity = z.total_capacity
        /\ y.chk[n].used = u
        /\ \A m \in ChkNos \ {n} : y.chk[m] = z.chk[m]
        /\ y.chk[n].virgin = z.chk[n].virgin
        /\ y.chk[n].capacity = z.chk[n].capacity
        /\ y.chk[n].alloc_capacity = z.chk[n].alloc_capacity
    <3>1. z \in ChkIndexes /\ n \in ChkNos
      BY <2>1, <2>2, <1>1
    <3>2. Recount(z, n, u, t).chk[n].alloc_capacity = z.chk[n].alloc_capacity
      BY <3>1, <2>5, Recounted
    <3> QED
      BY <3>1, <3>2, <2>3, <2>5, Recounted
  <2> QED
    BY <2>1, <2>2, <2>4, <2>6, <1>7 DEF y
<1>8. CASE ~AtVirgin(x, b, size)
  <2> DEFINE w == Repool(x, lists, f)
  <2>1. z = w
    BY <1>8
  <2>2. /\ w \in ChkIndexes
        /\ w.chk_num = x.chk_num
        /\ w.chk = x.chk
        /\ w.free_list = lists
        /\ w.total_used = x.total_used
        /\ w.total_free = f
        /\ w.total_capacity = x.total_capacity
    <3> HIDE DEF lists, f
    <3> QED
      BY <1>2, <1>3, Repooled
  <2> HIDE DEF z, w
  <2>3. y = Recount(z, n, u, t)
    BY <2>1, <2>2, <1>6 DEF Recount, ChkIndexes
  <2>4. u = x.chk[n].used + (-size) /\ t = x.total_used + (-size)
    BY <2>1, <2>2, <1>1
  <2>5. u \in Int /\ t \in Int
    BY <2>4, <1>1
  <2> HIDE DEF u, t
  <2>6. /\ y.free_list = z.free_list
        /\ y.total_used = t
        /\ y.total_free = z.total_free
        /\ y.total_capacity = z.total_capacity
        /\ y.chk[n].used = u
        /\ \A m \in ChkNos \ {n} : y.chk[m] = z.chk[m]
        /\ y.chk[n].virgin = z.chk[n].virgin
        /\ y.chk[n].capacity = z.chk[n].capacity
        /\ y.chk[n].alloc_capacity = z.chk[n].alloc_capacity
    <3>1. z \in ChkIndexes /\ n \in ChkNos
      BY <2>1, <2>2, <1>1
    <3>2. Recount(z, n, u, t).chk[n].alloc_capacity = z.chk[n].alloc_capacity
      BY <3>1, <2>5, Recounted
    <3> QED
      BY <3>1, <3>2, <2>3, <2>5, Recounted
  <2> QED
    BY <2>1, <2>2, <2>4, <2>6, <1>8 DEF y
<1> QED
  BY <1>7, <1>8

(* free: used cells become free ones, or untouched ones at the mark. *)
LEMMA BooksFreed ==
  ASSUME NEW x, NEW held, Good(x, held), Books(x, held), NEW b \in held
  PROVE  Books(Freed(x, b, b.size), held \ {b})
<1> DEFINE size == b.size
           n == b.no
           y == Freed(x, b, size)
           less == held \ {b}
           lists == PoolFree(FreeSizes, x.free_list, b, size)
<1>1. x \in ChkIndexes /\ x.free_list \in Lists /\ GoodIndex(x)
  BY IndexFields DEF Good, GoodIndex
<1>2. /\ n \in ChkNos /\ n < x.chk_num
      /\ b.off \in Nat /\ size \in Nat
  BY LiveTypes DEF Good, GoodLive, Inside
<1>3. Good(y, less) /\ y.chk_num = x.chk_num
  BY GoodFreed
<1>4. /\ y.total_capacity = x.total_capacity
      /\ y.total_used = x.total_used + (-size)
      /\ y.chk[n].used = x.chk[n].used + (-size)
      /\ y.chk[n].capacity = x.chk[n].capacity
      /\ \A m \in ChkNos \ {n} : y.chk[m] = x.chk[m]
      /\ AtVirgin(x, b, size) =>
           /\ y.free_list = x.free_list
           /\ y.total_free = x.total_free
           /\ y.chk[n].virgin = x.chk[n].virgin + (-size)
      /\ ~AtVirgin(x, b, size) =>
           /\ y.free_list = lists
           /\ y.total_free = x.total_free + size
           /\ y.chk[n].virgin = x.chk[n].virgin
  BY <1>1, <1>2, FreedFields
<1>5. /\ Cardinality(HeldCells(held)) = Cardinality(HeldCells(less)) + size
      /\ Cardinality(HeldIn(held, n)) = Cardinality(HeldIn(less, n)) + size
      /\ \A m \in ChkNos \ {n} : HeldIn(held, m) = HeldIn(less, m)
      /\ Cardinality(HeldCells(less)) \in Nat
      /\ Cardinality(HeldIn(less, n)) \in Nat
  BY HeldOne
<1>6. /\ Cardinality(PooledCells(lists)) \in Nat
      /\ Cardinality(PooledCells(x.free_list)) \in Nat
      /\ Cardinality(PooledCells(lists))
           <= Cardinality(PooledCells(x.free_list)) + size
  <2> DEFINE d == [no |-> b.no, off |-> b.off]
  <2>1. d \in Blocks
    BY <1>2 DEF Blocks
  <2>2. lists = PoolFree(FreeSizes, x.free_list, d, size)
    BY DEF PoolFree, Carved
  <2> HIDE DEF d, lists, size
  <2> QED
    BY <2>1, <2>2, <1>1, <1>2, PooledFinite, PooledMore
<1> HIDE DEF y, less, lists, n, size
<1>7. /\ Cardinality(HeldCells(less)) = Cardinality(HeldCells(held)) + (-size)
      /\ Cardinality(HeldIn(less, n)) = Cardinality(HeldIn(held, n)) + (-size)
      /\ \A m \in ChkNos \ {n} : HeldIn(less, m) = HeldIn(held, m)
  BY <1>2, <1>5
<1>8. /\ x.total_free \in Int /\ x.total_capacity \in Int
      /\ x.chk[n].virgin \in Nat /\ x.chk[n].capacity \in Nat
  BY <1>1, <1>2, Totals, IndexFields
<1>9. /\ -size \in Int /\ 0 \in Int /\ size \in Int
      /\ y.total_capacity =
           x.total_capacity + (y.chk[n].capacity - x.chk[n].capacity)
  BY <1>2, <1>4, <1>8
<1>10. Cardinality(PooledCells(x.free_list)) <= x.total_free
  BY DEF Books
<1>11. CASE AtVirgin(x, b, size)
  <2>1. /\ y.total_free = x.total_free + 0
        /\ y.chk[n].virgin = x.chk[n].virgin + (-size) + 0
        /\ Cardinality(PooledCells(y.free_list)) <= y.total_free
    BY <1>2, <1>4, <1>8, <1>10, <1>11
  <2> QED
    BY <2>1, <1>2, <1>3, <1>4, <1>7, <1>9, Rebooked DEF y, less, size
<1>12. CASE ~AtVirgin(x, b, size)
  <2>1. /\ y.total_free = x.total_free + size
        /\ y.chk[n].virgin = x.chk[n].virgin + (-size) + size
        /\ Cardinality(PooledCells(y.free_list)) <= y.total_free
    BY <1>2, <1>4, <1>6, <1>8, <1>10, <1>12
  <2> QED
    BY <2>1, <1>2, <1>3, <1>4, <1>7, <1>9, Rebooked DEF y, less, size
<1> QED
  BY <1>11, <1>12
---------------------------------------------------------------------------
(* The steps.                                                              *)

LEMMA BooksBooted ==
  ASSUME NEW x, NEW held, Good(x, held), Books(x, held)
  PROVE  Books(Booted(x), held)
<1>1. CASE x.chk_num = 0
  <2>1. x.chk_num < MaxChkNum
    BY <1>1, LayoutAssumption
  <2> QED
    BY <2>1, <1>1, BooksAppended DEF Booted
<1>2. CASE x.chk_num # 0
  BY <1>2 DEF Booted
<1> QED
  BY <1>1, <1>2

LEMMA BooksExtended ==
  ASSUME NEW x, NEW held, Good(x, held), Books(x, held), x.chk_num > 0,
         ~CanEnlarge(LastChk(x)), x.chk_num < MaxChkNum
  PROVE  Books(Extended(x), held)
<1> DEFINE n == LastNo(x)
           z == AppendChk(x)
<1>1. x \in ChkIndexes /\ x.chk_num \in Nat
  BY IndexFields DEF Good, GoodIndex
<1>2. n \in ChkNos /\ n < x.chk_num
  BY <1>1, LastIn
<1>3. Extended(x) = Collect(z, n)
  BY DEF Extended
<1>4. Good(z, held) /\ Books(z, held)
  BY GoodAppended, BooksAppended
<1>5. z.chk_num = x.chk_num + 1
  BY <1>1, Appended
<1> HIDE DEF z
<1>6. n < z.chk_num
  BY <1>1, <1>5 DEF LastNo
<1> HIDE DEF n
<1> QED
  BY <1>2, <1>3, <1>4, <1>6, BooksCollected

AInv == IInv /\ Books(index, live)

LEMMA InitAInv == Init => AInv
<1> SUFFICES ASSUME Init PROVE AInv
  OBVIOUS
<1>1. index = EmptyIndex /\ live = {} /\ IInv
  BY InitIInv DEF Init
<1>2. Cardinality({}) = 0
  BY FS_EmptySet
<1>3. /\ index.chk_num = 0
      /\ index.total_used = 0 /\ index.total_free = 0
      /\ index.total_capacity = 0
      /\ index.free_list = EmptyLists
  BY <1>1 DEF EmptyIndex
<1>4. LastNo(index) = -1
  BY <1>3 DEF LastNo
<1>5. \A h : Columns(index, h) = {}
  BY <1>4 DEF Columns
<1>6. /\ TouchedCells(index) = {}
      /\ CapacitySteps(index) = {}
      /\ HeaderCells(index) = {}
  BY <1>5 DEF TouchedCells, CapacitySteps, HeaderCells
<1>7. HeldCells(live) = {}
  BY <1>1 DEF HeldCells
<1>8. PooledCells(index.free_list) = {}
  <2>1. \A i \in Classes : DOMAIN EmptyLists[i] = {}
    BY DEF EmptyLists
  <2> QED
    BY <2>1, <1>3, PooledCell
<1>9. \A n \in ChkNos : ~(n < index.chk_num)
  BY <1>3 DEF ChkNos
<1> QED
  BY <1>1, <1>2, <1>3, <1>6, <1>7, <1>8, <1>9 DEF AInv, Books

LEMMA AllocBooks ==
  ASSUME AInv, NEW bytes \in Requests, Alloc(bytes)
  PROVE  AInv'
<1> DEFINE x == Booted(index)
           size == AlignedSize(bytes)
<1>1. IInv /\ IInv'
  BY AllocStep DEF AInv
<1>2. Admits(bytes)
  BY DEF Alloc, AllocFromPool, AllocFromVirgin, AllocFromNewChk
<1>3. AllocType = "MAX" /\ ~CanEnlarge(LastChk(x)) /\ size <= MaxContinus
  BY <1>1, <1>2, HeapAssumption DEF Admits, MustEnlarge, IInv
<1>4. /\ Good(x, live)
      /\ Books(x, live)
      /\ x.chk_num > 0
  BY <1>1, GoodBooted, BooksBooted DEF AInv, IInv
<1>5. CASE AllocFromPool(bytes)
  <2> DEFINE b == PoolTaken(FreeSizes, x.free_list, size)
  <2>1. /\ InPool(x, size)
        /\ index' = FromPool(x, size)
        /\ live' = live \cup {Handed(b, bytes)}
    BY <1>5 DEF AllocFromPool, Grant
  <2> HIDE DEF x
  <2>2. Books(index', live')
    BY <2>1, <1>3, <1>4, BooksFromPool
  <2> QED
    BY <2>2, <1>1 DEF AInv
<1>6. CASE AllocFromVirgin(bytes)
  <2>1. /\ Fits(LastChk(x), size)
        /\ index' = FromVirgin(x, size)
        /\ live' = live \cup {Handed(VirginBlock(x, LastNo(x)), bytes)}
    BY <1>6 DEF AllocFromVirgin, Grant
  <2> HIDE DEF x
  <2>2. Books(index', live')
    BY <2>1, <1>3, <1>4, BooksFromVirgin
  <2> QED
    BY <2>2, <1>1 DEF AInv
<1>7. CASE AllocFromNewChk(bytes)
  <2> DEFINE y == Extended(x)
  <2>1. /\ x.chk_num < MaxChkNum
        /\ index' = FromVirgin(y, size)
        /\ live' = live \cup {Handed(VirginBlock(y, LastNo(y)), bytes)}
    BY <1>3, <1>7 DEF AllocFromNewChk, Grant
  <2> HIDE DEF x
  <2>2. /\ Good(y, live)
        /\ y.chk_num = x.chk_num + 1
        /\ y.chk[LastNo(y)].virgin = Overhead(LastNo(y))
        /\ y.chk[LastNo(y)].capacity = MaxCapacity
    BY <2>1, <1>3, <1>4, GoodExtended
  <2>3. Books(y, live)
    BY <2>1, <1>3, <1>4, BooksExtended
  <2>4. y.chk_num > 0 /\ y \in ChkIndexes
    BY <2>2, <1>4, IndexFields DEF Good, GoodIndex
  <2> HIDE DEF y
  <2>5. Fits(LastChk(y), size)
    BY <2>2, <2>4, <1>3, FreshFits
  <2>6. Books(index', live')
    BY <2>1, <2>2, <2>3, <2>4, <2>5, <1>3, BooksFromVirgin
  <2> QED
    BY <2>6, <1>1 DEF AInv
<1> QED
  BY <1>5, <1>6, <1>7 DEF Alloc

LEMMA NextAInv == AInv /\ [Next]_vars => AInv'
<1> SUFFICES ASSUME AInv, [Next]_vars PROVE AInv'
  OBVIOUS
<1>1. IInv /\ IInv' /\ Books(index, live) /\ Good(index, live)
  BY NextIInv DEF AInv, IInv
<1>2. CASE \E bytes \in Requests : Alloc(bytes)
  BY <1>2, AllocBooks
<1>3. CASE \E b \in live : Free(b)
  <2>1. PICK b \in live : Free(b)
    BY <1>3
  <2>2. Books(index', live')
    BY <2>1, <1>1, BooksFreed DEF Free
  <2> QED
    BY <2>2, <1>1 DEF AInv
<1>4. CASE Enlarge
  <2>1. /\ index.chk_num > 0
        /\ index' = GrowLast(index)
        /\ live' = live
    BY <1>4 DEF Enlarge
  <2>2. AllocType = "MAX"
    BY <2>1, <1>1, HeapAssumption DEF IInv
  <2>3. Books(index', live')
    BY <2>1, <2>2, <1>1, Grown, BooksResized
  <2> QED
    BY <2>3, <1>1 DEF AInv
<1>5. CASE Shrink
  <2>1. /\ index.chk_num > 0
        /\ Surplus(LastChk(index)) > 0
        /\ index' = ShrunkIndex(index)
        /\ live' = live
    BY <1>5 DEF Shrink
  <2>2. Books(index', live')
    BY <2>1, <1>1, ShrunkBack, BooksResized
  <2> QED
    BY <2>2, <1>1 DEF AInv
<1>6. CASE UNCHANGED vars
  BY <1>1, <1>6 DEF AInv, vars
<1> QED
  BY <1>2, <1>3, <1>4, <1>5, <1>6 DEF Next

LEMMA Bookkeeping == Spec => []AInv
  BY InitAInv, NextAInv, PTL DEF Spec
---------------------------------------------------------------------------
(* However alloc, free, enlarge, shrink and the collection of a chunk's    *)
(* rest interleave, every cell below a virgin mark is counted once, as     *)
(* used or as free, and _total_capacity is the capacity of the chunks.     *)
THEOREM CountersBalance == Spec => []Balanced
<1>1. AInv => Balanced
  BY DEF AInv, Books, Balanced
<1> QED
  BY <1>1, Bookkeeping, PTL

(* _used and _total_used count the headers and what the callers hold, and  *)
(* nothing else: an index whose blocks are all freed shows its headers     *)
(* only.                                                                   *)
THEOREM NothingElseUsed == Spec => []UsedIsLive
<1>1. AInv => UsedIsLive
  <2> SUFFICES ASSUME AInv PROVE UsedIsLive
    OBVIOUS
  <2>1. index \in ChkIndexes /\ index.chk_num \in Nat
    BY IndexFields DEF AInv, IInv, Good, GoodIndex
  <2>2. ASSUME NEW n \in 0 .. LastNo(index)
        PROVE  index.chk[n].used =
                 Overhead(n) + Cardinality({c \in HeldCells(live) : c[1] = n})
    <3>1. n \in Nat /\ n < index.chk_num
      BY <2>1 DEF LastNo
    <3>2. n \in ChkNos
      BY <3>1, <2>1, IndexFields
    <3> QED
      BY <3>1, <3>2 DEF AInv, Books, HeldIn
  <2> QED
    BY <2>2 DEF AInv, Books, UsedIsLive
<1> QED
  BY <1>1, Bookkeeping, PTL

(* _total_free never falls below what the free lists hold, in particular   *)
(* not below zero.                                                         *)
THEOREM PoolIsCounted == Spec => []PoolWithinFree
<1>1. AInv => PoolWithinFree
  BY DEF AInv, Books, PoolWithinFree
<1> QED
  BY <1>1, Bookkeeping, PTL

(* The counters are unsigned fields of the manager and of the chunk        *)
(* headers: none of them is ever decremented below zero.                   *)
THEOREM NoneBelowZero ==
  Spec => [](/\ index.total_used \in Nat
             /\ index.total_free \in Nat
             /\ index.total_capacity \in Nat
             /\ \A n \in 0 .. LastNo(index) : index.chk[n].used \in Nat)
<1>1. AInv => /\ index.total_used \in Nat
              /\ index.total_free \in Nat
              /\ index.total_capacity \in Nat
              /\ \A n \in 0 .. LastNo(index) : index.chk[n].used \in Nat
  <2> SUFFICES ASSUME AInv
               PROVE  /\ index.total_used \in Nat
                      /\ index.total_free \in Nat
                      /\ index.total_capacity \in Nat
                      /\ \A n \in 0 .. LastNo(index) : index.chk[n].used \in Nat
    OBVIOUS
  <2>1. /\ Good(index, live) /\ GoodIndex(index) /\ index \in ChkIndexes
        /\ Books(index, live)
    BY DEF AInv, IInv, Good, GoodIndex
  <2>2. /\ Cardinality(HeaderCells(index)) \in Nat
        /\ Cardinality(HeldCells(live)) \in Nat
        /\ Cardinality(PooledCells(index.free_list)) \in Nat
        /\ Cardinality(CapacitySteps(index)) \in Nat
        /\ index.total_free \in Int
    BY <2>1, HeadersFinite, HeldFinite, PooledFinite, StepsFinite, Totals
  <2>3. /\ index.total_used \in Nat
        /\ index.total_free \in Nat
        /\ index.total_capacity \in Nat
    BY <2>1, <2>2 DEF Books
  <2>4. ASSUME NEW n \in 0 .. LastNo(index)
        PROVE  index.chk[n].used \in Nat
    <3>1. n < index.chk_num /\ n \in ChkNos
      BY <2>1, IndexFields DEF LastNo
    <3>2. Overhead(n) \in Nat /\ Cardinality(HeldIn(live, n)) \in Nat
      BY <2>1, <3>1, Layout, HeldInFinite
    <3> QED
      BY <2>1, <3>1, <3>2 DEF Books
  <2> QED
    BY <2>3, <2>4
<1> QED
  BY <1>1, Bookkeeping, PTL

(* What is held in a chunk lies between its headers and its virgin mark.   *)
LEMMA UsedBelowMark ==
  ASSUME NEW x, NEW held, Good(x, held), Books(x, held),
         NEW n \in ChkNos, n < x.chk_num
  PROVE  x.chk[n].used <= x.chk[n].virgin
<1> DEFINE strip == {n} \X (Overhead(n) .. x.chk[n].virgin - 1)
<1>1. /\ x \in ChkIndexes
      /\ Overhead(n) <= x.chk[n].virgin
  BY DEF Good, GoodIndex
<1>2. Overhead(n) \in Nat /\ x.chk[n].virgin \in Nat
  BY <1>1, Layout, IndexFields
<1>3. /\ IsFiniteSet(strip)
      /\ Cardinality(strip) = x.chk[n].virgin - Overhead(n)
  BY <1>1, <1>2, StripSize
<1>4. HeldIn(held, n) \subseteq strip
  <2> SUFFICES ASSUME NEW b \in held, NEW c \in Cells(b, b.size), c[1] = n
               PROVE  c \in strip
    BY HeldCell DEF HeldIn
  <2>1. PICK k \in b.off .. End(b, b.size) - 1 : c = <<b.no, k>>
    BY CellIn
  <2>2. b.no = n
    BY <2>1
  <2>3. /\ Overhead(n) <= b.off
        /\ End(b, b.size) <= x.chk[n].virgin
        /\ b.off \in Nat /\ b.size \in Nat
    BY <2>2, LiveTypes DEF Good, GoodLive, Inside
  <2>4. k \in Overhead(n) .. x.chk[n].virgin - 1
    BY <2>3, <1>2 DEF End
  <2> QED
    BY <2>1, <2>2, <2>4
<1> HIDE DEF strip
<1>5. Cardinality(HeldIn(held, n)) <= x.chk[n].virgin - Overhead(n)
  BY <1>3, <1>4, FS_Subset
<1>6. Cardinality(HeldIn(held, n)) \in Nat
  BY HeldInFinite
<1> QED
  BY <1>2, <1>5, <1>6 DEF Books

(* With the sizes the code has, every number the index keeps fits the bit  *)
(* field it is kept in: offsets and sizes of a ChkPtr, the fields of a     *)
(* chunk header, and _total_capacity.                                      *)
THEOREM FieldsSuffice ==
  ASSUME UnitsPerCap = 128, MaxCapacity = 16, MaxContinus <= 511,
         MaxChkNum <= 2047
  PROVE  Spec => []FitsFields
<1>1. AInv => FitsFields
  <2> SUFFICES ASSUME AInv PROVE FitsFields
    OBVIOUS
  <2>1. /\ Good(index, live) /\ GoodIndex(index) /\ index \in ChkIndexes
        /\ Books(index, live)
        /\ index.free_list \in Lists
        /\ index.chk_num \in Nat /\ index.chk_num <= 2047
    BY LayoutAssumption, IndexFields DEF AInv, IInv, Good, GoodIndex
  <2>2. Units(MaxCapacity) = 2048
    BY DEF Units
  <2>3. \A n \in ChkNos : n < index.chk_num =>
          index.chk[n].virgin \in Nat /\ index.chk[n].virgin <= 2048
    BY <2>1, <2>2, VirginBound
  <2>4. ASSUME NEW b, b.no \in ChkNos, b.off \in Nat, NEW size \in Nat \ {0},
               Inside(index, b, size)
        PROVE  2 * b.off < 2^12
    BY <2>3, <2>4 DEF Inside, End
  <2>5. ASSUME NEW b \in live
        PROVE  2 * b.off < 2^12 /\ b.size < 2^9
    <3>1. /\ b.no \in ChkNos /\ b.off \in Nat /\ b.size \in Nat \ {0}
          /\ Inside(index, b, b.size) /\ b.size <= MaxContinus
      BY <2>1, LiveTypes DEF Good, GoodLive
    <3>2. b.size < 2^9
      BY <3>1, LayoutAssumption
    <3> QED
      BY <3>1, <3>2, <2>4
  <2>6. ASSUME NEW i \in Classes, NEW k \in DOMAIN index.free_list[i]
        PROVE  2 * index.free_list[i][k].off < 2^12
    <3>1. Inside(index, index.free_list[i][k], FreeSizes[i])
      BY <2>1 DEF GoodIndex
    <3> QED
      BY <3>1, <2>1, <2>4, PoolTypes
  <2>7. ASSUME NEW n \in 0 .. LastNo(index)
        PROVE  /\ index.chk[n].capacity < 2^5
               /\ index.chk[n].used < 2^12
               /\ index.chk[n].virgin < 2^12
    <3>1. n < index.chk_num /\ n \in ChkNos
      BY <2>1, IndexFields DEF LastNo
    <3>2. index.chk[n].virgin \in Nat /\ index.chk[n].virgin <= 2048
      BY <2>3, <3>1
    <3>3. index.chk[n].used <= index.chk[n].virgin /\ index.chk[n].used \in Int
      BY <2>1, <3>1, UsedBelowMark, Totals
    <3>4. index.chk[n].capacity \in Nat /\ index.chk[n].capacity <= 16
      BY <2>1, <3>1, IndexFields
    <3> QED
      BY <3>2, <3>3, <3>4
  <2>8. index.total_capacity < 2^16
    <3>1. /\ index.total_capacity \in Nat
          /\ index.total_capacity <= index.chk_num * 16
      BY <2>1, StepsFinite DEF Books
    <3> QED
      BY <3>1, <2>1
  <2> QED
    BY <2>5, <2>6, <2>7, <2>8 DEF FitsFields
<1> QED
  BY <1>1, Bookkeeping, PTL
---------------------------------------------------------------------------
(* Two indexes with the same fields are the same index. *)
LEMMA SameHeader ==
  ASSUME NEW g \in ChkMetadata, NEW h \in ChkMetadata,
         g.capacity = h.capacity, g.used = h.used, g.virgin = h.virgin,
         g.alloc_capacity = h.alloc_capacity
  PROVE  g = h
  BY DEF ChkMetadata

LEMMA SameIndex ==
  ASSUME NEW x \in ChkIndexes, NEW y \in ChkIndexes,
         y.chk_num = x.chk_num,
         \A m \in ChkNos : y.chk[m] = x.chk[m],
         y.total_used = x.total_used,
         y.total_free = x.total_free,
         y.total_capacity = x.total_capacity,
         y.free_list = x.free_list
  PROVE  y = x
<1>1. y.chk = x.chk
  BY DEF ChkIndexes
<1> QED
  BY <1>1 DEF ChkIndexes

(* The block alloc has just cut from the virgin part ends at the mark, so  *)
(* that free lowers the mark again and takes back what alloc counted.      *)
LEMMA CutBack ==
  ASSUME NEW x, NEW held, Good(x, held), x.chk_num > 0,
         NEW bytes \in Requests, AlignedSize(bytes) <= MaxContinus,
         Fits(LastChk(x), AlignedSize(bytes)),
         NEW b, b = Handed(VirginBlock(x, LastNo(x)), bytes)
  PROVE  Freed(FromVirgin(x, AlignedSize(bytes)), b, b.size) = x
<1> DEFINE n == LastNo(x)
           size == AlignedSize(bytes)
           w == TakeVirgin(x, n, size)
           y == FromVirgin(x, size)
           z == Freed(y, b, b.size)
<1>1. x \in ChkIndexes /\ n \in ChkNos
  BY LastIn DEF Good, GoodIndex
<1>2. size \in Nat /\ -size \in Int
  BY RequestSize
<1>3. /\ b.no = n
      /\ b.off = x.chk[n].virgin
      /\ b.size = size
      /\ b.off \in Nat
  BY <1>1, IndexFields DEF Handed, VirginBlock
<1>4. /\ Good(y, held \cup {b})
      /\ b \in held \cup {b}
      /\ y.chk_num = x.chk_num
  BY GoodFromVirgin
<1>5. /\ y \in ChkIndexes
      /\ z \in ChkIndexes
      /\ z.chk_num = x.chk_num
  <2> HIDE DEF y
  <2>1. Good(z, (held \cup {b}) \ {b}) /\ z.chk_num = y.chk_num
    BY <1>4, GoodFreed
  <2> HIDE DEF z
  <2> QED
    BY <2>1, <1>4 DEF Good, GoodIndex
<1>6. y = CountUsed(w, n, size)
  BY DEF FromVirgin
<1> HIDE DEF n, size, y, z
<1>7. /\ w \in ChkIndexes
      /\ w.free_list = x.free_list
      /\ w.total_used = x.total_used
      /\ w.total_free = x.total_free
      /\ w.total_capacity = x.total_capacity
      /\ w.chk[n].virgin = x.chk[n].virgin + size
      /\ w.chk[n].capacity = x.chk[n].capacity
      /\ w.chk[n].used = x.chk[n].used
      /\ w.chk[n].alloc_capacity = x.chk[n].alloc_capacity
      /\ \A m \in ChkNos \ {n} : w.chk[m] = x.chk[m]
  <2>1. size \in Int /\ x.chk[n].virgin + size \in Nat
    BY <1>1, <1>2, IndexFields
  <2> QED
    BY <2>1, <1>1, TakenVirgin
<1> HIDE DEF w
<1>8. /\ y.free_list = x.free_list
      /\ y.total_used = x.total_used + size
      /\ y.total_free = x.total_free
      /\ y.total_capacity = x.total_capacity
      /\ y.chk[n].used = x.chk[n].used + size
      /\ y.chk[n].virgin = x.chk[n].virgin + size
      /\ y.chk[n].capacity = x.chk[n].capacity
      /\ y.chk[n].alloc_capacity = x.chk[n].alloc_capacity
      /\ \A m \in ChkNos \ {n} : y.chk[m] = x.chk[m]
  <2>1. size \in Int
    BY <1>2
  <2>2. /\ y.free_list = w.free_list
        /\ y.total_used = w.total_used + size
        /\ y.total_free = w.total_free
        /\ y.total_capacity = w.total_capacity
        /\ y.chk[n].used = w.chk[n].used + size
        /\ y.chk[n].alloc_capacity = w.chk[n].alloc_capacity
        /\ \A m \in ChkNos \ {n} : y.chk[m] = w.chk[m]
    BY <2>1, <1>1, <1>6, <1>7, CountedUsed
  <2>3. /\ y.chk[n].virgin = w.chk[n].virgin
        /\ y.chk[n].capacity = w.chk[n].capacity
    BY <2>1, <1>1, <1>6, <1>7, CountedUsed
  <2> QED
    BY <2>2, <2>3, <1>7
<1>9. AtVirgin(y, b, size)
  BY <1>3, <1>8 DEF AtVirgin, End
<1>10. /\ z.total_capacity = y.total_capacity
       /\ z.total_used = y.total_used + (-size)
       /\ z.free_list = y.free_list
       /\ z.total_free = y.total_free
       /\ z.chk[n].used = y.chk[n].used + (-size)
       /\ z.chk[n].capacity = y.chk[n].capacity
       /\ z.chk[n].alloc_capacity = y.chk[n].alloc_capacity
       /\ z.chk[n].virgin = y.chk[n].virgin + (-size)
       /\ \A m \in ChkNos \ {n} : z.chk[m] = y.chk[m]
  <2>1. z = Freed(y, b, size)
    BY <1>3 DEF z
  <2>2. b.no \in ChkNos
    BY <1>1, <1>3
  <2> QED
    BY <2>1, <2>2, <1>2, <1>3, <1>5, <1>9, FreedFields
<1>11. /\ x.total_used \in Int
       /\ x.chk[n].used \in Int
       /\ x.chk[n].virgin \in Nat
       /\ x.chk[n] \in ChkMetadata
       /\ z.chk[n] \in ChkMetadata
  BY <1>1, <1>5, IndexFields, Totals
<1>12. z.chk[n] = x.chk[n]
  <2>1. /\ z.chk[n].used = x.chk[n].used
        /\ z.chk[n].virgin = x.chk[n].virgin
        /\ z.chk[n].capacity = x.chk[n].capacity
        /\ z.chk[n].alloc_capacity = x.chk[n].alloc_capacity
    BY <1>2, <1>8, <1>10, <1>11
  <2> QED
    BY <2>1, <1>11, SameHeader
<1>13. \A m \in ChkNos : z.chk[m] = x.chk[m]
  BY <1>8, <1>10, <1>12
<1>14. /\ z.total_used = x.total_used
       /\ z.total_free = x.total_free
       /\ z.total_capacity = x.total_capacity
       /\ z.free_list = x.free_list
  BY <1>2, <1>8, <1>10, <1>11
<1>15. z = x
  BY <1>1, <1>5, <1>13, <1>14, SameIndex
<1> QED
  BY <1>15 DEF z, y, size

(* free undoes alloc: whatever came before, a block that has just been cut *)
(* from the virgin part and is freed leaves no trace in the index.         *)
THEOREM FreeUndoes == Spec => FreeUndoesAlloc
<1> DEFINE Undone ==
             \A bytes \in Requests :
               AllocFromVirgin(bytes) =>
                 \A b \in live' \ live : Freed(index', b, b.size) = Booted(index)
<1>1. IInv => Undone
  <2> SUFFICES ASSUME IInv, NEW bytes \in Requests, AllocFromVirgin(bytes),
                      NEW b \in live' \ live
               PROVE  Freed(index', b, b.size) = Booted(index)
    OBVIOUS
  <2> DEFINE x == Booted(index)
  <2>1. Good(x, live) /\ x.chk_num > 0
    BY GoodBooted DEF IInv
  <2>2. /\ AlignedSize(bytes) <= MaxContinus
        /\ Fits(LastChk(x), AlignedSize(bytes))
        /\ index' = FromVirgin(x, AlignedSize(bytes))
        /\ live' = live \cup {Handed(VirginBlock(x, LastNo(x)), bytes)}
    BY DEF AllocFromVirgin, Admits, Grant
  <2>3. b = Handed(VirginBlock(x, LastNo(x)), bytes)
    BY <2>2
  <2> HIDE DEF x
  <2>4. Freed(FromVirgin(x, AlignedSize(bytes)), b, b.size) = x
    BY <2>1, <2>2, <2>3, CutBack
  <2> QED
    BY <2>2, <2>4 DEF x
<1>2. IInv /\ [Next]_vars => [Undone]_vars
  BY <1>1
<1> QED
  BY <1>2, Invariance, PTL DEF Spec, FreeUndoesAlloc
=============================================================================
