---------------------------- MODULE ChkAccounts ----------------------------
(***************************************************************************)
(* The books of a chunk index: what its counters count.  A cell is a unit  *)
(* of a chunk, and a counter is the number of cells of some kind.          *)
(***************************************************************************)
EXTENDS ChkHeap, FiniteSets

Cells(b, size) == {b.no} \X (b.off .. End(b, size) - 1)

HeldCells(held) == UNION {Cells(b, b.size) : b \in held}

PooledCells(lists) ==
  UNION {UNION {Cells(lists[i][k], FreeSizes[i]) : k \in DOMAIN lists[i]} :
           i \in Classes}

(* The first height[n] cells of every chunk n that index x has. *)
Columns(x, height) ==
  UNION {{n} \X (0 .. height[n] - 1) : n \in 0 .. LastNo(x)}

HeaderCells(x) == Columns(x, [n \in ChkNos |-> Overhead(n)])

(* The cells below the virgin marks. *)
TouchedCells(x) == Columns(x, [n \in ChkNos |-> x.chk[n].virgin])

(* The capacity of the chunks, a cell to a step. *)
CapacitySteps(x) == Columns(x, [n \in ChkNos |-> x.chk[n].capacity])

(* The manager's counters agree with the chunk headers: every cell below a *)
(* virgin mark is counted as used or as free, and the capacity is that of  *)
(* the chunks.  alloc, free, shrink and the collection of a chunk's rest   *)
(* each update them in several places.                                     *)
Balanced ==
  /\ index.total_used + index.total_free = Cardinality(TouchedCells(index))
  /\ index.total_capacity = Cardinality(CapacitySteps(index))

(* _used of a chunk counts its headers and the blocks that are held in it, *)
(* and _total_used those of all chunks: nothing else is ever in use, and   *)
(* once everything is freed only the headers are.                          *)
UsedIsLive ==
  /\ \A n \in 0 .. LastNo(index) :
       index.chk[n].used =
         Overhead(n) + Cardinality({c \in HeldCells(live) : c[1] = n})
  /\ index.total_used =
       Cardinality(HeaderCells(index)) + Cardinality(HeldCells(live))

(* The free lists never hold more than _total_free says: they lose only    *)
(* the remnants that are smaller than _free_0.                             *)
PoolWithinFree ==
  Cardinality(PooledCells(index.free_list)) <= index.total_free
=============================================================================
