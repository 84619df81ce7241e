------------------------------ MODULE ChkBase ------------------------------
(***************************************************************************)
(* The vocabulary of chk/chk_base.h and the chunk layer ChkMetadata.       *)
(*                                                                         *)
(* A chunk is a block of memory that starts with its own header.  All      *)
(* sizes and offsets inside a chunk are counted in units of 8 bytes (what  *)
(* CHK_SIZE and SET_CHK_SIZE convert to and from); the capacity of a chunk *)
(* is counted in steps of CHK_CAPACITY(1) = 1024 bytes = UnitsPerCap units.*)
(* A block is what a ChkPtr designates: chunk number, offset and size.     *)
(***************************************************************************)
EXTENDS Integers

CONSTANTS
  UnitsPerCap,  \* units in one capacity step; 128 in the code
  MemSizes,     \* the levels of chk_mem_sizes; {1, 2, 4, 8, 12, 16}
  MetaUnits,    \* units of sizeof(ChkMetadata), aligned; 2
  MgrUnits,     \* units of sizeof(ChkMemMgr), aligned; 3
  MaxContinus,  \* CHK_MAX_CONTINUS_LEN in units, the largest _size; 511
  MaxChkNum     \* CHK_MAX_CHK_NUM, chunk numbers are below it; 2047

(* CHK_MAX_CHKSIZE, the last level. *)
MaxCapacity == CHOOSE c \in MemSizes : \A d \in MemSizes : d <= c

(* CHK_CAPACITY followed by SET_CHK_SIZE: the units of a capacity. *)
Units(capacity) == capacity * UnitsPerCap

(* What the code takes for granted about its own layout: the boot headers  *)
(* and one block of the largest size fit in a chunk of the last level.     *)
ASSUME LayoutAssumption ==
  /\ UnitsPerCap \in Nat \ {0}
  /\ MetaUnits \in Nat \ {0}
  /\ MgrUnits \in Nat \ {0}
  /\ MaxContinus \in Nat \ {0}
  /\ MaxChkNum \in Nat \ {0}
  /\ MemSizes \subseteq Nat \ {0}
  /\ MaxCapacity \in MemSizes
  /\ \A d \in MemSizes : d <= MaxCapacity
  /\ MetaUnits + MgrUnits + MaxContinus <= Units(MaxCapacity)

ChkNos == 0 .. MaxChkNum - 1

---------------------------------------------------------------------------
(* Bytes to units.  SET_CHK_SIZE drops the remainder, chk_align_def rounds *)
(* up to a whole unit first.                                               *)
SetChkSize(bytes) == bytes \div 8
AlignedSize(bytes) == (bytes + 7) \div 8

(* The fields of ChkMetadata that carry state. *)
ChkMetadata ==
  [capacity : 0 .. MaxCapacity, used : Int, virgin : Nat, alloc_capacity : Nat]

(* The contents of an entry of _chk_addr at or above _chk_num, never read. *)
NoChk == [capacity |-> 0, used |-> 0, virgin |-> 0, alloc_capacity |-> 0]

(* ChkMetadata::can_enlarge *)
CanEnlarge(chk) == chk.alloc_capacity # 0 /\ chk.capacity < MaxCapacity

(* The units the library keeps for itself at the start of chunk n: the     *)
(* chunk header, and in the first chunk the manager.                       *)
Overhead(n) == MetaUnits + (IF n = 0 THEN MgrUnits ELSE 0)

(* Chunk n as ChkMetadata::enlarge(NULL, ...) makes it, with the manager.  *)
FreshChk(n, level) ==
  [capacity |-> level, used |-> Overhead(n), virgin |-> Overhead(n),
   alloc_capacity |-> level]

(* ChkMetadata::enlarge on an existing chunk.  A mutant adds to the fields. *)
BugEnlarged(chk, level) ==
  [chk EXCEPT !.capacity = @ + level, !.alloc_capacity = @ + level]

Enlarged(chk, level) ==
  [chk EXCEPT !.capacity = level, !.alloc_capacity = level]

(* ChkMetadata::alloc succeeds: the virgin part still holds size units.    *)
(* A mutant compares bytes with the capacity in the wrong unit.            *)
BugFits(chk, size) == chk.virgin + size <= 2 * Units(chk.capacity)

Fits(chk, size) == chk.virgin + size <= Units(chk.capacity)

(* The whole capacity steps above the virgin mark, reset_chk in shrink; a  *)
(* mutant rounds them up.                                                  *)
BugSurplus(chk) ==
  (Units(chk.capacity) - chk.virgin + UnitsPerCap - 1) \div UnitsPerCap

Surplus(chk) == (Units(chk.capacity) - chk.virgin) \div UnitsPerCap

(* ChkMetadata::shrink; the identity when there is no surplus. *)
Shrunk(chk) ==
  LET level == chk.capacity - Surplus(chk)
  IN  IF Surplus(chk) = 0 THEN chk ELSE Enlarged(chk, level)

---------------------------------------------------------------------------
(* The first unit past a block, and when two blocks share no unit. *)
End(b, size) == b.off + size

Disjoint(a, asize, b, bsize) ==
  \/ a.no # b.no
  \/ End(a, asize) <= b.off
  \/ End(b, bsize) <= a.off
=============================================================================
