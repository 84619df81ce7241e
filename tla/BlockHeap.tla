----------------------------- MODULE BlockHeap -----------------------------
(***************************************************************************)
(* What a chunk index promises to its callers, without saying how: an      *)
(* allocated block has the size that was asked for, rounded up to whole    *)
(* units, lies in one chunk above the headers the library keeps there, and *)
(* shares no unit with any other block that is still held.  A block is     *)
(* held until its holder frees it.                                         *)
(***************************************************************************)
EXTENDS ChkBase

CONSTANT Requests   \* the sizes in bytes the callers ask for

VARIABLES
  live,    \* the blocks the callers hold
  handed   \* how many blocks were handed out and not freed

Home(b) ==
  /\ b.no \in ChkNos
  /\ Overhead(b.no) <= b.off
  /\ End(b, b.size) <= Units(MaxCapacity)

Init == live = {} /\ handed = 0

Alloc(b) ==
  /\ b.size = AlignedSize(b.bytes)
  /\ b.size <= MaxContinus
  /\ Home(b)
  /\ \A c \in live : Disjoint(b, b.size, c, c.size)
  /\ live' = live \cup {b}
  /\ handed' = handed + 1

Free(b) ==
  /\ live' = live \ {b}
  /\ handed' = handed - 1

Next ==
  \/ \E no \in ChkNos, off \in 0 .. Units(MaxCapacity), bytes \in Requests :
       Alloc([no |-> no, off |-> off,
              size |-> AlignedSize(bytes), bytes |-> bytes])
  \/ \E b \in live : Free(b)

Spec == Init /\ [][Next]_<<live, handed>>
=============================================================================
