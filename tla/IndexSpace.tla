----------------------------- MODULE IndexSpace -----------------------------
(***************************************************************************)
(* What strings and hash lists need of the index they live in: ChkIndex's  *)
(* alloc and free with the text a block holds.  A space maps each block to *)
(* its size and text; alloc gives a block that nobody has, as BlockHeap    *)
(* promises, or nothing.  misused notes what the index does not survive.   *)
(***************************************************************************)
EXTENDS Integers, FiniteSets, FiniteSetsExt

CONSTANTS
  Blocks,   \* the numbers of the blocks, which bound how many there are
  NoText    \* what a block holds that nobody has written to

NoBlock == [bytes |-> 0, text |-> NoText]

EmptySpace == [block |-> [b \in Blocks |-> NoBlock], misused |-> FALSE]

Allocated(space) == {b \in Blocks : space.block[b] # NoBlock}

Fresh(space) == Min(Blocks \ Allocated(space))

(* alloc rounds up to units of 8 bytes. *)
RoundUp(bytes) == ((bytes + 7) \div 8) * 8

WithBlock(space, bytes) ==
  [space EXCEPT !.block[Fresh(space)] = [bytes |-> RoundUp(bytes), text |-> NoText]]

(* free of block b, which must be allocated. *)
WithoutBlock(space, b) ==
  IF b \in Allocated(space) THEN [space EXCEPT !.block[b] = NoBlock]
  ELSE [space EXCEPT !.misused = TRUE]

(* memmove of a text with its final 0, of bytes in all, to block b *)
Written(space, b, text, bytes) ==
  IF b \in Allocated(space) /\ bytes <= space.block[b].bytes
  THEN [space EXCEPT !.block[b].text = text]
  ELSE [space EXCEPT !.misused = TRUE]
=============================================================================
