---------------------------- MODULE ChkHeapLoose ---------------------------
(***************************************************************************)
(* ChkHeap with a use its interface invites and its code does not carry:   *)
(* free with the size the caller asked alloc for, which free turns into    *)
(* units without rounding up.                                              *)
(***************************************************************************)
EXTENDS ChkAccounts

VARIABLE fault   \* what ended the program

NoFault == "none"

LooseVars == <<vars, fault>>

LooseInit == Init /\ fault = NoFault

Fail(what) ==
  /\ fault' = what
  /\ UNCHANGED vars

(* free(ptr, bytes); ChkMetadata::free asserts that the size is not 0. *)
FreeSized(b) ==
  LET size == SetChkSize(b.bytes)
  IN  IF size = 0 THEN Fail("free of size 0")
      ELSE /\ index' = Freed(index, b, size)
           /\ live' = live \ {b}
           /\ handed' = handed - 1
           /\ UNCHANGED fault

LooseNext ==
  /\ fault = NoFault
  /\ \/ Next /\ UNCHANGED fault
     \/ \E b \in live : FreeSized(b)

LooseSpec == LooseInit /\ [][LooseNext]_LooseVars
=============================================================================
