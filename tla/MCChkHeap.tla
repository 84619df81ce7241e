----------------------------- MODULE MCChkHeap -----------------------------
(* Values for the constants of ChkHeap. *)
EXTENDS ChkAccounts
SmallFreeSizes == <<2, 3, 4>>
=============================================================================
