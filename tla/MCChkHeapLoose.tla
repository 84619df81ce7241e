--------------------------- MODULE MCChkHeapLoose --------------------------
(* Values for the constants of ChkHeapLoose. *)
EXTENDS ChkHeapLoose
SmallFreeSizes == <<2, 3, 4>>
=============================================================================
