------------------------ MODULE MCChkDefaultMemAlloc ------------------------
(* Values for the constants of ChkDefaultMemAlloc. *)
EXTENDS ChkDefaultMemAlloc

SomeImages == {[most |-> 7, len |-> 3], [most |-> 5, len |-> 5]}
=============================================================================
