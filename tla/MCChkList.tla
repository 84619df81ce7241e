----------------------------- MODULE MCChkList ------------------------------
EXTENDS ChkList, TLC

CONSTANTS n1, n2, n3, n4

MCKey == (n1 :> 1) @@ (n2 :> 2) @@ (n3 :> 2) @@ (n4 :> 3)
=============================================================================
