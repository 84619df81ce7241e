----------------------------- MODULE MCStrNodes -----------------------------
(* Values for the constants of StrNodes, and the symmetry of the nodes. *)
EXTENDS StrNodes, TLC

CONSTANTS empty, seven, eight, sixteen

MCLength == (empty :> 0) @@ (seven :> 7) @@ (eight :> 8) @@ (sixteen :> 16)

MCTextHash == (empty :> 0) @@ (seven :> 1) @@ (eight :> 5) @@ (sixteen :> 6)

NodeSymmetry == Permutations(Nodes)
=============================================================================
