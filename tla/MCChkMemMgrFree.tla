-------------------------- MODULE MCChkMemMgrFree --------------------------
(* Values for the constants of ChkMemMgrFree. *)
EXTENDS ChkMemMgrFree

(* The presets of the tests, the smallest, the largest that keep their     *)
(* size, some that are rounded up, some that are not in order, the zeros   *)
(* of a program that never calls preset_free_sizes, and some of which one  *)
(* becomes 0.                                                              *)
TriedPresets ==
  {<<16, 32, 64>>, <<8, 8, 8>>, <<120, 248, 1016>>, <<20, 70, 500>>,
   <<64, 32, 16>>, <<24, 16, 40>>, <<0, 0, 0>>,
   <<16, 32, 0>>, <<40, 250, 500>>, <<16, 32, 1017>>}

(* The maxima that chk_mem_mgr.h gives, one of them at a time.             *)
WidestPresets == {<<64, 128, 1024>>, <<64, 256, 512>>}

(* The end of a chunk of 2048 units, and its middle. *)
FreeRegions ==
  {[off |-> 2048 - s, size |-> s] : s \in {1, 2, 7, 15, 33, 200, 511}}
    \cup {[off |-> 6, size |-> s] : s \in {0, 1, 5, 16, 31, 128}}
=============================================================================
