--------------------------- MODULE ChkMemMgrFree ---------------------------
(***************************************************************************)
(* The loop of ChkMemMgr::free, one turn per step, with the block sizes as *)
(* preset_free_sizes and the constructor of the manager make them: rounded *)
(* to units, then stored in fields of 4, 5 and 7 bits.  The sizes need not *)
(* be in increasing order; nothing in the code asks for it.                *)
(*                                                                         *)
(* The free lists come back as the closed form PoolFree that the modules   *)
(* above ChkMemMgr use (ClosedForm), and the loop ends (Ends) unless a     *)
(* size is 0, which a preset at its limit becomes (AlwaysEnds).            *)
(***************************************************************************)
EXTENDS ChkMemMgr, FiniteSetsExt

CONSTANTS
  Presets,      \* triples of bytes preset_free_sizes is called with
  Regions,      \* the memory that is freed, as records [off, size] in units
  MaxCalls      \* bound: how often free is called

(* The number of units _offset can address, and a chunk has at most; it    *)
(* wraps behind the last one.                                              *)
OffsetUnits == 2048

(* What is freed lies within a chunk. *)
ASSUME FreeAssumption ==
  /\ Presets \subseteq [Classes -> Nat]
  /\ Regions \subseteq [off : 0 .. OffsetUnits - 1, size : 0 .. MaxContinus]
  /\ \A r \in Regions : r.off + r.size <= OffsetUnits
  /\ MaxCalls \in Nat

VARIABLES
  preset,   \* the argument of preset_free_sizes
  fs,       \* <<_free_0, _free_1, _free_2>>
  lists,    \* _free_list
  before,   \* the lists when free was called
  region,   \* the memory it was called with
  left,     \* left_size
  off,      \* chk_ptr._offset, in units
  calls,    \* how often it was called
  pc        \* "idle", "loop", or "failed": an assertion does not hold

vars == <<preset, fs, lists, before, region, left, off, calls, pc>>

(* What preset_free_sizes limits a preset to, and how many values the      *)
(* fields of the manager can hold.  The largest presets wrap to 0.         *)
MaxPresets == <<127, 255, 1023>>
FieldValues == <<16, 32, 128>>

FreeSize(p, i) == AlignedSize(Min({MaxPresets[i], p[i]})) % FieldValues[i]

(* chk_ptr._offset moves on.  A mutant forgets the width of the field.     *)
BugAdvance(o, units) == o + units

Advance(o, units) == (o + units) % OffsetUnits

Init ==
  /\ preset \in Presets
  /\ fs = [i \in Classes |-> FreeSize(preset, i)]
  /\ lists = EmptyLists
  /\ before = EmptyLists
  /\ region = [no |-> 0, off |-> 0, size |-> 0]
  /\ left = 0
  /\ off = 0
  /\ calls = 0
  /\ pc = "idle"

(* free is called with memory of a chunk of its own. *)
Call(r) ==
  /\ pc = "idle"
  /\ calls < MaxCalls
  /\ fs[1] # 0
  /\ pc' = "loop"
  /\ before' = lists
  /\ region' = [no |-> calls, off |-> r.off, size |-> r.size]
  /\ left' = r.size
  /\ off' = r.off
  /\ calls' = calls + 1
  /\ UNCHANGED <<preset, fs, lists>>

(* The assertion at the start of free: without a smallest block it ends    *)
(* the program.                                                            *)
Fail ==
  /\ pc = "idle"
  /\ calls < MaxCalls
  /\ fs[1] = 0
  /\ pc' = "failed"
  /\ UNCHANGED <<preset, fs, lists, before, region, left, off, calls>>

(* The condition of the loop, and the class a turn cuts a block of.        *)
(* Mutants go on while anything is left, or stop one block too early, or   *)
(* try the classes upwards.                                                *)
BugGoesOn == left > 0
BugStops == left > fs[1]

GoesOn == left >= fs[1]

BugCutClass == Min({i \in Classes : left >= fs[i]})

CutClass == Max({i \in Classes : left >= fs[i]})

(* chk_slist_push.  A node that is on top already becomes its own next,    *)
(* and what was below it is lost.                                          *)
PushedOn(s, b) ==
  IF s # << >> /\ Head(s) = b THEN <<b>> ELSE <<b>> \o s

(* A turn of the loop that finds a class.  One whose size is 0 takes       *)
(* nothing: the next turn finds the same class, pushes the same place, and *)
(* so leaves everything as it is.                                          *)
Cut ==
  /\ pc = "loop"
  /\ GoesOn
  /\ \E i \in Classes : left >= fs[i]
  /\ lists' = [lists EXCEPT ![CutClass] =
                 PushedOn(@, [no |-> region.no, off |-> off])]
  /\ left' = left - fs[CutClass]
  /\ off' = Advance(off, fs[CutClass])
  /\ UNCHANGED <<preset, fs, before, region, calls, pc>>

Return ==
  /\ pc = "loop"
  /\ ~GoesOn
  /\ pc' = "idle"
  /\ UNCHANGED <<preset, fs, lists, before, region, left, off, calls>>

Next == (\E r \in Regions : Call(r)) \/ Fail \/ Cut \/ Return

(* A call runs on a thread that is not stopped in the middle of it. *)
Spec == Init /\ [][Next]_vars /\ WF_vars(Cut \/ Return)

---------------------------------------------------------------------------
TypeOK ==
  /\ preset \in Presets
  /\ fs \in [Classes -> Nat]
  /\ \A i \in Classes : fs[i] < FieldValues[i]
  /\ lists \in [Classes -> Seq([no : Nat, off : 0 .. OffsetUnits - 1])]
  /\ before \in [Classes -> Seq([no : Nat, off : 0 .. OffsetUnits - 1])]
  /\ region \in [no : Nat, off : Nat, size : Nat]
  /\ left \in 0 .. region.size
  /\ off \in 0 .. OffsetUnits - 1
  /\ calls \in 0 .. MaxCalls
  /\ pc \in {"idle", "loop", "failed"}

(* ChkMemMgr::free leaves the lists the closed form gives: the largest     *)
(* blocks first, in address order, all inside the region, also when the    *)
(* region ends with the chunk and the offset wraps.                        *)
ClosedForm ==
  (pc = "idle" /\ calls > 0 /\ Increasing(fs)) =>
    lists = PoolFree(fs, before, region, region.size)

(* What a call does not pool is the end of the region, smaller than        *)
(* _free_0, whatever the order of the sizes: blocks and rest add up.       *)
RestIsSmall ==
  LET Pooled(i) == Len(lists[i]) - Len(before[i])
  IN  (pc = "idle" /\ calls > 0) =>
        LET rest == region.size - (Pooled(1) * fs[1] + Pooled(2) * fs[2]
                                     + Pooled(3) * fs[3])
        IN  0 <= rest /\ rest < fs[1]

(* The loop of ChkMemMgr::free ends when no size is 0: whatever the order  *)
(* of the sizes, some class fits as long as it goes on.                    *)
Ends == (pc = "loop" /\ \A i \in Classes : fs[i] > 0) ~> pc # "loop"

(* It ends for every preset, of at least a byte, up to the maxima that     *)
(* chk_mem_mgr.h gives for the three sizes.  It does not: 256 and 1024     *)
(* bytes are one unit more than the fields of 5 and 7 bits hold, become 0, *)
(* and a class of size 0 always fits and never takes anything.             *)
CommentMaxima == <<128, 256, 1024>>

AlwaysEnds ==
  (pc = "loop" /\ \A i \in Classes : preset[i] \in 1 .. CommentMaxima[i])
    ~> pc # "loop"
=============================================================================
