--------------------------- MODULE ChunkContents ---------------------------
(***************************************************************************)
(* What a chunk index promises about the data in it: chunks are filled,    *)
(* appended and cleared by requests only, and go away all at once when the *)
(* index is destructed.  Compressing, uncompressing, splitting, shrinking  *)
(* and enlarging do not show.                                              *)
(***************************************************************************)
EXTENDS Integers, Sequences

VARIABLES
  marks,   \* for each chunk, in order, how many units hold what was put there
  stage    \* "in use", "destructed" or "gone"

vars == <<marks, stage>>

Init == marks = << >> /\ stage = "in use"

Last == Len(marks)

(* A request raises the mark of the last chunk ... *)
Fill ==
  /\ marks # << >> /\ Len(marks') = Last
  /\ marks' = [marks EXCEPT ![Last] = marks'[Last]]
  /\ marks'[Last] > marks[Last]

(* ... or appends a chunk, when the rest of the last one is used up. *)
Extend ==
  /\ Len(marks') = Last + 1
  /\ marks'[Last + 1] > 0
  /\ \A n \in 1 .. Last :
       IF n = Last THEN marks'[n] >= marks[n] ELSE marks'[n] = marks[n]

(* A block below a mark is given back. *)
Clear == \E n \in 1 .. Last : \E mark \in 1 .. marks[n] - 1 :
  marks' = [marks EXCEPT ![n] = mark]

(* The chunks go away, and only because the index does. *)
Empty == marks' = << >> /\ stage' # "in use"

Next ==
  \/ (Fill \/ Extend \/ Clear) /\ stage' = "in use"
  \/ Empty
  \/ UNCHANGED marks

Spec == Init /\ [][Next]_vars
=============================================================================
