------------------------------- MODULE ChkStr -------------------------------
(***************************************************************************)
(* ChkStr, a string of 8 bytes: a text of up to 7 in place, or a block of  *)
(* the index, told apart by the last byte, flag, which a text in place     *)
(* overwrites with its final 0.  Operators map a string with the space of  *)
(* its index to what a function leaves.  A text stands for its bytes and   *)
(* has no 0 inside.                                                        *)
(***************************************************************************)
EXTENDS IndexSpace

CONSTANTS
  Texts,    \* the texts callers set
  Length    \* and their lengths

InPlaceMax == 7

(* init *)
EmptyStr == [flag |-> FALSE, text |-> CHOOSE t \in Texts : Length[t] = 0,
             data_ptr |-> 0, str_len |-> 0]

(* c_str and length *)
CStr(str, space) ==
  IF str.flag THEN space.block[str.data_ptr].text ELSE str.text

StrLength(str) == IF str.flag THEN str.str_len ELSE Length[str.text]

(* equall: equal lengths and bytes *)
SameText(str, space, t) ==
  StrLength(str) = Length[t] /\ CStr(str, space) = t

(* clear, which is uninit and init *)
Cleared(x) ==
  [str |-> EmptyStr,
   space |-> IF x.str.flag THEN WithoutBlock(x.space, x.str.data_ptr) ELSE x.space]

SetInPlace(x, t) == [str |-> [EmptyStr EXCEPT !.text = t], space |-> Cleared(x).space]

(* The block is used again if the text is not longer than the present one. *)
Reusable(str, t) == str.flag /\ str.str_len >= Length[t]

(* A mutant leaves str_len as it was. *)
BugSetInBlock(x, t) ==
  [str |-> x.str, space |-> Written(x.space, x.str.data_ptr, t, Length[t] + 1)]

SetInBlock(x, t) ==
  [str |-> [x.str EXCEPT !.str_len = Length[t]],
   space |-> Written(x.space, x.str.data_ptr, t, Length[t] + 1)]

(* alloc of one byte more than the text, free of the old block, and the    *)
(* copy.  A mutant forgets the byte for the final 0.                       *)
BugStrBytes(t) == Length[t]

StrBytes(t) == Length[t] + 1

SetInNewBlock(x, t) ==
  LET new_ptr == Fresh(x.space)
      space == Cleared([x EXCEPT !.space = WithBlock(@, StrBytes(t))]).space
  IN  [str |-> [EmptyStr EXCEPT !.flag = TRUE, !.data_ptr = new_ptr, !.str_len = Length[t]],
       space |-> Written(space, new_ptr, t, Length[t] + 1)]

(* set_data; memory is whether the index has any. *)
FitsInPlace(t) == Length[t] <= InPlaceMax

MustAlloc(str, t) == ~FitsInPlace(t) /\ ~Reusable(str, t)

SetData(x, t, memory) ==
  IF FitsInPlace(t) THEN SetInPlace(x, t)
  ELSE IF Reusable(x.str, t) THEN SetInBlock(x, t)
  ELSE IF memory THEN SetInNewBlock(x, t) ELSE x
=============================================================================
