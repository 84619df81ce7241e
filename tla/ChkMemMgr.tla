----------------------------- MODULE ChkMemMgr -----------------------------
(***************************************************************************)
(* The pool of a chunk index: struct ChkMemMgr.                            *)
(*                                                                         *)
(* The manager keeps three free lists.  Every block of list i has exactly  *)
(* fs[i] units, where fs = <<_free_0, _free_1, _free_2>>.  A list is a     *)
(* stack threaded through the free blocks (chk_slist_push, chk_slist_pop); *)
(* here it is the sequence of its blocks, top first.                       *)
(*                                                                         *)
(* free() cuts a region into the largest blocks that fit, in address       *)
(* order; what is left at its end is smaller than _free_0 and is dropped.  *)
(* The operators give the result of that loop in closed form, for sizes in *)
(* increasing order; ChkMemMgrFree checks the form against the loop.       *)
(***************************************************************************)
EXTENDS ChkBase, Sequences

Classes == 1 .. 3

(* Size classes the manager can work with. *)
Increasing(fs) ==
  /\ fs \in [Classes -> Nat \ {0}]
  /\ fs[1] <= fs[2]
  /\ fs[2] <= fs[3]

EmptyLists == [i \in Classes |-> << >>]

(* What is still uncut, in units, when the loop turns to class i. *)
Left(fs, size, i) ==
  CASE i = 3 -> size
    [] i = 2 -> size % fs[3]
    [] i = 1 -> (size % fs[3]) % fs[2]

(* How many blocks of class i a region of the given size yields. *)
Count(fs, size, i) == Left(fs, size, i) \div fs[i]

(* The blocks of class i cut out of region b, the last one cut on top. *)
Carved(fs, b, size, i) ==
  LET n == Count(fs, size, i)
      start == b.off + (size - Left(fs, size, i))
  IN  [k \in 1 .. n |-> [no |-> b.no, off |-> start + (n - k) * fs[i]]]

(* ChkMemMgr::free *)
PoolFree(fs, lists, b, size) ==
  [i \in Classes |-> Carved(fs, b, size, i) \o lists[i]]

(* The classes that can serve a request, and the one alloc() takes. *)
Serving(fs, lists, size) ==
  {i \in Classes : size <= fs[i] /\ lists[i] # << >>}

Served(fs, lists, size) ==
  CHOOSE i \in Serving(fs, lists, size) :
    \A j \in Serving(fs, lists, size) : i <= j

(* The block chk_slist_pop hands out, and the lists after ChkMemMgr::alloc *)
(* has given the unused end of that block back.                            *)
PoolTaken(fs, lists, size) == Head(lists[Served(fs, lists, size)])

(* A mutant forgets to advance to the unused end (chk_ptr_rest.add).       *)
BugPoolAlloc(fs, lists, size) ==
  LET i == Served(fs, lists, size)
      b == Head(lists[i])
  IN  PoolFree(fs, [lists EXCEPT ![i] = Tail(@)], b, fs[i] - size)

PoolAlloc(fs, lists, size) ==
  LET i == Served(fs, lists, size)
      b == Head(lists[i])
      rest == [no |-> b.no, off |-> b.off + size]
  IN  PoolFree(fs, [lists EXCEPT ![i] = Tail(@)], rest, fs[i] - size)
=============================================================================
