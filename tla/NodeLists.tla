------------------------------ MODULE NodeLists -----------------------------
(***************************************************************************)
(* What the doubly linked lists of chk_list.h promise: each is a sequence  *)
(* of nodes, and a node is on one list at most.  ChkList implements it.    *)
(***************************************************************************)
EXTENDS SequencesExt

CONSTANTS Lists, Nodes

VARIABLE lists   \* the sequence of each list

On(l) == ToSet(lists[l])

Linked(n) == \E l \in Lists : n \in On(l)

Without(n) == [l \in Lists |-> RemoveFirst(lists[l], n)]

Init == lists = [l \in Lists |-> <<>>]

(* chk_list_add *)
PushFront(n, l) == ~Linked(n) /\ lists' = [lists EXCEPT ![l] = <<n>> \o @]

(* chk_list_add_tail *)
PushBack(n, l) == ~Linked(n) /\ lists' = [lists EXCEPT ![l] = Append(@, n)]

(* chk_list_del *)
Delete(n) == lists' = Without(n)

(* chk_list_splice *)
AppendAll(from, to) ==
  /\ from # to
  /\ lists' = [lists EXCEPT ![to] = @ \o lists[from], ![from] = <<>>]

(* A turn of chk_list_merge that moves n from its list to before m in l. *)
MoveBefore(n, l, m) ==
  /\ n \notin On(l) /\ m \in On(l)
  /\ lists' = [Without(n) EXCEPT ![l] =
                 InsertAt(@, CHOOSE i \in 1 .. Len(@) : @[i] = m, n)]
=============================================================================
