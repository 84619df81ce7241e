------------------------------ MODULE ChkList -------------------------------
(***************************************************************************)
(* The doubly linked lists of chk_list.h: rings of nodes through a head,   *)
(* linked in both directions by ChkPtr, with the loops over them and the   *)
(* merge of two sorted lists.  Operators map the links to those that the   *)
(* assignments of a function leave; a loop whose body is the caller's is   *)
(* one step per turn, and so is the merge, which calls back to compare.    *)
(* One thread owns the structure.                                          *)
(***************************************************************************)
EXTENDS Integers, SequencesExt, FiniteSets

CONSTANTS
  Lists,   \* the heads, initialised by chk_list_init
  Nodes,   \* the nodes, in no list at first
  Key,     \* what cmp_func compares: a number for each node
  Null     \* CHK_NULL

ASSUME ListAssumption ==
  /\ Lists \cap Nodes = {}
  /\ Null \notin Lists \cup Nodes
  /\ Key \in [Nodes -> Nat]

ASSUME FiniteAssumption == IsFiniteSet(Nodes)

VARIABLES
  links,   \* next and prev of every head and node
  walk,    \* the for_each loop a caller is in
  merge    \* the variables of chk_list_merge

vars == <<links, walk, merge>>

Items == Lists \cup Nodes

---------------------------------------------------------------------------
Unlinked(r, x) == r.prev[x] = Null \/ r.next[x] = Null

EmptyList(r, l) == r.next[l] = l

(* chk_list_insert of x between p and n *)
Inserted(r, x, p, n) ==
  [next |-> [r.next EXCEPT ![x] = n, ![p] = x],
   prev |-> [r.prev EXCEPT ![n] = x, ![x] = p]]

AddedFront(r, x, l) == Inserted(r, x, l, r.next[l])

(* A mutant reads the last node where the first one is wanted. *)
BugAddedTail(r, x, l) == Inserted(r, x, l, r.prev[l])

AddedTail(r, x, l) == Inserted(r, x, r.prev[l], l)

(* chk_list_del; a mutant leaves out the back link. *)
BugDeleted(r, x) ==
  IF Unlinked(r, x) THEN r
  ELSE [next |-> [r.next EXCEPT ![r.prev[x]] = r.next[x], ![x] = Null],
        prev |-> [r.prev EXCEPT ![x] = Null]]

Deleted(r, x) ==
  IF Unlinked(r, x) THEN r
  ELSE [next |-> [r.next EXCEPT ![r.prev[x]] = r.next[x], ![x] = Null],
        prev |-> [r.prev EXCEPT ![r.next[x]] = r.prev[x], ![x] = Null]]

(* chk_list_splice *)
Spliced(r, from, to) ==
  IF EmptyList(r, from) THEN r
  ELSE [next |-> [r.next EXCEPT ![r.prev[to]] = r.next[from],
                                ![r.prev[from]] = to, ![from] = from],
        prev |-> [r.prev EXCEPT ![r.next[from]] = r.prev[to],
                                ![to] = r.prev[from], ![from] = from]]

(* The item that chk_listnode2chk finds for x, by way of its neighbour. *)
Self(r, x) == IF r.prev[x] = Null THEN x ELSE r.next[r.prev[x]]

(* What a loop from list l meets, by next or by prev, in as many turns as  *)
(* there are nodes.                                                        *)
Follow(link, l) ==
  LET from[left \in 0 .. Cardinality(Nodes)] ==
        [x \in Items \cup {Null} |->
           IF x \notin Nodes \/ left = 0 THEN <<>>
           ELSE <<x>> \o from[left - 1][link[x]]]
  IN  from[Cardinality(Nodes)][link[l]]

Chain(r, l) == Follow(r.next, l)

Keys(s) == {Key[n] : n \in ToSet(s)}

(* The nodes of s are in t, in the order they have in s. *)
InOrder(s, t) ==
  \A i, j \in DOMAIN s :
    i <= j => \E k, m \in DOMAIN t : k <= m /\ t[k] = s[i] /\ t[m] = s[j]

Sorted(s) == \A i \in 1 .. Len(s) - 1 : Key[s[i]] <= Key[s[i + 1]]

---------------------------------------------------------------------------
(* No loop, no merge.  due and seen are not in the program: what the loop  *)
(* must visit, and what it has visited.                                    *)
NoWalk ==
  [list |-> Null, dir |-> "next", safe |-> TRUE, pos |-> Null, tmp |-> Null,
   due |-> <<>>, seen |-> <<>>]

NoMerge == [lf |-> Null, rh |-> Null, merged |-> Null, iter_lf |-> Null,
            iter_rh |-> Null, before |-> <<>>]

Walking == walk.list # Null
Merging == merge.lf # Null

Init ==
  /\ links = [next |-> [x \in Items |-> IF x \in Lists THEN x ELSE Null],
              prev |-> [x \in Items |-> IF x \in Lists THEN x ELSE Null]]
  /\ walk = NoWalk
  /\ merge = NoMerge

(* The node a loop goes on from, which its body must leave alone: tmp in   *)
(* a safe loop, where the body may delete pos, else pos.                   *)
Held == IF walk.safe THEN walk.tmp ELSE walk.pos

(* Callers add a node that is in no list, and to the list they walk        *)
(* through only one they have not met.                                     *)
MayAdd(n, l) ==
  /\ ~Merging
  /\ Unlinked(links, n)
  /\ l = walk.list => n \notin ToSet(walk.seen)

AddFront(n, l) ==
  /\ MayAdd(n, l)
  /\ links' = AddedFront(links, n, l)
  /\ UNCHANGED <<walk, merge>>

AddTail(n, l) ==
  /\ MayAdd(n, l)
  /\ links' = AddedTail(links, n, l)
  /\ UNCHANGED <<walk, merge>>

(* chk_list_del; a node deleted before the loop gets there is not due. *)
Del(n) ==
  /\ ~Merging
  /\ n # Held
  /\ links' = Deleted(links, n)
  /\ walk' = IF n \in ToSet(walk.seen) THEN walk
             ELSE [walk EXCEPT !.due = RemoveFirst(@, n)]
  /\ UNCHANGED merge

Splice(from, to) ==
  /\ ~Merging
  /\ from # to /\ walk.list \notin {from, to}
  /\ links' = Spliced(links, from, to)
  /\ UNCHANGED <<walk, merge>>

---------------------------------------------------------------------------
(* chk_list_for_each, for_each_r, for_each_safe and for_each_safe_r: the   *)
(* body runs between two turns and may call the functions above.           *)
At(w, pos, tmp) ==
  IF pos = w.list THEN NoWalk
  ELSE [w EXCEPT !.pos = pos, !.tmp = tmp, !.seen = Append(@, pos)]

WalkStart(l, dir, safe) ==
  LET pos == links[dir][l]
  IN  /\ ~Walking /\ ~Merging
      /\ walk' = At([list |-> l, dir |-> dir, safe |-> safe, pos |-> Null, tmp |-> Null,
                     due |-> Follow(links[dir], l), seen |-> <<>>],
                    pos, links[dir][pos])
      /\ UNCHANGED <<links, merge>>

(* Where a turn leaves pos.  A mutant advances tmp before pos takes it.    *)
BugNextPos ==
  IF ~walk.safe THEN links[walk.dir][walk.pos]
  ELSE IF walk.tmp = walk.list THEN walk.list ELSE links[walk.dir][walk.tmp]

NextPos == IF walk.safe THEN walk.tmp ELSE links[walk.dir][walk.pos]

WalkTurn ==
  /\ Walking /\ ~Merging
  /\ walk' = At(walk, NextPos, links[walk.dir][NextPos])
  /\ UNCHANGED <<links, merge>>

---------------------------------------------------------------------------
(* chk_list_merge(lf, rh), both sorted. *)
MergeStart(lf, rh) ==
  /\ ~Walking /\ ~Merging
  /\ lf # rh
  /\ Sorted(Chain(links, lf)) /\ Sorted(Chain(links, rh))
  /\ merge' = [lf |-> lf, rh |-> rh, merged |-> Self(links, rh),
               iter_lf |-> links.next[lf], iter_rh |-> links.next[rh],
               before |-> <<Chain(links, lf), Chain(links, rh)>>]
  /\ UNCHANGED <<links, walk>>

(* operator++ and operator-- of ChkListIterator *)
Forth(r, i) == r.next[i]
Back(r, i) == r.prev[i]

(* A turn for nodes i and j at the iterators: the links, and where the     *)
(* iterators are then.  tmp_lf is read after j is deleted.                 *)
Smaller(i, j) == [links |-> links, i |-> Forth(links, i), j |-> j]

(* A mutant does not advance past the node that is there already. *)
BugEqual(i, j) ==
  [links |-> Deleted(links, j), i |-> i, j |-> j]

Equal(i, j) ==
  [links |-> Deleted(links, j), i |-> Forth(links, i), j |-> Forth(links, j)]

(* A mutant inserts behind iter_lf. *)
BugGreater(i, j) ==
  LET r == Deleted(links, j)
  IN  [links |-> Inserted(r, j, i, Forth(r, i)), i |-> j, j |-> Forth(links, j)]

Greater(i, j) ==
  LET r == Deleted(links, j)
  IN  [links |-> Inserted(r, j, Back(r, i), i), i |-> j, j |-> Forth(links, j)]

MergeDone == merge.iter_lf = merge.lf \/ merge.iter_rh = merge.rh

MergeTurn ==
  LET i == merge.iter_lf
      j == merge.iter_rh
      turn == IF Key[i] < Key[j] THEN Smaller(i, j)
              ELSE IF Key[i] = Key[j] THEN Equal(i, j) ELSE Greater(i, j)
  IN  /\ Merging /\ ~MergeDone
      /\ links' = turn.links
      /\ merge' = [merge EXCEPT !.iter_lf = turn.i, !.iter_rh = turn.j]
      /\ UNCHANGED walk

(* What is left in rh is appended. *)
MergeEnd ==
  /\ Merging /\ MergeDone
  /\ links' = IF EmptyList(links, merge.merged) THEN links
              ELSE Spliced(links, merge.merged, Self(links, merge.lf))
  /\ merge' = NoMerge
  /\ UNCHANGED walk

Next ==
  \/ \E n \in Nodes, l \in Lists : AddFront(n, l)
  \/ \E n \in Nodes, l \in Lists : AddTail(n, l)
  \/ \E n \in Nodes : Del(n)
  \/ \E from, to \in Lists : Splice(from, to)
  \/ \E l \in Lists, dir \in {"next", "prev"}, safe \in BOOLEAN : WalkStart(l, dir, safe)
  \/ WalkTurn
  \/ \E lf, rh \in Lists : MergeStart(lf, rh)
  \/ MergeTurn
  \/ MergeEnd

(* A merge, once called, runs: cmp_func only compares. *)
Spec == Init /\ [][Next]_vars /\ WF_vars(MergeTurn) /\ WF_vars(MergeEnd)

---------------------------------------------------------------------------
Links == [next : [Items -> Items \cup {Null}], prev : [Items -> Items \cup {Null}]]

TypeOK ==
  /\ links \in Links
  /\ walk.list \in Lists \cup {Null}
  /\ walk.dir \in {"next", "prev"} /\ walk.safe \in BOOLEAN
  /\ walk.pos \in Nodes \cup {Null} /\ walk.tmp \in Items \cup {Null}
  /\ \A f \in {"lf", "rh", "merged"} : merge[f] \in Lists \cup {Null}
  /\ merge.iter_lf \in Items \cup {Null} /\ merge.iter_rh \in Items \cup {Null}

(* Both directions always agree, in every list and also between the turns  *)
(* of a merge, and a node is linked both ways or not at all; so that       *)
(* chk_listnode2chk, which goes by way of the neighbour, finds the chunk.  *)
WellLinked ==
  /\ TypeOK
  /\ \A x \in Items :
       \/ x \in Nodes /\ links.next[x] = Null /\ links.prev[x] = Null
       \/ /\ ~Unlinked(links, x)
          /\ links.prev[links.next[x]] = x
          /\ links.next[links.prev[x]] = x

Abstract == INSTANCE NodeLists WITH lists <- [l \in Lists |-> Chain(links, l)]

(* Each function, and each turn of a merge, does to the sequences what its *)
(* namesake in NodeLists promises: the lists implement NodeLists, step by  *)
(* step.                                                                   *)
KeepsPromise ==
  /\ Abstract!Init
  /\ [][links' # links =>
        /\ \A n \in Nodes, l \in Lists :
             /\ AddFront(n, l) => Abstract!PushFront(n, l)
             /\ AddTail(n, l) => Abstract!PushBack(n, l)
        /\ \A n \in Nodes : Del(n) => Abstract!Delete(n)
        /\ \A from, to \in Lists : Splice(from, to) => Abstract!AppendAll(from, to)
        /\ MergeTurn =>
             \/ Abstract!Delete(merge.iter_rh)
             \/ Abstract!MoveBefore(merge.iter_rh, merge.lf, merge.iter_lf)
        /\ MergeEnd => Abstract!AppendAll(merge.rh, merge.lf)]_vars

(* A loop meets every node that was in the list when it began and was not  *)
(* taken out before, in order, and no node twice, although its body adds,  *)
(* deletes and moves nodes.                                                *)
WalkComplete ==
  [][Walking /\ walk'.list = Null =>
       /\ IsPrefix(walk.due, walk.seen)
       /\ \A i, j \in DOMAIN walk.seen : walk.seen[i] = walk.seen[j] => i = j]_vars

(* chk_list_merge leaves a sorted list with the keys of both and an empty  *)
(* one: the nodes of lf all stay, in their order, and of rh only those are *)
(* dropped whose key another node has.  If the keys differ, the test of    *)
(* TestDoubleList, all are there.                                          *)
MergeResult ==
  [][MergeEnd =>
       LET result == Chain(links', merge.lf)
           lf == merge.before[1]
           rh == merge.before[2]
       IN  /\ Sorted(result)
           /\ Chain(links', merge.rh) = <<>>
           /\ Keys(result) = Keys(lf) \cup Keys(rh)
           /\ InOrder(lf, result)
           /\ \A n \in ToSet(rh) \ ToSet(result) :
                \E m \in ToSet(result) : Key[m] = Key[n]
           /\ Len(result) = Cardinality(ToSet(result))]_vars

(* A merge ends. *)
MergeEnds == Merging ~> ~Merging
=============================================================================
