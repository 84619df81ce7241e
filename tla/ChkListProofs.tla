--------------------------- MODULE ChkListProofs ---------------------------
(***************************************************************************)
(* Proofs about ChkList, for any number of lists and nodes.                *)
(*                                                                         *)
(* First that the links agree, by which list an item is on (Placed, IInv); *)
(* the module goes up to Linked for that.  Then what is on a list, in what *)
(* order (Holds, OnWalk, OnMerge): links and sequences; what Follow, a     *)
(* recursion, computes; the functions; the merge; the loops.  The theorems *)
(* about these are at the end: HeldSequences is the invariant; PromiseKept,*)
(* WalksAreComplete and MergesRight follow from it.                        *)
(***************************************************************************)
EXTENDS ChkList, SequenceTheorems, FiniteSetTheorems, NaturalsInduction,
        WellFoundedInduction, TLAPS

(* home says on which list an item is, rank in which order: what the links *)
(* mean.  Along next the rank grows until the head comes; so a ring has    *)
(* exactly one head, and no node is its own neighbour.                     *)
Placed(r, home, rank) ==
  /\ home \in [Items -> Lists \cup {Null}]
  /\ rank \in [Items -> Nat]
  /\ \A l \in Lists : home[l] = l
  /\ \A x \in Items :
       IF home[x] = Null THEN r.next[x] = Null /\ r.prev[x] = Null
       ELSE /\ r.next[x] \in Items /\ r.prev[x] \in Items
            /\ r.prev[r.next[x]] = x /\ r.next[r.prev[x]] = x
            /\ home[r.next[x]] = home[x] /\ home[r.prev[x]] = home[x]
            /\ r.next[x] \in Nodes => rank[r.next[x]] > rank[x]

LEMMA ItemsApart ==
  /\ Null \notin Items
  /\ \A x \in Items : x \in Lists <=> x \notin Nodes
  BY ListAssumption DEF Items

(* Neighbours of a node are other items. *)
LEMMA Neighbours ==
  ASSUME NEW r, NEW home, NEW rank, Placed(r, home, rank),
         NEW x \in Nodes, home[x] # Null
  PROVE  /\ r.next[x] # x /\ r.prev[x] # x
         /\ rank[x] > rank[r.prev[x]]
         /\ ~Unlinked(r, x)
<1>1. x \in Items
  BY DEF Items
<1>2. rank[x] \in Nat
  BY <1>1 DEF Placed
<1>3. r.next[x] # x
  BY <1>1, <1>2 DEF Placed
<1>4. r.prev[x] # x
  BY <1>1, <1>3 DEF Placed
<1>5. rank[x] > rank[r.prev[x]]
  BY <1>1 DEF Placed
<1> QED
  BY <1>1, <1>3, <1>4, <1>5, ItemsApart DEF Placed, Unlinked

(* Of a list that is not its own head's neighbour. *)
LEMMA Members ==
  ASSUME NEW r, NEW home, NEW rank, Placed(r, home, rank),
         NEW l \in Lists, NEW x \in Items, home[x] = l, x # l
  PROVE  x \in Nodes
  BY ItemsApart DEF Placed

(* A node that is in no list comes between two neighbours. *)
LEMMA InsertedPlaced ==
  ASSUME NEW r \in Links, NEW home, NEW rank, Placed(r, home, rank),
         NEW x \in Nodes, home[x] = Null,
         NEW p \in Items, home[p] # Null
  PROVE  /\ Inserted(r, x, p, r.next[p]) \in Links
         /\ \E rank2 : Placed(Inserted(r, x, p, r.next[p]),
                              [home EXCEPT ![x] = home[p]], rank2)
<1> DEFINE n == r.next[p]
           s == Inserted(r, x, p, n)
           home2 == [home EXCEPT ![x] = home[p]]
           rank2 == [y \in Items |-> IF y = x THEN 2 * rank[p] + 1 ELSE 2 * rank[y]]
<1>1. /\ x \in Items /\ n \in Items
      /\ x # p /\ x # n
      /\ home[n] = home[p] /\ home[p] \in Lists
      /\ r.prev[n] = p
  BY ItemsApart DEF Placed, Items
<1>2. s = [next |-> [r.next EXCEPT ![x] = n, ![p] = x],
           prev |-> [r.prev EXCEPT ![n] = x, ![x] = p]]
  BY DEF Inserted
<1>3. /\ s.next = [r.next EXCEPT ![x] = n, ![p] = x]
      /\ s.prev = [r.prev EXCEPT ![n] = x, ![x] = p]
      /\ r.next \in [Items -> Items \cup {Null}]
      /\ r.prev \in [Items -> Items \cup {Null}]
  BY <1>2 DEF Links
<1>4. s \in Links
  BY <1>1, <1>2, <1>3 DEF Links
<1>5. /\ home2 \in [Items -> Lists \cup {Null}]
      /\ rank2 \in [Items -> Nat]
      /\ \A l \in Lists : home2[l] = l
  BY <1>1, ItemsApart DEF Placed, Items
<1>6. /\ s.next[x] = n /\ s.next[p] = x
      /\ s.prev[n] = x /\ s.prev[x] = p
      /\ \A y \in Items \ {x, p} : s.next[y] = r.next[y]
      /\ \A y \in Items \ {x, n} : s.prev[y] = r.prev[y]
  BY <1>1, <1>3
<1>7. /\ home2[x] = home[p]
      /\ \A y \in Items \ {x} : home2[y] = home[y]
      /\ rank2[x] = 2 * rank[p] + 1
      /\ \A y \in Items \ {x} : rank2[y] = 2 * rank[y]
      /\ \A y \in Items : rank[y] \in Nat
  BY <1>1 DEF Placed
<1>8. ASSUME NEW y \in Items
      PROVE  IF home2[y] = Null THEN s.next[y] = Null /\ s.prev[y] = Null
             ELSE /\ s.next[y] \in Items /\ s.prev[y] \in Items
                  /\ s.prev[s.next[y]] = y /\ s.next[s.prev[y]] = y
                  /\ home2[s.next[y]] = home2[y] /\ home2[s.prev[y]] = home2[y]
                  /\ s.next[y] \in Nodes => rank2[s.next[y]] > rank2[y]
  <2> HIDE DEF n, s, home2, rank2
  <2>1. CASE y = x
    BY <1>1, <1>6, <1>7, <2>1, ItemsApart DEF Placed, n
  <2>2. CASE y = p
    BY <1>1, <1>6, <1>7, <2>2, ItemsApart DEF Placed, n
  <2>3. CASE y # x /\ y # p /\ home[y] = Null
    BY <1>1, <1>6, <1>7, <2>3, ItemsApart DEF Placed
  <2>4. CASE y # x /\ y # p /\ home[y] # Null
    <3>1. s.next[y] = r.next[y] /\ r.next[y] # x /\ r.next[y] # n
      BY <1>1, <1>6, <2>4, ItemsApart DEF Placed, n
    <3>2. r.prev[y] # x /\ r.prev[y] \in Items
      BY <1>1, <2>4, ItemsApart DEF Placed
    <3>3. CASE y = n
      BY <1>1, <1>6, <1>7, <2>4, <3>1, <3>3 DEF Placed, n
    <3>4. CASE y # n
      BY <1>1, <1>6, <1>7, <2>4, <3>1, <3>2, <3>4 DEF Placed, n
    <3> QED
      BY <3>3, <3>4
  <2> QED
    BY <2>1, <2>2, <2>3, <2>4
<1>9. Placed(s, home2, rank2)
  BY <1>5, <1>8 DEF Placed
<1> QED
  BY <1>4, <1>9

(* A node leaves the list it is on, if it is on one. *)
LEMMA DeletedPlaced ==
  ASSUME NEW r \in Links, NEW home, NEW rank, Placed(r, home, rank),
         NEW x \in Nodes
  PROVE  /\ Deleted(r, x) \in Links
         /\ Placed(Deleted(r, x), [home EXCEPT ![x] = Null], rank)
<1> DEFINE s == Deleted(r, x)
           home2 == [home EXCEPT ![x] = Null]
<1>1. x \in Items
  BY DEF Items
<1>2. CASE home[x] = Null
  <2>1. s = r
    BY <1>1, <1>2 DEF Placed, Deleted, Unlinked
  <2>2. home2 = home
    BY <1>1, <1>2 DEF Placed
  <2> QED
    BY <2>1, <2>2
<1>3. CASE home[x] # Null
  <2> DEFINE p == r.prev[x]
             n == r.next[x]
  <2>1. /\ ~Unlinked(r, x)
        /\ p # x /\ n # x
        /\ rank[x] > rank[p]
    BY <1>3, Neighbours
  <2>2. /\ p \in Items /\ n \in Items
        /\ r.next[p] = x /\ r.prev[n] = x
        /\ home[p] = home[x] /\ home[n] = home[x]
        /\ n \in Nodes => rank[n] > rank[x]
    BY <1>1, <1>3 DEF Placed
  <2>3. s = [next |-> [r.next EXCEPT ![p] = n, ![x] = Null],
             prev |-> [r.prev EXCEPT ![n] = p, ![x] = Null]]
    BY <2>1 DEF Deleted
  <2>4. /\ s.next = [r.next EXCEPT ![p] = n, ![x] = Null]
        /\ s.prev = [r.prev EXCEPT ![n] = p, ![x] = Null]
        /\ r.next \in [Items -> Items \cup {Null}]
        /\ r.prev \in [Items -> Items \cup {Null}]
    BY <2>3 DEF Links
  <2>5. s \in Links
    BY <1>1, <2>2, <2>3, <2>4 DEF Links
  <2>6. /\ home2 \in [Items -> Lists \cup {Null}]
        /\ rank \in [Items -> Nat]
        /\ \A l \in Lists : home2[l] = l
    BY <1>1, ItemsApart DEF Placed, Items
  <2>7. /\ s.next[x] = Null /\ s.prev[x] = Null
        /\ s.next[p] = n /\ s.prev[n] = p
        /\ \A y \in Items \ {x, p} : s.next[y] = r.next[y]
        /\ \A y \in Items \ {x, n} : s.prev[y] = r.prev[y]
    BY <1>1, <2>1, <2>2, <2>4
  <2>8. /\ home2[x] = Null
        /\ \A y \in Items \ {x} : home2[y] = home[y]
        /\ \A y \in Items : rank[y] \in Nat
    BY <1>1 DEF Placed
  <2>9. ASSUME NEW y \in Items
        PROVE  IF home2[y] = Null THEN s.next[y] = Null /\ s.prev[y] = Null
               ELSE /\ s.next[y] \in Items /\ s.prev[y] \in Items
                    /\ s.prev[s.next[y]] = y /\ s.next[s.prev[y]] = y
                    /\ home2[s.next[y]] = home2[y]
                    /\ home2[s.prev[y]] = home2[y]
                    /\ s.next[y] \in Nodes => rank[s.next[y]] > rank[y]
    <3> HIDE DEF s, home2, p, n
    <3>1. CASE y = x
      BY <2>7, <2>8, <3>1
    <3>2. CASE y # x /\ home[y] = Null
      BY <1>3, <2>2, <2>7, <2>8, <3>2 DEF Placed
    <3>3. CASE y # x /\ home[y] # Null
      <4>1. /\ r.next[y] \in Items /\ r.prev[y] \in Items
            /\ y # p => r.next[y] # x /\ r.next[y] # n
            /\ y # n => r.prev[y] # x /\ r.prev[y] # p
        BY <1>1, <1>3, <2>2, <3>3 DEF Placed, p, n
      <4>2. /\ s.next[y] = IF y = p THEN n ELSE r.next[y]
            /\ s.prev[y] = IF y = n THEN p ELSE r.prev[y]
        BY <2>7, <3>3
      <4>3. s.next[y] \in Items /\ s.prev[y] \in Items
        BY <2>2, <4>1, <4>2
      <4>4. s.prev[s.next[y]] = y
        BY <2>1, <2>2, <2>7, <3>3, <4>1, <4>2 DEF Placed
      <4>5. s.next[s.prev[y]] = y
        BY <2>1, <2>2, <2>7, <3>3, <4>1, <4>2 DEF Placed
      <4>6. home2[s.next[y]] = home2[y] /\ home2[s.prev[y]] = home2[y]
        BY <2>1, <2>2, <2>8, <3>3, <4>1, <4>2 DEF Placed
      <4>7. s.next[y] \in Nodes => rank[s.next[y]] > rank[y]
        <5>1. CASE y = p
          BY <1>1, <2>1, <2>2, <2>8, <4>2, <5>1
        <5>2. CASE y # p
          BY <3>3, <4>2, <5>2 DEF Placed
        <5> QED
          BY <5>1, <5>2
      <4> QED
        BY <2>8, <3>3, <4>3, <4>4, <4>5, <4>6, <4>7
    <3> QED
      BY <3>1, <3>2, <3>3
  <2> QED
    BY <2>5, <2>6, <2>9 DEF Placed
<1> QED
  BY <1>2, <1>3


(* All nodes of one list move behind those of another; the other lists     *)
(* stay.                                                                   *)
LEMMA SplicedPlaced ==
  ASSUME NEW r \in Links, NEW home, NEW rank, Placed(r, home, rank),
         NEW from \in Lists, NEW to \in Lists, from # to
  PROVE  /\ Spliced(r, from, to) \in Links
         /\ \E home2, rank2 :
              /\ Placed(Spliced(r, from, to), home2, rank2)
              /\ \A x \in Items : home[x] # from => home2[x] = home[x]
<1> DEFINE s == Spliced(r, from, to)
           moves(x) == x \in Nodes /\ home[x] = from
           home2 == [x \in Items |-> IF moves(x) THEN to ELSE home[x]]
           first == r.next[from]
           last == r.prev[from]
           end == r.prev[to]
           rank2 == [x \in Items |-> IF moves(x) THEN rank[x] + rank[end] + 1 ELSE rank[x]]
<1>1. /\ from \in Items /\ to \in Items
      /\ from \notin Nodes /\ to \notin Nodes
      /\ home[from] = from /\ home[to] = to
      /\ from # Null /\ to # Null
  BY ItemsApart DEF Placed, Items
<1>2. /\ first \in Items /\ home[first] = from /\ r.prev[first] = from
      /\ last \in Items /\ home[last] = from /\ r.next[last] = from
      /\ end \in Items /\ home[end] = to /\ r.next[end] = to
  BY <1>1 DEF Placed
<1>3. CASE EmptyList(r, from)
  BY <1>3 DEF Spliced
<1>4. CASE ~EmptyList(r, from)
  <2>1. first # from /\ last # from
    BY <1>1, <1>2, <1>4 DEF EmptyList, Placed
  <2>2. first \in Nodes /\ last \in Nodes
    BY <1>2, <2>1, Members
  <2>3. s = [next |-> [r.next EXCEPT ![end] = first, ![last] = to, ![from] = from],
             prev |-> [r.prev EXCEPT ![first] = end, ![to] = last, ![from] = from]]
    BY <1>4 DEF Spliced
  <2>4. /\ s.next = [r.next EXCEPT ![end] = first, ![last] = to, ![from] = from]
        /\ s.prev = [r.prev EXCEPT ![first] = end, ![to] = last, ![from] = from]
        /\ r.next \in [Items -> Items \cup {Null}]
        /\ r.prev \in [Items -> Items \cup {Null}]
    BY <2>3 DEF Links
  <2>5. s \in Links
    BY <1>1, <1>2, <2>3, <2>4 DEF Links
  <2>6. /\ end # last /\ end # from /\ first # to
        /\ end \in Nodes => ~moves(end)
    BY <1>1, <1>2
  <2>7. /\ s.next[end] = first /\ s.next[last] = to /\ s.next[from] = from
        /\ s.prev[first] = end /\ s.prev[to] = last /\ s.prev[from] = from
        /\ \A y \in Items \ {end, last, from} : s.next[y] = r.next[y]
        /\ \A y \in Items \ {first, to, from} : s.prev[y] = r.prev[y]
    BY <1>1, <1>2, <2>1, <2>4, <2>6
  <2>8. /\ home2 \in [Items -> Lists \cup {Null}]
        /\ \A l \in Lists : home2[l] = l
        /\ \A x \in Items : home[x] # from => home2[x] = home[x]
    BY <1>1, ItemsApart DEF Placed, Items
  <2>9. rank2 \in [Items -> Nat]
    <3>1. \A x \in Items : rank[x] \in Nat
      BY DEF Placed
    <3> QED
      BY <1>2, <3>1
  <2>10. ASSUME NEW y \in Items
         PROVE  IF home2[y] = Null THEN s.next[y] = Null /\ s.prev[y] = Null
                ELSE /\ s.next[y] \in Items /\ s.prev[y] \in Items
                     /\ s.prev[s.next[y]] = y /\ s.next[s.prev[y]] = y
                     /\ home2[s.next[y]] = home2[y]
                     /\ home2[s.prev[y]] = home2[y]
                     /\ s.next[y] \in Nodes => rank2[s.next[y]] > rank2[y]
    <3>1. /\ \A x \in Items : home2[x] = IF moves(x) THEN to ELSE home[x]
          /\ \A x \in Items :
               rank2[x] = IF moves(x) THEN rank[x] + rank[end] + 1 ELSE rank[x]
          /\ \A x \in Items : rank[x] \in Nat
          /\ \A x \in Items : home[x] = from => x = from \/ x \in Nodes
      <4>1. \A x \in Items : home[x] = from => x = from \/ x \in Nodes
        BY ItemsApart DEF Placed
      <4>2. \A x \in Items : rank[x] \in Nat
        BY DEF Placed
      <4> QED
        BY <4>1, <4>2
    <3>2. CASE home[y] = Null
      BY <1>1, <1>2, <2>7, <3>1, <3>2 DEF Placed
    <3>3. CASE y = from
      BY <1>1, <2>7, <3>1, <3>3 DEF Placed
    <3>4. CASE home[y] # Null /\ y # from
      <4> HIDE DEF home2, rank2, s
      <4>1. /\ r.next[y] \in Items /\ r.prev[y] \in Items
            /\ y # last => r.next[y] # from
            /\ y # first => r.prev[y] # from
            /\ y # end => r.next[y] # to
            /\ y # to => r.prev[y] # end
            /\ r.next[y] # first /\ r.prev[y] # last
        <5> HIDE DEF first, last, end, moves
        <5>1. /\ r.next[y] \in Items /\ r.prev[y] \in Items
              /\ r.prev[r.next[y]] = y /\ r.next[r.prev[y]] = y
          BY <3>4 DEF Placed
        <5>2. /\ r.prev[from] = last /\ r.next[from] = first
              /\ r.prev[to] = end
          BY DEF first, last, end
        <5> QED
          BY <1>2, <3>4, <5>1, <5>2
      <4>2. /\ s.next[y] = IF y = end THEN first
                            ELSE IF y = last THEN to ELSE r.next[y]
            /\ s.prev[y] = IF y = first THEN end
                            ELSE IF y = to THEN last ELSE r.prev[y]
        BY <2>6, <2>7, <3>4, <1>1
      <4>3. s.next[y] \in Items /\ s.prev[y] \in Items
        BY <1>1, <1>2, <4>1, <4>2
      <4>4. s.prev[s.next[y]] = y
        BY <1>1, <1>2, <2>6, <2>7, <3>4, <4>1, <4>2 DEF Placed
      <4>5. s.next[s.prev[y]] = y
        BY <1>1, <1>2, <2>6, <2>7, <3>4, <4>1, <4>2 DEF Placed
      <4>6. home2[s.next[y]] = home2[y] /\ home2[s.prev[y]] = home2[y]
        BY <1>1, <1>2, <2>2, <2>6, <3>1, <3>4, <4>1, <4>2 DEF Placed
      <4>7. s.next[y] \in Nodes => rank2[s.next[y]] > rank2[y]
        <5>1. CASE y = end
          BY <1>2, <2>2, <2>6, <3>1, <4>2, <5>1
        <5>2. CASE y = last
          BY <1>1, <2>6, <4>2, <5>2
        <5>3. CASE y # end /\ y # last
          <6>1. s.next[y] = r.next[y]
            BY <4>2, <5>3
          <6>2. r.next[y] \in Nodes => rank[r.next[y]] > rank[y] /\ home[r.next[y]] = home[y]
            BY <3>4 DEF Placed
          <6>3. home[y] = from => y \in Nodes
            BY <3>1, <3>4
          <6>4. r.next[y] \in Items
            BY <4>1
          <6> QED
            BY <1>2, <3>1, <6>1, <6>2, <6>3, <6>4
        <5> QED
          BY <5>1, <5>2, <5>3
      <4>8. home2[y] # Null
        BY <1>1, <3>1, <3>4
      <4> QED
        BY <4>3, <4>4, <4>5, <4>6, <4>7, <4>8
    <3> QED
      BY <3>2, <3>3, <3>4
  <2>11. Placed(s, home2, rank2)
    BY <2>8, <2>9, <2>10 DEF Placed
  <2> QED
    BY <2>5, <2>8, <2>11
<1> QED
  BY <1>3, <1>4
---------------------------------------------------------------------------
(* walk and merge are records with their fields. *)
Shape ==
  /\ walk = [list |-> walk.list, dir |-> walk.dir, safe |-> walk.safe,
             pos |-> walk.pos, tmp |-> walk.tmp, due |-> walk.due, seen |-> walk.seen]
  /\ merge = [lf |-> merge.lf, rh |-> merge.rh, merged |-> merge.merged,
              iter_lf |-> merge.iter_lf, iter_rh |-> merge.iter_rh,
              before |-> merge.before]

(* A loop goes on from an item of its list, and the iterators of a merge   *)
(* each stay on theirs.                                                    *)
OnTrack(home) ==
  /\ Walking => /\ ~Merging
                /\ Held \in Items /\ home[Held] = walk.list
  /\ Merging => /\ merge.lf # merge.rh /\ merge.merged = merge.rh
                /\ merge.rh \in Lists
                /\ merge.iter_lf \in Items /\ home[merge.iter_lf] = merge.lf
                /\ merge.iter_rh \in Items /\ home[merge.iter_rh] = merge.rh

IInv ==
  /\ TypeOK
  /\ Shape
  /\ \E home, rank : Placed(links, home, rank) /\ OnTrack(home)

LEMMA InitIInv == Init => IInv
<1> SUFFICES ASSUME Init PROVE IInv
  OBVIOUS
<1>1. TypeOK
  BY DEF Init, TypeOK, Links, Items, NoWalk, NoMerge
<1>2. Shape
  BY DEF Init, Shape, NoWalk, NoMerge
<1> DEFINE home == [x \in Items |-> IF x \in Lists THEN x ELSE Null]
           rank == [x \in Items |-> 0]
<1>3. Placed(links, home, rank)
  BY ItemsApart DEF Init, Placed, Items
<1>4. ~Walking /\ ~Merging
  BY DEF Init, Walking, Merging, NoWalk, NoMerge
<1>5. OnTrack(home)
  BY <1>4 DEF OnTrack
<1> QED
  BY <1>1, <1>2, <1>3, <1>5 DEF IInv

(* A node that callers may add is on no list. *)
LEMMA Unplaced ==
  ASSUME NEW home, NEW rank, Placed(links, home, rank),
         NEW x \in Nodes, Unlinked(links, x)
  PROVE  home[x] = Null
  BY Neighbours

LEMMA AddFrontStep ==
  ASSUME IInv, NEW n \in Nodes, NEW l \in Lists, AddFront(n, l)
  PROVE  IInv'
<1>1. PICK home, rank : Placed(links, home, rank) /\ OnTrack(home)
  BY DEF IInv
<1>2. /\ links' = Inserted(links, n, l, links.next[l])
      /\ UNCHANGED <<walk, merge>> /\ ~Merging
      /\ Unlinked(links, n)
  BY DEF AddFront, AddedFront, MayAdd
<1>3. /\ links \in Links /\ l \in Items /\ n \in Items
      /\ home[n] = Null /\ home[l] # Null
  <2>1. home[n] = Null
    BY <1>1, <1>2, Unplaced
  <2>2. home[l] = l /\ l # Null
    BY <1>1, ListAssumption DEF Placed
  <2> QED
    BY <2>1, <2>2 DEF IInv, TypeOK, Items
<1> DEFINE home2 == [home EXCEPT ![n] = home[l]]
<1>4. links' \in Links /\ \E rank2 : Placed(links', home2, rank2)
  BY <1>1, <1>2, <1>3, InsertedPlaced
<1>5. TypeOK' /\ Shape'
  BY <1>2, <1>4 DEF IInv, TypeOK, Shape
<1>6. OnTrack(home2)'
  BY <1>1, <1>2, <1>3, ListAssumption DEF IInv, TypeOK, OnTrack, Walking, Merging, Held, Placed
<1> QED
  BY <1>4, <1>5, <1>6 DEF IInv

LEMMA AddTailStep ==
  ASSUME IInv, NEW n \in Nodes, NEW l \in Lists, AddTail(n, l)
  PROVE  IInv'
<1>1. PICK home, rank : Placed(links, home, rank) /\ OnTrack(home)
  BY DEF IInv
<1> DEFINE p == links.prev[l]
<1>2. /\ links' = Inserted(links, n, p, l)
      /\ UNCHANGED <<walk, merge>> /\ ~Merging
      /\ Unlinked(links, n)
  BY DEF AddTail, AddedTail, MayAdd
<1>3. /\ links \in Links /\ l \in Items /\ n \in Items /\ p \in Items
      /\ home[n] = Null /\ home[p] = l /\ l # Null /\ links.next[p] = l
  <2>1. home[n] = Null
    BY <1>1, <1>2, Unplaced
  <2>2. l \in Items /\ home[l] = l /\ l # Null
    BY <1>1, ListAssumption DEF Placed, Items
  <2>3. p \in Items /\ home[p] = l /\ links.next[p] = l
    BY <1>1, <2>2 DEF Placed
  <2> QED
    BY <2>1, <2>2, <2>3 DEF IInv, TypeOK, Items
<1> HIDE DEF p
<1> DEFINE home2 == [home EXCEPT ![n] = l]
<1>4. links' \in Links /\ \E rank2 : Placed(links', home2, rank2)
  <2>1. links' = Inserted(links, n, p, links.next[p])
    BY <1>2, <1>3
  <2> QED
    BY <1>1, <1>3, <2>1, InsertedPlaced
<1>5. TypeOK' /\ Shape'
  BY <1>2, <1>4 DEF IInv, TypeOK, Shape
<1>6. OnTrack(home2)'
  BY <1>1, <1>2, <1>3, ListAssumption DEF IInv, TypeOK, OnTrack, Walking, Merging, Held, Placed
<1> QED
  BY <1>4, <1>5, <1>6 DEF IInv

LEMMA DelStep ==
  ASSUME IInv, NEW n \in Nodes, Del(n)
  PROVE  IInv'
<1>1. PICK home, rank : Placed(links, home, rank) /\ OnTrack(home)
  BY DEF IInv
<1>2. /\ links' = Deleted(links, n) /\ n # Held
      /\ UNCHANGED merge /\ ~Merging
      /\ walk' = walk \/ walk' = [walk EXCEPT !.due = RemoveFirst(@, n)]
  BY DEF Del
<1>3. /\ Shape'
      /\ walk'.list = walk.list /\ walk'.dir = walk.dir /\ walk'.safe = walk.safe
      /\ walk'.pos = walk.pos /\ walk'.tmp = walk.tmp
  BY <1>2 DEF IInv, Shape
<1>4. links \in Links /\ n \in Items
  BY DEF IInv, TypeOK, Items
<1> DEFINE home2 == [home EXCEPT ![n] = Null]
<1>5. links' \in Links /\ Placed(links', home2, rank)
  BY <1>1, <1>2, <1>4, DeletedPlaced
<1>6. TypeOK'
  BY <1>2, <1>3, <1>5 DEF IInv, TypeOK
<1>7. OnTrack(home2)'
  BY <1>1, <1>2, <1>3, <1>4 DEF OnTrack, Walking, Merging, Held, Placed
<1> QED
  BY <1>3, <1>5, <1>6, <1>7 DEF IInv

LEMMA SpliceStep ==
  ASSUME IInv, NEW from \in Lists, NEW to \in Lists, Splice(from, to)
  PROVE  IInv'
<1>1. PICK home, rank : Placed(links, home, rank) /\ OnTrack(home)
  BY DEF IInv
<1>2. /\ links' = Spliced(links, from, to)
      /\ from # to /\ walk.list # from /\ ~Merging
      /\ UNCHANGED <<walk, merge>>
      /\ links \in Links
  BY DEF Splice, IInv, TypeOK
<1>3. /\ links' \in Links
      /\ \E home2, rank2 :
           /\ Placed(links', home2, rank2)
           /\ \A x \in Items : home[x] # from => home2[x] = home[x]
  BY <1>1, <1>2, SplicedPlaced
<1>4. PICK home2, rank2 :
        /\ Placed(links', home2, rank2)
        /\ \A x \in Items : home[x] # from => home2[x] = home[x]
  BY <1>3
<1>5. TypeOK' /\ Shape'
  BY <1>2, <1>3 DEF IInv, TypeOK, Shape
<1>6. OnTrack(home2)'
  BY <1>1, <1>2, <1>4 DEF OnTrack, Walking, Merging, Held
<1> QED
  BY <1>4, <1>5, <1>6 DEF IInv

(* Following the links from an item of a list leads to an item of it. *)
LEMMA Followed ==
  ASSUME NEW home, NEW rank, Placed(links, home, rank),
         NEW x \in Items, home[x] # Null, NEW dir \in {"next", "prev"}
  PROVE  links[dir][x] \in Items /\ home[links[dir][x]] = home[x]
<1>1. CASE dir = "next"
  BY <1>1 DEF Placed
<1>2. CASE dir = "prev"
  BY <1>2 DEF Placed
<1> QED
  BY <1>1, <1>2

(* A loop over list l goes to pos, an item of l, or ends there. *)
LEMMA WalkGoes ==
  ASSUME IInv, NEW home, NEW rank, Placed(links, home, rank), ~Merging,
         UNCHANGED <<links, merge>>,
         NEW l \in Lists, NEW dir \in {"next", "prev"}, NEW safe \in BOOLEAN,
         NEW at, NEW ahead, NEW due, NEW seen, NEW pos \in Items, home[pos] = l,
         walk' = At([list |-> l, dir |-> dir, safe |-> safe, pos |-> at,
                     tmp |-> ahead, due |-> due, seen |-> seen],
                    pos, links[dir][pos])
  PROVE  IInv'
<1> DEFINE tmp == links[dir][pos]
<1>1. l # Null
  BY ListAssumption
<1>2. tmp \in Items /\ home[tmp] = l
  BY <1>1, Followed
<1>3. links' = links /\ merge' = merge
  OBVIOUS
<1>4. CASE pos = l
  <2>1. walk' = NoWalk
    BY <1>4 DEF At
  <2>2. TypeOK' /\ Shape'
    <3>1. /\ walk'.list = Null /\ walk'.dir = "next" /\ walk'.safe = TRUE
          /\ walk'.pos = Null /\ walk'.tmp = Null
          /\ walk'.due = <<>> /\ walk'.seen = <<>>
      BY <2>1 DEF NoWalk
    <3>2. TypeOK'
      BY <1>3, <3>1 DEF IInv, TypeOK
    <3>3. Shape'
      BY <1>3, <2>1, <3>1 DEF IInv, Shape, NoWalk
    <3> QED
      BY <3>2, <3>3
  <2>3. OnTrack(home)'
    BY <1>3, <2>1 DEF OnTrack, Walking, Merging, NoWalk
  <2> QED
    BY <1>3, <2>2, <2>3 DEF IInv
<1>5. CASE pos # l
  <2>1. walk' = [list |-> l, dir |-> dir, safe |-> safe, pos |-> pos, tmp |-> tmp,
                 due |-> due, seen |-> Append(seen, pos)]
    BY <1>5 DEF At
  <2>2. pos \in Nodes
    BY <1>5, Members
  <2> HIDE DEF tmp
  <2>3. /\ walk'.list = l /\ walk'.dir = dir /\ walk'.safe = safe
        /\ walk'.pos = pos /\ walk'.tmp = tmp
        /\ walk'.due = due /\ walk'.seen = Append(seen, pos)
    BY <2>1
  <2>4. TypeOK'
    BY <1>2, <1>3, <2>2, <2>3 DEF IInv, TypeOK
  <2>5. Shape'
    BY <1>3, <2>1, <2>3 DEF IInv, Shape
  <2>6. OnTrack(home)'
    BY <1>2, <1>3, <2>3 DEF OnTrack, Walking, Merging, Held
  <2> QED
    BY <1>3, <2>4, <2>5, <2>6 DEF IInv
<1> QED
  BY <1>4, <1>5

LEMMA WalkStartStep ==
  ASSUME IInv, NEW l \in Lists, NEW dir \in {"next", "prev"}, NEW safe \in BOOLEAN,
         WalkStart(l, dir, safe)
  PROVE  IInv'
<1>1. PICK home, rank : Placed(links, home, rank) /\ OnTrack(home)
  BY DEF IInv
<1> DEFINE pos == links[dir][l]
<1>2. /\ walk' = At([list |-> l, dir |-> dir, safe |-> safe, pos |-> Null, tmp |-> Null,
                     due |-> Follow(links[dir], l), seen |-> <<>>], pos, links[dir][pos])
      /\ UNCHANGED <<links, merge>> /\ ~Merging
  BY DEF WalkStart
<1>3. l \in Items /\ home[l] = l /\ l # Null
  BY <1>1, ListAssumption DEF Placed, Items
<1>4. pos \in Items /\ home[pos] = l
  BY <1>1, <1>3, Followed
<1> HIDE DEF pos
<1> QED
  BY <1>1, <1>2, <1>4, WalkGoes

LEMMA WalkTurnStep ==
  ASSUME IInv, WalkTurn
  PROVE  IInv'
<1>1. PICK home, rank : Placed(links, home, rank) /\ OnTrack(home)
  BY DEF IInv
<1>2. /\ Walking /\ ~Merging
      /\ walk' = At(walk, NextPos, links[walk.dir][NextPos])
      /\ UNCHANGED <<links, merge>>
  BY DEF WalkTurn
<1>3. /\ walk.list \in Lists /\ walk.list # Null
      /\ walk.dir \in {"next", "prev"} /\ walk.safe \in BOOLEAN
      /\ Held \in Items /\ home[Held] = walk.list
      /\ walk = [list |-> walk.list, dir |-> walk.dir, safe |-> walk.safe,
                 pos |-> walk.pos, tmp |-> walk.tmp, due |-> walk.due, seen |-> walk.seen]
  BY <1>1, <1>2 DEF IInv, TypeOK, Shape, OnTrack, Walking
<1>4. NextPos \in Items /\ home[NextPos] = walk.list
  <2>1. CASE walk.safe
    BY <1>3, <2>1 DEF NextPos, Held
  <2>2. CASE ~walk.safe
    <3>1. walk.pos \in Items /\ home[walk.pos] = walk.list
      BY <1>3, <2>2 DEF Held
    <3>2. /\ links[walk.dir][walk.pos] \in Items
          /\ home[links[walk.dir][walk.pos]] = home[walk.pos]
      BY <1>1, <1>3, <3>1, Followed
    <3> QED
      BY <2>2, <3>1, <3>2 DEF NextPos
  <2> QED
    BY <2>1, <2>2
<1> QED
  BY <1>1, <1>2, <1>3, <1>4, WalkGoes

(* What a loop and a merge under way say of each other. *)
LEMMA MergeApart ==
  ASSUME IInv, Merging
  PROVE  /\ ~Walking
         /\ merge.lf \in Lists /\ merge.rh \in Lists /\ merge.lf # merge.rh
         /\ merge.merged = merge.rh
  BY DEF IInv, OnTrack, TypeOK, Merging

(* A turn of a merge leaves the links in order and the iterators each on   *)
(* its own list.                                                           *)
LEMMA MergeGoes ==
  ASSUME IInv, Merging, UNCHANGED walk,
         links' \in Links, NEW home, NEW rank, Placed(links', home, rank),
         NEW i \in Items, home[i] = merge.lf, NEW j \in Items, home[j] = merge.rh,
         merge' = [merge EXCEPT !.iter_lf = i, !.iter_rh = j]
  PROVE  IInv'
<1>1. /\ Shape'
      /\ merge'.lf = merge.lf /\ merge'.rh = merge.rh
      /\ merge'.merged = merge.merged
      /\ merge'.iter_lf = i /\ merge'.iter_rh = j
  BY DEF IInv, Shape
<1>2. TypeOK'
  BY <1>1 DEF IInv, TypeOK
<1>3. OnTrack(home)'
  BY <1>1, MergeApart DEF OnTrack, Walking, Merging
<1> QED
  BY <1>1, <1>2, <1>3 DEF IInv

LEMMA MergeStartStep ==
  ASSUME IInv, NEW lf \in Lists, NEW rh \in Lists, MergeStart(lf, rh)
  PROVE  IInv'
<1>1. PICK home, rank : Placed(links, home, rank) /\ OnTrack(home)
  BY DEF IInv
<1> DEFINE before == <<Chain(links, lf), Chain(links, rh)>>
<1> HIDE DEF before
<1>2. /\ ~Walking /\ lf # rh
      /\ merge' = [lf |-> lf, rh |-> rh, merged |-> Self(links, rh),
                   iter_lf |-> links.next[lf], iter_rh |-> links.next[rh],
                   before |-> before]
      /\ links' = links /\ walk' = walk
  BY DEF MergeStart, before
<1>3. /\ merge'.lf = lf /\ merge'.rh = rh /\ merge'.merged = Self(links, rh)
      /\ merge'.iter_lf = links.next[lf] /\ merge'.iter_rh = links.next[rh]
      /\ merge'.before = before
  BY <1>2
<1>4. /\ links.next[lf] \in Items /\ home[links.next[lf]] = lf
      /\ links.next[rh] \in Items /\ home[links.next[rh]] = rh
      /\ Self(links, rh) = rh
  BY <1>1, ItemsApart DEF Placed, Items, Self
<1>5. TypeOK'
  BY <1>2, <1>3, <1>4 DEF IInv, TypeOK
<1>6. Shape'
  BY <1>2, <1>3 DEF IInv, Shape
<1>7. OnTrack(home)'
  BY <1>2, <1>3, <1>4 DEF OnTrack, Walking, Merging
<1> QED
  BY <1>1, <1>2, <1>5, <1>6, <1>7 DEF IInv

LEMMA MergeTurnStep ==
  ASSUME IInv, MergeTurn
  PROVE  IInv'
<1>1. PICK home, rank : Placed(links, home, rank) /\ OnTrack(home)
  BY DEF IInv
<1> DEFINE i == merge.iter_lf
           j == merge.iter_rh
           lf == merge.lf
           rh == merge.rh
<1>2. /\ Merging /\ ~Walking /\ UNCHANGED walk
      /\ i # lf /\ j # rh
      /\ lf \in Lists /\ rh \in Lists /\ lf # rh
      /\ i \in Items /\ home[i] = lf /\ j \in Items /\ home[j] = rh
      /\ links \in Links
  BY <1>1, MergeApart DEF MergeTurn, MergeDone, OnTrack, IInv, TypeOK
<1>3. i \in Nodes /\ j \in Nodes /\ i # j /\ lf # Null /\ rh # Null
  BY <1>1, <1>2, Members, ItemsApart DEF Items
<1>4. \/ /\ links' = links
         /\ merge' = [merge EXCEPT !.iter_lf = Forth(links, i), !.iter_rh = j]
      \/ /\ links' = Deleted(links, j)
         /\ merge' = [merge EXCEPT !.iter_lf = Forth(links, i), !.iter_rh = Forth(links, j)]
      \/ /\ links' = Inserted(Deleted(links, j), j, Back(Deleted(links, j), i), i)
         /\ merge' = [merge EXCEPT !.iter_lf = j, !.iter_rh = Forth(links, j)]
  <2>1. CASE Key[i] < Key[j]
    BY <2>1 DEF MergeTurn, Smaller
  <2>2. CASE Key[i] = Key[j]
    <3>1. ~(Key[i] < Key[j])
      BY <2>2, <1>3, ListAssumption
    <3> QED
      BY <2>2, <3>1 DEF MergeTurn, Equal
  <2>3. CASE ~(Key[i] < Key[j]) /\ Key[i] # Key[j]
    BY <2>3 DEF MergeTurn, Greater
  <2> QED
    BY <2>1, <2>2, <2>3
<1> DEFINE i2 == Forth(links, i)
           j2 == Forth(links, j)
<1>5. /\ i2 \in Items /\ home[i2] = lf
      /\ j2 \in Items /\ home[j2] = rh /\ j2 # j
  BY <1>1, <1>2, <1>3, Neighbours DEF Placed, Forth
<1> DEFINE d == Deleted(links, j)
           homeD == [home EXCEPT ![j] = Null]
<1> HIDE DEF i, j, lf, rh, i2, j2, d, homeD
<1>6. d \in Links /\ Placed(d, homeD, rank)
  BY <1>1, <1>2, <1>3, DeletedPlaced DEF d, homeD
<1>7. /\ homeD[j] = Null
      /\ \A x \in Items \ {j} : homeD[x] = home[x]
  BY <1>1, <1>2 DEF homeD, Placed
<1>8. CASE /\ links' = links
           /\ merge' = [merge EXCEPT !.iter_lf = i2, !.iter_rh = j]
  <2>1. links' \in Links /\ Placed(links', home, rank)
    BY <1>1, <1>2, <1>8
  <2> QED
    BY <1>2, <1>5, <1>8, <2>1, MergeGoes DEF lf, rh
<1>9. CASE /\ links' = d
           /\ merge' = [merge EXCEPT !.iter_lf = i2, !.iter_rh = j2]
  <2>1. links' \in Links /\ Placed(links', homeD, rank)
    BY <1>6, <1>9
  <2>2. homeD[i2] = lf /\ homeD[j2] = rh
    BY <1>2, <1>3, <1>5, <1>7
  <2> QED
    BY <1>2, <1>5, <1>9, <2>1, <2>2, MergeGoes DEF lf, rh
<1>10. CASE /\ links' = Inserted(d, j, Back(d, i), i)
            /\ merge' = [merge EXCEPT !.iter_lf = j, !.iter_rh = j2]
  <2> DEFINE p == d.prev[i]
  <2>1. /\ p \in Items /\ homeD[p] = lf /\ d.next[p] = i
    BY <1>2, <1>3, <1>6, <1>7 DEF Placed
  <2> HIDE DEF p
  <2>2. links' = Inserted(d, j, p, d.next[p])
    BY <1>10, <2>1 DEF Back, p
  <2> DEFINE homeI == [homeD EXCEPT ![j] = homeD[p]]
  <2>3. links' \in Links /\ \E rank2 : Placed(links', homeI, rank2)
    BY <1>3, <1>6, <1>7, <2>1, <2>2, InsertedPlaced
  <2>4. homeI[j] = lf /\ homeI[j2] = rh
    BY <1>2, <1>5, <1>6, <1>7, <2>1 DEF Placed
  <2> HIDE DEF homeI
  <2>5. PICK rank2 : Placed(links', homeI, rank2)
    BY <2>3
  <2> QED
    BY <1>2, <1>5, <1>10, <2>3, <2>4, <2>5, MergeGoes DEF lf, rh
<1> QED
  BY <1>4, <1>8, <1>9, <1>10 DEF i, j, lf, rh, i2, j2, d

LEMMA MergeEndStep ==
  ASSUME IInv, MergeEnd
  PROVE  IInv'
<1>1. PICK home, rank : Placed(links, home, rank) /\ OnTrack(home)
  BY DEF IInv
<1>2. /\ ~Walking /\ merge.lf \in Lists /\ merge.rh \in Lists
      /\ merge.lf # merge.rh /\ merge.merged = merge.rh
      /\ walk' = walk /\ merge' = NoMerge /\ links \in Links
  BY MergeApart DEF MergeEnd, IInv, TypeOK
<1>3. Self(links, merge.lf) = merge.lf
  BY <1>1, <1>2, ItemsApart DEF Placed, Items, Self
<1>4. links' = links \/ links' = Spliced(links, merge.rh, merge.lf)
  BY <1>2, <1>3 DEF MergeEnd
<1>5. links' \in Links /\ \E home2, rank2 : Placed(links', home2, rank2)
  <2>1. CASE links' = links
    BY <1>1, <1>2, <2>1
  <2>2. CASE links' = Spliced(links, merge.rh, merge.lf)
    BY <1>1, <1>2, <2>2, SplicedPlaced
  <2> QED
    BY <1>4, <2>1, <2>2
<1>6. PICK home2, rank2 : Placed(links', home2, rank2)
  BY <1>5
<1>7. /\ merge'.lf = Null /\ merge'.rh = Null /\ merge'.merged = Null
      /\ merge'.iter_lf = Null /\ merge'.iter_rh = Null /\ merge'.before = <<>>
  BY <1>2 DEF NoMerge
<1>8. TypeOK'
  BY <1>2, <1>5, <1>7 DEF IInv, TypeOK
<1>9. Shape'
  BY <1>2, <1>7 DEF IInv, Shape, NoMerge
<1>10. OnTrack(home2)'
  BY <1>2, <1>7 DEF OnTrack, Walking, Merging
<1> QED
  BY <1>6, <1>8, <1>9, <1>10 DEF IInv
---------------------------------------------------------------------------
LEMMA StepIInv == IInv /\ [Next]_vars => IInv'
<1> SUFFICES ASSUME IInv, [Next]_vars PROVE IInv'
  OBVIOUS
<1>1. CASE \E n \in Nodes, l \in Lists : AddFront(n, l)
  BY <1>1, AddFrontStep
<1>2. CASE \E n \in Nodes, l \in Lists : AddTail(n, l)
  BY <1>2, AddTailStep
<1>3. CASE \E n \in Nodes : Del(n)
  BY <1>3, DelStep
<1>4. CASE \E from, to \in Lists : Splice(from, to)
  BY <1>4, SpliceStep
<1>5. CASE \E l \in Lists, dir \in {"next", "prev"}, safe \in BOOLEAN : WalkStart(l, dir, safe)
  BY <1>5, WalkStartStep
<1>6. CASE WalkTurn
  BY <1>6, WalkTurnStep
<1>7. CASE \E lf, rh \in Lists : MergeStart(lf, rh)
  BY <1>7, MergeStartStep
<1>8. CASE MergeTurn
  BY <1>8, MergeTurnStep
<1>9. CASE MergeEnd
  BY <1>9, MergeEndStep
<1>10. CASE UNCHANGED vars
  BY <1>10 DEF vars, IInv, TypeOK, Shape, OnTrack, Walking, Merging, Held
<1> QED
  BY <1>1, <1>2, <1>3, <1>4, <1>5, <1>6, <1>7, <1>8, <1>9, <1>10 DEF Next

(* What the links mean implies that they agree. *)
LEMMA PlacedIsLinked == IInv => WellLinked
<1> SUFFICES ASSUME IInv PROVE WellLinked
  OBVIOUS
<1>1. PICK home, rank : Placed(links, home, rank)
  BY DEF IInv
<1>2. ASSUME NEW x \in Items
      PROVE  \/ x \in Nodes /\ links.next[x] = Null /\ links.prev[x] = Null
             \/ /\ ~Unlinked(links, x)
                /\ links.prev[links.next[x]] = x
                /\ links.next[links.prev[x]] = x
  BY <1>1, ItemsApart, ListAssumption DEF Placed, Unlinked
<1> QED
  BY <1>2 DEF IInv, WellLinked

(* At every moment every item has its place. *)
THEOREM Invariant == Spec => []IInv
<1> QED
  BY InitIInv, StepIInv, PTL DEF Spec

(* Both directions of every list agree, also between the turns of a merge  *)
(* and under the feet of a loop, so that chk_listnode2chk finds the chunk: *)
(* for any number of lists and nodes.                                      *)
THEOREM Linked == Spec => []WellLinked
<1> QED
  BY Invariant, PlacedIsLinked, PTL
---------------------------------------------------------------------------
(* The lists as sequences.  Spot k of a list is its k-th node, and the     *)
(* head before the first and behind the last.                              *)
Spot(l, s, k) == IF k \in 1 .. Len(s) THEN s[k] ELSE l

On(q, x) == \E l \in Lists : \E i \in 1 .. Len(q[l]) : q[l][i] = x

(* The links r hold the sequences q: no node is in them twice, the rings   *)
(* go along them both ways, and the other nodes are not linked.            *)
Holds(r, q) ==
  /\ r \in Links
  /\ q \in [Lists -> Seq(Nodes)]
  /\ \A l, m \in Lists : \A i \in 1 .. Len(q[l]), j \in 1 .. Len(q[m]) :
       q[l][i] = q[m][j] => l = m /\ i = j
  /\ \A l \in Lists : \A k \in 0 .. Len(q[l]) :
       /\ r.next[Spot(l, q[l], k)] = Spot(l, q[l], k + 1)
       /\ r.prev[Spot(l, q[l], k + 1)] = Spot(l, q[l], k)
  /\ \A x \in Nodes : ~On(q, x) => r.next[x] = Null /\ r.prev[x] = Null

Distinct(s) == \A i, j \in 1 .. Len(s) : s[i] = s[j] => i = j

Starts(s, t) == Len(s) <= Len(t) /\ \A i \in 1 .. Len(s) : s[i] = t[i]

(* A loop with k nodes of s behind it: those it has met and those ahead    *)
(* begin with all that are due.                                            *)
Meets(w, s, k) ==
  /\ IF w.safe THEN w.tmp = Spot(w.list, s, k + 1) ELSE k > 0 /\ w.pos = s[k]
  /\ Distinct(w.seen \o SubSeq(s, k + 1, Len(s)))
  /\ Starts(w.due, w.seen \o SubSeq(s, k + 1, Len(s)))

(* The nodes of list l as a loop in that direction meets them. *)
Toward(q, l, dir) == IF dir = "next" THEN q[l] ELSE Reverse(q[l])

OnWalk(q) ==
  Walking =>
    /\ walk.seen \in Seq(Nodes) /\ walk.due \in Seq(Nodes)
    /\ \E k \in 0 .. Len(q[walk.list]) : Meets(walk, Toward(q, walk.list, walk.dir), k)

(* A merge: iter_rh is at the first of the nodes that are left in rh, and  *)
(* the nodes before iter_lf are no larger.                                 *)
OnMerge(q) ==
  Merging =>
    LET s == q[merge.lf]
        t == q[merge.rh]
        lf == merge.before[1]
        rh == merge.before[2]
    IN  /\ lf \in Seq(Nodes) /\ rh \in Seq(Nodes)
        /\ merge.iter_rh = Spot(merge.rh, t, 1)
        /\ \E a \in 1 .. Len(s) + 1 :
             /\ merge.iter_lf = Spot(merge.lf, s, a)
             /\ a > 1 /\ Len(t) > 0 => Key[s[a - 1]] <= Key[t[1]]
        /\ Sorted(s) /\ Sorted(t)
        /\ Keys(s) \cup Keys(t) = Keys(lf) \cup Keys(rh)
        /\ InOrder(lf, s)

Sequences(q) == Holds(links, q) /\ OnWalk(q) /\ OnMerge(q)

(* What InsertAt and RemoveAt leave. *)
LEMMA InsertAtIs ==
  ASSUME NEW s \in Seq(Nodes), NEW x \in Nodes, NEW k \in 0 .. Len(s)
  PROVE  LET t == InsertAt(s, k + 1, x) IN
         /\ t \in Seq(Nodes) /\ Len(t) = Len(s) + 1 /\ t[k + 1] = x
         /\ \A i \in 1 .. k : t[i] = s[i]
         /\ \A i \in k + 2 .. Len(s) + 1 : t[i] = s[i - 1]
<1> DEFINE a == SubSeq(s, 1, k)
           c == SubSeq(s, k + 1, Len(s))
           b == a \o <<x>>
<1>1. /\ a \in Seq(Nodes) /\ Len(a) = k /\ \A i \in 1 .. k : a[i] = s[i]
      /\ c \in Seq(Nodes) /\ Len(c) = Len(s) - k
      /\ \A i \in 1 .. Len(s) - k : c[i] = s[k + i]
  BY SubSeqProperties
<1>2. InsertAt(s, k + 1, x) = (a \o <<x>>) \o c
  <2>1. (k + 1) - 1 = k
    OBVIOUS
  <2> QED
    BY <2>1 DEF InsertAt
<1> HIDE DEF a, c
<1>3. /\ b \in Seq(Nodes) /\ Len(b) = k + 1 /\ b[k + 1] = x
      /\ \A i \in 1 .. k : b[i] = s[i]
  BY <1>1, ConcatProperties, SMTT(20)
<1> HIDE DEF b
<1>4. /\ b \o c \in Seq(Nodes) /\ Len(b \o c) = Len(b) + Len(c)
      /\ \A i \in 1 .. Len(b) + Len(c) :
           (b \o c)[i] = IF i <= Len(b) THEN b[i] ELSE c[i - Len(b)]
  BY <1>1, <1>3, ConcatProperties, ZenonT(30)
<1>5. ASSUME NEW i \in k + 2 .. Len(s) + 1
      PROVE  (b \o c)[i] = s[i - 1]
  <2>1. i - (k + 1) \in 1 .. Len(s) - k /\ k + (i - (k + 1)) = i - 1
        /\ i \in 1 .. Len(b) + Len(c) /\ ~ (i <= Len(b))
    BY <1>1, <1>3
  <2>2. (b \o c)[i] = c[i - Len(b)] /\ c[i - (k + 1)] = s[k + (i - (k + 1))]
    BY <1>1, <1>4, <2>1
  <2> QED
    BY <1>3, <2>1, <2>2
<1>6. /\ Len(b \o c) = Len(s) + 1
      /\ \A i \in 1 .. k + 1 : (b \o c)[i] = b[i]
  BY <1>1, <1>3, <1>4
<1>7. k + 1 \in 1 .. k + 1 /\ \A i \in 1 .. k : i \in 1 .. k + 1
  OBVIOUS
<1>8. InsertAt(s, k + 1, x) = b \o c
  BY <1>2 DEF b
<1> QED
  BY <1>3, <1>4, <1>5, <1>6, <1>7, <1>8

LEMMA RemoveAtIs ==
  ASSUME NEW s \in Seq(Nodes), NEW k \in 1 .. Len(s)
  PROVE  LET t == RemoveAt(s, k) IN
         /\ t \in Seq(Nodes) /\ Len(t) = Len(s) - 1
         /\ \A i \in 1 .. k - 1 : t[i] = s[i]
         /\ \A i \in k .. Len(s) - 1 : t[i] = s[i + 1]
<1> DEFINE a == SubSeq(s, 1, k - 1)
           c == SubSeq(s, k + 1, Len(s))
<1>1. /\ a \in Seq(Nodes) /\ Len(a) = k - 1 /\ \A i \in 1 .. k - 1 : a[i] = s[i]
      /\ c \in Seq(Nodes) /\ Len(c) = Len(s) - k
      /\ \A i \in 1 .. Len(s) - k : c[i] = s[k + i]
  BY SubSeqProperties
<1>2. RemoveAt(s, k) = a \o c
  BY DEF RemoveAt
<1> HIDE DEF a, c
<1>3. /\ a \o c \in Seq(Nodes) /\ Len(a \o c) = Len(a) + Len(c)
      /\ \A i \in 1 .. Len(a) + Len(c) :
           (a \o c)[i] = IF i <= Len(a) THEN a[i] ELSE c[i - Len(a)]
  BY <1>1, ConcatProperties
<1>4. ASSUME NEW i \in k .. Len(s) - 1
      PROVE  (a \o c)[i] = s[i + 1]
  <2>1. i - (k - 1) \in 1 .. Len(s) - k /\ k + (i - (k - 1)) = i + 1
        /\ i \in 1 .. Len(a) + Len(c) /\ ~ (i <= Len(a))
    BY <1>1
  <2> QED
    BY <1>1, <1>3, <2>1
<1> QED
  BY <1>1, <1>2, <1>3, <1>4
---------------------------------------------------------------------------
(* The spots of a sequence of nodes. *)
LEMMA Spots ==
  ASSUME NEW r, NEW q, Holds(r, q), NEW l \in Lists
  PROVE  /\ q[l] \in Seq(Nodes) /\ Len(q[l]) \in Nat /\ l \in Items
         /\ Spot(l, q[l], 0) = l /\ Spot(l, q[l], Len(q[l]) + 1) = l
         /\ \A i \in 1 .. Len(q[l]) : Spot(l, q[l], i) = q[l][i] /\ q[l][i] \in Nodes
         /\ \A i : Spot(l, q[l], i) \in Items
  BY DEF Holds, Spot, Items

(* No item is at two spots, but for a head, which is at both ends. *)
LEMMA SpotApart ==
  ASSUME NEW r, NEW q, Holds(r, q), NEW l \in Lists, NEW m \in Lists
  PROVE  /\ \A i \in 0 .. Len(q[l]), j \in 0 .. Len(q[m]) :
              Spot(l, q[l], i) = Spot(m, q[m], j) => l = m /\ i = j
         /\ \A i \in 1 .. Len(q[l]) + 1, j \in 1 .. Len(q[m]) + 1 :
              Spot(l, q[l], i) = Spot(m, q[m], j) => l = m /\ i = j
<1>1. /\ Len(q[l]) \in Nat /\ Len(q[m]) \in Nat /\ l \notin Nodes /\ m \notin Nodes
      /\ \A i \in 1 .. Len(q[l]) : q[l][i] \in Nodes
      /\ \A i \in 1 .. Len(q[m]) : q[m][i] \in Nodes
  BY Spots, ItemsApart
<1>2. \A i \in 1 .. Len(q[l]), j \in 1 .. Len(q[m]) :
        q[l][i] = q[m][j] => l = m /\ i = j
  BY DEF Holds
<1> DEFINE s == q[l]
           t == q[m]
<1> HIDE DEF s, t
<1>3. ASSUME NEW i \in Nat, NEW j \in Nat, Spot(l, s, i) = Spot(m, t, j)
      PROVE  \/ i \in 1 .. Len(s) /\ j \in 1 .. Len(t) /\ l = m /\ i = j
             \/ i \notin 1 .. Len(s) /\ j \notin 1 .. Len(t) /\ l = m
  <2>1. CASE i \in 1 .. Len(s) /\ j \in 1 .. Len(t)
    <3>1. s[i] = t[j]
      BY <2>1, <1>3 DEF Spot
    <3> QED
      BY <2>1, <3>1, <1>2 DEF s, t
  <2>2. CASE i \notin 1 .. Len(s) /\ j \notin 1 .. Len(t)
    BY <2>2, <1>3 DEF Spot
  <2>3. CASE i \in 1 .. Len(s) /\ j \notin 1 .. Len(t)
    <3>1. s[i] = m
      BY <2>3, <1>3 DEF Spot
    <3> QED
      BY <2>3, <3>1, <1>1 DEF s
  <2>4. CASE i \notin 1 .. Len(s) /\ j \in 1 .. Len(t)
    <3>1. t[j] = l
      BY <2>4, <1>3 DEF Spot
    <3>2. t[j] \in Nodes
      BY <2>4, <1>1 DEF t
    <3> QED
      BY <3>1, <3>2, <1>1
  <2> QED
    BY <2>1, <2>2, <2>3, <2>4
<1>4. /\ l = m => Len(s) = Len(t)
      /\ Len(s) \in Nat /\ Len(t) \in Nat
  BY <1>1 DEF s, t
<1>5. ASSUME NEW i \in 0 .. Len(s), NEW j \in 0 .. Len(t), Spot(l, s, i) = Spot(m, t, j)
      PROVE  l = m /\ i = j
  <2>1. i \in Nat /\ j \in Nat
    OBVIOUS
  <2> QED
    BY <1>3, <1>4, <1>5, <2>1
<1>6. ASSUME NEW i \in 1 .. Len(s) + 1, NEW j \in 1 .. Len(t) + 1,
             Spot(l, s, i) = Spot(m, t, j)
      PROVE  l = m /\ i = j
  <2>1. i \in Nat /\ j \in Nat
    OBVIOUS
  <2> QED
    BY <1>3, <1>4, <1>6, <2>1
<1> QED
  BY <1>5, <1>6 DEF s, t

LEMMA SpotOff ==
  ASSUME NEW r, NEW q, Holds(r, q), NEW l \in Lists, NEW x \in Nodes, ~On(q, x)
  PROVE  \A i : Spot(l, q[l], i) # x
<1> SUFFICES ASSUME NEW i PROVE Spot(l, q[l], i) # x
  OBVIOUS
<1>1. l # x
  BY ItemsApart DEF Items
<1>2. \A k \in 1 .. Len(q[l]) : q[l][k] # x
  BY DEF On
<1> QED
  BY <1>1, <1>2 DEF Spot

(* Where the links of a spot lead. *)
LEMMA SpotLinks ==
  ASSUME NEW r, NEW q, Holds(r, q), NEW l \in Lists, NEW k \in 0 .. Len(q[l])
  PROVE  /\ r.next[Spot(l, q[l], k)] = Spot(l, q[l], k + 1)
         /\ r.prev[Spot(l, q[l], k + 1)] = Spot(l, q[l], k)
  BY DEF Holds

(* A node is on a list or not linked. *)
LEMMA OffIsUnlinked ==
  ASSUME NEW r, NEW q, Holds(r, q), NEW x \in Nodes
  PROVE  /\ Unlinked(r, x) <=> ~On(q, x)
         /\ Unlinked(r, x) => r.next[x] = Null /\ r.prev[x] = Null
<1>1. ASSUME NEW l \in Lists, NEW i \in 1 .. Len(q[l]), q[l][i] = x
      PROVE  ~Unlinked(r, x)
  <2>1. i - 1 \in 0 .. Len(q[l]) /\ (i - 1) + 1 = i /\ i \in 0 .. Len(q[l])
    BY Spots
  <2>2. /\ r.next[x] = Spot(l, q[l], i + 1)
        /\ r.prev[x] = Spot(l, q[l], i - 1)
    BY <1>1, <2>1, Spots, SpotLinks
  <2>3. Spot(l, q[l], i + 1) \in Items /\ Spot(l, q[l], i - 1) \in Items
    BY Spots
  <2> QED
    BY <2>2, <2>3, ItemsApart DEF Unlinked
<1>2. ~On(q, x) => r.next[x] = Null /\ r.prev[x] = Null
  BY DEF Holds
<1> QED
  BY <1>1, <1>2 DEF On, Unlinked
---------------------------------------------------------------------------
(* Inserting between two spots inserts into the sequence. *)
LEMMA SpotInserted ==
  ASSUME NEW l \in Lists, NEW s \in Seq(Nodes), NEW x \in Nodes, NEW k \in 0 .. Len(s)
  PROVE  LET t == InsertAt(s, k + 1, x) IN
         /\ t \in Seq(Nodes) /\ Len(t) = Len(s) + 1
         /\ \A i \in 0 .. k : Spot(l, t, i) = Spot(l, s, i)
         /\ Spot(l, t, k + 1) = x
         /\ \A i \in k + 2 .. Len(s) + 2 : Spot(l, t, i) = Spot(l, s, i - 1)
<1> DEFINE t == InsertAt(s, k + 1, x)
<1>1. /\ t \in Seq(Nodes) /\ Len(t) = Len(s) + 1 /\ t[k + 1] = x
      /\ \A i \in 1 .. k : t[i] = s[i]
      /\ \A i \in k + 2 .. Len(s) + 1 : t[i] = s[i - 1]
  BY InsertAtIs
<1> HIDE DEF t
<1>2. Len(s) \in Nat
  BY LenProperties
<1>3. ASSUME NEW i \in 0 .. k
      PROVE  Spot(l, t, i) = Spot(l, s, i)
  BY <1>1, <1>2 DEF Spot
<1>4. Spot(l, t, k + 1) = x
  BY <1>1, <1>2 DEF Spot
<1>5. ASSUME NEW i \in k + 2 .. Len(s) + 2
      PROVE  Spot(l, t, i) = Spot(l, s, i - 1)
  <2>1. CASE i = Len(s) + 2
    <3>1. i \notin 1 .. Len(t) /\ i - 1 \notin 1 .. Len(s)
      BY <2>1, <1>1, <1>2
    <3> QED
      BY <3>1 DEF Spot
  <2>2. CASE i # Len(s) + 2
    <3>1. i \in 1 .. Len(t) /\ i - 1 \in 1 .. Len(s) /\ i \in k + 2 .. Len(s) + 1
      BY <2>2, <1>1, <1>2
    <3> QED
      BY <3>1, <1>1 DEF Spot
  <2> QED
    BY <2>1, <2>2
<1> QED
  BY <1>1, <1>3, <1>4, <1>5 DEF t

LEMMA HoldsInserted ==
  ASSUME NEW r, NEW q, Holds(r, q), NEW l \in Lists, NEW k \in 0 .. Len(q[l]),
         NEW x \in Nodes, ~On(q, x)
  PROVE  Holds(Inserted(r, x, Spot(l, q[l], k), Spot(l, q[l], k + 1)),
               [q EXCEPT ![l] = InsertAt(@, k + 1, x)])
<1> DEFINE s == q[l]
           t == InsertAt(s, k + 1, x)
           p == Spot(l, s, k)
           n == Spot(l, s, k + 1)
           r2 == Inserted(r, x, p, n)
           q2 == [q EXCEPT ![l] = t]
<1>1. /\ q \in [Lists -> Seq(Nodes)] /\ r \in Links
      /\ s \in Seq(Nodes) /\ Len(s) \in Nat
      /\ p \in Items /\ n \in Items /\ x \in Items
      /\ \A i : Spot(l, s, i) \in Items /\ Spot(l, s, i) # x
  <2>1. q \in [Lists -> Seq(Nodes)] /\ r \in Links /\ x \in Items
    BY DEF Holds, Items
  <2>2. s \in Seq(Nodes) /\ Len(s) \in Nat /\ \A i : Spot(l, s, i) \in Items
    BY Spots
  <2>3. \A i : Spot(l, s, i) # x
    BY SpotOff
  <2> QED
    BY <2>1, <2>2, <2>3
<1>2. /\ t \in Seq(Nodes) /\ Len(t) = Len(s) + 1
      /\ \A i \in 0 .. k : Spot(l, t, i) = Spot(l, s, i)
      /\ Spot(l, t, k + 1) = x
      /\ \A i \in k + 2 .. Len(s) + 2 : Spot(l, t, i) = Spot(l, s, i - 1)
  BY <1>1, SpotInserted
<1>3. /\ t[k + 1] = x
      /\ \A i \in 1 .. k : t[i] = s[i]
      /\ \A i \in k + 2 .. Len(s) + 1 : t[i] = s[i - 1]
  BY <1>1, InsertAtIs, ZenonT(30)
<1>4. /\ q2 \in [Lists -> Seq(Nodes)]
      /\ q2[l] = t
      /\ \A m \in Lists \ {l} : q2[m] = q[m]
  BY <1>1, <1>2
<1>5. /\ r2 \in Links
      /\ r2.next[p] = x /\ r2.next[x] = n
      /\ r2.prev[n] = x /\ r2.prev[x] = p
      /\ \A y \in Items : y # p /\ y # x => r2.next[y] = r.next[y]
      /\ \A y \in Items : y # n /\ y # x => r2.prev[y] = r.prev[y]
  <2> HIDE DEF p, n
  <2>1. r2 = [next |-> [r.next EXCEPT ![x] = n, ![p] = x],
              prev |-> [r.prev EXCEPT ![n] = x, ![x] = p]]
    BY DEF Inserted
  <2>2. /\ r2.next = [r.next EXCEPT ![x] = n, ![p] = x]
        /\ r2.prev = [r.prev EXCEPT ![n] = x, ![x] = p]
        /\ r.next \in [Items -> Items \cup {Null}]
        /\ r.prev \in [Items -> Items \cup {Null}]
    BY <1>1, <2>1 DEF Links
  <2>3. x # p /\ x # n
    BY <1>1 DEF p, n
  <2>4. r2 \in Links
    BY <1>1, <2>1, <2>2 DEF Links
  <2> HIDE DEF r2
  <2> QED
    BY <1>1, <2>2, <2>3, <2>4
<1> HIDE DEF t, r2, q2
<1>6. \A i \in 0 .. Len(s) : /\ r.next[Spot(l, s, i)] = Spot(l, s, i + 1)
                             /\ r.prev[Spot(l, s, i + 1)] = Spot(l, s, i)
  BY SpotLinks
<1>7. /\ \A i \in 0 .. Len(s) : Spot(l, s, i) = p => i = k
      /\ \A i \in 1 .. Len(s) + 1 : Spot(l, s, i) = n => i = k + 1
  <2>1. k + 1 \in 1 .. Len(s) + 1
    BY <1>1
  <2> QED
    BY <2>1, SpotApart
<1> HIDE DEF p, n
<1>8. ASSUME NEW i \in 0 .. Len(t)
      PROVE  r2.next[Spot(l, t, i)] = Spot(l, t, i + 1)
  <2>1. CASE i < k
    <3>1. i \in 0 .. k /\ i + 1 \in 0 .. k /\ i \in 0 .. Len(s) /\ i # k
      BY <2>1
    <3>2. /\ Spot(l, t, i) = Spot(l, s, i) /\ Spot(l, t, i + 1) = Spot(l, s, i + 1)
          /\ Spot(l, s, i) # p /\ Spot(l, s, i) # x /\ Spot(l, s, i) \in Items
      BY <3>1, <1>1, <1>2, <1>7
    <3> QED
      BY <3>1, <3>2, <1>5, <1>6
  <2>2. CASE i = k
    <3>1. Spot(l, t, i) = p
      BY <2>2, <1>2 DEF p
    <3> QED
      BY <3>1, <2>2, <1>2, <1>5
  <2>3. CASE i = k + 1
    <3>1. k + 2 \in k + 2 .. Len(s) + 2 /\ (k + 2) - 1 = k + 1 /\ i + 1 = k + 2
      BY <2>3, <1>1
    <3>2. Spot(l, t, k + 2) = n
      BY <3>1, <1>2 DEF n
    <3> QED
      BY <3>1, <3>2, <2>3, <1>2, <1>5
  <2>4. CASE i > k + 1
    <3>1. /\ i \in k + 2 .. Len(s) + 2 /\ i + 1 \in k + 2 .. Len(s) + 2
          /\ i - 1 \in 0 .. Len(s) /\ i - 1 # k /\ (i + 1) - 1 = i /\ (i - 1) + 1 = i
      BY <2>4, <1>1, <1>2
    <3>2. /\ Spot(l, t, i) = Spot(l, s, i - 1) /\ Spot(l, t, i + 1) = Spot(l, s, i)
          /\ Spot(l, s, i - 1) # p /\ Spot(l, s, i - 1) # x
          /\ Spot(l, s, i - 1) \in Items
      BY <3>1, <1>1, <1>2, <1>7
    <3>3. r.next[Spot(l, s, i - 1)] = Spot(l, s, i)
      BY <3>1, <1>6
    <3> QED
      BY <3>2, <3>3, <1>5
  <2> QED
    BY <2>1, <2>2, <2>3, <2>4, <1>1
<1>9. ASSUME NEW i \in 0 .. Len(t)
      PROVE  r2.prev[Spot(l, t, i + 1)] = Spot(l, t, i)
  <2>1. CASE i < k
    <3>1. i \in 0 .. k /\ i + 1 \in 0 .. k /\ i \in 0 .. Len(s)
          /\ i + 1 \in 1 .. Len(s) + 1 /\ i + 1 # k + 1
      BY <2>1, <1>1
    <3>2. /\ Spot(l, t, i) = Spot(l, s, i) /\ Spot(l, t, i + 1) = Spot(l, s, i + 1)
          /\ Spot(l, s, i + 1) # n /\ Spot(l, s, i + 1) # x
          /\ Spot(l, s, i + 1) \in Items
      BY <3>1, <1>1, <1>2, <1>7
    <3> QED
      BY <3>1, <3>2, <1>5, <1>6
  <2>2. CASE i = k
    <3>1. Spot(l, t, k) = p
      BY <1>2 DEF p
    <3> QED
      BY <3>1, <2>2, <1>2, <1>5
  <2>3. CASE i = k + 1
    <3>1. k + 2 \in k + 2 .. Len(s) + 2 /\ (k + 2) - 1 = k + 1 /\ i + 1 = k + 2
      BY <2>3, <1>1
    <3>2. Spot(l, t, k + 2) = n
      BY <3>1, <1>2 DEF n
    <3> QED
      BY <3>1, <3>2, <2>3, <1>2, <1>5
  <2>4. CASE i > k + 1
    <3>1. /\ i \in k + 2 .. Len(s) + 2 /\ i + 1 \in k + 2 .. Len(s) + 2
          /\ i \in 1 .. Len(s) + 1 /\ i # k + 1 /\ (i + 1) - 1 = i
          /\ (i - 1) + 1 = i /\ i - 1 \in 0 .. Len(s)
      BY <2>4, <1>1, <1>2
    <3>2. /\ Spot(l, t, i) = Spot(l, s, i - 1) /\ Spot(l, t, i + 1) = Spot(l, s, i)
          /\ Spot(l, s, i) # n /\ Spot(l, s, i) # x /\ Spot(l, s, i) \in Items
      BY <3>1, <1>1, <1>2, <1>7
    <3>3. r.prev[Spot(l, s, i)] = Spot(l, s, i - 1)
      BY <3>1, <1>6
    <3> QED
      BY <3>2, <3>3, <1>5
  <2> QED
    BY <2>1, <2>2, <2>3, <2>4, <1>1
<1>10. ASSUME NEW m \in Lists \ {l}, NEW i \in 0 .. Len(q[m])
       PROVE  /\ r2.next[Spot(m, q[m], i)] = Spot(m, q[m], i + 1)
              /\ r2.prev[Spot(m, q[m], i + 1)] = Spot(m, q[m], i)
  <2>1. /\ Spot(m, q[m], i) # p /\ Spot(m, q[m], i + 1) # n
        /\ Len(q[m]) \in Nat /\ i + 1 \in 1 .. Len(q[m]) + 1
    <3>1. Len(q[m]) \in Nat /\ i + 1 \in 1 .. Len(q[m]) + 1 /\ k + 1 \in 1 .. Len(s) + 1
      BY <1>1, Spots
    <3>2. Spot(m, q[m], i) # p
      BY SpotApart DEF p
    <3>3. Spot(m, q[m], i + 1) # n
      BY <3>1, SpotApart DEF n
    <3> QED
      BY <3>1, <3>2, <3>3
  <2>2. /\ Spot(m, q[m], i) # x /\ Spot(m, q[m], i + 1) # x
        /\ Spot(m, q[m], i) \in Items /\ Spot(m, q[m], i + 1) \in Items
    <3>1. \A j : Spot(m, q[m], j) # x
      BY SpotOff
    <3>2. \A j : Spot(m, q[m], j) \in Items
      BY Spots
    <3> QED
      BY <3>1, <3>2
  <2>3. /\ r.next[Spot(m, q[m], i)] = Spot(m, q[m], i + 1)
        /\ r.prev[Spot(m, q[m], i + 1)] = Spot(m, q[m], i)
    BY SpotLinks
  <2> QED
    BY <2>1, <2>2, <2>3, <1>5
<1>11. \A m \in Lists : \A i \in 1 .. Len(q[m]) : q[m][i] # x
  BY DEF On
<1>12. \A i \in 1 .. Len(t) : i = k + 1 \/ \E j \in 1 .. Len(s) :
            t[i] = s[j] /\ ((i <= k /\ j = i) \/ (i > k + 1 /\ j = i - 1))
  <2> SUFFICES ASSUME NEW i \in 1 .. Len(t), i # k + 1
               PROVE  \E j \in 1 .. Len(s) :
                        t[i] = s[j] /\ ((i <= k /\ j = i) \/ (i > k + 1 /\ j = i - 1))
    OBVIOUS
  <2>1. CASE i <= k
    <3>1. i \in 1 .. k /\ i \in 1 .. Len(s)
      BY <2>1, <1>1
    <3> QED
      BY <3>1, <2>1, <1>3
  <2>2. CASE i > k + 1
    <3>1. i \in k + 2 .. Len(s) + 1 /\ i - 1 \in 1 .. Len(s)
      BY <2>2, <1>1, <1>2
    <3> QED
      BY <3>1, <2>2, <1>3
  <2> QED
    BY <2>1, <2>2, <1>1
<1>13. ASSUME NEW m \in Lists, NEW o \in Lists,
              NEW i \in 1 .. Len(q2[m]), NEW j \in 1 .. Len(q2[o]), q2[m][i] = q2[o][j]
       PROVE  m = o /\ i = j
  <2>1. \A u, v \in Lists : \A a \in 1 .. Len(q[u]), b \in 1 .. Len(q[v]) :
          q[u][a] = q[v][b] => u = v /\ a = b
    BY DEF Holds
  <2>2. \A a \in 1 .. Len(s) : s[a] # x
    BY <1>11
  <2>3. \A a, b \in 1 .. Len(s) : s[a] = s[b] => a = b
    BY <2>1
  <2>4. \A u \in Lists \ {l} : \A a \in 1 .. Len(s), b \in 1 .. Len(q[u]) : s[a] # q[u][b]
    BY <2>1
  <2> HIDE DEF s
  <2>5. CASE m = l /\ o = l
    <3>1. i \in 1 .. Len(t) /\ j \in 1 .. Len(t) /\ t[i] = t[j]
      BY <2>5, <1>4, <1>13
    <3>2. CASE i = k + 1
      <4>1. t[j] = x
        BY <3>1, <3>2, <1>3
      <4>2. j = k + 1
        BY <4>1, <3>1, <2>2, <1>12
      <4> QED
        BY <4>2, <3>2, <2>5
    <3>3. CASE j = k + 1
      <4>1. t[i] = x
        BY <3>1, <3>3, <1>3
      <4>2. i = k + 1
        BY <4>1, <3>1, <2>2, <1>12
      <4> QED
        BY <4>2, <3>3, <2>5
    <3>4. CASE i # k + 1 /\ j # k + 1
      <4>1. PICK a \in 1 .. Len(s) :
              t[i] = s[a] /\ ((i <= k /\ a = i) \/ (i > k + 1 /\ a = i - 1))
        BY <3>1, <3>4, <1>12
      <4>2. PICK b \in 1 .. Len(s) :
              t[j] = s[b] /\ ((j <= k /\ b = j) \/ (j > k + 1 /\ b = j - 1))
        BY <3>1, <3>4, <1>12
      <4>3. a = b
        BY <4>1, <4>2, <3>1, <2>3
      <4>4. i = j
        BY <4>1, <4>2, <4>3, <3>1, <1>1
      <4> QED
        BY <4>4, <2>5
    <3> QED
      BY <3>2, <3>3, <3>4
  <2>6. CASE m = l /\ o # l
    <3>1. i \in 1 .. Len(t) /\ j \in 1 .. Len(q[o]) /\ t[i] = q[o][j]
      BY <2>6, <1>4, <1>13
    <3>2. i # k + 1
      BY <3>1, <1>3, <1>11
    <3>3. PICK a \in 1 .. Len(s) : t[i] = s[a]
      BY <3>1, <3>2, <1>12
    <3> QED
      BY <3>1, <3>3, <2>4, <2>6
  <2>7. CASE m # l /\ o = l
    <3>1. j \in 1 .. Len(t) /\ i \in 1 .. Len(q[m]) /\ t[j] = q[m][i]
      BY <2>7, <1>4, <1>13
    <3>2. j # k + 1
      BY <3>1, <1>3, <1>11
    <3>3. PICK a \in 1 .. Len(s) : t[j] = s[a]
      BY <3>1, <3>2, <1>12
    <3> QED
      BY <3>1, <3>3, <2>4, <2>7
  <2>8. CASE m # l /\ o # l
    BY <2>8, <2>1, <1>4, <1>13
  <2> QED
    BY <2>5, <2>6, <2>7, <2>8
<1>14. ASSUME NEW y \in Nodes, ~On(q2, y)
       PROVE  r2.next[y] = Null /\ r2.prev[y] = Null
  <2>1. y # x
    <3>1. k + 1 \in 1 .. Len(t)
      BY <1>1, <1>2
    <3> QED
      BY <3>1, <1>3, <1>4, <1>14 DEF On
  <2>2. ~On(q, y)
    <3> SUFFICES ASSUME NEW m \in Lists, NEW i \in 1 .. Len(q[m]), q[m][i] = y
                 PROVE  FALSE
      BY DEF On
    <3>1. CASE m # l
      BY <3>1, <1>4, <1>14 DEF On
    <3>2. CASE m = l
      <4>1. \E j \in 1 .. Len(t) : t[j] = y
        <5>1. CASE i <= k
          <6>1. i \in 1 .. k /\ i \in 1 .. Len(t)
            BY <5>1, <1>1, <1>2, <3>2
          <6> QED
            BY <6>1, <1>3, <3>2
        <5>2. CASE i > k
          <6>1. i + 1 \in k + 2 .. Len(s) + 1 /\ i + 1 \in 1 .. Len(t) /\ (i + 1) - 1 = i
            BY <5>2, <1>1, <1>2, <3>2
          <6> QED
            BY <6>1, <1>3, <3>2
        <5> QED
          BY <5>1, <5>2, <1>1, <3>2
      <4> QED
        BY <4>1, <1>4, <1>14 DEF On
    <3> QED
      BY <3>1, <3>2
  <2>3. r.next[y] = Null /\ r.prev[y] = Null
    BY <2>2 DEF Holds
  <2>4. y # p /\ y # n /\ y \in Items
    BY <2>2, SpotOff DEF p, n, Items
  <2> QED
    BY <2>1, <2>3, <2>4, <1>5
<1>15. ASSUME NEW m \in Lists, NEW i \in 0 .. Len(q2[m])
       PROVE  /\ r2.next[Spot(m, q2[m], i)] = Spot(m, q2[m], i + 1)
              /\ r2.prev[Spot(m, q2[m], i + 1)] = Spot(m, q2[m], i)
  BY <1>4, <1>8, <1>9, <1>10
<1> QED
  BY <1>4, <1>5, <1>13, <1>14, <1>15 DEF Holds, q2, t, r2, p, n
---------------------------------------------------------------------------
(* Deleting a spot deletes from the sequence. *)
LEMMA SpotRemoved ==
  ASSUME NEW l \in Lists, NEW s \in Seq(Nodes), NEW k \in 1 .. Len(s)
  PROVE  LET t == RemoveAt(s, k) IN
         /\ t \in Seq(Nodes) /\ Len(t) = Len(s) - 1
         /\ \A i \in 0 .. k - 1 : Spot(l, t, i) = Spot(l, s, i)
         /\ \A i \in k .. Len(s) : Spot(l, t, i) = Spot(l, s, i + 1)
<1> DEFINE t == RemoveAt(s, k)
<1>1. /\ t \in Seq(Nodes) /\ Len(t) = Len(s) - 1
      /\ \A i \in 1 .. k - 1 : t[i] = s[i]
      /\ \A i \in k .. Len(s) - 1 : t[i] = s[i + 1]
  BY RemoveAtIs
<1> HIDE DEF t
<1>2. Len(s) \in Nat
  BY LenProperties
<1>3. ASSUME NEW i \in 0 .. k - 1
      PROVE  Spot(l, t, i) = Spot(l, s, i)
  BY <1>1, <1>2 DEF Spot
<1>4. ASSUME NEW i \in k .. Len(s)
      PROVE  Spot(l, t, i) = Spot(l, s, i + 1)
  <2>1. CASE i = Len(s)
    <3>1. i \notin 1 .. Len(t) /\ i + 1 \notin 1 .. Len(s)
      BY <2>1, <1>1, <1>2
    <3> QED
      BY <3>1 DEF Spot
  <2>2. CASE i # Len(s)
    <3>1. i \in 1 .. Len(t) /\ i + 1 \in 1 .. Len(s) /\ i \in k .. Len(s) - 1
      BY <2>2, <1>1, <1>2
    <3> QED
      BY <3>1, <1>1 DEF Spot
  <2> QED
    BY <2>1, <2>2
<1> QED
  BY <1>1, <1>3, <1>4 DEF t

LEMMA HoldsDeleted ==
  ASSUME NEW r, NEW q, Holds(r, q), NEW l \in Lists, NEW k \in 1 .. Len(q[l])
  PROVE  Holds(Deleted(r, q[l][k]), [q EXCEPT ![l] = RemoveAt(@, k)])
<1> DEFINE s == q[l]
           t == RemoveAt(s, k)
           x == s[k]
           p == Spot(l, s, k - 1)
           n == Spot(l, s, k + 1)
           r2 == Deleted(r, x)
           q2 == [q EXCEPT ![l] = t]
<1>1. /\ q \in [Lists -> Seq(Nodes)] /\ r \in Links
      /\ s \in Seq(Nodes) /\ Len(s) \in Nat
      /\ p \in Items /\ n \in Items /\ x \in Items /\ x \in Nodes
      /\ \A i : Spot(l, s, i) \in Items
      /\ x = Spot(l, s, k)
  <2>1. q \in [Lists -> Seq(Nodes)] /\ r \in Links
    BY DEF Holds
  <2>2. s \in Seq(Nodes) /\ Len(s) \in Nat /\ \A i : Spot(l, s, i) \in Items
    BY Spots
  <2>3. x \in Nodes /\ x = Spot(l, s, k)
    BY Spots
  <2> QED
    BY <2>1, <2>2, <2>3 DEF Items
<1>2. /\ t \in Seq(Nodes) /\ Len(t) = Len(s) - 1
      /\ \A i \in 0 .. k - 1 : Spot(l, t, i) = Spot(l, s, i)
      /\ \A i \in k .. Len(s) : Spot(l, t, i) = Spot(l, s, i + 1)
  BY <1>1, SpotRemoved
<1>3. /\ \A i \in 1 .. k - 1 : t[i] = s[i]
      /\ \A i \in k .. Len(s) - 1 : t[i] = s[i + 1]
  BY <1>1, RemoveAtIs
<1>4. /\ q2 \in [Lists -> Seq(Nodes)]
      /\ q2[l] = t
      /\ \A m \in Lists \ {l} : q2[m] = q[m]
  BY <1>1, <1>2
<1>5. k - 1 \in 0 .. Len(s) /\ k \in 0 .. Len(s) /\ (k - 1) + 1 = k
      /\ k \in 1 .. Len(s) + 1 /\ k + 1 \in 1 .. Len(s) + 1
  BY <1>1
<1>6. \A i \in 0 .. Len(s) : /\ r.next[Spot(l, s, i)] = Spot(l, s, i + 1)
                             /\ r.prev[Spot(l, s, i + 1)] = Spot(l, s, i)
  BY SpotLinks
<1>7. /\ \A i \in 0 .. Len(s) : Spot(l, s, i) = p => i = k - 1
      /\ \A i \in 1 .. Len(s) + 1 : Spot(l, s, i) = n => i = k + 1
      /\ \A i \in 0 .. Len(s) : Spot(l, s, i) = x => i = k
      /\ \A i \in 1 .. Len(s) + 1 : Spot(l, s, i) = x => i = k
  BY <1>1, <1>5, SpotApart
<1>8. /\ r2 \in Links
      /\ r2.next[x] = Null /\ r2.prev[x] = Null
      /\ r2.next[p] = n /\ r2.prev[n] = p
      /\ \A y \in Items : y # p /\ y # x => r2.next[y] = r.next[y]
      /\ \A y \in Items : y # n /\ y # x => r2.prev[y] = r.prev[y]
  <2>1. r.next[x] = n /\ r.prev[x] = p
    BY <1>1, <1>5, <1>6
  <2>2. x # p /\ x # n
    BY <1>5, <1>7
  <2> HIDE DEF p, n, x
  <2>3. ~Unlinked(r, x)
    BY <1>1, <2>1, ItemsApart DEF Unlinked
  <2>4. r2 = [next |-> [r.next EXCEPT ![p] = n, ![x] = Null],
              prev |-> [r.prev EXCEPT ![n] = p, ![x] = Null]]
    BY <2>1, <2>3 DEF Deleted
  <2> HIDE DEF r2
  <2>5. /\ r2.next = [r.next EXCEPT ![p] = n, ![x] = Null]
        /\ r2.prev = [r.prev EXCEPT ![n] = p, ![x] = Null]
        /\ r.next \in [Items -> Items \cup {Null}]
        /\ r.prev \in [Items -> Items \cup {Null}]
    BY <1>1, <2>4 DEF Links
  <2>6. r2 \in Links
    BY <1>1, <2>4, <2>5 DEF Links
  <2> QED
    BY <1>1, <2>2, <2>5, <2>6
<1> HIDE DEF t, r2, q2, p, n, x
<1>9. ASSUME NEW i \in 0 .. Len(t)
      PROVE  r2.next[Spot(l, t, i)] = Spot(l, t, i + 1)
  <2>1. CASE i < k - 1
    <3>1. i \in 0 .. k - 1 /\ i + 1 \in 0 .. k - 1 /\ i \in 0 .. Len(s) /\ i # k - 1 /\ i # k
      BY <2>1, <1>1, <1>2
    <3>2. /\ Spot(l, t, i) = Spot(l, s, i) /\ Spot(l, t, i + 1) = Spot(l, s, i + 1)
          /\ Spot(l, s, i) # p /\ Spot(l, s, i) # x /\ Spot(l, s, i) \in Items
      BY <3>1, <1>1, <1>2, <1>7
    <3> QED
      BY <3>1, <3>2, <1>6, <1>8
  <2>2. CASE i = k - 1
    <3>1. i \in 0 .. k - 1 /\ i + 1 = k /\ k \in k .. Len(s)
      BY <2>2, <1>1
    <3>2. Spot(l, t, i) = p /\ Spot(l, t, i + 1) = n
      BY <3>1, <2>2, <1>2 DEF p, n
    <3> QED
      BY <3>2, <1>8
  <2>3. CASE i > k - 1
    <3>1. /\ i \in k .. Len(s) /\ i + 1 \in k .. Len(s) /\ i + 1 \in 0 .. Len(s)
          /\ i + 1 # k - 1 /\ i + 1 # k
      BY <2>3, <1>1, <1>2
    <3>2. /\ Spot(l, t, i) = Spot(l, s, i + 1) /\ Spot(l, t, i + 1) = Spot(l, s, (i + 1) + 1)
          /\ Spot(l, s, i + 1) # p /\ Spot(l, s, i + 1) # x /\ Spot(l, s, i + 1) \in Items
      BY <3>1, <1>1, <1>2, <1>7
    <3>3. r.next[Spot(l, s, i + 1)] = Spot(l, s, (i + 1) + 1)
      BY <3>1, <1>6
    <3> QED
      BY <3>2, <3>3, <1>8
  <2> QED
    BY <2>1, <2>2, <2>3, <1>1
<1>10. ASSUME NEW i \in 0 .. Len(t)
       PROVE  r2.prev[Spot(l, t, i + 1)] = Spot(l, t, i)
  <2>1. CASE i < k - 1
    <3>1. /\ i \in 0 .. k - 1 /\ i + 1 \in 0 .. k - 1 /\ i \in 0 .. Len(s)
          /\ i + 1 \in 1 .. Len(s) + 1 /\ i + 1 # k + 1 /\ i + 1 # k
      BY <2>1, <1>1, <1>2
    <3>2. /\ Spot(l, t, i) = Spot(l, s, i) /\ Spot(l, t, i + 1) = Spot(l, s, i + 1)
          /\ Spot(l, s, i + 1) # n /\ Spot(l, s, i + 1) # x /\ Spot(l, s, i + 1) \in Items
      BY <3>1, <1>1, <1>2, <1>7
    <3> QED
      BY <3>1, <3>2, <1>6, <1>8
  <2>2. CASE i = k - 1
    <3>1. i \in 0 .. k - 1 /\ i + 1 = k /\ k \in k .. Len(s)
      BY <2>2, <1>1
    <3>2. Spot(l, t, i) = p /\ Spot(l, t, i + 1) = n
      BY <3>1, <2>2, <1>2 DEF p, n
    <3> QED
      BY <3>2, <1>8
  <2>3. CASE i > k - 1
    <3>1. /\ i \in k .. Len(s) /\ i + 1 \in k .. Len(s) /\ i + 1 \in 0 .. Len(s)
          /\ (i + 1) + 1 \in 1 .. Len(s) + 1
          /\ (i + 1) + 1 # k + 1 /\ (i + 1) + 1 # k
      BY <2>3, <1>1, <1>2
    <3>2. /\ Spot(l, t, i) = Spot(l, s, i + 1) /\ Spot(l, t, i + 1) = Spot(l, s, (i + 1) + 1)
          /\ Spot(l, s, (i + 1) + 1) # n /\ Spot(l, s, (i + 1) + 1) # x
          /\ Spot(l, s, (i + 1) + 1) \in Items
      BY <3>1, <1>1, <1>2, <1>7
    <3>3. r.prev[Spot(l, s, (i + 1) + 1)] = Spot(l, s, i + 1)
      BY <3>1, <1>6
    <3> QED
      BY <3>2, <3>3, <1>8
  <2> QED
    BY <2>1, <2>2, <2>3, <1>1
<1>11. ASSUME NEW m \in Lists \ {l}, NEW i \in 0 .. Len(q[m])
       PROVE  /\ r2.next[Spot(m, q[m], i)] = Spot(m, q[m], i + 1)
              /\ r2.prev[Spot(m, q[m], i + 1)] = Spot(m, q[m], i)
  <2>1. Len(q[m]) \in Nat /\ i + 1 \in 1 .. Len(q[m]) + 1
        /\ \A j : Spot(m, q[m], j) \in Items
    BY Spots, SMTT(20)
  <2>2. Spot(m, q[m], i) # p
    BY <1>5, SpotApart DEF p
  <2>3. Spot(m, q[m], i + 1) # n
    BY <1>5, <2>1, SpotApart DEF n
  <2>4. Spot(m, q[m], i) # x
    BY <1>1, <1>5, SpotApart
  <2>5. Spot(m, q[m], i + 1) # x
    BY <1>1, <1>5, <2>1, SpotApart
  <2>6. /\ r.next[Spot(m, q[m], i)] = Spot(m, q[m], i + 1)
        /\ r.prev[Spot(m, q[m], i + 1)] = Spot(m, q[m], i)
    BY SpotLinks
  <2> QED
    BY <2>1, <2>2, <2>3, <2>4, <2>5, <2>6, <1>8
<1>12. \A i \in 1 .. Len(t) : \E j \in 1 .. Len(s) :
            t[i] = s[j] /\ ((i < k /\ j = i) \/ (i >= k /\ j = i + 1))
  <2> SUFFICES ASSUME NEW i \in 1 .. Len(t)
               PROVE  \E j \in 1 .. Len(s) :
                        t[i] = s[j] /\ ((i < k /\ j = i) \/ (i >= k /\ j = i + 1))
    OBVIOUS
  <2>1. CASE i < k
    <3>1. i \in 1 .. k - 1 /\ i \in 1 .. Len(s)
      BY <2>1, <1>1
    <3> QED
      BY <3>1, <2>1, <1>3
  <2>2. CASE i >= k
    <3>1. i \in k .. Len(s) - 1 /\ i + 1 \in 1 .. Len(s)
      BY <2>2, <1>1, <1>2
    <3> QED
      BY <3>1, <2>2, <1>3
  <2> QED
    BY <2>1, <2>2, <1>1
<1>13. ASSUME NEW m \in Lists, NEW o \in Lists,
              NEW i \in 1 .. Len(q2[m]), NEW j \in 1 .. Len(q2[o]), q2[m][i] = q2[o][j]
       PROVE  m = o /\ i = j
  <2>1. \A u, v \in Lists : \A a \in 1 .. Len(q[u]), b \in 1 .. Len(q[v]) :
          q[u][a] = q[v][b] => u = v /\ a = b
    BY DEF Holds
  <2>2. \A a, b \in 1 .. Len(s) : s[a] = s[b] => a = b
    BY <2>1
  <2>3. \A u \in Lists \ {l} : \A a \in 1 .. Len(s), b \in 1 .. Len(q[u]) : s[a] # q[u][b]
    BY <2>1
  <2> HIDE DEF s
  <2>4. CASE m = l /\ o = l
    <3>1. i \in 1 .. Len(t) /\ j \in 1 .. Len(t) /\ t[i] = t[j]
      BY <2>4, <1>4, <1>13
    <3>2. PICK a \in 1 .. Len(s) :
            t[i] = s[a] /\ ((i < k /\ a = i) \/ (i >= k /\ a = i + 1))
      BY <3>1, <1>12
    <3>3. PICK b \in 1 .. Len(s) :
            t[j] = s[b] /\ ((j < k /\ b = j) \/ (j >= k /\ b = j + 1))
      BY <3>1, <1>12
    <3>4. a = b
      BY <3>1, <3>2, <3>3, <2>2
    <3>5. i = j
      BY <3>1, <3>2, <3>3, <3>4
    <3> QED
      BY <3>5, <2>4
  <2>5. CASE m = l /\ o # l
    <3>1. i \in 1 .. Len(t) /\ j \in 1 .. Len(q[o]) /\ t[i] = q[o][j]
      BY <2>5, <1>4, <1>13
    <3>2. PICK a \in 1 .. Len(s) : t[i] = s[a]
      BY <3>1, <1>12
    <3> QED
      BY <3>1, <3>2, <2>3, <2>5
  <2>6. CASE m # l /\ o = l
    <3>1. j \in 1 .. Len(t) /\ i \in 1 .. Len(q[m]) /\ t[j] = q[m][i]
      BY <2>6, <1>4, <1>13
    <3>2. PICK a \in 1 .. Len(s) : t[j] = s[a]
      BY <3>1, <1>12
    <3> QED
      BY <3>1, <3>2, <2>3, <2>6
  <2>7. CASE m # l /\ o # l
    BY <2>7, <2>1, <1>4, <1>13
  <2> QED
    BY <2>4, <2>5, <2>6, <2>7
<1>14. ASSUME NEW y \in Nodes, ~On(q2, y)
       PROVE  r2.next[y] = Null /\ r2.prev[y] = Null
  <2>1. CASE y = x
    BY <2>1, <1>8
  <2>2. CASE y # x
    <3>1. ~On(q, y)
      <4> SUFFICES ASSUME NEW m \in Lists, NEW i \in 1 .. Len(q[m]), q[m][i] = y
                   PROVE  FALSE
        BY DEF On
      <4>1. CASE m # l
        BY <4>1, <1>4, <1>14 DEF On
      <4>2. CASE m = l
        <5>1. \E j \in 1 .. Len(t) : t[j] = y
          <6>1. CASE i < k
            <7>1. i \in 1 .. k - 1 /\ i \in 1 .. Len(t)
              BY <6>1, <1>1, <1>2, <4>2
            <7> QED
              BY <7>1, <1>3, <4>2
          <6>2. CASE i > k
            <7>1. i - 1 \in k .. Len(s) - 1 /\ i - 1 \in 1 .. Len(t) /\ (i - 1) + 1 = i
              BY <6>2, <1>1, <1>2, <4>2
            <7> QED
              BY <7>1, <1>3, <4>2
          <6>3. i # k
            BY <2>2, <4>2 DEF x
          <6> QED
            BY <6>1, <6>2, <6>3, <1>1, <4>2
        <5> QED
          BY <5>1, <1>4, <1>14 DEF On
      <4> QED
        BY <4>1, <4>2
    <3>2. r.next[y] = Null /\ r.prev[y] = Null
      BY <3>1 DEF Holds
    <3>3. y # p /\ y # n /\ y \in Items
      BY <3>1, SpotOff DEF p, n, Items
    <3> QED
      BY <2>2, <3>2, <3>3, <1>8
  <2> QED
    BY <2>1, <2>2
<1>15. ASSUME NEW m \in Lists, NEW i \in 0 .. Len(q2[m])
       PROVE  /\ r2.next[Spot(m, q2[m], i)] = Spot(m, q2[m], i + 1)
              /\ r2.prev[Spot(m, q2[m], i + 1)] = Spot(m, q2[m], i)
  BY <1>4, <1>9, <1>10, <1>11
<1> QED
  BY <1>4, <1>8, <1>13, <1>14, <1>15 DEF Holds, q2, t, r2, p, n, x
---------------------------------------------------------------------------
(* Splicing puts one sequence behind the other. *)
LEMMA SpotJoined ==
  ASSUME NEW l \in Lists, NEW m \in Lists, NEW u \in Seq(Nodes), NEW s \in Seq(Nodes)
  PROVE  LET t == u \o s IN
         /\ t \in Seq(Nodes) /\ Len(t) = Len(u) + Len(s)
         /\ \A i \in 1 .. Len(u) : t[i] = u[i]
         /\ \A i \in 1 .. Len(s) : t[Len(u) + i] = s[i]
         /\ \A i \in 0 .. Len(u) : Spot(l, t, i) = Spot(l, u, i)
         /\ \A i \in 1 .. Len(s) : Spot(l, t, Len(u) + i) = Spot(m, s, i)
         /\ Spot(l, t, Len(u) + Len(s) + 1) = l
<1> DEFINE t == u \o s
<1>1. /\ t \in Seq(Nodes) /\ Len(t) = Len(u) + Len(s)
      /\ Len(u) \in Nat /\ Len(s) \in Nat
      /\ \A i \in 1 .. Len(u) + Len(s) :
           t[i] = IF i <= Len(u) THEN u[i] ELSE s[i - Len(u)]
  BY ConcatProperties
<1> HIDE DEF t
<1>2. ASSUME NEW i \in 1 .. Len(u)
      PROVE  t[i] = u[i] /\ i \in 1 .. Len(t)
  BY <1>1
<1>3. ASSUME NEW i \in 1 .. Len(s)
      PROVE  t[Len(u) + i] = s[i] /\ Len(u) + i \in 1 .. Len(t)
  <2>1. Len(u) + i \in 1 .. Len(u) + Len(s) /\ ~(Len(u) + i <= Len(u))
        /\ (Len(u) + i) - Len(u) = i
    BY <1>1
  <2> QED
    BY <1>1, <2>1
<1>4. ASSUME NEW i \in 0 .. Len(u)
      PROVE  Spot(l, t, i) = Spot(l, u, i)
  <2>1. CASE i = 0
    BY <2>1 DEF Spot
  <2>2. CASE i \in 1 .. Len(u)
    BY <2>2, <1>2 DEF Spot
  <2> QED
    BY <2>1, <2>2, <1>1
<1>5. ASSUME NEW i \in 1 .. Len(s)
      PROVE  Spot(l, t, Len(u) + i) = Spot(m, s, i)
  BY <1>3 DEF Spot
<1>6. Spot(l, t, Len(u) + Len(s) + 1) = l
  <2>1. Len(u) + Len(s) + 1 \notin 1 .. Len(t)
    BY <1>1
  <2> QED
    BY <2>1 DEF Spot
<1> QED
  BY <1>1, <1>2, <1>3, <1>4, <1>5, <1>6 DEF t

(* A head that leads to itself has no nodes. *)
LEMMA EmptySequence ==
  ASSUME NEW r, NEW q, Holds(r, q), NEW l \in Lists
  PROVE  EmptyList(r, l) <=> q[l] = <<>>
<1>1. q[l] \in Seq(Nodes) /\ Len(q[l]) \in Nat /\ 0 \in 0 .. Len(q[l])
      /\ Spot(l, q[l], 0) = l
  BY Spots
<1>2. r.next[l] = Spot(l, q[l], 1)
  BY <1>1, SpotLinks
<1>3. CASE Len(q[l]) = 0
  <2>1. Spot(l, q[l], 1) = l
    BY <1>3 DEF Spot
  <2> QED
    BY <1>1, <1>2, <1>3, <2>1, EmptySeq DEF EmptyList
<1>4. CASE Len(q[l]) # 0
  <2>1. 1 \in 1 .. Len(q[l])
    BY <1>1, <1>4
  <2>2. Spot(l, q[l], 1) \in Nodes
    BY <2>1, Spots
  <2>3. q[l] # <<>>
    BY <1>4
  <2> QED
    BY <1>2, <2>2, <2>3, ItemsApart DEF EmptyList, Items
<1> QED
  BY <1>3, <1>4

LEMMA HoldsSpliced ==
  ASSUME NEW r, NEW q, Holds(r, q), NEW from \in Lists, NEW to \in Lists, from # to
  PROVE  Holds(Spliced(r, from, to),
               [q EXCEPT ![to] = @ \o q[from], ![from] = <<>>])
<1> DEFINE s == q[from]
           u == q[to]
           t == u \o s
           q2 == [q EXCEPT ![to] = @ \o q[from], ![from] = <<>>]
           c == Len(u)
           d == Len(s)
<1>1. /\ q \in [Lists -> Seq(Nodes)] /\ r \in Links
      /\ s \in Seq(Nodes) /\ d \in Nat
      /\ u \in Seq(Nodes) /\ c \in Nat
  BY Spots DEF Holds
<1>2. /\ t \in Seq(Nodes) /\ Len(t) = c + d
      /\ \A i \in 1 .. c : t[i] = u[i]
      /\ \A i \in 1 .. d : t[c + i] = s[i]
      /\ \A i \in 0 .. c : Spot(to, t, i) = Spot(to, u, i)
      /\ \A i \in 1 .. d : Spot(to, t, c + i) = Spot(from, s, i)
      /\ Spot(to, t, c + d + 1) = to
  BY <1>1, SpotJoined
<1>3. /\ q2 \in [Lists -> Seq(Nodes)]
      /\ q2[to] = t /\ q2[from] = <<>>
      /\ \A m \in Lists \ {from, to} : q2[m] = q[m]
  <2>1. q2 = [q EXCEPT ![to] = t, ![from] = <<>>]
    OBVIOUS
  <2> HIDE DEF q2, t
  <2>2. <<>> \in Seq(Nodes)
    BY EmptySeq
  <2> QED
    BY <1>1, <1>2, <2>1, <2>2
<1>4. CASE EmptyList(r, from)
  <2>1. s = <<>>
    BY <1>4, EmptySequence
  <2>2. t = u
    BY <1>1, <2>1, ConcatEmptySeq
  <2>3. q2 = q
    BY <1>1, <2>1, <2>2
  <2> QED
    BY <1>4, <2>3 DEF Spliced
<1>5. CASE ~EmptyList(r, from)
  <2> DEFINE first == Spot(from, s, 1)
             last == Spot(from, s, d)
             end == Spot(to, u, c)
             r2 == Spliced(r, from, to)
  <2>1. d > 0
    <3>1. s # <<>>
      BY <1>5, EmptySequence
    <3> QED
      BY <1>1, <3>1, EmptySeq
  <2>2. /\ 0 \in 0 .. c /\ c \in 0 .. c /\ 0 \in 0 .. d /\ d \in 0 .. d
        /\ 1 \in 1 .. d /\ d \in 1 .. d
    BY <1>1, <2>1
  <2>3. /\ Spot(from, s, 0) = from /\ Spot(from, s, d + 1) = from
        /\ Spot(to, u, 0) = to /\ Spot(to, u, c + 1) = to
        /\ from \in Items /\ to \in Items
        /\ \A i \in 1 .. d : Spot(from, s, i) \in Nodes
        /\ \A i \in 1 .. c : Spot(to, u, i) \in Nodes
        /\ \A i : Spot(from, s, i) \in Items
        /\ \A i : Spot(to, u, i) \in Items
    <3>1. Spot(from, s, 0) = from /\ Spot(from, s, d + 1) = from /\ from \in Items
      BY Spots
    <3>2. \A i \in 1 .. d : Spot(from, s, i) \in Nodes
      BY Spots
    <3>3. \A i : Spot(from, s, i) \in Items
      BY Spots
    <3>4. Spot(to, u, 0) = to /\ Spot(to, u, c + 1) = to /\ to \in Items
      BY Spots
    <3>5. \A i \in 1 .. c : Spot(to, u, i) \in Nodes
      BY Spots
    <3>6. \A i : Spot(to, u, i) \in Items
      BY Spots
    <3> QED
      BY <3>1, <3>2, <3>3, <3>4, <3>5, <3>6
  <2>4. \A i \in 0 .. d : /\ r.next[Spot(from, s, i)] = Spot(from, s, i + 1)
                          /\ r.prev[Spot(from, s, i + 1)] = Spot(from, s, i)
    BY SpotLinks
  <2>5. \A i \in 0 .. c : /\ r.next[Spot(to, u, i)] = Spot(to, u, i + 1)
                          /\ r.prev[Spot(to, u, i + 1)] = Spot(to, u, i)
    BY SpotLinks
  <2>6. /\ r.next[from] = first /\ r.prev[from] = last /\ r.prev[to] = end
    <3>1. r.next[Spot(from, s, 0)] = Spot(from, s, 0 + 1)
          /\ r.prev[Spot(from, s, d + 1)] = Spot(from, s, d)
      BY <2>2, <2>4
    <3>2. r.prev[Spot(to, u, c + 1)] = Spot(to, u, c)
      BY <2>2, <2>5
    <3> QED
      BY <2>3, <3>1, <3>2
  <2>7. /\ \A i \in 0 .. d : Spot(from, s, i) = last => i = d
        /\ \A i \in 1 .. d + 1 : Spot(from, s, i) = first => i = 1
        /\ \A i \in 0 .. c : Spot(to, u, i) = end => i = c
        /\ \A i \in 0 .. d : Spot(from, s, i) # end
        /\ \A i \in 0 .. c : Spot(to, u, i) # last
    <3>1. 1 \in 1 .. d + 1
      BY <1>1
    <3>2. \A i \in 0 .. d : Spot(from, s, i) = last => i = d
      BY <2>2, SpotApart
    <3>3. \A i \in 1 .. d + 1 : Spot(from, s, i) = first => i = 1
      BY <3>1, SpotApart
    <3>4. \A i \in 0 .. c : Spot(to, u, i) = end => i = c
      BY <2>2, SpotApart
    <3>5. \A i \in 0 .. d : Spot(from, s, i) # end
      BY <2>2, SpotApart
    <3>6. \A i \in 0 .. c : Spot(to, u, i) # last
      BY <2>2, SpotApart
    <3> QED
      BY <3>2, <3>3, <3>4, <3>5, <3>6
  <2>8. \A i \in 1 .. c : Spot(to, u, i) # first
    <3>1. \A i \in 1 .. c : i \in 1 .. c + 1
      BY <1>1
    <3>2. 1 \in 1 .. d + 1
      BY <1>1
    <3> QED
      BY <3>1, <3>2, SpotApart
  <2>9. first \in Nodes /\ last \in Nodes /\ end \in Items /\ from \notin Nodes /\ to \notin Nodes
    BY <2>2, <2>3, ItemsApart
  <2> HIDE DEF first, last, end
  <2>10. /\ r2 \in Links
         /\ r2.next[end] = first /\ r2.next[last] = to /\ r2.next[from] = from
         /\ r2.prev[first] = end /\ r2.prev[to] = last /\ r2.prev[from] = from
         /\ \A y \in Items : y \notin {end, last, from} => r2.next[y] = r.next[y]
         /\ \A y \in Items : y \notin {first, to, from} => r2.prev[y] = r.prev[y]
    <3>1. r2 = [next |-> [r.next EXCEPT ![end] = first, ![last] = to, ![from] = from],
                prev |-> [r.prev EXCEPT ![first] = end, ![to] = last, ![from] = from]]
      BY <1>5, <2>6 DEF Spliced
    <3> HIDE DEF r2
    <3>2. /\ r2.next = [r.next EXCEPT ![end] = first, ![last] = to, ![from] = from]
          /\ r2.prev = [r.prev EXCEPT ![first] = end, ![to] = last, ![from] = from]
          /\ r.next \in [Items -> Items \cup {Null}]
          /\ r.prev \in [Items -> Items \cup {Null}]
      BY <1>1, <3>1 DEF Links
    <3>3. first \in Items /\ last \in Items
      BY <2>9 DEF Items
    <3>4. r2 \in Links
      BY <2>3, <2>9, <3>1, <3>2, <3>3 DEF Links
    <3>5. end # last /\ end # from /\ last # from /\ first # to /\ first # from
      <4>1. end # last
        BY <2>2, <2>7 DEF last
      <4>2. end # from
        BY <2>2, <2>3, <2>7
      <4> QED
        BY <4>1, <4>2, <2>9
    <3> QED
      BY <2>3, <2>9, <3>2, <3>3, <3>4, <3>5
  <2> HIDE DEF r2, t, s, u, q2
  <2>11. ASSUME NEW i \in 0 .. Len(t)
         PROVE  /\ r2.next[Spot(to, t, i)] = Spot(to, t, i + 1)
                /\ r2.prev[Spot(to, t, i + 1)] = Spot(to, t, i)
    <3>1. CASE i < c
      <4>1. i \in 0 .. c /\ i + 1 \in 1 .. c /\ i + 1 \in 0 .. c /\ i # c
        BY <3>1, <1>1
      <4>2. /\ Spot(to, t, i) = Spot(to, u, i) /\ Spot(to, t, i + 1) = Spot(to, u, i + 1)
        BY <4>1, <1>2
      <4>3. Spot(to, u, i) \in Items /\ Spot(to, u, i) \notin {end, last, from}
        <5>1. Spot(to, u, i) # from
          <6>1. CASE i = 0
            BY <6>1, <2>3
          <6>2. CASE i # 0
            <7>1. i \in 1 .. c
              BY <6>2, <4>1
            <7> QED
              BY <7>1, <2>3, <2>9
          <6> QED
            BY <6>1, <6>2
        <5> QED
          BY <5>1, <4>1, <2>3, <2>7
      <4>4. Spot(to, u, i + 1) \in Items /\ Spot(to, u, i + 1) \notin {first, to, from}
        BY <4>1, <2>3, <2>8, <2>9
      <4> QED
        BY <4>1, <4>2, <4>3, <4>4, <2>5, <2>10
    <3>2. CASE i = c
      <4>1. c \in 0 .. c /\ 1 \in 1 .. d
        BY <2>2
      <4>2. Spot(to, t, i) = end /\ Spot(to, t, i + 1) = first
        BY <4>1, <3>2, <1>2 DEF end, first
      <4> QED
        BY <4>2, <2>10
    <3>3. CASE i > c /\ i < c + d
      <4> DEFINE j == i - c
      <4>1. /\ j \in 1 .. d /\ c + j = i /\ j + 1 \in 1 .. d /\ c + (j + 1) = i + 1
            /\ j \in 0 .. d /\ j # d /\ j + 1 \in 1 .. d + 1 /\ j + 1 # 1
        BY <3>3, <1>1
      <4> HIDE DEF j
      <4>2. /\ Spot(to, t, i) = Spot(from, s, j) /\ Spot(to, t, i + 1) = Spot(from, s, j + 1)
        BY <4>1, <1>2
      <4>3. Spot(from, s, j) \in Items /\ Spot(from, s, j) \notin {end, last, from}
        BY <4>1, <2>3, <2>7, <2>9
      <4>4. Spot(from, s, j + 1) \in Items /\ Spot(from, s, j + 1) \notin {first, to, from}
        BY <4>1, <2>3, <2>7, <2>9
      <4> QED
        BY <4>1, <4>2, <4>3, <4>4, <2>4, <2>10
    <3>4. CASE i = c + d
      <4>1. Spot(to, t, i) = last
        BY <3>4, <2>2, <1>2 DEF last
      <4>2. Spot(to, t, i + 1) = to
        BY <3>4, <1>2
      <4> QED
        BY <4>1, <4>2, <2>10
    <3>5. i < c \/ i = c \/ (i > c /\ i < c + d) \/ i = c + d
      <4>1. c \in Nat
        BY <1>1
      <4>2. d \in Nat
        BY <1>1
      <4>3. i \in 0 .. c + d
        BY <1>2
      <4> HIDE DEF c, d
      <4> QED
        BY <4>1, <4>2, <4>3
    <3> QED
      BY <3>1, <3>2, <3>3, <3>4, <3>5
  <2>12. ASSUME NEW m \in Lists \ {from, to}, NEW i \in 0 .. Len(q[m])
         PROVE  /\ r2.next[Spot(m, q[m], i)] = Spot(m, q[m], i + 1)
                /\ r2.prev[Spot(m, q[m], i + 1)] = Spot(m, q[m], i)
    <3>1. Len(q[m]) \in Nat
      BY Spots
    <3>2. \A j : Spot(m, q[m], j) \in Items
      BY Spots
    <3>3. Len(q[m]) \in Nat /\ i + 1 \in 1 .. Len(q[m]) + 1
          /\ \A j : Spot(m, q[m], j) \in Items
      BY <3>1, <3>2
    <3>4. Spot(m, q[m], i) # end
      BY <2>2, SpotApart DEF end, u
    <3>5. Spot(m, q[m], i) # last
      BY <2>2, SpotApart DEF last, s
    <3>6. Spot(m, q[m], i) # from
      <4>1. Spot(m, q[m], i) # Spot(from, s, 0)
        BY <2>2, SpotApart DEF s
      <4> QED
        BY <4>1, <2>3
    <3>7. Spot(m, q[m], i + 1) # first
      <4>1. 1 \in 1 .. d + 1
        BY <1>1
      <4> QED
        BY <4>1, <3>3, SpotApart DEF first, s
    <3>8. Spot(m, q[m], i + 1) # to
      <4>1. c + 1 \in 1 .. c + 1
        BY <1>1
      <4>2. Spot(m, q[m], i + 1) # Spot(to, u, c + 1)
        BY <4>1, <3>3, SpotApart DEF u
      <4> QED
        BY <4>2, <2>3
    <3>9. Spot(m, q[m], i + 1) # from
      <4>1. d + 1 \in 1 .. d + 1
        BY <1>1
      <4>2. Spot(m, q[m], i + 1) # Spot(from, s, d + 1)
        BY <4>1, <3>3, SpotApart DEF s
      <4> QED
        BY <4>2, <2>3
    <3>10. /\ r.next[Spot(m, q[m], i)] = Spot(m, q[m], i + 1)
           /\ r.prev[Spot(m, q[m], i + 1)] = Spot(m, q[m], i)
      BY SpotLinks
    <3> QED
      BY <3>3, <3>4, <3>5, <3>6, <3>7, <3>8, <3>9, <3>10, <2>10
  <2>13. ASSUME NEW m \in Lists, NEW i \in 0 .. Len(q2[m])
         PROVE  /\ r2.next[Spot(m, q2[m], i)] = Spot(m, q2[m], i + 1)
                /\ r2.prev[Spot(m, q2[m], i + 1)] = Spot(m, q2[m], i)
    <3>1. CASE m = from
      <4>1. q2[m] = <<>> /\ i = 0 /\ \A j : Spot(m, <<>>, j) = from
        BY <3>1, <1>3 DEF Spot
      <4> QED
        BY <4>1, <2>10
    <3>2. CASE m # from
      BY <3>2, <1>3, <2>11, <2>12
    <3> QED
      BY <3>1, <3>2
  <2>14. \A i \in 1 .. Len(t) :
           \/ i \in 1 .. c /\ t[i] = q[to][i]
           \/ i - c \in 1 .. d /\ t[i] = q[from][i - c]
    <3> SUFFICES ASSUME NEW i \in 1 .. Len(t), i \notin 1 .. c
                 PROVE  i - c \in 1 .. d /\ t[i] = q[from][i - c]
      BY <1>2 DEF u
    <3>1. i - c \in 1 .. d /\ c + (i - c) = i
      BY <1>1, <1>2
    <3> QED
      BY <3>1, <1>2 DEF s
  <2>15. \A m \in Lists : \A i \in 1 .. Len(q2[m]) : \E o \in Lists : \E j \in 1 .. Len(q[o]) :
           /\ q2[m][i] = q[o][j]
           /\ \/ m = o /\ i = j /\ m # from
              \/ m = to /\ o = from /\ i = c + j
    <3> SUFFICES ASSUME NEW m \in Lists, NEW i \in 1 .. Len(q2[m])
                 PROVE  \E o \in Lists : \E j \in 1 .. Len(q[o]) :
                          /\ q2[m][i] = q[o][j]
                          /\ \/ m = o /\ i = j /\ m # from
                             \/ m = to /\ o = from /\ i = c + j
      OBVIOUS
    <3>1. m # from
      BY <1>3
    <3>2. CASE m = to
      <4>1. i \in 1 .. Len(t) /\ q2[m][i] = t[i]
        BY <3>2, <1>3
      <4>2. CASE i \in 1 .. c /\ t[i] = q[to][i]
        BY <4>1, <4>2, <3>1, <3>2 DEF u
      <4>3. CASE i - c \in 1 .. d /\ t[i] = q[from][i - c]
        <5>1. i = c + (i - c)
          BY <1>1
        <5> QED
          BY <4>1, <4>3, <5>1, <3>2 DEF s
      <4> QED
        BY <4>1, <4>2, <4>3, <2>14
    <3>3. CASE m # to
      BY <3>1, <3>3, <1>3
    <3> QED
      BY <3>2, <3>3
  <2>16. ASSUME NEW m \in Lists, NEW o \in Lists,
                NEW i \in 1 .. Len(q2[m]), NEW j \in 1 .. Len(q2[o]), q2[m][i] = q2[o][j]
         PROVE  m = o /\ i = j
    <3>1. \A k, v \in Lists : \A a \in 1 .. Len(q[k]), b \in 1 .. Len(q[v]) :
            q[k][a] = q[v][b] => k = v /\ a = b
      BY DEF Holds
    <3>2. PICK v \in Lists : \E a \in 1 .. Len(q[v]) :
           /\ q2[m][i] = q[v][a]
           /\ \/ m = v /\ i = a /\ m # from
              \/ m = to /\ v = from /\ i = c + a
      BY <2>15
    <3>3. PICK a \in 1 .. Len(q[v]) :
            /\ q2[m][i] = q[v][a]
            /\ \/ m = v /\ i = a /\ m # from
               \/ m = to /\ v = from /\ i = c + a
      BY <3>2
    <3>4. PICK w \in Lists : \E b \in 1 .. Len(q[w]) :
           /\ q2[o][j] = q[w][b]
           /\ \/ o = w /\ j = b /\ o # from
              \/ o = to /\ w = from /\ j = c + b
      BY <2>15
    <3>5. PICK b \in 1 .. Len(q[w]) :
            /\ q2[o][j] = q[w][b]
            /\ \/ o = w /\ j = b /\ o # from
               \/ o = to /\ w = from /\ j = c + b
      BY <3>4
    <3>6. q[v][a] = q[w][b]
      BY <3>3, <3>5, <2>16
    <3>7. v = w /\ a = b
      BY <3>1, <3>6
    <3> QED
      BY <3>3, <3>5, <3>7
  <2>17. ASSUME NEW y \in Nodes, ~On(q2, y)
         PROVE  r2.next[y] = Null /\ r2.prev[y] = Null
    <3>1. ~On(q, y)
      <4> SUFFICES ASSUME NEW m \in Lists, NEW i \in 1 .. Len(q[m]), q[m][i] = y
                   PROVE  On(q2, y)
        BY <2>17 DEF On
      <4>1. CASE m = from
        <5>1. c + i \in 1 .. Len(t) /\ t[c + i] = y
          BY <4>1, <1>1, <1>2 DEF s
        <5> QED
          BY <5>1, <1>3 DEF On
      <4>2. CASE m = to
        <5>1. i \in 1 .. Len(t) /\ t[i] = y
          BY <4>2, <1>1, <1>2 DEF u
        <5> QED
          BY <5>1, <1>3 DEF On
      <4>3. CASE m # from /\ m # to
        BY <4>3, <1>3 DEF On
      <4> QED
        BY <4>1, <4>2, <4>3
    <3>2. r.next[y] = Null /\ r.prev[y] = Null
      BY <3>1 DEF Holds
    <3>3. \A l \in Lists : \A i : Spot(l, q[l], i) # y
      BY <3>1, SpotOff
    <3>4. y # end /\ y # last /\ y # first /\ y \in Items
      BY <3>3 DEF end, last, first, Items, u, s
    <3> QED
      BY <3>2, <3>4, <2>9, <2>10
  <2> QED
    BY <1>3, <2>10, <2>13, <2>16, <2>17 DEF Holds, q2, r2
<1> QED
  BY <1>4, <1>5

(* Every set of numbers that is not empty has a least one. *)
LEMMA Least ==
  ASSUME NEW T, T \subseteq Nat, T # {}
  PROVE  \E x \in T : \A y \in T : x <= y
<1>1. PICK m \in T : \A k \in T : <<k, m>> \notin OpToRel(<, Nat)
  BY WFMin, NatLessThanWellFounded, Zenon
<1>2. \A k \in T : ~ (k < m)
  BY <1>1, Zenon DEF OpToRel
<1>3. m \in Nat /\ \A k \in T : k \in Nat
  OBVIOUS
<1>4. \A k \in T : m <= k
  BY <1>2, <1>3
<1> QED
  BY <1>4
(* A set of numbers that has 0 and the successor of each has them all. *)
LEMMA Induction ==
  ASSUME NEW P, 0 \in P, \A i \in Nat : i \in P => i + 1 \in P
  PROVE  \A i \in Nat : i \in P
<1> SUFFICES ASSUME NEW k \in Nat, k \notin P PROVE FALSE
  OBVIOUS
<1> DEFINE T == Nat \ P
<1>1. T \subseteq Nat /\ T # {}
  OBVIOUS
<1> HIDE DEF T
<1>2. PICK m \in T : \A j \in T : m <= j
  BY <1>1, Least
<1>3. m \in Nat /\ m \notin P /\ m # 0
  BY <1>2 DEF T
<1>4. m - 1 \in Nat /\ (m - 1) + 1 = m /\ ~(m <= m - 1)
  BY <1>3
<1>5. m - 1 \in P
  BY <1>2, <1>4 DEF T
<1> QED
  BY <1>3, <1>4, <1>5

(* A function that goes on from each number to the next exists. *)
Goes(h, n, V, first, f) ==
  /\ h \in [0 .. n -> V]
  /\ h[0] = first
  /\ \A i \in 1 .. n : h[i] = f[<<i, h[i - 1]>>]

LEMMA Recurrence ==
  ASSUME NEW n \in Nat, NEW V, NEW first \in V, NEW f \in [(1 .. n) \X V -> V]
  PROVE  \E h : Goes(h, n, V, first, f)
<1> DEFINE Up(m) == \E h \in [0 .. m -> V] :
                      /\ h[0] = first
                      /\ \A i \in 1 .. m : h[i] = f[<<i, h[i - 1]>>]
           P == {m \in Nat : m <= n => Up(m)}
<1>1. 0 \in P
  <2> DEFINE h == [i \in 0 .. 0 |-> first]
  <2>1. h \in [0 .. 0 -> V] /\ h[0] = first
    OBVIOUS
  <2>2. \A i \in 1 .. 0 : FALSE
    OBVIOUS
  <2> HIDE DEF h
  <2> QED
    BY <2>1, <2>2
<1>2. ASSUME NEW m \in Nat, m \in P
      PROVE  m + 1 \in P
  <2> SUFFICES ASSUME m + 1 <= n PROVE Up(m + 1)
    OBVIOUS
  <2>1. PICK h \in [0 .. m -> V] :
          h[0] = first /\ \A i \in 1 .. m : h[i] = f[<<i, h[i - 1]>>]
    BY <1>2
  <2> DEFINE v == f[<<m + 1, h[m]>>]
             g == [i \in 0 .. m + 1 |-> IF i = m + 1 THEN v ELSE h[i]]
  <2>2. v \in V
    <3>1. m + 1 \in 1 .. n /\ h[m] \in V
      BY <2>1
    <3> QED
      BY <3>1
  <2> HIDE DEF v
  <2>3. \A i \in 0 .. m : g[i] = h[i] /\ h[i] \in V
    BY <2>1
  <2>4. g \in [0 .. m + 1 -> V] /\ g[0] = first /\ g[m + 1] = v
    <3>1. \A i \in 0 .. m + 1 : i = m + 1 \/ i \in 0 .. m
      OBVIOUS
    <3> QED
      BY <2>1, <2>2, <2>3, <3>1
  <2> HIDE DEF g
  <2>5. ASSUME NEW i \in 1 .. m + 1
        PROVE  g[i] = f[<<i, g[i - 1]>>]
    <3>1. CASE i = m + 1
      <4>1. i - 1 = m /\ m \in 0 .. m
        BY <3>1
      <4>2. g[i - 1] = h[m]
        BY <4>1, <2>3
      <4> QED
        BY <3>1, <4>2, <2>4 DEF v
    <3>2. CASE i \in 1 .. m
      <4>1. i - 1 \in 0 .. m /\ i \in 0 .. m
        BY <3>2
      <4> QED
        BY <4>1, <3>2, <2>1, <2>3
    <3> QED
      BY <3>1, <3>2
  <2> QED
    BY <2>4, <2>5
<1> HIDE DEF P
<1>3. n \in P
  BY <1>1, <1>2, Induction
<1>4. Up(n)
  BY <1>3 DEF P
<1> QED
  BY <1>4 DEF Goes
---------------------------------------------------------------------------
(* What a loop that follows the links from each item meets, in up to so    *)
(* many turns.                                                             *)
IsRun(f, link) ==
  f = [left \in 0 .. Cardinality(Nodes) |->
         [x \in Items \cup {Null} |->
            IF x \notin Nodes \/ left = 0 THEN <<>>
            ELSE <<x>> \o f[left - 1][link[x]]]]

LEMMA RunExists ==
  ASSUME NEW link \in [Items -> Items \cup {Null}]
  PROVE  \E f : IsRun(f, link)
<1> DEFINE All == Items \cup {Null}
           N == Cardinality(Nodes)
           V == [All -> Seq(Nodes)]
           first == [x \in All |-> <<>>]
           more(g) == [x \in All |-> IF x \notin Nodes THEN <<>> ELSE <<x>> \o g[link[x]]]
           step == [p \in (1 .. N) \X V |-> more(p[2])]
<1>1. N \in Nat
  BY FiniteAssumption, FS_CardinalityType
<1>2. <<>> \in Seq(Nodes)
  BY EmptySeq
<1>3. first \in V
  BY <1>2
<1>4. ASSUME NEW g \in V
      PROVE  more(g) \in V
  <2>1. ASSUME NEW x \in Nodes
        PROVE  <<x>> \o g[link[x]] \in Seq(Nodes)
    <3>1. g[link[x]] \in Seq(Nodes) /\ <<x>> \in Seq(Nodes)
      BY DEF Items
    <3> QED
      BY <3>1, ConcatProperties
  <2> QED
    BY <1>2, <2>1
<1> HIDE DEF N, V, first, more
<1>5. step \in [(1 .. N) \X V -> V]
  BY <1>4
<1>6. PICK h : Goes(h, N, V, first, step)
  <2> HIDE DEF step
  <2> QED
    BY <1>1, <1>3, <1>5, Recurrence
<1>7. /\ h \in [0 .. N -> V] /\ h[0] = first
      /\ \A i \in 1 .. N : h[i] = more(h[i - 1])
  <2>1. h \in [0 .. N -> V] /\ h[0] = first
    BY <1>6 DEF Goes
  <2>2. ASSUME NEW i \in 1 .. N
        PROVE  h[i] = more(h[i - 1])
    <3>1. i - 1 \in 0 .. N
      BY <1>1
    <3>2. <<i, h[i - 1]>> \in (1 .. N) \X V
      BY <2>1, <3>1
    <3>3. h[i] = step[<<i, h[i - 1]>>]
      BY <1>6 DEF Goes
    <3> QED
      BY <3>2, <3>3
  <2> QED
    BY <2>1, <2>2
<1>8. ASSUME NEW left \in 0 .. N
      PROVE  h[left] = [x \in All |-> IF x \notin Nodes \/ left = 0 THEN <<>>
                                      ELSE <<x>> \o h[left - 1][link[x]]]
  <2>1. CASE left = 0
    BY <2>1, <1>7 DEF first
  <2>2. CASE left # 0
    <3>1. left \in 1 .. N
      BY <2>2, <1>1
    <3> QED
      BY <2>2, <3>1, <1>7 DEF more
  <2> QED
    BY <2>1, <2>2
<1>9. h = [left \in 0 .. N |-> [x \in All |-> IF x \notin Nodes \/ left = 0 THEN <<>>
                                              ELSE <<x>> \o h[left - 1][link[x]]]]
  BY <1>7, <1>8
<1> QED
  BY <1>9 DEF IsRun, N

LEMMA FollowRuns ==
  ASSUME NEW link \in [Items -> Items \cup {Null}], NEW l
  PROVE  \E f : IsRun(f, link) /\ Follow(link, l) = f[Cardinality(Nodes)][link[l]]
<1> DEFINE f == CHOOSE g : IsRun(g, link)
<1>1. IsRun(f, link)
  BY RunExists
<1>2. Follow(link, l) = f[Cardinality(Nodes)][link[l]]
  BY DEF Follow, IsRun
<1> QED
  BY <1>1, <1>2

LEMMA RunIs ==
  ASSUME NEW link, NEW f, IsRun(f, link),
         NEW left \in 0 .. Cardinality(Nodes), NEW x \in Items \cup {Null}
  PROVE  f[left][x] = IF x \notin Nodes \/ left = 0 THEN <<>>
                      ELSE <<x>> \o f[left - 1][link[x]]
<1> DEFINE g == [k \in 0 .. Cardinality(Nodes) |->
                  [y \in Items \cup {Null} |->
                     IF y \notin Nodes \/ k = 0 THEN <<>>
                     ELSE <<y>> \o f[k - 1][link[y]]]]
<1>1. f = g
  BY DEF IsRun
<1>2. g[left][x] = IF x \notin Nodes \/ left = 0 THEN <<>>
                   ELSE <<x>> \o f[left - 1][link[x]]
  OBVIOUS
<1> HIDE DEF g
<1> QED
  BY <1>1, <1>2

(* A loop along links that lead through the spots of s meets s. *)
LEMMA FollowIs ==
  ASSUME NEW link \in [Items -> Items \cup {Null}], NEW l \in Lists, NEW s \in Seq(Nodes),
         Len(s) <= Cardinality(Nodes),
         \A i \in 0 .. Len(s) : link[Spot(l, s, i)] = Spot(l, s, i + 1)
  PROVE  Follow(link, l) = s
<1> DEFINE N == Cardinality(Nodes)
           n == Len(s)
<1>1. PICK f : IsRun(f, link) /\ Follow(link, l) = f[N][link[l]]
  BY FollowRuns
<1>2. N \in Nat /\ n \in Nat /\ n <= N
  BY FiniteAssumption, FS_CardinalityType
<1>3. \A left \in 0 .. N : \A x \in Items \cup {Null} :
        f[left][x] = IF x \notin Nodes \/ left = 0 THEN <<>>
                     ELSE <<x>> \o f[left - 1][link[x]]
  BY <1>1, RunIs, ZenonT(30)
<1>4. /\ \A i \in 1 .. n : Spot(l, s, i) = s[i] /\ s[i] \in Nodes
      /\ Spot(l, s, 0) = l /\ Spot(l, s, n + 1) = l /\ l \notin Nodes /\ l \in Items
  BY <1>2, ItemsApart DEF Spot, Items
<1> DEFINE P == {left \in Nat : left <= N => \A i \in 1 .. n + 1 :
                   (n - i) + 1 <= left => f[left][Spot(l, s, i)] = SubSeq(s, i, n)}
<1>5. f[0][l] = <<>> /\ \A left \in 0 .. N : f[left][l] = <<>>
  <2>1. \A left \in 0 .. N : f[left][l] = <<>>
    BY <1>3, <1>4
  <2> QED
    BY <1>2, <2>1
<1>6. SubSeq(s, n + 1, n) = <<>>
  BY <1>2, SubSeqEmpty
<1>7. 0 \in P
  <2> SUFFICES ASSUME NEW i \in 1 .. n + 1, (n - i) + 1 <= 0
               PROVE  f[0][Spot(l, s, i)] = SubSeq(s, i, n)
    OBVIOUS
  <2>1. i = n + 1
    BY <1>2
  <2> QED
    BY <2>1, <1>4, <1>5, <1>6
<1>8. ASSUME NEW left \in Nat, left \in P
      PROVE  left + 1 \in P
  <2> SUFFICES ASSUME left + 1 <= N, NEW i \in 1 .. n + 1, (n - i) + 1 <= left + 1
               PROVE  f[left + 1][Spot(l, s, i)] = SubSeq(s, i, n)
    OBVIOUS
  <2>1. CASE i = n + 1
    <3>1. left + 1 \in 0 .. N /\ Spot(l, s, i) = l
      BY <2>1, <1>2, <1>4
    <3> QED
      BY <2>1, <3>1, <1>5, <1>6
  <2>2. CASE i \in 1 .. n
    <3>1. /\ left + 1 \in 0 .. N /\ left <= N /\ (left + 1) - 1 = left /\ left + 1 # 0
          /\ i + 1 \in 1 .. n + 1 /\ (n - (i + 1)) + 1 <= left /\ i \in 0 .. n
      BY <2>2, <1>2
    <3>2. f[left][Spot(l, s, i + 1)] = SubSeq(s, i + 1, n)
      BY <3>1, <1>8
    <3>3. Spot(l, s, i) = s[i] /\ s[i] \in Nodes /\ s[i] \in Items \cup {Null}
      BY <2>2, <1>4 DEF Items
    <3>4. f[left + 1][s[i]] = <<s[i]>> \o f[left][link[s[i]]]
      BY <3>1, <3>3, <1>3
    <3>5. link[s[i]] = Spot(l, s, i + 1)
      BY <3>1, <3>3
    <3>6. SubSeq(s, i, n) = <<s[i]>> \o SubSeq(s, i + 1, n)
      <4>1. n \in i .. n
        BY <2>2, <1>2
      <4> QED
        BY <2>2, <4>1, SubSeqRecursiveFirst
    <3> QED
      BY <3>2, <3>3, <3>4, <3>5, <3>6
  <2>3. i = n + 1 \/ i \in 1 .. n
    BY <1>2
  <2> QED
    BY <2>1, <2>2, <2>3
<1> HIDE DEF P
<1>9. N \in P
  BY <1>2, <1>7, <1>8, Induction
<1>10. f[N][Spot(l, s, 1)] = SubSeq(s, 1, n)
  <2>1. 1 \in 1 .. n + 1 /\ (n - 1) + 1 <= N
    BY <1>2
  <2> QED
    BY <1>9, <2>1 DEF P
<1>11. link[l] = Spot(l, s, 1)
  <2>1. 0 \in 0 .. n /\ 0 + 1 = 1
    BY <1>2
  <2> QED
    BY <2>1, <1>4
<1> QED
  BY <1>1, <1>10, <1>11, SubSeqFull
---------------------------------------------------------------------------
(* A list is followed to its sequence, and backwards to its reverse.       *)
LEMMA ReverseIs ==
  ASSUME NEW s \in Seq(Nodes), NEW l
  PROVE  /\ Reverse(s) \in Seq(Nodes) /\ Len(Reverse(s)) = Len(s)
         /\ \A i \in 1 .. Len(s) : Reverse(s)[i] = s[(Len(s) - i) + 1]
         /\ \A i \in 0 .. Len(s) + 1 :
              Spot(l, Reverse(s), i) = Spot(l, s, (Len(s) + 1) - i)
<1> DEFINE t == Reverse(s)
<1>1. Len(s) \in Nat /\ \A i \in 1 .. Len(s) : s[i] \in Nodes
  BY LenProperties
<1>2. t = [i \in 1 .. Len(s) |-> s[(Len(s) - i) + 1]]
  BY DEF Reverse
<1> HIDE DEF t
<1>3. /\ \A i \in 1 .. Len(s) : t[i] = s[(Len(s) - i) + 1]
      /\ t \in [1 .. Len(s) -> Nodes]
  <2>1. \A i \in 1 .. Len(s) : (Len(s) - i) + 1 \in 1 .. Len(s)
    BY <1>1
  <2> QED
    BY <1>1, <1>2, <2>1
<1>4. t \in Seq(Nodes) /\ Len(t) = Len(s)
  BY <1>1, <1>3, IsASeq, LenProperties
<1>5. ASSUME NEW i \in 0 .. Len(s) + 1
      PROVE  Spot(l, t, i) = Spot(l, s, (Len(s) + 1) - i)
  <2>1. CASE i \in 1 .. Len(s)
    <3>1. (Len(s) + 1) - i \in 1 .. Len(s) /\ (Len(s) + 1) - i = (Len(s) - i) + 1
      BY <2>1, <1>1
    <3> QED
      BY <2>1, <3>1, <1>3, <1>4 DEF Spot
  <2>2. CASE i \notin 1 .. Len(s)
    <3>1. (Len(s) + 1) - i \notin 1 .. Len(s)
      BY <2>2, <1>1
    <3> QED
      BY <2>2, <3>1, <1>4 DEF Spot
  <2> QED
    BY <2>1, <2>2
<1> QED
  BY <1>3, <1>4, <1>5 DEF t

(* There are no more nodes on a list than there are. *)
LEMMA NotTooLong ==
  ASSUME NEW s \in Seq(Nodes), Distinct(s)
  PROVE  Len(s) <= Cardinality(Nodes)
<1>1. Len(s) \in Nat /\ s \in [1 .. Len(s) -> Nodes]
  BY LenProperties
<1>2. s \in Injection(1 .. Len(s), Nodes)
  BY <1>1 DEF Distinct, Injection, IsInjective
<1>3. Cardinality(1 .. Len(s)) <= Cardinality(Nodes)
  BY <1>2, FiniteAssumption, FS_Injection
<1>4. Cardinality(1 .. Len(s)) = Len(s)
  BY <1>1, FS_Interval, SMTT(20)
<1> QED
  BY <1>3, <1>4

LEMMA HeldApart ==
  ASSUME NEW r, NEW q, Holds(r, q), NEW l \in Lists
  PROVE  Distinct(q[l])
  BY DEF Holds, Distinct

(* What a loop in that direction meets. *)
LEMMA LoopMeets ==
  ASSUME NEW r, NEW q, Holds(r, q), NEW l \in Lists, NEW dir \in {"next", "prev"}
  PROVE  /\ Toward(q, l, dir) \in Seq(Nodes)
         /\ Len(Toward(q, l, dir)) = Len(q[l])
         /\ r[dir] \in [Items -> Items \cup {Null}]
         /\ \A i \in 0 .. Len(q[l]) :
              r[dir][Spot(l, Toward(q, l, dir), i)] = Spot(l, Toward(q, l, dir), i + 1)
         /\ Follow(r[dir], l) = Toward(q, l, dir)
<1> DEFINE s == q[l]
           t == Toward(q, l, dir)
<1>1. s \in Seq(Nodes) /\ Len(s) \in Nat
  BY Spots
<1>2. /\ Reverse(s) \in Seq(Nodes) /\ Len(Reverse(s)) = Len(s)
      /\ \A i \in 0 .. Len(s) + 1 :
           Spot(l, Reverse(s), i) = Spot(l, s, (Len(s) + 1) - i)
  BY <1>1, ReverseIs
<1>3. t \in Seq(Nodes) /\ Len(t) = Len(s)
  BY <1>1, <1>2 DEF Toward
<1>4. /\ \A i \in 0 .. Len(s) : r.next[Spot(l, s, i)] = Spot(l, s, i + 1)
      /\ \A i \in 0 .. Len(s) : r.prev[Spot(l, s, i + 1)] = Spot(l, s, i)
  BY SpotLinks
<1>5. r[dir] \in [Items -> Items \cup {Null}]
  BY DEF Holds, Links
<1>6. ASSUME NEW i \in 0 .. Len(s)
      PROVE  r[dir][Spot(l, t, i)] = Spot(l, t, i + 1)
  <2>1. CASE dir = "next"
    BY <2>1, <1>4 DEF Toward
  <2>2. CASE dir = "prev"
    <3>1. t = Reverse(s)
      BY <2>2 DEF Toward
    <3>2. /\ i \in 0 .. Len(s) + 1 /\ i + 1 \in 0 .. Len(s) + 1
          /\ Len(s) - i \in 0 .. Len(s) /\ (Len(s) + 1) - i = (Len(s) - i) + 1
          /\ (Len(s) + 1) - (i + 1) = Len(s) - i
      BY <1>1
    <3>3. /\ Spot(l, Reverse(s), i) = Spot(l, s, (Len(s) - i) + 1)
          /\ Spot(l, Reverse(s), i + 1) = Spot(l, s, Len(s) - i)
      BY <3>2, <1>2
    <3>4. r.prev[Spot(l, s, (Len(s) - i) + 1)] = Spot(l, s, Len(s) - i)
      BY <3>2, <1>4
    <3> QED
      BY <2>2, <3>1, <3>3, <3>4
  <2> QED
    BY <2>1, <2>2
<1>7. Len(t) <= Cardinality(Nodes)
  BY <1>1, <1>3, HeldApart, NotTooLong
<1>8. Follow(r[dir], l) = t
  <2> HIDE DEF t, s
  <2> QED
    BY <1>3, <1>5, <1>6, <1>7, FollowIs
<1> QED
  BY <1>3, <1>5, <1>6, <1>8

(* So the sequences are the chains. *)
LEMMA Chains ==
  ASSUME NEW r, NEW q, Holds(r, q)
  PROVE  /\ \A l \in Lists : Chain(r, l) = q[l]
         /\ q = [l \in Lists |-> Chain(r, l)]
<1>1. ASSUME NEW l \in Lists
      PROVE  Chain(r, l) = q[l]
  <2>1. Follow(r["next"], l) = Toward(q, l, "next")
    BY LoopMeets
  <2> QED
    BY <2>1 DEF Chain, Toward
<1>2. q \in [Lists -> Seq(Nodes)]
  BY DEF Holds
<1> QED
  BY <1>1, <1>2
---------------------------------------------------------------------------
(* What the operators of NodeLists leave of a list without repetition.     *)
LEMMA RemoveFirstIs ==
  ASSUME NEW s \in Seq(Nodes), Distinct(s)
  PROVE  /\ \A k \in 1 .. Len(s) : RemoveFirst(s, s[k]) = RemoveAt(s, k)
         /\ \A x : (\A i \in 1 .. Len(s) : s[i] # x) => RemoveFirst(s, x) = s
<1>1. ASSUME NEW k \in 1 .. Len(s)
      PROVE  RemoveFirst(s, s[k]) = RemoveAt(s, k)
  <2> DEFINE I == {i \in 1 .. Len(s) : s[i] = s[k]}
  <2>1. I = {k}
    BY DEF Distinct
  <2>2. \E i \in 1 .. Len(s) : s[i] = s[k]
    OBVIOUS
  <2>3. RemoveFirst(s, s[k]) = RemoveAt(s, IF I # {} THEN Min(I) ELSE 0)
    BY <2>2 DEF RemoveFirst, SelectInSeq
  <2> HIDE DEF I
  <2>4. Min(I) = k
    <3>1. k \in Nat
      BY LenProperties
    <3> QED
      BY <2>1, <3>1 DEF Min
  <2> QED
    BY <2>1, <2>3, <2>4
<1>2. ASSUME NEW x, \A i \in 1 .. Len(s) : s[i] # x
      PROVE  RemoveFirst(s, x) = s
  BY <1>2 DEF RemoveFirst
<1> QED
  BY <1>1, <1>2

LEMMA InsertAtEnds ==
  ASSUME NEW s \in Seq(Nodes), NEW x \in Nodes
  PROVE  /\ InsertAt(s, 1, x) = <<x>> \o s
         /\ InsertAt(s, Len(s) + 1, x) = Append(s, x)
<1>1. Len(s) \in Nat /\ <<x>> \in Seq(Nodes) /\ Append(s, x) = s \o <<x>>
  BY LenProperties, AppendIsConcat
<1>2. SubSeq(s, 1, 0) = <<>> /\ SubSeq(s, Len(s) + 1, Len(s)) = <<>>
  BY <1>1, SubSeqEmpty
<1>3. SubSeq(s, 1, Len(s)) = s
  BY SubSeqFull
<1>4. InsertAt(s, 1, x) = (SubSeq(s, 1, 0) \o <<x>>) \o SubSeq(s, 1, Len(s))
  <2>1. 1 - 1 = 0
    OBVIOUS
  <2> QED
    BY <2>1 DEF InsertAt
<1>5. InsertAt(s, Len(s) + 1, x)
        = (SubSeq(s, 1, Len(s)) \o <<x>>) \o SubSeq(s, Len(s) + 1, Len(s))
  <2>1. (Len(s) + 1) - 1 = Len(s)
    BY <1>1
  <2> QED
    BY <2>1 DEF InsertAt
<1>6. <<>> \o <<x>> = <<x>>
  BY <1>1, ConcatEmptySeq
<1>7. s \o <<x>> \in Seq(Nodes)
  BY <1>1, ConcatProperties
<1>8. (s \o <<x>>) \o <<>> = s \o <<x>>
  BY <1>7, ConcatEmptySeq
<1> QED
  BY <1>1, <1>2, <1>3, <1>4, <1>5, <1>6, <1>8

(* NodeLists and ChkList mean the same operators. *)
LEMMA SameOperators ==
  /\ \A s : Abstract!ToSet(s) = ToSet(s)
  /\ \A s, x : Abstract!RemoveFirst(s, x) = RemoveFirst(s, x)
  /\ \A s, k, x : Abstract!InsertAt(s, k, x) = InsertAt(s, k, x)
<1>1. \A s : Abstract!ToSet(s) = ToSet(s)
  BY DEF Abstract!ToSet, ToSet
<1>2. \A s, x : Abstract!RemoveFirst(s, x) = RemoveFirst(s, x)
  BY DEF Abstract!RemoveFirst, Abstract!RemoveAt, Abstract!SelectInSeq, Abstract!Min,
         RemoveFirst, RemoveAt, SelectInSeq, Min
<1>3. \A s, k, x : Abstract!InsertAt(s, k, x) = InsertAt(s, k, x)
  BY DEF Abstract!InsertAt, InsertAt
<1> QED
  BY <1>1, <1>2, <1>3

(* The sequences that the links hold now. *)
Now == [l \in Lists |-> Chain(links, l)]

LEMMA NowIs ==
  ASSUME NEW q, Holds(links', q)
  PROVE  /\ Now' = q
         /\ \A l \in Lists : Chain(links', l) = q[l]
  BY Chains DEF Now

(* The program's word for a node that is on no list is NodeLists' word. *)
LEMMA LinkedIs ==
  ASSUME Holds(links, Now), NEW x \in Nodes
  PROVE  /\ Unlinked(links, x) <=> ~On(Now, x)
         /\ Abstract!Linked(x) <=> On(Now, x)
         /\ \A l \in Lists : x \in Abstract!On(l) <=> \E i \in 1 .. Len(Now[l]) : Now[l][i] = x
<1>1. \A l \in Lists : Now[l] \in Seq(Nodes) /\ DOMAIN Now[l] = 1 .. Len(Now[l])
  <2>1. \A l \in Lists : Now[l] \in Seq(Nodes)
    BY DEF Holds
  <2> QED
    BY <2>1, LenProperties
<1>2. \A l \in Lists : Abstract!On(l) = {Now[l][i] : i \in 1 .. Len(Now[l])}
  <2> SUFFICES ASSUME NEW l \in Lists
               PROVE  Abstract!On(l) = {Now[l][i] : i \in 1 .. Len(Now[l])}
    OBVIOUS
  <2>1. Abstract!On(l) = ToSet(Now[l])
    BY SameOperators DEF Abstract!On, Now
  <2> QED
    BY <1>1, <2>1 DEF ToSet
<1>3. Abstract!Linked(x) <=> On(Now, x)
  BY <1>2 DEF Abstract!Linked, On
<1>4. Unlinked(links, x) <=> ~On(Now, x)
  BY OffIsUnlinked
<1>5. \A l \in Lists : x \in Abstract!On(l) <=> \E i \in 1 .. Len(Now[l]) : Now[l][i] = x
  BY <1>2
<1> QED
  BY <1>3, <1>4, <1>5

(* Taking a node out takes it out of the one list it is on. *)
LEMMA WithoutIs ==
  ASSUME Holds(links, Now)
  PROVE  /\ \A l \in Lists : \A k \in 1 .. Len(Now[l]) :
              Abstract!Without(Now[l][k]) = [Now EXCEPT ![l] = RemoveAt(@, k)]
         /\ \A x \in Nodes : ~On(Now, x) => Abstract!Without(x) = Now
<1>1. /\ Now \in [Lists -> Seq(Nodes)]
      /\ \A l \in Lists : Distinct(Now[l])
  BY HeldApart DEF Holds
<1>2. \A x : Abstract!Without(x) = [l \in Lists |-> RemoveFirst(Now[l], x)]
  BY SameOperators DEF Abstract!Without, Now
<1>3. \A l, m \in Lists : \A i \in 1 .. Len(Now[l]), j \in 1 .. Len(Now[m]) :
        Now[l][i] = Now[m][j] => l = m /\ i = j
  BY DEF Holds
<1>4. ASSUME NEW l \in Lists, NEW k \in 1 .. Len(Now[l])
      PROVE  Abstract!Without(Now[l][k]) = [Now EXCEPT ![l] = RemoveAt(@, k)]
  <2>1. RemoveFirst(Now[l], Now[l][k]) = RemoveAt(Now[l], k)
    BY <1>1, RemoveFirstIs
  <2>2. ASSUME NEW m \in Lists, m # l
        PROVE  RemoveFirst(Now[m], Now[l][k]) = Now[m]
    <3>1. \A i \in 1 .. Len(Now[m]) : Now[m][i] # Now[l][k]
      BY <1>3, <2>2
    <3> QED
      BY <1>1, <3>1, RemoveFirstIs
  <2> QED
    BY <1>1, <1>2, <2>1, <2>2
<1>5. ASSUME NEW x \in Nodes, ~On(Now, x)
      PROVE  Abstract!Without(x) = Now
  <2>1. \A l \in Lists : RemoveFirst(Now[l], x) = Now[l]
    <3> SUFFICES ASSUME NEW l \in Lists PROVE RemoveFirst(Now[l], x) = Now[l]
      OBVIOUS
    <3>1. \A i \in 1 .. Len(Now[l]) : Now[l][i] # x
      BY <1>5 DEF On
    <3> QED
      BY <1>1, <3>1, RemoveFirstIs
  <2> QED
    BY <1>1, <1>2, <2>1
<1> QED
  BY <1>4, <1>5
---------------------------------------------------------------------------
(* What the functions do to the sequences. *)
LEMMA AddFrontHolds ==
  ASSUME Holds(links, Now), NEW n \in Nodes, NEW l \in Lists, AddFront(n, l)
  PROVE  /\ Holds(links', Now') /\ ~On(Now, n)
         /\ Now' = [Now EXCEPT ![l] = InsertAt(@, 1, n)]
         /\ Now[l] \in Seq(Nodes)
<1>1. Unlinked(links, n) /\ links' = Inserted(links, n, l, links.next[l])
  BY DEF AddFront, MayAdd, AddedFront
<1>2. ~On(Now, n)
  BY <1>1, LinkedIs
<1>3. 0 \in 0 .. Len(Now[l]) /\ Spot(l, Now[l], 0) = l /\ 0 + 1 = 1 /\ Now[l] \in Seq(Nodes)
  BY Spots
<1>4. links.next[l] = Spot(l, Now[l], 1)
  BY <1>3, SpotLinks
<1> DEFINE q2 == [Now EXCEPT ![l] = InsertAt(@, 0 + 1, n)]
<1>5. Holds(Inserted(links, n, Spot(l, Now[l], 0), Spot(l, Now[l], 0 + 1)), q2)
  BY <1>2, <1>3, HoldsInserted
<1>6. Holds(links', q2)
  BY <1>1, <1>3, <1>4, <1>5
<1>7. Now' = q2
  <2> HIDE DEF q2
  <2> QED
    BY <1>6, NowIs
<1>8. q2 = [Now EXCEPT ![l] = InsertAt(@, 1, n)]
  OBVIOUS
<1> HIDE DEF q2
<1> QED
  BY <1>2, <1>3, <1>6, <1>7, <1>8

LEMMA AddTailHolds ==
  ASSUME Holds(links, Now), NEW n \in Nodes, NEW l \in Lists, AddTail(n, l)
  PROVE  /\ Holds(links', Now') /\ ~On(Now, n)
         /\ Now' = [Now EXCEPT ![l] = InsertAt(@, Len(@) + 1, n)]
         /\ Now[l] \in Seq(Nodes)
<1>1. Unlinked(links, n) /\ links' = Inserted(links, n, links.prev[l], l)
  BY DEF AddTail, MayAdd, AddedTail
<1>2. ~On(Now, n)
  BY <1>1, LinkedIs
<1> DEFINE k == Len(Now[l])
<1>3. k \in 0 .. Len(Now[l]) /\ Spot(l, Now[l], k + 1) = l /\ Now[l] \in Seq(Nodes)
  BY Spots
<1>4. links.prev[l] = Spot(l, Now[l], k)
  BY <1>3, SpotLinks
<1> HIDE DEF k
<1> DEFINE q2 == [Now EXCEPT ![l] = InsertAt(@, k + 1, n)]
<1>5. Holds(Inserted(links, n, Spot(l, Now[l], k), Spot(l, Now[l], k + 1)), q2)
  BY <1>2, <1>3, HoldsInserted
<1>6. Holds(links', q2)
  BY <1>1, <1>3, <1>4, <1>5
<1>7. Now' = q2
  <2> HIDE DEF q2
  <2> QED
    BY <1>6, NowIs
<1>8. q2 = [Now EXCEPT ![l] = InsertAt(@, Len(@) + 1, n)]
  BY DEF k
<1> HIDE DEF q2
<1> QED
  BY <1>2, <1>3, <1>6, <1>7, <1>8

LEMMA DeletedHolds ==
  ASSUME Holds(links, Now), NEW n \in Nodes
  PROVE  Holds(Deleted(links, n), Abstract!Without(n))
<1>1. CASE On(Now, n)
  <2>1. PICK l \in Lists : \E k \in 1 .. Len(Now[l]) : Now[l][k] = n
    BY <1>1 DEF On
  <2>2. PICK k \in 1 .. Len(Now[l]) : Now[l][k] = n
    BY <2>1
  <2>3. Holds(Deleted(links, Now[l][k]), [Now EXCEPT ![l] = RemoveAt(@, k)])
    BY HoldsDeleted
  <2>4. Abstract!Without(Now[l][k]) = [Now EXCEPT ![l] = RemoveAt(@, k)]
    BY WithoutIs
  <2> QED
    BY <2>2, <2>3, <2>4
<1>2. CASE ~On(Now, n)
  <2>1. Deleted(links, n) = links
    BY <1>2, LinkedIs DEF Deleted
  <2>2. Abstract!Without(n) = Now
    BY <1>2, WithoutIs
  <2> QED
    BY <2>1, <2>2
<1> QED
  BY <1>1, <1>2

LEMMA DelHolds ==
  ASSUME Holds(links, Now), NEW n \in Nodes, Del(n)
  PROVE  Holds(links', Now') /\ Now' = Abstract!Without(n)
<1>1. links' = Deleted(links, n)
  BY DEF Del
<1>2. Holds(links', Abstract!Without(n))
  BY <1>1, DeletedHolds
<1>3. Now' = Abstract!Without(n)
  BY <1>2, NowIs
<1> QED
  BY <1>2, <1>3

LEMMA SplicedHolds ==
  ASSUME Holds(links, Now), NEW from \in Lists, NEW to \in Lists, from # to,
         links' = Spliced(links, from, to)
  PROVE  /\ Holds(links', Now')
         /\ Now' = [Now EXCEPT ![to] = @ \o Now[from], ![from] = <<>>]
<1> DEFINE q2 == [Now EXCEPT ![to] = @ \o Now[from], ![from] = <<>>]
<1>1. Holds(links', q2)
  BY HoldsSpliced
<1>2. Now' = q2
  <2> HIDE DEF q2
  <2> QED
    BY <1>1, NowIs
<1> HIDE DEF q2
<1>3. Holds(links', Now')
  BY <1>1, <1>2
<1> QED
  BY <1>2, <1>3 DEF q2
---------------------------------------------------------------------------
(* What a turn of a merge does, with iter_lf at spot a of lf: s and t are  *)
(* the lists.                                                              *)
Turned(s, t, a) ==
  \/ /\ Key[s[a]] < Key[t[1]]
     /\ links' = links
     /\ Now' = Now
     /\ merge' = [merge EXCEPT !.iter_lf = Spot(merge.lf, s, a + 1)]
  \/ /\ Key[s[a]] = Key[t[1]]
     /\ Now' = [Now EXCEPT ![merge.rh] = RemoveAt(t, 1)]
     /\ merge' = [merge EXCEPT !.iter_lf = Spot(merge.lf, s, a + 1),
                               !.iter_rh = Spot(merge.rh, t, 2)]
  \/ /\ Key[s[a]] > Key[t[1]]
     /\ Now' = [Now EXCEPT ![merge.rh] = RemoveAt(t, 1),
                           ![merge.lf] = InsertAt(s, a, t[1])]
     /\ merge' = [merge EXCEPT !.iter_lf = t[1], !.iter_rh = Spot(merge.rh, t, 2)]

(* The iterators of a merge under way that is not done are at nodes. *)
LEMMA IteratorsAt ==
  ASSUME IInv, Sequences(Now), Merging
  PROVE  /\ merge.lf \in Lists /\ merge.rh \in Lists /\ merge.lf # merge.rh
         /\ merge.merged = merge.rh /\ ~Walking
         /\ Now[merge.lf] \in Seq(Nodes) /\ Now[merge.rh] \in Seq(Nodes)
         /\ merge.iter_rh = Spot(merge.rh, Now[merge.rh], 1)
         /\ \E a \in 1 .. Len(Now[merge.lf]) + 1 :
              /\ merge.iter_lf = Spot(merge.lf, Now[merge.lf], a)
              /\ a > 1 /\ Len(Now[merge.rh]) > 0 =>
                   Key[Now[merge.lf][a - 1]] <= Key[Now[merge.rh][1]]
<1>1. /\ merge.lf \in Lists /\ merge.rh \in Lists /\ merge.lf # merge.rh
      /\ merge.merged = merge.rh /\ ~Walking
  BY MergeApart
<1>2. Now[merge.lf] \in Seq(Nodes) /\ Now[merge.rh] \in Seq(Nodes)
  BY <1>1, Spots DEF Sequences
<1> QED
  BY <1>1, <1>2 DEF Sequences, OnMerge

LEMMA SpotIsHead ==
  ASSUME NEW l \in Lists, NEW s \in Seq(Nodes), NEW a \in 1 .. Len(s) + 1
  PROVE  Spot(l, s, a) = l <=> a = Len(s) + 1
<1>1. Len(s) \in Nat /\ \A i \in 1 .. Len(s) : s[i] \in Nodes
  BY LenProperties
<1>2. l \notin Nodes
  BY ItemsApart DEF Items
<1>3. CASE a = Len(s) + 1
  BY <1>1, <1>3 DEF Spot
<1>4. CASE a \in 1 .. Len(s)
  BY <1>1, <1>2, <1>4 DEF Spot
<1> QED
  BY <1>1, <1>3, <1>4

LEMMA MergeTurnHolds ==
  ASSUME IInv, Sequences(Now), MergeTurn,
         NEW a \in 1 .. Len(Now[merge.lf]) + 1,
         merge.iter_lf = Spot(merge.lf, Now[merge.lf], a)
  PROVE  /\ Holds(links', Now')
         /\ a \in 1 .. Len(Now[merge.lf]) /\ Len(Now[merge.rh]) > 0
         /\ merge.iter_lf = Now[merge.lf][a] /\ merge.iter_rh = Now[merge.rh][1]
         /\ Turned(Now[merge.lf], Now[merge.rh], a)
<1> DEFINE lf == merge.lf
           rh == merge.rh
           s == Now[lf]
           t == Now[rh]
           i == merge.iter_lf
           j == merge.iter_rh
<1>1. /\ lf \in Lists /\ rh \in Lists /\ lf # rh
      /\ s \in Seq(Nodes) /\ t \in Seq(Nodes)
      /\ j = Spot(rh, t, 1)
  BY IteratorsAt DEF MergeTurn
<1>2. /\ Holds(links, Now) /\ Len(s) \in Nat /\ Len(t) \in Nat
  BY <1>1, LenProperties DEF Sequences
<1>3. i # lf /\ j # rh
  BY DEF MergeTurn, MergeDone
<1>4. /\ a \in 1 .. Len(s) /\ Len(t) > 0
      /\ i = s[a] /\ j = t[1] /\ i \in Nodes /\ j \in Nodes
  <2>1. a # Len(s) + 1
    BY <1>1, <1>3, SpotIsHead
  <2>2. 1 # Len(t) + 1
    <3>1. 1 \in 1 .. Len(t) + 1
      BY <1>2
    <3> QED
      BY <1>1, <1>3, <3>1, SpotIsHead
  <2>3. a \in 1 .. Len(s) /\ 1 \in 1 .. Len(t)
    BY <1>2, <2>1, <2>2
  <2> QED
    BY <1>1, <1>2, <2>3, LenProperties DEF Spot
<1>5. /\ links.next[i] = Spot(lf, s, a + 1)
      /\ links.next[j] = Spot(rh, t, 2)
  <2>1. a \in 0 .. Len(s) /\ 1 \in 0 .. Len(t) /\ 1 + 1 = 2
    BY <1>2, <1>4
  <2>2. links.next[Spot(lf, s, a)] = Spot(lf, s, a + 1)
    BY <1>1, <1>2, <2>1, SpotLinks
  <2>3. links.next[Spot(rh, t, 1)] = Spot(rh, t, 2)
    BY <1>1, <1>2, <2>1, SpotLinks
  <2> QED
    BY <1>1, <2>2, <2>3
<1> DEFINE d == Deleted(links, j)
           qd == [Now EXCEPT ![rh] = RemoveAt(t, 1)]
<1>6. Holds(d, qd)
  <2>1. 1 \in 1 .. Len(t)
    BY <1>2, <1>4
  <2>2. Holds(Deleted(links, Now[rh][1]), [Now EXCEPT ![rh] = RemoveAt(@, 1)])
    BY <1>1, <1>2, <2>1, HoldsDeleted
  <2> QED
    BY <1>4, <2>2
<1>7. Key[i] \in Nat /\ Key[j] \in Nat
  BY <1>4, ListAssumption
<1>8. merge' = [merge EXCEPT !.iter_lf = merge'.iter_lf, !.iter_rh = merge'.iter_rh]
      /\ merge = [lf |-> lf, rh |-> rh, merged |-> merge.merged,
                  iter_lf |-> i, iter_rh |-> j, before |-> merge.before]
  BY DEF MergeTurn, IInv, Shape
<1>9. CASE Key[i] < Key[j]
  <2>1. /\ links' = links
        /\ merge' = [merge EXCEPT !.iter_lf = links.next[i], !.iter_rh = j]
    BY <1>9 DEF MergeTurn, Smaller, Forth
  <2>2. Now' = Now
    BY <2>1 DEF Now
  <2>3. merge' = [merge EXCEPT !.iter_lf = Spot(lf, s, a + 1)]
    BY <1>5, <1>8, <2>1
  <2>4. Holds(links', Now')
    BY <1>2, <2>1, <2>2
  <2> QED
    BY <1>4, <1>9, <2>1, <2>2, <2>3, <2>4 DEF Turned
<1>10. CASE Key[i] = Key[j]
  <2>1. /\ links' = d
        /\ merge' = [merge EXCEPT !.iter_lf = links.next[i], !.iter_rh = links.next[j]]
    <3>1. ~(Key[i] < Key[j])
      BY <1>7, <1>10
    <3> QED
      BY <3>1, <1>10 DEF MergeTurn, Equal, Forth
  <2>2. Now' = qd
    <3> HIDE DEF qd, d
    <3> QED
      BY <1>6, <2>1, NowIs
  <2>3. merge' = [merge EXCEPT !.iter_lf = Spot(lf, s, a + 1), !.iter_rh = Spot(rh, t, 2)]
    BY <1>5, <2>1
  <2>4. Holds(links', Now')
    BY <1>6, <2>1, <2>2
  <2> QED
    BY <1>4, <1>10, <2>2, <2>3, <2>4 DEF Turned
<1>11. CASE Key[i] > Key[j]
  <2>1. /\ links' = Inserted(d, j, d.prev[i], i)
        /\ merge' = [merge EXCEPT !.iter_lf = j, !.iter_rh = links.next[j]]
    <3>1. ~(Key[i] < Key[j]) /\ Key[i] # Key[j]
      BY <1>7, <1>11
    <3> QED
      BY <3>1 DEF MergeTurn, Greater, Forth, Back
  <2> DEFINE q2 == [qd EXCEPT ![lf] = InsertAt(s, a, j)]
  <2>2. qd[lf] = s /\ qd[rh] = RemoveAt(t, 1)
        /\ \A l \in Lists : l # rh => qd[l] = Now[l]
    BY <1>1, <1>2 DEF Holds
  <2>3. ~On(qd, j)
    <3> SUFFICES ASSUME NEW l \in Lists, NEW k \in 1 .. Len(qd[l]), qd[l][k] = j
                 PROVE  FALSE
      BY DEF On
    <3>1. \A u, v \in Lists : \A x \in 1 .. Len(Now[u]), y \in 1 .. Len(Now[v]) :
            Now[u][x] = Now[v][y] => u = v /\ x = y
      BY <1>2 DEF Holds
    <3>2. 1 \in 1 .. Len(t)
      BY <1>2, <1>4
    <3>3. CASE l # rh
      BY <3>1, <3>2, <3>3, <2>2, <1>1, <1>4
    <3>4. CASE l = rh
      <4>1. /\ Len(RemoveAt(t, 1)) = Len(t) - 1
            /\ \A x \in 1 .. Len(t) - 1 : RemoveAt(t, 1)[x] = t[x + 1]
        BY <1>1, <3>2, RemoveAtIs
      <4>2. k \in 1 .. Len(t) - 1 /\ t[k + 1] = j /\ k + 1 \in 1 .. Len(t) /\ k + 1 # 1
        BY <3>4, <4>1, <2>2, <1>2
      <4> QED
        BY <4>2, <3>1, <3>2, <1>1, <1>4
    <3> QED
      BY <3>3, <3>4
  <2> HIDE DEF qd, d
  <2>4. a - 1 \in 0 .. Len(s) /\ (a - 1) + 1 = a
    BY <1>2, <1>4
  <2>5. d.prev[i] = Spot(lf, s, a - 1) /\ i = Spot(lf, s, a)
    <3>1. d.prev[Spot(lf, qd[lf], (a - 1) + 1)] = Spot(lf, qd[lf], a - 1)
      BY <1>1, <1>6, <2>2, <2>4, SpotLinks
    <3> QED
      BY <2>2, <2>4, <3>1
  <2>6. Holds(Inserted(d, j, Spot(lf, qd[lf], a - 1), Spot(lf, qd[lf], (a - 1) + 1)),
              [qd EXCEPT ![lf] = InsertAt(@, (a - 1) + 1, j)])
    <3>1. a - 1 \in 0 .. Len(qd[lf])
      BY <2>2, <2>4
    <3> QED
      BY <1>1, <1>4, <1>6, <2>3, <3>1, HoldsInserted
  <2>7. q2 = [qd EXCEPT ![lf] = InsertAt(@, (a - 1) + 1, j)]
    BY <2>2, <2>4
  <2>8. Holds(links', q2)
    BY <2>1, <2>2, <2>4, <2>5, <2>6, <2>7
  <2>9. Now' = q2
    <3> HIDE DEF q2
    <3> QED
      BY <2>8, NowIs
  <2>10. Holds(links', Now')
    BY <2>8, <2>9
  <2>11. merge' = [merge EXCEPT !.iter_lf = t[1], !.iter_rh = Spot(rh, t, 2)]
    BY <1>4, <1>5, <2>1
  <2>12. Now' = [Now EXCEPT ![rh] = RemoveAt(t, 1), ![lf] = InsertAt(s, a, t[1])]
    BY <1>4, <2>9 DEF qd
  <2> QED
    BY <1>4, <1>11, <2>10, <2>11, <2>12 DEF Turned
<1> QED
  BY <1>7, <1>9, <1>10, <1>11
---------------------------------------------------------------------------
(* Keys and order of the lists that a turn leaves. *)
LEMMA KeysIs ==
  ASSUME NEW s \in Seq(Nodes)
  PROVE  /\ Keys(s) = {Key[s[i]] : i \in 1 .. Len(s)}
         /\ \A i \in 1 .. Len(s) : Key[s[i]] \in Nat /\ s[i] \in Nodes
         /\ Len(s) \in Nat
<1>1. DOMAIN s = 1 .. Len(s) /\ Len(s) \in Nat /\ \A i \in 1 .. Len(s) : s[i] \in Nodes
  BY LenProperties
<1>2. ToSet(s) = {s[i] : i \in 1 .. Len(s)}
  BY <1>1 DEF ToSet
<1>3. Keys(s) = {Key[s[i]] : i \in 1 .. Len(s)}
  BY <1>2 DEF Keys
<1> QED
  BY <1>1, <1>3, ListAssumption

LEMMA FirstTaken ==
  ASSUME NEW t \in Seq(Nodes), Len(t) > 0, Sorted(t), NEW l \in Lists
  PROVE  LET u == RemoveAt(t, 1) IN
         /\ u \in Seq(Nodes) /\ Len(u) = Len(t) - 1
         /\ Sorted(u)
         /\ Keys(t) = Keys(u) \cup {Key[t[1]]}
         /\ Len(u) > 0 => Key[t[1]] <= Key[u[1]]
         /\ Spot(l, u, 1) = Spot(l, t, 2)
<1> DEFINE u == RemoveAt(t, 1)
<1>1. 1 \in 1 .. Len(t) /\ Len(t) \in Nat
  BY LenProperties
<1>2. /\ u \in Seq(Nodes) /\ Len(u) = Len(t) - 1
      /\ \A i \in 1 .. Len(t) - 1 : u[i] = t[i + 1]
  BY <1>1, RemoveAtIs
<1>3. Spot(l, u, 1) = Spot(l, t, 2)
  <2>1. 1 \in 1 .. Len(t) /\ 1 + 1 = 2
    BY <1>1
  <2>2. \A i \in 1 .. Len(t) : Spot(l, u, i) = Spot(l, t, i + 1)
    BY <2>1, SpotRemoved
  <2> QED
    BY <2>1, <2>2
<1> HIDE DEF u
<1>4. Sorted(u)
  <2> SUFFICES ASSUME NEW i \in 1 .. Len(u) - 1 PROVE Key[u[i]] <= Key[u[i + 1]]
    BY DEF Sorted
  <2>1. /\ i \in 1 .. Len(t) - 1 /\ i + 1 \in 1 .. Len(t) - 1
        /\ Key[t[i + 1]] <= Key[t[(i + 1) + 1]]
    BY <1>1, <1>2 DEF Sorted
  <2> QED
    BY <2>1, <1>2
<1>5. /\ \A i \in 1 .. Len(t) : i = 1 \/ (i - 1 \in 1 .. Len(u) /\ u[i - 1] = t[i])
      /\ \A i \in 1 .. Len(u) : i + 1 \in 1 .. Len(t) /\ u[i] = t[i + 1]
  <2>1. ASSUME NEW i \in 1 .. Len(t), i # 1
        PROVE  i - 1 \in 1 .. Len(u) /\ u[i - 1] = t[i]
    <3>1. i - 1 \in 1 .. Len(t) - 1 /\ (i - 1) + 1 = i
      BY <2>1, <1>1
    <3> QED
      BY <3>1, <1>2
  <2> QED
    BY <2>1, <1>1, <1>2
<1>6. Keys(t) = Keys(u) \cup {Key[t[1]]}
  <2>1. Keys(t) = {Key[t[i]] : i \in 1 .. Len(t)} /\ Keys(u) = {Key[u[i]] : i \in 1 .. Len(u)}
    BY <1>2, KeysIs
  <2> QED
    BY <2>1, <1>1, <1>5, SMTT(20)
<1>7. ASSUME Len(u) > 0 PROVE Key[t[1]] <= Key[u[1]]
  <2>1. 1 \in 1 .. Len(t) - 1 /\ u[1] = t[1 + 1]
    BY <1>1, <1>2, <1>7
  <2> QED
    BY <2>1 DEF Sorted
<1> QED
  BY <1>2, <1>3, <1>4, <1>6, <1>7 DEF u

LEMMA OneTakenIn ==
  ASSUME NEW s \in Seq(Nodes), Sorted(s), NEW x \in Nodes, NEW a \in 1 .. Len(s),
         Key[x] < Key[s[a]], a > 1 => Key[s[a - 1]] <= Key[x], NEW l \in Lists,
         NEW o \in Seq(Nodes), InOrder(o, s)
  PROVE  LET u == InsertAt(s, a, x) IN
         /\ u \in Seq(Nodes) /\ Len(u) = Len(s) + 1
         /\ Sorted(u)
         /\ Keys(u) = Keys(s) \cup {Key[x]}
         /\ Spot(l, u, a) = x
         /\ a > 1 => Key[u[a - 1]] <= Key[x]
         /\ InOrder(o, u)
<1> DEFINE u == InsertAt(s, a, x)
<1>1. Len(s) \in Nat /\ a - 1 \in 0 .. Len(s) /\ (a - 1) + 1 = a /\ (a - 1) + 2 = a + 1
  BY LenProperties
<1>2. /\ u \in Seq(Nodes) /\ Len(u) = Len(s) + 1 /\ u[a] = x
      /\ \A i \in 1 .. a - 1 : u[i] = s[i]
      /\ \A i \in a + 1 .. Len(s) + 1 : u[i] = s[i - 1]
  <2>1. /\ InsertAt(s, (a - 1) + 1, x) \in Seq(Nodes)
        /\ Len(InsertAt(s, (a - 1) + 1, x)) = Len(s) + 1
        /\ InsertAt(s, (a - 1) + 1, x)[(a - 1) + 1] = x
        /\ \A i \in 1 .. a - 1 : InsertAt(s, (a - 1) + 1, x)[i] = s[i]
        /\ \A i \in (a - 1) + 2 .. Len(s) + 1 : InsertAt(s, (a - 1) + 1, x)[i] = s[i - 1]
    BY <1>1, InsertAtIs, ZenonT(30)
  <2> QED
    BY <1>1, <2>1
<1> HIDE DEF u
<1>3. Spot(l, u, a) = x
  <2>1. a \in 1 .. Len(u)
    BY <1>1, <1>2
  <2> QED
    BY <2>1, <1>2 DEF Spot
<1>4. Sorted(u)
  <2> SUFFICES ASSUME NEW i \in 1 .. Len(u) - 1 PROVE Key[u[i]] <= Key[u[i + 1]]
    BY DEF Sorted
  <2>1. CASE i < a - 1
    <3>1. i \in 1 .. a - 1 /\ i + 1 \in 1 .. a - 1 /\ i \in 1 .. Len(s) - 1
      BY <2>1, <1>1, <1>2
    <3> QED
      BY <3>1, <1>2 DEF Sorted
  <2>2. CASE i = a - 1
    <3>1. i \in 1 .. a - 1 /\ a > 1 /\ i + 1 = a
      BY <2>2, <1>1
    <3> QED
      BY <3>1, <2>2, <1>2
  <2>3. CASE i = a
    <3>1. a + 1 \in a + 1 .. Len(s) + 1 /\ (a + 1) - 1 = a
      BY <1>1
    <3>2. u[i] = x /\ u[i + 1] = s[a]
      BY <3>1, <2>3, <1>2
    <3>3. Key[x] \in Nat /\ Key[s[a]] \in Nat
      BY ListAssumption, KeysIs
    <3> QED
      BY <3>2, <3>3
  <2>4. CASE i > a
    <3>1. /\ i \in a + 1 .. Len(s) + 1 /\ i + 1 \in a + 1 .. Len(s) + 1
          /\ i - 1 \in 1 .. Len(s) - 1 /\ (i + 1) - 1 = (i - 1) + 1
      BY <2>4, <1>1, <1>2
    <3>2. u[i] = s[i - 1] /\ u[i + 1] = s[(i - 1) + 1]
      <4>1. u[i] = s[i - 1]
        BY <3>1, <1>2
      <4>2. u[i + 1] = s[(i + 1) - 1]
        BY <3>1, <1>2
      <4> QED
        BY <3>1, <4>1, <4>2
    <3> QED
      BY <3>1, <3>2 DEF Sorted
  <2> QED
    BY <2>1, <2>2, <2>3, <2>4, <1>1
<1> DEFINE At2(i) == IF i < a THEN i ELSE i + 1
<1>5. /\ \A i \in 1 .. Len(s) : At2(i) \in 1 .. Len(u) /\ u[At2(i)] = s[i]
      /\ \A i \in 1 .. Len(u) : i = a \/ \E k \in 1 .. Len(s) : u[i] = s[k]
      /\ a \in 1 .. Len(u)
  <2>1. ASSUME NEW i \in 1 .. Len(s)
        PROVE  At2(i) \in 1 .. Len(u) /\ u[At2(i)] = s[i]
    <3>1. CASE i < a
      <4>1. i \in 1 .. a - 1 /\ i \in 1 .. Len(u) /\ At2(i) = i
        BY <3>1, <1>1, <1>2
      <4> QED
        BY <4>1, <1>2
    <3>2. CASE ~(i < a)
      <4>1. At2(i) = i + 1
        BY <3>2
      <4>2. i + 1 \in a + 1 .. Len(s) + 1 /\ (i + 1) - 1 = i /\ i + 1 \in 1 .. Len(u)
        BY <3>2, <1>1, <1>2
      <4>3. u[i + 1] = s[(i + 1) - 1]
        BY <4>2, <1>2
      <4> QED
        BY <4>1, <4>2, <4>3
    <3> QED
      BY <3>1, <3>2
  <2>2. ASSUME NEW i \in 1 .. Len(u), i # a
        PROVE  \E k \in 1 .. Len(s) : u[i] = s[k]
    <3>1. CASE i < a
      <4>1. i \in 1 .. a - 1 /\ i \in 1 .. Len(s)
        BY <3>1, <1>1
      <4> QED
        BY <4>1, <1>2
    <3>2. CASE i > a
      <4>1. i \in a + 1 .. Len(s) + 1 /\ i - 1 \in 1 .. Len(s)
        BY <3>2, <1>1, <1>2
      <4> QED
        BY <4>1, <1>2
    <3> QED
      BY <3>1, <3>2, <2>2, <1>1
  <2> QED
    BY <2>1, <2>2, <1>1, <1>2
<1>6. Keys(u) = Keys(s) \cup {Key[x]}
  <2>1. Keys(s) = {Key[s[i]] : i \in 1 .. Len(s)} /\ Keys(u) = {Key[u[i]] : i \in 1 .. Len(u)}
    BY <1>2, KeysIs
  <2> HIDE DEF At2
  <2>2. ASSUME NEW y \in Keys(s)
        PROVE  y \in Keys(u)
    <3>1. PICK i \in 1 .. Len(s) : y = Key[s[i]]
      BY <2>1
    <3>2. PICK k \in 1 .. Len(u) : u[k] = s[i]
      BY <1>5
    <3> QED
      BY <2>1, <3>1, <3>2
  <2>3. ASSUME NEW y \in Keys(u)
        PROVE  y \in Keys(s) \cup {Key[x]}
    <3>1. PICK i \in 1 .. Len(u) : y = Key[u[i]]
      BY <2>1
    <3>2. CASE i = a
      BY <3>1, <3>2, <1>2
    <3>3. CASE i # a
      <4>1. PICK k \in 1 .. Len(s) : u[i] = s[k]
        BY <3>3, <1>5
      <4> QED
        BY <2>1, <3>1, <4>1
    <3> QED
      BY <3>2, <3>3
  <2>4. Key[x] \in Keys(u)
    <3>1. Key[u[a]] \in Keys(u)
      BY <2>1, <1>5
    <3> QED
      BY <3>1, <1>2
  <2> QED
    BY <2>2, <2>3, <2>4
<1>7. ASSUME a > 1 PROVE Key[u[a - 1]] <= Key[x]
  <2>1. a - 1 \in 1 .. a - 1
    BY <1>7, <1>1
  <2> QED
    BY <2>1, <1>7, <1>2
<1>8. InOrder(o, u)
  <2>1. DOMAIN s = 1 .. Len(s) /\ DOMAIN u = 1 .. Len(u) /\ DOMAIN o = 1 .. Len(o)
    BY <1>2, LenProperties
  <2> SUFFICES ASSUME NEW i \in DOMAIN o, NEW j \in DOMAIN o, i <= j
               PROVE  \E k, m \in DOMAIN u : k <= m /\ u[k] = o[i] /\ u[m] = o[j]
    BY DEF InOrder
  <2>2. PICK k, m \in DOMAIN s : k <= m /\ s[k] = o[i] /\ s[m] = o[j]
    BY DEF InOrder
  <2>3. At2(k) <= At2(m)
    BY <2>1, <2>2, <1>1
  <2>4. /\ At2(k) \in DOMAIN u /\ At2(m) \in DOMAIN u
        /\ u[At2(k)] = o[i] /\ u[At2(m)] = o[j]
    BY <2>1, <2>2, <1>5
  <2> HIDE DEF At2
  <2> QED
    BY <2>3, <2>4
<1> QED
  BY <1>2, <1>3, <1>4, <1>6, <1>7, <1>8 DEF u

(* At the end rh goes behind lf. *)
LEMMA AllTakenIn ==
  ASSUME NEW s \in Seq(Nodes), NEW t \in Seq(Nodes), Sorted(s), Sorted(t),
         Len(s) > 0 /\ Len(t) > 0 => Key[s[Len(s)]] <= Key[t[1]],
         NEW o \in Seq(Nodes), InOrder(o, s)
  PROVE  LET u == s \o t IN
         /\ u \in Seq(Nodes)
         /\ Sorted(u)
         /\ Keys(u) = Keys(s) \cup Keys(t)
         /\ InOrder(o, u)
<1> DEFINE u == s \o t
<1>1. /\ u \in Seq(Nodes) /\ Len(u) = Len(s) + Len(t)
      /\ Len(s) \in Nat /\ Len(t) \in Nat
      /\ \A i \in 1 .. Len(s) + Len(t) :
           u[i] = IF i <= Len(s) THEN s[i] ELSE t[i - Len(s)]
  BY ConcatProperties, LenProperties
<1> HIDE DEF u
<1>2. /\ \A i \in 1 .. Len(s) : i \in 1 .. Len(u) /\ u[i] = s[i]
      /\ \A i \in 1 .. Len(t) : Len(s) + i \in 1 .. Len(u) /\ u[Len(s) + i] = t[i]
      /\ \A i \in 1 .. Len(u) : \/ i \in 1 .. Len(s) /\ u[i] = s[i]
                                \/ i - Len(s) \in 1 .. Len(t) /\ u[i] = t[i - Len(s)]
  <2>1. \A i \in 1 .. Len(s) : i \in 1 .. Len(u) /\ u[i] = s[i]
    BY <1>1
  <2>2. ASSUME NEW i \in 1 .. Len(t)
        PROVE  Len(s) + i \in 1 .. Len(u) /\ u[Len(s) + i] = t[i]
    <3>1. Len(s) + i \in 1 .. Len(s) + Len(t) /\ ~(Len(s) + i <= Len(s))
          /\ (Len(s) + i) - Len(s) = i
      BY <1>1
    <3> QED
      BY <3>1, <1>1
  <2>3. ASSUME NEW i \in 1 .. Len(u)
        PROVE  \/ i \in 1 .. Len(s) /\ u[i] = s[i]
               \/ i - Len(s) \in 1 .. Len(t) /\ u[i] = t[i - Len(s)]
    <3>1. i \in 1 .. Len(s) + Len(t)
      BY <1>1
    <3>2. CASE i <= Len(s)
      BY <3>1, <3>2, <1>1
    <3>3. CASE ~(i <= Len(s))
      <4>1. i - Len(s) \in 1 .. Len(t)
        BY <3>1, <3>3, <1>1
      <4> QED
        BY <3>1, <3>3, <4>1, <1>1
    <3> QED
      BY <3>2, <3>3
  <2> QED
    BY <2>1, <2>2, <2>3
<1>3. Sorted(u)
  <2> SUFFICES ASSUME NEW i \in 1 .. Len(u) - 1 PROVE Key[u[i]] <= Key[u[i + 1]]
    BY DEF Sorted
  <2>1. CASE i < Len(s)
    <3>1. i \in 1 .. Len(s) - 1 /\ i \in 1 .. Len(s) /\ i + 1 \in 1 .. Len(s)
      BY <2>1, <1>1
    <3> QED
      BY <3>1, <1>2 DEF Sorted
  <2>2. CASE i = Len(s)
    <3>1. Len(s) > 0 /\ Len(t) > 0 /\ Len(s) \in 1 .. Len(s) /\ 1 \in 1 .. Len(t)
      BY <2>2, <1>1
    <3> QED
      BY <3>1, <2>2, <1>2
  <2>3. CASE i > Len(s)
    <3> DEFINE k == i - Len(s)
    <3>1. /\ k \in 1 .. Len(t) - 1 /\ k \in 1 .. Len(t) /\ k + 1 \in 1 .. Len(t)
          /\ Len(s) + k = i /\ Len(s) + (k + 1) = i + 1
      BY <2>3, <1>1
    <3> HIDE DEF k
    <3>2. u[i] = t[k] /\ u[i + 1] = t[k + 1]
      BY <3>1, <1>2
    <3> QED
      BY <3>1, <3>2 DEF Sorted
  <2> QED
    BY <2>1, <2>2, <2>3, <1>1
<1>4. Keys(u) = Keys(s) \cup Keys(t)
  <2>1. /\ Keys(s) = {Key[s[i]] : i \in 1 .. Len(s)}
        /\ Keys(t) = {Key[t[i]] : i \in 1 .. Len(t)}
        /\ Keys(u) = {Key[u[i]] : i \in 1 .. Len(u)}
    BY <1>1, KeysIs
  <2>2. ASSUME NEW k \in Keys(u)
        PROVE  k \in Keys(s) \cup Keys(t)
    <3>1. PICK i \in 1 .. Len(u) : k = Key[u[i]]
      BY <2>1
    <3>2. CASE i \in 1 .. Len(s) /\ u[i] = s[i]
      BY <2>1, <3>1, <3>2
    <3>3. CASE i - Len(s) \in 1 .. Len(t) /\ u[i] = t[i - Len(s)]
      BY <2>1, <3>1, <3>3
    <3> QED
      BY <3>2, <3>3, <1>2
  <2>3. ASSUME NEW k \in Keys(s)
        PROVE  k \in Keys(u)
    <3>1. PICK i \in 1 .. Len(s) : k = Key[s[i]]
      BY <2>1
    <3>2. i \in 1 .. Len(u) /\ k = Key[u[i]]
      BY <3>1, <1>2
    <3> QED
      BY <2>1, <3>2
  <2>4. ASSUME NEW k \in Keys(t)
        PROVE  k \in Keys(u)
    <3>1. PICK i \in 1 .. Len(t) : k = Key[t[i]]
      BY <2>1
    <3>2. Len(s) + i \in 1 .. Len(u) /\ k = Key[u[Len(s) + i]]
      BY <3>1, <1>2
    <3> QED
      BY <2>1, <3>2
  <2> QED
    BY <2>2, <2>3, <2>4
<1>5. InOrder(o, u)
  <2>1. DOMAIN s = 1 .. Len(s) /\ DOMAIN u = 1 .. Len(u)
    BY <1>1, LenProperties
  <2> QED
    BY <2>1, <1>2 DEF InOrder
<1> QED
  BY <1>1, <1>3, <1>4, <1>5 DEF u
---------------------------------------------------------------------------
(* A merge keeps its part of the invariant. *)
LEMMA MergeStartOn ==
  ASSUME IInv, Sequences(Now), NEW lf \in Lists, NEW rh \in Lists, MergeStart(lf, rh)
  PROVE  Sequences(Now)'
<1> DEFINE s == Now[lf]
           t == Now[rh]
<1>1. /\ ~Walking /\ UNCHANGED <<links, walk>>
      /\ Sorted(s) /\ Sorted(t)
      /\ merge' = [lf |-> lf, rh |-> rh, merged |-> Self(links, rh),
                   iter_lf |-> links.next[lf], iter_rh |-> links.next[rh],
                   before |-> <<s, t>>]
  BY DEF MergeStart, Now
<1>2. Now' = Now
  BY <1>1 DEF Now
<1>3. Holds(links, Now) /\ Holds(links', Now')
  BY <1>1, <1>2 DEF Sequences
<1>4. OnWalk(Now)'
  BY <1>1 DEF OnWalk, Walking
<1>5. /\ s \in Seq(Nodes) /\ Len(s) \in Nat
      /\ t \in Seq(Nodes) /\ Len(t) \in Nat
      /\ links.next[lf] = Spot(lf, s, 1) /\ links.next[rh] = Spot(rh, t, 1)
  <2>1. ASSUME NEW l \in Lists
        PROVE  /\ Now[l] \in Seq(Nodes) /\ Len(Now[l]) \in Nat
               /\ links.next[l] = Spot(l, Now[l], 1)
    <3>1. 0 \in 0 .. Len(Now[l]) /\ Spot(l, Now[l], 0) = l /\ 0 + 1 = 1
          /\ Now[l] \in Seq(Nodes) /\ Len(Now[l]) \in Nat
      BY <1>3, Spots
    <3> QED
      BY <1>3, <3>1, SpotLinks
  <2> QED
    BY <2>1
<1> HIDE DEF s, t
<1>6. /\ merge'.lf = lf /\ merge'.rh = rh
      /\ merge'.before[1] = s /\ merge'.before[2] = t
      /\ merge'.iter_lf = Spot(lf, s, 1) /\ merge'.iter_rh = Spot(rh, t, 1)
  BY <1>1, <1>5
<1>7. InOrder(s, s)
  BY DEF InOrder
<1>8. OnMerge(Now)'
  <2>1. 1 \in 1 .. Len(s) + 1 /\ ~(1 > 1)
    BY <1>5
  <2>2. Now'[lf] = s /\ Now'[rh] = t
    BY <1>2 DEF s, t
  <2> QED
    BY <1>1, <1>5, <1>6, <1>7, <2>1, <2>2 DEF OnMerge
<1> QED
  BY <1>3, <1>4, <1>8 DEF Sequences

LEMMA MergeTurnOn ==
  ASSUME IInv, Sequences(Now), MergeTurn
  PROVE  Sequences(Now)'
<1> DEFINE lf == merge.lf
           rh == merge.rh
           s == Now[lf]
           t == Now[rh]
           o == merge.before[1]
           b == merge.before[2]
<1>1. /\ lf \in Lists /\ rh \in Lists /\ lf # rh
      /\ s \in Seq(Nodes) /\ t \in Seq(Nodes) /\ ~Walking /\ Merging
      /\ merge.iter_rh = Spot(rh, t, 1)
  BY IteratorsAt DEF MergeTurn
<1>2. PICK a \in 1 .. Len(s) + 1 :
        /\ merge.iter_lf = Spot(lf, s, a)
        /\ a > 1 /\ Len(t) > 0 => Key[s[a - 1]] <= Key[t[1]]
  BY IteratorsAt DEF MergeTurn
<1>3. /\ o \in Seq(Nodes) /\ b \in Seq(Nodes)
      /\ Sorted(s) /\ Sorted(t)
      /\ Keys(s) \cup Keys(t) = Keys(o) \cup Keys(b)
      /\ InOrder(o, s)
  BY <1>1 DEF Sequences, OnMerge
<1>4. /\ Holds(links', Now')
      /\ a \in 1 .. Len(s) /\ Len(t) > 0
      /\ merge.iter_lf = s[a] /\ merge.iter_rh = t[1]
      /\ Turned(s, t, a)
  BY <1>2, MergeTurnHolds
<1>5. OnWalk(Now)'
  <2>1. walk' = walk
    BY DEF MergeTurn
  <2> QED
    BY <1>1, <2>1 DEF OnWalk, Walking
<1>6. Now \in [Lists -> Seq(Nodes)]
  BY DEF Sequences, Holds
<1>7. /\ merge = [lf |-> lf, rh |-> rh, merged |-> merge.merged,
                  iter_lf |-> merge.iter_lf, iter_rh |-> merge.iter_rh,
                  before |-> merge.before]
  BY DEF IInv, Shape
<1>8. /\ Len(s) \in Nat /\ Len(t) \in Nat
      /\ \A i \in 1 .. Len(s) : Key[s[i]] \in Nat /\ s[i] \in Nodes
      /\ \A i \in 1 .. Len(t) : Key[t[i]] \in Nat /\ t[i] \in Nodes
  BY <1>1, KeysIs
<1> DEFINE u == RemoveAt(t, 1)
<1>9. /\ u \in Seq(Nodes) /\ Len(u) = Len(t) - 1
      /\ Sorted(u)
      /\ Keys(t) = Keys(u) \cup {Key[t[1]]}
      /\ Len(u) > 0 => Key[t[1]] <= Key[u[1]]
      /\ Spot(rh, u, 1) = Spot(rh, t, 2)
  BY <1>1, <1>3, <1>4, FirstTaken
<1>10. 1 \in 1 .. Len(t) /\ Len(u) \in Nat /\ a + 1 \in 1 .. Len(s) + 1 /\ (a + 1) - 1 = a
  BY <1>4, <1>8, <1>9
<1> HIDE DEF u
<1>11. CASE /\ Key[s[a]] < Key[t[1]]
            /\ Now' = Now
            /\ merge' = [merge EXCEPT !.iter_lf = Spot(lf, s, a + 1)]
  <2>1. /\ merge'.lf = lf /\ merge'.rh = rh /\ merge'.before = merge.before
        /\ merge'.iter_lf = Spot(lf, s, a + 1) /\ merge'.iter_rh = Spot(rh, t, 1)
    BY <1>1, <1>7, <1>11
  <2>2. Now'[lf] = s /\ Now'[rh] = t
    BY <1>11
  <2>3. Key[s[(a + 1) - 1]] <= Key[t[1]]
    <3>1. Key[s[a]] \in Nat /\ Key[t[1]] \in Nat
      BY <1>4, <1>8, <1>10
    <3>2. Key[s[a]] <= Key[t[1]]
      BY <3>1, <1>11
    <3> QED
      BY <3>2, <1>10
  <2> HIDE DEF lf, rh, s, t, o, b
  <2>4. OnMerge(Now)'
    BY <1>3, <1>10, <2>1, <2>2, <2>3 DEF OnMerge, o, b
  <2> QED
    BY <1>4, <1>5, <2>4 DEF Sequences
<1>12. CASE /\ Key[s[a]] = Key[t[1]]
            /\ Now' = [Now EXCEPT ![rh] = u]
            /\ merge' = [merge EXCEPT !.iter_lf = Spot(lf, s, a + 1),
                                      !.iter_rh = Spot(rh, t, 2)]
  <2>1. /\ merge'.lf = lf /\ merge'.rh = rh /\ merge'.before = merge.before
        /\ merge'.iter_lf = Spot(lf, s, a + 1) /\ merge'.iter_rh = Spot(rh, u, 1)
    BY <1>7, <1>9, <1>12
  <2>2. Now'[lf] = s /\ Now'[rh] = u
    BY <1>1, <1>6, <1>12
  <2>3. Len(u) > 0 => Key[s[(a + 1) - 1]] <= Key[u[1]]
    BY <1>9, <1>10, <1>12
  <2>4. Keys(s) \cup Keys(u) = Keys(o) \cup Keys(b)
    <3>1. Key[t[1]] \in Keys(s)
      <4>1. Keys(s) = {Key[s[i]] : i \in 1 .. Len(s)}
        BY <1>1, KeysIs
      <4> QED
        BY <4>1, <1>4, <1>12
    <3> QED
      BY <3>1, <1>3, <1>9
  <2> HIDE DEF lf, rh, s, t, o, b
  <2>5. OnMerge(Now)'
    BY <1>3, <1>9, <1>10, <2>1, <2>2, <2>3, <2>4 DEF OnMerge, o, b
  <2> QED
    BY <1>4, <1>5, <2>5 DEF Sequences
<1>13. CASE /\ Key[s[a]] > Key[t[1]]
            /\ Now' = [Now EXCEPT ![rh] = u, ![lf] = InsertAt(s, a, t[1])]
            /\ merge' = [merge EXCEPT !.iter_lf = t[1], !.iter_rh = Spot(rh, t, 2)]
  <2> DEFINE v == InsertAt(s, a, t[1])
  <2>1. /\ v \in Seq(Nodes) /\ Len(v) = Len(s) + 1
        /\ Sorted(v)
        /\ Keys(v) = Keys(s) \cup {Key[t[1]]}
        /\ Spot(lf, v, a) = t[1]
        /\ a > 1 => Key[v[a - 1]] <= Key[t[1]]
        /\ InOrder(o, v)
    <3>1. Key[t[1]] < Key[s[a]] /\ t[1] \in Nodes
      BY <1>4, <1>8, <1>10, <1>13
    <3>2. a > 1 => Key[s[a - 1]] <= Key[t[1]]
      BY <1>2, <1>4
    <3>3. /\ s \in Seq(Nodes) /\ Sorted(s) /\ t[1] \in Nodes /\ a \in 1 .. Len(s)
          /\ lf \in Lists /\ o \in Seq(Nodes) /\ InOrder(o, s)
      BY <1>1, <1>3, <1>4, <3>1
    <3> DEFINE x == t[1]
    <3> HIDE DEF lf, s, t, o, x
    <3>4. /\ Key[x] < Key[s[a]] /\ x \in Nodes
          /\ a > 1 => Key[s[a - 1]] <= Key[x]
      BY <3>1, <3>2 DEF x
    <3>5. LET w == InsertAt(s, a, x) IN
          /\ w \in Seq(Nodes) /\ Len(w) = Len(s) + 1
          /\ Sorted(w)
          /\ Keys(w) = Keys(s) \cup {Key[x]}
          /\ Spot(lf, w, a) = x
          /\ a > 1 => Key[w[a - 1]] <= Key[x]
          /\ InOrder(o, w)
      BY <3>3, <3>4, OneTakenIn
    <3> QED
      BY <3>5 DEF x
  <2>2. Now' = [Now EXCEPT ![rh] = u, ![lf] = v]
    BY <1>13
  <2> HIDE DEF v
  <2>3. /\ merge'.lf = lf /\ merge'.rh = rh /\ merge'.before = merge.before
        /\ merge'.iter_lf = Spot(lf, v, a) /\ merge'.iter_rh = Spot(rh, u, 1)
    BY <1>7, <1>9, <1>13, <2>1
  <2>4. Now'[lf] = v /\ Now'[rh] = u
    BY <1>1, <1>6, <2>2
  <2>5. a > 1 /\ Len(u) > 0 => Key[v[a - 1]] <= Key[u[1]]
    <3> SUFFICES ASSUME a > 1, Len(u) > 0 PROVE Key[v[a - 1]] <= Key[u[1]]
      OBVIOUS
    <3>1. Key[v[a - 1]] <= Key[t[1]] /\ Key[t[1]] <= Key[u[1]]
      BY <1>9, <2>1
    <3>2. /\ a - 1 \in 1 .. Len(v) /\ 1 \in 1 .. Len(u)
      BY <1>4, <1>8, <1>10, <2>1
    <3>3. Key[v[a - 1]] \in Nat /\ Key[u[1]] \in Nat /\ Key[t[1]] \in Nat
      BY <3>2, <1>8, <1>9, <1>10, <2>1, KeysIs
    <3> QED
      BY <3>1, <3>3
  <2>6. Keys(v) \cup Keys(u) = Keys(o) \cup Keys(b)
    BY <1>3, <1>9, <2>1
  <2>7. a \in 1 .. Len(v) + 1
    BY <1>8, <2>1
  <2> HIDE DEF lf, rh, s, t, o, b
  <2>8. OnMerge(Now)'
    BY <1>3, <1>9, <2>1, <2>3, <2>4, <2>5, <2>6, <2>7 DEF OnMerge, o, b
  <2> QED
    BY <1>4, <1>5, <2>8 DEF Sequences
<1> QED
  BY <1>4, <1>11, <1>12, <1>13 DEF Turned, u

(* What the end of a merge leaves. *)
LEMMA MergeEndHolds ==
  ASSUME IInv, Sequences(Now), MergeEnd
  PROVE  /\ Holds(links', Now')
         /\ Now' = [Now EXCEPT ![merge.lf] = @ \o Now[merge.rh], ![merge.rh] = <<>>]
<1> DEFINE lf == merge.lf
           rh == merge.rh
<1>1. /\ lf \in Lists /\ rh \in Lists /\ lf # rh /\ merge.merged = rh
      /\ Now[lf] \in Seq(Nodes) /\ Now[rh] \in Seq(Nodes)
  BY IteratorsAt DEF MergeEnd
<1>2. Holds(links, Now)
  BY DEF Sequences
<1>3. Self(links, lf) = lf
  <2>1. /\ Len(Now[lf]) \in 0 .. Len(Now[lf])
        /\ Spot(lf, Now[lf], Len(Now[lf]) + 1) = lf
        /\ \A i : Spot(lf, Now[lf], i) \in Items
    <3>1. \A i : Spot(lf, Now[lf], i) \in Items
      BY <1>1, <1>2, Spots
    <3>2. Len(Now[lf]) \in 0 .. Len(Now[lf]) /\ Spot(lf, Now[lf], Len(Now[lf]) + 1) = lf
      BY <1>1, <1>2, Spots
    <3> QED
      BY <3>1, <3>2
  <2>2. /\ links.prev[lf] = Spot(lf, Now[lf], Len(Now[lf]))
        /\ links.next[Spot(lf, Now[lf], Len(Now[lf]))] = lf
    BY <1>1, <1>2, <2>1, SpotLinks
  <2> QED
    BY <2>1, <2>2, ItemsApart DEF Self
<1>4. CASE EmptyList(links, rh)
  <2>1. links' = links
    BY <1>1, <1>4 DEF MergeEnd
  <2>2. Now' = Now
    BY <2>1 DEF Now
  <2>3. Now[rh] = <<>>
    BY <1>1, <1>2, <1>4, EmptySequence
  <2>4. Now[lf] \o <<>> = Now[lf]
    BY <1>1, ConcatEmptySeq
  <2>5. Now \in [Lists -> Seq(Nodes)]
    BY <1>2 DEF Holds
  <2>6. Holds(links', Now')
    BY <1>2, <2>1, <2>2
  <2>7. Now = [Now EXCEPT ![lf] = @ \o Now[rh], ![rh] = <<>>]
    BY <2>3, <2>4, <2>5
  <2> QED
    BY <2>2, <2>6, <2>7
<1>5. CASE ~EmptyList(links, rh)
  <2>1. links' = Spliced(links, rh, lf)
    BY <1>1, <1>3, <1>5 DEF MergeEnd
  <2> QED
    BY <1>1, <1>2, <2>1, SplicedHolds
<1> QED
  BY <1>4, <1>5

LEMMA MergeEndOn ==
  ASSUME IInv, Sequences(Now), MergeEnd
  PROVE  Sequences(Now)'
<1>1. Holds(links', Now')
  BY MergeEndHolds
<1>2. ~Walking /\ walk' = walk /\ merge' = NoMerge
  BY IteratorsAt DEF MergeEnd
<1>3. OnWalk(Now)' /\ OnMerge(Now)'
  BY <1>2 DEF OnWalk, OnMerge, Walking, Merging, NoMerge
<1> QED
  BY <1>1, <1>3 DEF Sequences

(* A sequence without repetition is as long as it has nodes. *)
LEMMA AllDifferent ==
  ASSUME NEW s \in Seq(Nodes), Distinct(s)
  PROVE  Len(s) = Cardinality(ToSet(s))
<1>1. Len(s) \in Nat /\ s \in [1 .. Len(s) -> Nodes] /\ DOMAIN s = 1 .. Len(s)
  BY LenProperties
<1>2. ToSet(s) = {s[i] : i \in 1 .. Len(s)}
  BY <1>1 DEF ToSet
<1> DEFINE S == ToSet(s)
<1>3. s \in [1 .. Len(s) -> S]
  BY <1>1, <1>2
<1>4. s \in Bijection(1 .. Len(s), S)
  <2>1. s \in Injection(1 .. Len(s), S)
    BY <1>3 DEF Distinct, Injection, IsInjective
  <2>2. s \in Surjection(1 .. Len(s), S)
    BY <1>2, <1>3 DEF Surjection
  <2> QED
    BY <2>1, <2>2 DEF Bijection
<1>5. S \subseteq Nodes
  BY <1>1, <1>2
<1> HIDE DEF S
<1>6. IsFiniteSet(S)
  BY <1>5, FiniteAssumption, FS_Subset
<1>7. Cardinality(1 .. Len(s)) = Len(s) /\ IsFiniteSet(1 .. Len(s))
  BY <1>1, FS_Interval, SMTT(20)
<1>8. Cardinality(1 .. Len(s)) <= Cardinality(S)
  BY <1>4, <1>6, FS_Injection DEF Bijection
<1>9. Cardinality(S) <= Cardinality(1 .. Len(s))
  BY <1>4, <1>7, FS_Surjection DEF Bijection
<1>10. Cardinality(S) \in Nat
  BY <1>6, FS_CardinalityType
<1> QED
  BY <1>1, <1>7, <1>8, <1>9, <1>10 DEF S
---------------------------------------------------------------------------
(* At first all lists are empty. *)
LEMMA InitSequences ==
  ASSUME Init
  PROVE  Sequences(Now) /\ Abstract!Init
<1> DEFINE q == [l \in Lists |-> <<>>]
<1>1. /\ links = [next |-> [x \in Items |-> IF x \in Lists THEN x ELSE Null],
                  prev |-> [x \in Items |-> IF x \in Lists THEN x ELSE Null]]
      /\ walk = NoWalk /\ merge = NoMerge
  BY DEF Init
<1>2. links \in Links
  BY <1>1 DEF Links, Items
<1>3. q \in [Lists -> Seq(Nodes)] /\ \A l \in Lists : q[l] = <<>> /\ Len(q[l]) = 0
  BY EmptySeq
<1>4. \A l \in Lists : links.next[l] = l /\ links.prev[l] = l
  BY <1>1 DEF Items
<1>5. \A x \in Nodes : links.next[x] = Null /\ links.prev[x] = Null
  BY <1>1, ItemsApart DEF Items
<1> HIDE DEF q
<1>6. ASSUME NEW l \in Lists, NEW k \in 0 .. Len(q[l])
      PROVE  /\ links.next[Spot(l, q[l], k)] = Spot(l, q[l], k + 1)
             /\ links.prev[Spot(l, q[l], k + 1)] = Spot(l, q[l], k)
  BY <1>3, <1>4 DEF Spot
<1>7. \A l, m \in Lists : \A i \in 1 .. Len(q[l]), j \in 1 .. Len(q[m]) :
        q[l][i] = q[m][j] => l = m /\ i = j
  BY <1>3
<1>8. Holds(links, q)
  BY <1>2, <1>3, <1>5, <1>6, <1>7 DEF Holds
<1>9. Now = q
  BY <1>8, Chains DEF Now
<1>10. ~Walking /\ ~Merging
  BY <1>1 DEF Walking, Merging, NoWalk, NoMerge
<1> QED
  BY <1>8, <1>9, <1>10 DEF Sequences, OnWalk, OnMerge, Abstract!Init, Now, q

(* Each function does what NodeLists promises. *)
LEMMA PushesFront ==
  ASSUME Sequences(Now), NEW n \in Nodes, NEW l \in Lists, AddFront(n, l)
  PROVE  Abstract!PushFront(n, l)
<1>1. /\ ~On(Now, n) /\ Now[l] \in Seq(Nodes)
      /\ Now' = [Now EXCEPT ![l] = InsertAt(@, 1, n)]
  BY AddFrontHolds DEF Sequences
<1>2. InsertAt(Now[l], 1, n) = <<n>> \o Now[l]
  BY <1>1, InsertAtEnds
<1>3. Now' = [Now EXCEPT ![l] = <<n>> \o @]
  BY <1>1, <1>2
<1>4. ~Abstract!Linked(n)
  BY <1>1, LinkedIs DEF Sequences
<1> QED
  BY <1>3, <1>4 DEF Abstract!PushFront, Now

LEMMA PushesBack ==
  ASSUME Sequences(Now), NEW n \in Nodes, NEW l \in Lists, AddTail(n, l)
  PROVE  Abstract!PushBack(n, l)
<1>1. /\ ~On(Now, n) /\ Now[l] \in Seq(Nodes)
      /\ Now' = [Now EXCEPT ![l] = InsertAt(@, Len(@) + 1, n)]
  BY AddTailHolds DEF Sequences
<1>2. InsertAt(Now[l], Len(Now[l]) + 1, n) = Append(Now[l], n)
  BY <1>1, InsertAtEnds
<1>3. Now' = [Now EXCEPT ![l] = Append(@, n)]
  BY <1>1, <1>2
<1>4. ~Abstract!Linked(n)
  BY <1>1, LinkedIs DEF Sequences
<1> QED
  BY <1>3, <1>4 DEF Abstract!PushBack, Now

LEMMA Deletes ==
  ASSUME Sequences(Now), NEW n \in Nodes, Del(n)
  PROVE  Abstract!Delete(n)
<1>1. Now' = Abstract!Without(n)
  BY DelHolds DEF Sequences
<1> QED
  BY <1>1 DEF Abstract!Delete, Now

LEMMA Joins ==
  ASSUME Sequences(Now), NEW from \in Lists, NEW to \in Lists, Splice(from, to)
  PROVE  Abstract!AppendAll(from, to)
<1>1. from # to /\ links' = Spliced(links, from, to)
  BY DEF Splice
<1>2. Now' = [Now EXCEPT ![to] = @ \o Now[from], ![from] = <<>>]
  BY <1>1, SplicedHolds DEF Sequences
<1> QED
  BY <1>1, <1>2 DEF Abstract!AppendAll, Now

LEMMA MergeTakes ==
  ASSUME IInv, Sequences(Now), MergeTurn, links' # links
  PROVE  \/ Abstract!Delete(merge.iter_rh)
         \/ Abstract!MoveBefore(merge.iter_rh, merge.lf, merge.iter_lf)
<1> DEFINE lf == merge.lf
           rh == merge.rh
           s == Now[lf]
           t == Now[rh]
<1>1. /\ lf \in Lists /\ rh \in Lists /\ lf # rh
      /\ s \in Seq(Nodes) /\ t \in Seq(Nodes)
  BY IteratorsAt DEF MergeTurn
<1>2. PICK a \in 1 .. Len(s) + 1 : merge.iter_lf = Spot(lf, s, a)
  BY IteratorsAt DEF MergeTurn
<1>3. /\ a \in 1 .. Len(s) /\ Len(t) > 0
      /\ merge.iter_lf = s[a] /\ merge.iter_rh = t[1]
      /\ Turned(s, t, a)
  BY <1>2, MergeTurnHolds
<1>4. /\ Holds(links, Now) /\ Now \in [Lists -> Seq(Nodes)]
      /\ Len(s) \in Nat /\ Len(t) \in Nat
  BY <1>1, LenProperties DEF Sequences, Holds
<1>5. 1 \in 1 .. Len(t) /\ t[1] \in Nodes /\ s[a] \in Nodes
  BY <1>1, <1>3, <1>4, KeysIs
<1>6. Abstract!Without(t[1]) = [Now EXCEPT ![rh] = RemoveAt(t, 1)]
  <2>1. Abstract!Without(Now[rh][1]) = [Now EXCEPT ![rh] = RemoveAt(@, 1)]
    BY <1>1, <1>4, <1>5, WithoutIs
  <2> QED
    BY <2>1
<1>7. CASE Now' = [Now EXCEPT ![rh] = RemoveAt(t, 1)]
  <2>1. Now' = Abstract!Without(merge.iter_rh)
    BY <1>3, <1>6, <1>7
  <2> QED
    BY <2>1 DEF Abstract!Delete, Now
<1>8. CASE Now' = [Now EXCEPT ![rh] = RemoveAt(t, 1), ![lf] = InsertAt(s, a, t[1])]
  <2> DEFINE w == Abstract!Without(t[1])
  <2>1. w[lf] = s
    BY <1>1, <1>4, <1>6
  <2>2. Now' = [w EXCEPT ![lf] = InsertAt(s, a, t[1])]
    BY <1>6, <1>8
  <2>3. (CHOOSE i \in 1 .. Len(s) : s[i] = s[a]) = a
    <3>1. \A i \in 1 .. Len(s) : s[i] = s[a] => i = a
      BY <1>1, <1>3, <1>4 DEF Holds
    <3> QED
      BY <3>1, <1>3
  <2>4. t[1] \notin Abstract!On(lf)
    <3>1. \A i \in 1 .. Len(s) : s[i] # t[1]
      BY <1>1, <1>4, <1>5 DEF Holds
    <3> QED
      BY <3>1, <1>1, <1>4, <1>5, LinkedIs
  <2>5. s[a] \in Abstract!On(lf)
    BY <1>1, <1>3, <1>4, <1>5, LinkedIs
  <2> HIDE DEF w
  <2>6. Now' = [w EXCEPT ![lf] =
                 Abstract!InsertAt(@, CHOOSE i \in 1 .. Len(@) : @[i] = s[a], t[1])]
    BY <2>1, <2>2, <2>3, SameOperators
  <2>7. Abstract!MoveBefore(t[1], lf, s[a])
    BY <2>4, <2>5, <2>6 DEF Abstract!MoveBefore, Now, w
  <2> QED
    BY <2>7, <1>3
<1> QED
  BY <1>3, <1>7, <1>8 DEF Turned

LEMMA MergeJoins ==
  ASSUME IInv, Sequences(Now), MergeEnd
  PROVE  Abstract!AppendAll(merge.rh, merge.lf)
<1>1. merge.rh # merge.lf
  BY IteratorsAt DEF MergeEnd
<1>2. Now' = [Now EXCEPT ![merge.lf] = @ \o Now[merge.rh], ![merge.rh] = <<>>]
  BY MergeEndHolds
<1> QED
  BY <1>1, <1>2 DEF Abstract!AppendAll, Now
---------------------------------------------------------------------------
(* The result of a merge. *)
LEMMA MergeGives ==
  ASSUME IInv, Sequences(Now), MergeEnd
  PROVE  LET result == Chain(links', merge.lf)
             lf == merge.before[1]
             rh == merge.before[2]
         IN  /\ Sorted(result)
             /\ Chain(links', merge.rh) = <<>>
             /\ Keys(result) = Keys(lf) \cup Keys(rh)
             /\ InOrder(lf, result)
             /\ \A n \in ToSet(rh) \ ToSet(result) :
                  \E m \in ToSet(result) : Key[m] = Key[n]
             /\ Len(result) = Cardinality(ToSet(result))
<1> DEFINE s == Now[merge.lf]
           t == Now[merge.rh]
           o == merge.before[1]
           b == merge.before[2]
           result == Chain(links', merge.lf)
<1>1. /\ merge.lf \in Lists /\ merge.rh \in Lists /\ merge.lf # merge.rh
      /\ s \in Seq(Nodes) /\ t \in Seq(Nodes)
      /\ merge.iter_rh = Spot(merge.rh, t, 1) /\ Merging
  BY IteratorsAt DEF MergeEnd
<1>2. PICK a \in 1 .. Len(s) + 1 :
        /\ merge.iter_lf = Spot(merge.lf, s, a)
        /\ a > 1 /\ Len(t) > 0 => Key[s[a - 1]] <= Key[t[1]]
  BY IteratorsAt DEF MergeEnd
<1>3. /\ o \in Seq(Nodes) /\ b \in Seq(Nodes)
      /\ Sorted(s) /\ Sorted(t)
      /\ Keys(s) \cup Keys(t) = Keys(o) \cup Keys(b)
      /\ InOrder(o, s)
  BY <1>1 DEF Sequences, OnMerge
<1>4. /\ Holds(links', Now')
      /\ Now' = [Now EXCEPT ![merge.lf] = s \o t, ![merge.rh] = <<>>]
  <2>1. Now' = [Now EXCEPT ![merge.lf] = @ \o t, ![merge.rh] = <<>>]
    BY MergeEndHolds
  <2> QED
    BY <2>1, MergeEndHolds
<1>5. /\ \A l \in Lists : Chain(links', l) = Now'[l]
  BY <1>4, NowIs
<1>6. Now \in [Lists -> Seq(Nodes)] /\ Len(s) \in Nat /\ Len(t) \in Nat
  BY <1>1, LenProperties DEF Sequences, Holds
<1>7. result = s \o t /\ Chain(links', merge.rh) = <<>>
  <2>1. Now'[merge.lf] = s \o t /\ Now'[merge.rh] = <<>>
    BY <1>1, <1>4, <1>6
  <2> QED
    BY <1>1, <1>5, <2>1
<1>8. a = Len(s) + 1 \/ Len(t) = 0
  <2>1. CASE merge.iter_lf = merge.lf
    BY <2>1, <1>1, <1>2, SpotIsHead
  <2>2. CASE merge.iter_rh = merge.rh
    <3>1. 1 \in 1 .. Len(t) + 1
      BY <1>6
    <3>2. 1 = Len(t) + 1
      BY <2>2, <3>1, <1>1, SpotIsHead
    <3> QED
      BY <3>2, <1>6
  <2> QED
    BY <2>1, <2>2 DEF MergeEnd, MergeDone
<1>9. Len(s) > 0 /\ Len(t) > 0 => Key[s[Len(s)]] <= Key[t[1]]
  <2> SUFFICES ASSUME Len(s) > 0, Len(t) > 0 PROVE Key[s[Len(s)]] <= Key[t[1]]
    OBVIOUS
  <2>1. a > 1 /\ a - 1 = Len(s)
    BY <1>6, <1>8
  <2> QED
    BY <1>2, <2>1
<1> HIDE DEF s, t, o, b, result
<1>10. /\ s \o t \in Seq(Nodes)
       /\ Sorted(s \o t)
       /\ Keys(s \o t) = Keys(s) \cup Keys(t)
       /\ InOrder(o, s \o t)
  BY <1>1, <1>3, <1>9, AllTakenIn
<1>11. Keys(result) = Keys(o) \cup Keys(b)
  BY <1>3, <1>7, <1>10
<1>12. ASSUME NEW n \in ToSet(b) \ ToSet(result)
       PROVE  \E m \in ToSet(result) : Key[m] = Key[n]
  <2>1. Key[n] \in Keys(result)
    BY <1>11 DEF Keys
  <2> QED
    BY <2>1 DEF Keys
<1>13. Distinct(result)
  <2>1. Distinct(Now'[merge.lf])
    BY <1>1, <1>4, HeldApart
  <2> QED
    BY <1>1, <1>5, <2>1 DEF result
<1>14. Len(result) = Cardinality(ToSet(result))
  BY <1>7, <1>10, <1>13, AllDifferent
<1> QED
  BY <1>7, <1>10, <1>11, <1>12, <1>14 DEF result, o, b
---------------------------------------------------------------------------
(* The nodes that are ahead of a loop with k of s behind it. *)
LEMMA AheadIs ==
  ASSUME NEW s \in Seq(Nodes), NEW k \in 0 .. Len(s)
  PROVE  LET t == SubSeq(s, k + 1, Len(s)) IN
         /\ t \in Seq(Nodes) /\ Len(t) = Len(s) - k
         /\ \A i \in 1 .. Len(s) - k : t[i] = s[k + i]
<1> DEFINE t == SubSeq(s, k + 1, Len(s))
<1>1. Len(s) \in Nat /\ \A i \in 1 .. Len(s) : s[i] \in Nodes
  BY LenProperties
<1>2. CASE k = Len(s)
  <2>1. t = <<>>
    BY <1>1, <1>2, SubSeqEmpty
  <2>2. t \in Seq(Nodes) /\ Len(t) = 0
    BY <2>1, EmptySeq
  <2> HIDE DEF t
  <2> QED
    BY <1>1, <1>2, <2>2 DEF t
<1>3. CASE k # Len(s)
  <2>1. k + 1 \in 1 .. Len(s) + 1 /\ Len(s) \in 0 .. Len(s) /\ k + 1 <= Len(s)
    BY <1>1, <1>3
  <2>2. /\ t \in Seq(Nodes) /\ Len(t) = Len(s) - (k + 1) + 1
        /\ \A i \in 1 .. Len(s) - (k + 1) + 1 : t[i] = s[(k + 1) + i - 1]
    BY <2>1, SubSeqProperties
  <2> HIDE DEF t
  <2>3. /\ Len(s) - (k + 1) + 1 = Len(s) - k
        /\ \A i \in 1 .. Len(s) - k : (k + 1) + i - 1 = k + i
    BY <1>1
  <2> QED
    BY <2>2, <2>3 DEF t
<1> QED
  BY <1>2, <1>3

LEMMA AheadOfFront ==
  ASSUME NEW s \in Seq(Nodes), NEW x \in Nodes, NEW k \in 0 .. Len(s)
  PROVE  LET t == InsertAt(s, 1, x) IN
         SubSeq(t, (k + 1) + 1, Len(t)) = SubSeq(s, k + 1, Len(s))
<1> DEFINE t == InsertAt(s, 1, x)
           u == SubSeq(t, (k + 1) + 1, Len(t))
           v == SubSeq(s, k + 1, Len(s))
<1>1. Len(s) \in Nat /\ 0 \in 0 .. Len(s)
  BY LenProperties
<1>2. /\ t \in Seq(Nodes) /\ Len(t) = Len(s) + 1
      /\ \A i \in 2 .. Len(s) + 1 : t[i] = s[i - 1]
  <2>1. /\ InsertAt(s, 0 + 1, x) \in Seq(Nodes) /\ Len(InsertAt(s, 0 + 1, x)) = Len(s) + 1
        /\ \A i \in 0 + 2 .. Len(s) + 1 : InsertAt(s, 0 + 1, x)[i] = s[i - 1]
    BY <1>1, InsertAtIs
  <2>2. 0 + 1 = 1 /\ 0 + 2 = 2
    OBVIOUS
  <2> QED
    BY <2>1, <2>2
<1> HIDE DEF t
<1>3. /\ u \in Seq(Nodes) /\ Len(u) = Len(t) - (k + 1)
      /\ \A i \in 1 .. Len(t) - (k + 1) : u[i] = t[(k + 1) + i]
  <2>1. k + 1 \in 0 .. Len(t)
    BY <1>1, <1>2
  <2> QED
    BY <1>2, <2>1, AheadIs
<1>4. /\ v \in Seq(Nodes) /\ Len(v) = Len(s) - k
      /\ \A i \in 1 .. Len(s) - k : v[i] = s[k + i]
  BY AheadIs
<1> HIDE DEF u, v
<1>5. Len(u) = Len(v)
  BY <1>1, <1>2, <1>3, <1>4
<1>6. ASSUME NEW i \in 1 .. Len(u)
      PROVE  u[i] = v[i]
  <2>1. /\ i \in 1 .. Len(t) - (k + 1) /\ i \in 1 .. Len(s) - k
        /\ (k + 1) + i \in 2 .. Len(s) + 1 /\ ((k + 1) + i) - 1 = k + i
    BY <1>1, <1>2, <1>3
  <2>2. t[(k + 1) + i] = s[((k + 1) + i) - 1]
    BY <2>1, <1>2
  <2> QED
    BY <2>1, <2>2, <1>3, <1>4
<1>7. u = v
  BY <1>3, <1>4, <1>5, <1>6, SeqEqual
<1> QED
  BY <1>7 DEF t, u, v

LEMMA AheadOfBack ==
  ASSUME NEW s \in Seq(Nodes), NEW x \in Nodes, NEW k \in 0 .. Len(s)
  PROVE  LET t == InsertAt(s, Len(s) + 1, x) IN
         SubSeq(t, k + 1, Len(t)) = Append(SubSeq(s, k + 1, Len(s)), x)
<1> DEFINE t == InsertAt(s, Len(s) + 1, x)
           u == SubSeq(t, k + 1, Len(t))
           v == SubSeq(s, k + 1, Len(s))
           w == Append(v, x)
<1>1. Len(s) \in Nat /\ Len(s) \in 0 .. Len(s)
  BY LenProperties
<1>2. /\ t \in Seq(Nodes) /\ Len(t) = Len(s) + 1 /\ t[Len(s) + 1] = x
      /\ \A i \in 1 .. Len(s) : t[i] = s[i]
  BY <1>1, InsertAtIs, ZenonT(30)
<1> HIDE DEF t
<1>3. /\ u \in Seq(Nodes) /\ Len(u) = Len(t) - k
      /\ \A i \in 1 .. Len(t) - k : u[i] = t[k + i]
  <2>1. k \in 0 .. Len(t)
    BY <1>1, <1>2
  <2> QED
    BY <1>2, <2>1, AheadIs
<1>4. /\ v \in Seq(Nodes) /\ Len(v) = Len(s) - k
      /\ \A i \in 1 .. Len(s) - k : v[i] = s[k + i]
  BY AheadIs
<1> HIDE DEF u, v
<1>5. /\ w \in Seq(Nodes) /\ Len(w) = Len(v) + 1 /\ w[Len(v) + 1] = x
      /\ \A i \in 1 .. Len(v) : w[i] = v[i]
  BY <1>4, AppendProperties
<1> HIDE DEF w
<1>6. Len(u) = Len(w)
  BY <1>1, <1>2, <1>3, <1>4, <1>5
<1>7. ASSUME NEW i \in 1 .. Len(u)
      PROVE  u[i] = w[i]
  <2>1. i \in 1 .. Len(t) - k /\ u[i] = t[k + i]
    BY <1>3
  <2>2. CASE i = Len(v) + 1
    <3>1. k + i = Len(s) + 1
      BY <1>1, <1>4, <2>2
    <3> QED
      BY <2>1, <2>2, <3>1, <1>2, <1>5
  <2>3. CASE i # Len(v) + 1
    <3>1. i \in 1 .. Len(s) - k /\ i \in 1 .. Len(v) /\ k + i \in 1 .. Len(s)
      BY <2>1, <2>3, <1>1, <1>2, <1>4
    <3> QED
      BY <2>1, <3>1, <1>2, <1>4, <1>5
  <2> QED
    BY <2>2, <2>3
<1>8. u = w
  BY <1>3, <1>5, <1>6, <1>7, SeqEqual
<1> QED
  BY <1>8 DEF t, u, v, w

LEMMA AheadOfDeleted ==
  ASSUME NEW s \in Seq(Nodes), NEW j \in 1 .. Len(s), NEW k \in 0 .. Len(s)
  PROVE  LET t == RemoveAt(s, j)
             v == SubSeq(s, k + 1, Len(s))
         IN  /\ j <= k => SubSeq(t, (k - 1) + 1, Len(t)) = v
             /\ j > k => SubSeq(t, k + 1, Len(t)) = RemoveAt(v, j - k)
<1> DEFINE t == RemoveAt(s, j)
           v == SubSeq(s, k + 1, Len(s))
<1>1. Len(s) \in Nat
  BY LenProperties
<1>2. /\ t \in Seq(Nodes) /\ Len(t) = Len(s) - 1
      /\ \A i \in 1 .. j - 1 : t[i] = s[i]
      /\ \A i \in j .. Len(s) - 1 : t[i] = s[i + 1]
  BY RemoveAtIs
<1>3. /\ v \in Seq(Nodes) /\ Len(v) = Len(s) - k
      /\ \A i \in 1 .. Len(s) - k : v[i] = s[k + i]
  BY AheadIs
<1> HIDE DEF t, v
<1>4. ASSUME j <= k
      PROVE  SubSeq(t, (k - 1) + 1, Len(t)) = v
  <2> DEFINE u == SubSeq(t, (k - 1) + 1, Len(t))
  <2>1. /\ u \in Seq(Nodes) /\ Len(u) = Len(t) - (k - 1)
        /\ \A i \in 1 .. Len(t) - (k - 1) : u[i] = t[(k - 1) + i]
    <3>1. k - 1 \in 0 .. Len(t)
      BY <1>1, <1>2, <1>4
    <3> QED
      BY <1>2, <3>1, AheadIs
  <2> HIDE DEF u
  <2>2. Len(u) = Len(v)
    BY <1>1, <1>2, <1>3, <2>1
  <2>3. ASSUME NEW i \in 1 .. Len(u)
        PROVE  u[i] = v[i]
    <3>1. /\ i \in 1 .. Len(t) - (k - 1) /\ i \in 1 .. Len(s) - k
          /\ (k - 1) + i \in j .. Len(s) - 1 /\ ((k - 1) + i) + 1 = k + i
      BY <1>1, <1>2, <1>4, <2>1
    <3>2. t[(k - 1) + i] = s[((k - 1) + i) + 1]
      BY <3>1, <1>2
    <3> QED
      BY <3>1, <3>2, <2>1, <1>3
  <2>4. u = v
    BY <1>3, <2>1, <2>2, <2>3, SeqEqual
  <2> QED
    BY <2>4 DEF u
<1>5. ASSUME j > k
      PROVE  SubSeq(t, k + 1, Len(t)) = RemoveAt(v, j - k)
  <2> DEFINE u == SubSeq(t, k + 1, Len(t))
             w == RemoveAt(v, j - k)
  <2>1. /\ u \in Seq(Nodes) /\ Len(u) = Len(t) - k
        /\ \A i \in 1 .. Len(t) - k : u[i] = t[k + i]
    <3>1. k \in 0 .. Len(t)
      BY <1>1, <1>2, <1>5
    <3> QED
      BY <1>2, <3>1, AheadIs
  <2>2. /\ w \in Seq(Nodes) /\ Len(w) = Len(v) - 1
        /\ \A i \in 1 .. (j - k) - 1 : w[i] = v[i]
        /\ \A i \in j - k .. Len(v) - 1 : w[i] = v[i + 1]
    <3>1. j - k \in 1 .. Len(v)
      BY <1>1, <1>3, <1>5
    <3> QED
      BY <1>3, <3>1, RemoveAtIs
  <2> HIDE DEF u, w
  <2>3. Len(u) = Len(w)
    BY <1>1, <1>2, <1>3, <2>1, <2>2
  <2>4. ASSUME NEW i \in 1 .. Len(u)
        PROVE  u[i] = w[i]
    <3>1. i \in 1 .. Len(t) - k /\ u[i] = t[k + i]
      BY <2>1
    <3>2. CASE i < j - k
      <4>1. i \in 1 .. (j - k) - 1 /\ k + i \in 1 .. j - 1 /\ i \in 1 .. Len(s) - k
        BY <3>1, <3>2, <1>1, <1>2
      <4> QED
        BY <3>1, <4>1, <1>2, <1>3, <2>2
    <3>3. CASE ~(i < j - k)
      <4>1. /\ i \in j - k .. Len(v) - 1 /\ k + i \in j .. Len(s) - 1
            /\ i + 1 \in 1 .. Len(s) - k /\ (k + i) + 1 = k + (i + 1)
        BY <3>1, <3>3, <1>1, <1>2, <1>3
      <4>2. t[k + i] = s[(k + i) + 1]
        BY <4>1, <1>2
      <4> QED
        BY <3>1, <4>1, <4>2, <1>3, <2>2
    <3> QED
      BY <3>2, <3>3
  <2>5. u = w
    BY <2>1, <2>2, <2>3, <2>4, SeqEqual
  <2> QED
    BY <2>5 DEF u, w
<1> QED
  BY <1>4, <1>5 DEF t, v

LEMMA RemovedBehind ==
  ASSUME NEW a \in Seq(Nodes), NEW b \in Seq(Nodes), NEW i \in 1 .. Len(b)
  PROVE  a \o RemoveAt(b, i) = RemoveAt(a \o b, Len(a) + i)
<1> DEFINE c == RemoveAt(b, i)
           z == a \o b
           u == a \o c
           w == RemoveAt(z, Len(a) + i)
           n == Len(a)
<1>1. n \in Nat /\ Len(b) \in Nat
  BY LenProperties
<1>2. /\ c \in Seq(Nodes) /\ Len(c) = Len(b) - 1
      /\ \A m \in 1 .. i - 1 : c[m] = b[m]
      /\ \A m \in i .. Len(b) - 1 : c[m] = b[m + 1]
  BY RemoveAtIs
<1>3. /\ z \in Seq(Nodes) /\ Len(z) = n + Len(b)
      /\ \A m \in 1 .. n + Len(b) : z[m] = IF m <= n THEN a[m] ELSE b[m - n]
  BY ConcatProperties
<1> HIDE DEF c, z
<1>4. /\ u \in Seq(Nodes) /\ Len(u) = n + Len(c)
      /\ \A m \in 1 .. n + Len(c) : u[m] = IF m <= n THEN a[m] ELSE c[m - n]
  BY <1>2, ConcatProperties
<1>5. /\ w \in Seq(Nodes) /\ Len(w) = Len(z) - 1
      /\ \A m \in 1 .. (n + i) - 1 : w[m] = z[m]
      /\ \A m \in n + i .. Len(z) - 1 : w[m] = z[m + 1]
  <2>1. n + i \in 1 .. Len(z)
    BY <1>1, <1>3
  <2> QED
    BY <1>3, <2>1, RemoveAtIs
<1> HIDE DEF u, w
<1>6. Len(u) = Len(w)
  BY <1>1, <1>2, <1>3, <1>4, <1>5
<1>7. ASSUME NEW m \in 1 .. Len(u)
      PROVE  u[m] = w[m]
  <2>1. m \in 1 .. n + Len(c) /\ n + Len(c) = (n + Len(b)) - 1
    BY <1>1, <1>2, <1>4
  <2>2. CASE m <= n
    <3>1. m \in 1 .. (n + i) - 1 /\ m \in 1 .. n + Len(b)
      BY <2>1, <2>2, <1>1
    <3> QED
      BY <2>1, <2>2, <3>1, <1>3, <1>4, <1>5
  <2>3. CASE m > n /\ m < n + i
    <3>1. m \in 1 .. (n + i) - 1 /\ m \in 1 .. n + Len(b) /\ m - n \in 1 .. i - 1 /\ ~(m <= n)
      BY <2>1, <2>3, <1>1
    <3> QED
      BY <2>1, <3>1, <1>2, <1>3, <1>4, <1>5
  <2>4. CASE m >= n + i
    <3>1. /\ m \in n + i .. Len(z) - 1 /\ m + 1 \in 1 .. n + Len(b)
          /\ m - n \in i .. Len(b) - 1 /\ ~(m <= n) /\ ~(m + 1 <= n)
          /\ (m + 1) - n = (m - n) + 1
      BY <2>1, <2>4, <1>1, <1>3
    <3>2. w[m] = z[m + 1] /\ z[m + 1] = b[(m + 1) - n]
      BY <3>1, <1>3, <1>5
    <3>3. u[m] = c[m - n] /\ c[m - n] = b[(m - n) + 1]
      BY <2>1, <3>1, <1>2, <1>4
    <3> QED
      BY <3>1, <3>2, <3>3
  <2> QED
    BY <2>2, <2>3, <2>4, <2>1, <1>1
<1>8. u = w
  BY <1>4, <1>5, <1>6, <1>7, SeqEqual
<1> QED
  BY <1>8 DEF c, z, u, w
---------------------------------------------------------------------------
(* A list backwards, with one node more or less. *)
LEMMA InsertedFront ==
  ASSUME NEW s \in Seq(Nodes), NEW x \in Nodes
  PROVE  LET t == InsertAt(s, 1, x) IN
         /\ t \in Seq(Nodes) /\ Len(t) = Len(s) + 1 /\ t[1] = x
         /\ \A i \in 2 .. Len(s) + 1 : t[i] = s[i - 1]
<1>1. 0 \in 0 .. Len(s) /\ 0 + 1 = 1 /\ 0 + 2 = 2
  BY LenProperties
<1>2. /\ InsertAt(s, 0 + 1, x) \in Seq(Nodes) /\ Len(InsertAt(s, 0 + 1, x)) = Len(s) + 1
      /\ InsertAt(s, 0 + 1, x)[0 + 1] = x
      /\ \A i \in 0 + 2 .. Len(s) + 1 : InsertAt(s, 0 + 1, x)[i] = s[i - 1]
  BY <1>1, InsertAtIs
<1> QED
  BY <1>1, <1>2

LEMMA InsertedBack ==
  ASSUME NEW s \in Seq(Nodes), NEW x \in Nodes
  PROVE  LET t == InsertAt(s, Len(s) + 1, x) IN
         /\ t \in Seq(Nodes) /\ Len(t) = Len(s) + 1 /\ t[Len(s) + 1] = x
         /\ \A i \in 1 .. Len(s) : t[i] = s[i]
<1>1. Len(s) \in 0 .. Len(s)
  BY LenProperties
<1> QED
  BY <1>1, InsertAtIs, ZenonT(30)

LEMMA ReverseInserted ==
  ASSUME NEW s \in Seq(Nodes), NEW x \in Nodes
  PROVE  /\ Reverse(InsertAt(s, 1, x)) = InsertAt(Reverse(s), Len(Reverse(s)) + 1, x)
         /\ Reverse(InsertAt(s, Len(s) + 1, x)) = InsertAt(Reverse(s), 1, x)
<1> DEFINE n == Len(s)
           r == Reverse(s)
           f == InsertAt(s, 1, x)
           b == InsertAt(s, n + 1, x)
           rf == Reverse(f)
           rb == Reverse(b)
           fr == InsertAt(r, 1, x)
           br == InsertAt(r, Len(r) + 1, x)
<1>1. n \in Nat
  BY LenProperties
<1>2. /\ r \in Seq(Nodes) /\ Len(r) = n
      /\ \A i \in 1 .. n : r[i] = s[(n - i) + 1]
  BY ReverseIs
<1>3. /\ f \in Seq(Nodes) /\ Len(f) = n + 1 /\ f[1] = x
      /\ \A i \in 2 .. n + 1 : f[i] = s[i - 1]
  BY InsertedFront
<1>4. /\ b \in Seq(Nodes) /\ Len(b) = n + 1 /\ b[n + 1] = x
      /\ \A i \in 1 .. n : b[i] = s[i]
  BY InsertedBack
<1> HIDE DEF r, f, b
<1>5. /\ fr \in Seq(Nodes) /\ Len(fr) = Len(r) + 1 /\ fr[1] = x
      /\ \A i \in 2 .. Len(r) + 1 : fr[i] = r[i - 1]
  BY <1>2, InsertedFront
<1>6. /\ br \in Seq(Nodes) /\ Len(br) = Len(r) + 1 /\ br[Len(r) + 1] = x
      /\ \A i \in 1 .. Len(r) : br[i] = r[i]
  BY <1>2, InsertedBack
<1>7. /\ rf \in Seq(Nodes) /\ Len(rf) = Len(f)
      /\ \A i \in 1 .. Len(f) : rf[i] = f[(Len(f) - i) + 1]
  BY <1>3, ReverseIs
<1>8. /\ rb \in Seq(Nodes) /\ Len(rb) = Len(b)
      /\ \A i \in 1 .. Len(b) : rb[i] = b[(Len(b) - i) + 1]
  BY <1>4, ReverseIs
<1> HIDE DEF n, rf, rb, fr, br
<1>9. rf = br
  <2>1. Len(rf) = Len(br)
    BY <1>2, <1>3, <1>6, <1>7
  <2>2. ASSUME NEW i \in 1 .. Len(rf)
        PROVE  rf[i] = br[i]
    <3>1. i \in 1 .. n + 1 /\ rf[i] = f[((n + 1) - i) + 1]
      BY <1>3, <1>7
    <3>2. CASE i = n + 1
      BY <3>1, <3>2, <1>1, <1>2, <1>3, <1>6
    <3>3. CASE i # n + 1
      <4>1. /\ i \in 1 .. n /\ ((n + 1) - i) + 1 \in 2 .. n + 1
            /\ (((n + 1) - i) + 1) - 1 = (n - i) + 1
        BY <3>1, <3>3, <1>1
      <4>2. f[((n + 1) - i) + 1] = s[(((n + 1) - i) + 1) - 1]
        BY <4>1, <1>3
      <4> QED
        BY <3>1, <4>1, <4>2, <1>2, <1>6
    <3> QED
      BY <3>2, <3>3
  <2> QED
    BY <2>1, <2>2, <1>6, <1>7, SeqEqual
<1>10. rb = fr
  <2>1. Len(rb) = Len(fr)
    BY <1>2, <1>4, <1>5, <1>8
  <2>2. ASSUME NEW i \in 1 .. Len(rb)
        PROVE  rb[i] = fr[i]
    <3>1. i \in 1 .. n + 1 /\ rb[i] = b[((n + 1) - i) + 1]
      BY <1>4, <1>8
    <3>2. CASE i = 1
      <4>1. ((n + 1) - 1) + 1 = n + 1
        BY <1>1
      <4> QED
        BY <3>1, <3>2, <4>1, <1>4, <1>5
    <3>3. CASE i # 1
      <4>1. /\ i \in 2 .. n + 1 /\ i - 1 \in 1 .. n /\ ((n + 1) - i) + 1 \in 1 .. n
            /\ (n - (i - 1)) + 1 = ((n + 1) - i) + 1
        BY <3>1, <3>3, <1>1
      <4>2. fr[i] = r[i - 1] /\ r[i - 1] = s[(n - (i - 1)) + 1]
        BY <4>1, <1>2, <1>5
      <4>3. b[((n + 1) - i) + 1] = s[((n + 1) - i) + 1]
        BY <4>1, <1>4
      <4> QED
        BY <3>1, <4>1, <4>2, <4>3
    <3> QED
      BY <3>2, <3>3
  <2> QED
    BY <2>1, <2>2, <1>5, <1>8, SeqEqual
<1> QED
  BY <1>9, <1>10 DEF n, r, f, b, rf, rb, fr, br

LEMMA ReverseRemoved ==
  ASSUME NEW s \in Seq(Nodes), NEW j \in 1 .. Len(s)
  PROVE  Reverse(RemoveAt(s, j)) = RemoveAt(Reverse(s), (Len(s) - j) + 1)
<1> DEFINE n == Len(s)
           h == (n - j) + 1
           r == Reverse(s)
           t == RemoveAt(s, j)
           u == Reverse(t)
           v == RemoveAt(r, h)
<1>1. n \in Nat /\ h \in 1 .. n
  BY LenProperties
<1>2. /\ r \in Seq(Nodes) /\ Len(r) = n
      /\ \A i \in 1 .. n : r[i] = s[(n - i) + 1]
  BY ReverseIs
<1>3. /\ t \in Seq(Nodes) /\ Len(t) = n - 1
      /\ \A i \in 1 .. j - 1 : t[i] = s[i]
      /\ \A i \in j .. n - 1 : t[i] = s[i + 1]
  BY RemoveAtIs
<1> HIDE DEF r, t
<1>4. /\ u \in Seq(Nodes) /\ Len(u) = Len(t)
      /\ \A i \in 1 .. Len(t) : u[i] = t[(Len(t) - i) + 1]
  BY <1>3, ReverseIs
<1>5. /\ v \in Seq(Nodes) /\ Len(v) = Len(r) - 1
      /\ \A i \in 1 .. h - 1 : v[i] = r[i]
      /\ \A i \in h .. Len(r) - 1 : v[i] = r[i + 1]
  <2>1. h \in 1 .. Len(r)
    BY <1>1, <1>2
  <2> HIDE DEF h
  <2> QED
    BY <1>2, <2>1, RemoveAtIs
<1> HIDE DEF u, v
<1>6. Len(u) = Len(v)
  BY <1>2, <1>3, <1>4, <1>5
<1>7. ASSUME NEW i \in 1 .. Len(u)
      PROVE  u[i] = v[i]
  <2>1. i \in 1 .. n - 1 /\ u[i] = t[((n - 1) - i) + 1]
    BY <1>3, <1>4
  <2>2. CASE i < h
    <3>1. /\ i \in 1 .. h - 1 /\ i \in 1 .. n /\ ((n - 1) - i) + 1 \in j .. n - 1
          /\ (((n - 1) - i) + 1) + 1 = (n - i) + 1
      BY <2>1, <2>2, <1>1
    <3>2. v[i] = r[i] /\ r[i] = s[(n - i) + 1]
      BY <3>1, <1>2, <1>5
    <3>3. t[((n - 1) - i) + 1] = s[(((n - 1) - i) + 1) + 1]
      BY <3>1, <1>3
    <3> QED
      BY <2>1, <3>1, <3>2, <3>3
  <2>3. CASE ~(i < h)
    <3>1. /\ i \in h .. Len(r) - 1 /\ i + 1 \in 1 .. n /\ ((n - 1) - i) + 1 \in 1 .. j - 1
          /\ (n - (i + 1)) + 1 = ((n - 1) - i) + 1
      BY <2>1, <2>3, <1>1, <1>2
    <3>2. v[i] = r[i + 1] /\ r[i + 1] = s[(n - (i + 1)) + 1]
      BY <3>1, <1>2, <1>5
    <3>3. t[((n - 1) - i) + 1] = s[((n - 1) - i) + 1]
      BY <3>1, <1>3
    <3> QED
      BY <2>1, <3>1, <3>2, <3>3
  <2> QED
    BY <2>2, <2>3
<1>8. u = v
  BY <1>4, <1>5, <1>6, <1>7, SeqEqual
<1> QED
  BY <1>8 DEF n, h, r, t, u, v
---------------------------------------------------------------------------
(* A loop goes on when its list changes. *)
LEMMA MeetsFront ==
  ASSUME NEW w, w.list \in Lists, NEW s \in Seq(Nodes), NEW x \in Nodes,
         NEW k \in 0 .. Len(s), Meets(w, s, k)
  PROVE  Meets(w, InsertAt(s, 1, x), k + 1)
<1> DEFINE t == InsertAt(s, 1, x)
<1>1. Len(s) \in Nat /\ 0 \in 0 .. Len(s) /\ 0 + 1 = 1 /\ 0 + 2 = 2
  BY LenProperties
<1>2. /\ t \in Seq(Nodes) /\ Len(t) = Len(s) + 1
      /\ \A i \in 2 .. Len(s) + 1 : t[i] = s[i - 1]
  BY InsertedFront
<1>3. \A i \in 2 .. Len(s) + 2 : Spot(w.list, t, i) = Spot(w.list, s, i - 1)
  <2>1. \A i \in 0 + 2 .. Len(s) + 2 :
          Spot(w.list, InsertAt(s, 0 + 1, x), i) = Spot(w.list, s, i - 1)
    BY <1>1, SpotInserted
  <2> QED
    BY <1>1, <2>1
<1>4. SubSeq(t, (k + 1) + 1, Len(t)) = SubSeq(s, k + 1, Len(s))
  BY AheadOfFront
<1> HIDE DEF t
<1>5. CASE w.safe
  <2>1. (k + 1) + 1 \in 2 .. Len(s) + 2 /\ ((k + 1) + 1) - 1 = k + 1
    BY <1>1
  <2>2. Spot(w.list, t, (k + 1) + 1) = Spot(w.list, s, ((k + 1) + 1) - 1)
    BY <2>1, <1>3
  <2> QED
    BY <2>1, <2>2, <1>4, <1>5 DEF Meets, t
<1>6. CASE ~w.safe
  <2>1. k > 0 /\ w.pos = s[k]
    BY <1>6 DEF Meets
  <2>2. k + 1 \in 2 .. Len(s) + 1 /\ (k + 1) - 1 = k /\ k + 1 > 0
    BY <2>1, <1>1
  <2>3. t[k + 1] = s[(k + 1) - 1]
    BY <2>2, <1>2
  <2> QED
    BY <2>1, <2>2, <2>3, <1>4, <1>6 DEF Meets, t
<1> QED
  BY <1>5, <1>6

(* What is ahead begins with what is due, and no node is there twice, also *)
(* with a new node at the end.                                             *)
LEMMA OneMoreAhead ==
  ASSUME NEW z \in Seq(Nodes), Distinct(z), NEW due \in Seq(Nodes), Starts(due, z),
         NEW x \in Nodes, \A i \in 1 .. Len(z) : z[i] # x
  PROVE  Distinct(Append(z, x)) /\ Starts(due, Append(z, x))
<1> DEFINE y == Append(z, x)
<1>1. /\ y \in Seq(Nodes) /\ Len(y) = Len(z) + 1 /\ y[Len(z) + 1] = x
      /\ \A i \in 1 .. Len(z) : y[i] = z[i]
      /\ Len(z) \in Nat /\ Len(due) \in Nat
  BY AppendProperties, LenProperties
<1> HIDE DEF y
<1>2. Distinct(y)
  <2> SUFFICES ASSUME NEW i \in 1 .. Len(y), NEW j \in 1 .. Len(y), y[i] = y[j]
               PROVE  i = j
    BY DEF Distinct
  <2>1. CASE i \in 1 .. Len(z) /\ j \in 1 .. Len(z)
    BY <2>1, <1>1 DEF Distinct
  <2>2. CASE i = Len(z) + 1 /\ j \in 1 .. Len(z)
    BY <2>2, <1>1
  <2>3. CASE i \in 1 .. Len(z) /\ j = Len(z) + 1
    BY <2>3, <1>1
  <2>4. i \in 1 .. Len(z) \/ i = Len(z) + 1
    BY <1>1
  <2>5. j \in 1 .. Len(z) \/ j = Len(z) + 1
    BY <1>1
  <2> QED
    BY <2>1, <2>2, <2>3, <2>4, <2>5
<1>3. Starts(due, y)
  <2>1. Len(due) <= Len(y)
    BY <1>1 DEF Starts
  <2>2. \A i \in 1 .. Len(due) : i \in 1 .. Len(z) /\ due[i] = z[i]
    BY <1>1 DEF Starts
  <2> QED
    BY <2>1, <2>2, <1>1 DEF Starts
<1> QED
  BY <1>2, <1>3 DEF y

LEMMA MeetsBack ==
  ASSUME NEW w, w.list \in Lists, w.seen \in Seq(Nodes), w.due \in Seq(Nodes),
         NEW s \in Seq(Nodes), NEW x \in Nodes,
         \A i \in 1 .. Len(w.seen) : w.seen[i] # x,
         \A i \in 1 .. Len(s) : s[i] # x,
         NEW k \in 0 .. Len(s), Meets(w, s, k)
  PROVE  \E m \in 0 .. Len(s) + 1 : Meets(w, InsertAt(s, Len(s) + 1, x), m)
<1> DEFINE t == InsertAt(s, Len(s) + 1, x)
           rest == SubSeq(s, k + 1, Len(s))
<1>1. Len(s) \in Nat /\ Len(s) \in 0 .. Len(s) /\ Len(w.seen) \in Nat
  BY LenProperties
<1>2. /\ t \in Seq(Nodes) /\ Len(t) = Len(s) + 1
      /\ \A i \in 1 .. Len(s) : t[i] = s[i]
  BY InsertedBack
<1>3. /\ rest \in Seq(Nodes) /\ Len(rest) = Len(s) - k
      /\ \A i \in 1 .. Len(s) - k : rest[i] = s[k + i]
  BY AheadIs
<1>4. SubSeq(t, k + 1, Len(t)) = Append(rest, x)
  BY AheadOfBack
<1>5. Distinct(w.seen \o rest) /\ Starts(w.due, w.seen \o rest)
  BY DEF Meets
<1> HIDE DEF t, rest
<1>6. CASE w.safe /\ k = Len(s)
  <2>1. w.tmp = w.list
    <3>1. w.tmp = Spot(w.list, s, Len(s) + 1)
      BY <1>6 DEF Meets
    <3> QED
      BY <3>1, <1>1 DEF Spot
  <2>2. Spot(w.list, t, (Len(s) + 1) + 1) = w.list
    <3>1. (Len(s) + 1) + 1 \notin 1 .. Len(t)
      BY <1>1, <1>2
    <3> QED
      BY <3>1 DEF Spot
  <2>3. SubSeq(t, (Len(s) + 1) + 1, Len(t)) = rest
    <3>1. SubSeq(t, (Len(s) + 1) + 1, Len(t)) = <<>>
      BY <1>1, <1>2, SubSeqEmpty
    <3>2. rest = <<>>
      BY <1>1, <1>3, <1>6, EmptySeq
    <3> QED
      BY <3>1, <3>2
  <2>4. Meets(w, t, Len(s) + 1)
    BY <2>1, <2>2, <2>3, <1>5, <1>6 DEF Meets
  <2>5. Len(s) + 1 \in 0 .. Len(s) + 1
    BY <1>1
  <2> QED
    BY <2>4, <2>5 DEF t
<1>7. CASE ~(w.safe /\ k = Len(s))
  <2> DEFINE z == w.seen \o rest
  <2>1. z \in Seq(Nodes) /\ \A i \in 1 .. Len(z) : z[i] # x
    <3>1. /\ z \in Seq(Nodes) /\ Len(z) = Len(w.seen) + Len(rest)
          /\ \A i \in 1 .. Len(w.seen) + Len(rest) :
               z[i] = IF i <= Len(w.seen) THEN w.seen[i] ELSE rest[i - Len(w.seen)]
      BY <1>3, ConcatProperties
    <3>2. ASSUME NEW i \in 1 .. Len(rest)
          PROVE  rest[i] # x
      <4>1. i \in 1 .. Len(s) - k /\ k + i \in 1 .. Len(s)
        BY <1>1, <1>3
      <4> QED
        BY <4>1, <1>3
    <3> HIDE DEF z
    <3>3. ASSUME NEW i \in 1 .. Len(z)
          PROVE  z[i] # x
      <4>1. i \in 1 .. Len(w.seen) + Len(rest)
        BY <3>1
      <4>2. CASE i <= Len(w.seen)
        BY <4>1, <4>2, <3>1, <1>1
      <4>3. CASE ~(i <= Len(w.seen))
        <5>1. i - Len(w.seen) \in 1 .. Len(rest)
          BY <4>1, <4>3, <1>1, <1>3
        <5> QED
          BY <4>1, <4>3, <5>1, <3>1, <3>2
      <4> QED
        BY <4>2, <4>3
    <3> QED
      BY <3>1, <3>3
  <2>2. w.seen \o Append(rest, x) = Append(z, x)
    <3>1. Append(rest, x) = rest \o <<x>> /\ Append(z, x) = z \o <<x>>
      BY <1>3, <2>1, AppendIsConcat
    <3>2. <<x>> \in Seq(Nodes)
      OBVIOUS
    <3> DEFINE seen == w.seen
    <3>3. seen \in Seq(Nodes)
      OBVIOUS
    <3>4. z = seen \o rest
      OBVIOUS
    <3> HIDE DEF z, seen
    <3>5. (seen \o rest) \o <<x>> = seen \o (rest \o <<x>>)
      BY <3>2, <3>3, <1>3, ConcatAssociative, SMTT(20)
    <3>6. seen \o Append(rest, x) = Append(z, x)
      BY <3>1, <3>4, <3>5
    <3> QED
      BY <3>6 DEF seen
  <2>3. Distinct(Append(z, x)) /\ Starts(w.due, Append(z, x))
    BY <2>1, <1>5, OneMoreAhead
  <2>4. IF w.safe THEN w.tmp = Spot(w.list, t, k + 1) ELSE k > 0 /\ w.pos = t[k]
    <3>1. CASE w.safe
      <4>1. k + 1 \in 1 .. Len(s) /\ k + 1 \in 1 .. Len(t)
        BY <3>1, <1>1, <1>2, <1>7
      <4>2. Spot(w.list, t, k + 1) = Spot(w.list, s, k + 1)
        BY <4>1, <1>2 DEF Spot
      <4> QED
        BY <3>1, <4>2 DEF Meets
    <3>2. CASE ~w.safe
      <4>1. k > 0 /\ w.pos = s[k]
        BY <3>2 DEF Meets
      <4>2. k \in 1 .. Len(s)
        BY <4>1, <1>1
      <4> QED
        BY <3>2, <4>1, <4>2, <1>2
    <3> QED
      BY <3>1, <3>2
  <2> HIDE DEF z
  <2>5. Meets(w, t, k)
    BY <2>2, <2>3, <2>4, <1>4 DEF Meets
  <2>6. k \in 0 .. Len(s) + 1
    BY <1>1
  <2> QED
    BY <2>5, <2>6 DEF t
<1> QED
  BY <1>6, <1>7

(* The nodes met and those ahead, without one that is ahead. *)
LEMMA OneLessAhead ==
  ASSUME NEW z \in Seq(Nodes), Distinct(z), NEW due \in Seq(Nodes), Starts(due, z),
         NEW p \in 1 .. Len(z)
  PROVE  /\ Distinct(RemoveAt(z, p))
         /\ RemoveFirst(due, z[p]) \in Seq(Nodes)
         /\ Starts(RemoveFirst(due, z[p]), RemoveAt(z, p))
<1> DEFINE y == RemoveAt(z, p)
           x == z[p]
<1>1. /\ Len(z) \in Nat /\ Len(due) \in Nat /\ Len(due) <= Len(z)
      /\ \A i \in 1 .. Len(due) : i \in 1 .. Len(z) /\ due[i] = z[i]
  BY LenProperties DEF Starts
<1>2. /\ y \in Seq(Nodes) /\ Len(y) = Len(z) - 1
      /\ \A i \in 1 .. p - 1 : y[i] = z[i]
      /\ \A i \in p .. Len(z) - 1 : y[i] = z[i + 1]
  BY RemoveAtIs
<1> HIDE DEF y
<1>3. Distinct(due)
  BY <1>1 DEF Distinct
<1>4. Distinct(y)
  <2> DEFINE From(i) == IF i < p THEN i ELSE i + 1
  <2>1. \A i \in 1 .. Len(y) : From(i) \in 1 .. Len(z) /\ y[i] = z[From(i)]
    <3> SUFFICES ASSUME NEW i \in 1 .. Len(y)
                 PROVE  From(i) \in 1 .. Len(z) /\ y[i] = z[From(i)]
      OBVIOUS
    <3>1. CASE i < p
      <4>1. i \in 1 .. p - 1 /\ i \in 1 .. Len(z) /\ From(i) = i
        BY <3>1, <1>1, <1>2
      <4> QED
        BY <4>1, <1>2
    <3>2. CASE ~(i < p)
      <4>1. From(i) = i + 1
        BY <3>2
      <4>2. i \in p .. Len(z) - 1 /\ i + 1 \in 1 .. Len(z)
        BY <3>2, <1>1, <1>2
      <4> QED
        BY <4>1, <4>2, <1>2
    <3> QED
      BY <3>1, <3>2
  <2>2. \A i, j \in 1 .. Len(y) : From(i) = From(j) => i = j
    BY <1>1, <1>2
  <2> HIDE DEF From
  <2> QED
    BY <2>1, <2>2 DEF Distinct
<1>5. CASE p <= Len(due)
  <2>1. p \in 1 .. Len(due) /\ due[p] = x
    BY <1>1, <1>5
  <2>2. RemoveFirst(due, due[p]) = RemoveAt(due, p)
    BY <1>3, <2>1, RemoveFirstIs
  <2> DEFINE v == RemoveAt(due, p)
  <2>3. /\ v \in Seq(Nodes) /\ Len(v) = Len(due) - 1
        /\ \A i \in 1 .. p - 1 : v[i] = due[i]
        /\ \A i \in p .. Len(due) - 1 : v[i] = due[i + 1]
    BY <2>1, RemoveAtIs
  <2> HIDE DEF v
  <2>4. ASSUME NEW i \in 1 .. Len(v)
        PROVE  v[i] = y[i]
    <3>1. CASE i < p
      <4>1. i \in 1 .. p - 1 /\ i \in 1 .. Len(due)
        BY <3>1, <1>1, <2>3
      <4> QED
        BY <4>1, <1>1, <1>2, <2>3
    <3>2. CASE ~(i < p)
      <4>1. i \in p .. Len(due) - 1 /\ i \in p .. Len(z) - 1 /\ i + 1 \in 1 .. Len(due)
        BY <3>2, <1>1, <2>3
      <4> QED
        BY <4>1, <1>1, <1>2, <2>3
    <3> QED
      BY <3>1, <3>2
  <2>5. Starts(v, y)
    BY <2>3, <2>4, <1>1, <1>2 DEF Starts
  <2> QED
    BY <2>1, <2>2, <2>3, <2>5, <1>4 DEF v, y
<1>6. CASE ~(p <= Len(due))
  <2>1. \A i \in 1 .. Len(due) : due[i] # x
    BY <1>1, <1>6 DEF Distinct
  <2>2. RemoveFirst(due, x) = due
    BY <1>3, <2>1, RemoveFirstIs
  <2>3. \A i \in 1 .. Len(due) : i \in 1 .. p - 1
    BY <1>1, <1>6
  <2>4. Starts(due, y)
    BY <2>3, <1>1, <1>2, <1>6 DEF Starts
  <2> QED
    BY <2>2, <2>4, <1>4 DEF y
<1> QED
  BY <1>5, <1>6

(* What a deletion leaves of the walk: due and nothing else changes. *)
Shortened(w, v, x) ==
  /\ v.list = w.list /\ v.safe = w.safe /\ v.pos = w.pos /\ v.tmp = w.tmp
  /\ v.seen = w.seen
  /\ v.due = IF x \in ToSet(w.seen) THEN w.due ELSE RemoveFirst(w.due, x)

(* A node that is not ahead. *)
LEMMA MeetsElsewhere ==
  ASSUME NEW w, NEW v, w.list \in Lists, w.seen \in Seq(Nodes), w.due \in Seq(Nodes),
         NEW s \in Seq(Nodes), NEW k \in 0 .. Len(s), Meets(w, s, k),
         NEW x \in Nodes, \A i \in k + 1 .. Len(s) : s[i] # x,
         Shortened(w, v, x)
  PROVE  v.due = w.due
<1> DEFINE rest == SubSeq(s, k + 1, Len(s))
           z == w.seen \o rest
<1>1. /\ rest \in Seq(Nodes) /\ Len(rest) = Len(s) - k
      /\ \A i \in 1 .. Len(s) - k : rest[i] = s[k + i]
  BY AheadIs
<1>2. Distinct(z) /\ Starts(w.due, z)
  BY DEF Meets
<1> HIDE DEF rest
<1>3. /\ z \in Seq(Nodes) /\ Len(z) = Len(w.seen) + Len(rest)
      /\ \A i \in 1 .. Len(w.seen) + Len(rest) :
           z[i] = IF i <= Len(w.seen) THEN w.seen[i] ELSE rest[i - Len(w.seen)]
  BY <1>1, ConcatProperties
<1> HIDE DEF z
<1>4. /\ Len(w.seen) \in Nat /\ Len(s) \in Nat /\ Len(w.due) \in Nat
      /\ DOMAIN w.seen = 1 .. Len(w.seen)
  BY LenProperties
<1>5. CASE x \in ToSet(w.seen)
  BY <1>5 DEF Shortened
<1>6. CASE x \notin ToSet(w.seen)
  <2>1. \A i \in 1 .. Len(w.seen) : w.seen[i] # x
    BY <1>4, <1>6 DEF ToSet
  <2>2. ASSUME NEW i \in 1 .. Len(z)
        PROVE  z[i] # x
    <3>1. i \in 1 .. Len(w.seen) + Len(rest)
      BY <1>3
    <3>2. CASE i <= Len(w.seen)
      BY <3>1, <3>2, <1>3, <1>4, <2>1
    <3>3. CASE ~(i <= Len(w.seen))
      <4> DEFINE m == i - Len(w.seen)
      <4>1. m \in 1 .. Len(s) - k
        BY <3>1, <3>3, <1>1, <1>4
      <4>2. z[i] = rest[m]
        BY <3>1, <3>3, <1>3
      <4> HIDE DEF m
      <4>3. k + m \in k + 1 .. Len(s)
        BY <4>1, <1>4
      <4> QED
        BY <4>1, <4>2, <4>3, <1>1
    <3> QED
      BY <3>2, <3>3
  <2>3. /\ \A i \in 1 .. Len(w.due) : i \in 1 .. Len(z) /\ w.due[i] = z[i]
    BY <1>2, <1>3, <1>4 DEF Starts
  <2>4. Distinct(w.due)
    BY <1>2, <2>3 DEF Distinct
  <2>5. \A i \in 1 .. Len(w.due) : w.due[i] # x
    BY <2>2, <2>3
  <2>6. RemoveFirst(w.due, x) = w.due
    BY <2>4, <2>5, RemoveFirstIs
  <2> QED
    BY <1>6, <2>6 DEF Shortened
<1> QED
  BY <1>5, <1>6

LEMMA MeetsDeleted ==
  ASSUME NEW w, NEW v, w.list \in Lists, w.seen \in Seq(Nodes), w.due \in Seq(Nodes),
         NEW s \in Seq(Nodes), Distinct(s), NEW k \in 0 .. Len(s), Meets(w, s, k),
         NEW j \in 1 .. Len(s), s[j] # (IF w.safe THEN w.tmp ELSE w.pos),
         Shortened(w, v, s[j])
  PROVE  v.due \in Seq(Nodes) /\ \E m \in 0 .. Len(s) - 1 : Meets(v, RemoveAt(s, j), m)
<1> DEFINE t == RemoveAt(s, j)
           rest == SubSeq(s, k + 1, Len(s))
           x == s[j]
<1>1. /\ Len(s) \in Nat /\ Len(w.seen) \in Nat /\ x \in Nodes
      /\ DOMAIN w.seen = 1 .. Len(w.seen)
  BY LenProperties
<1>2. /\ t \in Seq(Nodes) /\ Len(t) = Len(s) - 1
      /\ \A i \in 1 .. j - 1 : t[i] = s[i]
      /\ \A i \in j .. Len(s) - 1 : t[i] = s[i + 1]
  BY RemoveAtIs
<1>3. /\ \A i \in 0 .. j - 1 : Spot(w.list, t, i) = Spot(w.list, s, i)
      /\ \A i \in j .. Len(s) : Spot(w.list, t, i) = Spot(w.list, s, i + 1)
  BY SpotRemoved
<1>4. /\ rest \in Seq(Nodes) /\ Len(rest) = Len(s) - k
      /\ \A i \in 1 .. Len(s) - k : rest[i] = s[k + i]
  BY AheadIs
<1>5. Distinct(w.seen \o rest) /\ Starts(w.due, w.seen \o rest)
  BY DEF Meets
<1>6. /\ j <= k => SubSeq(t, (k - 1) + 1, Len(t)) = rest
      /\ j > k => SubSeq(t, k + 1, Len(t)) = RemoveAt(rest, j - k)
  BY AheadOfDeleted
<1>7. x # (IF w.safe THEN w.tmp ELSE w.pos) /\ Shortened(w, v, x)
  OBVIOUS
<1>8. \A i \in 1 .. Len(s) : s[i] = x => i = j
  BY DEF Distinct
<1> HIDE DEF t, rest, x
<1>9. CASE j <= k
  <2>1. v.due = w.due
    <3>1. \A i \in k + 1 .. Len(s) : s[i] # x
      BY <1>1, <1>8, <1>9
    <3> QED
      BY <1>1, <1>7, <3>1, MeetsElsewhere
  <2>2. IF v.safe THEN v.tmp = Spot(v.list, t, (k - 1) + 1) ELSE k - 1 > 0 /\ v.pos = t[k - 1]
    <3>1. CASE w.safe
      <4>1. k \in j .. Len(s) /\ (k - 1) + 1 = k
        BY <1>1, <1>9
      <4>2. w.tmp = Spot(w.list, s, k + 1)
        BY <3>1 DEF Meets
      <4> QED
        BY <3>1, <4>1, <4>2, <1>3, <1>7 DEF Shortened
    <3>2. CASE ~w.safe
      <4>1. k > 0 /\ w.pos = s[k] /\ x # w.pos
        BY <3>2, <1>7 DEF Meets
      <4>2. k # j
        BY <4>1 DEF x
      <4>3. k - 1 \in j .. Len(s) - 1 /\ (k - 1) + 1 = k /\ k - 1 > 0
        BY <4>2, <1>1, <1>9
      <4>4. t[k - 1] = s[(k - 1) + 1]
        BY <4>3, <1>2
      <4> QED
        BY <3>2, <4>1, <4>3, <4>4, <1>7 DEF Shortened
    <3> QED
      BY <3>1, <3>2
  <2>3. SubSeq(t, (k - 1) + 1, Len(t)) = rest /\ v.seen = w.seen
    BY <1>6, <1>7, <1>9 DEF Shortened
  <2>4. Meets(v, t, k - 1)
    BY <2>1, <2>2, <2>3, <1>5 DEF Meets
  <2>5. k - 1 \in 0 .. Len(s) - 1
    BY <1>1, <1>9
  <2> QED
    BY <2>1, <2>4, <2>5 DEF t
<1>10. CASE j > k
  <2> DEFINE i == j - k
             z == w.seen \o rest
             p == Len(w.seen) + i
  <2>1. i \in 1 .. Len(s) - k /\ k + i = j
    BY <1>1, <1>10
  <2>2. /\ z \in Seq(Nodes) /\ Len(z) = Len(w.seen) + Len(rest)
        /\ \A m \in 1 .. Len(w.seen) + Len(rest) :
             z[m] = IF m <= Len(w.seen) THEN w.seen[m] ELSE rest[m - Len(w.seen)]
    BY <1>4, ConcatProperties
  <2>3. w.seen \o RemoveAt(rest, i) = RemoveAt(z, p)
    <3>1. i \in 1 .. Len(rest)
      BY <2>1, <1>4
    <3> HIDE DEF i
    <3> QED
      BY <3>1, <1>4, RemovedBehind
  <2> HIDE DEF z
  <2>4. p \in 1 .. Len(z) /\ z[p] = x
    <3>1. /\ p \in 1 .. Len(w.seen) + Len(rest) /\ ~(p <= Len(w.seen)) /\ p - Len(w.seen) = i
      BY <2>1, <1>1, <1>4
    <3>2. z[p] = rest[i]
      BY <2>2, <3>1
    <3>3. rest[i] = s[j]
      BY <2>1, <1>4
    <3> QED
      BY <2>2, <3>1, <3>2, <3>3 DEF x
  <2>5. x \notin ToSet(w.seen)
    <3> SUFFICES ASSUME NEW m \in 1 .. Len(w.seen), w.seen[m] = x PROVE FALSE
      BY <1>1 DEF ToSet
    <3>1. m \in 1 .. Len(w.seen) + Len(rest) /\ m <= Len(w.seen) /\ m # p
      BY <2>1, <1>1, <1>4
    <3>2. z[m] = x /\ m \in 1 .. Len(z)
      BY <2>2, <3>1
    <3> QED
      BY <2>4, <3>1, <3>2, <1>5 DEF Distinct, z
  <2> HIDE DEF i, p
  <2>6. /\ Distinct(RemoveAt(z, p))
        /\ RemoveFirst(w.due, z[p]) \in Seq(Nodes)
        /\ Starts(RemoveFirst(w.due, z[p]), RemoveAt(z, p))
    <3>1. Distinct(z) /\ Starts(w.due, z)
      BY <1>5 DEF z
    <3> QED
      BY <3>1, <2>2, <2>4, OneLessAhead
  <2>7. v.due = RemoveFirst(w.due, z[p]) /\ v.seen = w.seen
    BY <2>4, <2>5, <1>7 DEF Shortened
  <2>8. v.seen \o SubSeq(t, k + 1, Len(t)) = RemoveAt(z, p)
    BY <2>3, <2>7, <1>6, <1>10 DEF i
  <2>9. IF v.safe THEN v.tmp = Spot(v.list, t, k + 1) ELSE k > 0 /\ v.pos = t[k]
    <3>1. CASE w.safe
      <4>1. w.tmp = Spot(w.list, s, k + 1) /\ x # w.tmp
        BY <3>1, <1>7 DEF Meets
      <4>2. k + 1 # j
        BY <4>1 DEF x, Spot
      <4>3. k + 1 \in 0 .. j - 1
        BY <4>2, <1>1, <1>10
      <4> QED
        BY <3>1, <4>1, <4>3, <1>3, <1>7 DEF Shortened
    <3>2. CASE ~w.safe
      <4>1. k > 0 /\ w.pos = s[k]
        BY <3>2 DEF Meets
      <4>2. k \in 1 .. j - 1
        BY <4>1, <1>1, <1>10
      <4> QED
        BY <3>2, <4>1, <4>2, <1>2, <1>7 DEF Shortened
    <3> QED
      BY <3>1, <3>2
  <2>10. Meets(v, t, k)
    BY <2>6, <2>7, <2>8, <2>9 DEF Meets
  <2>11. k \in 0 .. Len(s) - 1
    BY <1>1, <1>10
  <2> QED
    BY <2>6, <2>7, <2>10, <2>11 DEF t
<1> QED
  BY <1>9, <1>10, <1>1
---------------------------------------------------------------------------
(* The nodes of a list as a loop meets them. *)
LEMMA TowardIs ==
  ASSUME NEW r, NEW q, Holds(r, q), NEW l \in Lists, NEW dir \in {"next", "prev"}
  PROVE  LET s == Toward(q, l, dir) IN
         /\ s \in Seq(Nodes) /\ Len(s) = Len(q[l]) /\ Len(s) \in Nat
         /\ Distinct(s)
         /\ \A j \in 1 .. Len(q[l]) : s[IF dir = "next" THEN j ELSE (Len(q[l]) - j) + 1] = q[l][j]
<1> DEFINE s == q[l]
           t == Reverse(s)
<1>1. s \in Seq(Nodes) /\ Len(s) \in Nat /\ Distinct(s)
  BY Spots, HeldApart
<1>2. CASE dir = "next"
  BY <1>1, <1>2 DEF Toward
<1>3. CASE dir = "prev"
  <2>1. Toward(q, l, dir) = t
    BY <1>3 DEF Toward
  <2>2. /\ t \in Seq(Nodes) /\ Len(t) = Len(s)
        /\ \A i \in 1 .. Len(s) : t[i] = s[(Len(s) - i) + 1]
    BY <1>1, ReverseIs
  <2> HIDE DEF s, t
  <2>3. \A i \in 1 .. Len(s) : (Len(s) - i) + 1 \in 1 .. Len(s)
                               /\ (Len(s) - ((Len(s) - i) + 1)) + 1 = i
    BY <1>1
  <2>4. \A j \in 1 .. Len(s) : t[(Len(s) - j) + 1] = s[j]
    <3> SUFFICES ASSUME NEW j \in 1 .. Len(s) PROVE t[(Len(s) - j) + 1] = s[j]
      OBVIOUS
    <3>1. t[(Len(s) - j) + 1] = s[(Len(s) - ((Len(s) - j) + 1)) + 1]
      BY <2>2, <2>3
    <3> QED
      BY <2>3, <3>1
  <2>5. Distinct(t)
    <3> SUFFICES ASSUME NEW i \in 1 .. Len(t), NEW j \in 1 .. Len(t), t[i] = t[j]
                 PROVE  i = j
      BY DEF Distinct
    <3>1. /\ i \in 1 .. Len(s) /\ j \in 1 .. Len(s)
          /\ s[(Len(s) - i) + 1] = s[(Len(s) - j) + 1]
      BY <2>2
    <3>2. (Len(s) - i) + 1 = (Len(s) - j) + 1
      BY <1>1, <2>3, <3>1 DEF Distinct
    <3> QED
      BY <1>1, <3>1, <3>2
  <2>6. dir # "next"
    BY <1>3
  <2> QED
    BY <1>1, <2>1, <2>2, <2>4, <2>5, <2>6 DEF s
<1> QED
  BY <1>2, <1>3

LEMMA TowardAt ==
  ASSUME NEW r, NEW q, Holds(r, q), NEW l \in Lists, NEW dir \in {"next", "prev"},
         NEW j \in 1 .. Len(q[l]), NEW i, i = IF dir = "next" THEN j ELSE (Len(q[l]) - j) + 1
  PROVE  Toward(q, l, dir)[i] = q[l][j]
BY TowardIs

LEMMA TowardOff ==
  ASSUME NEW r, NEW q, Holds(r, q), NEW l \in Lists, NEW dir \in {"next", "prev"},
         NEW x, \A j \in 1 .. Len(q[l]) : q[l][j] # x,
         NEW i \in 1 .. Len(Toward(q, l, dir))
  PROVE  Toward(q, l, dir)[i] # x
<1>1. q[l] \in Seq(Nodes) /\ Len(q[l]) \in Nat
  BY Spots
<1>2. CASE dir = "next"
  BY <1>2 DEF Toward
<1>3. CASE dir = "prev"
  <2>1. Toward(q, l, dir) = Reverse(q[l])
    BY <1>3 DEF Toward
  <2>2. /\ Len(Reverse(q[l])) = Len(q[l])
        /\ \A j \in 1 .. Len(q[l]) : Reverse(q[l])[j] = q[l][(Len(q[l]) - j) + 1]
    BY <1>1, ReverseIs
  <2>3. i \in 1 .. Len(q[l]) /\ (Len(q[l]) - i) + 1 \in 1 .. Len(q[l])
    BY <1>1, <2>1, <2>2
  <2> QED
    BY <2>1, <2>2, <2>3
<1> QED
  BY <1>2, <1>3

(* A loop under way. *)
LEMMA WalkNow ==
  ASSUME IInv, Sequences(Now), Walking
  PROVE  LET s == Toward(Now, walk.list, walk.dir) IN
         /\ walk.list \in Lists /\ walk.dir \in {"next", "prev"} /\ walk.safe \in BOOLEAN
         /\ walk.seen \in Seq(Nodes) /\ walk.due \in Seq(Nodes)
         /\ s \in Seq(Nodes) /\ Len(s) = Len(Now[walk.list]) /\ Len(s) \in Nat
         /\ Distinct(s)
         /\ \E k \in 0 .. Len(s) : Meets(walk, s, k)
<1>1. walk.list \in Lists /\ walk.dir \in {"next", "prev"} /\ walk.safe \in BOOLEAN
  BY DEF IInv, TypeOK, Walking
<1>2. Holds(links, Now) /\ OnWalk(Now)
  BY DEF Sequences
<1> DEFINE s == Toward(Now, walk.list, walk.dir)
<1>3. /\ s \in Seq(Nodes) /\ Len(s) = Len(Now[walk.list]) /\ Len(s) \in Nat
      /\ Distinct(s)
  BY <1>1, <1>2, TowardIs
<1> HIDE DEF s
<1>4. /\ walk.seen \in Seq(Nodes) /\ walk.due \in Seq(Nodes)
      /\ \E k \in 0 .. Len(Now[walk.list]) : Meets(walk, s, k)
  BY <1>2 DEF OnWalk, s
<1> QED
  BY <1>1, <1>3, <1>4 DEF s

(* A node more at one of the ends of the list. *)
LEMMA OnWalkGrown ==
  ASSUME IInv, Sequences(Now), Walking, NEW n \in Nodes, ~On(Now, n),
         n \notin ToSet(walk.seen), NEW u,
         LET s == Toward(Now, walk.list, walk.dir)
         IN  u = InsertAt(s, 1, n) \/ u = InsertAt(s, Len(s) + 1, n)
  PROVE  \E m \in 0 .. Len(Now[walk.list]) + 1 : Meets(walk, u, m)
<1> DEFINE s == Toward(Now, walk.list, walk.dir)
<1>1. /\ walk.list \in Lists /\ walk.seen \in Seq(Nodes) /\ walk.due \in Seq(Nodes)
      /\ s \in Seq(Nodes) /\ Len(s) = Len(Now[walk.list]) /\ Len(s) \in Nat
      /\ \E k \in 0 .. Len(s) : Meets(walk, s, k)
  BY WalkNow
<1>2. PICK k \in 0 .. Len(s) : Meets(walk, s, k)
  BY <1>1
<1>3. u = InsertAt(s, 1, n) \/ u = InsertAt(s, Len(s) + 1, n)
  OBVIOUS
<1>4. \A j \in 1 .. Len(s) : s[j] # n
  <2>1. \A j \in 1 .. Len(Now[walk.list]) : Now[walk.list][j] # n
    BY <1>1 DEF On
  <2>2. Holds(links, Now) /\ walk.dir \in {"next", "prev"}
    BY WalkNow DEF Sequences
  <2> SUFFICES ASSUME NEW j \in 1 .. Len(s) PROVE s[j] # n
    OBVIOUS
  <2>3. Toward(Now, walk.list, walk.dir)[j] # n
    BY <1>1, <2>1, <2>2, TowardOff
  <2> QED
    BY <2>3
<1>5. \A j \in 1 .. Len(walk.seen) : walk.seen[j] # n
  <2>1. DOMAIN walk.seen = 1 .. Len(walk.seen)
    BY <1>1, LenProperties
  <2> QED
    BY <2>1 DEF ToSet
<1> HIDE DEF s
<1>6. CASE u = InsertAt(s, 1, n)
  <2>1. Meets(walk, InsertAt(s, 1, n), k + 1)
    BY <1>1, <1>2, MeetsFront
  <2>2. k + 1 \in 0 .. Len(Now[walk.list]) + 1
    BY <1>1
  <2> QED
    BY <2>1, <2>2, <1>6
<1>7. CASE u = InsertAt(s, Len(s) + 1, n)
  <2>1. \E m \in 0 .. Len(s) + 1 : Meets(walk, InsertAt(s, Len(s) + 1, n), m)
    BY <1>1, <1>2, <1>4, <1>5, MeetsBack
  <2> QED
    BY <2>1, <1>1, <1>7
<1> QED
  BY <1>3, <1>6, <1>7

LEMMA AddFrontOn ==
  ASSUME IInv, Sequences(Now), NEW n \in Nodes, NEW l \in Lists, AddFront(n, l)
  PROVE  Sequences(Now)'
<1>1. /\ Holds(links', Now') /\ ~On(Now, n)
      /\ Now' = [Now EXCEPT ![l] = InsertAt(@, 1, n)]
      /\ Now[l] \in Seq(Nodes) /\ Now \in [Lists -> Seq(Nodes)]
  BY AddFrontHolds DEF Sequences, Holds
<1>2. ~Merging /\ walk' = walk /\ merge' = merge /\ (l = walk.list => n \notin ToSet(walk.seen))
  BY DEF AddFront, MayAdd
<1>3. OnMerge(Now)'
  BY <1>2 DEF OnMerge, Merging
<1>4. CASE ~Walking
  BY <1>1, <1>2, <1>3, <1>4 DEF Sequences, OnWalk, Walking
<1>5. CASE Walking /\ walk.list # l
  <2>1. walk.list \in Lists
    BY <1>5, WalkNow
  <2>2. Now'[walk.list] = Now[walk.list]
    BY <1>1, <1>5, <2>1
  <2>3. OnWalk(Now)'
    BY <1>2, <1>5, <2>2 DEF Sequences, OnWalk, Walking, Toward
  <2> QED
    BY <1>1, <1>3, <2>3 DEF Sequences
<1>6. CASE Walking /\ walk.list = l
  <2> DEFINE s == Now[l]
             u == Toward(Now', walk.list, walk.dir)
  <2>1. /\ walk.dir \in {"next", "prev"} /\ walk.seen \in Seq(Nodes) /\ walk.due \in Seq(Nodes)
    BY <1>6, WalkNow
  <2>2. Now'[l] = InsertAt(s, 1, n)
    BY <1>1
  <2>3. /\ Reverse(InsertAt(s, 1, n)) = InsertAt(Reverse(s), Len(Reverse(s)) + 1, n)
        /\ Len(InsertAt(s, 1, n)) = Len(s) + 1
    BY <1>1, ReverseInserted, InsertedFront
  <2>4. \/ u = InsertAt(Toward(Now, l, walk.dir), 1, n)
        \/ u = InsertAt(Toward(Now, l, walk.dir), Len(Toward(Now, l, walk.dir)) + 1, n)
    BY <1>6, <2>1, <2>2, <2>3 DEF Toward
  <2> HIDE DEF u
  <2>5. \E m \in 0 .. Len(Now[walk.list]) + 1 : Meets(walk, u, m)
    BY <1>1, <1>2, <1>6, <2>4, OnWalkGrown
  <2>6. Len(Now'[walk.list]) = Len(Now[walk.list]) + 1
    BY <1>6, <2>2, <2>3
  <2>7. OnWalk(Now)'
    BY <1>2, <2>1, <2>5, <2>6 DEF OnWalk, u
  <2> QED
    BY <1>1, <1>3, <2>7 DEF Sequences
<1> QED
  BY <1>4, <1>5, <1>6

LEMMA AddTailOn ==
  ASSUME IInv, Sequences(Now), NEW n \in Nodes, NEW l \in Lists, AddTail(n, l)
  PROVE  Sequences(Now)'
<1>1. /\ Holds(links', Now') /\ ~On(Now, n)
      /\ Now' = [Now EXCEPT ![l] = InsertAt(@, Len(@) + 1, n)]
      /\ Now[l] \in Seq(Nodes) /\ Now \in [Lists -> Seq(Nodes)]
  BY AddTailHolds DEF Sequences, Holds
<1>2. ~Merging /\ walk' = walk /\ merge' = merge /\ (l = walk.list => n \notin ToSet(walk.seen))
  BY DEF AddTail, MayAdd
<1>3. OnMerge(Now)'
  BY <1>2 DEF OnMerge, Merging
<1>4. CASE ~Walking
  BY <1>1, <1>2, <1>3, <1>4 DEF Sequences, OnWalk, Walking
<1>5. CASE Walking /\ walk.list # l
  <2>1. walk.list \in Lists
    BY <1>5, WalkNow
  <2>2. Now'[walk.list] = Now[walk.list]
    BY <1>1, <1>5, <2>1
  <2>3. OnWalk(Now)'
    BY <1>2, <1>5, <2>2 DEF Sequences, OnWalk, Walking, Toward
  <2> QED
    BY <1>1, <1>3, <2>3 DEF Sequences
<1>6. CASE Walking /\ walk.list = l
  <2> DEFINE s == Now[l]
             u == Toward(Now', walk.list, walk.dir)
  <2>1. /\ walk.dir \in {"next", "prev"} /\ walk.seen \in Seq(Nodes) /\ walk.due \in Seq(Nodes)
    BY <1>6, WalkNow
  <2>2. Now'[l] = InsertAt(s, Len(s) + 1, n)
    BY <1>1
  <2>3. /\ Reverse(InsertAt(s, Len(s) + 1, n)) = InsertAt(Reverse(s), 1, n)
        /\ Len(InsertAt(s, Len(s) + 1, n)) = Len(s) + 1
    BY <1>1, ReverseInserted, InsertedBack
  <2>4. \/ u = InsertAt(Toward(Now, l, walk.dir), 1, n)
        \/ u = InsertAt(Toward(Now, l, walk.dir), Len(Toward(Now, l, walk.dir)) + 1, n)
    BY <1>6, <2>1, <2>2, <2>3 DEF Toward
  <2> HIDE DEF u
  <2>5. \E m \in 0 .. Len(Now[walk.list]) + 1 : Meets(walk, u, m)
    BY <1>1, <1>2, <1>6, <2>4, OnWalkGrown
  <2>6. Len(Now'[walk.list]) = Len(Now[walk.list]) + 1
    BY <1>6, <2>2, <2>3
  <2>7. OnWalk(Now)'
    BY <1>2, <2>1, <2>5, <2>6 DEF OnWalk, u
  <2> QED
    BY <1>1, <1>3, <2>7 DEF Sequences
<1> QED
  BY <1>4, <1>5, <1>6

LEMMA DelOn ==
  ASSUME IInv, Sequences(Now), NEW n \in Nodes, Del(n)
  PROVE  Sequences(Now)'
<1>1. /\ Holds(links', Now') /\ Now' = Abstract!Without(n)
      /\ Now \in [Lists -> Seq(Nodes)] /\ Holds(links, Now)
  BY DelHolds DEF Sequences, Holds
<1>2. /\ ~Merging /\ merge' = merge
      /\ n # (IF walk.safe THEN walk.tmp ELSE walk.pos)
      /\ walk' = IF n \in ToSet(walk.seen) THEN walk
                 ELSE [walk EXCEPT !.due = RemoveFirst(@, n)]
  BY DEF Del, Held
<1>3. OnMerge(Now)'
  BY <1>2 DEF OnMerge, Merging
<1>4. Shortened(walk, walk', n) /\ walk'.dir = walk.dir
  BY <1>2 DEF Shortened, IInv, Shape
<1>5. CASE ~Walking
  <2>1. ~Walking'
    BY <1>4, <1>5 DEF Walking, Shortened
  <2> QED
    BY <1>1, <1>3, <2>1 DEF Sequences, OnWalk
<1>6. CASE Walking
  <2> DEFINE l == walk.list
             dir == walk.dir
             s == Toward(Now, l, dir)
  <2>1. /\ l \in Lists /\ dir \in {"next", "prev"}
        /\ walk.seen \in Seq(Nodes) /\ walk.due \in Seq(Nodes)
        /\ s \in Seq(Nodes) /\ Len(s) = Len(Now[l]) /\ Len(s) \in Nat
        /\ Distinct(s)
        /\ \E k \in 0 .. Len(s) : Meets(walk, s, k)
    BY <1>6, WalkNow
  <2>2. PICK k \in 0 .. Len(s) : Meets(walk, s, k)
    BY <2>1
  <2>3. walk'.list = l /\ walk'.seen = walk.seen
    BY <1>4 DEF Shortened
  <2>4. CASE \A j \in 1 .. Len(Now[l]) : Now[l][j] # n
    <3>1. Now'[l] = Now[l]
      <4>1. Distinct(Now[l]) /\ Now[l] \in Seq(Nodes)
        BY <1>1, <2>1, HeldApart
      <4>2. RemoveFirst(Now[l], n) = Now[l]
        BY <2>4, <4>1, RemoveFirstIs
      <4>3. Abstract!Without(n)[l] = RemoveFirst(Now[l], n)
        BY <2>1, SameOperators DEF Abstract!Without, Now
      <4> QED
        BY <1>1, <4>2, <4>3
    <3>2. \A j \in 1 .. Len(s) : s[j] # n
      <4> SUFFICES ASSUME NEW j \in 1 .. Len(s) PROVE s[j] # n
        OBVIOUS
      <4>1. Toward(Now, l, dir)[j] # n
        BY <1>1, <2>1, <2>4, TowardOff
      <4> QED
        BY <4>1
    <3>3. walk'.due = walk.due
      <4>1. \A j \in k + 1 .. Len(s) : s[j] # n
        BY <2>1, <3>2
      <4> HIDE DEF s
      <4> QED
        BY <1>4, <2>1, <2>2, <4>1, MeetsElsewhere
    <3>4. Toward(Now', l, dir) = s
      BY <3>1 DEF Toward
    <3> HIDE DEF s
    <3>5. Meets(walk', s, k)
      BY <1>4, <2>2, <3>3 DEF Meets, Shortened
    <3>6. OnWalk(Now)'
      BY <1>4, <2>1, <2>3, <3>1, <3>3, <3>4, <3>5 DEF OnWalk
    <3> QED
      BY <1>1, <1>3, <3>6 DEF Sequences
  <2>5. CASE \E j \in 1 .. Len(Now[l]) : Now[l][j] = n
    <3>1. PICK j \in 1 .. Len(Now[l]) : Now[l][j] = n
      BY <2>5
    <3>2. Now'[l] = RemoveAt(Now[l], j)
      <4>1. Abstract!Without(Now[l][j]) = [Now EXCEPT ![l] = RemoveAt(@, j)]
        BY <1>1, <2>1, WithoutIs
      <4> QED
        BY <1>1, <2>1, <3>1, <4>1
    <3> DEFINE i == IF dir = "next" THEN j ELSE (Len(Now[l]) - j) + 1
    <3>3. i \in 1 .. Len(s) /\ s[i] = n
      <4>1. ASSUME NEW m, m = i
            PROVE  Toward(Now, l, dir)[m] = Now[l][j]
        <5>1. Holds(links, Now) /\ l \in Lists /\ dir \in {"next", "prev"}
          BY <1>1, <2>1
        <5>2. m = IF dir = "next" THEN j ELSE (Len(Now[l]) - j) + 1
          BY <4>1
        <5> HIDE DEF i, l, dir
        <5> QED
          BY <5>1, <5>2, TowardAt
      <4>2. i \in 1 .. Len(s)
        BY <2>1
      <4> QED
        BY <3>1, <4>1, <4>2
    <3>4. Toward(Now', l, dir) = RemoveAt(s, i)
      <4>1. Now[l] \in Seq(Nodes)
        BY <1>1, <2>1
      <4>2. Reverse(RemoveAt(Now[l], j)) = RemoveAt(Reverse(Now[l]), (Len(Now[l]) - j) + 1)
        BY <4>1, ReverseRemoved
      <4> QED
        BY <3>2, <4>2 DEF Toward
    <3>5. Len(Now'[l]) = Len(s) - 1
      <4>1. Now[l] \in Seq(Nodes)
        BY <1>1, <2>1
      <4>2. Len(RemoveAt(Now[l], j)) = Len(Now[l]) - 1
        BY <4>1, RemoveAtIs
      <4> QED
        BY <2>1, <3>2, <4>2
    <3> HIDE DEF s, i
    <3>6. walk'.due \in Seq(Nodes)
          /\ \E m \in 0 .. Len(s) - 1 : Meets(walk', RemoveAt(s, i), m)
      <4>1. s[i] # (IF walk.safe THEN walk.tmp ELSE walk.pos) /\ Shortened(walk, walk', s[i])
        BY <1>2, <1>4, <3>3
      <4> QED
        BY <2>1, <2>2, <3>3, <4>1, MeetsDeleted
    <3>7. OnWalk(Now)'
      BY <1>4, <2>1, <2>3, <3>4, <3>5, <3>6 DEF OnWalk
    <3> QED
      BY <1>1, <1>3, <3>7 DEF Sequences
  <2> QED
    BY <2>4, <2>5
<1> QED
  BY <1>5, <1>6

LEMMA SpliceOn ==
  ASSUME IInv, Sequences(Now), NEW from \in Lists, NEW to \in Lists, Splice(from, to)
  PROVE  Sequences(Now)'
<1>1. /\ from # to /\ walk.list # from /\ walk.list # to /\ ~Merging
      /\ links' = Spliced(links, from, to) /\ walk' = walk /\ merge' = merge
  BY DEF Splice
<1>2. /\ Holds(links', Now')
      /\ Now' = [Now EXCEPT ![to] = @ \o Now[from], ![from] = <<>>]
      /\ Now \in [Lists -> Seq(Nodes)]
  BY <1>1, SplicedHolds DEF Sequences, Holds
<1>3. OnMerge(Now)'
  BY <1>1 DEF OnMerge, Merging
<1>4. CASE ~Walking
  BY <1>1, <1>2, <1>3, <1>4 DEF Sequences, OnWalk, Walking
<1>5. CASE Walking
  <2>1. walk.list \in Lists
    BY <1>5, WalkNow
  <2>2. Now'[walk.list] = Now[walk.list]
    BY <1>1, <1>2, <2>1
  <2>3. OnWalk(Now)'
    BY <1>1, <1>5, <2>2 DEF Sequences, OnWalk, Walking, Toward
  <2> QED
    BY <1>2, <1>3, <2>3 DEF Sequences
<1> QED
  BY <1>4, <1>5
---------------------------------------------------------------------------
(* A turn of a loop: one more node is behind it. *)
LEMMA GoesOn ==
  ASSUME NEW w, NEW v, NEW s \in Seq(Nodes), NEW k \in Nat, k < Len(s),
         w.seen \in Seq(Nodes),
         Distinct(w.seen \o SubSeq(s, k + 1, Len(s))),
         Starts(w.due, w.seen \o SubSeq(s, k + 1, Len(s))),
         v.pos = s[k + 1], v.tmp = Spot(v.list, s, (k + 1) + 1), v.due = w.due,
         v.seen = Append(w.seen, s[k + 1])
  PROVE  v.seen \in Seq(Nodes) /\ Meets(v, s, k + 1)
<1> DEFINE x == s[k + 1]
           y == Append(w.seen, x)
           rest == SubSeq(s, k + 1, Len(s))
           less == SubSeq(s, (k + 1) + 1, Len(s))
           n == Len(w.seen)
<1>1. /\ n \in Nat /\ Len(s) \in Nat /\ k \in 0 .. Len(s) /\ k + 1 \in 0 .. Len(s)
      /\ k + 1 \in 1 .. Len(s) /\ x \in Nodes
  BY LenProperties
<1>2. /\ rest \in Seq(Nodes) /\ Len(rest) = Len(s) - k
      /\ \A i \in 1 .. Len(s) - k : rest[i] = s[k + i]
  BY <1>1, AheadIs
<1>3. /\ less \in Seq(Nodes) /\ Len(less) = Len(s) - (k + 1)
      /\ \A i \in 1 .. Len(s) - (k + 1) : less[i] = s[(k + 1) + i]
  BY <1>1, AheadIs
<1>4. /\ y \in Seq(Nodes) /\ Len(y) = n + 1 /\ y[n + 1] = x
      /\ \A i \in 1 .. n : y[i] = w.seen[i]
  BY <1>1, AppendProperties
<1> HIDE DEF y, rest, less, n, x
<1> DEFINE z == w.seen \o rest
           u == y \o less
<1>5. /\ z \in Seq(Nodes) /\ Len(z) = n + Len(rest)
      /\ \A i \in 1 .. n + Len(rest) : z[i] = IF i <= n THEN w.seen[i] ELSE rest[i - n]
  BY <1>2, ConcatProperties, ZenonT(30) DEF n
<1>6. /\ u \in Seq(Nodes) /\ Len(u) = Len(y) + Len(less)
      /\ \A i \in 1 .. Len(y) + Len(less) :
           u[i] = IF i <= Len(y) THEN y[i] ELSE less[i - Len(y)]
  BY <1>3, <1>4, ConcatProperties
<1> HIDE DEF z, u
<1>7. Len(u) = Len(z)
  BY <1>1, <1>2, <1>3, <1>4, <1>5, <1>6
<1>8. ASSUME NEW i \in 1 .. Len(u)
      PROVE  u[i] = z[i]
  <2>1. i \in 1 .. n + Len(rest) /\ i \in 1 .. Len(y) + Len(less)
    BY <1>5, <1>6, <1>7
  <2>2. CASE i <= n
    <3>1. i \in 1 .. n /\ i <= Len(y)
      BY <2>1, <2>2, <1>1, <1>4
    <3>2. u[i] = y[i]
      BY <2>1, <3>1, <1>6
    <3>3. z[i] = w.seen[i]
      BY <2>1, <2>2, <1>5
    <3> QED
      BY <3>1, <3>2, <3>3, <1>4
  <2>3. CASE i = n + 1
    <3>1. u[i] = x /\ i - n = 1
      BY <2>1, <2>3, <1>1, <1>4, <1>6
    <3>2. z[i] = rest[1]
      <4>1. ~(i <= n)
        BY <2>3, <1>1
      <4>2. z[i] = rest[i - n]
        BY <2>1, <4>1, <1>5
      <4> QED
        BY <3>1, <4>2
    <3>3. rest[1] = x
      BY <1>1, <1>2 DEF x
    <3> QED
      BY <3>1, <3>2, <3>3
  <2>4. CASE i > n + 1
    <3> DEFINE m == i - (n + 1)
               q == i - n
    <3>1. /\ m \in 1 .. Len(s) - (k + 1) /\ q \in 1 .. Len(s) - k
          /\ (k + 1) + m = k + q
      BY <2>1, <2>4, <1>1, <1>2
    <3>2. u[i] = less[m]
      BY <2>1, <2>4, <1>1, <1>4, <1>6
    <3>3. z[i] = rest[q]
      <4>1. ~(i <= n)
        BY <2>1, <2>4, <1>1
      <4> QED
        BY <2>1, <4>1, <1>5
    <3> HIDE DEF m, q
    <3> QED
      BY <3>1, <3>2, <3>3, <1>2, <1>3
  <2> QED
    BY <2>1, <2>2, <2>3, <2>4, <1>1
<1>9. u = z
  BY <1>5, <1>6, <1>7, <1>8, SeqEqual
<1>10. /\ Distinct(v.seen \o SubSeq(s, (k + 1) + 1, Len(s)))
       /\ Starts(v.due, v.seen \o SubSeq(s, (k + 1) + 1, Len(s)))
  BY <1>9 DEF z, u, y, rest, less, x
<1>11. IF v.safe THEN v.tmp = Spot(v.list, s, (k + 1) + 1) ELSE k + 1 > 0 /\ v.pos = s[k + 1]
  BY <1>1
<1>12. v.seen \in Seq(Nodes)
  BY <1>4 DEF y, x
<1> QED
  BY <1>10, <1>11, <1>12 DEF Meets

LEMMA AllAhead ==
  ASSUME NEW s \in Seq(Nodes)
  PROVE  <<>> \o SubSeq(s, 0 + 1, Len(s)) = s
<1> DEFINE t == SubSeq(s, 0 + 1, Len(s))
<1>1. Len(s) \in Nat /\ 0 \in 0 .. Len(s)
  BY LenProperties
<1>2. /\ t \in Seq(Nodes) /\ Len(t) = Len(s) - 0
      /\ \A i \in 1 .. Len(s) - 0 : t[i] = s[0 + i]
  BY <1>1, AheadIs
<1> HIDE DEF t
<1>3. Len(t) = Len(s) /\ \A i \in 1 .. Len(t) : t[i] = s[i]
  BY <1>1, <1>2
<1>4. t = s
  BY <1>2, <1>3, SeqEqual
<1>5. <<>> \o s = s
  BY ConcatEmptySeq
<1> QED
  BY <1>4, <1>5 DEF t

LEMMA WalkStartOn ==
  ASSUME IInv, Sequences(Now), NEW l \in Lists, NEW dir \in {"next", "prev"},
         NEW safe \in BOOLEAN, WalkStart(l, dir, safe)
  PROVE  Sequences(Now)'
<1> DEFINE s == Toward(Now, l, dir)
           pos == links[dir][l]
           w == [list |-> l, dir |-> dir, safe |-> safe, pos |-> Null, tmp |-> Null,
                 due |-> Follow(links[dir], l), seen |-> <<>>]
<1>1. /\ ~Merging /\ links' = links /\ merge' = merge
      /\ walk' = At(w, pos, links[dir][pos])
  BY DEF WalkStart
<1>2. Now' = Now
  BY <1>1 DEF Now
<1>3. /\ s \in Seq(Nodes) /\ Len(s) = Len(Now[l]) /\ Follow(links[dir], l) = s
      /\ \A i \in 0 .. Len(Now[l]) : links[dir][Spot(l, s, i)] = Spot(l, s, i + 1)
  BY LoopMeets DEF Sequences
<1>4. Len(s) \in Nat /\ Distinct(s)
  BY TowardIs DEF Sequences
<1> HIDE DEF s
<1>5. Holds(links', Now') /\ OnMerge(Now)'
  BY <1>1, <1>2 DEF Sequences, OnMerge, Merging
<1>6. pos = Spot(l, s, 1)
  <2>1. 0 \in 0 .. Len(Now[l]) /\ 0 + 1 = 1 /\ Spot(l, s, 0) = l
    BY <1>3, <1>4 DEF Spot
  <2>2. links[dir][Spot(l, s, 0)] = Spot(l, s, 0 + 1)
    BY <2>1, <1>3
  <2> QED
    BY <2>1, <2>2
<1>7. CASE pos = l
  <2>1. ~Walking'
    BY <1>1, <1>7 DEF At, NoWalk, Walking
  <2> QED
    BY <1>5, <2>1 DEF Sequences, OnWalk
<1>8. CASE pos # l
  <2>1. 1 \in 1 .. Len(s) /\ pos = s[0 + 1]
    BY <1>4, <1>6, <1>8 DEF Spot
  <2>2. links[dir][pos] = Spot(l, s, (0 + 1) + 1)
    <3>1. 1 \in 0 .. Len(Now[l]) /\ 1 + 1 = (0 + 1) + 1
      BY <2>1, <1>3, <1>4
    <3> QED
      BY <3>1, <1>3, <1>6
  <2>3. walk' = [w EXCEPT !.pos = pos, !.tmp = links[dir][pos], !.seen = Append(@, pos)]
    BY <1>1, <1>8 DEF At
  <2>4. /\ walk'.list = l /\ walk'.dir = dir /\ walk'.safe = safe /\ walk'.pos = pos
        /\ walk'.tmp = links[dir][pos] /\ walk'.due = s /\ walk'.seen = Append(<<>>, pos)
    BY <2>3, <1>3
  <2>5. w.seen = <<>> /\ w.due = s /\ <<>> \in Seq(Nodes)
    BY <1>3, EmptySeq
  <2>6. w.seen \o SubSeq(s, 0 + 1, Len(s)) = s
    BY <2>5, <1>3, AllAhead
  <2> HIDE DEF w
  <2>7. Starts(s, s)
    BY <1>4 DEF Starts
  <2>8. walk'.seen \in Seq(Nodes) /\ Meets(walk', s, 0 + 1)
    <3>1. 0 \in Nat /\ 0 < Len(s) /\ w.seen \in Seq(Nodes)
      BY <2>1, <2>5, <1>4
    <3>2. /\ Distinct(w.seen \o SubSeq(s, 0 + 1, Len(s)))
          /\ Starts(w.due, w.seen \o SubSeq(s, 0 + 1, Len(s)))
      BY <2>5, <2>6, <2>7, <1>4
    <3>3. /\ walk'.pos = s[0 + 1] /\ walk'.tmp = Spot(walk'.list, s, (0 + 1) + 1)
          /\ walk'.due = w.due /\ walk'.seen = Append(w.seen, s[0 + 1])
      BY <2>1, <2>2, <2>4, <2>5
    <3> QED
      BY <3>1, <3>2, <3>3, <1>3, GoesOn
  <2>9. 0 + 1 \in 0 .. Len(Now'[l])
    BY <2>1, <1>2, <1>3, <1>4
  <2>10. Toward(Now', walk'.list, walk'.dir) = s
    BY <2>4, <1>2 DEF s
  <2>11. walk'.due \in Seq(Nodes)
    BY <2>4, <1>3
  <2>12. OnWalk(Now)'
    BY <2>4, <2>8, <2>9, <2>10, <2>11 DEF OnWalk
  <2> QED
    BY <1>5, <2>12 DEF Sequences
<1> QED
  BY <1>7, <1>8

LEMMA NextIs ==
  ASSUME Holds(links, Now), walk.list \in Lists, walk.dir \in {"next", "prev"},
         NEW k \in Nat, k <= Len(Toward(Now, walk.list, walk.dir)),
         Meets(walk, Toward(Now, walk.list, walk.dir), k)
  PROVE  /\ NextPos = Spot(walk.list, Toward(Now, walk.list, walk.dir), k + 1)
         /\ NextPos = walk.list <=> k = Len(Toward(Now, walk.list, walk.dir))
<1> DEFINE s == Toward(Now, walk.list, walk.dir)
           l == walk.list
           dir == walk.dir
<1>1. /\ s \in Seq(Nodes) /\ Len(s) = Len(Now[l])
      /\ \A i \in 0 .. Len(Now[l]) : links[dir][Spot(l, s, i)] = Spot(l, s, i + 1)
  BY LoopMeets
<1>2. IF walk.safe THEN walk.tmp = Spot(l, s, k + 1) ELSE k > 0 /\ walk.pos = s[k]
  BY DEF Meets
<1>3. Len(s) \in Nat /\ k <= Len(s)
  BY <1>1, LenProperties
<1> HIDE DEF s
<1>4. walk.safe => NextPos = Spot(l, s, k + 1)
  BY <1>2 DEF NextPos
<1>5. ASSUME ~walk.safe PROVE NextPos = Spot(l, s, k + 1)
  <2>1. k \in 1 .. Len(s) /\ k \in 0 .. Len(Now[l]) /\ walk.pos = Spot(l, s, k)
    BY <1>1, <1>2, <1>3, <1>5 DEF Spot
  <2>2. links[dir][Spot(l, s, k)] = Spot(l, s, k + 1)
    BY <2>1, <1>1
  <2> QED
    BY <2>1, <2>2, <1>5 DEF NextPos
<1>6. NextPos = Spot(l, s, k + 1)
  BY <1>4, <1>5
<1>7. Spot(l, s, k + 1) = l <=> k + 1 = Len(s) + 1
  <2>1. k + 1 \in 1 .. Len(s) + 1
    BY <1>3
  <2> QED
    BY <2>1, <1>1, SpotIsHead
<1> QED
  BY <1>3, <1>6, <1>7 DEF s

LEMMA WalkTurnOn ==
  ASSUME IInv, Sequences(Now), WalkTurn
  PROVE  Sequences(Now)'
<1> DEFINE s == Toward(Now, walk.list, walk.dir)
           pos == NextPos
           tmp == links[walk.dir][NextPos]
<1>1. /\ Walking /\ ~Merging /\ links' = links /\ merge' = merge
      /\ walk' = At(walk, pos, tmp)
  BY DEF WalkTurn
<1>2. /\ walk.list \in Lists /\ walk.dir \in {"next", "prev"}
      /\ walk.seen \in Seq(Nodes) /\ walk.due \in Seq(Nodes)
      /\ s \in Seq(Nodes) /\ Len(s) = Len(Now[walk.list]) /\ Len(s) \in Nat
      /\ \E k \in 0 .. Len(s) : Meets(walk, s, k)
  BY <1>1, WalkNow
<1>3. PICK k \in 0 .. Len(s) : Meets(walk, s, k)
  BY <1>2
<1>4. k \in Nat /\ k <= Len(s)
  BY <1>2, <1>3
<1>5. pos = Spot(walk.list, s, k + 1) /\ (pos = walk.list <=> k = Len(s))
  BY <1>2, <1>3, <1>4, NextIs DEF Sequences
<1>6. \A i \in 0 .. Len(Now[walk.list]) :
        links[walk.dir][Spot(walk.list, s, i)] = Spot(walk.list, s, i + 1)
  BY <1>2, LoopMeets DEF Sequences
<1>7. Now' = Now
  BY <1>1 DEF Now
<1>8. Holds(links', Now') /\ OnMerge(Now)'
  BY <1>1, <1>7 DEF Sequences, OnMerge, Merging
<1> HIDE DEF s
<1>9. CASE pos = walk.list
  <2>1. ~Walking'
    BY <1>1, <1>9 DEF At, NoWalk, Walking
  <2> QED
    BY <1>8, <2>1 DEF Sequences, OnWalk
<1>10. CASE pos # walk.list
  <2>1. k < Len(s) /\ k + 1 \in 1 .. Len(s) /\ k + 1 \in 0 .. Len(Now[walk.list])
    BY <1>2, <1>4, <1>5, <1>10
  <2>2. pos = s[k + 1]
    BY <2>1, <1>5 DEF Spot
  <2>3. tmp = Spot(walk.list, s, (k + 1) + 1)
    BY <2>1, <1>5, <1>6
  <2>4. walk = [list |-> walk.list, dir |-> walk.dir, safe |-> walk.safe, pos |-> walk.pos,
                tmp |-> walk.tmp, due |-> walk.due, seen |-> walk.seen]
    BY DEF IInv, Shape
  <2>5. walk' = [walk EXCEPT !.pos = pos, !.tmp = tmp, !.seen = Append(@, pos)]
    BY <1>1, <1>10 DEF At
  <2> HIDE DEF pos, tmp
  <2>6. /\ walk'.list = walk.list /\ walk'.dir = walk.dir /\ walk'.pos = pos
        /\ walk'.tmp = tmp /\ walk'.due = walk.due /\ walk'.seen = Append(walk.seen, pos)
    BY <2>4, <2>5
  <2>7. walk'.seen \in Seq(Nodes) /\ Meets(walk', s, k + 1)
    <3>1. /\ Distinct(walk.seen \o SubSeq(s, k + 1, Len(s)))
          /\ Starts(walk.due, walk.seen \o SubSeq(s, k + 1, Len(s)))
      BY <1>3 DEF Meets
    <3>2. /\ walk'.pos = s[k + 1] /\ walk'.tmp = Spot(walk'.list, s, (k + 1) + 1)
          /\ walk'.due = walk.due /\ walk'.seen = Append(walk.seen, s[k + 1])
      BY <2>2, <2>3, <2>6
    <3> QED
      BY <3>1, <3>2, <1>2, <1>4, <2>1, GoesOn
  <2>8. Toward(Now', walk'.list, walk'.dir) = s /\ Now'[walk'.list] = Now[walk.list]
    BY <2>6, <1>7 DEF s
  <2>9. OnWalk(Now)'
    BY <1>2, <2>1, <2>6, <2>7, <2>8 DEF OnWalk
  <2> QED
    BY <1>8, <2>9 DEF Sequences
<1> QED
  BY <1>9, <1>10

(* A loop that ends has every node behind it. *)
LEMMA WalkEnds ==
  ASSUME IInv, Sequences(Now), [Next]_vars, Walking, walk'.list = Null
  PROVE  /\ IsPrefix(walk.due, walk.seen)
         /\ \A i, j \in DOMAIN walk.seen : walk.seen[i] = walk.seen[j] => i = j
<1> DEFINE s == Toward(Now, walk.list, walk.dir)
<1>1. /\ walk.list \in Lists /\ walk.dir \in {"next", "prev"}
      /\ walk.seen \in Seq(Nodes) /\ walk.due \in Seq(Nodes)
      /\ s \in Seq(Nodes) /\ Len(s) \in Nat
      /\ \E k \in 0 .. Len(s) : Meets(walk, s, k)
  BY WalkNow
<1>2. walk.list # Null /\ walk' # walk
  BY DEF Walking
<1>3. WalkTurn
  <2>1. ASSUME NEW n \in Nodes, Del(n)
        PROVE  FALSE
    <3>1. walk' = walk \/ walk' = [walk EXCEPT !.due = RemoveFirst(@, n)]
      BY <2>1 DEF Del
    <3>2. walk'.list = walk.list
      BY <3>1 DEF IInv, Shape
    <3> QED
      BY <1>2, <3>2
  <2>2. ~UNCHANGED vars
    BY <1>2 DEF vars
  <2>3. /\ \A n \in Nodes, l \in Lists : ~AddFront(n, l) /\ ~AddTail(n, l)
        /\ \A from, to \in Lists : ~Splice(from, to)
    BY <1>2 DEF AddFront, AddTail, Splice
  <2>4. \A l \in Lists, dir \in {"next", "prev"}, safe \in BOOLEAN : ~WalkStart(l, dir, safe)
    BY DEF WalkStart
  <2>5. (\A lf, rh \in Lists : ~MergeStart(lf, rh)) /\ ~MergeTurn /\ ~MergeEnd
    BY <1>2 DEF MergeStart, MergeTurn, MergeEnd
  <2> QED
    BY <2>1, <2>2, <2>3, <2>4, <2>5 DEF Next
<1>4. PICK k \in 0 .. Len(s) : Meets(walk, s, k)
  BY <1>1
<1>5. k \in Nat /\ k <= Len(s)
  BY <1>1, <1>4
<1>6. NextPos = walk.list <=> k = Len(s)
  BY <1>1, <1>4, <1>5, NextIs DEF Sequences
<1>7. NextPos = walk.list
  <2> SUFFICES ASSUME NextPos # walk.list PROVE FALSE
    OBVIOUS
  <2>1. walk' = [walk EXCEPT !.pos = NextPos, !.tmp = links[walk.dir][NextPos],
                             !.seen = Append(@, NextPos)]
    BY <1>3 DEF WalkTurn, At
  <2>2. walk'.list = walk.list
    BY <2>1 DEF IInv, Shape
  <2> QED
    BY <1>2, <2>2
<1> HIDE DEF s
<1>8. Distinct(walk.seen) /\ Starts(walk.due, walk.seen)
  <2>1. SubSeq(s, k + 1, Len(s)) = <<>>
    BY <1>1, <1>6, <1>7, SubSeqEmpty
  <2>2. walk.seen \o <<>> = walk.seen
    BY <1>1, ConcatEmptySeq
  <2> QED
    BY <2>1, <2>2, <1>4 DEF Meets
<1>9. DOMAIN walk.seen = 1 .. Len(walk.seen) /\ Len(walk.seen) \in Nat /\ Len(walk.due) \in Nat
  BY <1>1, LenProperties
<1>10. IsPrefix(walk.due, walk.seen)
  <2> DEFINE a == walk.due
             b == walk.seen
  <2>1. a \in Seq(Nodes) /\ b \in Seq(Nodes) /\ Len(a) <= Len(b)
        /\ \A i \in 1 .. Len(a) : a[i] = b[i]
    BY <1>1, <1>8 DEF Starts
  <2>2. Len(a) \in Nat /\ Len(b) \in Nat
    BY <1>9
  <2> HIDE DEF a, b
  <2>3. CASE Len(a) = 0
    BY <2>1, <2>2, <2>3, SubSeqEmpty DEF IsPrefix, a, b
  <2>4. CASE Len(a) # 0
    <3>1. /\ \A i \in 1 .. Len(a) : a[i] \in Nodes /\ i \in 1 .. Len(b)
          /\ \A i \in 1 .. Len(b) : b[i] \in Nodes
      BY <2>1, <2>2
    <3>2. /\ SubSeq(a, 1, Len(a)) = [i \in 1 .. Len(a) |-> a[i]]
          /\ SubSeq(b, 1, Len(a)) = [i \in 1 .. Len(a) |-> b[i]]
      BY <2>1, <2>2, <2>4, <3>1
    <3>3. [i \in 1 .. Len(a) |-> a[i]] = [i \in 1 .. Len(a) |-> b[i]]
      BY <2>1
    <3> QED
      BY <2>1, <3>2, <3>3 DEF IsPrefix, a, b
  <2> QED
    BY <2>3, <2>4
<1> QED
  BY <1>8, <1>9, <1>10 DEF Distinct

LEMMA StepSequences == IInv /\ Sequences(Now) /\ [Next]_vars => Sequences(Now)'
<1> SUFFICES ASSUME IInv, Sequences(Now), [Next]_vars PROVE Sequences(Now)'
  OBVIOUS
<1>1. CASE \E n \in Nodes, l \in Lists : AddFront(n, l)
  BY <1>1, AddFrontOn
<1>2. CASE \E n \in Nodes, l \in Lists : AddTail(n, l)
  BY <1>2, AddTailOn
<1>3. CASE \E n \in Nodes : Del(n)
  BY <1>3, DelOn
<1>4. CASE \E from, to \in Lists : Splice(from, to)
  BY <1>4, SpliceOn
<1>5. CASE \E l \in Lists, dir \in {"next", "prev"}, safe \in BOOLEAN : WalkStart(l, dir, safe)
  BY <1>5, WalkStartOn
<1>6. CASE WalkTurn
  BY <1>6, WalkTurnOn
<1>7. CASE \E lf, rh \in Lists : MergeStart(lf, rh)
  BY <1>7, MergeStartOn
<1>8. CASE MergeTurn
  BY <1>8, MergeTurnOn
<1>9. CASE MergeEnd
  BY <1>9, MergeEndOn
<1>10. CASE UNCHANGED vars
  <2>1. links' = links /\ walk' = walk /\ merge' = merge
    BY <1>10 DEF vars
  <2>2. Now' = Now
    BY <2>1 DEF Now
  <2> QED
    BY <2>1, <2>2 DEF Sequences, OnWalk, OnMerge, Walking, Merging
<1> QED
  BY <1>1, <1>2, <1>3, <1>4, <1>5, <1>6, <1>7, <1>8, <1>9, <1>10 DEF Next

(* The links always hold the sequences that the loops follow: the rings go *)
(* along them both ways, a loop has ahead and behind it all that is due,   *)
(* and a merge keeps the keys, sorted, between its turns.                  *)
THEOREM HeldSequences == Spec => []Sequences(Now)
<1>1. Init => Sequences(Now)
  BY InitSequences
<1> QED
  BY <1>1, StepSequences, Invariant, PTL DEF Spec

(* The lists implement NodeLists, step by step: each function, and each    *)
(* turn of a merge, does to the sequences what its namesake promises, for  *)
(* any number of lists and nodes.                                          *)
THEOREM PromiseKept == Spec => KeepsPromise
<1> DEFINE Promise ==
      links' # links =>
        /\ \A n \in Nodes, l \in Lists :
             /\ AddFront(n, l) => Abstract!PushFront(n, l)
             /\ AddTail(n, l) => Abstract!PushBack(n, l)
        /\ \A n \in Nodes : Del(n) => Abstract!Delete(n)
        /\ \A from, to \in Lists : Splice(from, to) => Abstract!AppendAll(from, to)
        /\ MergeTurn =>
             \/ Abstract!Delete(merge.iter_rh)
             \/ Abstract!MoveBefore(merge.iter_rh, merge.lf, merge.iter_lf)
        /\ MergeEnd => Abstract!AppendAll(merge.rh, merge.lf)
<1>1. Init => Abstract!Init
  BY InitSequences
<1>2. IInv /\ Sequences(Now) /\ [Next]_vars => [Promise]_vars
  <2> SUFFICES ASSUME IInv, Sequences(Now), [Next]_vars, links' # links PROVE Promise
    OBVIOUS
  <2>1. ASSUME NEW n \in Nodes, NEW l \in Lists
        PROVE  /\ AddFront(n, l) => Abstract!PushFront(n, l)
               /\ AddTail(n, l) => Abstract!PushBack(n, l)
    BY PushesFront, PushesBack
  <2>2. ASSUME NEW n \in Nodes
        PROVE  Del(n) => Abstract!Delete(n)
    BY Deletes
  <2>3. ASSUME NEW from \in Lists, NEW to \in Lists
        PROVE  Splice(from, to) => Abstract!AppendAll(from, to)
    BY Joins
  <2>4. MergeTurn => \/ Abstract!Delete(merge.iter_rh)
                     \/ Abstract!MoveBefore(merge.iter_rh, merge.lf, merge.iter_lf)
    BY MergeTakes
  <2>5. MergeEnd => Abstract!AppendAll(merge.rh, merge.lf)
    BY MergeJoins
  <2> QED
    BY <2>1, <2>2, <2>3, <2>4, <2>5
<1> QED
  BY <1>1, <1>2, Invariant, HeldSequences, PTL DEF Spec, KeepsPromise

(* A loop that ends has met every node that was due, in order and none     *)
(* twice, whatever its body added, deleted or moved.                       *)
THEOREM WalksAreComplete == Spec => WalkComplete
<1>1. IInv /\ Sequences(Now) /\ [Next]_vars
        => [Walking /\ walk'.list = Null =>
              /\ IsPrefix(walk.due, walk.seen)
              /\ \A i, j \in DOMAIN walk.seen : walk.seen[i] = walk.seen[j] => i = j]_vars
  BY WalkEnds
<1> QED
  BY <1>1, Invariant, HeldSequences, PTL DEF Spec, WalkComplete

(* chk_list_merge of any two sorted lists: the result is sorted, has the   *)
(* keys of both, all nodes of lf in their order, and of rh all but those   *)
(* whose key another node has; rh is left empty.                           *)
THEOREM MergesRight == Spec => MergeResult
<1> DEFINE Result ==
      MergeEnd =>
        LET result == Chain(links', merge.lf)
            lf == merge.before[1]
            rh == merge.before[2]
        IN  /\ Sorted(result)
            /\ Chain(links', merge.rh) = <<>>
            /\ Keys(result) = Keys(lf) \cup Keys(rh)
            /\ InOrder(lf, result)
            /\ \A n \in ToSet(rh) \ ToSet(result) :
                 \E m \in ToSet(result) : Key[m] = Key[n]
            /\ Len(result) = Cardinality(ToSet(result))
<1>1. IInv /\ Sequences(Now) /\ [Next]_vars => [Result]_vars
  BY MergeGives
<1> QED
  BY <1>1, Invariant, HeldSequences, PTL DEF Spec, MergeResult
=============================================================================
