---------------------------- MODULE ChkHashSList ----------------------------
(***************************************************************************)
(* ChkHashSList, a hash table of 4 bytes: the head of one list while there *)
(* is one bucket, else the ChkPtr of a block of heads, told apart by the   *)
(* _size bits of the pointer.  Operators map a hash with the space of its  *)
(* index to what a function leaves.                                        *)
(*                                                                         *)
(* chains has the nodes of each list, first to last.  In the single list   *)
(* the null pointer at its end has _size bits too, tail: they travel with  *)
(* the pointer and come to the head when the list gets empty.              *)
(***************************************************************************)
EXTENDS IndexSpace, SequencesExt

(* init *)
EmptyHash == [buckets |-> 0, size |-> 0, chains |-> [i \in {0} |-> <<>>], tail |-> 0]

BytesPerList == 4

(* The bits list.next._size, which are those of buckets too. *)
SizeBits(h) ==
  IF h.buckets # 0 THEN h.size
  ELSE IF h.chains[0] = <<>> THEN h.tail ELSE 0

bucket_size(h) ==
  IF SizeBits(h) = 0 THEN 1 ELSE (SizeBits(h) * 8) \div BytesPerList

(* The list for a hash value, get_list. *)
ListNo(h, hash) == hash % bucket_size(h)

Listed(h) == UNION {ToSet(h.chains[i]) : i \in DOMAIN h.chains}

(* insert, by chk_slist_push *)
Inserted(h, n, hash) == [h EXCEPT !.chains[ListNo(h, hash)] = <<n>> \o @]

(* erase, by chk_slist_erase; nothing if the list does not have n *)
Erased(h, n, hash) == [h EXCEPT !.chains[ListNo(h, hash)] = RemoveFirst(@, n)]

(* The nodes find passes that match: equal are those eq_func accepts. *)
Matching(h, hash, equal) == ToSet(h.chains[ListNo(h, hash)]) \cap equal

(* The nodes of all lists, in the order a loop over the lists meets them. *)
InTurn(h) == FlattenSeq([i \in 1 .. bucket_size(h) |-> h.chains[i - 1]])

(* n lists after the nodes of s were pushed, each to the list of its hash. *)
Pushed(s, n, hash_of) ==
  LET lists[i \in 0 .. Len(s)] ==
        IF i = 0 THEN [k \in 0 .. n - 1 |-> <<>>]
        ELSE [lists[i - 1] EXCEPT ![hash_of[s[i]] % n] = <<s[i]>> \o @]
  IN  lists[Len(s)]

(* What n lists hold after every node was pushed to its new one, list by   *)
(* list; hash_of is hash_func, by node.  A mutant goes by the present list *)
(* instead.                                                                *)
BugMoved(h, n, hash_of) ==
  Pushed(InTurn(h), n, [m \in DOMAIN hash_of |-> ListNo(h, hash_of[m])])

Moved(h, n, hash_of) == Pushed(InTurn(h), n, hash_of)

(* free of the old buckets *)
Freed(h, space) == IF bucket_size(h) > 1 THEN WithoutBlock(space, h.buckets) ELSE space

(* resize_buckets to several lists: as many as the block that alloc gives  *)
(* has room for                                                            *)
RealSize(new_size) == RoundUp(new_size * BytesPerList) \div BytesPerList

ToBuckets(x, new_size, hash_of) ==
  LET n == RealSize(new_size)
  IN  [hash |-> [buckets |-> Fresh(x.space), size |-> (n * BytesPerList) \div 8,
                 chains |-> Moved(x.hash, n, hash_of), tail |-> 0],
       space |-> Freed(x.hash, WithBlock(x.space, new_size * BytesPerList))]

(* resize_buckets to one list: single_list is a local variable, of which   *)
(* chk_slist_init sets all but the _size bits.                             *)
ToSingle(x, bits, hash_of) ==
  LET chains == Moved(x.hash, 1, hash_of)
  IN  [hash |-> [buckets |-> 0, size |-> 0, chains |-> chains,
                 tail |-> IF chains[0] = <<>> THEN 0 ELSE bits],
       space |-> Freed(x.hash, x.space)]

(* uninit; init must follow before the hash is used again. *)
Uninited(x) ==
  [hash |-> EmptyHash,
   space |-> IF SizeBits(x.hash) > 0 THEN WithoutBlock(x.space, x.hash.buckets) ELSE x.space]
=============================================================================
