------------------------------ MODULE StrNodes ------------------------------
(***************************************************************************)
(* Structures as callers build them in an index, and chk_testor.h does:    *)
(* nodes with a ChkStr and a link, in a ChkHashSList that goes by their    *)
(* texts.  Strings and the hash share the index and its memory, which may  *)
(* run out in any call.                                                    *)
(***************************************************************************)
EXTENDS ChkStr, ChkHashSList

CONSTANTS
  Nodes,       \* the StrNodes
  TextHash,    \* StrNode::hash_func, by text
  Sizes,       \* the new_size of resize_buckets
  StackBits    \* what uninitialised stack memory can hold in 9 bits

ASSUME StrNodesAssumption ==
  /\ Blocks \subseteq Nat \ {0}
  /\ NoText \notin Texts
  /\ Length \in [Texts -> Nat]
  /\ \E t \in Texts : Length[t] = 0
  /\ TextHash \in [Texts -> Nat]
  /\ Sizes \subseteq Nat \ {0}
  /\ StackBits \subseteq 0 .. 511

VARIABLES
  str,       \* the string of each node
  hash,      \* the hash list
  space,     \* the index
  text,      \* ghost: the text each node was given last
  members    \* ghost: the nodes that were inserted and not erased

vars == <<str, hash, space, text, members>>

Init ==
  /\ str = [n \in Nodes |-> EmptyStr]
  /\ hash = EmptyHash
  /\ space = EmptySpace
  /\ text = [n \in Nodes |-> EmptyStr.text]
  /\ members = {}

(* StrNode::hash_func reads the text through c_str. *)
hash_func == [n \in Nodes |-> TextHash[CStr(str[n], space)]]

HasMemory == Blocks # Allocated(space)

(* set_data of a node that is not in the hash, which would lose it         *)
Set(n, t) ==
  \E memory \in {FALSE, HasMemory} :
    LET x == SetData([str |-> str[n], space |-> space], t, memory)
    IN  /\ n \notin members
        /\ str' = [str EXCEPT ![n] = x.str]
        /\ space' = x.space
        /\ text' = IF memory \/ ~MustAlloc(str[n], t) THEN [text EXCEPT ![n] = t] ELSE text
        /\ UNCHANGED <<hash, members>>

Clear(n) ==
  LET x == Cleared([str |-> str[n], space |-> space])
  IN  /\ n \notin members
      /\ str' = [str EXCEPT ![n] = x.str]
      /\ space' = x.space
      /\ text' = [text EXCEPT ![n] = EmptyStr.text]
      /\ UNCHANGED <<hash, members>>

Insert(n) ==
  /\ n \notin members
  /\ hash' = Inserted(hash, n, hash_func[n])
  /\ members' = members \cup {n}
  /\ UNCHANGED <<str, space, text>>

Erase(n) ==
  /\ hash' = Erased(hash, n, hash_func[n])
  /\ members' = members \ {n}
  /\ UNCHANGED <<str, space, text>>

(* resize_buckets; without memory for the buckets it changes nothing.      *)
Resize(new_size) ==
  LET x == [hash |-> hash, space |-> space]
  IN  /\ new_size # bucket_size(hash)
      /\ \/ /\ new_size > 1 /\ HasMemory
            /\ LET y == ToBuckets(x, new_size, hash_func)
               IN  hash' = y.hash /\ space' = y.space
         \/ /\ new_size = 1
            /\ \E bits \in StackBits :
                 LET y == ToSingle(x, bits, hash_func)
                 IN  hash' = y.hash /\ space' = y.space
      /\ UNCHANGED <<str, text, members>>

(* uninit and init; the nodes stay with the caller. *)
Reset ==
  LET x == Uninited([hash |-> hash, space |-> space])
  IN  /\ hash' = x.hash
      /\ space' = x.space
      /\ members' = {}
      /\ UNCHANGED <<str, text>>

Next ==
  \/ \E n \in Nodes, t \in Texts : Set(n, t)
  \/ \E n \in Nodes : Clear(n)
  \/ \E n \in Nodes : Insert(n)
  \/ \E n \in Nodes : Erase(n)
  \/ \E new_size \in Sizes : Resize(new_size)
  \/ Reset

Spec == Init /\ [][Next]_vars

---------------------------------------------------------------------------
(* Every node has the text it was given last, with its length, through all *)
(* changes between in place, block and larger block, and a set_data that   *)
(* gets no memory leaves the old one: no block is written or freed under   *)
(* another string or the buckets.                                          *)
KeepsText ==
  \A n \in Nodes :
    /\ CStr(str[n], space) = text[n]
    /\ StrLength(str[n]) = Length[text[n]]

(* find and the loop over a list meet exactly the nodes that were inserted *)
(* and not erased, each once, in the list its text now hashes to, whatever *)
(* the number of lists was when it was inserted.                           *)
Found ==
  /\ Listed(hash) = members
  /\ \A i, j \in DOMAIN hash.chains :
       \A a \in DOMAIN hash.chains[i], b \in DOMAIN hash.chains[j] :
         hash.chains[i][a] = hash.chains[j][b] => i = j /\ a = b
  /\ \A t \in Texts :
       LET equal == {n \in Nodes : SameText(str[n], space, t)}
       IN  Matching(hash, TextHash[t], equal) = {n \in members : text[n] = t}

InBlocks == {n \in Nodes : str[n].flag}

(* The index has given out what strings and hash refer to and nothing      *)
(* else, each block to one of them, large enough for what it holds; none   *)
(* is freed twice.                                                         *)
OwnedOnce ==
  /\ ~space.misused
  /\ Allocated(space) = {str[n].data_ptr : n \in InBlocks} \cup ({hash.buckets} \ {0})
  /\ Cardinality(Allocated(space)) = Cardinality(InBlocks) + Cardinality({hash.buckets} \ {0})

(* With one hash list the table is that list, chk_hash_list.h:11: without  *)
(* a block of buckets no operation takes the list's head for one.          *)
SingleIsList == hash.buckets = 0 => bucket_size(hash) = 1
=============================================================================
