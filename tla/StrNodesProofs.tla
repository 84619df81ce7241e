--------------------------- MODULE StrNodesProofs ---------------------------
(***************************************************************************)
(* Proofs about StrNodes, for any number of nodes, texts and blocks: who   *)
(* owns which block of the index, what is written in it, and on which list *)
(* of the table a node is.                                                 *)
(***************************************************************************)
EXTENDS StrNodes, FiniteSetTheorems, SequenceTheorems, WellFoundedInduction, TLAPS

(* Every set of numbers that is not empty has a least one. *)
LEMMA Least ==
  ASSUME NEW T, T \subseteq Nat, T # {}
  PROVE  \E x \in T : \A y \in T : x <= y
<1>1. PICK m \in T : \A k \in T : <<k, m>> \notin OpToRel(<, Nat)
  BY WFMin, NatLessThanWellFounded, Zenon
<1>2. \A k \in T : ~ (k < m)
  BY <1>1, Zenon DEF OpToRel
<1>3. m \in Nat /\ \A k \in T : k \in Nat
  OBVIOUS
<1>4. \A k \in T : m <= k
  BY <1>2, <1>3
<1> QED
  BY <1>4
(* A set of numbers that has 0 and the successor of each has them all. *)
LEMMA Induction ==
  ASSUME NEW P, 0 \in P, \A i \in Nat : i \in P => i + 1 \in P
  PROVE  \A i \in Nat : i \in P
<1> SUFFICES ASSUME NEW k \in Nat, k \notin P PROVE FALSE
  OBVIOUS
<1> DEFINE T == Nat \ P
<1>1. T \subseteq Nat /\ T # {}
  OBVIOUS
<1> HIDE DEF T
<1>2. PICK m \in T : \A j \in T : m <= j
  BY <1>1, Least
<1>3. m \in Nat /\ m \notin P /\ m # 0
  BY <1>2 DEF T
<1>4. m - 1 \in Nat /\ (m - 1) + 1 = m /\ ~(m <= m - 1)
  BY <1>3
<1>5. m - 1 \in P
  BY <1>2, <1>4 DEF T
<1> QED
  BY <1>3, <1>4, <1>5

(* A function that goes on from each number to the next exists. *)
Goes(h, n, V, first, f) ==
  /\ h \in [0 .. n -> V]
  /\ h[0] = first
  /\ \A i \in 1 .. n : h[i] = f[<<i, h[i - 1]>>]

LEMMA Recurrence ==
  ASSUME NEW n \in Nat, NEW V, NEW first \in V, NEW f \in [(1 .. n) \X V -> V]
  PROVE  \E h : Goes(h, n, V, first, f)
<1> DEFINE Up(m) == \E h \in [0 .. m -> V] :
                      /\ h[0] = first
                      /\ \A i \in 1 .. m : h[i] = f[<<i, h[i - 1]>>]
           P == {m \in Nat : m <= n => Up(m)}
<1>1. 0 \in P
  <2> DEFINE h == [i \in 0 .. 0 |-> first]
  <2>1. h \in [0 .. 0 -> V] /\ h[0] = first
    OBVIOUS
  <2>2. \A i \in 1 .. 0 : FALSE
    OBVIOUS
  <2> HIDE DEF h
  <2> QED
    BY <2>1, <2>2
<1>2. ASSUME NEW m \in Nat, m \in P
      PROVE  m + 1 \in P
  <2> SUFFICES ASSUME m + 1 <= n PROVE Up(m + 1)
    OBVIOUS
  <2>1. PICK h \in [0 .. m -> V] :
          h[0] = first /\ \A i \in 1 .. m : h[i] = f[<<i, h[i - 1]>>]
    BY <1>2
  <2> DEFINE v == f[<<m + 1, h[m]>>]
             g == [i \in 0 .. m + 1 |-> IF i = m + 1 THEN v ELSE h[i]]
  <2>2. v \in V
    <3>1. m + 1 \in 1 .. n /\ h[m] \in V
      BY <2>1
    <3> QED
      BY <3>1
  <2> HIDE DEF v
  <2>3. \A i \in 0 .. m : g[i] = h[i] /\ h[i] \in V
    BY <2>1
  <2>4. g \in [0 .. m + 1 -> V] /\ g[0] = first /\ g[m + 1] = v
    <3>1. \A i \in 0 .. m + 1 : i = m + 1 \/ i \in 0 .. m
      OBVIOUS
    <3> QED
      BY <2>1, <2>2, <2>3, <3>1
  <2> HIDE DEF g
  <2>5. ASSUME NEW i \in 1 .. m + 1
        PROVE  g[i] = f[<<i, g[i - 1]>>]
    <3>1. CASE i = m + 1
      <4>1. i - 1 = m /\ m \in 0 .. m
        BY <3>1
      <4>2. g[i - 1] = h[m]
        BY <4>1, <2>3
      <4> QED
        BY <3>1, <4>2, <2>4 DEF v
    <3>2. CASE i \in 1 .. m
      <4>1. i - 1 \in 0 .. m /\ i \in 0 .. m
        BY <3>2
      <4> QED
        BY <4>1, <3>2, <2>1, <2>3
    <3> QED
      BY <3>1, <3>2
  <2> QED
    BY <2>4, <2>5
<1> HIDE DEF P
<1>3. n \in P
  BY <1>1, <1>2, Induction
<1>4. Up(n)
  BY <1>3 DEF P
<1> QED
  BY <1>4 DEF Goes

---------------------------------------------------------------------------
(* The space of an index.                                                  *)

Contents == [bytes : Nat, text : Texts \cup {NoText}]

Spaces == [block : [Blocks -> Contents], misused : BOOLEAN]

(* The blocks of the given set hold the same in both spaces. *)
SameBlocks(x, y, S) == \A b \in S : y.block[b] = x.block[b]

LEMMA AllocatedIn ==
  ASSUME NEW x
  PROVE  /\ Allocated(x) \subseteq Blocks
         /\ 0 \notin Allocated(x)
         /\ Allocated(x) \subseteq Nat
  BY StrNodesAssumption DEF Allocated

LEMMA FreshIsFree ==
  ASSUME NEW x, Blocks # Allocated(x)
  PROVE  Fresh(x) \in Blocks \ Allocated(x)
<1> DEFINE T == Blocks \ Allocated(x)
<1>1. T \subseteq Nat /\ T # {}
  BY StrNodesAssumption DEF Allocated
<1> HIDE DEF T
<1>2. \E b \in T : \A c \in T : b <= c
  BY <1>1, Least
<1>3. Min(T) \in T
  BY <1>2 DEF Min
<1> QED
  BY <1>3 DEF Fresh, T

LEMMA RoundsUp ==
  ASSUME NEW bytes \in Nat
  PROVE  RoundUp(bytes) \in Nat /\ bytes <= RoundUp(bytes)
  BY DEF RoundUp

(* One block of a space changes. *)
Replaced(x, b, new) == [x EXCEPT !.block[b] = new]

LEMMA NewBlock ==
  ASSUME NEW x \in Spaces, NEW b \in Blocks,
         NEW new \in Contents
  PROVE  LET y == Replaced(x, b, new)
         IN  /\ y \in Spaces
             /\ y.misused = x.misused
             /\ y.block[b] = new
             /\ SameBlocks(x, y, Blocks \ {b})
             /\ new = NoBlock => Allocated(y) = Allocated(x) \ {b}
             /\ new # NoBlock => Allocated(y) = Allocated(x) \cup {b}
<1> DEFINE y == Replaced(x, b, new)
<1>1. /\ y \in Spaces
      /\ y.misused = x.misused
      /\ y.block = [x.block EXCEPT ![b] = new]
  BY DEF Spaces, Replaced
<1>2. x.block \in [Blocks -> Contents]
  BY DEF Spaces
<1> HIDE DEF y
<1>3. /\ y.block[b] = new
      /\ \A c \in Blocks \ {b} : y.block[c] = x.block[c]
  BY <1>1, <1>2
<1>4. /\ new = NoBlock => Allocated(y) = Allocated(x) \ {b}
      /\ new # NoBlock => Allocated(y) = Allocated(x) \cup {b}
  BY <1>3 DEF Allocated
<1> QED
  BY <1>1, <1>3, <1>4 DEF y, SameBlocks

LEMMA Alloced ==
  ASSUME NEW x \in Spaces, Blocks # Allocated(x), NEW bytes \in Nat \ {0}
  PROVE  LET y == WithBlock(x, bytes)
         IN  /\ y \in Spaces
             /\ y.misused = x.misused
             /\ Allocated(y) = Allocated(x) \cup {Fresh(x)}
             /\ Fresh(x) \in Blocks \ Allocated(x)
             /\ SameBlocks(x, y, Allocated(x))
             /\ y.block[Fresh(x)].bytes >= bytes
<1> DEFINE b == Fresh(x)
           new == [bytes |-> RoundUp(bytes), text |-> NoText]
           y == Replaced(x, b, new)
<1>1. b \in Blocks \ Allocated(x)
  BY FreshIsFree
<1>2. /\ new \in Contents
      /\ new.bytes >= bytes /\ new.bytes # 0
  BY RoundsUp DEF Contents
<1>3. new # NoBlock
  BY <1>2 DEF NoBlock
<1>4. WithBlock(x, bytes) = y
  BY DEF WithBlock, Replaced
<1> HIDE DEF new, b
<1>5. /\ y \in Spaces
      /\ y.misused = x.misused
      /\ y.block[b] = new
      /\ SameBlocks(x, y, Blocks \ {b})
      /\ Allocated(y) = Allocated(x) \cup {b}
  <2>1. b \in Blocks /\ new \in Contents
    BY <1>1, <1>2
  <2>2. /\ y \in Spaces
        /\ y.misused = x.misused
        /\ y.block[b] = new
        /\ SameBlocks(x, y, Blocks \ {b})
        /\ new # NoBlock => Allocated(y) = Allocated(x) \cup {b}
    BY <2>1, NewBlock
  <2> HIDE DEF y
  <2> QED
    BY <2>2, <1>3
<1> HIDE DEF y
<1>6. SameBlocks(x, y, Allocated(x))
  BY <1>1, <1>5 DEF SameBlocks, Allocated
<1> QED
  BY <1>1, <1>2, <1>4, <1>5, <1>6 DEF b

(* free of a block that is allocated, and of anything else. *)
LEMMA Released ==
  ASSUME NEW x \in Spaces, NEW b
  PROVE  LET y == WithoutBlock(x, b)
         IN  /\ y \in Spaces
             /\ b \in Allocated(x) => y.misused = x.misused
             /\ Allocated(y) = Allocated(x) \ {b}
             /\ SameBlocks(x, y, Allocated(x) \ {b})
<1>1. CASE b \in Allocated(x)
  <2> DEFINE y == Replaced(x, b, NoBlock)
  <2>1. b \in Blocks /\ NoBlock \in Contents
    BY <1>1, AllocatedIn DEF NoBlock, Contents
  <2>2. /\ y \in Spaces
        /\ y.misused = x.misused
        /\ SameBlocks(x, y, Blocks \ {b})
        /\ Allocated(y) = Allocated(x) \ {b}
    BY <2>1, NewBlock
  <2>3. WithoutBlock(x, b) = y
    BY <1>1 DEF WithoutBlock, Replaced
  <2> HIDE DEF y
  <2> QED
    BY <2>2, <2>3, AllocatedIn DEF SameBlocks
<1>2. CASE b \notin Allocated(x)
  <2> DEFINE y == [x EXCEPT !.misused = TRUE]
  <2>1. y \in Spaces /\ y.block = x.block
    BY DEF Spaces
  <2>2. WithoutBlock(x, b) = y
    BY <1>2 DEF WithoutBlock
  <2> HIDE DEF y
  <2> QED
    BY <2>1, <2>2, <1>2 DEF SameBlocks, Allocated
<1> QED
  BY <1>1, <1>2

LEMMA WrittenTo ==
  ASSUME NEW x \in Spaces, NEW b \in Allocated(x), NEW t \in Texts,
         NEW len \in Nat, len <= x.block[b].bytes
  PROVE  LET y == Written(x, b, t, len)
         IN  /\ y \in Spaces
             /\ y.misused = x.misused
             /\ Allocated(y) = Allocated(x)
             /\ SameBlocks(x, y, Allocated(x) \ {b})
             /\ y.block[b].text = t
             /\ y.block[b].bytes = x.block[b].bytes
<1> DEFINE new == [x.block[b] EXCEPT !.text = t]
           y == Replaced(x, b, new)
<1>1. b \in Blocks /\ x.block[b] \in Contents
  BY AllocatedIn DEF Spaces
<1>2. /\ new \in Contents
      /\ new.text = t
      /\ new.bytes = x.block[b].bytes
  BY <1>1 DEF Contents
<1>3. new # NoBlock
  BY <1>2, StrNodesAssumption DEF NoBlock
<1>4. Written(x, b, t, len) = y
  BY DEF Written, Replaced, Spaces
<1> HIDE DEF new
<1>5. /\ y \in Spaces
      /\ y.misused = x.misused
      /\ y.block[b] = new
      /\ SameBlocks(x, y, Blocks \ {b})
      /\ Allocated(y) = Allocated(x) \cup {b}
  <2>1. b \in Blocks /\ new \in Contents
    BY <1>1, <1>2
  <2>2. /\ y \in Spaces
        /\ y.misused = x.misused
        /\ y.block[b] = new
        /\ SameBlocks(x, y, Blocks \ {b})
        /\ new # NoBlock => Allocated(y) = Allocated(x) \cup {b}
    BY <2>1, NewBlock, SMTT(20)
  <2> HIDE DEF y
  <2> QED
    BY <2>2, <1>3
<1> HIDE DEF y
<1> QED
  BY <1>2, <1>4, <1>5, AllocatedIn DEF SameBlocks
---------------------------------------------------------------------------
(* An owner gives back the blocks from and gets the blocks to: it touches  *)
(* nobody else's.                                                          *)
Exchange(x, y, from, to) ==
  /\ y \in Spaces
  /\ to \cap (Allocated(x) \ from) = {}
  /\ Allocated(y) = (Allocated(x) \ from) \cup to
  /\ SameBlocks(x, y, Allocated(x) \ from)

(* Strings.                                                                *)

Strs == [flag : BOOLEAN, text : Texts, data_ptr : Nat, str_len : Nat]

(* The block of string s. *)
Owned(s) == IF s.flag THEN {s.data_ptr} ELSE {}

(* String s in space x holds text t, and its block has room for it. *)
Keeps(s, x, t) ==
  IF s.flag
  THEN /\ s.data_ptr \in Allocated(x)
       /\ x.block[s.data_ptr].text = t
       /\ s.str_len = Length[t]
       /\ Length[t] < x.block[s.data_ptr].bytes
  ELSE s.text = t

LEMMA EmptyText ==
  EmptyStr \in Strs /\ ~EmptyStr.flag /\ Owned(EmptyStr) = {}
<1> DEFINE t == CHOOSE t \in Texts : Length[t] = 0
<1>1. t \in Texts
  BY StrNodesAssumption
<1> HIDE DEF t
<1>2. EmptyStr = [flag |-> FALSE, text |-> t, data_ptr |-> 0, str_len |-> 0]
  BY DEF EmptyStr, t
<1> QED
  BY <1>1, <1>2 DEF Strs, Owned

LEMMA ClearedSpace ==
  ASSUME NEW s \in Strs, NEW x \in Spaces, NEW t, Keeps(s, x, t)
  PROVE  LET y == Cleared([str |-> s, space |-> x])
         IN  /\ y.str = EmptyStr
             /\ Exchange(x, y.space, Owned(s), {})
             /\ y.space.misused = x.misused
<1> DEFINE y == Cleared([str |-> s, space |-> x])
<1>1. /\ y.str = EmptyStr
      /\ y.space = IF s.flag THEN WithoutBlock(x, s.data_ptr) ELSE x
  BY DEF Cleared
<1> HIDE DEF y
<1>2. CASE s.flag
  <2>1. s.data_ptr \in Allocated(x) /\ Owned(s) = {s.data_ptr}
    BY <1>2 DEF Keeps, Owned
  <2>2. y.space = WithoutBlock(x, s.data_ptr)
    BY <1>1, <1>2
  <2>3. /\ y.space \in Spaces
        /\ y.space.misused = x.misused
        /\ Allocated(y.space) = Allocated(x) \ Owned(s)
        /\ SameBlocks(x, y.space, Allocated(x) \ Owned(s))
    <3> DEFINE b == s.data_ptr
               z == WithoutBlock(x, b)
    <3> HIDE DEF b
    <3>1. /\ z \in Spaces
          /\ z.misused = x.misused
          /\ Allocated(z) = Allocated(x) \ {b}
          /\ SameBlocks(x, z, Allocated(x) \ {b})
      BY <2>1, Released DEF b
    <3> HIDE DEF z
    <3> QED
      BY <2>1, <2>2, <3>1 DEF b, z
  <2> QED
    BY <1>1, <2>3 DEF Exchange, y
<1>3. CASE ~s.flag
  <2>1. Owned(s) = {} /\ y.space = x
    BY <1>1, <1>3 DEF Owned
  <2> QED
    BY <1>1, <2>1 DEF Exchange, SameBlocks, y
<1> QED
  BY <1>2, <1>3 DEF Strs

LEMMA InPlaceSet ==
  ASSUME NEW s \in Strs, NEW x \in Spaces, NEW old, Keeps(s, x, old),
         NEW t \in Texts
  PROVE  LET y == SetInPlace([str |-> s, space |-> x], t)
         IN  /\ y.str \in Strs
             /\ Keeps(y.str, y.space, t)
             /\ Exchange(x, y.space, Owned(s), Owned(y.str))
             /\ y.space.misused = x.misused
<1> DEFINE new == [EmptyStr EXCEPT !.text = t]
           c == Cleared([str |-> s, space |-> x])
<1>1. new \in Strs /\ ~new.flag /\ new.text = t /\ Owned(new) = {}
  BY EmptyText DEF Strs, Owned
<1>2. Exchange(x, c.space, Owned(s), {}) /\ c.space.misused = x.misused
  BY ClearedSpace
<1> HIDE DEF new, c
<1> DEFINE y == SetInPlace([str |-> s, space |-> x], t)
<1>3. y.str = new /\ y.space = c.space
  BY DEF SetInPlace, new, c
<1>4. Keeps(new, c.space, t)
  BY <1>1 DEF Keeps
<1> HIDE DEF y
<1>5. /\ y.str \in Strs
      /\ Keeps(y.str, y.space, t)
      /\ Exchange(x, y.space, Owned(s), Owned(y.str))
      /\ y.space.misused = x.misused
  BY <1>1, <1>2, <1>3, <1>4
<1> QED
  BY <1>5 DEF y

LEMMA InBlockSet ==
  ASSUME NEW s \in Strs, NEW x \in Spaces, NEW old, Keeps(s, x, old),
         NEW t \in Texts, Reusable(s, t)
  PROVE  LET y == SetInBlock([str |-> s, space |-> x], t)
         IN  /\ y.str \in Strs
             /\ Keeps(y.str, y.space, t)
             /\ Exchange(x, y.space, Owned(s), Owned(y.str))
             /\ y.space.misused = x.misused
<1> DEFINE new == [s EXCEPT !.str_len = Length[t]]
           b == s.data_ptr
           len == Length[t] + 1
           z == Written(x, b, t, len)
<1>1. Length[t] \in Nat /\ len \in Nat
  BY StrNodesAssumption
<1>2. /\ new \in Strs /\ new.flag /\ new.data_ptr = b
      /\ new.str_len = Length[t]
      /\ Owned(new) = {b} /\ Owned(s) = {b}
  BY <1>1 DEF Strs, Owned, Reusable
<1>3. b \in Allocated(x) /\ s.str_len < x.block[b].bytes
  BY <1>2 DEF Keeps, Reusable
<1>4. x.block[b].bytes \in Nat /\ s.str_len \in Nat
  BY <1>3, AllocatedIn DEF Spaces, Contents, Strs
<1>5. len <= x.block[b].bytes
  BY <1>1, <1>3, <1>4 DEF Reusable
<1> HIDE DEF new, b, len
<1>6. /\ z \in Spaces
      /\ z.misused = x.misused
      /\ Allocated(z) = Allocated(x)
      /\ SameBlocks(x, z, Allocated(x) \ {b})
      /\ z.block[b].text = t
      /\ z.block[b].bytes = x.block[b].bytes
  BY <1>1, <1>3, <1>5, WrittenTo
<1>7. SetInBlock([str |-> s, space |-> x], t) = [str |-> new, space |-> z]
  BY DEF SetInBlock, new, b, len
<1> HIDE DEF z
<1>8. Keeps(new, z, t)
  <2>1. Length[t] < z.block[b].bytes
    BY <1>1, <1>4, <1>5, <1>6 DEF len
  <2> QED
    BY <2>1, <1>2, <1>3, <1>6 DEF Keeps
<1>9. Exchange(x, z, Owned(s), Owned(new))
  BY <1>2, <1>3, <1>6 DEF Exchange
<1> QED
  BY <1>2, <1>6, <1>7, <1>8, <1>9

LEMMA NewBlockSet ==
  ASSUME NEW s \in Strs, NEW x \in Spaces, NEW old, Keeps(s, x, old),
         NEW t \in Texts, Blocks # Allocated(x)
  PROVE  LET y == SetInNewBlock([str |-> s, space |-> x], t)
         IN  /\ y.str \in Strs
             /\ Keeps(y.str, y.space, t)
             /\ Exchange(x, y.space, Owned(s), Owned(y.str))
             /\ y.space.misused = x.misused
<1> DEFINE len == Length[t] + 1
           b == Fresh(x)
           new == [EmptyStr EXCEPT !.flag = TRUE, !.data_ptr = b,
                                   !.str_len = Length[t]]
           w == WithBlock(x, len)
           c == Cleared([str |-> s, space |-> w])
           z == Written(c.space, b, t, len)
<1>1. Length[t] \in Nat /\ len \in Nat \ {0}
  BY StrNodesAssumption
<1>2. b \in Blocks \ Allocated(x) /\ b \in Nat
  BY FreshIsFree, StrNodesAssumption
<1>3. /\ new \in Strs /\ new.flag /\ new.data_ptr = b
      /\ new.str_len = Length[t]
      /\ Owned(new) = {b}
  BY <1>1, <1>2, EmptyText DEF Strs, Owned
<1>4. SetInNewBlock([str |-> s, space |-> x], t) = [str |-> new, space |-> z]
  BY DEF SetInNewBlock, StrBytes
<1>5. /\ w \in Spaces
      /\ w.misused = x.misused
      /\ Allocated(w) = Allocated(x) \cup {b}
      /\ SameBlocks(x, w, Allocated(x))
      /\ w.block[b].bytes >= len
  <2> HIDE DEF len
  <2> QED
    BY <1>1, Alloced
<1> HIDE DEF new, b, w
<1>6. Keeps(s, w, old)
  BY <1>5 DEF Keeps, SameBlocks
<1>7. Exchange(w, c.space, Owned(s), {}) /\ c.space.misused = w.misused
  BY <1>5, <1>6, ClearedSpace
<1> DEFINE d == c.space
<1>8. Owned(s) \subseteq Allocated(x) /\ b \notin Owned(s)
  BY <1>2 DEF Keeps, Owned
<1> HIDE DEF c
<1>9. /\ d \in Spaces
      /\ d.misused = x.misused
      /\ Allocated(d) = (Allocated(x) \ Owned(s)) \cup {b}
      /\ SameBlocks(x, d, Allocated(x) \ Owned(s))
      /\ d.block[b].bytes = w.block[b].bytes
  BY <1>5, <1>7, <1>8 DEF Exchange, SameBlocks
<1> HIDE DEF d
<1>10. b \in Allocated(d) /\ d.block[b].bytes \in Nat /\ w.block[b].bytes \in Nat
  BY <1>9, AllocatedIn DEF Spaces, Contents
<1>11. len \in Nat /\ len <= d.block[b].bytes
  BY <1>1, <1>5, <1>9, <1>10
<1>12. z = Written(d, b, t, len)
  BY DEF d
<1> HIDE DEF z, len
<1>13. /\ z \in Spaces
       /\ z.misused = d.misused
       /\ Allocated(z) = Allocated(d)
       /\ SameBlocks(d, z, Allocated(d) \ {b})
       /\ z.block[b].text = t
       /\ z.block[b].bytes = d.block[b].bytes
  <2> DEFINE e == Written(d, b, t, len)
  <2>1. /\ d \in Spaces /\ b \in Allocated(d)
        /\ len \in Nat /\ len <= d.block[b].bytes
    BY <1>9, <1>10, <1>11
  <2>2. /\ e \in Spaces
        /\ e.misused = d.misused
        /\ Allocated(e) = Allocated(d)
        /\ SameBlocks(d, e, Allocated(d) \ {b})
        /\ e.block[b].text = t
        /\ e.block[b].bytes = d.block[b].bytes
    BY <2>1, WrittenTo
  <2> HIDE DEF e
  <2> QED
    BY <2>2, <1>12 DEF e
<1>14. Keeps(new, z, t)
  <2>1. Length[t] < z.block[b].bytes
    BY <1>1, <1>10, <1>11, <1>13 DEF len
  <2> QED
    BY <2>1, <1>3, <1>10, <1>13 DEF Keeps
<1>15. Exchange(x, z, Owned(s), Owned(new))
  <2>1. SameBlocks(x, z, Allocated(x) \ Owned(s))
    BY <1>2, <1>9, <1>13 DEF SameBlocks
  <2> QED
    BY <2>1, <1>2, <1>3, <1>9, <1>13 DEF Exchange
<1> DEFINE y == SetInNewBlock([str |-> s, space |-> x], t)
<1>16. y.str = new /\ y.space = z
  BY <1>4
<1> HIDE DEF y
<1>17. z.misused = x.misused
  BY <1>9, <1>13
<1>18. /\ y.str \in Strs
       /\ Keeps(y.str, y.space, t)
       /\ Exchange(x, y.space, Owned(s), Owned(y.str))
       /\ y.space.misused = x.misused
  BY <1>3, <1>14, <1>15, <1>16, <1>17
<1> QED
  BY <1>18 DEF y

(* set_data, whichever way it takes: without memory the old text stays.    *)
LEMMA DataSet ==
  ASSUME NEW s \in Strs, NEW x \in Spaces, NEW old, Keeps(s, x, old),
         NEW t \in Texts, NEW memory \in BOOLEAN,
         memory => Blocks # Allocated(x)
  PROVE  LET y == SetData([str |-> s, space |-> x], t, memory)
         IN  /\ y.str \in Strs
             /\ Keeps(y.str, y.space, IF memory \/ ~MustAlloc(s, t) THEN t ELSE old)
             /\ Exchange(x, y.space, Owned(s), Owned(y.str))
             /\ y.space.misused = x.misused
<1> DEFINE r == [str |-> s, space |-> x]
           y == SetData(r, t, memory)
<1>1. CASE FitsInPlace(t)
  <2>1. y = SetInPlace(r, t) /\ ~MustAlloc(s, t)
    BY <1>1 DEF SetData, MustAlloc
  <2> QED
    BY <2>1, InPlaceSet
<1>2. CASE ~FitsInPlace(t) /\ Reusable(s, t)
  <2>1. y = SetInBlock(r, t) /\ ~MustAlloc(s, t)
    BY <1>2 DEF SetData, MustAlloc
  <2> QED
    BY <2>1, <1>2, InBlockSet
<1>3. CASE ~FitsInPlace(t) /\ ~Reusable(s, t) /\ memory
  <2>1. y = SetInNewBlock(r, t)
    BY <1>3 DEF SetData
  <2> DEFINE z == SetInNewBlock(r, t)
  <2>2. /\ z.str \in Strs
        /\ Keeps(z.str, z.space, t)
        /\ Exchange(x, z.space, Owned(s), Owned(z.str))
        /\ z.space.misused = x.misused
    BY <1>3, NewBlockSet
  <2> HIDE DEF z
  <2> QED
    BY <2>1, <2>2, <1>3 DEF z
<1>4. CASE ~FitsInPlace(t) /\ ~Reusable(s, t) /\ ~memory
  <2>1. y = r /\ MustAlloc(s, t)
    BY <1>4 DEF SetData, MustAlloc
  <2>2. Exchange(x, x, Owned(s), Owned(s))
    BY DEF Exchange, SameBlocks, Owned, Keeps
  <2> QED
    BY <2>1, <2>2, <1>4
<1> QED
  BY <1>1, <1>2, <1>3, <1>4
---------------------------------------------------------------------------
(* The hash list as an owner of its block of buckets. *)

IsHash(h) ==
  /\ h = [buckets |-> h.buckets, size |-> h.size, chains |-> h.chains,
          tail |-> h.tail]
  /\ h.buckets \in Blocks \cup {0}
  /\ h.size \in Nat /\ h.tail \in Nat
  /\ h.buckets # 0 => h.size > 0

Table(h) == {h.buckets} \ {0}

LEMMA BucketsKnown ==
  ASSUME NEW h, IsHash(h)
  PROVE  /\ h.buckets # 0 => SizeBits(h) > 0 /\ bucket_size(h) > 1
         /\ h.buckets = 0 /\ h.tail = 0 => SizeBits(h) = 0 /\ bucket_size(h) = 1
<1>1. CASE h.buckets # 0
  <2>1. SizeBits(h) = h.size /\ h.size \in Nat /\ h.size > 0
    BY <1>1 DEF SizeBits, IsHash
  <2>2. bucket_size(h) = (h.size * 8) \div 4
    BY <2>1 DEF bucket_size, BytesPerList
  <2> QED
    BY <1>1, <2>1, <2>2
<1>2. CASE h.buckets = 0
  BY <1>2 DEF SizeBits, bucket_size
<1> QED
  BY <1>1, <1>2

(* free of the buckets touches nothing else, and the index survives it     *)
(* unless the head of a single list is taken for a block.                  *)
LEMMA TableFreed ==
  ASSUME NEW h, IsHash(h), NEW x \in Spaces, Table(h) \subseteq Allocated(x),
         NEW y, y \in {x, WithoutBlock(x, h.buckets)},
         h.buckets # 0 => y = WithoutBlock(x, h.buckets)
  PROVE  /\ Exchange(x, y, Table(h), {})
         /\ h.buckets # 0 => y.misused = x.misused
<1> DEFINE b == h.buckets
           z == WithoutBlock(x, b)
<1>1. Allocated(x) \ {b} = Allocated(x) \ Table(h)
  BY AllocatedIn DEF Table
<1>2. b # 0 => b \in Allocated(x)
  BY DEF Table
<1> HIDE DEF b
<1>3. /\ z \in Spaces
      /\ b \in Allocated(x) => z.misused = x.misused
      /\ Allocated(z) = Allocated(x) \ {b}
      /\ SameBlocks(x, z, Allocated(x) \ {b})
  BY Released
<1> HIDE DEF z
<1>4. CASE y = z
  BY <1>1, <1>2, <1>3, <1>4 DEF Exchange, b
<1>5. CASE y # z
  <2>1. y = x /\ b = 0
    BY <1>5 DEF z, b
  <2>2. Table(h) = {}
    BY <2>1 DEF Table, b
  <2> QED
    BY <2>1, <2>2 DEF Exchange, SameBlocks, b
<1> QED
  BY <1>4, <1>5

LEMMA BucketsFreed ==
  ASSUME NEW h, IsHash(h), NEW x \in Spaces, Table(h) \subseteq Allocated(x)
  PROVE  /\ Exchange(x, Freed(h, x), Table(h), {})
         /\ h.buckets # 0 \/ h.tail = 0 => Freed(h, x).misused = x.misused
<1>1. /\ Freed(h, x) \in {x, WithoutBlock(x, h.buckets)}
      /\ h.buckets # 0 => Freed(h, x) = WithoutBlock(x, h.buckets)
      /\ h.buckets = 0 /\ h.tail = 0 => Freed(h, x) = x
  BY BucketsKnown DEF Freed
<1> DEFINE y == Freed(h, x)
<1> HIDE DEF y
<1>2. /\ Exchange(x, y, Table(h), {})
      /\ h.buckets # 0 => y.misused = x.misused
  BY <1>1, TableFreed DEF y
<1> QED
  BY <1>1, <1>2 DEF y

LEMMA EmptyTable == IsHash(EmptyHash) /\ Table(EmptyHash) = {} /\ EmptyHash.tail = 0
  BY DEF EmptyHash, IsHash, Table

LEMMA TableUninited ==
  ASSUME NEW h, IsHash(h), NEW x \in Spaces, Table(h) \subseteq Allocated(x)
  PROVE  LET y == Uninited([hash |-> h, space |-> x])
         IN  /\ y.hash = EmptyHash
             /\ Exchange(x, y.space, Table(h), {})
             /\ h.buckets # 0 \/ h.tail = 0 => y.space.misused = x.misused
<1> DEFINE z == IF SizeBits(h) > 0 THEN WithoutBlock(x, h.buckets) ELSE x
<1>1. Uninited([hash |-> h, space |-> x]) = [hash |-> EmptyHash, space |-> z]
  BY DEF Uninited
<1>2. /\ z \in {x, WithoutBlock(x, h.buckets)}
      /\ h.buckets # 0 => z = WithoutBlock(x, h.buckets)
      /\ h.buckets = 0 /\ h.tail = 0 => z = x
  BY BucketsKnown
<1> HIDE DEF z
<1>3. /\ Exchange(x, z, Table(h), {})
      /\ h.buckets # 0 => z.misused = x.misused
  BY <1>2, TableFreed
<1> QED
  BY <1>1, <1>2, <1>3

LEMMA TableSingle ==
  ASSUME NEW h, IsHash(h), NEW x \in Spaces, Table(h) \subseteq Allocated(x),
         NEW bits \in Nat, NEW hash_of
  PROVE  LET y == ToSingle([hash |-> h, space |-> x], bits, hash_of)
         IN  /\ IsHash(y.hash)
             /\ y.hash.tail \in {0, bits}
             /\ Exchange(x, y.space, Table(h), Table(y.hash))
             /\ h.buckets # 0 \/ h.tail = 0 => y.space.misused = x.misused
<1> DEFINE c == Moved(h, 1, hash_of)
           t == IF c[0] = <<>> THEN 0 ELSE bits
           new == [buckets |-> 0, size |-> 0, chains |-> c, tail |-> t]
           z == Freed(h, x)
<1>1. ToSingle([hash |-> h, space |-> x], bits, hash_of) = [hash |-> new, space |-> z]
  BY DEF ToSingle
<1> HIDE DEF c
<1>2. t \in Nat /\ t \in {0, bits}
  OBVIOUS
<1> HIDE DEF t
<1>3. IsHash(new) /\ Table(new) = {} /\ new.tail = t
  BY <1>2 DEF IsHash, Table
<1> HIDE DEF new, z
<1>4. /\ Exchange(x, z, Table(h), {})
      /\ h.buckets # 0 \/ h.tail = 0 => z.misused = x.misused
  BY BucketsFreed DEF z
<1> QED
  BY <1>1, <1>2, <1>3, <1>4

(* A block of buckets is full of lists. *)
LEMMA RealSizes ==
  ASSUME NEW new_size \in Nat \ {0}
  PROVE  LET n == RealSize(new_size)
             size == (n * BytesPerList) \div 8
         IN  /\ n \in Nat \ {0}
             /\ size \in Nat \ {0}
             /\ (size * 8) \div BytesPerList = n
<1> DEFINE q == (new_size * 4 + 7) \div 8
<1>1. q \in Nat /\ q > 0
  OBVIOUS
<1>2. RoundUp(new_size * BytesPerList) = q * 8
  BY DEF RoundUp, BytesPerList
<1> HIDE DEF q
<1>3. (q * 8) \div 4 = q * 2
  BY <1>1
<1>4. RealSize(new_size) = q * 2
  BY <1>2, <1>3 DEF RealSize, BytesPerList
<1>5. ((q * 2) * 4) \div 8 = q /\ q * 2 \in Nat \ {0} /\ q \in Nat \ {0}
  BY <1>1
<1> QED
  BY <1>3, <1>4, <1>5 DEF BytesPerList

LEMMA TableBuckets ==
  ASSUME NEW h, IsHash(h), NEW x \in Spaces, Table(h) \subseteq Allocated(x),
         Blocks # Allocated(x), NEW new_size \in Nat \ {0}, NEW hash_of
  PROVE  LET y == ToBuckets([hash |-> h, space |-> x], new_size, hash_of)
         IN  /\ IsHash(y.hash)
             /\ y.hash.tail = 0
             /\ Exchange(x, y.space, Table(h), Table(y.hash))
             /\ h.buckets # 0 \/ h.tail = 0 => y.space.misused = x.misused
<1> DEFINE b == Fresh(x)
           n == RealSize(new_size)
           size == (n * BytesPerList) \div 8
           c == Moved(h, n, hash_of)
           new == [buckets |-> b, size |-> size, chains |-> c, tail |-> 0]
           len == new_size * BytesPerList
           w == WithBlock(x, len)
           z == Freed(h, w)
<1>1. ToBuckets([hash |-> h, space |-> x], new_size, hash_of)
        = [hash |-> new, space |-> z]
  BY DEF ToBuckets
<1>2. size \in Nat /\ size > 0
  BY RealSizes
<1> HIDE DEF c, size, n
<1>3. b \in Blocks \ Allocated(x) /\ b # 0
  BY FreshIsFree, StrNodesAssumption
<1>4. IsHash(new) /\ Table(new) = {b} /\ new.tail = 0
  BY <1>2, <1>3 DEF IsHash, Table
<1>5. len \in Nat \ {0}
  BY DEF BytesPerList
<1> HIDE DEF new, len
<1>6. /\ w \in Spaces
      /\ w.misused = x.misused
      /\ Allocated(w) = Allocated(x) \cup {b}
      /\ SameBlocks(x, w, Allocated(x))
  BY <1>5, Alloced
<1> HIDE DEF w, b
<1>7. Table(h) \subseteq Allocated(w)
  BY <1>6
<1>8. /\ Exchange(w, z, Table(h), {})
      /\ h.buckets # 0 \/ h.tail = 0 => z.misused = w.misused
  BY <1>6, <1>7, BucketsFreed
<1> HIDE DEF z
<1>9. Exchange(x, z, Table(h), {b})
  <2>1. b \notin Table(h)
    BY <1>3
  <2> QED
    BY <2>1, <1>3, <1>6, <1>8 DEF Exchange, SameBlocks
<1> QED
  BY <1>1, <1>4, <1>6, <1>8, <1>9
---------------------------------------------------------------------------
(* The inductive invariant: every string keeps its text, and every block   *)
(* that is allocated has one owner, a string or the hash list.             *)
IInv ==
  /\ str \in [Nodes -> Strs]
  /\ text \in [Nodes -> Texts]
  /\ space \in Spaces
  /\ IsHash(hash)
  /\ \A n \in Nodes : Keeps(str[n], space, text[n])
  /\ \A m, n \in Nodes : m # n => Owned(str[m]) \cap Owned(str[n]) = {}
  /\ \A n \in Nodes : Owned(str[n]) \cap Table(hash) = {}
  /\ Table(hash) \subseteq Allocated(space)
  /\ \A b \in Allocated(space) :
       b \in Table(hash) \/ \E n \in Nodes : b \in Owned(str[n])
  /\ IsFiniteSet(Allocated(space))

LEMMA InitIInv == Init => IInv
<1> SUFFICES ASSUME Init PROVE IInv
  OBVIOUS
<1>1. /\ EmptyStr \in Strs /\ ~EmptyStr.flag /\ Owned(EmptyStr) = {}
      /\ EmptyStr.text \in Texts
  BY EmptyText DEF Strs
<1>2. space \in Spaces /\ Allocated(space) = {}
  BY DEF Init, EmptySpace, Spaces, Contents, NoBlock, Allocated
<1>3. \A n \in Nodes : str[n] = EmptyStr /\ text[n] = EmptyStr.text
  BY DEF Init
<1>4. str \in [Nodes -> Strs] /\ text \in [Nodes -> Texts]
  BY <1>1 DEF Init
<1>5. \A n \in Nodes : Keeps(str[n], space, text[n]) /\ Owned(str[n]) = {}
  BY <1>1, <1>3 DEF Keeps
<1>6. IsHash(hash) /\ Table(hash) = {}
  BY EmptyTable DEF Init
<1> QED
  BY <1>2, <1>4, <1>5, <1>6, FS_EmptySet DEF IInv

(* What an owner exchanges leaves the strings of the others alone.         *)
LEMMA OthersKeep ==
  ASSUME NEW x \in Spaces, NEW y, NEW from, NEW to, Exchange(x, y, from, to),
         NEW s, NEW t, Keeps(s, x, t), Owned(s) \cap from = {}
  PROVE  /\ Keeps(s, y, t)
         /\ Owned(s) \cap to = {}
         /\ Owned(s) \subseteq Allocated(x)
<1>1. Owned(s) \subseteq Allocated(x) \ from
  BY DEF Keeps, Owned
<1>2. CASE s.flag
  <2>1. s.data_ptr \in Allocated(x) \ from
    BY <1>1, <1>2 DEF Owned
  <2> QED
    BY <1>1, <1>2, <2>1 DEF Keeps, Exchange, SameBlocks
<1>3. CASE ~s.flag
  BY <1>1, <1>3 DEF Keeps, Exchange
<1> QED
  BY <1>2, <1>3

LEMMA ExchangedFinite ==
  ASSUME NEW x, NEW y, NEW from, NEW to, Exchange(x, y, from, to),
         IsFiniteSet(Allocated(x)), NEW b, to \subseteq {b}
  PROVE  IsFiniteSet(Allocated(y))
<1>1. IsFiniteSet(Allocated(x) \ from)
  BY FS_Subset
<1>2. IsFiniteSet(to)
  BY FS_Singleton, FS_Subset
<1>3. IsFiniteSet((Allocated(x) \ from) \cup to)
  BY <1>1, <1>2, FS_Union
<1> QED
  BY <1>3 DEF Exchange

(* A step of one string. *)
LEMMA StringStep ==
  ASSUME IInv, NEW n \in Nodes, NEW s \in Strs, NEW t \in Texts,
         Keeps(s, space', t), Exchange(space, space', Owned(str[n]), Owned(s)),
         str' = [str EXCEPT ![n] = s], text' = [text EXCEPT ![n] = t],
         hash' = hash
  PROVE  IInv'
<1>1. /\ str' \in [Nodes -> Strs] /\ text' \in [Nodes -> Texts]
      /\ str'[n] = s /\ text'[n] = t
      /\ \A m \in Nodes \ {n} : str'[m] = str[m] /\ text'[m] = text[m]
  BY DEF IInv
<1>2. space \in Spaces /\ space' \in Spaces
  BY DEF IInv, Exchange
<1>3. ASSUME NEW m \in Nodes \ {n}
      PROVE  /\ Keeps(str'[m], space', text'[m])
             /\ Owned(str'[m]) \cap Owned(s) = {}
  <2>1. Keeps(str[m], space, text[m]) /\ Owned(str[m]) \cap Owned(str[n]) = {}
    BY DEF IInv
  <2> QED
    BY <2>1, <1>1, <1>2, OthersKeep
<1>4. \A m \in Nodes : Keeps(str'[m], space', text'[m])
  BY <1>1, <1>3
<1>5. \A m, k \in Nodes : m # k => Owned(str'[m]) \cap Owned(str'[k]) = {}
  <2> SUFFICES ASSUME NEW m \in Nodes, NEW k \in Nodes, m # k
               PROVE  Owned(str'[m]) \cap Owned(str'[k]) = {}
    OBVIOUS
  <2>1. CASE m = n
    BY <2>1, <1>1, <1>3
  <2>2. CASE k = n
    BY <2>2, <1>1, <1>3
  <2>3. CASE m # n /\ k # n
    BY <2>3, <1>1 DEF IInv
  <2> QED
    BY <2>1, <2>2, <2>3
<1>6. Table(hash) \subseteq Allocated(space) \ Owned(str[n])
  BY DEF IInv
<1>7. /\ Table(hash) \subseteq Allocated(space')
      /\ Owned(s) \cap Table(hash) = {}
  BY <1>6 DEF Exchange
<1>8. \A m \in Nodes : Owned(str'[m]) \cap Table(hash) = {}
  BY <1>1, <1>7 DEF IInv
<1>9. ASSUME NEW b \in Allocated(space')
      PROVE  b \in Table(hash) \/ \E m \in Nodes : b \in Owned(str'[m])
  <2>1. CASE b \in Owned(s)
    BY <2>1, <1>1
  <2>2. CASE b \in Allocated(space) \ Owned(str[n])
    <3>1. b \in Table(hash) \/ \E m \in Nodes \ {n} : b \in Owned(str[m])
      BY <2>2 DEF IInv
    <3> QED
      BY <3>1, <1>1
  <2> QED
    BY <2>1, <2>2 DEF Exchange
<1>10. IsFiniteSet(Allocated(space'))
  <2>1. IsFiniteSet(Allocated(space)) /\ Owned(s) \subseteq {s.data_ptr}
    BY DEF IInv, Owned
  <2> QED
    BY <2>1, ExchangedFinite
<1>11. Table(hash') = Table(hash) /\ IsHash(hash')
  BY DEF IInv
<1>12. Allocated(space)' = Allocated(space')
  BY DEF Allocated
<1> QED
  BY <1>1, <1>2, <1>4, <1>5, <1>7, <1>8, <1>9, <1>10, <1>11, <1>12 DEF IInv

(* A step of the hash list. *)
LEMMA TableStep ==
  ASSUME IInv, IsHash(hash'), Exchange(space, space', Table(hash), Table(hash')),
         str' = str, text' = text
  PROVE  IInv'
<1>1. space \in Spaces /\ space' \in Spaces
  BY DEF IInv, Exchange
<1>2. ASSUME NEW n \in Nodes
      PROVE  /\ Keeps(str[n], space', text[n])
             /\ Owned(str[n]) \cap Table(hash') = {}
  <2>1. Keeps(str[n], space, text[n]) /\ Owned(str[n]) \cap Table(hash) = {}
    BY DEF IInv
  <2> QED
    BY <2>1, <1>1, OthersKeep
<1>3. Table(hash') \subseteq Allocated(space')
  BY DEF Exchange
<1>4. ASSUME NEW b \in Allocated(space')
      PROVE  b \in Table(hash') \/ \E n \in Nodes : b \in Owned(str[n])
  BY DEF IInv, Exchange
<1>5. IsFiniteSet(Allocated(space'))
  <2>1. IsFiniteSet(Allocated(space)) /\ Table(hash') \subseteq {hash'.buckets}
    BY DEF IInv, Table
  <2> QED
    BY <2>1, ExchangedFinite
<1> QED
  BY <1>1, <1>2, <1>3, <1>4, <1>5 DEF IInv

(* The second half of the invariant, for memory without stray bits: no     *)
(* list head looks like a block of buckets, and nothing that is no block   *)
(* was freed or written.                                                   *)
Careful == hash.tail = 0 /\ ~space.misused

LEMMA SetStep ==
  ASSUME IInv, NEW n \in Nodes, NEW t \in Texts, Set(n, t)
  PROVE  IInv' /\ (Careful => Careful')
<1> DEFINE s == str[n]
<1>1. PICK memory \in {FALSE, HasMemory} :
        LET x == SetData([str |-> s, space |-> space], t, memory)
        IN  /\ str' = [str EXCEPT ![n] = x.str]
            /\ space' = x.space
            /\ text' = IF memory \/ ~MustAlloc(s, t)
                       THEN [text EXCEPT ![n] = t] ELSE text
            /\ hash' = hash
  BY DEF Set
<1> DEFINE x == SetData([str |-> s, space |-> space], t, memory)
           new == IF memory \/ ~MustAlloc(s, t) THEN t ELSE text[n]
<1>2. /\ s \in Strs /\ space \in Spaces /\ text[n] \in Texts
      /\ Keeps(s, space, text[n])
      /\ text \in [Nodes -> Texts]
  BY DEF IInv
<1>3. memory \in BOOLEAN /\ (memory => Blocks # Allocated(space))
  BY DEF HasMemory
<1>4. /\ x.str \in Strs
      /\ Keeps(x.str, x.space, new)
      /\ Exchange(space, x.space, Owned(s), Owned(x.str))
      /\ x.space.misused = space.misused
  <2> HIDE DEF s
  <2> QED
    BY <1>2, <1>3, DataSet
<1>5. text' = [text EXCEPT ![n] = new] /\ new \in Texts
  BY <1>1, <1>2
<1>6. str' = [str EXCEPT ![n] = x.str] /\ space' = x.space /\ hash' = hash
  BY <1>1
<1> HIDE DEF x, new
<1>7. IInv'
  BY <1>4, <1>5, <1>6, StringStep
<1> QED
  BY <1>4, <1>6, <1>7 DEF Careful

LEMMA ClearStep ==
  ASSUME IInv, NEW n \in Nodes, Clear(n)
  PROVE  IInv' /\ (Careful => Careful')
<1> DEFINE s == str[n]
           x == Cleared([str |-> s, space |-> space])
<1>1. s \in Strs /\ space \in Spaces /\ Keeps(s, space, text[n])
  BY DEF IInv
<1>2. /\ str' = [str EXCEPT ![n] = x.str]
      /\ space' = x.space
      /\ text' = [text EXCEPT ![n] = EmptyStr.text]
      /\ hash' = hash
  BY DEF Clear
<1>3. /\ x.str = EmptyStr
      /\ Exchange(space, x.space, Owned(s), {})
      /\ x.space.misused = space.misused
  <2> HIDE DEF s
  <2> QED
    BY <1>1, ClearedSpace
<1>4. /\ EmptyStr \in Strs /\ Owned(EmptyStr) = {}
      /\ Keeps(EmptyStr, space', EmptyStr.text)
      /\ EmptyStr.text \in Texts
  BY EmptyText DEF Keeps, Strs
<1> HIDE DEF x
<1>5. IInv'
  BY <1>2, <1>3, <1>4, StringStep
<1> QED
  BY <1>2, <1>3, <1>5 DEF Careful

(* insert and erase change what is on the lists only. *)
LEMMA ChainsStep ==
  ASSUME IInv, NEW n, Insert(n) \/ Erase(n)
  PROVE  IInv' /\ (Careful => Careful')
<1>1. \E c : hash' = [hash EXCEPT !.chains = c]
  <2>1. \A c, i : [hash EXCEPT !.chains[i] = c]
                    = [hash EXCEPT !.chains = [@ EXCEPT ![i] = c]]
    BY DEF IInv, IsHash
  <2>2. CASE Insert(n)
    BY <2>1, <2>2 DEF Insert, Inserted
  <2>3. CASE Erase(n)
    BY <2>1, <2>3 DEF Erase, Erased
  <2> QED
    BY <2>2, <2>3
<1>2. /\ str' = str /\ text' = text /\ space' = space
  BY DEF Insert, Erase
<1>3. IsHash(hash') /\ Table(hash') = Table(hash) /\ hash'.tail = hash.tail
  BY <1>1 DEF IInv, IsHash, Table
<1>4. Exchange(space, space, Table(hash), Table(hash))
  BY DEF IInv, Exchange, SameBlocks
<1>5. IInv'
  BY <1>2, <1>3, <1>4, TableStep
<1> QED
  BY <1>2, <1>3, <1>5 DEF Careful

LEMMA ResizeStep ==
  ASSUME IInv, NEW new_size \in Sizes, Resize(new_size)
  PROVE  IInv' /\ (StackBits \subseteq {0} /\ Careful => Careful')
<1> DEFINE x == [hash |-> hash, space |-> space]
<1>1. /\ space \in Spaces /\ IsHash(hash) /\ Table(hash) \subseteq Allocated(space)
      /\ str' = str /\ text' = text
      /\ new_size \in Nat \ {0}
  BY StrNodesAssumption DEF IInv, Resize
<1>2. CASE HasMemory /\ LET y == ToBuckets(x, new_size, hash_func)
                        IN  hash' = y.hash /\ space' = y.space
  <2> DEFINE y == ToBuckets(x, new_size, hash_func)
  <2>1. /\ IsHash(y.hash)
        /\ y.hash.tail = 0
        /\ Exchange(space, y.space, Table(hash), Table(y.hash))
        /\ hash.tail = 0 => y.space.misused = space.misused
    BY <1>1, <1>2, TableBuckets DEF HasMemory
  <2>2. hash' = y.hash /\ space' = y.space
    BY <1>2
  <2> HIDE DEF y
  <2>3. IInv'
    BY <2>1, <2>2, <1>1, TableStep
  <2> QED
    BY <2>1, <2>2, <2>3 DEF Careful
<1>3. ASSUME NEW bits \in StackBits,
             LET y == ToSingle(x, bits, hash_func)
             IN  hash' = y.hash /\ space' = y.space
      PROVE  IInv' /\ (StackBits \subseteq {0} /\ Careful => Careful')
  <2> DEFINE y == ToSingle(x, bits, hash_func)
  <2>1. bits \in Nat
    BY StrNodesAssumption
  <2>2. /\ IsHash(y.hash)
        /\ y.hash.tail \in {0, bits}
        /\ Exchange(space, y.space, Table(hash), Table(y.hash))
        /\ hash.tail = 0 => y.space.misused = space.misused
    BY <2>1, <1>1, TableSingle
  <2>3. hash' = y.hash /\ space' = y.space
    BY <1>3
  <2> HIDE DEF y
  <2>4. IInv'
    BY <2>2, <2>3, <1>1, TableStep
  <2> QED
    BY <2>2, <2>3, <2>4 DEF Careful
<1> QED
  BY <1>2, <1>3 DEF Resize

LEMMA ResetStep ==
  ASSUME IInv, Reset
  PROVE  IInv' /\ (Careful => Careful')
<1> DEFINE y == Uninited([hash |-> hash, space |-> space])
<1>1. /\ space \in Spaces /\ IsHash(hash) /\ Table(hash) \subseteq Allocated(space)
      /\ str' = str /\ text' = text
      /\ hash' = y.hash /\ space' = y.space
  BY DEF IInv, Reset
<1>2. /\ y.hash = EmptyHash
      /\ Exchange(space, y.space, Table(hash), {})
      /\ hash.tail = 0 => y.space.misused = space.misused
  BY <1>1, TableUninited
<1> HIDE DEF y
<1>3. IInv'
  BY <1>1, <1>2, EmptyTable, TableStep
<1> QED
  BY <1>1, <1>2, <1>3, EmptyTable DEF Careful

LEMMA NextIInv ==
  IInv /\ [Next]_vars => IInv' /\ (StackBits \subseteq {0} /\ Careful => Careful')
<1> SUFFICES ASSUME IInv, [Next]_vars
             PROVE  IInv' /\ (StackBits \subseteq {0} /\ Careful => Careful')
  OBVIOUS
<1>1. CASE \E n \in Nodes, t \in Texts : Set(n, t)
  BY <1>1, SetStep
<1>2. CASE \E n \in Nodes : Clear(n)
  BY <1>2, ClearStep
<1>3. CASE \E n \in Nodes : Insert(n) \/ Erase(n)
  BY <1>3, ChainsStep
<1>4. CASE \E new_size \in Sizes : Resize(new_size)
  BY <1>4, ResizeStep
<1>5. CASE Reset
  BY <1>5, ResetStep
<1>6. CASE UNCHANGED vars
  BY <1>6 DEF vars, IInv, Careful, Allocated
<1> QED
  BY <1>1, <1>2, <1>3, <1>4, <1>5, <1>6 DEF Next

LEMMA Invariance == Spec => []IInv
<1>1. IInv /\ [Next]_vars => IInv'
  BY NextIInv
<1> QED
  BY InitIInv, <1>1, PTL DEF Spec

(* A string has the text it was given last: set_data, with or without      *)
(* memory, reuses, frees and writes no block but its own, and neither does *)
(* a hash list that is resized or reset, whatever its stray bits are.      *)
THEOREM TextsStay == Spec => []KeepsText
<1>1. IInv => KeepsText
  <2> SUFFICES ASSUME IInv, NEW n \in Nodes
               PROVE  /\ CStr(str[n], space) = text[n]
                      /\ StrLength(str[n]) = Length[text[n]]
    BY DEF KeepsText
  <2>1. Keeps(str[n], space, text[n])
    BY DEF IInv
  <2> QED
    BY <2>1 DEF Keeps, CStr, StrLength
<1> QED
  BY <1>1, Invariance, PTL

(* How many blocks the strings have: one each. *)
LEMMA BlocksCounted ==
  ASSUME IInv
  PROVE  LET held == {str[n].data_ptr : n \in InBlocks}
         IN  /\ Allocated(space) = held \cup Table(hash)
             /\ held \cap Table(hash) = {}
             /\ IsFiniteSet(held)
             /\ Cardinality(held) = Cardinality(InBlocks)
<1> DEFINE held == {str[n].data_ptr : n \in InBlocks}
           f == [n \in InBlocks |-> str[n].data_ptr]
<1>1. \A n \in Nodes : n \in InBlocks <=> str[n].flag
  BY DEF InBlocks
<1>2. \A n \in InBlocks : n \in Nodes /\ Owned(str[n]) = {str[n].data_ptr}
  BY DEF InBlocks, Owned
<1>3. \A n \in Nodes : Owned(str[n]) \subseteq held
  BY <1>1 DEF Owned
<1>4. held \subseteq Allocated(space)
  BY <1>1, <1>2 DEF IInv, Keeps
<1>5. Allocated(space) = held \cup Table(hash)
  BY <1>3, <1>4 DEF IInv
<1>6. held \cap Table(hash) = {}
  BY <1>2 DEF IInv
<1>7. IsFiniteSet(held)
  BY <1>4, FS_Subset DEF IInv
<1>8. f \in Bijection(InBlocks, held)
  <2>1. \A m, n \in InBlocks : f[m] = f[n] => m = n
    BY <1>2 DEF IInv
  <2>2. f \in [InBlocks -> held]
    OBVIOUS
  <2>3. \A b \in held : \E n \in InBlocks : f[n] = b
    OBVIOUS
  <2> QED
    BY <2>1, <2>2, <2>3 DEF Bijection, Injection, Surjection, IsInjective
<1>9. Cardinality(InBlocks) = Cardinality(held)
  BY <1>7, <1>8, FS_Injection DEF Bijection
<1> QED
  BY <1>5, <1>6, <1>7, <1>9

(* Every block the index has given out belongs to one string or to the     *)
(* buckets, none is lost and none freed twice, in any order of calls and   *)
(* of running out of memory, if the stack leaves no bits in a list head.   *)
THEOREM OneOwner == ASSUME StackBits \subseteq {0} PROVE Spec => []OwnedOnce
<1>1. Init => IInv /\ Careful
  BY InitIInv, EmptyTable DEF Init, Careful, EmptySpace
<1>2. IInv /\ Careful /\ [Next]_vars => (IInv /\ Careful)'
  BY NextIInv
<1>3. IInv /\ Careful => OwnedOnce
  <2> SUFFICES ASSUME IInv, Careful PROVE OwnedOnce
    OBVIOUS
  <2> DEFINE held == {str[n].data_ptr : n \in InBlocks}
  <2>1. /\ Allocated(space) = held \cup Table(hash)
        /\ held \cap Table(hash) = {}
        /\ IsFiniteSet(held)
        /\ Cardinality(held) = Cardinality(InBlocks)
    BY BlocksCounted
  <2>2. Table(hash) = {hash.buckets} \ {0}
    BY DEF Table
  <2>3. IsFiniteSet(Table(hash))
    BY <2>2, FS_Singleton, FS_Subset
  <2> HIDE DEF held
  <2>4. /\ Cardinality(held) \in Nat /\ Cardinality(Table(hash)) \in Nat
        /\ Cardinality(held \cap Table(hash)) = 0
    BY <2>1, <2>3, FS_CardinalityType, FS_EmptySet
  <2>5. Cardinality(held \cup Table(hash)) =
          Cardinality(held) + Cardinality(Table(hash))
            - Cardinality(held \cap Table(hash))
    BY <2>1, <2>3, FS_Union
  <2>6. Cardinality(Allocated(space)) =
          Cardinality(InBlocks) + Cardinality(Table(hash))
    BY <2>1, <2>4, <2>5
  <2> QED
    BY <2>1, <2>2, <2>6 DEF OwnedOnce, Careful, held
<1> QED
  BY <1>1, <1>2, <1>3, PTL DEF Spec

(* Stray bits are the only way to take the head of a list for a block: if  *)
(* the stack has none, a table without buckets is one list.                *)
THEOREM SingleStays == ASSUME StackBits \subseteq {0} PROVE Spec => []SingleIsList
<1>1. Init => IInv /\ Careful
  BY InitIInv, EmptyTable DEF Init, Careful, EmptySpace
<1>2. IInv /\ Careful /\ [Next]_vars => (IInv /\ Careful)'
  BY NextIInv
<1>3. IInv /\ Careful => SingleIsList
  BY BucketsKnown DEF IInv, Careful, SingleIsList
<1> QED
  BY <1>1, <1>2, <1>3, PTL DEF Spec
---------------------------------------------------------------------------
(* Sequences without repetition.                                           *)

Distinct(s) == \A a, b \in 1 .. Len(s) : s[a] = s[b] => a = b

LEMMA Elements ==
  ASSUME NEW S, NEW s \in Seq(S)
  PROVE  /\ ToSet(s) \subseteq S
         /\ \A x : x \in ToSet(s) <=> \E a \in 1 .. Len(s) : s[a] = x
<1>1. DOMAIN s = 1 .. Len(s) /\ \A a \in 1 .. Len(s) : s[a] \in S
  OBVIOUS
<1> QED
  BY <1>1 DEF ToSet

LEMMA Joined ==
  ASSUME NEW S, NEW s \in Seq(S), NEW t \in Seq(S), Distinct(s), Distinct(t),
         ToSet(s) \cap ToSet(t) = {}
  PROVE  /\ s \o t \in Seq(S)
         /\ Distinct(s \o t)
         /\ ToSet(s \o t) = ToSet(s) \cup ToSet(t)
<1> DEFINE u == s \o t
<1>1. /\ u \in Seq(S) /\ Len(u) = Len(s) + Len(t)
      /\ Len(s) \in Nat /\ Len(t) \in Nat
      /\ \A i \in 1 .. Len(s) + Len(t) :
           u[i] = IF i <= Len(s) THEN s[i] ELSE t[i - Len(s)]
  BY ConcatProperties
<1> HIDE DEF u
<1>2. \A i \in 1 .. Len(s) : i \in 1 .. Len(u) /\ u[i] = s[i] /\ s[i] \in ToSet(s)
  BY <1>1, Elements
<1>3. ASSUME NEW i \in 1 .. Len(t)
      PROVE  Len(s) + i \in 1 .. Len(u) /\ u[Len(s) + i] = t[i] /\ t[i] \in ToSet(t)
  <2>1. Len(s) + i \in 1 .. Len(s) + Len(t) /\ ~(Len(s) + i <= Len(s))
        /\ (Len(s) + i) - Len(s) = i
    BY <1>1
  <2> QED
    BY <1>1, <2>1, Elements
<1>4. \A i \in 1 .. Len(u) :
        \/ i \in 1 .. Len(s)
        \/ i - Len(s) \in 1 .. Len(t) /\ Len(s) + (i - Len(s)) = i
  BY <1>1
<1>5. ToSet(u) = ToSet(s) \cup ToSet(t)
  <2>1. \A x : x \in ToSet(u) => x \in ToSet(s) \cup ToSet(t)
    BY <1>1, <1>2, <1>3, <1>4, Elements
  <2>2. \A x : x \in ToSet(s) => x \in ToSet(u)
    BY <1>1, <1>2, Elements
  <2>3. \A x : x \in ToSet(t) => x \in ToSet(u)
    BY <1>1, <1>3, Elements
  <2> QED
    BY <2>1, <2>2, <2>3
<1>6. ASSUME NEW a \in 1 .. Len(u), NEW b \in 1 .. Len(u), u[a] = u[b]
      PROVE  a = b
  <2>1. CASE a \in 1 .. Len(s) /\ b \in 1 .. Len(s)
    BY <1>2, <1>6, <2>1 DEF Distinct
  <2>2. CASE a \notin 1 .. Len(s) /\ b \notin 1 .. Len(s)
    <3>1. /\ a - Len(s) \in 1 .. Len(t) /\ u[a] = t[a - Len(s)]
          /\ b - Len(s) \in 1 .. Len(t) /\ u[b] = t[b - Len(s)]
      BY <1>3, <1>4, <2>2
    <3>2. a - Len(s) = b - Len(s)
      BY <3>1, <1>6 DEF Distinct
    <3> QED
      BY <1>1, <3>2
  <2>3. CASE a \in 1 .. Len(s) /\ b \notin 1 .. Len(s)
    <3>1. u[a] \in ToSet(s) /\ u[b] \in ToSet(t)
      <4>1. b - Len(s) \in 1 .. Len(t) /\ Len(s) + (b - Len(s)) = b
        BY <1>4, <2>3
      <4>2. u[b] \in ToSet(t)
        BY <4>1, <1>3
      <4> QED
        BY <4>2, <1>2, <2>3
    <3> QED
      BY <3>1, <1>6
  <2>4. CASE a \notin 1 .. Len(s) /\ b \in 1 .. Len(s)
    <3>1. u[b] \in ToSet(s) /\ u[a] \in ToSet(t)
      <4>1. a - Len(s) \in 1 .. Len(t) /\ Len(s) + (a - Len(s)) = a
        BY <1>4, <2>4
      <4>2. u[a] \in ToSet(t)
        BY <4>1, <1>3
      <4> QED
        BY <4>2, <1>2, <2>4
    <3> QED
      BY <3>1, <1>6
  <2> QED
    BY <2>1, <2>2, <2>3, <2>4
<1> QED
  BY <1>1, <1>5, <1>6 DEF u, Distinct

LEMMA OneElement ==
  ASSUME NEW S, NEW x \in S
  PROVE  <<x>> \in Seq(S) /\ Distinct(<<x>>) /\ ToSet(<<x>>) = {x}
<1>1. <<x>> \in Seq(S) /\ Len(<<x>>) = 1 /\ <<x>>[1] = x
  OBVIOUS
<1>2. \A a \in 1 .. 1 : a = 1
  OBVIOUS
<1> DEFINE s == <<x>>
<1> HIDE DEF s
<1>3. s \in Seq(S) /\ Len(s) = 1 /\ s[1] = x
  BY <1>1 DEF s
<1>4. Distinct(s) /\ ToSet(s) = {x}
  BY <1>2, <1>3, Elements DEF Distinct
<1> QED
  BY <1>3, <1>4 DEF s

LEMMA NoElement ==
  ASSUME NEW S
  PROVE  <<>> \in Seq(S) /\ Distinct(<<>>) /\ ToSet(<<>>) = {}
<1>1. <<>> \in Seq(S) /\ Len(<<>>) = 0 /\ \A a \in 1 .. 0 : FALSE
  OBVIOUS
<1> QED
  BY <1>1, Elements DEF Distinct

(* A node that is in a sequence once is not in what RemoveFirst leaves. *)
LEMMA TakenOut ==
  ASSUME NEW S, NEW s \in Seq(S), Distinct(s), NEW x
  PROVE  /\ RemoveFirst(s, x) \in Seq(S)
         /\ Distinct(RemoveFirst(s, x))
         /\ ToSet(RemoveFirst(s, x)) = ToSet(s) \ {x}
<1>1. CASE ~ \E i \in 1 .. Len(s) : s[i] = x
  <2>1. RemoveFirst(s, x) = s
    BY <1>1 DEF RemoveFirst
  <2> QED
    BY <1>1, <2>1, Elements
<1>2. CASE \E i \in 1 .. Len(s) : s[i] = x
  <2> DEFINE I == {i \in 1 .. Len(s) : s[i] = x}
             k == Min(I)
             a == SubSeq(s, 1, k - 1)
             c == SubSeq(s, k + 1, Len(s))
  <2>1. RemoveFirst(s, x) = a \o c
    <3>1. I # {}
      BY <1>2
    <3>2. SelectInSeq(s, LAMBDA v : v = x) = k
      BY <3>1 DEF SelectInSeq
    <3>3. RemoveFirst(s, x) = RemoveAt(s, SelectInSeq(s, LAMBDA v : v = x))
      BY <1>2 DEF RemoveFirst
    <3> HIDE DEF k
    <3> QED
      BY <3>2, <3>3 DEF RemoveAt
  <2>2. k \in 1 .. Len(s) /\ s[k] = x
    <3>1. I \subseteq Nat /\ I # {}
      BY <1>2
    <3> HIDE DEF I
    <3>2. \E i \in I : \A j \in I : i <= j
      BY <3>1, Least
    <3>3. Min(I) \in I
      BY <3>2 DEF Min
    <3> QED
      BY <3>3 DEF I
  <2> HIDE DEF k
  <2>3. /\ a \in Seq(S) /\ Len(a) = k - 1 /\ \A i \in 1 .. k - 1 : a[i] = s[i]
        /\ c \in Seq(S) /\ Len(c) = Len(s) - k
        /\ \A i \in 1 .. Len(s) - k : c[i] = s[k + i]
    BY <2>2, SubSeqProperties
  <2> HIDE DEF a, c
  <2>4. \A i \in 1 .. k - 1 : i \in 1 .. Len(s) /\ i # k
    BY <2>2
  <2>5. \A i \in 1 .. Len(s) - k : k + i \in 1 .. Len(s) /\ k + i # k
    BY <2>2
  <2>6. Distinct(a)
    BY <2>3, <2>4 DEF Distinct
  <2>7. Distinct(c)
    <3> SUFFICES ASSUME NEW i \in 1 .. Len(s) - k, NEW j \in 1 .. Len(s) - k, c[i] = c[j]
                 PROVE  i = j
      BY <2>3 DEF Distinct
    <3>1. k + i = k + j
      BY <2>3, <2>5 DEF Distinct
    <3> QED
      BY <2>2, <3>1
  <2>8. \A y : y \in ToSet(a) <=> \E i \in 1 .. k - 1 : s[i] = y
    BY <2>3, Elements
  <2>9. \A y : y \in ToSet(c) <=> \E i \in 1 .. Len(s) - k : s[k + i] = y
    BY <2>3, Elements
  <2>10. ToSet(a) \cap ToSet(c) = {}
    <3> SUFFICES ASSUME NEW i \in 1 .. k - 1, NEW j \in 1 .. Len(s) - k, s[i] = s[k + j]
                 PROVE  FALSE
      BY <2>8, <2>9
    <3>1. i = k + j
      BY <2>4, <2>5 DEF Distinct
    <3> QED
      BY <2>2, <3>1
  <2>11. ToSet(a) \cup ToSet(c) = ToSet(s) \ {x}
    <3>1. \A y : y \in ToSet(a) \/ y \in ToSet(c) => y \in ToSet(s) /\ y # x
      <4>1. \A y : y \in ToSet(a) => y \in ToSet(s) /\ y # x
        BY <2>2, <2>4, <2>8, Elements DEF Distinct
      <4>2. \A y : y \in ToSet(c) => y \in ToSet(s) /\ y # x
        BY <2>2, <2>5, <2>9, Elements DEF Distinct
      <4> QED
        BY <4>1, <4>2
    <3>2. ASSUME NEW y \in ToSet(s), y # x
          PROVE  y \in ToSet(a) \/ y \in ToSet(c)
      <4>1. PICK i \in 1 .. Len(s) : s[i] = y
        BY Elements
      <4>2. i # k
        BY <2>2, <3>2, <4>1
      <4>3. CASE i < k
        <5>1. i \in 1 .. k - 1
          BY <2>2, <4>3
        <5> QED
          BY <2>8, <4>1, <5>1
      <4>4. CASE i > k
        <5>1. i - k \in 1 .. Len(s) - k /\ k + (i - k) = i
          BY <2>2, <4>4
        <5> QED
          BY <2>9, <4>1, <5>1
      <4> QED
        BY <2>2, <4>2, <4>3, <4>4
    <3> QED
      BY <3>1, <3>2
  <2> QED
    BY <2>1, <2>3, <2>6, <2>7, <2>10, <2>11, Joined
<1> QED
  BY <1>1, <1>2

---------------------------------------------------------------------------
(* The nodes of lists that share none, one list after the other. *)
LEMMA Flattened ==
  ASSUME NEW S, NEW n \in Nat \ {0}, NEW c \in [1 .. n -> Seq(S)],
         \A i \in 1 .. n : Distinct(c[i]),
         \A i, j \in 1 .. n : i # j => ToSet(c[i]) \cap ToSet(c[j]) = {}
  PROVE  /\ FlattenSeq(c) \in Seq(S)
         /\ Distinct(FlattenSeq(c))
         /\ \A x : x \in ToSet(FlattenSeq(c)) <=> \E i \in 1 .. n : x \in ToSet(c[i])
<1> DEFINE Is(g) == g = [i \in 1 .. n |-> IF i = 1 THEN c[i] ELSE g[i - 1] \o c[i]]
           flat == CHOOSE g : Is(g)
<1>1. Len(c) = n
  BY LenProperties
<1>2. FlattenSeq(c) = flat[n]
  BY <1>1, Zenon DEF FlattenSeq
<1>3. \E g : Is(g)
  <2> DEFINE f == [p \in (1 .. n) \X Seq(S) |-> p[2] \o c[p[1]]]
  <2>1. f \in [(1 .. n) \X Seq(S) -> Seq(S)]
    <3>1. \A p \in (1 .. n) \X Seq(S) : p[2] \in Seq(S) /\ c[p[1]] \in Seq(S)
      OBVIOUS
    <3>2. \A p \in (1 .. n) \X Seq(S) : p[2] \o c[p[1]] \in Seq(S)
      BY <3>1, ConcatProperties
    <3> QED
      BY <3>2
  <2>2. \A i \in 1 .. n : \A s \in Seq(S) : f[<<i, s>>] = s \o c[i]
    OBVIOUS
  <2> HIDE DEF f
  <2>3. <<>> \in Seq(S)
    OBVIOUS
  <2>4. PICK h \in [0 .. n -> Seq(S)] :
          h[0] = <<>> /\ \A i \in 1 .. n : h[i] = f[<<i, h[i - 1]>>]
    <3> DEFINE V == Seq(S)
               first == <<>>
    <3>1. f \in [(1 .. n) \X V -> V] /\ first \in V /\ n \in Nat
      BY <2>1, <2>3
    <3> HIDE DEF V, first
    <3>2. \E h : Goes(h, n, V, first, f)
      BY <3>1, Recurrence
    <3> QED
      BY <3>2 DEF V, first, Goes
  <2>5. \A i \in 1 .. n : i - 1 \in 0 .. n
    OBVIOUS
  <2>6. \A i \in 1 .. n : h[i] = h[i - 1] \o c[i]
    BY <2>2, <2>4, <2>5
  <2>7. h[1] = c[1]
    <3>1. 1 \in 1 .. n /\ 1 - 1 = 0
      OBVIOUS
    <3>2. h[1] = <<>> \o c[1] /\ c[1] \in Seq(S)
      BY <2>4, <2>6, <3>1
    <3> QED
      BY <3>2, ConcatEmptySeq
  <2> DEFINE g == [i \in 1 .. n |-> h[i]]
  <2>8. \A i \in 1 .. n : i # 1 => i - 1 \in 1 .. n /\ g[i - 1] = h[i - 1]
    OBVIOUS
  <2>9. \A i \in 1 .. n : g[i] = IF i = 1 THEN c[i] ELSE g[i - 1] \o c[i]
    BY <2>6, <2>7, <2>8
  <2>10. g = [i \in 1 .. n |-> g[i]]
    OBVIOUS
  <2> HIDE DEF g
  <2>11. Is(g)
    BY <2>9, <2>10
  <2> QED
    BY <2>11
<1>4. Is(flat)
  BY <1>3
<1> HIDE DEF flat
<1>5. /\ flat[1] = c[1]
      /\ \A i \in 1 .. n : i # 1 => flat[i] = flat[i - 1] \o c[i]
  <2>1. \A i \in 1 .. n : flat[i] = IF i = 1 THEN c[i] ELSE flat[i - 1] \o c[i]
    BY <1>4, Zenon
  <2>2. 1 \in 1 .. n
    OBVIOUS
  <2> QED
    BY <2>1, <2>2
<1> DEFINE Good(i) == /\ flat[i] \in Seq(S)
                      /\ Distinct(flat[i])
                      /\ \A x : x \in ToSet(flat[i]) <=>
                                  \E j \in 1 .. i : x \in ToSet(c[j])
           P == {i \in Nat : i + 1 <= n => Good(i + 1)}
<1>6. 0 \in P
  <2>1. 0 + 1 = 1 /\ 1 \in 1 .. n /\ \A j \in 1 .. 1 : j = 1
    OBVIOUS
  <2> QED
    BY <1>5, <2>1
<1>7. ASSUME NEW i \in Nat, i \in P
      PROVE  i + 1 \in P
  <2> SUFFICES ASSUME (i + 1) + 1 <= n PROVE Good((i + 1) + 1)
    OBVIOUS
  <2> DEFINE k == i + 1
             m == k + 1
  <2>1. /\ k \in 1 .. n /\ m \in 1 .. n /\ m # 1 /\ m - 1 = k
        /\ \A j \in 1 .. k : j \in 1 .. n /\ j # m /\ j \in 1 .. m
        /\ \A j \in 1 .. m : j \in 1 .. k \/ j = m
        /\ m \in 1 .. m
    OBVIOUS
  <2>2. Good(k)
    BY <2>1, <1>7
  <2> HIDE DEF k
  <2>3. flat[m] = flat[k] \o c[m] /\ c[m] \in Seq(S) /\ Distinct(c[m])
    BY <1>5, <2>1
  <2> HIDE DEF m
  <2>4. ToSet(flat[k]) \cap ToSet(c[m]) = {}
    BY <2>1, <2>2
  <2>5. /\ flat[m] \in Seq(S) /\ Distinct(flat[m])
        /\ ToSet(flat[m]) = ToSet(flat[k]) \cup ToSet(c[m])
    BY <2>2, <2>3, <2>4, Joined
  <2>6. ASSUME NEW x
        PROVE  x \in ToSet(flat[m]) <=> \E j \in 1 .. m : x \in ToSet(c[j])
    <3>1. x \in ToSet(flat[k]) <=> \E j \in 1 .. k : x \in ToSet(c[j])
      BY <2>2
    <3>2. x \in ToSet(flat[m]) <=> x \in ToSet(flat[k]) \/ x \in ToSet(c[m])
      BY <2>5
    <3> QED
      BY <2>1, <3>1, <3>2
  <2> QED
    BY <2>5, <2>6 DEF k, m
<1> HIDE DEF P
<1>8. n - 1 \in Nat /\ (n - 1) + 1 = n
  OBVIOUS
<1>9. n - 1 \in P
  BY <1>6, <1>7, <1>8, Induction
<1>10. Good(n)
  BY <1>8, <1>9 DEF P
<1> QED
  BY <1>2, <1>10

---------------------------------------------------------------------------
(* n lists hold the nodes M: each has those whose hash leads there, once.  *)
Filed(c, n, M, g) ==
  /\ c \in [0 .. n - 1 -> Seq(Nodes)]
  /\ \A i \in 0 .. n - 1 :
       /\ Distinct(c[i])
       /\ \A x : x \in ToSet(c[i]) <=> x \in M /\ g[x] % n = i

LEMMA InList ==
  ASSUME NEW n \in Nat \ {0}, NEW k \in Nat
  PROVE  k % n \in 0 .. n - 1
  OBVIOUS

LEMMA FiledOneMore ==
  ASSUME NEW n \in Nat \ {0}, NEW M \in SUBSET Nodes, NEW g \in [Nodes -> Nat],
         NEW c, Filed(c, n, M, g), NEW x \in Nodes \ M
  PROVE  Filed([c EXCEPT ![g[x] % n] = <<x>> \o @], n, M \cup {x}, g)
<1> DEFINE k == g[x] % n
           d == [c EXCEPT ![k] = <<x>> \o @]
<1>1. k \in 0 .. n - 1 /\ g[x] \in Nat
  BY InList
<1>2. c[k] \in Seq(Nodes) /\ Distinct(c[k]) /\ x \notin ToSet(c[k])
  BY <1>1 DEF Filed
<1>3. <<x>> \in Seq(Nodes) /\ Distinct(<<x>>) /\ ToSet(<<x>>) = {x}
  BY OneElement
<1> DEFINE s == <<x>>
<1>4. d[k] = s \o c[k] /\ \A i \in 0 .. n - 1 : i # k => d[i] = c[i]
  BY <1>1 DEF Filed
<1> HIDE DEF s
<1>5. /\ s \o c[k] \in Seq(Nodes) /\ Distinct(s \o c[k])
      /\ ToSet(s \o c[k]) = {x} \cup ToSet(c[k])
  <2>1. s \in Seq(Nodes) /\ Distinct(s) /\ ToSet(s) = {x}
    BY <1>3 DEF s
  <2>2. ToSet(s) \cap ToSet(c[k]) = {}
    BY <1>2, <2>1
  <2> HIDE DEF k
  <2> QED
    BY <1>2, <2>1, <2>2, Joined
<1>6. d \in [0 .. n - 1 -> Seq(Nodes)]
  BY <1>1, <1>5 DEF Filed, s
<1> HIDE DEF d
<1>7. ASSUME NEW i \in 0 .. n - 1
      PROVE  /\ Distinct(d[i])
             /\ \A y : y \in ToSet(d[i]) <=> y \in M \cup {x} /\ g[y] % n = i
  <2>1. CASE i = k
    <3>1. \A y : y \in ToSet(c[k]) <=> y \in M /\ g[y] % n = k
      BY <1>1 DEF Filed
    <3>2. g[x] % n = k
      OBVIOUS
    <3> HIDE DEF k
    <3> QED
      BY <2>1, <1>4, <1>5, <3>1, <3>2
  <2>2. CASE i # k
    <3>1. d[i] = c[i] /\ g[x] % n # i
      BY <2>2, <1>4
    <3> HIDE DEF k
    <3> QED
      BY <3>1 DEF Filed
  <2> QED
    BY <2>1, <2>2
<1> QED
  BY <1>6, <1>7 DEF Filed, d

LEMMA FiledOneLess ==
  ASSUME NEW n \in Nat \ {0}, NEW M \in SUBSET Nodes, NEW g \in [Nodes -> Nat],
         NEW c, Filed(c, n, M, g), NEW x \in Nodes
  PROVE  Filed([c EXCEPT ![g[x] % n] = RemoveFirst(@, x)], n, M \ {x}, g)
<1> DEFINE k == g[x] % n
           d == [c EXCEPT ![k] = RemoveFirst(@, x)]
<1>1. k \in 0 .. n - 1 /\ g[x] \in Nat
  BY InList
<1>2. c[k] \in Seq(Nodes) /\ Distinct(c[k])
  BY <1>1 DEF Filed
<1> DEFINE s == RemoveFirst(c[k], x)
<1>3. d[k] = s /\ \A i \in 0 .. n - 1 : i # k => d[i] = c[i]
  BY <1>1 DEF Filed
<1>4. s \in Seq(Nodes) /\ Distinct(s) /\ ToSet(s) = ToSet(c[k]) \ {x}
  <2> HIDE DEF k
  <2> QED
    BY <1>2, TakenOut
<1> HIDE DEF s
<1>5. d \in [0 .. n - 1 -> Seq(Nodes)]
  BY <1>1, <1>4 DEF Filed, s
<1> HIDE DEF d
<1>6. ASSUME NEW i \in 0 .. n - 1
      PROVE  /\ Distinct(d[i])
             /\ \A y : y \in ToSet(d[i]) <=> y \in M \ {x} /\ g[y] % n = i
  <2>1. CASE i = k
    <3>1. \A y : y \in ToSet(c[k]) <=> y \in M /\ g[y] % n = k
      BY <1>1 DEF Filed
    <3> HIDE DEF k
    <3> QED
      BY <2>1, <1>3, <1>4, <3>1
  <2>2. CASE i # k
    <3>1. d[i] = c[i] /\ g[x] % n # i
      BY <2>2, <1>3
    <3> HIDE DEF k
    <3> QED
      BY <3>1 DEF Filed
  <2> QED
    BY <2>1, <2>2
<1> QED
  BY <1>5, <1>6 DEF Filed, d

(* Pushed files the nodes of a sequence. *)
LEMMA FiledPushed ==
  ASSUME NEW n \in Nat \ {0}, NEW g \in [Nodes -> Nat],
         NEW s \in Seq(Nodes), Distinct(s)
  PROVE  Filed(Pushed(s, n, g), n, ToSet(s), g)
<1> DEFINE len == Len(s)
           none == [k \in 0 .. n - 1 |-> <<>>]
           Is(h) == h = [i \in 0 .. len |->
                           IF i = 0 THEN none
                           ELSE [h[i - 1] EXCEPT ![g[s[i]] % n] = <<s[i]>> \o @]]
           lists == CHOOSE h : Is(h)
           V == [0 .. n - 1 -> Seq(Nodes)]
<1>1. len \in Nat /\ \A i \in 1 .. len : s[i] \in Nodes /\ g[s[i]] % n \in 0 .. n - 1
  <2>1. len \in Nat /\ \A i \in 1 .. len : s[i] \in Nodes
    BY LenProperties
  <2> HIDE DEF len
  <2> SUFFICES ASSUME NEW i \in 1 .. len
               PROVE  g[s[i]] % n \in 0 .. n - 1
    BY <2>1
  <2>2. g[s[i]] \in Nat
    BY <2>1
  <2> QED
    BY <2>2, InList
<1>2. Pushed(s, n, g) = lists[len]
  BY Zenon DEF Pushed
<1>3. none \in V
  OBVIOUS
<1> HIDE DEF len
<1>4. \E h : Is(h)
  <2> DEFINE f == [p \in (1 .. len) \X V |->
                     [p[2] EXCEPT ![g[s[p[1]]] % n] = <<s[p[1]]>> \o @]]
  <2>1. f \in [(1 .. len) \X V -> V]
    <3> SUFFICES ASSUME NEW p \in (1 .. len) \X V
                 PROVE  [p[2] EXCEPT ![g[s[p[1]]] % n] = <<s[p[1]]>> \o @] \in V
      OBVIOUS
    <3> DEFINE i == p[1]
               k == g[s[i]] % n
               q == p[2]
    <3>1. i \in 1 .. len /\ q \in V
      OBVIOUS
    <3>2. s[i] \in Nodes /\ k \in 0 .. n - 1
      BY <1>1, <3>1
    <3> HIDE DEF i, k, q
    <3>3. <<s[i]>> \o q[k] \in Seq(Nodes)
      BY <3>1, <3>2, OneElement, ConcatProperties
    <3>4. [q EXCEPT ![k] = <<s[i]>> \o @] \in V
      BY <3>1, <3>2, <3>3
    <3> QED
      BY <3>4 DEF i, k, q
  <2>2. \A i \in 1 .. len : \A q \in V :
          f[<<i, q>>] = [q EXCEPT ![g[s[i]] % n] = <<s[i]>> \o @]
    OBVIOUS
  <2> HIDE DEF f, V, none
  <2>3. PICK h \in [0 .. len -> V] :
          h[0] = none /\ \A i \in 1 .. len : h[i] = f[<<i, h[i - 1]>>]
    <3>1. \E h : Goes(h, len, V, none, f)
      BY <1>1, <1>3, <2>1, Recurrence
    <3> QED
      BY <3>1 DEF Goes
  <2>4. \A i \in 1 .. len : i - 1 \in 0 .. len
    BY <1>1
  <2>5. \A i \in 1 .. len : h[i] = [h[i - 1] EXCEPT ![g[s[i]] % n] = <<s[i]>> \o @]
    BY <2>2, <2>3, <2>4
  <2>6. \A i \in 0 .. len : i = 0 \/ i \in 1 .. len
    BY <1>1
  <2>7. \A i \in 0 .. len :
          h[i] = IF i = 0 THEN none
                 ELSE [h[i - 1] EXCEPT ![g[s[i]] % n] = <<s[i]>> \o @]
    BY <2>3, <2>5, <2>6
  <2>8. h = [i \in 0 .. len |-> h[i]]
    OBVIOUS
  <2>9. Is(h)
    BY <2>7, <2>8
  <2> QED
    BY <2>9
<1>5. Is(lists)
  BY <1>4
<1> HIDE DEF lists, V, none
<1>6. \A i \in 0 .. len :
        lists[i] = IF i = 0 THEN none
                   ELSE [lists[i - 1] EXCEPT ![g[s[i]] % n] = <<s[i]>> \o @]
  BY <1>5, Zenon
<1> DEFINE First(i) == {s[a] : a \in 1 .. i}
           P == {i \in Nat : i <= len => Filed(lists[i], n, First(i), g)}
<1>7. 0 \in P
  <2>1. 0 \in 0 .. len /\ First(0) = {}
    BY <1>1
  <2>2. lists[0] = none
    BY <1>6, <2>1
  <2>3. Filed(none, n, {}, g)
    <3>1. \A i \in 0 .. n - 1 : none[i] = <<>>
      BY DEF none
    <3> QED
      BY <1>3, <3>1, NoElement DEF Filed, V
  <2> QED
    BY <2>1, <2>2, <2>3
<1>8. ASSUME NEW i \in Nat, i \in P
      PROVE  i + 1 \in P
  <2> SUFFICES ASSUME i + 1 <= len PROVE Filed(lists[i + 1], n, First(i + 1), g)
    OBVIOUS
  <2> DEFINE j == i + 1
             x == s[j]
  <2>1. /\ j \in 1 .. len /\ j \in 0 .. len /\ j # 0 /\ j - 1 = i /\ i <= len
        /\ \A a \in 1 .. i : a \in 1 .. j /\ a \in 1 .. len /\ a # j
        /\ \A a \in 1 .. j : a \in 1 .. i \/ a = j
        /\ j \in 1 .. j
    BY <1>1
  <2>2. Filed(lists[i], n, First(i), g)
    BY <1>8, <2>1
  <2> HIDE DEF j
  <2>3. lists[j] = [lists[i] EXCEPT ![g[x] % n] = <<x>> \o @]
    BY <1>6, <2>1
  <2>4. First(i) \in SUBSET Nodes /\ x \in Nodes
    BY <1>1, <2>1
  <2>5. x \notin First(i)
    BY <2>1 DEF Distinct, len
  <2>6. First(j) = First(i) \cup {x}
    BY <2>1
  <2> HIDE DEF x, First
  <2>7. Filed(lists[j], n, First(j), g)
    <3> DEFINE M == First(i)
               c == lists[i]
    <3>1. M \in SUBSET Nodes /\ x \in Nodes \ M /\ Filed(c, n, M, g)
      BY <2>2, <2>4, <2>5
    <3> HIDE DEF M, c
    <3>2. Filed([c EXCEPT ![g[x] % n] = <<x>> \o @], n, M \cup {x}, g)
      BY <3>1, FiledOneMore
    <3> QED
      BY <3>2, <2>3, <2>6 DEF M, c
  <2> QED
    BY <2>7 DEF j
<1> HIDE DEF P
<1>9. len \in P
  BY <1>1, <1>7, <1>8, Induction
<1>10. Filed(lists[len], n, First(len), g)
  BY <1>1, <1>9 DEF P
<1>11. First(len) = ToSet(s)
  BY Elements DEF len
<1> QED
  BY <1>2, <1>10, <1>11

(* What resize_buckets does to the lists, whatever they were before. *)
LEMMA FiledMoved ==
  ASSUME NEW h, NEW M \in SUBSET Nodes, NEW g \in [Nodes -> Nat],
         bucket_size(h) \in Nat \ {0}, Filed(h.chains, bucket_size(h), M, g),
         NEW n \in Nat \ {0}
  PROVE  Filed(Moved(h, n, g), n, M, g)
<1> DEFINE b == bucket_size(h)
           c == [i \in 1 .. b |-> h.chains[i - 1]]
<1> HIDE DEF b
<1>1. b \in Nat \ {0} /\ Filed(h.chains, b, M, g)
  BY DEF b
<1>2. \A i \in 1 .. b : i - 1 \in 0 .. b - 1
  BY <1>1
<1>3. \A i \in 1 .. b :
        /\ c[i] \in Seq(Nodes) /\ Distinct(c[i])
        /\ \A x : x \in ToSet(c[i]) <=> x \in M /\ g[x] % b = i - 1
  <2>1. \A i \in 1 .. b : c[i] = h.chains[i - 1]
    OBVIOUS
  <2> QED
    BY <1>1, <1>2, <2>1 DEF Filed
<1>4. c \in [1 .. b -> Seq(Nodes)]
  BY <1>1, <1>2 DEF Filed
<1>5. \A i, j \in 1 .. b : i # j => ToSet(c[i]) \cap ToSet(c[j]) = {}
  <2> SUFFICES ASSUME NEW i \in 1 .. b, NEW j \in 1 .. b, i # j, NEW x,
                      x \in ToSet(c[i]), x \in ToSet(c[j])
               PROVE  FALSE
    OBVIOUS
  <2>1. g[x] % b = i - 1 /\ g[x] % b = j - 1
    BY <1>3
  <2>2. i - 1 = j - 1
    BY <2>1
  <2> QED
    BY <1>1, <2>2
<1> DEFINE s == FlattenSeq(c)
<1>6. InTurn(h) = s
  BY DEF InTurn, b
<1> HIDE DEF c
<1>7. /\ s \in Seq(Nodes) /\ Distinct(s)
      /\ \A x : x \in ToSet(s) <=> \E i \in 1 .. b : x \in ToSet(c[i])
  <2>1. \A i \in 1 .. b : Distinct(c[i])
    BY <1>3
  <2> QED
    BY <1>1, <1>4, <1>5, <2>1, Flattened, Zenon
<1>8. ToSet(s) = M
  <2>1. \A x : x \in ToSet(s) => x \in M
    BY <1>3, <1>7
  <2>2. ASSUME NEW x \in M
        PROVE  x \in ToSet(s)
    <3> DEFINE k == g[x] % b
    <3>1. k \in 0 .. b - 1
      BY <1>1, InList
    <3> HIDE DEF k
    <3>2. k + 1 \in 1 .. b /\ (k + 1) - 1 = k
      BY <1>1, <3>1
    <3>3. x \in ToSet(c[k + 1])
      BY <1>3, <3>2 DEF k
    <3> QED
      BY <1>7, <3>2, <3>3
  <2> QED
    BY <2>1, <2>2
<1> QED
  BY <1>6, <1>7, <1>8, FiledPushed DEF Moved

---------------------------------------------------------------------------
(* The third part of the invariant: every member is on the list its text   *)
(* hashes to, once, and nothing else is on a list.                         *)
HashOf == [n \in Nodes |-> TextHash[text[n]]]

Filing ==
  /\ members \subseteq Nodes
  /\ Filed(hash.chains, bucket_size(hash), members, HashOf)

(* What the lists are filed by is what hash_func reads. *)
LEMMA HashRead ==
  ASSUME IInv
  PROVE  hash_func = HashOf /\ HashOf \in [Nodes -> Nat]
<1>1. \A n \in Nodes : CStr(str[n], space) = text[n] /\ TextHash[text[n]] \in Nat
  BY StrNodesAssumption DEF IInv, Keeps, CStr
<1> QED
  BY <1>1 DEF hash_func, HashOf

LEMMA ListsCounted ==
  ASSUME IInv
  PROVE  bucket_size(hash) \in Nat \ {0}
<1>1. SizeBits(hash) \in Nat
  BY DEF IInv, IsHash, SizeBits
<1> DEFINE k == SizeBits(hash)
<1>2. bucket_size(hash) = IF k = 0 THEN 1 ELSE (k * 8) \div 4
  BY DEF bucket_size, BytesPerList
<1> HIDE DEF k
<1>3. k \in Nat
  BY <1>1 DEF k
<1> QED
  BY <1>2, <1>3

LEMMA InitFiling == Init => Filing
<1> SUFFICES ASSUME Init PROVE Filing
  OBVIOUS
<1>1. /\ hash.chains = [i \in {0} |-> <<>>]
      /\ bucket_size(hash) = 1
      /\ members = {}
  BY DEF Init, EmptyHash, bucket_size, SizeBits
<1>2. 0 .. 1 - 1 = {0}
  OBVIOUS
<1>3. hash.chains \in [{0} -> Seq(Nodes)] /\ hash.chains[0] = <<>>
  BY <1>1
<1> QED
  BY <1>1, <1>2, <1>3, NoElement DEF Filing, Filed

(* A string that changes is of no member. *)
LEMMA TextFiling ==
  ASSUME IInv, Filing, NEW n \in Nodes \ members, NEW t,
         text' = [text EXCEPT ![n] = t],
         UNCHANGED <<hash, members>>
  PROVE  Filing'
<1>1. \A m \in members : m \in Nodes /\ HashOf'[m] = HashOf[m]
  BY DEF Filing, HashOf, IInv
<1> DEFINE g == HashOf
           k == HashOf'
<1> HIDE DEF g, k
<1>2. \A m \in members : k[m] = g[m]
  BY <1>1 DEF g, k
<1>3. hash' = hash /\ members' = members /\ bucket_size(hash)' = bucket_size(hash)
  OBVIOUS
<1>4. members \subseteq Nodes /\ Filed(hash.chains, bucket_size(hash), members, g)
  BY DEF Filing, g
<1>5. Filed(hash.chains, bucket_size(hash), members, k)
  BY <1>2, <1>4 DEF Filed
<1> QED
  BY <1>3, <1>4, <1>5 DEF Filing, k

LEMMA SetFiling ==
  ASSUME IInv, Filing, NEW n \in Nodes, NEW t \in Texts, Set(n, t)
  PROVE  Filing'
<1>1. n \in Nodes \ members /\ UNCHANGED <<hash, members>>
  BY DEF Set
<1>2. text' = [text EXCEPT ![n] = t] \/ text' = text
  BY DEF Set
<1>3. text = [text EXCEPT ![n] = text[n]]
  BY DEF IInv
<1> QED
  BY <1>1, <1>2, <1>3, TextFiling

LEMMA ClearFiling ==
  ASSUME IInv, Filing, NEW n \in Nodes, Clear(n)
  PROVE  Filing'
<1>1. /\ n \in Nodes \ members /\ UNCHANGED <<hash, members>>
      /\ text' = [text EXCEPT ![n] = EmptyStr.text]
  BY DEF Clear
<1> QED
  BY <1>1, TextFiling

(* The number of lists does not depend on what is on them. *)
LEMMA SameCount ==
  ASSUME IInv, Careful, NEW c, hash' = [hash EXCEPT !.chains = c]
  PROVE  /\ bucket_size(hash)' = bucket_size(hash)
         /\ hash'.chains = c
<1>1. /\ hash'.chains = c /\ hash'.buckets = hash.buckets
      /\ hash'.size = hash.size /\ hash'.tail = hash.tail
  BY DEF IInv, IsHash
<1>2. SizeBits(hash)' = SizeBits(hash)
  BY <1>1 DEF SizeBits, Careful
<1> QED
  BY <1>1, <1>2 DEF bucket_size

LEMMA InsertFiling ==
  ASSUME IInv, Careful, Filing, NEW n \in Nodes, Insert(n)
  PROVE  Filing'
<1> DEFINE g == HashOf
           b == bucket_size(hash)
           c == hash.chains
           d == [c EXCEPT ![g[n] % b] = <<n>> \o @]
<1>1. hash_func = g /\ g \in [Nodes -> Nat] /\ b \in Nat \ {0}
  BY HashRead, ListsCounted
<1>2. members \in SUBSET Nodes /\ Filed(c, b, members, g) /\ n \in Nodes \ members
  BY DEF Filing, Insert
<1>3. hash' = [hash EXCEPT !.chains = d]
  BY <1>1 DEF Insert, Inserted, ListNo
<1>4. UNCHANGED text /\ members' = members \cup {n}
  BY DEF Insert
<1>5. HashOf' = g
  BY <1>4 DEF HashOf
<1> HIDE DEF g, b, c, d
<1>6. Filed(d, b, members \cup {n}, g)
  BY <1>1, <1>2, FiledOneMore DEF d
<1>7. bucket_size(hash)' = b /\ hash'.chains = d
  BY <1>3, SameCount DEF b
<1> QED
  BY <1>2, <1>4, <1>5, <1>6, <1>7 DEF Filing

LEMMA EraseFiling ==
  ASSUME IInv, Careful, Filing, NEW n \in Nodes, Erase(n)
  PROVE  Filing'
<1> DEFINE g == HashOf
           b == bucket_size(hash)
           c == hash.chains
           d == [c EXCEPT ![g[n] % b] = RemoveFirst(@, n)]
<1>1. hash_func = g /\ g \in [Nodes -> Nat] /\ b \in Nat \ {0}
  BY HashRead, ListsCounted
<1>2. members \in SUBSET Nodes /\ Filed(c, b, members, g)
  BY DEF Filing
<1>3. hash' = [hash EXCEPT !.chains = d]
  BY <1>1 DEF Erase, Erased, ListNo
<1>4. UNCHANGED text /\ members' = members \ {n}
  BY DEF Erase
<1>5. HashOf' = g
  BY <1>4 DEF HashOf
<1> HIDE DEF g, b, c, d
<1>6. Filed(d, b, members \ {n}, g)
  BY <1>1, <1>2, FiledOneLess DEF d
<1>7. bucket_size(hash)' = b /\ hash'.chains = d
  BY <1>3, SameCount DEF b
<1> QED
  BY <1>2, <1>4, <1>5, <1>6, <1>7 DEF Filing

LEMMA ResizeFiling ==
  ASSUME IInv, Filing, NEW new_size \in Sizes, Resize(new_size), Careful'
  PROVE  Filing'
<1> DEFINE g == HashOf
           x == [hash |-> hash, space |-> space]
           c(n) == Moved(hash, n, g)
<1>1. hash_func = g /\ g \in [Nodes -> Nat] /\ bucket_size(hash) \in Nat \ {0}
  BY HashRead, ListsCounted
<1>2. /\ new_size \in Nat \ {0}
      /\ UNCHANGED <<text, members>>
  BY StrNodesAssumption DEF Resize
<1>3. HashOf' = g
  BY <1>2 DEF HashOf
<1>4. members \in SUBSET Nodes /\ Filed(hash.chains, bucket_size(hash), members, g)
  BY DEF Filing
<1> HIDE DEF g
<1>5. ASSUME NEW n \in Nat \ {0}
      PROVE  Filed(c(n), n, members, g)
  BY <1>1, <1>4, FiledMoved
<1> HIDE DEF c
<1>6. \E n \in Nat \ {0} : hash'.chains = c(n) /\ bucket_size(hash)' = n
  <2>1. CASE HasMemory /\ LET y == ToBuckets(x, new_size, hash_func)
                          IN  hash' = y.hash /\ space' = y.space
    <3> DEFINE n == RealSize(new_size)
               size == (n * BytesPerList) \div 8
    <3>1. /\ hash'.size = size /\ hash'.chains = c(n) /\ hash'.tail = 0
          /\ hash'.buckets = Fresh(space)
      BY <2>1, <1>1 DEF ToBuckets, c
    <3>2. n \in Nat \ {0} /\ size \in Nat \ {0} /\ (size * 8) \div BytesPerList = n
      BY <1>2, RealSizes
    <3> HIDE DEF n, size
    <3>3. hash'.buckets # 0
      BY <2>1, <3>1, FreshIsFree, StrNodesAssumption DEF HasMemory
    <3>4. SizeBits(hash)' = size
      BY <3>1, <3>3 DEF SizeBits
    <3>5. bucket_size(hash)' = n
      BY <3>2, <3>4 DEF bucket_size
    <3> QED
      BY <3>1, <3>2, <3>5
  <2>2. ASSUME NEW bits \in StackBits,
               LET y == ToSingle(x, bits, hash_func)
               IN  hash' = y.hash /\ space' = y.space
        PROVE  \E n \in Nat \ {0} : hash'.chains = c(n) /\ bucket_size(hash)' = n
    <3>1. hash'.chains = c(1) /\ hash'.buckets = 0 /\ hash'.tail = 0
      BY <2>2, <1>1 DEF ToSingle, c, Careful
    <3>2. SizeBits(hash)' = 0
      BY <3>1 DEF SizeBits
    <3>3. bucket_size(hash)' = 1
      BY <3>2 DEF bucket_size
    <3> QED
      BY <3>1, <3>3
  <2> QED
    BY <2>1, <2>2 DEF Resize
<1> QED
  BY <1>2, <1>3, <1>4, <1>5, <1>6 DEF Filing

LEMMA ResetFiling ==
  ASSUME Reset
  PROVE  Filing'
<1>1. hash' = EmptyHash /\ members' = {}
  BY DEF Reset, Uninited
<1>2. /\ hash'.chains = [i \in {0} |-> <<>>]
      /\ bucket_size(hash)' = 1
  BY <1>1 DEF EmptyHash, bucket_size, SizeBits
<1>3. 0 .. 1 - 1 = {0}
  OBVIOUS
<1>4. hash'.chains \in [{0} -> Seq(Nodes)] /\ hash'.chains[0] = <<>>
  BY <1>2
<1> QED
  BY <1>1, <1>2, <1>3, <1>4, NoElement DEF Filing, Filed

LEMMA NextFiling ==
  ASSUME StackBits \subseteq {0}
  PROVE  IInv /\ Careful /\ Filing /\ [Next]_vars => (IInv /\ Careful /\ Filing)'
<1> SUFFICES ASSUME IInv, Careful, Filing, [Next]_vars
             PROVE  (IInv /\ Careful /\ Filing)'
  OBVIOUS
<1>1. (IInv /\ Careful)'
  BY NextIInv
<1>2. CASE \E n \in Nodes, t \in Texts : Set(n, t)
  BY <1>1, <1>2, SetFiling
<1>3. CASE \E n \in Nodes : Clear(n)
  BY <1>1, <1>3, ClearFiling
<1>4. CASE \E n \in Nodes : Insert(n)
  BY <1>1, <1>4, InsertFiling
<1>5. CASE \E n \in Nodes : Erase(n)
  BY <1>1, <1>5, EraseFiling
<1>6. CASE \E new_size \in Sizes : Resize(new_size)
  BY <1>1, <1>6, ResizeFiling
<1>7. CASE Reset
  BY <1>1, <1>7, ResetFiling
<1>8. CASE UNCHANGED vars
  BY <1>1, <1>8 DEF vars, Filing, HashOf
<1> QED
  BY <1>2, <1>3, <1>4, <1>5, <1>6, <1>7, <1>8 DEF Next

LEMMA FiledIsFound ==
  ASSUME IInv, Filing
  PROVE  Found
<1> DEFINE b == bucket_size(hash)
           c == hash.chains
           g == HashOf
<1>1. b \in Nat \ {0} /\ g \in [Nodes -> Nat] /\ members \subseteq Nodes
  BY HashRead, ListsCounted DEF Filing
<1>2. /\ c \in [0 .. b - 1 -> Seq(Nodes)]
      /\ \A i \in 0 .. b - 1 :
           /\ Distinct(c[i])
           /\ \A x : x \in ToSet(c[i]) <=> x \in members /\ g[x] % b = i
  BY DEF Filing, Filed
<1>3. DOMAIN c = 0 .. b - 1
  BY <1>2
<1>4. \A n \in Nodes : g[n] = TextHash[text[n]] /\ g[n] % b \in 0 .. b - 1
  <2>1. \A n \in Nodes : g[n] \in Nat /\ g[n] = TextHash[text[n]]
    BY <1>1 DEF HashOf
  <2> HIDE DEF g, b
  <2> QED
    BY <1>1, <2>1, InList
<1>5. \A n \in Nodes : \A t : SameText(str[n], space, t) <=> text[n] = t
  BY DEF IInv, Keeps, SameText, CStr, StrLength
<1> HIDE DEF b, g, c
<1>6. Listed(hash) = members
  <2>1. Listed(hash) = UNION {ToSet(c[i]) : i \in 0 .. b - 1}
    BY <1>3 DEF Listed, c
  <2>2. \A x \in members : x \in ToSet(c[g[x] % b]) /\ g[x] % b \in 0 .. b - 1
    BY <1>1, <1>2, <1>4
  <2> QED
    BY <1>2, <2>1, <2>2
<1>7. ASSUME NEW i \in DOMAIN c, NEW j \in DOMAIN c,
             NEW p \in DOMAIN c[i], NEW q \in DOMAIN c[j], c[i][p] = c[j][q]
      PROVE  i = j /\ p = q
  <2>1. /\ i \in 0 .. b - 1 /\ j \in 0 .. b - 1
        /\ c[i] \in Seq(Nodes) /\ c[j] \in Seq(Nodes)
    BY <1>2, <1>3
  <2>2. p \in 1 .. Len(c[i]) /\ q \in 1 .. Len(c[j])
    BY <2>1
  <2>3. c[i][p] \in ToSet(c[i]) /\ c[j][q] \in ToSet(c[j])
    BY <2>1, <2>2, Elements
  <2>4. i = j
    BY <1>2, <1>7, <2>1, <2>3
  <2> QED
    BY <1>2, <1>7, <2>1, <2>2, <2>4 DEF Distinct
<1>8. ASSUME NEW t \in Texts
      PROVE  LET equal == {n \in Nodes : SameText(str[n], space, t)}
             IN  Matching(hash, TextHash[t], equal) = {n \in members : text[n] = t}
  <2> DEFINE equal == {n \in Nodes : SameText(str[n], space, t)}
             k == TextHash[t] % b
  <2>1. equal = {n \in Nodes : text[n] = t}
    BY <1>5
  <2>2. Matching(hash, TextHash[t], equal) = ToSet(c[k]) \cap equal
    BY DEF Matching, ListNo, c, b
  <2>3. k \in 0 .. b - 1
    <3>1. TextHash[t] \in Nat
      BY StrNodesAssumption
    <3> QED
      BY <1>1, <3>1, InList
  <2>4. \A x : x \in ToSet(c[k]) <=> x \in members /\ g[x] % b = k
    BY <1>2, <2>3
  <2>5. \A n \in Nodes : text[n] = t => g[n] % b = k
    BY <1>4
  <2> HIDE DEF equal, k
  <2>6. ToSet(c[k]) \cap equal = {n \in members : text[n] = t}
    BY <1>1, <2>1, <2>4, <2>5
  <2> QED
    BY <2>2, <2>6 DEF equal
<1> QED
  BY <1>6, <1>7, <1>8 DEF Found, c

(* find meets every member under its text and nothing else, however often  *)
(* the table was resized and whatever was inserted and erased in between,  *)
(* and though memory runs out, if the stack leaves no bits in a list head. *)
THEOREM MembersFound == ASSUME StackBits \subseteq {0} PROVE Spec => []Found
<1>1. Init => IInv /\ Careful /\ Filing
  BY InitIInv, InitFiling, EmptyTable DEF Init, Careful, EmptySpace
<1>2. IInv /\ Careful /\ Filing /\ [Next]_vars => (IInv /\ Careful /\ Filing)'
  BY NextFiling
<1>3. IInv /\ Filing => Found
  BY FiledIsFound
<1> QED
  BY <1>1, <1>2, <1>3, PTL DEF Spec
=============================================================================
