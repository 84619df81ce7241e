--------------------------- MODULE ChkHeapProofs ---------------------------
(***************************************************************************)
(* Proofs about ChkHeap.                                                   *)
(***************************************************************************)
EXTENDS ChkHeap, SequenceTheorems, TLAPS

(* Division with remainder. *)
LEMMA DivMod ==
  ASSUME NEW m \in Nat, NEW f \in Nat \ {0}
  PROVE  /\ m \div f \in Nat
         /\ m % f \in Nat
         /\ m % f < f
         /\ m = ((m \div f) * f) + (m % f)
  BY SMT

(* The first n of several pieces of length f end before the others start. *)
LEMMA Pieces ==
  ASSUME NEW f \in Nat, NEW k \in Nat, NEW l \in Nat, k < l
  PROVE  k * f + f <= l * f
<1>1. PICK d \in Nat : l = k + 1 + d
  BY l - k - 1 \in Nat, l = k + 1 + (l - k - 1)
<1>2. l * f = k * f + f + d * f
  BY <1>1
<1>3. d * f \in Nat
  OBVIOUS
<1> QED
  BY <1>2, <1>3
---------------------------------------------------------------------------
(* The manager: what cutting a region yields.                              *)

LEMMA FreeSizesPos ==
  ASSUME NEW i \in Classes
  PROVE  FreeSizes[i] \in Nat \ {0}
  BY HeapAssumption DEF Increasing

(* What is left for a class is at most the region, and what the class does *)
(* not cut is left for the next smaller one.                               *)
LEMMA LeftOver ==
  ASSUME NEW size \in Nat
  PROVE  /\ \A i \in Classes :
              /\ Left(FreeSizes, size, i) \in Nat
              /\ Left(FreeSizes, size, i) <= size
              /\ Count(FreeSizes, size, i) \in Nat
              /\ Count(FreeSizes, size, i) * FreeSizes[i] \in Nat
              /\ Count(FreeSizes, size, i) * FreeSizes[i]
                   <= Left(FreeSizes, size, i)
         /\ \A i, j \in Classes : i < j =>
              Left(FreeSizes, size, i)
                <= Left(FreeSizes, size, j)
                     - Count(FreeSizes, size, j) * FreeSizes[j]
<1> DEFINE L(i) == Left(FreeSizes, size, i)
           N(i) == Count(FreeSizes, size, i)
           F(i) == FreeSizes[i]
<1>1. /\ F(1) \in Nat \ {0}
      /\ F(2) \in Nat \ {0}
      /\ F(3) \in Nat \ {0}
  BY FreeSizesPos DEF Classes
<1>2. /\ L(3) = size
      /\ L(2) = L(3) % F(3)
      /\ L(1) = L(2) % F(2)
  BY DEF Left
<1>3. /\ N(1) = L(1) \div F(1)
      /\ N(2) = L(2) \div F(2)
      /\ N(3) = L(3) \div F(3)
  BY DEF Count
<1> HIDE DEF L, N, F
<1>4. /\ L(3) \in Nat
      /\ N(3) \in Nat
      /\ L(2) \in Nat
      /\ L(3) = (N(3) * F(3)) + L(2)
  <2>1. /\ L(3) \div F(3) \in Nat
        /\ L(3) % F(3) \in Nat
        /\ L(3) = ((L(3) \div F(3)) * F(3)) + (L(3) % F(3))
    BY <1>1, <1>2, DivMod
  <2> QED
    BY <2>1, <1>2, <1>3
<1>5. /\ N(2) \in Nat
      /\ L(1) \in Nat
      /\ L(2) = (N(2) * F(2)) + L(1)
  <2>1. /\ L(2) \div F(2) \in Nat
        /\ L(2) % F(2) \in Nat
        /\ L(2) = ((L(2) \div F(2)) * F(2)) + (L(2) % F(2))
    BY <1>1, <1>4, DivMod
  <2> QED
    BY <2>1, <1>2, <1>3
<1>6. /\ N(1) \in Nat
      /\ L(1) % F(1) \in Nat
      /\ L(1) = (N(1) * F(1)) + (L(1) % F(1))
  BY <1>1, <1>3, <1>5, DivMod
<1>7. /\ N(1) * F(1) \in Nat
      /\ N(2) * F(2) \in Nat
      /\ N(3) * F(3) \in Nat
  BY <1>1, <1>4, <1>5, <1>6
<1> DEFINE P(i) == N(i) * F(i)
<1>8. /\ P(1) \in Nat /\ P(1) <= L(1)
      /\ P(2) \in Nat /\ P(2) + L(1) = L(2)
      /\ P(3) \in Nat /\ P(3) + L(2) = L(3)
  BY <1>4, <1>5, <1>6, <1>7
<1>9. /\ \A i \in Classes : /\ L(i) \in Nat /\ L(i) <= size
                            /\ N(i) \in Nat
                            /\ P(i) \in Nat /\ P(i) <= L(i)
      /\ \A i, j \in Classes : i < j => L(i) <= L(j) - P(j)
  <2> HIDE DEF P
  <2> QED
    BY <1>2, <1>4, <1>5, <1>6, <1>8 DEF Classes
<1> QED
  BY <1>9 DEF L, N, F

(* The k-th block of class i, counted from the top: its place.             *)
LEMMA CarvedBlock ==
  ASSUME NEW b \in Blocks, NEW size \in Nat, NEW i \in Classes
  PROVE  /\ Carved(FreeSizes, b, size, i) \in Seq(Blocks)
         /\ \A k \in DOMAIN Carved(FreeSizes, b, size, i) :
              LET c == Carved(FreeSizes, b, size, i)[k]
                  start == b.off + (size - Left(FreeSizes, size, i))
              IN  /\ c.no = b.no
                  /\ start <= c.off
                  /\ End(c, FreeSizes[i])
                       <= start + Count(FreeSizes, size, i) * FreeSizes[i]
         /\ \A k, l \in DOMAIN Carved(FreeSizes, b, size, i) : k < l =>
              End(Carved(FreeSizes, b, size, i)[l], FreeSizes[i])
                <= Carved(FreeSizes, b, size, i)[k].off
<1> DEFINE n == Count(FreeSizes, size, i)
           f == FreeSizes[i]
           left == Left(FreeSizes, size, i)
           start == b.off + (size - left)
           s == Carved(FreeSizes, b, size, i)
<1>1. /\ n \in Nat
      /\ left \in Nat
      /\ left <= size
      /\ n * f \in Nat
  BY LeftOver
<1>2. f \in Nat /\ f > 0
  BY FreeSizesPos
<1>3. b.off \in Nat /\ b.no \in ChkNos
  BY DEF Blocks
<1>4. start \in Nat
  BY <1>1, <1>3
<1>5. s = [k \in 1 .. n |-> [no |-> b.no, off |-> start + (n - k) * f]]
  BY DEF Carved
<1> HIDE DEF n, f, left, start, s
<1>6. ASSUME NEW k \in 1 .. n
      PROVE  /\ n - k \in Nat
             /\ (n - k) * f \in Nat
             /\ (n - k) * f + f <= n * f
  <2>1. n - k \in Nat /\ n - k < n
    BY <1>1
  <2> QED
    BY <2>1, <1>1, <1>2, Pieces
<1>7. s \in Seq(Blocks) /\ DOMAIN s = 1 .. n
  <2>1. \A k \in 1 .. n : [no |-> b.no, off |-> start + (n - k) * f] \in Blocks
    BY <1>3, <1>4, <1>6 DEF Blocks
  <2>2. s \in [1 .. n -> Blocks]
    BY <1>5, <2>1
  <2> QED
    BY <1>1, <2>2
<1>8. ASSUME NEW k \in DOMAIN s
      PROVE  /\ s[k].no = b.no
             /\ start <= s[k].off
             /\ End(s[k], f) <= start + n * f
  <2>1. k \in 1 .. n
    BY <1>7
  <2>2. s[k] = [no |-> b.no, off |-> start + (n - k) * f]
    BY <1>5, <2>1
  <2> DEFINE p == (n - k) * f
             q == n * f
  <2>3. p \in Nat /\ q \in Nat /\ p + f <= q
    BY <2>1, <1>1, <1>6
  <2>4. s[k].no = b.no /\ s[k].off = start + p
    BY <2>2
  <2> HIDE DEF p
  <2>5. End(s[k], f) = start + p + f
    BY <2>4 DEF End
  <2> HIDE DEF q
  <2>6. start <= start + p /\ start + p + f <= start + q
    BY <2>3, <1>4, <1>2
  <2> QED
    BY <2>4, <2>5, <2>6 DEF q
<1>9. ASSUME NEW k \in DOMAIN s, NEW l \in DOMAIN s, k < l
      PROVE  End(s[l], f) <= s[k].off
  <2>1. k \in 1 .. n /\ l \in 1 .. n
    BY <1>7
  <2> DEFINE p == (n - k) * f
             q == (n - l) * f
  <2>2. s[k].off = start + p /\ s[l].off = start + q
    BY <1>5, <2>1
  <2>3. n - l \in Nat /\ n - k \in Nat /\ n - l < n - k
    BY <2>1, <1>1, <1>9
  <2>4. q + f <= p
    BY <2>3, <1>2, Pieces
  <2>5. p \in Nat /\ q \in Nat
    BY <2>1, <1>6
  <2> HIDE DEF p, q
  <2> QED
    BY <2>2, <2>4, <2>5, <1>2, <1>4 DEF End
<1> QED
  BY <1>7, <1>8, <1>9 DEF s, n, f, start, left

(* Block c of size csize lies in block b of size bsize. *)
Within(c, csize, b, bsize) ==
  /\ c.no = b.no
  /\ b.off <= c.off
  /\ End(c, csize) <= End(b, bsize)

(* The blocks cut from a region lie in it and are apart from each other.   *)
LEMMA CarvedApart ==
  ASSUME NEW b \in Blocks, NEW size \in Nat
  PROVE  LET cut == [i \in Classes |-> Carved(FreeSizes, b, size, i)]
         IN  /\ cut \in Lists
             /\ Apart(cut)
             /\ \A i \in Classes : \A k \in DOMAIN cut[i] :
                  Within(cut[i][k], FreeSizes[i], b, size)
<1> DEFINE cut == [i \in Classes |-> Carved(FreeSizes, b, size, i)]
           L(i) == Left(FreeSizes, size, i)
           P(i) == Count(FreeSizes, size, i) * FreeSizes[i]
           start(i) == b.off + (size - L(i))
<1>1. \A i \in Classes :
        /\ L(i) \in Nat /\ L(i) <= size
        /\ P(i) \in Nat /\ P(i) <= L(i)
        /\ FreeSizes[i] \in Nat \ {0}
  BY LeftOver, FreeSizesPos
<1>2. \A i, j \in Classes : i < j => L(i) <= L(j) - P(j)
  BY LeftOver
<1>3. \A i \in Classes : cut[i] = Carved(FreeSizes, b, size, i)
  OBVIOUS
<1>4. \A i \in Classes :
        /\ cut[i] \in Seq(Blocks)
        /\ \A k \in DOMAIN cut[i] :
             /\ cut[i][k].no = b.no
             /\ start(i) <= cut[i][k].off
             /\ End(cut[i][k], FreeSizes[i]) <= start(i) + P(i)
        /\ \A k, l \in DOMAIN cut[i] : k < l =>
             End(cut[i][l], FreeSizes[i]) <= cut[i][k].off
  BY CarvedBlock
<1>5. b.off \in Nat /\ b.no \in ChkNos
  BY DEF Blocks
<1>6. \A i \in Classes : start(i) \in Nat /\ b.off <= start(i)
  BY <1>1, <1>5
<1> HIDE DEF cut, L, P
<1>7. ASSUME NEW i \in Classes, NEW k \in DOMAIN cut[i]
      PROVE  cut[i][k] \in Blocks /\ k \in Nat
  BY <1>4
<1>8. ASSUME NEW i \in Classes, NEW k \in DOMAIN cut[i]
      PROVE  Within(cut[i][k], FreeSizes[i], b, size)
  <2>1. cut[i][k].off \in Nat /\ FreeSizes[i] \in Nat
    BY <1>7, <1>1 DEF Blocks
  <2>2. /\ cut[i][k].no = b.no
        /\ b.off + (size - L(i)) <= cut[i][k].off
        /\ cut[i][k].off + FreeSizes[i] <= b.off + (size - L(i)) + P(i)
    BY <1>4 DEF End
  <2>3. /\ L(i) \in Nat /\ L(i) <= size
        /\ P(i) \in Nat /\ P(i) <= L(i)
    BY <1>1
  <2> QED
    BY <2>1, <2>2, <2>3, <1>5 DEF Within, End
<1>9. ASSUME NEW i \in Classes, NEW j \in Classes, i < j,
             NEW k \in DOMAIN cut[i], NEW l \in DOMAIN cut[j]
      PROVE  Disjoint(cut[i][k], FreeSizes[i], cut[j][l], FreeSizes[j])
  <2>1. /\ b.off + (size - L(i)) <= cut[i][k].off
        /\ End(cut[j][l], FreeSizes[j]) <= b.off + (size - L(j)) + P(j)
    BY <1>4
  <2>2. /\ cut[i][k].off \in Nat
        /\ cut[j][l].off \in Nat
        /\ FreeSizes[j] \in Nat
    BY <1>7, <1>1 DEF Blocks
  <2>3. /\ L(i) \in Nat /\ L(j) \in Nat /\ P(j) \in Nat
        /\ L(i) <= L(j) - P(j)
    BY <1>1, <1>2, <1>9
  <2>4. End(cut[j][l], FreeSizes[j]) <= cut[i][k].off
    BY <2>1, <2>2, <2>3, <1>5 DEF End
  <2> QED
    BY <2>4 DEF Disjoint
<1>10. Apart(cut)
  <2> SUFFICES ASSUME NEW i \in Classes, NEW j \in Classes,
                      NEW k \in DOMAIN cut[i], NEW l \in DOMAIN cut[j],
                      <<i, k>> # <<j, l>>
               PROVE  Disjoint(cut[i][k], FreeSizes[i], cut[j][l], FreeSizes[j])
    BY DEF Apart
  <2>1. CASE i < j
    BY <2>1, <1>9
  <2>2. CASE j < i
    BY <2>2, <1>9 DEF Disjoint
  <2>3. CASE i = j
    <3>1. k \in Nat /\ l \in Nat /\ k # l
      BY <2>3, <1>7
    <3>2. k < l \/ l < k
      BY <3>1
    <3> QED
      BY <3>2, <2>3, <1>4 DEF Disjoint
  <2> QED
    BY <2>1, <2>2, <2>3 DEF Classes
<1>11. cut \in Lists
  <2>1. cut = [i \in Classes |-> cut[i]]
    BY DEF cut
  <2> QED
    BY <2>1, <1>4 DEF Lists
<1> QED
  BY <1>8, <1>10, <1>11 DEF cut

(* Blocks inside one that is apart from others are apart from them too.    *)
LEMMA WithinApart ==
  ASSUME NEW b, b.off \in Nat, NEW bsize \in Nat,
         NEW c, c.off \in Nat, NEW csize \in Nat,
         NEW d, d.off \in Nat, NEW dsize \in Nat,
         Within(c, csize, b, bsize),
         Disjoint(b, bsize, d, dsize)
  PROVE  Disjoint(c, csize, d, dsize)
  BY DEF Within, Disjoint, End

(* The elements of a stack put on another.                                 *)
LEMMA Stacked ==
  ASSUME NEW S, NEW up \in Seq(S), NEW down \in Seq(S),
         NEW k \in DOMAIN (up \o down)
  PROVE  \/ /\ k \in DOMAIN up
            /\ (up \o down)[k] = up[k]
         \/ /\ k - Len(up) \in DOMAIN down
            /\ (up \o down)[k] = down[k - Len(up)]
<1>1. /\ up \o down \in Seq(S)
      /\ Len(up \o down) = Len(up) + Len(down)
      /\ \A i \in 1 .. Len(up) + Len(down) :
           (up \o down)[i] = IF i <= Len(up) THEN up[i] ELSE down[i - Len(up)]
  BY ConcatProperties
<1>2. /\ DOMAIN up = 1 .. Len(up) /\ Len(up) \in Nat
      /\ DOMAIN down = 1 .. Len(down) /\ Len(down) \in Nat
      /\ DOMAIN (up \o down) = 1 .. Len(up \o down)
  BY <1>1, LenProperties
<1>3. k \in 1 .. Len(up) + Len(down)
  BY <1>1, <1>2
<1>4. CASE k <= Len(up)
  BY <1>1, <1>2, <1>3, <1>4
<1>5. CASE ~(k <= Len(up))
  BY <1>1, <1>2, <1>3, <1>5
<1> QED
  BY <1>4, <1>5

(* Every block of new is one of lists or lies in block b of size bsize.    *)
Derived(new, lists, b, bsize) ==
  \A i \in Classes : \A k \in DOMAIN new[i] :
    \/ Within(new[i][k], FreeSizes[i], b, bsize)
    \/ \E l \in DOMAIN lists[i] : new[i][k] = lists[i][l]

(* A block apart from the free lists and from b is apart from what is      *)
(* derived from them.                                                      *)
LEMMA OffDerived ==
  ASSUME NEW new \in Lists, NEW lists \in Lists,
         NEW b, b.off \in Nat, NEW bsize \in Nat,
         NEW c, c.off \in Nat, NEW csize \in Nat,
         Derived(new, lists, b, bsize),
         OffPool(lists, c, csize),
         Disjoint(b, bsize, c, csize)
  PROVE  OffPool(new, c, csize)
<1> SUFFICES ASSUME NEW i \in Classes, NEW k \in DOMAIN new[i]
             PROVE  Disjoint(c, csize, new[i][k], FreeSizes[i])
  BY DEF OffPool
<1>1. new[i] \in Seq(Blocks)
  BY DEF Lists
<1>2. new[i][k].off \in Nat /\ FreeSizes[i] \in Nat
  <2>1. new[i][k] \in Blocks
    BY <1>1
  <2> QED
    BY <2>1, FreeSizesPos DEF Blocks
<1>3. CASE Within(new[i][k], FreeSizes[i], b, bsize)
  BY <1>2, <1>3, WithinApart DEF Disjoint
<1>4. CASE \E l \in DOMAIN lists[i] : new[i][k] = lists[i][l]
  BY <1>4 DEF OffPool
<1> QED
  BY <1>3, <1>4 DEF Derived

(* ChkMemMgr::free keeps the blocks of the free lists apart when the freed *)
(* region is apart from them, and adds blocks of the region only.          *)
LEMMA PoolFreed ==
  ASSUME NEW lists \in Lists, NEW b \in Blocks, NEW size \in Nat
  PROVE  LET new == PoolFree(FreeSizes, lists, b, size)
         IN  /\ new \in Lists
             /\ Derived(new, lists, b, size)
             /\ Apart(lists) /\ OffPool(lists, b, size) => Apart(new)
<1> DEFINE new == PoolFree(FreeSizes, lists, b, size)
           cut == [i \in Classes |-> Carved(FreeSizes, b, size, i)]
<1>1. /\ cut \in Lists
      /\ Apart(cut)
      /\ \A i \in Classes : \A k \in DOMAIN cut[i] :
           Within(cut[i][k], FreeSizes[i], b, size)
  BY CarvedApart
<1>2. new = [i \in Classes |-> cut[i] \o lists[i]]
  BY DEF PoolFree
<1> HIDE DEF new, cut
<1>3. new \in Lists
  <2>1. \A i \in Classes : cut[i] \in Seq(Blocks) /\ lists[i] \in Seq(Blocks)
    BY <1>1 DEF Lists
  <2>2. \A i \in Classes : cut[i] \o lists[i] \in Seq(Blocks)
    BY <2>1
  <2> QED
    BY <2>2, <1>2 DEF Lists
<1>4. ASSUME NEW i \in Classes, NEW k \in DOMAIN new[i]
      PROVE  \/ /\ k \in DOMAIN cut[i]
                /\ new[i][k] = cut[i][k]
             \/ /\ k - Len(cut[i]) \in DOMAIN lists[i]
                /\ new[i][k] = lists[i][k - Len(cut[i])]
  <2>1. new[i] = cut[i] \o lists[i]
    BY <1>2
  <2>2. cut[i] \in Seq(Blocks) /\ lists[i] \in Seq(Blocks)
    BY <1>1 DEF Lists
  <2>3. k \in DOMAIN (cut[i] \o lists[i])
    BY <2>1
  <2> DEFINE up == cut[i]
             down == lists[i]
  <2>4. up \in Seq(Blocks) /\ down \in Seq(Blocks) /\ k \in DOMAIN (up \o down)
    BY <2>2, <2>3
  <2> HIDE DEF up, down
  <2>5. \/ k \in DOMAIN up /\ (up \o down)[k] = up[k]
        \/ /\ k - Len(up) \in DOMAIN down
           /\ (up \o down)[k] = down[k - Len(up)]
    BY <2>4, Stacked
  <2> QED
    BY <2>1, <2>5 DEF up, down
<1>5. ASSUME NEW i \in Classes, NEW k \in DOMAIN new[i]
      PROVE  \/ Within(new[i][k], FreeSizes[i], b, size)
             \/ \E l \in DOMAIN lists[i] : new[i][k] = lists[i][l]
  BY <1>1, <1>4
<1>6. ASSUME Apart(lists), OffPool(lists, b, size)
      PROVE  Apart(new)
  <2>1. ASSUME NEW i \in Classes, NEW k \in DOMAIN cut[i],
               NEW j \in Classes, NEW l \in DOMAIN lists[j]
        PROVE  /\ Disjoint(cut[i][k], FreeSizes[i], lists[j][l], FreeSizes[j])
               /\ Disjoint(lists[j][l], FreeSizes[j], cut[i][k], FreeSizes[i])
    <3>1. /\ cut[i][k].off \in Nat
          /\ lists[j][l].off \in Nat
          /\ b.off \in Nat
          /\ FreeSizes[i] \in Nat
          /\ FreeSizes[j] \in Nat
      <4>1. cut[i] \in Seq(Blocks) /\ lists[j] \in Seq(Blocks)
        BY <1>1 DEF Lists
      <4>2. cut[i][k] \in Blocks /\ lists[j][l] \in Blocks
        BY <4>1
      <4> QED
        BY <4>2, FreeSizesPos DEF Blocks
    <3>2. Disjoint(b, size, lists[j][l], FreeSizes[j])
      BY <1>6 DEF OffPool
    <3>3. Disjoint(cut[i][k], FreeSizes[i], lists[j][l], FreeSizes[j])
      BY <3>1, <3>2, <1>1, WithinApart
    <3> QED
      BY <3>3 DEF Disjoint
  <2> SUFFICES ASSUME NEW i \in Classes, NEW j \in Classes,
                      NEW k \in DOMAIN new[i], NEW l \in DOMAIN new[j],
                      <<i, k>> # <<j, l>>
               PROVE  Disjoint(new[i][k], FreeSizes[i], new[j][l], FreeSizes[j])
    BY DEF Apart
  <2>2. CASE k \in DOMAIN cut[i] /\ new[i][k] = cut[i][k]
    <3>1. CASE l \in DOMAIN cut[j] /\ new[j][l] = cut[j][l]
      BY <2>2, <3>1, <1>1 DEF Apart
    <3>2. CASE /\ l - Len(cut[j]) \in DOMAIN lists[j]
               /\ new[j][l] = lists[j][l - Len(cut[j])]
      BY <2>2, <3>2, <2>1
    <3> QED
      BY <3>1, <3>2, <1>4
  <2>3. CASE /\ k - Len(cut[i]) \in DOMAIN lists[i]
             /\ new[i][k] = lists[i][k - Len(cut[i])]
    <3>1. CASE l \in DOMAIN cut[j] /\ new[j][l] = cut[j][l]
      BY <2>3, <3>1, <2>1
    <3>2. CASE /\ l - Len(cut[j]) \in DOMAIN lists[j]
               /\ new[j][l] = lists[j][l - Len(cut[j])]
      <4>1. k \in Nat /\ l \in Nat
        BY <1>3 DEF Lists
      <4>2. /\ Len(cut[i]) \in Nat
            /\ Len(cut[j]) \in Nat
        BY <1>1 DEF Lists
      <4>3. <<i, k - Len(cut[i])>> # <<j, l - Len(cut[j])>>
        BY <4>1, <4>2
      <4> QED
        BY <4>3, <2>3, <3>2, <1>6 DEF Apart
    <3> QED
      BY <3>1, <3>2, <1>4
  <2> QED
    BY <2>2, <2>3, <1>4
<1> QED
  BY <1>3, <1>5, <1>6 DEF new, Derived

(* ChkMemMgr::alloc: the block it takes is apart from the lists it leaves, *)
(* and these hold nothing that was not pooled before.                      *)
LEMMA PoolServed ==
  ASSUME NEW lists \in Lists, NEW size \in Nat, Apart(lists),
         Serving(FreeSizes, lists, size) # {}
  PROVE  LET i == Served(FreeSizes, lists, size)
             b == PoolTaken(FreeSizes, lists, size)
             new == PoolAlloc(FreeSizes, lists, size)
         IN  /\ i \in Classes
             /\ size <= FreeSizes[i]
             /\ 1 \in DOMAIN lists[i]
             /\ b = lists[i][1]
             /\ b \in Blocks
             /\ new \in Lists
             /\ Apart(new)
             /\ OffPool(new, b, size)
             /\ Derived(new, lists, b, FreeSizes[i])
<1> DEFINE S == Serving(FreeSizes, lists, size)
           i == Served(FreeSizes, lists, size)
           b == PoolTaken(FreeSizes, lists, size)
           new == PoolAlloc(FreeSizes, lists, size)
           f == FreeSizes[i]
           less == [lists EXCEPT ![i] = Tail(@)]
           rest == [no |-> b.no, off |-> b.off + size]
<1>1. i \in S
  <2>1. S \subseteq Classes
    BY DEF Serving
  <2>2. \E c \in S : \A d \in S : c <= d
    <3>1. CASE 1 \in S
      BY <3>1, <2>1 DEF Classes
    <3>2. CASE 1 \notin S /\ 2 \in S
      BY <3>2, <2>1 DEF Classes
    <3>3. CASE 1 \notin S /\ 2 \notin S
      BY <3>3, <2>1 DEF Classes
    <3> QED
      BY <3>1, <3>2, <3>3
  <2>3. i = CHOOSE c \in S : \A d \in S : c <= d
    BY DEF Served
  <2> HIDE DEF S, i
  <2> QED
    BY <2>2, <2>3
<1>2. i \in Classes /\ size <= f /\ lists[i] # << >>
  BY <1>1 DEF Serving
<1>3. b = Head(lists[i])
  BY DEF PoolTaken
<1>4. new = PoolFree(FreeSizes, less, rest, f - size)
  BY DEF PoolAlloc, PoolTaken
<1> HIDE DEF S, i, b, new
<1>5. f \in Nat \ {0}
  BY <1>2, FreeSizesPos
<1> HIDE DEF f
<1>6. lists[i] \in Seq(Blocks)
  BY <1>2 DEF Lists
<1>7. /\ Len(lists[i]) \in Nat \ {0}
      /\ DOMAIN lists[i] = 1 .. Len(lists[i])
  BY <1>2, <1>6, EmptySeq, LenProperties
<1>8. 1 \in DOMAIN lists[i] /\ b = lists[i][1] /\ b \in Blocks
  BY <1>2, <1>3, <1>6, <1>7
<1>9. /\ Tail(lists[i]) \in Seq(Blocks)
      /\ \A k \in DOMAIN Tail(lists[i]) :
           /\ k + 1 \in DOMAIN lists[i]
           /\ k \in Nat /\ k > 0
           /\ Tail(lists[i])[k] = lists[i][k + 1]
  <2>1. /\ Tail(lists[i]) \in Seq(Blocks)
        /\ Len(Tail(lists[i])) = Len(lists[i]) - 1
        /\ \A k \in 1 .. Len(Tail(lists[i])) :
             Tail(lists[i])[k] = lists[i][k + 1]
    BY <1>2, <1>6, HeadTailProperties
  <2>2. DOMAIN Tail(lists[i]) = 1 .. Len(Tail(lists[i]))
    BY <2>1, LenProperties
  <2> QED
    BY <2>1, <2>2, <1>7
<1>10. less \in Lists
  BY <1>2, <1>9 DEF Lists
<1>11. ASSUME NEW j \in Classes, NEW k \in DOMAIN less[j]
       PROVE  \/ /\ j = i /\ k \in Nat /\ k > 0
                 /\ k + 1 \in DOMAIN lists[j]
                 /\ less[j][k] = lists[j][k + 1]
              \/ /\ j # i
                 /\ k \in DOMAIN lists[j]
                 /\ less[j][k] = lists[j][k]
  <2>1. CASE j = i
    <3>1. less[j] = Tail(lists[i])
      BY <2>1, <1>2 DEF Lists
    <3> QED
      BY <3>1, <2>1, <1>9
  <2>2. CASE j # i
    <3>1. less[j] = lists[j]
      BY <2>2 DEF Lists
    <3> QED
      BY <3>1, <2>2
  <2> QED
    BY <2>1, <2>2
<1> HIDE DEF less
<1>12. Apart(less)
  <2> SUFFICES ASSUME NEW j \in Classes, NEW m \in Classes,
                      NEW k \in DOMAIN less[j], NEW l \in DOMAIN less[m],
                      <<j, k>> # <<m, l>>
               PROVE  Disjoint(less[j][k], FreeSizes[j], less[m][l], FreeSizes[m])
    BY DEF Apart
  <2>1. PICK p \in DOMAIN lists[j] :
          less[j][k] = lists[j][p] /\ p = IF j = i THEN k + 1 ELSE k
    BY <1>11
  <2>2. PICK q \in DOMAIN lists[m] :
          less[m][l] = lists[m][q] /\ q = IF m = i THEN l + 1 ELSE l
    BY <1>11
  <2>3. <<j, p>> # <<m, q>>
    BY <2>1, <2>2, <1>11
  <2> QED
    BY <2>1, <2>2, <2>3 DEF Apart
<1>13. OffPool(less, b, f)
  <2> SUFFICES ASSUME NEW j \in Classes, NEW k \in DOMAIN less[j]
               PROVE  Disjoint(b, f, less[j][k], FreeSizes[j])
    BY DEF OffPool
  <2>1. PICK p \in DOMAIN lists[j] :
          less[j][k] = lists[j][p] /\ <<i, 1>> # <<j, p>>
    BY <1>11
  <2> QED
    BY <2>1, <1>2, <1>8 DEF Apart, f
<1>14. /\ rest \in Blocks
       /\ f - size \in Nat
       /\ Within(rest, f - size, b, f)
       /\ Disjoint(rest, f - size, b, size)
       /\ Within(b, size, b, f)
  BY <1>2, <1>5, <1>8 DEF Blocks, ChkNos, Within, Disjoint, End
<1>15. b.off \in Nat
  BY <1>8 DEF Blocks
<1> HIDE DEF rest
<1>16. OffPool(less, rest, f - size) /\ OffPool(less, b, size)
  <2> SUFFICES ASSUME NEW j \in Classes, NEW k \in DOMAIN less[j]
               PROVE  /\ Disjoint(rest, f - size, less[j][k], FreeSizes[j])
                      /\ Disjoint(b, size, less[j][k], FreeSizes[j])
    BY DEF OffPool
  <2>1. less[j] \in Seq(Blocks)
    BY <1>10 DEF Lists
  <2>2. less[j][k] \in Blocks
    BY <2>1
  <2>3. less[j][k].off \in Nat /\ rest.off \in Nat /\ FreeSizes[j] \in Nat
    BY <2>2, <1>14, FreeSizesPos DEF Blocks
  <2>4. Disjoint(b, f, less[j][k], FreeSizes[j])
    BY <1>13 DEF OffPool
  <2> QED
    BY <2>3, <2>4, <1>5, <1>14, <1>15, WithinApart
<1>17. /\ new \in Lists
       /\ Derived(new, less, rest, f - size)
       /\ Apart(new)
  BY <1>4, <1>10, <1>12, <1>14, <1>16, PoolFreed
<1>18. OffPool(new, b, size)
  <2>1. rest.off \in Nat
    BY <1>14 DEF Blocks
  <2> QED
    BY <2>1, <1>10, <1>14, <1>15, <1>16, <1>17, OffDerived
<1>19. Derived(new, lists, b, f)
  <2> SUFFICES ASSUME NEW j \in Classes, NEW k \in DOMAIN new[j]
               PROVE  \/ Within(new[j][k], FreeSizes[j], b, f)
                      \/ \E l \in DOMAIN lists[j] : new[j][k] = lists[j][l]
    BY DEF Derived
  <2>1. CASE Within(new[j][k], FreeSizes[j], rest, f - size)
    <3>1. new[j] \in Seq(Blocks)
      BY <1>17 DEF Lists
    <3>2. /\ new[j][k].off \in Nat
          /\ FreeSizes[j] \in Nat
          /\ rest.off \in Nat
      <4>1. new[j][k] \in Blocks
        BY <3>1
      <4> QED
        BY <4>1, <1>14, FreeSizesPos DEF Blocks
    <3>3. /\ rest.no = b.no
          /\ b.off <= rest.off
          /\ rest.off + (f - size) <= b.off + f
      BY <1>14 DEF Within, End
    <3>4. /\ new[j][k].no = rest.no
          /\ rest.off <= new[j][k].off
          /\ new[j][k].off + FreeSizes[j] <= rest.off + (f - size)
      BY <2>1 DEF Within, End
    <3> QED
      BY <3>2, <3>3, <3>4, <1>5, <1>15 DEF Within, End
  <2>2. CASE \E l \in DOMAIN less[j] : new[j][k] = less[j][l]
    BY <2>2, <1>11
  <2> QED
    BY <2>1, <2>2, <1>17 DEF Derived
<1> QED
  BY <1>2, <1>8, <1>17, <1>18, <1>19 DEF f, i, b, new
---------------------------------------------------------------------------
(* The index: the fields each operator changes.                            *)

LEMMA Layout ==
  /\ MaxCapacity \in Nat \ {0}
  /\ \A n \in ChkNos :
       /\ Overhead(n) \in Nat
       /\ Overhead(n) + MaxContinus <= Units(MaxCapacity)
  /\ \A c \in Nat : Units(c) \in Nat
<1>1. /\ MetaUnits \in Nat /\ MgrUnits \in Nat
      /\ MaxContinus \in Nat /\ UnitsPerCap \in Nat
      /\ MaxCapacity \in Nat \ {0}
      /\ MetaUnits + MgrUnits + MaxContinus <= Units(MaxCapacity)
  BY LayoutAssumption
<1>2. \A c \in Nat : Units(c) \in Nat
  BY <1>1 DEF Units
<1>3. Units(MaxCapacity) \in Nat
  BY <1>1, <1>2
<1> QED
  BY <1>1, <1>2, <1>3 DEF Overhead

LEMMA IndexFields ==
  ASSUME NEW x \in ChkIndexes
  PROVE  /\ x.chk_num \in Nat
         /\ x.chk_num <= MaxChkNum
         /\ x.free_list \in Lists
         /\ \A n \in ChkNos :
              /\ x.chk[n] \in ChkMetadata
              /\ x.chk[n].capacity \in 0 .. MaxCapacity
              /\ x.chk[n].capacity \in Nat
              /\ x.chk[n].virgin \in Nat
         /\ \A n \in Nat : n < x.chk_num => n \in ChkNos
<1>1. MaxChkNum \in Nat /\ MaxCapacity \in Nat
  BY LayoutAssumption
<1>2. /\ x.chk_num \in 0 .. MaxChkNum
      /\ x.free_list \in Lists
      /\ \A n \in ChkNos : x.chk[n] \in ChkMetadata
  BY DEF ChkIndexes
<1>3. \A h \in ChkMetadata : /\ h.capacity \in 0 .. MaxCapacity
                             /\ h.virgin \in Nat
  BY DEF ChkMetadata
<1> QED
  BY <1>1, <1>2, <1>3 DEF ChkNos

(* Replacing the header of one chunk. *)
LEMMA NewHeader ==
  ASSUME NEW x \in ChkIndexes, NEW n \in ChkNos, NEW h \in ChkMetadata
  PROVE  LET y == [x EXCEPT !.chk[n] = h]
         IN  /\ y \in ChkIndexes
             /\ y.chk_num = x.chk_num
             /\ y.free_list = x.free_list
             /\ y.total_used = x.total_used
             /\ y.total_free = x.total_free
             /\ y.total_capacity = x.total_capacity
             /\ y.chk[n] = h
             /\ \A m \in ChkNos \ {n} : y.chk[m] = x.chk[m]
  BY DEF ChkIndexes

(* Moving the virgin mark. *)
LEMMA TakenVirgin ==
  ASSUME NEW x \in ChkIndexes, NEW n \in ChkNos, NEW size \in Int,
         x.chk[n].virgin + size \in Nat
  PROVE  LET y == TakeVirgin(x, n, size)
         IN  /\ y \in ChkIndexes
             /\ y.chk_num = x.chk_num
             /\ y.free_list = x.free_list
             /\ y.total_used = x.total_used
             /\ y.total_free = x.total_free
             /\ y.total_capacity = x.total_capacity
             /\ y.chk[n].virgin = x.chk[n].virgin + size
             /\ y.chk[n].capacity = x.chk[n].capacity
             /\ y.chk[n].used = x.chk[n].used
             /\ y.chk[n].alloc_capacity = x.chk[n].alloc_capacity
             /\ \A m \in ChkNos \ {n} : y.chk[m] = x.chk[m]
<1> DEFINE h == [x.chk[n] EXCEPT !.virgin = @ + size]
<1>1. x.chk[n] \in ChkMetadata
  BY IndexFields
<1>2. /\ h \in ChkMetadata
      /\ h.virgin = x.chk[n].virgin + size
      /\ h.capacity = x.chk[n].capacity
      /\ h.used = x.chk[n].used
      /\ h.alloc_capacity = x.chk[n].alloc_capacity
  BY <1>1 DEF ChkMetadata
<1>3. TakeVirgin(x, n, size) = [x EXCEPT !.chk[n] = h]
  BY DEF TakeVirgin
<1> HIDE DEF h
<1> QED
  BY <1>2, <1>3, NewHeader

(* The counters alloc and free end with. *)
Recount(x, n, u, t) == [x EXCEPT !.chk[n].used = u, !.total_used = t]

LEMMA Recounted ==
  ASSUME NEW x \in ChkIndexes, NEW n \in ChkNos, NEW u \in Int, NEW t \in Int
  PROVE  LET y == Recount(x, n, u, t)
         IN  /\ y \in ChkIndexes
             /\ y.chk_num = x.chk_num
             /\ y.free_list = x.free_list
             /\ y.total_used = t
             /\ y.total_free = x.total_free
             /\ y.total_capacity = x.total_capacity
             /\ y.chk[n].used = u
             /\ y.chk[n].alloc_capacity = x.chk[n].alloc_capacity
             /\ \A m \in ChkNos \ {n} : y.chk[m] = x.chk[m]
             /\ \A m \in ChkNos : /\ y.chk[m].virgin = x.chk[m].virgin
                                  /\ y.chk[m].capacity = x.chk[m].capacity
<1> DEFINE h == [x.chk[n] EXCEPT !.used = u]
           z == [x EXCEPT !.chk[n] = h]
           y == Recount(x, n, u, t)
<1>1. x.chk[n] \in ChkMetadata
  BY IndexFields
<1>2. /\ h \in ChkMetadata
      /\ h.virgin = x.chk[n].virgin
      /\ h.capacity = x.chk[n].capacity
      /\ h.used = u
      /\ h.alloc_capacity = x.chk[n].alloc_capacity
  BY <1>1 DEF ChkMetadata
<1>3. y = [z EXCEPT !.total_used = t]
  BY DEF ChkIndexes, Recount
<1> HIDE DEF h
<1>4. /\ z \in ChkIndexes
      /\ z.chk_num = x.chk_num
      /\ z.free_list = x.free_list
      /\ z.total_free = x.total_free
      /\ z.total_capacity = x.total_capacity
      /\ z.chk[n] = h
      /\ \A m \in ChkNos \ {n} : z.chk[m] = x.chk[m]
  BY <1>2, NewHeader
<1> HIDE DEF z, y
<1>5. /\ y \in ChkIndexes
      /\ y.chk_num = z.chk_num
      /\ y.free_list = z.free_list
      /\ y.chk = z.chk
      /\ y.total_used = t
      /\ y.total_free = z.total_free
      /\ y.total_capacity = z.total_capacity
  BY <1>3, <1>4 DEF ChkIndexes
<1> QED
  BY <1>2, <1>4, <1>5 DEF y

LEMMA CountedUsed ==
  ASSUME NEW x \in ChkIndexes, NEW n \in ChkNos, NEW size \in Int
  PROVE  LET y == CountUsed(x, n, size)
         IN  /\ y \in ChkIndexes
             /\ y.chk_num = x.chk_num
             /\ y.free_list = x.free_list
             /\ y.total_used = x.total_used + size
             /\ y.total_free = x.total_free
             /\ y.total_capacity = x.total_capacity
             /\ y.chk[n].used = x.chk[n].used + size
             /\ y.chk[n].alloc_capacity = x.chk[n].alloc_capacity
             /\ \A m \in ChkNos \ {n} : y.chk[m] = x.chk[m]
             /\ \A m \in ChkNos : /\ y.chk[m].virgin = x.chk[m].virgin
                                  /\ y.chk[m].capacity = x.chk[m].capacity
<1> DEFINE u == x.chk[n].used + size
           t == x.total_used + size
<1>1. CountUsed(x, n, size) = Recount(x, n, u, t)
  BY DEF CountUsed, ChkIndexes, Recount
<1>2. u \in Int /\ t \in Int
  <2>1. x.chk[n] \in ChkMetadata
    BY IndexFields
  <2> QED
    BY <2>1 DEF ChkIndexes, ChkMetadata
<1>3. LET y == Recount(x, n, u, t)
      IN  /\ y \in ChkIndexes
          /\ y.chk_num = x.chk_num
          /\ y.free_list = x.free_list
          /\ y.total_used = t
          /\ y.total_free = x.total_free
          /\ y.total_capacity = x.total_capacity
          /\ y.chk[n].used = u
          /\ y.chk[n].alloc_capacity = x.chk[n].alloc_capacity
          /\ \A m \in ChkNos \ {n} : y.chk[m] = x.chk[m]
          /\ \A m \in ChkNos : /\ y.chk[m].virgin = x.chk[m].virgin
                               /\ y.chk[m].capacity = x.chk[m].capacity
  <2> HIDE DEF u, t
  <2> QED
    BY <1>2, Recounted
<1> QED
  BY <1>1, <1>3

(* The pool changes, and with it the free count. *)
Repool(x, lists, f) == [x EXCEPT !.free_list = lists, !.total_free = f]

LEMMA Repooled ==
  ASSUME NEW x \in ChkIndexes, NEW lists \in Lists, NEW f \in Int
  PROVE  LET y == Repool(x, lists, f)
         IN  /\ y \in ChkIndexes
             /\ y.chk_num = x.chk_num
             /\ y.chk = x.chk
             /\ y.free_list = lists
             /\ y.total_used = x.total_used
             /\ y.total_free = f
             /\ y.total_capacity = x.total_capacity
  BY DEF ChkIndexes, Repool

LEMMA Appended ==
  ASSUME NEW x \in ChkIndexes, x.chk_num < MaxChkNum
  PROVE  LET y == AppendChk(x)
         IN  /\ y \in ChkIndexes
             /\ y.chk_num = x.chk_num + 1
             /\ x.chk_num \in ChkNos
             /\ y.free_list = x.free_list
             /\ y.total_used = x.total_used + Overhead(x.chk_num)
             /\ y.total_free = x.total_free
             /\ y.total_capacity = x.total_capacity + MaxCapacity
             /\ y.chk[x.chk_num].virgin = Overhead(x.chk_num)
             /\ y.chk[x.chk_num].capacity = MaxCapacity
             /\ y.chk[x.chk_num].used = Overhead(x.chk_num)
             /\ \A m \in ChkNos \ {x.chk_num} : y.chk[m] = x.chk[m]
<1> DEFINE fresh == FreshChk(x.chk_num, MaxCapacity)
           z == [x EXCEPT !.chk[x.chk_num] = fresh]
           y == [z EXCEPT !.chk_num = @ + 1,
                          !.total_capacity = @ + MaxCapacity,
                          !.total_used = @ + fresh.used]
<1>1. /\ x.chk_num \in Nat /\ x.chk_num \in ChkNos
      /\ x.chk_num + 1 \in 0 .. MaxChkNum
  BY IndexFields, LayoutAssumption DEF ChkNos
<1>2. /\ fresh \in ChkMetadata
      /\ fresh.virgin = Overhead(x.chk_num)
      /\ fresh.capacity = MaxCapacity
      /\ fresh.used = Overhead(x.chk_num)
      /\ fresh.used \in Int
  <2>1. MaxCapacity \in 0 .. MaxCapacity /\ MaxCapacity \in Nat
    BY Layout
  <2>2. Overhead(x.chk_num) \in Nat
    BY <1>1, Layout
  <2> QED
    BY <2>1, <2>2 DEF FreshChk, ChkMetadata
<1>3. AppendChk(x) = y
  BY DEF AppendChk, ChkIndexes
<1> HIDE DEF fresh
<1>4. /\ z \in ChkIndexes
      /\ z.chk_num = x.chk_num
      /\ z.free_list = x.free_list
      /\ z.total_used = x.total_used
      /\ z.total_free = x.total_free
      /\ z.total_capacity = x.total_capacity
      /\ z.chk[x.chk_num] = fresh
      /\ \A m \in ChkNos \ {x.chk_num} : z.chk[m] = x.chk[m]
  BY <1>1, <1>2, NewHeader
<1> HIDE DEF z
<1>5. /\ z.total_capacity + MaxCapacity \in Int
      /\ z.total_used + fresh.used \in Int
      /\ z.chk_num + 1 \in 0 .. MaxChkNum
  BY <1>1, <1>2, <1>4, Layout DEF ChkIndexes
<1>6. /\ y \in ChkIndexes
      /\ y.chk_num = x.chk_num + 1
      /\ y.free_list = z.free_list
      /\ y.chk = z.chk
      /\ y.total_used = z.total_used + fresh.used
      /\ y.total_free = z.total_free
      /\ y.total_capacity = z.total_capacity + MaxCapacity
  <2> DEFINE n == z.chk_num + 1
             c == z.total_capacity + MaxCapacity
             u == z.total_used + fresh.used
  <2>1. y = [z EXCEPT !.chk_num = n, !.total_capacity = c, !.total_used = u]
    OBVIOUS
  <2>2. n \in 0 .. MaxChkNum /\ c \in Int /\ u \in Int
    BY <1>5
  <2>3. n = x.chk_num + 1
    BY <1>4
  <2> HIDE DEF n, c, u, y
  <2>4. /\ y \in ChkIndexes
        /\ y.chk_num = x.chk_num + 1
        /\ y.free_list = z.free_list
        /\ y.chk = z.chk
        /\ y.total_used = u
        /\ y.total_free = z.total_free
        /\ y.total_capacity = c
    BY <1>4, <2>1, <2>2, <2>3 DEF ChkIndexes
  <2> QED
    BY <2>4 DEF u, c
<1> HIDE DEF y
<1> QED
  BY <1>1, <1>2, <1>3, <1>4, <1>6
---------------------------------------------------------------------------
(* The inductive invariant, as a property of an index and of the blocks    *)
(* that are held, so that it can be carried through the operators alloc    *)
(* and free are composed of.                                               *)

GoodIndex(x) ==
  /\ x \in ChkIndexes
  /\ \A n \in ChkNos : n < x.chk_num =>
       /\ Overhead(n) <= x.chk[n].virgin
       /\ x.chk[n].virgin <= Units(x.chk[n].capacity)
  /\ \A i \in Classes : \A k \in DOMAIN x.free_list[i] :
       Inside(x, x.free_list[i][k], FreeSizes[i])
  /\ Apart(x.free_list)

GoodLive(x, held) ==
  /\ held \subseteq LiveBlocks
  /\ \A b \in held :
       /\ b.size = AlignedSize(b.bytes)
       /\ b.size <= MaxContinus
       /\ Inside(x, b, b.size)
       /\ OffPool(x.free_list, b, b.size)
  /\ \A b, c \in held : b # c => Disjoint(b, b.size, c, c.size)

Good(x, held) == GoodIndex(x) /\ GoodLive(x, held)

LEMMA LiveTypes ==
  ASSUME NEW b \in LiveBlocks
  PROVE  b.no \in ChkNos /\ b.off \in Nat /\ b.size \in Nat \ {0}
  BY DEF LiveBlocks

LEMMA PoolTypes ==
  ASSUME NEW lists \in Lists, NEW i \in Classes, NEW k \in DOMAIN lists[i]
  PROVE  /\ lists[i][k] \in Blocks
         /\ lists[i][k].no \in ChkNos
         /\ lists[i][k].off \in Nat
         /\ FreeSizes[i] \in Nat \ {0}
<1>1. lists[i] \in Seq(Blocks)
  BY DEF Lists
<1>2. lists[i][k] \in Blocks
  BY <1>1
<1> QED
  BY <1>2, FreeSizesPos DEF Blocks

(* The virgin marks and capacities of two indexes are the same. *)
SameMarks(x, y) ==
  /\ y.chk_num = x.chk_num
  /\ \A n \in ChkNos : /\ y.chk[n].virgin = x.chk[n].virgin
                       /\ y.chk[n].capacity = x.chk[n].capacity

LEMMA InsideSame ==
  ASSUME NEW x, NEW y, SameMarks(x, y),
         NEW b, b.no \in ChkNos, NEW size, Inside(x, b, size)
  PROVE  Inside(y, b, size)
  BY DEF SameMarks, Inside

(* Counters do not matter. *)
LEMMA GoodSame ==
  ASSUME NEW x, NEW y \in ChkIndexes, NEW held, Good(x, held),
         SameMarks(x, y), y.free_list = x.free_list
  PROVE  Good(y, held)
<1>1. x \in ChkIndexes /\ x.free_list \in Lists
  BY IndexFields DEF Good, GoodIndex
<1>2. ASSUME NEW i \in Classes, NEW k \in DOMAIN y.free_list[i]
      PROVE  Inside(y, y.free_list[i][k], FreeSizes[i])
  <2>1. k \in DOMAIN x.free_list[i]
    OBVIOUS
  <2>2. x.free_list[i][k].no \in ChkNos
    BY <1>1, <2>1, PoolTypes
  <2>3. Inside(x, x.free_list[i][k], FreeSizes[i])
    BY <2>1 DEF Good, GoodIndex
  <2> QED
    BY <2>2, <2>3, InsideSame
<1>3. GoodIndex(y)
  BY <1>2 DEF Good, GoodIndex, SameMarks
<1>4. ASSUME NEW b \in held
      PROVE  Inside(y, b, b.size)
  BY LiveTypes, InsideSame DEF Good, GoodLive
<1> QED
  BY <1>3, <1>4 DEF Good, GoodLive

(* The chunks of x have the same capacities in y: none of them moved. *)
KeepsCaps(x, y) ==
  \A n \in ChkNos :
    n < x.chk_num => y.chk[n].capacity = x.chk[n].capacity

(* A region that is apart from the pool goes to the pool. *)
LEMMA GoodPooled ==
  ASSUME NEW x, NEW y \in ChkIndexes, GoodIndex(x), SameMarks(x, y),
         NEW b \in Blocks, NEW size \in Nat,
         Inside(x, b, size), OffPool(x.free_list, b, size),
         y.free_list = PoolFree(FreeSizes, x.free_list, b, size)
  PROVE  /\ GoodIndex(y)
         /\ \A held : /\ GoodLive(x, held)
                      /\ \A c \in held : Disjoint(b, size, c, c.size)
                     => GoodLive(y, held)
<1>1. /\ x \in ChkIndexes /\ x.free_list \in Lists
      /\ y.free_list \in Lists
  BY IndexFields DEF GoodIndex
<1>2. b.no \in ChkNos /\ b.off \in Nat
  BY DEF Blocks
<1>3. /\ Derived(y.free_list, x.free_list, b, size)
      /\ Apart(y.free_list)
  BY <1>1, PoolFreed DEF GoodIndex
<1>4. ASSUME NEW i \in Classes, NEW k \in DOMAIN y.free_list[i]
      PROVE  Inside(y, y.free_list[i][k], FreeSizes[i])
  <2> DEFINE c == y.free_list[i][k]
  <2>1. c.no \in ChkNos /\ c.off \in Nat /\ FreeSizes[i] \in Nat
    BY <1>1, PoolTypes
  <2>2. Inside(x, c, FreeSizes[i])
    <3>1. CASE Within(c, FreeSizes[i], b, size)
      <4> HIDE DEF c
      <4>1. /\ Overhead(b.no) \in Nat
            /\ x.chk[b.no].virgin \in Nat
        BY <1>1, <1>2, Layout, IndexFields
      <4>2. c.no = b.no /\ b.off <= c.off
            /\ c.off + FreeSizes[i] <= b.off + size
        BY <3>1 DEF Within, End
      <4>3. /\ b.no < x.chk_num /\ Overhead(b.no) <= b.off
            /\ b.off + size <= x.chk[b.no].virgin
        BY DEF Inside, End
      <4> QED
        BY <4>1, <4>2, <4>3, <2>1, <1>2 DEF Inside, End
    <3>2. CASE \E l \in DOMAIN x.free_list[i] : c = x.free_list[i][l]
      BY <3>2 DEF GoodIndex
    <3> QED
      BY <3>1, <3>2, <1>3 DEF Derived
  <2> QED
    BY <2>1, <2>2, InsideSame
<1>5. GoodIndex(y)
  BY <1>3, <1>4 DEF GoodIndex, SameMarks
<1>6. ASSUME NEW held, GoodLive(x, held),
             \A c \in held : Disjoint(b, size, c, c.size)
      PROVE  GoodLive(y, held)
  <2>1. ASSUME NEW c \in held
        PROVE  Inside(y, c, c.size) /\ OffPool(y.free_list, c, c.size)
    <3>1. /\ c.no \in ChkNos /\ c.off \in Nat /\ c.size \in Nat
          /\ Inside(x, c, c.size) /\ OffPool(x.free_list, c, c.size)
      BY <1>6, LiveTypes DEF GoodLive
    <3>2. Disjoint(b, size, c, c.size)
      BY <1>6
    <3> QED
      BY <3>1, <3>2, <1>1, <1>2, <1>3, InsideSame, OffDerived
  <2> QED
    BY <2>1, <1>6 DEF GoodLive
<1> QED
  BY <1>5, <1>6

(* A block cut from the virgin part of a chunk. *)
LEMMA GoodRaised ==
  ASSUME NEW x, NEW held, Good(x, held),
         NEW n \in ChkNos, n < x.chk_num, NEW size \in Nat,
         x.chk[n].virgin + size <= Units(x.chk[n].capacity)
  PROVE  LET y == TakeVirgin(x, n, size)
             b == VirginBlock(x, n)
         IN  /\ Good(y, held)
             /\ b \in Blocks
             /\ Inside(y, b, size)
             /\ OffPool(y.free_list, b, size)
             /\ \A c \in held : Disjoint(b, size, c, c.size)
<1> DEFINE y == TakeVirgin(x, n, size)
           b == VirginBlock(x, n)
<1>1. x \in ChkIndexes /\ x.free_list \in Lists
  BY IndexFields DEF Good, GoodIndex
<1>2. /\ x.chk[n].virgin \in Nat
      /\ x.chk[n].virgin + size \in Nat
  BY <1>1, IndexFields
<1>3. /\ y \in ChkIndexes
      /\ y.chk_num = x.chk_num
      /\ y.free_list = x.free_list
      /\ y.chk[n].virgin = x.chk[n].virgin + size
      /\ y.chk[n].capacity = x.chk[n].capacity
      /\ \A m \in ChkNos \ {n} : y.chk[m] = x.chk[m]
  BY <1>1, <1>2, TakenVirgin
<1>4. b.no = n /\ b.off = x.chk[n].virgin /\ b \in Blocks
  BY <1>2 DEF VirginBlock, Blocks
<1> HIDE DEF y, b
<1>5. Overhead(n) \in Nat /\ Overhead(n) <= x.chk[n].virgin
  BY Layout DEF Good, GoodIndex
<1>6. ASSUME NEW c, c.no \in ChkNos, c.off \in Nat, NEW csize \in Nat,
             Inside(x, c, csize)
      PROVE  Inside(y, c, csize) /\ Disjoint(b, size, c, csize)
  <2>1. /\ c.no < x.chk_num /\ Overhead(c.no) <= c.off
        /\ c.off + csize <= x.chk[c.no].virgin
    BY <1>6 DEF Inside, End
  <2>2. CASE c.no = n
    BY <2>1, <2>2, <1>2, <1>3, <1>4, <1>6 DEF Inside, Disjoint, End
  <2>3. CASE c.no # n
    BY <2>1, <2>3, <1>3, <1>4, <1>6 DEF Inside, Disjoint, End
  <2> QED
    BY <2>2, <2>3
<1>7. ASSUME NEW i \in Classes, NEW k \in DOMAIN x.free_list[i]
      PROVE  /\ Inside(y, x.free_list[i][k], FreeSizes[i])
             /\ Disjoint(b, size, x.free_list[i][k], FreeSizes[i])
  BY <1>1, <1>6, PoolTypes DEF Good, GoodIndex
<1>8. ASSUME NEW c \in held
      PROVE  Inside(y, c, c.size) /\ Disjoint(b, size, c, c.size)
  BY <1>6, LiveTypes DEF Good, GoodLive
<1>9. ASSUME NEW m \in ChkNos, m < y.chk_num
      PROVE  /\ Overhead(m) <= y.chk[m].virgin
             /\ y.chk[m].virgin <= Units(y.chk[m].capacity)
  <2>1. CASE m = n
    BY <2>1, <1>2, <1>3, <1>5
  <2>2. CASE m # n
    BY <2>2, <1>3, <1>9 DEF Good, GoodIndex
  <2> QED
    BY <2>1, <2>2
<1>10. GoodIndex(y)
  BY <1>3, <1>7, <1>9 DEF GoodIndex, Good
<1>11. GoodLive(y, held)
  BY <1>3, <1>8 DEF GoodLive, Good
<1>12. Inside(y, b, size)
  BY <1>2, <1>3, <1>4, <1>5 DEF Inside, End
<1>13. OffPool(y.free_list, b, size)
  BY <1>3, <1>7 DEF OffPool
<1> QED
  BY <1>4, <1>8, <1>10, <1>11, <1>12, <1>13 DEF y, b, Good

(* A chunk is appended: the blocks there are lie in other chunks. *)
LEMMA GoodAppended ==
  ASSUME NEW x, NEW held, Good(x, held), x.chk_num < MaxChkNum
  PROVE  Good(AppendChk(x), held)
<1> DEFINE y == AppendChk(x)
           n == x.chk_num
<1>1. x \in ChkIndexes /\ n \in Nat /\ x.free_list \in Lists
  BY IndexFields DEF Good, GoodIndex
<1>2. /\ y \in ChkIndexes
      /\ y.chk_num = n + 1
      /\ n \in ChkNos
      /\ y.free_list = x.free_list
      /\ y.chk[n].virgin = Overhead(n)
      /\ y.chk[n].capacity = MaxCapacity
      /\ \A m \in ChkNos \ {n} : y.chk[m] = x.chk[m]
  BY <1>1, Appended
<1> HIDE DEF y, n
<1>3. ASSUME NEW c, c.no \in ChkNos, NEW csize, Inside(x, c, csize)
      PROVE  Inside(y, c, csize)
  <2>1. c.no \in Nat /\ c.no < n
    BY <1>3 DEF Inside, ChkNos, n
  <2>2. c.no # n /\ c.no < n + 1
    BY <2>1, <1>1
  <2> QED
    BY <2>2, <1>2, <1>3 DEF Inside
<1>4. ASSUME NEW i \in Classes, NEW k \in DOMAIN x.free_list[i]
      PROVE  Inside(y, x.free_list[i][k], FreeSizes[i])
  BY <1>1, <1>3, PoolTypes DEF Good, GoodIndex
<1>5. ASSUME NEW c \in held
      PROVE  Inside(y, c, c.size)
  BY <1>3, LiveTypes DEF Good, GoodLive
<1>6. ASSUME NEW m \in ChkNos, m < y.chk_num
      PROVE  /\ Overhead(m) <= y.chk[m].virgin
             /\ y.chk[m].virgin <= Units(y.chk[m].capacity)
  <2>1. /\ Overhead(m) \in Nat /\ MaxContinus \in Nat
        /\ Overhead(m) + MaxContinus <= Units(MaxCapacity)
        /\ Units(MaxCapacity) \in Nat
    BY Layout, LayoutAssumption
  <2>2. CASE m = n
    BY <2>1, <2>2, <1>2
  <2>3. CASE m # n
    <3>1. m < x.chk_num
      BY <2>3, <1>1, <1>2, <1>6 DEF ChkNos, n
    <3> QED
      BY <3>1, <2>3, <1>2 DEF Good, GoodIndex
  <2> QED
    BY <2>2, <2>3
<1> QED
  BY <1>2, <1>4, <1>5, <1>6 DEF Good, GoodIndex, GoodLive, y

(* The rest of a chunk goes to the pool. *)
LEMMA GoodCollected ==
  ASSUME NEW x, NEW held, Good(x, held), NEW n \in ChkNos, n < x.chk_num
  PROVE  LET y == Collect(x, n)
         IN  /\ Good(y, held)
             /\ y.chk_num = x.chk_num
             /\ \A m \in ChkNos \ {n} : y.chk[m] = x.chk[m]
             /\ KeepsCaps(x, y)
<1> DEFINE size == Rest(x, n)
           b == VirginBlock(x, n)
           z == TakeVirgin(x, n, size)
           lists == PoolFree(FreeSizes, z.free_list, b, size)
           y == Repool(z, lists, z.total_free + size)
<1>1. x \in ChkIndexes
  BY DEF Good, GoodIndex
<1>2. /\ x.chk[n].virgin \in Nat
      /\ Units(x.chk[n].capacity) \in Nat
      /\ x.chk[n].virgin <= Units(x.chk[n].capacity)
  BY <1>1, IndexFields, Layout DEF Good, GoodIndex
<1>3. /\ size \in Nat
      /\ x.chk[n].virgin + size <= Units(x.chk[n].capacity)
      /\ x.chk[n].virgin + size \in Nat
  BY <1>2 DEF Rest
<1> HIDE DEF size
<1>4. /\ Good(z, held)
      /\ b \in Blocks
      /\ Inside(z, b, size)
      /\ OffPool(z.free_list, b, size)
      /\ \A c \in held : Disjoint(b, size, c, c.size)
  BY <1>3, GoodRaised
<1>5. /\ z \in ChkIndexes
      /\ z.free_list = x.free_list
      /\ z.chk_num = x.chk_num
      /\ z.total_free = x.total_free
      /\ \A m \in ChkNos \ {n} : z.chk[m] = x.chk[m]
      /\ z.chk[n].capacity = x.chk[n].capacity
  BY <1>1, <1>3, TakenVirgin
<1>6. CASE size = 0
  BY <1>6 DEF Collect, KeepsCaps, size
<1>7. CASE size # 0
  <2>1. Collect(x, n) = y
    BY <1>5, <1>7 DEF Collect, Repool, size
  <2> HIDE DEF b, z
  <2>2. lists \in Lists
    BY <1>3, <1>4, <1>5, IndexFields, PoolFreed
  <2> HIDE DEF lists
  <2>3. z.total_free + size \in Int
    BY <1>3, <1>5 DEF ChkIndexes
  <2>4. /\ y \in ChkIndexes
        /\ y.chk_num = z.chk_num
        /\ y.chk = z.chk
        /\ y.free_list = lists
    BY <2>2, <2>3, <1>5, Repooled
  <2> HIDE DEF y
  <2>5. SameMarks(z, y)
    BY <2>4 DEF SameMarks
  <2>6. Good(y, held)
    BY <1>3, <1>4, <2>4, <2>5, GoodPooled DEF Good, lists
  <2> QED
    BY <2>1, <2>4, <2>6, <1>5 DEF KeepsCaps
<1> QED
  BY <1>6, <1>7
---------------------------------------------------------------------------
(* What alloc hands out, and what it leaves.                               *)

LEMMA RequestSize ==
  ASSUME NEW bytes \in Requests
  PROVE  AlignedSize(bytes) \in Nat \ {0}
<1>1. bytes \in Nat \ {0}
  BY HeapAssumption
<1> QED
  BY <1>1 DEF AlignedSize

(* A block that is apart from everything is handed to a caller. *)
LEMMA GoodHanded ==
  ASSUME NEW x, NEW held, Good(x, held),
         NEW b \in Blocks, NEW bytes \in Requests,
         AlignedSize(bytes) <= MaxContinus,
         Inside(x, b, AlignedSize(bytes)),
         OffPool(x.free_list, b, AlignedSize(bytes)),
         \A c \in held : Disjoint(b, AlignedSize(bytes), c, c.size)
  PROVE  /\ Good(x, held \cup {Handed(b, bytes)})
         /\ Handed(b, bytes) \notin held
<1> DEFINE h == Handed(b, bytes)
           size == AlignedSize(bytes)
<1>1. /\ h \in LiveBlocks
      /\ h.no = b.no /\ h.off = b.off /\ h.size = size /\ h.bytes = bytes
  BY RequestSize DEF Handed, LiveBlocks, Blocks
<1> HIDE DEF h, size
<1>2. Inside(x, h, h.size) /\ OffPool(x.free_list, h, h.size)
  BY <1>1 DEF Inside, OffPool, Disjoint, End, size
<1>3. ASSUME NEW c \in held
      PROVE  Disjoint(h, h.size, c, c.size) /\ Disjoint(c, c.size, h, h.size)
  BY <1>1, <1>3 DEF Disjoint, End, size
<1>4. h \notin held
  <2> SUFFICES ASSUME h \in held
               PROVE  FALSE
    OBVIOUS
  <2>1. h.off \in Nat /\ h.size \in Nat \ {0}
    BY <1>1, LiveTypes
  <2> QED
    BY <2>1, <1>3 DEF Disjoint, End
<1> QED
  BY <1>1, <1>2, <1>3, <1>4 DEF Good, GoodLive, h, size

LEMMA GoodFromVirgin ==
  ASSUME NEW x, NEW held, Good(x, held), x.chk_num > 0,
         NEW bytes \in Requests, AlignedSize(bytes) <= MaxContinus,
         Fits(LastChk(x), AlignedSize(bytes))
  PROVE  /\ Good(FromVirgin(x, AlignedSize(bytes)),
                 held \cup {Handed(VirginBlock(x, LastNo(x)), bytes)})
         /\ Handed(VirginBlock(x, LastNo(x)), bytes) \notin held
         /\ FromVirgin(x, AlignedSize(bytes)).chk_num = x.chk_num
         /\ KeepsCaps(x, FromVirgin(x, AlignedSize(bytes)))
<1> DEFINE n == LastNo(x)
           size == AlignedSize(bytes)
           y == TakeVirgin(x, n, size)
           z == CountUsed(y, n, size)
           b == VirginBlock(x, n)
<1>1. x \in ChkIndexes /\ x.chk_num \in Nat
  BY IndexFields DEF Good, GoodIndex
<1>2. n \in ChkNos /\ n < x.chk_num
  <2>1. n \in Nat /\ n < x.chk_num
    BY <1>1 DEF LastNo
  <2> QED
    BY <2>1, <1>1, IndexFields
<1>3. size \in Nat
  BY RequestSize
<1>4. x.chk[n].virgin + size <= Units(x.chk[n].capacity)
  BY DEF Fits, LastChk
<1>5. FromVirgin(x, size) = z
  BY DEF FromVirgin
<1> HIDE DEF n, size
<1>6. /\ Good(y, held)
      /\ b \in Blocks
      /\ Inside(y, b, size)
      /\ OffPool(y.free_list, b, size)
      /\ \A c \in held : Disjoint(b, size, c, c.size)
  BY <1>2, <1>3, <1>4, GoodRaised
<1> HIDE DEF b
<1>7. Good(y, held \cup {Handed(b, bytes)}) /\ Handed(b, bytes) \notin held
  BY <1>6, GoodHanded DEF size
<1>8. y \in ChkIndexes /\ y.chk_num = x.chk_num /\ KeepsCaps(x, y)
  <2>1. x.chk[n].virgin + size \in Nat /\ size \in Int
    BY <1>1, <1>2, <1>3, IndexFields
  <2> QED
    BY <1>1, <1>2, <2>1, TakenVirgin DEF KeepsCaps
<1> HIDE DEF y
<1>9. /\ z \in ChkIndexes
      /\ z.chk_num = y.chk_num
      /\ z.free_list = y.free_list
      /\ SameMarks(y, z)
  BY <1>2, <1>3, <1>8, CountedUsed DEF SameMarks
<1> HIDE DEF z
<1>10. Good(z, held \cup {Handed(b, bytes)})
  BY <1>7, <1>9, GoodSame
<1>11. KeepsCaps(x, z)
  BY <1>8, <1>9 DEF KeepsCaps, SameMarks
<1> QED
  BY <1>5, <1>7, <1>8, <1>9, <1>10, <1>11 DEF b, n, size

LEMMA GoodFromPool ==
  ASSUME NEW x, NEW held, Good(x, held),
         NEW bytes \in Requests, AlignedSize(bytes) <= MaxContinus,
         InPool(x, AlignedSize(bytes))
  PROVE  /\ Good(FromPool(x, AlignedSize(bytes)),
                 held \cup {Handed(PoolTaken(FreeSizes, x.free_list,
                                             AlignedSize(bytes)), bytes)})
         /\ Handed(PoolTaken(FreeSizes, x.free_list, AlignedSize(bytes)), bytes)
              \notin held
         /\ FromPool(x, AlignedSize(bytes)).chk_num = x.chk_num
         /\ KeepsCaps(x, FromPool(x, AlignedSize(bytes)))
<1> DEFINE size == AlignedSize(bytes)
           lists == x.free_list
           i == Served(FreeSizes, lists, size)
           b == PoolTaken(FreeSizes, lists, size)
           new == PoolAlloc(FreeSizes, lists, size)
           t == x.total_free - size
           y == Repool(x, new, t)
           z == CountUsed(y, b.no, size)
<1>1. x \in ChkIndexes /\ lists \in Lists /\ x.chk_num \in Nat
  BY IndexFields DEF Good, GoodIndex
<1>2. size \in Nat \ {0}
  BY RequestSize
<1>3. FromPool(x, size) = z
  BY <1>1 DEF FromPool, Repool, ChkIndexes
<1>4. Serving(FreeSizes, lists, size) # {}
  BY DEF InPool
<1>5. t \in Int
  BY <1>1, <1>2 DEF ChkIndexes
<1>6. Apart(lists)
  BY DEF Good, GoodIndex
<1> HIDE DEF size, lists, t
<1>7. /\ i \in Classes
      /\ size <= FreeSizes[i]
      /\ 1 \in DOMAIN lists[i]
      /\ b = lists[i][1]
      /\ b \in Blocks
      /\ new \in Lists
      /\ Apart(new)
      /\ OffPool(new, b, size)
      /\ Derived(new, lists, b, FreeSizes[i])
  BY <1>1, <1>2, <1>4, <1>6, PoolServed
<1> HIDE DEF i, b, new
<1>8. b.no \in ChkNos /\ b.off \in Nat /\ FreeSizes[i] \in Nat
  BY <1>7, FreeSizesPos DEF Blocks
<1>9. /\ y \in ChkIndexes
      /\ y.chk_num = x.chk_num
      /\ y.free_list = new
      /\ y.chk = x.chk
  BY <1>1, <1>5, <1>7, Repooled
<1> HIDE DEF y
<1>10. Inside(x, b, FreeSizes[i])
  BY <1>7 DEF Good, GoodIndex, lists
<1>11. ASSUME NEW j \in Classes, NEW k \in DOMAIN new[j]
       PROVE  Inside(y, new[j][k], FreeSizes[j])
  <2> DEFINE c == new[j][k]
  <2>1. c.no \in ChkNos /\ c.off \in Nat /\ FreeSizes[j] \in Nat
    BY <1>7, PoolTypes
  <2>2. Inside(x, c, FreeSizes[j])
    <3>1. CASE Within(c, FreeSizes[j], b, FreeSizes[i])
      <4> HIDE DEF c
      <4>1. /\ Overhead(b.no) \in Nat
            /\ x.chk[b.no].virgin \in Nat
        BY <1>1, <1>8, Layout, IndexFields
      <4>2. c.no = b.no /\ b.off <= c.off
            /\ c.off + FreeSizes[j] <= b.off + FreeSizes[i]
        BY <3>1 DEF Within, End
      <4>3. /\ b.no < x.chk_num /\ Overhead(b.no) <= b.off
            /\ b.off + FreeSizes[i] <= x.chk[b.no].virgin
        BY <1>10 DEF Inside, End
      <4> QED
        BY <4>1, <4>2, <4>3, <2>1, <1>8 DEF Inside, End
    <3>2. CASE \E l \in DOMAIN lists[j] : c = lists[j][l]
      BY <3>2 DEF Good, GoodIndex, lists
    <3> QED
      BY <3>1, <3>2, <1>7 DEF Derived
  <2> QED
    BY <2>2, <1>9 DEF Inside
<1>12. GoodIndex(y)
  BY <1>7, <1>9, <1>11 DEF Good, GoodIndex
<1>13. ASSUME NEW c \in held
       PROVE  /\ Inside(y, c, c.size)
              /\ OffPool(new, c, c.size)
              /\ Disjoint(b, size, c, c.size)
  <2>1. /\ c.no \in ChkNos /\ c.off \in Nat /\ c.size \in Nat
        /\ Inside(x, c, c.size) /\ OffPool(lists, c, c.size)
    BY LiveTypes DEF Good, GoodLive, lists
  <2>2. Disjoint(b, FreeSizes[i], c, c.size)
    BY <2>1, <1>7 DEF OffPool, Disjoint
  <2>3. OffPool(new, c, c.size)
    BY <2>1, <2>2, <1>1, <1>7, <1>8, OffDerived
  <2>4. Disjoint(b, size, c, c.size)
    BY <2>1, <2>2, <1>2, <1>7, <1>8 DEF Disjoint, End
  <2> QED
    BY <2>1, <2>3, <2>4, <1>9 DEF Inside
<1>14. Good(y, held)
  BY <1>9, <1>12, <1>13 DEF Good, GoodLive
<1>15. Inside(y, b, size)
  <2>1. x.chk[b.no].virgin \in Nat /\ Overhead(b.no) \in Nat
    BY <1>1, <1>8, Layout, IndexFields
  <2> QED
    BY <2>1, <1>2, <1>7, <1>8, <1>9, <1>10 DEF Inside, End
<1>16. Good(y, held \cup {Handed(b, bytes)}) /\ Handed(b, bytes) \notin held
  BY <1>7, <1>9, <1>13, <1>14, <1>15, GoodHanded DEF size
<1>17. /\ z \in ChkIndexes
       /\ z.chk_num = y.chk_num
       /\ z.free_list = y.free_list
       /\ SameMarks(y, z)
  <2>1. size \in Int /\ b.no \in ChkNos /\ y \in ChkIndexes
    BY <1>2, <1>8, <1>9
  <2> QED
    BY <2>1, CountedUsed DEF SameMarks
<1> HIDE DEF z
<1>18. Good(z, held \cup {Handed(b, bytes)})
  BY <1>16, <1>17, GoodSame
<1>19. KeepsCaps(x, z)
  BY <1>9, <1>17 DEF KeepsCaps, SameMarks
<1> QED
  BY <1>3, <1>9, <1>16, <1>17, <1>18, <1>19 DEF b, lists, size
---------------------------------------------------------------------------
(* free, enlarge and shrink.                                               *)

(* A block that ends at the virgin mark is freed: every other block of its *)
(* chunk ends at or before its start.                                      *)
LEMMA GoodLowered ==
  ASSUME NEW x, NEW held, Good(x, held), NEW b \in held,
         AtVirgin(x, b, b.size)
  PROVE  LET y == TakeVirgin(x, b.no, -b.size)
         IN  Good(y, held \ {b}) /\ y.chk_num = x.chk_num /\ KeepsCaps(x, y)
<1> DEFINE n == b.no
           y == TakeVirgin(x, n, -b.size)
<1>1. x \in ChkIndexes /\ x.free_list \in Lists
  BY IndexFields DEF Good, GoodIndex
<1>2. n \in ChkNos /\ b.off \in Nat /\ b.size \in Nat \ {0}
  BY LiveTypes DEF Good, GoodLive
<1>3. /\ x.chk[n].virgin = b.off + b.size
      /\ Overhead(n) <= b.off /\ n < x.chk_num
      /\ x.chk[n].virgin <= Units(x.chk[n].capacity)
  BY <1>2 DEF Good, GoodLive, GoodIndex, Inside, AtVirgin, End
<1>4. Overhead(n) \in Nat /\ Units(x.chk[n].capacity) \in Nat
  BY <1>1, <1>2, Layout, IndexFields
<1> HIDE DEF n
<1>5. /\ y \in ChkIndexes
      /\ y.chk_num = x.chk_num
      /\ y.free_list = x.free_list
      /\ y.chk[n].virgin = b.off
      /\ y.chk[n].capacity = x.chk[n].capacity
      /\ \A m \in ChkNos \ {n} : y.chk[m] = x.chk[m]
  <2>1. -b.size \in Int /\ x.chk[n].virgin + (-b.size) = b.off
    BY <1>2, <1>3
  <2> QED
    BY <2>1, <1>1, <1>2, TakenVirgin
<1> HIDE DEF y
<1>6. ASSUME NEW c, c.no \in ChkNos, c.off \in Nat, NEW csize \in Nat \ {0},
             Inside(x, c, csize), Disjoint(b, b.size, c, csize)
      PROVE  Inside(y, c, csize)
  <2>1. /\ c.no < x.chk_num /\ Overhead(c.no) <= c.off
        /\ c.off + csize <= x.chk[c.no].virgin
    BY <1>6 DEF Inside, End
  <2>2. CASE c.no = n
    <3>1. b.off + b.size <= c.off \/ c.off + csize <= b.off
      BY <2>2, <1>6 DEF Disjoint, End, n
    <3>2. c.off + csize <= b.off
      BY <3>1, <2>1, <2>2, <1>2, <1>3, <1>6
    <3> QED
      BY <3>2, <2>1, <2>2, <1>5 DEF Inside, End
  <2>3. CASE c.no # n
    BY <2>1, <2>3, <1>5, <1>6 DEF Inside, End
  <2> QED
    BY <2>2, <2>3
<1>7. ASSUME NEW i \in Classes, NEW k \in DOMAIN x.free_list[i]
      PROVE  Inside(y, x.free_list[i][k], FreeSizes[i])
  <2>1. /\ Inside(x, x.free_list[i][k], FreeSizes[i])
        /\ Disjoint(b, b.size, x.free_list[i][k], FreeSizes[i])
    BY DEF Good, GoodIndex, GoodLive, OffPool
  <2> QED
    BY <2>1, <1>1, <1>6, PoolTypes
<1>8. ASSUME NEW c \in held \ {b}
      PROVE  Inside(y, c, c.size)
  <2>1. Inside(x, c, c.size) /\ Disjoint(b, b.size, c, c.size)
    BY DEF Good, GoodLive
  <2>2. c.no \in ChkNos /\ c.off \in Nat /\ c.size \in Nat \ {0}
    BY LiveTypes DEF Good, GoodLive
  <2> QED
    BY <2>1, <2>2, <1>6
<1>9. ASSUME NEW m \in ChkNos, m < y.chk_num
      PROVE  /\ Overhead(m) <= y.chk[m].virgin
             /\ y.chk[m].virgin <= Units(y.chk[m].capacity)
  <2>1. CASE m = n
    BY <2>1, <1>2, <1>3, <1>4, <1>5
  <2>2. CASE m # n
    BY <2>2, <1>5, <1>9 DEF Good, GoodIndex
  <2> QED
    BY <2>1, <2>2
<1>10. GoodIndex(y)
  BY <1>5, <1>7, <1>9 DEF GoodIndex, Good
<1>11. GoodLive(y, held \ {b})
  BY <1>5, <1>8 DEF GoodLive, Good
<1>12. KeepsCaps(x, y)
  BY <1>5 DEF KeepsCaps
<1> QED
  BY <1>5, <1>10, <1>11, <1>12 DEF Good, n, y

LEMMA GoodFreed ==
  ASSUME NEW x, NEW held, Good(x, held), NEW b \in held
  PROVE  /\ Good(Freed(x, b, b.size), held \ {b})
         /\ Freed(x, b, b.size).chk_num = x.chk_num
         /\ KeepsCaps(x, Freed(x, b, b.size))
<1> DEFINE low == TakeVirgin(x, b.no, -b.size)
           lists == PoolFree(FreeSizes, x.free_list, b, b.size)
           f == x.total_free + b.size
           y == IF AtVirgin(x, b, b.size) THEN low ELSE Repool(x, lists, f)
           u == y.chk[b.no].used - b.size
           t == y.total_used - b.size
           z == Recount(y, b.no, u, t)
           less == held \ {b}
<1>1. x \in ChkIndexes /\ x.free_list \in Lists
  BY IndexFields DEF Good, GoodIndex
<1>2. b.no \in ChkNos /\ b.off \in Nat /\ b.size \in Nat \ {0}
  BY LiveTypes DEF Good, GoodLive
<1>3. Good(y, less) /\ y.chk_num = x.chk_num /\ KeepsCaps(x, y)
  <2>1. CASE AtVirgin(x, b, b.size)
    BY <2>1, GoodLowered
  <2>2. CASE ~AtVirgin(x, b, b.size)
    <3> DEFINE d == [no |-> b.no, off |-> b.off]
               w == Repool(x, lists, f)
    <3>1. d \in Blocks /\ b.size \in Nat
      BY <1>2 DEF Blocks
    <3>2. lists = PoolFree(FreeSizes, x.free_list, d, b.size)
      BY DEF PoolFree, Carved
    <3>3. Inside(x, d, b.size) /\ OffPool(x.free_list, d, b.size)
      BY DEF Good, GoodLive, Inside, OffPool, Disjoint, End
    <3>4. \A c \in less : Disjoint(d, b.size, c, c.size)
      BY DEF Good, GoodLive, Disjoint, End
    <3>5. GoodIndex(x) /\ GoodLive(x, less)
      BY DEF Good, GoodLive
    <3> HIDE DEF d, lists
    <3>6. lists \in Lists
      BY <3>1, <3>2, <1>1, PoolFreed
    <3>7. f \in Int
      BY <1>1, <1>2 DEF ChkIndexes
    <3> HIDE DEF f, less
    <3>8. /\ w \in ChkIndexes
          /\ w.chk_num = x.chk_num
          /\ w.chk = x.chk
          /\ w.free_list = lists
      BY <3>6, <3>7, <1>1, Repooled
    <3> HIDE DEF w
    <3>9. SameMarks(x, w)
      BY <3>8 DEF SameMarks
    <3>10. Good(w, less)
      <4>1. w.free_list = PoolFree(FreeSizes, x.free_list, d, b.size)
        BY <3>2, <3>8
      <4>2. GoodIndex(w) /\ GoodLive(w, less)
        <5>1. GoodLive(x, less)
          BY <3>5 DEF GoodLive, less
        <5> DEFINE n == b.size
        <5>2. /\ n \in Nat /\ Inside(x, d, n) /\ OffPool(x.free_list, d, n)
              /\ w.free_list = PoolFree(FreeSizes, x.free_list, d, n)
              /\ \A c \in less : Disjoint(d, n, c, c.size)
          BY <3>1, <3>3, <3>4, <4>1
        <5> HIDE DEF n
        <5>3. /\ w \in ChkIndexes /\ GoodIndex(x) /\ SameMarks(x, w) /\ d \in Blocks
          BY <3>1, <3>5, <3>8, <3>9
        <5>4. /\ GoodIndex(w)
              /\ \A h : /\ GoodLive(x, h)
                        /\ \A c \in h : Disjoint(d, n, c, c.size)
                       => GoodLive(w, h)
          BY <5>2, <5>3, GoodPooled
        <5> QED
          BY <5>1, <5>2, <5>4
      <4> QED
        BY <4>2 DEF Good
    <3> QED
      BY <3>8, <3>10, <2>2 DEF w, KeepsCaps
  <2> QED
    BY <2>1, <2>2
<1>4. y \in ChkIndexes
  BY <1>3 DEF Good, GoodIndex
<1>5. Freed(x, b, b.size) = z
  <2>1. low = [x EXCEPT !.chk[b.no].virgin = @ - b.size]
    <3>1. x.chk[b.no].virgin + (-b.size) = x.chk[b.no].virgin - b.size
      BY <1>1, <1>2, IndexFields
    <3> QED
      BY <3>1 DEF TakeVirgin
  <2>2. y = IF AtVirgin(x, b, b.size)
            THEN [x EXCEPT !.chk[b.no].virgin = @ - b.size]
            ELSE [x EXCEPT !.free_list = PoolFree(FreeSizes, @, b, b.size),
                           !.total_free = @ + b.size]
    BY <2>1, <1>1 DEF Repool, ChkIndexes
  <2>3. Freed(x, b, b.size) = [y EXCEPT !.chk[b.no].used = @ - b.size,
                                        !.total_used = @ - b.size]
    BY <2>2 DEF Freed
  <2> HIDE DEF y
  <2> QED
    BY <2>3, <1>4 DEF Recount, ChkIndexes
<1> HIDE DEF y, less
<1>6. u \in Int /\ t \in Int
  <2>1. y.chk[b.no] \in ChkMetadata
    BY <1>2, <1>4, IndexFields
  <2> QED
    BY <2>1, <1>2, <1>4 DEF ChkIndexes, ChkMetadata
<1> HIDE DEF u, t
<1>7. /\ z \in ChkIndexes
      /\ z.chk_num = y.chk_num
      /\ z.free_list = y.free_list
      /\ SameMarks(y, z)
  BY <1>2, <1>4, <1>6, Recounted DEF SameMarks
<1> HIDE DEF z
<1>8. Good(z, less)
  BY <1>3, <1>7, GoodSame
<1>9. KeepsCaps(x, z)
  BY <1>2, <1>3, <1>7 DEF KeepsCaps, SameMarks
<1> QED
  BY <1>3, <1>5, <1>7, <1>8, <1>9 DEF less

(* The last chunk gets another capacity, its blocks stay below the mark. *)
Recap(x, n, c, t) ==
  [x EXCEPT !.chk[n] = Enlarged(@, c), !.total_capacity = t]

LEMMA GoodRecapped ==
  ASSUME NEW x, NEW held, Good(x, held), NEW n \in ChkNos, n < x.chk_num,
         NEW c \in 0 .. MaxCapacity, x.chk[n].virgin <= Units(c),
         NEW t \in Int
  PROVE  LET y == Recap(x, n, c, t)
         IN  /\ Good(y, held)
             /\ y.chk_num = x.chk_num
             /\ y.free_list = x.free_list
             /\ y.total_used = x.total_used
             /\ y.total_free = x.total_free
             /\ y.total_capacity = t
             /\ y.chk[n].virgin = x.chk[n].virgin
             /\ y.chk[n].capacity = c
             /\ y.chk[n].used = x.chk[n].used
             /\ \A m \in ChkNos \ {n} : y.chk[m] = x.chk[m]
<1> DEFINE h == Enlarged(x.chk[n], c)
           z == [x EXCEPT !.chk[n] = h]
           y == Recap(x, n, c, t)
<1>1. x \in ChkIndexes /\ x.free_list \in Lists /\ x.chk[n] \in ChkMetadata
  BY IndexFields DEF Good, GoodIndex
<1>2. /\ h \in ChkMetadata
      /\ h.virgin = x.chk[n].virgin
      /\ h.capacity = c
      /\ h.used = x.chk[n].used
  <2>1. c \in Nat
    BY Layout
  <2> QED
    BY <2>1, <1>1 DEF Enlarged, ChkMetadata
<1>3. y = [z EXCEPT !.total_capacity = t]
  BY DEF ChkIndexes, Recap
<1> HIDE DEF h
<1>4. /\ z \in ChkIndexes
      /\ z.chk_num = x.chk_num
      /\ z.free_list = x.free_list
      /\ z.total_used = x.total_used
      /\ z.total_free = x.total_free
      /\ z.chk[n] = h
      /\ \A m \in ChkNos \ {n} : z.chk[m] = x.chk[m]
  BY <1>1, <1>2, NewHeader
<1> HIDE DEF z, y
<1>5. /\ y \in ChkIndexes
      /\ y.chk_num = x.chk_num
      /\ y.free_list = x.free_list
      /\ y.total_used = x.total_used
      /\ y.total_free = x.total_free
      /\ y.total_capacity = t
      /\ y.chk[n] = h
      /\ \A m \in ChkNos \ {n} : y.chk[m] = x.chk[m]
  BY <1>3, <1>4 DEF ChkIndexes
<1>6. ASSUME NEW b, b.no \in ChkNos, NEW size, Inside(x, b, size)
      PROVE  Inside(y, b, size)
  <2>1. y.chk[b.no].virgin = x.chk[b.no].virgin
    BY <1>2, <1>5, <1>6
  <2> QED
    BY <2>1, <1>5, <1>6 DEF Inside
<1>7. ASSUME NEW i \in Classes, NEW k \in DOMAIN x.free_list[i]
      PROVE  Inside(y, x.free_list[i][k], FreeSizes[i])
  BY <1>1, <1>6, PoolTypes DEF Good, GoodIndex
<1>8. ASSUME NEW b \in held
      PROVE  Inside(y, b, b.size)
  BY <1>6, LiveTypes DEF Good, GoodLive
<1>9. ASSUME NEW m \in ChkNos, m < y.chk_num
      PROVE  /\ Overhead(m) <= y.chk[m].virgin
             /\ y.chk[m].virgin <= Units(y.chk[m].capacity)
  <2>1. Overhead(m) <= x.chk[m].virgin
    BY <1>5, <1>9 DEF Good, GoodIndex
  <2>2. CASE m = n
    BY <2>1, <2>2, <1>2, <1>5
  <2>3. CASE m # n
    BY <2>3, <1>5, <1>9 DEF Good, GoodIndex
  <2> QED
    BY <2>2, <2>3
<1> QED
  BY <1>2, <1>5, <1>7, <1>8, <1>9 DEF Good, GoodIndex, GoodLive, y

(* The last chunk of x has another capacity in y, and the manager counts   *)
(* the difference.                                                         *)
Recapped(x, y) ==
  LET n == LastNo(x)
  IN  \E c \in 0 .. MaxCapacity :
        /\ x.chk[n].virgin <= Units(c)
        /\ y = Recap(x, n, c, x.total_capacity + (c - x.chk[n].capacity))

LEMMA LastIn ==
  ASSUME NEW x \in ChkIndexes, x.chk_num > 0
  PROVE  LastNo(x) \in ChkNos /\ LastNo(x) < x.chk_num
<1>1. x.chk_num \in Nat
  BY IndexFields
<1>2. LastNo(x) \in Nat /\ LastNo(x) < x.chk_num
  BY <1>1 DEF LastNo
<1> QED
  BY <1>2, IndexFields

LEMMA UnitsGrow ==
  ASSUME NEW c \in Nat, NEW d \in Nat, c <= d
  PROVE  Units(c) <= Units(d)
<1>1. PICK e \in Nat : d = c + e
  BY d - c \in Nat, d = c + (d - c)
<1>2. UnitsPerCap \in Nat
  BY LayoutAssumption
<1>3. d * UnitsPerCap = c * UnitsPerCap + e * UnitsPerCap
  BY <1>1, <1>2
<1>4. e * UnitsPerCap \in Nat /\ c * UnitsPerCap \in Nat
  BY <1>2
<1> QED
  BY <1>3, <1>4 DEF Units

(* Such a change keeps the invariant. *)
LEMMA GoodResized ==
  ASSUME NEW x, NEW held, Good(x, held), x.chk_num > 0, NEW y, Recapped(x, y)
  PROVE  /\ Good(y, held)
         /\ y.chk_num = x.chk_num
         /\ \A m \in ChkNos \ {LastNo(x)} : y.chk[m] = x.chk[m]
<1> DEFINE n == LastNo(x)
           t(c) == x.total_capacity + (c - x.chk[n].capacity)
<1>1. x \in ChkIndexes
  BY DEF Good, GoodIndex
<1>2. n \in ChkNos /\ n < x.chk_num
  BY <1>1, LastIn
<1>3. PICK c \in 0 .. MaxCapacity :
        x.chk[n].virgin <= Units(c) /\ y = Recap(x, n, c, t(c))
  BY DEF Recapped
<1>4. t(c) \in Int
  BY <1>1, <1>2, IndexFields DEF ChkIndexes
<1> HIDE DEF n, t
<1> QED
  BY <1>2, <1>3, <1>4, GoodRecapped DEF n

LEMMA Grown ==
  ASSUME NEW x, NEW held, Good(x, held), x.chk_num > 0, AllocType = "MAX"
  PROVE  Recapped(x, GrowLast(x))
<1> DEFINE n == LastNo(x)
           t == x.total_capacity + (MaxCapacity - x.chk[n].capacity)
<1>1. x \in ChkIndexes
  BY DEF Good, GoodIndex
<1>2. n \in ChkNos /\ n < x.chk_num
  BY <1>1, LastIn
<1>3. GrowLast(x) = Recap(x, n, MaxCapacity, t)
  BY <1>1 DEF GrowLast, EnlargeLevel, LastChk, Recap, ChkIndexes
<1> HIDE DEF n
<1>4. /\ x.chk[n].capacity \in Nat /\ x.chk[n].capacity <= MaxCapacity
      /\ x.chk[n].virgin \in Nat
      /\ MaxCapacity \in Nat /\ MaxCapacity \in 0 .. MaxCapacity
  BY <1>1, <1>2, Layout, IndexFields
<1>5. x.chk[n].virgin <= Units(MaxCapacity)
  <2>1. /\ x.chk[n].virgin <= Units(x.chk[n].capacity)
        /\ Units(x.chk[n].capacity) <= Units(MaxCapacity)
        /\ Units(x.chk[n].capacity) \in Nat
        /\ Units(MaxCapacity) \in Nat
    BY <1>2, <1>4, UnitsGrow, Layout DEF Good, GoodIndex
  <2> QED
    BY <2>1, <1>4
<1> QED
  BY <1>3, <1>4, <1>5 DEF n, Recapped

(* What shrink leaves still holds everything below the virgin mark. *)
LEMMA SurplusFree ==
  ASSUME NEW c \in Nat, NEW v \in Nat, v <= Units(c)
  PROVE  LET s == (Units(c) - v) \div UnitsPerCap
         IN  /\ s \in Nat
             /\ c - s \in Nat
             /\ v <= Units(c - s)
<1> DEFINE U == UnitsPerCap
           s == (Units(c) - v) \div U
           r == (Units(c) - v) % U
<1>1. U \in Nat \ {0}
  BY LayoutAssumption
<1>2. Units(c) = c * U /\ c * U \in Nat
  BY <1>1 DEF Units
<1>3. Units(c) - v \in Nat
  BY <1>2
<1>4. /\ s \in Nat /\ r \in Nat
      /\ Units(c) - v = (s * U) + r
  BY <1>1, <1>3, DivMod
<1> HIDE DEF U, s, r
<1>5. s * U \in Nat
  BY <1>1, <1>4
<1>6. s * U + v <= c * U
  BY <1>2, <1>3, <1>4, <1>5
<1>7. s <= c
  <2> SUFFICES ASSUME c < s
               PROVE  FALSE
    BY <1>4
  <2>1. c * U + U <= s * U
    BY <1>1, <1>4, Pieces
  <2> QED
    BY <2>1, <1>1, <1>2, <1>5, <1>6
<1>8. c - s \in Nat /\ (c - s) * U + s * U = c * U
  <2>1. PICK d \in Nat : c = s + d
    BY <1>4, <1>7, c - s \in Nat, c = s + (c - s)
  <2>2. c - s = d
    BY <2>1, <1>4
  <2>3. d * U + s * U = (s + d) * U
    BY <2>1, <1>1, <1>4
  <2> QED
    BY <2>1, <2>2, <2>3
<1>9. (c - s) * U \in Nat
  BY <1>1, <1>8
<1>10. v <= (c - s) * U
  BY <1>2, <1>5, <1>6, <1>8, <1>9
<1> QED
  BY <1>4, <1>8, <1>10 DEF s, Units, U

LEMMA ShrunkBack ==
  ASSUME NEW x, NEW held, Good(x, held), x.chk_num > 0,
         Surplus(LastChk(x)) > 0
  PROVE  Recapped(x, ShrunkIndex(x))
<1> DEFINE n == LastNo(x)
           s == Surplus(x.chk[n])
           c == x.chk[n].capacity - s
           t == x.total_capacity - s
<1>1. x \in ChkIndexes
  BY DEF Good, GoodIndex
<1>2. n \in ChkNos /\ n < x.chk_num
  BY <1>1, LastIn
<1>3. s > 0
  BY DEF LastChk
<1>4. ShrunkIndex(x) = Recap(x, n, c, t)
  <2>1. Shrunk(x.chk[n]) = Enlarged(x.chk[n], c)
    BY <1>3 DEF Shrunk
  <2> QED
    BY <2>1, <1>1 DEF ShrunkIndex, LastChk, Recap, ChkIndexes
<1> HIDE DEF n
<1>5. /\ x.chk[n].capacity \in Nat /\ x.chk[n].capacity <= MaxCapacity
      /\ x.chk[n].virgin \in Nat
      /\ x.chk[n].virgin <= Units(x.chk[n].capacity)
      /\ MaxCapacity \in Nat
  BY <1>1, <1>2, Layout, IndexFields DEF Good, GoodIndex
<1>6. s \in Nat /\ c \in Nat /\ x.chk[n].virgin <= Units(c)
  BY <1>5, SurplusFree DEF Surplus
<1> HIDE DEF s
<1>7. c \in 0 .. MaxCapacity
  BY <1>5, <1>6
<1>8. t = x.total_capacity + (c - x.chk[n].capacity)
  BY <1>1, <1>5, <1>6 DEF ChkIndexes
<1> HIDE DEF c, t
<1> QED
  BY <1>4, <1>6, <1>7, <1>8 DEF n, Recapped

LEMMA GoodBooted ==
  ASSUME NEW x, NEW held, Good(x, held)
  PROVE  /\ Good(Booted(x), held)
         /\ Booted(x).chk_num > 0
         /\ x.chk_num <= Booted(x).chk_num
         /\ KeepsCaps(x, Booted(x))
<1>1. x \in ChkIndexes /\ x.chk_num \in Nat
  BY IndexFields DEF Good, GoodIndex
<1>2. CASE x.chk_num = 0
  <2>1. x.chk_num < MaxChkNum
    BY <1>2, LayoutAssumption
  <2> QED
    BY <2>1, <1>1, <1>2, GoodAppended, Appended DEF Booted, KeepsCaps, ChkNos
<1>3. CASE x.chk_num # 0
  BY <1>1, <1>3 DEF Booted, KeepsCaps
<1> QED
  BY <1>2, <1>3

LEMMA GoodExtended ==
  ASSUME NEW x, NEW held, Good(x, held), x.chk_num > 0,
         ~CanEnlarge(LastChk(x)), x.chk_num < MaxChkNum
  PROVE  LET y == Extended(x)
         IN  /\ Good(y, held)
             /\ y.chk_num = x.chk_num + 1
             /\ y.chk[LastNo(y)].virgin = Overhead(LastNo(y))
             /\ y.chk[LastNo(y)].capacity = MaxCapacity
             /\ KeepsCaps(x, y)
<1> DEFINE n == LastNo(x)
           z == AppendChk(x)
           y == Extended(x)
<1>1. x \in ChkIndexes /\ x.chk_num \in Nat
  BY IndexFields DEF Good, GoodIndex
<1>2. n \in ChkNos /\ n < x.chk_num
  BY <1>1, LastIn
<1>3. y = Collect(z, n)
  BY DEF Extended
<1>4. Good(z, held)
  BY GoodAppended
<1>5. /\ z.chk_num = x.chk_num + 1
      /\ x.chk_num \in ChkNos
      /\ z.chk[x.chk_num].virgin = Overhead(x.chk_num)
      /\ z.chk[x.chk_num].capacity = MaxCapacity
      /\ \A m \in ChkNos \ {x.chk_num} : z.chk[m] = x.chk[m]
  BY <1>1, Appended
<1> HIDE DEF n, z, y
<1>6. n < z.chk_num /\ n # x.chk_num
  BY <1>1, <1>2, <1>5 DEF n, LastNo
<1>7. /\ Good(y, held)
      /\ y.chk_num = z.chk_num
      /\ \A m \in ChkNos \ {n} : y.chk[m] = z.chk[m]
      /\ KeepsCaps(z, y)
  BY <1>2, <1>3, <1>4, <1>6, GoodCollected
<1>8. LastNo(y) = x.chk_num
  BY <1>1, <1>5, <1>7 DEF LastNo
<1>9. KeepsCaps(x, y)
  <2> SUFFICES ASSUME NEW m \in ChkNos, m < x.chk_num
               PROVE  y.chk[m].capacity = x.chk[m].capacity
    BY DEF KeepsCaps
  <2>1. m \in Nat
    BY DEF ChkNos
  <2>2. m < z.chk_num /\ m # x.chk_num
    BY <2>1, <1>1, <1>5
  <2> QED
    BY <2>2, <1>5, <1>7 DEF KeepsCaps
<1> QED
  BY <1>5, <1>6, <1>7, <1>8, <1>9 DEF y
---------------------------------------------------------------------------
(* The invariant and the steps that keep it.  An index of type NEED never  *)
(* gets its first chunk, so that every step there is is one of type MAX.   *)

IInv ==
  /\ Good(index, live)
  /\ AllocType = "NEED" => index.chk_num = 0
  /\ handed \in Int

LEMMA InitIInv == Init => IInv
<1> SUFFICES ASSUME Init PROVE IInv
  OBVIOUS
<1>1. index = EmptyIndex /\ live = {} /\ handed = 0
  BY DEF Init
<1>2. NoChk \in ChkMetadata
  BY Layout DEF NoChk, ChkMetadata
<1>3. EmptyLists \in Lists /\ \A i \in Classes : EmptyLists[i] = << >>
  BY DEF EmptyLists, Lists
<1>4. /\ EmptyIndex \in ChkIndexes
      /\ EmptyIndex.chk_num = 0
      /\ EmptyIndex.free_list = EmptyLists
  <2>1. 0 \in 0 .. MaxChkNum
    BY LayoutAssumption
  <2> QED
    BY <2>1, <1>2, <1>3 DEF EmptyIndex, ChkIndexes
<1>5. \A i \in Classes : DOMAIN EmptyLists[i] = {}
  BY <1>3
<1>6. \A n \in ChkNos : ~(n < 0)
  BY DEF ChkNos
<1>7. GoodIndex(EmptyIndex)
  <2> HIDE DEF EmptyIndex
  <2>1. Apart(EmptyLists)
    BY <1>5 DEF Apart
  <2> QED
    BY <2>1, <1>4, <1>5, <1>6 DEF GoodIndex
<1> QED
  BY <1>1, <1>4, <1>7 DEF IInv, Good, GoodLive

(* A chunk as it is appended has room for every request that is admitted. *)
LEMMA FreshFits ==
  ASSUME NEW y \in ChkIndexes, y.chk_num > 0,
         y.chk[LastNo(y)].virgin = Overhead(LastNo(y)),
         y.chk[LastNo(y)].capacity = MaxCapacity,
         NEW bytes \in Requests, AlignedSize(bytes) <= MaxContinus
  PROVE  Fits(LastChk(y), AlignedSize(bytes))
<1> DEFINE n == LastNo(y)
           size == AlignedSize(bytes)
<1>1. n \in ChkNos
  BY LastIn
<1>2. size \in Nat
  BY RequestSize
<1>3. /\ Overhead(n) \in Nat
      /\ Overhead(n) + MaxContinus <= Units(MaxCapacity)
      /\ MaxContinus \in Nat
      /\ Units(MaxCapacity) \in Nat
  BY <1>1, Layout, LayoutAssumption
<1>4. LastChk(y) = y.chk[n]
  BY DEF LastChk
<1> HIDE DEF n, size
<1>5. Overhead(n) + size <= Units(MaxCapacity)
  BY <1>2, <1>3 DEF size
<1> QED
  BY <1>4, <1>5 DEF Fits, n, size

LEMMA AllocStep ==
  ASSUME IInv, NEW bytes \in Requests, Alloc(bytes)
  PROVE  /\ IInv'
         /\ KeepsCaps(index, index')
         /\ \E b \in LiveBlocks \ live : live' = live \cup {b}
         /\ handed' = handed + 1
<1> DEFINE x == Booted(index)
           size == AlignedSize(bytes)
<1>1. Admits(bytes)
  BY DEF Alloc, AllocFromPool, AllocFromVirgin, AllocFromNewChk
<1>2. AllocType = "MAX" /\ ~CanEnlarge(LastChk(x)) /\ size <= MaxContinus
  BY <1>1, HeapAssumption DEF Admits, MustEnlarge, IInv
<1>3. /\ Good(x, live)
      /\ x.chk_num > 0
      /\ index.chk_num <= x.chk_num
      /\ KeepsCaps(index, x)
  BY GoodBooted DEF IInv
<1>4. index.chk_num \in Nat /\ x.chk_num \in Nat
  BY <1>3, IndexFields DEF IInv, Good, GoodIndex
<1> HIDE DEF x
<1>5. ASSUME NEW y, KeepsCaps(x, y)
      PROVE  KeepsCaps(index, y)
  BY <1>3, <1>4, <1>5 DEF KeepsCaps, ChkNos
<1>6. ASSUME NEW b \in Blocks, NEW y, Good(y, live \cup {Handed(b, bytes)}),
             Handed(b, bytes) \notin live, KeepsCaps(x, y),
             index' = y, Grant(b, bytes)
      PROVE  /\ IInv'
             /\ KeepsCaps(index, index')
             /\ \E c \in LiveBlocks \ live : live' = live \cup {c}
             /\ handed' = handed + 1
  <2>1. Good(index', live')
    BY <1>6 DEF Grant
  <2>2. IInv'
    BY <2>1, <1>2, <1>6 DEF IInv, Grant
  <2>3. Handed(b, bytes) \in LiveBlocks
    BY <1>6 DEF Good, GoodLive
  <2> QED
    BY <2>2, <2>3, <1>5, <1>6 DEF Grant
<1>7. CASE AllocFromPool(bytes)
  <2> DEFINE b == PoolTaken(FreeSizes, x.free_list, size)
             y == FromPool(x, size)
  <2>1. /\ InPool(x, size)
        /\ index' = y
        /\ Grant(b, bytes)
    BY <1>7 DEF AllocFromPool, x
  <2>2. /\ Good(y, live \cup {Handed(b, bytes)})
        /\ Handed(b, bytes) \notin live
        /\ KeepsCaps(x, y)
    BY <2>1, <1>2, <1>3, GoodFromPool
  <2>3. b \in Blocks
    <3>1. size \in Nat
      BY RequestSize
    <3>2. x.free_list \in Lists /\ Apart(x.free_list)
      BY <1>3, IndexFields DEF Good, GoodIndex
    <3> QED
      BY <3>1, <3>2, <2>1, PoolServed DEF InPool
  <2> QED
    BY <2>1, <2>2, <2>3, <1>6
<1>8. ASSUME NEW z, Good(z, live), z.chk_num > 0, KeepsCaps(x, z),
             x.chk_num <= z.chk_num,
             Fits(LastChk(z), size),
             index' = FromVirgin(z, size), Grant(VirginBlock(z, LastNo(z)), bytes)
      PROVE  /\ IInv'
             /\ KeepsCaps(index, index')
             /\ \E c \in LiveBlocks \ live : live' = live \cup {c}
             /\ handed' = handed + 1
  <2> DEFINE b == VirginBlock(z, LastNo(z))
             y == FromVirgin(z, size)
  <2>1. /\ Good(y, live \cup {Handed(b, bytes)})
        /\ Handed(b, bytes) \notin live
        /\ KeepsCaps(z, y)
    BY <1>2, <1>8, GoodFromVirgin
  <2>2. z \in ChkIndexes /\ z.chk_num \in Nat
    BY <1>8, IndexFields DEF Good, GoodIndex
  <2>3. b \in Blocks
    <3>1. LastNo(z) \in ChkNos
      BY <2>2, <1>8, LastIn
    <3> QED
      BY <3>1, <2>2, IndexFields DEF VirginBlock, Blocks
  <2>4. KeepsCaps(x, y)
    BY <2>1, <2>2, <1>4, <1>8 DEF KeepsCaps, ChkNos
  <2> QED
    BY <2>1, <2>3, <2>4, <1>6, <1>8
<1>9. CASE AllocFromVirgin(bytes)
  <2>1. KeepsCaps(x, x)
    BY DEF KeepsCaps
  <2>2. /\ Fits(LastChk(x), size)
        /\ index' = FromVirgin(x, size)
        /\ Grant(VirginBlock(x, LastNo(x)), bytes)
    BY <1>9 DEF AllocFromVirgin, x
  <2> QED
    BY <2>1, <2>2, <1>3, <1>4, <1>8
<1>10. CASE AllocFromNewChk(bytes)
  <2> DEFINE y == Extended(x)
             n == LastNo(y)
  <2>1. /\ x.chk_num < MaxChkNum
        /\ index' = FromVirgin(y, size)
        /\ Grant(VirginBlock(y, LastNo(y)), bytes)
    BY <1>2, <1>10 DEF AllocFromNewChk, x
  <2>2. /\ Good(y, live)
        /\ y.chk_num = x.chk_num + 1
        /\ y.chk[n].virgin = Overhead(n)
        /\ y.chk[n].capacity = MaxCapacity
        /\ KeepsCaps(x, y)
    BY <2>1, <1>2, <1>3, GoodExtended
  <2>3. y \in ChkIndexes /\ y.chk_num > 0 /\ x.chk_num <= y.chk_num
    BY <2>2, <1>4 DEF Good, GoodIndex
  <2> HIDE DEF y
  <2>4. Fits(LastChk(y), size)
    BY <2>2, <2>3, <1>2, FreshFits
  <2> QED
    BY <2>1, <2>2, <2>3, <2>4, <1>8
<1> QED
  BY <1>7, <1>9, <1>10 DEF Alloc

LEMMA FreeStep ==
  ASSUME IInv, NEW b \in live, Free(b)
  PROVE  IInv' /\ KeepsCaps(index, index')
<1>1. /\ index' = Freed(index, b, b.size)
      /\ live' = live \ {b}
      /\ handed' = handed - 1
  BY DEF Free
<1>2. /\ Good(index', live')
      /\ index'.chk_num = index.chk_num
      /\ KeepsCaps(index, index')
  BY <1>1, GoodFreed DEF IInv
<1> QED
  BY <1>1, <1>2 DEF IInv

(* What the two steps that change the capacity of the last chunk leave. *)
Resized ==
  /\ live' = live
  /\ handed' = handed
  /\ \A m \in ChkNos \ {LastNo(index)} : index'.chk[m] = index.chk[m]

LEMMA EnlargeStep ==
  ASSUME IInv, Enlarge
  PROVE  IInv' /\ Resized
<1>1. /\ index.chk_num > 0
      /\ index' = GrowLast(index)
      /\ live' = live /\ handed' = handed
  BY DEF Enlarge
<1>2. AllocType = "MAX"
  BY <1>1, HeapAssumption DEF IInv
<1>3. Good(index', live') /\ Resized
  BY <1>1, <1>2, Grown, GoodResized DEF IInv, Resized
<1> QED
  BY <1>2, <1>3 DEF IInv, Resized

LEMMA ShrinkStep ==
  ASSUME IInv, Shrink
  PROVE  IInv' /\ Resized
<1>1. /\ index.chk_num > 0
      /\ Surplus(LastChk(index)) > 0
      /\ index' = ShrunkIndex(index)
      /\ live' = live /\ handed' = handed
  BY DEF Shrink
<1>2. AllocType = "MAX"
  BY <1>1, HeapAssumption DEF IInv
<1>3. Good(index', live') /\ Resized
  BY <1>1, ShrunkBack, GoodResized DEF IInv, Resized
<1> QED
  BY <1>2, <1>3 DEF IInv, Resized

LEMMA NextIInv == IInv /\ [Next]_vars => IInv'
<1> SUFFICES ASSUME IInv, [Next]_vars PROVE IInv'
  OBVIOUS
<1>1. CASE \E bytes \in Requests : Alloc(bytes)
  BY <1>1, AllocStep
<1>2. CASE \E b \in live : Free(b)
  BY <1>2, FreeStep
<1>3. CASE Enlarge
  BY <1>3, EnlargeStep
<1>4. CASE Shrink
  BY <1>4, ShrinkStep
<1>5. CASE UNCHANGED vars
  BY <1>5 DEF IInv, vars
<1> QED
  BY <1>1, <1>2, <1>3, <1>4, <1>5 DEF Next

LEMMA Invariance == Spec => []IInv
  BY InitIInv, NextIInv, PTL DEF Spec
---------------------------------------------------------------------------
(* The index and the blocks always have their types: no chunk number, no   *)
(* capacity and no virgin mark ever leaves its range.                      *)
THEOREM Typed == Spec => []TypeOK
<1>1. IInv => TypeOK
  BY DEF IInv, Good, GoodIndex, GoodLive, TypeOK
<1> QED
  BY <1>1, Invariance, PTL

(* alloc, free, enlarge and shrink keep every block, held or pooled, above *)
(* the headers of its chunk and below the chunk's virgin mark, and the     *)
(* mark within the capacity.                                               *)
THEOREM BlocksInside == Spec => []InVirgin
<1>1. IInv => InVirgin
  <2> SUFFICES ASSUME IInv PROVE InVirgin
    OBVIOUS
  <2>1. index \in ChkIndexes /\ index.chk_num \in Nat
    BY IndexFields DEF IInv, Good, GoodIndex
  <2>2. ASSUME NEW n \in 0 .. LastNo(index)
        PROVE  index.chk[n].virgin <= Units(index.chk[n].capacity)
    <3>1. n \in Nat /\ n < index.chk_num
      BY <2>1 DEF LastNo
    <3>2. n \in ChkNos
      BY <3>1, <2>1, IndexFields
    <3> QED
      BY <3>1, <3>2 DEF IInv, Good, GoodIndex
  <2> QED
    BY <2>2 DEF IInv, Good, GoodIndex, GoodLive, InVirgin
<1> QED
  BY <1>1, Invariance, PTL

(* No unit of memory is ever in two blocks, held or pooled. *)
THEOREM BlocksApart == Spec => []Separation
<1>1. IInv => Separation
  BY DEF IInv, Good, GoodIndex, GoodLive, Separation, LiveApart, LiveOffPool,
         PoolApart
<1> QED
  BY <1>1, Invariance, PTL

(* A chunk moves only when it is the last one and in enlarge or shrink:    *)
(* alloc and free leave every chunk where it is.                           *)
THEOREM NoChunkMoves == Spec => ChunksStay
<1> DEFINE Stays == \A n \in 0 .. LastNo(index) :
                      index'.chk[n].capacity # index.chk[n].capacity =>
                        n = LastNo(index) /\ live' = live
<1>1. IInv /\ [Next]_vars => [Stays]_vars
  <2> SUFFICES ASSUME IInv, [Next]_vars, NEW n \in 0 .. LastNo(index),
                      index'.chk[n].capacity # index.chk[n].capacity
               PROVE  n = LastNo(index) /\ live' = live
    OBVIOUS
  <2>1. n \in ChkNos /\ n < index.chk_num
    <3>1. index \in ChkIndexes /\ index.chk_num \in Nat
      BY IndexFields DEF IInv, Good, GoodIndex
    <3>2. n \in Nat /\ n < index.chk_num
      BY <3>1 DEF LastNo
    <3> QED
      BY <3>1, <3>2, IndexFields
  <2>2. CASE \E bytes \in Requests : Alloc(bytes)
    BY <2>1, <2>2, AllocStep DEF KeepsCaps
  <2>3. CASE \E b \in live : Free(b)
    BY <2>1, <2>3, FreeStep DEF KeepsCaps
  <2>4. CASE Enlarge
    BY <2>1, <2>4, EnlargeStep DEF Resized
  <2>5. CASE Shrink
    BY <2>1, <2>5, ShrinkStep DEF Resized
  <2>6. CASE UNCHANGED vars
    BY <2>6 DEF vars
  <2> QED
    BY <2>2, <2>3, <2>4, <2>5, <2>6 DEF Next
<1> QED
  BY <1>1, Invariance, PTL DEF Spec, ChunksStay

(* A held block as BlockHeap sees it: below the last level, whatever the   *)
(* capacity of its chunk is now.                                           *)
LEMMA HeldHome ==
  ASSUME NEW x, NEW held, Good(x, held), NEW b \in held
  PROVE  /\ b.size = AlignedSize(b.bytes) /\ b.size <= MaxContinus
         /\ b = Handed(b, b.bytes)
         /\ b.bytes \in Requests
         /\ b.no \in ChkNos
         /\ b.off \in 0 .. Units(MaxCapacity)
         /\ Overhead(b.no) <= b.off
         /\ End(b, b.size) <= Units(MaxCapacity)
<1>1. x \in ChkIndexes /\ b \in LiveBlocks
  BY DEF Good, GoodIndex, GoodLive
<1>2. b.no \in ChkNos /\ b.off \in Nat /\ b.size \in Nat \ {0}
  BY <1>1, LiveTypes
<1>3. b.size = AlignedSize(b.bytes) /\ b.size <= MaxContinus /\ Inside(x, b, b.size)
  BY DEF Good, GoodLive
<1>4. b = Handed(b, b.bytes) /\ b.bytes \in Requests
  BY <1>1, <1>3 DEF LiveBlocks, Handed
<1> DEFINE c == x.chk[b.no].capacity
           v == x.chk[b.no].virgin
<1>5. /\ c \in Nat /\ MaxCapacity \in Nat /\ c <= MaxCapacity
      /\ v \in Nat
  BY <1>1, <1>2, Layout, IndexFields
<1>6. v <= Units(c)
  BY <1>2, <1>3 DEF Good, GoodIndex, Inside
<1>7. b.off + b.size <= v /\ Overhead(b.no) <= b.off
  BY <1>3 DEF Inside, End
<1> HIDE DEF c, v
<1>8. Units(c) <= Units(MaxCapacity)
  BY <1>5, UnitsGrow
<1>9. Units(c) \in Nat /\ Units(MaxCapacity) \in Nat
  BY <1>5, Layout
<1>10. b.off + b.size <= Units(MaxCapacity) /\ b.off <= Units(MaxCapacity)
  BY <1>2, <1>5, <1>6, <1>7, <1>8, <1>9
<1> QED
  BY <1>2, <1>3, <1>4, <1>7, <1>9, <1>10 DEF End

(* The chunk index, its pool and its virgin marks implement BlockHeap: the *)
(* callers see blocks of the size they asked for, in chunks, apart from    *)
(* the headers and from each other, handed out once until it is freed.     *)
THEOREM Implements == Spec => KeepsPromise
<1>1. Init => Abstract!Init
  BY DEF Init, Abstract!Init
<1>2. IInv /\ IInv' /\ [Next]_vars => [Abstract!Next]_<<live, handed>>
  <2> SUFFICES ASSUME IInv, IInv', [Next]_vars,
                      <<live, handed>>' # <<live, handed>>
               PROVE  Abstract!Next
    OBVIOUS
  <2>1. CASE \E bytes \in Requests : Alloc(bytes)
    <3>1. PICK b \in LiveBlocks \ live :
            live' = live \cup {b} /\ handed' = handed + 1
      BY <2>1, AllocStep
    <3>2. b \in live' /\ b \notin live
      BY <3>1
    <3>3. Good(index', live')
      BY DEF IInv
    <3>4. /\ b.size = AlignedSize(b.bytes) /\ b.size <= MaxContinus
          /\ b = Handed(b, b.bytes)
          /\ b.bytes \in Requests
          /\ b.no \in ChkNos
          /\ b.off \in 0 .. Units(MaxCapacity)
          /\ Overhead(b.no) <= b.off
          /\ End(b, b.size) <= Units(MaxCapacity)
      BY <3>2, <3>3, HeldHome
    <3>5. \A c \in live : Disjoint(b, b.size, c, c.size)
      BY <3>1, <3>2, <3>3 DEF Good, GoodLive
    <3>6. Abstract!Alloc(b)
      BY <3>1, <3>4, <3>5
      DEF Abstract!Alloc, Abstract!Home, Abstract!AlignedSize, AlignedSize,
          Abstract!Disjoint, Disjoint, Abstract!End, End, Abstract!Overhead,
          Overhead, Abstract!Units, Units, Abstract!MaxCapacity, MaxCapacity,
          Abstract!ChkNos, ChkNos
    <3> QED
      BY <3>4, <3>6
      DEF Abstract!Next, Handed, Abstract!AlignedSize, AlignedSize,
          Abstract!Units, Units, Abstract!MaxCapacity, MaxCapacity,
          Abstract!ChkNos, ChkNos
  <2>2. CASE \E b \in live : Free(b)
    BY <2>2 DEF Free, Abstract!Next, Abstract!Free
  <2>3. CASE Enlarge
    BY <2>3 DEF Enlarge
  <2>4. CASE Shrink
    BY <2>4 DEF Shrink
  <2>5. CASE UNCHANGED vars
    BY <2>5 DEF vars
  <2> QED
    BY <2>1, <2>2, <2>3, <2>4, <2>5 DEF Next
<1> QED
  BY <1>1, <1>2, Invariance, PTL DEF Spec, KeepsPromise, Abstract!Spec
=============================================================================
