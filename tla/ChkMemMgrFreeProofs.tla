------------------------ MODULE ChkMemMgrFreeProofs ------------------------
(***************************************************************************)
(* Proofs about ChkMemMgrFree: what the loop of ChkMemMgr::free makes of   *)
(* the free lists, for any sizes, regions and number of calls.             *)
(***************************************************************************)
EXTENDS ChkMemMgrFree, SequenceTheorems, TLAPS

LEMMA Times ==
  ASSUME NEW n \in Nat, NEW f \in Nat
  PROVE  n * f \in Nat /\ (n + 1) * f = n * f + f /\ 0 * f = 0
  OBVIOUS

(* Division with remainder, and that there is one result. *)
LEMMA Divided ==
  ASSUME NEW q \in Nat, NEW f \in Nat \ {0}, NEW r \in Nat, r < f
  PROVE  (q * f + r) \div f = q /\ (q * f + r) % f = r
<1> DEFINE m == q * f + r
           p == m \div f
<1>1. m \in Nat /\ p \in Nat /\ m % f \in Nat /\ m % f < f
      /\ m = p * f + (m % f)
  BY SMT
<1>2. ASSUME NEW k \in Nat, NEW l \in Nat, k < l
      PROVE  k * f + f <= l * f
  <2>1. PICK d \in Nat : l = k + 1 + d
    BY <1>2, l - k - 1 \in Nat, l = k + 1 + (l - k - 1)
  <2>2. l * f = k * f + f + d * f /\ d * f \in Nat
    BY <2>1
  <2> QED
    BY <2>2
<1>3. q * f \in Nat /\ p * f \in Nat
  BY <1>1
<1>4. m = q * f + r
  OBVIOUS
<1> HIDE DEF p, m
<1>5. ~ (p < q)
  BY <1>1, <1>2, <1>3, <1>4
<1>6. ~ (q < p)
  BY <1>1, <1>2, <1>3, <1>4
<1>7. p = q
  BY <1>1, <1>5, <1>6
<1> QED
  BY <1>1, <1>3, <1>4, <1>7 DEF p, m

(* The offset moves on, and wraps behind the end of a chunk. *)
LEMMA Rests ==
  ASSUME NEW d \in Nat
  PROVE  /\ d % 2048 \in 0 .. 2047
         /\ d <= 2047 => d % 2048 = d
  BY SMT

LEMMA Moves ==
  ASSUME NEW d \in Nat, NEW f \in Nat
  PROVE  ((d % 2048) + f) % 2048 = (d + f) % 2048
  BY SMT
---------------------------------------------------------------------------
(* n blocks of f units that were cut from start on, the last one on top.   *)
Pushed(no, start, f, n) ==
  [k \in 1 .. n |-> [no |-> no, off |-> start + (n - k) * f]]

Places == [no : Nat, off : Nat]

LEMMA PushedSeq ==
  ASSUME NEW no \in Nat, NEW start \in Nat, NEW f \in Nat, NEW n \in Nat
  PROVE  Pushed(no, start, f, n) \in Seq(Places) /\ Len(Pushed(no, start, f, n)) = n
<1>1. \A k \in 1 .. n : start + (n - k) * f \in Nat
  <2> TAKE k \in 1 .. n
  <2>1. n - k \in Nat
    OBVIOUS
  <2>2. (n - k) * f \in Nat
    BY <2>1, Times
  <2> QED
    BY <2>2
<1> QED
  BY <1>1 DEF Pushed, Places

(* One more. *)
LEMMA PushedOne ==
  ASSUME NEW no \in Nat, NEW start \in Nat, NEW f \in Nat, NEW n \in Nat,
         NEW s \in Seq(Places)
  PROVE  <<[no |-> no, off |-> start + n * f]>> \o (Pushed(no, start, f, n) \o s)
           = Pushed(no, start, f, n + 1) \o s
<1> DEFINE b == [no |-> no, off |-> start + n * f]
           p == Pushed(no, start, f, n)
           q == Pushed(no, start, f, n + 1)
<1>1. n * f \in Nat /\ n + 1 \in Nat
  BY Times
<1>2. b \in Places
  BY <1>1 DEF Places
<1>3. p \in Seq(Places) /\ Len(p) = n /\ q \in Seq(Places) /\ Len(q) = n + 1
  <2>1. \A m \in Nat : /\ Pushed(no, start, f, m) \in Seq(Places)
                      /\ Len(Pushed(no, start, f, m)) = m
    BY PushedSeq
  <2> QED
    BY <1>1, <2>1
<1>4. \A k \in 1 .. n + 1 : q[k] = [no |-> no, off |-> start + ((n + 1) - k) * f]
  BY DEF Pushed
<1>5. \A k \in 1 .. n : p[k] = [no |-> no, off |-> start + (n - k) * f]
  BY DEF Pushed
<1>6. q[1] = b
  <2>1. (n + 1) - 1 = n /\ 1 \in 1 .. n + 1
    OBVIOUS
  <2> QED
    BY <1>4, <2>1
<1>7. \A k \in 1 .. n : q[k + 1] = p[k]
  <2> TAKE k \in 1 .. n
  <2>1. k + 1 \in 1 .. n + 1 /\ (n + 1) - (k + 1) = n - k
    OBVIOUS
  <2>2. q[k + 1] = [no |-> no, off |-> start + ((n + 1) - (k + 1)) * f]
    BY <1>4, <2>1
  <2> QED
    BY <1>5, <2>1, <2>2
<1> HIDE DEF b, p, q
<1>8. q = <<b>> \o p
  <2> DEFINE t == <<b>> \o p
  <2>1. /\ t \in Seq(Places)
        /\ Len(t) = n + 1
        /\ t[1] = b
        /\ \A k \in 1 .. n : t[k + 1] = p[k]
    BY <1>2, <1>3
  <2> HIDE DEF t
  <2>2. \A k \in 1 .. n + 1 : k = 1 \/ (k - 1 \in 1 .. n /\ k = (k - 1) + 1)
    OBVIOUS
  <2>3. \A k \in 1 .. n + 1 : q[k] = t[k]
    BY <1>6, <1>7, <2>1, <2>2
  <2> QED
    BY <1>3, <2>1, <2>3 DEF t
<1>9. <<b>> \in Seq(Places)
  BY <1>2
<1>10. <<b>> \o (p \o s) = (<<b>> \o p) \o s
  <2> DEFINE bs == <<b>>
  <2>1. bs \in Seq(Places) /\ p \in Seq(Places) /\ s \in Seq(Places)
    BY <1>3, <1>9
  <2> HIDE DEF bs
  <2>2. bs \o (p \o s) = (bs \o p) \o s
    BY <2>1, ConcatAssociative, SMTT(20)
  <2> QED
    BY <2>2 DEF bs
<1>11. <<b>> \o (p \o s) = q \o s
  BY <1>8, <1>10
<1> QED
  BY <1>11 DEF b, p, q
---------------------------------------------------------------------------
(* The largest class that still fits. *)
LEMMA CutIs ==
  ASSUME NEW s, s = {i \in Classes : left >= fs[i]}, s # {}
  PROVE  /\ CutClass \in Classes
         /\ left >= fs[CutClass]
         /\ \A i \in Classes : left >= fs[i] => CutClass >= i
<1>1. \E m \in s : \A i \in s : m >= i
  <2>1. s \subseteq {1, 2, 3}
    BY DEF Classes
  <2>2. CASE 3 \in s
    BY <2>1, <2>2
  <2>3. CASE 3 \notin s /\ 2 \in s
    BY <2>1, <2>3
  <2>4. CASE 3 \notin s /\ 2 \notin s
    BY <2>1, <2>4
  <2> QED
    BY <2>2, <2>3, <2>4
<1>2. CutClass = CHOOSE m \in s : \A i \in s : m >= i
  BY DEF CutClass, Max
<1>3. CutClass \in s /\ \A i \in s : CutClass >= i
  BY <1>1, <1>2
<1> QED
  BY <1>3

LEMMA FreeSizeBounds ==
  ASSUME NEW p \in [Classes -> Nat], NEW i \in Classes
  PROVE  FreeSize(p, i) \in Nat /\ FreeSize(p, i) < FieldValues[i]
<1> DEFINE a == MaxPresets[i]
           b == p[i]
           m == Min({a, b})
<1>1. a \in Nat /\ b \in Nat /\ FieldValues[i] \in Nat \ {0}
  BY DEF MaxPresets, FieldValues, Classes
<1>2. m \in Nat
  <2> HIDE DEF a, b
  <2>1. \E x \in {a, b} : \A y \in {a, b} : x <= y
    BY <1>1
  <2>2. m \in {a, b}
    BY <2>1 DEF Min
  <2> QED
    BY <2>2, <1>1
<1> HIDE DEF m
<1>3. AlignedSize(m) \in Nat
  BY <1>2 DEF AlignedSize
<1> QED
  BY <1>1, <1>3 DEF FreeSize, m
---------------------------------------------------------------------------
Spots == [no : Nat, off : 0 .. OffsetUnits - 1]

(* What the call has pooled so far, by class, and that with what is left   *)
(* it makes up the region.                                                 *)
Pooled(i) == Len(lists[i]) - Len(before[i])

AddsUp ==
  region.size - left = Pooled(1) * fs[1] + Pooled(2) * fs[2] + Pooled(3) * fs[3]

(* The loop goes through the region from its start. *)
InRegion ==
  /\ region \in [no : Nat, off : 0 .. OffsetUnits - 1, size : Nat]
  /\ region.off + region.size <= OffsetUnits
  /\ pc = "loop" => off = (region.off + (region.size - left)) % OffsetUnits

(* Blocks that are not empty are new on their list: what lies on top is of *)
(* an earlier call, or lies before what is still to be cut.                *)
Fresh ==
  /\ pc = "loop" => region.no < calls
  /\ \A i \in Classes :
       (fs[i] > 0 /\ lists[i] # << >>) =>
          LET top == lists[i][1]
          IN  /\ top.no < calls
              /\ (pc = "loop" /\ top.no = region.no) =>
                   top.off < region.off + (region.size - left)

IInv ==
  /\ TypeOK
  /\ InRegion
  /\ AddsUp
  /\ Fresh
  /\ pc = "loop" => fs[1] # 0
  /\ pc = "idle" /\ calls > 0 => left < fs[1]

LEMMA InitIInv == Init => IInv
<1> SUFFICES ASSUME Init PROVE IInv
  OBVIOUS
<1>1. preset \in [Classes -> Nat] /\ MaxCalls \in Nat
  BY FreeAssumption DEF Init
<1>2. fs \in [Classes -> Nat] /\ \A i \in Classes : fs[i] < FieldValues[i]
  BY <1>1, FreeSizeBounds DEF Init
<1>3. lists = EmptyLists /\ before = EmptyLists
  BY DEF Init
<1>4. /\ lists \in [Classes -> Seq(Spots)]
      /\ before \in [Classes -> Seq(Spots)]
      /\ \A i \in Classes : Pooled(i) = 0
  BY <1>3 DEF EmptyLists, Pooled
<1>5. region = [no |-> 0, off |-> 0, size |-> 0] /\ left = 0 /\ off = 0
      /\ calls = 0 /\ pc = "idle" /\ preset \in Presets
  BY DEF Init
<1>6. region \in [no : Nat, off : Nat, size : Nat] /\ InRegion
  BY <1>5 DEF InRegion, OffsetUnits
<1>7. AddsUp
  BY <1>2, <1>4, <1>5 DEF AddsUp, Classes
<1>8. TypeOK
  BY <1>1, <1>2, <1>4, <1>5, <1>6 DEF TypeOK, Spots, OffsetUnits
<1>9. Fresh
  <2>1. \A i \in Classes : lists[i] = << >>
    BY <1>3 DEF EmptyLists
  <2> QED
    BY <2>1, <1>5 DEF Fresh
<1> QED
  BY <1>5, <1>6, <1>7, <1>8, <1>9 DEF IInv

LEMMA Types ==
  ASSUME IInv
  PROVE  /\ fs \in [Classes -> Nat]
         /\ fs[1] \in Nat /\ fs[2] \in Nat /\ fs[3] \in Nat
         /\ lists \in [Classes -> Seq(Spots)]
         /\ before \in [Classes -> Seq(Spots)]
         /\ region.no \in Nat /\ region.off \in Nat /\ region.size \in Nat
         /\ region.off + region.size <= 2048
         /\ left \in Nat /\ left <= region.size
         /\ off \in 0 .. 2047
         /\ calls \in Nat /\ MaxCalls \in Nat
<1>1. TypeOK
  BY DEF IInv
<1>2. fs \in [Classes -> Nat]
  BY <1>1 DEF TypeOK
<1>3. fs[1] \in Nat /\ fs[2] \in Nat /\ fs[3] \in Nat
  BY <1>2 DEF Classes
<1>4. lists \in [Classes -> Seq(Spots)] /\ before \in [Classes -> Seq(Spots)]
  BY <1>1 DEF TypeOK, Spots
<1>5. /\ region \in [no : Nat, off : 0 .. 2047, size : Nat]
      /\ region.off + region.size <= 2048
  BY DEF IInv, InRegion, OffsetUnits
<1>6. region.no \in Nat /\ region.off \in Nat /\ region.size \in Nat
  <2>1. region.no \in Nat /\ region.size \in Nat
    BY <1>5
  <2>2. region.off \in 0 .. 2047
    BY <1>5
  <2>3. region.off \in Nat
    <3> DEFINE x == region.off
    <3>1. x \in 0 .. 2047
      BY <2>2
    <3> HIDE DEF x
    <3>2. x \in Nat
      BY <3>1
    <3> QED
      BY <3>2 DEF x
  <2> QED
    BY <2>1, <2>3
<1>7. left \in 0 .. region.size /\ off \in 0 .. 2047
  BY <1>1 DEF TypeOK, OffsetUnits
<1>a. left \in Nat /\ left <= region.size
  BY <1>6, <1>7
<1>8. calls \in 0 .. MaxCalls /\ MaxCalls \in Nat
  BY <1>1, FreeAssumption DEF TypeOK
<1>9. calls \in Nat /\ MaxCalls \in Nat
  BY <1>8
<1> QED
  BY <1>2, <1>3, <1>4, <1>5, <1>6, <1>7, <1>a, <1>9, SMTT(20)

LEMMA CallStep ==
  ASSUME IInv, NEW r \in Regions, Call(r)
  PROVE  IInv'
<1>1. /\ r.off \in 0 .. OffsetUnits - 1 /\ r.size \in Nat
      /\ r.off + r.size <= OffsetUnits
  <2>1. r \in [off : 0 .. OffsetUnits - 1, size : 0 .. MaxContinus]
    BY FreeAssumption
  <2>2. r.off \in 0 .. OffsetUnits - 1 /\ r.size \in 0 .. MaxContinus
    BY <2>1
  <2> QED
    BY <2>2, FreeAssumption, LayoutAssumption
<1>2. /\ before' = lists /\ lists' = lists /\ fs' = fs /\ preset' = preset
      /\ region' = [no |-> calls, off |-> r.off, size |-> r.size]
      /\ left' = r.size /\ off' = r.off
      /\ calls' = calls + 1 /\ pc' = "loop"
      /\ calls < MaxCalls /\ fs[1] # 0
  BY DEF Call
<1>3. /\ fs \in [Classes -> Nat]
      /\ lists \in [Classes -> Seq(Spots)]
      /\ calls \in Nat /\ MaxCalls \in Nat
  BY Types, SMTT(20)
<1>4. \A i \in Classes : Len(lists[i]) - Len(lists[i]) = 0
  BY <1>3
<1>5. AddsUp'
  BY <1>1, <1>2, <1>3, <1>4 DEF AddsUp, Pooled, Classes
<1>6. region' \in [no : Nat, off : Nat, size : Nat] /\ InRegion'
  <2>1. r.off \in 0 .. 2047 /\ r.off + r.size <= 2048
    BY <1>1 DEF OffsetUnits
  <2>2. /\ region' \in [no : Nat, off : Nat, size : Nat]
        /\ region' \in [no : Nat, off : 0 .. 2047, size : Nat]
        /\ region'.off + region'.size <= 2048
    <3>1. r.off \in Nat /\ r.size \in Nat /\ calls \in Nat
      BY <2>1, <1>1, <1>3
    <3> QED
      BY <3>1, <2>1, <1>2
  <2>3. (region.off + (region.size - left))' = r.off + (r.size - r.size)
    BY <1>2
  <2>4. off' = (r.off + (r.size - r.size)) % 2048
    <3>1. r.off \in Nat /\ r.off <= 2047
      <4> DEFINE x == r.off
      <4>1. x \in 0 .. 2047
        BY <2>1
      <4> HIDE DEF x
      <4>2. x \in Nat /\ x <= 2047
        BY <4>1
      <4> QED
        BY <4>2 DEF x
    <3>2. r.off \in Nat /\ r.off <= 2047 /\ r.size \in Nat
      BY <3>1, <1>1
    <3>3. r.off + (r.size - r.size) = r.off /\ r.off % 2048 = r.off
      BY <3>2, Rests
    <3> QED
      BY <3>3, <1>2
  <2> QED
    BY <2>2, <2>3, <2>4, <1>2 DEF InRegion, OffsetUnits
<1>7. TypeOK'
  <2>1. left' \in 0 .. region'.size /\ off' \in 0 .. OffsetUnits - 1
    BY <1>1, <1>2
  <2>2. calls' \in 0 .. MaxCalls
    BY <1>2, <1>3
  <2> QED
    BY <2>1, <2>2, <1>2, <1>3, <1>6 DEF IInv, TypeOK, Spots
<1>8. Fresh'
  <2>1. region'.no = calls /\ calls' = calls + 1
    BY <1>2
  <2>2. ASSUME NEW i \in Classes, fs[i] > 0, lists[i] # << >>
        PROVE  lists[i][1].no < calls + 1 /\ lists[i][1].no # calls
    <3>1. lists[i][1].no < calls
      BY <2>2 DEF IInv, Fresh
    <3>2. lists[i][1] \in Spots
      BY <1>3, <2>2
    <3>3. lists[i][1].no \in Nat
      BY <3>2 DEF Spots
    <3> QED
      BY <3>1, <3>3, <1>3
  <2>3. calls < calls + 1
    BY <1>3
  <2> QED
    BY <2>1, <2>2, <2>3, <1>2 DEF Fresh
<1> QED
  BY <1>2, <1>5, <1>6, <1>7, <1>8 DEF IInv

(* A turn cuts where the region has been cut up to: something is left, so  *)
(* the offset has not wrapped.                                             *)
LEMMA CutPlace ==
  ASSUME IInv, Cut
  PROVE  off = region.off + (region.size - left)
<1> DEFINE d == region.off + (region.size - left)
<1>1. off = d % 2048
  BY DEF Cut, IInv, InRegion, OffsetUnits
<1>2. /\ fs[1] \in Nat
      /\ region.off \in Nat /\ region.size \in Nat
      /\ region.off + region.size <= 2048
      /\ left \in Nat /\ left <= region.size
  BY Types, SMTT(20)
<1>3. left > 0
  <2>1. left >= fs[1] /\ fs[1] # 0
    BY DEF Cut, GoesOn, IInv
  <2> QED
    BY <1>2, <2>1
<1>4. d \in Nat /\ d <= 2047
  BY <1>2, <1>3
<1> HIDE DEF d
<1>5. off = d
  BY <1>1, <1>4, Rests
<1> QED
  BY <1>5 DEF d

(* A block that is not empty is not on its list before it is pushed.       *)
LEMMA CutIsNew ==
  ASSUME IInv, Cut, NEW m \in Classes, fs[m] > 0,
         NEW b, b = [no |-> region.no, off |-> off]
  PROVE  PushedOn(lists[m], b) = <<b>> \o lists[m]
<1>1. CASE lists[m] = << >>
  BY <1>1 DEF PushedOn
<1>2. CASE lists[m] # << >>
  <2>1. lists \in [Classes -> Seq(Spots)]
    BY Types
  <2> DEFINE top == lists[m][1]
  <2>2. Head(lists[m]) = top
    BY <1>2, <2>1
  <2>3. top.no = region.no => top.off < off
    BY <1>2, CutPlace DEF Cut, IInv, Fresh
  <2>4. off \in 0 .. 2047
    BY Types
  <2> HIDE DEF top
  <2>5. \A x \in 0 .. 2047 : ~ (x < x)
    OBVIOUS
  <2>6. b.no = region.no /\ b.off = off
    OBVIOUS
  <2>7. top # b
    BY <2>3, <2>4, <2>5, <2>6
  <2> QED
    BY <1>2, <2>2, <2>7 DEF PushedOn
<1> QED
  BY <1>1, <1>2

LEMMA CutStep ==
  ASSUME IInv, Cut
  PROVE  IInv'
<1> DEFINE m == CutClass
           b == [no |-> region.no, off |-> off]
<1>1. /\ pc = "loop" /\ left >= fs[1]
      /\ lists' = [lists EXCEPT ![m] = PushedOn(@, b)]
      /\ left' = left - fs[m]
      /\ off' = (off + fs[m]) % OffsetUnits
      /\ UNCHANGED <<preset, fs, before, region, calls, pc>>
  BY DEF Cut, GoesOn, Advance
<1>2. m \in Classes /\ left >= fs[m]
  <2> DEFINE s == {i \in Classes : left >= fs[i]}
  <2>1. 1 \in s
    BY <1>1 DEF Classes
  <2> HIDE DEF s
  <2>2. s # {}
    BY <2>1
  <2> QED
    BY <2>2, CutIs DEF s
<1> HIDE DEF m
<1>3. /\ fs \in [Classes -> Nat]
      /\ lists \in [Classes -> Seq(Spots)]
      /\ before \in [Classes -> Seq(Spots)]
      /\ off \in 0 .. 2047
      /\ left \in Nat /\ left <= region.size
      /\ region.off \in Nat /\ region.size \in Nat /\ region.no \in Nat
  BY Types
<1>4. fs[m] \in Nat /\ off \in Nat
  <2>1. \A x \in 0 .. 2047 : x \in Nat
    OBVIOUS
  <2> QED
    BY <2>1, <1>2, <1>3
<1>5. b \in Spots
  BY <1>3 DEF Spots, OffsetUnits
<1> HIDE DEF b
<1>6. /\ lists' \in [Classes -> Seq(Spots)]
      /\ lists'[m] \in Seq(Spots)
      /\ \A i \in Classes \ {m} : lists'[i] = lists[i]
  <2>1. PushedOn(lists[m], b) \in Seq(Spots)
    <3>1. <<b>> \in Seq(Spots) /\ <<b>> \o lists[m] \in Seq(Spots)
      BY <1>2, <1>3, <1>5
    <3> QED
      BY <3>1 DEF PushedOn
  <2> QED
    BY <2>1, <1>1, <1>2, <1>3
<1>a. ASSUME fs[m] > 0
      PROVE  /\ lists'[m] = <<b>> \o lists[m]
             /\ Len(lists'[m]) = Len(lists[m]) + 1
             /\ lists'[m][1] = b
  <2>1. lists'[m] = PushedOn(lists[m], b)
    BY <1>1, <1>2, <1>3
  <2>2. lists'[m] = <<b>> \o lists[m]
    BY <2>1, <1>a, <1>2, CutIsNew DEF b
  <2> QED
    BY <2>2, <1>2, <1>3, <1>5
<1>7. AddsUp'
  <2> DEFINE P(i) == Len(lists[i]) - Len(before[i])
             Q(i) == Len(lists'[i]) - Len(before[i])
  <2>1. \A i \in Classes : P(i) \in Int /\ fs[i] \in Nat
    BY <1>3
  <2>2. /\ Q(m) \in Int
        /\ fs[m] > 0 => Q(m) = P(m) + 1
        /\ \A i \in Classes \ {m} : Q(i) = P(i)
    BY <1>2, <1>3, <1>6, <1>a
  <2>3. region.size - left = P(1) * fs[1] + P(2) * fs[2] + P(3) * fs[3]
    BY DEF IInv, AddsUp, Pooled
  <2> HIDE DEF P, Q
  <2>4. /\ \A i \in Classes : P(i) * fs[i] \in Int
        /\ Q(m) * fs[m] = (P(m) * fs[m]) + fs[m]
    <3> DEFINE p == P(m)
               q == Q(m)
               f == fs[m]
    <3>1. p \in Int /\ q \in Int /\ f \in Nat /\ (f > 0 => q = p + 1)
      <4>1. p \in Int /\ f \in Nat
        BY <2>1, <1>2
      <4>2. q \in Int
        BY <2>2
      <4>3. f > 0 => q = p + 1
        BY <2>2
      <4> QED
        BY <4>1, <4>2, <4>3
    <3> HIDE DEF p, q, f
    <3>2. q * f = (p * f) + f
      <4>1. CASE f > 0
        BY <4>1, <3>1
      <4>2. CASE f = 0
        BY <4>2, <3>1
      <4> QED
        BY <4>1, <4>2, <3>1
    <3>3. \A i \in Classes : P(i) * fs[i] \in Int
      BY <2>1
    <3> QED
      BY <3>2, <3>3 DEF p, q, f
  <2> DEFINE p1 == P(1) * fs[1]
             p2 == P(2) * fs[2]
             p3 == P(3) * fs[3]
  <2>5. (region.size - left) + fs[m]
           = Q(1) * fs[1] + Q(2) * fs[2] + Q(3) * fs[3]
    <3>1. p1 \in Int /\ p2 \in Int /\ p3 \in Int
      BY <2>4 DEF Classes
    <3>2. region.size - left = p1 + p2 + p3
      BY <2>3
    <3>3. fs[m] \in Nat
      BY <1>4
    <3>4. CASE m = 1
      <4>1. Q(1) * fs[1] = p1 + fs[1] /\ Q(2) * fs[2] = p2 /\ Q(3) * fs[3] = p3
        BY <3>4, <2>2, <2>4 DEF Classes
      <4> HIDE DEF p1, p2, p3
      <4> QED
        BY <4>1, <3>1, <3>2, <3>4, <3>3
    <3>5. CASE m = 2
      <4>1. Q(1) * fs[1] = p1 /\ Q(2) * fs[2] = p2 + fs[2] /\ Q(3) * fs[3] = p3
        BY <3>5, <2>2, <2>4 DEF Classes
      <4> HIDE DEF p1, p2, p3
      <4> QED
        BY <4>1, <3>1, <3>2, <3>5, <3>3
    <3>6. CASE m = 3
      <4>1. Q(1) * fs[1] = p1 /\ Q(2) * fs[2] = p2 /\ Q(3) * fs[3] = p3 + fs[3]
        BY <3>6, <2>2, <2>4 DEF Classes
      <4> HIDE DEF p1, p2, p3
      <4> QED
        BY <4>1, <3>1, <3>2, <3>6, <3>3
    <3> QED
      BY <1>2, <3>4, <3>5, <3>6 DEF Classes
  <2>6. region.size - left' = (region.size - left) + fs[m]
    <3>1. region.size \in Nat /\ left \in Nat /\ fs[m] \in Nat
      BY <1>3, <1>4
    <3>2. left' = left - fs[m]
      BY <1>1
    <3> QED
      BY <3>1, <3>2
  <2> QED
    BY <2>5, <2>6, <1>1 DEF AddsUp, Pooled, Q
<1>8. InRegion'
  <2> DEFINE d == region.off + (region.size - left)
             e == region.off + (region.size - left')
  <2>1. d \in Nat /\ e = d + fs[m]
    <3>1. region.off \in Nat /\ region.size \in Nat /\ left \in Nat
          /\ left <= region.size /\ fs[m] \in Nat
      BY <1>3, <1>4
    <3>2. left' = left - fs[m]
      BY <1>1
    <3> QED
      BY <3>1, <3>2
  <2>2. off = d % 2048
    BY <1>1 DEF IInv, InRegion, OffsetUnits
  <2>3. off' = (off + fs[m]) % 2048
    BY <1>1 DEF OffsetUnits
  <2> HIDE DEF d, e
  <2>4. off' = e % 2048
    BY <2>1, <2>2, <2>3, <1>4, Moves
  <2>5. off' = (region.off + (region.size - left')) % OffsetUnits
    BY <2>4 DEF e, OffsetUnits
  <2>6. region' = region
    BY <1>1
  <2> QED
    BY <2>5, <2>6 DEF IInv, InRegion
<1>9. TypeOK'
  <2>1. left' \in 0 .. region.size
    BY <1>1, <1>2, <1>3
  <2>2. off' \in 0 .. OffsetUnits - 1
    <3>1. off' = (off + fs[m]) % 2048
      BY <1>1 DEF OffsetUnits
    <3>2. off + fs[m] \in Nat
      BY <1>4
    <3>3. off' \in 0 .. 2047
      <4> DEFINE e == off + fs[m]
      <4>1. e \in Nat /\ off' = e % 2048
        BY <3>1, <3>2
      <4> HIDE DEF e
      <4>2. e % 2048 \in 0 .. 2047
        BY <4>1, Rests
      <4> QED
        BY <4>1, <4>2
    <3> QED
      BY <3>3 DEF OffsetUnits
  <2> QED
    BY <2>1, <2>2, <1>1, <1>6 DEF IInv, TypeOK, Spots
<1>10. Fresh'
  <2>1. region.no < calls
    BY <1>1 DEF IInv, Fresh
  <2>2. off = region.off + (region.size - left)
    BY CutPlace
  <2> DEFINE from == region.off + (region.size - left)
             to == region.off + (region.size - left')
  <2>3. from \in Nat /\ to = from + fs[m]
    <3>1. region.off \in Nat /\ region.size \in Nat /\ left \in Nat
          /\ left <= region.size /\ fs[m] \in Nat
      BY <1>3, <1>4
    <3>2. left' = left - fs[m]
      BY <1>1
    <3> QED
      BY <3>1, <3>2
  <2>4. ASSUME NEW i \in Classes, fs[i] > 0, lists'[i] # << >>
        PROVE  /\ lists'[i][1].no < calls
               /\ lists'[i][1].no = region.no => lists'[i][1].off < to
    <3>1. CASE i = m
      <4>1. lists'[i][1] = b /\ fs[m] > 0
        BY <3>1, <2>4, <1>a
      <4>2. b.no = region.no /\ b.off = from
        BY <2>2 DEF b
      <4>3. from < to
        <5> HIDE DEF from, to
        <5> QED
          BY <2>3, <4>1, <1>4
      <4> QED
        BY <4>1, <4>2, <4>3, <2>1
    <3>2. CASE i # m
      <4>1. lists'[i] = lists[i] /\ lists[i] # << >>
        BY <3>2, <2>4, <1>6
      <4>2. /\ lists[i][1].no < calls
            /\ lists[i][1].no = region.no => lists[i][1].off < from
        BY <4>1, <2>4, <1>1 DEF IInv, Fresh
      <4>3. lists[i][1] \in Spots
        BY <4>1, <1>3
      <4> DEFINE top == lists[i][1]
                 o == top.off
      <4>4. o \in Nat
        <5>1. \A x \in 0 .. OffsetUnits - 1 : x \in Nat
          BY DEF OffsetUnits
        <5>2. o \in 0 .. OffsetUnits - 1
          BY <4>3 DEF Spots
        <5> HIDE DEF o
        <5> QED
          BY <5>1, <5>2
      <4>5. o < from => o < to
        <5> HIDE DEF o, from, to
        <5> QED
          BY <4>4, <2>3, <1>4
      <4> QED
        BY <4>1, <4>2, <4>5
    <3> QED
      BY <3>1, <3>2
  <2> QED
    BY <2>1, <2>4, <1>1 DEF Fresh
<1> QED
  BY <1>1, <1>7, <1>8, <1>9, <1>10 DEF IInv

LEMMA NextIInv == IInv /\ [Next]_vars => IInv'
<1> SUFFICES ASSUME IInv, [Next]_vars PROVE IInv'
  OBVIOUS
<1>1. CASE \E r \in Regions : Call(r)
  BY <1>1, CallStep
<1>2. CASE Cut
  BY <1>2, CutStep
<1>3. CASE Return
  <2>1. fs[1] \in Nat /\ left \in Nat
    BY Types
  <2>2. /\ ~(left >= fs[1]) /\ pc' = "idle"
        /\ UNCHANGED <<preset, fs, lists, before, region, left, off, calls>>
    BY <1>3 DEF Return, GoesOn
  <2>3. left < fs[1]
    BY <2>1, <2>2
  <2>4. TypeOK'
    BY <2>2 DEF IInv, TypeOK
  <2>5. InRegion' /\ AddsUp' /\ Fresh'
    BY <2>2 DEF IInv, InRegion, AddsUp, Pooled, Fresh
  <2> QED
    BY <2>2, <2>3, <2>4, <2>5 DEF IInv
<1>4. CASE Fail
  BY <1>4 DEF Fail, IInv, TypeOK, InRegion, AddsUp, Pooled, Fresh
<1>5. CASE UNCHANGED vars
  BY <1>5 DEF vars, IInv, TypeOK, InRegion, AddsUp, Pooled, Fresh
<1> QED
  BY <1>1, <1>2, <1>3, <1>4, <1>5 DEF Next

LEMMA Invariance == Spec => []IInv
  BY InitIInv, NextIInv, PTL DEF Spec

(* Every variable has its type: an offset never leaves its field, and the  *)
(* loop never takes more than is left.                                     *)
THEOREM Typed == Spec => []TypeOK
<1>1. IInv => TypeOK
  BY DEF IInv
<1> QED
  BY <1>1, Invariance, PTL

(* A call pools all of the region but an end that is smaller than _free_0, *)
(* whatever the sizes and their order.                                     *)
THEOREM RestSmall == Spec => []RestIsSmall
<1>1. IInv => RestIsSmall
  <2> SUFFICES ASSUME IInv, pc = "idle", calls > 0
               PROVE  LET rest == region.size - (Pooled(1) * fs[1] + Pooled(2) * fs[2]
                                                   + Pooled(3) * fs[3])
                      IN  0 <= rest /\ rest < fs[1]
    BY DEF RestIsSmall, Pooled
  <2> DEFINE sum == Pooled(1) * fs[1] + Pooled(2) * fs[2] + Pooled(3) * fs[3]
  <2>1. region.size - left = sum
    BY DEF IInv, AddsUp
  <2> HIDE DEF sum
  <2>2. region.size \in Nat /\ left \in 0 .. region.size /\ left < fs[1]
    BY DEF IInv, TypeOK, InRegion
  <2>3. sum \in Int
    BY <2>1, <2>2
  <2>4. region.size - sum = left
    BY <2>1, <2>2, <2>3
  <2> QED
    BY <2>2, <2>4 DEF sum
<1> QED
  BY <1>1, Invariance, PTL
---------------------------------------------------------------------------
(* With sizes in increasing order: after a blocks of the largest class,    *)
(* b of the middle one and c of the smallest, cut in this order, no class  *)
(* above the one that was cut last fits any more.                          *)
Shape(a, b, c) ==
  /\ lists[3] = Pushed(region.no, region.off, fs[3], a) \o before[3]
  /\ lists[2] = Pushed(region.no, region.off + a * fs[3], fs[2], b) \o before[2]
  /\ lists[1] = Pushed(region.no, region.off + a * fs[3] + b * fs[2], fs[1], c)
                  \o before[1]
  /\ region.size - left = a * fs[3] + b * fs[2] + c * fs[1]
  /\ b > 0 \/ c > 0 => left + b * fs[2] + c * fs[1] < fs[3]
  /\ c > 0 => left + c * fs[1] < fs[2]

InOrder == Increasing(fs) => \E a, b, c \in Nat : Shape(a, b, c)

LEMMA PushedNone ==
  ASSUME NEW no, NEW start, NEW f, NEW s \in Seq(Places)
  PROVE  Pushed(no, start, f, 0) \o s = s
<1>1. Pushed(no, start, f, 0) = << >>
  BY DEF Pushed
<1> QED
  BY <1>1, ConcatEmptySeq

LEMMA SpotsArePlaces == Seq(Spots) \subseteq Seq(Places)
<1>1. \A x \in 0 .. OffsetUnits - 1 : x \in Nat
  BY DEF OffsetUnits
<1>2. Spots \subseteq Places
  BY <1>1 DEF Spots, Places
<1> QED
  BY <1>2

LEMMA Ordered ==
  ASSUME Increasing(fs)
  PROVE  /\ fs[1] \in Nat /\ fs[2] \in Nat /\ fs[3] \in Nat
         /\ fs[1] > 0 /\ fs[1] <= fs[2] /\ fs[2] <= fs[3]
<1>1. fs[1] \in Nat \ {0} /\ fs[2] \in Nat \ {0} /\ fs[3] \in Nat \ {0}
  BY DEF Increasing, Classes
<1>2. fs[1] <= fs[2] /\ fs[2] <= fs[3]
  BY DEF Increasing
<1> QED
  BY <1>1, <1>2

(* The block a turn cuts goes on top of those of its class, and starts     *)
(* where the region has been cut up to.                                    *)
LEMMA CutPushes ==
  ASSUME IInv, Cut, Increasing(fs), NEW m, m = CutClass
  PROVE  /\ m \in Classes /\ left >= fs[m]
         /\ \A i \in Classes : left >= fs[i] => m >= i
         /\ left' = left - fs[m]
         /\ UNCHANGED <<fs, before, region>>
         /\ \A i \in Classes \ {m} : lists'[i] = lists[i]
         /\ \A start, n \in Nat :
              (/\ start + n * fs[m] = region.off + (region.size - left)
               /\ lists[m] = Pushed(region.no, start, fs[m], n) \o before[m])
                => lists'[m] = Pushed(region.no, start, fs[m], n + 1) \o before[m]
<1> DEFINE b == [no |-> region.no, off |-> off]
<1>1. /\ pc = "loop" /\ left >= fs[1]
      /\ lists' = [lists EXCEPT ![m] = PushedOn(@, b)]
      /\ left' = left - fs[m]
      /\ UNCHANGED <<fs, before, region>>
  BY DEF Cut, GoesOn
<1>2. /\ m \in Classes /\ left >= fs[m]
      /\ \A i \in Classes : left >= fs[i] => m >= i
  <2> DEFINE s == {i \in Classes : left >= fs[i]}
  <2>1. 1 \in s
    BY <1>1 DEF Classes
  <2> HIDE DEF s
  <2>2. s # {}
    BY <2>1
  <2> QED
    BY <2>2, CutIs DEF s
<1>3. /\ lists \in [Classes -> Seq(Spots)]
      /\ before \in [Classes -> Seq(Spots)]
      /\ region.off \in Nat /\ region.size \in Nat /\ region.no \in Nat
      /\ region.off + region.size <= 2048
      /\ left \in Nat /\ left <= region.size
  BY Types, SMTT(20)
<1>4. fs[m] \in Nat /\ fs[m] > 0
  <2>1. fs[1] > 0 /\ fs[2] > 0 /\ fs[3] > 0 /\ fs[1] \in Nat /\ fs[2] \in Nat
        /\ fs[3] \in Nat
    BY Ordered
  <2> QED
    BY <2>1, <1>2 DEF Classes
<1>5. off = region.off + (region.size - left)
  BY CutPlace
<1>6. \A i \in Classes \ {m} : lists'[i] = lists[i]
  BY <1>1, <1>3
<1>7. lists'[m] = <<b>> \o lists[m]
  <2>1. lists'[m] = PushedOn(lists[m], b)
    BY <1>1, <1>2, <1>3
  <2> QED
    BY <2>1, <1>2, <1>4, CutIsNew
<1>8. ASSUME NEW start \in Nat, NEW n \in Nat,
             start + n * fs[m] = region.off + (region.size - left),
             lists[m] = Pushed(region.no, start, fs[m], n) \o before[m]
      PROVE  lists'[m] = Pushed(region.no, start, fs[m], n + 1) \o before[m]
  <2>1. before[m] \in Seq(Places)
    BY <1>2, <1>3, SpotsArePlaces
  <2>2. b = [no |-> region.no, off |-> start + n * fs[m]]
    BY <1>5, <1>8
  <2>3. <<[no |-> region.no, off |-> start + n * fs[m]]>>
            \o (Pushed(region.no, start, fs[m], n) \o before[m])
          = Pushed(region.no, start, fs[m], n + 1) \o before[m]
    <3> DEFINE c == region.no
               f == fs[m]
               t == before[m]
               Goal(w, x, y, z, u) ==
                 <<[no |-> w, off |-> x + z * y]>> \o (Pushed(w, x, y, z) \o u)
                   = Pushed(w, x, y, z + 1) \o u
    <3>1. c \in Nat /\ f \in Nat /\ t \in Seq(Places)
      BY <2>1, <1>3, <1>4
    <3>2. \A w, x, y, z \in Nat, u \in Seq(Places) : Goal(w, x, y, z, u)
      BY PushedOne
    <3>3. start \in Nat /\ n \in Nat
      BY <1>8
    <3> HIDE DEF c, f, t, Goal
    <3>4. Goal(c, start, f, n, t)
      BY <3>1, <3>2, <3>3
    <3> QED
      BY <3>4 DEF c, f, t, Goal
  <2> QED
    BY <1>7, <1>8, <2>2, <2>3
<1> QED
  BY <1>1, <1>2, <1>6, <1>8

LEMMA CutShape ==
  ASSUME IInv, Cut, Increasing(fs),
         NEW a \in Nat, NEW b \in Nat, NEW c \in Nat, Shape(a, b, c)
  PROVE  \E x, y, z \in Nat : Shape(x, y, z)'
<1> DEFINE m == CutClass
           p3 == a * fs[3]
           p2 == b * fs[2]
           p1 == c * fs[1]
           r == region.off
<1>1. /\ m \in Classes /\ left >= fs[m]
      /\ \A i \in Classes : left >= fs[i] => m >= i
      /\ left' = left - fs[m]
      /\ fs' = fs /\ before' = before /\ region' = region
      /\ \A i \in Classes \ {m} : lists'[i] = lists[i]
      /\ \A start, n \in Nat :
           (/\ start + n * fs[m] = region.off + (region.size - left)
            /\ lists[m] = Pushed(region.no, start, fs[m], n) \o before[m])
             => lists'[m] = Pushed(region.no, start, fs[m], n + 1) \o before[m]
  BY CutPushes
<1> HIDE DEF m
<1>2. /\ fs[1] \in Nat /\ fs[2] \in Nat /\ fs[3] \in Nat
      /\ fs[1] > 0 /\ fs[1] <= fs[2] /\ fs[2] <= fs[3]
  BY Ordered
<1>3. /\ before \in [Classes -> Seq(Spots)]
      /\ r \in Nat /\ region.size \in Nat /\ region.no \in Nat
      /\ left \in Nat /\ left <= region.size
  BY Types
<1>4. before[1] \in Seq(Places) /\ before[2] \in Seq(Places)
  BY <1>3, SpotsArePlaces DEF Classes
<1>5. /\ p3 \in Nat /\ p2 \in Nat /\ p1 \in Nat
      /\ (a + 1) * fs[3] = p3 + fs[3]
      /\ (b + 1) * fs[2] = p2 + fs[2]
      /\ (c + 1) * fs[1] = p1 + fs[1]
      /\ 0 * fs[2] = 0 /\ 0 * fs[1] = 0
  BY <1>2, Times
<1>6. /\ lists[3] = Pushed(region.no, r, fs[3], a) \o before[3]
      /\ lists[2] = Pushed(region.no, r + p3, fs[2], b) \o before[2]
      /\ lists[1] = Pushed(region.no, r + p3 + p2, fs[1], c) \o before[1]
  BY DEF Shape
<1>7. /\ region.size - left = p3 + p2 + p1
      /\ b > 0 \/ c > 0 => left + p2 + p1 < fs[3]
      /\ c > 0 => left + p1 < fs[2]
  BY DEF Shape
<1>8. p3 \in Nat /\ p2 \in Nat /\ p1 \in Nat
  BY <1>5
<1>9. region.size \in Nat /\ left \in Nat /\ left <= region.size
  BY <1>3
<1>10. b = 0 => p2 = 0
  BY <1>5
<1>11. c = 0 => p1 = 0
  BY <1>5
<1>12. a + 1 \in Nat /\ b + 1 \in Nat /\ c + 1 \in Nat /\ 0 \in Nat
  OBVIOUS
<1>13. CASE m = 3
  <2>1. left >= fs[3] /\ left' = left - fs[3]
    BY <1>1, <1>13
  <2>2. b = 0 /\ c = 0 /\ p1 = 0 /\ p2 = 0
    <3> HIDE DEF p1, p2, p3
    <3>1. b = 0 /\ c = 0
      BY <2>1, <1>2, <1>7, <1>8, <1>9
    <3> QED
      BY <3>1, <1>10, <1>11
  <2>3. lists'[3] = Pushed(region.no, r, fs[3], a + 1) \o before[3]
    <3>1. r + a * fs[3] = r + (region.size - left)
      <4> HIDE DEF p1, p2, r
      <4>1. region.size - left = p3
        BY <2>2, <1>7, <1>8
      <4> QED
        BY <4>1
    <3> QED
      BY <3>1, <1>1, <1>3, <1>6, <1>13
  <2>4. /\ lists'[2] = before[2] /\ lists'[1] = before[1]
    <3>1. lists'[2] = lists[2] /\ lists'[1] = lists[1]
      BY <1>1, <1>13 DEF Classes
    <3>2. /\ lists[2] = Pushed(region.no, r + p3, fs[2], 0) \o before[2]
          /\ lists[1] = Pushed(region.no, r + p3 + p2, fs[1], 0) \o before[1]
      BY <1>6, <2>2
    <3> QED
      <4>1. /\ Pushed(region.no, r + p3, fs[2], 0) \o before[2] = before[2]
            /\ Pushed(region.no, r + p3 + p2, fs[1], 0) \o before[1] = before[1]
        BY <1>4, PushedNone
      <4> QED
        BY <3>1, <3>2, <4>1
  <2> DEFINE q3 == (a + 1) * fs[3]
             q2 == 0 * fs[2]
             q1 == 0 * fs[1]
  <2>5. /\ lists'[2] = Pushed(region.no, r + q3, fs[2], 0) \o before[2]
        /\ lists'[1] = Pushed(region.no, r + q3 + q2, fs[1], 0) \o before[1]
    <3>1. \A start, f : /\ Pushed(region.no, start, f, 0) \o before[2] = before[2]
                       /\ Pushed(region.no, start, f, 0) \o before[1] = before[1]
      BY <1>4, PushedNone
    <3> QED
      BY <2>4, <3>1
  <2>6. region.size - left' = q3 + q2 + q1
    <3>1. q3 = p3 + fs[3] /\ q2 = 0 /\ q1 = 0
      BY <1>5
    <3>2. p3 \in Nat /\ region.size - left = p3 + p2 + p1
      BY <1>7, <1>8
    <3> HIDE DEF p1, p2, p3, q1, q2, q3
    <3> QED
      BY <3>1, <3>2, <2>1, <2>2, <1>2, <1>9
  <2>7. Shape(a + 1, 0, 0)'
    BY <2>3, <2>5, <2>6, <1>1 DEF Shape
  <2> QED
    BY <2>7, <1>12
<1>14. CASE m = 2
  <2>1. left >= fs[2] /\ left' = left - fs[2] /\ left < fs[3]
    <3>1. ~ (left >= fs[3])
      BY <1>1, <1>14 DEF Classes
    <3> QED
      BY <3>1, <1>1, <1>2, <1>3, <1>14
  <2>2. c = 0 /\ p1 = 0
    <3> HIDE DEF p1, p2, p3
    <3>1. c = 0
      BY <2>1, <1>2, <1>7, <1>8, <1>9
    <3> QED
      BY <3>1, <1>11
  <2>3. lists'[2] = Pushed(region.no, r + p3, fs[2], b + 1) \o before[2]
    <3>1. (r + p3) + b * fs[2] = r + (region.size - left) /\ r + p3 \in Nat
      <4>1. region.size - left = p3 + p2 + p1
        BY <1>7
      <4>2. p3 \in Nat /\ p2 \in Nat /\ r \in Nat
        BY <1>5, <1>3
      <4>3. (r + p3) + p2 = r + (region.size - left) /\ r + p3 \in Nat
        <5> HIDE DEF p1, p2, p3, r
        <5> QED
          BY <4>1, <4>2, <2>2
      <4> QED
        BY <4>3
    <3> HIDE DEF p3
    <3> QED
      BY <3>1, <1>1, <1>6, <1>14
  <2>4. lists'[3] = lists[3] /\ lists'[1] = before[1]
    <3>1. lists'[3] = lists[3] /\ lists'[1] = lists[1]
      BY <1>1, <1>14 DEF Classes
    <3>2. lists[1] = Pushed(region.no, r + p3 + p2, fs[1], 0) \o before[1]
      BY <1>6, <2>2
    <3> QED
      BY <3>1, <3>2, <1>4, PushedNone
  <2> DEFINE q2 == (b + 1) * fs[2]
             q1 == 0 * fs[1]
  <2>5. lists'[1] = Pushed(region.no, r + p3 + q2, fs[1], 0) \o before[1]
    BY <2>4, <1>4, PushedNone
  <2>6. /\ region.size - left' = p3 + q2 + q1
        /\ left' + q2 + q1 < fs[3]
    <3>1. q2 = p2 + fs[2] /\ q1 = 0
      BY <1>5
    <3>2. p3 \in Nat /\ p2 \in Nat /\ region.size - left = p3 + p2 + p1
      BY <1>7, <1>8
    <3>3. left + p2 < fs[3]
      <4>1. CASE b > 0
        <5> HIDE DEF p1, p2
        <5> QED
          BY <4>1, <1>7, <2>2, <3>2, <1>9
      <4>2. CASE b = 0
        <5> HIDE DEF p1, p2
        <5> QED
          BY <4>2, <1>10, <2>1, <1>3
      <4> QED
        BY <4>1, <4>2
    <3> HIDE DEF p1, p2, p3, q1, q2
    <3> QED
      BY <3>1, <3>2, <3>3, <2>1, <2>2, <1>2, <1>9
  <2>7. Shape(a, b + 1, 0)'
    <3>1. /\ lists'[3] = Pushed(region.no, r, fs[3], a) \o before[3]
          /\ UNCHANGED <<fs, before, region>>
      BY <2>4, <1>1, <1>6
    <3> QED
      BY <3>1, <2>3, <2>5, <2>6 DEF Shape
  <2> QED
    BY <2>7, <1>12
<1>15. CASE m = 1
  <2>1. left >= fs[1] /\ left' = left - fs[1] /\ left < fs[3] /\ left < fs[2]
    <3>1. ~ (left >= fs[3]) /\ ~ (left >= fs[2])
      BY <1>1, <1>15 DEF Classes
    <3>2. left >= fs[1] /\ left' = left - fs[1]
      BY <1>1, <1>15
    <3>3. fs[2] \in Nat /\ fs[3] \in Nat /\ left \in Nat
      BY <1>2, <1>3
    <3> QED
      BY <3>1, <3>2, <3>3
  <2>2. lists'[1] = Pushed(region.no, r + p3 + p2, fs[1], c + 1) \o before[1]
    <3>1. (r + p3 + p2) + c * fs[1] = r + (region.size - left) /\ r + p3 + p2 \in Nat
      <4>1. region.size - left = p3 + p2 + p1
        BY <1>7
      <4>2. p3 \in Nat /\ p2 \in Nat /\ p1 \in Nat /\ r \in Nat
        BY <1>5, <1>3
      <4>3. (r + p3 + p2) + p1 = r + (region.size - left) /\ r + p3 + p2 \in Nat
        <5> HIDE DEF p1, p2, p3, r
        <5> QED
          BY <4>1, <4>2
      <4> QED
        BY <4>3
    <3> HIDE DEF p2, p3
    <3> QED
      BY <3>1, <1>1, <1>6, <1>15
  <2>3. lists'[3] = lists[3] /\ lists'[2] = lists[2]
    BY <1>1, <1>15 DEF Classes
  <2> DEFINE q1 == (c + 1) * fs[1]
  <2>4. /\ region.size - left' = p3 + p2 + q1
        /\ left' + p2 + q1 < fs[3]
        /\ left' + q1 < fs[2]
    <3>1. q1 = p1 + fs[1]
      BY <1>5
    <3>2. p3 \in Nat /\ p2 \in Nat /\ p1 \in Nat
          /\ region.size - left = p3 + p2 + p1
      BY <1>7, <1>8
    <3>3. left + p1 < fs[2]
      <4>1. CASE c > 0
        BY <4>1, <1>7
      <4>2. CASE c = 0
        <5> HIDE DEF p1
        <5> QED
          BY <4>2, <1>11, <2>1, <1>3
      <4> QED
        BY <4>1, <4>2
    <3>4. left + p2 + p1 < fs[3]
      <4>1. CASE b > 0 \/ c > 0
        BY <4>1, <1>7
      <4>2. CASE b = 0 /\ c = 0
        <5> HIDE DEF p1, p2
        <5> QED
          BY <4>2, <1>10, <1>11, <2>1, <1>3
      <4> QED
        BY <4>1, <4>2
    <3> HIDE DEF p1, p2, p3, q1
    <3>5. region.size - left' = p3 + p2 + q1
      BY <3>1, <3>2, <2>1, <1>2, <1>9
    <3>6. left' + p2 + q1 < fs[3]
      BY <3>1, <3>2, <3>4, <2>1, <1>2, <1>9
    <3>7. left' + q1 < fs[2]
      BY <3>1, <3>2, <3>3, <2>1, <1>2, <1>9
    <3> QED
      BY <3>5, <3>6, <3>7
  <2>5. Shape(a, b, c + 1)'
    BY <2>2, <2>3, <2>4, <1>1, <1>6 DEF Shape
  <2> QED
    BY <2>5, <1>12
<1> QED
  BY <1>1, <1>13, <1>14, <1>15 DEF Classes

LEMMA InitInOrder == Init => InOrder
<1> SUFFICES ASSUME Init, Increasing(fs) PROVE Shape(0, 0, 0)
  BY DEF InOrder
<1>1. /\ fs[1] \in Nat /\ fs[2] \in Nat /\ fs[3] \in Nat
  BY Ordered
<1>2. 0 * fs[1] = 0 /\ 0 * fs[2] = 0 /\ 0 * fs[3] = 0
  BY <1>1, Times
<1>3. /\ lists = EmptyLists /\ before = EmptyLists /\ left = 0
      /\ region = [no |-> 0, off |-> 0, size |-> 0]
  BY DEF Init
<1>4. \A start, f : Pushed(region.no, start, f, 0) \o << >> = << >>
  <2>1. << >> \in Seq(Places)
    OBVIOUS
  <2> QED
    BY <2>1, PushedNone
<1>5. /\ lists[1] = << >> /\ lists[2] = << >> /\ lists[3] = << >>
      /\ before[1] = << >> /\ before[2] = << >> /\ before[3] = << >>
  BY <1>3 DEF EmptyLists, Classes
<1>6. region.size - left = 0 * fs[3] + 0 * fs[2] + 0 * fs[1]
  BY <1>2, <1>3
<1>7. ~ (0 > 0)
  OBVIOUS
<1>8. /\ lists[3] = Pushed(region.no, region.off, fs[3], 0) \o before[3]
      /\ lists[2] = Pushed(region.no, region.off + 0 * fs[3], fs[2], 0) \o before[2]
      /\ lists[1] = Pushed(region.no, region.off + 0 * fs[3] + 0 * fs[2], fs[1], 0)
                      \o before[1]
  BY <1>4, <1>5
<1> QED
  BY <1>6, <1>7, <1>8 DEF Shape

LEMMA NextInOrder == IInv /\ InOrder /\ [Next]_vars => InOrder'
<1> SUFFICES ASSUME IInv, InOrder, [Next]_vars, Increasing(fs)'
             PROVE  \E a, b, c \in Nat : Shape(a, b, c)'
  BY DEF InOrder
<1>1. fs' = fs /\ Increasing(fs)
  BY DEF Next, vars, Call, Fail, Cut, Return, Increasing
<1>2. PICK a, b, c \in Nat : Shape(a, b, c)
  BY <1>1 DEF InOrder
<1>3. ASSUME NEW r \in Regions, Call(r)
      PROVE  \E x, y, z \in Nat : Shape(x, y, z)'
  <2>1. /\ lists' = lists /\ before' = lists /\ left' = r.size
        /\ region' = [no |-> calls, off |-> r.off, size |-> r.size]
    BY <1>3 DEF Call
  <2>2. lists \in [Classes -> Seq(Places)]
    <3>1. lists \in [Classes -> Seq(Spots)]
      BY Types
    <3> QED
      BY <3>1, SpotsArePlaces
  <2>3. \A i \in Classes : \A start, f : Pushed(calls, start, f, 0) \o lists[i] = lists[i]
    BY <2>2, PushedNone
  <2>4. 0 * fs[1] = 0 /\ 0 * fs[2] = 0 /\ 0 * fs[3] = 0
    BY <1>1, Ordered, Times
  <2>5. r.size - r.size = 0 /\ 0 + 0 + 0 = 0
    <3>1. r.size \in 0 .. MaxContinus
      BY FreeAssumption
    <3>2. r.size \in Int
      BY <3>1, LayoutAssumption
    <3> QED
      BY <3>2
  <2>6. /\ lists'[3] = before'[3] /\ lists'[2] = before'[2] /\ lists'[1] = before'[1]
        /\ region'.no = calls /\ region'.size - left' = 0
    BY <2>1, <2>5
  <2>7. /\ lists'[3] = Pushed(region'.no, region'.off, fs'[3], 0) \o before'[3]
        /\ lists'[2] = Pushed(region'.no, region'.off + 0 * fs'[3], fs'[2], 0)
                         \o before'[2]
        /\ lists'[1] = Pushed(region'.no, region'.off + 0 * fs'[3] + 0 * fs'[2],
                              fs'[1], 0) \o before'[1]
    <3>1. \A start, f : /\ Pushed(calls, start, f, 0) \o lists[1] = lists[1]
                       /\ Pushed(calls, start, f, 0) \o lists[2] = lists[2]
                       /\ Pushed(calls, start, f, 0) \o lists[3] = lists[3]
      <4>1. 1 \in Classes /\ 2 \in Classes /\ 3 \in Classes
        BY DEF Classes
      <4> QED
        BY <4>1, <2>3
    <3>2. lists' = lists /\ before' = lists
      BY <2>1
    <3> QED
      BY <2>6, <3>1, <3>2
  <2>8. region'.size - left' = 0 * fs'[3] + 0 * fs'[2] + 0 * fs'[1]
    BY <1>1, <2>4, <2>5, <2>6
  <2>9. ~ (0 > 0)
    OBVIOUS
  <2>10. Shape(0, 0, 0)'
    BY <2>7, <2>8, <2>9 DEF Shape
  <2> QED
    BY <2>10
<1>4. CASE Cut
  BY <1>1, <1>2, <1>4, CutShape
<1>5. CASE Fail \/ Return \/ UNCHANGED vars
  <2>1. UNCHANGED <<fs, lists, before, region, left>>
    BY <1>5 DEF Fail, Return, vars
  <2>2. Shape(a, b, c)'
    BY <1>2, <2>1 DEF Shape
  <2> QED
    BY <2>2
<1> QED
  BY <1>3, <1>4, <1>5 DEF Next

(* What the divisions of the closed form give.                             *)
LEMMA Cutting ==
  ASSUME IInv, Increasing(fs), left < fs[1],
         NEW a \in Nat, NEW b \in Nat, NEW c \in Nat, Shape(a, b, c)
  PROVE  /\ Count(fs, region.size, 3) = a
         /\ Count(fs, region.size, 2) = b
         /\ Count(fs, region.size, 1) = c
         /\ region.off + (region.size - Left(fs, region.size, 3)) = region.off
         /\ region.off + (region.size - Left(fs, region.size, 2))
              = region.off + a * fs[3]
         /\ region.off + (region.size - Left(fs, region.size, 1))
              = region.off + a * fs[3] + b * fs[2]
<1> DEFINE p3 == a * fs[3]
           p2 == b * fs[2]
           p1 == c * fs[1]
           size == region.size
           l2 == p2 + p1 + left
           l1 == p1 + left
<1>1. /\ fs[1] \in Nat /\ fs[2] \in Nat /\ fs[3] \in Nat
      /\ fs[1] > 0 /\ fs[1] <= fs[2] /\ fs[2] <= fs[3]
  BY Ordered
<1>2. region.off \in Nat /\ size \in Nat /\ left \in Nat
  BY Types
<1>3. /\ p3 \in Nat /\ p2 \in Nat /\ p1 \in Nat
      /\ (b = 0 => p2 = 0) /\ (c = 0 => p1 = 0)
  BY <1>1, Times
<1>4. /\ size - left = p3 + p2 + p1
      /\ b > 0 \/ c > 0 => left + p2 + p1 < fs[3]
      /\ c > 0 => left + p1 < fs[2]
  BY DEF Shape
<1> HIDE DEF p1, p2, p3, size
<1>5. l1 \in Nat /\ l2 \in Nat /\ l2 = p2 + l1 /\ size = p3 + l2
  BY <1>2, <1>3, <1>4
<1>6. l2 < fs[3]
  <2>1. CASE b > 0 \/ c > 0
    BY <2>1, <1>2, <1>3, <1>4
  <2>2. CASE b = 0 /\ c = 0
    BY <2>2, <1>1, <1>2, <1>3
  <2> QED
    BY <2>1, <2>2
<1>7. l1 < fs[2]
  <2>1. CASE c > 0
    BY <2>1, <1>2, <1>3, <1>4
  <2>2. CASE c = 0
    BY <2>2, <1>1, <1>2, <1>3
  <2> QED
    BY <2>1, <2>2
<1>8. l1 = p1 + left
  OBVIOUS
<1> HIDE DEF l1, l2
<1>9. fs[1] \in Nat \ {0} /\ fs[2] \in Nat \ {0} /\ fs[3] \in Nat \ {0}
  BY <1>1
<1>10. size \div fs[3] = a /\ size % fs[3] = l2
  <2>1. (a * fs[3] + l2) \div fs[3] = a /\ (a * fs[3] + l2) % fs[3] = l2
    BY <1>5, <1>6, <1>9, Divided
  <2> QED
    BY <2>1, <1>5 DEF p3
<1>11. l2 \div fs[2] = b /\ l2 % fs[2] = l1
  <2>1. (b * fs[2] + l1) \div fs[2] = b /\ (b * fs[2] + l1) % fs[2] = l1
    BY <1>5, <1>7, <1>9, Divided
  <2> QED
    BY <2>1, <1>5 DEF p2
<1>12. l1 \div fs[1] = c
  <2>1. (c * fs[1] + left) \div fs[1] = c
    BY <1>2, <1>9, Divided
  <2> QED
    BY <2>1, <1>8 DEF p1
<1>13. /\ Left(fs, size, 3) = size
       /\ Left(fs, size, 2) = l2
       /\ Left(fs, size, 1) = l1
  BY <1>10, <1>11 DEF Left
<1>14. /\ Count(fs, size, 3) = a
       /\ Count(fs, size, 2) = b
       /\ Count(fs, size, 1) = c
  BY <1>10, <1>11, <1>12, <1>13 DEF Count
<1>15. /\ region.off + (size - size) = region.off
       /\ region.off + (size - l2) = region.off + p3
       /\ region.off + (size - l1) = region.off + p3 + p2
  BY <1>2, <1>3, <1>5
<1> QED
  BY <1>13, <1>14, <1>15 DEF p2, p3, size

(* A call leaves the lists the closed form gives, for every region of a    *)
(* chunk and all sizes in increasing order: the other modules may take     *)
(* PoolFree for the loop.                                                  *)
THEOREM LoopIsClosedForm == Spec => []ClosedForm
<1>1. IInv /\ InOrder => ClosedForm
  <2> SUFFICES ASSUME IInv, InOrder, pc = "idle", calls > 0, Increasing(fs)
               PROVE  lists = PoolFree(fs, before, region, region.size)
    BY DEF ClosedForm
  <2>1. PICK a, b, c \in Nat : Shape(a, b, c)
    BY DEF InOrder
  <2>2. left < fs[1]
    BY DEF IInv
  <2>3. /\ Count(fs, region.size, 3) = a
        /\ Count(fs, region.size, 2) = b
        /\ Count(fs, region.size, 1) = c
        /\ region.off + (region.size - Left(fs, region.size, 3)) = region.off
        /\ region.off + (region.size - Left(fs, region.size, 2))
             = region.off + a * fs[3]
        /\ region.off + (region.size - Left(fs, region.size, 1))
             = region.off + a * fs[3] + b * fs[2]
    BY <2>1, <2>2, Cutting
  <2>4. \A i \in Classes :
          Carved(fs, region, region.size, i)
            = Pushed(region.no,
                     region.off + (region.size - Left(fs, region.size, i)),
                     fs[i], Count(fs, region.size, i))
    BY DEF Carved, Pushed
  <2>5. \A i \in Classes :
          lists[i] = Carved(fs, region, region.size, i) \o before[i]
    <3>1. /\ lists[3] = Pushed(region.no, region.off, fs[3], a) \o before[3]
          /\ lists[2] = Pushed(region.no, region.off + a * fs[3], fs[2], b)
                          \o before[2]
          /\ lists[1] = Pushed(region.no, region.off + a * fs[3] + b * fs[2],
                               fs[1], c) \o before[1]
      BY <2>1 DEF Shape
    <3>2. /\ Carved(fs, region, region.size, 3)
               = Pushed(region.no, region.off, fs[3], a)
          /\ Carved(fs, region, region.size, 2)
               = Pushed(region.no, region.off + a * fs[3], fs[2], b)
          /\ Carved(fs, region, region.size, 1)
               = Pushed(region.no, region.off + a * fs[3] + b * fs[2], fs[1], c)
      <4>1. 1 \in Classes /\ 2 \in Classes /\ 3 \in Classes
        BY DEF Classes
      <4> QED
        BY <2>3, <2>4, <4>1
    <3>3. \A i \in Classes : i = 1 \/ i = 2 \/ i = 3
      BY DEF Classes
    <3>4. /\ lists[1] = Carved(fs, region, region.size, 1) \o before[1]
          /\ lists[2] = Carved(fs, region, region.size, 2) \o before[2]
          /\ lists[3] = Carved(fs, region, region.size, 3) \o before[3]
      BY <3>1, <3>2
    <3> QED
      BY <3>3, <3>4
  <2>6. lists \in [Classes -> Seq(Spots)]
    BY Types
  <2> QED
    BY <2>5, <2>6 DEF PoolFree
<1> QED
  BY <1>1, Invariance, InitInOrder, NextInOrder, PTL DEF Spec
=============================================================================
