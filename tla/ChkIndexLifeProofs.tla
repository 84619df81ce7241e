------------------------ MODULE ChkIndexLifeProofs ------------------------
(***************************************************************************)
(* Proofs about ChkIndexLife: whatever calls an index gets, it is in one   *)
(* of its layouts (Open, Packed), memory is given back whole and never     *)
(* lost, and no change of layout loses a mark.  For any number of chunks,  *)
(* any sizes of them, and both ways of uncompress.                         *)
(*                                                                         *)
(* The file goes: sums and steps, pieces of memory, the invariant, one     *)
(* part per operator of ChkIndexLife (it keeps Open or leads from Open to  *)
(* Packed and back), what each does to the marks, the actions, and the     *)
(* theorems.                                                               *)
(***************************************************************************)
EXTENDS ChkIndexLife, FiniteSetTheorems, WellFoundedInduction, TLAPS

---------------------------------------------------------------------------
(* Sums.  The library adds up the capacities by a recursive function over  *)
(* sets; here the sum is the number of points below them.                  *)
Cap(chk, n) == chk[n].capacity

(* A set of sets has one that is left as soon as an element is dropped. *)
LEMMA Smallest ==
  ASSUME NEW S, IsFiniteSet(S), NEW B, B \subseteq SUBSET S, B # {}
  PROVE  \E s \in B : \A x \in s : s \ {x} \notin B
<1> DEFINE T == {Cardinality(s) : s \in B}
<1>1. \A s \in B : IsFiniteSet(s) /\ Cardinality(s) \in Nat
  BY FS_Subset, FS_CardinalityType
<1>2. T \subseteq Nat /\ T # {}
  BY <1>1
<1> HIDE DEF T
<1>3. PICK m \in T : \A k \in T : <<k, m>> \notin OpToRel(<, Nat)
  BY <1>2, WFMin, NatLessThanWellFounded, Zenon
<1>4. \A k \in T : k \in Nat /\ ~ (k < m)
  BY <1>2, <1>3, Zenon DEF OpToRel
<1>5. PICK s \in B : m = Cardinality(s)
  BY <1>3 DEF T
<1>6. ASSUME NEW x \in s, s \ {x} \in B
      PROVE  FALSE
  <2>1. Cardinality(s \ {x}) = Cardinality(s) - 1
    BY <1>1, <1>6, FS_RemoveElement
  <2>2. Cardinality(s \ {x}) \in T
    BY <1>6 DEF T
  <2> QED
    BY <1>1, <1>4, <1>5, <2>1, <2>2
<1> QED
  BY <1>6

(* The points below the capacities of the chunks in s. *)
Area(chk, s) == {p \in s \X Nat : p[2] < Cap(chk, p[1])}

(* No chunk, no points. *)
LEMMA AreaNone ==
  ASSUME NEW chk
  PROVE  IsFiniteSet(Area(chk, {})) /\ Cardinality(Area(chk, {})) = 0
<1>1. Area(chk, {}) = {}
  BY DEF Area
<1> QED
  BY <1>1, FS_EmptySet

(* One more chunk adds its capacity to the number of points. *)
LEMMA AreaSplit ==
  ASSUME NEW chk, NEW s, NEW x \in s, Cap(chk, x) \in Nat, IsFiniteSet(Area(chk, s \ {x}))
  PROVE  /\ IsFiniteSet(Area(chk, s))
         /\ Cardinality(Area(chk, s)) = Cap(chk, x) + Cardinality(Area(chk, s \ {x}))
         /\ Cardinality(Area(chk, s \ {x})) \in Nat
<1> DEFINE K == 0 .. Cap(chk, x) - 1
           strip == {x} \X K
           rest == Area(chk, s \ {x})
<1>1. \A k \in Nat : k \in K <=> k < Cap(chk, x)
  OBVIOUS
<1>2. K \subseteq Nat
  OBVIOUS
<1>3. IsFiniteSet(K) /\ Cardinality(K) = Cap(chk, x)
  <2> DEFINE m == Cap(chk, x)
  <2>1. m \in Nat
    OBVIOUS
  <2> HIDE DEF m
  <2>2. 0 \in Int /\ m - 1 \in Int
    BY <2>1
  <2>3. /\ IsFiniteSet(0 .. m - 1)
        /\ Cardinality(0 .. m - 1) = IF 0 > m - 1 THEN 0 ELSE (m - 1) - 0 + 1
    BY <2>2, FS_Interval
  <2>4. IsFiniteSet(0 .. m - 1) /\ Cardinality(0 .. m - 1) = m
    BY <2>1, <2>3
  <2> QED
    BY <2>4 DEF m
<1> HIDE DEF K
<1>4. IsFiniteSet(strip) /\ Cardinality(strip) = Cap(chk, x)
  <2>1. IsFiniteSet({x}) /\ Cardinality({x}) = 1
    BY FS_Singleton
  <2>2. /\ IsFiniteSet({x} \X K)
        /\ Cardinality({x} \X K) = Cardinality({x}) * Cardinality(K)
    BY <1>3, <2>1, FS_Product
  <2> QED
    BY <1>3, <2>1, <2>2
<1>5. Area(chk, s) = strip \cup rest
  <2>1. ASSUME NEW p \in Area(chk, s)
        PROVE  p \in strip \cup rest
    <3>1. PICK y \in s, k \in Nat : p = <<y, k>> /\ k < Cap(chk, y)
      BY <2>1 DEF Area
    <3>2. CASE y = x
      BY <3>1, <3>2, <1>1
    <3>3. CASE y # x
      BY <3>1, <3>3 DEF Area
    <3> QED
      BY <3>2, <3>3
  <2>2. ASSUME NEW p \in strip
        PROVE  p \in Area(chk, s)
    <3>1. PICK k \in K : p = <<x, k>>
      BY <2>2
    <3>2. k \in Nat /\ k < Cap(chk, x)
      BY <3>1, <1>1, <1>2
    <3> QED
      BY <3>1, <3>2 DEF Area
  <2>3. rest \subseteq Area(chk, s)
    BY DEF Area
  <2> QED
    BY <2>1, <2>2, <2>3
<1>6. strip \cap rest = {}
  BY DEF Area
<1> HIDE DEF strip, rest
<1>7. Cardinality(strip) \in Nat /\ Cardinality(rest) \in Nat /\ IsFiniteSet(rest)
  BY <1>4, FS_CardinalityType DEF rest
<1>8. /\ IsFiniteSet(strip \cup rest)
      /\ Cardinality(strip \cup rest) =
           Cardinality(strip) + Cardinality(rest) - Cardinality(strip \cap rest)
  BY <1>4, <1>7, FS_Union
<1>9. Cardinality(strip \cap rest) = 0
  BY <1>6, FS_EmptySet
<1>10. Cardinality(strip \cup rest) = Cap(chk, x) + Cardinality(rest)
  BY <1>4, <1>7, <1>8, <1>9
<1> QED
  BY <1>5, <1>7, <1>8, <1>10 DEF rest

(* Finitely many chunks have finitely many points. *)
LEMMA AreaFinite ==
  ASSUME NEW S, IsFiniteSet(S), NEW chk, \A n \in S : Cap(chk, n) \in Nat
  PROVE  \A s \in SUBSET S : /\ IsFiniteSet(Area(chk, s))
                             /\ Cardinality(Area(chk, s)) \in Nat
<1> DEFINE B == {s \in SUBSET S : ~ IsFiniteSet(Area(chk, s))}
<1>1. B = {}
  <2> SUFFICES ASSUME B # {} PROVE FALSE
    OBVIOUS
  <2>1. B \subseteq SUBSET S
    OBVIOUS
  <2>2. PICK s \in B : \A x \in s : s \ {x} \notin B
    <3> HIDE DEF B
    <3> QED
      BY <2>1, Smallest
  <2>3. s # {}
    BY <2>2, AreaNone
  <2>4. PICK x \in s : TRUE
    BY <2>3
  <2>5. Cap(chk, x) \in Nat /\ IsFiniteSet(Area(chk, s \ {x}))
    BY <2>2, <2>4
  <2>6. IsFiniteSet(Area(chk, s))
    BY <2>4, <2>5, AreaSplit
  <2> QED
    BY <2>2, <2>6
<1> QED
  BY <1>1, FS_CardinalityType

(* The recursive function behind the library's sum. *)
Chosen(s) == CHOOSE x \in s : TRUE

Sums(g, chk, S) ==
  g = [s \in SUBSET S |-> IF s = {} THEN 0
                          ELSE Cap(chk, Chosen(s)) + g[s \ {Chosen(s)}]]

(* The sum of the library is the value of a function that sums up. *)
LEMMA SumIsFold ==
  ASSUME NEW S, NEW chk
  PROVE  MapThenSumSet(LAMBDA n : chk[n].capacity, S) = (CHOOSE g : Sums(g, chk, S))[S]
  BY Zenon DEF MapThenSumSet, MapThenFoldSet, Sums, Chosen, Cap

(* The sum of the capacities is the number of points. *)
LEMMA SumIsArea ==
  ASSUME NEW S, IsFiniteSet(S), NEW chk, \A n \in S : Cap(chk, n) \in Nat
  PROVE  MapThenSumSet(LAMBDA n : chk[n].capacity, S) = Cardinality(Area(chk, S))
<1> DEFINE area == [s \in SUBSET S |-> Cardinality(Area(chk, s))]
           g == CHOOSE h : Sums(h, chk, S)
<1>1. \A s \in SUBSET S : s # {} => Chosen(s) \in s
  BY DEF Chosen
<1>2. \A s \in SUBSET S : \A x \in s :
        Cardinality(Area(chk, s)) = Cap(chk, x) + Cardinality(Area(chk, s \ {x}))
  <2> SUFFICES ASSUME NEW s \in SUBSET S, NEW x \in s
               PROVE  Cardinality(Area(chk, s)) = Cap(chk, x) + Cardinality(Area(chk, s \ {x}))
    OBVIOUS
  <2>1. Cap(chk, x) \in Nat /\ s \ {x} \in SUBSET S
    OBVIOUS
  <2>2. IsFiniteSet(Area(chk, s \ {x}))
    BY <2>1, AreaFinite
  <2> QED
    BY <2>1, <2>2, AreaSplit
<1>3. Sums(area, chk, S)
  <2> SUFFICES ASSUME NEW s \in SUBSET S
               PROVE  area[s] = IF s = {} THEN 0
                                ELSE Cap(chk, Chosen(s)) + area[s \ {Chosen(s)}]
    BY DEF Sums
  <2>1. CASE s = {}
    BY <2>1, AreaNone
  <2>2. CASE s # {}
    <3>1. Chosen(s) \in s /\ s \ {Chosen(s)} \in SUBSET S
      BY <2>2, <1>1
    <3>2. Cardinality(Area(chk, s))
            = Cap(chk, Chosen(s)) + Cardinality(Area(chk, s \ {Chosen(s)}))
      BY <3>1, <1>2
    <3> QED
      BY <2>2, <3>1, <3>2
  <2> QED
    BY <2>1, <2>2
<1> HIDE DEF area
<1>4. Sums(g, chk, S)
  BY <1>3
<1> HIDE DEF g
<1>5. \A s \in SUBSET S : g[s] = IF s = {} THEN 0
                                 ELSE Cap(chk, Chosen(s)) + g[s \ {Chosen(s)}]
  BY <1>4 DEF Sums
<1> DEFINE B == {s \in SUBSET S : g[s] # Cardinality(Area(chk, s))}
<1>6. B = {}
  <2> SUFFICES ASSUME B # {} PROVE FALSE
    OBVIOUS
  <2>1. B \subseteq SUBSET S
    OBVIOUS
  <2>2. PICK s \in B : \A x \in s : s \ {x} \notin B
    <3> HIDE DEF B
    <3> QED
      BY <2>1, Smallest
  <2>3. s # {}
    BY <2>2, <1>5, AreaNone
  <2>4. Chosen(s) \in s /\ s \ {Chosen(s)} \in SUBSET S /\ s \in SUBSET S
    BY <1>1, <2>2, <2>3
  <2>5. g[s \ {Chosen(s)}] = Cardinality(Area(chk, s \ {Chosen(s)}))
    BY <2>2, <2>4
  <2>6. g[s] = Cap(chk, Chosen(s)) + g[s \ {Chosen(s)}]
    BY <1>5, <2>3, <2>4
  <2>7. g[s] = Cardinality(Area(chk, s))
    BY <1>2, <2>4, <2>5, <2>6
  <2> QED
    BY <2>2, <2>7
<1>7. g[S] = Cardinality(Area(chk, S))
  BY <1>6
<1> QED
  BY <1>7, SumIsFold DEF g

---------------------------------------------------------------------------
(* The capacities of chunks 0 to n - 1. *)
SumTo(chk, n) == MapThenSumSet(LAMBDA m : chk[m].capacity, 0 .. n - 1)

Sized(chk, n) == \A m \in 0 .. n - 1 : chk[m].capacity \in Nat

(* So is the sum of the first n. *)
LEMMA SumToIs ==
  ASSUME NEW n \in Nat, NEW chk, Sized(chk, n)
  PROVE  /\ SumTo(chk, n) = Cardinality(Area(chk, 0 .. n - 1))
         /\ SumTo(chk, n) \in Nat
         /\ \A m \in 0 .. n - 1 : Cap(chk, m) \in Nat
         /\ IsFiniteSet(0 .. n - 1)
<1>1. IsFiniteSet(0 .. n - 1)
  BY FS_Interval
<1>2. \A m \in 0 .. n - 1 : Cap(chk, m) \in Nat
  BY DEF Sized, Cap
<1>3. SumTo(chk, n) = Cardinality(Area(chk, 0 .. n - 1))
  <2> DEFINE S == 0 .. n - 1
  <2>1. IsFiniteSet(S) /\ \A m \in S : Cap(chk, m) \in Nat
    BY <1>1, <1>2
  <2> HIDE DEF S
  <2>2. MapThenSumSet(LAMBDA m : chk[m].capacity, S) = Cardinality(Area(chk, S))
    BY <2>1, SumIsArea
  <2> QED
    BY <2>2 DEF SumTo, S
<1>4. Cardinality(Area(chk, 0 .. n - 1)) \in Nat
  BY <1>1, <1>2, AreaFinite
<1> QED
  BY <1>1, <1>2, <1>3, <1>4

(* Nothing adds up to 0. *)
LEMMA SumToNone ==
  ASSUME NEW chk
  PROVE  SumTo(chk, 0) = 0
<1>1. Sized(chk, 0) /\ 0 .. 0 - 1 = {}
  BY DEF Sized
<1>2. SumTo(chk, 0) = Cardinality(Area(chk, 0 .. 0 - 1))
  BY <1>1, SumToIs
<1> QED
  BY <1>1, <1>2, AreaNone

(* One chunk more. *)
LEMMA SumToNext ==
  ASSUME NEW n \in Nat, NEW chk, Sized(chk, n + 1)
  PROVE  /\ SumTo(chk, n) \in Nat
         /\ SumTo(chk, n + 1) = SumTo(chk, n) + chk[n].capacity
<1> DEFINE S == 0 .. (n + 1) - 1
           R == 0 .. n - 1
<1>1. n \in S /\ S \ {n} = R /\ n + 1 \in Nat
  OBVIOUS
<1>2. Sized(chk, n)
  BY DEF Sized
<1>3. /\ SumTo(chk, n + 1) = Cardinality(Area(chk, S))
      /\ Cap(chk, n) \in Nat
  BY <1>1, SumToIs
<1>4. /\ SumTo(chk, n) = Cardinality(Area(chk, R))
      /\ SumTo(chk, n) \in Nat
      /\ IsFiniteSet(Area(chk, R))
  <2>1. /\ SumTo(chk, n) = Cardinality(Area(chk, R))
        /\ SumTo(chk, n) \in Nat
        /\ \A m \in R : Cap(chk, m) \in Nat
        /\ IsFiniteSet(R)
    BY <1>2, SumToIs
  <2> HIDE DEF R
  <2> QED
    BY <2>1, AreaFinite
<1> HIDE DEF S, R
<1>5. Cardinality(Area(chk, S)) = Cap(chk, n) + Cardinality(Area(chk, R))
  BY <1>1, <1>3, <1>4, AreaSplit
<1> QED
  BY <1>3, <1>4, <1>5 DEF Cap

(* The sum depends on the capacities only, and grows with the chunks. *)
LEMMA SumToSame ==
  ASSUME NEW n \in Nat, NEW chk, NEW dhk, Sized(chk, n),
         \A m \in 0 .. n - 1 : chk[m].capacity = dhk[m].capacity
  PROVE  SumTo(dhk, n) = SumTo(chk, n)
<1>1. Sized(dhk, n)
  BY DEF Sized
<1>2. Area(dhk, 0 .. n - 1) = Area(chk, 0 .. n - 1)
  BY DEF Area, Cap
<1> QED
  BY <1>1, <1>2, SumToIs

(* The sum grows with the number of chunks. *)
LEMMA SumToGrows ==
  ASSUME NEW n \in Nat, NEW m \in 0 .. n, NEW chk, Sized(chk, n)
  PROVE  /\ SumTo(chk, m) \in Nat /\ SumTo(chk, n) \in Nat
         /\ SumTo(chk, m) <= SumTo(chk, n)
<1>1. m \in Nat /\ Sized(chk, m) /\ 0 .. m - 1 \subseteq 0 .. n - 1
  BY DEF Sized
<1>2. /\ SumTo(chk, n) = Cardinality(Area(chk, 0 .. n - 1))
      /\ SumTo(chk, m) = Cardinality(Area(chk, 0 .. m - 1))
      /\ SumTo(chk, n) \in Nat /\ SumTo(chk, m) \in Nat
  BY <1>1, SumToIs
<1>3. IsFiniteSet(Area(chk, 0 .. n - 1))
  BY SumToIs, AreaFinite
<1>4. Area(chk, 0 .. m - 1) \subseteq Area(chk, 0 .. n - 1)
  BY <1>1 DEF Area
<1>5. Cardinality(Area(chk, 0 .. m - 1)) <= Cardinality(Area(chk, 0 .. n - 1))
  BY <1>3, <1>4, FS_Subset
<1> QED
  BY <1>2, <1>5

(* So a chunk ends before those behind it begin. *)
LEMMA SumToBefore ==
  ASSUME NEW n \in Nat, NEW chk, Sized(chk, n), NEW k \in 0 .. n, NEW m \in 0 .. n - 1,
         m < k
  PROVE  /\ SumTo(chk, m) \in Nat /\ SumTo(chk, k) \in Nat
         /\ SumTo(chk, m) + chk[m].capacity <= SumTo(chk, k)
<1>1. m \in Nat /\ k \in Nat /\ m + 1 \in 0 .. k
  OBVIOUS
<1>2. Sized(chk, k) /\ Sized(chk, m + 1)
  BY <1>1 DEF Sized
<1>3. /\ SumTo(chk, m) \in Nat
      /\ SumTo(chk, m + 1) = SumTo(chk, m) + chk[m].capacity
  BY <1>1, <1>2, SumToNext
<1>4. SumTo(chk, k) \in Nat /\ SumTo(chk, m + 1) <= SumTo(chk, k)
  BY <1>1, <1>2, SumToGrows
<1> QED
  BY <1>3, <1>4

---------------------------------------------------------------------------
(* Steps and units. *)
LEMMA Positive ==
  /\ UnitsPerCap \in Nat \ {0} /\ MaxCapacity \in Nat \ {0}
  /\ MaxChkNum \in Nat \ {0} /\ MetaUnits \in Nat \ {0} /\ MgrUnits \in Nat \ {0}
  /\ MaxContinus \in Nat \ {0}
  /\ MetaUnits + MgrUnits + MaxContinus <= Units(MaxCapacity)
  BY LayoutAssumption

(* From steps to units. *)
LEMMA UnitsGrow ==
  ASSUME NEW a \in Nat, NEW b \in Nat
  PROVE  /\ Units(a) \in Nat /\ Units(a + b) = Units(a) + Units(b)
         /\ a <= b => Units(a) <= Units(b)
         /\ a # 0 => Units(a) >= UnitsPerCap
<1> DEFINE U == UnitsPerCap
<1>1. U \in Nat /\ U # 0
  BY Positive
<1> HIDE DEF U
<1>2. a * U \in Nat /\ b * U \in Nat /\ (a + b) * U = a * U + b * U
  BY <1>1
<1>3. ASSUME a <= b
      PROVE  a * U <= b * U
  <2>1. b = a + (b - a) /\ b - a \in Nat
    BY <1>3
  <2>2. (a + (b - a)) * U = a * U + (b - a) * U /\ (b - a) * U \in Nat
    BY <1>1, <2>1
  <2> QED
    BY <1>2, <2>1, <2>2
<1>4. ASSUME a # 0
      PROVE  a * U >= U
  <2>1. a = 1 + (a - 1) /\ a - 1 \in Nat
    BY <1>4
  <2>2. (1 + (a - 1)) * U = U + (a - 1) * U /\ (a - 1) * U \in Nat
    BY <1>1, <2>1
  <2> QED
    BY <1>1, <2>1, <2>2
<1> QED
  BY <1>2, <1>3, <1>4 DEF Units, U

(* Rounded up to whole steps: the least capacity that holds the units. *)
LEMMA Rounded ==
  ASSUME NEW v \in Nat, NEW c \in Nat
  PROVE  /\ AlignedCapacity(v) \in Nat
         /\ v <= Units(AlignedCapacity(v))
         /\ v <= Units(c) => AlignedCapacity(v) <= c
         /\ AlignedCapacity(Units(c) + v) = c + AlignedCapacity(v)
         /\ v # 0 => AlignedCapacity(v) # 0
<1> DEFINE U == UnitsPerCap
           q == (v + U - 1) \div U
<1>1. U \in Nat \ {0}
  BY Positive
<1> HIDE DEF U
<1>2. v + U - 1 \in Nat
  BY <1>1
<1>3. q \in Nat /\ q * U <= v + U - 1 /\ v + U - 1 < (q + 1) * U
  <2> DEFINE w == v + U - 1
  <2>1. w \in Nat
    BY <1>2
  <2> HIDE DEF w
  <2>2. w \div U \in Nat /\ (w \div U) * U <= w /\ w < ((w \div U) + 1) * U
    BY <1>1, <2>1
  <2> QED
    BY <2>2 DEF w
<1>4. (c * U + v + U - 1) \div U = c + q
  <2> DEFINE w == v + U - 1
             e == c * U
  <2>1. w \in Nat /\ e \in Nat
    BY <1>1, <1>2
  <2>2. e + w = c * U + v + U - 1
    BY <1>1
  <2>3. (c * U + w) \div U = c + (w \div U)
    <3>1. w \in Nat
      BY <2>1
    <3> HIDE DEF w
    <3> QED
      BY <1>1, <3>1
  <2> QED
    BY <2>2, <2>3
<1> HIDE DEF q
<1>5. (q + 1) * U = q * U + U /\ q * U \in Nat
  BY <1>1, <1>3
<1>6. v <= q * U
  BY <1>1, <1>3, <1>5
<1>7. ASSUME v <= c * U
      PROVE  q <= c
  <2> SUFFICES ASSUME q > c PROVE FALSE
    BY <1>3
  <2>1. q = (c + 1) + (q - (c + 1)) /\ q - (c + 1) \in Nat
    BY <1>3
  <2>2. q * U = c * U + U + (q - (c + 1)) * U /\ (q - (c + 1)) * U \in Nat /\ c * U \in Nat
    BY <1>1, <2>1
  <2> QED
    BY <1>1, <1>3, <1>7, <2>2
<1>8. ASSUME v # 0
      PROVE  q # 0
  <2> SUFFICES ASSUME q = 0 PROVE FALSE
    OBVIOUS
  <2> QED
    BY <1>1, <1>6, <1>8
<1>9. AlignedCapacity(v) = q
  BY DEF AlignedCapacity, q, U
<1>10. Units(c) = c * U /\ Units(q) = q * U
  BY DEF Units, U
<1>11. AlignedCapacity(Units(c) + v) = c + q
  BY <1>4, <1>10 DEF AlignedCapacity, U
<1> QED
  BY <1>3, <1>6, <1>7, <1>8, <1>9, <1>10, <1>11

---------------------------------------------------------------------------
(* Free memory.                                                            *)
NotFree(x) == {id \in MemIds : x.mem[id] # NoMem}

(* A set of numbers has a least one. *)
LEMMA NatLeast ==
  ASSUME NEW T, T \subseteq Nat, T # {}
  PROVE  \E m \in T : \A k \in T : m <= k
<1>1. PICK m \in T : \A k \in T : <<k, m>> \notin OpToRel(<, Nat)
  BY WFMin, NatLessThanWellFounded, Zenon
<1>2. \A k \in T : ~ (k < m)
  BY <1>1, Zenon DEF OpToRel
<1>3. m \in Nat /\ \A k \in T : k \in Nat
  OBVIOUS
<1> QED
  BY <1>2, <1>3

(* The piece with k free ones before it, when there is one, is free. *)
LEMMA FreeIdIs ==
  ASSUME NEW x, NEW k,
         \E id \in FreeIds(x) : Cardinality({j \in FreeIds(x) : j < id}) = k
  PROVE  /\ FreeId(x, k) \in FreeIds(x)
         /\ Cardinality({j \in FreeIds(x) : j < FreeId(x, k)}) = k
  BY DEF FreeId

(* The first free piece of memory is one, when there is any. *)
LEMMA FirstFree ==
  ASSUME NEW x, FreeIds(x) # {}
  PROVE  FreeId(x, 0) \in FreeIds(x)
<1>1. FreeIds(x) \subseteq Nat
  BY Positive DEF FreeIds, MemIds
<1>2. PICK id \in FreeIds(x) : \A j \in FreeIds(x) : id <= j
  BY <1>1, NatLeast
<1>3. {j \in FreeIds(x) : j < id} = {}
  BY <1>1, <1>2
<1>4. Cardinality({j \in FreeIds(x) : j < id}) = 0
  BY <1>3, FS_EmptySet
<1> QED
  BY <1>4, FreeIdIs

(* The chunks and one piece more leave some memory free. *)
LEMMA SomeFree ==
  ASSUME NEW x, NEW n \in 0 .. MaxChkNum, NEW id,
         NotFree(x) \subseteq {x.chk[m].id : m \in 0 .. n - 1} \cup {id}
  PROVE  FreeIds(x) # {}
<1> DEFINE C == 0 .. n - 1
           I == {x.chk[m].id : m \in C}
           f == [m \in C |-> x.chk[m].id]
<1>1. IsFiniteSet(C) /\ Cardinality(C) = n /\ n \in Nat
  BY FS_Interval, Positive
<1>2. f \in Surjection(C, I)
  BY DEF Surjection
<1>3. IsFiniteSet(I) /\ Cardinality(I) <= n /\ Cardinality(I) \in Nat
  <2> HIDE DEF I, f, C
  <2>1. IsFiniteSet(I) /\ Cardinality(I) <= Cardinality(C)
    BY <1>1, <1>2, FS_Surjection
  <2> QED
    BY <1>1, <2>1, FS_CardinalityType
<1> HIDE DEF I
<1>4. IsFiniteSet(I \cup {id}) /\ Cardinality(I \cup {id}) <= n + 1
  <2>1. /\ IsFiniteSet(I \cup {id})
        /\ Cardinality(I \cup {id}) =
             IF id \in I THEN Cardinality(I) ELSE Cardinality(I) + 1
    BY <1>3, FS_AddElement
  <2> QED
    BY <1>1, <1>3, <2>1
<1>5. Cardinality(MemIds) = MaxChkNum + 2 /\ MaxChkNum \in Nat
  <2> DEFINE b == MaxChkNum + 2
  <2>1. b \in Int /\ b >= 1
    BY Positive
  <2> HIDE DEF b
  <2>2. Cardinality(1 .. b) = IF 1 > b THEN 0 ELSE b - 1 + 1
    BY <2>1, FS_Interval
  <2>3. Cardinality(1 .. b) = b
    BY <2>1, <2>2
  <2> QED
    BY <2>3, Positive DEF MemIds, b
<1>6. SUFFICES ASSUME FreeIds(x) = {} PROVE FALSE
  OBVIOUS
<1>7. MemIds \subseteq I \cup {id}
  BY <1>6 DEF FreeIds, NotFree, I
<1>8. Cardinality(MemIds) <= Cardinality(I \cup {id})
  BY <1>4, <1>7, FS_Subset
<1>9. Cardinality(I \cup {id}) \in Nat
  BY <1>4, FS_CardinalityType
<1> QED
  BY <1>1, <1>4, <1>5, <1>8, <1>9

(* When one piece is taken, as many pieces as there can be chunks are free *)
(* and get a number each.                                                  *)
LEMMA OthersFree ==
  ASSUME NEW x, NEW one \in MemIds, NotFree(x) = {one}, NEW k \in 0 .. MaxChkNum
  PROVE  /\ FreeId(x, k) \in MemIds \ {one}
         /\ Cardinality({j \in FreeIds(x) : j < FreeId(x, k)}) = k
<1> DEFINE id == IF k + 1 < one THEN k + 1 ELSE k + 2
           below == {j \in FreeIds(x) : j < id}
<1>1. FreeIds(x) = MemIds \ {one}
  BY DEF NotFree, FreeIds
<1>2. k \in Nat /\ one \in Nat /\ one >= 1 /\ id \in Nat /\ MaxChkNum \in Nat
  BY Positive DEF MemIds
<1>3. id \in MemIds \ {one}
  BY <1>2 DEF MemIds
<1>4. below = IF k + 1 < one THEN 1 .. k ELSE (1 .. k + 1) \ {one}
  <2>1. CASE k + 1 < one
    BY <1>1, <1>2, <2>1 DEF MemIds
  <2>2. CASE ~ (k + 1 < one)
    BY <1>1, <1>2, <2>2 DEF MemIds
  <2> QED
    BY <2>1, <2>2
<1> HIDE DEF below
<1>5. /\ IsFiniteSet(1 .. k) /\ Cardinality(1 .. k) = k
      /\ IsFiniteSet(1 .. k + 1) /\ Cardinality(1 .. k + 1) = k + 1
  <2>1. \A b \in Nat : IsFiniteSet(1 .. b) /\ Cardinality(1 .. b) = b
    <3> TAKE b \in Nat
    <3>1. IsFiniteSet(1 .. b) /\ Cardinality(1 .. b) = IF 1 > b THEN 0 ELSE b - 1 + 1
      BY FS_Interval
    <3> QED
      BY <3>1
  <2> QED
    BY <1>2, <2>1
<1>6. Cardinality(below) = k
  <2>1. CASE k + 1 < one
    BY <1>4, <1>5, <2>1
  <2>2. CASE ~ (k + 1 < one)
    <3>1. one \in 1 .. k + 1
      BY <1>2, <2>2
    <3>2. Cardinality((1 .. k + 1) \ {one}) = Cardinality(1 .. k + 1) - 1
      BY <1>5, <3>1, FS_RemoveElement, Zenon
    <3> QED
      BY <1>2, <1>4, <1>5, <2>2, <3>2
  <2> QED
    BY <2>1, <2>2
<1>7. \E i \in FreeIds(x) : Cardinality({j \in FreeIds(x) : j < i}) = k
  BY <1>1, <1>3, <1>6 DEF below
<1> QED
  BY <1>1, <1>7, FreeIdIs

(* With one piece in use the free ones numbered up to MaxChkNum differ:    *)
(* uncompress and split need one for each chunk.                           *)
LEMMA OthersApart ==
  ASSUME NEW x, NEW one \in MemIds, NotFree(x) = {one},
         NEW k \in 0 .. MaxChkNum, NEW l \in 0 .. MaxChkNum, FreeId(x, k) = FreeId(x, l)
  PROVE  k = l
<1>1. Cardinality({j \in FreeIds(x) : j < FreeId(x, k)}) = k
  BY OthersFree
<1>2. Cardinality({j \in FreeIds(x) : j < FreeId(x, l)}) = l
  BY OthersFree
<1> QED
  BY <1>1, <1>2

---------------------------------------------------------------------------
(* The invariant.                                                          *)

(* What the first num headers say of themselves: a mark between what the   *)
(* library keeps and the capacity, and nothing lost below it.  The first   *)
(* chunk is as large as a chunk can be before a second one is appended.    *)
Headers(chk, num) ==
  /\ \A n \in 0 .. num - 1 :
       /\ chk[n].capacity \in 1 .. MaxCapacity
       /\ Overhead(n) <= chk[n].virgin
       /\ chk[n].virgin <= Units(chk[n].capacity)
       /\ chk[n].intact
  /\ num > 1 => chk[0].capacity = MaxCapacity

(* Chunk n lies in the memory of the first one, which owns it ... *)
Within(x, n, p) ==
  /\ x.chk[n].id = x.chk[0].id
  /\ x.chk[n].at = SumTo(x.chk, n)
  /\ x.chk[n].alloc_capacity = IF n = 0 THEN SumTo(x.chk, p) ELSE 0

(* ... or in its own. *)
Alone(x, n) ==
  /\ x.chk[n].at = 0
  /\ x.chk[n].alloc_capacity = x.chk[n].capacity

(* A chunk that owns memory can give it back. *)
OwnsMemory(x, n) ==
  /\ x.chk[n].id \in MemIds
  /\ x.chk[n].alloc_capacity # 0 =>
       x.mem[x.chk[n].id] = Memory("chunk", x.chk[n].alloc_capacity)

(* The first p chunks lie one behind the other in one piece of memory, the *)
(* others in pieces of their own, as all do if the chunks come from        *)
(* ChkMemalign.                                                            *)
Laid(x, p) ==
  /\ \A n \in Chks(x) : OwnsMemory(x, n)
  /\ \A n \in Chks(x) : n < p => Within(x, n, p)
  /\ \A n \in Chks(x) : n >= p => Alone(x, n)
  /\ \A m, n \in Chks(x) : x.chk[m].id = x.chk[n].id => m = n \/ (m < p /\ n < p)
  /\ split => p = 1

(* An index with its chunks in memory. *)
Open(x) ==
  /\ x \in ChkIndexes
  /\ ~x.misused /\ ~x.compressed /\ x.image.count = 0
  /\ x.chk_num <= x.addr_size
  /\ Headers(x.chk, x.chk_num)
  /\ x.total_capacity = SumTo(x.chk, x.chk_num)
  /\ NotFree(x) = {x.chk[n].id : n \in Chks(x)}
  /\ x.chk_num > 0 => \E p \in 1 .. x.chk_num : Laid(x, p)

(* A compressed one: the image ends at the mark of its last chunk. *)
Packed(x) ==
  /\ x \in ChkIndexes
  /\ ~x.misused /\ x.compressed /\ x.chk_num = 0 /\ x.total_capacity = 0
  /\ x.image.count > 0 /\ x.image.count <= x.addr_size
  /\ Headers(x.image.chk, x.image.count)
  /\ x.image.len = Units(SumTo(x.image.chk, x.image.count - 1))
                     + x.image.chk[x.image.count - 1].virgin
  /\ x.image.id \in MemIds /\ x.mem[x.image.id] = Memory("image", 0)
  /\ NotFree(x) = {x.image.id}

(* In which layout an index is at each stage. *)
LayoutInv ==
  /\ split \in BOOLEAN
  /\ stage \in {"in use", "destructed", "gone"}
  /\ Open(index) \/ Packed(index)
  /\ stage # "in use" => index.chk_num = 0
  /\ stage = "gone" => ~index.compressed

(* The fields of an index, and those of a header. *)
LEMMA IndexFields ==
  ASSUME NEW x \in ChkIndexes
  PROVE  /\ x.chk_num \in 0 .. MaxChkNum /\ x.chk_num \in Nat
         /\ x.compressed \in BOOLEAN /\ x.misused \in BOOLEAN
         /\ x.addr_size \in Nat /\ x.total_capacity \in Nat
         /\ x.chk \in [ChkNos -> Entries] /\ x.image \in Images
         /\ x.mem \in [MemIds -> Memories]
         /\ Chks(x) \subseteq ChkNos /\ Chks(x) \subseteq Nat
         /\ \A n \in Chks(x) : n < x.chk_num
  BY Positive DEF ChkIndexes, Chks, LastNo, ChkNos

(* The fields of a header. *)
LEMMA EntryFields ==
  ASSUME NEW c \in Entries
  PROVE  /\ c.capacity \in 0 .. MaxCapacity /\ c.capacity \in Nat
         /\ c.virgin \in 0 .. Units(MaxCapacity) /\ c.virgin \in Nat
         /\ c.alloc_capacity \in Nat /\ c.at \in Nat /\ c.intact \in BOOLEAN
         /\ c.id \in {0} \cup MemIds
<1>1. Units(MaxCapacity) \in Nat /\ MaxCapacity \in Nat
  BY Positive, UnitsGrow
<1> QED
  BY <1>1 DEF Entries

(* The headers have sums. *)
LEMMA HeadersSized ==
  ASSUME NEW chk, NEW num \in Nat, Headers(chk, num)
  PROVE  /\ Sized(chk, num)
         /\ \A n \in 0 .. num - 1 :
              /\ chk[n].capacity \in Nat /\ chk[n].capacity # 0
              /\ chk[n].capacity <= MaxCapacity
  BY Positive DEF Headers, Sized

(* What matters where the chunks are. *)
SameLayout(x, y) ==
  /\ y.chk_num = x.chk_num
  /\ y.compressed = x.compressed /\ y.misused = x.misused
  /\ y.total_capacity = x.total_capacity
  /\ y.image = x.image /\ y.mem = x.mem
  /\ \A n \in Chks(x) :
       /\ y.chk[n].capacity = x.chk[n].capacity
       /\ y.chk[n].alloc_capacity = x.chk[n].alloc_capacity
       /\ y.chk[n].id = x.chk[n].id
       /\ y.chk[n].at = x.chk[n].at

(* An index stays open when its layout stays and its headers are well. *)
LEMMA SameLaid ==
  ASSUME NEW x, NEW y, Open(x), y \in ChkIndexes, SameLayout(x, y),
         y.chk_num <= y.addr_size, Headers(y.chk, y.chk_num)
  PROVE  Open(y)
<1>1. /\ x \in ChkIndexes /\ x.chk_num \in Nat
      /\ Chks(x) = 0 .. x.chk_num - 1 /\ Chks(y) = Chks(x)
      /\ Sized(x.chk, x.chk_num)
  BY IndexFields, HeadersSized DEF Open, SameLayout, Chks, LastNo
<1>2. \A k \in 0 .. x.chk_num : SumTo(y.chk, k) = SumTo(x.chk, k)
  <2> TAKE k \in 0 .. x.chk_num
  <2>1. k \in Nat /\ Sized(x.chk, k)
    BY <1>1 DEF Sized
  <2>2. \A m \in 0 .. k - 1 : x.chk[m].capacity = y.chk[m].capacity
    BY <1>1 DEF SameLayout
  <2> QED
    BY <2>1, <2>2, SumToSame
<1>3. x.chk_num \in 0 .. x.chk_num
  BY <1>1
<1>4. y.total_capacity = SumTo(y.chk, y.chk_num)
  BY <1>2, <1>3 DEF Open, SameLayout
<1>5. NotFree(y) = {y.chk[n].id : n \in Chks(y)}
  BY <1>1 DEF Open, SameLayout, NotFree
<1>6. ASSUME NEW p \in 1 .. x.chk_num, Laid(x, p)
      PROVE  Laid(y, p)
  <2>1. \A n \in Chks(y) : OwnsMemory(y, n)
    BY <1>1, <1>6 DEF Laid, OwnsMemory, SameLayout
  <2>2. \A n \in Chks(y) : n < p => Within(y, n, p)
    <3>1. p \in 0 .. x.chk_num /\ 0 \in Chks(x)
      BY <1>1
    <3>2. \A n \in Chks(y) : n \in 0 .. x.chk_num
      BY <1>1
    <3> QED
      BY <1>1, <1>2, <1>6, <3>1, <3>2 DEF Laid, Within, SameLayout
  <2>3. \A n \in Chks(y) : n >= p => Alone(y, n)
    BY <1>1, <1>6 DEF Laid, Alone, SameLayout
  <2>4. \A m, n \in Chks(y) :
          y.chk[m].id = y.chk[n].id => m = n \/ (m < p /\ n < p)
    BY <1>1, <1>6 DEF Laid, SameLayout
  <2> QED
    BY <1>6, <2>1, <2>2, <2>3, <2>4 DEF Laid
<1>7. y.chk_num > 0 => \E p \in 1 .. y.chk_num : Laid(y, p)
  BY <1>6 DEF Open, SameLayout
<1> QED
  BY <1>4, <1>5, <1>7 DEF Open, SameLayout

---------------------------------------------------------------------------
(* The last chunk, when it owns its memory.                                *)
LEMMA KindsOf ==
  ASSUME NEW a, NEW kind \in {"chunk", "raw", "image"}
  PROVE  /\ Memory(kind, a) # NoMem /\ Memory(kind, a).kind = kind
         /\ Memory(kind, a).size = IF kind # "chunk" THEN 0
                                   ELSE IF split THEN MaxCapacity ELSE a
         /\ a \in Nat => Memory(kind, a) \in Memories
  BY Positive DEF Memory, NoMem, Memories

(* What an open index with chunks has. *)
LEMMA LayoutOf ==
  ASSUME NEW x, Open(x), x.chk_num > 0
  PROVE  /\ LastNo(x) \in Chks(x) /\ 0 \in Chks(x) /\ x.chk_num \in Nat
         /\ LastNo(x) + 1 = x.chk_num /\ LastNo(x) \in Nat
         /\ Chks(x) = 0 .. LastNo(x)
         /\ Sized(x.chk, x.chk_num)
         /\ \A n \in Chks(x) : x.chk[n] \in Entries /\ x.chk[n].id \in MemIds
         /\ \E p \in 1 .. x.chk_num : Laid(x, p)
<1>1. x \in ChkIndexes /\ x.chk_num \in Nat /\ Chks(x) \subseteq ChkNos
  BY IndexFields DEF Open
<1>2. PICK p \in 1 .. x.chk_num : Laid(x, p)
  BY DEF Open
<1>3. \A n \in Chks(x) : x.chk[n].id \in MemIds
  BY <1>2 DEF Laid, OwnsMemory
<1>4. \A n \in Chks(x) : x.chk[n] \in Entries
  BY <1>1, IndexFields
<1>5. Sized(x.chk, x.chk_num)
  BY <1>1, HeadersSized DEF Open
<1> QED
  BY <1>1, <1>2, <1>3, <1>4, <1>5 DEF Chks, LastNo

(* The first chunk always owns memory, for its p chunks. *)
LEMMA FirstOwns ==
  ASSUME NEW x, Open(x), x.chk_num > 0, NEW p \in 1 .. x.chk_num, Laid(x, p)
  PROVE  /\ x.chk[0].at = 0 /\ x.chk[0].alloc_capacity = SumTo(x.chk, p)
         /\ SumTo(x.chk, p) \in Nat /\ x.chk[0].capacity \in Nat \ {0}
         /\ x.chk[0].capacity <= SumTo(x.chk, p)
         /\ p = 1 => SumTo(x.chk, p) = x.chk[0].capacity
<1>1. 0 \in Chks(x) /\ x.chk_num \in Nat /\ Sized(x.chk, x.chk_num)
  BY LayoutOf
<1>2. Within(x, 0, p)
  BY <1>1 DEF Laid
<1>3. x.chk[0].at = 0 /\ x.chk[0].alloc_capacity = SumTo(x.chk, p)
  BY <1>2, SumToNone DEF Within
<1>4. x.chk[0].capacity \in Nat \ {0}
  BY <1>1, HeadersSized DEF Open
<1>5. /\ 0 < p /\ 0 \in 0 .. x.chk_num - 1 /\ p \in 0 .. x.chk_num
      /\ Sized(x.chk, 0 + 1)
  BY <1>1 DEF Sized
<1>6. /\ SumTo(x.chk, 0) \in Nat /\ SumTo(x.chk, p) \in Nat
      /\ SumTo(x.chk, 0) + x.chk[0].capacity <= SumTo(x.chk, p)
  BY <1>1, <1>5, SumToBefore
<1>7. SumTo(x.chk, 0) = 0
  BY SumToNone
<1>8. SumTo(x.chk, 0 + 1) = SumTo(x.chk, 0) + x.chk[0].capacity
  BY <1>5, SumToNext
<1> QED
  BY <1>3, <1>4, <1>6, <1>7, <1>8

(* A last chunk that owns memory is alone in it. *)
LEMMA LastAlone ==
  ASSUME NEW x, Open(x), x.chk_num > 0, LastChk(x).alloc_capacity # 0,
         NEW p \in 1 .. x.chk_num, Laid(x, p)
  PROVE  /\ Alone(x, LastNo(x)) /\ OwnsMemory(x, LastNo(x))
         /\ \A m \in Chks(x) \ {LastNo(x)} : x.chk[m].id # x.chk[LastNo(x)].id
         /\ p <= LastNo(x) \/ (LastNo(x) = 0 /\ p = 1)
<1> DEFINE l == LastNo(x)
<1>1. l \in Chks(x) /\ x.chk_num \in Nat /\ l + 1 = x.chk_num /\ Chks(x) = 0 .. l
      /\ l \in Nat
  BY LayoutOf
<1>2. LastChk(x) = x.chk[l]
  BY DEF LastChk
<1> HIDE DEF l
<1>3. p <= l \/ (l = 0 /\ p = 1)
  <2> SUFFICES ASSUME l < p PROVE l = 0 /\ p = 1
    BY <1>1
  <2>1. Within(x, l, p)
    BY <1>1 DEF Laid
  <2>2. l = 0
    BY <1>2, <2>1 DEF Within
  <2> QED
    BY <1>1, <2>2
<1>4. Alone(x, l)
  <2>1. CASE p <= l
    BY <1>1, <2>1 DEF Laid
  <2>2. CASE l = 0 /\ p = 1
    <3>1. x.chk[0].at = 0 /\ x.chk[0].alloc_capacity = x.chk[0].capacity
      BY <2>2, FirstOwns
    <3> QED
      BY <2>2, <3>1 DEF Alone
  <2> QED
    BY <1>3, <2>1, <2>2
<1>5. \A m \in Chks(x) \ {l} : x.chk[m].id # x.chk[l].id
  BY <1>1, <1>3 DEF Laid
<1>6. OwnsMemory(x, l)
  BY <1>1 DEF Laid
<1> QED
  BY <1>3, <1>4, <1>5, <1>6 DEF l

(* The sums depend on the capacities only. *)
LEMMA SumToAll ==
  ASSUME NEW n \in Nat, NEW chk, NEW dhk, Sized(chk, n + 1),
         \A m \in 0 .. n - 1 : chk[m].capacity = dhk[m].capacity
  PROVE  \A k \in 0 .. n : SumTo(dhk, k) = SumTo(chk, k)
<1> TAKE k \in 0 .. n
<1>1. k \in Nat /\ Sized(chk, k)
  BY DEF Sized
<1>2. \A m \in 0 .. k - 1 : chk[m].capacity = dhk[m].capacity
  BY <1>1
<1> QED
  BY <1>1, <1>2, SumToSame

(* The last chunk becomes c, in the memory it had or in other memory.      *)
LEMMA Resized ==
  ASSUME NEW x, Open(x), x.chk_num > 0, LastChk(x).alloc_capacity # 0,
         NEW y \in ChkIndexes, NEW c, c = LastChk(y),
         y.chk_num = x.chk_num, y.compressed = x.compressed, y.misused = x.misused,
         y.image = x.image, y.addr_size = x.addr_size,
         \A n \in Chks(x) \ {LastNo(x)} : y.chk[n] = x.chk[n],
         c.capacity \in 1 .. MaxCapacity, c.alloc_capacity = c.capacity, c.at = 0,
         c.virgin = LastChk(x).virgin, c.virgin <= Units(c.capacity), c.intact,
         y.total_capacity = x.total_capacity + (c.capacity - LastChk(x).capacity),
         c.id \in MemIds,
         \/ split /\ c.id = LastChk(x).id /\ y.mem = x.mem
         \/ /\ c.id \in FreeIds(x)
            /\ y.mem = [x.mem EXCEPT ![c.id] = Memory("chunk", c.capacity),
                                     ![LastChk(x).id] = NoMem]
  PROVE  Open(y)
<1> DEFINE l == LastNo(x)
<1>1. /\ l \in Chks(x) /\ 0 \in Chks(x) /\ x.chk_num \in Nat /\ l + 1 = x.chk_num
      /\ Chks(x) = 0 .. l /\ l \in Nat
      /\ Sized(x.chk, l + 1)
      /\ \A n \in Chks(x) : x.chk[n].id \in MemIds
  BY LayoutOf
<1>2. PICK p \in 1 .. x.chk_num : Laid(x, p)
  BY LayoutOf
<1>3. /\ Alone(x, l) /\ OwnsMemory(x, l)
      /\ \A m \in Chks(x) \ {l} : x.chk[m].id # x.chk[l].id
      /\ p <= l \/ (l = 0 /\ p = 1)
  BY <1>2, LastAlone
<1>4. LastChk(x) = x.chk[l] /\ c = y.chk[l] /\ Chks(y) = Chks(x)
  BY DEF LastChk, LastNo, Chks
<1> HIDE DEF l
<1>5. c.capacity \in Nat /\ c.capacity # 0
  BY Positive
<1>6. Headers(y.chk, y.chk_num)
  <2>1. ASSUME NEW n \in Chks(x)
        PROVE  /\ y.chk[n].capacity \in 1 .. MaxCapacity
               /\ Overhead(n) <= y.chk[n].virgin
               /\ y.chk[n].virgin <= Units(y.chk[n].capacity)
               /\ y.chk[n].intact
    <3>1. Overhead(l) <= x.chk[l].virgin
      BY <1>1 DEF Open, Headers
    <3>2. CASE n = l
      BY <3>1, <3>2, <1>4
    <3>3. CASE n # l
      <4>1. y.chk[n] = x.chk[n]
        BY <3>3, <1>4 DEF l
      <4> QED
        BY <4>1, <1>1 DEF Open, Headers
    <3> QED
      BY <3>2, <3>3
  <2>2. x.chk_num > 1 => y.chk[0] = x.chk[0]
    BY <1>1 DEF l
  <2> QED
    BY <2>1, <2>2, <1>1 DEF Open, Headers
<1>7. \A k \in 0 .. l : SumTo(y.chk, k) = SumTo(x.chk, k)
  <2>1. \A m \in 0 .. l - 1 : x.chk[m].capacity = y.chk[m].capacity
    BY <1>1 DEF l
  <2>2. l \in Nat /\ Sized(x.chk, l + 1)
    BY <1>1
  <2> DEFINE a == x.chk
             b == y.chk
  <2>3. Sized(a, l + 1) /\ \A m \in 0 .. l - 1 : a[m].capacity = b[m].capacity
    BY <2>1, <2>2
  <2> HIDE DEF a, b
  <2>4. \A k \in 0 .. l : SumTo(b, k) = SumTo(a, k)
    BY <2>2, <2>3, SumToAll
  <2> QED
    BY <2>4 DEF a, b
<1>8. /\ SumTo(x.chk, l) \in Nat
      /\ SumTo(x.chk, l + 1) = SumTo(x.chk, l) + x.chk[l].capacity
      /\ x.chk[l].capacity \in Nat
  <2>1. x.chk[l].capacity \in Nat
    BY <1>1 DEF Sized
  <2> QED
    BY <1>1, <2>1, SumToNext, Zenon
<1>9. SumTo(y.chk, l + 1) = SumTo(x.chk, l) + c.capacity
  <2>1. Sized(y.chk, l + 1)
    BY <1>1, <1>4, <1>6, IndexFields, HeadersSized
  <2>2. SumTo(y.chk, l + 1) = SumTo(y.chk, l) + y.chk[l].capacity
    BY <1>1, <2>1, SumToNext, Zenon
  <2>3. l \in 0 .. l
    BY <1>1
  <2>4. SumTo(y.chk, l) = SumTo(x.chk, l)
    BY <1>7, <2>3, Zenon
  <2> QED
    BY <1>4, <2>2, <2>4, Zenon
<1>10. y.total_capacity = SumTo(y.chk, y.chk_num)
  BY <1>1, <1>4, <1>5, <1>8, <1>9 DEF Open
<1>11. /\ \A n \in Chks(x) \ {l} : y.mem[x.chk[n].id] = x.mem[x.chk[n].id]
       /\ \A n \in Chks(x) \ {l} : x.chk[n].id # c.id
       /\ y.mem[c.id] = Memory("chunk", c.capacity)
       /\ NotFree(y) = (NotFree(x) \ {x.chk[l].id}) \cup {c.id}
  <2>1. /\ NotFree(x) = {x.chk[n].id : n \in Chks(x)}
        /\ x.mem \in [MemIds -> Memories]
    BY IndexFields DEF Open
  <2>2. x.chk[l].id \in NotFree(x) /\ x.chk[l].id \in MemIds
    BY <2>1, <1>1
  <2>3. CASE split /\ c.id = LastChk(x).id /\ y.mem = x.mem
    <3>1. x.mem[x.chk[l].id] = Memory("chunk", x.chk[l].alloc_capacity)
      BY <1>3, <1>4 DEF OwnsMemory
    <3>2. Memory("chunk", x.chk[l].alloc_capacity) = Memory("chunk", c.capacity)
      BY <2>3 DEF Memory
    <3> QED
      BY <2>2, <2>3, <3>1, <3>2, <1>3, <1>4 DEF NotFree
  <2>4. CASE /\ c.id \in FreeIds(x)
             /\ y.mem = [x.mem EXCEPT ![c.id] = Memory("chunk", c.capacity),
                                      ![LastChk(x).id] = NoMem]
    <3>1. c.id # x.chk[l].id /\ c.id \notin NotFree(x)
      BY <2>2, <2>4 DEF NotFree, FreeIds
    <3>2. \A n \in Chks(x) : x.chk[n].id # c.id
      BY <2>1, <3>1
    <3>3. Memory("chunk", c.capacity) # NoMem
      BY KindsOf
    <3>4. \A id \in MemIds : y.mem[id] = IF id = x.chk[l].id THEN NoMem
                                         ELSE IF id = c.id THEN Memory("chunk", c.capacity)
                                         ELSE x.mem[id]
      BY <2>1, <2>4, <1>4
    <3>5. NotFree(y) = (NotFree(x) \ {x.chk[l].id}) \cup {c.id}
      BY <3>1, <3>3, <3>4 DEF NotFree
    <3>6. y.mem[c.id] = Memory("chunk", c.capacity)
      BY <3>1, <3>4
    <3>7. \A n \in Chks(x) \ {l} : y.mem[x.chk[n].id] = x.mem[x.chk[n].id]
      BY <3>2, <3>4, <1>1, <1>3
    <3> QED
      BY <3>2, <3>5, <3>6, <3>7
  <2> QED
    BY <2>3, <2>4
<1>12. NotFree(y) = {y.chk[n].id : n \in Chks(y)}
  <2>1. NotFree(x) = {x.chk[n].id : n \in Chks(x)}
    BY DEF Open
  <2>2. \A n \in Chks(x) \ {l} : y.chk[n] = x.chk[n]
    BY DEF l
  <2>3. {x.chk[n].id : n \in Chks(x)} \ {x.chk[l].id}
          = {x.chk[n].id : n \in Chks(x) \ {l}}
    BY <1>3
  <2>4. {y.chk[n].id : n \in Chks(x)} = {x.chk[n].id : n \in Chks(x) \ {l}} \cup {c.id}
    BY <1>1, <1>4, <2>2
  <2> QED
    BY <1>4, <1>11, <2>1, <2>3, <2>4
<1>13. Laid(y, p)
  <2>1. \A n \in Chks(x) \ {l} : y.chk[n] = x.chk[n]
    BY DEF l
  <2>2. \A n \in Chks(y) : OwnsMemory(y, n)
    <3> SUFFICES ASSUME NEW n \in Chks(x) PROVE OwnsMemory(y, n)
      BY <1>4
    <3>1. CASE n = l
      BY <3>1, <1>4, <1>11 DEF OwnsMemory
    <3>2. CASE n # l
      <4>1. OwnsMemory(x, n)
        BY <1>2 DEF Laid
      <4> QED
        BY <4>1, <3>2, <2>1, <1>11 DEF OwnsMemory
    <3> QED
      BY <3>1, <3>2
  <2>3. \A n \in Chks(y) : n < p => Within(y, n, p)
    <3> SUFFICES ASSUME NEW n \in Chks(x), n < p PROVE Within(y, n, p)
      BY <1>4
    <3>1. CASE p <= l
      <4>1. n # l /\ 0 # l /\ n \in 0 .. l /\ p \in 0 .. l
        BY <3>1, <1>1
      <4>2. y.chk[n] = x.chk[n] /\ y.chk[0] = x.chk[0]
        BY <4>1, <2>1, <1>1
      <4>3. Within(x, n, p)
        BY <1>2 DEF Laid
      <4> QED
        BY <4>1, <4>2, <4>3, <1>7 DEF Within
    <3>2. CASE l = 0 /\ p = 1
      <4>1. n = 0
        BY <3>2, <1>1
      <4>2. SumTo(y.chk, 0) = 0 /\ SumTo(y.chk, 1) = c.capacity
        BY <3>2, <1>8, <1>9, <1>5, SumToNone
      <4> QED
        BY <4>1, <4>2, <3>2, <1>4 DEF Within
    <3> QED
      BY <3>1, <3>2, <1>3
  <2>4. \A n \in Chks(y) : n >= p => Alone(y, n)
    <3> SUFFICES ASSUME NEW n \in Chks(x), n >= p PROVE Alone(y, n)
      BY <1>4
    <3>1. CASE n = l
      BY <3>1, <1>4 DEF Alone
    <3>2. CASE n # l
      BY <3>2, <2>1, <1>2 DEF Laid, Alone
    <3> QED
      BY <3>1, <3>2
  <2>5. \A m, n \in Chks(y) :
          y.chk[m].id = y.chk[n].id => m = n \/ (m < p /\ n < p)
    <3>1. \A m, n \in Chks(x) :
            x.chk[m].id = x.chk[n].id => m = n \/ (m < p /\ n < p)
      BY <1>2 DEF Laid
    <3> QED
      BY <3>1, <2>1, <1>1, <1>4, <1>11
  <2> QED
    BY <2>2, <2>3, <2>4, <2>5, <1>2 DEF Laid
<1>14. p \in 1 .. y.chk_num
  OBVIOUS
<1> QED
  BY <1>6, <1>10, <1>12, <1>13, <1>14 DEF Open

Resizes(x, y, c) ==
  /\ c = LastChk(y)
  /\ y.chk_num = x.chk_num /\ y.compressed = x.compressed /\ y.misused = x.misused
  /\ y.image = x.image /\ y.addr_size = x.addr_size
  /\ \A n \in Chks(x) \ {LastNo(x)} : y.chk[n] = x.chk[n]
  /\ c.capacity \in 1 .. MaxCapacity /\ c.alloc_capacity = c.capacity /\ c.at = 0
  /\ c.virgin = LastChk(x).virgin /\ c.virgin <= Units(c.capacity) /\ c.intact
  /\ y.total_capacity = x.total_capacity + (c.capacity - LastChk(x).capacity)
  /\ c.id \in MemIds
  /\ \/ split /\ c.id = LastChk(x).id /\ y.mem = x.mem
     \/ /\ c.id \in FreeIds(x)
        /\ y.mem = [x.mem EXCEPT ![c.id] = Memory("chunk", c.capacity),
                                 ![LastChk(x).id] = NoMem]

(* An index whose last chunk is resized, moved or not, stays open. *)
LEMMA ResizedBy ==
  ASSUME NEW x, Open(x), x.chk_num > 0, LastChk(x).alloc_capacity # 0,
         NEW y \in ChkIndexes, NEW c, Resizes(x, y, c)
  PROVE  Open(y)
  BY Resized DEF Resizes

(* The capacity of an index is that of its last chunk and of those before. *)
LEMMA LastCounted ==
  ASSUME NEW x, Open(x), x.chk_num > 0
  PROVE  /\ SumTo(x.chk, LastNo(x)) \in Nat /\ LastChk(x).capacity \in Nat
         /\ x.total_capacity = SumTo(x.chk, LastNo(x)) + LastChk(x).capacity
<1> DEFINE l == LastNo(x)
           chk == x.chk
<1>1. /\ l \in Nat /\ l + 1 = x.chk_num /\ Sized(chk, l + 1) /\ x.chk[l].capacity \in Nat
  BY LayoutOf DEF Sized
<1>2. x.total_capacity = SumTo(chk, l + 1)
  BY <1>1 DEF Open
<1> HIDE DEF l, chk
<1>3. /\ SumTo(chk, l) \in Nat
      /\ SumTo(chk, l + 1) = SumTo(chk, l) + chk[l].capacity
  BY <1>1, SumToNext
<1> QED
  BY <1>1, <1>2, <1>3 DEF LastChk, l, chk

(* What taking memory for a new last chunk and giving the old one back do. *)
LEMMA MovedIs ==
  ASSUME NEW x, Open(x), x.chk_num > 0, LastChk(x).alloc_capacity # 0,
         NEW c \in Entries
  PROVE  /\ FreeId(x, 0) \in FreeIds(x)
         /\ MovedLast(x, c) =
              [x EXCEPT !.chk[LastNo(x)] = [c EXCEPT !.id = FreeId(x, 0), !.at = 0],
                        !.mem = [x.mem EXCEPT ![FreeId(x, 0)] = Memory("chunk", c.capacity),
                                              ![LastChk(x).id] = NoMem]]
<1> DEFINE l == LastNo(x)
           f == FreeId(x, 0)
           old == LastChk(x)
           y == Taken(x, "chunk", c.capacity)
           z == [y EXCEPT !.chk[l] = [c EXCEPT !.id = f, !.at = 0]]
<1>1. /\ x \in ChkIndexes /\ x.chk_num \in 0 .. MaxChkNum /\ Chks(x) = 0 .. x.chk_num - 1
      /\ NotFree(x) = {x.chk[m].id : m \in Chks(x)} /\ l \in Chks(x)
  BY IndexFields, LayoutOf DEF Open, LastNo, Chks
<1>2. f \in FreeIds(x)
  <2>1. NotFree(x) \subseteq {x.chk[m].id : m \in 0 .. x.chk_num - 1} \cup {f}
    BY <1>1
  <2>2. FreeIds(x) # {}
    <3> HIDE DEF f
    <3> QED
      BY <1>1, <2>1, SomeFree
  <2> QED
    BY <2>2, FirstFree
<1> HIDE DEF l, f
<1>3. PICK p \in 1 .. x.chk_num : Laid(x, p)
  BY LayoutOf
<1>4. /\ old.at = 0 /\ old.alloc_capacity = old.capacity /\ old.id \in MemIds
      /\ x.mem[old.id] = Memory("chunk", old.capacity)
      /\ old.capacity \in Nat /\ old.capacity <= MaxCapacity
  <2>1. old \in Entries
    BY LayoutOf DEF LastChk, l
  <2> QED
    BY <2>1, <1>3, LastAlone, EntryFields, Positive DEF Alone, OwnsMemory, LastChk, l
<1>5. old.id # f /\ f \in MemIds
  <2>1. Memory("chunk", old.capacity) # NoMem
    BY KindsOf
  <2> QED
    BY <2>1, <1>2, <1>4 DEF FreeIds
<1> HIDE DEF old
<1>6. /\ y = [x EXCEPT !.mem = [x.mem EXCEPT ![f] = Memory("chunk", c.capacity)]]
      /\ x.mem \in [MemIds -> Memories]
  BY <1>1, IndexFields DEF Taken, f
<1>7. /\ z = [x EXCEPT !.mem = [x.mem EXCEPT ![f] = Memory("chunk", c.capacity)],
                       !.chk[l] = [c EXCEPT !.id = f, !.at = 0]]
      /\ z.mem = [x.mem EXCEPT ![f] = Memory("chunk", c.capacity)]
  BY <1>1, <1>6 DEF ChkIndexes
<1> HIDE DEF z, y
<1>8. z.mem[old.id] = Memory("chunk", old.capacity)
  BY <1>4, <1>5, <1>6, <1>7
<1>9. MayGive(z, old, "chunk", old.capacity)
  <2>1. /\ Memory("chunk", old.capacity).kind = "chunk"
        /\ Memory("chunk", old.capacity).size = IF split THEN MaxCapacity ELSE old.capacity
    BY KindsOf
  <2> QED
    BY <2>1, <1>4, <1>8 DEF MayGive
<1>10. MovedLast(x, c) = [z EXCEPT !.mem[old.id] = NoMem]
  <2>1. MovedLast(x, c) = Given(z, old, "chunk", old.capacity)
    BY Zenon DEF MovedLast, z, y, old, f, l
  <2> QED
    BY <2>1, <1>9 DEF Given
<1>11. MovedLast(x, c) =
         [x EXCEPT !.chk[l] = [c EXCEPT !.id = f, !.at = 0],
                   !.mem = [x.mem EXCEPT ![f] = Memory("chunk", c.capacity),
                                         ![old.id] = NoMem]]
  <2>1. [[x.mem EXCEPT ![f] = Memory("chunk", c.capacity)] EXCEPT ![old.id] = NoMem]
          = [x.mem EXCEPT ![f] = Memory("chunk", c.capacity), ![old.id] = NoMem]
    BY <1>5
  <2> DEFINE m == [x.mem EXCEPT ![f] = Memory("chunk", c.capacity)]
             n == [x.mem EXCEPT ![f] = Memory("chunk", c.capacity), ![old.id] = NoMem]
             e == [c EXCEPT !.id = f, !.at = 0]
  <2>2. z = [x EXCEPT !.mem = m, !.chk[l] = e] /\ [m EXCEPT ![old.id] = NoMem] = n
    BY <1>7, <2>1
  <2> HIDE DEF m, n, e
  <2>3. [z EXCEPT !.mem[old.id] = NoMem] = [x EXCEPT !.chk[l] = e, !.mem = n]
    BY <2>2, <1>1 DEF ChkIndexes
  <2> QED
    BY <2>3, <1>10 DEF m, n, e
<1> QED
  BY <1>2, <1>11 DEF f, l, old

SameMarks(x, y) ==
  /\ y.chk_num = x.chk_num
  /\ \A n \in Chks(x) : y.chk[n].virgin = x.chk[n].virgin

(* Both ways to reallocate the last chunk are such a resize. *)
LEMMA ResizedLast ==
  ASSUME NEW x, Open(x), x.chk_num > 0, LastChk(x).alloc_capacity # 0,
         NEW c \in Entries, c.capacity \in 1 .. MaxCapacity,
         c.alloc_capacity = c.capacity, c.virgin = LastChk(x).virgin,
         c.virgin <= Units(c.capacity), c.intact, c.id = LastChk(x).id, c.at = 0,
         NEW y, y = MovedLast(x, c) \/ y = ReallocatedLast(x, c),
         NEW t, t = x.total_capacity + (c.capacity - LastChk(x).capacity)
  PROVE  /\ Open([y EXCEPT !.total_capacity = t])
         /\ SameMarks(x, [y EXCEPT !.total_capacity = t])
         /\ y.total_capacity = x.total_capacity
<1> DEFINE l == LastNo(x)
           f == FreeId(x, 0)
           z == [y EXCEPT !.total_capacity = t]
           d == LastChk(z)
           nmem == [x.mem EXCEPT ![f] = Memory("chunk", c.capacity), ![LastChk(x).id] = NoMem]
           nchk == [c EXCEPT !.id = f, !.at = 0]
<1>1. /\ x \in ChkIndexes /\ l \in Chks(x) /\ l \in ChkNos /\ Chks(x) \subseteq ChkNos
      /\ x.mem \in [MemIds -> Memories] /\ x.chk \in [ChkNos -> Entries]
      /\ LastChk(x).id \in MemIds
  BY IndexFields, LayoutOf DEF Open, LastChk
<1>2. t \in Nat
  BY LastCounted, Positive
<1>3. f \in FreeIds(x) /\ f \in MemIds
  BY MovedIs DEF FreeIds
<1> HIDE DEF l, f
<1>4. nchk \in Entries /\ NoMem \in Memories /\ Memory("chunk", c.capacity) \in Memories
  <2>1. nchk \in Entries
    BY <1>3 DEF Entries
  <2>2. NoMem \in Memories
    BY DEF NoMem, Memories
  <2>3. Memory("chunk", c.capacity) \in Memories
    BY EntryFields, KindsOf
  <2> QED
    BY <2>1, <2>2, <2>3
<1>5. nmem \in [MemIds -> Memories]
  BY <1>1, <1>3, <1>4
<1>6. CASE split /\ y = [x EXCEPT !.chk[l] = c]
  <2>1. /\ z = [x EXCEPT !.chk[l] = c, !.total_capacity = t]
        /\ z \in ChkIndexes
    BY <1>1, <1>2, <1>6 DEF ChkIndexes
  <2>2. /\ z.chk_num = x.chk_num /\ z.compressed = x.compressed
        /\ z.misused = x.misused /\ z.image = x.image /\ z.addr_size = x.addr_size
        /\ z.total_capacity = t /\ z.mem = x.mem /\ z.chk = [x.chk EXCEPT ![l] = c]
    BY <1>1, <2>1 DEF ChkIndexes
  <2> HIDE DEF z
  <2>3. d = c /\ \A n \in Chks(x) \ {l} : z.chk[n] = x.chk[n]
    BY <1>1, <2>2 DEF LastChk, LastNo, l
  <2>4. y.total_capacity = x.total_capacity
    BY <1>1, <1>6 DEF ChkIndexes
  <2>5. SameMarks(x, z)
    BY <1>1, <2>2, <2>3 DEF SameMarks, LastChk, l
  <2>6. Open(z)
    <3>1. c.id \in MemIds
      BY <1>1
    <3>2. Resizes(x, z, c)
      BY <1>6, <2>2, <2>3, <3>1 DEF Resizes, l, d
    <3> QED
      BY <2>1, <3>2, ResizedBy, Zenon
  <2> QED
    BY <2>5, <2>6, <2>4 DEF z
<1>7. CASE y = [x EXCEPT !.chk[l] = nchk, !.mem = nmem]
  <2>1. nchk.id = f /\ nchk.at = 0 /\ nchk.capacity = c.capacity /\ nchk.intact = c.intact
        /\ nchk.alloc_capacity = c.alloc_capacity /\ nchk.virgin = c.virgin
    BY DEF Entries
  <2> HIDE DEF nmem, nchk
  <2>2. /\ z = [x EXCEPT !.chk[l] = nchk, !.mem = nmem, !.total_capacity = t]
        /\ z \in ChkIndexes
    BY <1>1, <1>2, <1>4, <1>5, <1>7 DEF ChkIndexes
  <2>3. /\ z.chk_num = x.chk_num /\ z.compressed = x.compressed
        /\ z.misused = x.misused /\ z.image = x.image /\ z.addr_size = x.addr_size
        /\ z.total_capacity = t /\ z.mem = nmem /\ z.chk = [x.chk EXCEPT ![l] = nchk]
    BY <1>1, <2>2 DEF ChkIndexes
  <2> HIDE DEF z
  <2>4. d = nchk /\ \A n \in Chks(x) \ {l} : z.chk[n] = x.chk[n]
    BY <1>1, <2>3 DEF LastChk, LastNo, l
  <2>5. y.total_capacity = x.total_capacity
    BY <1>1, <1>7 DEF ChkIndexes
  <2>6. SameMarks(x, z)
    BY <1>1, <2>1, <2>3, <2>4 DEF SameMarks, LastChk, l
  <2>7. Open(z)
    <3>1. z.mem = [x.mem EXCEPT ![d.id] = Memory("chunk", d.capacity),
                                ![LastChk(x).id] = NoMem]
      BY <2>1, <2>3, <2>4 DEF nmem
    <3>2. /\ d.capacity \in 1 .. MaxCapacity /\ d.alloc_capacity = d.capacity
          /\ d.at = 0 /\ d.virgin = LastChk(x).virgin
          /\ d.virgin <= Units(d.capacity) /\ d.intact
          /\ z.total_capacity = x.total_capacity + (d.capacity - LastChk(x).capacity)
          /\ d.id \in MemIds /\ d.id \in FreeIds(x)
      BY <1>3, <2>1, <2>3, <2>4
    <3>3. d = LastChk(z)
      OBVIOUS
    <3> HIDE DEF d
    <3>4. Resizes(x, z, d)
      BY <2>3, <2>4, <3>1, <3>2, <3>3 DEF Resizes, l
    <3> QED
      BY <2>2, <3>4, ResizedBy, Zenon
  <2> QED
    BY <2>6, <2>7, <2>5 DEF z
<1>8. \/ split /\ y = [x EXCEPT !.chk[l] = c]
      \/ y = [x EXCEPT !.chk[l] = nchk, !.mem = nmem]
  <2>1. y = MovedLast(x, c) => y = [x EXCEPT !.chk[l] = nchk, !.mem = nmem]
    BY MovedIs, Zenon DEF l, f
  <2> QED
    BY <2>1, Zenon DEF ReallocatedLast, l
<1> QED
  BY <1>6, <1>7, <1>8

(* A last chunk as Resized wants it: c with what was written below its mark. *)
LEMMA LastFits ==
  ASSUME NEW x, Open(x), x.chk_num > 0, LastChk(x).alloc_capacity # 0
  PROVE  /\ LastChk(x) \in Entries /\ LastChk(x).at = 0 /\ LastChk(x).intact
         /\ LastChk(x).alloc_capacity = LastChk(x).capacity
         /\ LastChk(x).capacity \in 1 .. MaxCapacity
         /\ LastChk(x).virgin \in Nat /\ LastChk(x).virgin > 0
         /\ LastChk(x).virgin <= Units(LastChk(x).capacity)
<1>1. /\ LastNo(x) \in 0 .. x.chk_num - 1 /\ LastChk(x) \in Entries
  BY LayoutOf DEF LastChk, Chks, LastNo
<1>2. PICK p \in 1 .. x.chk_num : Laid(x, p)
  BY LayoutOf
<1>3. LastChk(x).at = 0 /\ LastChk(x).alloc_capacity = LastChk(x).capacity
  BY <1>2, LastAlone DEF Alone, LastChk
<1>4. /\ LastChk(x).capacity \in 1 .. MaxCapacity
      /\ Overhead(LastNo(x)) <= LastChk(x).virgin
      /\ LastChk(x).virgin <= Units(LastChk(x).capacity)
      /\ LastChk(x).intact
  BY <1>1 DEF Open, Headers, LastChk
<1>5. LastChk(x).virgin \in Nat
  BY <1>1, EntryFields
<1> QED
  BY <1>1, <1>3, <1>4, <1>5, Positive DEF Overhead

(* enlarge of the last chunk. *)
LEMMA GrownOpen ==
  ASSUME NEW x, Open(x)
  PROVE  Open(Grown(x)) /\ SameMarks(x, Grown(x))
<1>1. CASE x.chk_num = 0 \/ ~CanEnlarge(LastChk(x))
  BY <1>1 DEF Grown, SameMarks
<1>2. CASE ~(x.chk_num = 0 \/ ~CanEnlarge(LastChk(x)))
  <2> DEFINE old == LastChk(x)
             c == Copied(Enlarged(old, MaxCapacity), Units(old.capacity))
             t == x.total_capacity + (MaxCapacity - old.capacity)
             y == ReallocatedLast(x, c)
  <2>1. x.chk_num > 0 /\ old.alloc_capacity # 0 /\ old.capacity < MaxCapacity
    BY <1>2, IndexFields DEF CanEnlarge, Open
  <2>2. /\ old \in Entries /\ old.at = 0 /\ old.intact
        /\ old.virgin \in Nat /\ old.capacity \in 1 .. MaxCapacity
        /\ old.virgin <= Units(old.capacity)
    BY <2>1, LastFits
  <2> HIDE DEF old
  <2>3. /\ c \in Entries /\ c.capacity = MaxCapacity /\ c.alloc_capacity = MaxCapacity
        /\ c.virgin = old.virgin /\ c.id = old.id /\ c.at = 0 /\ c.intact
    <3>1. MaxCapacity \in Nat /\ MaxCapacity \in 0 .. MaxCapacity
      BY Positive
    <3>2. c = [[old EXCEPT !.capacity = MaxCapacity, !.alloc_capacity = MaxCapacity]
                 EXCEPT !.intact = @ /\ old.virgin <= Units(old.capacity)]
      BY <2>2 DEF Copied, Enlarged, Entries
    <3> QED
      BY <2>2, <3>1, <3>2 DEF Entries
  <2>4. c.virgin <= Units(c.capacity) /\ c.capacity \in 1 .. MaxCapacity
    <3>1. /\ old.capacity \in Nat /\ MaxCapacity \in Nat /\ old.capacity <= MaxCapacity
          /\ MaxCapacity >= 1
      BY <2>2, Positive
    <3>2. /\ Units(old.capacity) <= Units(MaxCapacity) /\ Units(old.capacity) \in Nat
          /\ Units(MaxCapacity) \in Nat
      BY <3>1, UnitsGrow
    <3> QED
      BY <2>2, <2>3, <3>1, <3>2
  <2> HIDE DEF c, y
  <2>5. /\ Open([y EXCEPT !.total_capacity = t])
        /\ SameMarks(x, [y EXCEPT !.total_capacity = t])
        /\ y.total_capacity = x.total_capacity
    <3>1. y = ReallocatedLast(x, c) /\ t = x.total_capacity + (c.capacity - old.capacity)
      BY <2>3 DEF y
    <3> HIDE DEF t
    <3> QED
      BY <2>1, <2>2, <2>3, <2>4, <3>1, ResizedLast DEF old
  <2>6. Grown(x) = [y EXCEPT !.total_capacity = y.total_capacity + (MaxCapacity - old.capacity)]
    BY <1>2, Zenon DEF Grown, y, c, old
  <2> QED
    BY <2>5, <2>6
<1> QED
  BY <1>1, <1>2

(* What shrink takes away lies above the mark. *)
LEMMA SurplusIs ==
  ASSUME NEW cap \in Nat, NEW v \in Nat, v > 0, v <= Units(cap)
  PROVE  LET s == (Units(cap) - v) \div UnitsPerCap
         IN  s \in Nat /\ s < cap /\ v <= Units(cap - s)
<1> DEFINE U == UnitsPerCap
           s == (Units(cap) - v) \div U
           w == Units(cap) - v
<1>1. U \in Nat \ {0} /\ w \in Nat /\ Units(cap) = w + v
  <2>1. Units(cap) \in Nat
    BY UnitsGrow
  <2> QED
    BY <2>1, Positive
<1>2. s = w \div U
  OBVIOUS
<1> HIDE DEF U, w, s
<1>3. s \in Nat /\ s * U <= w
  <2>1. w \div U \in Nat /\ (w \div U) * U <= w
    BY <1>1
  <2> QED
    BY <1>2, <2>1
<1>4. s < cap
  <2> SUFFICES ASSUME s >= cap PROVE FALSE
    BY <1>3
  <2>1. Units(cap) <= Units(s)
    BY <1>3, UnitsGrow
  <2>2. Units(s) = s * U /\ s * U \in Nat
    BY <1>1, <1>3 DEF Units, U
  <2> QED
    BY <1>1, <1>3, <2>1, <2>2
<1>5. cap = s + (cap - s) /\ cap - s \in Nat
  BY <1>3, <1>4
<1>6. Units(cap) = Units(s) + Units(cap - s) /\ Units(cap - s) \in Nat /\ Units(s) \in Nat
  <2> DEFINE r == cap - s
  <2>1. r \in Nat /\ cap = s + r
    BY <1>5
  <2> HIDE DEF r
  <2>2. Units(s + r) = Units(s) + Units(r) /\ Units(r) \in Nat /\ Units(s) \in Nat
    BY <1>3, <2>1, UnitsGrow
  <2> QED
    BY <2>1, <2>2 DEF r
<1>7. Units(s) = s * U
  BY DEF Units, U
<1>8. v <= Units(cap - s)
  BY <1>1, <1>3, <1>6, <1>7
<1> QED
  BY <1>3, <1>4, <1>8 DEF s, U

(* shrink of a last chunk that has memory of its own. *)
LEMMA ShrunkOpen ==
  ASSUME NEW x, Open(x), x.chk_num > 0, LastChk(x).alloc_capacity # 0,
         Surplus(LastChk(x)) > 0
  PROVE  Open(ShrunkIndex(x)) /\ SameMarks(x, ShrunkIndex(x))
<1> DEFINE old == LastChk(x)
           s == Surplus(old)
           c == Shrunk(old)
           d == IF s < c.capacity THEN Copied(c, Units(c.capacity)) ELSE Copied(c, c.virgin)
           t == x.total_capacity + (c.capacity - old.capacity)
           y == ShrunkLast(x)
<1>1. /\ old \in Entries /\ old.at = 0 /\ old.intact
      /\ old.virgin \in Nat /\ old.virgin > 0 /\ old.capacity \in 1 .. MaxCapacity
      /\ old.virgin <= Units(old.capacity) /\ old.capacity \in Nat
  BY LastFits, Positive
<1> HIDE DEF old
<1>2. s \in Nat /\ s < old.capacity /\ old.virgin <= Units(old.capacity - s)
  BY <1>1, SurplusIs DEF Surplus
<1>3. s > 0
  BY DEF old
<1> HIDE DEF s
<1>4. c = Enlarged(old, old.capacity - s)
  BY <1>2, <1>3 DEF Shrunk, s
<1>5. /\ c \in Entries /\ c.capacity = old.capacity - s /\ c.capacity \in 1 .. MaxCapacity
      /\ c.alloc_capacity = c.capacity /\ c.virgin = old.virgin /\ c.id = old.id
      /\ c.at = 0 /\ c.intact
  <2>1. old.capacity - s \in 1 .. MaxCapacity /\ old.capacity - s \in Nat
        /\ old.capacity - s \in 0 .. MaxCapacity
    BY <1>1, <1>2, Positive
  <2> DEFINE r == old.capacity - s
  <2> HIDE DEF r
  <2>2. c = [old EXCEPT !.capacity = r, !.alloc_capacity = r]
    BY <1>4 DEF Enlarged, r
  <2>3. r \in 1 .. MaxCapacity /\ r \in Nat /\ r \in 0 .. MaxCapacity
    BY <2>1 DEF r
  <2> QED
    BY <1>1, <2>2, <2>3 DEF Entries, r
<1> HIDE DEF c
<1>6. c.virgin <= Units(c.capacity) /\ c.virgin <= c.virgin
  BY <1>1, <1>2, <1>5
<1>7. d = c
  <2>1. ASSUME NEW u, c.virgin <= u
        PROVE  Copied(c, u) = c
    BY <1>5, <2>1 DEF Copied, Entries
  <2> QED
    BY <1>6, <2>1
<1>8. y = MovedLast(x, c) \/ y = ReallocatedLast(x, c)
  <2>1. y = IF s < c.capacity THEN ReallocatedLast(x, Copied(c, Units(c.capacity)))
            ELSE MovedLast(x, Copied(c, c.virgin))
    BY Zenon DEF ShrunkLast, y, c, s, old
  <2> QED
    BY <1>7, <2>1
<1> HIDE DEF y, d
<1>9. /\ Open([y EXCEPT !.total_capacity = t])
      /\ SameMarks(x, [y EXCEPT !.total_capacity = t])
      /\ y.total_capacity = x.total_capacity
  <2>1. t = x.total_capacity + (c.capacity - old.capacity)
    OBVIOUS
  <2> HIDE DEF t
  <2> QED
    BY <1>1, <1>5, <1>6, <1>8, <2>1, ResizedLast DEF old
<1>10. t = y.total_capacity - s
  <2>1. x.total_capacity \in Nat
    BY IndexFields DEF Open
  <2> QED
    BY <1>1, <1>2, <1>5, <1>9, <2>1
<1>11. ShrunkIndex(x) = [y EXCEPT !.total_capacity = y.total_capacity - s]
  BY Zenon DEF ShrunkIndex, y, s, old
<1> QED
  BY <1>9, <1>10, <1>11

---------------------------------------------------------------------------
(* Requests move a mark or append a chunk.                                 *)
LEMMA OverheadIs ==
  ASSUME NEW n
  PROVE  Overhead(n) \in Nat /\ Overhead(n) > 0
  BY Positive DEF Overhead

(* A chunk gets another mark. *)
LEMMA NewMark ==
  ASSUME NEW x, Open(x), NEW n \in Chks(x), NEW v \in Nat, Overhead(n) <= v,
         v <= Units(x.chk[n].capacity)
  PROVE  LET y == [x EXCEPT !.chk[n].virgin = v]
         IN  /\ Open(y) /\ y.chk_num = x.chk_num
             /\ y.chk[n].virgin = v /\ y.chk[n].capacity = x.chk[n].capacity
             /\ \A m \in Chks(x) \ {n} : y.chk[m] = x.chk[m]
<1> DEFINE e == [x.chk[n] EXCEPT !.virgin = v]
           y == [x EXCEPT !.chk[n].virgin = v]
<1>1. /\ x \in ChkIndexes /\ n \in ChkNos /\ Chks(x) \subseteq ChkNos
      /\ x.chk \in [ChkNos -> Entries] /\ x.chk[n] \in Entries /\ n \in 0 .. x.chk_num - 1
      /\ x.chk_num \in Nat
  BY IndexFields DEF Open, Chks, LastNo
<1>2. /\ x.chk[n].capacity \in Nat /\ x.chk[n].capacity <= MaxCapacity /\ MaxCapacity \in Nat
      /\ Units(x.chk[n].capacity) \in Nat /\ Units(MaxCapacity) \in Nat
      /\ Units(x.chk[n].capacity) <= Units(MaxCapacity)
  <2>1. /\ x.chk[n].capacity \in Nat /\ x.chk[n].capacity <= MaxCapacity
        /\ MaxCapacity \in Nat
    BY <1>1, EntryFields, Positive
  <2> QED
    BY <2>1, UnitsGrow
<1>3. v \in 0 .. Units(MaxCapacity)
  BY <1>2
<1>4. /\ e \in Entries /\ e.virgin = v /\ e.capacity = x.chk[n].capacity
      /\ e.alloc_capacity = x.chk[n].alloc_capacity /\ e.id = x.chk[n].id
      /\ e.at = x.chk[n].at /\ e.intact = x.chk[n].intact
  BY <1>1, <1>3 DEF Entries
<1>5. y = [x EXCEPT !.chk = [x.chk EXCEPT ![n] = e]]
  BY <1>1 DEF ChkIndexes
<1> HIDE DEF e, y
<1>6. /\ y \in ChkIndexes /\ y.chk = [x.chk EXCEPT ![n] = e]
      /\ y.chk_num = x.chk_num /\ y.compressed = x.compressed /\ y.misused = x.misused
      /\ y.addr_size = x.addr_size
      /\ y.total_capacity = x.total_capacity /\ y.image = x.image /\ y.mem = x.mem
  BY <1>1, <1>4, <1>5 DEF ChkIndexes
<1>7. y.chk[n] = e /\ \A m \in Chks(x) \ {n} : y.chk[m] = x.chk[m]
  BY <1>1, <1>6
<1>8. SameLayout(x, y)
  BY <1>4, <1>6, <1>7 DEF SameLayout
<1>9. Headers(y.chk, y.chk_num)
  <2>1. ASSUME NEW m \in 0 .. y.chk_num - 1
        PROVE  /\ y.chk[m].capacity \in 1 .. MaxCapacity
               /\ Overhead(m) <= y.chk[m].virgin
               /\ y.chk[m].virgin <= Units(y.chk[m].capacity)
               /\ y.chk[m].intact
    <3>1. /\ x.chk[m].capacity \in 1 .. MaxCapacity
          /\ Overhead(m) <= x.chk[m].virgin
          /\ x.chk[m].virgin <= Units(x.chk[m].capacity)
          /\ x.chk[m].intact /\ m \in Chks(x)
      BY <1>6 DEF Open, Headers, Chks, LastNo
    <3>2. CASE m = n
      BY <3>1, <3>2, <1>4, <1>7
    <3>3. CASE m # n
      BY <3>1, <3>3, <1>7
    <3> QED
      BY <3>2, <3>3
  <2>2. y.chk_num > 1 => y.chk[0].capacity = MaxCapacity
    <3>1. x.chk_num > 1 => 0 \in Chks(x) /\ x.chk[0].capacity = MaxCapacity
      BY <1>1 DEF Open, Headers, Chks, LastNo
    <3> QED
      BY <3>1, <1>4, <1>6, <1>7
  <2> QED
    BY <2>1, <2>2 DEF Headers
<1>10. Open(y)
  <2>1. y.chk_num <= y.addr_size
    BY <1>6 DEF Open
  <2> QED
    BY <1>6, <1>8, <1>9, <2>1, SameLaid
<1> QED
  BY <1>4, <1>6, <1>7, <1>10 DEF y

(* _chk_addr is reallocated before a chunk is appended. *)
LEMMA RoomGrown ==
  ASSUME NEW x, Open(x)
  PROVE  /\ Open(AddrGrown(x)) /\ SameMarks(x, AddrGrown(x))
         /\ AddrGrown(x).chk_num < AddrGrown(x).addr_size
         /\ AddrGrown(x).chk = x.chk /\ FreeIds(AddrGrown(x)) = FreeIds(x)
<1>1. x \in ChkIndexes /\ x.chk_num <= x.addr_size /\ x.chk_num \in Nat /\ x.addr_size \in Nat
  BY IndexFields DEF Open
<1>2. CASE x.chk_num # x.addr_size
  BY <1>1, <1>2 DEF AddrGrown, SameMarks
<1>3. CASE x.chk_num = x.addr_size
  <2> DEFINE a == IF x.addr_size = 0 THEN 1 ELSE 2 * x.addr_size
             y == AddrGrown(x)
  <2>1. a \in Nat /\ x.chk_num < a
    BY <1>1, <1>3
  <2>2. y = [x EXCEPT !.addr_size = a]
    BY <1>1, <1>3 DEF AddrGrown
  <2> HIDE DEF a, y
  <2>3. /\ y \in ChkIndexes /\ y.chk = x.chk
        /\ y.chk_num = x.chk_num /\ y.compressed = x.compressed /\ y.misused = x.misused
        /\ y.addr_size = a
        /\ y.total_capacity = x.total_capacity /\ y.image = x.image /\ y.mem = x.mem
    BY <1>1, <2>1, <2>2 DEF ChkIndexes
  <2>4. SameLayout(x, y) /\ SameMarks(x, y)
    BY <2>3 DEF SameLayout, SameMarks
  <2>5. Open(y)
    <3>1. y.chk_num <= y.addr_size /\ Headers(y.chk, y.chk_num)
      BY <1>1, <2>1, <2>3 DEF Open
    <3> QED
      BY <2>3, <2>4, <3>1, SameLaid
  <2>6. FreeIds(y) = FreeIds(x)
    BY <2>3 DEF FreeIds
  <2> QED
    BY <2>1, <2>3, <2>4, <2>5, <2>6 DEF y
<1> QED
  BY <1>2, <1>3

(* A second chunk is appended when the first one is as large as it gets. *)
LEMMA FirstFull ==
  ASSUME NEW x, Open(x), x.chk_num > 0, ~CanEnlarge(LastChk(x))
  PROVE  x.chk[0].capacity = MaxCapacity
<1>1. CASE x.chk_num > 1
  BY <1>1 DEF Open, Headers
<1>2. CASE x.chk_num = 1
  <2>1. LastChk(x) = x.chk[0] /\ 0 \in 0 .. x.chk_num - 1
    BY <1>2 DEF LastChk, LastNo
  <2>2. PICK p \in 1 .. x.chk_num : Laid(x, p)
    BY LayoutOf
  <2>3. x.chk[0].alloc_capacity # 0
    BY <2>2, FirstOwns
  <2>4. x.chk[0].capacity \in 1 .. MaxCapacity
    BY <2>1 DEF Open, Headers
  <2> QED
    BY <2>1, <2>3, <2>4, Positive DEF CanEnlarge
<1> QED
  BY <1>1, <1>2, LayoutOf

(* A chunk is appended, in memory of its own. *)
LEMMA AppendedOpen ==
  ASSUME NEW x, Open(x), x.chk_num < MaxChkNum,
         x.chk_num > 0 => ~CanEnlarge(LastChk(x))
  PROVE  LET y == Appended(x)
             n == x.chk_num
         IN  /\ Open(y) /\ y.chk_num = n + 1 /\ n \in Nat
             /\ y.chk[n].virgin = Overhead(n) /\ y.chk[n].capacity = MaxCapacity
             /\ y.chk[n].alloc_capacity = MaxCapacity
             /\ \A m \in Chks(x) : y.chk[m] = x.chk[m]
<1> DEFINE a == AddrGrown(x)
           n == x.chk_num
           f == FreeId(x, 0)
           e == [capacity |-> MaxCapacity, virgin |-> Overhead(n),
                 alloc_capacity |-> MaxCapacity, id |-> f, at |-> 0, intact |-> TRUE]
           y == Appended(x)
           M == Memory("chunk", MaxCapacity)
<1>1. /\ Open(a) /\ a.chk_num = n /\ n < a.addr_size /\ a.chk = x.chk
      /\ FreeIds(a) = FreeIds(x)
  BY RoomGrown DEF SameMarks
<1>2. /\ a \in ChkIndexes /\ n \in Nat /\ n \in ChkNos /\ Chks(a) = 0 .. n - 1
      /\ Chks(x) = 0 .. n - 1 /\ Chks(x) \subseteq ChkNos
      /\ a.mem \in [MemIds -> Memories] /\ a.chk \in [ChkNos -> Entries]
      /\ a.addr_size \in Nat /\ a.total_capacity \in Nat
  BY <1>1, IndexFields, Positive DEF Open, Chks, LastNo, ChkNos
<1>3. f = FreeId(a, 0)
  BY <1>1 DEF FreeId
<1>4. f \in FreeIds(a)
  <2>1. NotFree(a) \subseteq {a.chk[m].id : m \in 0 .. n - 1} \cup {f}
    BY <1>1, <1>2 DEF Open
  <2>2. n \in 0 .. MaxChkNum
    BY <1>2, Positive
  <2>3. FreeIds(a) # {}
    <3> HIDE DEF f, a, n
    <3> QED
      BY <2>1, <2>2, SomeFree
  <2> QED
    BY <1>3, <2>3, FirstFree
<1>5. f \in MemIds /\ a.mem[f] = NoMem
  BY <1>4 DEF FreeIds
<1>6. /\ Overhead(n) \in Nat /\ Overhead(n) <= Units(MaxCapacity) /\ Overhead(n) # 0
      /\ MaxCapacity \in Nat /\ MaxCapacity \in 1 .. MaxCapacity
      /\ Units(MaxCapacity) \in Nat
  <2>1. MaxCapacity \in Nat /\ MaxCapacity \in 1 .. MaxCapacity
    BY Positive
  <2>2. Units(MaxCapacity) \in Nat
    BY <2>1, UnitsGrow
  <2> QED
    BY <1>2, <2>1, <2>2, Positive DEF Overhead
<1>7. M # NoMem /\ M \in Memories
  BY <1>6, KindsOf
<1> HIDE DEF M
<1>8. e \in Entries
  BY <1>5, <1>6 DEF Entries
<1>9. y = [a EXCEPT !.mem = [a.mem EXCEPT ![f] = M],
                    !.chk_num = n + 1,
                    !.chk = [a.chk EXCEPT ![n] = e],
                    !.total_capacity = a.total_capacity + MaxCapacity]
  <2>1. y = [Taken(a, "chunk", MaxCapacity) EXCEPT
               !.chk_num = @ + 1, !.chk[n] = e, !.total_capacity = @ + MaxCapacity]
    BY Zenon DEF Appended, y, a, e, f, n
  <2>2. Taken(a, "chunk", MaxCapacity) = [a EXCEPT !.mem = [a.mem EXCEPT ![f] = M]]
    BY <1>2, <1>3 DEF Taken, M, ChkIndexes
  <2> HIDE DEF e, f, y, a
  <2> QED
    BY <1>1, <1>2, <2>1, <2>2 DEF ChkIndexes
<1>10. e.capacity = MaxCapacity /\ e.virgin = Overhead(n) /\ e.alloc_capacity = MaxCapacity
       /\ e.id = f /\ e.at = 0 /\ e.intact
  OBVIOUS
<1> HIDE DEF e, f, y, a
<1>11. /\ y.chk_num = n + 1 /\ y.chk = [a.chk EXCEPT ![n] = e] /\ y.addr_size = a.addr_size
       /\ y.mem = [a.mem EXCEPT ![f] = M] /\ y.compressed = a.compressed
       /\ y.misused = a.misused /\ y.image = a.image
       /\ y.total_capacity = a.total_capacity + MaxCapacity
  BY <1>2, <1>9 DEF ChkIndexes
<1>12. y \in ChkIndexes
  <2>1. n + 1 \in 0 .. MaxChkNum
    BY <1>2, Positive
  <2>2. [a.mem EXCEPT ![f] = M] \in [MemIds -> Memories]
    BY <1>2, <1>5, <1>7
  <2>3. [a.chk EXCEPT ![n] = e] \in [ChkNos -> Entries]
    BY <1>2, <1>8
  <2>4. a.total_capacity + MaxCapacity \in Nat
    BY <1>2, <1>6
  <2> DEFINE mem == [a.mem EXCEPT ![f] = M]
             chk == [a.chk EXCEPT ![n] = e]
             num == n + 1
             total == a.total_capacity + MaxCapacity
  <2>5. y = [a EXCEPT !.mem = mem, !.chk_num = num, !.chk = chk, !.total_capacity = total]
    BY <1>9
  <2> HIDE DEF mem, chk, num, total
  <2> QED
    BY <1>2, <2>1, <2>2, <2>3, <2>4, <2>5 DEF ChkIndexes, mem, chk, num, total
<1> HIDE DEF n
<1>13. y.chk[n] = e /\ \A m \in Chks(x) : y.chk[m] = x.chk[m]
  <2>1. \A m \in Chks(x) : m # n /\ m \in ChkNos
    BY <1>2
  <2> QED
    BY <1>1, <1>2, <1>11, <2>1
<1>14. Headers(y.chk, y.chk_num)
  <2>1. ASSUME NEW m \in 0 .. n
        PROVE  /\ y.chk[m].capacity \in 1 .. MaxCapacity
               /\ Overhead(m) <= y.chk[m].virgin
               /\ y.chk[m].virgin <= Units(y.chk[m].capacity)
               /\ y.chk[m].intact
    <3>1. CASE m = n
      BY <3>1, <1>6, <1>10, <1>13
    <3>2. CASE m # n
      <4>1. m \in 0 .. n - 1
        BY <3>2, <1>2
      <4> QED
        BY <4>1, <1>2, <1>13 DEF Open, Headers, n
    <3> QED
      BY <3>1, <3>2
  <2>2. n > 0 => y.chk[0].capacity = MaxCapacity
    BY <1>2, <1>13, FirstFull DEF n
  <2>3. (n + 1) - 1 = n /\ (n + 1 > 1 => n > 0)
    BY <1>2
  <2> QED
    BY <2>1, <2>2, <2>3, <1>11 DEF Headers
<1>15. /\ \A k \in 0 .. n : SumTo(y.chk, k) = SumTo(a.chk, k)
       /\ SumTo(y.chk, n + 1) = SumTo(a.chk, n) + MaxCapacity
  <2>1. Sized(y.chk, n + 1)
    BY <1>2, <1>11, <1>14, HeadersSized
  <2> DEFINE b == y.chk
             c == a.chk
  <2>2. Sized(b, n + 1) /\ \A m \in 0 .. n - 1 : b[m].capacity = c[m].capacity
    BY <2>1, <1>1, <1>2, <1>13
  <2>3. b[n].capacity = MaxCapacity
    BY <1>10, <1>13
  <2> HIDE DEF b, c
  <2>4. \A k \in 0 .. n : SumTo(c, k) = SumTo(b, k)
    BY <1>2, <2>2, SumToAll
  <2>5. SumTo(b, n + 1) = SumTo(b, n) + b[n].capacity
    BY <1>2, <2>2, SumToNext
  <2>6. n \in 0 .. n
    BY <1>2
  <2> QED
    BY <2>3, <2>4, <2>5, <2>6 DEF b, c
<1>16. y.total_capacity = SumTo(y.chk, y.chk_num)
  BY <1>1, <1>11, <1>15 DEF Open
<1>17. Chks(y) = Chks(x) \cup {n}
  <2>1. Chks(y) = 0 .. (n + 1) - 1
    BY <1>11 DEF Chks, LastNo
  <2>2. 0 .. (n + 1) - 1 = (0 .. n - 1) \cup {n}
    BY <1>2
  <2> QED
    BY <1>2, <2>1, <2>2
<1>18. /\ NotFree(y) = NotFree(a) \cup {f}
       /\ \A id \in MemIds \ {f} : y.mem[id] = a.mem[id]
       /\ y.mem[f] = M
  BY <1>2, <1>5, <1>7, <1>11 DEF NotFree
<1>19. /\ NotFree(a) = {x.chk[m].id : m \in Chks(x)}
       /\ \A m \in Chks(x) : x.chk[m].id # f
  <2>1. NotFree(a) = {x.chk[m].id : m \in Chks(x)}
    BY <1>1, <1>2 DEF Open
  <2>2. f \notin NotFree(a)
    BY <1>5 DEF NotFree
  <2> QED
    BY <2>1, <2>2
<1>20. NotFree(y) = {y.chk[m].id : m \in Chks(y)}
  BY <1>10, <1>13, <1>17, <1>18, <1>19
<1>21. OwnsMemory(y, n) /\ Alone(y, n)
  BY <1>5, <1>10, <1>13, <1>18 DEF OwnsMemory, Alone, M
<1>22. \E p \in 1 .. n + 1 : Laid(y, p)
  <2>1. CASE n = 0
    <3>1. Chks(x) = {} /\ Chks(y) = {0} /\ 1 \in 1 .. n + 1
      BY <1>2, <1>17, <2>1
    <3>2. Within(y, 0, 1)
      <4>1. SumTo(a.chk, 0) = 0 /\ SumTo(y.chk, 0) = 0
        BY SumToNone
      <4>2. SumTo(y.chk, 1) = MaxCapacity
        BY <1>15, <2>1, <4>1, <1>6
      <4> QED
        BY <4>1, <4>2, <2>1, <1>10, <1>13 DEF Within
    <3>3. Laid(y, 1)
      BY <2>1, <3>1, <3>2, <1>21 DEF Laid
    <3> QED
      BY <3>1, <3>3
  <2>2. CASE n # 0
    <3>1. PICK p \in 1 .. n : Laid(a, p)
      BY <1>1, <1>2, <2>2 DEF Open
    <3>2. p \in 1 .. n + 1 /\ p <= n /\ p \in 0 .. n
      BY <1>2
    <3>3. \A m \in Chks(y) : OwnsMemory(y, m)
      <4> SUFFICES ASSUME NEW m \in Chks(x) PROVE OwnsMemory(y, m)
        BY <1>17, <1>21
      <4>1. OwnsMemory(a, m)
        BY <1>2, <3>1 DEF Laid
      <4> QED
        BY <4>1, <1>1, <1>13, <1>18, <1>19 DEF OwnsMemory
    <3>4. \A m \in Chks(y) : m < p => Within(y, m, p)
      <4> SUFFICES ASSUME NEW m \in Chks(x), m < p PROVE Within(y, m, p)
        BY <1>2, <1>17, <3>2
      <4>1. Within(a, m, p)
        BY <1>2, <3>1 DEF Laid
      <4>2. m \in 0 .. n /\ 0 \in Chks(x)
        BY <1>2, <2>2
      <4> QED
        BY <4>1, <4>2, <1>1, <1>13, <1>15, <3>2 DEF Within
    <3>5. \A m \in Chks(y) : m >= p => Alone(y, m)
      <4> SUFFICES ASSUME NEW m \in Chks(x), m >= p PROVE Alone(y, m)
        BY <1>17, <1>21
      <4> QED
        BY <1>1, <1>2, <1>13, <3>1 DEF Laid, Alone
    <3>6. \A m, k \in Chks(y) :
            y.chk[m].id = y.chk[k].id => m = k \/ (m < p /\ k < p)
      <4>1. \A m, k \in Chks(x) :
              x.chk[m].id = x.chk[k].id => m = k \/ (m < p /\ k < p)
        BY <1>1, <1>2, <3>1 DEF Laid
      <4> QED
        BY <4>1, <1>10, <1>13, <1>17, <1>19
    <3> QED
      BY <3>1, <3>2, <3>3, <3>4, <3>5, <3>6 DEF Laid
  <2> QED
    BY <2>1, <2>2
<1>23. Open(y)
  <2>1. /\ ~y.misused /\ ~y.compressed /\ y.image.count = 0
        /\ y.chk_num <= y.addr_size
    BY <1>1, <1>2, <1>11 DEF Open
  <2> QED
    BY <2>1, <1>11, <1>12, <1>14, <1>16, <1>20, <1>22 DEF Open
<1> QED
  BY <1>2, <1>10, <1>11, <1>13, <1>23 DEF n, y

---------------------------------------------------------------------------
(* destruct gives back the memory of every chunk that owns some.           *)
Droppable(x) ==
  /\ x \in ChkIndexes
  /\ \A n \in Chks(x) : x.chk[n].alloc_capacity # 0 =>
       /\ x.chk[n].at = 0 /\ x.chk[n].id \in MemIds
       /\ x.mem[x.chk[n].id] = Memory("chunk", x.chk[n].alloc_capacity)
       /\ split => x.chk[n].alloc_capacity <= MaxCapacity
  /\ \A m, n \in Chks(x) :
       /\ x.chk[m].alloc_capacity # 0 /\ x.chk[n].alloc_capacity # 0
       /\ x.chk[m].id = x.chk[n].id
       => m = n

(* What is left when the chunks in s are destructed. *)
MemWithout(x, s) ==
  [id \in MemIds |->
     IF \E n \in s : x.chk[n].alloc_capacity # 0 /\ x.chk[n].id = id
     THEN NoMem ELSE x.mem[id]]

Without(x, s) == [x EXCEPT !.mem = MemWithout(x, s)]

(* Nothing given back changes nothing. *)
LEMMA WithoutNone ==
  ASSUME NEW x \in ChkIndexes
  PROVE  Without(x, {}) = x
<1>1. x.mem \in [MemIds -> Memories]
  BY IndexFields
<1>2. MemWithout(x, {}) = x.mem
  BY <1>1 DEF MemWithout
<1> QED
  BY <1>2 DEF Without, ChkIndexes

(* destruct of one more chunk gives back the memory of that one. *)
LEMMA WithoutNext ==
  ASSUME NEW x, Droppable(x), NEW s \in SUBSET Chks(x), NEW n \in s
  PROVE  Without(x, s) = DestructChk(Without(x, s \ {n}), x.chk[n])
<1> DEFINE y == Without(x, s \ {n})
           c == x.chk[n]
           r == MemWithout(x, s \ {n})
<1>1. x \in ChkIndexes /\ y = [x EXCEPT !.mem = r] /\ y.mem = r /\ n \in Chks(x)
  BY DEF Droppable, Without, ChkIndexes
<1> HIDE DEF y
<1>2. CASE c.alloc_capacity = 0
  <2>1. MemWithout(x, s) = r
    BY <1>2 DEF MemWithout
  <2> QED
    BY <1>1, <1>2, <2>1 DEF DestructChk, Without, y
<1>3. CASE c.alloc_capacity # 0
  <2>1. /\ c.at = 0 /\ c.id \in MemIds
        /\ x.mem[c.id] = Memory("chunk", c.alloc_capacity)
        /\ split => c.alloc_capacity <= MaxCapacity
    BY <1>1, <1>3 DEF Droppable
  <2>2. ~ \E m \in s \ {n} : x.chk[m].alloc_capacity # 0 /\ x.chk[m].id = c.id
    BY <1>1, <1>3 DEF Droppable
  <2>3. r[c.id] = Memory("chunk", c.alloc_capacity)
    BY <2>1, <2>2 DEF MemWithout
  <2>4. MayGive(y, c, "chunk", c.alloc_capacity)
    BY <1>1, <2>1, <2>3, KindsOf DEF MayGive
  <2>5. DestructChk(y, c) = [y EXCEPT !.mem[c.id] = NoMem]
    BY <1>3, <2>4 DEF DestructChk, Given
  <2>6. [r EXCEPT ![c.id] = NoMem] = MemWithout(x, s)
    BY <1>3, <2>1 DEF MemWithout
  <2> HIDE DEF r, c
  <2>7. [y EXCEPT !.mem[c.id] = NoMem] = [x EXCEPT !.mem = [r EXCEPT ![c.id] = NoMem]]
    BY <1>1 DEF ChkIndexes
  <2> QED
    BY <2>5, <2>6, <2>7 DEF Without, c, y
<1> QED
  BY <1>2, <1>3

Destructs(g, x, S) ==
  g = [s \in SUBSET S |-> IF s = {} THEN x
                          ELSE DestructChk(g[s \ {Chosen(s)}], x.chk[Chosen(s)])]

(* The loop over the chunks is the value of a function that gives back. *)
LEMMA DestructIsFold ==
  ASSUME NEW x, NEW S
  PROVE  FoldSet(LAMBDA n, y : DestructChk(y, x.chk[n]), x, S)
           = (CHOOSE g : Destructs(g, x, S))[S]
  BY Zenon DEF FoldSet, MapThenFoldSet, Destructs, Chosen

(* The loop gives back the memory of all chunks, in whatever order. *)
LEMMA DestructIsWithout ==
  ASSUME NEW x, Droppable(x)
  PROVE  FoldSet(LAMBDA n, y : DestructChk(y, x.chk[n]), x, Chks(x)) = Without(x, Chks(x))
<1> DEFINE S == Chks(x)
           w == [s \in SUBSET S |-> Without(x, s)]
           g == CHOOSE h : Destructs(h, x, S)
<1>1. \A s \in SUBSET S : s # {} => Chosen(s) \in s
  BY DEF Chosen
<1>2. x \in ChkIndexes /\ IsFiniteSet(S)
  <2>1. x \in ChkIndexes
    BY DEF Droppable
  <2>2. x.chk_num - 1 \in Int
    BY <2>1, IndexFields
  <2>3. IsFiniteSet(0 .. x.chk_num - 1)
    BY <2>2, FS_Interval
  <2> QED
    BY <2>1, <2>3 DEF Chks, LastNo
<1> HIDE DEF S
<1>3. \A s \in SUBSET S : \A n \in s :
        Without(x, s) = DestructChk(Without(x, s \ {n}), x.chk[n])
  BY WithoutNext DEF S
<1>4. Without(x, {}) = x
  BY <1>2, WithoutNone
<1>5. Destructs(w, x, S)
  <2> SUFFICES ASSUME NEW s \in SUBSET S
               PROVE  w[s] = IF s = {} THEN x
                             ELSE DestructChk(w[s \ {Chosen(s)}], x.chk[Chosen(s)])
    BY DEF Destructs
  <2>1. CASE s = {}
    BY <1>4, <2>1
  <2>2. CASE s # {}
    <3>1. Chosen(s) \in s /\ s \ {Chosen(s)} \in SUBSET S
      BY <2>2, <1>1
    <3>2. Without(x, s) = DestructChk(Without(x, s \ {Chosen(s)}), x.chk[Chosen(s)])
      BY <3>1, <1>3
    <3> QED
      BY <2>2, <3>1, <3>2
  <2> QED
    BY <2>1, <2>2
<1> HIDE DEF w
<1>6. Destructs(g, x, S)
  BY <1>5
<1> HIDE DEF g
<1>7. \A s \in SUBSET S :
        g[s] = IF s = {} THEN x ELSE DestructChk(g[s \ {Chosen(s)}], x.chk[Chosen(s)])
  BY <1>6 DEF Destructs
<1> DEFINE B == {s \in SUBSET S : g[s] # Without(x, s)}
<1>8. B = {}
  <2> SUFFICES ASSUME B # {} PROVE FALSE
    OBVIOUS
  <2>1. B \subseteq SUBSET S
    OBVIOUS
  <2>2. PICK s \in B : \A n \in s : s \ {n} \notin B
    <3> HIDE DEF B
    <3> QED
      BY <1>2, <2>1, Smallest
  <2>3. s # {}
    BY <2>2, <1>4, <1>7
  <2>4. Chosen(s) \in s /\ s \ {Chosen(s)} \in SUBSET S /\ s \in SUBSET S
    BY <1>1, <2>2, <2>3
  <2>5. g[s \ {Chosen(s)}] = Without(x, s \ {Chosen(s)})
    BY <2>2, <2>4
  <2>6. g[s] = DestructChk(g[s \ {Chosen(s)}], x.chk[Chosen(s)])
    BY <1>7, <2>3, <2>4
  <2>7. Without(x, s) = DestructChk(Without(x, s \ {Chosen(s)}), x.chk[Chosen(s)])
    BY <1>3, <2>4
  <2> QED
    BY <2>2, <2>5, <2>6, <2>7
<1>9. g[S] = Without(x, S)
  BY <1>8
<1> QED
  BY <1>9, DestructIsFold DEF g, S

NoEntries == [n \in ChkNos |-> NoEntry]

(* What destruct leaves of an index with chunks. *)
LEMMA DestructedIs ==
  ASSUME NEW x, Droppable(x), x.chk_num # 0, ~x.compressed
  PROVE  Destructed(x) =
           [x EXCEPT !.mem = MemWithout(x, Chks(x)), !.chk = NoEntries,
                     !.chk_num = 0, !.total_capacity = 0]
<1> DEFINE w == Without(x, Chks(x))
           m == MemWithout(x, Chks(x))
<1>1. Destructed(x) = DestructAll(x) /\ x \in ChkIndexes
  BY DEF Destructed, Droppable
<1>2. DestructAll(x) = [w EXCEPT !.chk = NoEntries, !.chk_num = 0, !.total_capacity = 0]
  BY DestructIsWithout, Zenon DEF DestructAll, NoEntries
<1>3. w = [x EXCEPT !.mem = m]
  BY DEF Without
<1> HIDE DEF w, m
<1>4. [w EXCEPT !.chk = NoEntries, !.chk_num = 0, !.total_capacity = 0]
        = [x EXCEPT !.mem = m, !.chk = NoEntries, !.chk_num = 0, !.total_capacity = 0]
  BY <1>1, <1>3 DEF ChkIndexes
<1> QED
  BY <1>1, <1>2, <1>4 DEF m

(* An open index can be destructed: every piece of memory it has is owned  *)
(* by one of its chunks.                                                   *)
LEMMA OpenDroppable ==
  ASSUME NEW x, Open(x), x.chk_num > 0
  PROVE  /\ Droppable(x)
         /\ \A id \in NotFree(x) : \E n \in Chks(x) :
              x.chk[n].alloc_capacity # 0 /\ x.chk[n].id = id
<1>1. /\ x \in ChkIndexes /\ 0 \in Chks(x) /\ Chks(x) = 0 .. x.chk_num - 1
      /\ x.chk_num \in Nat
  BY LayoutOf DEF Open, Chks, LastNo
<1>2. PICK p \in 1 .. x.chk_num : Laid(x, p)
  BY LayoutOf
<1>3. /\ x.chk[0].at = 0 /\ x.chk[0].alloc_capacity # 0
      /\ p = 1 => x.chk[0].alloc_capacity = x.chk[0].capacity
  BY <1>2, FirstOwns
<1>4. \A n \in Chks(x) : x.chk[n].capacity \in 1 .. MaxCapacity
  BY <1>1 DEF Open, Headers
<1>5. \A n \in Chks(x) :
        /\ n < p => x.chk[n].id = x.chk[0].id /\ (n # 0 => x.chk[n].alloc_capacity = 0)
        /\ n >= p => x.chk[n].at = 0 /\ x.chk[n].alloc_capacity = x.chk[n].capacity
  BY <1>2 DEF Laid, Within, Alone
<1>6. \A n \in Chks(x) : x.chk[n].alloc_capacity # 0 =>
        /\ x.chk[n].at = 0 /\ x.chk[n].id \in MemIds
        /\ x.mem[x.chk[n].id] = Memory("chunk", x.chk[n].alloc_capacity)
        /\ split => x.chk[n].alloc_capacity <= MaxCapacity
  <2> SUFFICES ASSUME NEW n \in Chks(x), x.chk[n].alloc_capacity # 0
               PROVE  /\ x.chk[n].at = 0 /\ x.chk[n].id \in MemIds
                      /\ x.mem[x.chk[n].id] = Memory("chunk", x.chk[n].alloc_capacity)
                      /\ split => x.chk[n].alloc_capacity <= MaxCapacity
    OBVIOUS
  <2>1. x.chk[n].id \in MemIds /\ x.mem[x.chk[n].id] = Memory("chunk", x.chk[n].alloc_capacity)
    BY <1>2 DEF Laid, OwnsMemory
  <2>2. n = 0 \/ n >= p
    BY <1>1, <1>5
  <2>3. x.chk[n].at = 0
    BY <2>2, <1>3, <1>5
  <2>4. ASSUME split
        PROVE  x.chk[n].alloc_capacity <= MaxCapacity
    <3>1. p = 1
      BY <2>4, <1>2 DEF Laid
    <3>2. x.chk[n].alloc_capacity = x.chk[n].capacity
      BY <2>2, <3>1, <1>3, <1>5
    <3> QED
      BY <3>2, <1>4, Positive
  <2> QED
    BY <2>1, <2>3, <2>4
<1>7. \A m, n \in Chks(x) :
        /\ x.chk[m].alloc_capacity # 0 /\ x.chk[n].alloc_capacity # 0
        /\ x.chk[m].id = x.chk[n].id
        => m = n
  <2>1. \A m, n \in Chks(x) : x.chk[m].id = x.chk[n].id => m = n \/ (m < p /\ n < p)
    BY <1>2 DEF Laid
  <2> QED
    BY <2>1, <1>5
<1>8. \A id \in NotFree(x) : \E n \in Chks(x) :
        x.chk[n].alloc_capacity # 0 /\ x.chk[n].id = id
  <2> SUFFICES ASSUME NEW m \in Chks(x)
               PROVE  \E n \in Chks(x) : x.chk[n].alloc_capacity # 0
                                         /\ x.chk[n].id = x.chk[m].id
    BY DEF Open
  <2>1. CASE m < p
    BY <2>1, <1>1, <1>3, <1>5
  <2>2. CASE m >= p
    BY <2>2, <1>4, <1>5, Positive
  <2> QED
    BY <2>1, <2>2, <1>1
<1> QED
  BY <1>1, <1>6, <1>7, <1>8 DEF Droppable

(* The headers of no chunk have their type. *)
LEMMA NoEntriesOk == NoEntries \in [ChkNos -> Entries]
<1>1. Units(MaxCapacity) \in Nat /\ MaxCapacity \in Nat
  BY Positive, UnitsGrow
<1>2. NoEntry \in Entries
  BY <1>1 DEF NoEntry, Entries
<1> QED
  BY <1>2 DEF NoEntries

(* No chunk and no memory. *)
Bare(x) ==
  /\ x \in ChkIndexes
  /\ ~x.misused /\ ~x.compressed /\ x.image.count = 0
  /\ x.chk_num = 0 /\ x.total_capacity = 0
  /\ NotFree(x) = {}

(* An index without chunks is bare. *)
LEMMA BareOpen ==
  ASSUME NEW x
  PROVE  /\ Bare(x) => Open(x) /\ x.chk_num = 0
         /\ Open(x) /\ x.chk_num = 0 => Bare(x)
<1>1. ASSUME x \in ChkIndexes, x.chk_num = 0
      PROVE  /\ Chks(x) = {} /\ Headers(x.chk, x.chk_num) /\ SumTo(x.chk, x.chk_num) = 0
             /\ x.chk_num <= x.addr_size
  <2>1. 0 .. 0 - 1 = {} /\ x.addr_size \in Nat
    BY <1>1, IndexFields
  <2> QED
    BY <1>1, <2>1, SumToNone DEF Chks, LastNo, Headers
<1> QED
  BY <1>1 DEF Bare, Open

(* destruct of an open index leaves nothing. *)
LEMMA DestructedBare ==
  ASSUME NEW x, Open(x)
  PROVE  Bare(Destructed(x))
<1>1. CASE x.chk_num = 0
  BY <1>1, BareOpen DEF Destructed
<1>2. CASE x.chk_num # 0
  <2> DEFINE m == MemWithout(x, Chks(x))
             y == Destructed(x)
  <2>1. x \in ChkIndexes /\ x.chk_num > 0 /\ ~x.compressed
    BY <1>2, IndexFields DEF Open
  <2>2. y = [x EXCEPT !.mem = m, !.chk = NoEntries, !.chk_num = 0, !.total_capacity = 0]
    BY <1>2, <2>1, OpenDroppable, DestructedIs
  <2>3. \A id \in MemIds : m[id] = NoMem
    BY <2>1, OpenDroppable DEF MemWithout, NotFree
  <2>4. m \in [MemIds -> Memories]
    <3>1. NoMem \in Memories
      BY DEF NoMem, Memories
    <3>2. x.mem \in [MemIds -> Memories]
      BY <2>1, IndexFields
    <3> QED
      BY <3>1, <3>2 DEF MemWithout
  <2> HIDE DEF m, y
  <2>5. /\ y.mem = m /\ y.chk_num = 0 /\ y.total_capacity = 0
        /\ y.misused = x.misused /\ y.compressed = x.compressed /\ y.image = x.image
    BY <2>1, <2>2 DEF ChkIndexes
  <2>6. y \in ChkIndexes
    <3>1. 0 \in 0 .. MaxChkNum
      BY Positive
    <3> QED
      BY <2>1, <2>2, <2>4, <3>1, NoEntriesOk DEF ChkIndexes
  <2>7. NotFree(y) = {}
    BY <2>3, <2>5 DEF NotFree
  <2> QED
    BY <2>5, <2>6, <2>7 DEF Bare, Open, y
<1> QED
  BY <1>1, <1>2

(* compress: the image is taken first, then all chunks are destructed.     *)
LEMMA CompressedPacked ==
  ASSUME NEW x, Open(x), x.chk_num > 0
  PROVE  /\ Packed(Compressed(x))
         /\ Compressed(x).image.count = x.chk_num
         /\ Compressed(x).image.chk = x.chk
<1> DEFINE f == FreeId(x, 0)
           M == Memory("image", 0)
           t == Taken(x, "image", 0)
           S == Chks(x)
           m == MemWithout(t, Chks(t))
           d == Destructed(t)
           image == [count |-> x.chk_num, chk |-> x.chk, len |-> Stored(x), id |-> f]
           y == Compressed(x)
<1>1. /\ x \in ChkIndexes /\ x.chk_num \in 0 .. MaxChkNum /\ x.chk_num \in Nat
      /\ S = 0 .. x.chk_num - 1 /\ x.mem \in [MemIds -> Memories]
      /\ x.chk \in [ChkNos -> Entries] /\ ~x.compressed /\ ~x.misused
      /\ NotFree(x) = {x.chk[n].id : n \in S}
  BY IndexFields DEF Open, Chks, LastNo
<1>2. f \in FreeIds(x) /\ f \in MemIds
  <2>1. NotFree(x) \subseteq {x.chk[n].id : n \in 0 .. x.chk_num - 1} \cup {f}
    BY <1>1
  <2>2. FreeIds(x) # {}
    <3> HIDE DEF f
    <3> QED
      BY <1>1, <2>1, SomeFree
  <2>3. f \in FreeIds(x)
    BY <2>2, FirstFree
  <2> QED
    BY <2>3 DEF FreeIds
<1> HIDE DEF f
<1>3. M # NoMem /\ M \in Memories /\ NoMem \in Memories
  BY KindsOf DEF NoMem, Memories
<1> HIDE DEF M
<1>4. t = [x EXCEPT !.mem = [x.mem EXCEPT ![f] = M]]
  BY <1>1 DEF Taken, f, M, ChkIndexes
<1> HIDE DEF t
<1>5. /\ t \in ChkIndexes /\ t.mem = [x.mem EXCEPT ![f] = M] /\ t.chk = x.chk
      /\ t.chk_num = x.chk_num /\ t.compressed = x.compressed /\ t.misused = x.misused
      /\ t.addr_size = x.addr_size
  <2>1. [x.mem EXCEPT ![f] = M] \in [MemIds -> Memories]
    BY <1>1, <1>2, <1>3
  <2> QED
    BY <1>1, <1>4, <2>1 DEF ChkIndexes
<1>6. Chks(t) = S
  BY <1>5 DEF Chks, LastNo
<1> HIDE DEF S
<1>7. \A n \in S : x.chk[n].id # f
  <2>1. f \notin NotFree(x)
    BY <1>2 DEF NotFree, FreeIds
  <2> QED
    BY <1>1, <2>1
<1>8. Droppable(t)
  <2>1. Droppable(x)
    BY OpenDroppable
  <2>2. \A n \in S : x.chk[n].id \in MemIds => t.mem[x.chk[n].id] = x.mem[x.chk[n].id]
    BY <1>1, <1>5, <1>7
  <2> QED
    BY <2>1, <2>2, <1>5, <1>6 DEF Droppable, S
<1>9. m = [id \in MemIds |-> IF id = f THEN M ELSE NoMem]
  <2>1. \A id \in NotFree(x) : \E n \in S :
          x.chk[n].alloc_capacity # 0 /\ x.chk[n].id = id
    BY OpenDroppable DEF S
  <2>2. ASSUME NEW id \in MemIds
        PROVE  m[id] = IF id = f THEN M ELSE NoMem
    <3>1. CASE id = f
      BY <3>1, <1>1, <1>2, <1>5, <1>6, <1>7 DEF MemWithout
    <3>2. CASE id # f /\ id \in NotFree(x)
      BY <3>2, <2>1, <1>5, <1>6 DEF MemWithout
    <3>3. CASE id # f /\ id \notin NotFree(x)
      BY <3>3, <1>1, <1>5, <1>6 DEF MemWithout, NotFree
    <3> QED
      BY <3>1, <3>2, <3>3
  <2> QED
    BY <2>2 DEF MemWithout
<1>10. d = [t EXCEPT !.mem = m, !.chk = NoEntries, !.chk_num = 0, !.total_capacity = 0]
  <2>1. t.chk_num # 0 /\ ~t.compressed
    BY <1>1, <1>5
  <2> QED
    BY <1>8, <2>1, DestructedIs, Zenon
<1> HIDE DEF m, d
<1>11. d \in ChkIndexes /\ d.mem = m /\ d.chk_num = 0 /\ d.total_capacity = 0
       /\ d.misused = t.misused /\ d.addr_size = t.addr_size
  <2>1. m \in [MemIds -> Memories] /\ 0 \in 0 .. MaxChkNum
    BY <1>3, <1>9, Positive
  <2> QED
    BY <1>5, <1>10, <2>1, NoEntriesOk DEF ChkIndexes
<1>12. y = [d EXCEPT !.compressed = TRUE, !.image = image]
  BY Zenon DEF Compressed, y, d, t, image, f
<1>13. Stored(x) = Units(SumTo(x.chk, x.chk_num - 1)) + x.chk[x.chk_num - 1].virgin
  <2> DEFINE l == LastNo(x)
             s == SumTo(x.chk, l)
             c == LastChk(x)
  <2>1. s \in Nat /\ c.capacity \in Nat /\ x.total_capacity = s + c.capacity
    BY LastCounted
  <2> HIDE DEF s, c
  <2>2. Units(s + c.capacity) = Units(s) + Units(c.capacity)
        /\ Units(s) \in Nat /\ Units(c.capacity) \in Nat
    BY <2>1, UnitsGrow
  <2>3. c.virgin \in Nat
    <3>1. c \in Entries
      BY LayoutOf DEF LastChk, c
    <3> QED
      BY <3>1, EntryFields
  <2>4. Stored(x) = Units(s + c.capacity) - Units(c.capacity) + c.virgin
    BY <2>1 DEF Stored, c
  <2>5. Stored(x) = Units(s) + c.virgin
    BY <2>2, <2>3, <2>4
  <2> QED
    BY <2>5 DEF s, c, l, LastChk, LastNo
<1>14. Stored(x) \in Nat
  <2>1. /\ SumTo(x.chk, x.chk_num - 1) \in Nat /\ x.chk[x.chk_num - 1].virgin \in Nat
    BY LastCounted, LayoutOf, EntryFields DEF LastNo
  <2>2. Units(SumTo(x.chk, x.chk_num - 1)) \in Nat
    BY <2>1, UnitsGrow
  <2> QED
    BY <1>13, <2>1, <2>2
<1>15. image \in Images
  BY <1>1, <1>2, <1>14 DEF Images
<1>16. /\ image.count = x.chk_num /\ image.chk = x.chk /\ image.len = Stored(x)
       /\ image.id = f
  OBVIOUS
<1> HIDE DEF image, y
<1>17. /\ y \in ChkIndexes /\ y.compressed = TRUE /\ y.image = image /\ y.mem = m
       /\ y.chk_num = 0 /\ y.total_capacity = 0 /\ y.misused = t.misused
       /\ y.addr_size = t.addr_size
  BY <1>11, <1>12, <1>15 DEF ChkIndexes
<1>18. NotFree(y) = {f} /\ y.mem[f] = M
  BY <1>2, <1>3, <1>9, <1>17 DEF NotFree
<1>19. Headers(x.chk, x.chk_num) /\ x.chk_num <= x.addr_size
  BY DEF Open
<1>20. Packed(y)
  BY <1>1, <1>2, <1>5, <1>13, <1>16, <1>17, <1>18, <1>19 DEF Packed, M
<1> QED
  BY <1>16, <1>17, <1>20 DEF y

---------------------------------------------------------------------------
(* uncompress.  What the headers in an image add up to.                    *)
LEMMA ImageSums ==
  ASSUME NEW chk, NEW l \in Nat, Headers(chk, l + 1),
         \A n \in 0 .. l : chk[n].virgin \in Nat,
         NEW len, len = Units(SumTo(chk, l)) + chk[l].virgin
  PROVE  /\ len \in Nat
         /\ AlignedCapacity(chk[l].virgin) \in 1 .. chk[l].capacity
         /\ chk[l].virgin <= Units(AlignedCapacity(chk[l].virgin))
         /\ AlignedCapacity(len) = SumTo(chk, l) + AlignedCapacity(chk[l].virgin)
         /\ \A n \in 0 .. l :
              /\ SumTo(chk, n) \in Nat /\ SumTo(chk, n) < AlignedCapacity(len)
              /\ chk[n].virgin <= len - Units(SumTo(chk, n))
         /\ \A n \in 0 .. l - 1 :
              chk[n].capacity < AlignedCapacity(len) - SumTo(chk, n)
<1> DEFINE s == SumTo(chk, l)
           v == chk[l].virgin
           a == AlignedCapacity(v)
<1>1. Sized(chk, l + 1) /\ Sized(chk, l) /\ l \in 0 .. l /\ l \in 0 .. (l + 1) - 1
  BY HeadersSized DEF Sized
<1>2. s \in Nat
  BY <1>1, SumToIs
<1>3. v \in Nat /\ v # 0 /\ v <= Units(chk[l].capacity) /\ chk[l].capacity \in Nat
  <2>1. Overhead(l) <= v /\ v <= Units(chk[l].capacity) /\ v \in Nat
    BY <1>1 DEF Headers
  <2>2. Overhead(l) \in Nat /\ Overhead(l) # 0
    BY Positive DEF Overhead
  <2>3. chk[l].capacity \in Nat
    BY <1>1 DEF Sized
  <2> QED
    BY <2>1, <2>2, <2>3
<1>4. /\ a \in Nat /\ v <= Units(a) /\ a <= chk[l].capacity /\ a # 0
      /\ AlignedCapacity(Units(s) + v) = s + a
  <2> DEFINE c == chk[l].capacity
  <2>1. c \in Nat /\ v \in Nat /\ v # 0 /\ v <= Units(c)
    BY <1>3
  <2> HIDE DEF c, v, s
  <2> QED
    BY <1>2, <2>1, Rounded DEF c
<1>5. Units(s) \in Nat
  BY <1>2, UnitsGrow
<1>6. len \in Nat /\ AlignedCapacity(len) = s + a /\ len = Units(s) + v
  BY <1>3, <1>4, <1>5
<1> HIDE DEF s, v, a
<1>7. ASSUME NEW n \in 0 .. l
      PROVE  /\ SumTo(chk, n) \in Nat /\ SumTo(chk, n) <= s
             /\ n # l => SumTo(chk, n) + chk[n].capacity <= s
  <2>1. SumTo(chk, n) \in Nat /\ SumTo(chk, n) <= s
    BY <1>1, SumToGrows DEF s
  <2>2. ASSUME n # l
        PROVE  SumTo(chk, n) + chk[n].capacity <= s
    <3>1. n \in 0 .. l - 1 /\ n < l
      BY <2>2
    <3> QED
      BY <1>1, <3>1, SumToBefore DEF s
  <2> QED
    BY <2>1, <2>2
<1>8. ASSUME NEW n \in 0 .. l
      PROVE  chk[n].virgin <= len - Units(SumTo(chk, n))
  <2>1. CASE n = l
    BY <2>1, <1>3, <1>5, <1>6 DEF s, v
  <2>2. CASE n # l
    <3> DEFINE b == SumTo(chk, n)
               c == chk[n].capacity
    <3>1. n \in 0 .. (l + 1) - 1 /\ c \in Nat /\ b \in Nat /\ b + c <= s
      BY <1>1, <1>7, <2>2 DEF Sized
    <3>2. chk[n].virgin <= Units(c) /\ chk[n].virgin \in Nat
      BY <3>1 DEF Headers
    <3> HIDE DEF b, c
    <3>3. /\ Units(b + c) = Units(b) + Units(c) /\ Units(b) \in Nat /\ Units(c) \in Nat
          /\ Units(b + c) <= Units(s)
      <4>1. Units(b + c) = Units(b) + Units(c) /\ Units(b) \in Nat /\ Units(c) \in Nat
        BY <3>1, UnitsGrow
      <4>2. b + c \in Nat /\ b + c <= s
        BY <3>1
      <4>3. Units(b + c) <= Units(s)
        BY <1>2, <4>2, UnitsGrow
      <4> QED
        BY <4>1, <4>3
    <3>4. chk[n].virgin <= len - Units(b)
      BY <1>3, <1>5, <1>6, <3>2, <3>3
    <3> QED
      BY <3>4 DEF b
  <2> QED
    BY <2>1, <2>2
<1>9. ASSUME NEW n \in 0 .. l - 1
      PROVE  chk[n].capacity < (s + a) - SumTo(chk, n)
  <2>1. n \in 0 .. l /\ n # l /\ chk[n].capacity \in Nat
    BY <1>1 DEF Sized
  <2> QED
    BY <1>2, <1>4, <1>7, <2>1
<1>10. \A n \in 0 .. l : SumTo(chk, n) \in Nat /\ SumTo(chk, n) < s + a
  BY <1>2, <1>4, <1>7
<1>11. a \in 1 .. chk[l].capacity
  BY <1>3, <1>4
<1> QED
  BY <1>4, <1>6, <1>8, <1>9, <1>10, <1>11 DEF s, v, a

(* All chunks in one piece of memory of some kind. *)
Joined(x, kind) ==
  /\ x \in ChkIndexes
  /\ ~x.misused /\ ~x.compressed /\ x.image.count = 0
  /\ x.chk_num > 0 /\ x.chk_num <= x.addr_size
  /\ Headers(x.chk, x.chk_num)
  /\ x.total_capacity = SumTo(x.chk, x.chk_num)
  /\ \A n \in Chks(x) : Within(x, n, x.chk_num)
  /\ x.chk[0].id \in MemIds /\ NotFree(x) = {x.chk[0].id}
  /\ x.mem[x.chk[0].id] = Memory(kind, x.total_capacity)

UnpackedKind(total) == IF ~split \/ total <= MaxCapacity THEN "chunk" ELSE "raw"

(* uncompress up to the point where it may split. *)
Unwrapped(x) ==
  LET image == x.image
      total == AlignedCapacity(image.len)
      id == FreeId(x, 0)
      y == [Taken(x, UnpackedKind(total), total) EXCEPT
             !.chk_num = Cardinality(Walked(image)),
             !.chk = [n \in ChkNos |->
               IF n \in Walked(image) THEN ImageChk(image, n, id) ELSE NoEntry],
             !.total_capacity = total,
             !.image = NoImage,
             !.compressed = FALSE]
  IN  Given(y, [id |-> image.id, at |-> 0], "image", 0)

(* What an image is unpacked to, with and without UNCOMPRESS_SPLIT. *)
LEMMA UnpackedIs ==
  ASSUME NEW x
  PROVE  Unpacked(x) = IF split THEN SplitUp(Unwrapped(x)) ELSE Unwrapped(x)
  BY Zenon DEF Unpacked, Unwrapped, UnpackedKind

(* Where chunk n lies, and what it holds. *)
LEMMA ImageChkIs ==
  ASSUME NEW image \in Images, NEW l \in Nat, l + 1 = image.count,
         Headers(image.chk, l + 1),
         image.len = Units(SumTo(image.chk, l)) + image.chk[l].virgin,
         NEW n \in 0 .. l, NEW id \in MemIds
  PROVE  LET e == ImageChk(image, n, id)
         IN  /\ e \in Entries /\ e.intact /\ e.id = id /\ e.virgin = image.chk[n].virgin
             /\ e.at = SumTo(image.chk, n)
             /\ e.alloc_capacity = IF n = 0 THEN AlignedCapacity(image.len) ELSE 0
             /\ e.capacity = IF n = l THEN AlignedCapacity(image.chk[l].virgin)
                             ELSE image.chk[n].capacity
<1> DEFINE c == image.chk[n]
           A == AlignedCapacity(image.len)
           b == SumTo(image.chk, n)
           u == image.len - Units(b)
           r == IF A - b < c.capacity THEN A - b ELSE c.capacity
           e == ImageChk(image, n, id)
<1>1. /\ image.count \in 0 .. MaxChkNum /\ image.chk \in [ChkNos -> Entries]
      /\ image.len \in Nat
  BY DEF Images
<1>2. \A m \in 0 .. l : m \in ChkNos /\ image.chk[m] \in Entries
  <2>1. \A m \in 0 .. l : m \in ChkNos
    BY <1>1, Positive DEF ChkNos
  <2> QED
    BY <1>1, <2>1
<1>3. \A m \in 0 .. l : image.chk[m].virgin \in Nat /\ image.chk[m].capacity \in Nat
                        /\ image.chk[m].capacity <= MaxCapacity
  BY <1>2, EntryFields, Positive
<1>4. /\ AlignedCapacity(image.chk[l].virgin) \in 1 .. image.chk[l].capacity
      /\ A = SumTo(image.chk, l) + AlignedCapacity(image.chk[l].virgin)
      /\ b \in Nat /\ b < A /\ c.virgin <= u
      /\ n # l => c.capacity < A - b
      /\ SumTo(image.chk, l) \in Nat
  <2> DEFINE chk == image.chk
             len == image.len
  <2>1. Headers(chk, l + 1) /\ (\A m \in 0 .. l : chk[m].virgin \in Nat)
        /\ len = Units(SumTo(chk, l)) + chk[l].virgin
    BY <1>3
  <2>2. n # l => n \in 0 .. l - 1
    OBVIOUS
  <2>3. l \in 0 .. l
    OBVIOUS
  <2> HIDE DEF chk, len
  <2>4. /\ AlignedCapacity(chk[l].virgin) \in 1 .. chk[l].capacity
        /\ AlignedCapacity(len) = SumTo(chk, l) + AlignedCapacity(chk[l].virgin)
        /\ \A m \in 0 .. l :
              /\ SumTo(chk, m) \in Nat /\ SumTo(chk, m) < AlignedCapacity(len)
              /\ chk[m].virgin <= len - Units(SumTo(chk, m))
        /\ \A m \in 0 .. l - 1 :
              chk[m].capacity < AlignedCapacity(len) - SumTo(chk, m)
    BY <2>1, ImageSums
  <2> QED
    BY <2>2, <2>3, <2>4 DEF chk, len
<1>5. A \in Nat
  BY <1>3, <1>4
<1>6. r = IF n = l THEN AlignedCapacity(image.chk[l].virgin) ELSE c.capacity
  <2>1. CASE n = l
    BY <2>1, <1>3, <1>4, <1>5
  <2>2. CASE n # l
    BY <2>2, <1>3, <1>4, <1>5
  <2> QED
    BY <2>1, <2>2
<1>7. r \in 0 .. MaxCapacity
  <2>1. MaxCapacity \in Nat
    BY Positive
  <2> QED
    BY <1>3, <1>4, <1>6, <2>1
<1>8. c \in Entries /\ c.intact
  BY <1>2 DEF Headers
<1> DEFINE o == IF n = 0 THEN A ELSE 0
<1>9. Start(image, n) = b
  BY Zenon DEF Start, SumTo, b
<1>10. e = [Copied(c, u) EXCEPT !.capacity = r, !.alloc_capacity = o, !.id = id, !.at = b]
  <2>1. e = [Copied(c, image.len - Units(Start(image, n))) EXCEPT
               !.capacity = IF A - Start(image, n) < @ THEN A - Start(image, n) ELSE @,
               !.alloc_capacity = o, !.id = id, !.at = Start(image, n)]
    BY Zenon DEF ImageChk, e, c, A, o
  <2>2. Copied(c, u).capacity = c.capacity
    BY <1>8 DEF Copied, Entries
  <2> QED
    BY <1>9, <2>1, <2>2
<1>11. Copied(c, u) = c
  BY <1>4, <1>8 DEF Copied, Entries
<1>12. o \in Nat
  BY <1>5
<1> HIDE DEF e, r, b, u, c, o
<1>13. /\ e \in Entries /\ e.intact = c.intact /\ e.id = id /\ e.virgin = c.virgin
       /\ e.at = b /\ e.alloc_capacity = o /\ e.capacity = r
  BY <1>4, <1>7, <1>8, <1>10, <1>11, <1>12 DEF Entries
<1> QED
  BY <1>6, <1>8, <1>13 DEF e, b, o, c

(* The walk along an image meets its headers, one for each chunk, and ends *)
(* with the last one.                                                      *)
LEMMA WalkedIs ==
  ASSUME NEW image \in Images, NEW l \in Nat, l + 1 = image.count,
         Headers(image.chk, l + 1),
         image.len = Units(SumTo(image.chk, l)) + image.chk[l].virgin
  PROVE  /\ Walked(image) = 0 .. l /\ Cardinality(Walked(image)) = l + 1
         /\ image.chk[l].capacity \in Nat
         /\ AlignedCapacity(image.chk[l].virgin) \in 1 .. image.chk[l].capacity
         /\ image.chk[l].virgin <= Units(AlignedCapacity(image.chk[l].virgin))
         /\ AlignedCapacity(image.len)
              = SumTo(image.chk, l) + AlignedCapacity(image.chk[l].virgin)
         /\ AlignedCapacity(image.len) \in Nat
<1> DEFINE chk == image.chk
           len == image.len
<1>1. \A m \in 0 .. l : chk[m].virgin \in Nat /\ chk[m].capacity \in Nat
  <2> TAKE m \in 0 .. l
  <2>1. image.count \in 0 .. MaxChkNum /\ chk \in [ChkNos -> Entries]
    BY DEF Images
  <2>2. m \in ChkNos
    BY <2>1, Positive DEF ChkNos
  <2>3. chk[m] \in Entries
    BY <2>1, <2>2
  <2> HIDE DEF chk
  <2> QED
    BY <2>3, EntryFields
<1>2. /\ AlignedCapacity(chk[l].virgin) \in 1 .. chk[l].capacity
      /\ chk[l].virgin <= Units(AlignedCapacity(chk[l].virgin))
      /\ AlignedCapacity(len) = SumTo(chk, l) + AlignedCapacity(chk[l].virgin)
      /\ \A m \in 0 .. l : SumTo(chk, m) \in Nat /\ SumTo(chk, m) < AlignedCapacity(len)
  <2>1. Headers(chk, l + 1) /\ len = Units(SumTo(chk, l)) + chk[l].virgin
    OBVIOUS
  <2> HIDE DEF chk, len
  <2> QED
    BY <1>1, <2>1, ImageSums
<1>3. AlignedCapacity(len) \in Nat /\ chk[l].capacity \in Nat
  <2>1. l \in 0 .. l
    OBVIOUS
  <2> HIDE DEF chk, len
  <2> QED
    BY <1>1, <1>2, <2>1
<1>4. Walked(image) = 0 .. l
  <2>1. \A m : Start(image, m) = SumTo(chk, m)
    BY Zenon DEF Start, SumTo
  <2>2. image.count - 1 = l
    OBVIOUS
  <2> HIDE DEF chk
  <2>3. Walked(image) = {m \in 0 .. l : SumTo(chk, m) < AlignedCapacity(len)}
    BY <2>1, <2>2 DEF Walked
  <2> QED
    BY <1>2, <2>3
<1>5. Cardinality(0 .. l) = l + 1
  <2>1. 0 \in Int /\ l \in Int
    OBVIOUS
  <2>2. Cardinality(0 .. l) = IF 0 > l THEN 0 ELSE l - 0 + 1
    BY <2>1, FS_Interval
  <2> QED
    BY <2>2
<1> QED
  BY <1>2, <1>3, <1>4, <1>5

(* An image is unwrapped to chunks in one piece of memory, cut behind the  *)
(* mark of the last one.                                                   *)
LEMMA UnwrappedJoined ==
  ASSUME NEW x, Packed(x)
  PROVE  LET z == Unwrapped(x)
         IN  /\ Joined(z, UnpackedKind(z.total_capacity))
             /\ z.chk_num = x.image.count
             /\ \A n \in 0 .. x.image.count - 1 : z.chk[n].virgin = x.image.chk[n].virgin
<1> DEFINE image == x.image
           l == image.count - 1
           A == AlignedCapacity(image.len)
           a == AlignedCapacity(image.chk[l].virgin)
           f == FreeId(x, 0)
           M == Memory(UnpackedKind(A), A)
           chk == [n \in ChkNos |->
                     IF n \in Walked(image) THEN ImageChk(image, n, f) ELSE NoEntry]
           y == [Taken(x, UnpackedKind(A), A) EXCEPT
                   !.chk_num = Cardinality(Walked(image)), !.chk = chk,
                   !.total_capacity = A, !.image = NoImage, !.compressed = FALSE]
           z == Unwrapped(x)
           mem == [[x.mem EXCEPT ![f] = M] EXCEPT ![image.id] = NoMem]
<1>1. /\ x \in ChkIndexes /\ image \in Images /\ x.mem \in [MemIds -> Memories]
      /\ image.count \in 0 .. MaxChkNum /\ image.count > 0 /\ image.count <= x.addr_size
      /\ NotFree(x) = {image.id} /\ image.id \in MemIds
      /\ x.mem[image.id] = Memory("image", 0) /\ ~x.misused /\ image.count \in Nat
      /\ image.chk \in [ChkNos -> Entries] /\ x.addr_size \in Nat
  <2>1. x \in ChkIndexes
    BY DEF Packed
  <2>2. image \in Images
    BY <2>1, IndexFields
  <2> QED
    BY <2>1, <2>2, IndexFields, Positive DEF Packed, Images
<1>2. /\ Headers(image.chk, image.count)
      /\ image.len = Units(SumTo(image.chk, l)) + image.chk[l].virgin
  BY DEF Packed
<1> HIDE DEF image
<1>3. l \in Nat /\ l + 1 = image.count
  BY <1>1
<1> HIDE DEF l
<1>4. /\ Walked(image) = 0 .. l /\ Cardinality(Walked(image)) = l + 1
      /\ a \in 1 .. image.chk[l].capacity /\ image.chk[l].capacity \in Nat
      /\ image.chk[l].virgin <= Units(a)
      /\ A = SumTo(image.chk, l) + a /\ A \in Nat
  BY <1>1, <1>2, <1>3, WalkedIs
<1>5. f \in MemIds \ {image.id} /\ f \in FreeIds(x)
  <2>1. 0 \in 0 .. MaxChkNum
    BY Positive
  <2>2. f \in MemIds \ {image.id}
    BY <1>1, <2>1, OthersFree
  <2> HIDE DEF f
  <2> QED
    BY <1>1, <2>2 DEF NotFree, FreeIds
<1>6. M # NoMem /\ M \in Memories /\ NoMem \in Memories
  <2>1. UnpackedKind(A) \in {"chunk", "raw", "image"}
    BY DEF UnpackedKind
  <2> HIDE DEF A
  <2> QED
    BY <1>4, <2>1, KindsOf DEF NoMem, Memories
<1> HIDE DEF M, a, A
<1>7. mem = [id \in MemIds |-> IF id = f THEN M ELSE NoMem]
  BY <1>1, <1>5 DEF NotFree
<1>8. y = [x EXCEPT !.mem = [x.mem EXCEPT ![f] = M], !.chk_num = l + 1, !.chk = chk,
                    !.total_capacity = A, !.image = NoImage, !.compressed = FALSE]
  <2>1. Taken(x, UnpackedKind(A), A) = [x EXCEPT !.mem = [x.mem EXCEPT ![f] = M]]
    BY <1>1 DEF Taken, M, f, ChkIndexes
  <2> HIDE DEF chk, f
  <2> QED
    BY <1>1, <1>4, <2>1 DEF ChkIndexes
<1>9. z = Given(y, [id |-> image.id, at |-> 0], "image", 0)
  BY Zenon DEF Unwrapped, z, y, chk, f, A, image
<1> HIDE DEF z, y, chk, f
<1>10. y.mem = [x.mem EXCEPT ![f] = M]
  BY <1>1, <1>8 DEF ChkIndexes
<1>11. MayGive(y, [id |-> image.id, at |-> 0], "image", 0)
  <2>1. y.mem[image.id] = Memory("image", 0)
    BY <1>1, <1>5, <1>10
  <2>2. Memory("image", 0).kind = "image"
    BY KindsOf
  <2> QED
    BY <1>1, <2>1, <2>2 DEF MayGive
<1>12. z = [x EXCEPT !.mem = mem, !.chk_num = l + 1, !.chk = chk,
                     !.total_capacity = A, !.image = NoImage, !.compressed = FALSE]
  <2>1. z = [y EXCEPT !.mem[image.id] = NoMem]
    BY <1>9, <1>11 DEF Given
  <2> QED
    BY <1>1, <1>8, <1>10, <2>1 DEF ChkIndexes
<1>13. \A n \in 0 .. l :
         /\ chk[n] \in Entries /\ chk[n].intact /\ chk[n].id = f
         /\ chk[n].virgin = image.chk[n].virgin
         /\ chk[n].at = SumTo(image.chk, n)
         /\ chk[n].alloc_capacity = IF n = 0 THEN A ELSE 0
         /\ chk[n].capacity = IF n = l THEN a ELSE image.chk[n].capacity
  <2> TAKE n \in 0 .. l
  <2>1. n \in ChkNos
    BY <1>1, <1>3, Positive DEF ChkNos
  <2>2. chk[n] = ImageChk(image, n, f)
    BY <1>4, <2>1 DEF chk
  <2>3. f \in MemIds
    BY <1>5
  <2> QED
    BY <1>1, <1>2, <1>3, <2>2, <2>3, ImageChkIs DEF A, a
<1>14. chk \in [ChkNos -> Entries]
  <2>1. NoEntry \in Entries
    <3>1. Units(MaxCapacity) \in Nat /\ MaxCapacity \in Nat
      BY Positive, UnitsGrow
    <3> QED
      BY <3>1 DEF NoEntry, Entries
  <2>2. \A n \in ChkNos : n \in 0 .. l \/ chk[n] = NoEntry
    BY <1>4 DEF chk
  <2>3. \A n \in ChkNos : chk[n] \in Entries
    BY <1>13, <2>1, <2>2
  <2> QED
    BY <2>3 DEF chk
<1>15. mem \in [MemIds -> Memories] /\ NoImage \in Images
  <2>1. NoImage \in Images
    BY NoEntriesOk, Positive DEF NoImage, Images, NoEntries
  <2> QED
    BY <1>6, <1>7, <2>1
<1>16. /\ z \in ChkIndexes /\ z.mem = mem /\ z.chk_num = l + 1 /\ z.chk = chk
       /\ z.total_capacity = A /\ z.image = NoImage /\ ~z.compressed
       /\ z.misused = x.misused /\ z.addr_size = x.addr_size
  <2>1. l + 1 \in 0 .. MaxChkNum
    BY <1>1, <1>3
  <2> HIDE DEF mem
  <2> QED
    BY <1>1, <1>4, <1>12, <1>14, <1>15, <2>1 DEF ChkIndexes
<1>17. Chks(z) = 0 .. l /\ 0 \in 0 .. l /\ l \in 0 .. l
  BY <1>3, <1>16 DEF Chks, LastNo
<1>18. Headers(chk, l + 1)
  <2>1. ASSUME NEW n \in 0 .. (l + 1) - 1
        PROVE  /\ chk[n].capacity \in 1 .. MaxCapacity
               /\ Overhead(n) <= chk[n].virgin
               /\ chk[n].virgin <= Units(chk[n].capacity)
               /\ chk[n].intact
    <3>1. n \in 0 .. l /\ n \in 0 .. image.count - 1
      BY <1>3
    <3>2. /\ image.chk[n].capacity \in 1 .. MaxCapacity
          /\ Overhead(n) <= image.chk[n].virgin
          /\ image.chk[n].virgin <= Units(image.chk[n].capacity)
      BY <1>2, <3>1 DEF Headers
    <3>3. CASE n = l
      BY <3>1, <3>2, <3>3, <1>4, <1>13, Positive
    <3>4. CASE n # l
      BY <3>1, <3>2, <3>4, <1>13
    <3> QED
      BY <3>3, <3>4
  <2>2. ASSUME l + 1 > 1
        PROVE  chk[0].capacity = MaxCapacity
    <3>1. image.chk[0].capacity = MaxCapacity
      BY <1>2, <1>3, <2>2 DEF Headers
    <3>2. 0 # l
      BY <1>3, <2>2
    <3> QED
      BY <1>13, <1>17, <3>1, <3>2
  <2> QED
    BY <2>1, <2>2 DEF Headers
<1>19. /\ \A n \in 0 .. l : SumTo(chk, n) = SumTo(image.chk, n)
       /\ SumTo(chk, l + 1) = A
  <2>1. Sized(chk, l + 1)
    BY <1>3, <1>18, HeadersSized
  <2> DEFINE old == image.chk
  <2>2. \A m \in 0 .. l - 1 : chk[m].capacity = old[m].capacity
    BY <1>3, <1>13
  <2>3. chk[l].capacity = a
    BY <1>13, <1>17
  <2> HIDE DEF old
  <2>4. \A k \in 0 .. l : SumTo(old, k) = SumTo(chk, k)
    BY <1>3, <2>1, <2>2, SumToAll
  <2>5. SumTo(chk, l + 1) = SumTo(chk, l) + chk[l].capacity
    BY <1>3, <2>1, SumToNext
  <2> QED
    BY <1>4, <1>17, <2>3, <2>4, <2>5 DEF old
<1>20. \A n \in Chks(z) : Within(z, n, z.chk_num)
  BY <1>13, <1>16, <1>17, <1>19 DEF Within
<1>21. /\ z.chk[0].id = f /\ f \in MemIds /\ NotFree(z) = {f} /\ z.mem[f] = M
  BY <1>5, <1>6, <1>7, <1>13, <1>16, <1>17 DEF NotFree
<1>22. NoImage.count = 0
  BY DEF NoImage
<1>23. z.chk_num > 0 /\ z.chk_num <= z.addr_size
  BY <1>1, <1>3, <1>16
<1>24. Joined(z, UnpackedKind(z.total_capacity))
  BY <1>1, <1>16, <1>18, <1>19, <1>20, <1>21, <1>22, <1>23 DEF Joined, M
<1>25. \A n \in 0 .. image.count - 1 : z.chk[n].virgin = image.chk[n].virgin
  BY <1>3, <1>13, <1>16
<1> QED
  BY <1>3, <1>16, <1>24, <1>25 DEF z, image

---------------------------------------------------------------------------
(* split_continuous_chunk.                                                 *)
LEMMA ContinuousIs ==
  ASSUME NEW x, Open(x), x.chk_num > 0, NEW p \in 1 .. x.chk_num, Laid(x, p)
  PROVE  Continuous(x) <=> x.chk_num > 1 /\ p = x.chk_num
<1> DEFINE chk == x.chk
           n == x.chk_num
<1>1. n \in Nat /\ Sized(chk, n) /\ x.total_capacity = SumTo(chk, n)
      /\ chk[0].alloc_capacity = SumTo(chk, p)
  BY LayoutOf, FirstOwns DEF Open
<1>2. ASSUME p # n
      PROVE  SumTo(chk, p) # SumTo(chk, n)
  <2>1. p \in 0 .. n - 1 /\ n \in 0 .. n /\ p < n
    BY <1>1, <1>2
  <2>2. chk[p].capacity \in Nat /\ chk[p].capacity # 0
    BY <1>1, <2>1, HeadersSized DEF Open
  <2> HIDE DEF chk, n
  <2>3. /\ SumTo(chk, p) \in Nat /\ SumTo(chk, n) \in Nat
        /\ SumTo(chk, p) + chk[p].capacity <= SumTo(chk, n)
    BY <1>1, <2>1, SumToBefore
  <2> QED
    BY <2>2, <2>3
<1> QED
  BY <1>1, <1>2 DEF Continuous

(* Chunks that lie in one piece of memory of _allocate are an index. *)
LEMMA JoinedOpen ==
  ASSUME NEW x, Joined(x, "chunk"), split => x.chk_num = 1
  PROVE  Open(x)
<1>1. /\ x \in ChkIndexes /\ x.chk_num \in Nat /\ Chks(x) = 0 .. x.chk_num - 1
      /\ x.chk_num > 0 /\ 0 \in Chks(x)
  BY IndexFields DEF Joined, Chks, LastNo
<1>2. \A n \in Chks(x) : Within(x, n, x.chk_num)
  BY DEF Joined
<1>3. \A n \in Chks(x) : OwnsMemory(x, n)
  <2> SUFFICES ASSUME NEW n \in Chks(x) PROVE OwnsMemory(x, n)
    OBVIOUS
  <2>1. x.chk[n].id = x.chk[0].id /\ x.chk[0].id \in MemIds
    BY <1>2 DEF Joined, Within
  <2>2. x.chk[n].alloc_capacity # 0 => x.chk[n].alloc_capacity = x.total_capacity
    BY <1>2 DEF Joined, Within
  <2> QED
    BY <2>1, <2>2 DEF OwnsMemory, Joined
<1>4. Laid(x, x.chk_num)
  BY <1>1, <1>2, <1>3 DEF Laid
<1>5. NotFree(x) = {x.chk[n].id : n \in Chks(x)}
  BY <1>1, <1>2 DEF Joined, Within
<1>6. x.chk_num \in 1 .. x.chk_num
  BY <1>1
<1> QED
  BY <1>4, <1>5, <1>6 DEF Open, Joined

(* split_continuous_chunk takes a piece of memory for each chunk, and no   *)
(* two the same.                                                           *)
LEMMA Numbered ==
  ASSUME NEW x \in ChkIndexes, NEW one \in MemIds, NotFree(x) = {one}
  PROVE  LET number == AntiFunction([n \in Chks(x) |-> FreeId(x, n)])
         IN  /\ DOMAIN number = {FreeId(x, n) : n \in Chks(x)}
             /\ \A n \in Chks(x) : /\ FreeId(x, n) \in MemIds \ {one}
                                   /\ number[FreeId(x, n)] = n
             /\ \A m, n \in Chks(x) : FreeId(x, m) = FreeId(x, n) => m = n
<1> DEFINE f == [n \in Chks(x) |-> FreeId(x, n)]
           number == AntiFunction(f)
<1>1. \A n \in Chks(x) : n \in 0 .. MaxChkNum
  BY IndexFields, Positive
<1>2. \A m, n \in Chks(x) : FreeId(x, m) = FreeId(x, n) => m = n
  BY <1>1, OthersApart
<1>3. \A n \in Chks(x) : FreeId(x, n) \in MemIds \ {one}
  BY <1>1, OthersFree
<1>4. /\ DOMAIN f = Chks(x) /\ \A n \in Chks(x) : f[n] = FreeId(x, n)
      /\ Range(f) = {FreeId(x, n) : n \in Chks(x)}
  BY DEF Range
<1> HIDE DEF f
<1>5. number = [t \in Range(f) |-> CHOOSE s \in Chks(x) : t \in Range(f) => f[s] = t]
  BY <1>4 DEF AntiFunction, Inverse
<1>6. DOMAIN number = {FreeId(x, n) : n \in Chks(x)}
  BY <1>4, <1>5
<1>7. ASSUME NEW n \in Chks(x)
      PROVE  number[FreeId(x, n)] = n
  <2> DEFINE t == FreeId(x, n)
             s == CHOOSE m \in Chks(x) : t \in Range(f) => f[m] = t
  <2>1. t \in Range(f) /\ number[t] = s
    BY <1>4, <1>5
  <2>2. s \in Chks(x) /\ f[s] = t
    BY <1>4, <2>1
  <2> QED
    BY <1>2, <1>4, <2>1, <2>2
<1> QED
  BY <1>2, <1>3, <1>6, <1>7 DEF f

(* Every chunk in memory of its own, which it fills. *)
LEMMA SplitUpOpen ==
  ASSUME NEW x, Joined(x, IF split THEN "raw" ELSE "chunk"), x.chk_num > 1
  PROVE  Open(SplitUp(x)) /\ SameMarks(x, SplitUp(x))
<1> DEFINE S == Chks(x)
           one == x.chk[0].id
           number == AntiFunction([n \in S |-> FreeId(x, n)])
           chk == [n \in ChkNos |-> IF n \in S THEN OwnChk(x, n) ELSE x.chk[n]]
           mem == [id \in MemIds |->
                     IF id \in DOMAIN number
                     THEN Memory("chunk", x.chk[number[id]].capacity) ELSE x.mem[id]]
           left == [mem EXCEPT ![one] = NoMem]
           y == [x EXCEPT !.chk = chk, !.mem = mem]
           z == SplitUp(x)
<1>1. /\ x \in ChkIndexes /\ x.chk_num \in Nat /\ x.chk_num \in 0 .. MaxChkNum
      /\ S = 0 .. x.chk_num - 1 /\ 0 \in S /\ S \subseteq ChkNos
      /\ x.mem \in [MemIds -> Memories] /\ x.chk \in [ChkNos -> Entries]
      /\ LastNo(x) = x.chk_num - 1
  BY IndexFields DEF Joined, Chks, LastNo
<1>2. one \in MemIds /\ NotFree(x) = {one}
  BY DEF Joined
<1> HIDE DEF S
<1>3. /\ DOMAIN number = {FreeId(x, n) : n \in S}
      /\ \A n \in S : FreeId(x, n) \in MemIds \ {one} /\ number[FreeId(x, n)] = n
      /\ \A m, n \in S : FreeId(x, m) = FreeId(x, n) => m = n
  <2> HIDE DEF one
  <2> QED
    BY <1>1, <1>2, Numbered DEF S
<1>4. x.total_capacity = SumTo(x.chk, x.chk_num) /\ Headers(x.chk, x.chk_num)
      /\ x.mem[one] = Memory(IF split THEN "raw" ELSE "chunk", x.total_capacity)
  BY DEF Joined
<1>5. x.chk[0].at = 0 /\ x.chk[0].alloc_capacity = x.total_capacity
  <2>1. Within(x, 0, x.chk_num)
    BY <1>1 DEF Joined, S
  <2> QED
    BY <1>4, <2>1, SumToNone DEF Within
<1>6. x.total_capacity # 0
  <2>1. Sized(x.chk, x.chk_num) /\ x.chk[0].capacity \in Nat /\ x.chk[0].capacity # 0
    BY <1>1, <1>4, HeadersSized
  <2>2. 0 \in 0 .. x.chk_num - 1 /\ x.chk_num \in 0 .. x.chk_num /\ 0 < x.chk_num
    BY <1>1
  <2> DEFINE c == x.chk
             n == x.chk_num
  <2>3. /\ n \in Nat /\ Sized(c, n) /\ 0 \in 0 .. n - 1 /\ n \in 0 .. n /\ 0 < n
    BY <1>1, <2>1, <2>2
  <2> HIDE DEF c, n
  <2>4. SumTo(c, 0) \in Nat /\ SumTo(c, n) \in Nat /\ SumTo(c, 0) + c[0].capacity <= SumTo(c, n)
    BY <2>3, SumToBefore
  <2> QED
    BY <1>4, <2>1, <2>4 DEF c, n
<1>7. Continuous(x)
  BY <1>5 DEF Continuous
<1>8. z = Released(y, x.chk[0])
  BY <1>7, Zenon DEF SplitUp, y, z, chk, mem, number, S
<1> HIDE DEF one, number, chk
<1>9. /\ \A n \in S : mem[FreeId(x, n)] = Memory("chunk", x.chk[n].capacity)
      /\ mem[one] = x.mem[one]
      /\ \A id \in MemIds \ {one} :
           ~ (\E n \in S : id = FreeId(x, n)) => mem[id] = NoMem
  <2>1. one \notin DOMAIN number
    BY <1>3
  <2> QED
    BY <1>2, <1>3, <2>1 DEF NotFree
<1>10. \A n \in S :
         /\ chk[n] \in Entries /\ chk[n].capacity = x.chk[n].capacity
         /\ chk[n].alloc_capacity = x.chk[n].capacity /\ chk[n].at = 0
         /\ chk[n].id = FreeId(x, n) /\ chk[n].virgin = x.chk[n].virgin /\ chk[n].intact
  <2> TAKE n \in S
  <2> DEFINE c == x.chk[n]
             u == IF n < LastNo(x) THEN Units(c.capacity) ELSE c.virgin
             f == FreeId(x, n)
  <2>1. c \in Entries /\ c.intact /\ c.virgin <= Units(c.capacity) /\ n \in ChkNos
    BY <1>1, <1>4 DEF Headers
  <2>2. c.virgin <= u
    <3>1. c.virgin \in Nat
      BY <2>1, EntryFields
    <3> QED
      BY <2>1, <3>1
  <2>3. f \in MemIds /\ c.capacity \in Nat
    BY <1>3, <2>1, EntryFields
  <2>4. chk[n] = OwnChk(x, n)
    BY <2>1 DEF chk
  <2>5. OwnChk(x, n) = [Copied(c, u) EXCEPT !.alloc_capacity = c.capacity, !.id = f, !.at = 0]
    BY Zenon DEF OwnChk, c, u, f
  <2> HIDE DEF c, u, f
  <2>6. Copied(c, u) = c
    BY <2>1, <2>2 DEF Copied, Entries
  <2> DEFINE e == chk[n]
  <2>7. e = [c EXCEPT !.alloc_capacity = c.capacity, !.id = f, !.at = 0]
    BY <2>4, <2>5, <2>6
  <2> HIDE DEF e
  <2>8. /\ e \in Entries /\ e.capacity = c.capacity /\ e.alloc_capacity = c.capacity
        /\ e.at = 0 /\ e.id = f /\ e.virgin = c.virgin /\ e.intact
    BY <2>1, <2>3, <2>7 DEF Entries
  <2> QED
    BY <2>8 DEF e, c, f
<1>11. y.mem = mem
  BY <1>1 DEF ChkIndexes
<1>12. z = [y EXCEPT !.mem[one] = NoMem]
  <2>1. mem[one] = Memory(IF split THEN "raw" ELSE "chunk", x.total_capacity)
    BY <1>4, <1>9
  <2>2. CASE split
    <3>1. Memory("raw", x.total_capacity).kind = "raw"
      BY KindsOf
    <3>2. MayGive(y, x.chk[0], "raw", 0)
      BY <1>2, <1>5, <1>11, <2>1, <2>2, <3>1 DEF MayGive, one
    <3> QED
      BY <1>8, <2>2, <3>2 DEF Released, Given, one
  <2>3. CASE ~split
    <3>1. /\ Memory("chunk", x.total_capacity).kind = "chunk"
          /\ Memory("chunk", x.total_capacity).size = x.total_capacity
      BY <2>3, KindsOf
    <3>2. MayGive(y, x.chk[0], "chunk", x.chk[0].alloc_capacity)
      BY <1>2, <1>5, <1>11, <2>1, <2>3, <3>1 DEF MayGive, one
    <3> QED
      BY <1>5, <1>6, <1>8, <2>3, <3>2 DEF Released, DestructChk, Given, one
  <2> QED
    BY <2>2, <2>3
<1>13. z = [x EXCEPT !.chk = chk, !.mem = left]
  <2> HIDE DEF z, mem
  <2> QED
    BY <1>1, <1>11, <1>12 DEF ChkIndexes
<1>14. chk \in [ChkNos -> Entries] /\ left \in [MemIds -> Memories]
  <2>1. \A n \in ChkNos : chk[n] \in Entries
    BY <1>1, <1>10 DEF chk
  <2>2. NoMem \in Memories /\ \A n \in S : Memory("chunk", x.chk[n].capacity) \in Memories
    <3>1. \A n \in S : x.chk[n].capacity \in Nat
      BY <1>1, EntryFields
    <3> QED
      BY <3>1, KindsOf DEF NoMem, Memories
  <2>3. \A id \in MemIds : left[id] \in Memories
    <3> TAKE id \in MemIds
    <3>1. CASE id = one
      BY <3>1, <2>2
    <3>2. CASE id # one /\ \E n \in S : id = FreeId(x, n)
      BY <3>2, <1>9, <2>2
    <3>3. CASE id # one /\ ~ \E n \in S : id = FreeId(x, n)
      BY <3>3, <1>9, <2>2
    <3> QED
      BY <3>1, <3>2, <3>3
  <2> QED
    BY <2>1, <2>3 DEF chk
<1> HIDE DEF left, mem, y, z
<1>15. /\ z \in ChkIndexes /\ z.chk = chk /\ z.mem = left /\ z.chk_num = x.chk_num
       /\ z.total_capacity = x.total_capacity /\ z.image = x.image
       /\ z.compressed = x.compressed /\ z.misused = x.misused /\ z.addr_size = x.addr_size
  BY <1>1, <1>13, <1>14 DEF ChkIndexes
<1>16. Chks(z) = S
  BY <1>15 DEF Chks, LastNo, S
<1>17. /\ left[one] = NoMem
       /\ \A n \in S : left[FreeId(x, n)] = Memory("chunk", x.chk[n].capacity)
       /\ \A id \in MemIds : ~ (\E n \in S : id = FreeId(x, n)) => left[id] = NoMem
  BY <1>2, <1>3, <1>9 DEF left, mem
<1>18. NotFree(z) = {z.chk[n].id : n \in Chks(z)}
  <2>1. \A n \in S : left[FreeId(x, n)] # NoMem /\ FreeId(x, n) \in MemIds
    BY <1>3, <1>17, KindsOf
  <2> QED
    BY <2>1, <1>10, <1>15, <1>16, <1>17 DEF NotFree
<1>19. Headers(chk, x.chk_num)
  <2>1. ASSUME NEW n \in 0 .. x.chk_num - 1
        PROVE  /\ chk[n].capacity \in 1 .. MaxCapacity
               /\ Overhead(n) <= chk[n].virgin
               /\ chk[n].virgin <= Units(chk[n].capacity)
               /\ chk[n].intact
    BY <1>1, <1>4, <1>10 DEF Headers
  <2>2. chk[0].capacity = MaxCapacity
    BY <1>1, <1>4, <1>10 DEF Headers
  <2> QED
    BY <2>1, <2>2 DEF Headers
<1>20. SumTo(chk, x.chk_num) = SumTo(x.chk, x.chk_num)
  <2> DEFINE old == x.chk
             n == x.chk_num
  <2>1. Sized(old, n) /\ n \in Nat /\ \A m \in 0 .. n - 1 : old[m].capacity = chk[m].capacity
    BY <1>1, <1>4, <1>10, HeadersSized
  <2> HIDE DEF old, n
  <2>2. SumTo(chk, n) = SumTo(old, n)
    BY <2>1, SumToSame
  <2> QED
    BY <2>2 DEF old, n
<1>21. Laid(z, 1)
  <2>1. \A n \in S : OwnsMemory(z, n) /\ Alone(z, n)
    BY <1>3, <1>10, <1>15, <1>17 DEF OwnsMemory, Alone
  <2>2. Within(z, 0, 1)
    <3>1. Sized(chk, 0 + 1)
      BY <1>1, <1>19, HeadersSized DEF Sized
    <3>2. SumTo(chk, 0) = 0 /\ SumTo(chk, 0 + 1) = SumTo(chk, 0) + chk[0].capacity
      BY <3>1, SumToNone, SumToNext
    <3>3. chk[0].capacity \in Nat
      BY <3>1 DEF Sized
    <3>4. SumTo(chk, 1) = chk[0].capacity
      BY <3>2, <3>3
    <3> QED
      BY <1>1, <1>10, <1>15, <3>2, <3>4 DEF Within
  <2>3. \A n \in S : n < 1 => n = 0
    BY <1>1
  <2>4. \A m, n \in S : z.chk[m].id = z.chk[n].id => m = n
    BY <1>3, <1>10, <1>15
  <2> QED
    BY <1>16, <2>1, <2>2, <2>3, <2>4 DEF Laid
<1>22. 1 \in 1 .. x.chk_num
  BY <1>1
<1>23. Open(z)
  <2>1. ~x.misused /\ ~x.compressed /\ x.image.count = 0 /\ x.chk_num <= x.addr_size
    BY DEF Joined
  <2> QED
    BY <2>1, <1>4, <1>15, <1>18, <1>19, <1>20, <1>21, <1>22 DEF Open
<1>24. SameMarks(x, z)
  BY <1>10, <1>15 DEF SameMarks, S
<1> QED
  BY <1>23, <1>24 DEF z

---------------------------------------------------------------------------
(* What an index holds, in every layout.                                   *)
Marks(x) == IF x.compressed THEN Held(x.image.chk, x.image.count)
            ELSE Held(x.chk, x.chk_num)

(* The marks of the chunks that headers describe. *)
LEMMA HeldIs ==
  ASSUME NEW chk, NEW num \in Nat, Headers(chk, num)
  PROVE  Held(chk, num) = [k \in 1 .. num |-> chk[k - 1].virgin]
<1>1. \A k \in 1 .. num : k - 1 \in 0 .. num - 1
  OBVIOUS
<1>2. \A k \in 1 .. num : chk[k - 1].intact
  BY <1>1 DEF Headers
<1> QED
  BY <1>2 DEF Held

(* The marks of an index, open or packed. *)
LEMMA MarksIs ==
  ASSUME NEW x
  PROVE  /\ Open(x) => Marks(x) = [k \in 1 .. x.chk_num |-> x.chk[k - 1].virgin]
         /\ Packed(x) =>
              Marks(x) = [k \in 1 .. x.image.count |-> x.image.chk[k - 1].virgin]
<1>1. ASSUME Open(x)
      PROVE  Marks(x) = [k \in 1 .. x.chk_num |-> x.chk[k - 1].virgin]
  BY <1>1, HeldIs, IndexFields DEF Marks, Open
<1>2. ASSUME Packed(x)
      PROVE  Marks(x) = [k \in 1 .. x.image.count |-> x.image.chk[k - 1].virgin]
  <2>1. x.image.count \in Nat
    <3>1. x.image \in Images
      BY <1>2, IndexFields DEF Packed
    <3> QED
      BY <3>1, Positive DEF Images
  <2> QED
    BY <1>2, <2>1, HeldIs DEF Marks, Packed
<1> QED
  BY <1>1, <1>2

(* They depend on the virgin marks of the chunks only. *)
LEMMA MarksSame ==
  ASSUME NEW x, NEW y, Open(x), Open(y), SameMarks(x, y)
  PROVE  Marks(y) = Marks(x)
<1>1. \A k \in 1 .. x.chk_num : k - 1 \in Chks(x)
  <2>1. x.chk_num \in Nat
    BY IndexFields DEF Open
  <2> QED
    BY <2>1 DEF Chks, LastNo
<1>2. y.chk_num = x.chk_num /\ \A n \in Chks(x) : y.chk[n].virgin = x.chk[n].virgin
  BY DEF SameMarks
<1>3. /\ Marks(x) = [k \in 1 .. x.chk_num |-> x.chk[k - 1].virgin]
      /\ Marks(y) = [k \in 1 .. y.chk_num |-> y.chk[k - 1].virgin]
  BY MarksIs, Zenon
<1>4. \A k \in 1 .. x.chk_num : y.chk[k - 1].virgin = x.chk[k - 1].virgin
  BY <1>1, <1>2, Zenon
<1> QED
  BY <1>2, <1>3, <1>4

(* split_continuous_chunk moves chunks that lie in one piece of memory.    *)
LEMMA SplitOpen ==
  ASSUME NEW x, Open(x)
  PROVE  Open(SplitUp(x)) /\ Marks(SplitUp(x)) = Marks(x)
<1>1. CASE ~Continuous(x)
  BY <1>1 DEF SplitUp
<1>2. CASE Continuous(x)
  <2>1. x.chk_num > 1 /\ x.chk_num > 0 /\ x \in ChkIndexes /\ x.chk_num \in Nat
    BY <1>2, IndexFields DEF Continuous, Open
  <2>2. PICK p \in 1 .. x.chk_num : Laid(x, p)
    BY <2>1, LayoutOf
  <2>3. p = x.chk_num
    BY <1>2, <2>1, <2>2, ContinuousIs
  <2>4. ~split
    BY <2>1, <2>2, <2>3 DEF Laid
  <2>5. 0 \in Chks(x) /\ \A n \in Chks(x) : n < p
    BY <2>1, <2>3 DEF Chks, LastNo
  <2>6. \A n \in Chks(x) : Within(x, n, x.chk_num)
    BY <2>2, <2>3, <2>5 DEF Laid
  <2>7. x.chk[0].alloc_capacity = x.total_capacity /\ x.chk[0].alloc_capacity # 0
    BY <2>1, <2>2, <2>3, FirstOwns DEF Open
  <2>8. OwnsMemory(x, 0)
    BY <2>2, <2>5 DEF Laid
  <2>9. NotFree(x) = {x.chk[0].id}
    BY <2>5, <2>6 DEF Open, Within
  <2>10. Joined(x, "chunk")
    BY <2>1, <2>6, <2>7, <2>8, <2>9 DEF Joined, Open, OwnsMemory
  <2> QED
    BY <2>1, <2>4, <2>10, SplitUpOpen, MarksSame
<1> QED
  BY <1>1, <1>2

(* What was compressed with several chunks is too large for one chunk.     *)
LEMMA JoinedKind ==
  ASSUME NEW x, NEW kind, Joined(x, kind)
  PROVE  x.total_capacity <= MaxCapacity <=> x.chk_num = 1
<1> DEFINE chk == x.chk
           n == x.chk_num
<1>1. /\ n \in Nat /\ n # 0 /\ Headers(chk, n) /\ x.total_capacity = SumTo(chk, n)
  BY IndexFields DEF Joined
<1>2. Sized(chk, n) /\ \A m \in 0 .. n - 1 : chk[m].capacity \in Nat
                         /\ chk[m].capacity # 0 /\ chk[m].capacity <= MaxCapacity
  BY <1>1, HeadersSized
<1>3. n > 1 => chk[0].capacity = MaxCapacity
  BY <1>1 DEF Headers
<1> HIDE DEF chk, n
<1>4. SumTo(chk, 0) = 0 /\ 0 \in 0 .. n - 1 /\ Sized(chk, 0 + 1)
  BY <1>1, <1>2, SumToNone DEF Sized
<1>5. SumTo(chk, 0 + 1) = SumTo(chk, 0) + chk[0].capacity
  BY <1>4, SumToNext
<1>6. SumTo(chk, 1) = chk[0].capacity
  BY <1>2, <1>4, <1>5
<1>7. CASE n = 1
  BY <1>1, <1>2, <1>4, <1>6, <1>7 DEF n
<1>8. CASE n # 1
  <2>1. n > 1 /\ 1 \in 0 .. n - 1 /\ n \in 0 .. n /\ 1 < n
    BY <1>1, <1>8
  <2>2. /\ SumTo(chk, 1) \in Nat /\ SumTo(chk, n) \in Nat
        /\ SumTo(chk, 1) + chk[1].capacity <= SumTo(chk, n)
    BY <1>1, <1>2, <2>1, SumToBefore
  <2>3. SumTo(chk, n) > MaxCapacity
    BY <1>2, <1>3, <1>6, <2>1, <2>2, Positive
  <2> QED
    BY <1>1, <1>8, <2>2, <2>3, Positive DEF n
<1> QED
  BY <1>7, <1>8

(* The uncompress at the start of every call leaves an open index with the *)
(* same marks.                                                             *)
LEMMA UncompressedOpen ==
  ASSUME NEW x, Open(x) \/ Packed(x)
  PROVE  Open(Uncompressed(x)) /\ Marks(Uncompressed(x)) = Marks(x)
<1>1. CASE Open(x)
  BY <1>1 DEF Uncompressed, Open
<1>2. CASE Packed(x)
  <2> DEFINE z == Unwrapped(x)
             y == Unpacked(x)
             kind == UnpackedKind(z.total_capacity)
  <2>1. /\ Joined(z, kind) /\ z.chk_num = x.image.count
        /\ \A n \in 0 .. x.image.count - 1 : z.chk[n].virgin = x.image.chk[n].virgin
    BY <1>2, UnwrappedJoined
  <2>2. y = IF split THEN SplitUp(z) ELSE z
    BY UnpackedIs
  <2>3. Uncompressed(x) = y
    BY <1>2 DEF Uncompressed, Packed
  <2> HIDE DEF z, y
  <2>4. z.chk_num \in Nat /\ z.chk_num > 0
    BY <2>1, IndexFields DEF Joined
  <2>5. z.total_capacity <= MaxCapacity <=> z.chk_num = 1
    BY <2>1, JoinedKind
  <2>6. \A k \in 1 .. z.chk_num : z.chk[k - 1].virgin = x.image.chk[k - 1].virgin
    <3>1. \A k \in 1 .. z.chk_num : k - 1 \in 0 .. x.image.count - 1
      BY <2>1, <2>4
    <3> QED
      BY <2>1, <3>1
  <2>7. ASSUME NEW w, Open(w), w.chk_num = z.chk_num,
               \A n \in Chks(z) : w.chk[n].virgin = z.chk[n].virgin
        PROVE  Marks(w) = Marks(x)
    <3>1. \A k \in 1 .. z.chk_num : k - 1 \in Chks(z)
      BY <2>4 DEF Chks, LastNo
    <3>2. Marks(w) = [k \in 1 .. z.chk_num |-> x.image.chk[k - 1].virgin]
      BY <2>6, <2>7, <3>1, MarksIs
    <3> QED
      BY <1>2, <2>1, <3>2, MarksIs
  <2>8. CASE ~split \/ z.chk_num = 1
    <3>1. kind = "chunk"
      BY <2>5, <2>8 DEF UnpackedKind
    <3>2. Open(z)
      BY <2>1, <2>8, <3>1, JoinedOpen
    <3>3. z.chk_num = 1 => SplitUp(z) = z
      BY DEF SplitUp, Continuous
    <3>4. y = z
      BY <2>2, <2>8, <3>3
    <3> QED
      BY <2>3, <2>7, <3>2, <3>4
  <2>9. CASE split /\ z.chk_num # 1
    <3>1. kind = "raw" /\ z.chk_num > 1
      BY <2>4, <2>5, <2>9 DEF UnpackedKind
    <3>2. Joined(z, IF split THEN "raw" ELSE "chunk")
      BY <2>1, <2>9, <3>1
    <3>3. Open(SplitUp(z)) /\ SameMarks(z, SplitUp(z))
      BY <3>1, <3>2, SplitUpOpen
    <3>4. y = SplitUp(z)
      BY <2>2, <2>9
    <3> QED
      BY <2>3, <2>7, <3>3, <3>4 DEF SameMarks
  <2> QED
    BY <2>8, <2>9
<1> QED
  BY <1>1, <1>2

---------------------------------------------------------------------------
(* How requests change what an index holds, as ChunkContents says it. *)
Filled(m, w) ==
  /\ m # << >> /\ Len(w) = Len(m)
  /\ w = [m EXCEPT ![Len(m)] = w[Len(m)]]
  /\ w[Len(m)] > m[Len(m)]

Extended(m, w) ==
  /\ Len(w) = Len(m) + 1
  /\ w[Len(m) + 1] > 0
  /\ \A n \in 1 .. Len(m) : IF n = Len(m) THEN w[n] >= m[n] ELSE w[n] = m[n]

Cleared(m, w) ==
  \E n \in 1 .. Len(m) : \E mark \in 1 .. m[n] - 1 : w = [m EXCEPT ![n] = mark]

(* An open index has one mark per chunk, and none is 0. *)
LEMMA MarksLen ==
  ASSUME NEW x, Open(x)
  PROVE  /\ x.chk_num \in Nat /\ Chks(x) = 0 .. x.chk_num - 1
         /\ Marks(x) = [k \in 1 .. x.chk_num |-> x.chk[k - 1].virgin]
         /\ Marks(x) \in Seq(Nat) /\ Len(Marks(x)) = x.chk_num
         /\ \A n \in Chks(x) : /\ n + 1 \in 1 .. x.chk_num
                               /\ Marks(x)[n + 1] = x.chk[n].virgin
                               /\ x.chk[n].virgin \in Nat /\ x.chk[n].virgin > 0
<1> DEFINE l == x.chk_num
           m == Marks(x)
<1>1. x \in ChkIndexes /\ l \in Nat /\ Chks(x) = 0 .. l - 1 /\ Chks(x) \subseteq ChkNos
      /\ x.chk \in [ChkNos -> Entries]
  BY IndexFields DEF Open, Chks, LastNo
<1>2. m = [k \in 1 .. l |-> x.chk[k - 1].virgin]
  BY MarksIs
<1>3. \A n \in Chks(x) : x.chk[n].virgin \in Nat /\ x.chk[n].virgin > 0
  <2> TAKE n \in Chks(x)
  <2>1. x.chk[n] \in Entries
    BY <1>1
  <2>2. x.chk[n].virgin \in Nat
    BY <2>1, EntryFields
  <2>3. Overhead(n) <= x.chk[n].virgin
    BY <1>1 DEF Open, Headers
  <2> QED
    BY <2>2, <2>3, Positive DEF Overhead
<1>4. \A k \in 1 .. l : k - 1 \in Chks(x)
  BY <1>1
<1>5. \A n \in Chks(x) : n + 1 \in 1 .. l /\ (n + 1) - 1 = n
  BY <1>1
<1>6. m \in [1 .. l -> Nat]
  BY <1>2, <1>3, <1>4
<1> HIDE DEF m, l
<1>7. m \in Seq(Nat) /\ Len(m) = l
  BY <1>1, <1>6
<1>8. \A n \in Chks(x) : m[n + 1] = x.chk[n].virgin
  BY <1>2, <1>5
<1> QED
  BY <1>1, <1>2, <1>3, <1>5, <1>7, <1>8 DEF m, l

(* Only the mark of chunk n changes, to v. *)
OneMark(x, y, n, v) ==
  /\ y.chk_num = x.chk_num /\ n \in Chks(x) /\ y.chk[n].virgin = v
  /\ \A k \in Chks(x) \ {n} : y.chk[k] = x.chk[k]

(* One chunk with another mark is one mark changed. *)
LEMMA MarkSet ==
  ASSUME NEW x, NEW y, NEW n, NEW v, Open(x), Open(y), OneMark(x, y, n, v)
  PROVE  Marks(y) = [Marks(x) EXCEPT ![n + 1] = v]
<1> DEFINE l == x.chk_num
           m == Marks(x)
           w == Marks(y)
<1>1. /\ l \in Nat /\ Chks(x) = 0 .. l - 1 /\ y.chk_num = l
      /\ m = [k \in 1 .. l |-> x.chk[k - 1].virgin]
      /\ w = [k \in 1 .. l |-> y.chk[k - 1].virgin]
      /\ n \in Chks(x) /\ y.chk[n].virgin = v
      /\ \A k \in Chks(x) \ {n} : y.chk[k] = x.chk[k]
  BY MarksLen DEF OneMark
<1> HIDE DEF m, w, l
<1>2. \A k \in 1 .. l : k # n + 1 => k - 1 \in Chks(x) \ {n}
  BY <1>1
<1>3. n + 1 \in 1 .. l /\ (n + 1) - 1 = n
  BY <1>1
<1>4. \A k \in 1 .. l : w[k] = IF k = n + 1 THEN v ELSE m[k]
  BY <1>1, <1>2, <1>3
<1>5. w = [m EXCEPT ![n + 1] = v]
  BY <1>1, <1>3, <1>4
<1> QED
  BY <1>5 DEF m, w

(* A block is taken at the mark of the last chunk. *)
LEMMA ServedOpen ==
  ASSUME NEW x, Open(x), x.chk_num > 0, NEW size \in Nat \ {0}, Fits(LastChk(x), size)
  PROVE  /\ Open(Served(x, size)) /\ Served(x, size).chk_num = x.chk_num
         /\ \A n \in Chks(x) \ {LastNo(x)} : Served(x, size).chk[n] = x.chk[n]
         /\ Served(x, size).chk[LastNo(x)].virgin = LastChk(x).virgin + size
         /\ Filled(Marks(x), Marks(Served(x, size)))
<1> DEFINE l == LastNo(x)
           v == x.chk[l].virgin + size
           y == [x EXCEPT !.chk[l].virgin = v]
           m == Marks(x)
           w == Marks(y)
<1>1. /\ l \in Chks(x) /\ l + 1 = x.chk_num /\ l \in Nat /\ x \in ChkIndexes
      /\ x.chk_num \in Nat /\ l \in 0 .. x.chk_num - 1
  BY LayoutOf DEF Open, Chks, LastNo
<1>2. /\ x.chk[l].virgin \in Nat /\ x.chk[l].virgin > 0 /\ m \in Seq(Nat)
      /\ Len(m) = x.chk_num /\ m[l + 1] = x.chk[l].virgin
  BY <1>1, MarksLen
<1>3. v <= Units(x.chk[l].capacity) /\ v \in Nat /\ Overhead(l) <= v
  <2>1. Overhead(l) <= x.chk[l].virgin
    BY <1>1 DEF Open, Headers
  <2>2. Overhead(l) \in Nat
    BY <1>1, Positive DEF Overhead
  <2> QED
    BY <1>2, <2>1, <2>2 DEF Fits, LastChk
<1>4. Served(x, size) = y
  BY <1>1, IndexFields DEF Served, ChkIndexes
<1> HIDE DEF v, l
<1>5. /\ Open(y) /\ y.chk_num = x.chk_num /\ y.chk[l].virgin = v
      /\ \A n \in Chks(x) \ {l} : y.chk[n] = x.chk[n]
  BY <1>1, <1>3, NewMark
<1> HIDE DEF y
<1>6. w = [m EXCEPT ![l + 1] = v]
  <2>1. OneMark(x, y, l, v)
    BY <1>1, <1>5 DEF OneMark
  <2> QED
    BY <1>5, <2>1, MarkSet
<1>7. v > x.chk[l].virgin
  BY <1>2 DEF v
<1> HIDE DEF m, w
<1>8. Filled(m, w)
  <2>1. l + 1 \in 1 .. Len(m) /\ Len(m) = l + 1
    BY <1>1, <1>2
  <2>2. w[l + 1] = v /\ Len(w) = Len(m)
    BY <1>2, <1>6, <2>1
  <2>3. m # << >>
    BY <1>2, <2>1
  <2> QED
    BY <1>2, <1>6, <1>7, <2>1, <2>2, <2>3 DEF Filled
<1> QED
  BY <1>4, <1>5, <1>8 DEF m, w, v, l, LastChk

(* One chunk more extends the marks. *)
LEMMA ExtendedBy ==
  ASSUME NEW x, NEW y, Open(x), Open(y), y.chk_num = x.chk_num + 1,
         \A n \in Chks(x) :
           IF n = LastNo(x) THEN y.chk[n].virgin >= x.chk[n].virgin
           ELSE y.chk[n].virgin = x.chk[n].virgin
  PROVE  Extended(Marks(x), Marks(y))
<1> DEFINE m == Marks(x)
           w == Marks(y)
           l == x.chk_num
<1>1. /\ l \in Nat /\ Chks(x) = 0 .. l - 1 /\ Len(m) = l
      /\ \A n \in Chks(x) : m[n + 1] = x.chk[n].virgin
  BY MarksLen
<1>2. /\ Chks(y) = 0 .. (l + 1) - 1 /\ Len(w) = l + 1
      /\ \A n \in Chks(y) : w[n + 1] = y.chk[n].virgin /\ y.chk[n].virgin > 0
  BY MarksLen
<1> HIDE DEF m, w
<1>3. l \in Chks(y) /\ w[l + 1] > 0
  <2>1. l \in Chks(y)
    BY <1>1, <1>2
  <2> QED
    BY <1>2, <2>1
<1>4. ASSUME NEW n \in 1 .. l
      PROVE  IF n = l THEN w[n] >= m[n] ELSE w[n] = m[n]
  <2>1. n - 1 \in Chks(x) /\ n - 1 \in Chks(y) /\ (n - 1) + 1 = n
    BY <1>1, <1>2
  <2>2. w[n] = y.chk[n - 1].virgin /\ m[n] = x.chk[n - 1].virgin
    BY <1>1, <1>2, <2>1
  <2>3. n - 1 = LastNo(x) <=> n = l
    BY <1>1 DEF LastNo
  <2> QED
    BY <2>1, <2>2, <2>3
<1> QED
  BY <1>1, <1>2, <1>3, <1>4 DEF Extended, m, w

---------------------------------------------------------------------------
(* The requests, on an index that is uncompressed.                         *)
LEMMA BootedOpen ==
  ASSUME NEW x, Open(x)
  PROVE  /\ Open(Booted(x)) /\ Booted(x).chk_num > 0
         /\ x.chk_num > 0 => Booted(x) = x
         /\ x.chk_num = 0 =>
              /\ Booted(x).chk_num = 1
              /\ LastChk(Booted(x)).virgin = Overhead(0)
              /\ LastChk(Booted(x)).capacity = MaxCapacity
<1>1. x.chk_num \in Nat /\ x.chk_num >= 0
  BY IndexFields DEF Open
<1>2. CASE x.chk_num = 0
  <2> DEFINE y == Appended(x)
  <2>1. x.chk_num < MaxChkNum
    BY <1>2, Positive
  <2>2. /\ Open(y) /\ y.chk_num = x.chk_num + 1
        /\ y.chk[x.chk_num].virgin = Overhead(x.chk_num)
        /\ y.chk[x.chk_num].capacity = MaxCapacity
    BY <1>2, <2>1, AppendedOpen
  <2>3. Booted(x) = y
    BY <1>2 DEF Booted
  <2> HIDE DEF y
  <2>4. y.chk_num = 1 /\ LastChk(y) = y.chk[0]
    BY <1>2, <2>2 DEF LastChk, LastNo
  <2> QED
    BY <1>2, <2>2, <2>3, <2>4
<1>3. CASE x.chk_num # 0
  BY <1>1, <1>3 DEF Booted
<1> QED
  BY <1>2, <1>3

(* alloc of the last chunk, which boot may have had to append first. *)
LEMMA ServedInLast ==
  ASSUME NEW u, Open(u), NEW x, x = Booted(u), NEW size \in Nat \ {0},
         Fits(LastChk(x), size)
  PROVE  /\ Open(Served(x, size))
         /\ \/ Filled(Marks(u), Marks(Served(x, size)))
            \/ Extended(Marks(u), Marks(Served(x, size)))
<1>1. Open(x) /\ x.chk_num > 0
  BY BootedOpen
<1>2. /\ Open(Served(x, size)) /\ Served(x, size).chk_num = x.chk_num
      /\ Filled(Marks(x), Marks(Served(x, size)))
  BY <1>1, ServedOpen
<1>3. CASE u.chk_num > 0
  BY <1>2, <1>3, BootedOpen
<1>4. CASE ~(u.chk_num > 0)
  <2>1. u.chk_num = 0
    BY <1>4, IndexFields DEF Open
  <2>2. x.chk_num = u.chk_num + 1 /\ Chks(u) = {}
    BY <2>1, BootedOpen DEF Chks, LastNo
  <2>3. Extended(Marks(u), Marks(Served(x, size)))
    BY <1>2, <2>2, ExtendedBy
  <2> QED
    BY <1>2, <2>3
<1> QED
  BY <1>3, <1>4

(* A chunk that was just made holds any block, so no second one is made.   *)
LEMMA ServedInNew ==
  ASSUME NEW u, Open(u), NEW x, x = Booted(u), NEW size \in 1 .. MaxContinus,
         ~CanEnlarge(LastChk(x)), ~Fits(LastChk(x), size), x.chk_num < MaxChkNum
  PROVE  LET y == Served(UsedUp(Appended(x), LastNo(x)), size)
         IN  Open(y) /\ Extended(Marks(u), Marks(y))
<1> DEFINE l == LastNo(x)
           a == Appended(x)
           v == Units(a.chk[l].capacity)
           b == UsedUp(a, l)
           y == Served(b, size)
<1>1. Open(x) /\ x.chk_num > 0
  BY BootedOpen
<1>2. /\ l \in Chks(x) /\ l + 1 = x.chk_num /\ l \in Nat /\ x.chk_num \in Nat
      /\ Chks(x) = 0 .. x.chk_num - 1
  BY <1>1, LayoutOf, MarksLen
<1>3. size \in Nat \ {0} /\ size <= MaxContinus
  BY Positive
<1>4. x = u
  <2>1. Overhead(0) + size <= Units(MaxCapacity)
    <3>1. Units(MaxCapacity) \in Nat
      BY Positive, UnitsGrow
    <3> QED
      BY <1>3, <3>1, Positive DEF Overhead
  <2>2. u.chk_num # 0
    BY <2>1, BootedOpen DEF Fits
  <2>3. u.chk_num \in Nat
    BY MarksLen
  <2> QED
    BY <2>2, <2>3, BootedOpen
<1>5. /\ Open(a) /\ a.chk_num = x.chk_num + 1
      /\ a.chk[x.chk_num].virgin = Overhead(x.chk_num)
      /\ a.chk[x.chk_num].capacity = MaxCapacity
      /\ \A m \in Chks(x) : a.chk[m] = x.chk[m]
  BY <1>1, AppendedOpen
<1> HIDE DEF a, l
<1>6. /\ a \in ChkIndexes /\ Chks(a) = 0 .. x.chk_num /\ l \in Chks(a)
      /\ x.chk_num \in Chks(a)
      /\ a.chk[l] = x.chk[l] /\ a.chk[l] \in Entries
      /\ Overhead(l) <= a.chk[l].virgin /\ a.chk[l].virgin <= v
      /\ a.chk[l].virgin \in Nat
  <2>1. a \in ChkIndexes /\ Chks(a) = 0 .. (x.chk_num + 1) - 1
    BY <1>5 DEF Open, Chks, LastNo
  <2>2. l \in Chks(a) /\ x.chk_num \in Chks(a) /\ Chks(a) = 0 .. x.chk_num
        /\ l \in 0 .. a.chk_num - 1
    BY <1>2, <1>5, <2>1
  <2>3. a.chk[l] \in Entries
    BY <2>1, <2>2, IndexFields
  <2>4. Overhead(l) <= a.chk[l].virgin /\ a.chk[l].virgin <= v
    BY <1>5, <2>2 DEF Open, Headers
  <2>5. a.chk[l].virgin \in Nat
    BY <2>3, EntryFields
  <2> QED
    BY <1>2, <1>5, <2>1, <2>2, <2>3, <2>4, <2>5
<1>7. v \in Nat /\ v <= Units(a.chk[l].capacity) /\ Overhead(l) <= v
  <2>1. v \in Nat
    BY <1>6, EntryFields, UnitsGrow
  <2>2. Overhead(l) \in Nat
    BY <1>2, Positive DEF Overhead
  <2> QED
    BY <1>6, <2>1, <2>2
<1>8. b = [a EXCEPT !.chk[l].virgin = v]
  BY DEF UsedUp
<1> HIDE DEF v, b
<1>9. /\ Open(b) /\ b.chk_num = a.chk_num /\ b.chk[l].virgin = v
      /\ \A m \in Chks(a) \ {l} : b.chk[m] = a.chk[m]
  <2>1. /\ Open(a) /\ l \in Chks(a) /\ v \in Nat
        /\ Overhead(l) <= v /\ v <= Units(a.chk[l].capacity)
    BY <1>5, <1>6, <1>7, Zenon
  <2>2. LET z == [a EXCEPT !.chk[l].virgin = v]
        IN  /\ Open(z) /\ z.chk_num = a.chk_num
            /\ z.chk[l].virgin = v /\ z.chk[l].capacity = a.chk[l].capacity
            /\ \A m \in Chks(a) \ {l} : z.chk[m] = a.chk[m]
    BY <2>1, NewMark
  <2> QED
    BY <1>8, <2>2
<1>10. /\ LastNo(b) = x.chk_num /\ b.chk_num > 0 /\ Chks(b) = Chks(a)
       /\ LastChk(b) = a.chk[x.chk_num]
  <2>1. LastNo(b) = x.chk_num
    BY <1>2, <1>5, <1>9 DEF LastNo
  <2>2. x.chk_num \in Chks(a) \ {l}
    BY <1>2, <1>6
  <2> QED
    BY <1>2, <1>5, <1>9, <2>1, <2>2 DEF LastChk, Chks, LastNo
<1>11. Fits(LastChk(b), size)
  <2>1. Overhead(x.chk_num) + size <= Units(MaxCapacity)
    <3>1. Units(MaxCapacity) \in Nat
      BY Positive, UnitsGrow
    <3> QED
      BY <1>2, <1>3, <3>1, Positive DEF Overhead
  <2> QED
    BY <1>5, <1>10, <2>1 DEF Fits
<1>12. /\ Open(y) /\ y.chk_num = b.chk_num
       /\ \A n \in Chks(b) \ {LastNo(b)} : y.chk[n] = b.chk[n]
  BY <1>3, <1>9, <1>10, <1>11, ServedOpen
<1> HIDE DEF y
<1>13. ASSUME NEW n \in Chks(x)
       PROVE  IF n = LastNo(x) THEN y.chk[n].virgin >= x.chk[n].virgin
              ELSE y.chk[n].virgin = x.chk[n].virgin
  <2>1. n \in Chks(b) \ {LastNo(b)}
    BY <1>2, <1>6, <1>10
  <2>2. y.chk[n] = b.chk[n]
    BY <1>12, <2>1
  <2>3. CASE n = l
    BY <2>2, <2>3, <1>6, <1>7, <1>9 DEF l
  <2>4. CASE n # l
    BY <2>1, <2>2, <2>4, <1>5, <1>9, <1>10 DEF l
  <2> QED
    BY <2>3, <2>4
<1>14. y.chk_num = x.chk_num + 1
  BY <1>5, <1>9, <1>12
<1>15. Extended(Marks(x), Marks(y))
  BY <1>1, <1>12, <1>13, <1>14, ExtendedBy
<1> QED
  BY <1>4, <1>12, <1>15 DEF y, b, a, l

(* A block is given back at the mark of a chunk. *)
LEMMA FreedOpen ==
  ASSUME NEW x, Open(x), NEW n \in Chks(x), NEW size \in Nat \ {0},
         x.chk[n].virgin - size >= Overhead(n),
         NEW y, y = [x EXCEPT !.chk[n].virgin = @ - size]
  PROVE  Open(y) /\ Cleared(Marks(x), Marks(y))
<1> DEFINE v == x.chk[n].virgin - size
           m == Marks(x)
<1>1. /\ x.chk_num \in Nat /\ Chks(x) = 0 .. x.chk_num - 1 /\ n \in Nat
      /\ x.chk[n].virgin \in Nat /\ m \in Seq(Nat) /\ Len(m) = x.chk_num
      /\ n + 1 \in 1 .. x.chk_num /\ m[n + 1] = x.chk[n].virgin
  <2>1. /\ x.chk_num \in Nat /\ Chks(x) = 0 .. x.chk_num - 1
        /\ x.chk[n].virgin \in Nat /\ m \in Seq(Nat) /\ Len(m) = x.chk_num
        /\ n + 1 \in 1 .. x.chk_num /\ m[n + 1] = x.chk[n].virgin
    BY MarksLen, Zenon
  <2>2. n \in Nat
    BY <2>1
  <2> QED
    BY <2>1, <2>2
<1>2. v \in Nat /\ Overhead(n) <= v /\ v > 0 /\ v < x.chk[n].virgin
  <2> DEFINE w == x.chk[n].virgin
             o == Overhead(n)
  <2>1. o \in Nat /\ o > 0
    BY OverheadIs, Zenon
  <2>2. w \in Nat /\ w - size >= o
    BY <1>1
  <2> HIDE DEF w, o
  <2>3. w - size \in Nat /\ o <= w - size /\ w - size > 0 /\ w - size < w
    BY <2>1, <2>2
  <2> QED
    BY <2>3 DEF w, o
<1>3. v <= Units(x.chk[n].capacity)
  <2>1. x.chk[n].virgin <= Units(x.chk[n].capacity)
    BY <1>1 DEF Open, Headers
  <2>2. x.chk[n].capacity \in Nat
    BY <1>1, HeadersSized DEF Open
  <2>3. Units(x.chk[n].capacity) \in Nat
    BY <2>2, UnitsGrow
  <2> QED
    BY <1>1, <1>2, <2>1, <2>3
<1>4. y = [x EXCEPT !.chk[n].virgin = v]
  OBVIOUS
<1> HIDE DEF v
<1>5. /\ Open(y) /\ y.chk_num = x.chk_num /\ y.chk[n].virgin = v
      /\ \A k \in Chks(x) \ {n} : y.chk[k] = x.chk[k]
  <2> DEFINE z == [x EXCEPT !.chk[n].virgin = v]
  <2>1. /\ Open(z) /\ z.chk_num = x.chk_num /\ z.chk[n].virgin = v
        /\ \A k \in Chks(x) \ {n} : z.chk[k] = x.chk[k]
    BY <1>2, <1>3, NewMark
  <2>2. y = z
    BY <1>4
  <2> HIDE DEF z
  <2> QED
    BY <2>1, <2>2
<1>6. Marks(y) = [Marks(x) EXCEPT ![n + 1] = v]
  <2>1. OneMark(x, y, n, v)
    BY <1>5 DEF OneMark
  <2> QED
    BY <1>5, <2>1, MarkSet
<1> HIDE DEF m
<1>7. n + 1 \in 1 .. Len(m) /\ v \in 1 .. m[n + 1] - 1
  BY <1>1, <1>2
<1>8. Cleared(m, Marks(y))
  BY <1>6, <1>7 DEF Cleared, m
<1> QED
  BY <1>5, <1>8 DEF m

---------------------------------------------------------------------------
(* The invariant holds.                                                    *)
LEMMA NotPositive == \A k : k = 0 => ~ (k > 0)
  OBVIOUS

(* A call that leaves the index in a layout keeps the invariant. *)
LEMMA Left ==
  ASSUME NEW y, Open(y) \/ Packed(y), split \in BOOLEAN, Leaves(y)
  PROVE  LayoutInv' /\ Marks(index)' = Marks(y) /\ stage' = "in use"
<1>1. index' = y /\ stage' = "in use" /\ split' = split
  BY DEF Leaves
<1>2. ASSUME Open(y)
      PROVE  Open(index)'
  BY <1>1, <1>2 DEF Open, Laid, OwnsMemory, Memory
<1>3. ASSUME Packed(y)
      PROVE  Packed(index)'
  BY <1>1, <1>3 DEF Packed, Memory
<1>4. Marks(index)' = Marks(y)
  BY <1>1 DEF Marks
<1>5. LayoutInv'
  BY <1>1, <1>2, <1>3 DEF LayoutInv
<1> QED
  BY <1>1, <1>4, <1>5

(* An index without chunks has no marks. *)
LEMMA BareMarks ==
  ASSUME NEW x, Bare(x)
  PROVE  Marks(x) = << >>
<1>1. Open(x) /\ x.chk_num = 0
  BY BareOpen
<1>2. Marks(x) \in Seq(Nat) /\ Len(Marks(x)) = 0
  BY <1>1, MarksLen
<1> QED
  BY <1>2

(* No chunk and no memory, in whatever mode. *)
LEMMA LeftBare ==
  ASSUME Bare(index)', split' \in BOOLEAN, stage' \in {"in use", "destructed", "gone"}
  PROVE  LayoutInv' /\ Marks(index)' = << >>
<1>1. /\ index' \in ChkIndexes
      /\ ~index'.misused /\ ~index'.compressed /\ index'.image.count = 0
      /\ index'.chk_num = 0 /\ index'.chk_num <= index'.addr_size
      /\ Headers(index'.chk, index'.chk_num)
      /\ index'.total_capacity = SumTo(index'.chk, index'.chk_num)
      /\ NotFree(index') = {index'.chk[n].id : n \in Chks(index')}
  <2> DEFINE x == index'
  <2>1. Bare(x)
    BY DEF Bare, NotFree
  <2> HIDE DEF x
  <2>2. Open(x) /\ x.chk_num = 0
    BY <2>1, BareOpen
  <2>3. /\ x \in ChkIndexes /\ ~x.misused /\ ~x.compressed /\ x.image.count = 0
        /\ x.chk_num = 0 /\ x.chk_num <= x.addr_size
        /\ Headers(x.chk, x.chk_num) /\ x.total_capacity = SumTo(x.chk, x.chk_num)
        /\ NotFree(x) = {x.chk[n].id : n \in Chks(x)}
    BY <2>2 DEF Open
  <2> QED
    BY <2>3 DEF x
<1>2. Open(index)'
  <2>1. ~ (index'.chk_num > 0)
    BY <1>1, NotPositive, Zenon
  <2> QED
    BY <1>1, <2>1 DEF Open
<1>3. Marks(index)' = << >>
  <2> DEFINE x == index'
  <2>1. Bare(x)
    BY DEF Bare, NotFree
  <2> HIDE DEF x
  <2>2. Marks(x) = << >>
    BY <2>1, BareMarks
  <2> QED
    BY <2>2 DEF Marks, x
<1> QED
  BY <1>1, <1>2, <1>3 DEF LayoutInv

(* What a step does to the contents. *)
Changes ==
  \/ /\ stage' = "in use"
     /\ \/ Filled(Marks(index), Marks(index)')
        \/ Extended(Marks(index), Marks(index)')
        \/ Cleared(Marks(index), Marks(index)')
  \/ Marks(index)' = << >> /\ stage' # "in use"
  \/ Marks(index)' = Marks(index)

(* alloc and free. *)
LEMMA Requests ==
  ASSUME LayoutInv, NEW size \in 1 .. MaxContinus,
         \/ AllocInLast(size) \/ AllocInNewChk(size) \/ AllocFails(size)
         \/ \E n \in ChkNos : FreeAtMark(n, size)
  PROVE  LayoutInv' /\ Changes
<1> DEFINE u == Uncompressed(index)
           x == Booted(u)
<1>1. Open(u) /\ Marks(u) = Marks(index) /\ split \in BOOLEAN
  BY UncompressedOpen DEF LayoutInv
<1>2. size \in Nat \ {0}
  BY Positive
<1> HIDE DEF u
<1>3. CASE AllocInLast(size)
  <2>1. Fits(LastChk(x), size) /\ Leaves(Served(x, size))
    BY <1>3, Zenon DEF AllocInLast, x, u
  <2> DEFINE y == Served(x, size)
  <2>2. Open(y) /\ (Filled(Marks(u), Marks(y)) \/ Extended(Marks(u), Marks(y)))
    BY <1>1, <1>2, <2>1, ServedInLast
  <2> HIDE DEF y, x
  <2>3. Leaves(y)
    BY <2>1 DEF y
  <2>4. LayoutInv' /\ Marks(index)' = Marks(y) /\ stage' = "in use"
    BY <1>1, <2>2, <2>3, Left
  <2> QED
    BY <1>1, <2>2, <2>4 DEF Changes
<1>4. CASE AllocInNewChk(size)
  <2> DEFINE y == Served(UsedUp(Appended(x), LastNo(x)), size)
  <2>1. /\ ~CanEnlarge(LastChk(x)) /\ ~Fits(LastChk(x), size)
        /\ x.chk_num < MaxChkNum /\ Leaves(y)
    BY <1>4, Zenon DEF AllocInNewChk, x, u, y
  <2>2. Open(y) /\ Extended(Marks(u), Marks(y))
    BY <1>1, <2>1, ServedInNew
  <2> HIDE DEF y, x
  <2>3. LayoutInv' /\ Marks(index)' = Marks(y) /\ stage' = "in use"
    BY <1>1, <2>1, <2>2, Left
  <2> QED
    BY <1>1, <2>2, <2>3 DEF Changes
<1>5. CASE AllocFails(size)
  <2> DEFINE y == AddrGrown(u)
  <2>1. Leaves(y)
    BY <1>5, Zenon DEF AllocFails, u, y
  <2>2. Open(y) /\ SameMarks(u, y)
    BY <1>1, RoomGrown
  <2>3. Marks(y) = Marks(u)
    BY <1>1, <2>2, MarksSame
  <2> HIDE DEF y
  <2>4. LayoutInv' /\ Marks(index)' = Marks(y) /\ stage' = "in use"
    BY <1>1, <2>1, <2>2, Left
  <2> QED
    BY <1>1, <2>3, <2>4 DEF Changes
<1>6. CASE \E n \in ChkNos : FreeAtMark(n, size)
  <2>1. PICK n \in ChkNos : FreeAtMark(n, size)
    BY <1>6
  <2> DEFINE y == [u EXCEPT !.chk[n].virgin = @ - size]
  <2>2. n \in Chks(u) /\ u.chk[n].virgin - size >= Overhead(n) /\ Leaves(y)
    BY <2>1, Zenon DEF FreeAtMark, u, y
  <2>3. Open(y) /\ Cleared(Marks(u), Marks(y))
    BY <1>1, <1>2, <2>2, FreedOpen
  <2> HIDE DEF y
  <2>4. LayoutInv' /\ Marks(index)' = Marks(y) /\ stage' = "in use"
    BY <1>1, <2>2, <2>3, Left
  <2> QED
    BY <1>1, <2>3, <2>4 DEF Changes
<1> QED
  BY <1>3, <1>4, <1>5, <1>6

(* Calls that may change the layout: an access, enlarge, compress, shrink. *)
LEMMA Layouts ==
  ASSUME LayoutInv, Access \/ Enlarge \/ Compress \/ Shrink
  PROVE  LayoutInv' /\ Marks(index)' = Marks(index)
<1> DEFINE u == Uncompressed(index)
           s == SplitUp(u)
<1>1. Open(u) /\ Marks(u) = Marks(index) /\ split \in BOOLEAN
  BY UncompressedOpen DEF LayoutInv
<1>2. index.chk_num > 0 => Open(index)
  <2>1. Packed(index) => index.chk_num = 0
    BY DEF Packed
  <2> QED
    BY <2>1, NotPositive, Zenon DEF LayoutInv
<1> HIDE DEF u
<1>3. CASE Access
  BY <1>1, <1>3, Left DEF Access, u
<1>4. CASE Enlarge
  <2>1. Open(s) /\ Marks(s) = Marks(u)
    BY <1>1, SplitOpen
  <2>2. Leaves(Grown(s)) \/ Leaves(s)
    BY <1>4, Zenon DEF Enlarge, s, u
  <2> HIDE DEF s
  <2>3. Open(Grown(s)) /\ Marks(Grown(s)) = Marks(s)
    BY <2>1, GrownOpen, MarksSame
  <2> QED
    BY <1>1, <2>1, <2>2, <2>3, Left
<1>5. CASE Compress
  <2> DEFINE y == Compressed(index)
  <2>1. index.chk_num > 0 /\ Leaves(y)
    BY <1>5 DEF Compress
  <2>2. /\ Open(index) /\ Packed(y)
        /\ y.image.count = index.chk_num /\ y.image.chk = index.chk
    BY <1>2, <2>1, CompressedPacked
  <2> HIDE DEF y
  <2>3. Marks(y) = Marks(index)
    BY <2>2, MarksIs
  <2> QED
    BY <1>1, <2>1, <2>2, <2>3, Left
<1>6. CASE Shrink
  <2> DEFINE y == ShrunkIndex(index)
  <2>1. /\ index.chk_num > 0 /\ LastChk(index).alloc_capacity # 0
        /\ Surplus(LastChk(index)) > 0 /\ Leaves(y)
    BY <1>6 DEF Shrink, ShrinkAny
  <2>2. Open(index) /\ Open(y) /\ SameMarks(index, y)
    BY <1>2, <2>1, ShrunkOpen
  <2> HIDE DEF y
  <2>3. Marks(y) = Marks(index)
    BY <2>2, MarksSame
  <2> QED
    BY <1>1, <2>1, <2>2, <2>3, Left
<1> QED
  BY <1>3, <1>4, <1>5, <1>6

(* Calls after which there is no chunk, and the switch of memory           *)
(* functions.                                                              *)
LEMMA Endings ==
  ASSUME LayoutInv, Destruct \/ Delete \/ Construct \/ InitMemalign
  PROVE  LayoutInv' /\ Changes
<1>1. /\ split \in BOOLEAN /\ stage \in {"in use", "destructed", "gone"}
      /\ Open(index) \/ Packed(index)
      /\ stage # "in use" => index.chk_num = 0
      /\ stage = "gone" => ~index.compressed
  BY DEF LayoutInv
<1>2. ASSUME NEW s \in BOOLEAN, Packed(index), index' = index, split' = s,
             stage' \in {"in use", "destructed"}
      PROVE  LayoutInv' /\ Changes
  <2>1. Packed(index)' /\ index'.chk_num = 0
    BY <1>2 DEF Packed, Memory
  <2>2. LayoutInv'
    BY <1>2, <2>1 DEF LayoutInv
  <2>3. Marks(index)' = Marks(index)
    BY <1>2 DEF Marks
  <2> QED
    BY <2>2, <2>3 DEF Changes
<1>3. ASSUME NEW s \in BOOLEAN, Bare(index), index' = index, split' = s,
             stage' \in {"in use", "destructed", "gone"}
      PROVE  LayoutInv' /\ Changes
  <2>1. Bare(index)'
    BY <1>3 DEF Bare
  <2>2. LayoutInv'
    BY <1>3, <2>1, LeftBare
  <2>3. Marks(index)' = Marks(index)
    BY <1>3 DEF Marks
  <2> QED
    BY <2>2, <2>3 DEF Changes
<1>4. index.chk_num = 0 => Bare(index) \/ Packed(index)
  BY <1>1, BareOpen
<1>5. CASE Destruct
  <2>1. index' = Destructed(index) /\ stage' = "destructed" /\ split' = split
    BY <1>5 DEF Destruct
  <2>2. CASE Open(index)
    <3>1. Bare(index)'
      <4>1. Bare(Destructed(index))
        BY <2>2, DestructedBare
      <4> QED
        BY <2>1, <4>1 DEF Bare
    <3>2. LayoutInv' /\ Marks(index)' = << >>
      BY <1>1, <2>1, <3>1, LeftBare
    <3> QED
      BY <2>1, <3>2 DEF Changes
  <2>3. CASE Packed(index)
    <3>1. index' = index
      BY <2>1, <2>3 DEF Destructed, Packed
    <3> QED
      BY <1>1, <1>2, <2>1, <2>3, <3>1
  <2> QED
    BY <1>1, <2>2, <2>3
<1>6. CASE Delete
  <2>1. /\ ~index.compressed /\ stage = "destructed" /\ stage' = "gone" /\ split' = split
        /\ index' = [EmptyIndex EXCEPT !.mem = index.mem, !.misused = index.misused]
    BY <1>6 DEF Delete, DeleteAny
  <2>2. Bare(index)
    BY <1>1, <1>4, <2>1 DEF Packed
  <2>3. Bare(index)'
    <3> DEFINE y == [EmptyIndex EXCEPT !.mem = index.mem, !.misused = index.misused]
    <3>1. /\ y.mem = index.mem /\ y.misused = index.misused /\ y.chk_num = 0
          /\ y.compressed = FALSE /\ y.total_capacity = 0 /\ y.image = NoImage
          /\ y.addr_size = 0 /\ y.chk = NoEntries
      BY DEF EmptyIndex, NoEntries
    <3>2. NoImage \in Images /\ NoImage.count = 0
      BY NoEntriesOk, Positive DEF NoImage, Images, NoEntries
    <3>3. index.mem \in [MemIds -> Memories] /\ index.misused \in BOOLEAN
      BY <2>2, IndexFields DEF Bare
    <3>4. y \in ChkIndexes
      <4>1. 0 \in 0 .. MaxChkNum
        BY Positive
      <4> QED
        BY <3>2, <3>3, <4>1, NoEntriesOk DEF ChkIndexes, EmptyIndex, NoEntries
    <3> HIDE DEF y
    <3>5. Bare(y)
      BY <2>2, <3>1, <3>2, <3>4 DEF Bare, NotFree
    <3> QED
      BY <2>1, <3>5 DEF Bare, y
  <2>4. LayoutInv' /\ Marks(index)' = << >>
    BY <1>1, <2>1, <2>3, LeftBare
  <2> QED
    BY <2>1, <2>4 DEF Changes
<1>7. CASE Construct
  <2>1. /\ stage = "gone" /\ stage' = "in use" /\ index' = index /\ split' = split
    BY <1>7 DEF Construct
  <2>2. Bare(index)
    BY <1>1, <1>4, <2>1 DEF Packed
  <2> QED
    BY <1>1, <1>3, <2>1, <2>2
<1>8. CASE InitMemalign
  <2>1. /\ index.chk_num = 0 /\ split' = TRUE /\ index' = index /\ stage' = stage
    BY <1>8 DEF InitMemalign
  <2>2. CASE Bare(index)
    BY <1>1, <1>3, <2>1, <2>2
  <2>3. CASE Packed(index)
    <3>1. stage # "gone"
      BY <1>1, <2>3 DEF Packed
    <3> QED
      BY <1>1, <1>2, <2>1, <2>3, <3>1
  <2> QED
    BY <1>4, <2>1, <2>2, <2>3
<1> QED
  BY <1>5, <1>6, <1>7, <1>8

(* Every step keeps the invariant and changes the marks as ChunkContents   *)
(* lets it.                                                                *)
LEMMA Steps ==
  ASSUME LayoutInv, Next
  PROVE  LayoutInv' /\ Changes
<1>1. CASE \E size \in 1 .. MaxContinus :
             \/ AllocInLast(size) \/ AllocInNewChk(size) \/ AllocFails(size)
             \/ \E n \in ChkNos : FreeAtMark(n, size)
  BY <1>1, Requests
<1>2. CASE Access \/ Enlarge \/ Compress \/ Shrink
  BY <1>2, Layouts DEF Changes
<1>3. CASE Destruct \/ Delete \/ Construct \/ InitMemalign
  BY <1>3, Endings
<1> QED
  BY <1>1, <1>2, <1>3, Zenon DEF Next, Use

(* An index as it is constructed. *)
LEMMA EmptyBare == Bare(EmptyIndex)
<1> DEFINE y == EmptyIndex
<1>1. /\ y.mem = [id \in MemIds |-> NoMem] /\ y.misused = FALSE /\ y.chk_num = 0
      /\ y.compressed = FALSE /\ y.total_capacity = 0 /\ y.image = NoImage
      /\ y.addr_size = 0 /\ y.chk = NoEntries
  BY DEF EmptyIndex, NoEntries
<1>2. NoImage \in Images /\ NoImage.count = 0
  BY NoEntriesOk, Positive DEF NoImage, Images, NoEntries
<1>3. y.mem \in [MemIds -> Memories]
  BY <1>1 DEF NoMem, Memories
<1>4. y \in ChkIndexes
  <2>1. 0 \in 0 .. MaxChkNum
    BY Positive
  <2> QED
    BY <1>1, <1>2, <1>3, <2>1, NoEntriesOk DEF ChkIndexes, EmptyIndex, NoEntries
<1> HIDE DEF y
<1>5. Bare(y)
  BY <1>1, <1>2, <1>4 DEF Bare, NotFree
<1> QED
  BY <1>5 DEF y

(* An index is in one of its two layouts: with its chunks in memory, the   *)
(* first ones of them in one piece and the others in their own, or as an   *)
(* image.  One that is destructed has no chunk, one that is gone nothing.  *)
THEOREM Inductive == Spec => []LayoutInv
<1>1. Init => LayoutInv
  <2> SUFFICES ASSUME Init PROVE LayoutInv
    OBVIOUS
  <2>1. index = EmptyIndex /\ split \in BOOLEAN /\ stage = "in use"
    BY DEF Init
  <2>2. Open(index) /\ index.chk_num = 0 /\ ~index.compressed
    BY <2>1, EmptyBare, BareOpen DEF Bare
  <2> QED
    BY <2>1, <2>2 DEF LayoutInv
<1>2. LayoutInv /\ [Next]_vars => LayoutInv'
  <2> SUFFICES ASSUME LayoutInv, [Next]_vars PROVE LayoutInv'
    OBVIOUS
  <2>1. CASE UNCHANGED vars
    BY <2>1 DEF vars, LayoutInv, Open, Packed, Laid, OwnsMemory, Memory
  <2>2. CASE Next
    BY <2>2, Steps
  <2> QED
    BY <2>1, <2>2
<1> QED
  BY <1>1, <1>2, PTL DEF Spec

---------------------------------------------------------------------------
(* Every variable has its type, and no mark lies above its capacity,       *)
(* wherever uncompress cuts the last chunk.                                *)
THEOREM TypesHold == Spec => []TypeOK
<1>1. LayoutInv => TypeOK
  <2> SUFFICES ASSUME LayoutInv PROVE TypeOK
    OBVIOUS
  <2>1. CASE Open(index)
    <3>1. \A n \in Chks(index) : index.chk[n].virgin <= Units(index.chk[n].capacity)
      BY <2>1, MarksLen DEF Open, Headers
    <3> QED
      BY <2>1, <3>1 DEF LayoutInv, TypeOK, Open
  <2>2. CASE Packed(index)
    <3>1. Chks(index) = {}
      BY <2>2 DEF Packed, Chks, LastNo
    <3> QED
      BY <2>2, <3>1 DEF LayoutInv, TypeOK, Packed
  <2> QED
    BY <2>1, <2>2 DEF LayoutInv
<1> QED
  BY <1>1, Inductive, PTL

(* No memory is given back twice, from its middle, with another size or to *)
(* another function than the one it came from.                             *)
THEOREM WholeMemory == Spec => []GivenBackWhole
<1>1. LayoutInv => GivenBackWhole
  BY DEF LayoutInv, Open, Packed, GivenBackWhole
<1> QED
  BY <1>1, Inductive, PTL

(* What is allocated is what the index refers to: no leak, no dangling     *)
(* chunk.                                                                  *)
THEOREM NoLeak == Spec => []Accounted
<1>1. LayoutInv => Accounted
  <2> SUFFICES ASSUME LayoutInv PROVE Accounted
    OBVIOUS
  <2>1. CASE Open(index)
    BY <2>1 DEF Open, Accounted, Referred, NotFree
  <2>2. CASE Packed(index)
    <3>1. Chks(index) = {}
      BY <2>2 DEF Packed, Chks, LastNo
    <3> QED
      BY <2>2, <3>1 DEF Packed, Accounted, Referred, NotFree
  <2> QED
    BY <2>1, <2>2 DEF LayoutInv
<1> QED
  BY <1>1, Inductive, PTL

(* _chk_addr has room for the chunks, also for those of an image.          *)
THEOREM RoomForAll == Spec => []AddrFits
<1>1. LayoutInv => AddrFits
  <2> SUFFICES ASSUME LayoutInv PROVE AddrFits
    OBVIOUS
  <2>1. index.addr_size \in Nat
    BY IndexFields DEF LayoutInv, Open, Packed
  <2>2. CASE Open(index)
    BY <2>1, <2>2 DEF Open, AddrFits
  <2>3. CASE Packed(index)
    BY <2>1, <2>3 DEF Packed, AddrFits
  <2> QED
    BY <2>2, <2>3 DEF LayoutInv
<1> QED
  BY <1>1, Inductive, PTL

(* is_continuous_chunk, which compares two numbers, knows the layout.      *)
THEOREM LayoutTold == Spec => []LayoutKnown
<1>1. LayoutInv => LayoutKnown
  <2> SUFFICES ASSUME LayoutInv PROVE LayoutKnown
    OBVIOUS
  <2> DEFINE x == index
  <2>1. x.chk_num \in Nat
    BY IndexFields DEF LayoutInv, Open, Packed
  <2>2. CASE x.chk_num > 1
    <3>1. Open(x) /\ x.chk_num > 0
      <4>1. x.chk_num > 0 /\ x.chk_num # 0
        BY <2>1, <2>2
      <4>2. Packed(x) => x.chk_num = 0
        BY Zenon DEF Packed
      <4> QED
        BY <4>1, <4>2, Zenon DEF LayoutInv
    <3>2. PICK p \in 1 .. x.chk_num : Laid(x, p)
      BY <3>1, LayoutOf
    <3>3. Continuous(x) <=> p = x.chk_num
      BY <2>2, <3>1, <3>2, ContinuousIs
    <3>4. Chks(x) = 0 .. x.chk_num - 1 /\ 0 \in Chks(x)
      BY <3>1, MarksLen
    <3>5. ASSUME p = x.chk_num, NEW n \in Chks(x)
          PROVE  x.chk[n].id = x.chk[0].id
      <4>1. n < p
        BY <2>1, <3>4, <3>5
      <4> QED
        BY <3>2, <4>1 DEF Laid, Within
    <3>6. ASSUME p # x.chk_num
          PROVE  \E n \in Chks(x) : x.chk[n].id # x.chk[0].id
      <4>1. p \in Chks(x) /\ p # 0 /\ ~ (p < p)
        BY <2>1, <3>4, <3>6
      <4> QED
        BY <3>2, <3>4, <4>1 DEF Laid
    <3> QED
      BY <2>2, <3>3, <3>5, <3>6 DEF LayoutKnown
  <2>3. CASE ~ (x.chk_num > 1)
    BY <2>3 DEF LayoutKnown, Continuous
  <2> QED
    BY <2>2, <2>3
<1> QED
  BY <1>1, Inductive, PTL

(* _total_capacity is the sum of the capacities, through every enlarge,    *)
(* shrink, compress and cut.                                               *)
THEOREM TotalKept == Spec => []TotalIsSum
<1>1. LayoutInv => TotalIsSum
  <2> SUFFICES ASSUME LayoutInv PROVE TotalIsSum
    OBVIOUS
  <2>1. SumTo(index.chk, index.chk_num)
          = MapThenSumSet(LAMBDA n : index.chk[n].capacity, Chks(index))
    BY Zenon DEF SumTo, Chks, LastNo
  <2>2. CASE Open(index)
    BY <2>1, <2>2 DEF Open, TotalIsSum
  <2>3. CASE Packed(index)
    <3>1. index.total_capacity = SumTo(index.chk, index.chk_num)
      BY <2>3, SumToNone DEF Packed
    <3> QED
      BY <2>1, <3>1 DEF TotalIsSum
  <2> QED
    BY <2>2, <2>3 DEF LayoutInv
<1> QED
  BY <1>1, Inductive, PTL

---------------------------------------------------------------------------
(* The search for the chunk of an address.  Chunks in the same memory lie  *)
(* apart.                                                                  *)
LEMMA ChksApart ==
  ASSUME NEW x, Open(x), NEW m \in Chks(x), NEW n \in Chks(x), x.chk[m].id = x.chk[n].id,
         m < n
  PROVE  x.chk[m].at + x.chk[m].capacity <= x.chk[n].at
<1>1. x.chk_num \in Nat /\ Chks(x) = 0 .. x.chk_num - 1 /\ x.chk_num > 0
      /\ Sized(x.chk, x.chk_num)
  <2>1. x.chk_num \in Nat /\ Chks(x) = 0 .. x.chk_num - 1
    BY MarksLen
  <2> QED
    BY <2>1, LayoutOf
<1>2. PICK p \in 1 .. x.chk_num : Laid(x, p)
  BY <1>1, LayoutOf
<1>3. m # n
  BY <1>1
<1>4. m < p /\ n < p
  BY <1>2, <1>3 DEF Laid
<1>5. x.chk[m].at = SumTo(x.chk, m) /\ x.chk[n].at = SumTo(x.chk, n)
  BY <1>2, <1>4 DEF Laid, Within
<1> DEFINE c == x.chk
           k == x.chk_num
<1>6. k \in Nat /\ Sized(c, k) /\ n \in 0 .. k /\ m \in 0 .. k - 1
  BY <1>1
<1> HIDE DEF c, k
<1>7. SumTo(c, m) + c[m].capacity <= SumTo(c, n)
  BY <1>6, SumToBefore
<1> QED
  BY <1>5, <1>7 DEF c

(* chk_addr2chk finds the chunk of an address: going back from it, the     *)
(* first header met is that of the chunk it lies in.                       *)
LEMMA Found ==
  ASSUME NEW x, Open(x), NEW n \in Chks(x),
         NEW k \in 1 .. AlignedCapacity(x.chk[n].virgin)
  PROVE  FoundFrom(x, x.chk[n], k) = {n}
<1> DEFINE At(m, i) == /\ x.chk[m].id = x.chk[n].id /\ x.chk[m].at = x.chk[n].at + k - i
                       /\ Reaches(x.chk[m], i)
           back == {i \in 1 .. MaxCapacity : \E m \in Chks(x) : At(m, i)}
<1>1. /\ x.chk_num \in Nat /\ Chks(x) = 0 .. x.chk_num - 1 /\ Chks(x) \subseteq Nat
      /\ \A m \in Chks(x) : /\ x.chk[m].capacity \in Nat /\ x.chk[m].capacity # 0
                            /\ x.chk[m].capacity <= MaxCapacity
                            /\ x.chk[m].virgin <= Units(x.chk[m].capacity)
                            /\ x.chk[m].at \in Nat /\ x.chk[m].virgin \in Nat
  <2>1. x.chk_num \in Nat /\ Chks(x) = 0 .. x.chk_num - 1 /\ x \in ChkIndexes
    BY MarksLen DEF Open
  <2>2. ASSUME NEW m \in Chks(x)
        PROVE  x.chk[m].at \in Nat /\ x.chk[m].virgin \in Nat
               /\ x.chk[m].virgin <= Units(x.chk[m].capacity)
    <3>1. x.chk[m] \in Entries
      BY <2>1, IndexFields
    <3> QED
      BY <2>1, <3>1, EntryFields DEF Open, Headers
  <2>3. Chks(x) \subseteq Nat
    BY <2>1
  <2> QED
    BY <2>1, <2>2, <2>3, HeadersSized DEF Open
<1>2. k \in Nat /\ k >= 1 /\ k <= x.chk[n].capacity
  <2> DEFINE v == x.chk[n].virgin
             c == x.chk[n].capacity
  <2>1. v \in Nat /\ c \in Nat /\ v <= Units(c)
    BY <1>1
  <2> HIDE DEF v, c
  <2>2. AlignedCapacity(v) \in Nat /\ AlignedCapacity(v) <= c
    BY <2>1, Rounded
  <2>3. k \in 1 .. AlignedCapacity(v)
    BY DEF v
  <2> QED
    BY <2>1, <2>2, <2>3 DEF c
<1>3. At(n, k) /\ k \in back
  BY <1>1, <1>2, Positive DEF Reaches
<1>4. ASSUME NEW i \in back
      PROVE  i >= k
  <2>1. PICK m \in Chks(x) : At(m, i)
    OBVIOUS
  <2>2. i \in Nat /\ i >= 1
    BY Positive
  <2> SUFFICES ASSUME i < k PROVE FALSE
    BY <1>2, <2>2
  <2>3. /\ x.chk[m].at \in Nat /\ x.chk[n].at \in Nat
        /\ x.chk[m].capacity \in Nat /\ x.chk[n].capacity \in Nat
    BY <1>1
  <2>4. x.chk[m].id = x.chk[n].id /\ x.chk[m].at = x.chk[n].at + k - i
    BY <2>1
  <2> HIDE DEF At, back
  <2>5. x.chk[m].at > x.chk[n].at
    BY <1>2, <2>2, <2>3, <2>4
  <2>6. CASE m < n
    <3>1. x.chk[m].at + x.chk[m].capacity <= x.chk[n].at
      BY <2>4, <2>6, ChksApart
    <3> QED
      BY <2>3, <2>5, <3>1
  <2>7. CASE n < m
    <3>1. x.chk[n].at + x.chk[n].capacity <= x.chk[m].at
      BY <2>4, <2>7, ChksApart
    <3> QED
      BY <1>2, <2>2, <2>3, <2>4, <3>1
  <2>8. CASE m = n
    BY <2>3, <2>5, <2>8
  <2>9. m \in Nat /\ n \in Nat
    BY <1>1
  <2> QED
    BY <2>6, <2>7, <2>8, <2>9
<1>5. Min(back) = k
  <2> HIDE DEF back
  <2>1. \A i \in back : i \in Nat
    BY Positive DEF back
  <2>2. ASSUME NEW j \in back, \A i \in back : j <= i
        PROVE  j = k
    <3>1. j <= k
      BY <1>3, <2>2
    <3>2. j >= k
      BY <1>4, <2>2
    <3>3. j \in Nat
      BY <2>1, <2>2
    <3> QED
      BY <1>2, <3>1, <3>2, <3>3
  <2>3. \A i \in back : k <= i
    BY <1>2, <1>4, <2>1
  <2> QED
    BY <1>3, <2>2, <2>3 DEF Min
<1>6. ASSUME NEW m \in Chks(x), At(m, k)
      PROVE  m = n
  <2>1. /\ x.chk[m].at \in Nat /\ x.chk[n].at \in Nat /\ m \in Nat /\ n \in Nat
        /\ x.chk[m].capacity \in Nat /\ x.chk[n].capacity \in Nat
        /\ x.chk[m].capacity # 0 /\ x.chk[n].capacity # 0
    BY <1>1
  <2>2. x.chk[m].id = x.chk[n].id /\ x.chk[m].at = x.chk[n].at + k - k
    BY <1>6
  <2> HIDE DEF At, back
  <2>3. x.chk[m].at = x.chk[n].at
    BY <1>2, <2>1, <2>2
  <2>4. CASE m < n
    <3>1. x.chk[m].at + x.chk[m].capacity <= x.chk[n].at
      BY <2>2, <2>4, ChksApart
    <3> QED
      BY <2>1, <2>3, <3>1
  <2>5. CASE n < m
    <3>1. x.chk[n].at + x.chk[n].capacity <= x.chk[m].at
      BY <2>2, <2>5, ChksApart
    <3> QED
      BY <2>1, <2>3, <3>1
  <2> QED
    BY <2>1, <2>4, <2>5
<1>7. FoundFrom(x, x.chk[n], k) = {m \in Chks(x) : back # {} /\ At(m, Min(back))}
  BY Zenon DEF FoundFrom
<1> HIDE DEF back, At
<1> QED
  BY <1>3, <1>5, <1>6, <1>7

(* chk_addr2chk finds the chunk of every address in a block, in every      *)
(* layout.                                                                 *)
THEOREM SearchFinds == Spec => []AddrFindsChk
<1>1. LayoutInv => AddrFindsChk
  <2> SUFFICES ASSUME LayoutInv, NEW n \in Chks(index),
                      NEW k \in 1 .. AlignedCapacity(index.chk[n].virgin)
               PROVE  FoundFrom(index, index.chk[n], k) = {n}
    BY DEF AddrFindsChk
  <2>1. Open(index)
    <3>1. Packed(index) => Chks(index) = {}
      BY DEF Packed, Chks, LastNo
    <3> QED
      BY <3>1 DEF LayoutInv
  <2> QED
    BY <2>1, Found
<1> QED
  BY <1>1, Inductive, PTL

---------------------------------------------------------------------------
(* The index implements ChunkContents: no change of layout loses or moves  *)
(* a mark, and the chunks go away only with the index.                     *)
THEOREM ContentsKept == Spec => KeepsContents
<1>1. marks = Marks(index)
  BY Zenon DEF marks, Marks
<1>2. marks' = Marks(index)'
  BY DEF marks, Marks
<1>3. Init => Contents!Init
  <2> SUFFICES ASSUME Init PROVE Contents!Init
    OBVIOUS
  <2>1. index = EmptyIndex /\ stage = "in use"
    BY DEF Init
  <2>2. Marks(index) = << >>
    BY <2>1, EmptyBare, BareMarks
  <2> QED
    BY <2>1, <2>2, <1>1 DEF Contents!Init
<1>4. ASSUME LayoutInv, [Next]_vars
      PROVE  [Contents!Next]_(Contents!vars)
  <2>1. CASE UNCHANGED vars
    <3>1. marks' = marks /\ stage' = stage
      BY <2>1 DEF vars, marks
    <3> QED
      BY <3>1 DEF Contents!vars
  <2>2. CASE Next
    <3>1. Changes
      BY <1>4, <2>2, Steps
    <3>2. CASE Filled(Marks(index), Marks(index)') /\ stage' = "in use"
      BY <3>2, <1>1, <1>2 DEF Filled, Contents!Next, Contents!Fill, Contents!Last
    <3>3. CASE Extended(Marks(index), Marks(index)') /\ stage' = "in use"
      BY <3>3, <1>1, <1>2 DEF Extended, Contents!Next, Contents!Extend, Contents!Last
    <3>4. CASE Cleared(Marks(index), Marks(index)') /\ stage' = "in use"
      BY <3>4, <1>1, <1>2 DEF Cleared, Contents!Next, Contents!Clear, Contents!Last
    <3>5. CASE Marks(index)' = << >> /\ stage' # "in use"
      BY <3>5, <1>2 DEF Contents!Next, Contents!Empty
    <3>6. CASE Marks(index)' = Marks(index)
      BY <3>6, <1>1, <1>2 DEF Contents!Next
    <3> QED
      BY <3>1, <3>2, <3>3, <3>4, <3>5, <3>6 DEF Changes
  <2> QED
    BY <1>4, <2>1, <2>2
<1> QED
  BY <1>3, <1>4, Inductive, PTL DEF Spec, KeepsContents, Contents!Spec
=============================================================================
