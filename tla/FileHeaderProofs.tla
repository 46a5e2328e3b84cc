---------------------------- MODULE FileHeaderProofs ----------------------------
(***************************************************************************)
(* Proofs about FileHeader: a header reads back as Allocate made it, data  *)
(* as it was written, and the map marks exactly the sectors of the files,  *)
(* for any fan-out, any disk and any sizes that the index has room for.    *)
(***************************************************************************)
EXTENDS FileHeader, Lemmas

--------------------------------------------------------------------------------
(* Division, the only arithmetic of the index.                             *)

(* A number is its quotient and its remainder.                             *)
LEMMA Division ==
    ASSUME NEW n \in Nat, NEW s \in Nat, s > 0
    PROVE  /\ n \div s \in Nat /\ n % s \in 0..(s - 1)
           /\ n = (n \div s) * s + (n % s)
BY SMT

(* ... and no other pair.                                                  *)
LEMMA DivisionUnique ==
    ASSUME NEW q \in Nat, NEW s \in Nat, NEW r \in 0..(s - 1)
    PROVE  (q * s + r) \div s = q /\ (q * s + r) % s = r
BY SMT

(* A row is short of full at most once: what lies below n lies in one of   *)
(* the rows that DivRoundUp counts.                                        *)
LEMMA RoundUp ==
    ASSUME NEW n \in Nat, NEW s \in Nat, s > 0
    PROVE  /\ DivRoundUp(n, s) \in Nat
           /\ \A i \in 0..(n - 1) : i \div s \in 0..(DivRoundUp(n, s) - 1)
           /\ n <= DivRoundUp(n, s) * s
<1> DEFINE m == DivRoundUp(n, s)
<1>1. m \in Nat /\ n + s - 1 \in Nat
  BY SMT DEF DivRoundUp
<1>2. PICK r \in 0..(s - 1) : n + s - 1 = m * s + r
  BY <1>1, Division DEF DivRoundUp
<1> HIDE DEF m
<1>3. m * s \in Nat
  BY <1>1
<1>4. n <= m * s
  BY <1>1, <1>2, <1>3
<1>5. ASSUME NEW i \in 0..(n - 1) PROVE i \div s \in 0..(m - 1)
  <2> DEFINE q == i \div s
  <2>1. q \in Nat /\ i % s \in 0..(s - 1) /\ i = q * s + (i % s)
    BY Division
  <2> HIDE DEF q
  <2>2. q * s < m * s
    BY <2>1, <1>3, <1>4
  <2>3. ~(m <= q)
    <3>1. ASSUME m <= q PROVE m * s <= q * s
      BY <1>1, <2>1, <3>1, SMT
    <3>2. QED BY <3>1, <2>2, <2>1, <1>3
  <2>4. QED BY <2>1, <2>3, <1>1 DEF q
<1>6. QED BY <1>1, <1>4, <1>5 DEF m

--------------------------------------------------------------------------------
(* The sizes and positions of the four levels.                             *)
Used(n, level) == 0..(LevelSizes(n)[level] - 1)

(* Each level has as many rows as the level above has entries, the last of *)
(* them perhaps short, and its arrays have room for them.                  *)
LEMMA Sizing ==
    ASSUME NEW n \in Sizes
    PROVE  /\ \A level \in Levels : LevelSizes(n)[level] \in Nat
           /\ \A level \in Levels : Used(n, level) \subseteq Positions(level)
           /\ \A level \in 1..3 : \A i \in Used(n, level + 1) : i \div Fan \in Used(n, level)
           /\ LevelSizes(n)[4] = n
<1> DEFINE L3 == DivRoundUp(n, Fan)
           L2 == DivRoundUp(L3, Fan)
           L1 == DivRoundUp(L2, Fan)
<1>1. LevelSizes(n) = <<L1, L2, L3, n>>
  BY DEF LevelSizes
<1>2. n \in Nat /\ Fan \in Nat /\ Fan > 0 /\ NumDirect \in Nat /\ L1 <= NumDirect
  BY <1>1, FanAssumption, HeaderAssumption
<1>3. /\ L3 \in Nat /\ n <= L3 * Fan
      /\ \A i \in 0..(n - 1) : i \div Fan \in 0..(L3 - 1)
  BY <1>2, RoundUp
<1> HIDE DEF L3
<1>4. /\ L2 \in Nat /\ L3 <= L2 * Fan
      /\ \A i \in 0..(L3 - 1) : i \div Fan \in 0..(L2 - 1)
  BY <1>2, <1>3, RoundUp
<1> HIDE DEF L2
<1>5. /\ L1 \in Nat /\ L2 <= L1 * Fan
      /\ \A i \in 0..(L2 - 1) : i \div Fan \in 0..(L1 - 1)
  BY <1>2, <1>4, RoundUp
<1> HIDE DEF L1
<1>6. /\ LevelSizes(n)[1] = L1 /\ LevelSizes(n)[2] = L2
      /\ LevelSizes(n)[3] = L3 /\ LevelSizes(n)[4] = n
  BY <1>1
<1>7. \A level \in Levels : LevelSizes(n)[level] \in Nat
  BY <1>2, <1>3, <1>4, <1>5, <1>6 DEF Levels
<1>8. ASSUME NEW a \in Nat, NEW b \in Nat, a <= b PROVE a * Fan <= b * Fan
  BY <1>8, <1>2, SMT
<1> DEFINE W2 == NumDirect * Fan
           W3 == W2 * Fan
           W4 == W3 * Fan
<1>9. W2 \in Nat /\ L2 <= W2
  <2>1. W2 \in Nat /\ L1 * Fan \in Nat
    BY <1>2, <1>5
  <2>2. L1 * Fan <= W2
    BY <1>2, <1>5, <1>8
  <2>3. QED BY <2>1, <2>2, <1>4, <1>5
<1>10. W3 \in Nat /\ L3 <= W3
  <2> HIDE DEF W2
  <2>1. W3 \in Nat /\ L2 * Fan \in Nat
    BY <1>2, <1>4, <1>9
  <2>2. L2 * Fan <= W3
    BY <1>4, <1>8, <1>9
  <2>3. QED BY <2>1, <2>2, <1>3, <1>4
<1>11. W4 \in Nat /\ n <= W4
  <2> HIDE DEF W3
  <2>1. W4 \in Nat /\ L3 * Fan \in Nat
    BY <1>2, <1>3, <1>10
  <2>2. L3 * Fan <= W4
    BY <1>3, <1>8, <1>10
  <2>3. QED BY <2>1, <2>2, <1>2, <1>3
<1>12. /\ Positions(1) = 0..(NumDirect - 1) /\ Positions(2) = 0..(W2 - 1)
       /\ Positions(3) = 0..(W3 - 1) /\ Positions(4) = 0..(W4 - 1)
  BY DEF Positions
<1> HIDE DEF W2, W3, W4
<1>13. ASSUME NEW level \in Levels PROVE Used(n, level) \subseteq Positions(level)
  BY <1>2, <1>3, <1>4, <1>5, <1>6, <1>9, <1>10, <1>11, <1>12 DEF Levels, Used
<1>14. ASSUME NEW level \in 1..3, NEW i \in Used(n, level + 1)
       PROVE  i \div Fan \in Used(n, level)
  <2>1. CASE level = 1
    BY <2>1, <1>5, <1>6, <1>14 DEF Used
  <2>2. CASE level = 2
    BY <2>2, <1>4, <1>6, <1>14 DEF Used
  <2>3. CASE level = 3
    BY <2>3, <1>3, <1>6, <1>14 DEF Used
  <2>4. QED BY <2>1, <2>2, <2>3
<1>15. QED BY <1>6, <1>7, <1>13, <1>14

(* The requests of Allocate, counted through the levels.                   *)
Before(n, level) ==
    LET size == LevelSizes(n)
    IN  <<0, size[1], size[1] + size[2], size[1] + size[2] + size[3]>>[level]

(* Each request has a number of its own, below the number of sectors the   *)
(* file needs.                                                             *)
LEMMA Requests ==
    ASSUME NEW n \in Sizes
    PROVE  /\ SectorsNeeded(n) \in Nat
           /\ \A level \in Levels : \A i \in Used(n, level) :
                 Before(n, level) + i \in 0..(SectorsNeeded(n) - 1)
           /\ \A l, m \in Levels : \A i \in Used(n, l) : \A j \in Used(n, m) :
                 Before(n, l) + i = Before(n, m) + j => l = m /\ i = j
<1> DEFINE size == LevelSizes(n)
<1>1. size[1] \in Nat /\ size[2] \in Nat /\ size[3] \in Nat /\ size[4] \in Nat
  BY Sizing DEF Levels
<1>2. SectorsNeeded(n) = size[1] + size[2] + size[3] + size[4]
  BY DEF SectorsNeeded
<1>3. /\ Before(n, 1) = 0 /\ Before(n, 2) = size[1]
      /\ Before(n, 3) = size[1] + size[2] /\ Before(n, 4) = size[1] + size[2] + size[3]
  BY DEF Before
<1>4. \A level \in Levels : Used(n, level) = 0..(size[level] - 1)
  BY DEF Used
<1> HIDE DEF size
<1>5. ASSUME NEW level \in Levels
      PROVE  /\ Before(n, level) \in Nat /\ size[level] \in Nat
             /\ Before(n, level) + size[level] <= SectorsNeeded(n)
  <2>1. CASE level = 1
    BY <2>1, <1>1, <1>2, <1>3
  <2>2. CASE level = 2
    BY <2>2, <1>1, <1>2, <1>3
  <2>3. CASE level = 3
    BY <2>3, <1>1, <1>2, <1>3
  <2>4. CASE level = 4
    BY <2>4, <1>1, <1>2, <1>3
  <2>5. QED BY <2>1, <2>2, <2>3, <2>4 DEF Levels
<1>6. ASSUME NEW l \in Levels, NEW m \in Levels, l < m
      PROVE  Before(n, l) + size[l] <= Before(n, m)
  <2>1. CASE l = 1
    BY <2>1, <1>1, <1>3, <1>6 DEF Levels
  <2>2. CASE l = 2
    BY <2>2, <1>1, <1>3, <1>6 DEF Levels
  <2>3. CASE l = 3
    BY <2>3, <1>1, <1>3, <1>6 DEF Levels
  <2>4. QED BY <2>1, <2>2, <2>3, <1>6 DEF Levels
<1>7. ASSUME NEW level \in Levels, NEW i \in Used(n, level)
      PROVE  Before(n, level) + i \in 0..(SectorsNeeded(n) - 1)
  <2>1. SectorsNeeded(n) \in Nat /\ size[level] \in Nat
    BY <1>1, <1>2, <1>5
  <2>2. i \in 0..(size[level] - 1)
    BY <1>4
  <2>3. QED BY <2>1, <2>2, <1>5
<1>8. ASSUME NEW l \in Levels, NEW m \in Levels, NEW i \in Used(n, l), NEW j \in Used(n, m),
             l < m
      PROVE  Before(n, l) + i < Before(n, m) + j
  <2>1. i \in Nat /\ i < size[l] /\ j \in Nat
    BY <1>4, <1>5
  <2>2. Before(n, l) \in Nat /\ Before(n, m) \in Nat /\ size[l] \in Nat
    BY <1>5
  <2>3. Before(n, l) + size[l] <= Before(n, m)
    BY <1>6, <1>8
  <2>4. QED BY <2>1, <2>2, <2>3
<1>9. ASSUME NEW l \in Levels, NEW m \in Levels, NEW i \in Used(n, l), NEW j \in Used(n, m),
             Before(n, l) + i = Before(n, m) + j
      PROVE  l = m /\ i = j
  <2>1. Before(n, l) \in Nat /\ Before(n, m) \in Nat /\ i \in Nat /\ j \in Nat
    BY <1>4, <1>5
  <2>2. ~(l < m) /\ ~(m < l)
    <3>1. ASSUME l < m PROVE FALSE
      BY <3>1, <1>8, <1>9, <2>1
    <3>2. ASSUME m < l PROVE FALSE
      BY <3>2, <1>8, <1>9, <2>1
    <3>3. QED BY <3>1, <3>2
  <2>3. l = m
    BY <2>2 DEF Levels
  <2>4. i = j
    BY <2>1, <2>3, <1>9
  <2>5. QED BY <2>3, <2>4
<1>10. QED BY <1>1, <1>2, <1>7, <1>9

(* The kth clear sector is a clear sector, and there is one below it for   *)
(* each lower number.                                                      *)
LEMMA NthClearFound ==
    ASSUME NEW clear, clear \subseteq Sectors, NEW k \in Nat, k < Cardinality(clear)
    PROVE  NthClear(k, clear) \in clear /\ Cardinality(LessThan(clear, NthClear(k, clear))) = k
<1>1. clear \subseteq Nat /\ IsFiniteSet(clear)
  <2>1. IsFiniteSet(Sectors) /\ Sectors \subseteq Nat
    BY FS_Interval, HeaderAssumption DEF Sectors
  <2>2. QED BY <2>1, FS_Subset
<1>2. \E s \in clear : Cardinality(LessThan(clear, s)) = k
  BY <1>1, NthExists
<1>3. NthClear(k, clear) = CHOOSE s \in clear : Cardinality(LessThan(clear, s)) = k
  BY DEF NthClear, LessThan
<1>4. QED BY <1>2, <1>3, Zenon

--------------------------------------------------------------------------------
(* A header in memory: what it says of its sectors.                        *)
InRange(hdr) == \A level \in Levels : \A i \in Used(hdr.n, level) : hdr.at[level][i] \in Sectors

Distinct(hdr) ==
    \A l, m \in Levels : \A i \in Used(hdr.n, l) : \A j \in Used(hdr.n, m) :
        hdr.at[l][i] = hdr.at[m][j] => l = m /\ i = j

Sound(hdr) == hdr.n \in Sizes /\ InRange(hdr) /\ Distinct(hdr)

(* The sectors it names, one by one.                                       *)
LEMMA NamedSectors ==
    ASSUME NEW hdr
    PROVE  /\ \A level \in Levels : \A i \in Used(hdr.n, level) : hdr.at[level][i] \in SectorsOf(hdr)
           /\ \A s \in SectorsOf(hdr) :
                 \E level \in Levels : \E i \in Used(hdr.n, level) : s = hdr.at[level][i]
<1> DEFINE Named(level) == {hdr.at[level][i] : i \in Used(hdr.n, level)}
<1>1. SectorsOf(hdr) = UNION {Named(level) : level \in Levels}
  BY DEF SectorsOf, Used
<1>2. ASSUME NEW level \in Levels, NEW i \in Used(hdr.n, level)
      PROVE  hdr.at[level][i] \in SectorsOf(hdr)
  <2>1. hdr.at[level][i] \in Named(level)
    OBVIOUS
  <2> HIDE DEF Named
  <2>2. QED BY <2>1, <1>1
<1>3. ASSUME NEW s \in SectorsOf(hdr)
      PROVE  \E level \in Levels : \E i \in Used(hdr.n, level) : s = hdr.at[level][i]
  <2>1. \E level \in Levels : s \in Named(level)
    <3> HIDE DEF Named
    <3> QED BY <1>1
  <2>2. QED BY <2>1
<1>4. QED BY <1>2, <1>3

(* Allocate makes a sound header of clear sectors.                         *)
LEMMA AllocateSound ==
    ASSUME NEW n \in Sizes, NEW clear, clear \subseteq Sectors,
           SectorsNeeded(n) <= Cardinality(clear)
    PROVE  /\ Allocate(n, clear).n = n
           /\ Sound(Allocate(n, clear))
           /\ SectorsOf(Allocate(n, clear)) \subseteq clear
<1> DEFINE hdr == Allocate(n, clear)
<1>1. hdr.n = n
  BY DEF Allocate
<1>2. ASSUME NEW level \in Levels, NEW i \in Used(n, level)
      PROVE  hdr.at[level][i] = NthClear(Before(n, level) + i, clear)
  <2>1. i \in Positions(level) /\ i < LevelSizes(n)[level]
    BY <1>2, Sizing DEF Used
  <2>2. QED BY <2>1 DEF Allocate, Before
<1> HIDE DEF hdr
<1>3. IsFiniteSet(clear) /\ clear \subseteq Nat /\ Cardinality(clear) \in Nat
  <2>1. IsFiniteSet(Sectors) /\ Sectors \subseteq Nat
    BY FS_Interval, HeaderAssumption DEF Sectors
  <2>2. QED BY <2>1, FS_Subset, FS_CardinalityType
<1>4. ASSUME NEW level \in Levels, NEW i \in Used(n, level)
      PROVE  /\ hdr.at[level][i] \in clear
             /\ Cardinality(LessThan(clear, hdr.at[level][i])) = Before(n, level) + i
  <2>1. Before(n, level) + i \in Nat /\ Before(n, level) + i < Cardinality(clear)
    BY Requests, <1>3
  <2>2. QED BY <2>1, <1>2, NthClearFound
<1>5. InRange(hdr)
  BY <1>1, <1>4, Zenon DEF InRange
<1>6. Distinct(hdr)
  <2> SUFFICES ASSUME NEW l \in Levels, NEW m \in Levels,
                      NEW i \in Used(n, l), NEW j \in Used(n, m), hdr.at[l][i] = hdr.at[m][j]
               PROVE  l = m /\ i = j
    BY <1>1, Zenon DEF Distinct
  <2>1. Before(n, l) + i = Before(n, m) + j
    BY <1>4, Zenon
  <2>2. QED BY <2>1, Requests
<1>7. SectorsOf(hdr) \subseteq clear
  <2>1. \A s \in SectorsOf(hdr) :
           \E level \in Levels : \E i \in Used(n, level) : s = hdr.at[level][i]
    BY <1>1, NamedSectors
  <2>2. QED BY <2>1, <1>4, Zenon
<1>8. QED BY <1>1, <1>5, <1>6, <1>7 DEF hdr, Sound

(* The sectors of one level are as many as its size.                       *)
OfLevel(hdr, level) == {hdr.at[level][i] : i \in Used(hdr.n, level)}

LEMMA LevelCount ==
    ASSUME NEW hdr, Sound(hdr), NEW level \in Levels
    PROVE  /\ IsFiniteSet(OfLevel(hdr, level))
           /\ Cardinality(OfLevel(hdr, level)) = LevelSizes(hdr.n)[level]
<1> DEFINE size == LevelSizes(hdr.n)[level]
           S == Used(hdr.n, level)
           T == OfLevel(hdr, level)
           f == [i \in S |-> hdr.at[level][i]]
<1>1. size \in Nat
  BY Sizing DEF Sound
<1>2. IsFiniteSet(S) /\ Cardinality(S) = size
  <2>1. IsFiniteSet(0..(size - 1)) /\ Cardinality(0..(size - 1)) = size
    <3> HIDE DEF size
    <3> QED BY <1>1, FS_Interval
  <2>2. QED BY <2>1 DEF Used
<1>3. f \in Surjection(S, T)
  BY DEF Surjection, OfLevel
<1>4. f \in Injection(S, T)
  <2>1. \A i, j \in S : hdr.at[level][i] = hdr.at[level][j] => i = j
    BY DEF Sound, Distinct
  <2>2. f \in [S -> T]
    BY DEF OfLevel
  <2>3. \A i, j \in S : f[i] = f[j] => i = j
    BY <2>1
  <2> HIDE DEF f
  <2>4. QED BY <2>2, <2>3 DEF Injection, IsInjective
<1> HIDE DEF f, S, T
<1>5. IsFiniteSet(T) /\ Cardinality(T) = Cardinality(S)
  BY <1>2, <1>3, <1>4, FS_Surjection
<1>6. QED BY <1>2, <1>5 DEF T

(* Disjoint sets count together.                                           *)
LEMMA DisjointCount ==
    ASSUME NEW S, NEW T, IsFiniteSet(S), IsFiniteSet(T), S \cap T = {}
    PROVE  IsFiniteSet(S \cup T) /\ Cardinality(S \cup T) = Cardinality(S) + Cardinality(T)
<1>1. /\ IsFiniteSet(S \cup T) /\ Cardinality({}) = 0
      /\ Cardinality(S \cup T) = Cardinality(S) + Cardinality(T) - Cardinality(S \cap T)
  BY FS_Union, FS_EmptySet
<1>2. Cardinality(S) \in Nat /\ Cardinality(T) \in Nat
  BY FS_CardinalityType
<1>3. Cardinality(S \cap T) = 0
  BY <1>1, Zenon
<1>4. QED BY <1>1, <1>2, <1>3

(* A sound header and its own sector are as many sectors as the size calls *)
(* for.                                                                    *)
LEMMA SoundCount ==
    ASSUME NEW hdr, Sound(hdr), NEW sector, sector \notin SectorsOf(hdr)
    PROVE  Cardinality({sector} \cup SectorsOf(hdr)) = 1 + SectorsNeeded(hdr.n)
<1> DEFINE T1 == OfLevel(hdr, 1)
           T2 == OfLevel(hdr, 2)
           T3 == OfLevel(hdr, 3)
           T4 == OfLevel(hdr, 4)
           size == LevelSizes(hdr.n)
<1>1. ASSUME NEW l \in Levels, NEW m \in Levels, l # m
      PROVE  OfLevel(hdr, l) \cap OfLevel(hdr, m) = {}
  BY <1>1 DEF OfLevel, Sound, Distinct
<1>2. SectorsOf(hdr) = ((T1 \cup T2) \cup T3) \cup T4
  <2>1. \A s : s \in SectorsOf(hdr) <=> \E level \in Levels : s \in OfLevel(hdr, level)
    BY NamedSectors DEF OfLevel
  <2>2. \A s : s \in SectorsOf(hdr) <=> s \in T1 \/ s \in T2 \/ s \in T3 \/ s \in T4
    <3> HIDE DEF T1, T2, T3, T4
    <3> QED BY <2>1 DEF Levels, T1, T2, T3, T4
  <2>3. QED BY <2>2
<1>3. 1 \in Levels /\ 2 \in Levels /\ 3 \in Levels /\ 4 \in Levels
  BY DEF Levels
<1>4. /\ IsFiniteSet(T1) /\ IsFiniteSet(T2) /\ IsFiniteSet(T3) /\ IsFiniteSet(T4)
      /\ Cardinality(T1) = size[1] /\ Cardinality(T2) = size[2]
      /\ Cardinality(T3) = size[3] /\ Cardinality(T4) = size[4]
  BY <1>3, LevelCount
<1>5. /\ T1 \cap T2 = {} /\ T1 \cap T3 = {} /\ T1 \cap T4 = {}
      /\ T2 \cap T3 = {} /\ T2 \cap T4 = {} /\ T3 \cap T4 = {}
  BY <1>1, <1>3
<1>6. size[1] \in Nat /\ size[2] \in Nat /\ size[3] \in Nat /\ size[4] \in Nat
  BY <1>3, Sizing DEF Sound
<1>7. SectorsNeeded(hdr.n) = size[1] + size[2] + size[3] + size[4]
  BY DEF SectorsNeeded
<1> HIDE DEF T1, T2, T3, T4, size
<1>8. IsFiniteSet(T1 \cup T2) /\ Cardinality(T1 \cup T2) = size[1] + size[2]
  BY <1>4, <1>5, DisjointCount
<1>9. /\ IsFiniteSet((T1 \cup T2) \cup T3)
      /\ Cardinality((T1 \cup T2) \cup T3) = size[1] + size[2] + size[3]
  <2>1. (T1 \cup T2) \cap T3 = {}
    BY <1>5
  <2>2. QED BY <2>1, <1>4, <1>8, DisjointCount
<1>10. IsFiniteSet(SectorsOf(hdr)) /\ Cardinality(SectorsOf(hdr)) = SectorsNeeded(hdr.n)
  <2>1. ((T1 \cup T2) \cup T3) \cap T4 = {}
    BY <1>5
  <2>2. QED BY <2>1, <1>2, <1>4, <1>7, <1>9, DisjointCount
<1>11. SectorsNeeded(hdr.n) \in Nat
  BY <1>6, <1>7
<1>12. SectorsOf(hdr) \cup {sector} = {sector} \cup SectorsOf(hdr)
  OBVIOUS
<1>13. Cardinality(SectorsOf(hdr) \cup {sector}) = Cardinality(SectorsOf(hdr)) + 1
  BY <1>10, FS_AddElement
<1>14. Cardinality({sector} \cup SectorsOf(hdr)) = SectorsNeeded(hdr.n) + 1
  BY <1>10, <1>12, <1>13, Zenon
<1>15. QED BY <1>11, <1>14

--------------------------------------------------------------------------------
(* A header on the disk: each row is where the level above says.           *)
Stored(hdr, sector, contents) ==
    /\ contents[sector] = [n |-> hdr.n, row |-> Row(hdr, 1, 0)]
    /\ \A level \in 1..3 : \A r \in Used(hdr.n, level) :
          contents[hdr.at[level][r]] = [n |-> 0, row |-> Row(hdr, level + 1, r)]

(* WriteBack stores the header and touches nothing else.                   *)
LEMMA WriteBackStores ==
    ASSUME NEW hdr, Sound(hdr), NEW sector \in Sectors, sector \notin SectorsOf(hdr),
           NEW contents
    PROVE  /\ Stored(hdr, sector, WriteBack(sector, hdr, contents))
           /\ \A s \in Sectors : s \notin {sector} \cup SectorsOf(hdr) =>
                 WriteBack(sector, hdr, contents)[s] = contents[s]
<1> DEFINE W == WriteBack(sector, hdr, contents)
           Holds(s, level) == \E r \in Used(hdr.n, level) : hdr.at[level][r] = s
           LevelOf(s) == CHOOSE l \in 1..3 : Holds(s, l)
           RowOf(s, level) == CHOOSE r \in Used(hdr.n, level) : hdr.at[level][r] = s
<1>1. \A s \in Sectors : W[s] =
        IF s = sector THEN [n |-> hdr.n, row |-> Row(hdr, 1, 0)]
        ELSE IF \E level \in 1..3 : Holds(s, level)
        THEN [n |-> 0, row |-> Row(hdr, LevelOf(s) + 1, RowOf(s, LevelOf(s)))]
        ELSE contents[s]
  BY Zenon DEF WriteBack, Used
<1> HIDE DEF W
<1>2. 1..3 \subseteq Levels
  BY DEF Levels
<1>3. ASSUME NEW level \in 1..3, NEW r \in Used(hdr.n, level)
      PROVE  W[hdr.at[level][r]] = [n |-> 0, row |-> Row(hdr, level + 1, r)]
  <2> DEFINE s == hdr.at[level][r]
  <2>1. s \in Sectors /\ s \in SectorsOf(hdr)
    BY <1>2, NamedSectors, Zenon DEF Sound, InRange
  <2>2. s # sector
    BY <2>1
  <2>3. Holds(s, level)
    BY Zenon
  <2>4. \A l \in 1..3 : \A q \in Used(hdr.n, l) : hdr.at[l][q] = s => l = level /\ q = r
    BY <1>2, Zenon DEF Sound, Distinct
  <2>5. LevelOf(s) = level
    BY <2>3, <2>4, Zenon
  <2>6. RowOf(s, level) = r
    BY <2>4, Zenon
  <2>7. W[s] = [n |-> 0, row |-> Row(hdr, LevelOf(s) + 1, RowOf(s, LevelOf(s)))]
    BY <1>1, <2>1, <2>2, <2>3, Zenon
  <2> HIDE DEF LevelOf, RowOf
  <2>8. QED BY <2>5, <2>6, <2>7
<1>4. ASSUME NEW s \in Sectors, s \notin {sector} \cup SectorsOf(hdr)
      PROVE  W[s] = contents[s]
  <2>1. \A level \in Levels : \A r \in Used(hdr.n, level) : hdr.at[level][r] # s
    BY <1>4, NamedSectors
  <2>2. ~(\E level \in 1..3 : Holds(s, level))
    BY <1>2, <2>1, Zenon
  <2>3. QED BY <1>1, <1>4, <2>2, Zenon
<1>5. W[sector] = [n |-> hdr.n, row |-> Row(hdr, 1, 0)]
  BY <1>1
<1>6. QED BY <1>3, <1>4, <1>5, Zenon DEF Stored, W

(* One level of FetchFrom: right above, right here.                        *)
LEMMA RowsReadBack ==
    ASSUME NEW hdr, Sound(hdr), NEW sector, NEW contents, Stored(hdr, sector, contents),
           NEW level \in 1..3, NEW above,
           \A r \in Used(hdr.n, level) : above[r] = hdr.at[level][r],
           NEW i \in Used(hdr.n, level + 1)
    PROVE  /\ i \div Fan < LevelSizes(hdr.n)[level]
           /\ contents[above[i \div Fan]].row[i % Fan] = hdr.at[level + 1][i]
<1> DEFINE r == i \div Fan
           k == i % Fan
<1>1. level \in Levels /\ level + 1 \in Levels /\ level + 1 # 1
  BY DEF Levels
<1>2. /\ r \in Used(hdr.n, level) /\ LevelSizes(hdr.n)[level] \in Nat
      /\ LevelSizes(hdr.n)[level + 1] \in Nat
  BY <1>1, Sizing DEF Sound
<1>3. k \in 0..(Fan - 1) /\ i = r * Fan + k
  <2>1. i \in Nat /\ Fan \in Nat /\ Fan > 0
    BY <1>2, FanAssumption DEF Used
  <2>2. QED BY <2>1, Division
<1> HIDE DEF r, k
<1>4. contents[above[r]] = [n |-> 0, row |-> Row(hdr, level + 1, r)]
  BY <1>2 DEF Stored
<1>5. Row(hdr, level + 1, r)[k] = hdr.at[level + 1][i]
  BY <1>1, <1>3 DEF Row, RowLength
<1>6. r < LevelSizes(hdr.n)[level]
  BY <1>2 DEF Used
<1>7. QED BY <1>4, <1>5, <1>6 DEF r, k

(* FetchFrom gives the header that was stored, wherever it is in use.      *)
SameHeader(g, h) ==
    g.n = h.n /\ \A level \in Levels : \A i \in Used(h.n, level) : g.at[level][i] = h.at[level][i]

LEMMA FetchFromReads ==
    ASSUME NEW hdr, Sound(hdr), NEW sector, NEW contents, Stored(hdr, sector, contents)
    PROVE  SameHeader(FetchFrom(sector, contents), hdr)
<1> DEFINE n == contents[sector].n
           NextLevel(level, above) ==
               [i \in Positions(level) |->
                   IF i \div Fan < LevelSizes(n)[level - 1]
                   THEN contents[above[i \div Fan]].row[i % Fan] ELSE NoSector]
           L1 == [i \in Positions(1) |-> contents[sector].row[i]]
           L2 == NextLevel(2, L1)
           L3 == NextLevel(3, L2)
           L4 == NextLevel(4, L3)
           hdr2 == FetchFrom(sector, contents)
<1>1. hdr2 = [n |-> n, at |-> <<L1, L2, L3, L4>>]
  BY DEF FetchFrom
<1>2. /\ hdr2.n = n /\ hdr2.at[1] = L1 /\ hdr2.at[2] = L2 /\ hdr2.at[3] = L3
      /\ hdr2.at[4] = L4
  <2> HIDE DEF n, L1, L2, L3, L4, hdr2
  <2> QED BY <1>1
<1>3. n = hdr.n
  BY DEF Stored
<1> HIDE DEF n, hdr2
<1>4. \A i \in Used(hdr.n, 1) : L1[i] = hdr.at[1][i]
  <2> SUFFICES ASSUME NEW i \in Used(hdr.n, 1) PROVE L1[i] = hdr.at[1][i]
    OBVIOUS
  <2>1. i \in Positions(1)
    BY Sizing DEF Sound, Levels
  <2>2. Positions(1) = 0..(NumDirect - 1)
    BY DEF Positions
  <2>3. Row(hdr, 1, 0)[i] = hdr.at[1][0 * NumDirect + i]
    BY <2>1, <2>2 DEF Row, RowLength
  <2>4. 0 * NumDirect + i = i
    BY <2>1, <2>2, HeaderAssumption
  <2>5. contents[sector].row = Row(hdr, 1, 0)
    BY DEF Stored
  <2>6. QED BY <2>1, <2>3, <2>4, <2>5
<1>5. ASSUME NEW level \in 2..4, NEW above,
             \A r \in Used(hdr.n, level - 1) : above[r] = hdr.at[level - 1][r]
      PROVE  \A i \in Used(hdr.n, level) : NextLevel(level, above)[i] = hdr.at[level][i]
  <2> SUFFICES ASSUME NEW i \in Used(hdr.n, level) PROVE NextLevel(level, above)[i] = hdr.at[level][i]
    OBVIOUS
  <2>1. level - 1 \in 1..3 /\ (level - 1) + 1 = level /\ level \in Levels
    BY DEF Levels
  <2>2. i \in Positions(level)
    BY <2>1, Sizing DEF Sound
  <2>3. /\ i \div Fan < LevelSizes(hdr.n)[level - 1]
        /\ contents[above[i \div Fan]].row[i % Fan] = hdr.at[level][i]
    BY <1>5, <2>1, RowsReadBack
  <2>4. QED BY <1>3, <2>2, <2>3
<1> HIDE DEF L1
<1>6. \A i \in Used(hdr.n, 2) : L2[i] = hdr.at[2][i]
  <2>1. 2 \in 2..4 /\ 2 - 1 = 1
    OBVIOUS
  <2> HIDE DEF NextLevel
  <2>2. QED BY <2>1, <1>4, <1>5
<1> HIDE DEF L2
<1>7. \A i \in Used(hdr.n, 3) : L3[i] = hdr.at[3][i]
  <2>1. 3 \in 2..4 /\ 3 - 1 = 2
    OBVIOUS
  <2> HIDE DEF NextLevel
  <2>2. QED BY <2>1, <1>5, <1>6
<1> HIDE DEF L3
<1>8. \A i \in Used(hdr.n, 4) : L4[i] = hdr.at[4][i]
  <2>1. 4 \in 2..4 /\ 4 - 1 = 3
    OBVIOUS
  <2> HIDE DEF NextLevel
  <2>2. QED BY <2>1, <1>5, <1>7
<1> HIDE DEF L4
<1>9. \A level \in Levels : level = 1 \/ level = 2 \/ level = 3 \/ level = 4
  BY DEF Levels
<1>10. \A level \in Levels : \A i \in Used(hdr.n, level) : hdr2.at[level][i] = hdr.at[level][i]
  BY <1>2, <1>4, <1>6, <1>7, <1>8, <1>9, Zenon
<1>11. QED BY <1>2, <1>3, <1>10, Zenon DEF SameHeader, hdr2

(* ByteToSector finds the kth data sector of a file at position k.         *)
LEMMA ByteToSectorIsPosition ==
    ASSUME NEW hdr, NEW k \in Nat
    PROVE  ByteToSector(hdr, k) = hdr.at[4][k]
<1> DEFINE q1 == k \div Fan
           q2 == q1 \div Fan
           q3 == q2 \div Fan
<1>1. Fan \in Nat /\ Fan > 0
  BY FanAssumption
<1>2. q1 \in Nat /\ k % Fan \in 0..(Fan - 1) /\ k = q1 * Fan + (k % Fan)
  BY <1>1, Division
<1> HIDE DEF q1
<1>3. q2 \in Nat /\ q1 % Fan \in 0..(Fan - 1) /\ q1 = q2 * Fan + (q1 % Fan)
  BY <1>1, <1>2, Division
<1> HIDE DEF q2
<1>4. q3 \in Nat /\ q2 % Fan \in 0..(Fan - 1) /\ q2 = q3 * Fan + (q2 % Fan)
  BY <1>1, <1>3, Division
<1> HIDE DEF q3
<1>5. ASSUME NEW q \in Nat, NEW a \in 0..(Fan - 1), NEW s \in Nat, s > 0, NEW b \in 0..(s - 1)
      PROVE  /\ Fan * s \in Nat /\ Fan * s > 0 /\ a * s + b \in 0..(Fan * s - 1)
             /\ q * (Fan * s) + (a * s + b) = (q * Fan + a) * s + b
  <2>1. Fan * s \in Nat /\ Fan * s > 0 /\ a * s \in Nat
    BY <1>1, <1>5, SMT
  <2>2. a * s + s <= Fan * s
    BY <1>1, <1>5, SMT
  <2>3. QED BY <1>1, <1>5, <2>1, <2>2, SMT
<1>6. k \div (Fan * Fan) = q2
  <2> DEFINE rest == (q1 % Fan) * Fan + (k % Fan)
  <2>1. /\ Fan * Fan \in Nat /\ Fan * Fan > 0 /\ rest \in 0..(Fan * Fan - 1)
        /\ q2 * (Fan * Fan) + rest = (q2 * Fan + (q1 % Fan)) * Fan + (k % Fan)
    BY <1>1, <1>2, <1>3, <1>5
  <2> HIDE DEF rest
  <2>2. k = q2 * (Fan * Fan) + rest
    BY <1>2, <1>3, <2>1
  <2>3. QED BY <1>3, <2>1, <2>2, DivisionUnique
<1>7. k \div (Fan * Fan * Fan) = q3
  <2> DEFINE F2 == Fan * Fan
             rest2 == (q1 % Fan) * Fan + (k % Fan)
             rest == (q2 % Fan) * F2 + rest2
  <2>1. /\ F2 \in Nat /\ F2 > 0 /\ rest2 \in 0..(F2 - 1)
        /\ q2 * F2 + rest2 = (q2 * Fan + (q1 % Fan)) * Fan + (k % Fan)
    BY <1>1, <1>2, <1>3, <1>5
  <2> HIDE DEF F2, rest2
  <2>2. /\ Fan * F2 \in Nat /\ Fan * F2 > 0 /\ rest \in 0..(Fan * F2 - 1)
        /\ q3 * (Fan * F2) + rest = (q3 * Fan + (q2 % Fan)) * F2 + rest2
    BY <1>4, <2>1, <1>5
  <2> HIDE DEF rest
  <2>3. k = q3 * (Fan * F2) + rest
    BY <1>2, <1>3, <1>4, <2>1, <2>2
  <2>4. k \div (Fan * F2) = q3
    BY <1>4, <2>2, <2>3, DivisionUnique
  <2>5. Fan * Fan * Fan = Fan * F2
    BY <1>1, SMT DEF F2
  <2>6. QED BY <2>4, <2>5
<1>8. ByteToSector(hdr, k) = hdr.at[4][((q3 * Fan + (q2 % Fan)) * Fan + (q1 % Fan)) * Fan + (k % Fan)]
  BY <1>6, <1>7 DEF ByteToSector, q1
<1>9. QED BY <1>2, <1>3, <1>4, <1>8

--------------------------------------------------------------------------------
(***************************************************************************)
(* The invariant.  A live file has a sound header, stored on the disk,     *)
(* whose sectors are marked and no other file's; if its data is written,   *)
(* every data sector holds its own.  HeaderReadBack compares two headers;  *)
(* what makes it inductive is where the rows lie and that nobody else      *)
(* writes there.                                                           *)
(***************************************************************************)
Taken(f) == {header[f]} \cup SectorsOf(handed[f])

HoldsData(f, hdr, contents) ==
    \A k \in Used(hdr.n, 4) : contents[hdr.at[4][k]] = Data(f, k)

Shapes ==
    /\ header \in [Files -> Sectors \cup {NoSector}]
    /\ handed = [f \in Files |-> handed[f]]
    /\ written \subseteq Live

FileSound(f) ==
    /\ Sound(handed[f])
    /\ header[f] \notin SectorsOf(handed[f])
    /\ Stored(handed[f], header[f], disk)
    /\ f \in written => HoldsData(f, handed[f], disk)

Apart == \A f, g \in Live : f # g => Taken(f) \cap Taken(g) = {}
Marked == freeMap = UNION {Taken(f) : f \in Live}

IInv == Shapes /\ (\A f \in Live : FileSound(f)) /\ Apart /\ Marked

(* A header and data stay as they are while their sectors do.              *)
LEMMA Untouched ==
    ASSUME NEW hdr, Sound(hdr), NEW sector, NEW c, NEW d,
           \A s \in {sector} \cup SectorsOf(hdr) : d[s] = c[s]
    PROVE  /\ Stored(hdr, sector, c) => Stored(hdr, sector, d)
           /\ \A f : HoldsData(f, hdr, c) => HoldsData(f, hdr, d)
<1>1. \A level \in Levels : \A i \in Used(hdr.n, level) : d[hdr.at[level][i]] = c[hdr.at[level][i]]
  BY NamedSectors
<1>2. d[sector] = c[sector]
  OBVIOUS
<1>3. 1..3 \subseteq Levels /\ 4 \in Levels
  BY DEF Levels
<1>4. Stored(hdr, sector, c) => Stored(hdr, sector, d)
  BY <1>1, <1>2, <1>3, Zenon DEF Stored
<1>5. \A f : HoldsData(f, hdr, c) => HoldsData(f, hdr, d)
  BY <1>1, <1>3, Zenon DEF HoldsData
<1>6. QED BY <1>4, <1>5

(* What a file has taken lies on the disk.                                 *)
LEMMA TakenOnDisk ==
    ASSUME Shapes, NEW f \in Live, Sound(handed[f])
    PROVE  header[f] \in Sectors /\ SectorsOf(handed[f]) \subseteq Sectors
<1>1. header[f] \in Sectors
  BY DEF Shapes, Live
<1>2. SectorsOf(handed[f]) \subseteq Sectors
  <2>1. \A s \in SectorsOf(handed[f]) :
           \E level \in Levels : \E i \in Used(handed[f].n, level) : s = handed[f].at[level][i]
    BY NamedSectors
  <2>2. QED BY <2>1, Zenon DEF Sound, InRange
<1>3. QED BY <1>1, <1>2

LEMMA InitIInv == Init => IInv
<1> SUFFICES ASSUME Init PROVE IInv
  OBVIOUS
<1>1. Live = {}
  BY DEF Init, Live
<1>2. Shapes
  BY <1>1 DEF Init, Shapes
<1>3. QED BY <1>1, <1>2 DEF IInv, Apart, Marked, Init

(* A file that an action leaves alone stays sound.                         *)
LEMMA OthersStaySound ==
    ASSUME IInv, NEW g \in Live, header'[g] = header[g], handed'[g] = handed[g],
           g \in written' => g \in written,
           \A s \in Sectors : s \in Taken(g) => disk'[s] = disk[s]
    PROVE  FileSound(g)' /\ Taken(g)' = Taken(g)
<1>1. FileSound(g) /\ Shapes
  BY DEF IInv
<1>2. \A s \in Taken(g) : disk'[s] = disk[s]
  BY <1>1, TakenOnDisk DEF Taken, FileSound
<1>3. /\ Stored(handed[g], header[g], disk')
      /\ g \in written => HoldsData(g, handed[g], disk')
  BY <1>1, <1>2, Untouched DEF FileSound, Taken
<1>4. QED BY <1>1, <1>3, Zenon DEF FileSound, Taken

(* Create takes clear sectors only, so that the others keep theirs.        *)
LEMMA CreateKeeps ==
    ASSUME IInv, NEW f \in Files, NEW n \in Sizes, Create(f, n)
    PROVE  IInv'
<1>1. PICK clear, sector, hdr :
        /\ clear = Sectors \ freeMap
        /\ sector = NthClear(0, clear)
        /\ hdr = Allocate(n, clear \ {sector})
  OBVIOUS
<1>2. /\ header[f] = NoSector
      /\ Cardinality(clear) > SectorsNeeded(n)
      /\ header' = [header EXCEPT ![f] = sector]
      /\ handed' = [handed EXCEPT ![f] = hdr]
      /\ freeMap' = freeMap \cup {sector} \cup SectorsOf(hdr)
      /\ disk' = WriteBack(sector, hdr, disk)
      /\ written' = written
  BY <1>1 DEF Create
<1>3. SectorsNeeded(n) \in Nat /\ IsFiniteSet(clear) /\ Cardinality(clear) \in Nat
  <2>1. IsFiniteSet(Sectors)
    BY FS_Interval, HeaderAssumption DEF Sectors
  <2>2. QED BY <1>1, <2>1, Requests, FS_Subset, FS_CardinalityType
<1>4. sector \in clear
  BY <1>1, <1>2, <1>3, NthClearFound
<1>5. /\ Sound(hdr) /\ hdr.n = n /\ SectorsOf(hdr) \subseteq clear \ {sector}
  <2>1. SectorsNeeded(n) <= Cardinality(clear \ {sector})
    <3>1. Cardinality(clear \ {sector}) = Cardinality(clear) - 1
      BY <1>3, <1>4, FS_RemoveElement
    <3>2. QED BY <3>1, <1>2, <1>3
  <2>2. clear \ {sector} \subseteq Sectors
    BY <1>1
  <2>3. QED BY <1>1, <2>1, <2>2, AllocateSound
<1>6. sector \in Sectors /\ sector # NoSector /\ sector \notin SectorsOf(hdr)
  <2>1. sector \in Sectors /\ sector \notin SectorsOf(hdr)
    BY <1>1, <1>4, <1>5
  <2>2. QED BY <2>1 DEF Sectors, NoSector
<1>7. /\ Stored(hdr, sector, disk')
      /\ \A s \in Sectors : s \notin {sector} \cup SectorsOf(hdr) => disk'[s] = disk[s]
  BY <1>2, <1>5, <1>6, WriteBackStores
<1>8. /\ header'[f] = sector /\ handed'[f] = hdr
      /\ \A g \in Files : g # f => header'[g] = header[g] /\ handed'[g] = handed[g]
      /\ header' \in [Files -> Sectors \cup {NoSector}]
      /\ handed' = [g \in Files |-> handed'[g]]
  BY <1>2, <1>6 DEF IInv, Shapes
<1>9. Live' = Live \cup {f} /\ f \notin Live /\ Live \subseteq Files
  BY <1>2, <1>6, <1>8 DEF Live
<1>10. Taken(f)' = {sector} \cup SectorsOf(hdr)
  BY <1>8 DEF Taken
<1>11. ASSUME NEW g \in Live PROVE Taken(g) \subseteq freeMap
  BY DEF IInv, Marked
<1>12. ASSUME NEW g \in Live PROVE FileSound(g)' /\ Taken(g)' = Taken(g)
  <2>1. g \in Files /\ g # f
    BY <1>9
  <2>2. \A s \in Taken(g) : s \notin {sector} \cup SectorsOf(hdr)
    BY <1>1, <1>4, <1>5, <1>11
  <2>3. QED BY <1>2, <1>7, <1>8, <2>1, <2>2, OthersStaySound
<1>13. FileSound(f)'
  <2>1. f \notin written'
    BY <1>2, <1>9 DEF IInv, Shapes
  <2>2. QED BY <1>5, <1>6, <1>7, <1>8, <2>1, Zenon DEF FileSound
<1>14. Shapes'
  BY <1>2, <1>8, <1>9 DEF IInv, Shapes
<1>15. Apart'
  <2>1. \A g \in Live : Taken(f)' \cap Taken(g) = {}
    BY <1>1, <1>4, <1>5, <1>10, <1>11
  <2>2. \A g, h \in Live : g # h => Taken(g) \cap Taken(h) = {}
    BY DEF IInv, Apart
  <2>3. \A g, h \in Live' : g # h => Taken(g)' \cap Taken(h)' = {}
    BY <1>9, <1>12, <2>1, <2>2
  <2>4. QED BY <2>3 DEF Apart
<1>16. Marked'
  <2>1. \A s : s \in freeMap' <=> s \in freeMap \/ s \in Taken(f)'
    BY <1>2, <1>10
  <2>2. \A s : s \in freeMap <=> \E g \in Live : s \in Taken(g)
    BY DEF IInv, Marked
  <2>3. \A s : s \in freeMap' <=> \E g \in Live' : s \in Taken(g)'
    BY <1>9, <1>12, <2>1, <2>2
  <2>4. QED BY <2>3 DEF Marked
<1>17. QED BY <1>9, <1>12, <1>13, <1>14, <1>15, <1>16 DEF IInv

(* Two headers alike in what is used name the same sectors, position by    *)
(* position.                                                               *)
LEMMA SameSectors ==
    ASSUME NEW g, NEW h, SameHeader(g, h), h.n \in Sizes
    PROVE  /\ SectorsOf(g) = SectorsOf(h)
           /\ 0..(g.n - 1) = Used(h.n, 4)
           /\ \A k \in Used(h.n, 4) : ByteToSector(g, k) = h.at[4][k]
<1>1. g.n = h.n /\ \A level \in Levels : \A i \in Used(h.n, level) : g.at[level][i] = h.at[level][i]
  BY DEF SameHeader
<1>2. \A s : s \in SectorsOf(g) <=>
        \E level \in Levels : \E i \in Used(h.n, level) : s = g.at[level][i]
  BY <1>1, NamedSectors
<1>3. \A s : s \in SectorsOf(h) <=>
        \E level \in Levels : \E i \in Used(h.n, level) : s = h.at[level][i]
  BY NamedSectors
<1>4. SectorsOf(g) = SectorsOf(h)
  <2>1. \A s : (\E level \in Levels : \E i \in Used(h.n, level) : s = g.at[level][i]) <=>
              \E level \in Levels : \E i \in Used(h.n, level) : s = h.at[level][i]
    BY <1>1
  <2>2. \A s : s \in SectorsOf(g) <=> s \in SectorsOf(h)
    BY <1>2, <1>3, <2>1, Zenon
  <2>3. QED BY <2>2
<1>5. 4 \in Levels /\ LevelSizes(h.n)[4] = h.n
  BY Sizing DEF Levels
<1>6. 0..(g.n - 1) = Used(h.n, 4)
  BY <1>1, <1>5 DEF Used
<1>7. \A k \in Used(h.n, 4) : k \in Nat
  BY Sizing, <1>5 DEF Used
<1>8. \A k \in Used(h.n, 4) : ByteToSector(g, k) = h.at[4][k]
  BY <1>1, <1>5, <1>7, ByteToSectorIsPosition
<1>9. QED BY <1>4, <1>6, <1>8

(* What is fetched of a live file is what Allocate made.                   *)
LEMMA FetchedIsHanded ==
    ASSUME IInv, NEW f \in Live
    PROVE  SameHeader(FetchFrom(header[f], disk), handed[f]) /\ handed[f].n \in Sizes
<1>1. Sound(handed[f]) /\ Stored(handed[f], header[f], disk)
  BY DEF IInv, FileSound
<1>2. QED BY <1>1, FetchFromReads DEF Sound

(* Writing the data touches the file's data sectors only, each once.       *)
LEMMA WriteAtKeeps ==
    ASSUME IInv, NEW f \in Files, WriteAt(f)
    PROVE  IInv'
<1>1. f \in Live
  BY DEF WriteAt, Live
<1>2. PICK hdr : hdr = FetchFrom(header[f], disk)
  OBVIOUS
<1>3. PICK h : h = handed[f]
  OBVIOUS
<1>4. Sound(h) /\ header[f] \notin SectorsOf(h) /\ Stored(h, header[f], disk)
  BY <1>1, <1>3 DEF IInv, FileSound
<1>5. /\ 0..(hdr.n - 1) = Used(h.n, 4)
      /\ \A k \in Used(h.n, 4) : ByteToSector(hdr, k) = h.at[4][k]
  BY <1>1, <1>2, <1>3, FetchedIsHanded, SameSectors
<1>6. /\ disk' = [s \in Sectors |->
                    IF \E k \in 0..(hdr.n - 1) : ByteToSector(hdr, k) = s
                    THEN Data(f, CHOOSE k \in 0..(hdr.n - 1) : ByteToSector(hdr, k) = s)
                    ELSE disk[s]]
      /\ written' = written \cup {f}
      /\ freeMap' = freeMap /\ header' = header /\ handed' = handed
  BY <1>2 DEF WriteAt
<1>7. 4 \in Levels /\ 1..3 \subseteq Levels /\ 4 \notin 1..3
  BY DEF Levels
<1>8. ASSUME NEW k \in Used(h.n, 4) PROVE disk'[h.at[4][k]] = Data(f, k)
  <2> DEFINE s == h.at[4][k]
             Here(j) == ByteToSector(hdr, j) = s
  <2>1. s \in Sectors
    BY <1>4, <1>7, Zenon DEF Sound, InRange
  <2>2. \A j \in Used(h.n, 4) : Here(j) <=> j = k
    <3>1. \A j \in Used(h.n, 4) : h.at[4][j] = s => j = k
      BY <1>4, <1>7, Zenon DEF Sound, Distinct
    <3>2. \A j \in Used(h.n, 4) : ByteToSector(hdr, j) = h.at[4][j]
      BY <1>5
    <3>3. QED BY <3>1, <3>2
  <2>3. (CHOOSE j \in Used(h.n, 4) : Here(j)) = k
    BY <2>2, Zenon
  <2>4. disk'[s] = IF \E j \in Used(h.n, 4) : Here(j)
                   THEN Data(f, CHOOSE j \in Used(h.n, 4) : Here(j)) ELSE disk[s]
    BY <1>5, <1>6, <2>1
  <2> HIDE DEF Here
  <2>5. QED BY <2>2, <2>3, <2>4, Zenon
<1>9. ASSUME NEW s \in Sectors, \A k \in Used(h.n, 4) : h.at[4][k] # s
      PROVE  disk'[s] = disk[s]
  BY <1>5, <1>6, <1>9
<1>10. Live' = Live /\ \A g \in Live : Taken(g)' = Taken(g)
  BY <1>6 DEF Live, Taken
<1>11. \A k \in Used(h.n, 4) : h.at[4][k] \in Taken(f)
  BY <1>3, <1>7, NamedSectors DEF Taken
<1>12. ASSUME NEW g \in Live, g # f PROVE FileSound(g)'
  <2>1. \A s \in Taken(g) : s \notin Taken(f)
    BY <1>1, <1>12 DEF IInv, Apart
  <2>2. \A s \in Sectors : s \in Taken(g) => disk'[s] = disk[s]
    BY <1>9, <1>11, <2>1
  <2>3. header'[g] = header[g] /\ handed'[g] = handed[g] /\ (g \in written' => g \in written)
    BY <1>6, <1>12
  <2>4. QED BY <2>2, <2>3, OthersStaySound
<1>13. FileSound(f)'
  <2>1. header[f] \in Sectors /\ SectorsOf(h) \subseteq Sectors
    BY <1>1, <1>3, <1>4, TakenOnDisk DEF IInv
  <2>2. disk'[header[f]] = disk[header[f]]
    <3>1. \A k \in Used(h.n, 4) : h.at[4][k] # header[f]
      BY <1>4, <1>7, NamedSectors
    <3>2. QED BY <1>9, <2>1, <3>1
  <2>3. ASSUME NEW level \in 1..3, NEW r \in Used(h.n, level)
        PROVE  disk'[h.at[level][r]] = disk[h.at[level][r]]
    <3>1. level \in Levels /\ level # 4
      BY <1>7
    <3>2. \A k \in Used(h.n, 4) : h.at[4][k] # h.at[level][r]
      BY <1>4, <1>7, <3>1, Zenon DEF Sound, Distinct
    <3>3. h.at[level][r] \in Sectors
      BY <1>4, <3>1, Zenon DEF Sound, InRange
    <3>4. QED BY <1>9, <3>2, <3>3
  <2>4. Stored(h, header[f], disk')
    BY <1>4, <2>2, <2>3 DEF Stored
  <2>5. HoldsData(f, h, disk')
    BY <1>8 DEF HoldsData
  <2>6. header'[f] = header[f] /\ handed'[f] = h
    BY <1>3, <1>6
  <2>7. QED BY <1>4, <2>4, <2>5, <2>6, Zenon DEF FileSound
<1>14. Shapes' /\ Apart' /\ Marked'
  <2>1. Shapes'
    BY <1>1, <1>6, <1>10 DEF IInv, Shapes
  <2>2. Apart' /\ Marked'
    BY <1>6, <1>10 DEF IInv, Apart, Marked
  <2>3. QED BY <2>1, <2>2
<1>15. QED BY <1>10, <1>12, <1>13, <1>14 DEF IInv

(* Remove gives back what the file had taken, and no more.                 *)
LEMMA RemoveKeeps ==
    ASSUME IInv, NEW f \in Files, RemoveFile(f)
    PROVE  IInv'
<1>1. f \in Live
  BY DEF RemoveFile, Live
<1>2. PICK freed : freed = Deallocate(FetchFrom(header[f], disk)) \cup {header[f]}
  OBVIOUS
<1>3. freed = Taken(f)
  <2>1. SectorsOf(FetchFrom(header[f], disk)) = SectorsOf(handed[f])
    BY <1>1, FetchedIsHanded, SameSectors
  <2>2. QED BY <1>2, <2>1 DEF Deallocate, Taken
<1>4. /\ freeMap' = freeMap \ freed
      /\ disk' = [s \in Sectors |-> IF s \in freed THEN Blank ELSE disk[s]]
      /\ header' = [header EXCEPT ![f] = NoSector]
      /\ handed' = [handed EXCEPT ![f] = Blank]
      /\ written' = written \ {f}
  BY <1>2 DEF RemoveFile
<1>5. /\ header'[f] = NoSector
      /\ \A g \in Files : g # f => header'[g] = header[g] /\ handed'[g] = handed[g]
      /\ header' \in [Files -> Sectors \cup {NoSector}]
      /\ handed' = [g \in Files |-> handed'[g]]
  BY <1>4 DEF IInv, Shapes
<1>6. Live' = Live \ {f}
  BY <1>5 DEF Live
<1>7. ASSUME NEW g \in Live, g # f
      PROVE  /\ FileSound(g)' /\ Taken(g)' = Taken(g)
             /\ \A s \in Taken(g) : s \notin freed
  <2>1. g \in Files
    BY DEF Live
  <2>2. \A s \in Taken(g) : s \notin freed
    BY <1>1, <1>3, <1>7 DEF IInv, Apart
  <2>3. \A s \in Sectors : s \in Taken(g) => disk'[s] = disk[s]
    BY <1>4, <2>2
  <2>4. header'[g] = header[g] /\ handed'[g] = handed[g] /\ (g \in written' => g \in written)
    BY <1>4, <1>5, <1>7, <2>1
  <2>5. FileSound(g)' /\ Taken(g)' = Taken(g)
    BY <2>3, <2>4, OthersStaySound
  <2>6. QED BY <2>2, <2>5
<1>8. Shapes'
  BY <1>4, <1>5, <1>6 DEF IInv, Shapes
<1>9. Apart'
  BY <1>6, <1>7 DEF IInv, Apart
<1>10. Marked'
  <2>1. \A s : s \in freeMap <=> \E g \in Live : s \in Taken(g)
    BY DEF IInv, Marked
  <2>2. \A s : s \in freeMap' <=> s \in freeMap /\ s \notin Taken(f)
    BY <1>3, <1>4
  <2>3. \A s : s \in freeMap' <=> \E g \in Live' : s \in Taken(g)'
    BY <1>3, <1>6, <1>7, <2>1, <2>2
  <2>4. QED BY <2>3 DEF Marked
<1>11. QED BY <1>6, <1>7, <1>8, <1>9, <1>10 DEF IInv

(* The invariant holds in every reachable state.                           *)
THEOREM Invariance == Spec => []IInv
<1>1. ASSUME IInv, [Next]_vars PROVE IInv'
  <2>1. CASE Next
    <3>1. ASSUME NEW f \in Files, WriteAt(f) PROVE IInv'
      BY <1>1, <3>1, WriteAtKeeps
    <3>2. ASSUME NEW f \in Files, RemoveFile(f) PROVE IInv'
      BY <1>1, <3>2, RemoveKeeps
    <3>3. ASSUME NEW f \in Files, NEW n \in Sizes, Create(f, n) PROVE IInv'
      BY <1>1, <3>3, CreateKeeps
    <3>4. QED BY <2>1, <3>1, <3>2, <3>3 DEF Next
  <2>2. CASE UNCHANGED vars
    BY <1>1, <2>2 DEF vars, IInv, Shapes, FileSound, Apart, Marked, Taken, Live
  <2>3. QED BY <1>1, <2>1, <2>2
<1>2. QED BY <1>1, InitIInv, PTL DEF Spec

--------------------------------------------------------------------------------
(* What the runs check, for every value of the constants.                  *)

(* A header reads back as Allocate made it: filehdr.cc's WriteBack and     *)
(* FetchFrom agree on the rows of all levels.                              *)
THEOREM HeadersReadBack == Spec => []HeaderReadBack
<1>1. IInv => HeaderReadBack
  BY FetchedIsHanded DEF HeaderReadBack, SameHeader, Used
<1>2. QED BY <1>1, Invariance, PTL

(* Each data sector of a written file reads back: ByteToSector leads no    *)
(* two positions, of one file or of two, to one sector.                    *)
THEOREM AllDataReadBack == Spec => []DataReadBack
<1>1. ASSUME IInv PROVE DataReadBack
  <2> SUFFICES ASSUME NEW f \in written,
                      NEW k \in 0..(FetchFrom(header[f], disk).n - 1)
               PROVE  disk[ByteToSector(FetchFrom(header[f], disk), k)] = Data(f, k)
    BY DEF DataReadBack
  <2>1. f \in Live /\ HoldsData(f, handed[f], disk)
    BY <1>1 DEF IInv, Shapes, FileSound
  <2>2. k \in Used(handed[f].n, 4)
        /\ ByteToSector(FetchFrom(header[f], disk), k) = handed[f].at[4][k]
    BY <1>1, <2>1, FetchedIsHanded, SameSectors
  <2>3. QED BY <2>1, <2>2 DEF HoldsData
<1>2. QED BY <1>1, Invariance, PTL

(* The map marks exactly the sectors of the files, each for one file, and  *)
(* for each file as many as its size calls for.                            *)
THEOREM TheMapIsExact == Spec => []MapExact
<1>1. ASSUME IInv PROVE MapExact
  <2>1. freeMap = UNION {{header[f]} \cup SectorsOf(handed[f]) : f \in Live}
    BY <1>1 DEF IInv, Marked, Taken
  <2>2. \A f \in Live :
           Cardinality({header[f]} \cup SectorsOf(handed[f])) = 1 + SectorsNeeded(handed[f].n)
    BY <1>1, SoundCount DEF IInv, FileSound
  <2>3. \A f, g \in Live : f # g =>
           ({header[f]} \cup SectorsOf(handed[f])) \cap ({header[g]} \cup SectorsOf(handed[g])) = {}
    BY <1>1, Zenon DEF IInv, Apart, Taken
  <2>4. QED BY <2>1, <2>2, <2>3 DEF MapExact
<1>2. QED BY <1>1, Invariance, PTL
================================================================================
