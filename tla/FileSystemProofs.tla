---------------------------- MODULE FileSystemProofs ----------------------------
(***************************************************************************)
(* Proofs about FileSystem for every disk, bitmap, directory size, set of  *)
(* paths and set of file sizes: the types, NoLeak and DamageConfined, and  *)
(* that the commands implement NameTree through an abort at any write.     *)
(*                                                                         *)
(* The invariant names the directories D of the disk and their paths P:    *)
(* the tables of D are a tree, no two entries share a sector, every marked *)
(* sector belongs to an entry or to an orphan, and sectors that are held   *)
(* but not marked lie below one entry (Settled).  While a command runs,    *)
(* its writes still to do are one of a few sequences: Creating before the  *)
(* name is written, Marking after it, Removing before the name is gone,    *)
(* Unlisted after it.  An abort forgets the sequence and leaves a settled  *)
(* disk; a write moves to the next stage.  One write of each sequence adds *)
(* the name or takes it away (NamesStep), which is NameTree's step.        *)
(***************************************************************************)
EXTENDS FileSystem, Lemmas

(***************************************************************************)
(* Constants.                                                              *)
(***************************************************************************)
(* The disk has the two system headers, and sizes are numbers.             *)
LEMMA ConstantFacts ==
    /\ NumSectors \in Nat /\ DirEntries \in Nat /\ DirEntries >= 1
    /\ {FreeMapSector, DirectorySector} \subseteq Sectors
    /\ FormattedMap \subseteq Sectors
    /\ Boundary \in Slots
    /\ FreeMapSector # DirectorySector
<1>1. Fan \in Nat /\ Fan >= 1
  BY FanAssumption
<1>a. \A n \in Nat : DivRoundUp(n, Fan) \in Nat
  BY <1>1 DEF DivRoundUp
<1>b. \A n \in Nat : SectorsNeeded(n) \in Nat
  BY <1>a DEF SectorsNeeded, LevelSizes
<1>2. SectorsNeeded(MapSize) \in Nat /\ SectorsNeeded(DirSize) \in Nat
  BY <1>b DEF MapSize, DirSize
<1>3. NumSectors \in Nat /\ DirEntries \in Nat /\ Boundary \in 1..DirEntries
      /\ 2 + SectorsNeeded(MapSize) + SectorsNeeded(DirSize) <= NumSectors
  BY DiskAssumption
<1> QED
  BY <1>2, <1>3 DEF Sectors, FormattedMap, MapBlocks, RootBlocks, FreeMapSector, DirectorySector, Slots

(* No path is longer than MaxDepth.                                        *)
LEMMA MaxDepthFacts ==
    /\ MaxDepth \in Nat \ {0}
    /\ \A p \in Paths : /\ p \in Seq(Names) /\ Len(p) \in Nat \ {0} /\ Len(p) <= MaxDepth
<1> DEFINE Lens == {Len(p) : p \in Paths}
<1>1. \A p \in Paths : p \in Seq(Names) /\ p # <<>> /\ Len(p) \in Nat \ {0}
  BY PathsAssumption
<1>2. PICK p \in Paths : \A q \in Paths : Len(q) <= Len(p)
  BY PathsAssumption
<1>3. Len(p) \in Lens
  OBVIOUS
<1>4. MaxDepth \in Lens /\ \A q \in Paths : Len(q) <= MaxDepth
  BY <1>2, <1>3 DEF MaxDepth
<1>5. QED BY <1>1, <1>4

(***************************************************************************)
(* Recursion over the tree.                                                *)
(***************************************************************************)
(* The entries a level further down.                                       *)
Children(tb, E) == UNION {Used(TableAt(tb, e.sector)) : e \in {f \in E : f.dir}}

LevelsOf(f, tb, E) == f[0] = E /\ \A k \in 1..MaxDepth : f[k] = f[k - 1] \cup Children(tb, f[k - 1])

(* Subtree adds one level after the other.                                 *)
LEMMA SubtreeRecursion ==
    ASSUME NEW tb, NEW E
    PROVE  \E f : LevelsOf(f, tb, E) /\ Subtree(tb, E) = f[MaxDepth]
<1> DEFINE N == MaxDepth
           U == E \cup (UNION {Used(tb[s]) : s \in DOMAIN tb}) \cup Used(GarbageTable)
           A == SUBSET U
           Next1(S) == S \cup Children(tb, S)
           Step == [n \in 1..N |-> [S \in A |-> Next1(S)]]
           F(f) == [k \in 0..N |-> IF k = 0 THEN E ELSE f[k - 1] \cup
                       UNION {Used(TableAt(tb, e.sector)) : e \in {g \in f[k - 1] : g.dir}}]
           below == CHOOSE f : f = F(f)
<1>1. N \in Nat /\ E \in A
  BY MaxDepthFacts
<1>2. \A S \in A : Next1(S) \in A
  <2>1. \A s : Used(TableAt(tb, s)) \subseteq U
    BY DEF TableAt
  <2> HIDE DEF U
  <2>2. QED BY <2>1 DEF Children
<1>3. Step \in [1..N -> [A -> A]] /\ \A n \in 1..N, S \in A : Step[n][S] = Next1(S)
  <2> HIDE DEF Next1, A, N
  <2> QED BY <1>2
<1> HIDE DEF Step
<1>4. PICK g \in [0..N -> A] : Recurs(g, E, N, Step)
  <2>1. Step \in Steps(N, A)
    BY <1>3 DEF Steps
  <2> HIDE DEF N, A
  <2> QED BY <1>1, <2>1, RecursionExists
<1>5. g[0] = E /\ \A n \in 1..N : g[n] = Next1(g[n - 1])
  <2>1. ASSUME NEW n \in 1..N PROVE g[n] = Next1(g[n - 1])
    <3>1. n - 1 \in 0..N
      BY <1>1
    <3> HIDE DEF N, A, Next1
    <3>2. g[n - 1] \in A
      BY <1>4, <3>1
    <3>3. QED BY <1>3, <1>4, <3>2 DEF Recurs
  <2>2. QED BY <1>4, <2>1 DEF Recurs
<1>6. g = F(g)
  <2>1. \A n \in 0..N : n = 0 \/ n \in 1..N
    BY <1>1
  <2>2. \A n \in 0..N : g[n] = F(g)[n]
    <3> HIDE DEF N
    <3> QED BY <1>5, <2>1 DEF Children
  <2> HIDE DEF N
  <2>3. QED BY <1>4, <2>2
<1>7. below = F(below)
  <2> HIDE DEF F
  <2> QED BY <1>6
<1>8. Subtree(tb, E) = below[N]
  BY DEF Subtree
<1> HIDE DEF below
<1>9. LevelsOf(below, tb, E)
  <2>1. 0 \in 0..N /\ \A n \in 1..N : n \in 0..N /\ n # 0
    BY <1>1
  <2>2. \A n \in 0..N : below[n] = F(below)[n]
    BY <1>7
  <2> HIDE DEF N
  <2>3. below[0] = E /\ \A n \in 1..N : below[n] = Next1(below[n - 1])
    BY <2>1, <2>2 DEF Children
  <2>4. QED BY <2>3 DEF LevelsOf, N
<1>10. QED BY <1>8, <1>9

(* Subtree stays in every set that has the entries and all below its       *)
(* directories.                                                            *)
LEMMA SubtreeLeast ==
    ASSUME NEW tb, NEW E, NEW C, E \subseteq C,
           \A e \in C : e.dir => Used(TableAt(tb, e.sector)) \subseteq C
    PROVE  Subtree(tb, E) \subseteq C
<1>1. PICK f : LevelsOf(f, tb, E) /\ Subtree(tb, E) = f[MaxDepth]
  BY SubtreeRecursion
<1> DEFINE Q == {k \in Nat : k <= MaxDepth => f[k] \subseteq C}
<1>2. 0 \in Q
  BY <1>1 DEF LevelsOf
<1>3. ASSUME NEW k \in Nat, k \in Q PROVE k + 1 \in Q
  <2> SUFFICES ASSUME k + 1 <= MaxDepth PROVE f[k + 1] \subseteq C
    OBVIOUS
  <2>1. f[k] \subseteq C /\ k + 1 \in 1..MaxDepth /\ (k + 1) - 1 = k
    BY <1>3, MaxDepthFacts
  <2>2. f[k + 1] = f[k] \cup Children(tb, f[k])
    BY <1>1, <2>1 DEF LevelsOf
  <2>3. Children(tb, f[k]) \subseteq C
    BY <2>1 DEF Children
  <2>4. QED BY <2>1, <2>2, <2>3
<1>4. \A k \in Nat : k \in Q
  <2> HIDE DEF Q
  <2> QED BY <1>2, <1>3, InductionOnSet
<1>5. QED BY <1>1, <1>4, MaxDepthFacts

(* It has what some of its levels have.                                    *)
LEMMA LevelsGrow ==
    ASSUME NEW tb, NEW E, NEW f, LevelsOf(f, tb, E)
    PROVE  \A k \in 0..MaxDepth : f[k] \subseteq f[MaxDepth]
<1> DEFINE Q == {j \in Nat : j <= MaxDepth => f[MaxDepth - j] \subseteq f[MaxDepth]}
<1>1. 0 \in Q
  BY MaxDepthFacts
<1>2. ASSUME NEW j \in Nat, j \in Q PROVE j + 1 \in Q
  <2> SUFFICES ASSUME j + 1 <= MaxDepth PROVE f[MaxDepth - (j + 1)] \subseteq f[MaxDepth]
    OBVIOUS
  <2>1. MaxDepth - j \in 1..MaxDepth /\ (MaxDepth - j) - 1 = MaxDepth - (j + 1) /\ j <= MaxDepth
    BY MaxDepthFacts
  <2>2. f[(MaxDepth - j) - 1] \subseteq f[MaxDepth - j]
    BY <2>1 DEF LevelsOf
  <2>3. QED BY <2>1, <2>2, <1>2
<1>3. \A j \in Nat : j \in Q
  <2> HIDE DEF Q
  <2> QED BY <1>1, <1>2, InductionOnSet
<1>4. SUFFICES ASSUME NEW k \in 0..MaxDepth PROVE f[k] \subseteq f[MaxDepth]
  OBVIOUS
<1>5. MaxDepth - k \in Nat /\ MaxDepth - k <= MaxDepth /\ MaxDepth - (MaxDepth - k) = k
  BY MaxDepthFacts
<1>6. QED BY <1>3, <1>5

(* A tree with more entries has larger subtrees.                           *)
LEMMA SubtreeMonotone ==
    ASSUME NEW ta, NEW tb, NEW E, NEW G, E \subseteq G,
           \A s : Used(TableAt(ta, s)) \subseteq Used(TableAt(tb, s))
    PROVE  Subtree(ta, E) \subseteq Subtree(tb, G)
<1>1. PICK f : LevelsOf(f, ta, E) /\ Subtree(ta, E) = f[MaxDepth]
  BY SubtreeRecursion
<1>2. PICK g : LevelsOf(g, tb, G) /\ Subtree(tb, G) = g[MaxDepth]
  BY SubtreeRecursion
<1> DEFINE Q == {k \in Nat : k <= MaxDepth => f[k] \subseteq g[k]}
<1>3. 0 \in Q
  BY <1>1, <1>2 DEF LevelsOf
<1>4. ASSUME NEW k \in Nat, k \in Q PROVE k + 1 \in Q
  <2> SUFFICES ASSUME k + 1 <= MaxDepth PROVE f[k + 1] \subseteq g[k + 1]
    OBVIOUS
  <2>1. f[k] \subseteq g[k] /\ k + 1 \in 1..MaxDepth /\ (k + 1) - 1 = k
    BY <1>4, MaxDepthFacts
  <2>2. /\ f[k + 1] = f[k] \cup Children(ta, f[k])
        /\ g[k + 1] = g[k] \cup Children(tb, g[k])
    BY <1>1, <1>2, <2>1 DEF LevelsOf
  <2>3. Children(ta, f[k]) \subseteq Children(tb, g[k])
    BY <2>1 DEF Children
  <2>4. QED BY <2>1, <2>2, <2>3
<1>5. \A k \in Nat : k \in Q
  <2> HIDE DEF Q
  <2> QED BY <1>3, <1>4, InductionOnSet
<1>6. QED BY <1>1, <1>2, <1>5, MaxDepthFacts

(***************************************************************************)
(* A sound tree.  D are the header sectors of its directories, P the path  *)
(* that leads to each.                                                     *)
(***************************************************************************)
Leads(p, q) == Len(p) <= Len(q) /\ \A i \in 1..Len(p) : p[i] = q[i]

(* Every entry in use has a path of its own, the entry of a directory is   *)
(* the only way to it.                                                     *)
EntriesSound(tb, D, P) ==
    \A d \in D, i \in Slots : tb[d][i].inUse =>
        /\ tb[d][i].name \in Names /\ Append(P[d], tb[d][i].name) \in Paths
        /\ tb[d][i].dir => /\ tb[d][i].sector \in D
                           /\ P[tb[d][i].sector] = Append(P[d], tb[d][i].name)
NamesDiffer(tb, D) ==
    \A d \in D, i \in Slots, j \in Slots :
        tb[d][i].inUse /\ tb[d][j].inUse /\ tb[d][i].name = tb[d][j].name => i = j
EachLedTo(tb, D) ==
    \A d \in D \ {DirectorySector} : \E p \in D, i \in Slots :
        tb[p][i].inUse /\ tb[p][i].dir /\ tb[p][i].sector = d

TreeSound(tb, D, P) ==
    /\ DirectorySector \in D /\ D \subseteq DOMAIN tb /\ D \subseteq Sectors
    /\ \A d \in D : tb[d] \in [Slots -> Entry]
    /\ P \in [D -> Seq(Names)] /\ P[DirectorySector] = <<>>
    /\ \A d \in D, g \in D : P[d] = P[g] => d = g
    /\ EntriesSound(tb, D, P)
    /\ NamesDiffer(tb, D)
    /\ EachLedTo(tb, D)

(* A directory below the root is led to by one of a shorter path.          *)
LEMMA ParentOf ==
    ASSUME NEW tb, NEW D, NEW P, TreeSound(tb, D, P), NEW d \in D, d # DirectorySector
    PROVE  \E p \in D, i \in Slots :
               /\ tb[p][i].inUse /\ tb[p][i].dir /\ tb[p][i].sector = d
               /\ tb[p][i].name \in Names
               /\ P[d] = Append(P[p], tb[p][i].name) /\ P[d] \in Paths
               /\ Len(P[d]) = Len(P[p]) + 1
<1>1. PICK p \in D, i \in Slots : tb[p][i].inUse /\ tb[p][i].dir /\ tb[p][i].sector = d
  BY DEF TreeSound, EachLedTo
<1>2. /\ tb[p][i].name \in Names /\ P[d] = Append(P[p], tb[p][i].name) /\ P[d] \in Paths
  BY <1>1 DEF TreeSound, EntriesSound
<1>3. P[p] \in Seq(Names)
  BY DEF TreeSound
<1>4. Len(P[d]) = Len(P[p]) + 1
  BY <1>2, <1>3
<1>5. QED BY <1>1, <1>2, <1>4

(* A directory's path has a length up to MaxDepth, and only the root's is  *)
(* empty.                                                                  *)
LEMMA PathFacts ==
    ASSUME NEW tb, NEW D, NEW P, TreeSound(tb, D, P), NEW d \in D
    PROVE  /\ P[d] \in Seq(Names) /\ Len(P[d]) \in Nat /\ Len(P[d]) <= MaxDepth
           /\ Len(P[d]) = 0 <=> d = DirectorySector
<1>1. P[d] \in Seq(Names) /\ Len(P[d]) \in Nat
  BY DEF TreeSound
<1>2. CASE d = DirectorySector
  <2>1. Len(P[d]) = 0
    BY <1>2 DEF TreeSound
  <2>2. QED BY <1>1, <1>2, <2>1, MaxDepthFacts
<1>3. CASE d # DirectorySector
  <2>1. P[d] \in Paths
    BY <1>3, ParentOf
  <2>2. QED BY <1>1, <1>3, <2>1, MaxDepthFacts
<1>4. QED BY <1>2, <1>3

(* Levels that have a directory's entries have those of all below it.      *)
LEMMA BelowReached ==
    ASSUME NEW tb, NEW D, NEW P, TreeSound(tb, D, P), NEW r \in D, NEW c \in {0, 1},
           NEW E, NEW f, LevelsOf(f, tb, E), Used(tb[r]) \subseteq f[c]
    PROVE  \A d \in D : Leads(P[r], P[d]) /\ Len(P[d]) - Len(P[r]) + c <= MaxDepth =>
               Used(tb[d]) \subseteq f[MaxDepth]
<1> DEFINE n == Len(P[r])
           Q == {k \in Nat : \A d \in D :
                    Leads(P[r], P[d]) /\ Len(P[d]) = n + k /\ k + c <= MaxDepth =>
                        Used(tb[d]) \subseteq f[k + c]}
<1>b. \A d \in D : /\ P[d] \in Seq(Names) /\ Len(P[d]) \in Nat /\ Len(P[d]) <= MaxDepth
                   /\ Len(P[d]) = 0 <=> d = DirectorySector
  BY PathFacts
<1>c. \A d \in D : d # DirectorySector =>
          \E p \in D, i \in Slots :
               /\ tb[p][i].inUse /\ tb[p][i].dir /\ tb[p][i].sector = d
               /\ tb[p][i].name \in Names
               /\ P[d] = Append(P[p], tb[p][i].name) /\ P[d] \in Paths
               /\ Len(P[d]) = Len(P[p]) + 1
  BY ParentOf
<1>a. n \in Nat /\ P[r] \in Seq(Names)
  BY <1>b
<1> HIDE DEF n
<1>1. 0 \in Q
  <2> SUFFICES ASSUME NEW d \in D, Leads(P[r], P[d]), Len(P[d]) = n PROVE Used(tb[d]) \subseteq f[0 + c]
    BY <1>a
  <2>1. P[d] \in Seq(Names) /\ \A i \in 1..n : P[r][i] = P[d][i]
    BY <1>b DEF Leads, n
  <2>2. P[d] = P[r]
    BY <1>a, <2>1 DEF n
  <2>3. d = r
    BY <2>2 DEF TreeSound
  <2>4. QED BY <2>3
<1>2. ASSUME NEW k \in Nat, k \in Q PROVE k + 1 \in Q
  <2> SUFFICES ASSUME NEW d \in D, Leads(P[r], P[d]), Len(P[d]) = n + (k + 1), (k + 1) + c <= MaxDepth
               PROVE  Used(tb[d]) \subseteq f[(k + 1) + c]
    OBVIOUS
  <2>1. d # DirectorySector
    BY <1>a, <1>b
  <2>2. PICK p \in D, i \in Slots :
            /\ tb[p][i].inUse /\ tb[p][i].dir /\ tb[p][i].sector = d
            /\ tb[p][i].name \in Names
            /\ P[d] = Append(P[p], tb[p][i].name) /\ P[d] \in Paths
            /\ Len(P[d]) = Len(P[p]) + 1
    BY <2>1, <1>c
  <2>3. P[p] \in Seq(Names) /\ Len(P[p]) \in Nat
    BY <1>b
  <2>4. Len(P[p]) = n + k
    <3>1. Len(P[p]) + 1 = n + (k + 1)
      BY <2>2
    <3>2. QED BY <3>1, <1>a, <2>3
  <2>5. Leads(P[r], P[p])
    <3>1. \A j \in 1..n : j \in 1..Len(P[p])
      BY <1>a, <2>4
    <3>2. \A j \in 1..Len(P[p]) : P[d][j] = P[p][j]
      BY <2>2, <2>3
    <3>3. n <= Len(P[p])
      BY <1>a, <2>4
    <3>4. QED BY <3>1, <3>2, <3>3, <1>a DEF Leads, n
  <2>6. Used(tb[p]) \subseteq f[k + c]
    BY <1>2, <2>4, <2>5, MaxDepthFacts
  <2>7. tb[p][i] \in f[k + c]
    BY <2>2, <2>6 DEF Used
  <2>8. Used(tb[d]) \subseteq Children(tb, f[k + c])
    <3>1. TableAt(tb, d) = tb[d]
      BY DEF TableAt, TreeSound
    <3>2. QED BY <2>2, <2>7, <3>1 DEF Children
  <2>9. (k + 1) + c \in 1..MaxDepth /\ ((k + 1) + c) - 1 = k + c
    BY MaxDepthFacts
  <2>10. f[(k + 1) + c] = f[k + c] \cup Children(tb, f[k + c])
    BY <2>9 DEF LevelsOf
  <2>11. QED BY <2>8, <2>10
<1>3. \A k \in Nat : k \in Q
  <2> HIDE DEF Q
  <2> QED BY <1>1, <1>2, InductionOnSet
<1>4. SUFFICES ASSUME NEW d \in D, Leads(P[r], P[d]), Len(P[d]) - n + c <= MaxDepth
               PROVE  Used(tb[d]) \subseteq f[MaxDepth]
  BY DEF n
<1>5. Len(P[d]) - n \in Nat /\ Len(P[d]) = n + (Len(P[d]) - n)
  BY <1>a, <1>b, <1>4 DEF Leads, n
<1>6. Used(tb[d]) \subseteq f[(Len(P[d]) - n) + c]
  BY <1>3, <1>4, <1>5
<1>7. (Len(P[d]) - n) + c \in 0..MaxDepth
  BY <1>4, <1>5, MaxDepthFacts
<1>8. QED BY <1>6, <1>7, LevelsGrow

(* All files are the entries of the directories.                           *)
LEMMA FilesOf ==
    ASSUME NEW tb, NEW D, NEW P, TreeSound(tb, D, P), NEW e
    PROVE  e \in Subtree(tb, Used(tb[DirectorySector])) <=>
               \E d \in D, i \in Slots : tb[d][i].inUse /\ e = tb[d][i]
<1> DEFINE C == UNION {Used(tb[d]) : d \in D}
<1>1. DirectorySector \in D /\ \A d \in D : TableAt(tb, d) = tb[d]
  BY DEF TreeSound, TableAt
<1>2. \A x : x \in C <=> \E d \in D, i \in Slots : tb[d][i].inUse /\ x = tb[d][i]
  BY DEF Used
<1>3. ASSUME NEW x \in C, x.dir PROVE Used(TableAt(tb, x.sector)) \subseteq C
  <2>1. PICK d \in D, i \in Slots : tb[d][i].inUse /\ x = tb[d][i]
    BY <1>2
  <2>2. x.sector \in D
    BY <2>1, <1>3 DEF TreeSound, EntriesSound
  <2>3. QED BY <1>1, <2>2
<1>a. Used(tb[DirectorySector]) \subseteq C
  BY <1>1
<1> HIDE DEF C
<1>4. Subtree(tb, Used(tb[DirectorySector])) \subseteq C
  BY <1>a, <1>3, SubtreeLeast
<1>5. PICK f : /\ LevelsOf(f, tb, Used(tb[DirectorySector]))
               /\ Subtree(tb, Used(tb[DirectorySector])) = f[MaxDepth]
  BY SubtreeRecursion
<1>6. ASSUME NEW d \in D PROVE Used(tb[d]) \subseteq f[MaxDepth]
  <2>1. Used(tb[DirectorySector]) \subseteq f[0] /\ 0 \in {0, 1}
    BY <1>5 DEF LevelsOf
  <2>2. /\ P[DirectorySector] = <<>> /\ Len(P[DirectorySector]) = 0
        /\ Len(P[d]) \in Nat /\ Len(P[d]) <= MaxDepth
    BY PathFacts DEF TreeSound
  <2>3. Leads(P[DirectorySector], P[d]) /\ Len(P[d]) - Len(P[DirectorySector]) + 0 <= MaxDepth
    BY <2>2, MaxDepthFacts DEF Leads
  <2>4. QED BY <1>1, <1>5, <2>1, <2>3, BelowReached
<1>7. \A d \in D, i \in Slots : tb[d][i].inUse => tb[d][i] \in f[MaxDepth]
  BY <1>6 DEF Used
<1>8. QED BY <1>2, <1>4, <1>5, <1>7

(* A removed entry takes along the directories its path leads to ...       *)
Gone(tb, P, d0, i0, d) == tb[d0][i0].dir /\ Leads(P[tb[d0][i0].sector], P[d])

(* ... with their entries.                                                 *)
LEMMA SubtreeOf ==
    ASSUME NEW tb, NEW D, NEW P, TreeSound(tb, D, P),
           NEW d0 \in D, NEW i0 \in Slots, tb[d0][i0].inUse, NEW e
    PROVE  e \in Subtree(tb, {tb[d0][i0]}) <=>
               \/ e = tb[d0][i0]
               \/ \E d \in D, i \in Slots : /\ tb[d][i].inUse /\ e = tb[d][i]
                                            /\ Gone(tb, P, d0, i0, d)
<1> DEFINE e0 == tb[d0][i0]
           G == {d \in D : Gone(tb, P, d0, i0, d)}
           C == {e0} \cup UNION {Used(tb[d]) : d \in G}
<1>1. \A d \in D : TableAt(tb, d) = tb[d]
  BY DEF TreeSound, TableAt
<1>2. \A x : x \in C <=> x = e0 \/ \E d \in G, i \in Slots : tb[d][i].inUse /\ x = tb[d][i]
  BY DEF Used
<1>3. e0.dir => /\ e0.sector \in D /\ P[e0.sector] \in Seq(Names) /\ Len(P[e0.sector]) \in Nat \ {0}
                /\ e0.sector \in G
  <2>1. e0.dir => /\ e0.sector \in D /\ P[e0.sector] \in Paths
    BY DEF TreeSound, EntriesSound
  <2>2. e0.dir => Leads(P[e0.sector], P[e0.sector])
    BY <2>1, MaxDepthFacts DEF Leads
  <2>3. QED BY <2>1, <2>2, MaxDepthFacts DEF Gone
<1>4. ASSUME NEW x \in C, x.dir PROVE Used(TableAt(tb, x.sector)) \subseteq C
  <2>1. x.sector \in G
    <3>1. CASE x = e0
      BY <3>1, <1>3, <1>4
    <3>2. CASE \E d \in G, i \in Slots : tb[d][i].inUse /\ x = tb[d][i]
      <4>1. PICK d \in G, i \in Slots : tb[d][i].inUse /\ x = tb[d][i]
        BY <3>2
      <4>2. /\ x.sector \in D /\ P[x.sector] = Append(P[d], x.name) /\ x.name \in Names
        BY <1>4, <4>1 DEF TreeSound, EntriesSound
      <4>3. Leads(P[e0.sector], P[d]) /\ e0.dir /\ P[d] \in Seq(Names)
        BY <4>1, PathFacts DEF Gone
      <4>4. \A j \in 1..Len(P[d]) : P[x.sector][j] = P[d][j]
        BY <4>2, <4>3
      <4>5. Len(P[x.sector]) = Len(P[d]) + 1 /\ Len(P[d]) \in Nat
        BY <4>2, <4>3
      <4>6. Leads(P[e0.sector], P[x.sector])
        BY <4>3, <4>4, <4>5, <1>3 DEF Leads
      <4>7. QED BY <4>2, <4>3, <4>6 DEF Gone
    <3>3. QED BY <1>2, <3>1, <3>2
  <2>2. QED BY <1>1, <2>1
<1>5. Subtree(tb, {e0}) \subseteq C
  <2> HIDE DEF e0
  <2>1. {e0} \subseteq C
    OBVIOUS
  <2> HIDE DEF C
  <2>2. QED BY <1>4, <2>1, SubtreeLeast
<1>6. PICK f : LevelsOf(f, tb, {e0}) /\ Subtree(tb, {e0}) = f[MaxDepth]
  BY SubtreeRecursion
<1>7. e0 \in f[MaxDepth]
  <2>1. e0 \in f[0] /\ 0 \in 0..MaxDepth
    BY <1>6, MaxDepthFacts DEF LevelsOf
  <2>2. QED BY <1>6, <2>1, LevelsGrow
<1>8. ASSUME NEW d \in G PROVE Used(tb[d]) \subseteq f[MaxDepth]
  <2>1. e0.dir /\ Leads(P[e0.sector], P[d]) /\ e0.sector \in D
    BY <1>3 DEF Gone
  <2>2. Used(tb[e0.sector]) \subseteq f[1]
    <3>1. f[0] = {e0} /\ f[1] = f[0] \cup Children(tb, f[0])
      <4>1. 1 \in 1..MaxDepth /\ 1 - 1 = 0
        BY MaxDepthFacts
      <4> HIDE DEF e0
      <4>2. f[0] = {e0} /\ \A k \in 1..MaxDepth : f[k] = f[k - 1] \cup Children(tb, f[k - 1])
        BY <1>6 DEF LevelsOf
      <4>3. f[1] = f[1 - 1] \cup Children(tb, f[1 - 1])
        BY <4>1, <4>2
      <4>4. QED BY <4>1, <4>2, <4>3
    <3>2. Used(tb[e0.sector]) \subseteq Children(tb, {e0})
      BY <1>1, <2>1 DEF Children
    <3>3. QED BY <3>1, <3>2
  <2>3. Len(P[d]) - Len(P[e0.sector]) + 1 <= MaxDepth
    BY <1>3, <2>1, PathFacts, MaxDepthFacts
  <2> HIDE DEF e0
  <2>4. 1 \in {0, 1} /\ d \in D
    OBVIOUS
  <2>5. QED BY <1>6, <2>1, <2>2, <2>3, <2>4, BelowReached
<1>9. \A d \in G, i \in Slots : tb[d][i].inUse => tb[d][i] \in f[MaxDepth]
  BY <1>8 DEF Used
<1>10. \A x : x \in Subtree(tb, {e0}) <=> x \in C
  <2> HIDE DEF e0, C, G
  <2>1. \A x : x \in C => x \in Subtree(tb, {e0})
    BY <1>2, <1>6, <1>7, <1>9
  <2>2. QED BY <2>1, <1>5
<1>11. \A d : d \in G <=> d \in D /\ Gone(tb, P, d0, i0, d)
  OBVIOUS
<1> HIDE DEF C, G
<1>12. e \in Subtree(tb, {tb[d0][i0]}) <=> e \in C
  BY <1>10, Zenon
<1>13. e \in C <=> e = e0 \/ \E d \in G, i \in Slots : tb[d][i].inUse /\ e = tb[d][i]
  <2> HIDE DEF e0
  <2> QED BY <1>2
<1>14. QED BY <1>11, <1>12, <1>13, Zenon

(***************************************************************************)
(* A sound disk: the tree, and headers that share no sector.               *)
(***************************************************************************)
Own(hd, e) == {e.sector} \cup hd[e.sector]
System(hd) == {FreeMapSector, DirectorySector} \cup hd[FreeMapSector] \cup hd[DirectorySector]

OwnApart(tb, hd, D) ==
    \A d \in D, i \in Slots, g \in D, j \in Slots :
        /\ tb[d][i].inUse /\ tb[g][j].inUse
        /\ \E s : s \in Own(hd, tb[d][i]) /\ s \in Own(hd, tb[g][j])
        => d = g /\ i = j

HeadsSound(tb, hd, D) ==
    /\ {FreeMapSector, DirectorySector} \subseteq DOMAIN hd
    /\ \A d \in D, i \in Slots : tb[d][i].inUse =>
           tb[d][i].sector \in DOMAIN hd /\ \A s \in Own(hd, tb[d][i]) : s \notin System(hd)
    /\ OwnApart(tb, hd, D)

DiskSound(tb, hd, D, P) == TreeSound(tb, D, P) /\ HeadsSound(tb, hd, D)

(* The sector belongs to the system or to an entry.                        *)
Held(tb, hd, D, s) ==
    \/ s \in System(hd)
    \/ \E d \in D, i \in Slots : tb[d][i].inUse /\ s \in Own(hd, tb[d][i])

(* What the directories lead to is all that matters.                       *)
Agree(ta, ha, tb, hb, D) ==
    /\ D \subseteq DOMAIN tb /\ \A d \in D : tb[d] = ta[d]
    /\ {FreeMapSector, DirectorySector} \subseteq DOMAIN hb
    /\ hb[FreeMapSector] = ha[FreeMapSector] /\ hb[DirectorySector] = ha[DirectorySector]
    /\ \A d \in D, i \in Slots : ta[d][i].inUse =>
           ta[d][i].sector \in DOMAIN hb /\ hb[ta[d][i].sector] = ha[ta[d][i].sector]

(* A disk that agrees on what the directories lead to is as sound and      *)
(* holds the same sectors.                                                 *)
LEMMA SameDisk ==
    ASSUME NEW ta, NEW ha, NEW tb, NEW hb, NEW D, NEW P,
           DiskSound(ta, ha, D, P), Agree(ta, ha, tb, hb, D)
    PROVE  DiskSound(tb, hb, D, P) /\ \A s : Held(tb, hb, D, s) <=> Held(ta, ha, D, s)
<1>1. /\ D \subseteq DOMAIN tb /\ \A d \in D : tb[d] = ta[d]
      /\ System(hb) = System(ha)
      /\ \A d \in D, i \in Slots : ta[d][i].inUse =>
             ta[d][i].sector \in DOMAIN hb /\ Own(hb, ta[d][i]) = Own(ha, ta[d][i])
  BY DEF Agree, System, Own
<1>2. TreeSound(tb, D, P)
  <2>1. TreeSound(ta, D, P)
    BY DEF DiskSound
  <2>2. EntriesSound(tb, D, P)
    BY <1>1, <2>1 DEF TreeSound, EntriesSound
  <2>3. NamesDiffer(tb, D)
    BY <1>1, <2>1 DEF TreeSound, NamesDiffer
  <2>4. EachLedTo(tb, D)
    <3> SUFFICES ASSUME NEW d \in D, d # DirectorySector
                 PROVE  \E q \in D, i \in Slots : tb[q][i].inUse /\ tb[q][i].dir /\ tb[q][i].sector = d
      BY DEF EachLedTo
    <3>1. PICK q \in D, i \in Slots : ta[q][i].inUse /\ ta[q][i].dir /\ ta[q][i].sector = d
      BY <2>1 DEF TreeSound, EachLedTo
    <3>2. QED BY <3>1, <1>1
  <2>5. \A d \in D : tb[d] \in [Slots -> Entry]
    BY <1>1, <2>1 DEF TreeSound
  <2>6. QED BY <1>1, <2>1, <2>2, <2>3, <2>4, <2>5 DEF TreeSound
<1>3. HeadsSound(tb, hb, D)
  <2>1. HeadsSound(ta, ha, D)
    BY DEF DiskSound
  <2>2. \A d \in D, i \in Slots : tb[d][i].inUse =>
           tb[d][i].sector \in DOMAIN hb /\ \A s \in Own(hb, tb[d][i]) : s \notin System(hb)
    BY <1>1, <2>1 DEF HeadsSound
  <2>3. OwnApart(tb, hb, D)
    <3> SUFFICES ASSUME NEW d \in D, NEW i \in Slots, NEW g \in D, NEW j \in Slots,
                        tb[d][i].inUse, tb[g][j].inUse,
                        NEW s, s \in Own(hb, tb[d][i]), s \in Own(hb, tb[g][j])
                 PROVE  d = g /\ i = j
      BY DEF OwnApart
    <3>1. ta[d][i].inUse /\ ta[g][j].inUse /\ s \in Own(ha, ta[d][i]) /\ s \in Own(ha, ta[g][j])
      BY <1>1
    <3>2. QED BY <2>1, <3>1 DEF HeadsSound, OwnApart
  <2>4. QED BY <2>2, <2>3 DEF HeadsSound, Agree
<1>4. \A s : Held(tb, hb, D, s) <=> Held(ta, ha, D, s)
  BY <1>1 DEF Held
<1>5. QED BY <1>2, <1>3, <1>4 DEF DiskSound

(* A header sector the directories lead to is held.                        *)
LEMMA DirectoriesHeld ==
    ASSUME NEW tb, NEW hd, NEW D, NEW P, DiskSound(tb, hd, D, P), NEW d \in D
    PROVE  Held(tb, hd, D, d)
<1>1. CASE d = DirectorySector
  BY <1>1 DEF Held, System
<1>2. CASE d # DirectorySector
  <2>1. PICK p \in D, i \in Slots : tb[p][i].inUse /\ tb[p][i].sector = d
    BY <1>2 DEF DiskSound, TreeSound, EachLedTo
  <2>2. d \in Own(hd, tb[p][i])
    BY <2>1 DEF Own
  <2>3. QED BY <2>1, <2>2 DEF Held
<1>3. QED BY <1>1, <1>2

(* The directories and their paths when an entry e has been added.         *)
DirsWith(D, e) == IF e.dir THEN D \cup {e.sector} ELSE D
PathsWith(D, P, p, e) == [d \in DirsWith(D, e) |-> IF d \in D THEN P[d] ELSE Append(P[p], e.name)]

(* The tables, when e is in a slot of the directory p.                     *)
TablesWith(ta, tb, D, p, i0, e) ==
    /\ DirsWith(D, e) \subseteq DOMAIN tb
    /\ tb[p] = [ta[p] EXCEPT ![i0] = e]
    /\ \A d \in D : d # p => tb[d] = ta[d]
    /\ e.dir => tb[e.sector] = EmptyTable

(* The entry may be added: it is new in its directory and its sectors are  *)
(* nobody's.                                                               *)
Addable(ta, hd, D, P, p, i0, e) ==
    /\ p \in D /\ i0 \in Slots /\ ~ta[p][i0].inUse
    /\ e \in Entry /\ e.inUse /\ e.name \in Names /\ Append(P[p], e.name) \in Paths
    /\ \A j \in Slots : ta[p][j].inUse => ta[p][j].name # e.name
    /\ e.sector \in DOMAIN hd
    /\ \A s \in Own(hd, e) : ~Held(ta, hd, D, s)

(* An entry added with sectors of its own leaves the disk sound; it holds  *)
(* those sectors in addition, and every other entry is where it was.       *)
LEMMA EntryAdded ==
    ASSUME NEW ta, NEW tb, NEW hd, NEW D, NEW P, NEW p, NEW i0, NEW e,
           DiskSound(ta, hd, D, P), Addable(ta, hd, D, P, p, i0, e),
           TablesWith(ta, tb, D, p, i0, e)
    PROVE  /\ DiskSound(tb, hd, DirsWith(D, e), PathsWith(D, P, p, e))
           /\ \A s : Held(tb, hd, DirsWith(D, e), s) <=> Held(ta, hd, D, s) \/ s \in Own(hd, e)
           /\ p \in DirsWith(D, e) /\ tb[p][i0] = e
           /\ \A d \in DirsWith(D, e), i \in Slots : tb[d][i].inUse =>
                  \/ d = p /\ i = i0
                  \/ d \in D /\ ta[d][i].inUse /\ tb[d][i] = ta[d][i]
<1> DEFINE D1 == DirsWith(D, e)
           P1 == PathsWith(D, P, p, e)
           path == Append(P[p], e.name)
<1>a. /\ p \in D /\ i0 \in Slots /\ ~ta[p][i0].inUse
      /\ e \in Entry /\ e.inUse /\ e.name \in Names /\ path \in Paths
      /\ e.sector \in DOMAIN hd /\ e.sector \in Sectors
  BY DEF Addable, Entry
<1>b. TreeSound(ta, D, P) /\ HeadsSound(ta, hd, D)
  BY DEF DiskSound
<1>c. e.sector \notin D
  <2>1. e.sector \in Own(hd, e)
    BY DEF Own
  <2>2. ~Held(ta, hd, D, e.sector)
    BY <2>1 DEF Addable
  <2>3. QED BY <2>2, DirectoriesHeld
<1>d. \A d : d \in D1 <=> d \in D \/ (e.dir /\ d = e.sector)
  BY DEF DirsWith
<1>e. ta[p] \in [Slots -> Entry]
  BY <1>a, <1>b DEF TreeSound
<1>f. /\ tb[p] \in [Slots -> Entry] /\ tb[p][i0] = e
      /\ \A j \in Slots : j # i0 => tb[p][j] = ta[p][j]
  BY <1>a, <1>e DEF TablesWith
<1>g. \A d \in D1, i \in Slots :
          \/ d = p /\ i = i0 /\ tb[d][i] = e
          \/ d \in D /\ tb[d][i] = ta[d][i] /\ ~(d = p /\ i = i0)
          \/ d \notin D /\ ~tb[d][i].inUse
  <2>1. \A i \in Slots : ~EmptyTable[i].inUse
    BY DEF EmptyTable, Empty
  <2>2. ASSUME NEW d \in D1, NEW i \in Slots, d \notin D PROVE ~tb[d][i].inUse
    BY <2>1, <2>2, <1>d DEF TablesWith
  <2>3. ASSUME NEW d \in D, NEW i \in Slots, ~(d = p /\ i = i0) PROVE tb[d][i] = ta[d][i]
    BY <2>3, <1>f DEF TablesWith
  <2>4. QED BY <2>2, <2>3, <1>f
<1>h. \A d \in D1, i \in Slots : tb[d][i].inUse =>
          \/ d = p /\ i = i0 /\ tb[d][i] = e
          \/ d \in D /\ ta[d][i].inUse /\ tb[d][i] = ta[d][i]
  BY <1>g
<1>i. \A d \in D, i \in Slots : ta[d][i].inUse => tb[d][i].inUse /\ tb[d][i] = ta[d][i] /\ d \in D1
  BY <1>a, <1>g, <1>d
<1>j. /\ \A d \in D : d \in D1 /\ P1[d] = P[d]
      /\ e.dir => P1[e.sector] = path
      /\ \A d \in D1 : d \notin D => e.dir /\ d = e.sector /\ P1[d] = path
  BY <1>c, <1>d DEF PathsWith
<1>k. path \in Seq(Names)
  BY <1>a, MaxDepthFacts
<1>l. \A d \in D : P[d] # path
  <2> SUFFICES ASSUME NEW d \in D, P[d] = path PROVE FALSE
    OBVIOUS
  <2>1. P[p] \in Seq(Names)
    BY <1>a, <1>b, PathFacts
  <2>2. Len(path) = Len(P[p]) + 1 /\ Len(P[p]) \in Nat
    BY <2>1, <1>a
  <2>3. d # DirectorySector
    <3>1. Len(P[d]) = 0 <=> d = DirectorySector
      BY <1>b, PathFacts
    <3>2. QED BY <2>2, <3>1
  <2>4. PICK q \in D, i \in Slots :
            /\ ta[q][i].inUse /\ ta[q][i].dir /\ ta[q][i].sector = d
            /\ ta[q][i].name \in Names
            /\ P[d] = Append(P[q], ta[q][i].name)
    BY <2>3, <1>b, ParentOf
  <2>5. P[q] \in Seq(Names)
    BY <1>b, PathFacts
  <2>6. P[q] = P[p] /\ ta[q][i].name = e.name
    <3> DEFINE u == P[q]
               v == P[p]
               x == ta[q][i].name
               y == e.name
    <3>1. x \in Names /\ y \in Names /\ u \in Seq(Names) /\ v \in Seq(Names)
      BY <2>1, <2>4, <2>5, <1>a
    <3>2. Append(u, x) = Append(v, y)
      BY <2>4 DEF path
    <3> HIDE DEF u, v, x, y
    <3>3. u = v /\ x = y
      BY <3>1, <3>2, AppendInjective
    <3>4. QED BY <3>3 DEF u, v, x, y
  <2>7. q = p
    BY <2>6, <1>a, <1>b DEF TreeSound
  <2>8. QED BY <2>4, <2>6, <2>7 DEF Addable
<1> HIDE DEF D1, P1, path
<1>1. TreeSound(tb, D1, P1)
  <2>1. DirectorySector \in D1 /\ D1 \subseteq DOMAIN tb /\ D1 \subseteq Sectors
    BY <1>a, <1>b, <1>d DEF TreeSound, TablesWith, D1
  <2>2. \A d \in D1 : tb[d] \in [Slots -> Entry]
    <3>1. \A d \in D : tb[d] \in [Slots -> Entry]
      BY <1>b, <1>f DEF TreeSound, TablesWith
    <3>2. EmptyTable \in [Slots -> Entry]
      BY ConstantFacts DEF EmptyTable, Empty, Entry, FreeMapSector
    <3>3. QED BY <3>1, <3>2, <1>d DEF TablesWith
  <2>3. P1 \in [D1 -> Seq(Names)] /\ P1[DirectorySector] = <<>>
    <3>1. \A d \in D1 : P1[d] \in Seq(Names)
      BY <1>b, <1>j, <1>k DEF TreeSound
    <3>2. P1 \in [D1 -> Seq(Names)]
      BY <3>1 DEF P1, PathsWith, D1
    <3>3. QED BY <3>2, <1>b, <1>j DEF TreeSound
  <2>4. \A d \in D1, g \in D1 : P1[d] = P1[g] => d = g
    BY <1>b, <1>j, <1>l DEF TreeSound
  <2>5. EntriesSound(tb, D1, P1)
    <3> SUFFICES ASSUME NEW d \in D1, NEW i \in Slots, tb[d][i].inUse
                 PROVE  /\ tb[d][i].name \in Names /\ Append(P1[d], tb[d][i].name) \in Paths
                        /\ tb[d][i].dir => /\ tb[d][i].sector \in D1
                                           /\ P1[tb[d][i].sector] = Append(P1[d], tb[d][i].name)
      BY DEF EntriesSound
    <3>1. CASE d = p /\ i = i0 /\ tb[d][i] = e
      <4>1. P1[d] = P[p]
        BY <3>1, <1>a, <1>j
      <4>2. QED BY <3>1, <4>1, <1>a, <1>j, <1>d DEF path
    <3>2. CASE d \in D /\ ta[d][i].inUse /\ tb[d][i] = ta[d][i]
      <4>1. P1[d] = P[d]
        BY <3>2, <1>j
      <4>2. /\ ta[d][i].name \in Names /\ Append(P[d], ta[d][i].name) \in Paths
            /\ ta[d][i].dir => /\ ta[d][i].sector \in D
                               /\ P[ta[d][i].sector] = Append(P[d], ta[d][i].name)
        BY <3>2, <1>b DEF TreeSound, EntriesSound
      <4>3. QED BY <3>2, <4>1, <4>2, <1>j
    <3>3. QED BY <3>1, <3>2, <1>h
  <2>6. NamesDiffer(tb, D1)
    <3> SUFFICES ASSUME NEW d \in D1, NEW i \in Slots, NEW j \in Slots,
                        tb[d][i].inUse, tb[d][j].inUse, tb[d][i].name = tb[d][j].name
                 PROVE  i = j
      BY DEF NamesDiffer
    <3>1. CASE d = p
      <4>1. \A k \in Slots : k # i0 /\ tb[p][k].inUse => tb[p][k].name # e.name
        BY <1>f DEF Addable
      <4>2. CASE i = i0 \/ j = i0
        BY <3>1, <4>1, <4>2, <1>f
      <4>3. CASE i # i0 /\ j # i0
        BY <3>1, <4>3, <1>a, <1>b, <1>f DEF TreeSound, NamesDiffer
      <4>4. QED BY <4>2, <4>3
    <3>2. CASE d # p
      BY <3>2, <1>b, <1>h DEF TreeSound, NamesDiffer
    <3>3. QED BY <3>1, <3>2
  <2>7. EachLedTo(tb, D1)
    <3> SUFFICES ASSUME NEW d \in D1, d # DirectorySector
                 PROVE  \E q \in D1, i \in Slots : tb[q][i].inUse /\ tb[q][i].dir /\ tb[q][i].sector = d
      BY DEF EachLedTo
    <3>1. CASE d \in D
      <4>1. PICK q \in D, i \in Slots : ta[q][i].inUse /\ ta[q][i].dir /\ ta[q][i].sector = d
        BY <3>1, <1>b DEF TreeSound, EachLedTo
      <4>2. QED BY <4>1, <1>i
    <3>2. CASE d \notin D
      BY <3>2, <1>a, <1>f, <1>j
    <3>3. QED BY <3>1, <3>2
  <2>8. QED BY <2>1, <2>2, <2>3, <2>4, <2>5, <2>6, <2>7 DEF TreeSound
<1>2. HeadsSound(tb, hd, D1)
  <2>1. \A d \in D, i \in Slots : \A s : ta[d][i].inUse /\ s \in Own(hd, ta[d][i]) => s \notin Own(hd, e)
    BY DEF Addable, Held
  <2>2. \A s \in Own(hd, e) : s \notin System(hd)
    BY DEF Addable, Held
  <2>3. \A d \in D1, i \in Slots : tb[d][i].inUse =>
           tb[d][i].sector \in DOMAIN hd /\ \A s \in Own(hd, tb[d][i]) : s \notin System(hd)
    BY <2>2, <1>a, <1>b, <1>h DEF HeadsSound
  <2>4. OwnApart(tb, hd, D1)
    <3> SUFFICES ASSUME NEW d \in D1, NEW i \in Slots, NEW g \in D1, NEW j \in Slots,
                        tb[d][i].inUse, tb[g][j].inUse,
                        NEW s, s \in Own(hd, tb[d][i]), s \in Own(hd, tb[g][j])
                 PROVE  d = g /\ i = j
      BY DEF OwnApart
    <3>1. \/ d = p /\ i = i0 /\ tb[d][i] = e
          \/ d \in D /\ ta[d][i].inUse /\ tb[d][i] = ta[d][i]
      BY <1>h
    <3>2. \/ g = p /\ j = i0 /\ tb[g][j] = e
          \/ g \in D /\ ta[g][j].inUse /\ tb[g][j] = ta[g][j]
      BY <1>h
    <3>3. QED BY <3>1, <3>2, <2>1, <1>b DEF HeadsSound, OwnApart
  <2>5. QED BY <2>3, <2>4, <1>b DEF HeadsSound
<1>3. \A s : Held(tb, hd, D1, s) <=> Held(ta, hd, D, s) \/ s \in Own(hd, e)
  <2>1. ASSUME NEW s, Held(tb, hd, D1, s) PROVE Held(ta, hd, D, s) \/ s \in Own(hd, e)
    BY <2>1, <1>h DEF Held
  <2>2. ASSUME NEW s, Held(ta, hd, D, s) PROVE Held(tb, hd, D1, s)
    BY <2>2, <1>i DEF Held
  <2>3. ASSUME NEW s, s \in Own(hd, e) PROVE Held(tb, hd, D1, s)
    <3>1. p \in D1 /\ tb[p][i0].inUse /\ s \in Own(hd, tb[p][i0])
      BY <2>3, <1>a, <1>d, <1>f
    <3>2. QED BY <3>1, <1>a DEF Held
  <2>4. QED BY <2>1, <2>2, <2>3
<1>4. QED BY <1>1, <1>2, <1>3, <1>a, <1>d, <1>f, <1>h DEF DiskSound, D1, P1

(* Every sector of an entry, and of all below it.                          *)
Below(tb, hd, e, s) == \E x \in Subtree(tb, {e}) : s \in Own(hd, x)

(* The directories left when the entry in a slot goes.                     *)
DirsLeft(tb, D, P, p, i0) == {d \in D : ~Gone(tb, P, p, i0, d)}
PathsLeft(tb, D, P, p, i0) == [d \in DirsLeft(tb, D, P, p, i0) |-> P[d]]

TablesLess(ta, tb, D, p, i0) ==
    /\ D \subseteq DOMAIN tb
    /\ tb[p] = [ta[p] EXCEPT ![i0].inUse = FALSE]
    /\ \A d \in D : d # p => tb[d] = ta[d]

(* A directory is not below its own entries.                               *)
LEMMA ParentStays ==
    ASSUME NEW tb, NEW D, NEW P, TreeSound(tb, D, P), NEW p \in D, NEW i0 \in Slots, tb[p][i0].inUse
    PROVE  ~Gone(tb, P, p, i0, p)
<1> SUFFICES ASSUME tb[p][i0].dir, Leads(P[tb[p][i0].sector], P[p]) PROVE FALSE
  BY DEF Gone
<1>1. P[p] \in Seq(Names) /\ Len(P[p]) \in Nat
  BY PathFacts
<1>2. P[tb[p][i0].sector] = Append(P[p], tb[p][i0].name) /\ tb[p][i0].name \in Names
  BY DEF TreeSound, EntriesSound
<1>3. Len(P[tb[p][i0].sector]) = Len(P[p]) + 1
  BY <1>1, <1>2
<1>4. QED BY <1>1, <1>3 DEF Leads

(* A directory that stays is led to by one that stays, and by another slot.*)
LEMMA LeftLedTo ==
    ASSUME NEW tb, NEW hd, NEW D, NEW P, DiskSound(tb, hd, D, P),
           NEW p \in D, NEW i0 \in Slots, tb[p][i0].inUse,
           NEW q \in D, NEW i \in Slots, tb[q][i].inUse, tb[q][i].dir
    PROVE  \/ q = p /\ i = i0
           \/ Gone(tb, P, p, i0, tb[q][i].sector) <=> Gone(tb, P, p, i0, q)
<1> SUFFICES ASSUME ~(q = p /\ i = i0), tb[p][i0].dir
             PROVE  Leads(P[tb[p][i0].sector], P[tb[q][i].sector]) <=> Leads(P[tb[p][i0].sector], P[q])
  BY DEF Gone
<1> DEFINE r == P[tb[p][i0].sector]
           w == P[tb[q][i].sector]
<1>1. TreeSound(tb, D, P) /\ HeadsSound(tb, hd, D)
  BY DEF DiskSound
<1>2. /\ tb[q][i].name \in Names /\ tb[q][i].sector \in D /\ w = Append(P[q], tb[q][i].name)
      /\ tb[p][i0].sector \in D
  BY <1>1 DEF TreeSound, EntriesSound
<1>3. P[q] \in Seq(Names) /\ Len(P[q]) \in Nat /\ r \in Seq(Names) /\ Len(r) \in Nat /\ w \in Seq(Names)
  BY <1>1, <1>2, PathFacts
<1>4. tb[q][i].sector # tb[p][i0].sector
  BY <1>1 DEF HeadsSound, OwnApart, Own
<1>5. r # w
  BY <1>1, <1>2, <1>4 DEF TreeSound
<1> HIDE DEF r
<1>6. Len(w) = Len(P[q]) + 1 /\ \A j \in 1..Len(P[q]) : w[j] = P[q][j]
  BY <1>2, <1>3
<1> HIDE DEF w
<1>7. Leads(r, P[q]) => Leads(r, w)
  BY <1>3, <1>6 DEF Leads
<1>8. ASSUME Leads(r, w) PROVE Leads(r, P[q])
  <2>1. Len(r) # Len(w)
    <3> SUFFICES ASSUME Len(r) = Len(w) PROVE FALSE
      OBVIOUS
    <3>1. \A j \in 1..Len(r) : r[j] = w[j]
      BY <1>8 DEF Leads
    <3>2. r = w
      BY <1>3, <3>1
    <3>3. QED BY <1>5, <3>2
  <2>2. Len(r) <= Len(P[q])
    BY <1>3, <1>6, <1>8, <2>1 DEF Leads
  <2>3. QED BY <1>3, <1>6, <1>8, <2>2 DEF Leads
<1>9. QED BY <1>7, <1>8 DEF r, w

(* An entry cleared leaves the disk sound: the directories below it are    *)
(* no longer reached, exactly the sectors below it are no longer held,     *)
(* and no other entry of the rest changes.                                 *)
LEMMA EntryRemoved ==
    ASSUME NEW ta, NEW tb, NEW hd, NEW D, NEW P, NEW p \in D, NEW i0 \in Slots,
           DiskSound(ta, hd, D, P), ta[p][i0].inUse, TablesLess(ta, tb, D, p, i0)
    PROVE  LET D1 == DirsLeft(ta, D, P, p, i0) IN
           /\ DiskSound(tb, hd, D1, PathsLeft(ta, D, P, p, i0))
           /\ \A s : Held(tb, hd, D1, s) <=> Held(ta, hd, D, s) /\ ~Below(ta, hd, ta[p][i0], s)
           /\ \A d \in D1, i \in Slots : tb[d][i].inUse =>
                  d \in D /\ ta[d][i].inUse /\ tb[d][i] = ta[d][i] /\ ~(d = p /\ i = i0)
           /\ \A d \in D, i \in Slots : ta[d][i].inUse /\ ~(d = p /\ i = i0) =>
                  d \notin D1 \/ tb[d][i] = ta[d][i]
           /\ \A s : Below(ta, hd, ta[p][i0], s) => Held(ta, hd, D, s)
<1> DEFINE D1 == DirsLeft(ta, D, P, p, i0)
           P1 == PathsLeft(ta, D, P, p, i0)
           e == ta[p][i0]
<1>b. TreeSound(ta, D, P) /\ HeadsSound(ta, hd, D)
  BY DEF DiskSound
<1>c. \A d : d \in D1 <=> d \in D /\ ~Gone(ta, P, p, i0, d)
  BY DEF DirsLeft
<1>d. p \in D1
  BY <1>b, <1>c, ParentStays
<1>e. ta[p] \in [Slots -> Entry]
  BY <1>b DEF TreeSound
<1>f. /\ tb[p] \in [Slots -> Entry] /\ ~tb[p][i0].inUse
      /\ \A j \in Slots : j # i0 => tb[p][j] = ta[p][j]
  <2> DEFINE old == ta[p]
             f == [old[i0] EXCEPT !.inUse = FALSE]
  <2>1. old \in [Slots -> Entry] /\ old[i0] \in Entry
    BY <1>e
  <2>2. f \in Entry /\ ~f.inUse
    <3> DEFINE x == old[i0]
    <3>1. x \in Entry
      BY <2>1
    <3> HIDE DEF x
    <3>2. [x EXCEPT !.inUse = FALSE] \in Entry /\ ~[x EXCEPT !.inUse = FALSE].inUse
      BY <3>1 DEF Entry
    <3>3. QED BY <3>2 DEF x
  <2>3. tb[p] = [old EXCEPT ![i0] = f]
    BY DEF TablesLess
  <2> HIDE DEF f, old
  <2>4. QED BY <2>1, <2>2, <2>3 DEF old
<1>g. \A d \in D, i \in Slots : ~(d = p /\ i = i0) => tb[d][i] = ta[d][i]
  BY <1>f DEF TablesLess
<1>h. \A d \in D1, i \in Slots : tb[d][i].inUse =>
          d \in D /\ ta[d][i].inUse /\ tb[d][i] = ta[d][i] /\ ~(d = p /\ i = i0)
  BY <1>c, <1>f, <1>g
<1>i. \A d \in D1 : P1[d] = P[d]
  BY DEF PathsLeft
<1>j. DOMAIN P1 = D1
  BY DEF PathsLeft
<1>k. \A q \in D, i \in Slots : ta[q][i].inUse /\ ta[q][i].dir /\ ~(q = p /\ i = i0) =>
          (ta[q][i].sector \in D1 <=> q \in D1)
  <2>1. \A q \in D, i \in Slots : ta[q][i].inUse /\ ta[q][i].dir /\ ~(q = p /\ i = i0) =>
            (Gone(ta, P, p, i0, ta[q][i].sector) <=> Gone(ta, P, p, i0, q))
    BY LeftLedTo
  <2>2. \A q \in D, i \in Slots : ta[q][i].inUse /\ ta[q][i].dir => ta[q][i].sector \in D
    BY <1>b DEF TreeSound, EntriesSound
  <2>3. QED BY <1>c, <2>1, <2>2
<1>l. e.dir => e.sector \notin D1
  <2> SUFFICES ASSUME e.dir PROVE Gone(ta, P, p, i0, e.sector)
    BY <1>c
  <2>1. e.sector \in D
    BY <1>b DEF TreeSound, EntriesSound
  <2>2. Len(P[e.sector]) \in Nat
    BY <2>1, <1>b, PathFacts
  <2>3. QED BY <2>2 DEF Gone, Leads
<1>m. \A s : Below(ta, hd, e, s) <=>
          \/ s \in Own(hd, e)
          \/ \E d \in D, i \in Slots : ta[d][i].inUse /\ s \in Own(hd, ta[d][i]) /\ d \notin D1
  <2>1. \A x : x \in Subtree(ta, {e}) <=>
               \/ x = e
               \/ \E d \in D, i \in Slots : ta[d][i].inUse /\ x = ta[d][i] /\ Gone(ta, P, p, i0, d)
    BY <1>b, SubtreeOf
  <2>2. \A d \in D : Gone(ta, P, p, i0, d) <=> d \notin D1
    BY <1>c
  <2> HIDE DEF D1, e
  <2>3. ASSUME NEW s, Below(ta, hd, e, s)
        PROVE  \/ s \in Own(hd, e)
               \/ \E d \in D, i \in Slots : ta[d][i].inUse /\ s \in Own(hd, ta[d][i]) /\ d \notin D1
    BY <2>1, <2>2, <2>3 DEF Below
  <2>4. ASSUME NEW s, s \in Own(hd, e) PROVE Below(ta, hd, e, s)
    BY <2>1, <2>4 DEF Below
  <2>5. ASSUME NEW s, NEW d \in D, NEW i \in Slots,
               ta[d][i].inUse, s \in Own(hd, ta[d][i]), d \notin D1
        PROVE  Below(ta, hd, e, s)
    <3>1. ta[d][i] \in Subtree(ta, {e})
      BY <2>1, <2>2, <2>5
    <3>2. QED BY <3>1, <2>5 DEF Below
  <2>6. QED BY <2>3, <2>4, <2>5
<1> HIDE DEF D1, P1, e
<1>1. TreeSound(tb, D1, P1)
  <2>1. DirectorySector \in D1 /\ D1 \subseteq DOMAIN tb /\ D1 \subseteq Sectors
    <3>1. ~Gone(ta, P, p, i0, DirectorySector)
      <4> SUFFICES ASSUME e.dir, Leads(P[e.sector], P[DirectorySector]) PROVE FALSE
        BY DEF Gone, e
      <4>1. P[e.sector] \in Paths
        BY <1>b DEF TreeSound, EntriesSound, e
      <4>2. Len(P[e.sector]) \in Nat \ {0}
        BY <4>1, MaxDepthFacts
      <4>3. P[DirectorySector] = <<>>
        BY <1>b DEF TreeSound
      <4>4. QED BY <4>2, <4>3 DEF Leads
    <3>2. QED BY <3>1, <1>b, <1>c DEF TreeSound, TablesLess
  <2>2. \A d \in D1 : tb[d] \in [Slots -> Entry]
    BY <1>b, <1>c, <1>f DEF TreeSound, TablesLess
  <2>3. P1 \in [D1 -> Seq(Names)] /\ P1[DirectorySector] = <<>>
    <3>1. \A d \in D1 : P[d] \in Seq(Names)
      BY <1>b, <1>c DEF TreeSound
    <3>2. P1 \in [D1 -> Seq(Names)]
      BY <3>1 DEF P1, PathsLeft, D1
    <3>3. QED BY <3>2, <2>1, <1>b, <1>i DEF TreeSound
  <2>4. \A d \in D1, g \in D1 : P1[d] = P1[g] => d = g
    BY <1>b, <1>c, <1>i DEF TreeSound
  <2>5. EntriesSound(tb, D1, P1)
    <3> SUFFICES ASSUME NEW d \in D1, NEW i \in Slots, tb[d][i].inUse
                 PROVE  /\ tb[d][i].name \in Names /\ Append(P1[d], tb[d][i].name) \in Paths
                        /\ tb[d][i].dir => /\ tb[d][i].sector \in D1
                                           /\ P1[tb[d][i].sector] = Append(P1[d], tb[d][i].name)
      BY DEF EntriesSound
    <3>1. d \in D /\ ta[d][i].inUse /\ tb[d][i] = ta[d][i] /\ ~(d = p /\ i = i0)
      BY <1>h
    <3>2. /\ ta[d][i].name \in Names /\ Append(P[d], ta[d][i].name) \in Paths
          /\ ta[d][i].dir => P[ta[d][i].sector] = Append(P[d], ta[d][i].name)
      BY <3>1, <1>b DEF TreeSound, EntriesSound
    <3>3. ta[d][i].dir => ta[d][i].sector \in D1
      BY <3>1, <1>k
    <3>4. QED BY <3>1, <3>2, <3>3, <1>i
  <2>6. NamesDiffer(tb, D1)
    <3> SUFFICES ASSUME NEW d \in D1, NEW i \in Slots, NEW j \in Slots,
                        tb[d][i].inUse, tb[d][j].inUse, tb[d][i].name = tb[d][j].name
                 PROVE  i = j
      BY DEF NamesDiffer
    <3>1. d \in D /\ ta[d][i].inUse /\ ta[d][j].inUse /\ ta[d][i].name = ta[d][j].name
      BY <1>h
    <3>2. QED BY <3>1, <1>b DEF TreeSound, NamesDiffer
  <2>7. EachLedTo(tb, D1)
    <3> SUFFICES ASSUME NEW d \in D1, d # DirectorySector
                 PROVE  \E q \in D1, i \in Slots : tb[q][i].inUse /\ tb[q][i].dir /\ tb[q][i].sector = d
      BY DEF EachLedTo
    <3>1. PICK q \in D, i \in Slots : ta[q][i].inUse /\ ta[q][i].dir /\ ta[q][i].sector = d
      BY <1>b, <1>c DEF TreeSound, EachLedTo
    <3>2. ~(q = p /\ i = i0)
      BY <3>1, <1>l DEF e
    <3>3. q \in D1
      BY <3>1, <3>2, <1>k
    <3>4. tb[q][i] = ta[q][i]
      BY <3>2, <1>g
    <3>5. QED BY <3>1, <3>3, <3>4
  <2>8. QED BY <2>1, <2>2, <2>3, <2>4, <2>5, <2>6, <2>7 DEF TreeSound
<1>2. HeadsSound(tb, hd, D1)
  <2>3. \A d \in D1, i \in Slots : tb[d][i].inUse =>
           tb[d][i].sector \in DOMAIN hd /\ \A s \in Own(hd, tb[d][i]) : s \notin System(hd)
    BY <1>b, <1>h DEF HeadsSound
  <2>4. OwnApart(tb, hd, D1)
    <3> SUFFICES ASSUME NEW d \in D1, NEW i \in Slots, NEW g \in D1, NEW j \in Slots,
                        tb[d][i].inUse, tb[g][j].inUse,
                        NEW s, s \in Own(hd, tb[d][i]), s \in Own(hd, tb[g][j])
                 PROVE  d = g /\ i = j
      BY DEF OwnApart
    <3>1. d \in D /\ ta[d][i].inUse /\ tb[d][i] = ta[d][i]
      BY <1>h
    <3>2. g \in D /\ ta[g][j].inUse /\ tb[g][j] = ta[g][j]
      BY <1>h
    <3>3. QED BY <3>1, <3>2, <1>b DEF HeadsSound, OwnApart
  <2>5. QED BY <2>3, <2>4, <1>b DEF HeadsSound
<1>n. \A d \in D, i \in Slots, g \in D, j \in Slots : \A s :
          /\ ta[d][i].inUse /\ ta[g][j].inUse
          /\ s \in Own(hd, ta[d][i]) /\ s \in Own(hd, ta[g][j])
          => d = g /\ i = j
  BY <1>b DEF HeadsSound, OwnApart
<1>o. \A d \in D, i \in Slots : \A s : ta[d][i].inUse /\ s \in Own(hd, ta[d][i]) => s \notin System(hd)
  BY <1>b DEF HeadsSound
<1>3. \A s : Held(tb, hd, D1, s) <=> Held(ta, hd, D, s) /\ ~Below(ta, hd, e, s)
  <2>1. ASSUME NEW s, Held(tb, hd, D1, s) PROVE Held(ta, hd, D, s) /\ ~Below(ta, hd, e, s)
    <3>1. CASE s \in System(hd)
      BY <3>1, <1>m, <1>o DEF Held, e
    <3>2. CASE \E d \in D1, i \in Slots : tb[d][i].inUse /\ s \in Own(hd, tb[d][i])
      <4>1. PICK d \in D1, i \in Slots : tb[d][i].inUse /\ s \in Own(hd, tb[d][i])
        BY <3>2
      <4>2. d \in D /\ ta[d][i].inUse /\ s \in Own(hd, ta[d][i]) /\ ~(d = p /\ i = i0)
        BY <4>1, <1>h
      <4>3. s \notin Own(hd, e)
        BY <4>2, <1>n DEF e
      <4>4. ~\E g \in D, j \in Slots : ta[g][j].inUse /\ s \in Own(hd, ta[g][j]) /\ g \notin D1
        BY <4>1, <4>2, <1>n
      <4>5. QED BY <4>2, <4>3, <4>4, <1>m DEF Held
    <3>3. QED BY <2>1, <3>1, <3>2 DEF Held
  <2>2. ASSUME NEW s, Held(ta, hd, D, s), ~Below(ta, hd, e, s) PROVE Held(tb, hd, D1, s)
    <3>1. CASE s \in System(hd)
      BY <3>1 DEF Held
    <3>2. CASE \E d \in D, i \in Slots : ta[d][i].inUse /\ s \in Own(hd, ta[d][i])
      <4>1. PICK d \in D, i \in Slots : ta[d][i].inUse /\ s \in Own(hd, ta[d][i])
        BY <3>2
      <4>2. d \in D1 /\ ~(d = p /\ i = i0)
        BY <4>1, <2>2, <1>m DEF e
      <4>3. tb[d][i] = ta[d][i]
        BY <4>2, <1>g
      <4>4. QED BY <4>1, <4>2, <4>3 DEF Held
    <3>3. QED BY <2>2, <3>1, <3>2 DEF Held
  <2>3. QED BY <2>1, <2>2
<1>4. \A s : Below(ta, hd, e, s) => Held(ta, hd, D, s)
  BY <1>m DEF Held, e
<1>5. QED BY <1>1, <1>2, <1>3, <1>4, <1>g, <1>h DEF DiskSound, D1, P1, e

(***************************************************************************)
(* What the commands find.                                                 *)
(***************************************************************************)
LEMMA FindIndexFacts ==
    ASSUME NEW table, NEW name
    PROVE  \/ /\ FindIndex(table, name) = 0
              /\ \A i \in Slots : ~(table[i].inUse /\ table[i].name = name)
           \/ /\ FindIndex(table, name) # 0
              /\ FindIndex(table, name) \in Slots
              /\ table[FindIndex(table, name)].inUse
              /\ table[FindIndex(table, name)].name = name
<1> DEFINE hit == {i \in Slots : table[i].inUse /\ table[i].name = name}
           least == CHOOSE i \in hit : \A j \in hit : i <= j
<1>1. CASE hit = {}
  <2>1. FindIndex(table, name) = 0
    BY <1>1 DEF FindIndex
  <2>2. QED BY <1>1, <2>1
<1>2. CASE hit # {}
  <2>1. hit \subseteq Nat
    BY ConstantFacts DEF Slots
  <2> HIDE DEF hit
  <2>2. \E i \in hit : \A j \in hit : i <= j
    BY <1>2, <2>1, LeastElement
  <2>3. least \in hit
    BY <2>2
  <2>4. FindIndex(table, name) = least
    BY <1>2 DEF FindIndex, hit
  <2>5. 0 \notin Slots
    BY ConstantFacts DEF Slots
  <2> HIDE DEF least
  <2>6. least \in Slots /\ table[least].inUse /\ table[least].name = name
    BY <2>3 DEF hit
  <2>7. QED BY <2>4, <2>5, <2>6
<1>3. QED BY <1>1, <1>2

(* Add's slot is one that is not in use.                                   *)
LEMMA FreeSlotFacts ==
    ASSUME NEW table, FreeSlot(table) # 0
    PROVE  FreeSlot(table) \in Slots /\ ~table[FreeSlot(table)].inUse
<1> DEFINE free == {i \in Slots : ~table[i].inUse}
           least == CHOOSE i \in free : \A j \in free : i <= j
<1>1. free # {}
  BY DEF FreeSlot
<1>2. free \subseteq Nat
  BY ConstantFacts DEF Slots
<1>3. FreeSlot(table) = least
  BY <1>1 DEF FreeSlot
<1> HIDE DEF free
<1>4. \E i \in free : \A j \in free : i <= j
  BY <1>1, <1>2, LeastElement
<1>5. least \in free
  BY <1>4
<1>6. QED BY <1>3, <1>5 DEF free

(* One name of a path.                                                     *)
Walk(tb, s, name) ==
    IF s # NoSector /\ IsDirectory(TableAt(tb, s), name) THEN Find(TableAt(tb, s), name) ELSE NoSector

(* ProcessPath walks down from the root, one name at a time.               *)
LEMMA ProcessPathRecursion ==
    ASSUME NEW tb, NEW path \in Paths
    PROVE  \E f : /\ f[0] = DirectorySector
                  /\ \A i \in 1..(Len(path) - 1) : f[i] = Walk(tb, f[i - 1], path[i])
                  /\ ProcessPath(tb, path) = f[Len(path) - 1]
<1> DEFINE N == Len(path) - 1
           A == {DirectorySector, NoSector}
                    \cup {Find(tb[s], path[i]) : s \in DOMAIN tb, i \in 1..N}
                    \cup {Find(GarbageTable, path[i]) : i \in 1..N}
           Step == [n \in 1..N |-> [s \in A |-> Walk(tb, s, path[n])]]
           F(f) == [i \in 0..N |-> IF i = 0 THEN DirectorySector
                                   ELSE IF f[i - 1] # NoSector /\ IsDirectory(TableAt(tb, f[i - 1]), path[i])
                                        THEN Find(TableAt(tb, f[i - 1]), path[i])
                                        ELSE NoSector]
           at == CHOOSE f : f = F(f)
<1>1. N \in Nat /\ DirectorySector \in A
  BY MaxDepthFacts
<1>2. \A s \in A, n \in 1..N : Walk(tb, s, path[n]) \in A
  <2> HIDE DEF A, N
  <2> SUFFICES ASSUME NEW s \in A, NEW n \in 1..N PROVE Walk(tb, s, path[n]) \in A
    OBVIOUS
  <2> USE DEF A, N
  <2>1. s \in DOMAIN tb => Find(TableAt(tb, s), path[n]) \in A
    BY DEF TableAt
  <2>2. s \notin DOMAIN tb => Find(TableAt(tb, s), path[n]) \in A
    BY DEF TableAt
  <2>3. NoSector \in A
    OBVIOUS
  <2> HIDE DEF A
  <2>4. QED BY <2>1, <2>2, <2>3 DEF Walk
<1>3. Step \in [1..N -> [A -> A]] /\ \A n \in 1..N, s \in A : Step[n][s] = Walk(tb, s, path[n])
  <2> HIDE DEF A, N
  <2> QED BY <1>2
<1> HIDE DEF Step
<1>4. PICK g \in [0..N -> A] : Recurs(g, DirectorySector, N, Step)
  <2> HIDE DEF N, A
  <2>1. Step \in Steps(N, A)
    BY <1>3 DEF Steps
  <2> QED BY <1>1, <2>1, RecursionExists
<1>5. g[0] = DirectorySector /\ \A n \in 1..N : g[n] = Walk(tb, g[n - 1], path[n])
  <2>1. ASSUME NEW n \in 1..N PROVE g[n] = Walk(tb, g[n - 1], path[n])
    <3>1. n - 1 \in 0..N
      BY <1>1
    <3> HIDE DEF N, A
    <3>2. g[n - 1] \in A
      BY <1>4, <3>1
    <3>3. QED BY <1>3, <1>4, <3>2 DEF Recurs
  <2>2. QED BY <1>4, <2>1 DEF Recurs
<1>6. g = F(g)
  <2>1. \A n \in 0..N : n = 0 \/ n \in 1..N
    BY <1>1
  <2>2. \A n \in 0..N : g[n] = F(g)[n]
    <3> HIDE DEF N
    <3> QED BY <1>5, <2>1 DEF Walk
  <2> HIDE DEF N, A
  <2>3. QED BY <1>4, <2>2
<1>7. at = F(at)
  <2> HIDE DEF F
  <2> QED BY <1>6
<1>8. ProcessPath(tb, path) = at[N]
  BY DEF ProcessPath
<1> HIDE DEF at
<1>9. at[0] = DirectorySector /\ \A n \in 1..N : at[n] = Walk(tb, at[n - 1], path[n])
  <2>1. 0 \in 0..N /\ \A n \in 1..N : n \in 0..N /\ n # 0
    BY <1>1
  <2>2. \A n \in 0..N : at[n] = F(at)[n]
    BY <1>7
  <2> HIDE DEF N
  <2>3. QED BY <2>1, <2>2 DEF Walk
<1>10. QED BY <1>8, <1>9

(* ProcessPath finds the directory whose path is the given one but for its *)
(* last name.                                                              *)
LEMMA ProcessPathFacts ==
    ASSUME NEW tb, NEW D, NEW P, TreeSound(tb, D, P), NEW path \in Paths,
           ProcessPath(tb, path) # NoSector
    PROVE  /\ ProcessPath(tb, path) \in D
           /\ Append(P[ProcessPath(tb, path)], Last(path)) = path
           /\ Last(path) \in Names
<1> DEFINE N == Len(path) - 1
<1>1. PICK f : /\ f[0] = DirectorySector
               /\ \A i \in 1..(Len(path) - 1) : f[i] = Walk(tb, f[i - 1], path[i])
               /\ ProcessPath(tb, path) = f[Len(path) - 1]
  BY ProcessPathRecursion, Zenon
<1>2. N \in Nat /\ path \in Seq(Names) /\ Len(path) = N + 1
  BY MaxDepthFacts
<1>3. \A d \in D : P[d] \in Seq(Names)
  BY DEF TreeSound
<1> DEFINE Found(i) == /\ f[i] \in D /\ Len(P[f[i]]) = i
                       /\ \A j \in 1..i : P[f[i]][j] = path[j]
           Q == {i \in Nat : i <= N /\ f[i] # NoSector => Found(i)}
<1>4. 0 \in Q
  BY <1>1 DEF TreeSound
<1>5. ASSUME NEW i \in Nat, i \in Q PROVE i + 1 \in Q
  <2> SUFFICES ASSUME i + 1 <= N, f[i + 1] # NoSector PROVE Found(i + 1)
    OBVIOUS
  <2>1. i + 1 \in 1..(Len(path) - 1) /\ (i + 1) - 1 = i /\ i <= N
    BY <1>2
  <2> DEFINE s == f[i]
             name == path[i + 1]
             k == FindIndex(tb[s], name)
  <2>2. f[i + 1] = Walk(tb, s, name)
    BY <1>1, <2>1
  <2>3. s # NoSector /\ IsDirectory(TableAt(tb, s), name) /\ f[i + 1] = Find(TableAt(tb, s), name)
    BY <2>2 DEF Walk
  <2>4. Found(i)
    BY <1>5, <2>1, <2>3
  <2>5. TableAt(tb, s) = tb[s]
    BY <2>4 DEF TableAt, TreeSound
  <2>6. k # 0 /\ tb[s][k].dir /\ f[i + 1] = tb[s][k].sector
    BY <2>3, <2>5 DEF IsDirectory, Find
  <2>7. k \in Slots /\ tb[s][k].inUse /\ tb[s][k].name = name
    BY <2>6, FindIndexFacts
  <2>8. s \in D /\ P[s] \in Seq(Names) /\ Len(P[s]) = i /\ \A j \in 1..i : P[s][j] = path[j]
    BY <2>4, <1>3
  <2> HIDE DEF s, k
  <2>9. /\ f[i + 1] \in D /\ P[f[i + 1]] = Append(P[s], name) /\ name \in Names
    BY <2>6, <2>7, <2>8 DEF TreeSound, EntriesSound
  <2> HIDE DEF name
  <2>10. /\ Len(P[f[i + 1]]) = i + 1 /\ P[f[i + 1]][i + 1] = name
         /\ \A j \in 1..i : P[f[i + 1]][j] = path[j]
    BY <2>8, <2>9
  <2>11. QED BY <2>9, <2>10 DEF name
<1>6. Found(N) /\ N \in Nat
  <2>1. \A i \in Nat : i \in Q
    <3> HIDE DEF Q
    <3> QED BY <1>4, <1>5, InductionOnSet
  <2>2. f[N] # NoSector
    BY <1>1
  <2>3. N \in Q
    <3> HIDE DEF Q
    <3> QED BY <2>1, <1>2
  <2> HIDE DEF Found
  <2>4. N \in Nat /\ N <= N
    BY <1>2
  <2>5. QED BY <2>2, <2>3, <2>4
<1> DEFINE d == f[N]
           c == Append(P[d], Last(path))
<1>7. Last(path) = path[N + 1] /\ Last(path) \in Names
  BY <1>2 DEF Last
<1>8. P[d] \in Seq(Names) /\ Len(P[d]) = N /\ \A j \in 1..N : P[d][j] = path[j]
  BY <1>6, <1>3
<1> HIDE DEF d
<1>9. /\ c \in Seq(Names) /\ Len(c) = N + 1 /\ c[N + 1] = path[N + 1]
      /\ \A j \in 1..N : c[j] = path[j]
  BY <1>6, <1>7, <1>8
<1>10. c = path
  <2> HIDE DEF c
  <2> HIDE DEF N
  <2>1. \A j \in 1..(N + 1) : c[j] = path[j]
    BY <1>6, <1>9
  <2>2. QED BY <1>2, <1>9, <2>1
<1>11. QED BY <1>1, <1>6, <1>7, <1>10 DEF d

(***************************************************************************)
(* A disk an abort may leave.                                              *)
(***************************************************************************)
Covered(tb, hd, U, D) == \A s : Held(tb, hd, D, s) => s \in U
NoneLost(tb, hd, U, orph, D) == \A s \in U : Held(tb, hd, D, s) \/ s \in orph
OnlyBelow(tb, hd, U, D, p, i) ==
    \A s : Held(tb, hd, D, s) /\ s \notin U => Below(tb, hd, tb[p][i], s)
OneAtFault(tb, hd, U, D) ==
    \/ Covered(tb, hd, U, D)
    \/ \E p \in D, i \in Slots : tb[p][i].inUse /\ OnlyBelow(tb, hd, U, D, p, i)

Settled(tb, hd, U, orph, D, P) ==
    DiskSound(tb, hd, D, P) /\ NoneLost(tb, hd, U, orph, D) /\ OneAtFault(tb, hd, U, D)

(* What is below an entry is below it on a disk that agrees.               *)
LEMMA SameBelow ==
    ASSUME NEW ta, NEW ha, NEW tb, NEW hb, NEW D, NEW P,
           DiskSound(ta, ha, D, P), Agree(ta, ha, tb, hb, D),
           NEW p \in D, NEW i0 \in Slots, ta[p][i0].inUse, NEW s
    PROVE  Below(tb, hb, tb[p][i0], s) <=> Below(ta, ha, ta[p][i0], s)
<1>1. DiskSound(tb, hb, D, P)
  BY SameDisk
<1>2. TreeSound(ta, D, P) /\ TreeSound(tb, D, P)
  BY <1>1 DEF DiskSound
<1>3. \A d \in D : tb[d] = ta[d]
  BY DEF Agree
<1>4. \A x : x \in Subtree(ta, {ta[p][i0]}) <=>
               \/ x = ta[p][i0]
               \/ \E d \in D, i \in Slots : /\ ta[d][i].inUse /\ x = ta[d][i] /\ Gone(ta, P, p, i0, d)
  BY <1>2, SubtreeOf
<1>5. \A x : x \in Subtree(tb, {tb[p][i0]}) <=>
               \/ x = tb[p][i0]
               \/ \E d \in D, i \in Slots : /\ tb[d][i].inUse /\ x = tb[d][i] /\ Gone(tb, P, p, i0, d)
  BY <1>2, <1>3, SubtreeOf
<1>6. \A d \in D : Gone(ta, P, p, i0, d) <=> Gone(tb, P, p, i0, d)
  BY <1>3 DEF Gone
<1>7. \A x : x \in Subtree(tb, {tb[p][i0]}) <=> x \in Subtree(ta, {ta[p][i0]})
  <2>1. \A x : (\E d \in D, i \in Slots : /\ tb[d][i].inUse /\ x = tb[d][i] /\ Gone(tb, P, p, i0, d))
                  <=> \E d \in D, i \in Slots : /\ ta[d][i].inUse /\ x = ta[d][i] /\ Gone(ta, P, p, i0, d)
    BY <1>3, <1>6
  <2>2. tb[p][i0] = ta[p][i0]
    BY <1>3
  <2>3. QED BY <2>1, <2>2, <1>4, <1>5, Zenon
<1>8. \A x \in Subtree(ta, {ta[p][i0]}) : Own(hb, x) = Own(ha, x)
  BY <1>4 DEF Agree, Own
<1>9. QED BY <1>7, <1>8 DEF Below

(* A disk that agrees on what the directories lead to is settled alike.    *)
LEMMA SettledSame ==
    ASSUME NEW ta, NEW ha, NEW tb, NEW hb, NEW U, NEW orph, NEW D, NEW P,
           Settled(ta, ha, U, orph, D, P), Agree(ta, ha, tb, hb, D)
    PROVE  /\ Settled(tb, hb, U, orph, D, P)
           /\ \A s : Held(tb, hb, D, s) <=> Held(ta, ha, D, s)
<1>0. DiskSound(ta, ha, D, P)
  BY DEF Settled
<1>1. DiskSound(tb, hb, D, P) /\ \A s : Held(tb, hb, D, s) <=> Held(ta, ha, D, s)
  BY <1>0, SameDisk
<1>2. \A d \in D : tb[d] = ta[d]
  BY DEF Agree
<1>3. NoneLost(tb, hb, U, orph, D)
  BY <1>1 DEF Settled, NoneLost
<1>4. OneAtFault(tb, hb, U, D)
  <2>1. CASE Covered(ta, ha, U, D)
    BY <2>1, <1>1 DEF Covered, OneAtFault
  <2>2. CASE \E p \in D, i \in Slots : ta[p][i].inUse /\ OnlyBelow(ta, ha, U, D, p, i)
    <3>1. PICK p \in D, i \in Slots : ta[p][i].inUse /\ OnlyBelow(ta, ha, U, D, p, i)
      BY <2>2
    <3>2. \A s : Below(tb, hb, tb[p][i], s) <=> Below(ta, ha, ta[p][i], s)
      BY <1>0, <3>1, SameBelow
    <3>3. tb[p][i].inUse /\ OnlyBelow(tb, hb, U, D, p, i)
      BY <1>1, <1>2, <3>1, <3>2 DEF OnlyBelow
    <3>4. QED BY <3>3 DEF OneAtFault
  <2>3. QED BY <2>1, <2>2 DEF Settled, OneAtFault
<1>5. QED BY <1>1, <1>3, <1>4 DEF Settled

(* On a sound disk the model's Files, Reachable and Subtree are what the   *)
(* directories of D hold.                                                  *)
LEMMA DiskFacts ==
    ASSUME NEW D, NEW P, DiskSound(tab, head, D, P)
    PROVE  /\ \A e : e \in Files <=> \E d \in D, i \in Slots : tab[d][i].inUse /\ e = tab[d][i]
           /\ \A s : s \in Reachable <=> Held(tab, head, D, s)
           /\ \A d \in D, i \in Slots : tab[d][i].inUse =>
                /\ \A s : s \in SectorsOf(Subtree(tab, {tab[d][i]})) <=> Below(tab, head, tab[d][i], s)
                /\ SectorsOf({tab[d][i]}) = Own(head, tab[d][i])
                /\ tab[d][i] \in Subtree(tab, {tab[d][i]})
<1>1. TreeSound(tab, D, P) /\ HeadsSound(tab, head, D)
  BY DEF DiskSound
<1>2. \A e : e \in Files <=> \E d \in D, i \in Slots : tab[d][i].inUse /\ e = tab[d][i]
  BY <1>1, FilesOf DEF Files
<1>3. \A d \in D, i \in Slots : tab[d][i].inUse =>
          {tab[d][i].sector} \cup HeaderAt(tab[d][i].sector) = Own(head, tab[d][i])
  BY <1>1 DEF HeadsSound, HeaderAt, Own
<1>4. \A s : s \in Reachable <=> Held(tab, head, D, s)
  <2>1. SystemSectors = System(head)
    BY DEF SystemSectors, System
  <2>2. \A s : s \in SectorsOf(Files) <=> \E d \in D, i \in Slots : tab[d][i].inUse /\ s \in Own(head, tab[d][i])
    <3>1. \A s : s \in SectorsOf(Files) <=> \E e \in Files : s \in {e.sector} \cup HeaderAt(e.sector)
      BY DEF SectorsOf
    <3>2. ASSUME NEW s, s \in SectorsOf(Files)
          PROVE  \E d \in D, i \in Slots : tab[d][i].inUse /\ s \in Own(head, tab[d][i])
      <4>1. PICK e \in Files : s \in {e.sector} \cup HeaderAt(e.sector)
        BY <3>1, <3>2
      <4>2. PICK d \in D, i \in Slots : tab[d][i].inUse /\ e = tab[d][i]
        BY <1>2
      <4>3. QED BY <4>1, <4>2, <1>3
    <3>3. ASSUME NEW s, NEW d \in D, NEW i \in Slots, tab[d][i].inUse, s \in Own(head, tab[d][i])
          PROVE  s \in SectorsOf(Files)
      <4>1. tab[d][i] \in Files /\ s \in {tab[d][i].sector} \cup HeaderAt(tab[d][i].sector)
        BY <3>3, <1>2, <1>3
      <4>2. QED BY <4>1, <3>1
    <3>4. QED BY <3>2, <3>3
  <2>3. QED BY <2>1, <2>2 DEF Reachable, Held
<1>5. ASSUME NEW p \in D, NEW i0 \in Slots, tab[p][i0].inUse
      PROVE  /\ \A s : s \in SectorsOf(Subtree(tab, {tab[p][i0]})) <=> Below(tab, head, tab[p][i0], s)
             /\ SectorsOf({tab[p][i0]}) = Own(head, tab[p][i0])
             /\ tab[p][i0] \in Subtree(tab, {tab[p][i0]})
  <2>1. \A x : x \in Subtree(tab, {tab[p][i0]}) <=>
               \/ x = tab[p][i0]
               \/ \E d \in D, i \in Slots : /\ tab[d][i].inUse /\ x = tab[d][i] /\ Gone(tab, P, p, i0, d)
    BY <1>1, <1>5, SubtreeOf
  <2>2. \A x \in Subtree(tab, {tab[p][i0]}) : {x.sector} \cup HeaderAt(x.sector) = Own(head, x)
    BY <1>3, <1>5, <2>1
  <2>3. \A s : s \in SectorsOf(Subtree(tab, {tab[p][i0]})) <=>
                  \E x \in Subtree(tab, {tab[p][i0]}) : s \in {x.sector} \cup HeaderAt(x.sector)
    BY DEF SectorsOf
  <2>4. \A s : s \in SectorsOf(Subtree(tab, {tab[p][i0]})) <=> Below(tab, head, tab[p][i0], s)
    BY <2>2, <2>3 DEF Below
  <2>5. SectorsOf({tab[p][i0]}) = Own(head, tab[p][i0])
    BY <1>3, <1>5 DEF SectorsOf
  <2>6. QED BY <2>1, <2>4, <2>5
<1>6. QED BY <1>2, <1>4, <1>5

(* On a settled disk nothing has leaked and the damage is confined.        *)
LEMMA SettledMeans ==
    ASSUME NEW D, NEW P, Settled(tab, head, used, orphans, D, P)
    PROVE  NoLeak /\ DamageConfined
<1>1. /\ \A e : e \in Files <=> \E d \in D, i \in Slots : tab[d][i].inUse /\ e = tab[d][i]
      /\ \A s : s \in Reachable <=> Held(tab, head, D, s)
      /\ \A d \in D, i \in Slots : tab[d][i].inUse =>
            \A s : s \in SectorsOf(Subtree(tab, {tab[d][i]})) <=> Below(tab, head, tab[d][i], s)
  BY DiskFacts DEF Settled
<1>2. NoLeak
  BY <1>1 DEF NoLeak, Settled, NoneLost
<1>3. DamageConfined
  <2>1. CASE Covered(tab, head, used, D)
    BY <2>1, <1>1 DEF DamageConfined, Covered
  <2>2. CASE \E p \in D, i \in Slots : tab[p][i].inUse /\ OnlyBelow(tab, head, used, D, p, i)
    <3>1. PICK p \in D, i \in Slots : tab[p][i].inUse /\ OnlyBelow(tab, head, used, D, p, i)
      BY <2>2
    <3>2. Reachable \ used \subseteq SectorsOf(Subtree(tab, {tab[p][i]}))
      BY <1>1, <3>1 DEF OnlyBelow
    <3>3. tab[p][i] \in Files
      BY <1>1, <3>1
    <3>4. QED BY <3>2, <3>3 DEF DamageConfined
  <2>3. QED BY <2>1, <2>2 DEF Settled, OneAtFault
<1>4. QED BY <1>2, <1>3

(***************************************************************************)
(* The names.                                                              *)
(***************************************************************************)
InTree(tb, D, P, n) ==
    \E d \in D, i \in Slots :
        tb[d][i].inUse /\ n = [path |-> Append(P[d], tb[d][i].name), dir |-> tb[d][i].dir]

(* A path is that of one entry.                                            *)
LEMMA PlacePaths ==
    ASSUME NEW tb, NEW D, NEW P, TreeSound(tb, D, P),
           NEW d \in D, NEW i \in Slots, NEW g \in D, NEW j \in Slots,
           tb[d][i].inUse, tb[g][j].inUse,
           Append(P[d], tb[d][i].name) = Append(P[g], tb[g][j].name)
    PROVE  d = g /\ i = j
<1>1. /\ P[d] \in Seq(Names) /\ P[g] \in Seq(Names)
      /\ tb[d][i].name \in Names /\ tb[g][j].name \in Names
  BY DEF TreeSound, EntriesSound
<1>2. P[d] = P[g] /\ tb[d][i].name = tb[g][j].name
  <2> DEFINE x == tb[d][i].name
             y == tb[g][j].name
             s == P[d]
             t == P[g]
  <2>1. /\ s \in Seq(Names) /\ t \in Seq(Names) /\ x \in Names /\ y \in Names
        /\ Append(s, x) = Append(t, y)
    BY <1>1
  <2> HIDE DEF x, y, s, t
  <2>2. s = t /\ x = y
    BY <2>1, AppendInjective
  <2>3. QED BY <2>2 DEF x, y, s, t
<1>3. d = g
  BY <1>2 DEF TreeSound
<1>4. QED BY <1>2, <1>3 DEF TreeSound, NamesDiffer

(* What leads to a longer path leads to its front or is the path itself.   *)
LEMMA LeadsToFront ==
    ASSUME NEW S, NEW r \in Seq(S), NEW q \in Seq(S), NEW x \in S
    PROVE  Leads(r, Append(q, x)) <=> Leads(r, q) \/ r = Append(q, x)
<1> DEFINE w == Append(q, x)
<1>1. w \in Seq(S) /\ Len(w) = Len(q) + 1 /\ \A j \in 1..Len(q) : w[j] = q[j]
  OBVIOUS
<1>2. Len(r) \in Nat /\ Len(q) \in Nat
  OBVIOUS
<1> HIDE DEF w
<1>3. Leads(r, q) => Leads(r, w)
  BY <1>1, <1>2 DEF Leads
<1>4. r = w => Leads(r, w)
  BY <1>2 DEF Leads
<1>5. ASSUME Leads(r, w), r # w PROVE Leads(r, q)
  <2>1. Len(r) # Len(w)
    <3> SUFFICES ASSUME Len(r) = Len(w) PROVE FALSE
      OBVIOUS
    <3>1. \A j \in 1..Len(r) : r[j] = w[j]
      BY <1>5 DEF Leads
    <3>2. QED BY <1>1, <1>5, <3>1
  <2>2. QED BY <1>1, <1>2, <1>5, <2>1 DEF Leads
<1>6. QED BY <1>3, <1>4, <1>5 DEF w

(* No directory is below a file.                                           *)
LEMMA NoneBelowFile ==
    ASSUME NEW tb, NEW D, NEW P, TreeSound(tb, D, P),
           NEW p \in D, NEW i0 \in Slots, tb[p][i0].inUse, ~tb[p][i0].dir
    PROVE  \A d \in D : ~Leads(Append(P[p], tb[p][i0].name), P[d])
<1> DEFINE r == Append(P[p], tb[p][i0].name)
           Q == {k \in Nat : \A d \in D : Len(P[d]) = k => ~Leads(r, P[d])}
<1>1. r \in Seq(Names) /\ Len(r) \in Nat \ {0}
  <2>1. r \in Paths
    BY DEF TreeSound, EntriesSound
  <2>2. QED BY <2>1, MaxDepthFacts
<1>2. 0 \in Q
  BY <1>1 DEF Leads
<1>3. ASSUME NEW k \in Nat, k \in Q PROVE k + 1 \in Q
  <2> SUFFICES ASSUME NEW d \in D, Len(P[d]) = k + 1 PROVE ~Leads(r, P[d])
    OBVIOUS
  <2>0. Len(P[d]) = 0 <=> d = DirectorySector
    BY PathFacts
  <2>1. d # DirectorySector
    BY <2>0
  <2>2. PICK q \in D, i \in Slots :
               /\ tb[q][i].inUse /\ tb[q][i].dir /\ tb[q][i].sector = d
               /\ tb[q][i].name \in Names
               /\ P[d] = Append(P[q], tb[q][i].name) /\ P[d] \in Paths
               /\ Len(P[d]) = Len(P[q]) + 1
    BY <2>1, ParentOf
  <2>3. P[q] \in Seq(Names) /\ Len(P[q]) \in Nat
    BY PathFacts
  <2>4. ~Leads(r, P[q])
    <3>1. Len(P[q]) + 1 = k + 1
      BY <2>2
    <3>2. Len(P[q]) = k
      BY <2>3, <3>1
    <3>3. QED BY <1>3, <3>2
  <2>5. r # P[d]
    <3> SUFFICES ASSUME r = P[d] PROVE FALSE
      OBVIOUS
    <3>1. Append(P[p], tb[p][i0].name) = Append(P[q], tb[q][i].name)
      BY <2>2
    <3>2. p = q /\ i0 = i
      BY <2>2, <3>1, PlacePaths
    <3>3. QED BY <2>2, <3>2
  <2> HIDE DEF r
  <2>6. Leads(r, P[d]) <=> Leads(r, P[q]) \/ r = P[d]
    BY <1>1, <2>2, <2>3, LeadsToFront
  <2>7. QED BY <2>4, <2>5, <2>6
<1>4. \A k \in Nat : k \in Q
  <2> HIDE DEF Q
  <2> QED BY <1>2, <1>3, InductionOnSet
<1>5. QED BY <1>4, PathFacts

(* The step from one tree to another: nothing, a name or a removal.        *)
SameNames(ta, Da, Pa, tb, Db, Pb) == \A n : InTree(tb, Db, Pb, n) <=> InTree(ta, Da, Pa, n)
OneMore(ta, Da, Pa, tb, Db, Pb) ==
    \E q \in Seq(Names), x \in Names, isDir \in BOOLEAN :
        /\ Append(q, x) \in Paths
        /\ \A n : InTree(ta, Da, Pa, n) => n.path # Append(q, x)
        /\ q = <<>> \/ InTree(ta, Da, Pa, [path |-> q, dir |-> TRUE])
        /\ \A n : InTree(tb, Db, Pb, n) <=>
                      InTree(ta, Da, Pa, n) \/ n = [path |-> Append(q, x), dir |-> isDir]
OneLess(ta, Da, Pa, tb, Db, Pb) ==
    \E m : /\ InTree(ta, Da, Pa, m)
           /\ \A n : InTree(tb, Db, Pb, n) <=> InTree(ta, Da, Pa, n) /\ ~Leads(m.path, n.path)
NamesStep(ta, Da, Pa, tb, Db, Pb) ==
    \/ SameNames(ta, Da, Pa, tb, Db, Pb)
    \/ OneMore(ta, Da, Pa, tb, Db, Pb)
    \/ OneLess(ta, Da, Pa, tb, Db, Pb)

(* A disk that agrees on what the directories lead to has the same names.  *)
LEMMA NamesAgree ==
    ASSUME NEW ta, NEW ha, NEW tb, NEW hb, NEW D, NEW P, Agree(ta, ha, tb, hb, D)
    PROVE  SameNames(ta, D, P, tb, D, P)
BY DEF Agree, SameNames, InTree

(* An entry added is one more name, in a directory that is there.          *)
LEMMA NamesAdded ==
    ASSUME NEW ta, NEW tb, NEW hd, NEW D, NEW P, NEW p, NEW i0, NEW e,
           DiskSound(ta, hd, D, P), Addable(ta, hd, D, P, p, i0, e),
           TablesWith(ta, tb, D, p, i0, e)
    PROVE  OneMore(ta, D, P, tb, DirsWith(D, e), PathsWith(D, P, p, e))
<1> DEFINE D1 == DirsWith(D, e)
           P1 == PathsWith(D, P, p, e)
           path == Append(P[p], e.name)
           new == [path |-> path, dir |-> e.dir]
<1>1. TreeSound(ta, D, P)
  BY DEF DiskSound
<1>2. /\ p \in D /\ i0 \in Slots /\ ~ta[p][i0].inUse /\ e.inUse
      /\ e.name \in Names /\ path \in Paths /\ e.dir \in BOOLEAN
      /\ P[p] \in Seq(Names)
      /\ \A d \in D : d \in D1 /\ P1[d] = P[d]
  BY <1>1 DEF Addable, Entry, TreeSound, DirsWith, PathsWith
<1>3. /\ tb[p][i0] = e
      /\ \A d \in D1, i \in Slots : tb[d][i].inUse =>
                  \/ d = p /\ i = i0
                  \/ d \in D /\ ta[d][i].inUse /\ tb[d][i] = ta[d][i]
  BY EntryAdded
<1>4. ta[p] \in [Slots -> Entry]
  BY <1>1, <1>2 DEF TreeSound
<1>5. \A d \in D, i \in Slots : ta[d][i].inUse => tb[d][i] = ta[d][i]
  BY <1>2, <1>4 DEF TablesWith
<1>6. \A n : InTree(tb, D1, P1, n) <=> InTree(ta, D, P, n) \/ n = new
  <2> HIDE DEF D1, P1
  <2>1. ASSUME NEW n, InTree(tb, D1, P1, n) PROVE InTree(ta, D, P, n) \/ n = new
    <3>1. PICK d \in D1, i \in Slots :
            tb[d][i].inUse /\ n = [path |-> Append(P1[d], tb[d][i].name), dir |-> tb[d][i].dir]
      BY <2>1 DEF InTree
    <3>2. CASE d = p /\ i = i0
      BY <3>1, <3>2, <1>2, <1>3
    <3>3. CASE d \in D /\ ta[d][i].inUse /\ tb[d][i] = ta[d][i]
      BY <3>1, <3>3, <1>2 DEF InTree
    <3>4. QED BY <3>1, <3>2, <3>3, <1>3
  <2>2. ASSUME NEW n, InTree(ta, D, P, n) PROVE InTree(tb, D1, P1, n)
    <3>1. PICK d \in D, i \in Slots :
            ta[d][i].inUse /\ n = [path |-> Append(P[d], ta[d][i].name), dir |-> ta[d][i].dir]
      BY <2>2 DEF InTree
    <3>2. d \in D1 /\ P1[d] = P[d] /\ tb[d][i] = ta[d][i]
      BY <3>1, <1>2, <1>5
    <3>3. QED BY <3>1, <3>2 DEF InTree
  <2>3. InTree(tb, D1, P1, new)
    BY <1>2, <1>3 DEF InTree
  <2>4. QED BY <2>1, <2>2, <2>3
<1>7. ASSUME NEW n, InTree(ta, D, P, n) PROVE n.path # path
  <2>1. PICK d \in D, i \in Slots :
            ta[d][i].inUse /\ n = [path |-> Append(P[d], ta[d][i].name), dir |-> ta[d][i].dir]
    BY <1>7 DEF InTree
  <2>2. P[d] \in Seq(Names) /\ ta[d][i].name \in Names
    BY <2>1, <1>1 DEF TreeSound, EntriesSound
  <2> SUFFICES ASSUME Append(P[d], ta[d][i].name) = Append(P[p], e.name) PROVE FALSE
    BY <2>1
  <2>3. P[d] = P[p] /\ ta[d][i].name = e.name
    <3> DEFINE x == ta[d][i].name
               s == P[d]
               t == P[p]
    <3>1. /\ s \in Seq(Names) /\ t \in Seq(Names) /\ x \in Names /\ e.name \in Names
          /\ Append(s, x) = Append(t, e.name)
      BY <2>2, <1>2
    <3> HIDE DEF x, s, t
    <3>2. s = t /\ x = e.name
      BY <3>1, AppendInjective
    <3>3. QED BY <3>2 DEF x, s, t
  <2>4. d = p
    BY <2>3, <1>1, <1>2 DEF TreeSound
  <2>5. QED BY <2>1, <2>3, <2>4 DEF Addable
<1>8. P[p] = <<>> \/ InTree(ta, D, P, [path |-> P[p], dir |-> TRUE])
  <2>1. CASE p = DirectorySector
    BY <2>1, <1>1 DEF TreeSound
  <2>2. CASE p # DirectorySector
    <3>1. PICK q \in D, i \in Slots :
               /\ ta[q][i].inUse /\ ta[q][i].dir /\ ta[q][i].sector = p
               /\ ta[q][i].name \in Names
               /\ P[p] = Append(P[q], ta[q][i].name) /\ P[p] \in Paths
               /\ Len(P[p]) = Len(P[q]) + 1
      BY <2>2, <1>1, <1>2, ParentOf
    <3>2. ta[q][i].dir = TRUE
      BY <3>1, <1>1 DEF TreeSound, Entry
    <3>3. QED BY <3>1, <3>2 DEF InTree
  <2>3. QED BY <2>1, <2>2
<1> HIDE DEF D1, P1
<1>9. QED BY <1>2, <1>6, <1>7, <1>8 DEF OneMore, D1, P1

(* An entry cleared takes its name away with all names below it.           *)
LEMMA NamesRemoved ==
    ASSUME NEW ta, NEW tb, NEW hd, NEW D, NEW P, NEW p \in D, NEW i0 \in Slots,
           DiskSound(ta, hd, D, P), ta[p][i0].inUse, TablesLess(ta, tb, D, p, i0)
    PROVE  OneLess(ta, D, P, tb, DirsLeft(ta, D, P, p, i0), PathsLeft(ta, D, P, p, i0))
<1> DEFINE D1 == DirsLeft(ta, D, P, p, i0)
           P1 == PathsLeft(ta, D, P, p, i0)
           r == Append(P[p], ta[p][i0].name)
           m == [path |-> r, dir |-> ta[p][i0].dir]
<1>1. TreeSound(ta, D, P)
  BY DEF DiskSound
<1>2. /\ \A d \in D1, i \in Slots : tb[d][i].inUse =>
                  d \in D /\ ta[d][i].inUse /\ tb[d][i] = ta[d][i] /\ ~(d = p /\ i = i0)
      /\ \A d \in D, i \in Slots : ta[d][i].inUse /\ ~(d = p /\ i = i0) =>
                  d \notin D1 \/ tb[d][i] = ta[d][i]
  BY EntryRemoved
<1>3. \A d : d \in D1 <=> d \in D /\ ~Gone(ta, P, p, i0, d)
  BY DEF DirsLeft
<1>4. \A d \in D1 : P1[d] = P[d]
  BY DEF PathsLeft
<1>5. r \in Seq(Names)
  <2>1. r \in Paths
    BY <1>1 DEF TreeSound, EntriesSound
  <2>2. QED BY <2>1, MaxDepthFacts
<1>6. \A d \in D : Gone(ta, P, p, i0, d) <=> Leads(r, P[d])
  <2>1. CASE ta[p][i0].dir
    <3>1. P[ta[p][i0].sector] = r
      BY <2>1, <1>1 DEF TreeSound, EntriesSound
    <3>2. QED BY <2>1, <3>1 DEF Gone
  <2>2. CASE ~ta[p][i0].dir
    <3>1. \A d \in D : ~Leads(r, P[d])
      BY <2>2, <1>1, NoneBelowFile
    <3>2. QED BY <2>2, <3>1 DEF Gone
  <2>3. QED BY <2>1, <2>2
<1>7. \A d \in D, i \in Slots : ta[d][i].inUse =>
          (Leads(r, Append(P[d], ta[d][i].name)) <=> d \notin D1 \/ (d = p /\ i = i0))
  <2> SUFFICES ASSUME NEW d \in D, NEW i \in Slots, ta[d][i].inUse
               PROVE  Leads(r, Append(P[d], ta[d][i].name)) <=> d \notin D1 \/ (d = p /\ i = i0)
    OBVIOUS
  <2>1. P[d] \in Seq(Names) /\ ta[d][i].name \in Names
    BY <1>1 DEF TreeSound, EntriesSound
  <2>2. r = Append(P[d], ta[d][i].name) <=> d = p /\ i = i0
    BY <1>1, PlacePaths
  <2> HIDE DEF r
  <2>3. Leads(r, Append(P[d], ta[d][i].name)) <=> Leads(r, P[d]) \/ r = Append(P[d], ta[d][i].name)
    BY <2>1, <1>5, LeadsToFront
  <2>4. QED BY <2>2, <2>3, <1>3, <1>6
<1> HIDE DEF D1, P1, r
<1>8. InTree(ta, D, P, m) /\ m.path = r
  BY DEF InTree, r
<1>9. \A n : InTree(tb, D1, P1, n) <=> InTree(ta, D, P, n) /\ ~Leads(r, n.path)
  <2>1. ASSUME NEW n, InTree(tb, D1, P1, n) PROVE InTree(ta, D, P, n) /\ ~Leads(r, n.path)
    <3>1. PICK d \in D1, i \in Slots :
            tb[d][i].inUse /\ n = [path |-> Append(P1[d], tb[d][i].name), dir |-> tb[d][i].dir]
      BY <2>1 DEF InTree
    <3>2. d \in D /\ ta[d][i].inUse /\ tb[d][i] = ta[d][i] /\ ~(d = p /\ i = i0) /\ P1[d] = P[d]
      BY <3>1, <1>2, <1>4
    <3>3. n.path = Append(P[d], ta[d][i].name)
      BY <3>1, <3>2
    <3>4. QED BY <3>1, <3>2, <3>3, <1>7 DEF InTree
  <2>2. ASSUME NEW n, InTree(ta, D, P, n), ~Leads(r, n.path) PROVE InTree(tb, D1, P1, n)
    <3>1. PICK d \in D, i \in Slots :
            ta[d][i].inUse /\ n = [path |-> Append(P[d], ta[d][i].name), dir |-> ta[d][i].dir]
      BY <2>2 DEF InTree
    <3>2. d \in D1 /\ ~(d = p /\ i = i0)
      BY <3>1, <2>2, <1>7
    <3>3. tb[d][i] = ta[d][i] /\ P1[d] = P[d]
      BY <3>1, <3>2, <1>2, <1>4
    <3>4. QED BY <3>1, <3>2, <3>3 DEF InTree
  <2>3. QED BY <2>1, <2>2
<1>10. QED BY <1>8, <1>9 DEF OneLess, D1, P1

(***************************************************************************)
(* One write.                                                              *)
(***************************************************************************)
HeadW(s, b) == [to |-> "head", at |-> s, val |-> b]
TableW(s, t) == [to |-> "table", at |-> s, val |-> t]
RestW(s, t) == [to |-> "rest", at |-> s, val |-> t]
MapW(i, m) == [to |-> "map", at |-> i, val |-> m]

(* What WriteSector does with each kind of write.                          *)
LEMMA AWrite ==
    ASSUME WriteSector
    PROVE  /\ \A s, b : Head(pending) = HeadW(s, b) =>
                  head' = Written(head, s, b) /\ tab' = tab /\ used' = used
           /\ \A s, t : Head(pending) = TableW(s, t) =>
                  head' = head /\ tab' = Written(tab, s, FirstPart(TableAt(tab, s), t)) /\ used' = used
           /\ \A s, t : Head(pending) = RestW(s, t) =>
                  head' = head /\ tab' = Written(tab, s, t) /\ used' = used
           /\ \A i, m : Head(pending) = MapW(i, m) =>
                  /\ head' = head /\ tab' = tab
                  /\ used' = (used \ MapPart(i)) \cup (m \cap MapPart(i))
           /\ pending' = Tail(pending) /\ pending # <<>>
           /\ UNCHANGED <<phase, currentFile, r2, torn, orphans>>
<1> DEFINE w == Head(pending)
<1>1. /\ head' = IF w.to = "head" THEN Written(head, w.at, w.val) ELSE head
      /\ tab' = IF w.to = "table" THEN Written(tab, w.at, FirstPart(TableAt(tab, w.at), w.val))
                ELSE IF w.to = "rest" THEN Written(tab, w.at, w.val) ELSE tab
      /\ used' = IF w.to = "map" THEN (used \ MapPart(w.at)) \cup (w.val \cap MapPart(w.at)) ELSE used
      /\ pending' = Tail(pending) /\ pending # <<>>
      /\ UNCHANGED <<phase, currentFile, r2, torn, orphans>>
  BY DEF WriteSector
<1> HIDE DEF w
<1>2. \A s, b : w = HeadW(s, b) => head' = Written(head, s, b) /\ tab' = tab /\ used' = used
  BY <1>1 DEF HeadW
<1>3. \A s, t : w = TableW(s, t) =>
          head' = head /\ tab' = Written(tab, s, FirstPart(TableAt(tab, s), t)) /\ used' = used
  BY <1>1 DEF TableW
<1>4. \A s, t : w = RestW(s, t) => head' = head /\ tab' = Written(tab, s, t) /\ used' = used
  BY <1>1 DEF RestW
<1>5. \A i, m : w = MapW(i, m) =>
          head' = head /\ tab' = tab /\ used' = (used \ MapPart(i)) \cup (m \cap MapPart(i))
  BY <1>1 DEF MapW
<1>6. QED BY <1>1, <1>2, <1>3, <1>4, <1>5 DEF w

(* A write changes one sector.                                             *)
LEMMA WrittenFacts ==
    ASSUME NEW f, NEW s, NEW v
    PROVE  /\ DOMAIN Written(f, s, v) = DOMAIN f \cup {s} /\ Written(f, s, v)[s] = v
           /\ \A x \in DOMAIN f : x # s => Written(f, s, v)[x] = f[x]
BY DEF Written

(* The first of a directory's sectors, by where the entry that changes is. *)
LEMMA FirstPartFacts ==
    ASSUME NEW old \in [Slots -> Entry], NEW i0 \in Slots, NEW new \in [Slots -> Entry],
           \A j \in Slots : j # i0 => new[j] = old[j]
    PROVE  /\ FirstPart(old, new) \in [Slots -> Entry]
           /\ \A j \in Slots : j # i0 => FirstPart(old, new)[j] = old[j]
           /\ i0 > Boundary => FirstPart(old, new) = old
           /\ i0 < Boundary => FirstPart(old, new) = new
           /\ FirstPart(old, new)[Boundary] = new[Boundary] /\ i0 = Boundary => FirstPart(old, new) = new
           /\ i0 = Boundary /\ new[i0].name = old[i0].name /\ new[i0].dir = old[i0].dir => FirstPart(old, new) = new
<1> DEFINE first == FirstPart(old, new)
           torn0 == [old[Boundary] EXCEPT !.inUse = new[Boundary].inUse, !.sector = new[Boundary].sector]
<1>1. Boundary \in Slots /\ Slots \subseteq Nat
  BY ConstantFacts DEF Slots
<1>2. /\ first = [i \in Slots |-> IF i < Boundary THEN new[i] ELSE IF i = Boundary THEN torn0 ELSE old[i]]
  <2>1. first = [i \in Slots |->
                    IF i < Boundary THEN new[i]
                    ELSE IF i = Boundary THEN [old[i] EXCEPT !.inUse = new[i].inUse, !.sector = new[i].sector]
                    ELSE old[i]]
    BY DEF FirstPart
  <2> HIDE DEF first
  <2>2. QED BY <2>1
<1>3. old[Boundary] \in Entry /\ new[Boundary] \in Entry
  BY <1>1
<1>4. torn0 \in Entry
  <2> DEFINE x == old[Boundary]
             y == new[Boundary]
  <2>1. x \in Entry /\ y \in Entry
    BY <1>3
  <2> HIDE DEF x, y
  <2>2. [x EXCEPT !.inUse = y.inUse, !.sector = y.sector] \in Entry
    BY <2>1 DEF Entry
  <2>3. QED BY <2>2 DEF x, y
<1>5. new[Boundary] = old[Boundary] => torn0 = old[Boundary]
  <2> DEFINE x == old[Boundary]
  <2>1. x \in Entry
    BY <1>3
  <2> HIDE DEF x
  <2>2. [x EXCEPT !.inUse = x.inUse, !.sector = x.sector] = x
    BY <2>1 DEF Entry
  <2>3. QED BY <2>2 DEF x
<1>6. new[Boundary].name = old[Boundary].name /\ new[Boundary].dir = old[Boundary].dir =>
          torn0 = new[Boundary]
  <2> DEFINE x == old[Boundary]
             y == new[Boundary]
  <2>1. x \in Entry /\ y \in Entry
    BY <1>3
  <2> HIDE DEF x, y
  <2>2. y.name = x.name /\ y.dir = x.dir => [x EXCEPT !.inUse = y.inUse, !.sector = y.sector] = y
    BY <2>1 DEF Entry
  <2>3. QED BY <2>2 DEF x, y
<1> HIDE DEF torn0, first
<1>7. first \in [Slots -> Entry] /\ \A j \in Slots : j # i0 => first[j] = old[j]
  <2>1. \A j \in Slots : first[j] = IF j < Boundary THEN new[j] ELSE IF j = Boundary THEN torn0 ELSE old[j]
    BY <1>2
  <2>2. first \in [Slots -> Entry]
    BY <1>1, <1>2, <1>4
  <2>3. ASSUME NEW j \in Slots, j # i0 PROVE first[j] = old[j]
    <3>1. new[j] = old[j]
      BY <1>1, <2>3
    <3>2. CASE j = Boundary
      BY <3>1, <3>2, <1>5, <2>1
    <3>3. CASE j # Boundary
      BY <3>1, <3>3, <2>1
    <3>4. QED BY <3>2, <3>3
  <2>4. QED BY <2>2, <2>3
<1>8. first[i0] = old[i0] => first = old
  <2>1. first[i0] = old[i0] => \A j \in Slots : first[j] = old[j]
    BY <1>7
  <2>2. first \in [Slots -> Entry] /\ old \in [Slots -> Entry]
    BY <1>7
  <2>3. QED BY <2>1, <2>2
<1>9. first[i0] = new[i0] => first = new
  <2>1. first[i0] = new[i0] => \A j \in Slots : first[j] = new[j]
    BY <1>1, <1>7
  <2>2. first \in [Slots -> Entry] /\ new \in [Slots -> Entry]
    BY <1>1, <1>7
  <2>3. QED BY <2>1, <2>2
<1>10. i0 > Boundary => first[i0] = old[i0]
  BY <1>1, <1>2
<1>11. i0 < Boundary => first[i0] = new[i0]
  BY <1>1, <1>2
<1>12. i0 = Boundary => first[i0] = torn0
  BY <1>1, <1>2
<1>13. /\ i0 > Boundary => first = old
       /\ i0 < Boundary => first = new
       /\ first[Boundary] = new[Boundary] /\ i0 = Boundary => first = new
       /\ i0 = Boundary /\ new[i0].name = old[i0].name /\ new[i0].dir = old[i0].dir => first = new
  BY <1>6, <1>8, <1>9, <1>10, <1>11, <1>12
<1>14. QED BY <1>1, <1>7, <1>13 DEF first

(***************************************************************************)
(* The stages of a command.                                                *)
(***************************************************************************)
(* Create, until the name is written.                                      *)
Fresh(tb, U, D, P, p, i0, e, blocks) ==
    /\ ~tb[p][i0].inUse
    /\ e.inUse /\ e.name \in Names /\ Append(P[p], e.name) \in Paths
    /\ \A j \in Slots : tb[p][j].inUse => tb[p][j].name # e.name
    /\ e.sector \notin U /\ \A s \in blocks : s \notin U

Headed(hd, e, blocks) == e.sector \in DOMAIN hd /\ hd[e.sector] = blocks
Tabled(tb, e) == e.dir => e.sector \in DOMAIN tb /\ tb[e.sector] = EmptyTable

CreateStage(tb, hd, U, p, i0, e, blocks, pend) ==
    LET new == [tb[p] EXCEPT ![i0] = e]
        m == U \cup {e.sector} \cup blocks
    IN  \/ /\ e.dir
           /\ pend = <<HeadW(e.sector, blocks), TableW(e.sector, EmptyTable), RestW(e.sector, EmptyTable),
                       TableW(p, new), RestW(p, new), MapW(1, m), MapW(2, m)>>
        \/ /\ ~e.dir
           /\ pend = <<HeadW(e.sector, blocks), TableW(p, new), RestW(p, new), MapW(1, m), MapW(2, m)>>
        \/ /\ Headed(hd, e, blocks) /\ e.dir
           /\ pend = <<TableW(e.sector, EmptyTable), RestW(e.sector, EmptyTable),
                       TableW(p, new), RestW(p, new), MapW(1, m), MapW(2, m)>>
        \/ /\ Headed(hd, e, blocks) /\ e.dir
           /\ pend = <<RestW(e.sector, EmptyTable),
                       TableW(p, new), RestW(p, new), MapW(1, m), MapW(2, m)>>
        \/ /\ Headed(hd, e, blocks) /\ Tabled(tb, e)
           /\ pend = <<TableW(p, new), RestW(p, new), MapW(1, m), MapW(2, m)>>
        \/ /\ Headed(hd, e, blocks) /\ Tabled(tb, e) /\ i0 > Boundary
           /\ pend = <<RestW(p, new), MapW(1, m), MapW(2, m)>>

Creating(tb, hd, U, D, P, pend) ==
    /\ Covered(tb, hd, U, D)
    /\ \E p \in D, i0 \in Slots, e \in Entry, blocks \in SUBSET Sectors :
          /\ Fresh(tb, U, D, P, p, i0, e, blocks)
          /\ CreateStage(tb, hd, U, p, i0, e, blocks, pend)

(* Create, when the name is written and the map is not.                    *)
Marking(tb, hd, U, orph, D, pend) ==
    \E p \in D, i0 \in Slots, m \in SUBSET Sectors :
        /\ tb[p][i0].inUse /\ U \subseteq m
        /\ \A s : Held(tb, hd, D, s) => s \in m
        /\ \A s : Held(tb, hd, D, s) /\ s \notin U => s \in Own(hd, tb[p][i0])
        /\ \A s \in m : Held(tb, hd, D, s) \/ s \in orph
        /\ \/ pend = <<RestW(p, tb[p]), MapW(1, m), MapW(2, m)>>
           \/ pend = <<MapW(1, m), MapW(2, m)>>
           \/ pend = <<MapW(2, m)>>

(* Remove, until the name is gone.                                         *)
RemoveStage(tb, U, p, i0, m, pend) ==
    LET new == [tb[p] EXCEPT ![i0].inUse = FALSE]
    IN  \/ pend = <<MapW(1, m), MapW(2, m), TableW(p, new), RestW(p, new)>>
        \/ /\ \A s \in U : s \in MapPart(1) => s \in m
           /\ pend = <<MapW(2, m), TableW(p, new), RestW(p, new)>>
        \/ U = m /\ pend = <<TableW(p, new), RestW(p, new)>>
        \/ U = m /\ i0 > Boundary /\ pend = <<RestW(p, new)>>

Removing(tb, hd, U, orph, D, pend) ==
    \E p \in D, i0 \in Slots, m \in SUBSET Sectors :
        /\ tb[p][i0].inUse /\ m \subseteq U
        /\ \A s : Held(tb, hd, D, s) /\ ~Below(tb, hd, tb[p][i0], s) => s \in m
        /\ \A s \in m : Below(tb, hd, tb[p][i0], s) => s \in orph
        /\ RemoveStage(tb, U, p, i0, m, pend)

(* Remove, when the name is gone.                                          *)
Unlisted(tb, hd, U, D, pend) ==
    Covered(tb, hd, U, D) /\ \E p \in D : pend = <<RestW(p, tb[p])>>

Working(tb, hd, U, orph, D, P, pend) ==
    \/ pend = <<>>
    \/ Creating(tb, hd, U, D, P, pend)
    \/ Removing(tb, hd, U, orph, D, pend)
    \/ Unlisted(tb, hd, U, D, pend)

(* An entry is torn only when Create is about to complete it.              *)
Whole(D, P) ==
    /\ Settled(Tables, head, used, orphans, D, P)
    /\ \/ ~Tearing /\ Working(tab, head, used, orphans, D, P, pending)
       \/ Marking(Tables, head, used, orphans, D, pending)

Writes ==
    {HeadW(s, b) : s \in Sectors, b \in SUBSET Sectors}
    \cup {TableW(s, t) : s \in Sectors, t \in [Slots -> Entry]}
    \cup {RestW(s, t) : s \in Sectors, t \in [Slots -> Entry]}
    \cup {MapW(i, m) : i \in {1, 2}, m \in SUBSET Sectors}

IInv ==
    /\ TypeOK
    /\ pending \in Seq(Writes)
    /\ torn => pending = <<>>
    /\ torn \/ Tearing => NoLeak
    /\ ~torn => \E D, P : Whole(D, P)

(***************************************************************************)
(* How the stages follow each other.                                       *)
(***************************************************************************)
LEMMA OwnBelow ==
    ASSUME NEW tb, NEW hd, NEW D, NEW P, DiskSound(tb, hd, D, P),
           NEW p \in D, NEW i0 \in Slots, tb[p][i0].inUse, NEW s \in Own(hd, tb[p][i0])
    PROVE  Below(tb, hd, tb[p][i0], s)
<1>1. TreeSound(tb, D, P)
  BY DEF DiskSound
<1>2. tb[p][i0] \in Subtree(tb, {tb[p][i0]})
  BY <1>1, SubtreeOf
<1>3. QED BY <1>2 DEF Below

(* The name is written: the disk is settled, and the map is to be marked.  *)
LEMMA NameWritten ==
    ASSUME NEW ta, NEW hd, NEW U \in SUBSET Sectors, NEW orph, NEW D, NEW P,
           NEW p \in D, NEW i0 \in Slots, NEW e \in Entry, NEW blocks \in SUBSET Sectors,
           Settled(ta, hd, U, orph, D, P), Covered(ta, hd, U, D),
           Fresh(ta, U, D, P, p, i0, e, blocks), Headed(hd, e, blocks), Tabled(ta, e)
    PROVE  LET new == [ta[p] EXCEPT ![i0] = e]
               t1 == Written(ta, p, new)
               m == U \cup {e.sector} \cup blocks
               D1 == DirsWith(D, e)
               P1 == PathsWith(D, P, p, e)
           IN  /\ Settled(t1, hd, U, orph, D1, P1)
               /\ OneMore(ta, D, P, t1, D1, P1)
               /\ \A pend : \/ pend = <<RestW(p, new), MapW(1, m), MapW(2, m)>>
                            \/ pend = <<MapW(1, m), MapW(2, m)>>
                            => Marking(t1, hd, U, orph, D1, pend)
<1> DEFINE new == [ta[p] EXCEPT ![i0] = e]
           t1 == Written(ta, p, new)
           m == U \cup {e.sector} \cup blocks
           D1 == DirsWith(D, e)
           P1 == PathsWith(D, P, p, e)
<1>1. DiskSound(ta, hd, D, P) /\ TreeSound(ta, D, P)
  BY DEF Settled, DiskSound
<1>2. D \subseteq DOMAIN ta /\ ta[p] \in [Slots -> Entry]
  BY <1>1 DEF TreeSound
<1>3. \A s \in Own(hd, e) : ~Held(ta, hd, D, s)
  BY DEF Own, Headed, Fresh, Covered
<1>4. Addable(ta, hd, D, P, p, i0, e)
  BY <1>3 DEF Addable, Fresh, Headed
<1>5. e.sector \notin D
  <2>1. e.sector \in Own(hd, e)
    BY DEF Own
  <2>2. QED BY <2>1, <1>1, <1>3, DirectoriesHeld
<1>6. TablesWith(ta, t1, D, p, i0, e)
  <2>1. DOMAIN t1 = DOMAIN ta \cup {p} /\ t1[p] = new /\ \A x \in DOMAIN ta : x # p => t1[x] = ta[x]
    <3> HIDE DEF new
    <3> QED BY DEF t1, Written
  <2> HIDE DEF t1
  <2>2. e.dir => e.sector \in DOMAIN ta /\ e.sector # p /\ ta[e.sector] = EmptyTable
    BY <1>5 DEF Tabled
  <2>3. QED BY <2>1, <2>2, <1>2 DEF TablesWith, DirsWith
<1>7. t1[p] = new /\ t1[p][i0] = e
  <2>1. new[i0] = e
    BY <1>2
  <2> HIDE DEF new
  <2>2. t1[p] = new
    BY DEF t1, Written
  <2>3. QED BY <2>1, <2>2
<1> HIDE DEF t1, new
<1>8. /\ DiskSound(t1, hd, D1, P1) /\ p \in D1
      /\ \A s : Held(t1, hd, D1, s) <=> Held(ta, hd, D, s) \/ s \in Own(hd, e)
  BY <1>1, <1>4, <1>6, EntryAdded
<1>9. OneMore(ta, D, P, t1, D1, P1)
  BY <1>1, <1>4, <1>6, NamesAdded
<1> HIDE DEF D1, P1
<1>10. NoneLost(t1, hd, U, orph, D1)
  BY <1>8 DEF Settled, NoneLost
<1>11. \A s : Held(t1, hd, D1, s) /\ s \notin U => s \in Own(hd, t1[p][i0])
  BY <1>7, <1>8 DEF Covered
<1>12. OnlyBelow(t1, hd, U, D1, p, i0) /\ t1[p][i0].inUse
  <2>1. t1[p][i0].inUse
    BY <1>7 DEF Fresh
  <2>2. \A s \in Own(hd, t1[p][i0]) : Below(t1, hd, t1[p][i0], s)
    BY <2>1, <1>8, OwnBelow
  <2>3. QED BY <2>1, <2>2, <1>11 DEF OnlyBelow
<1>13. Settled(t1, hd, U, orph, D1, P1)
  BY <1>8, <1>10, <1>12 DEF Settled, OneAtFault
<1>14. m \in SUBSET Sectors /\ U \subseteq m
  BY DEF Entry
<1>15. \A s : Held(t1, hd, D1, s) => s \in m
  BY <1>8 DEF Covered, Own, Headed
<1>16. \A s \in m : Held(t1, hd, D1, s) \/ s \in orph
  BY <1>8 DEF Settled, NoneLost, Own, Headed
<1> HIDE DEF m
<1>17. ASSUME NEW pend, \/ pend = <<RestW(p, new), MapW(1, m), MapW(2, m)>>
                        \/ pend = <<MapW(1, m), MapW(2, m)>>
       PROVE  Marking(t1, hd, U, orph, D1, pend)
  BY <1>7, <1>8, <1>11, <1>12, <1>14, <1>15, <1>16, <1>17 DEF Marking
<1>18. QED BY <1>9, <1>13, <1>17 DEF new, t1, m, D1, P1

(* The map is marked from its old contents to its new ones.                *)
LEMMA MarkingGoesOn ==
    ASSUME NEW tb, NEW hd, NEW U, NEW V, NEW orph, NEW D, NEW P,
           NEW p \in D, NEW i0 \in Slots, NEW m,
           Settled(tb, hd, U, orph, D, P), tb[p][i0].inUse, U \subseteq V, V \subseteq m,
           \A s : Held(tb, hd, D, s) /\ s \notin U => s \in Own(hd, tb[p][i0]),
           \A s \in m : Held(tb, hd, D, s) \/ s \in orph
    PROVE  /\ Settled(tb, hd, V, orph, D, P)
           /\ \A s : Held(tb, hd, D, s) /\ s \notin V => s \in Own(hd, tb[p][i0])
<1>1. DiskSound(tb, hd, D, P)
  BY DEF Settled
<1>2. NoneLost(tb, hd, V, orph, D)
  BY DEF NoneLost
<1>3. OnlyBelow(tb, hd, V, D, p, i0)
  <2>1. \A s \in Own(hd, tb[p][i0]) : Below(tb, hd, tb[p][i0], s)
    BY <1>1, OwnBelow
  <2>2. QED BY <2>1 DEF OnlyBelow
<1>4. QED BY <1>1, <1>2, <1>3 DEF Settled, OneAtFault

(* The map is cleared: what is no longer marked is below the entry.        *)
LEMMA ClearingGoesOn ==
    ASSUME NEW tb, NEW hd, NEW U, NEW V, NEW orph, NEW D, NEW P,
           NEW p \in D, NEW i0 \in Slots, NEW m,
           Settled(tb, hd, U, orph, D, P), tb[p][i0].inUse, m \subseteq V, V \subseteq U,
           \A s : Held(tb, hd, D, s) /\ ~Below(tb, hd, tb[p][i0], s) => s \in m
    PROVE  Settled(tb, hd, V, orph, D, P)
<1>1. OnlyBelow(tb, hd, V, D, p, i0)
  BY DEF OnlyBelow
<1>2. NoneLost(tb, hd, V, orph, D)
  BY DEF Settled, NoneLost
<1>3. QED BY <1>1, <1>2 DEF Settled, OneAtFault

(* The name is gone: the map has what is left and the orphans.             *)
LEMMA NameGone ==
    ASSUME NEW ta, NEW hd, NEW U, NEW orph, NEW D, NEW P,
           NEW p \in D, NEW i0 \in Slots,
           Settled(ta, hd, U, orph, D, P), ta[p][i0].inUse,
           \A s : Held(ta, hd, D, s) /\ ~Below(ta, hd, ta[p][i0], s) => s \in U,
           \A s \in U : Below(ta, hd, ta[p][i0], s) => s \in orph
    PROVE  LET new == [ta[p] EXCEPT ![i0].inUse = FALSE]
               t1 == Written(ta, p, new)
               D1 == DirsLeft(ta, D, P, p, i0)
               P1 == PathsLeft(ta, D, P, p, i0)
           IN  /\ Settled(t1, hd, U, orph, D1, P1)
               /\ OneLess(ta, D, P, t1, D1, P1)
               /\ Unlisted(t1, hd, U, D1, <<RestW(p, new)>>)
<1> DEFINE new == [ta[p] EXCEPT ![i0].inUse = FALSE]
           t1 == Written(ta, p, new)
           D1 == DirsLeft(ta, D, P, p, i0)
           P1 == PathsLeft(ta, D, P, p, i0)
<1>1. DiskSound(ta, hd, D, P) /\ TreeSound(ta, D, P)
  BY DEF Settled, DiskSound
<1>2. D \subseteq DOMAIN ta
  BY <1>1 DEF TreeSound
<1>3. TablesLess(ta, t1, D, p, i0) /\ t1[p] = new
  <2>1. DOMAIN t1 = DOMAIN ta \cup {p} /\ t1[p] = new /\ \A x \in DOMAIN ta : x # p => t1[x] = ta[x]
    <3> HIDE DEF new
    <3> QED BY DEF t1, Written
  <2> HIDE DEF t1
  <2>2. QED BY <2>1, <1>2 DEF TablesLess
<1> HIDE DEF t1, new
<1>4. /\ DiskSound(t1, hd, D1, P1)
      /\ \A s : Held(t1, hd, D1, s) <=> Held(ta, hd, D, s) /\ ~Below(ta, hd, ta[p][i0], s)
  BY <1>1, <1>3, EntryRemoved
<1>5. OneLess(ta, D, P, t1, D1, P1)
  BY <1>1, <1>3, NamesRemoved
<1>6. p \in D1
  BY <1>1, ParentStays DEF DirsLeft
<1> HIDE DEF D1, P1
<1>7. NoneLost(t1, hd, U, orph, D1) /\ Covered(t1, hd, U, D1)
  BY <1>4 DEF Settled, NoneLost, Covered
<1>8. Settled(t1, hd, U, orph, D1, P1)
  BY <1>4, <1>7 DEF Settled, OneAtFault
<1>9. Unlisted(t1, hd, U, D1, <<RestW(p, new)>>)
  BY <1>3, <1>6, <1>7 DEF Unlisted
<1>10. QED BY <1>5, <1>8, <1>9 DEF new, t1, D1, P1

(* The step keeps the disk settled and changes the names as it may.        *)
GoesOn(D, P) ==
    /\ Tearing' => NoLeak'
    /\ \E D1, P1 : Whole(D1, P1)' /\ NamesStep(Tables, D, P, Tables', D1, P1)

(* When no write is about to tear an entry, the tables are those on the    *)
(* disk.                                                                   *)
LEMMA NotTearing == ~Tearing => Tables = tab
BY DEF Tables

(* The same of the next state.                                             *)
LEMMA NotTearingNext == ~Tearing' => Tables' = tab'
BY DEF Tables

(* A step that changes nothing the directories lead to.                    *)
LEMMA GoesOnAlike ==
    ASSUME NEW D, NEW P, Settled(tab, head, used, orphans, D, P), ~Tearing, ~Tearing',
           Agree(tab, head, tab', head', D), used' = used, orphans \subseteq orphans',
           Working(tab', head', used', orphans', D, P, pending')
    PROVE  GoesOn(D, P)
<1>1. Tables = tab /\ Tables' = tab'
  BY NotTearing, NotTearingNext
<1>2. Settled(tab', head', used', orphans', D, P)
  <2>1. Settled(tab', head', used', orphans, D, P)
    BY SettledSame
  <2>2. QED BY <2>1 DEF Settled, NoneLost
<1>3. Whole(D, P)'
  BY <1>1, <1>2 DEF Whole
<1>4. NamesStep(Tables, D, P, Tables', D, P)
  BY <1>1, NamesAgree DEF NamesStep
<1>5. QED BY <1>3, <1>4 DEF GoesOn

(* A write elsewhere is not seen from the directories.                     *)
LEMMA AgreeElsewhere ==
    ASSUME NEW tb, NEW hd, NEW D, NEW P, DiskSound(tb, hd, D, P), NEW s, ~Held(tb, hd, D, s)
    PROVE  /\ \A v : Agree(tb, hd, tb, Written(hd, s, v), D)
           /\ \A v : Agree(tb, hd, Written(tb, s, v), hd, D)
<1>1. TreeSound(tb, D, P) /\ HeadsSound(tb, hd, D)
  BY DEF DiskSound
<1>2. s \notin D
  BY DirectoriesHeld
<1>3. s # FreeMapSector /\ s # DirectorySector
  BY DEF Held, System
<1>4. \A d \in D, i \in Slots : tb[d][i].inUse => tb[d][i].sector # s
  BY DEF Held, Own
<1>5. ASSUME NEW v PROVE Agree(tb, hd, tb, Written(hd, s, v), D)
  <2> DEFINE hb == Written(hd, s, v)
  <2>1. DOMAIN hb = DOMAIN hd \cup {s} /\ \A x \in DOMAIN hd : x # s => hb[x] = hd[x]
    BY DEF hb, Written
  <2> HIDE DEF hb
  <2>2. \A d \in D, i \in Slots : tb[d][i].inUse => tb[d][i].sector \in DOMAIN hd
    BY <1>1 DEF HeadsSound
  <2>3. {FreeMapSector, DirectorySector} \subseteq DOMAIN hd
    BY <1>1 DEF HeadsSound
  <2>4. D \subseteq DOMAIN tb
    BY <1>1 DEF TreeSound
  <2>5. Agree(tb, hd, tb, hb, D)
    BY <2>1, <2>2, <2>3, <2>4, <1>3, <1>4 DEF Agree
  <2>6. QED BY <2>5 DEF hb
<1>6. ASSUME NEW v PROVE Agree(tb, hd, Written(tb, s, v), hd, D)
  <2> DEFINE t1 == Written(tb, s, v)
  <2>1. DOMAIN t1 = DOMAIN tb \cup {s} /\ \A x \in DOMAIN tb : x # s => t1[x] = tb[x]
    BY DEF t1, Written
  <2> HIDE DEF t1
  <2>2. Agree(tb, hd, t1, hd, D)
    BY <2>1, <1>1, <1>2 DEF Agree, HeadsSound, TreeSound
  <2>3. QED BY <2>2 DEF t1
<1>7. QED BY <1>5, <1>6

(* Writing a table again changes nothing.                                  *)
LEMMA AgreeAgain ==
    ASSUME NEW tb, NEW hd, NEW D, NEW P, DiskSound(tb, hd, D, P), NEW p \in D
    PROVE  Agree(tb, hd, Written(tb, p, tb[p]), hd, D)
<1> DEFINE t1 == Written(tb, p, tb[p])
<1>1. TreeSound(tb, D, P) /\ HeadsSound(tb, hd, D)
  BY DEF DiskSound
<1>2. DOMAIN t1 = DOMAIN tb \cup {p} /\ t1[p] = tb[p] /\ \A x \in DOMAIN tb : x # p => t1[x] = tb[x]
  BY DEF t1, Written
<1> HIDE DEF t1
<1>3. Agree(tb, hd, t1, hd, D)
  BY <1>1, <1>2 DEF Agree, HeadsSound, TreeSound
<1>4. QED BY <1>3 DEF t1

(* Create's writes before the name: the header and the new directory.      *)
LEMMA CreatingBefore ==
    ASSUME NEW D, NEW P, Settled(tab, head, used, orphans, D, P), ~Tearing,
           Covered(tab, head, used, D), used \subseteq Sectors,
           NEW p \in D, NEW i0 \in Slots, NEW e \in Entry, NEW blocks \in SUBSET Sectors,
           Fresh(tab, used, D, P, p, i0, e, blocks),
           CreateStage(tab, head, used, p, i0, e, blocks, pending), WriteSector
    PROVE  \/ GoesOn(D, P)
           \/ LET new == [tab[p] EXCEPT ![i0] = e]
                  m == used \cup {e.sector} \cup blocks
              IN  /\ Headed(head, e, blocks) /\ Tabled(tab, e)
                  /\ \/ pending = <<TableW(p, new), RestW(p, new), MapW(1, m), MapW(2, m)>>
                     \/ i0 > Boundary /\ pending = <<RestW(p, new), MapW(1, m), MapW(2, m)>>
<1> DEFINE new == [tab[p] EXCEPT ![i0] = e]
           m == used \cup {e.sector} \cup blocks
           T0 == TableW(e.sector, EmptyTable)
           R0 == RestW(e.sector, EmptyTable)
           T == TableW(p, new)
           R == RestW(p, new)
           M1 == MapW(1, m)
           M2 == MapW(2, m)
<1>1. DiskSound(tab, head, D, P) /\ TreeSound(tab, D, P)
  BY DEF Settled, DiskSound
<1>2. ~Held(tab, head, D, e.sector)
  BY DEF Covered, Fresh
<1>3. e.sector \notin D
  BY <1>1, <1>2, DirectoriesHeld
<1>4. \A i \in Slots : ~EmptyTable[i].inUse
  BY DEF EmptyTable, Empty
<1>5. ASSUME Agree(tab, head, tab', head', D), used' = used, ~Tearing',
             CreateStage(tab', head', used, p, i0, e, blocks, pending')
      PROVE  GoesOn(D, P)
  <2>1. \A s : Held(tab', head', D, s) <=> Held(tab, head, D, s)
    BY <1>1, <1>5, SameDisk
  <2>2. Covered(tab', head', used', D)
    BY <2>1, <1>5 DEF Covered
  <2>3. tab'[p] = tab[p]
    BY <1>5 DEF Agree
  <2>4. Fresh(tab', used', D, P, p, i0, e, blocks)
    BY <2>3, <1>5 DEF Fresh
  <2>5. Creating(tab', head', used', D, P, pending')
    BY <2>2, <2>4, <1>5 DEF Creating
  <2>6. orphans' = orphans
    BY AWrite
  <2>7. QED BY <2>5, <2>6, <1>5, GoesOnAlike DEF Working
<1> HIDE DEF new, m
<1>7. CASE e.dir /\ pending = <<HeadW(e.sector, blocks), T0, R0, T, R, M1, M2>>
  <2>1. Head(pending) = HeadW(e.sector, blocks) /\ Tail(pending) = <<T0, R0, T, R, M1, M2>>
    BY <1>7
  <2>2. /\ head' = Written(head, e.sector, blocks) /\ tab' = tab /\ used' = used
        /\ pending' = <<T0, R0, T, R, M1, M2>>
    BY <2>1, AWrite
  <2>3. Head(pending') = T0
    BY <2>2
  <2>4. ~Tearing'
    BY <2>3 DEF Tearing, TableW
  <2>5. Headed(head', e, blocks)
    BY <2>2 DEF Headed, Written
  <2>6. CreateStage(tab', head', used, p, i0, e, blocks, pending')
    BY <2>2, <2>5, <1>7 DEF CreateStage, new, m
  <2>7. Agree(tab, head, tab', head', D)
    BY <2>2, <1>1, <1>2, AgreeElsewhere
  <2>8. QED BY <2>2, <2>4, <2>6, <2>7, <1>5
<1>8. CASE ~e.dir /\ pending = <<HeadW(e.sector, blocks), T, R, M1, M2>>
  <2>1. Head(pending) = HeadW(e.sector, blocks) /\ Tail(pending) = <<T, R, M1, M2>>
    BY <1>8
  <2>2. /\ head' = Written(head, e.sector, blocks) /\ tab' = tab /\ used' = used
        /\ pending' = <<T, R, M1, M2>>
    BY <2>1, AWrite
  <2>3. Head(pending') = T
    BY <2>2
  <2>4. ~Tearing'
    BY <2>3 DEF Tearing, TableW
  <2>5. Headed(head', e, blocks) /\ Tabled(tab', e)
    BY <2>2, <1>8 DEF Headed, Tabled, Written
  <2>6. CreateStage(tab', head', used, p, i0, e, blocks, pending')
    BY <2>2, <2>5 DEF CreateStage, new, m
  <2>7. Agree(tab, head, tab', head', D)
    BY <2>2, <1>1, <1>2, AgreeElsewhere
  <2>8. QED BY <2>2, <2>4, <2>6, <2>7, <1>5
<1>9. CASE Headed(head, e, blocks) /\ e.dir /\ pending = <<T0, R0, T, R, M1, M2>>
  <2>1. Head(pending) = TableW(e.sector, EmptyTable) /\ Tail(pending) = <<R0, T, R, M1, M2>>
    BY <1>9
  <2>2. /\ head' = head /\ used' = used
        /\ tab' = Written(tab, e.sector, FirstPart(TableAt(tab, e.sector), EmptyTable))
        /\ pending' = <<R0, T, R, M1, M2>>
    BY <2>1, AWrite
  <2>3. Head(pending') = R0
    BY <2>2
  <2>4. ~Tearing'
    BY <2>3, <1>4, ConstantFacts DEF Tearing, RestW
  <2>5. tab'[p] = tab[p]
    BY <2>2, <1>1, <1>3 DEF TreeSound, Written
  <2>6. CreateStage(tab', head', used, p, i0, e, blocks, pending')
    BY <2>2, <2>5, <1>9 DEF CreateStage, new, m
  <2>7. Agree(tab, head, tab', head', D)
    BY <2>2, <1>1, <1>2, AgreeElsewhere
  <2>8. QED BY <2>2, <2>4, <2>6, <2>7, <1>5
<1>10. CASE Headed(head, e, blocks) /\ e.dir /\ pending = <<R0, T, R, M1, M2>>
  <2>1. Head(pending) = RestW(e.sector, EmptyTable) /\ Tail(pending) = <<T, R, M1, M2>>
    BY <1>10
  <2>2. /\ head' = head /\ used' = used /\ tab' = Written(tab, e.sector, EmptyTable)
        /\ pending' = <<T, R, M1, M2>>
    BY <2>1, AWrite
  <2>3. Head(pending') = T
    BY <2>2
  <2>4. ~Tearing'
    BY <2>3 DEF Tearing, TableW
  <2>5. tab'[p] = tab[p] /\ Tabled(tab', e)
    BY <2>2, <1>1, <1>3 DEF TreeSound, Tabled, Written
  <2>6. CreateStage(tab', head', used, p, i0, e, blocks, pending')
    BY <2>2, <2>5, <1>10 DEF CreateStage, new, m
  <2>7. Agree(tab, head, tab', head', D)
    BY <2>2, <1>1, <1>2, AgreeElsewhere
  <2>8. QED BY <2>2, <2>4, <2>6, <2>7, <1>5
<1>11. QED BY <1>7, <1>8, <1>9, <1>10 DEF CreateStage, new, m

(* An entry half written leads to all that was led to before.              *)
LEMMA TornReaches ==
    ASSUME NEW D, NEW P, Settled(tab, head, used, orphans, D, P), NEW p \in D, NEW first,
           \A j \in Slots : tab[p][j].inUse => first[j] = tab[p][j],
           tab' = Written(tab, p, first), head' = head, used' = used, orphans' = orphans
    PROVE  NoLeak'
<1>1. NoLeak
  BY SettledMeans
<1>2. p \in DOMAIN tab /\ DirectorySector \in DOMAIN tab
  BY DEF Settled, DiskSound, TreeSound
<1>3. /\ DOMAIN tab' = DOMAIN tab /\ tab'[p] = first
      /\ \A x \in DOMAIN tab : x # p => tab'[x] = tab[x]
  BY <1>2 DEF Written
<1>4. Used(tab[p]) \subseteq Used(tab'[p])
  BY <1>3 DEF Used
<1>5. \A s : Used(TableAt(tab, s)) \subseteq Used(TableAt(tab', s))
  <2> SUFFICES ASSUME NEW s PROVE Used(TableAt(tab, s)) \subseteq Used(TableAt(tab', s))
    OBVIOUS
  <2>1. CASE s = p
    BY <2>1, <1>2, <1>3, <1>4 DEF TableAt
  <2>2. CASE s # p
    BY <2>2, <1>3 DEF TableAt
  <2>3. QED BY <2>1, <2>2
<1>6. Used(tab[DirectorySector]) \subseteq Used(tab'[DirectorySector])
  BY <1>2, <1>3, <1>5 DEF TableAt
<1>7. Subtree(tab, Used(tab[DirectorySector])) \subseteq Subtree(tab', Used(tab'[DirectorySector]))
  BY <1>5, <1>6, SubtreeMonotone
<1>8. Files \subseteq Files'
  BY <1>7 DEF Files
<1>9. \A s : HeaderAt(s)' = HeaderAt(s)
  BY DEF HeaderAt
<1>10. SystemSectors' = SystemSectors
  BY DEF SystemSectors
<1>11. SectorsOf(Files) \subseteq SectorsOf(Files)'
  BY <1>8, <1>9 DEF SectorsOf
<1>12. Reachable \subseteq Reachable'
  BY <1>10, <1>11 DEF Reachable
<1>13. QED BY <1>1, <1>12 DEF NoLeak

(* Create's writes of the name.                                            *)
LEMMA CreatingName ==
    ASSUME NEW D, NEW P, Settled(tab, head, used, orphans, D, P), ~Tearing,
           Covered(tab, head, used, D), used \subseteq Sectors,
           NEW p \in D, NEW i0 \in Slots, NEW e \in Entry, NEW blocks \in SUBSET Sectors,
           Fresh(tab, used, D, P, p, i0, e, blocks), Headed(head, e, blocks), Tabled(tab, e), WriteSector,
           LET new == [tab[p] EXCEPT ![i0] = e]
               m == used \cup {e.sector} \cup blocks
           IN  \/ pending = <<TableW(p, new), RestW(p, new), MapW(1, m), MapW(2, m)>>
               \/ i0 > Boundary /\ pending = <<RestW(p, new), MapW(1, m), MapW(2, m)>>
    PROVE  GoesOn(D, P)
<1> DEFINE new == [tab[p] EXCEPT ![i0] = e]
           m == used \cup {e.sector} \cup blocks
           t1 == Written(tab, p, new)
           first == FirstPart(tab[p], new)
           D1 == DirsWith(D, e)
           P1 == PathsWith(D, P, p, e)
           T == TableW(p, new)
           R == RestW(p, new)
           M1 == MapW(1, m)
           M2 == MapW(2, m)
<1>1. DiskSound(tab, head, D, P) /\ TreeSound(tab, D, P)
  BY DEF Settled, DiskSound
<1>2. p \in DOMAIN tab /\ tab[p] \in [Slots -> Entry]
  BY <1>1 DEF TreeSound
<1>3. /\ Settled(t1, head, used, orphans, D1, P1)
      /\ OneMore(tab, D, P, t1, D1, P1)
      /\ \A pend : pend = <<R, M1, M2>> \/ pend = <<M1, M2>> => Marking(t1, head, used, orphans, D1, pend)
  BY NameWritten
<1>4. /\ new[i0] = e /\ \A j \in Slots : j # i0 => new[j] = tab[p][j]
      /\ new \in [Slots -> Entry]
      /\ Boundary \in Slots /\ Boundary \in Nat /\ i0 \in Nat
  BY <1>2, ConstantFacts DEF Slots
<1>5. /\ \A j \in Slots : j # i0 => first[j] = tab[p][j]
      /\ i0 > Boundary => first = tab[p]
      /\ i0 < Boundary => first = new
      /\ first[Boundary] = new[Boundary] /\ i0 = Boundary => first = new
  <2> DEFINE old == tab[p]
  <2>1. /\ old \in [Slots -> Entry] /\ new \in [Slots -> Entry]
        /\ \A j \in Slots : j # i0 => new[j] = old[j]
    BY <1>2, <1>4
  <2> HIDE DEF new, old
  <2>2. /\ \A j \in Slots : j # i0 => FirstPart(old, new)[j] = old[j]
        /\ i0 > Boundary => FirstPart(old, new) = old
        /\ i0 < Boundary => FirstPart(old, new) = new
        /\ FirstPart(old, new)[Boundary] = new[Boundary] /\ i0 = Boundary => FirstPart(old, new) = new
    BY <2>1, FirstPartFacts
  <2>3. QED BY <2>2 DEF old
<1>6. e.inUse /\ ~tab[p][i0].inUse
  BY DEF Fresh
<1>7. Tables = tab
  BY NotTearing
<1>8. orphans' = orphans /\ pending # <<>>
  BY AWrite
<1> HIDE DEF new, m, first, D1, P1
(* Once the names are the new ones.                                        *)
<1>9. ASSUME Tables' = t1, head' = head, used' = used, Tearing' => NoLeak',
             pending' = <<R, M1, M2>> \/ pending' = <<M1, M2>>
      PROVE  GoesOn(D, P)
  <2>1. Marking(t1, head, used, orphans, D1, pending')
    BY <1>3, <1>9
  <2>2. Whole(D1, P1)'
    BY <2>1, <1>3, <1>8, <1>9 DEF Whole
  <2>3. NamesStep(Tables, D, P, Tables', D1, P1)
    BY <1>3, <1>7, <1>9 DEF NamesStep
  <2>4. QED BY <2>2, <2>3, <1>9 DEF GoesOn
<1>10. CASE pending = <<T, R, M1, M2>>
  <2>1. Head(pending) = TableW(p, new) /\ Tail(pending) = <<R, M1, M2>>
    BY <1>10
  <2>2. TableAt(tab, p) = tab[p]
    BY <1>2 DEF TableAt
  <2>3. head' = head /\ used' = used /\ tab' = Written(tab, p, first) /\ pending' = <<R, M1, M2>>
    BY <2>1, <2>2, AWrite DEF first
  <2>4. Head(pending') = R /\ pending' # <<>>
    BY <2>3
  <2>5. tab'[p] = first /\ p \in DOMAIN tab' /\ DOMAIN tab' = DOMAIN tab
    BY <2>3, <1>2 DEF Written
  <2>6. Tearing' <=> new[Boundary].inUse /\ first[Boundary] # new[Boundary]
    BY <2>4, <2>5 DEF Tearing, RestW, TableAt
  <2>7. CASE i0 > Boundary
    <3>1. first = tab[p] /\ new[Boundary] = tab[p][Boundary]
      BY <2>7, <1>4, <1>5
    <3>2. ~Tearing'
      BY <2>6, <3>1
    <3>3. Agree(tab, head, tab', head', D)
      BY <2>3, <3>1, <1>1, AgreeAgain
    <3>4. \A s : Held(tab', head', D, s) <=> Held(tab, head, D, s)
      BY <1>1, <3>3, SameDisk
    <3>5. Covered(tab', head', used', D)
      BY <3>4, <2>3 DEF Covered
    <3>6. Fresh(tab', used', D, P, p, i0, e, blocks)
      BY <2>3, <2>5, <3>1 DEF Fresh
    <3>7. Tabled(tab', e)
      <4>1. e.sector \in DOMAIN tab => tab'[e.sector] = tab[e.sector]
        BY <2>3, <2>5, <3>1 DEF Written
      <4>2. QED BY <4>1, <2>5 DEF Tabled
    <3>8. CreateStage(tab', head', used', p, i0, e, blocks, pending')
      BY <2>3, <2>5, <2>7, <3>1, <3>7 DEF CreateStage, new, m
    <3>9. Creating(tab', head', used', D, P, pending')
      BY <3>5, <3>6, <3>8 DEF Creating
    <3>10. QED BY <2>3, <3>2, <3>3, <3>9, <1>8, GoesOnAlike DEF Working
  <2>8. CASE ~(i0 > Boundary)
    <3>1. i0 < Boundary \/ i0 = Boundary
      BY <2>8, <1>4
    <3>2. Tables' = t1
      <4>1. CASE Tearing'
        <5>1. Tables' = Written(tab', p, new)
          BY <4>1, <2>4 DEF Tables, RestW
        <5>2. QED BY <5>1, <2>3, <2>5 DEF Written
      <4>2. CASE ~Tearing'
        <5>1. first = new
          BY <4>2, <3>1, <2>6, <1>4, <1>5, <1>6
        <5>2. QED BY <5>1, <4>2, <2>3, NotTearingNext
      <4>3. QED BY <4>1, <4>2
    <3>3. \A j \in Slots : tab[p][j].inUse => first[j] = tab[p][j]
      BY <1>5, <1>6
    <3>4. NoLeak'
      BY <3>3, <2>3, <1>8, TornReaches
    <3>5. QED BY <3>2, <3>4, <2>3, <1>9
  <2>9. QED BY <2>7, <2>8
<1>11. CASE pending = <<R, M1, M2>>
  <2>1. Head(pending) = RestW(p, new) /\ Tail(pending) = <<M1, M2>>
    BY <1>11
  <2>2. head' = head /\ used' = used /\ tab' = Written(tab, p, new) /\ pending' = <<M1, M2>>
    BY <2>1, AWrite
  <2>3. Head(pending') = M1
    BY <2>2
  <2>4. ~Tearing'
    BY <2>3 DEF Tearing, MapW
  <2>5. Tables' = t1
    BY <2>2, <2>4, NotTearingNext
  <2>6. QED BY <2>2, <2>4, <2>5, <1>9
<1>12. QED BY <1>10, <1>11 DEF new, m

(* A write of Create before its name is on the disk, the one that puts it  *)
(* there included.                                                         *)
LEMMA CreatingWrite ==
    ASSUME NEW D, NEW P, Settled(tab, head, used, orphans, D, P), ~Tearing, used \subseteq Sectors,
           Creating(tab, head, used, D, P, pending), WriteSector
    PROVE  GoesOn(D, P)
<1>1. Covered(tab, head, used, D)
  BY DEF Creating
<1>2. PICK p \in D, i0 \in Slots, e \in Entry, blocks \in SUBSET Sectors :
          /\ Fresh(tab, used, D, P, p, i0, e, blocks)
          /\ CreateStage(tab, head, used, p, i0, e, blocks, pending)
  BY DEF Creating
<1>3. \/ GoesOn(D, P)
      \/ LET new == [tab[p] EXCEPT ![i0] = e]
             m == used \cup {e.sector} \cup blocks
         IN  /\ Headed(head, e, blocks) /\ Tabled(tab, e)
             /\ \/ pending = <<TableW(p, new), RestW(p, new), MapW(1, m), MapW(2, m)>>
                \/ i0 > Boundary /\ pending = <<RestW(p, new), MapW(1, m), MapW(2, m)>>
  BY <1>1, <1>2, CreatingBefore
<1>4. QED BY <1>1, <1>2, <1>3, CreatingName

(* The writes after Create's name.                                         *)
LEMMA MarkingWrite ==
    ASSUME NEW D, NEW P, Settled(Tables, head, used, orphans, D, P), used \subseteq Sectors,
           Marking(Tables, head, used, orphans, D, pending), WriteSector
    PROVE  GoesOn(D, P)
<1> DEFINE ta == Tables
<1>1. PICK p \in D, i0 \in Slots, m \in SUBSET Sectors :
          /\ ta[p][i0].inUse /\ used \subseteq m
          /\ \A s : Held(ta, head, D, s) => s \in m
          /\ \A s : Held(ta, head, D, s) /\ s \notin used => s \in Own(head, ta[p][i0])
          /\ \A s \in m : Held(ta, head, D, s) \/ s \in orphans
          /\ \/ pending = <<RestW(p, ta[p]), MapW(1, m), MapW(2, m)>>
             \/ pending = <<MapW(1, m), MapW(2, m)>>
             \/ pending = <<MapW(2, m)>>
  BY DEF Marking
<1>2. DiskSound(ta, head, D, P) /\ TreeSound(ta, D, P) /\ HeadsSound(ta, head, D)
  BY DEF Settled, DiskSound
<1>3. orphans' = orphans
  BY AWrite
<1>4. CASE pending = <<RestW(p, ta[p]), MapW(1, m), MapW(2, m)>>
  <2>1. Head(pending) = RestW(p, ta[p]) /\ Tail(pending) = <<MapW(1, m), MapW(2, m)>>
    BY <1>4
  <2>2. /\ head' = head /\ used' = used /\ tab' = Written(tab, p, ta[p])
        /\ pending' = <<MapW(1, m), MapW(2, m)>>
    BY <2>1, AWrite
  <2>3. Head(pending') = MapW(1, m)
    BY <2>2
  <2>4. ~Tearing'
    BY <2>3 DEF Tearing, MapW
  <2>5. Agree(ta, head, tab', head', D)
    <3>1. CASE Tearing
      <4>1. ta = Written(tab, p, ta[p])
        BY <3>1, <2>1 DEF Tables, RestW
      <4>2. tab' = ta
        BY <4>1, <2>2
      <4>3. QED BY <4>2, <2>2, <1>2 DEF Agree, TreeSound, HeadsSound
    <3>2. CASE ~Tearing
      <4>1. ta = tab
        BY <3>2, NotTearing
      <4>2. QED BY <4>1, <2>2, <1>2, AgreeAgain
    <3>3. QED BY <3>1, <3>2
  <2>6. Settled(tab', head', used', orphans', D, P) /\ \A s : Held(tab', head', D, s) <=> Held(ta, head, D, s)
    BY <2>2, <2>5, <1>3, SettledSame
  <2>7. tab'[p] = ta[p] /\ Own(head', tab'[p][i0]) = Own(head, ta[p][i0])
    BY <2>2, <2>5 DEF Agree
  <2> HIDE DEF ta
  <2>8. Marking(tab', head', used', orphans', D, pending')
    BY <1>1, <1>3, <2>2, <2>6, <2>7 DEF Marking
  <2>9. SameNames(ta, D, P, tab', D, P)
    BY <2>5, NamesAgree
  <2>10. Tables' = tab'
    BY <2>4, NotTearingNext
  <2>11. Whole(D, P)'
    BY <2>6, <2>8, <2>10 DEF Whole
  <2>12. NamesStep(Tables, D, P, Tables', D, P)
    BY <2>9, <2>10 DEF NamesStep, ta
  <2>13. QED BY <2>4, <2>11, <2>12 DEF GoesOn
<1>5. ASSUME NEW i, pending # <<>>, Head(pending) = MapW(i, m),
             \/ pending' = <<>>
             \/ pending' = <<MapW(2, m)>>
      PROVE  GoesOn(D, P)
  <2>1. head' = head /\ tab' = tab /\ used' = (used \ MapPart(i)) \cup (m \cap MapPart(i))
    BY <1>5, AWrite
  <2>2. ~Tearing
    BY <1>5 DEF Tearing, MapW
  <2>3. ~Tearing'
    <3>1. CASE pending' = <<>>
      BY <3>1 DEF Tearing
    <3>2. CASE pending' = <<MapW(2, m)>>
      <4>1. Head(pending') = MapW(2, m)
        BY <3>2
      <4>2. QED BY <4>1 DEF Tearing, MapW
    <3>3. QED BY <3>1, <3>2, <1>5
  <2>4. ta = tab /\ Tables' = tab
    BY <2>1, <2>2, <2>3, NotTearing, NotTearingNext
  <2>5. used \subseteq used' /\ used' \subseteq m
    BY <2>1, <1>1
  <2> HIDE DEF ta
  <2>6. Settled(ta, head, used', orphans, D, P) /\ \A s : Held(ta, head, D, s) /\ s \notin used' => s \in Own(head, ta[p][i0])
    BY <1>1, <2>5, MarkingGoesOn DEF ta
  <2>7. Working(ta, head, used', orphans, D, P, pending') \/ Marking(ta, head, used', orphans, D, pending')
    BY <1>1, <1>5, <2>5, <2>6 DEF Working, Marking
  <2>8. Whole(D, P)'
    BY <2>1, <2>3, <2>4, <2>6, <2>7, <1>3 DEF Whole
  <2>9. NamesStep(Tables, D, P, Tables', D, P)
    BY <2>4 DEF NamesStep, SameNames, ta
  <2>10. QED BY <2>3, <2>8, <2>9 DEF GoesOn
<1>6. CASE pending = <<MapW(1, m), MapW(2, m)>>
  <2>1. Head(pending) = MapW(1, m) /\ pending # <<>> /\ Tail(pending) = <<MapW(2, m)>>
    BY <1>6
  <2>2. pending' = <<MapW(2, m)>>
    BY <2>1, AWrite
  <2>3. QED BY <2>1, <2>2, <1>5
<1>7. CASE pending = <<MapW(2, m)>>
  <2>1. Head(pending) = MapW(2, m) /\ pending # <<>> /\ Tail(pending) = <<>>
    BY <1>7
  <2>2. pending' = <<>>
    BY <2>1, AWrite
  <2>3. QED BY <2>1, <2>2, <1>5
<1>8. QED BY <1>1, <1>4, <1>6, <1>7

(* The two sectors of the bitmap file hold all bits.                       *)
LEMMA MapParts == \A s \in Sectors : s \in MapPart(1) \/ s \in MapPart(2)
<1> SUFFICES ASSUME NEW s \in Sectors PROVE s \in MapPart(1) \/ s \in MapPart(2)
  OBVIOUS
<1>1. s \in Int /\ Half \in Int
  BY ConstantFacts, DiskAssumption DEF Sectors
<1>2. CASE s < Half
  BY <1>2 DEF MapPart
<1>3. CASE ~(s < Half)
  BY <1>3 DEF MapPart
<1>4. QED BY <1>2, <1>3

(* Remove's writes of the map.                                             *)
LEMMA RemovingMap ==
    ASSUME NEW D, NEW P, Settled(tab, head, used, orphans, D, P), ~Tearing, used \subseteq Sectors,
           NEW p \in D, NEW i0 \in Slots, NEW m \in SUBSET Sectors,
           tab[p][i0].inUse, m \subseteq used,
           \A s : Held(tab, head, D, s) /\ ~Below(tab, head, tab[p][i0], s) => s \in m,
           \A s \in m : Below(tab, head, tab[p][i0], s) => s \in orphans,
           LET new == [tab[p] EXCEPT ![i0].inUse = FALSE]
           IN  \/ pending = <<MapW(1, m), MapW(2, m), TableW(p, new), RestW(p, new)>>
               \/ /\ \A s \in used : s \in MapPart(1) => s \in m
                  /\ pending = <<MapW(2, m), TableW(p, new), RestW(p, new)>>,
           WriteSector
    PROVE  GoesOn(D, P)
<1> DEFINE new == [tab[p] EXCEPT ![i0].inUse = FALSE]
           T == TableW(p, new)
           R == RestW(p, new)
<1> HIDE DEF new
<1>1. orphans' = orphans
  BY AWrite
<1>2. ASSUME NEW i, Head(pending) = MapW(i, m), ~Tearing',
             m \subseteq used' => RemoveStage(tab, used', p, i0, m, pending')
      PROVE  GoesOn(D, P)
  <2>1. head' = head /\ tab' = tab /\ used' = (used \ MapPart(i)) \cup (m \cap MapPart(i))
    BY <1>2, AWrite
  <2>2. m \subseteq used' /\ used' \subseteq used
    BY <2>1
  <2>3. Settled(tab, head, used', orphans, D, P)
    BY <2>2, ClearingGoesOn
  <2>4. Removing(tab, head, used', orphans, D, pending')
    BY <2>2, <1>2 DEF Removing
  <2>5. Tables = tab /\ Tables' = tab
    BY <2>1, <1>2, NotTearing, NotTearingNext
  <2>6. Whole(D, P)'
    BY <2>1, <2>3, <2>4, <2>5, <1>1, <1>2 DEF Whole, Working
  <2>7. NamesStep(Tables, D, P, Tables', D, P)
    BY <2>5 DEF NamesStep, SameNames
  <2>8. QED BY <2>6, <2>7, <1>2 DEF GoesOn
<1>3. CASE pending = <<MapW(1, m), MapW(2, m), T, R>>
  <2>1. Head(pending) = MapW(1, m) /\ Tail(pending) = <<MapW(2, m), T, R>>
    BY <1>3
  <2>2. pending' = <<MapW(2, m), T, R>> /\ used' = (used \ MapPart(1)) \cup (m \cap MapPart(1))
    BY <2>1, AWrite
  <2>3. Head(pending') = MapW(2, m)
    BY <2>2
  <2>4. ~Tearing'
    BY <2>3 DEF Tearing, MapW
  <2>5. \A s \in used' : s \in MapPart(1) => s \in m
    BY <2>2
  <2>6. RemoveStage(tab, used', p, i0, m, pending')
    BY <2>2, <2>5 DEF RemoveStage, new
  <2>7. QED BY <2>1, <2>4, <2>6, <1>2
<1>4. CASE (\A s \in used : s \in MapPart(1) => s \in m) /\ pending = <<MapW(2, m), T, R>>
  <2>1. Head(pending) = MapW(2, m) /\ Tail(pending) = <<T, R>>
    BY <1>4
  <2>2. pending' = <<T, R>> /\ used' = (used \ MapPart(2)) \cup (m \cap MapPart(2))
    BY <2>1, AWrite
  <2>3. Head(pending') = T
    BY <2>2
  <2>4. ~Tearing'
    BY <2>3 DEF Tearing, TableW
  <2>5. used' \subseteq m
    BY <2>2, <1>4, MapParts
  <2>6. m \subseteq used' => RemoveStage(tab, used', p, i0, m, pending')
    BY <2>2, <2>5 DEF RemoveStage, new
  <2>7. QED BY <2>1, <2>4, <2>6, <1>2
<1>5. QED BY <1>3, <1>4 DEF new

(* Remove's writes of the directory.                                       *)
LEMMA RemovingName ==
    ASSUME NEW D, NEW P, Settled(tab, head, used, orphans, D, P), ~Tearing,
           NEW p \in D, NEW i0 \in Slots, used \subseteq Sectors,
           tab[p][i0].inUse,
           \A s : Held(tab, head, D, s) /\ ~Below(tab, head, tab[p][i0], s) => s \in used,
           \A s \in used : Below(tab, head, tab[p][i0], s) => s \in orphans,
           LET new == [tab[p] EXCEPT ![i0].inUse = FALSE]
           IN  \/ pending = <<TableW(p, new), RestW(p, new)>>
               \/ i0 > Boundary /\ pending = <<RestW(p, new)>>,
           WriteSector
    PROVE  GoesOn(D, P)
<1> DEFINE new == [tab[p] EXCEPT ![i0].inUse = FALSE]
           t1 == Written(tab, p, new)
           first == FirstPart(tab[p], new)
           T == TableW(p, new)
           R == RestW(p, new)
<1>1. DiskSound(tab, head, D, P) /\ TreeSound(tab, D, P)
  BY DEF Settled, DiskSound
<1>2. p \in DOMAIN tab /\ tab[p] \in [Slots -> Entry]
  BY <1>1 DEF TreeSound
<1>3. PICK D1, P1 : /\ Settled(t1, head, used, orphans, D1, P1)
                    /\ OneLess(tab, D, P, t1, D1, P1)
                    /\ Unlisted(t1, head, used, D1, <<R>>)
  <2> DEFINE D0 == DirsLeft(tab, D, P, p, i0)
             P0 == PathsLeft(tab, D, P, p, i0)
  <2>1. /\ Settled(t1, head, used, orphans, D0, P0)
        /\ OneLess(tab, D, P, t1, D0, P0)
        /\ Unlisted(t1, head, used, D0, <<R>>)
    BY NameGone
  <2> HIDE DEF D0, P0, t1, R
  <2>2. QED BY <2>1
<1>4. /\ \A j \in Slots : j # i0 => new[j] = tab[p][j]
      /\ new \in [Slots -> Entry]
      /\ new[i0].name = tab[p][i0].name /\ new[i0].dir = tab[p][i0].dir
      /\ Boundary \in Slots /\ Boundary \in Nat /\ i0 \in Nat
  <2>1. Boundary \in Slots /\ Boundary \in Nat /\ i0 \in Nat
    BY ConstantFacts DEF Slots
  <2>2. tab[p][i0] \in Entry
    BY <1>2
  <2> DEFINE old == tab[p]
             f == [old[i0] EXCEPT !.inUse = FALSE]
  <2>3. f \in Entry /\ f.name = old[i0].name /\ f.dir = old[i0].dir
    BY <2>2 DEF Entry
  <2>4. new = [old EXCEPT ![i0] = f]
    BY <1>2
  <2>5. old \in [Slots -> Entry]
    BY <1>2
  <2> HIDE DEF new, f, old
  <2>6. /\ \A j \in Slots : j # i0 => new[j] = old[j]
        /\ new \in [Slots -> Entry] /\ new[i0] = f
    BY <2>3, <2>4, <2>5
  <2>7. QED BY <2>1, <2>3, <2>6 DEF old
<1>5. /\ i0 > Boundary => first = tab[p]
      /\ i0 < Boundary => first = new
      /\ i0 = Boundary => first = new
  <2> DEFINE old == tab[p]
  <2>1. /\ old \in [Slots -> Entry] /\ new \in [Slots -> Entry]
        /\ \A j \in Slots : j # i0 => new[j] = old[j]
        /\ new[i0].name = old[i0].name /\ new[i0].dir = old[i0].dir
    BY <1>2, <1>4
  <2> HIDE DEF new, old
  <2>2. /\ i0 > Boundary => FirstPart(old, new) = old
        /\ i0 < Boundary => FirstPart(old, new) = new
        /\ i0 = Boundary => FirstPart(old, new) = new
    BY <2>1, FirstPartFacts
  <2>3. QED BY <2>2 DEF old
<1>6. Tables = tab
  BY NotTearing
<1>7. orphans' = orphans /\ pending # <<>>
  BY AWrite
<1> HIDE DEF new, first, t1
(* Once the names are the new ones.                                        *)
<1>8. ASSUME tab' = t1, ~Tearing', head' = head, used' = used, pending' = <<R>> \/ pending' = <<>>
      PROVE  GoesOn(D, P)
  <2>1. Working(t1, head, used, orphans, D1, P1, pending')
    BY <1>3, <1>8 DEF Working
  <2>2. Tables' = t1
    BY <1>8, NotTearingNext
  <2>3. Whole(D1, P1)'
    BY <2>1, <2>2, <1>3, <1>7, <1>8 DEF Whole
  <2>4. NamesStep(Tables, D, P, Tables', D1, P1)
    BY <1>3, <1>6, <2>2 DEF NamesStep
  <2>5. QED BY <2>3, <2>4, <1>8 DEF GoesOn
<1>9. CASE pending = <<T, R>>
  <2>1. Head(pending) = TableW(p, new) /\ Tail(pending) = <<R>>
    BY <1>9
  <2>2. TableAt(tab, p) = tab[p]
    BY <1>2 DEF TableAt
  <2>3. head' = head /\ used' = used /\ tab' = Written(tab, p, first) /\ pending' = <<R>>
    BY <2>1, <2>2, AWrite DEF first
  <2>4. Head(pending') = R /\ pending' # <<>>
    BY <2>3
  <2>5. tab'[p] = first /\ p \in DOMAIN tab'
    BY <2>3, <1>2 DEF Written
  <2>6. Tearing' => first[Boundary] # new[Boundary]
    BY <2>4, <2>5 DEF Tearing, RestW, TableAt
  <2>7. CASE i0 > Boundary
    <3>1. first = tab[p] /\ new[Boundary] = tab[p][Boundary]
      BY <2>7, <1>4, <1>5
    <3>2. ~Tearing'
      BY <2>6, <3>1
    <3>3. Agree(tab, head, tab', head', D)
      BY <2>3, <3>1, <1>1, AgreeAgain
    <3>4. \A s : Held(tab', head', D, s) <=> Held(tab, head, D, s)
      BY <1>1, <3>3, SameDisk
    <3>5. \A s : Below(tab', head', tab'[p][i0], s) <=> Below(tab, head, tab[p][i0], s)
      BY <1>1, <3>3, SameBelow
    <3>6. tab'[p] = tab[p]
      BY <2>5, <3>1
    <3>7. RemoveStage(tab', used', p, i0, used, pending')
      BY <2>3, <2>7, <3>6 DEF RemoveStage, new
    <3>8. Removing(tab', head', used', orphans', D, pending')
      BY <2>3, <3>4, <3>5, <3>6, <3>7, <1>7 DEF Removing
    <3>9. QED BY <2>3, <3>2, <3>3, <3>8, <1>7, GoesOnAlike DEF Working
  <2>8. CASE ~(i0 > Boundary)
    <3>1. first = new
      BY <2>8, <1>4, <1>5
    <3>2. QED BY <3>1, <2>3, <2>6, <1>8 DEF t1
  <2>9. QED BY <2>7, <2>8
<1>10. CASE pending = <<R>>
  <2>1. Head(pending) = RestW(p, new) /\ Tail(pending) = <<>>
    BY <1>10
  <2>2. head' = head /\ used' = used /\ tab' = Written(tab, p, new) /\ pending' = <<>>
    BY <2>1, AWrite
  <2>3. ~Tearing'
    BY <2>2 DEF Tearing
  <2>4. QED BY <2>2, <2>3, <1>8 DEF t1
<1>11. QED BY <1>9, <1>10 DEF new

(* A write of Remove, up to the one that takes the name away.              *)
LEMMA RemovingWrite ==
    ASSUME NEW D, NEW P, Settled(tab, head, used, orphans, D, P), ~Tearing, used \subseteq Sectors,
           Removing(tab, head, used, orphans, D, pending), WriteSector
    PROVE  GoesOn(D, P)
<1>1. PICK p \in D, i0 \in Slots, m \in SUBSET Sectors :
          /\ tab[p][i0].inUse /\ m \subseteq used
          /\ \A s : Held(tab, head, D, s) /\ ~Below(tab, head, tab[p][i0], s) => s \in m
          /\ \A s \in m : Below(tab, head, tab[p][i0], s) => s \in orphans
          /\ RemoveStage(tab, used, p, i0, m, pending)
  BY DEF Removing
<1> DEFINE new == [tab[p] EXCEPT ![i0].inUse = FALSE]
<1>2. \/ pending = <<MapW(1, m), MapW(2, m), TableW(p, new), RestW(p, new)>>
      \/ /\ \A s \in used : s \in MapPart(1) => s \in m
         /\ pending = <<MapW(2, m), TableW(p, new), RestW(p, new)>>
      \/ used = m /\ \/ pending = <<TableW(p, new), RestW(p, new)>>
                     \/ i0 > Boundary /\ pending = <<RestW(p, new)>>
  BY <1>1 DEF RemoveStage
<1>3. CASE used = m /\ \/ pending = <<TableW(p, new), RestW(p, new)>>
                       \/ i0 > Boundary /\ pending = <<RestW(p, new)>>
  BY <1>1, <1>3, RemovingName
<1>4. CASE \/ pending = <<MapW(1, m), MapW(2, m), TableW(p, new), RestW(p, new)>>
           \/ /\ \A s \in used : s \in MapPart(1) => s \in m
              /\ pending = <<MapW(2, m), TableW(p, new), RestW(p, new)>>
  BY <1>1, <1>4, RemovingMap
<1>5. QED BY <1>2, <1>3, <1>4

(* Remove's last write, when the name is gone already.                     *)
LEMMA UnlistedWrite ==
    ASSUME NEW D, NEW P, Settled(tab, head, used, orphans, D, P), ~Tearing,
           Unlisted(tab, head, used, D, pending), WriteSector
    PROVE  GoesOn(D, P)
<1>1. DiskSound(tab, head, D, P)
  BY DEF Settled
<1>2. PICK p \in D : pending = <<RestW(p, tab[p])>>
  BY DEF Unlisted
<1>3. Head(pending) = RestW(p, tab[p]) /\ Tail(pending) = <<>>
  BY <1>2
<1>4. /\ head' = head /\ used' = used /\ tab' = Written(tab, p, tab[p]) /\ pending' = <<>>
      /\ orphans' = orphans
  BY <1>3, AWrite
<1>5. ~Tearing'
  BY <1>4 DEF Tearing
<1>6. Agree(tab, head, tab', head', D)
  BY <1>1, <1>4, AgreeAgain
<1>7. QED BY <1>4, <1>5, <1>6, GoesOnAlike DEF Working

(* Every write keeps the disk settled.                                     *)
LEMMA AnyWrite ==
    ASSUME NEW D, NEW P, Whole(D, P), used \subseteq Sectors, WriteSector
    PROVE  GoesOn(D, P)
<1>1. pending # <<>>
  BY AWrite
<1>2. CASE Marking(Tables, head, used, orphans, D, pending)
  BY <1>2, MarkingWrite DEF Whole
<1>3. CASE ~Tearing /\ Working(tab, head, used, orphans, D, P, pending)
  <2>1. Settled(tab, head, used, orphans, D, P)
    BY <1>3, NotTearing DEF Whole
  <2>2. QED BY <1>1, <1>3, <2>1, CreatingWrite, RemovingWrite, UnlistedWrite DEF Working
<1>4. QED BY <1>2, <1>3 DEF Whole

(***************************************************************************)
(* Types.                                                                  *)
(***************************************************************************)
LEMMA TablesTyped ==
    /\ Empty \in Entry /\ EmptyTable \in [Slots -> Entry] /\ GarbageTable \in [Slots -> Entry]
    /\ \A old \in [Slots -> Entry], new \in [Slots -> Entry] : FirstPart(old, new) \in [Slots -> Entry]
<1>1. 0 \in Sectors /\ Boundary \in Slots
  BY ConstantFacts DEF FreeMapSector
<1>2. Empty \in Entry
  BY <1>1 DEF Empty, Entry
<1>3. EmptyTable \in [Slots -> Entry]
  BY <1>2 DEF EmptyTable
<1>4. GarbageTable \in [Slots -> Entry]
  <2>1. [Empty EXCEPT !.inUse = TRUE, !.dir = TRUE] \in Entry
    BY <1>1 DEF Empty, Entry
  <2>2. QED BY <2>1 DEF GarbageTable
<1>5. ASSUME NEW old \in [Slots -> Entry], NEW new \in [Slots -> Entry]
      PROVE  FirstPart(old, new) \in [Slots -> Entry]
  <2>1. ASSUME NEW x \in Entry, NEW y \in Entry
        PROVE  [x EXCEPT !.inUse = y.inUse, !.sector = y.sector] \in Entry
    BY <2>1 DEF Entry
  <2> DEFINE cell(i) == IF i < Boundary THEN new[i]
                        ELSE IF i = Boundary
                             THEN [old[i] EXCEPT !.inUse = new[i].inUse, !.sector = new[i].sector]
                             ELSE old[i]
  <2>2. \A i \in Slots : cell(i) \in Entry
    BY <2>1
  <2>3. FirstPart(old, new) = [i \in Slots |-> cell(i)]
    BY DEF FirstPart
  <2> HIDE DEF cell
  <2>4. QED BY <2>2, <2>3
<1>6. QED BY <1>2, <1>3, <1>4, <1>5

(* A write is of one of the four kinds.                                    *)
LEMMA AWriteIs ==
    ASSUME NEW w \in Writes
    PROVE  /\ \/ \E s \in Sectors, b \in SUBSET Sectors : w = HeadW(s, b)
              \/ \E s \in Sectors, t \in [Slots -> Entry] : w = TableW(s, t)
              \/ \E s \in Sectors, t \in [Slots -> Entry] : w = RestW(s, t)
              \/ \E i \in {1, 2}, m \in SUBSET Sectors : w = MapW(i, m)
           /\ w.to \in {"head", "table", "rest", "map"}
<1>1. \/ \E s \in Sectors, b \in SUBSET Sectors : w = HeadW(s, b)
      \/ \E s \in Sectors, t \in [Slots -> Entry] : w = TableW(s, t)
      \/ \E s \in Sectors, t \in [Slots -> Entry] : w = RestW(s, t)
      \/ \E i \in {1, 2}, m \in SUBSET Sectors : w = MapW(i, m)
  <2> DEFINE H == {HeadW(s, b) : s \in Sectors, b \in SUBSET Sectors}
             T == {TableW(s, t) : s \in Sectors, t \in [Slots -> Entry]}
             R == {RestW(s, t) : s \in Sectors, t \in [Slots -> Entry]}
             M == {MapW(i, m) : i \in {1, 2}, m \in SUBSET Sectors}
  <2>1. w \in H \cup T \cup R \cup M
    BY DEF Writes
  <2>2. w \in H => \E s \in Sectors, b \in SUBSET Sectors : w = HeadW(s, b)
    OBVIOUS
  <2>3. w \in T => \E s \in Sectors, t \in [Slots -> Entry] : w = TableW(s, t)
    OBVIOUS
  <2>4. w \in R => \E s \in Sectors, t \in [Slots -> Entry] : w = RestW(s, t)
    OBVIOUS
  <2>5. w \in M => \E i \in {1, 2}, m \in SUBSET Sectors : w = MapW(i, m)
    OBVIOUS
  <2> HIDE DEF H, T, R, M
  <2>6. w \in H \/ w \in T \/ w \in R \/ w \in M
    BY <2>1
  <2>7. QED BY <2>2, <2>3, <2>4, <2>5, <2>6
<1>2. /\ \A s, b : HeadW(s, b).to = "head"
      /\ \A s, t : TableW(s, t).to = "table"
      /\ \A s, t : RestW(s, t).to = "rest"
      /\ \A i, m : MapW(i, m).to = "map"
  BY DEF HeadW, TableW, RestW, MapW
<1>3. w.to \in {"head", "table", "rest", "map"}
  BY <1>1, <1>2
<1>4. QED BY <1>1, <1>3

(* What the commands leave to write has the type TypeOK asks for.          *)
LEMMA PendingTyped ==
    ASSUME NEW pend \in Seq(Writes)
    PROVE  \A i \in DOMAIN pend : pend[i].to \in {"head", "table", "rest", "map"}
<1>1. \A i \in DOMAIN pend : pend[i] \in Writes
  BY ElementOfSeq
<1>2. QED BY <1>1, AWriteIs

(* A write leaves a state of the right types.                              *)
LEMMA WriteTyped ==
    ASSUME TypeOK, pending \in Seq(Writes), WriteSector
    PROVE  TypeOK' /\ pending' \in Seq(Writes)
<1>1. pending' = Tail(pending) /\ pending # <<>> /\ UNCHANGED <<phase, currentFile, r2, torn, orphans>>
  BY AWrite
<1>2. Head(pending) \in Writes
  BY <1>1
<1>3. pending' \in Seq(Writes)
  BY <1>1
<1>4. \A i \in DOMAIN pending' : pending'[i].to \in {"head", "table", "rest", "map"}
  BY <1>3, PendingTyped
<1>5. /\ head \in [DOMAIN head -> SUBSET Sectors] /\ DOMAIN head \subseteq Sectors
      /\ tab \in [DOMAIN tab -> [Slots -> Entry]] /\ DOMAIN tab \subseteq Sectors
      /\ used \subseteq Sectors
  BY DEF TypeOK
<1>6. ASSUME NEW f, NEW S, f \in [DOMAIN f -> S], DOMAIN f \subseteq Sectors, NEW s \in Sectors, NEW v \in S
      PROVE  /\ Written(f, s, v) \in [DOMAIN Written(f, s, v) -> S]
             /\ DOMAIN Written(f, s, v) \subseteq Sectors
  BY <1>6 DEF Written
<1>7. \A s : TableAt(tab, s) \in [Slots -> Entry]
  BY <1>5, TablesTyped DEF TableAt
<1>8. /\ head' \in [DOMAIN head' -> SUBSET Sectors] /\ DOMAIN head' \subseteq Sectors
      /\ tab' \in [DOMAIN tab' -> [Slots -> Entry]] /\ DOMAIN tab' \subseteq Sectors
      /\ used' \subseteq Sectors
  <2>1. CASE \E s \in Sectors, b \in SUBSET Sectors : Head(pending) = HeadW(s, b)
    <3>1. PICK s \in Sectors, b \in SUBSET Sectors : Head(pending) = HeadW(s, b)
      BY <2>1
    <3>2. head' = Written(head, s, b) /\ tab' = tab /\ used' = used
      BY <3>1, AWrite
    <3>3. head' \in [DOMAIN head' -> SUBSET Sectors] /\ DOMAIN head' \subseteq Sectors
      BY <3>2, <1>5, <1>6
    <3>4. QED BY <3>2, <3>3, <1>5
  <2>2. CASE \E s \in Sectors, t \in [Slots -> Entry] : Head(pending) = TableW(s, t)
    <3>1. PICK s \in Sectors, t \in [Slots -> Entry] : Head(pending) = TableW(s, t)
      BY <2>2
    <3>2. head' = head /\ tab' = Written(tab, s, FirstPart(TableAt(tab, s), t)) /\ used' = used
      BY <3>1, AWrite
    <3>3. FirstPart(TableAt(tab, s), t) \in [Slots -> Entry]
      BY <1>7, TablesTyped
    <3>4. tab' \in [DOMAIN tab' -> [Slots -> Entry]] /\ DOMAIN tab' \subseteq Sectors
      BY <3>2, <3>3, <1>5, <1>6
    <3>5. QED BY <3>2, <3>4, <1>5
  <2>3. CASE \E s \in Sectors, t \in [Slots -> Entry] : Head(pending) = RestW(s, t)
    <3>1. PICK s \in Sectors, t \in [Slots -> Entry] : Head(pending) = RestW(s, t)
      BY <2>3
    <3>2. head' = head /\ tab' = Written(tab, s, t) /\ used' = used
      BY <3>1, AWrite
    <3>3. tab' \in [DOMAIN tab' -> [Slots -> Entry]] /\ DOMAIN tab' \subseteq Sectors
      BY <3>2, <1>5, <1>6
    <3>4. QED BY <3>2, <3>3, <1>5
  <2>4. CASE \E i \in {1, 2}, m \in SUBSET Sectors : Head(pending) = MapW(i, m)
    <3>1. PICK i \in {1, 2}, m \in SUBSET Sectors : Head(pending) = MapW(i, m)
      BY <2>4
    <3>2. head' = head /\ tab' = tab /\ used' = (used \ MapPart(i)) \cup (m \cap MapPart(i))
      BY <3>1, AWrite
    <3>3. QED BY <3>2, <1>5
  <2>5. QED BY <2>1, <2>2, <2>3, <2>4, <1>2, AWriteIs
<1>9. TypeOK'
  BY <1>1, <1>4, <1>8 DEF TypeOK
<1>10. QED BY <1>3, <1>9

(***************************************************************************)
(* Commands.                                                               *)
(***************************************************************************)
(* What a command starts from.                                             *)
LEMMA ReadyMeans ==
    ASSUME NEW D, NEW P, Whole(D, P), Ready
    PROVE  /\ pending = <<>> /\ ~torn /\ ~Tearing
           /\ Settled(tab, head, used, orphans, D, P) /\ DiskSound(tab, head, D, P)
           /\ Covered(tab, head, used, D)
<1>1. pending = <<>> /\ ~torn /\ Reachable \subseteq used
  BY DEF Ready, Sound
<1>2. ~Tearing
  BY <1>1 DEF Tearing
<1>3. Settled(tab, head, used, orphans, D, P) /\ DiskSound(tab, head, D, P)
  BY <1>2, NotTearing DEF Whole, Settled
<1>4. Covered(tab, head, used, D)
  BY <1>1, <1>3, DiskFacts DEF Covered
<1>5. QED BY <1>1, <1>2, <1>3, <1>4

(* Forgetting loses nothing the directories lead to.                       *)
LEMMA Forgotten ==
    ASSUME NEW D, NEW P, DiskSound(tab, head, D, P), TypeOK, Forget
    PROVE  /\ Agree(tab, head, tab', head', D)
           /\ head' \in [DOMAIN head' -> SUBSET Sectors] /\ DOMAIN head' \subseteq Sectors
           /\ tab' \in [DOMAIN tab' -> [Slots -> Entry]] /\ DOMAIN tab' \subseteq Sectors
<1> DEFINE H == {FreeMapSector, DirectorySector} \cup {e.sector : e \in Files}
           T == {DirectorySector} \cup {e.sector : e \in {f \in Files : f.dir}}
<1>1. TreeSound(tab, D, P) /\ HeadsSound(tab, head, D)
  BY DEF DiskSound
<1>2. \A e : e \in Files <=> \E d \in D, i \in Slots : tab[d][i].inUse /\ e = tab[d][i]
  BY DiskFacts
<1>3. head' = Restrict(head, H) /\ tab' = Restrict(tab, T)
  BY DEF Forget
<1>4. H \subseteq DOMAIN head
  <2>1. \A e \in Files : e.sector \in DOMAIN head
    BY <1>1, <1>2 DEF HeadsSound
  <2>2. QED BY <2>1, <1>1 DEF HeadsSound
<1>5. T \subseteq DOMAIN tab
  <2>1. \A e \in Files : e.dir => e.sector \in D
    BY <1>1, <1>2 DEF TreeSound, EntriesSound
  <2>2. QED BY <2>1, <1>1 DEF TreeSound
<1>6. D \subseteq T
  <2>1. \A d \in D \ {DirectorySector} : \E e \in Files : e.dir /\ e.sector = d
    BY <1>1, <1>2 DEF TreeSound, EachLedTo
  <2>2. QED BY <2>1
<1>7. /\ {FreeMapSector, DirectorySector} \subseteq H
      /\ \A d \in D, i \in Slots : tab[d][i].inUse => tab[d][i].sector \in H
  BY <1>2
<1> HIDE DEF H, T
<1>8. DOMAIN head' = H /\ \A s \in H : head'[s] = head[s]
  BY <1>3 DEF Restrict
<1>9. DOMAIN tab' = T /\ \A s \in T : tab'[s] = tab[s]
  BY <1>3 DEF Restrict
<1>10. Agree(tab, head, tab', head', D)
  BY <1>6, <1>7, <1>8, <1>9 DEF Agree
<1>11. head' \in [H -> SUBSET Sectors]
  BY <1>3, <1>4 DEF Restrict, TypeOK
<1>12. tab' \in [T -> [Slots -> Entry]]
  BY <1>3, <1>5 DEF Restrict, TypeOK
<1>13. H \subseteq Sectors /\ T \subseteq Sectors
  BY <1>4, <1>5 DEF TypeOK
<1>14. QED BY <1>8, <1>9, <1>10, <1>11, <1>12, <1>13

(* The sectors Create takes are clear.                                     *)
LEMMA SizesNat == \A n \in Nat : SectorsNeeded(n) \in Nat
<1>1. Fan \in Nat /\ Fan >= 1
  BY FanAssumption
<1>2. \A n \in Nat : DivRoundUp(n, Fan) \in Nat
  BY <1>1 DEF DivRoundUp
<1>3. QED BY <1>2 DEF SectorsNeeded, LevelSizes

(* The sectors Create takes are clear in the map.                          *)
LEMMA TakenAreClear ==
    ASSUME NEW size \in Nat, EnoughSpace(size)
    PROVE  /\ HeaderSector \in Sectors /\ HeaderSector \notin used
           /\ DataSectors(size, HeaderSector) \in SUBSET Sectors
           /\ \A s \in DataSectors(size, HeaderSector) : s \notin used
<1> DEFINE clear == Sectors \ used
<1>1. clear # {}
  <2>1. Cardinality(clear) > SectorsNeeded(size) /\ SectorsNeeded(size) \in Nat
    BY SizesNat DEF EnoughSpace
  <2>2. Cardinality({}) = 0
    BY FS_EmptySet
  <2> HIDE DEF clear
  <2>3. QED BY <2>1, <2>2
<1>2. clear \subseteq Nat
  BY DEF Sectors
<1>3. HeaderSector = CHOOSE s \in clear : \A t \in clear : s <= t
  BY DEF HeaderSector
<1>4. HeaderSector \in clear
  <2> HIDE DEF clear
  <2>1. \E s \in clear : \A t \in clear : s <= t
    BY <1>1, <1>2, LeastElement
  <2>2. QED BY <1>3, <2>1
<1>5. QED BY <1>4 DEF DataSectors, Lowest

(* Tuples joined.                                                          *)
LEMMA ConcatPair ==
    ASSUME NEW S, NEW s \in Seq(S), NEW q \in Seq(S), Len(q) = 2
    PROVE  /\ s \o q \in Seq(S) /\ Len(s \o q) = Len(s) + 2
           /\ \A i \in 1..Len(s) : (s \o q)[i] = s[i]
           /\ (s \o q)[Len(s) + 1] = q[1] /\ (s \o q)[Len(s) + 2] = q[2]
<1> DEFINE r == s \o q
<1>1. /\ r \in Seq(S) /\ Len(r) = Len(s) + Len(q)
      /\ \A i \in 1..(Len(s) + Len(q)) : r[i] = IF i <= Len(s) THEN s[i] ELSE q[i - Len(s)]
  BY ConcatProperties
<1>2. Len(s) \in Nat
  OBVIOUS
<1> HIDE DEF r
<1>3. \A i \in 1..Len(s) : r[i] = s[i]
  BY <1>1, <1>2
<1>4. r[Len(s) + 1] = q[1] /\ r[Len(s) + 2] = q[2]
  BY <1>1, <1>2
<1>5. QED BY <1>1, <1>3, <1>4 DEF r

(* Sequences written out are joined to sequences written out.              *)
LEMMA FourJoined == ASSUME NEW a, NEW b, NEW c, NEW d PROVE <<a, b>> \o <<c, d>> = <<a, b, c, d>>
<1> DEFINE S == {a, b, c, d}
           s == <<a, b>>
           q == <<c, d>>
           t == <<a, b, c, d>>
<1>1. /\ s \in Seq(S) /\ Len(s) = 2 /\ s[1] = a /\ s[2] = b
      /\ q \in Seq(S) /\ Len(q) = 2 /\ q[1] = c /\ q[2] = d
      /\ t \in Seq(S) /\ Len(t) = 4 /\ t[1] = a /\ t[2] = b /\ t[3] = c /\ t[4] = d
  OBVIOUS
<1> HIDE DEF S, s, q, t
<1>2. /\ s \o q \in Seq(S) /\ Len(s \o q) = 4
      /\ \A i \in 1..2 : (s \o q)[i] = s[i]
      /\ (s \o q)[3] = c /\ (s \o q)[4] = d
  BY <1>1, ConcatPair
<1>3. \A i \in 1..4 : (s \o q)[i] = t[i]
  BY <1>1, <1>2
<1>4. s \o q = t
  BY <1>1, <1>2, <1>3, SeqEqual
<1>5. QED BY <1>4 DEF s, q, t

(* The same for Create of a file: a header, a directory, the map.          *)
LEMMA FiveJoined ==
    ASSUME NEW a, NEW b, NEW c, NEW d, NEW e
    PROVE  <<a>> \o <<b, c>> \o <<d, e>> = <<a, b, c, d, e>>
<1> DEFINE S == {a, b, c, d, e}
           s == <<a>>
           q1 == <<b, c>>
           q2 == <<d, e>>
           r1 == s \o q1
           t == <<a, b, c, d, e>>
<1>1. /\ s \in Seq(S) /\ Len(s) = 1 /\ s[1] = a
      /\ q1 \in Seq(S) /\ Len(q1) = 2 /\ q1[1] = b /\ q1[2] = c
      /\ q2 \in Seq(S) /\ Len(q2) = 2 /\ q2[1] = d /\ q2[2] = e
  OBVIOUS
<1>2. t \in Seq(S) /\ Len(t) = 5 /\ t[1] = a /\ t[2] = b /\ t[3] = c /\ t[4] = d /\ t[5] = e
  OBVIOUS
<1> HIDE DEF S, s, q1, q2, t
<1>3. /\ r1 \in Seq(S) /\ Len(r1) = 3
      /\ \A i \in 1..1 : r1[i] = s[i]
      /\ r1[2] = b /\ r1[3] = c
  <2>1. /\ s \o q1 \in Seq(S) /\ Len(s \o q1) = Len(s) + 2
        /\ \A i \in 1..Len(s) : (s \o q1)[i] = s[i]
        /\ (s \o q1)[Len(s) + 1] = q1[1] /\ (s \o q1)[Len(s) + 2] = q1[2]
    BY <1>1, ConcatPair
  <2> HIDE DEF r1
  <2>2. r1 = s \o q1
    BY DEF r1
  <2>3. QED BY <1>1, <2>1, <2>2
<1> HIDE DEF r1
<1>4. /\ r1 \o q2 \in Seq(S) /\ Len(r1 \o q2) = 5
      /\ \A i \in 1..3 : (r1 \o q2)[i] = r1[i]
      /\ (r1 \o q2)[4] = d /\ (r1 \o q2)[5] = e
  <2>1. /\ r1 \o q2 \in Seq(S) /\ Len(r1 \o q2) = Len(r1) + 2
        /\ \A i \in 1..Len(r1) : (r1 \o q2)[i] = r1[i]
        /\ (r1 \o q2)[Len(r1) + 1] = q2[1] /\ (r1 \o q2)[Len(r1) + 2] = q2[2]
    BY <1>1, <1>3, ConcatPair
  <2>2. QED BY <1>1, <1>3, <2>1
<1>5. \A i \in 1..5 : (r1 \o q2)[i] = t[i]
  <2> DEFINE u == r1 \o q2
  <2>1. u[4] = d /\ u[5] = e /\ \A i \in 1..3 : u[i] = r1[i]
    BY <1>4
  <2> HIDE DEF u
  <2>2. u[1] = a /\ u[2] = b /\ u[3] = c
    BY <1>1, <1>3, <2>1
  <2>3. \A i \in 1..5 : i = 1 \/ i = 2 \/ i = 3 \/ i = 4 \/ i = 5
    OBVIOUS
  <2>4. \A i \in 1..5 : u[i] = t[i]
    BY <1>2, <2>1, <2>2, <2>3
  <2>5. QED BY <2>4 DEF u
<1>6. r1 \o q2 = t
  BY <1>2, <1>4, <1>5, SeqEqual
<1>7. QED BY <1>6 DEF r1, s, q1, q2, t

(* The same for Create of a directory.                                     *)
LEMMA SevenJoined ==
    ASSUME NEW a, NEW b, NEW c, NEW d, NEW e, NEW f, NEW g
    PROVE  <<a, b, c, d, e>> \o <<f, g>> = <<a, b, c, d, e, f, g>>
<1> DEFINE S == {a, b, c, d, e, f, g}
           s == <<a, b, c, d, e>>
           q == <<f, g>>
           t == <<a, b, c, d, e, f, g>>
<1>1. /\ s \in Seq(S) /\ Len(s) = 5 /\ s[1] = a /\ s[2] = b /\ s[3] = c /\ s[4] = d /\ s[5] = e
      /\ q \in Seq(S) /\ Len(q) = 2 /\ q[1] = f /\ q[2] = g
  OBVIOUS
<1>2. /\ t \in Seq(S) /\ Len(t) = 7 /\ t[1] = a /\ t[2] = b /\ t[3] = c /\ t[4] = d /\ t[5] = e
      /\ t[6] = f /\ t[7] = g
  OBVIOUS
<1> HIDE DEF S, s, q, t
<1>3. /\ s \o q \in Seq(S) /\ Len(s \o q) = 7
      /\ \A i \in 1..5 : (s \o q)[i] = s[i]
      /\ (s \o q)[6] = f /\ (s \o q)[7] = g
  <2>1. /\ s \o q \in Seq(S) /\ Len(s \o q) = Len(s) + 2
        /\ \A i \in 1..Len(s) : (s \o q)[i] = s[i]
        /\ (s \o q)[Len(s) + 1] = q[1] /\ (s \o q)[Len(s) + 2] = q[2]
    BY <1>1, ConcatPair
  <2>2. QED BY <1>1, <2>1
<1>4. \A i \in 1..7 : (s \o q)[i] = t[i]
  <2> DEFINE u == s \o q
  <2>1. u[6] = f /\ u[7] = g /\ \A i \in 1..5 : u[i] = s[i]
    BY <1>3
  <2> HIDE DEF u
  <2>2. u[1] = a /\ u[2] = b /\ u[3] = c /\ u[4] = d /\ u[5] = e
    BY <1>1, <2>1
  <2>3. \A i \in 1..7 : i = 1 \/ i = 2 \/ i = 3 \/ i = 4 \/ i = 5 \/ i = 6 \/ i = 7
    OBVIOUS
  <2>4. \A i \in 1..7 : u[i] = t[i]
    BY <1>2, <2>1, <2>2, <2>3
  <2>5. QED BY <2>4 DEF u
<1>5. s \o q = t
  BY <1>2, <1>3, <1>4, SeqEqual
<1>6. QED BY <1>5 DEF s, q, t

(* The writes of Create and of Remove, one by one.                         *)
LEMMA CreateWritesAre ==
    ASSUME NEW p, NEW name, NEW isDir, NEW s, NEW blocks
    PROVE  LET t == Add(tab[p], name, s, isDir)
               m == used \cup {s} \cup blocks
           IN  /\ isDir => CreateWrites(p, name, isDir, s, blocks) =
                      <<HeadW(s, blocks), TableW(s, EmptyTable), RestW(s, EmptyTable),
                        TableW(p, t), RestW(p, t), MapW(1, m), MapW(2, m)>>
               /\ ~isDir => CreateWrites(p, name, isDir, s, blocks) =
                      <<HeadW(s, blocks), TableW(p, t), RestW(p, t), MapW(1, m), MapW(2, m)>>
<1> DEFINE t == Add(tab[p], name, s, isDir)
           m == used \cup {s} \cup blocks
<1>1. CreateWrites(p, name, isDir, s, blocks) =
          PutHeader(s, blocks) \o (IF isDir THEN PutTable(s, EmptyTable) ELSE <<>>) \o PutTable(p, t) \o PutMap(m)
  BY DEF CreateWrites
<1> HIDE DEF t, m
<1>2. /\ PutHeader(s, blocks) = <<HeadW(s, blocks)>>
      /\ PutTable(s, EmptyTable) = <<TableW(s, EmptyTable), RestW(s, EmptyTable)>>
      /\ PutTable(p, t) = <<TableW(p, t), RestW(p, t)>>
      /\ PutMap(m) = <<MapW(1, m), MapW(2, m)>>
  BY DEF PutHeader, PutTable, PutMap, HeadW, TableW, RestW, MapW
<1>3. isDir => CreateWrites(p, name, isDir, s, blocks) =
                  <<HeadW(s, blocks), TableW(s, EmptyTable), RestW(s, EmptyTable),
                    TableW(p, t), RestW(p, t), MapW(1, m), MapW(2, m)>>
  <2> DEFINE h == HeadW(s, blocks)
             t0 == TableW(s, EmptyTable)
             r0 == RestW(s, EmptyTable)
             t1 == TableW(p, t)
             r1 == RestW(p, t)
             m1 == MapW(1, m)
             m2 == MapW(2, m)
  <2>1. isDir => CreateWrites(p, name, isDir, s, blocks) = <<h>> \o <<t0, r0>> \o <<t1, r1>> \o <<m1, m2>>
    BY <1>1, <1>2
  <2> HIDE DEF h, t0, r0, t1, r1, m1, m2
  <2>2. <<h>> \o <<t0, r0>> \o <<t1, r1>> = <<h, t0, r0, t1, r1>>
    BY FiveJoined
  <2>3. <<h, t0, r0, t1, r1>> \o <<m1, m2>> = <<h, t0, r0, t1, r1, m1, m2>>
    BY SevenJoined
  <2>4. QED BY <2>1, <2>2, <2>3 DEF h, t0, r0, t1, r1, m1, m2
<1>4. ~isDir => CreateWrites(p, name, isDir, s, blocks) =
                   <<HeadW(s, blocks), TableW(p, t), RestW(p, t), MapW(1, m), MapW(2, m)>>
  <2>1. PutHeader(s, blocks) \o <<>> = PutHeader(s, blocks)
    <3>1. PutHeader(s, blocks) \in Seq({HeadW(s, blocks)})
      BY <1>2
    <3>2. QED BY <3>1, ConcatEmptySeq
  <2>2. QED BY <1>1, <1>2, <2>1, FiveJoined
<1>5. QED BY <1>3, <1>4 DEF t, m

(* The writes of Remove, one by one.                                       *)
LEMMA RemoveWritesAre ==
    ASSUME NEW p, NEW name, NEW freed
    PROVE  RemoveWrites(p, name, freed) =
               <<MapW(1, used \ freed), MapW(2, used \ freed),
                 TableW(p, RemoveFrom(tab[p], name)), RestW(p, RemoveFrom(tab[p], name))>>
<1> DEFINE t == RemoveFrom(tab[p], name)
           m == used \ freed
<1>1. RemoveWrites(p, name, freed) = PutMap(m) \o PutTable(p, t)
  BY DEF RemoveWrites
<1> HIDE DEF t, m
<1>2. PutTable(p, t) = <<TableW(p, t), RestW(p, t)>> /\ PutMap(m) = <<MapW(1, m), MapW(2, m)>>
  BY DEF PutTable, PutMap, TableW, RestW, MapW
<1>3. QED BY <1>1, <1>2, FourJoined DEF t, m

(* The writes the commands make are of the right types.                    *)
LEMMA WritesTyped ==
    /\ \A s \in Sectors, b \in SUBSET Sectors : HeadW(s, b) \in Writes
    /\ \A s \in Sectors, t \in [Slots -> Entry] : TableW(s, t) \in Writes /\ RestW(s, t) \in Writes
    /\ \A m \in SUBSET Sectors : MapW(1, m) \in Writes /\ MapW(2, m) \in Writes
BY DEF Writes

(* A command leaves a state of the right types.                            *)
LEMMA CommandTyped ==
    ASSUME TypeOK, pending' \in Seq(Writes), used' \subseteq Sectors, orphans' \subseteq Sectors,
           head' \in [DOMAIN head' -> SUBSET Sectors], DOMAIN head' \subseteq Sectors,
           tab' \in [DOMAIN tab' -> [Slots -> Entry]], DOMAIN tab' \subseteq Sectors,
           phase' \in {"main", "program"}, currentFile' \in Sectors \cup {NoSector},
           r2' \in {0, 1}, torn' \in BOOLEAN
    PROVE  TypeOK'
BY PendingTyped DEF TypeOK

(* Create leaves the disk as it is and a sequence of writes at its first   *)
(* stage, or does nothing.                                                 *)
LEMMA CreateStep ==
    ASSUME NEW D, NEW P, Whole(D, P), TypeOK, NEW path \in Paths, NEW isDir \in BOOLEAN,
           NEW size \in Nat, Create(path, isDir, size)
    PROVE  TypeOK' /\ pending' \in Seq(Writes) /\ ~torn' /\ GoesOn(D, P)
<1> DEFINE p == ProcessPath(tab, path)
           name == Last(path)
           i0 == FreeSlot(tab[p])
           sector == HeaderSector
           blocks == DataSectors(size, sector)
           e == [inUse |-> TRUE, name |-> name, dir |-> isDir, sector |-> sector]
           success == FindIndex(tab[p], name) = 0 /\ i0 # 0 /\ EnoughSpace(size)
<1>1. /\ Ready /\ p # NoSector /\ Forget
      /\ pending' = IF success THEN CreateWrites(p, name, isDir, sector, blocks) ELSE <<>>
      /\ r2' = IF phase = "program" /\ success THEN 1 ELSE 0
      /\ UNCHANGED <<used, phase, currentFile, torn, orphans>>
  BY DEF Create
<1>2. /\ pending = <<>> /\ ~torn /\ ~Tearing
      /\ Settled(tab, head, used, orphans, D, P) /\ DiskSound(tab, head, D, P)
      /\ Covered(tab, head, used, D)
  BY <1>1, ReadyMeans
<1>3. /\ Agree(tab, head, tab', head', D)
      /\ head' \in [DOMAIN head' -> SUBSET Sectors] /\ DOMAIN head' \subseteq Sectors
      /\ tab' \in [DOMAIN tab' -> [Slots -> Entry]] /\ DOMAIN tab' \subseteq Sectors
  BY <1>1, <1>2, Forgotten
<1>4. TreeSound(tab, D, P)
  BY <1>2 DEF DiskSound
<1>5. p \in D /\ Append(P[p], name) = path /\ name \in Names
  BY <1>1, <1>4, ProcessPathFacts
<1>6. tab[p] \in [Slots -> Entry] /\ p \in Sectors
  BY <1>4, <1>5 DEF TreeSound
<1>7. tab'[p] = tab[p]
  BY <1>3, <1>5 DEF Agree
<1>8. /\ used \subseteq Sectors /\ orphans \subseteq Sectors /\ phase \in {"main", "program"}
      /\ currentFile \in Sectors \cup {NoSector} /\ torn \in BOOLEAN
  BY DEF TypeOK
<1>9. ASSUME pending' \in Seq(Writes) PROVE TypeOK'
  BY <1>1, <1>3, <1>8, <1>9, CommandTyped
<1>10. CASE ~success
  <2>1. pending' = <<>>
    BY <1>1, <1>10
  <2>2. ~Tearing'
    BY <2>1 DEF Tearing
  <2>3. GoesOn(D, P)
    BY <2>1, <2>2, <1>1, <1>2, <1>3, GoesOnAlike DEF Working
  <2>4. pending' \in Seq(Writes)
    BY <2>1
  <2>5. QED BY <2>3, <2>4, <1>1, <1>2, <1>9
<1>11. CASE success
  <2>1. /\ sector \in Sectors /\ sector \notin used /\ blocks \in SUBSET Sectors
        /\ \A s \in blocks : s \notin used
    BY <1>11, TakenAreClear
  <2>2. i0 \in Slots /\ ~tab[p][i0].inUse
    BY <1>11, FreeSlotFacts
  <2>3. \A i \in Slots : ~(tab[p][i].inUse /\ tab[p][i].name = name)
    BY <1>11, FindIndexFacts
  <2>4. Add(tab[p], name, sector, isDir) = [tab[p] EXCEPT ![i0] = e]
    BY DEF Add
  <2>5. pending' = CreateWrites(p, name, isDir, sector, blocks)
    BY <1>1, <1>11
  <2> DEFINE new == [tab[p] EXCEPT ![i0] = e]
             m == used \cup {sector} \cup blocks
  <2>6. e \in Entry
    BY <1>5, <2>1 DEF Entry
  <2>7. e.inUse /\ e.name = name /\ e.dir = isDir /\ e.sector = sector
    OBVIOUS
  <2>8. new \in [Slots -> Entry]
    <3> HIDE DEF e, i0, p
    <3> QED BY <1>6, <2>6
  <2> HIDE DEF e, i0, p, name, sector, blocks
  <2>9. \/ /\ e.dir
           /\ pending' = <<HeadW(sector, blocks), TableW(sector, EmptyTable), RestW(sector, EmptyTable),
                           TableW(p, new), RestW(p, new), MapW(1, m), MapW(2, m)>>
        \/ /\ ~e.dir
           /\ pending' = <<HeadW(sector, blocks), TableW(p, new), RestW(p, new), MapW(1, m), MapW(2, m)>>
    BY <2>4, <2>5, <2>7, CreateWritesAre
  <2>10. pending' \in Seq(Writes)
    <3> HIDE DEF new, m
    <3>1. m \in SUBSET Sectors
      BY <2>1, <1>8 DEF m
    <3>2. /\ HeadW(sector, blocks) \in Writes
          /\ TableW(sector, EmptyTable) \in Writes /\ RestW(sector, EmptyTable) \in Writes
          /\ TableW(p, new) \in Writes /\ RestW(p, new) \in Writes
          /\ MapW(1, m) \in Writes /\ MapW(2, m) \in Writes
      BY <3>1, <2>1, <2>8, <1>6, WritesTyped, TablesTyped
    <3>3. ASSUME NEW a \in Writes, NEW b \in Writes, NEW c \in Writes, NEW d \in Writes,
                 NEW f \in Writes, NEW g \in Writes, NEW h \in Writes
          PROVE  <<a, b, c, d, f, g, h>> \in Seq(Writes) /\ <<a, d, f, g, h>> \in Seq(Writes)
      OBVIOUS
    <3> HIDE DEF e
    <3>4. CASE e.dir
      <4>1. pending' = <<HeadW(sector, blocks), TableW(sector, EmptyTable), RestW(sector, EmptyTable),
                         TableW(p, new), RestW(p, new), MapW(1, m), MapW(2, m)>>
        BY <3>4, <2>9
      <4>2. QED BY <4>1, <3>2, <3>3
    <3>5. CASE ~e.dir
      <4>1. pending' = <<HeadW(sector, blocks), TableW(p, new), RestW(p, new), MapW(1, m), MapW(2, m)>>
        BY <3>5, <2>9
      <4>2. QED BY <4>1, <3>2, <3>3
    <3>6. QED BY <3>4, <3>5
  <2>11. Head(pending') = HeadW(sector, blocks)
    BY <2>9
  <2>12. ~Tearing'
    BY <2>11 DEF Tearing, HeadW
  <2>13. CreateStage(tab', head', used', p, i0, e, blocks, pending')
    BY <2>7, <2>9, <1>1, <1>7 DEF CreateStage
  <2>14. Fresh(tab', used', D, P, p, i0, e, blocks)
    BY <2>1, <2>2, <2>3, <2>7, <1>1, <1>5, <1>7 DEF Fresh
  <2>15. \A s : Held(tab', head', D, s) <=> Held(tab, head, D, s)
    BY <1>2, <1>3, SameDisk
  <2>16. Covered(tab', head', used', D)
    BY <2>15, <1>1, <1>2 DEF Covered
  <2>17. Creating(tab', head', used', D, P, pending')
    BY <2>1, <2>2, <2>6, <2>13, <2>14, <2>16, <1>5 DEF Creating
  <2>18. GoesOn(D, P)
    BY <2>12, <2>17, <1>1, <1>2, <1>3, GoesOnAlike DEF Working
  <2>19. QED BY <2>10, <2>18, <1>1, <1>2, <1>9
<1>12. QED BY <1>10, <1>11

(* Remove leaves the disk as it is and a sequence of writes at its first   *)
(* stage, or does nothing.                                                 *)
LEMMA RemoveStep ==
    ASSUME NEW D, NEW P, Whole(D, P), TypeOK, NEW path \in Paths, NEW recursive \in BOOLEAN,
           RemoveEntry(path, recursive)
    PROVE  TypeOK' /\ pending' \in Seq(Writes) /\ ~torn' /\ GoesOn(D, P)
<1> DEFINE p == ProcessPath(tab, path)
           name == Last(path)
           i0 == FindIndex(tab[p], name)
           all == Subtree(tab, {tab[p][i0]})
           removed == IF recursive THEN all ELSE {tab[p][i0]}
           m == used \ SectorsOf(removed)
<1>1. /\ Ready /\ p # NoSector /\ Forget
      /\ \/ i0 = 0 /\ UNCHANGED <<pending, orphans>>
         \/ /\ i0 # 0
            /\ pending' = RemoveWrites(p, name, SectorsOf(removed))
            /\ orphans' = orphans \cup (SectorsOf(all) \ SectorsOf(removed))
      /\ UNCHANGED <<used, phase, currentFile, r2, torn>>
  BY DEF RemoveEntry
<1>2. /\ pending = <<>> /\ ~torn /\ ~Tearing
      /\ Settled(tab, head, used, orphans, D, P) /\ DiskSound(tab, head, D, P)
      /\ Covered(tab, head, used, D)
  BY <1>1, ReadyMeans
<1>3. /\ Agree(tab, head, tab', head', D)
      /\ head' \in [DOMAIN head' -> SUBSET Sectors] /\ DOMAIN head' \subseteq Sectors
      /\ tab' \in [DOMAIN tab' -> [Slots -> Entry]] /\ DOMAIN tab' \subseteq Sectors
  BY <1>1, <1>2, Forgotten
<1>4. TreeSound(tab, D, P)
  BY <1>2 DEF DiskSound
<1>5. p \in D
  BY <1>1, <1>4, ProcessPathFacts
<1>6. tab[p] \in [Slots -> Entry] /\ p \in Sectors
  BY <1>4, <1>5 DEF TreeSound
<1>7. tab'[p] = tab[p]
  BY <1>3, <1>5 DEF Agree
<1>8. /\ used \subseteq Sectors /\ orphans \subseteq Sectors /\ phase \in {"main", "program"}
      /\ currentFile \in Sectors \cup {NoSector} /\ torn \in BOOLEAN /\ r2 \in {0, 1}
  BY DEF TypeOK
<1>9. ASSUME pending' \in Seq(Writes), orphans' \subseteq Sectors PROVE TypeOK'
  BY <1>1, <1>3, <1>8, <1>9, CommandTyped
<1>10. CASE i0 = 0
  <2>1. pending' = <<>> /\ orphans' = orphans
    BY <1>1, <1>2, <1>10
  <2>2. ~Tearing'
    BY <2>1 DEF Tearing
  <2>3. GoesOn(D, P)
    BY <2>1, <2>2, <1>1, <1>2, <1>3, GoesOnAlike DEF Working
  <2>4. pending' \in Seq(Writes)
    BY <2>1
  <2>5. QED BY <2>1, <2>3, <2>4, <1>1, <1>2, <1>8, <1>9
<1>11. CASE i0 # 0
  <2>1. i0 \in Slots /\ tab[p][i0].inUse
    BY <1>11, FindIndexFacts
  <2>2. /\ pending' = RemoveWrites(p, name, SectorsOf(removed))
        /\ orphans' = orphans \cup (SectorsOf(all) \ SectorsOf(removed))
    BY <1>1, <1>11
  <2>3. \A s : s \in SectorsOf(all) <=> Below(tab, head, tab[p][i0], s)
    BY <2>1, <1>2, <1>5, DiskFacts
  <2>4. \A s : s \in SectorsOf(removed) => Below(tab, head, tab[p][i0], s)
    <3>1. CASE recursive
      BY <3>1, <2>3
    <3>2. CASE ~recursive
      <4>1. SectorsOf({tab[p][i0]}) = Own(head, tab[p][i0])
        BY <2>1, <1>2, <1>5, DiskFacts
      <4>2. \A s \in Own(head, tab[p][i0]) : Below(tab, head, tab[p][i0], s)
        BY <2>1, <1>2, <1>5, OwnBelow
      <4>3. QED BY <3>2, <4>1, <4>2
    <3>3. QED BY <3>1, <3>2
  <2>5. \A s : Below(tab, head, tab[p][i0], s) => Held(tab, head, D, s)
    <3>1. \A x : x \in all <=> \/ x = tab[p][i0]
                               \/ \E d \in D, i \in Slots : /\ tab[d][i].inUse /\ x = tab[d][i]
                                                            /\ Gone(tab, P, p, i0, d)
      BY <2>1, <1>4, <1>5, SubtreeOf
    <3>2. QED BY <3>1, <2>1, <1>5 DEF Below, Held
  <2>6. RemoveFrom(tab[p], name) = [tab[p] EXCEPT ![i0].inUse = FALSE]
    BY DEF RemoveFrom
  <2> DEFINE new == [tab[p] EXCEPT ![i0].inUse = FALSE]
  <2>7. new \in [Slots -> Entry]
    <3> DEFINE old == tab[p]
               f == [old[i0] EXCEPT !.inUse = FALSE]
    <3> HIDE DEF i0, p
    <3>1. old[i0] \in Entry /\ old \in [Slots -> Entry]
      BY <1>6, <2>1
    <3>2. f \in Entry
      BY <3>1 DEF Entry
    <3>3. new = [old EXCEPT ![i0] = f]
      BY <1>6
    <3> HIDE DEF new, old, f
    <3>4. QED BY <3>1, <3>2, <3>3
  <2> HIDE DEF p, name, i0, all, removed, new
  <2>8. pending' = <<MapW(1, m), MapW(2, m), TableW(p, new), RestW(p, new)>>
    BY <2>2, <2>6, RemoveWritesAre DEF new
  <2> HIDE DEF m
  <2>9. m \in SUBSET Sectors /\ m \subseteq used
    BY <1>8 DEF m
  <2>10. pending' \in Seq(Writes)
    <3>1. /\ TableW(p, new) \in Writes /\ RestW(p, new) \in Writes
          /\ MapW(1, m) \in Writes /\ MapW(2, m) \in Writes
      BY <2>7, <2>9, <1>6, WritesTyped
    <3>2. QED BY <2>8, <3>1
  <2>11. Head(pending') = MapW(1, m)
    BY <2>8
  <2>12. ~Tearing'
    BY <2>11 DEF Tearing, MapW
  <2>13. orphans \subseteq orphans' /\ orphans' \subseteq Sectors
    BY <2>2, <2>3, <2>5, <1>2, <1>8 DEF Covered
  <2>14. \A s : Held(tab', head', D, s) <=> Held(tab, head, D, s)
    BY <1>2, <1>3, SameDisk
  <2>15. \A s : Below(tab', head', tab'[p][i0], s) <=> Below(tab, head, tab[p][i0], s)
    BY <1>2, <1>3, <1>5, <2>1, SameBelow
  <2>16. \A s : Held(tab, head, D, s) /\ ~Below(tab, head, tab[p][i0], s) => s \in m
    BY <2>4, <1>2 DEF Covered, m
  <2>17. \A s \in m : Below(tab, head, tab[p][i0], s) => s \in orphans'
    BY <2>2, <2>3 DEF m
  <2>18. RemoveStage(tab', used', p, i0, m, pending')
    BY <2>8, <1>7 DEF RemoveStage, new
  <2>19. Removing(tab', head', used', orphans', D, pending')
    BY <2>1, <2>9, <2>14, <2>15, <2>16, <2>17, <2>18, <1>1, <1>5, <1>7 DEF Removing
  <2>20. GoesOn(D, P)
    BY <2>12, <2>13, <2>19, <1>1, <1>2, <1>3, GoesOnAlike DEF Working
  <2>21. QED BY <2>10, <2>13, <2>20, <1>1, <1>2, <1>9
<1>12. QED BY <1>10, <1>11

(* The other commands leave the disk alone.                                *)
LEMMA SameDiskGoesOn ==
    ASSUME NEW D, NEW P, Whole(D, P), ~Tearing, pending' = <<>>, UNCHANGED <<used, head, tab, orphans>>
    PROVE  GoesOn(D, P)
<1>1. Settled(tab, head, used, orphans, D, P)
  BY NotTearing DEF Whole
<1>2. TreeSound(tab, D, P) /\ HeadsSound(tab, head, D)
  BY <1>1 DEF Settled, DiskSound
<1>3. Agree(tab, head, tab', head', D)
  BY <1>2 DEF Agree, TreeSound, HeadsSound
<1>4. ~Tearing'
  BY DEF Tearing
<1>5. QED BY <1>1, <1>3, <1>4, GoesOnAlike DEF Working

(* The user program's calls and a restart on a whole disk change nothing   *)
(* of the names.                                                           *)
LEMMA ProgramStep ==
    ASSUME NEW D, NEW P, Whole(D, P), TypeOK, pending \in Seq(Writes), ~torn,
           \/ ExecAll \/ CloseFile \/ \E path \in Paths : OpenAFile(path)
           \/ Restart /\ ~Tearing
    PROVE  TypeOK' /\ pending' \in Seq(Writes) /\ ~torn' /\ GoesOn(D, P)
<1>1. /\ pending' = <<>> /\ ~Tearing /\ ~torn' /\ UNCHANGED <<used, head, tab, orphans>>
      /\ phase' \in {"main", "program"} /\ r2' \in {0, 1} /\ torn' \in BOOLEAN
      /\ currentFile' \in Sectors \cup {NoSector}
  <2>1. pending = <<>> => ~Tearing
    BY DEF Tearing
  <2>2. /\ phase \in {"main", "program"} /\ r2 \in {0, 1} /\ currentFile \in Sectors \cup {NoSector}
        /\ torn \in BOOLEAN
    BY DEF TypeOK
  <2>3. CASE ExecAll
    BY <2>1, <2>2, <2>3 DEF ExecAll, Ready, disk
  <2>4. CASE CloseFile
    BY <2>1, <2>2, <2>4 DEF CloseFile, Ready, disk
  <2>5. CASE Restart /\ ~Tearing
    BY <2>2, <2>5 DEF Restart, disk
  <2>6. CASE \E path \in Paths : OpenAFile(path)
    <3>1. PICK path \in Paths : OpenAFile(path)
      BY <2>6
    <3> DEFINE p == ProcessPath(tab, path)
               sector == Find(tab[p], Last(path))
    <3>2. /\ Ready /\ p # NoSector
          /\ currentFile' = IF sector >= 0 THEN sector ELSE currentFile
          /\ r2' = IF currentFile' # NoSector THEN 1 ELSE 0
          /\ UNCHANGED <<disk, pending, phase, torn, orphans>>
      BY <3>1 DEF OpenAFile
    <3>3. pending = <<>> /\ TreeSound(tab, D, P)
      BY <3>2, ReadyMeans DEF DiskSound
    <3>4. tab[p] \in [Slots -> Entry]
      BY <3>2, <3>3, ProcessPathFacts DEF TreeSound
    <3>5. sector \in Sectors \cup {NoSector}
      <4>1. CASE FindIndex(tab[p], Last(path)) = 0
        BY <4>1 DEF Find
      <4>2. CASE FindIndex(tab[p], Last(path)) # 0
        <5>1. FindIndex(tab[p], Last(path)) \in Slots
          BY <4>2, FindIndexFacts
        <5>2. tab[p][FindIndex(tab[p], Last(path))] \in Entry
          BY <5>1, <3>4
        <5>3. QED BY <4>2, <5>2 DEF Find, Entry
      <4>3. QED BY <4>1, <4>2
    <3> HIDE DEF sector
    <3>6. QED BY <2>1, <2>2, <3>2, <3>3, <3>5 DEF disk
  <2>7. QED BY <2>3, <2>4, <2>5, <2>6
<1>2. GoesOn(D, P)
  BY <1>1, SameDiskGoesOn
<1>3. pending' \in Seq(Writes)
  BY <1>1
<1>4. TypeOK'
  <2>1. /\ used' \subseteq Sectors /\ orphans' \subseteq Sectors
        /\ head' \in [DOMAIN head' -> SUBSET Sectors] /\ DOMAIN head' \subseteq Sectors
        /\ tab' \in [DOMAIN tab' -> [Slots -> Entry]] /\ DOMAIN tab' \subseteq Sectors
    BY <1>1 DEF TypeOK
  <2>2. QED BY <1>1, <1>3, <2>1, CommandTyped
<1>5. QED BY <1>1, <1>2, <1>3, <1>4

(* A formatted disk.                                                       *)
LEMMA FormattedSound ==
    /\ \E D, P : /\ Settled(FormattedTables, FormattedHead, FormattedMap, {}, D, P)
                 /\ \A n : ~InTree(FormattedTables, D, P, n)
    /\ FormattedMap \subseteq Sectors
    /\ FormattedHead \in [DOMAIN FormattedHead -> SUBSET Sectors] /\ DOMAIN FormattedHead \subseteq Sectors
    /\ FormattedTables \in [DOMAIN FormattedTables -> [Slots -> Entry]]
    /\ DOMAIN FormattedTables \subseteq Sectors
<1> DEFINE tb == FormattedTables
           hd == FormattedHead
           D == {DirectorySector}
           P == [d \in D |-> <<>>]
<1>1. /\ DOMAIN tb = D /\ tb[DirectorySector] = EmptyTable
      /\ DOMAIN hd = {FreeMapSector, DirectorySector}
      /\ hd[FreeMapSector] = MapBlocks /\ hd[DirectorySector] = RootBlocks
  BY ConstantFacts DEF FormattedTables, FormattedHead
<1>2. {FreeMapSector, DirectorySector} \subseteq Sectors /\ FormattedMap \subseteq Sectors
  BY ConstantFacts
<1>3. \A i \in Slots : ~EmptyTable[i].inUse
  BY DEF EmptyTable, Empty
<1>4. P \in [D -> Seq(Names)] /\ P[DirectorySector] = <<>>
  OBVIOUS
<1> HIDE DEF P
<1>5. TreeSound(tb, D, P)
  <2>1. \A d \in D : tb[d] \in [Slots -> Entry]
    BY <1>1, TablesTyped
  <2>2. EntriesSound(tb, D, P) /\ NamesDiffer(tb, D) /\ EachLedTo(tb, D)
    BY <1>1, <1>3 DEF EntriesSound, NamesDiffer, EachLedTo
  <2>3. QED BY <1>1, <1>2, <1>4, <2>1, <2>2 DEF TreeSound
<1>6. HeadsSound(tb, hd, D)
  BY <1>1, <1>3 DEF HeadsSound, OwnApart
<1>7. \A s : Held(tb, hd, D, s) <=> s \in FormattedMap
  <2>1. System(hd) = FormattedMap
    BY <1>1 DEF System, FormattedMap
  <2>2. QED BY <1>1, <1>3, <2>1 DEF Held
<1>8. Settled(tb, hd, FormattedMap, {}, D, P)
  BY <1>5, <1>6, <1>7 DEF Settled, DiskSound, NoneLost, OneAtFault, Covered
<1>9. \A n : ~InTree(tb, D, P, n)
  BY <1>1, <1>3 DEF InTree
<1>10. \E D0, P0 : Settled(tb, hd, FormattedMap, {}, D0, P0) /\ \A n : ~InTree(tb, D0, P0, n)
  BY <1>8, <1>9
<1>11. tb \in [D -> [Slots -> Entry]]
  BY TablesTyped DEF FormattedTables
<1>12. hd \in [{FreeMapSector, DirectorySector} -> SUBSET Sectors]
  <2>1. MapBlocks \in SUBSET Sectors /\ RootBlocks \in SUBSET Sectors
    BY <1>2 DEF FormattedMap
  <2>2. QED BY <2>1 DEF FormattedHead
<1>13. QED BY <1>1, <1>2, <1>10, <1>11, <1>12

(***************************************************************************)
(* The invariant.                                                          *)
(***************************************************************************)
(* What a step may be: it goes on, it tears an entry, it formats the disk. *)
StepShape ==
    \/ ~torn /\ ~torn' /\ \E D, P : Whole(D, P) /\ GoesOn(D, P)
    \/ torn'
    \/ ~torn' /\ \E D, P : Whole(D, P)' /\ \A n : ~InTree(Tables', D, P, n)

(* A step that goes on keeps the invariant.                                *)
LEMMA GoesOnKeeps ==
    ASSUME NEW D, NEW P, Whole(D, P), TypeOK', pending' \in Seq(Writes), ~torn, ~torn', GoesOn(D, P)
    PROVE  IInv' /\ StepShape
<1>1. \E D1, P1 : Whole(D1, P1)'
  BY DEF GoesOn
<1>2. Tearing' => NoLeak'
  BY DEF GoesOn
<1>3. IInv'
  BY <1>1, <1>2 DEF IInv
<1>4. QED BY <1>3 DEF StepShape

(* The formatted disk the machine starts with satisfies the invariant.     *)
LEMMA InitKeeps == Init => IInv
<1> SUFFICES ASSUME Init PROVE IInv
  OBVIOUS
<1>1. /\ used = FormattedMap /\ head = FormattedHead /\ tab = FormattedTables
      /\ torn = FALSE /\ orphans = {} /\ r2 = 0
      /\ pending = <<>> /\ phase = "main" /\ currentFile = NoSector
  BY DEF Init
<1>2. ~Tearing
  BY <1>1 DEF Tearing
<1>3. \E D, P : Settled(tab, head, used, orphans, D, P)
  BY <1>1, FormattedSound
<1>4. \E D, P : Whole(D, P)
  BY <1>1, <1>2, <1>3, NotTearing DEF Whole, Working
<1>5. pending \in Seq(Writes)
  BY <1>1
<1>6. TypeOK
  <2>1. /\ used \subseteq Sectors /\ orphans \subseteq Sectors
        /\ head \in [DOMAIN head -> SUBSET Sectors] /\ DOMAIN head \subseteq Sectors
        /\ tab \in [DOMAIN tab -> [Slots -> Entry]] /\ DOMAIN tab \subseteq Sectors
    BY <1>1, FormattedSound
  <2>2. \A i \in DOMAIN pending : pending[i].to \in {"head", "table", "rest", "map"}
    BY <1>5, PendingTyped
  <2>3. QED BY <1>1, <2>1, <2>2 DEF TypeOK
<1>7. QED BY <1>1, <1>2, <1>4, <1>5, <1>6 DEF IInv

(* Formatting gives a sound and empty tree again, also after a torn        *)
(* entry.                                                                  *)
LEMMA FormatStep ==
    ASSUME IInv, Format
    PROVE  IInv' /\ StepShape
<1>1. /\ pending = <<>> /\ pending' = <<>>
      /\ used' = FormattedMap /\ head' = FormattedHead /\ tab' = FormattedTables
      /\ torn' = FALSE /\ orphans' = {} /\ r2' = 0
      /\ UNCHANGED <<phase, currentFile>>
  BY DEF Format
<1>2. ~Tearing'
  BY <1>1 DEF Tearing
<1>3. Tables' = FormattedTables
  BY <1>1, <1>2, NotTearingNext
<1>4. PICK D, P : /\ Settled(FormattedTables, FormattedHead, FormattedMap, {}, D, P)
                  /\ \A n : ~InTree(FormattedTables, D, P, n)
  BY FormattedSound
<1>5. Whole(D, P)'
  BY <1>1, <1>2, <1>3, <1>4 DEF Whole, Working
<1>6. \A n : ~InTree(Tables', D, P, n)
  BY <1>3, <1>4
<1>7. pending' \in Seq(Writes)
  BY <1>1
<1>8. TypeOK'
  <2>1. /\ used' \subseteq Sectors /\ orphans' \subseteq Sectors
        /\ head' \in [DOMAIN head' -> SUBSET Sectors] /\ DOMAIN head' \subseteq Sectors
        /\ tab' \in [DOMAIN tab' -> [Slots -> Entry]] /\ DOMAIN tab' \subseteq Sectors
    BY <1>1, FormattedSound
  <2>2. TypeOK /\ phase \in {"main", "program"} /\ currentFile \in Sectors \cup {NoSector}
    BY DEF IInv, TypeOK
  <2>3. QED BY <1>1, <1>7, <2>1, <2>2, CommandTyped
<1>9. IInv'
  BY <1>1, <1>2, <1>5, <1>7, <1>8 DEF IInv
<1>10. QED BY <1>1, <1>5, <1>6, <1>9 DEF StepShape

(* A restart that tears an entry, or finds one torn.                       *)
LEMMA TearStep ==
    ASSUME IInv, Restart, torn \/ Tearing
    PROVE  IInv' /\ StepShape
<1>1. /\ pending' = <<>> /\ phase' = "main" /\ currentFile' = NoSector /\ r2' = 0
      /\ torn' = TRUE /\ UNCHANGED <<used, head, tab, orphans>>
  BY DEF Restart, disk
<1>2. NoLeak
  BY DEF IInv
<1>3. NoLeak'
  <2>1. Files' = Files /\ SystemSectors' = SystemSectors
    BY <1>1 DEF Files, SystemSectors
  <2>2. \A s : HeaderAt(s)' = HeaderAt(s)
    BY <1>1 DEF HeaderAt
  <2>3. SectorsOf(Files)' = SectorsOf(Files)
    BY <2>1, <2>2 DEF SectorsOf
  <2>4. QED BY <1>1, <1>2, <2>1, <2>3 DEF NoLeak, Reachable
<1>4. pending' \in Seq(Writes)
  BY <1>1
<1>5. TypeOK'
  <2>1. /\ used' \subseteq Sectors /\ orphans' \subseteq Sectors /\ TypeOK
        /\ head' \in [DOMAIN head' -> SUBSET Sectors] /\ DOMAIN head' \subseteq Sectors
        /\ tab' \in [DOMAIN tab' -> [Slots -> Entry]] /\ DOMAIN tab' \subseteq Sectors
    BY <1>1 DEF IInv, TypeOK
  <2>2. QED BY <1>1, <1>4, <2>1, CommandTyped
<1>6. IInv'
  BY <1>1, <1>3, <1>4, <1>5 DEF IInv
<1>7. QED BY <1>1, <1>6 DEF StepShape

(* Every step keeps the invariant and is of one of the three shapes.       *)
LEMMA StepKeeps ==
    ASSUME IInv, Next
    PROVE  IInv' /\ StepShape
<1>1. /\ TypeOK /\ pending \in Seq(Writes)
      /\ torn => pending = <<>>
      /\ ~torn => \E D, P : Whole(D, P)
  BY DEF IInv
<1>2. ASSUME NEW D, NEW P, Whole(D, P), ~torn,
             TypeOK' /\ pending' \in Seq(Writes) /\ ~torn' /\ GoesOn(D, P)
      PROVE  IInv' /\ StepShape
  BY <1>2, GoesOnKeeps
<1>3. CASE WriteSector
  <2>1. ~torn /\ UNCHANGED torn
    BY <1>1, <1>3, AWrite
  <2>2. PICK D, P : Whole(D, P)
    BY <1>1, <2>1
  <2>3. used \subseteq Sectors
    BY <1>1 DEF TypeOK
  <2>4. GoesOn(D, P)
    BY <1>3, <2>2, <2>3, AnyWrite
  <2>5. TypeOK' /\ pending' \in Seq(Writes)
    BY <1>1, <1>3, WriteTyped
  <2>6. QED BY <2>1, <2>2, <2>4, <2>5, <1>2
<1>4. ASSUME NEW path \in Paths, NEW isDir \in BOOLEAN, NEW size \in Nat, Create(path, isDir, size)
      PROVE  IInv' /\ StepShape
  <2>1. ~torn
    BY <1>4 DEF Create, Ready, Sound
  <2>2. PICK D, P : Whole(D, P)
    BY <1>1, <2>1
  <2>3. QED BY <1>1, <1>2, <1>4, <2>1, <2>2, CreateStep
<1>5. ASSUME NEW path \in Paths, NEW recursive \in BOOLEAN, RemoveEntry(path, recursive)
      PROVE  IInv' /\ StepShape
  <2>1. ~torn
    BY <1>5 DEF RemoveEntry, Ready, Sound
  <2>2. PICK D, P : Whole(D, P)
    BY <1>1, <2>1
  <2>3. QED BY <1>1, <1>2, <1>5, <2>1, <2>2, RemoveStep
<1>6. CASE ExecAll \/ CloseFile \/ (\E path \in Paths : OpenAFile(path)) \/ (Restart /\ ~torn /\ ~Tearing)
  <2>1. ~torn
    BY <1>6 DEF ExecAll, CloseFile, OpenAFile, Ready, Sound
  <2>2. PICK D, P : Whole(D, P)
    BY <1>1, <2>1
  <2>3. TypeOK' /\ pending' \in Seq(Writes) /\ ~torn' /\ GoesOn(D, P)
    BY <1>1, <1>6, <2>1, <2>2, ProgramStep
  <2>4. QED BY <1>2, <2>1, <2>2, <2>3
<1>7. CASE Restart /\ (torn \/ Tearing)
  BY <1>7, TearStep
<1>8. CASE Format
  BY <1>8, FormatStep
<1>9. /\ \A size \in FileSizes : size \in Nat
      /\ DirSize \in Nat
  BY DiskAssumption DEF DirSize
<1>10. QED
  BY <1>3, <1>4, <1>5, <1>6, <1>7, <1>8, <1>9 DEF Next

(* A step that changes nothing keeps the invariant.                        *)
LEMMA StutterKeeps == IInv /\ UNCHANGED vars => IInv'
<1> SUFFICES ASSUME IInv, UNCHANGED vars PROVE IInv'
  OBVIOUS
<1>1. UNCHANGED <<used, head, tab, pending, phase, currentFile, r2, torn, orphans>>
  BY DEF vars
<1>2. TypeOK'
  BY <1>1 DEF IInv, TypeOK
<1>3. Tearing' = Tearing
  BY <1>1 DEF Tearing
<1>4. Tables' = Tables
  BY <1>1, <1>3 DEF Tables
<1>5. NoLeak' = NoLeak
  <2>1. Files' = Files /\ SystemSectors' = SystemSectors
    BY <1>1 DEF Files, SystemSectors
  <2>2. \A s : HeaderAt(s)' = HeaderAt(s)
    BY <1>1 DEF HeaderAt
  <2>3. SectorsOf(Files)' = SectorsOf(Files)
    BY <2>1, <2>2 DEF SectorsOf
  <2>4. QED BY <1>1, <2>1, <2>3 DEF NoLeak, Reachable
<1>6. ASSUME NEW D, NEW P, Whole(D, P) PROVE Whole(D, P)'
  BY <1>1, <1>3, <1>4, <1>6 DEF Whole
<1>7. QED BY <1>1, <1>2, <1>3, <1>5, <1>6 DEF IInv

(* The inductive invariant: for some set of directories and their paths    *)
(* the disk is settled, and the writes still to do are those of a command  *)
(* at one of its stages. It holds at every point between two disk writes   *)
(* and after every abort.                                                  *)
THEOREM Invariance == Spec => []IInv
<1>1. IInv /\ [Next]_vars => IInv'
  BY StepKeeps, StutterKeeps
<1>2. QED BY InitKeeps, <1>1, PTL DEF Spec

(* The invariant gives the three properties.                               *)
LEMMA InvariantMeans == IInv => TypeOK /\ NoLeak /\ DamageConfined
<1> SUFFICES ASSUME IInv PROVE TypeOK /\ NoLeak /\ DamageConfined
  OBVIOUS
<1>1. TypeOK
  BY DEF IInv
<1>2. CASE torn \/ Tearing
  BY <1>1, <1>2 DEF IInv, DamageConfined
<1>3. CASE ~torn /\ ~Tearing
  <2>1. PICK D, P : Whole(D, P)
    BY <1>3 DEF IInv
  <2>2. Settled(tab, head, used, orphans, D, P)
    BY <1>3, <2>1, NotTearing DEF Whole
  <2>3. QED BY <1>1, <2>2, SettledMeans
<1>4. QED BY <1>2, <1>3

(* The disk and the writes under way always have the types declared.       *)
THEOREM TypeCorrect == Spec => []TypeOK
BY Invariance, InvariantMeans, PTL

(* No abort leaks a sector, whatever is written and wherever it comes      *)
(* (filesys.cc:290, filesys.cc:410).                                       *)
THEOREM NothingLeaks == Spec => []NoLeak
BY Invariance, InvariantMeans, PTL

(* The damage of an abort is confined to the entry the interrupted command *)
(* was about, with what is below it.                                       *)
THEOREM DamageIsConfined == Spec => []DamageConfined
BY Invariance, InvariantMeans, PTL

(***************************************************************************)
(* The names on the disk.                                                  *)
(***************************************************************************)
(* The lines of a directory, and of one level more.                        *)
LineFor(q, e) == [path |-> Append(q, e.name), dir |-> e.dir, sector |-> e.sector]
LinesIn(tb, q, s) == {LineFor(q, e) : e \in Used(TableAt(tb, s))}
MoreLines(tb, S) == S \cup UNION {LinesIn(tb, l.path, l.sector) : l \in {m \in S : m.dir}}

ListLevels(f, tb) ==
    /\ f[0] = LinesIn(tb, <<>>, DirectorySector)
    /\ \A k \in 1..(MaxDepth - 1) : f[k] = MoreLines(tb, f[k - 1])

(* RecursiveList lists one level after the other.                          *)
LEMMA ListRecursion ==
    ASSUME NEW tb
    PROVE  \E f : ListLevels(f, tb) /\ RecursiveList(tb) = f[MaxDepth - 1]
<1> DEFINE N == MaxDepth - 1
           E == (UNION {Used(tb[s]) : s \in DOMAIN tb}) \cup Used(GarbageTable)
           V == {e.name : e \in E}
           U == [path : Seq(V), dir : {e.dir : e \in E}, sector : {e.sector : e \in E}]
           A == SUBSET U
           base == LinesIn(tb, <<>>, DirectorySector)
           Step == [n \in 1..N |-> [S \in A |-> MoreLines(tb, S)]]
           F(f) == [k \in 0..N |-> IF k = 0 THEN base ELSE MoreLines(tb, f[k - 1])]
           upTo == CHOOSE f : f = F(f)
<1>1. N \in Nat
  BY MaxDepthFacts
<1>2. \A q \in Seq(V) : \A s : LinesIn(tb, q, s) \subseteq U
  <2>1. \A s : Used(TableAt(tb, s)) \subseteq E
    BY DEF TableAt
  <2>2. ASSUME NEW q \in Seq(V), NEW e \in E PROVE LineFor(q, e) \in U
    <3>1. e.name \in V /\ e.dir \in {x.dir : x \in E} /\ e.sector \in {x.sector : x \in E}
      OBVIOUS
    <3> DEFINE W1 == {x.dir : x \in E}
               W2 == {x.sector : x \in E}
    <3> HIDE DEF E, V, W1, W2
    <3>2. Append(q, e.name) \in Seq(V)
      BY <2>2, <3>1
    <3>3. e.dir \in W1 /\ e.sector \in W2
      BY <3>1 DEF W1, W2
    <3>4. LineFor(q, e) \in [path : Seq(V), dir : W1, sector : W2]
      BY <3>2, <3>3 DEF LineFor
    <3>5. QED BY <3>4 DEF W1, W2
  <2> HIDE DEF U, E
  <2>3. QED BY <2>1, <2>2 DEF LinesIn
<1>3. base \in A
  <2>1. <<>> \in Seq(V)
    OBVIOUS
  <2> HIDE DEF U, V
  <2>2. QED BY <1>2, <2>1
<1>4. \A S \in A : MoreLines(tb, S) \in A
  <2>1. \A l \in U : l.path \in Seq(V)
    OBVIOUS
  <2> HIDE DEF U, V
  <2>2. QED BY <1>2, <2>1 DEF MoreLines
<1>5. Step \in [1..N -> [A -> A]] /\ \A n \in 1..N, S \in A : Step[n][S] = MoreLines(tb, S)
  <2> HIDE DEF A, N
  <2> QED BY <1>4
<1> HIDE DEF Step
<1>6. PICK g \in [0..N -> A] : Recurs(g, base, N, Step)
  <2>1. Step \in Steps(N, A)
    BY <1>5 DEF Steps
  <2> HIDE DEF N, A, base
  <2> QED BY <1>1, <1>3, <2>1, RecursionExists
<1>7. g[0] = base /\ \A n \in 1..N : g[n] = MoreLines(tb, g[n - 1])
  <2>1. ASSUME NEW n \in 1..N PROVE g[n] = MoreLines(tb, g[n - 1])
    <3>1. n - 1 \in 0..N
      BY <1>1
    <3> HIDE DEF N, A, base
    <3>2. g[n - 1] \in A
      BY <1>6, <3>1
    <3>3. QED BY <1>5, <1>6, <3>2 DEF Recurs
  <2>2. QED BY <1>6, <2>1 DEF Recurs
<1>8. g = F(g)
  <2>1. \A n \in 0..N : n = 0 \/ n \in 1..N
    BY <1>1
  <2>2. \A n \in 0..N : g[n] = F(g)[n]
    <3> HIDE DEF N, base
    <3> QED BY <1>7, <2>1
  <2> HIDE DEF N, base, A
  <2>3. QED BY <1>6, <2>2
<1>9. upTo = F(upTo)
  <2> HIDE DEF F
  <2> QED BY <1>8
<1>10. RecursiveList(tb) = upTo[N]
  BY DEF RecursiveList, MoreLines, LinesIn, LineFor
<1> HIDE DEF upTo
<1>11. ListLevels(upTo, tb)
  <2>1. 0 \in 0..N /\ \A n \in 1..N : n \in 0..N /\ n # 0
    BY <1>1
  <2>2. \A n \in 0..N : upTo[n] = F(upTo)[n]
    BY <1>9
  <2> HIDE DEF N, base
  <2>3. upTo[0] = base /\ \A n \in 1..N : upTo[n] = MoreLines(tb, upTo[n - 1])
    BY <2>1, <2>2
  <2>4. QED BY <2>3 DEF ListLevels, N, base
<1>12. QED BY <1>10, <1>11

(* It lists every entry of every directory, with the directory's path.     *)
LEMMA ListIs ==
    ASSUME NEW tb, NEW D, NEW P, TreeSound(tb, D, P), NEW l
    PROVE  l \in RecursiveList(tb) <=>
               \E d \in D, i \in Slots : tb[d][i].inUse /\ l = LineFor(P[d], tb[d][i])
<1> DEFINE C == UNION {LinesIn(tb, P[d], d) : d \in D}
<1>1. PICK f : ListLevels(f, tb) /\ RecursiveList(tb) = f[MaxDepth - 1]
  BY ListRecursion
<1>2. /\ DirectorySector \in D /\ P[DirectorySector] = <<>>
      /\ \A d \in D : TableAt(tb, d) = tb[d]
  BY DEF TreeSound, TableAt
<1>3. \A d \in D : \A x : x \in LinesIn(tb, P[d], d) <=>
                      \E i \in Slots : tb[d][i].inUse /\ x = LineFor(P[d], tb[d][i])
  BY <1>2 DEF LinesIn, Used
<1>4. ASSUME NEW d \in D, NEW i \in Slots, tb[d][i].inUse, tb[d][i].dir
      PROVE  /\ tb[d][i].sector \in D
             /\ LineFor(P[d], tb[d][i]).path = P[tb[d][i].sector]
             /\ LineFor(P[d], tb[d][i]).sector = tb[d][i].sector
             /\ LineFor(P[d], tb[d][i]).dir
  BY <1>4 DEF TreeSound, EntriesSound, LineFor
<1>5. \A d \in D, i \in Slots : LineFor(P[d], tb[d][i]).dir = tb[d][i].dir
  BY DEF LineFor
<1>6. \A x : x \in C <=> \E d \in D : x \in LinesIn(tb, P[d], d)
  OBVIOUS
<1> HIDE DEF C
<1>7. ASSUME NEW x \in C, x.dir PROVE LinesIn(tb, x.path, x.sector) \subseteq C
  <2>1. PICK d \in D, i \in Slots : tb[d][i].inUse /\ x = LineFor(P[d], tb[d][i])
    BY <1>3, <1>6
  <2>2. x.sector \in D /\ x.path = P[x.sector]
    BY <1>4, <1>5, <1>7, <2>1
  <2>3. QED BY <2>2, <1>6
<1>8. \A k \in 0..(MaxDepth - 1) : f[k] \subseteq C
  <2> DEFINE Q == {k \in Nat : k <= MaxDepth - 1 => f[k] \subseteq C}
  <2>1. 0 \in Q
    BY <1>1, <1>2, <1>6 DEF ListLevels
  <2>2. ASSUME NEW k \in Nat, k \in Q PROVE k + 1 \in Q
    <3> SUFFICES ASSUME k + 1 <= MaxDepth - 1 PROVE f[k + 1] \subseteq C
      OBVIOUS
    <3>1. f[k] \subseteq C /\ k + 1 \in 1..(MaxDepth - 1) /\ (k + 1) - 1 = k
      BY <2>2, MaxDepthFacts
    <3>2. f[k + 1] = MoreLines(tb, f[k])
      BY <1>1, <3>1 DEF ListLevels
    <3>3. QED BY <3>1, <3>2, <1>7 DEF MoreLines
  <2>3. \A k \in Nat : k \in Q
    <3> HIDE DEF Q
    <3> QED BY <2>1, <2>2, InductionOnSet
  <2>4. QED BY <2>3, MaxDepthFacts
<1>9. \A k \in 1..(MaxDepth - 1) : f[k - 1] \subseteq f[k]
  BY <1>1 DEF ListLevels, MoreLines
<1>10. \A k \in 0..(MaxDepth - 1) : f[k] \subseteq f[MaxDepth - 1]
  <2> DEFINE Q == {j \in Nat : j <= MaxDepth - 1 => f[(MaxDepth - 1) - j] \subseteq f[MaxDepth - 1]}
  <2>1. 0 \in Q
    BY MaxDepthFacts
  <2>2. ASSUME NEW j \in Nat, j \in Q PROVE j + 1 \in Q
    <3> SUFFICES ASSUME j + 1 <= MaxDepth - 1
                 PROVE  f[(MaxDepth - 1) - (j + 1)] \subseteq f[MaxDepth - 1]
      OBVIOUS
    <3> DEFINE k == (MaxDepth - 1) - j
    <3>1. k \in 1..(MaxDepth - 1) /\ (MaxDepth - 1) - (j + 1) = k - 1 /\ j <= MaxDepth - 1
      BY MaxDepthFacts
    <3>2. f[k] \subseteq f[MaxDepth - 1]
      BY <2>2, <3>1
    <3> HIDE DEF k
    <3>3. QED BY <3>1, <3>2, <1>9
  <2>3. \A j \in Nat : j \in Q
    <3> HIDE DEF Q
    <3> QED BY <2>1, <2>2, InductionOnSet
  <2>4. SUFFICES ASSUME NEW k \in 0..(MaxDepth - 1) PROVE f[k] \subseteq f[MaxDepth - 1]
    OBVIOUS
  <2>5. /\ (MaxDepth - 1) - k \in Nat /\ (MaxDepth - 1) - k <= MaxDepth - 1
        /\ (MaxDepth - 1) - ((MaxDepth - 1) - k) = k
    BY MaxDepthFacts
  <2>6. QED BY <2>3, <2>5
<1>11. \A k \in Nat : k <= MaxDepth - 1 => \A d \in D : Len(P[d]) = k => LinesIn(tb, P[d], d) \subseteq f[k]
  <2> DEFINE Q == {k \in Nat : k <= MaxDepth - 1 =>
                      \A d \in D : Len(P[d]) = k => LinesIn(tb, P[d], d) \subseteq f[k]}
  <2>1. 0 \in Q
    <3>1. \A d \in D : Len(P[d]) = 0 => d = DirectorySector
      BY PathFacts
    <3>2. LinesIn(tb, P[DirectorySector], DirectorySector) = f[0]
      BY <1>1, <1>2 DEF ListLevels
    <3>3. QED BY <3>1, <3>2
  <2>2. ASSUME NEW k \in Nat, k \in Q PROVE k + 1 \in Q
    <3> SUFFICES ASSUME k + 1 <= MaxDepth - 1, NEW d \in D, Len(P[d]) = k + 1
                 PROVE  LinesIn(tb, P[d], d) \subseteq f[k + 1]
      OBVIOUS
    <3>1. d # DirectorySector
      BY <1>2
    <3>2. PICK p \in D, i \in Slots :
               /\ tb[p][i].inUse /\ tb[p][i].dir /\ tb[p][i].sector = d
               /\ P[d] = Append(P[p], tb[p][i].name) /\ Len(P[d]) = Len(P[p]) + 1
      BY <3>1, ParentOf
    <3>3. Len(P[p]) \in Nat
      BY PathFacts
    <3>4. Len(P[p]) = k /\ k <= MaxDepth - 1
      BY <3>2, <3>3, MaxDepthFacts
    <3> DEFINE x == LineFor(P[p], tb[p][i])
    <3>5. x \in f[k]
      BY <2>2, <3>2, <3>4, <1>3
    <3>6. x.path = P[d] /\ x.sector = d /\ x.dir
      BY <3>2, <1>4
    <3>7. k + 1 \in 1..(MaxDepth - 1) /\ (k + 1) - 1 = k
      BY MaxDepthFacts
    <3>8. f[k + 1] = MoreLines(tb, f[k])
      BY <1>1, <3>7 DEF ListLevels
    <3> HIDE DEF x
    <3>9. QED BY <3>5, <3>6, <3>8 DEF MoreLines
  <2>3. \A k \in Nat : k \in Q
    <3> HIDE DEF Q
    <3> QED BY <2>1, <2>2, InductionOnSet
  <2>4. QED BY <2>3
<1>12. ASSUME NEW d \in D, NEW i \in Slots, tb[d][i].inUse
       PROVE  LineFor(P[d], tb[d][i]) \in f[MaxDepth - 1]
  <2>1. /\ P[d] \in Seq(Names) /\ Len(P[d]) \in Nat /\ tb[d][i].name \in Names
        /\ Append(P[d], tb[d][i].name) \in Paths
    BY <1>12, PathFacts DEF TreeSound, EntriesSound
  <2>2. Len(Append(P[d], tb[d][i].name)) = Len(P[d]) + 1
    BY <2>1
  <2>3. Len(P[d]) <= MaxDepth - 1
    <3>1. Len(Append(P[d], tb[d][i].name)) <= MaxDepth /\ MaxDepth \in Nat
      BY <2>1, MaxDepthFacts
    <3>2. QED BY <2>1, <2>2, <3>1
  <2>4. LinesIn(tb, P[d], d) \subseteq f[Len(P[d])]
    BY <2>1, <2>3, <1>11
  <2>5. Len(P[d]) \in 0..(MaxDepth - 1)
    BY <2>1, <2>3, MaxDepthFacts
  <2>6. QED BY <2>4, <2>5, <1>3, <1>10, <1>12
<1>13. MaxDepth - 1 \in 0..(MaxDepth - 1)
  BY MaxDepthFacts
<1>14. ASSUME NEW x \in f[MaxDepth - 1]
       PROVE  \E d \in D, i \in Slots : tb[d][i].inUse /\ x = LineFor(P[d], tb[d][i])
  <2>1. x \in C
    BY <1>8, <1>13
  <2>2. QED BY <2>1, <1>3, <1>6
<1>15. l \in f[MaxDepth - 1] <=>
           \E d \in D, i \in Slots : tb[d][i].inUse /\ l = LineFor(P[d], tb[d][i])
  BY <1>12, <1>14
<1>16. QED BY <1>1, <1>15

(* The names RecursiveList prints are the names of the tree.               *)
LEMMA NamesOf ==
    ASSUME NEW tb, NEW D, NEW P, TreeSound(tb, D, P), NEW n
    PROVE  n \in {[path |-> l.path, dir |-> l.dir] : l \in RecursiveList(tb)} <=> InTree(tb, D, P, n)
<1>1. \A l : l \in RecursiveList(tb) <=>
                 \E d \in D, i \in Slots : tb[d][i].inUse /\ l = LineFor(P[d], tb[d][i])
  BY ListIs
<1>2. \A d \in D, i \in Slots : /\ LineFor(P[d], tb[d][i]).path = Append(P[d], tb[d][i].name)
                                /\ LineFor(P[d], tb[d][i]).dir = tb[d][i].dir
  BY DEF LineFor
<1>3. ASSUME NEW l \in RecursiveList(tb), n = [path |-> l.path, dir |-> l.dir] PROVE InTree(tb, D, P, n)
  <2>1. PICK d \in D, i \in Slots : tb[d][i].inUse /\ l = LineFor(P[d], tb[d][i])
    BY <1>1
  <2>2. QED BY <2>1, <1>2, <1>3 DEF InTree
<1>4. ASSUME InTree(tb, D, P, n)
      PROVE  \E l \in RecursiveList(tb) : n = [path |-> l.path, dir |-> l.dir]
  <2>1. PICK d \in D, i \in Slots :
            tb[d][i].inUse /\ n = [path |-> Append(P[d], tb[d][i].name), dir |-> tb[d][i].dir]
    BY <1>4 DEF InTree
  <2>2. LineFor(P[d], tb[d][i]) \in RecursiveList(tb)
    BY <2>1, <1>1
  <2>3. QED BY <2>1, <2>2, <1>2
<1>5. QED BY <1>3, <1>4

(* The tree the refinement shows is the tree of the disk.                  *)
LEMMA TreeIs ==
    ASSUME NEW D, NEW P, ~torn, Whole(D, P)
    PROVE  TreeSound(Tables, D, P) /\ \A n : n \in Tree <=> InTree(Tables, D, P, n)
<1>1. TreeSound(Tables, D, P)
  BY DEF Whole, Settled, DiskSound
<1> DEFINE T == {[path |-> l.path, dir |-> l.dir] : l \in RecursiveList(Tables)}
<1>2. \A n : n \in T <=> InTree(Tables, D, P, n)
  BY <1>1, NamesOf
<1>3. Tree = T
  BY DEF Tree
<1> HIDE DEF T
<1>4. QED BY <1>1, <1>2, <1>3

(* The same of the next state.                                             *)
LEMMA TreeIsNext ==
    ASSUME NEW D, NEW P, ~torn', Whole(D, P)'
    PROVE  \A n : n \in Tree' <=> InTree(Tables', D, P, n)
<1>1. TreeSound(Tables', D, P)
  BY DEF Whole, Settled, DiskSound
<1> DEFINE T == {[path |-> l.path, dir |-> l.dir] : l \in RecursiveList(Tables')}
<1>2. \A n : n \in T <=> InTree(Tables', D, P, n)
  BY <1>1, NamesOf
<1>3. Tree' = T
  BY DEF Tree
<1> HIDE DEF T
<1>4. QED BY <1>2, <1>3

(* NameTree's Below is Leads.                                              *)
LEMMA BelowIsLeads ==
    ASSUME NEW S, NEW p \in Seq(S), NEW q \in Seq(S)
    PROVE  Abstract!Below(p, q) <=> Leads(p, q)
<1>1. Len(p) \in Nat /\ Len(q) \in Nat
  OBVIOUS
<1>2. CASE Len(p) <= Len(q)
  <2> DEFINE r == SubSeq(q, 1, Len(p))
  <2>1. r \in Seq(S) /\ Len(r) = Len(p) /\ \A i \in 1..Len(p) : r[i] = q[i]
    BY <1>1, <1>2
  <2> HIDE DEF r
  <2>2. r = p <=> \A i \in 1..Len(p) : p[i] = q[i]
    <3>1. ASSUME \A i \in 1..Len(p) : p[i] = q[i] PROVE r = p
      BY <2>1, <3>1, SeqEqual
    <3>2. QED BY <2>1, <3>1
  <2>3. QED BY <1>1, <1>2, <2>2 DEF Abstract!Below, Leads, r
<1>3. CASE ~(Len(p) <= Len(q))
  BY <1>1, <1>3 DEF Abstract!Below, Leads
<1>4. QED BY <1>2, <1>3

(* A path without its last name is the path of the directory.              *)
LEMMA FrontOfAppend ==
    ASSUME NEW S, NEW q \in Seq(S), NEW x \in S
    PROVE  /\ SubSeq(Append(q, x), 1, Len(Append(q, x)) - 1) = q
           /\ q = <<>> => Len(Append(q, x)) = 1
<1> DEFINE a == Append(q, x)
           r == SubSeq(a, 1, Len(q))
<1>1. a \in Seq(S) /\ Len(a) = Len(q) + 1 /\ Len(q) \in Nat /\ \A i \in 1..Len(q) : a[i] = q[i]
  OBVIOUS
<1> HIDE DEF a
<1>2. r \in Seq(S) /\ Len(r) = Len(q) /\ \A i \in 1..Len(q) : r[i] = a[i]
  BY <1>1
<1>3. Len(a) - 1 = Len(q)
  BY <1>1
<1> HIDE DEF r
<1>4. r = q
  BY <1>1, <1>2, SeqEqual
<1>5. q = <<>> => Len(a) = 1
  BY <1>1
<1>6. QED BY <1>3, <1>4, <1>5 DEF a, r

(* A step that goes on is a command of NameTree, or leaves its tree        *)
(* alone.                                                                  *)
LEMMA GoesOnAbstractly ==
    ASSUME IInv, IInv', ~torn, ~torn', NEW D, NEW P, Whole(D, P), GoesOn(D, P)
    PROVE  [Abstract!Next]_Abstract!vars
<1>1. PICK D1, P1 : Whole(D1, P1)' /\ NamesStep(Tables, D, P, Tables', D1, P1)
  BY DEF GoesOn
<1>2. TreeSound(Tables, D, P) /\ \A n : n \in Tree <=> InTree(Tables, D, P, n)
  BY TreeIs
<1>3. \A n : n \in Tree' <=> InTree(Tables', D1, P1, n)
  BY <1>1, TreeIsNext
<1>4. torn = FALSE /\ torn' = FALSE
  BY DEF IInv, TypeOK
<1>5. \A n \in Tree : n.path \in Paths /\ n.path \in Seq(Names)
  <2>1. ASSUME NEW n \in Tree PROVE n.path \in Paths
    <3>1. PICK d \in D, i \in Slots :
              Tables[d][i].inUse /\ n = [path |-> Append(P[d], Tables[d][i].name), dir |-> Tables[d][i].dir]
      BY <1>2 DEF InTree
    <3>2. QED BY <3>1, <1>2 DEF TreeSound, EntriesSound
  <2>2. QED BY <2>1, MaxDepthFacts
<1>6. CASE SameNames(Tables, D, P, Tables', D1, P1)
  <2>1. \A n : n \in Tree' <=> n \in Tree
    BY <1>2, <1>3, <1>6 DEF SameNames
  <2>2. Tree' = Tree
    BY <2>1
  <2>3. QED BY <1>4, <2>2 DEF Abstract!vars
<1>7. CASE OneMore(Tables, D, P, Tables', D1, P1)
  <2>1. PICK q \in Seq(Names), x \in Names, isDir \in BOOLEAN :
            /\ Append(q, x) \in Paths
            /\ \A n : InTree(Tables, D, P, n) => n.path # Append(q, x)
            /\ q = <<>> \/ InTree(Tables, D, P, [path |-> q, dir |-> TRUE])
            /\ \A n : InTree(Tables', D1, P1, n) <=>
                          InTree(Tables, D, P, n) \/ n = [path |-> Append(q, x), dir |-> isDir]
    BY <1>7 DEF OneMore
  <2> DEFINE p == Append(q, x)
             new == [path |-> p, dir |-> isDir]
  <2>2. SubSeq(p, 1, Len(p) - 1) = q /\ (q = <<>> => Len(p) = 1)
    BY FrontOfAppend
  <2> HIDE DEF p
  <2>3. p \in Paths /\ \A n \in Tree : n.path # p
    BY <1>2, <2>1 DEF p
  <2>4. p \notin Abstract!PathsIn(Tree)
    BY <2>3 DEF Abstract!PathsIn
  <2>5. Len(p) > 1 => [path |-> SubSeq(p, 1, Len(p) - 1), dir |-> TRUE] \in Tree
    <3> DEFINE up == [path |-> q, dir |-> TRUE]
    <3>1. q = <<>> \/ up \in Tree
      BY <1>2, <2>1
    <3> HIDE DEF up
    <3>2. q = <<>> => ~(Len(p) > 1)
      BY <2>2
    <3>3. Len(p) > 1 => up \in Tree
      BY <3>1, <3>2
    <3>4. QED BY <3>3, <2>2 DEF up
  <2>6. p \in Abstract!Creatable(Tree)
    BY <2>3, <2>4, <2>5 DEF Abstract!Creatable
  <2>7. Tree' = Tree \cup {new}
    <3>1. \A n : n \in Tree' <=> n \in Tree \/ n = new
      BY <1>2, <1>3, <2>1 DEF p
    <3> HIDE DEF new
    <3>2. QED BY <3>1
  <2>8. Tree' \in {Tree \cup {[path |-> r, dir |-> d]} : r \in Abstract!Creatable(Tree), d \in BOOLEAN}
    BY <2>6, <2>7
  <2>9. Abstract!Command
    BY <1>4, <2>8 DEF Abstract!Command
  <2>10. QED BY <2>9 DEF Abstract!Next
<1>8. CASE OneLess(Tables, D, P, Tables', D1, P1)
  <2>1. PICK m : /\ InTree(Tables, D, P, m)
                 /\ \A n : InTree(Tables', D1, P1, n) <=> InTree(Tables, D, P, n) /\ ~Leads(m.path, n.path)
    BY <1>8 DEF OneLess
  <2>2. m \in Tree
    BY <1>2, <2>1
  <2>3. m.path \in Abstract!PathsIn(Tree)
    BY <2>2 DEF Abstract!PathsIn
  <2>4. \A n \in Tree : Abstract!Below(m.path, n.path) <=> Leads(m.path, n.path)
    BY <1>5, <2>2, BelowIsLeads
  <2>5. Tree' = {n \in Tree : ~Abstract!Below(m.path, n.path)}
    <3>1. \A n : n \in Tree' <=> n \in Tree /\ ~Abstract!Below(m.path, n.path)
      BY <1>2, <1>3, <2>1, <2>4
    <3>2. QED BY <3>1
  <2>6. Tree' \in {{n \in Tree : ~Abstract!Below(r, n.path)} : r \in Abstract!PathsIn(Tree)}
    BY <2>3, <2>5
  <2>7. Abstract!Command
    BY <1>4, <2>6 DEF Abstract!Command
  <2>8. QED BY <2>7 DEF Abstract!Next
<1>9. QED BY <1>1, <1>6, <1>7, <1>8 DEF NamesStep

(* Every step is a step of NameTree or leaves its variables alone.         *)
LEMMA StepAbstractly ==
    ASSUME IInv, IInv', [Next]_vars
    PROVE  [Abstract!Next]_Abstract!vars
<1>1. torn' \in BOOLEAN
  BY DEF IInv, TypeOK
<1>2. CASE UNCHANGED vars
  <2>1. UNCHANGED <<tab, pending, torn>>
    BY <1>2 DEF vars
  <2>2. Tearing' = Tearing
    BY <2>1 DEF Tearing
  <2>3. Tables' = Tables
    BY <2>1, <2>2 DEF Tables
  <2>4. Tree' = Tree
    BY <2>1, <2>3 DEF Tree
  <2>5. QED BY <2>1, <2>4 DEF Abstract!vars
<1>3. CASE Next
  <2>1. StepShape
    BY <1>3, StepKeeps
  <2>2. CASE ~torn /\ ~torn' /\ \E D, P : Whole(D, P) /\ GoesOn(D, P)
    BY <2>2, GoesOnAbstractly
  <2>3. CASE torn'
    <3>1. torn' = TRUE /\ Tree' = {}
      BY <1>1, <2>3 DEF Tree
    <3>2. QED BY <3>1 DEF Abstract!Next, Abstract!Tear
  <2>4. CASE ~torn' /\ \E D, P : Whole(D, P)' /\ \A n : ~InTree(Tables', D, P, n)
    <3>1. PICK D, P : Whole(D, P)' /\ \A n : ~InTree(Tables', D, P, n)
      BY <2>4
    <3>2. \A n : n \notin Tree'
      BY <2>4, <3>1, TreeIsNext
    <3>3. Tree' = {} /\ torn' = FALSE
      BY <1>1, <2>4, <3>2
    <3>4. QED BY <3>3 DEF Abstract!Next, Abstract!Format
  <2>5. QED BY <2>1, <2>2, <2>3, <2>4 DEF StepShape
<1>4. QED BY <1>2, <1>3

(* The formatted disk has no names.                                        *)
LEMMA InitAbstractly == Init => Abstract!Init
<1> SUFFICES ASSUME Init PROVE Abstract!Init
  OBVIOUS
<1>1. torn = FALSE /\ tab = FormattedTables /\ pending = <<>>
  BY DEF Init
<1>2. Tables = FormattedTables
  BY <1>1, NotTearing DEF Tearing
<1>3. PICK D, P : TreeSound(FormattedTables, D, P) /\ \A n : ~InTree(FormattedTables, D, P, n)
  BY FormattedSound DEF Settled, DiskSound
<1> DEFINE T == {[path |-> l.path, dir |-> l.dir] : l \in RecursiveList(Tables)}
<1>4. \A n : n \notin T
  BY <1>2, <1>3, NamesOf
<1>5. Tree = T
  BY <1>1 DEF Tree
<1> HIDE DEF T
<1>6. Tree = {}
  BY <1>4, <1>5
<1>7. QED BY <1>1, <1>6 DEF Abstract!Init

(* Every command of the file system happens to the names at one disk write *)
(* or, if an abort comes first, not at all.                                *)
THEOREM Implements == Spec => ImplementsNameTree
<1>1. IInv /\ IInv' /\ [Next]_vars => [Abstract!Next]_Abstract!vars
  BY StepAbstractly
<1>2. QED BY Invariance, InitAbstractly, <1>1, PTL DEF Spec, ImplementsNameTree, Abstract!Spec
================================================================================
