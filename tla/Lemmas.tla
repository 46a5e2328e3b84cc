--------------------------------- MODULE Lemmas --------------------------------
(***************************************************************************)
(* What the proofs of several modules need: facts about sets of natural    *)
(* numbers, and what the operations on queues and lists do to the set of   *)
(* their elements, to their order and to their having no duplicates.       *)
(* Induction is over a set, not over a predicate: a theorem with an        *)
(* operator parameter could not be used by the provers.                    *)
(***************************************************************************)
EXTENDS SequencesExt, SequenceTheorems, FiniteSetTheorems, TLAPS, Sublists

(* A set of natural numbers has a least element. *)
LEMMA LeastElement ==
    ASSUME NEW S, S \subseteq Nat, S # {}
    PROVE  \E x \in S : \A y \in S : x <= y
<1> DEFINE Less == OpToRel(<, Nat)
<1>1. IsWellFoundedOn(Less, Nat)
  BY NatLessThanWellFounded
<1>2. \A x, y \in Nat : y < x => <<y, x>> \in Less
  BY Zenon DEF OpToRel
<1> HIDE DEF Less
<1>3. PICK x \in S : \A y \in S : ~(<<y, x>> \in Less)
  BY <1>1, WFMin
<1>4. \A y \in S : ~(y < x)
  BY <1>2, <1>3, Zenon
<1>5. \A y \in S : x <= y
  BY <1>4
<1>6. QED BY <1>5, Zenon

(* Induction: a set that has 0 and the successor of each of its numbers    *)
(* has all of them.                                                        *)
LEMMA InductionOnSet ==
    ASSUME NEW Q, 0 \in Q, \A n \in Nat : n \in Q => n + 1 \in Q
    PROVE  \A n \in Nat : n \in Q
<1> SUFFICES ASSUME Nat \ Q # {} PROVE FALSE
  OBVIOUS
<1>1. PICK m \in Nat \ Q : \A y \in Nat \ Q : m <= y
  BY LeastElement
<1>2. m # 0 /\ m - 1 \in Nat
  BY <1>1
<1>3. m - 1 \in Q
  BY <1>1, <1>2
<1>4. QED BY <1>1, <1>2, <1>3

(* A function on 0..N may be defined from each value to the next ...       *)
Steps(N, A) == [1..N -> [A -> A]]
Recurs(f, base, N, Step) == f[0] = base /\ \A n \in 1..N : f[n] = Step[n][f[n - 1]]

(* ... there is such a function ...                                        *)
LEMMA RecursionExists ==
    ASSUME NEW A, NEW N \in Nat, NEW base \in A, NEW Step \in Steps(N, A)
    PROVE  \E f \in [0..N -> A] : Recurs(f, base, N, Step)
<1> USE DEF Steps
<1> DEFINE Good(f, m) == f[0] = base /\ \A n \in 1..m : f[n] = Step[n][f[n - 1]]
           Q == {m \in Nat : m <= N => \E f \in [0..m -> A] : Good(f, m)}
<1>1. 0 \in Q
  <2>1. [n \in 0..0 |-> base] \in [0..0 -> A] /\ Good([n \in 0..0 |-> base], 0)
    OBVIOUS
  <2>2. QED BY <2>1
<1>2. ASSUME NEW m \in Nat, m \in Q PROVE m + 1 \in Q
  <2> SUFFICES ASSUME m + 1 <= N PROVE \E g \in [0..(m + 1) -> A] : Good(g, m + 1)
    OBVIOUS
  <2>1. PICK f \in [0..m -> A] : Good(f, m)
    BY <1>2
  <2> DEFINE g == [n \in 0..(m + 1) |-> IF n = m + 1 THEN Step[n][f[m]] ELSE f[n]]
  <2>2. /\ m + 1 \in 1..N /\ f[m] \in A /\ Step[m + 1][f[m]] \in A
        /\ \A n \in 0..(m + 1) : n # m + 1 => n \in 0..m
    BY <2>1
  <2>3. g \in [0..(m + 1) -> A]
    BY <2>2
  <2>4. /\ g[m + 1] = Step[m + 1][f[m]]
        /\ \A n \in 0..m : g[n] = f[n]
    BY <2>2
  <2> HIDE DEF g
  <2>5. g[0] = base
    BY <2>1, <2>4
  <2>6. ASSUME NEW n \in 1..(m + 1) PROVE g[n] = Step[n][g[n - 1]]
    <3>1. n - 1 \in 0..m /\ g[n - 1] = f[n - 1]
      BY <2>4
    <3>2. CASE n = m + 1
      BY <3>1, <3>2, <2>4
    <3>3. CASE n # m + 1
      BY <3>1, <3>3, <2>1, <2>4
    <3>4. QED BY <3>2, <3>3
  <2>7. QED BY <2>3, <2>5, <2>6
<1>3. N \in Q
  <2> HIDE DEF Q
  <2> QED BY <1>1, <1>2, InductionOnSet
<1>4. QED BY <1>3 DEF Recurs

(* ... and what starts and goes on alike is the same.                      *)
Alike(f, g, N) == f[0] = g[0] /\ \A n \in 1..N : f[n - 1] = g[n - 1] => f[n] = g[n]
SameUpTo(f, g, N) == \A n \in 0..N : f[n] = g[n]

(* ... and only one, so that CHOOSE finds it.                              *)
LEMMA RecursionUnique ==
    ASSUME NEW M \in Nat, NEW f, NEW g, Alike(f, g, M)
    PROVE  SameUpTo(f, g, M)
<1> USE DEF Alike, SameUpTo
<1> DEFINE Q == {n \in Nat : n <= M => f[n] = g[n]}
<1>1. 0 \in Q
  OBVIOUS
<1>2. ASSUME NEW n \in Nat, n \in Q PROVE n + 1 \in Q
  <2>1. n + 1 <= M => n + 1 \in 1..M /\ (n + 1) - 1 = n /\ n <= M
    OBVIOUS
  <2>2. QED BY <2>1, <1>2
<1>3. \A n \in Nat : n \in Q
  <2> HIDE DEF Q
  <2> QED BY <1>1, <1>2, InductionOnSet
<1>4. QED BY <1>3

--------------------------------------------------------------------------------
(* The elements of S below f. *)
LessThan(S, f) == {g \in S : g < f}

(* They are finitely many.                                                 *)
LEMMA LessThanFinite ==
    ASSUME NEW S, IsFiniteSet(S), NEW f
    PROVE  IsFiniteSet(LessThan(S, f)) /\ Cardinality(LessThan(S, f)) \in Nat
BY FS_Subset, FS_CardinalityType DEF LessThan

(* A finite set of numbers has an nth element, counting from 0. *)
LEMMA NthExists ==
    ASSUME NEW S, S \subseteq Nat, IsFiniteSet(S),
           NEW n \in Nat, n < Cardinality(S)
    PROVE  \E f \in S : Cardinality(LessThan(S, f)) = n
<1> DEFINE Q == {k \in Nat : k < Cardinality(S) =>
                     \E f \in S : Cardinality(LessThan(S, f)) = k}
<1>a. Cardinality(S) \in Nat
  BY FS_CardinalityType
<1>1. 0 \in Q
  <2> SUFFICES ASSUME 0 < Cardinality(S)
               PROVE  \E f \in S : Cardinality(LessThan(S, f)) = 0
    OBVIOUS
  <2>1. S # {}
    BY FS_EmptySet
  <2>2. PICK f \in S : \A g \in S : f <= g
    BY <2>1, LeastElement
  <2>3. LessThan(S, f) = {}
    <3>1. \A g \in S : ~(g < f)
      BY <2>2
    <3>2. QED BY <3>1, Zenon DEF LessThan
  <2>4. QED BY <2>2, <2>3, FS_EmptySet
<1>2. ASSUME NEW k \in Nat, k \in Q PROVE k + 1 \in Q
  <2> SUFFICES ASSUME k + 1 < Cardinality(S)
               PROVE  \E h \in S : Cardinality(LessThan(S, h)) = k + 1
    OBVIOUS
  <2>1. PICK f \in S : Cardinality(LessThan(S, f)) = k
    BY <1>2, <1>a
  <2> DEFINE Low == LessThan(S, f) \cup {f}
  <2>2. f \notin LessThan(S, f) /\ IsFiniteSet(LessThan(S, f))
    BY LessThanFinite DEF LessThan
  <2>3. IsFiniteSet(Low) /\ Cardinality(Low) = k + 1
    BY <2>1, <2>2, FS_AddElement
  <2>4. S \ Low # {}
    <3>1. CASE S \ Low = {}
      <4>1. S = Low
        BY <3>1, <2>1 DEF LessThan
      <4>2. QED BY <4>1, <2>3, <1>a
    <3>2. QED BY <3>1
  <2>5. PICK h \in S \ Low : \A g \in S \ Low : h <= g
    BY <2>4, LeastElement
  <2>6. LessThan(S, h) = Low
    <3>1. h > f
      BY <2>1, <2>5 DEF LessThan
    <3>2. \A g \in S : g < h <=> g \in Low
      BY <3>1, <2>1, <2>5 DEF LessThan
    <3>3. QED BY <3>2, <2>1 DEF LessThan
  <2>7. QED BY <2>3, <2>5, <2>6
<1>3. \A k \in Nat : k \in Q
  <2> HIDE DEF Q
  <2> QED BY <1>1, <1>2, InductionOnSet
<1>4. QED BY <1>3

(* ... and only one. *)
LEMMA NthUnique ==
    ASSUME NEW S, S \subseteq Nat, IsFiniteSet(S), NEW f \in S, NEW h \in S,
           Cardinality(LessThan(S, f)) = Cardinality(LessThan(S, h))
    PROVE  f = h
<1>1. ASSUME NEW x \in S, NEW y \in S, x < y
      PROVE  Cardinality(LessThan(S, x)) < Cardinality(LessThan(S, y))
  <2>1. LessThan(S, x) \cup {x} \subseteq LessThan(S, y)
    <3>1. \A g \in S : g < x => g < y
      BY <1>1
    <3>2. QED BY <3>1, <1>1, Zenon DEF LessThan
  <2>2. x \notin LessThan(S, x)
    BY DEF LessThan
  <2>3. Cardinality(LessThan(S, x) \cup {x}) = Cardinality(LessThan(S, x)) + 1
    BY <2>2, LessThanFinite, FS_AddElement
  <2>4. Cardinality(LessThan(S, x) \cup {x}) <= Cardinality(LessThan(S, y))
    BY <2>1, LessThanFinite, FS_Subset
  <2>5. QED BY <2>3, <2>4, LessThanFinite
<1>2. ~(f < h) /\ ~(h < f)
  BY <1>1, LessThanFinite
<1>3. QED BY <1>2

--------------------------------------------------------------------------------
(* The elements of a sequence over S are members of S.                     *)
LEMMA SetOfSeq ==
    ASSUME NEW S, NEW s \in Seq(S)
    PROVE  /\ ToSet(s) = {s[i] : i \in 1..Len(s)}
           /\ ToSet(s) \subseteq S
BY DEF ToSet

(* The empty sequence.                                                     *)
LEMMA EmptySeqFacts == ToSet(<<>>) = {} /\ IsInjective(<<>>)
BY DEF ToSet, IsInjective

(* Append adds one element, a new one if there are to be no duplicates.    *)
LEMMA AppendFacts ==
    ASSUME NEW S, NEW s \in Seq(S), NEW x \in S
    PROVE  /\ Append(s, x) \in Seq(S)
           /\ ToSet(Append(s, x)) = ToSet(s) \cup {x}
           /\ IsInjective(Append(s, x)) <=> IsInjective(s) /\ x \notin ToSet(s)
<1> DEFINE a == Append(s, x)
<1>1. /\ a \in Seq(S) /\ Len(a) = Len(s) + 1 /\ DOMAIN a = 1..(Len(s) + 1) /\ DOMAIN s = 1..Len(s)
      /\ \A i \in 1..Len(s) : a[i] = s[i]
      /\ a[Len(s) + 1] = x
      /\ Len(s) \in Nat
  OBVIOUS
<1> HIDE DEF a
<1>2. ToSet(a) = ToSet(s) \cup {x}
  BY <1>1 DEF ToSet
<1>3. ASSUME IsInjective(s), x \notin ToSet(s) PROVE IsInjective(a)
  BY <1>1, <1>3 DEF IsInjective, ToSet
<1>4. ASSUME IsInjective(a) PROVE IsInjective(s) /\ x \notin ToSet(s)
  BY <1>1, <1>4 DEF IsInjective, ToSet
<1>5. QED BY <1>1, <1>2, <1>3, <1>4 DEF a

(* A second element. *)
LEMMA PairFacts == ASSUME NEW x, NEW y PROVE Append(<<x>>, y) = <<x, y>>
<1>1. <<x>> \in Seq({x, y}) /\ y \in {x, y} /\ <<x, y>> \in Seq({x, y})
  OBVIOUS
<1>2. /\ Append(<<x>>, y) \in Seq({x, y}) /\ Len(Append(<<x>>, y)) = 2
      /\ Append(<<x>>, y)[1] = x /\ Append(<<x>>, y)[2] = y
  BY <1>1, AppendProperties
<1>3. Len(<<x, y>>) = 2 /\ <<x, y>>[1] = x /\ <<x, y>>[2] = y
  OBVIOUS
<1>4. \A i \in 1..2 : i = 1 \/ i = 2
  OBVIOUS
<1>5. QED BY <1>1, <1>2, <1>3, <1>4, SeqEqual

(* Head and Tail split a sequence.                                         *)
LEMMA HeadTailFacts ==
    ASSUME NEW S, NEW s \in Seq(S), s # <<>>
    PROVE  /\ Head(s) \in S /\ Tail(s) \in Seq(S)
           /\ ToSet(s) = {Head(s)} \cup ToSet(Tail(s))
           /\ IsInjective(s) <=> IsInjective(Tail(s)) /\ Head(s) \notin ToSet(Tail(s))
<1> DEFINE r == Tail(s)
           n == Len(s) - 1
<1>1. /\ r \in Seq(S) /\ n \in Nat /\ DOMAIN r = 1..n /\ DOMAIN s = 1..(n + 1)
      /\ \A i \in 1..n : r[i] = s[i + 1]
      /\ Head(s) = s[1] /\ s[1] \in S
  BY HeadTailProperties
<1> HIDE DEF r, n
<1>2. \A i \in 1..n : i + 1 \in 1..(n + 1) /\ i + 1 # 1
  BY <1>1
<1>3. \A i \in 1..(n + 1) : i # 1 => i - 1 \in 1..n /\ s[i] = r[i - 1]
  BY <1>1
<1>4. ToSet(s) = {s[1]} \cup ToSet(r)
  <2>1. \A x \in ToSet(s) : x \in {s[1]} \cup ToSet(r)
    BY <1>1, <1>3 DEF ToSet
  <2>2. \A x \in ToSet(r) : x \in ToSet(s)
    BY <1>1, <1>2 DEF ToSet
  <2>3. s[1] \in ToSet(s)
    BY <1>1 DEF ToSet
  <2>4. QED BY <2>1, <2>2, <2>3
<1>5. ASSUME IsInjective(r), s[1] \notin ToSet(r) PROVE IsInjective(s)
  <2> SUFFICES ASSUME NEW i \in 1..(n + 1), NEW j \in 1..(n + 1), s[i] = s[j]
               PROVE  i = j
    BY <1>1 DEF IsInjective
  <2>1. \A k \in 1..(n + 1) : k # 1 => s[k] # s[1]
    BY <1>1, <1>3, <1>5 DEF ToSet
  <2>2. CASE i = 1 \/ j = 1
    BY <2>1, <2>2
  <2>3. CASE i # 1 /\ j # 1
    <3>1. i - 1 \in DOMAIN r /\ j - 1 \in DOMAIN r /\ r[i - 1] = r[j - 1]
      BY <1>1, <1>3, <2>3
    <3>2. i - 1 = j - 1
      BY <1>5, <3>1, Zenon DEF IsInjective
    <3>3. QED BY <3>2, <1>1
  <2>4. QED BY <2>2, <2>3
<1>6. ASSUME IsInjective(s) PROVE IsInjective(r) /\ s[1] \notin ToSet(r)
  <2>1. ASSUME NEW i \in 1..n, NEW j \in 1..n, r[i] = r[j] PROVE i = j
    <3>1. i + 1 \in DOMAIN s /\ j + 1 \in DOMAIN s /\ s[i + 1] = s[j + 1]
      BY <1>1, <1>2, <2>1
    <3>2. i + 1 = j + 1
      BY <1>6, <3>1, Zenon DEF IsInjective
    <3>3. QED BY <3>2
  <2>2. ASSUME NEW i \in 1..n PROVE r[i] # s[1]
    <3>1. 1 \in 1..(n + 1)
      BY <1>1
    <3>2. QED BY <1>1, <1>2, <1>6, <3>1 DEF IsInjective
  <2>3. QED BY <1>1, <2>1, <2>2 DEF IsInjective, ToSet
<1>7. QED BY <1>1, <1>4, <1>5, <1>6 DEF r

(* A concatenation has the elements of both parts.                         *)
LEMMA ConcatFacts ==
    ASSUME NEW S, NEW s \in Seq(S), NEW t \in Seq(S)
    PROVE  /\ s \o t \in Seq(S)
           /\ ToSet(s \o t) = ToSet(s) \cup ToSet(t)
           /\ IsInjective(s \o t) <=> /\ IsInjective(s) /\ IsInjective(t)
                                      /\ ToSet(s) \cap ToSet(t) = {}
<1> DEFINE c == s \o t
           m == Len(s)
           n == Len(t)
<1>1. /\ c \in Seq(S) /\ DOMAIN c = 1..(m + n) /\ DOMAIN s = 1..m /\ DOMAIN t = 1..n
      /\ \A i \in 1..(m + n) : c[i] = IF i <= m THEN s[i] ELSE t[i - m]
      /\ m \in Nat /\ n \in Nat
  BY ConcatProperties
<1> HIDE DEF c, m, n
<1>2. \A i \in 1..m : i \in 1..(m + n) /\ c[i] = s[i]
  BY <1>1
<1>3. \A i \in 1..n : m + i \in 1..(m + n) /\ c[m + i] = t[i]
  <2> SUFFICES ASSUME NEW i \in 1..n PROVE m + i \in 1..(m + n) /\ c[m + i] = t[i]
    OBVIOUS
  <2>1. m + i \in 1..(m + n) /\ ~(m + i <= m) /\ (m + i) - m = i
    BY <1>1
  <2>2. QED BY <1>1, <2>1
<1>4. \A i \in 1..(m + n) : \/ i \in 1..m /\ c[i] = s[i]
                            \/ i - m \in 1..n /\ c[i] = t[i - m]
  BY <1>1
<1>5. ToSet(c) = ToSet(s) \cup ToSet(t)
  <2>1. \A x \in ToSet(c) : x \in ToSet(s) \cup ToSet(t)
    BY <1>1, <1>4 DEF ToSet
  <2>2. \A x \in ToSet(s) : x \in ToSet(c)
    BY <1>1, <1>2 DEF ToSet
  <2>3. \A x \in ToSet(t) : x \in ToSet(c)
    <3>1. \A i \in DOMAIN t : m + i \in DOMAIN c /\ c[m + i] = t[i]
      BY <1>1, <1>3
    <3>2. QED BY <3>1, Zenon DEF ToSet
  <2>4. QED BY <2>1, <2>2, <2>3
<1>6. ASSUME IsInjective(c)
      PROVE  IsInjective(s) /\ IsInjective(t) /\ ToSet(s) \cap ToSet(t) = {}
  <2>1. IsInjective(s)
    BY <1>1, <1>2, <1>6 DEF IsInjective
  <2>2. ASSUME NEW i \in 1..n, NEW j \in 1..n, t[i] = t[j] PROVE i = j
    <3>1. m + i = m + j
      BY <1>1, <1>3, <1>6, <2>2 DEF IsInjective
    <3>2. QED BY <3>1, <1>1
  <2>3. ASSUME NEW i \in 1..m, NEW j \in 1..n, s[i] = t[j] PROVE FALSE
    <3>1. i = m + j
      BY <1>1, <1>2, <1>3, <1>6, <2>3 DEF IsInjective
    <3>2. QED BY <3>1, <1>1
  <2>4. QED BY <1>1, <2>1, <2>2, <2>3 DEF ToSet, IsInjective
<1>7. ASSUME IsInjective(s), IsInjective(t), ToSet(s) \cap ToSet(t) = {}
      PROVE  IsInjective(c)
  <2> SUFFICES ASSUME NEW i \in 1..(m + n), NEW j \in 1..(m + n), c[i] = c[j]
               PROVE  i = j
    BY <1>1 DEF IsInjective
  <2>1. \A k \in 1..m, l \in 1..n : s[k] # t[l]
    BY <1>1, <1>7 DEF ToSet
  <2>2. CASE i \in 1..m /\ c[i] = s[i] /\ j \in 1..m /\ c[j] = s[j]
    BY <1>1, <1>7, <2>2 DEF IsInjective
  <2>3. CASE i - m \in 1..n /\ c[i] = t[i - m] /\ j - m \in 1..n /\ c[j] = t[j - m]
    <3>1. i - m = j - m
      BY <1>1, <1>7, <2>3 DEF IsInjective
    <3>2. QED BY <3>1, <1>1
  <2>4. QED BY <1>4, <2>1, <2>2, <2>3
<1>8. QED BY <1>1, <1>5, <1>6, <1>7 DEF c

(* Front drops exactly the last element.                                   *)
LEMMA FrontLastFacts ==
    ASSUME NEW S, NEW s \in Seq(S), s # <<>>
    PROVE  /\ Front(s) \in Seq(S) /\ Len(Front(s)) = Len(s) - 1 /\ Last(s) \in S
           /\ IsInjective(s) => IsInjective(Front(s)) /\ ToSet(Front(s)) = ToSet(s) \ {Last(s)}
           /\ Last(s) \in ToSet(s)
<1> DEFINE f == Front(s)
           n == Len(s) - 1
<1>1. f = SubSeq(s, 1, n) /\ n \in Nat /\ Len(s) = n + 1 /\ Last(s) = s[n + 1] /\ DOMAIN s = 1..(n + 1)
  BY DEF Front, Last
<1>2. f \in Seq(S) /\ Len(f) = n /\ DOMAIN f = 1..n /\ \A i \in 1..n : f[i] = s[i]
  <2>1. \A i \in 1..n : s[i] \in S
    BY <1>1
  <2>2. QED BY <1>1, <2>1, SubSeqProperties
<1> HIDE DEF f, n
<1>3. s[n + 1] \in S /\ s[n + 1] \in ToSet(s)
  BY <1>1 DEF ToSet
<1>4. ASSUME IsInjective(s)
      PROVE  IsInjective(f) /\ ToSet(f) = ToSet(s) \ {s[n + 1]}
  <2>1. \A i, j \in 1..(n + 1) : s[i] = s[j] => i = j
    BY <1>1, <1>4 DEF IsInjective
  <2>2. IsInjective(f)
    BY <1>1, <1>2, <2>1 DEF IsInjective
  <2>3. \A i \in 1..n : i \in 1..(n + 1) /\ s[i] # s[n + 1]
    BY <1>1, <2>1
  <2>4. ToSet(f) = ToSet(s) \ {s[n + 1]}
    <3>1. \A i \in 1..n : f[i] \in ToSet(s) \ {s[n + 1]}
      BY <1>1, <1>2, <2>3 DEF ToSet
    <3>2. \A i \in 1..(n + 1) : s[i] # s[n + 1] => i \in 1..n
      BY <1>1
    <3>3. \A i \in 1..(n + 1) : s[i] # s[n + 1] => s[i] \in ToSet(f)
      BY <1>2, <3>2 DEF ToSet
    <3>4. \A x \in ToSet(f) : x \in ToSet(s) \ {s[n + 1]}
      BY <1>2, <3>1, Zenon DEF ToSet
    <3>5. \A x \in ToSet(s) : x # s[n + 1] => x \in ToSet(f)
      BY <1>1, <3>3, Zenon DEF ToSet
    <3>6. QED BY <3>4, <3>5
  <2>5. QED BY <2>2, <2>4
<1>5. QED BY <1>1, <1>2, <1>3, <1>4 DEF f

(* Append and concatenation.                                               *)
LEMMA ConcatAppend ==
    ASSUME NEW S, NEW s \in Seq(S), NEW t \in Seq(S), NEW x \in S
    PROVE  /\ Append(t, x) \in Seq(S) /\ s \o t \in Seq(S)
           /\ s \o Append(t, x) = Append(s \o t, x)
<1>1. <<x>> \in Seq(S) /\ s \o t \in Seq(S)
  OBVIOUS
<1>2. Append(t, x) = t \o <<x>> /\ Append(s \o t, x) = (s \o t) \o <<x>>
  BY <1>1, AppendIsConcat
<1>3. QED BY <1>1, <1>2, ConcatAssociative, AppendProperties
--------------------------------------------------------------------------------
(* What Kept computes from one element to the next.                        *)
KeptOf(f, s, K) ==
    /\ f[0] = <<>>
    /\ \A n \in 1..Len(s) : f[n] = IF s[n] \in K THEN Append(f[n - 1], s[n]) ELSE f[n - 1]

(* Kept's recursive function exists.                                       *)
LEMMA KeptRecursion ==
    ASSUME NEW S, NEW s \in Seq(S), NEW K
    PROVE  \E f \in [0..Len(s) -> Seq(S)] : KeptOf(f, s, K) /\ Kept(s, K) = f[Len(s)]
<1> DEFINE N == Len(s)
           Step == [n \in 1..N |-> [q \in Seq(S) |-> IF s[n] \in K THEN Append(q, s[n]) ELSE q]]
           F(f) == [n \in 0..N |->
                       IF n = 0 THEN <<>>
                       ELSE IF s[n] \in K THEN Append(f[n - 1], s[n]) ELSE f[n - 1]]
           kept == CHOOSE f : f = F(f)
<1>1. N \in Nat /\ \A n \in 1..N : s[n] \in S
  OBVIOUS
<1>2. Step \in [1..N -> [Seq(S) -> Seq(S)]] /\ <<>> \in Seq(S)
  BY <1>1, AppendProperties
<1>3. \A n \in 1..N, q \in Seq(S) : Step[n][q] = IF s[n] \in K THEN Append(q, s[n]) ELSE q
  OBVIOUS
<1> HIDE DEF Step
<1>4. PICK g \in [0..N -> Seq(S)] : Recurs(g, <<>>, N, Step)
  <2>1. Step \in Steps(N, Seq(S))
    BY <1>2 DEF Steps
  <2> HIDE DEF N
  <2> QED BY <1>1, <1>2, <2>1, RecursionExists
<1>5. KeptOf(g, s, K)
  <2>1. ASSUME NEW n \in 1..N
        PROVE  g[n] = IF s[n] \in K THEN Append(g[n - 1], s[n]) ELSE g[n - 1]
    <3>1. n - 1 \in 0..N
      BY <1>1
    <3>2. g[n - 1] \in Seq(S)
      BY <1>4, <3>1
    <3>3. QED BY <1>3, <1>4, <3>2 DEF Recurs
  <2>2. QED BY <1>4, <2>1 DEF KeptOf, Recurs
<1>6. g = F(g)
  <2>1. \A n \in 0..N : n = 0 \/ n \in 1..N
    BY <1>1
  <2>2. \A n \in 0..N : g[n] = F(g)[n]
    BY <1>4, <1>5, <2>1 DEF KeptOf
  <2>3. QED BY <1>4, <2>2
<1>7. kept = F(kept)
  <2> HIDE DEF F
  <2> QED BY <1>6
<1> HIDE DEF kept
<1>8. /\ kept[0] = <<>>
      /\ \A n \in 1..N : kept[n] = IF s[n] \in K THEN Append(kept[n - 1], s[n]) ELSE kept[n - 1]
  <2>1. 0 \in 0..N /\ \A n \in 1..N : n \in 0..N /\ n # 0
    BY <1>1
  <2>2. \A n \in 0..N : kept[n] = F(kept)[n]
    BY <1>7
  <2> HIDE DEF N
  <2>3. QED BY <2>1, <2>2
<1>9. \A n \in 0..N : kept[n] = g[n]
  <2>1. Alike(kept, g, N)
    BY <1>5, <1>8 DEF KeptOf, Alike
  <2> HIDE DEF N
  <2>2. QED BY <1>1, <2>1, RecursionUnique DEF SameUpTo
<1>10. Kept(s, K) = kept[N]
  BY DEF Kept, kept, F
<1>11. QED BY <1>1, <1>4, <1>5, <1>9, <1>10

(* Keeping the elements of nothing, and of a list with one more element.   *)
LEMMA KeptEmpty == ASSUME NEW K PROVE Kept(<<>>, K) = <<>>
<1>1. <<>> \in Seq({}) /\ Len(<<>>) = 0
  OBVIOUS
<1>2. PICK f : KeptOf(f, <<>>, K) /\ Kept(<<>>, K) = f[Len(<<>>)]
  BY <1>1, KeptRecursion, Zenon
<1>3. QED BY <1>1, <1>2 DEF KeptOf

(* Kept looks at one element after another ...                             *)
LEMMA KeptAppend ==
    ASSUME NEW S, NEW s \in Seq(S), NEW x \in S, NEW K
    PROVE  /\ Kept(s, K) \in Seq(S)
           /\ Kept(Append(s, x), K) = IF x \in K THEN Append(Kept(s, K), x) ELSE Kept(s, K)
<1> DEFINE a == Append(s, x)
           N == Len(s)
<1>1. /\ a \in Seq(S) /\ Len(a) = N + 1 /\ N \in Nat
      /\ \A n \in 1..N : a[n] = s[n] /\ n \in 1..(N + 1)
      /\ a[N + 1] = x
  OBVIOUS
<1> HIDE DEF a
<1>2. PICK f \in [0..N -> Seq(S)] : KeptOf(f, s, K) /\ Kept(s, K) = f[N]
  BY KeptRecursion
<1>3. PICK g \in [0..(N + 1) -> Seq(S)] : KeptOf(g, a, K) /\ Kept(a, K) = g[N + 1]
  BY <1>1, KeptRecursion
<1>4. \A n \in 0..N : f[n] = g[n]
  <2>1. Alike(f, g, N)
    BY <1>1, <1>2, <1>3 DEF KeptOf, Alike
  <2>2. N \in Nat
    OBVIOUS
  <2> HIDE DEF N
  <2>3. SameUpTo(f, g, N)
    BY <2>1, <2>2, RecursionUnique
  <2>4. QED BY <2>3 DEF SameUpTo
<1>5. g[N + 1] = IF x \in K THEN Append(g[N], x) ELSE g[N]
  <2>1. N + 1 \in 1..Len(a) /\ (N + 1) - 1 = N
    BY <1>1
  <2> HIDE DEF N
  <2>2. QED BY <1>1, <1>3, <2>1 DEF KeptOf
<1>6. f[N] = g[N] /\ f[N] \in Seq(S)
  <2>1. N \in 0..N
    BY <1>1
  <2>2. QED BY <1>2, <1>4, <2>1
<1>7. QED BY <1>2, <1>3, <1>5, <1>6 DEF a

(* A property of every list over S holds when it holds of the empty one    *)
(* and survives Append; here, of the members of a set of lists.            *)
LEMMA InductionOnAppend ==
    ASSUME NEW S, NEW Q, <<>> \in Q,
           \A s \in Seq(S), x \in S : s \in Q => Append(s, x) \in Q
    PROVE  \A s \in Seq(S) : s \in Q
<1> DEFINE P == {n \in Nat : \A s \in Seq(S) : Len(s) = n => s \in Q}
<1>1. 0 \in P
  <2>1. \A s \in Seq(S) : Len(s) = 0 => s = <<>>
    BY EmptySeq
  <2>2. QED BY <2>1
<1>2. ASSUME NEW n \in Nat, n \in P PROVE n + 1 \in P
  <2> SUFFICES ASSUME NEW s \in Seq(S), Len(s) = n + 1 PROVE s \in Q
    OBVIOUS
  <2>1. PICK f \in Seq(S), l \in S : s = Append(f, l)
    <3>1. s # <<>>
      OBVIOUS
    <3>2. QED BY <3>1, SequenceEmptyOrAppend
  <2>2. Len(f) = n
    BY <2>1, AppendProperties
  <2>3. f \in Q
    BY <1>2, <2>2
  <2>4. QED BY <2>1, <2>3
<1>3. \A n \in Nat : n \in P
  <2> HIDE DEF P
  <2> QED BY <1>1, <1>2, InductionOnSet
<1>4. QED BY <1>3

(* One element, and two lists one after the other.                         *)
LEMMA KeptOne ==
    ASSUME NEW x, NEW K
    PROVE  Kept(<<x>>, K) = IF x \in K THEN <<x>> ELSE <<>>
<1>1. <<>> \in Seq({x}) /\ x \in {x} /\ Append(<<>>, x) = <<x>>
  OBVIOUS
<1>2. Kept(Append(<<>>, x), K) = IF x \in K THEN Append(Kept(<<>>, K), x) ELSE Kept(<<>>, K)
  <2> DEFINE e == <<>>
  <2>1. e \in Seq({x})
    BY <1>1
  <2> HIDE DEF e
  <2>2. Kept(Append(e, x), K) = IF x \in K THEN Append(Kept(e, K), x) ELSE Kept(e, K)
    BY <1>1, <2>1, KeptAppend
  <2>3. QED BY <2>2, Zenon DEF e
<1>3. QED BY <1>1, <1>2, KeptEmpty, Zenon

(* ... and so at one part of a sequence after another.                     *)
LEMMA KeptConcat ==
    ASSUME NEW S, NEW s \in Seq(S), NEW t \in Seq(S), NEW K
    PROVE  Kept(s \o t, K) = Kept(s, K) \o Kept(t, K)
<1>a. \A v \in Seq(S), y \in S :
        Kept(Append(v, y), K) = IF y \in K THEN Append(Kept(v, K), y) ELSE Kept(v, K)
  BY KeptAppend
<1> DEFINE Q == {u \in Seq(S) : Kept(s \o u, K) = Kept(s, K) \o Kept(u, K)}
<1>1. \A u \in Seq(S) : Kept(u, K) \in Seq(S)
  <2> SUFFICES ASSUME NEW u \in Seq(S) PROVE Kept(u, K) \in Seq(S)
    OBVIOUS
  <2>1. CASE u = <<>>
    BY <2>1, KeptEmpty
  <2>2. CASE u # <<>>
    <3>1. Head(u) \in S
      BY <2>2, HeadTailFacts
    <3>2. QED BY <3>1, KeptAppend
  <2>3. QED BY <2>1, <2>2
<1>2. <<>> \in Q
  <2>1. s \o <<>> = s /\ Kept(s, K) \o <<>> = Kept(s, K)
    BY <1>1, ConcatEmptySeq
  <2>2. Kept(s \o <<>>, K) = Kept(s, K) \o Kept(<<>>, K)
    BY <2>1, KeptEmpty, Zenon
  <2>3. <<>> \in Seq(S)
    OBVIOUS
  <2> HIDE DEF Q
  <2>4. QED BY <2>2, <2>3, Zenon DEF Q
<1>3. ASSUME NEW u \in Seq(S), NEW x \in S, u \in Q PROVE Append(u, x) \in Q
  <2> DEFINE ks == Kept(s, K)
             ku == Kept(u, K)
  <2>1. /\ s \o Append(u, x) = Append(s \o u, x) /\ s \o u \in Seq(S)
        /\ Append(u, x) \in Seq(S)
    BY ConcatAppend
  <2>2. ks \in Seq(S) /\ ku \in Seq(S) /\ Kept(s \o u, K) = ks \o ku
    BY <1>1, <1>3
  <2>3. /\ Kept(Append(u, x), K) = IF x \in K THEN Append(ku, x) ELSE ku
        /\ Kept(Append(s \o u, x), K) = IF x \in K THEN Append(ks \o ku, x) ELSE ks \o ku
    <3> DEFINE w == s \o u
    <3>1. Kept(Append(u, x), K) = IF x \in K THEN Append(ku, x) ELSE ku
      BY <1>a, Zenon
    <3>2. w \in Seq(S) /\ Kept(w, K) = ks \o ku
      BY <2>1, <2>2
    <3> HIDE DEF w
    <3>3. Kept(Append(w, x), K) = IF x \in K THEN Append(Kept(w, K), x) ELSE Kept(w, K)
      BY <3>2, <1>a, Zenon
    <3>4. Kept(Append(w, x), K) = IF x \in K THEN Append(ks \o ku, x) ELSE ks \o ku
      BY <3>2, <3>3, Zenon
    <3>5. QED BY <3>1, <3>4, Zenon DEF w
  <2> HIDE DEF ks, ku
  <2>4. ks \o Append(ku, x) = Append(ks \o ku, x)
    BY <2>2, ConcatAppend
  <2>5. Kept(s \o Append(u, x), K) = ks \o Kept(Append(u, x), K)
    BY <2>1, <2>3, <2>4
  <2>6. QED BY <2>1, <2>5 DEF ks
<1>4. \A u \in Seq(S) : u \in Q
  <2> HIDE DEF Q
  <2> QED BY <1>2, <1>3, InductionOnAppend
<1>5. QED BY <1>4

(* What is kept, and that nothing is kept twice.                           *)
LEMMA KeptSet ==
    ASSUME NEW S, NEW s \in Seq(S), NEW K
    PROVE  /\ Kept(s, K) \in Seq(S)
           /\ ToSet(Kept(s, K)) = ToSet(s) \cap K
           /\ IsInjective(s) => IsInjective(Kept(s, K))
<1> DEFINE Good(u) == /\ Kept(u, K) \in Seq(S)
                      /\ ToSet(Kept(u, K)) = ToSet(u) \cap K
                      /\ IsInjective(u) => IsInjective(Kept(u, K))
           Q == {u \in Seq(S) : Good(u)}
<1>1. <<>> \in Q
  <2>1. Kept(<<>>, K) \in Seq(S)
    <3>1. <<>> \in Seq(S)
      OBVIOUS
    <3>2. QED BY <3>1, KeptEmpty, Zenon
  <2>2. ToSet(Kept(<<>>, K)) = ToSet(<<>>) \cap K
    <3>1. {} = {} \cap K
      OBVIOUS
    <3>2. QED BY <3>1, KeptEmpty, EmptySeqFacts, Zenon
  <2>3. IsInjective(Kept(<<>>, K))
    BY KeptEmpty, EmptySeqFacts, Zenon
  <2>4. <<>> \in Seq(S)
    OBVIOUS
  <2> HIDE DEF Q
  <2>5. QED BY <2>1, <2>2, <2>3, <2>4, Zenon DEF Q
<1>2. ASSUME NEW u \in Seq(S), NEW x \in S, u \in Q PROVE Append(u, x) \in Q
  <2> DEFINE k == Kept(u, K)
             a == Append(u, x)
  <2>1. k \in Seq(S) /\ ToSet(k) = ToSet(u) \cap K /\ (IsInjective(u) => IsInjective(k))
    BY <1>2
  <2>2. Kept(a, K) = IF x \in K THEN Append(k, x) ELSE k
    BY KeptAppend
  <2>3. /\ a \in Seq(S) /\ ToSet(a) = ToSet(u) \cup {x}
        /\ IsInjective(a) <=> IsInjective(u) /\ x \notin ToSet(u)
    BY AppendFacts
  <2> HIDE DEF k, a
  <2>4. /\ Append(k, x) \in Seq(S) /\ ToSet(Append(k, x)) = ToSet(k) \cup {x}
        /\ IsInjective(Append(k, x)) <=> IsInjective(k) /\ x \notin ToSet(k)
    BY <2>1, AppendFacts
  <2>5. Good(a)
    <3>1. CASE x \in K
      BY <3>1, <2>1, <2>2, <2>3, <2>4
    <3>2. CASE x \notin K
      BY <3>2, <2>1, <2>2, <2>3
    <3>3. QED BY <3>1, <3>2
  <2>6. QED BY <2>3, <2>5 DEF a
<1>3. \A u \in Seq(S) : u \in Q
  <2> HIDE DEF Q
  <2> QED BY <1>1, <1>2, InductionOnAppend
<1>4. QED BY <1>3
--------------------------------------------------------------------------------
(* Each element of s is related by R to those that come after it.          *)
Ordered(s, R) == \A i, j \in 1..Len(s) : i < j => <<s[i], s[j]>> \in R

(* A list is ordered when both its parts are and they are in that order.   *)
LEMMA OrderedConcat ==
    ASSUME NEW S, NEW s \in Seq(S), NEW t \in Seq(S), NEW R
    PROVE  Ordered(s \o t, R) <=> /\ Ordered(s, R) /\ Ordered(t, R)
                                  /\ \A x \in ToSet(s), y \in ToSet(t) : <<x, y>> \in R
<1> DEFINE c == s \o t
           m == Len(s)
           n == Len(t)
<1>1. /\ Len(c) = m + n
      /\ \A i \in 1..(m + n) : c[i] = IF i <= m THEN s[i] ELSE t[i - m]
      /\ m \in Nat /\ n \in Nat
  BY ConcatProperties
<1>2. /\ ToSet(s) = {s[i] : i \in 1..m}
      /\ ToSet(t) = {t[i] : i \in 1..n}
  BY SetOfSeq
<1> HIDE DEF c, m, n
<1>3. /\ \A i \in 1..m : i \in 1..(m + n) /\ c[i] = s[i]
      /\ \A i \in 1..n : m + i \in 1..(m + n) /\ c[m + i] = t[i]
      /\ \A i \in 1..(m + n) : i \in 1..m \/ (i - m \in 1..n /\ m + (i - m) = i)
  BY <1>1
<1>4. ASSUME Ordered(c, R)
      PROVE  /\ Ordered(s, R) /\ Ordered(t, R)
             /\ \A x \in ToSet(s), y \in ToSet(t) : <<x, y>> \in R
  <2>1. \A i, j \in 1..(m + n) : i < j => <<c[i], c[j]>> \in R
    BY <1>1, <1>4 DEF Ordered
  <2>2. Ordered(s, R)
    BY <1>1, <1>3, <2>1 DEF Ordered, m
  <2>3. Ordered(t, R)
    <3>1. ASSUME NEW i \in 1..n, NEW j \in 1..n, i < j PROVE <<t[i], t[j]>> \in R
      <4>1. m + i < m + j /\ m + i \in 1..(m + n) /\ m + j \in 1..(m + n)
        BY <1>1, <3>1
      <4>2. QED BY <1>3, <2>1, <4>1
    <3>2. QED BY <3>1 DEF Ordered, n
  <2>4. ASSUME NEW i \in 1..m, NEW j \in 1..n PROVE <<s[i], t[j]>> \in R
    <3>1. i < m + j /\ i \in 1..(m + n) /\ m + j \in 1..(m + n)
      BY <1>1
    <3>2. QED BY <1>3, <2>1, <3>1
  <2>5. QED BY <1>2, <2>2, <2>3, <2>4
<1>5. ASSUME Ordered(s, R), Ordered(t, R), \A x \in ToSet(s), y \in ToSet(t) : <<x, y>> \in R
      PROVE  Ordered(c, R)
  <2> SUFFICES ASSUME NEW i \in 1..(m + n), NEW j \in 1..(m + n), i < j
               PROVE  <<c[i], c[j]>> \in R
    BY <1>1 DEF Ordered
  <2>1. CASE j \in 1..m
    <3>1. i \in 1..m
      BY <1>1, <2>1
    <3>2. QED BY <1>3, <1>5, <2>1, <3>1 DEF Ordered, m
  <2>2. CASE i \in 1..m /\ j - m \in 1..n
    <3>1. c[i] \in ToSet(s) /\ c[j] \in ToSet(t)
      BY <1>1, <1>2, <1>3, <2>2
    <3>2. QED BY <1>5, <3>1
  <2>3. CASE i - m \in 1..n /\ j - m \in 1..n
    <3>1. i - m < j - m /\ c[i] = t[i - m] /\ c[j] = t[j - m]
      BY <1>1, <1>3, <2>3
    <3>2. QED BY <1>5, <2>3, <3>1 DEF Ordered, n
  <2>4. QED
    <3>1. (i \in 1..m \/ i - m \in 1..n) /\ (j \in 1..m \/ j - m \in 1..n)
      BY <1>3
    <3>2. QED BY <2>1, <2>2, <2>3, <3>1, <1>1
<1>6. QED BY <1>4, <1>5 DEF c

(* One element is in order; Append adds one that comes after all others.   *)
LEMMA OrderedAppend ==
    ASSUME NEW S, NEW s \in Seq(S), NEW x \in S, NEW R
    PROVE  /\ Ordered(<<x>>, R)
           /\ Ordered(Append(s, x), R) <=> Ordered(s, R) /\ \A y \in ToSet(s) : <<y, x>> \in R
<1>1. /\ <<x>> \in Seq(S) /\ Append(s, x) = s \o <<x>>
      /\ Len(<<x>>) = 1 /\ <<x>>[1] = x
  BY AppendIsConcat
<1>2. Ordered(<<x>>, R)
  BY <1>1 DEF Ordered
<1>3. ToSet(<<x>>) = {x}
  BY DEF ToSet
<1> DEFINE o == <<x>>
<1>4. o \in Seq(S) /\ Append(s, x) = s \o o /\ Ordered(o, R) /\ ToSet(o) = {x}
  BY <1>1, <1>2, <1>3
<1> HIDE DEF o
<1>5. Ordered(s \o o, R) <=> /\ Ordered(s, R) /\ Ordered(o, R)
                             /\ \A v \in ToSet(s), y \in ToSet(o) : <<v, y>> \in R
  BY <1>4, OrderedConcat
<1>6. QED BY <1>2, <1>4, <1>5

(* What is kept of an ordered list is ordered.                             *)
LEMMA OrderedKept ==
    ASSUME NEW S, NEW s \in Seq(S), NEW K, NEW R, Ordered(s, R)
    PROVE  Ordered(Kept(s, K), R)
<1> DEFINE Q == {u \in Seq(S) : Ordered(u, R) => Ordered(Kept(u, K), R)}
<1>1. <<>> \in Q
  <2>1. <<>> \in Seq(S) /\ Ordered(<<>>, R)
    BY DEF Ordered
  <2>2. Ordered(Kept(<<>>, K), R)
    BY <2>1, KeptEmpty, Zenon
  <2> HIDE DEF Q
  <2>3. QED BY <2>1, <2>2, Zenon DEF Q
<1>2. ASSUME NEW u \in Seq(S), NEW x \in S, u \in Q PROVE Append(u, x) \in Q
  <2> DEFINE k == Kept(u, K)
             a == Append(u, x)
  <2>1. k \in Seq(S) /\ ToSet(k) = ToSet(u) \cap K /\ a \in Seq(S)
    BY KeptSet, AppendFacts
  <2>2. Kept(a, K) = IF x \in K THEN Append(k, x) ELSE k
    BY KeptAppend
  <2>3. Ordered(a, R) <=> Ordered(u, R) /\ \A y \in ToSet(u) : <<y, x>> \in R
    BY OrderedAppend
  <2>4. Ordered(u, R) => Ordered(k, R)
    BY <1>2
  <2> HIDE DEF k, a
  <2>5. Ordered(Append(k, x), R) <=> Ordered(k, R) /\ \A y \in ToSet(k) : <<y, x>> \in R
    BY <2>1, OrderedAppend
  <2>6. Ordered(a, R) => Ordered(Kept(a, K), R)
    <3>1. CASE x \in K
      BY <3>1, <2>1, <2>2, <2>3, <2>4, <2>5
    <3>2. CASE x \notin K
      BY <3>2, <2>2, <2>3, <2>4
    <3>3. QED BY <3>1, <3>2
  <2>7. QED BY <2>1, <2>6 DEF a
<1>3. \A u \in Seq(S) : u \in Q
  <2> HIDE DEF Q
  <2> QED BY <1>1, <1>2, InductionOnAppend
<1>4. QED BY <1>3
================================================================================
