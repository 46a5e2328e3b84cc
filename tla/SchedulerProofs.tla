----------------------------- MODULE SchedulerProofs -----------------------------
(***************************************************************************)
(* Proofs about Scheduler for every number of threads, width of a level,   *)
(* aging step and period, quantum and set of timer delays.                 *)
(***************************************************************************)
EXTENDS Scheduler, Lemmas

(***************************************************************************)
(* The operations on the sorted lists.                                     *)
(***************************************************************************)
Ranks == [Threads -> Int]

(* x may stand before y, unless y is still to be inserted again.           *)
Before(rank, pending) ==
    {p \in Threads \X Threads : p[2] \in pending \/ rank[p[1]] <= rank[p[2]]}

(* Insert splits the list where the new thread belongs.                    *)
LEMMA InsertSplits ==
    ASSUME NEW s \in Seq(Threads), NEW t \in Threads, NEW rank \in Ranks
    PROVE  \E a, b \in Seq(Threads) :
             /\ s = a \o b /\ Insert(s, t, rank) = (a \o <<t>>) \o b
             /\ \A x \in ToSet(a) : rank[x] <= rank[t]
             /\ b # <<>> => rank[Head(b)] > rank[t]
<1> DEFINE N == Len(s)
           Fits(n) == /\ \A i \in 1..(n - 1) : rank[s[i]] <= rank[t]
                      /\ n <= N => rank[s[n]] > rank[t]
           later == {n \in 1..N : rank[s[n]] > rank[t]}
           place == CHOOSE n \in 1..(N + 1) : Fits(n)
<1>1. N \in Nat /\ rank[t] \in Int /\ \A n \in 1..N : s[n] \in Threads /\ rank[s[n]] \in Int
  BY DEF Ranks
<1>2. \E n \in 1..(N + 1) : Fits(n)
  <2>1. CASE later = {}
    <3>1. Fits(N + 1)
      BY <1>1, <2>1
    <3>2. QED BY <1>1, <3>1
  <2>2. CASE later # {}
    <3>0. later \subseteq Nat
      BY <1>1
    <3>1. PICK n \in later : \A y \in later : n <= y
      <4> HIDE DEF later
      <4> QED BY <2>2, <3>0, LeastElement
    <3>2. Fits(n) /\ n \in 1..(N + 1)
      BY <1>1, <3>1
    <3>3. QED BY <3>2
  <2>3. QED BY <2>1, <2>2
<1>3. place \in 1..(N + 1) /\ Fits(place)
  <2> HIDE DEF Fits
  <2> QED BY <1>2
<1>4. Insert(s, t, rank) = InsertAt(s, place, t)
  BY DEF Insert
<1> HIDE DEF place
<1> DEFINE a == SubSeq(s, 1, place - 1)
           b == SubSeq(s, place, N)
<1>5. /\ a \in Seq(Threads) /\ b \in Seq(Threads)
      /\ Len(a) = place - 1 /\ \A i \in 1..(place - 1) : a[i] = s[i]
      /\ Len(b) = (N - place) + 1 /\ \A i \in 1..Len(b) : b[i] = s[(place + i) - 1]
  BY <1>1, <1>3, SubSeqProperties
<1>6. a \o b = s
  <2>1. SubSeq(s, 1, place - 1) \o SubSeq(s, (place - 1) + 1, N) = SubSeq(s, 1, N)
    <3>1. 1 \in 1..(N + 1) /\ place - 1 \in (1 - 1)..N /\ N \in (place - 1)..N
      BY <1>1, <1>3
    <3> HIDE DEF a, b, Fits, later
    <3>2. QED BY <3>1, ConcatAdjacentSubSeq
  <2>2. (place - 1) + 1 = place
    BY <1>3
  <2>3. QED BY <2>1, <2>2, SubSeqFull
<1>7. Insert(s, t, rank) = (a \o <<t>>) \o b
  BY <1>4 DEF InsertAt
<1>8. \A x \in ToSet(a) : rank[x] <= rank[t]
  <2> HIDE DEF a
  <2>1. ToSet(a) = {a[i] : i \in 1..Len(a)}
    BY <1>5, SetOfSeq
  <2>2. QED BY <1>3, <1>5, <2>1
<1>9. b # <<>> => rank[Head(b)] > rank[t]
  <2>1. b # <<>> => Len(b) >= 1 /\ Head(b) = b[1]
    BY <1>5
  <2>2. QED BY <1>1, <1>3, <1>5, <2>1
<1>10. QED BY <1>5, <1>6, <1>7, <1>8, <1>9

(* Insert adds exactly the new thread, and puts it first only when it      *)
(* ranks before the old first.                                             *)
LEMMA InsertFacts ==
    ASSUME NEW s \in Seq(Threads), NEW t \in Threads, NEW rank \in Ranks
    PROVE  /\ Insert(s, t, rank) \in Seq(Threads)
           /\ ToSet(Insert(s, t, rank)) = ToSet(s) \cup {t}
           /\ IsInjective(Insert(s, t, rank)) <=> IsInjective(s) /\ t \notin ToSet(s)
           /\ Insert(s, t, rank) # <<>>
           /\ s = <<>> => Head(Insert(s, t, rank)) = t
           /\ s # <<>> => \/ Head(Insert(s, t, rank)) = Head(s)
                          \/ Head(Insert(s, t, rank)) = t /\ rank[t] < rank[Head(s)]
<1>1. PICK a, b \in Seq(Threads) :
             /\ s = a \o b /\ Insert(s, t, rank) = (a \o <<t>>) \o b
             /\ \A x \in ToSet(a) : rank[x] <= rank[t]
             /\ b # <<>> => rank[Head(b)] > rank[t]
  BY InsertSplits
<1> DEFINE m == Append(a, t)
           r == m \o b
<1>2. Append(a, t) = a \o <<t>>
  BY AppendIsConcat
<1>3. /\ m \in Seq(Threads) /\ ToSet(m) = ToSet(a) \cup {t}
      /\ IsInjective(m) <=> IsInjective(a) /\ t \notin ToSet(a)
  BY AppendFacts
<1>4. m # <<>> /\ (a = <<>> => m[1] = t) /\ (a # <<>> => m[1] = a[1])
  <2>1. Len(m) = Len(a) + 1 /\ m[Len(a) + 1] = t /\ \A i \in 1..Len(a) : m[i] = a[i]
    BY AppendProperties
  <2>2. (a = <<>> => Len(a) + 1 = 1) /\ (a # <<>> => 1 \in 1..Len(a))
    OBVIOUS
  <2>3. m # <<>>
    BY <2>1
  <2> HIDE DEF m
  <2>4. a = <<>> => m[1] = t
    BY <2>1, <2>2
  <2>5. QED BY <2>1, <2>2, <2>3, <2>4
<1>5. r = Insert(s, t, rank)
  BY <1>1, <1>2
<1> HIDE DEF m
<1>6. /\ r \in Seq(Threads) /\ ToSet(r) = ToSet(m) \cup ToSet(b)
      /\ IsInjective(r) <=> IsInjective(m) /\ IsInjective(b) /\ ToSet(m) \cap ToSet(b) = {}
  BY <1>3, ConcatFacts
<1>7. /\ ToSet(s) = ToSet(a) \cup ToSet(b)
      /\ IsInjective(s) <=> IsInjective(a) /\ IsInjective(b) /\ ToSet(a) \cap ToSet(b) = {}
  BY <1>1, ConcatFacts
<1>8. r # <<>> /\ Head(r) = m[1]
  BY <1>3, <1>4
<1>9. s # <<>> => Head(s) \in Threads /\ Head(s) = IF a = <<>> THEN Head(b) ELSE a[1]
  BY <1>1
<1>10. (s = <<>> => a = <<>>) /\ (a = <<>> => s = b)
  BY <1>1
<1> HIDE DEF r
<1>11. ToSet(r) = ToSet(s) \cup {t}
  BY <1>3, <1>6, <1>7
<1>12. IsInjective(r) <=> IsInjective(s) /\ t \notin ToSet(s)
  <2>1. ToSet(m) \cap ToSet(b) = {} <=> ToSet(a) \cap ToSet(b) = {} /\ t \notin ToSet(b)
    BY <1>3
  <2>2. t \notin ToSet(s) <=> t \notin ToSet(a) /\ t \notin ToSet(b)
    BY <1>7
  <2>3. QED BY <1>3, <1>6, <1>7, <2>1, <2>2
<1>13. s = <<>> => Head(r) = t
  BY <1>4, <1>8, <1>10
<1>14. s # <<>> => Head(r) = Head(s) \/ (Head(r) = t /\ rank[t] < rank[Head(s)])
  <2>1. s # <<>> => rank[Head(s)] \in Int /\ rank[t] \in Int
    BY <1>9 DEF Ranks
  <2>2. QED BY <1>1, <1>4, <1>8, <1>9, <1>10, <2>1
<1>15. QED BY <1>5, <1>6, <1>8, <1>11, <1>12, <1>13, <1>14

(* Order is preserved, and the thread that was inserted is no exception.   *)
LEMMA InsertOrdered ==
    ASSUME NEW s \in Seq(Threads), NEW t \in Threads, NEW rank \in Ranks,
           NEW pending, t \notin ToSet(s), Ordered(s, Before(rank, pending))
    PROVE  Ordered(Insert(s, t, rank), Before(rank, pending \ {t}))
<1> DEFINE R == Before(rank, pending)
           Q == Before(rank, pending \ {t})
<1>1. PICK a, b \in Seq(Threads) :
             /\ s = a \o b /\ Insert(s, t, rank) = (a \o <<t>>) \o b
             /\ \A x \in ToSet(a) : rank[x] <= rank[t]
             /\ b # <<>> => rank[Head(b)] > rank[t]
  BY InsertSplits
<1>2. /\ ToSet(s) = ToSet(a) \cup ToSet(b) /\ ToSet(a) \subseteq Threads /\ ToSet(b) \subseteq Threads
      /\ Ordered(a, R) /\ Ordered(b, R)
      /\ \A x \in ToSet(a), y \in ToSet(b) : <<x, y>> \in R
  BY <1>1, ConcatFacts, OrderedConcat, SetOfSeq
<1>3. \A x, y \in Threads : /\ <<x, y>> \in R <=> y \in pending \/ rank[x] <= rank[y]
                            /\ <<x, y>> \in Q <=> (y \in pending /\ y # t) \/ rank[x] <= rank[y]
  BY DEF Before
<1> HIDE DEF R, Q
<1>4. \A x \in Threads, y \in ToSet(s) : <<x, y>> \in R => <<x, y>> \in Q
  BY <1>2, <1>3
<1>5. Ordered(a, Q) /\ Ordered(b, Q)
  <2>1. \A i \in 1..Len(a) : a[i] \in ToSet(s)
    BY <1>2, SetOfSeq
  <2>2. \A i \in 1..Len(b) : b[i] \in ToSet(s)
    BY <1>2, SetOfSeq
  <2>3. ToSet(s) \subseteq Threads
    BY <1>2
  <2>4. QED BY <1>2, <1>4, <2>1, <2>2, <2>3 DEF Ordered
<1> DEFINE m == a \o <<t>>
<1>6. m \in Seq(Threads) /\ ToSet(m) = ToSet(a) \cup {t} /\ Ordered(m, Q)
  <2>1. Append(a, t) = m
    BY AppendIsConcat
  <2> HIDE DEF m
  <2>2. Append(a, t) \in Seq(Threads) /\ ToSet(Append(a, t)) = ToSet(a) \cup {t}
    BY AppendFacts
  <2>3. Ordered(Append(a, t), Q) <=> Ordered(a, Q) /\ \A y \in ToSet(a) : <<y, t>> \in Q
    BY OrderedAppend
  <2>4. \A y \in ToSet(a) : <<y, t>> \in Q
    BY <1>1, <1>2, <1>3
  <2>5. QED BY <1>5, <2>1, <2>2, <2>3, <2>4
<1>7. \A y \in ToSet(b) : <<t, y>> \in Q
  <2>1. CASE b = <<>>
    BY <2>1, EmptySeqFacts
  <2>2. CASE b # <<>>
    <3> DEFINE h == Head(b)
               r == Tail(b)
    <3>1. h \in Threads /\ r \in Seq(Threads) /\ ToSet(b) = {h} \cup ToSet(r)
      BY <2>2, HeadTailFacts
    <3>2. b = <<h>> \o r
      BY <2>2, HeadTailProperties
    <3>3. rank[h] > rank[t]
      BY <1>1, <2>2
    <3> HIDE DEF h, r
    <3>4. \A y \in ToSet(r) : <<h, y>> \in R
      <4>1. <<h>> \in Seq(Threads) /\ h \in ToSet(<<h>>)
        BY <3>1 DEF ToSet
      <4> DEFINE o == <<h>>
      <4>2. o \in Seq(Threads) /\ h \in ToSet(o) /\ b = o \o r
        BY <3>2, <4>1
      <4> HIDE DEF o
      <4>3. QED BY <1>2, <3>1, <4>2, OrderedConcat
    <3>5. ASSUME NEW y \in ToSet(b) PROVE <<t, y>> \in Q
      <4>1. y \in Threads /\ y # t /\ rank[t] \in Int /\ rank[h] \in Int /\ rank[y] \in Int
        BY <1>2, <3>1 DEF Ranks
      <4>2. CASE y = h
        BY <1>3, <3>3, <4>1, <4>2
      <4>3. CASE y \in ToSet(r)
        <5>1. y \in pending \/ rank[h] <= rank[y]
          BY <1>3, <3>1, <3>4, <4>1, <4>3
        <5>2. QED BY <1>3, <3>3, <4>1, <5>1
      <4>4. QED BY <3>1, <4>2, <4>3
    <3>6. QED BY <3>5
  <2>3. QED BY <2>1, <2>2
<1>8. \A x \in ToSet(m), y \in ToSet(b) : <<x, y>> \in Q
  BY <1>2, <1>4, <1>6, <1>7
<1> HIDE DEF m
<1>9. Ordered(m \o b, Q)
  BY <1>5, <1>6, <1>8, OrderedConcat
<1>10. QED BY <1>1, <1>9 DEF m, Q

(* What Reinsert does from one thread to the next.                         *)
ReinsertOf(f, list, ts, rank) ==
    /\ f[0] = list
    /\ \A n \in 1..Len(ts) : f[n] = Insert(Kept(f[n - 1], Threads \ {ts[n]}), ts[n], rank)

(* Reinsert's recursive function exists.                                   *)
LEMMA ReinsertRecursion ==
    ASSUME NEW list \in Seq(Threads), NEW ts \in Seq(Threads), NEW rank \in Ranks
    PROVE  \E f \in [0..Len(ts) -> Seq(Threads)] :
             ReinsertOf(f, list, ts, rank) /\ Reinsert(list, ts, rank) = f[Len(ts)]
<1> DEFINE N == Len(ts)
           A == Seq(Threads)
           Next1(q, t) == Insert(Kept(q, Threads \ {t}), t, rank)
           Step == [n \in 1..N |-> [q \in A |-> Next1(q, ts[n])]]
           F(f) == [n \in 0..N |-> IF n = 0 THEN list ELSE Next1(f[n - 1], ts[n])]
           after == CHOOSE f : f = F(f)
<1>1. N \in Nat /\ \A n \in 1..N : ts[n] \in Threads
  OBVIOUS
<1>2. \A q \in A, t \in Threads : Next1(q, t) \in A
  <2> SUFFICES ASSUME NEW q \in A, NEW t \in Threads PROVE Next1(q, t) \in A
    OBVIOUS
  <2>1. Kept(q, Threads \ {t}) \in Seq(Threads)
    BY KeptSet
  <2>2. QED BY <2>1, InsertFacts
<1>3. Step \in [1..N -> [A -> A]]
  <2> HIDE DEF Next1, A, N
  <2> QED BY <1>1, <1>2
<1>4. \A n \in 1..N, q \in A : Step[n][q] = Next1(q, ts[n])
  <2> HIDE DEF Next1, A, N
  <2> QED OBVIOUS
<1> HIDE DEF Step
<1>5. PICK g \in [0..N -> A] : Recurs(g, list, N, Step)
  <2>1. Step \in Steps(N, A)
    BY <1>3 DEF Steps
  <2>2. list \in A
    OBVIOUS
  <2> HIDE DEF N, A
  <2> QED BY <1>1, <2>1, <2>2, RecursionExists
<1> HIDE DEF Next1
<1>6. g[0] = list /\ \A n \in 1..N : g[n] = Next1(g[n - 1], ts[n])
  <2>1. ASSUME NEW n \in 1..N PROVE g[n] = Next1(g[n - 1], ts[n])
    <3>1. n - 1 \in 0..N
      BY <1>1
    <3>2. g[n - 1] \in A
      BY <1>5, <3>1
    <3> HIDE DEF N, A
    <3>3. QED BY <1>4, <1>5, <3>2 DEF Recurs
  <2>2. QED BY <1>5, <2>1 DEF Recurs
<1>7. g = F(g)
  <2>1. \A n \in 0..N : n = 0 \/ n \in 1..N
    BY <1>1
  <2>2. \A n \in 0..N : g[n] = F(g)[n]
    <3> HIDE DEF N
    <3> QED BY <1>6, <2>1
  <2> HIDE DEF N
  <2>3. QED BY <1>5, <2>2
<1>8. after = F(after)
  <2> HIDE DEF F
  <2> QED BY <1>7
<1> HIDE DEF after
<1>9. after[0] = list /\ \A n \in 1..N : after[n] = Next1(after[n - 1], ts[n])
  <2>1. 0 \in 0..N /\ \A n \in 1..N : n \in 0..N /\ n # 0
    BY <1>1
  <2>2. \A n \in 0..N : after[n] = F(after)[n]
    BY <1>8
  <2> HIDE DEF N
  <2>3. QED BY <2>1, <2>2
<1>10. \A n \in 0..N : after[n] = g[n]
  <2>1. Alike(after, g, N)
    BY <1>6, <1>9 DEF Alike
  <2> HIDE DEF N
  <2>2. QED BY <1>1, <2>1, RecursionUnique DEF SameUpTo
<1>11. Reinsert(list, ts, rank) = after[N]
  BY DEF Reinsert, after, F, Next1
<1>12. ReinsertOf(g, list, ts, rank)
  BY <1>6 DEF ReinsertOf, Next1
<1>13. QED BY <1>1, <1>5, <1>10, <1>11, <1>12

(* Reinsert adds exactly the threads of ts, once, and leaves the list in   *)
(* order if only they were out of it.                                      *)
LEMMA ReinsertFacts ==
    ASSUME NEW list \in Seq(Threads), NEW ts \in Seq(Threads), NEW rank \in Ranks
    PROVE  LET result == Reinsert(list, ts, rank)
           IN  /\ result \in Seq(Threads)
               /\ ToSet(result) = ToSet(list) \cup ToSet(ts)
               /\ IsInjective(list) => IsInjective(result)
               /\ Ordered(list, Before(rank, ToSet(ts))) => Ordered(result, Before(rank, {}))
<1> DEFINE N == Len(ts)
           done(n) == {ts[i] : i \in 1..n}
           left(n) == ToSet(ts) \ done(n)
<1>1. PICK f \in [0..N -> Seq(Threads)] :
             ReinsertOf(f, list, ts, rank) /\ Reinsert(list, ts, rank) = f[N]
  BY ReinsertRecursion
<1>2. N \in Nat /\ ToSet(ts) = done(N) /\ \A n \in 1..N : ts[n] \in Threads
  BY SetOfSeq
<1> DEFINE Good(n) ==
               /\ ToSet(f[n]) = ToSet(list) \cup done(n)
               /\ IsInjective(list) => IsInjective(f[n])
               /\ Ordered(list, Before(rank, ToSet(ts))) => Ordered(f[n], Before(rank, left(n)))
           Q == {n \in Nat : n <= N => Good(n)}
<1>3. 0 \in Q
  <2>1. done(0) = {} /\ left(0) = ToSet(ts)
    OBVIOUS
  <2>2. f[0] = list
    BY <1>1 DEF ReinsertOf
  <2> HIDE DEF done, left
  <2>3. QED BY <1>2, <2>1, <2>2
<1>4. ASSUME NEW n \in Nat, n \in Q PROVE n + 1 \in Q
  <2> SUFFICES ASSUME n + 1 <= N PROVE Good(n + 1)
    OBVIOUS
  <2> DEFINE t == ts[n + 1]
             k == Kept(f[n], Threads \ {t})
  <2>1. n + 1 \in 1..N /\ n \in 0..N /\ t \in Threads /\ f[n] \in Seq(Threads) /\ Good(n)
    <3>1. n + 1 \in 1..N /\ n \in 0..N /\ n <= N
      BY <1>2
    <3>2. Good(n)
      <4> HIDE DEF Good
      <4> QED BY <1>4, <3>1
    <3>3. t \in Threads /\ f[n] \in Seq(Threads)
      BY <1>1, <1>2, <3>1
    <3> HIDE DEF Good, t
    <3>4. QED BY <3>1, <3>2, <3>3
  <2>2. f[n + 1] = Insert(k, t, rank)
    <3>1. (n + 1) - 1 = n
      OBVIOUS
    <3>2. f[n + 1] = Insert(Kept(f[(n + 1) - 1], Threads \ {ts[n + 1]}), ts[n + 1], rank)
      BY <1>1, <2>1 DEF ReinsertOf
    <3>3. QED BY <3>1, <3>2
  <2>3. done(n + 1) = done(n) \cup {t}
    BY <2>1
  <2> HIDE DEF t, done
  <2>4. left(n + 1) = left(n) \ {t}
    BY <2>3
  <2> HIDE DEF left
  <2>5. /\ k \in Seq(Threads) /\ ToSet(k) = ToSet(f[n]) \cap (Threads \ {t})
        /\ IsInjective(f[n]) => IsInjective(k)
    BY <2>1, KeptSet
  <2>6. ToSet(f[n]) \subseteq Threads
    BY <2>1, SetOfSeq
  <2>7. Ordered(f[n], Before(rank, left(n))) => Ordered(k, Before(rank, left(n)))
    BY <2>1, OrderedKept
  <2> HIDE DEF k
  <2>8. t \notin ToSet(k) /\ ToSet(k) \cup {t} = ToSet(f[n]) \cup {t}
    BY <2>5, <2>6
  <2>9. /\ ToSet(f[n + 1]) = ToSet(k) \cup {t}
        /\ IsInjective(k) => IsInjective(f[n + 1])
    <3>1. /\ ToSet(Insert(k, t, rank)) = ToSet(k) \cup {t}
          /\ IsInjective(Insert(k, t, rank)) <=> IsInjective(k) /\ t \notin ToSet(k)
      BY <2>1, <2>5, InsertFacts
    <3>2. QED BY <2>2, <2>8, <3>1, Zenon
  <2>10. Ordered(k, Before(rank, left(n))) => Ordered(f[n + 1], Before(rank, left(n) \ {t}))
    BY <2>1, <2>2, <2>5, <2>8, InsertOrdered
  <2>11. QED BY <2>1, <2>3, <2>4, <2>5, <2>7, <2>8, <2>9, <2>10
<1>5. N \in Q
  <2> HIDE DEF Q
  <2> QED BY <1>2, <1>3, <1>4, InductionOnSet
<1>6. Good(N)
  <2> HIDE DEF Good
  <2> QED BY <1>2, <1>5
<1>7. left(N) = {} /\ f[N] \in Seq(Threads)
  BY <1>1, <1>2
<1> HIDE DEF done, left
<1>8. Ordered(list, Before(rank, ToSet(ts))) => Ordered(f[N], Before(rank, {}))
  BY <1>6, <1>7, Zenon
<1>9. QED BY <1>1, <1>2, <1>6, <1>7, <1>8, Zenon

(* An order depends only on the ranks of the threads on the list.          *)
LEMMA RanksAlike ==
    ASSUME NEW s \in Seq(Threads), NEW rank, NEW other,
           \A x \in ToSet(s) : other[x] = rank[x], Ordered(s, Before(rank, {}))
    PROVE  Ordered(s, Before(other, {}))
<1>1. \A i \in 1..Len(s) : s[i] \in Threads /\ s[i] \in ToSet(s)
  BY SetOfSeq
<1>2. QED BY <1>1 DEF Ordered, Before

(* In an ordered list ranks never fall.                                    *)
LEMMA OrderMeans ==
    ASSUME NEW s \in Seq(Threads), NEW rank, Ordered(s, Before(rank, {})),
           NEW i \in 1..Len(s), NEW j \in 1..Len(s), i < j
    PROVE  rank[s[i]] <= rank[s[j]]
<1>1. <<s[i], s[j]>> \in Before(rank, {})
  BY DEF Ordered
<1>2. s[i] \in Threads /\ s[j] \in Threads
  OBVIOUS
<1>3. QED BY <1>1, <1>2 DEF Before

(***************************************************************************)
(* The inductive invariant.                                                *)
(***************************************************************************)
ReadyAt(l, prio) == {t \in Threads : status[t] = "ready" /\ Level(prio[t]) = l}

(* The ready threads of a level are on its list, once.                     *)
OnLevels == \A l \in 1..3 : IsInjective(readyList[l]) /\ ToSet(readyList[l]) = ReadyAt(l, priority)

InOrder ==
    /\ Ordered(readyList[1], Before(RemainingBurst, {}))
    /\ Ordered(readyList[2], Before(ByPriority(priority), {}))

Working == mode \in {"running", "handler", "switched"}

(* Whose turn it is, and what becomes of a thread that finishes.           *)
Dispatching ==
    /\ Working => status[currentThread] = "running" /\ currentLayer = Level(priority[currentThread])
    /\ ~Working => status[currentThread] \in {"blocked", "ready"}
    /\ finishing => ~Working /\ status[currentThread] = "blocked" /\ toBeDestroyed = NoThread
    /\ toBeDestroyed # NoThread =>
         mode = "switched" /\ toBeDestroyed # currentThread /\ status[toBeDestroyed] = "blocked"

Clocks ==
    /\ untilTimer <= Max(TimerDelays)
    /\ untilTimer = 0 => mode \in {"handler", "idle"} /\ ~yieldOnReturn
    /\ yieldOnReturn => mode = "handler"
    /\ \A t \in Threads : status[t] # "ready" => waited[t] = 0

(* A thread of a higher level has waited since the last timer interrupt at *)
(* most, or the current thread is about to yield, and to no lower level.   *)
Higher == {t \in Threads : status[t] = "ready" /\ Level(priority[t]) < currentLayer}
Preemption ==
    /\ mode \in {"running", "handler"} /\ ~yieldOnReturn =>
         \A t \in Higher : waited[t] + untilTimer <= Max(TimerDelays)
    /\ mode = "switched" => Higher = {}
    /\ yieldOnReturn =>
         /\ currentLayer = 3 \/ readyList[1] # <<>>
         /\ currentLayer = 1 =>
              RemainingBurst[Head(readyList[1])] < RemainingBurst[currentThread] - Grain * runTime

IInv == TypeOK /\ OnLevels /\ InOrder /\ Dispatching /\ Clocks /\ Preemption

--------------------------------------------------------------------------------
(* The constants.                                                          *)
LEMMA ConstantFacts ==
    /\ LevelWidth \in Nat /\ LevelWidth >= 1 /\ AgingStep \in Nat /\ AgingStep >= 1
    /\ AgingStep <= LevelWidth /\ AgingPeriod \in Nat /\ AgingPeriod >= 1
    /\ MaxPriority = 3 * LevelWidth - 1 /\ MaxPriority \in Nat
    /\ Priorities \subseteq 0..MaxPriority
BY PrioritiesAssumption DEF MaxPriority

(* Time passes between two timer interrupts.                               *)
LEMMA DelayFacts ==
    /\ Max(TimerDelays) \in Nat
    /\ \A d \in TimerDelays : d \in Nat /\ d > 0 /\ d <= Max(TimerDelays)
<1> DEFINE m == Max(TimerDelays)
<1>1. m \in TimerDelays /\ \A y \in TimerDelays : m >= y
  BY PrioritiesAssumption DEF Max
<1>2. \A d \in TimerDelays : d \in Nat /\ d > 0
  <2>1. TimerDelays \subseteq Nat \ {0}
    BY PrioritiesAssumption, Zenon
  <2>2. \A d \in Nat \ {0} : d \in Nat /\ d > 0
    OBVIOUS
  <2>3. QED BY <2>1, <2>2, Zenon
<1> HIDE DEF m
<1>3. m \in Nat /\ \A d \in TimerDelays : d \in Nat /\ d > 0 /\ d <= m
  BY <1>1, <1>2
<1>4. QED BY <1>3 DEF m

(* The three levels split the priorities.                                  *)
LEMMA LevelFacts ==
    ASSUME NEW p \in 0..MaxPriority
    PROVE  /\ Level(p) \in 1..3
           /\ Level(p) = 3 <=> p < LevelWidth
           /\ Level(p) = 2 <=> p >= LevelWidth /\ p < 2 * LevelWidth
           /\ Level(p) = 1 <=> p >= 2 * LevelWidth
BY ConstantFacts DEF Level

(* Ticks as burst times, and back: what is strictly less in whole ticks is *)
(* strictly less.                                                          *)
LEMMA GrainFacts ==
    /\ Grain \in Nat /\ Grain >= 1
    /\ \A n \in Nat : Grain * n \in Nat
BY PrioritiesAssumption

LEMMA WholeTicksMonotone ==
    ASSUME NEW a \in Int, NEW b \in Int, WholeTicks(a) < WholeTicks(b)
    PROVE  a < b
<1>1. ASSUME NEW m \in Nat, NEW n \in Nat, m <= n PROVE m \div Grain <= n \div Grain
  <2> DEFINE q == m \div Grain
             p == n \div Grain
  <2>1. /\ q \in Nat /\ p \in Nat
        /\ Grain * q <= m /\ n < Grain * (p + 1)
    BY GrainFacts
  <2> HIDE DEF q, p
  <2>2. ASSUME q >= p + 1 PROVE FALSE
    <3>1. Grain * (p + 1) <= Grain * q
      BY <2>1, <2>2, GrainFacts
    <3>2. Grain * (p + 1) \in Int /\ Grain * q \in Int
      BY <2>1, GrainFacts
    <3>3. QED BY <1>1, <2>1, <3>1, <3>2
  <2>3. q <= p
    BY <2>1, <2>2
  <2>4. QED BY <2>3 DEF q, p
<1>2. \A n \in Nat : n \div Grain \in Nat
  BY GrainFacts
<1>3. SUFFICES ASSUME a >= b PROVE WholeTicks(b) <= WholeTicks(a)
  <2>1. WholeTicks(a) \in Int /\ WholeTicks(b) \in Int
    BY <1>2 DEF WholeTicks
  <2>2. QED BY <1>3, <2>1
<1>4. CASE b >= 0
  <2>1. b \div Grain <= a \div Grain
    BY <1>1, <1>3, <1>4
  <2>2. QED BY <1>3, <1>4, <2>1 DEF WholeTicks
<1>5. CASE a >= 0 /\ b < 0
  BY <1>2, <1>5 DEF WholeTicks
<1>6. CASE a < 0
  <2>1. (-a) \div Grain <= (-b) \div Grain
    BY <1>1, <1>3, <1>6
  <2>2. (-a) \div Grain \in Nat /\ (-b) \div Grain \in Nat
    BY <1>2, <1>3, <1>6
  <2>3. QED BY <1>3, <1>6, <2>1, <2>2 DEF WholeTicks
<1>7. QED BY <1>4, <1>5, <1>6

(* Both lists are sorted by integers.                                      *)
LEMMA RankFacts ==
    ASSUME TypeOK
    PROVE  /\ RemainingBurst \in Ranks
           /\ \A prio \in [Threads -> 0..MaxPriority] : ByPriority(prio) \in Ranks
<1>1. RemainingBurst \in Ranks
  <2>1. \A t \in Threads : burst[t] \in Nat /\ Grain * T[t] \in Nat
    BY GrainFacts DEF TypeOK
  <2>2. \A t \in Threads : burst[t] - Grain * T[t] \in Int
    BY <2>1
  <2>3. QED BY <2>2 DEF Ranks, RemainingBurst
<1>2. ASSUME NEW prio \in [Threads -> 0..MaxPriority] PROVE ByPriority(prio) \in Ranks
  <2>1. \A t \in Threads : -prio[t] \in Int
    BY ConstantFacts
  <2>2. QED BY <2>1 DEF Ranks, ByPriority
<1>3. QED BY <1>1, <1>2

(* ReadyToRun puts the thread on the list of its level, and first of L1    *)
(* only if it has less left to do than the first there.                    *)
LEMMA WithReadyFacts ==
    ASSUME TypeOK, NEW lists \in [1..3 -> Seq(Threads)], NEW t \in Threads,
           NEW p \in 0..MaxPriority, NEW rank \in Ranks,
           \A l \in 1..3 : IsInjective(lists[l]) /\ t \notin ToSet(lists[l]),
           Ordered(lists[1], Before(rank, {})),
           Ordered(lists[2], Before(ByPriority([priority EXCEPT ![t] = p]), {}))
    PROVE  LET new == WithReady(lists, t, p, rank)
           IN  /\ new \in [1..3 -> Seq(Threads)]
               /\ \A l \in 1..3 : IsInjective(new[l])
               /\ \A l \in 1..3 : ToSet(new[l]) = ToSet(lists[l]) \cup (IF l = Level(p) THEN {t} ELSE {})
               /\ Ordered(new[1], Before(rank, {}))
               /\ Ordered(new[2], Before(ByPriority([priority EXCEPT ![t] = p]), {}))
               /\ lists[1] # <<>> =>
                    /\ new[1] # <<>>
                    /\ Head(new[1]) # Head(lists[1]) =>
                         Head(new[1]) = t /\ rank[t] < rank[Head(lists[1])]
<1> DEFINE prio == ByPriority([priority EXCEPT ![t] = p])
           new == WithReady(lists, t, p, rank)
           L == Level(p)
           ins == IF L = 3 THEN Append(lists[L], t)
                  ELSE Insert(lists[L], t, IF L = 2 THEN prio ELSE rank)
<1>1. prio \in Ranks
  <2>1. [priority EXCEPT ![t] = p] \in [Threads -> 0..MaxPriority]
    BY DEF TypeOK
  <2>2. QED BY <2>1, RankFacts
<1>2. L \in 1..3
  BY LevelFacts
<1>3. \A l \in 1..3 : new[l] = IF l = L THEN ins ELSE lists[l]
  BY <1>2 DEF WithReady
<1>4. new = [lists EXCEPT ![L] = ins]
  BY <1>2 DEF WithReady
<1> HIDE DEF prio, L, new
<1>5. ins \in Seq(Threads) /\ ToSet(ins) = ToSet(lists[L]) \cup {t} /\ IsInjective(ins)
  <2>1. lists[L] \in Seq(Threads)
    BY <1>2
  <2>2. /\ Append(lists[L], t) \in Seq(Threads) /\ ToSet(Append(lists[L], t)) = ToSet(lists[L]) \cup {t}
        /\ IsInjective(Append(lists[L], t)) <=> IsInjective(lists[L]) /\ t \notin ToSet(lists[L])
    BY <2>1, AppendFacts
  <2>3. \A r \in Ranks : /\ Insert(lists[L], t, r) \in Seq(Threads)
                         /\ ToSet(Insert(lists[L], t, r)) = ToSet(lists[L]) \cup {t}
                         /\ IsInjective(Insert(lists[L], t, r)) <=> IsInjective(lists[L]) /\ t \notin ToSet(lists[L])
    BY <2>1, InsertFacts
  <2>4. QED BY <1>1, <1>2, <2>2, <2>3
<1>6. L = 1 => /\ Ordered(ins, Before(rank, {}))
               /\ lists[1] # <<>> =>
                    /\ ins # <<>>
                    /\ Head(ins) # Head(lists[1]) =>
                         Head(ins) = t /\ rank[t] < rank[Head(lists[1])]
  <2>1. lists[1] \in Seq(Threads)
    OBVIOUS
  <2>2. L = 1 => ins = Insert(lists[1], t, rank)
    OBVIOUS
  <2>3. {} \ {t} = {}
    OBVIOUS
  <2>4. Ordered(Insert(lists[1], t, rank), Before(rank, {} \ {t}))
    BY <2>1, InsertOrdered
  <2>5. /\ Insert(lists[1], t, rank) # <<>>
        /\ lists[1] # <<>> => \/ Head(Insert(lists[1], t, rank)) = Head(lists[1])
                              \/ Head(Insert(lists[1], t, rank)) = t /\ rank[t] < rank[Head(lists[1])]
    BY <2>1, InsertFacts
  <2>6. QED BY <2>2, <2>3, <2>4, <2>5, Zenon
<1>7. L = 2 => Ordered(ins, Before(prio, {}))
  <2>1. lists[2] \in Seq(Threads)
    OBVIOUS
  <2>2. L = 2 => ins = Insert(lists[2], t, prio)
    OBVIOUS
  <2>3. {} \ {t} = {}
    OBVIOUS
  <2>4. Ordered(lists[2], Before(prio, {}))
    BY DEF prio
  <2>5. Ordered(Insert(lists[2], t, prio), Before(prio, {} \ {t}))
    BY <1>1, <2>1, <2>4, InsertOrdered
  <2>6. QED BY <2>2, <2>3, <2>5, Zenon
<1> HIDE DEF ins
<1>8. new \in [1..3 -> Seq(Threads)] /\ \A l \in 1..3 : IsInjective(new[l])
  BY <1>2, <1>3, <1>4, <1>5
<1>9. \A l \in 1..3 : ToSet(new[l]) = ToSet(lists[l]) \cup (IF l = L THEN {t} ELSE {})
  BY <1>3, <1>5
<1>10. Ordered(new[1], Before(rank, {})) /\ Ordered(new[2], Before(prio, {}))
  BY <1>3, <1>6, <1>7 DEF prio
<1>11. lists[1] # <<>> => /\ new[1] # <<>>
                          /\ Head(new[1]) # Head(lists[1]) =>
                               Head(new[1]) = t /\ rank[t] < rank[Head(lists[1])]
  BY <1>3, <1>6
<1>12. QED BY <1>8, <1>9, <1>10, <1>11 DEF new, L, prio

(* Aging moves a thread up by one level at most, and never down.           *)
LEMMA AgedFacts ==
    ASSUME TypeOK
    PROVE  /\ AgedPriority \in [Threads -> 0..MaxPriority]
           /\ \A t \in Threads : /\ AgedPriority[t] >= priority[t]
                                 /\ AgedPriority[t] <= priority[t] + LevelWidth
                                 /\ status[t] # "ready" => AgedPriority[t] = priority[t]
<1> SUFFICES ASSUME NEW t \in Threads
             PROVE  /\ AgedPriority[t] \in 0..MaxPriority
                    /\ AgedPriority[t] >= priority[t]
                    /\ AgedPriority[t] <= priority[t] + LevelWidth
                    /\ status[t] # "ready" => AgedPriority[t] = priority[t]
  BY DEF AgedPriority
<1>1. AgedPriority[t] = IF t \in Aged /\ priority[t] + AgingStep < MaxPriority THEN priority[t] + AgingStep
                        ELSE IF t \in Aged THEN MaxPriority ELSE priority[t]
  BY DEF AgedPriority
<1>2. priority[t] \in 0..MaxPriority /\ (t \in Aged => status[t] = "ready")
  BY DEF TypeOK, Aged
<1>3. QED BY <1>1, <1>2, ConstantFacts

(* More threads that are still to be inserted leave more orders open.      *)
LEMMA OrderedPending ==
    ASSUME NEW s \in Seq(Threads), NEW rank, NEW pending, NEW other, NEW few, NEW P,
           Ordered(s, Before(rank, few)),
           \A x, y \in ToSet(s) : y \in few \/ rank[x] <= rank[y] => y \in P \/ other[x] <= other[y]
    PROVE  Ordered(s, Before(other, P))
<1>1. \A i \in 1..Len(s) : s[i] \in Threads /\ s[i] \in ToSet(s)
  BY SetOfSeq
<1>2. QED BY <1>1 DEF Ordered, Before

(* UpdateQueues leaves every ready thread once on the list of its new      *)
(* priority's level, and L1 and L2 in order.                               *)
LEMMA UpdatedFacts ==
    ASSUME TypeOK, OnLevels, InOrder
    PROVE  /\ UpdatedQueues \in [1..3 -> Seq(Threads)]
           /\ \A l \in 1..3 : /\ IsInjective(UpdatedQueues[l])
                              /\ ToSet(UpdatedQueues[l]) = ReadyAt(l, AgedPriority)
           /\ Ordered(UpdatedQueues[1], Before(RemainingBurst, {}))
           /\ Ordered(UpdatedQueues[2], Before(ByPriority(AgedPriority), {}))
<1> DEFINE rank == ByPriority(AgedPriority)
           Changed == {t \in Threads : AgedPriority[t] # priority[t]}
           Up2 == {t \in Changed : AgedPriority[t] >= 2 * LevelWidth}
           Within2 == {t \in Changed : AgedPriority[t] < 2 * LevelWidth}
           Up3 == {t \in Threads : AgedPriority[t] >= LevelWidth}
           up2 == Kept(readyList[2], Up2)
           within2 == Kept(readyList[2], Within2)
           up3 == Kept(readyList[3], Up3)
           stay2 == Kept(readyList[2], Threads \ ToSet(up2))
           stay3 == Kept(readyList[3], Threads \ ToSet(up3))
           q1 == Reinsert(readyList[1], up2, RemainingBurst)
           m2 == Reinsert(stay2, within2, rank)
           q2 == Reinsert(m2, up3, rank)
<1>1. UpdatedQueues = <<q1, q2, stay3>>
  BY DEF UpdatedQueues
<1>2. /\ readyList[1] \in Seq(Threads) /\ readyList[2] \in Seq(Threads) /\ readyList[3] \in Seq(Threads)
      /\ IsInjective(readyList[1]) /\ IsInjective(readyList[2]) /\ IsInjective(readyList[3])
      /\ ToSet(readyList[1]) = ReadyAt(1, priority) /\ ToSet(readyList[2]) = ReadyAt(2, priority)
      /\ ToSet(readyList[3]) = ReadyAt(3, priority)
  BY DEF TypeOK, OnLevels
<1>3. RemainingBurst \in Ranks /\ rank \in Ranks
  BY RankFacts, AgedFacts
<1>4. \A t \in Threads : /\ priority[t] \in 0..MaxPriority /\ AgedPriority[t] \in 0..MaxPriority
                         /\ rank[t] = -AgedPriority[t] /\ ByPriority(priority)[t] = -priority[t]
                         /\ AgedPriority[t] >= priority[t] /\ AgedPriority[t] <= priority[t] + LevelWidth
  BY AgedFacts DEF TypeOK, ByPriority
<1>5. /\ up2 \in Seq(Threads) /\ ToSet(up2) = ReadyAt(2, priority) \cap Up2
      /\ within2 \in Seq(Threads) /\ ToSet(within2) = ReadyAt(2, priority) \cap Within2
      /\ up3 \in Seq(Threads) /\ ToSet(up3) = ReadyAt(3, priority) \cap Up3
  <2> HIDE DEF Up2, Within2, Up3
  <2>1. QED BY <1>2, KeptSet
<1> HIDE DEF rank, up2, within2, up3
<1>6. /\ stay2 \in Seq(Threads) /\ ToSet(stay2) = ReadyAt(2, priority) \cap (Threads \ ToSet(up2))
      /\ IsInjective(stay2)
      /\ stay3 \in Seq(Threads) /\ ToSet(stay3) = ReadyAt(3, priority) \cap (Threads \ ToSet(up3))
      /\ IsInjective(stay3)
  BY <1>2, KeptSet
<1>7. Ordered(stay2, Before(rank, ToSet(within2)))
  <2>1. Ordered(readyList[2], Before(rank, Changed))
    <3>1. \A x, y \in ToSet(readyList[2]) : y \in {} \/ ByPriority(priority)[x] <= ByPriority(priority)[y]
                                              => y \in Changed \/ rank[x] <= rank[y]
      <4>1. \A x \in ToSet(readyList[2]) : x \in Threads
        BY <1>2 DEF ReadyAt
      <4>2. QED BY <1>4, <4>1, ConstantFacts
    <3>2. Ordered(readyList[2], Before(ByPriority(priority), {}))
      BY DEF InOrder
    <3> HIDE DEF Changed
    <3>3. QED BY <1>2, <3>1, <3>2, OrderedPending
  <2>2. Ordered(stay2, Before(rank, Changed))
    <3> HIDE DEF Changed
    <3> QED BY <1>2, <2>1, OrderedKept
  <2>3. \A y \in ToSet(stay2) : y \in Changed => y \in ToSet(within2)
    BY <1>4, <1>5, <1>6, ConstantFacts
  <2> HIDE DEF Changed, stay2
  <2>4. \A x, y \in ToSet(stay2) : y \in Changed \/ rank[x] <= rank[y]
                                     => y \in ToSet(within2) \/ rank[x] <= rank[y]
    BY <2>3
  <2>5. QED BY <1>6, <2>2, <2>4, OrderedPending
<1> HIDE DEF stay2, stay3
<1>8. /\ q1 \in Seq(Threads) /\ ToSet(q1) = ReadyAt(1, priority) \cup ToSet(up2) /\ IsInjective(q1)
      /\ Ordered(q1, Before(RemainingBurst, {}))
  <2>1. Ordered(readyList[1], Before(RemainingBurst, ToSet(up2)))
    BY <1>2, OrderedPending DEF InOrder
  <2>2. readyList[1] \in Seq(Threads) /\ up2 \in Seq(Threads) /\ RemainingBurst \in Ranks
    BY <1>2, <1>3, <1>5
  <2>3. LET result == Reinsert(readyList[1], up2, RemainingBurst)
        IN  /\ result \in Seq(Threads)
            /\ ToSet(result) = ToSet(readyList[1]) \cup ToSet(up2)
            /\ IsInjective(readyList[1]) => IsInjective(result)
            /\ Ordered(readyList[1], Before(RemainingBurst, ToSet(up2))) => Ordered(result, Before(RemainingBurst, {}))
    BY <2>2, ReinsertFacts
  <2>4. QED BY <1>2, <2>1, <2>3, Zenon
<1>9. /\ m2 \in Seq(Threads) /\ ToSet(m2) = ToSet(stay2) \cup ToSet(within2) /\ IsInjective(m2)
      /\ Ordered(m2, Before(rank, {}))
  BY <1>3, <1>5, <1>6, <1>7, ReinsertFacts
<1> HIDE DEF q1, m2
<1>10. /\ q2 \in Seq(Threads) /\ ToSet(q2) = ToSet(m2) \cup ToSet(up3) /\ IsInjective(q2)
       /\ Ordered(q2, Before(rank, {}))
  <2>1. Ordered(m2, Before(rank, ToSet(up3)))
    BY <1>9, OrderedPending
  <2>2. QED BY <1>3, <1>5, <1>9, <2>1, ReinsertFacts
<1> HIDE DEF q2
<1>11. /\ UpdatedQueues[1] = q1 /\ UpdatedQueues[2] = q2 /\ UpdatedQueues[3] = stay3
       /\ UpdatedQueues \in [1..3 -> Seq(Threads)]
  BY <1>1, <1>6, <1>8, <1>10
<1>12. ASSUME NEW t \in Threads
       PROVE  /\ t \in ToSet(q1) <=> t \in ReadyAt(1, AgedPriority)
              /\ t \in ToSet(q2) <=> t \in ReadyAt(2, AgedPriority)
              /\ t \in ToSet(stay3) <=> t \in ReadyAt(3, AgedPriority)
  <2> DEFINE p == priority[t]
             a == AgedPriority[t]
             ready == status[t] = "ready"
  <2>1. /\ p \in 0..MaxPriority /\ a \in 0..MaxPriority /\ a >= p /\ a <= p + LevelWidth
        /\ t \in Up2 <=> a # p /\ a >= 2 * LevelWidth
        /\ t \in Within2 <=> a # p /\ a < 2 * LevelWidth
        /\ t \in Up3 <=> a >= LevelWidth
    BY <1>4
  <2>2. \A l \in 1..3 : /\ t \in ReadyAt(l, priority) <=> ready /\ Level(p) = l
                        /\ t \in ReadyAt(l, AgedPriority) <=> ready /\ Level(a) = l
    BY DEF ReadyAt
  <2>3. /\ t \in ToSet(up2) <=> ready /\ Level(p) = 2 /\ a # p /\ a >= 2 * LevelWidth
        /\ t \in ToSet(within2) <=> ready /\ Level(p) = 2 /\ a # p /\ a < 2 * LevelWidth
        /\ t \in ToSet(up3) <=> ready /\ Level(p) = 3 /\ a >= LevelWidth
    BY <1>5, <2>1, <2>2
  <2>4. /\ Level(p) = 1 <=> p >= 2 * LevelWidth
        /\ Level(p) = 2 <=> p >= LevelWidth /\ p < 2 * LevelWidth
        /\ Level(p) = 3 <=> p < LevelWidth
        /\ Level(a) = 1 <=> a >= 2 * LevelWidth
        /\ Level(a) = 2 <=> a >= LevelWidth /\ a < 2 * LevelWidth
        /\ Level(a) = 3 <=> a < LevelWidth
    BY <2>1, LevelFacts
  <2>5. p \in Nat /\ a \in Nat /\ LevelWidth \in Nat
    BY <2>1, ConstantFacts
  <2>6. /\ t \in ToSet(q1) <=> (ready /\ Level(p) = 1) \/ t \in ToSet(up2)
        /\ t \in ToSet(stay2) <=> ready /\ Level(p) = 2 /\ t \notin ToSet(up2)
        /\ t \in ToSet(q2) <=> t \in ToSet(stay2) \/ t \in ToSet(within2) \/ t \in ToSet(up3)
        /\ t \in ToSet(stay3) <=> ready /\ Level(p) = 3 /\ t \notin ToSet(up3)
    BY <1>6, <1>8, <1>9, <1>10, <2>2
  <2> HIDE DEF p, a, ready
  <2>7. QED BY <2>1, <2>2, <2>3, <2>4, <2>5, <2>6
<1>13. /\ ToSet(q1) = ReadyAt(1, AgedPriority) /\ ToSet(q2) = ReadyAt(2, AgedPriority)
       /\ ToSet(stay3) = ReadyAt(3, AgedPriority)
  <2>1. /\ ToSet(q1) \subseteq Threads /\ ToSet(q2) \subseteq Threads /\ ToSet(stay3) \subseteq Threads
    BY <1>6, <1>8, <1>10, SetOfSeq
  <2>2. \A l : ReadyAt(l, AgedPriority) \subseteq Threads
    BY DEF ReadyAt
  <2>3. QED BY <1>12, <2>1, <2>2
<1>14. QED BY <1>6, <1>8, <1>10, <1>11, <1>13 DEF rank

--------------------------------------------------------------------------------
(* The first thread of the first list that is not empty.                   *)

(* The front of a list without the others keeps their order.               *)
LEMMA TailFacts ==
    ASSUME NEW s \in Seq(Threads), s # <<>>, NEW R
    PROVE  /\ Head(s) \in ToSet(s) /\ Tail(s) \in Seq(Threads)
           /\ IsInjective(s) => IsInjective(Tail(s)) /\ ToSet(Tail(s)) = ToSet(s) \ {Head(s)}
           /\ Ordered(s, R) => Ordered(Tail(s), R)
<1> DEFINE h == Head(s)
           r == Tail(s)
           o == <<h>>
<1>1. /\ h \in Threads /\ r \in Seq(Threads) /\ ToSet(s) = {h} \cup ToSet(r)
      /\ IsInjective(s) <=> IsInjective(r) /\ h \notin ToSet(r)
  BY HeadTailFacts
<1>2. s = o \o r /\ o \in Seq(Threads)
  BY <1>1, HeadTailProperties
<1> HIDE DEF h, r, o
<1>3. Ordered(s, R) => Ordered(r, R)
  BY <1>1, <1>2, OrderedConcat
<1>4. QED BY <1>1, <1>3 DEF h, r

(* FindNextToRun finds a ready thread of the highest level there is.       *)
LEMMA NextFacts ==
    ASSUME TypeOK, OnLevels, InOrder, ~AllEmpty
    PROVE  /\ NextLayer \in 1..3 /\ readyList[NextLayer] # <<>>
           /\ NextThread = Head(readyList[NextLayer])
           /\ \A k \in 1..3 : k < NextLayer => readyList[k] = <<>>
           /\ NextThread \in Threads /\ status[NextThread] = "ready"
           /\ Level(priority[NextThread]) = NextLayer
           /\ WithoutNext \in [1..3 -> Seq(Threads)]
           /\ \A l \in 1..3 : /\ IsInjective(WithoutNext[l])
                              /\ ToSet(WithoutNext[l]) = ReadyAt(l, priority) \ {NextThread}
           /\ Ordered(WithoutNext[1], Before(RemainingBurst, {}))
           /\ Ordered(WithoutNext[2], Before(ByPriority(priority), {}))
<1> DEFINE First(l) == readyList[l] # <<>> /\ \A k \in 1..(l - 1) : readyList[k] = <<>>
<1>1. \E l \in 1..3 : First(l)
  <2>1. \E l \in 1..3 : readyList[l] # <<>>
    BY DEF AllEmpty
  <2>2. First(1) \/ First(2) \/ First(3)
    BY <2>1
  <2>3. QED BY <2>2
<1>2. NextLayer \in 1..3 /\ First(NextLayer)
  <2> HIDE DEF First
  <2>1. NextLayer = CHOOSE l \in 1..3 : First(l)
    BY DEF NextLayer, First
  <2>2. QED BY <1>1, <2>1
<1> DEFINE L == NextLayer
           t == NextThread
           s == readyList[L]
<1>3. \A k \in 1..3 : k < L => readyList[k] = <<>>
  BY <1>2
<1>4. s \in Seq(Threads) /\ s # <<>> /\ t = Head(s)
      /\ IsInjective(s) /\ ToSet(s) = ReadyAt(L, priority)
  BY <1>2 DEF TypeOK, OnLevels, NextThread
<1>5. \A l \in 1..3 : WithoutNext[l] = IF l = L THEN Tail(s) ELSE readyList[l]
  BY <1>2 DEF WithoutNext, TypeOK
<1>6. WithoutNext = [readyList EXCEPT ![L] = Tail(s)]
  BY <1>2 DEF WithoutNext, TypeOK
<1> HIDE DEF L, t, s
<1>7. /\ t \in ToSet(s) /\ Tail(s) \in Seq(Threads) /\ IsInjective(Tail(s))
      /\ ToSet(Tail(s)) = ToSet(s) \ {t}
      /\ \A R : Ordered(s, R) => Ordered(Tail(s), R)
  BY <1>4, TailFacts
<1>8. t \in Threads /\ status[t] = "ready" /\ Level(priority[t]) = L
  BY <1>4, <1>7 DEF ReadyAt
<1>9. WithoutNext \in [1..3 -> Seq(Threads)]
  BY <1>2, <1>6, <1>7 DEF TypeOK, L
<1>10. ASSUME NEW l \in 1..3
       PROVE  IsInjective(WithoutNext[l]) /\ ToSet(WithoutNext[l]) = ReadyAt(l, priority) \ {t}
  <2>1. l # L => t \notin ReadyAt(l, priority)
    BY <1>8 DEF ReadyAt
  <2>2. IsInjective(readyList[l]) /\ ToSet(readyList[l]) = ReadyAt(l, priority)
    BY DEF OnLevels
  <2>3. QED BY <1>4, <1>5, <1>7, <2>1, <2>2
<1>11. \A l \in 1..3 : \A R : Ordered(readyList[l], R) => Ordered(WithoutNext[l], R)
  BY <1>5, <1>7 DEF s
<1>12. /\ Ordered(WithoutNext[1], Before(RemainingBurst, {}))
       /\ Ordered(WithoutNext[2], Before(ByPriority(priority), {}))
  BY <1>11 DEF InOrder
<1>13. QED BY <1>2, <1>3, <1>4, <1>8, <1>9, <1>10, <1>12 DEF L, t, s

--------------------------------------------------------------------------------
(* Each step preserves the invariant.                                      *)

(* A step that makes no thread ready or unready leaves the lists right.    *)
LEMMA SameLists ==
    ASSUME TypeOK, OnLevels, InOrder, readyList' = readyList,
           \A t \in Threads : status'[t] = "ready" <=> status[t] = "ready",
           \A t \in Threads : status[t] = "ready" =>
               priority'[t] = priority[t] /\ burst'[t] = burst[t] /\ T'[t] = T[t]
    PROVE  OnLevels' /\ InOrder'
<1>1. \A l : ReadyAt(l, priority)' = ReadyAt(l, priority)
  BY DEF ReadyAt
<1>2. OnLevels'
  BY <1>1 DEF OnLevels
<1>3. /\ readyList[1] \in Seq(Threads) /\ ToSet(readyList[1]) = ReadyAt(1, priority)
      /\ readyList[2] \in Seq(Threads) /\ ToSet(readyList[2]) = ReadyAt(2, priority)
  BY DEF TypeOK, OnLevels
<1>4. \A t \in ToSet(readyList[1]) : RemainingBurst'[t] = RemainingBurst[t]
  BY <1>3 DEF ReadyAt, RemainingBurst
<1>5. Ordered(readyList[1], Before(RemainingBurst', {}))
  BY <1>3, <1>4, RanksAlike DEF InOrder
<1>6. Before(RemainingBurst, {})' = Before(RemainingBurst', {})
  BY DEF Before
<1>7. \A t \in ToSet(readyList[2]) : ByPriority(priority')[t] = ByPriority(priority)[t]
  BY <1>3 DEF ReadyAt, ByPriority
<1>8. Ordered(readyList[2], Before(ByPriority(priority'), {}))
  BY <1>3, <1>7, RanksAlike DEF InOrder
<1>9. Before(ByPriority(priority), {})' = Before(ByPriority(priority'), {})
  BY DEF Before, ByPriority
<1>10. QED BY <1>2, <1>5, <1>6, <1>8, <1>9 DEF InOrder

(* A step that makes t ready, with priority p, and puts it on its list.    *)
LEMMA OneMoreReady ==
    ASSUME TypeOK, NEW t \in Threads, NEW p \in 0..MaxPriority,
           NEW lists \in [1..3 -> Seq(Threads)], NEW rank \in Ranks,
           readyList' = WithReady(lists, t, p, rank),
           priority' = [priority EXCEPT ![t] = p], status'[t] = "ready",
           \A x \in Threads : rank[x] = burst'[x] - Grain * T'[x],
           \A l \in 1..3 : /\ IsInjective(lists[l])
                           /\ ToSet(lists[l]) = {x \in Threads : /\ x # t /\ status'[x] = "ready"
                                                                 /\ Level(priority[x]) = l},
           Ordered(lists[1], Before(rank, {})),
           Ordered(lists[2], Before(ByPriority(priority), {}))
    PROVE  /\ readyList' \in [1..3 -> Seq(Threads)] /\ OnLevels' /\ InOrder'
           /\ lists[1] # <<>> =>
                /\ readyList'[1] # <<>>
                /\ Head(readyList'[1]) # Head(lists[1]) =>
                     Head(readyList'[1]) = t /\ rank[t] < rank[Head(lists[1])]
<1> DEFINE prio == [priority EXCEPT ![t] = p]
           new == WithReady(lists, t, p, rank)
<1>1. \A x \in Threads : prio[x] = IF x = t THEN p ELSE priority[x]
  BY DEF TypeOK
<1>2. \A l \in 1..3 : t \notin ToSet(lists[l]) /\ lists[l] \in Seq(Threads)
  OBVIOUS
<1>3. Ordered(lists[2], Before(ByPriority(prio), {}))
  <2>1. \A x \in ToSet(lists[2]) : ByPriority(prio)[x] = ByPriority(priority)[x]
    BY <1>1 DEF ByPriority
  <2>2. lists[2] \in Seq(Threads)
    BY <1>2
  <2> HIDE DEF prio
  <2>3. QED BY <2>1, <2>2, RanksAlike
<1>4. /\ new \in [1..3 -> Seq(Threads)]
      /\ \A l \in 1..3 : IsInjective(new[l])
      /\ \A l \in 1..3 : ToSet(new[l]) = ToSet(lists[l]) \cup (IF l = Level(p) THEN {t} ELSE {})
      /\ Ordered(new[1], Before(rank, {}))
      /\ Ordered(new[2], Before(ByPriority(prio), {}))
      /\ lists[1] # <<>> =>
                    /\ new[1] # <<>>
                    /\ Head(new[1]) # Head(lists[1]) =>
                         Head(new[1]) = t /\ rank[t] < rank[Head(lists[1])]
  BY <1>2, <1>3, WithReadyFacts
<1> HIDE DEF new
<1>5. readyList' = new /\ priority' = prio
  BY DEF new
<1> HIDE DEF prio
<1>6. \A l \in 1..3 : ReadyAt(l, priority)' = ToSet(lists[l]) \cup (IF l = Level(p) THEN {t} ELSE {})
  <2>1. \A l : ReadyAt(l, priority)' = {x \in Threads : status'[x] = "ready" /\ Level(prio[x]) = l}
    BY <1>5 DEF ReadyAt
  <2>2. ASSUME NEW l \in 1..3, NEW x \in Threads
        PROVE  /\ status'[x] = "ready" /\ Level(prio[x]) = l
               <=> x \in ToSet(lists[l]) \cup (IF l = Level(p) THEN {t} ELSE {})
    <3>1. CASE x = t
      BY <1>1, <1>2, <3>1
    <3>2. CASE x # t
      BY <1>1, <3>2
    <3>3. QED BY <3>1, <3>2
  <2>3. \A l \in 1..3 : ToSet(lists[l]) \cup (IF l = Level(p) THEN {t} ELSE {}) \subseteq Threads
    OBVIOUS
  <2>4. SUFFICES ASSUME NEW l \in 1..3
                 PROVE  {x \in Threads : status'[x] = "ready" /\ Level(prio[x]) = l}
                          = ToSet(lists[l]) \cup (IF l = Level(p) THEN {t} ELSE {})
    BY <2>1
  <2> DEFINE U == ToSet(lists[l]) \cup (IF l = Level(p) THEN {t} ELSE {})
  <2>5. U \subseteq Threads /\ \A x \in Threads : x \in U <=> status'[x] = "ready" /\ Level(prio[x]) = l
    BY <2>2, <2>3
  <2> HIDE DEF U
  <2>6. {x \in Threads : status'[x] = "ready" /\ Level(prio[x]) = l} = U
    BY <2>5, Zenon
  <2>7. QED BY <2>6 DEF U
<1>7. OnLevels'
  BY <1>4, <1>5, <1>6 DEF OnLevels
<1>8. Ordered(new[1], Before(RemainingBurst', {}))
  <2>1. \A x \in Threads : RemainingBurst'[x] = rank[x]
    BY DEF RemainingBurst
  <2>2. new[1] \in Seq(Threads) /\ ToSet(new[1]) \subseteq Threads
    BY <1>4, SetOfSeq
  <2>3. QED BY <1>4, <2>1, <2>2, RanksAlike
<1>9. /\ Before(RemainingBurst, {})' = Before(RemainingBurst', {})
      /\ Before(ByPriority(priority), {})' = Before(ByPriority(prio), {})
  BY <1>5 DEF Before, ByPriority
<1>10. InOrder'
  BY <1>4, <1>5, <1>8, <1>9 DEF InOrder
<1>11. QED BY <1>4, <1>5, <1>7, <1>10

(* The initial states satisfy the invariant.                               *)
LEMMA InitHolds == Init => IInv
<1> SUFFICES ASSUME Init PROVE IInv
  OBVIOUS
<1> USE DEF Init
<1>1. TypeOK
  <2>1. 0 \in 0..MaxPriority
    BY ConstantFacts
  <2>2. untilTimer \in Nat /\ Main \in Threads
    BY DelayFacts, ThreadsAssumption
  <2>3. readyList \in [1..3 -> Seq(Threads)]
    OBVIOUS
  <2>4. status \in [Threads -> {"created", "running", "ready", "blocked", "deleted"}]
    OBVIOUS
  <2>5. /\ priority \in [Threads -> 0..MaxPriority] /\ waited \in [Threads -> Nat]
        /\ burst \in [Threads -> Nat] /\ T \in [Threads -> Nat]
    BY <2>1
  <2>6. /\ currentLayer \in 1..3 /\ runTime \in Nat /\ finishing \in BOOLEAN /\ yieldOnReturn \in BOOLEAN
        /\ mode \in {"running", "handler", "sleeping", "idle", "switched"}
        /\ currentThread \in Threads /\ toBeDestroyed \in Threads \cup {NoThread}
    <3>1. currentLayer \in 1..3 /\ runTime \in Nat
      OBVIOUS
    <3>2. finishing \in BOOLEAN /\ yieldOnReturn \in BOOLEAN
      OBVIOUS
    <3>3. /\ mode \in {"running", "handler", "sleeping", "idle", "switched"}
          /\ currentThread \in Threads /\ toBeDestroyed \in Threads \cup {NoThread}
      BY <2>2
    <3>4. QED BY <3>1, <3>2, <3>3
  <2> HIDE DEF Init
  <2>7. QED BY <2>2, <2>3, <2>4, <2>5, <2>6, Zenon DEF TypeOK
<1>2. \A l : ReadyAt(l, priority) = {}
  BY DEF ReadyAt
<1>3. OnLevels
  BY <1>2, EmptySeqFacts DEF OnLevels
<1>4. InOrder
  BY DEF InOrder, Ordered
<1>5. Dispatching
  <2>1. Level(0) = 3
    BY ConstantFacts DEF Level
  <2>2. QED BY <2>1, ThreadsAssumption DEF Dispatching, Working
<1>6. Clocks
  BY DelayFacts DEF Clocks
<1>7. Preemption
  BY DEF Preemption, Higher
<1>8. QED BY <1>1, <1>3, <1>4, <1>5, <1>6, <1>7 DEF IInv

(* A running thread is not on a list.                                      *)
LEMMA ReadyFacts ==
    ASSUME TypeOK, OnLevels, NEW t \in Threads, status[t] # "ready"
    PROVE  /\ \A l \in 1..3 : t \notin ToSet(readyList[l])
           /\ \A l \in 1..3 : readyList[l] \in Seq(Threads) /\ IsInjective(readyList[l])
                /\ ToSet(readyList[l]) = {x \in Threads : x # t /\ status[x] = "ready" /\ Level(priority[x]) = l}
BY DEF TypeOK, OnLevels, ReadyAt

(* Fork of a created thread, with any priority.                            *)
LEMMA ForkKeeps == ASSUME IInv, NEW t \in Threads, Fork(t) PROVE IInv'
<1>0. TypeOK /\ OnLevels /\ InOrder /\ Dispatching /\ Clocks /\ Preemption
  BY DEF IInv
<1> USE DEF Fork, cpuVars, machineVars
<1>1. PICK p \in Priorities : /\ priority' = [priority EXCEPT ![t] = p]
                              /\ readyList' = WithReady(readyList, t, p, RemainingBurst)
  OBVIOUS
<1>2. p \in 0..MaxPriority /\ RemainingBurst \in Ranks /\ status[t] = "created"
  BY <1>0, ConstantFacts, RankFacts
<1>3. \A x \in Threads : /\ status'[x] = IF x = t THEN "ready" ELSE status[x]
                         /\ priority'[x] = IF x = t THEN p ELSE priority[x]
  BY <1>0, <1>1 DEF TypeOK
<1>4. /\ readyList' \in [1..3 -> Seq(Threads)] /\ OnLevels' /\ InOrder'
      /\ readyList[1] # <<>> =>
                /\ readyList'[1] # <<>>
                /\ Head(readyList'[1]) # Head(readyList[1]) =>
                     Head(readyList'[1]) = t /\ RemainingBurst[t] < RemainingBurst[Head(readyList[1])]
  <2>1. \A x \in Threads : RemainingBurst[x] = burst'[x] - Grain * T'[x]
    BY DEF RemainingBurst
  <2>2. \A l \in 1..3 : /\ IsInjective(readyList[l])
                        /\ ToSet(readyList[l]) = {x \in Threads : x # t /\ status'[x] = "ready" /\ Level(priority[x]) = l}
    BY <1>0, <1>2, <1>3, ReadyFacts
  <2>3. readyList \in [1..3 -> Seq(Threads)] /\ status'[t] = "ready"
    BY <1>0, <1>3 DEF TypeOK
  <2>4. /\ Ordered(readyList[1], Before(RemainingBurst, {}))
        /\ Ordered(readyList[2], Before(ByPriority(priority), {}))
    BY <1>0 DEF InOrder
  <2>5. QED BY <1>0, <1>1, <1>2, <2>1, <2>2, <2>3, <2>4, OneMoreReady
<1>5. TypeOK'
  BY <1>0, <1>1, <1>2, <1>4 DEF TypeOK
<1>6. Dispatching'
  <2>1. mode = "running" /\ currentThread # t /\ currentThread \in Threads
    BY <1>0, <1>2 DEF Dispatching, Working, TypeOK
  <2>2. QED BY <1>0, <1>3, <2>1 DEF Dispatching, Working, TypeOK
<1>7. Clocks'
  BY <1>0, <1>3 DEF Clocks
<1>8. Preemption'
  <2>1. \A x \in Higher' : x = t \/ x \in Higher
    BY <1>3 DEF Higher
  <2>2. waited[t] = 0 /\ untilTimer <= Max(TimerDelays) /\ untilTimer \in Nat /\ yieldOnReturn = FALSE
    BY <1>0, <1>2 DEF Clocks, TypeOK
  <2>3. \A x \in Higher : waited[x] + untilTimer <= Max(TimerDelays)
    BY <1>0, <2>2 DEF Preemption
  <2>4. QED BY <2>1, <2>2, <2>3 DEF Preemption
<1>9. QED BY <1>4, <1>5, <1>6, <1>7, <1>8 DEF IInv

(* A waiting thread becomes ready.                                         *)
LEMMA WakeKeeps == ASSUME IInv, NEW t \in Threads, Wake(t) PROVE IInv'
<1>0. TypeOK /\ OnLevels /\ InOrder /\ Dispatching /\ Clocks /\ Preemption
  BY DEF IInv
<1> USE DEF Wake, cpuVars, machineVars
<1>p. PICK p \in 0..MaxPriority : p = priority[t]
  BY <1>0 DEF TypeOK
<1>2. p \in 0..MaxPriority /\ RemainingBurst \in Ranks /\ status[t] = "blocked"
  BY <1>0, RankFacts DEF TypeOK
<1>3. \A x \in Threads : status'[x] = IF x = t THEN "ready" ELSE status[x]
  BY <1>0 DEF TypeOK
<1>1. /\ priority' = [priority EXCEPT ![t] = p]
      /\ readyList' = WithReady(readyList, t, p, RemainingBurst)
  BY <1>0, <1>p DEF TypeOK
<1>4. /\ readyList' \in [1..3 -> Seq(Threads)] /\ OnLevels' /\ InOrder'
      /\ readyList[1] # <<>> =>
                /\ readyList'[1] # <<>>
                /\ Head(readyList'[1]) # Head(readyList[1]) =>
                     Head(readyList'[1]) = t /\ RemainingBurst[t] < RemainingBurst[Head(readyList[1])]
  <2>1. \A x \in Threads : RemainingBurst[x] = burst'[x] - Grain * T'[x]
    BY DEF RemainingBurst
  <2>2. \A l \in 1..3 : /\ IsInjective(readyList[l])
                        /\ ToSet(readyList[l]) = {x \in Threads : x # t /\ status'[x] = "ready" /\ Level(priority[x]) = l}
    BY <1>0, <1>2, <1>3, ReadyFacts
  <2>3. readyList \in [1..3 -> Seq(Threads)] /\ status'[t] = "ready"
    BY <1>0, <1>3 DEF TypeOK
  <2>4. /\ Ordered(readyList[1], Before(RemainingBurst, {}))
        /\ Ordered(readyList[2], Before(ByPriority(priority), {}))
    BY <1>0 DEF InOrder
  <2> HIDE DEF Wake
  <2>5. QED BY <1>0, <1>1, <1>2, <2>1, <2>2, <2>3, <2>4, OneMoreReady
<1>5. TypeOK'
  BY <1>0, <1>2, <1>4 DEF TypeOK
<1>6. Dispatching'
  <2>1. toBeDestroyed = NoThread /\ currentThread \in Threads
    BY <1>0 DEF Dispatching, TypeOK
  <2>2. QED BY <1>0, <1>2, <1>3, <2>1 DEF Dispatching, Working
<1>7. Clocks'
  BY <1>0, <1>3 DEF Clocks
<1>8. Preemption'
  <2>1. \A x \in Higher' : x = t \/ x \in Higher
    BY <1>3 DEF Higher
  <2>2. waited[t] = 0 /\ untilTimer <= Max(TimerDelays) /\ untilTimer \in Nat
    BY <1>0, <1>2 DEF Clocks, TypeOK
  <2>3. mode \in {"running", "handler"} /\ ~yieldOnReturn =>
          \A x \in Higher : waited[x] + untilTimer <= Max(TimerDelays)
    BY <1>0 DEF Preemption
  <2>4. ASSUME yieldOnReturn
        PROVE  /\ currentLayer = 3 \/ readyList'[1] # <<>>
               /\ currentLayer = 1 =>
                    RemainingBurst[Head(readyList'[1])] < RemainingBurst[currentThread] - Grain * runTime
    <3>1. currentLayer = 3 \/ readyList'[1] # <<>>
      BY <1>0, <1>4, <2>4 DEF Preemption
    <3>2. ASSUME currentLayer = 1
          PROVE  RemainingBurst[Head(readyList'[1])] < RemainingBurst[currentThread] - Grain * runTime
      <4>1. /\ readyList[1] # <<>>
            /\ RemainingBurst[Head(readyList[1])] < RemainingBurst[currentThread] - Grain * runTime
        BY <1>0, <2>4, <3>2 DEF Preemption
      <4>2. Head(readyList[1]) \in Threads /\ currentThread \in Threads /\ runTime \in Nat
        BY <1>0, <4>1 DEF TypeOK
      <4>3. /\ RemainingBurst[Head(readyList[1])] \in Int /\ RemainingBurst[t] \in Int
            /\ RemainingBurst[currentThread] - Grain * runTime \in Int
        BY <1>2, <4>2, GrainFacts DEF Ranks
      <4>4. \/ Head(readyList'[1]) = Head(readyList[1])
            \/ Head(readyList'[1]) = t /\ RemainingBurst[t] < RemainingBurst[Head(readyList[1])]
        BY <1>4, <4>1
      <4>5. CASE Head(readyList'[1]) = Head(readyList[1])
        BY <4>1, <4>5
      <4>6. CASE Head(readyList'[1]) = t /\ RemainingBurst[t] < RemainingBurst[Head(readyList[1])]
        <5>1. \A i, j, k \in Int : i < j /\ j < k => i < k
          OBVIOUS
        <5>2. RemainingBurst[t] < RemainingBurst[currentThread] - Grain * runTime
          BY <4>1, <4>3, <4>6, <5>1, Zenon
        <5>3. QED BY <4>6, <5>2, Zenon
      <4>7. QED BY <4>4, <4>5, <4>6
    <3>3. QED BY <3>1, <3>2
  <2>5. RemainingBurst' = RemainingBurst
    BY DEF RemainingBurst
  <2>6. mode # "switched"
    OBVIOUS
  <2>7. QED BY <2>1, <2>2, <2>3, <2>4, <2>5, <2>6 DEF Preemption
<1>9. QED BY <1>4, <1>5, <1>6, <1>7, <1>8 DEF IInv

(* The current thread waits or finishes.                                   *)
LEMMA SleepKeeps == ASSUME IInv, NEW isFinishing \in BOOLEAN, Sleep(isFinishing) PROVE IInv'
<1>0. TypeOK /\ OnLevels /\ InOrder /\ Dispatching /\ Clocks /\ Preemption
  BY DEF IInv
<1> USE DEF Sleep
<1>1. /\ currentThread \in Threads /\ status[currentThread] = "running"
      /\ waited[currentThread] = 0 /\ yieldOnReturn = FALSE /\ toBeDestroyed = NoThread
      /\ untilTimer # 0
  BY <1>0 DEF TypeOK, Dispatching, Working, Clocks
<1>2. \A x \in Threads : /\ status'[x] = IF x = currentThread THEN "blocked" ELSE status[x]
                         /\ x # currentThread => burst'[x] = burst[x] /\ T'[x] = T[x]
  BY <1>0, <1>1 DEF TypeOK
<1>3. TypeOK'
  <2>1. (Grain * (T[currentThread] + runTime) + burst[currentThread]) \div 2 \in Nat
    <3>0. T[currentThread] + runTime \in Nat /\ burst[currentThread] \in Nat
      BY <1>0, <1>1 DEF TypeOK
    <3>1. Grain * (T[currentThread] + runTime) + burst[currentThread] \in Nat
      BY <3>0, GrainFacts
    <3>2. \A n \in Nat : n \div 2 \in Nat
      OBVIOUS
    <3>3. QED BY <3>1, <3>2
  <2>2. burst' \in [Threads -> Nat] /\ T' \in [Threads -> Nat]
    BY <1>0, <2>1 DEF TypeOK
  <2>3. status' \in [Threads -> {"created", "running", "ready", "blocked", "deleted"}]
    BY <1>0 DEF TypeOK
  <2>4. QED BY <1>0, <2>2, <2>3 DEF TypeOK
<1>4. OnLevels' /\ InOrder'
  <2>1. /\ \A t \in Threads : status'[t] = "ready" <=> status[t] = "ready"
        /\ \A t \in Threads : status[t] = "ready" => burst'[t] = burst[t] /\ T'[t] = T[t]
    BY <1>1, <1>2
  <2>2. QED BY <1>0, <2>1, SameLists
<1>5. Dispatching'
  BY <1>1, <1>2 DEF Dispatching, Working
<1>6. Clocks'
  BY <1>0, <1>1, <1>2 DEF Clocks
<1>7. Preemption'
  BY <1>1 DEF Preemption
<1>8. QED BY <1>3, <1>4, <1>5, <1>6, <1>7 DEF IInv

(* The sleeping thread gives way to the next ready one.                    *)
LEMMA DispatchKeeps == ASSUME IInv, Dispatch PROVE IInv'
<1>0. TypeOK /\ OnLevels /\ InOrder /\ Dispatching /\ Clocks /\ Preemption
  BY DEF IInv
<1> USE DEF Dispatch, Run
<1>a. PICK t \in Threads : t = NextThread
  BY <1>0, NextFacts
<1>1. /\ NextLayer \in 1..3 /\ status[t] = "ready" /\ Level(priority[t]) = NextLayer
      /\ \A k \in 1..3 : k < NextLayer => readyList[k] = <<>>
      /\ WithoutNext \in [1..3 -> Seq(Threads)]
      /\ \A l \in 1..3 : /\ IsInjective(WithoutNext[l])
                         /\ ToSet(WithoutNext[l]) = ReadyAt(l, priority) \ {t}
      /\ Ordered(WithoutNext[1], Before(RemainingBurst, {}))
      /\ Ordered(WithoutNext[2], Before(ByPriority(priority), {}))
  BY <1>0, <1>a, NextFacts
<1>2. /\ currentThread' = t /\ currentLayer' = NextLayer /\ runTime' = 0
      /\ waited' = [waited EXCEPT ![t] = 0] /\ status' = [status EXCEPT ![t] = "running"]
      /\ readyList' = WithoutNext
      /\ toBeDestroyed' = IF finishing THEN currentThread ELSE toBeDestroyed
      /\ finishing' = FALSE /\ mode' = "switched"
      /\ UNCHANGED <<priority, burst, T, yieldOnReturn, untilTimer>> /\ mode = "sleeping"
  BY <1>a
<1> HIDE DEF Dispatch, Run
<1>3. \A x \in Threads : /\ status'[x] = IF x = t THEN "running" ELSE status[x]
                         /\ waited'[x] = IF x = t THEN 0 ELSE waited[x]
  BY <1>0, <1>2 DEF TypeOK
<1>4. TypeOK'
  <2>1. /\ status' \in [Threads -> {"created", "running", "ready", "blocked", "deleted"}]
        /\ waited' \in [Threads -> Nat]
    BY <1>0, <1>2 DEF TypeOK
  <2>2. toBeDestroyed' \in Threads \cup {NoThread} /\ finishing' \in BOOLEAN
    BY <1>0, <1>2 DEF TypeOK
  <2>3. /\ currentThread' \in Threads /\ currentLayer' \in 1..3 /\ runTime' \in Nat
        /\ readyList' \in [1..3 -> Seq(Threads)]
    BY <1>1, <1>2
  <2>4. QED BY <1>0, <1>2, <2>1, <2>2, <2>3 DEF TypeOK
<1>5. OnLevels'
  <2>1. \A l : ReadyAt(l, priority)' = ReadyAt(l, priority) \ {t}
    BY <1>2, <1>3 DEF ReadyAt
  <2>2. QED BY <1>1, <1>2, <2>1 DEF OnLevels
<1>6. InOrder'
  <2>1. /\ Before(RemainingBurst, {})' = Before(RemainingBurst, {})
        /\ Before(ByPriority(priority), {})' = Before(ByPriority(priority), {})
    BY <1>2 DEF Before, RemainingBurst, ByPriority
  <2>2. QED BY <1>1, <1>2, <2>1 DEF InOrder
<1>7. Dispatching'
  <2>1. /\ currentThread \in Threads /\ toBeDestroyed = NoThread
        /\ finishing => status[currentThread] = "blocked"
    BY <1>0, <1>2 DEF TypeOK, Dispatching
  <2>2. /\ status'[t] = "running" /\ priority'[t] = priority[t]
        /\ finishing => currentThread # t /\ status'[currentThread] = "blocked"
    BY <1>1, <1>2, <1>3, <2>1
  <2>3. QED BY <1>1, <1>2, <2>1, <2>2 DEF Dispatching, Working
<1>8. Clocks'
  BY <1>0, <1>2, <1>3 DEF Clocks
<1>9. Preemption'
  <2>1. Higher' = {}
    <3>1. ASSUME NEW x \in Higher' PROVE FALSE
      <4>1. x \in Threads /\ status[x] = "ready" /\ Level(priority[x]) < NextLayer
        BY <1>2, <1>3, <3>1 DEF Higher
      <4>2. Level(priority[x]) \in 1..3
        BY <1>0, <4>1, LevelFacts DEF TypeOK
      <4>3. x \in ToSet(readyList[Level(priority[x])])
        BY <1>0, <4>1, <4>2 DEF OnLevels, ReadyAt
      <4>4. ToSet(readyList[Level(priority[x])]) = {}
        BY <1>1, <4>1, <4>2, EmptySeqFacts
      <4>5. QED BY <4>3, <4>4
    <3>2. QED BY <3>1
  <2>2. yieldOnReturn' = FALSE
    BY <1>0, <1>2 DEF Clocks, TypeOK
  <2>3. QED BY <1>2, <2>1, <2>2 DEF Preemption
<1>10. QED BY <1>4, <1>5, <1>6, <1>7, <1>8, <1>9 DEF IInv

(* The next thread runs, and deletes a carcass.                            *)
LEMMA ResumeKeeps == ASSUME IInv, Resume PROVE IInv'
<1>0. TypeOK /\ OnLevels /\ InOrder /\ Dispatching /\ Clocks /\ Preemption
  BY DEF IInv
<1> USE DEF Resume
<1>1. \A x \in Threads :
          /\ status'[x] = IF x = toBeDestroyed THEN "deleted" ELSE status[x]
          /\ x # toBeDestroyed => priority'[x] = priority[x] /\ burst'[x] = burst[x]
  OBVIOUS
<1>2. /\ \A x \in Threads : x = toBeDestroyed => status[x] = "blocked"
      /\ currentThread \in Threads /\ toBeDestroyed # currentThread
      /\ status[currentThread] = "running" /\ yieldOnReturn = FALSE
  BY <1>0, ThreadsAssumption DEF Dispatching, Working, TypeOK, Clocks
<1>3. TypeOK'
  <2>1. priority' \in [Threads -> 0..MaxPriority]
    <3>1. priority \in [Threads -> 0..MaxPriority] /\ 0 \in 0..MaxPriority
      BY <1>0, ConstantFacts DEF TypeOK
    <3>2. QED BY <3>1
  <2>2. burst' \in [Threads -> Nat]
    BY <1>0 DEF TypeOK
  <2>3. status' \in [Threads -> {"created", "running", "ready", "blocked", "deleted"}]
    BY <1>0 DEF TypeOK
  <2>4. toBeDestroyed' \in Threads \cup {NoThread} /\ mode' = "running"
    OBVIOUS
  <2>5. UNCHANGED <<waited, T, readyList, currentThread, currentLayer, runTime, finishing,
                    yieldOnReturn, untilTimer>>
    BY Zenon
  <2> HIDE DEF Resume
  <2>6. QED BY <1>0, <2>1, <2>2, <2>3, <2>4, <2>5 DEF TypeOK
<1>4. OnLevels' /\ InOrder'
  <2>1. \A t \in Threads : /\ status'[t] = "ready" <=> status[t] = "ready"
                           /\ status[t] = "ready" => priority'[t] = priority[t] /\ burst'[t] = burst[t]
    BY <1>1, <1>2
  <2>2. QED BY <1>0, <2>1, SameLists
<1>5. Dispatching'
  BY <1>0, <1>1, <1>2 DEF Dispatching, Working
<1>6. Clocks'
  <2>1. \A x \in Threads : status'[x] # "ready" => waited'[x] = 0
    BY <1>0, <1>1, <1>2 DEF Clocks
  <2>2. QED BY <1>0, <2>1 DEF Clocks
<1>7. Preemption'
  <2>1. Higher' \subseteq Higher
    BY <1>1, <1>2 DEF Higher
  <2>2. Higher = {}
    BY <1>0 DEF Preemption
  <2>3. QED BY <1>2, <2>1, <2>2 DEF Preemption
<1>8. QED BY <1>3, <1>4, <1>5, <1>6, <1>7 DEF IInv

(* A tick adds to the wait what it takes from the delay.                   *)
LEMMA TickKeeps == ASSUME IInv, Tick PROVE IInv'
<1>0. TypeOK /\ OnLevels /\ InOrder /\ Dispatching /\ Clocks /\ Preemption
  BY DEF IInv
<1> USE DEF Tick, TimePasses
<1>1. /\ untilTimer \in Nat /\ untilTimer > 0 /\ untilTimer <= Max(TimerDelays) /\ yieldOnReturn = FALSE
      /\ Max(TimerDelays) \in Nat
  BY <1>0, DelayFacts DEF TypeOK, Clocks
<1>2. \A x \in Threads : /\ waited[x] \in Nat
                         /\ waited'[x] = IF status[x] = "ready" THEN waited[x] + 1 ELSE waited[x]
  BY <1>0 DEF TypeOK
<1>3. TypeOK'
  <2>1. waited' \in [Threads -> Nat] /\ untilTimer' \in Nat
    BY <1>1, <1>2
  <2>2. runTime' \in Nat /\ mode' = "handler"
    BY <1>0 DEF TypeOK
  <2>3. UNCHANGED <<status, priority, burst, T, readyList, currentThread, currentLayer,
                    toBeDestroyed, finishing, yieldOnReturn>>
    BY Zenon
  <2> HIDE DEF Tick, TimePasses
  <2>4. QED BY <1>0, <2>1, <2>2, <2>3 DEF TypeOK
<1>4. OnLevels' /\ InOrder'
  BY <1>0, SameLists
<1>5. Dispatching'
  BY <1>0 DEF Dispatching, Working
<1>6. Clocks'
  BY <1>0, <1>1, <1>2 DEF Clocks
<1>7. Preemption'
  <2>1. Higher' = Higher /\ Higher \subseteq Threads /\ \A x \in Higher : status[x] = "ready"
    BY DEF Higher
  <2>2. \A x \in Higher : waited[x] + untilTimer <= Max(TimerDelays)
    BY <1>0, <1>1 DEF Preemption
  <2>3. \A x \in Higher : waited'[x] + untilTimer' <= Max(TimerDelays)
    BY <1>1, <1>2, <2>1, <2>2
  <2>4. QED BY <1>1, <2>1, <2>3 DEF Preemption
<1>8. QED BY <1>3, <1>4, <1>5, <1>6, <1>7 DEF IInv

(* The clock jumps while no thread is ready.                               *)
LEMMA IdleKeeps == ASSUME IInv, Idle PROVE IInv'
<1>0. TypeOK /\ OnLevels /\ InOrder /\ Dispatching /\ Clocks /\ Preemption
  BY DEF IInv
<1> USE DEF Idle, TimePasses, cpuVars
<1>1. untilTimer \in Nat /\ Max(TimerDelays) \in Nat /\ untilTimer <= Max(TimerDelays) /\ yieldOnReturn = FALSE
  BY <1>0, DelayFacts DEF TypeOK, Clocks
<1>2. PICK d \in 0..untilTimer : TimePasses(d)
  OBVIOUS
<1>3. \A x \in Threads : /\ waited[x] \in Nat
                         /\ waited'[x] = IF status[x] = "ready" THEN waited[x] + d ELSE waited[x]
  BY <1>0, <1>2 DEF TypeOK
<1>4. TypeOK'
  <2>1. waited' \in [Threads -> Nat] /\ untilTimer' \in Nat
    BY <1>1, <1>2, <1>3
  <2>2. QED BY <1>0, <2>1 DEF TypeOK
<1>5. OnLevels' /\ InOrder'
  BY <1>0, SameLists
<1>6. Dispatching'
  BY <1>0 DEF Dispatching, Working
<1>7. Clocks'
  BY <1>0, <1>1, <1>2, <1>3 DEF Clocks
<1>8. Preemption'
  BY <1>1 DEF Preemption
<1>9. QED BY <1>4, <1>5, <1>6, <1>7, <1>8 DEF IInv

(* Aging, the moves between the lists, and the decision to yield.          *)
LEMMA TimerInterruptKeeps == ASSUME IInv, TimerInterrupt PROVE IInv'
<1>0. TypeOK /\ OnLevels /\ InOrder /\ Dispatching /\ Clocks /\ Preemption
  BY DEF IInv
<1> USE DEF TimerInterrupt, cpuVars
<1>1. /\ UpdatedQueues \in [1..3 -> Seq(Threads)]
      /\ \A l \in 1..3 : /\ IsInjective(UpdatedQueues[l])
                         /\ ToSet(UpdatedQueues[l]) = ReadyAt(l, AgedPriority)
      /\ Ordered(UpdatedQueues[1], Before(RemainingBurst, {}))
      /\ Ordered(UpdatedQueues[2], Before(ByPriority(AgedPriority), {}))
  BY <1>0, UpdatedFacts
<1>2. /\ AgedPriority \in [Threads -> 0..MaxPriority]
      /\ \A x \in Threads : status[x] # "ready" => AgedPriority[x] = priority[x]
  BY <1>0, AgedFacts
<1>3. untilTimer' \in Nat /\ untilTimer' > 0 /\ untilTimer' <= Max(TimerDelays)
  BY DelayFacts
<1>4. TypeOK'
  <2>1. waited' \in [Threads -> Nat]
    BY <1>0 DEF TypeOK
  <2>2. yieldOnReturn' \in BOOLEAN
    OBVIOUS
  <2>3. QED BY <1>0, <1>1, <1>2, <1>3, <2>1, <2>2 DEF TypeOK
<1>5. OnLevels'
  <2>1. \A l : ReadyAt(l, priority)' = ReadyAt(l, AgedPriority)
    BY DEF ReadyAt
  <2>2. QED BY <1>1, <2>1 DEF OnLevels
<1>6. InOrder'
  <2>1. /\ Before(RemainingBurst, {})' = Before(RemainingBurst, {})
        /\ Before(ByPriority(priority), {})' = Before(ByPriority(AgedPriority), {})
    BY DEF Before, RemainingBurst, ByPriority
  <2>2. QED BY <1>1, <2>1 DEF InOrder
<1>7. Dispatching'
  <2>1. currentThread \in Threads /\ (Working => priority'[currentThread] = priority[currentThread])
    BY <1>0, <1>2 DEF TypeOK, Dispatching
  <2>2. Working' <=> Working
    BY DEF Working
  <2>3. QED BY <1>0, <2>1, <2>2 DEF Dispatching
<1>8. Clocks'
  <2>1. \A x \in Threads : status'[x] # "ready" => waited'[x] = 0
    BY <1>0 DEF Clocks
  <2>2. yieldOnReturn' => mode' = "handler"
    BY Zenon
  <2>3. mode' = mode
    OBVIOUS
  <2> HIDE DEF TimerInterrupt
  <2>4. QED BY <1>3, <2>1, <2>2 DEF Clocks
<1>9. Preemption'
  <2>1. RemainingBurst' = RemainingBurst
    BY DEF RemainingBurst
  <2>2. yieldOnReturn' => ToYield(readyList')
    OBVIOUS
  <2>3. mode = "handler" /\ ~yieldOnReturn' => ~ToYield(readyList')
    OBVIOUS
  <2>4. mode = "running" => FALSE
    OBVIOUS
  <2>5. ASSUME mode = "handler", ~yieldOnReturn' PROVE Higher' = {}
    <3>1. ASSUME NEW x \in Higher' PROVE FALSE
      <4>1. x \in Threads /\ status'[x] = "ready" /\ Level(priority'[x]) < currentLayer
        BY <3>1 DEF Higher
      <4>2. Level(priority'[x]) \in 1..3 /\ currentLayer \in 1..3
        BY <1>0, <1>2, <4>1, LevelFacts DEF TypeOK
      <4>3. x \in ToSet(readyList'[Level(priority'[x])])
        BY <1>5, <4>1, <4>2 DEF OnLevels, ReadyAt
      <4>4. readyList'[Level(priority'[x])] # <<>>
        BY <4>3, EmptySeqFacts
      <4>5. \/ currentLayer = 3 /\ (readyList'[1] # <<>> \/ readyList'[2] # <<>>)
            \/ currentLayer = 2 /\ readyList'[1] # <<>>
        BY <4>1, <4>2, <4>4
      <4>6. QED BY <2>3, <2>5, <4>5 DEF ToYield
    <3>2. QED BY <3>1
  <2>6. ASSUME yieldOnReturn'
        PROVE  /\ currentLayer = 3 \/ readyList'[1] # <<>>
               /\ currentLayer = 1 =>
                    RemainingBurst[Head(readyList'[1])] < RemainingBurst[currentThread] - Grain * runTime
    <3>1. /\ currentLayer = 3 \/ readyList'[1] # <<>>
          /\ currentLayer = 1 => FirstL1ThreadRemainTime(readyList') < CurrentThreadRemainTime
      BY <2>2, <2>6 DEF ToYield
    <3>2. ASSUME currentLayer = 1
          PROVE  RemainingBurst[Head(readyList'[1])] < RemainingBurst[currentThread] - Grain * runTime
      <4>1. readyList'[1] \in Seq(Threads) /\ readyList'[1] # <<>>
        BY <1>1, <3>1, <3>2
      <4>2. Head(readyList'[1]) \in Threads /\ currentThread \in Threads /\ runTime \in Nat
        BY <1>0, <4>1 DEF TypeOK
      <4>3. /\ RemainingBurst[Head(readyList'[1])] \in Int
            /\ RemainingBurst[currentThread] - Grain * runTime \in Int
        BY <1>0, <4>2, RankFacts, GrainFacts DEF Ranks
      <4>4. WholeTicks(RemainingBurst[Head(readyList'[1])])
              < WholeTicks(RemainingBurst[currentThread] - Grain * runTime)
        BY <3>1, <3>2 DEF FirstL1ThreadRemainTime, CurrentThreadRemainTime
      <4>5. QED BY <4>3, <4>4, WholeTicksMonotone
    <3>3. QED BY <3>1, <3>2
  <2>7. QED BY <2>1, <2>4, <2>5, <2>6 DEF Preemption
<1>10. QED BY <1>4, <1>5, <1>6, <1>7, <1>8, <1>9 DEF IInv

(* The interrupted thread or the idle loop goes on.                        *)
LEMMA ReturnFromInterruptKeeps == ASSUME IInv, ReturnFromInterrupt PROVE IInv'
<1>0. TypeOK /\ OnLevels /\ InOrder /\ Dispatching /\ Clocks /\ Preemption
  BY DEF IInv
<1> USE DEF ReturnFromInterrupt, threadVars, cpuVars
<1>1. TypeOK'
  BY <1>0 DEF TypeOK
<1>2. OnLevels' /\ InOrder'
  BY <1>0, SameLists
<1>3. Dispatching'
  BY <1>0 DEF Dispatching, Working
<1>4. Clocks'
  BY <1>0 DEF Clocks, TypeOK
<1>5. Preemption'
  <2>1. Higher' = Higher
    BY DEF Higher
  <2>2. QED BY <1>0, <2>1 DEF Preemption
<1>6. QED BY <1>1, <1>2, <1>3, <1>4, <1>5 DEF IInv

(* Where a yielding thread goes: never to a lower level, and inside L1     *)
(* only to a thread with less left to do.                                  *)
LEMMA YieldGoesUp ==
    ASSUME IInv, Yield, ~AllEmpty
    PROVE  /\ NextLayer <= currentLayer
           /\ currentLayer = 1 =>
                RemainingBurst[NextThread] < burst[currentThread] - Grain * (T[currentThread] + runTime)
<1>0. TypeOK /\ OnLevels /\ InOrder /\ Preemption /\ yieldOnReturn
  BY DEF IInv, Yield
<1>1. /\ NextLayer \in 1..3 /\ NextThread \in Threads /\ NextThread = Head(readyList[NextLayer])
      /\ \A k \in 1..3 : k < NextLayer => readyList[k] = <<>>
      /\ currentLayer \in 1..3 /\ currentThread \in Threads /\ runTime \in Nat
  BY <1>0, NextFacts DEF TypeOK
<1>2. currentLayer = 3 \/ NextLayer = 1
  BY <1>0, <1>1 DEF Preemption
<1>3. ASSUME currentLayer = 1
      PROVE  RemainingBurst[NextThread] < burst[currentThread] - Grain * (T[currentThread] + runTime)
  <2>1. NextThread = Head(readyList[1])
    BY <1>1, <1>2, <1>3
  <2>2. RemainingBurst[NextThread] < RemainingBurst[currentThread] - Grain * runTime
    BY <1>0, <1>3, <2>1 DEF Preemption
  <2>3. RemainingBurst[currentThread] = burst[currentThread] - Grain * T[currentThread]
    BY <1>1 DEF RemainingBurst
  <2>4. burst[currentThread] \in Nat /\ T[currentThread] \in Nat /\ RemainingBurst[NextThread] \in Int
    BY <1>0, <1>1, RankFacts DEF TypeOK, Ranks
  <2>5. Grain * (T[currentThread] + runTime) = Grain * T[currentThread] + Grain * runTime
    BY <1>1, <2>4, GrainFacts
  <2>6. Grain * T[currentThread] \in Nat /\ Grain * runTime \in Nat
    BY <1>1, <2>4, GrainFacts
  <2>7. QED BY <2>2, <2>3, <2>4, <2>5, <2>6
<1>4. QED BY <1>1, <1>2, <1>3

(* The preempted thread becomes ready as the next one takes over.          *)
LEMMA YieldKeeps == ASSUME IInv, Yield PROVE IInv'
<1>0. TypeOK /\ OnLevels /\ InOrder /\ Dispatching /\ Clocks /\ Preemption
  BY DEF IInv
<1>a. PICK c \in Threads : c = currentThread
  BY <1>0 DEF TypeOK
<1>1. /\ mode = "handler" /\ yieldOnReturn' = FALSE /\ T' = [T EXCEPT ![c] = @ + runTime]
      /\ UNCHANGED <<priority, burst, untilTimer>> /\ untilTimer > 0
  BY <1>a DEF Yield
<1>2. /\ status[c] = "running" /\ currentLayer = Level(priority[c]) /\ toBeDestroyed = NoThread
      /\ finishing = FALSE /\ untilTimer \in Nat /\ untilTimer <= Max(TimerDelays) /\ waited[c] = 0
      /\ runTime \in Nat /\ priority[c] \in 0..MaxPriority
  BY <1>0, <1>1, <1>a DEF TypeOK, Dispatching, Working, Clocks
<1>3. T' \in [Threads -> Nat] /\ \A x \in Threads : T'[x] = IF x = c THEN T[x] + runTime ELSE T[x]
  <2>1. T \in [Threads -> Nat]
    BY <1>0 DEF TypeOK
  <2>2. T[c] + runTime \in Nat
    BY <1>2, <2>1
  <2>3. QED BY <1>1, <2>1, <2>2
<1>4. CASE AllEmpty
  <2>1. mode' = "running" /\ UNCHANGED <<status, waited, readyList, cpuVars, finishing>>
    BY <1>4 DEF Yield
  <2> USE DEF cpuVars
  <2>2. TypeOK'
    BY <1>0, <1>1, <1>3, <2>1 DEF TypeOK
  <2>3. OnLevels' /\ InOrder'
    <3>1. \A x \in Threads : status[x] = "ready" => burst'[x] = burst[x] /\ T'[x] = T[x]
      BY <1>1, <1>2, <1>3
    <3>2. QED BY <1>0, <1>1, <2>1, <3>1, SameLists
  <2>4. Dispatching'
    BY <1>0, <1>1, <2>1 DEF Dispatching, Working
  <2>5. Clocks'
    BY <1>0, <1>1, <1>2, <2>1 DEF Clocks
  <2>6. Preemption'
    <3>1. ASSUME NEW x \in Higher' PROVE FALSE
      <4>1. x \in Threads /\ status[x] = "ready"
        BY <2>1, <3>1 DEF Higher
      <4>2. Level(priority[x]) \in 1..3
        BY <1>0, <4>1, LevelFacts DEF TypeOK
      <4>3. x \in ToSet(readyList[Level(priority[x])])
        BY <1>0, <4>1, <4>2 DEF OnLevels, ReadyAt
      <4>4. QED BY <1>4, <4>2, <4>3, EmptySeqFacts DEF AllEmpty
    <3>2. QED BY <1>1, <2>1, <3>1 DEF Preemption
  <2>7. QED BY <2>2, <2>3, <2>4, <2>5, <2>6 DEF IInv
<1>5. CASE ~AllEmpty
  <2>a. PICK t \in Threads : t = NextThread
    BY <1>0, <1>5, NextFacts
  <2>b. PICK rank \in Ranks : rank = [x \in Threads |-> burst[x] - Grain * T'[x]]
    <3>1. \A x \in Threads : burst[x] - Grain * T'[x] \in Int
      <4>1. \A x \in Threads : burst[x] \in Nat /\ T'[x] \in Nat
        <5>1. burst \in [Threads -> Nat]
          BY <1>0, Zenon DEF TypeOK
        <5>2. QED BY <1>3, <5>1, Zenon
      <4>2. \A n \in Nat : Grain * n \in Nat
        BY GrainFacts
      <4>3. \A m, n \in Nat : m - n \in Int
        OBVIOUS
      <4>4. QED BY <4>1, <4>2, <4>3, Zenon
    <3>2. [x \in Threads |-> burst[x] - Grain * T'[x]] \in Ranks
      BY <3>1, Zenon DEF Ranks
    <3>3. QED BY <3>2
  <2>c. PICK p \in 0..MaxPriority : p = priority[c]
    BY <1>2
  <2>1. /\ NextLayer \in 1..3 /\ status[t] = "ready" /\ Level(priority[t]) = NextLayer
        /\ \A k \in 1..3 : k < NextLayer => readyList[k] = <<>>
        /\ WithoutNext \in [1..3 -> Seq(Threads)]
        /\ \A l \in 1..3 : /\ IsInjective(WithoutNext[l])
                           /\ ToSet(WithoutNext[l]) = ReadyAt(l, priority) \ {t}
        /\ Ordered(WithoutNext[1], Before(RemainingBurst, {}))
        /\ Ordered(WithoutNext[2], Before(ByPriority(priority), {}))
    BY <1>0, <1>5, <2>a, NextFacts
  <2>2. /\ currentThread' = t /\ currentLayer' = NextLayer /\ runTime' = 0
        /\ waited' = [waited EXCEPT ![t] = 0]
        /\ status' = [status EXCEPT ![c] = "ready", ![t] = "running"]
        /\ readyList' = WithReady(WithoutNext, c, p, rank)
        /\ toBeDestroyed' = NoThread /\ finishing' = FALSE /\ mode' = "switched"
    BY <1>5, <1>a, <1>2, <2>a, <2>b, <2>c DEF Yield, Run
  <2>3. /\ t # c /\ NextLayer <= Level(priority[c])
    BY <1>2, <1>5, <1>a, <2>1, YieldGoesUp
  <2>4. \A x \in Threads : /\ status'[x] = IF x = t THEN "running" ELSE IF x = c THEN "ready" ELSE status[x]
                           /\ waited'[x] = IF x = t THEN 0 ELSE waited[x]
    BY <1>0, <2>2, <2>3 DEF TypeOK
  <2>5. readyList' \in [1..3 -> Seq(Threads)] /\ OnLevels' /\ InOrder'
    <3>1. priority' = [priority EXCEPT ![c] = p] /\ status'[c] = "ready"
      BY <1>0, <1>1, <2>3, <2>4, <2>c DEF TypeOK
    <3>2. \A x \in Threads : rank[x] = burst'[x] - Grain * T'[x]
      BY <1>1, <2>b
    <3>3. ASSUME NEW l \in 1..3
          PROVE  /\ IsInjective(WithoutNext[l])
                 /\ ToSet(WithoutNext[l]) = {x \in Threads : /\ x # c /\ status'[x] = "ready"
                                                             /\ Level(priority[x]) = l}
      <4>1. ReadyAt(l, priority) \ {t} = {x \in Threads : /\ x # c /\ status'[x] = "ready"
                                                          /\ Level(priority[x]) = l}
        BY <1>2, <2>3, <2>4 DEF ReadyAt
      <4>2. QED BY <2>1, <4>1
    <3>4. Ordered(WithoutNext[1], Before(rank, {}))
      <4>1. WithoutNext[1] \in Seq(Threads) /\ ToSet(WithoutNext[1]) = ReadyAt(1, priority) \ {t}
        BY <2>1
      <4>2. \A x \in ToSet(WithoutNext[1]) : rank[x] = RemainingBurst[x]
        BY <1>2, <1>3, <2>b, <4>1 DEF ReadyAt, RemainingBurst
      <4>3. QED BY <2>1, <4>1, <4>2, RanksAlike
    <3>5. QED BY <1>0, <2>1, <2>2, <3>1, <3>2, <3>3, <3>4, OneMoreReady
  <2>6. TypeOK'
    <3>1. /\ status' \in [Threads -> {"created", "running", "ready", "blocked", "deleted"}]
          /\ waited' \in [Threads -> Nat]
      BY <1>0, <2>2 DEF TypeOK
    <3>2. finishing' \in BOOLEAN /\ yieldOnReturn' \in BOOLEAN /\ toBeDestroyed' \in Threads \cup {NoThread}
      BY <1>1, <2>2
    <3>3. currentThread' \in Threads /\ currentLayer' \in 1..3 /\ runTime' \in Nat
      BY <2>1, <2>2
    <3>4. priority' = priority /\ burst' = burst /\ untilTimer' = untilTimer /\ mode' = "switched"
      BY <1>1, <2>2
    <3>5. QED BY <1>0, <1>3, <2>5, <3>1, <3>2, <3>3, <3>4 DEF TypeOK
  <2>7. Dispatching'
    BY <1>1, <2>1, <2>2, <2>4 DEF Dispatching, Working
  <2>8. Clocks'
    <3>1. \A x \in Threads : status[x] # "ready" => waited[x] = 0
      BY <1>0 DEF Clocks
    <3>2. \A x \in Threads : status'[x] # "ready" => waited'[x] = 0
      BY <2>4, <3>1
    <3>3. untilTimer' = untilTimer /\ yieldOnReturn' = FALSE
      BY <1>1
    <3>4. QED BY <1>1, <1>2, <3>2, <3>3 DEF Clocks
  <2>9. Preemption'
    <3>1. ASSUME NEW x \in Higher' PROVE FALSE
      <4>0. x \in Threads /\ status'[x] = "ready" /\ Level(priority'[x]) < currentLayer'
        BY <3>1, Zenon DEF Higher
      <4>1. /\ x \in Threads /\ x # t /\ (x = c \/ status[x] = "ready")
            /\ Level(priority[x]) < NextLayer
        <5>1. x # t /\ (x = c \/ status[x] = "ready")
          BY <2>4, <4>0
        <5>2. priority'[x] = priority[x] /\ currentLayer' = NextLayer
          BY <1>1, <2>2
        <5>3. QED BY <4>0, <5>1, <5>2
      <4>2. Level(priority[x]) \in 1..3 /\ Level(priority[c]) \in 1..3
        BY <1>0, <1>2, <4>1, LevelFacts DEF TypeOK
      <4>3. x # c
        BY <2>1, <2>3, <4>1, <4>2
      <4>4. x \in ToSet(readyList[Level(priority[x])])
        BY <1>0, <4>1, <4>2, <4>3 DEF OnLevels, ReadyAt
      <4>5. QED BY <2>1, <4>1, <4>2, <4>4, EmptySeqFacts
    <3>2. QED BY <1>1, <2>2, <3>1 DEF Preemption
  <2>10. QED BY <2>5, <2>6, <2>7, <2>8, <2>9 DEF IInv
<1>6. QED BY <1>4, <1>5

(* A step that changes nothing preserves the invariant.                    *)
LEMMA StutterKeeps == ASSUME IInv, UNCHANGED vars PROVE IInv'
<1> USE DEF vars, threadVars, cpuVars, machineVars
<1>1. TypeOK' /\ OnLevels'
  BY DEF IInv, TypeOK, OnLevels, ReadyAt
<1>2. InOrder' /\ Dispatching'
  BY DEF IInv, InOrder, Before, RemainingBurst, ByPriority, Dispatching, Working
<1>3. Clocks' /\ Preemption'
  BY DEF IInv, Clocks, Preemption, Higher, RemainingBurst
<1>4. QED BY <1>1, <1>2, <1>3 DEF IInv

(* Every step preserves the invariant.                                     *)
LEMMA StepKeeps == IInv /\ [Next]_vars => IInv'
<1> SUFFICES ASSUME IInv, [Next]_vars PROVE IInv'
  OBVIOUS
<1>1. ASSUME NEW t \in Threads, Fork(t) PROVE IInv'
  BY <1>1, ForkKeeps
<1>2. ASSUME NEW t \in Threads, Wake(t) PROVE IInv'
  BY <1>2, WakeKeeps
<1>3. ASSUME NEW isFinishing \in BOOLEAN, Sleep(isFinishing) PROVE IInv'
  BY <1>3, SleepKeeps
<1>4. CASE Dispatch
  BY <1>4, DispatchKeeps
<1>5. CASE Resume
  BY <1>5, ResumeKeeps
<1>6. CASE Tick
  BY <1>6, TickKeeps
<1>7. CASE Idle
  BY <1>7, IdleKeeps
<1>8. CASE TimerInterrupt
  BY <1>8, TimerInterruptKeeps
<1>9. CASE ReturnFromInterrupt
  BY <1>9, ReturnFromInterruptKeeps
<1>10. CASE Yield
  BY <1>10, YieldKeeps
<1>11. CASE UNCHANGED vars
  BY <1>11, StutterKeeps
<1>12. QED BY <1>1, <1>2, <1>3, <1>4, <1>5, <1>6, <1>7, <1>8, <1>9, <1>10, <1>11, Zenon DEF Next

--------------------------------------------------------------------------------
(* The theorems.                                                           *)

(* The inductive invariant holds of Scheduler.                             *)
THEOREM Invariance == Spec => []IInv
BY InitHolds, StepKeeps, PTL DEF Spec

(* The range of every variable: no priority above MaxPriority, however     *)
(* often a thread ages (updatePriority's cap).                             *)
THEOREM TypeCorrect == Spec => []TypeOK
<1>1. IInv => TypeOK
  BY DEF IInv
<1>2. QED BY Invariance, <1>1, PTL

(* A thread is on the ready lists exactly when it is READY, once, and on   *)
(* the list of its priority's level.                                       *)
THEOREM ListsAreExact == Spec => []ReadyListsExact
<1>1. IInv => ReadyListsExact
  <2> SUFFICES ASSUME IInv PROVE ReadyListsExact
    OBVIOUS
  <2> DEFINE a == readyList[1]
             b == readyList[2]
             c == readyList[3]
  <2>1. /\ a \in Seq(Threads) /\ b \in Seq(Threads) /\ c \in Seq(Threads)
        /\ IsInjective(a) /\ IsInjective(b) /\ IsInjective(c)
        /\ ToSet(a) = ReadyAt(1, priority) /\ ToSet(b) = ReadyAt(2, priority)
        /\ ToSet(c) = ReadyAt(3, priority)
    BY DEF IInv, TypeOK, OnLevels
  <2>2. OnLists = (a \o b) \o c
    BY DEF OnLists
  <2> HIDE DEF a, b, c
  <2>3. /\ a \o b \in Seq(Threads) /\ ToSet(a \o b) = ToSet(a) \cup ToSet(b)
        /\ IsInjective(a \o b) <=> IsInjective(a) /\ IsInjective(b) /\ ToSet(a) \cap ToSet(b) = {}
    BY <2>1, ConcatFacts
  <2> DEFINE ab == a \o b
  <2>4. ab \in Seq(Threads) /\ ab = a \o b
    BY <2>3
  <2> HIDE DEF ab
  <2>5. /\ ToSet(ab \o c) = ToSet(ab) \cup ToSet(c)
        /\ IsInjective(ab \o c) <=> IsInjective(ab) /\ IsInjective(c) /\ ToSet(ab) \cap ToSet(c) = {}
    <3>1. ab \in Seq(Threads) /\ c \in Seq(Threads)
      BY <2>1, <2>4
    <3>2. QED BY <3>1, ConcatFacts
  <2>6. /\ ToSet(a) \cap ToSet(b) = {} /\ (ToSet(a) \cup ToSet(b)) \cap ToSet(c) = {}
    BY <2>1 DEF ReadyAt
  <2>7. ToSet(a) \cup ToSet(b) \cup ToSet(c) = {t \in Threads : status[t] = "ready"}
    <3>1. \A t \in Threads : Level(priority[t]) \in 1..3
      BY LevelFacts DEF IInv, TypeOK
    <3>2. QED BY <2>1, <3>1 DEF ReadyAt
  <2>8. IsInjective(OnLists) /\ ToSet(OnLists) = {t \in Threads : status[t] = "ready"}
    BY <2>1, <2>2, <2>3, <2>4, <2>5, <2>6, <2>7
  <2>9. \A l \in 1..3 : \A t \in ToSet(readyList[l]) : Level(priority[t]) = l
    BY DEF IInv, OnLevels, ReadyAt
  <2>10. QED BY <2>8, <2>9 DEF ReadyListsExact
<1>2. QED BY Invariance, <1>1, PTL

(* L1 stays sorted by remaining burst and L2 by priority.                  *)
THEOREM ListsStaySorted == Spec => []ListsSorted
<1>1. IInv => ListsSorted
  <2> SUFFICES ASSUME IInv, NEW l \in 1..2, NEW i \in DOMAIN readyList[l], NEW j \in DOMAIN readyList[l], i < j
               PROVE  LET rank == IF l = 1 THEN RemainingBurst ELSE ByPriority(priority)
                      IN rank[readyList[l][i]] <= rank[readyList[l][j]]
    BY DEF ListsSorted
  <2>1. /\ readyList[l] \in Seq(Threads) /\ (l = 1 \/ l = 2)
        /\ i \in 1..Len(readyList[l]) /\ j \in 1..Len(readyList[l])
    <3>1. l \in 1..3 /\ (l = 1 \/ l = 2)
      OBVIOUS
    <3>2. readyList \in [1..3 -> Seq(Threads)]
      BY Zenon DEF IInv, TypeOK
    <3>3. readyList[l] \in Seq(Threads)
      BY <3>1, <3>2
    <3>4. DOMAIN readyList[l] = 1..Len(readyList[l])
      BY <3>3, LenProperties
    <3>5. i \in 1..Len(readyList[l]) /\ j \in 1..Len(readyList[l])
      BY <3>4
    <3>6. QED BY <3>1, <3>3, <3>5
  <2> DEFINE rank == IF l = 1 THEN RemainingBurst ELSE ByPriority(priority)
  <2>2. Ordered(readyList[l], Before(rank, {}))
    BY <2>1 DEF IInv, InOrder
  <2> HIDE DEF rank
  <2>3. rank[readyList[l][i]] <= rank[readyList[l][j]]
    BY <2>1, <2>2, OrderMeans
  <2>4. QED BY <2>3 DEF rank
<1>2. QED BY Invariance, <1>1, PTL

(* currentLayer is the level of the thread that runs.                      *)
THEOREM LayerIsCurrent == Spec => []LayerOfCurrent
<1>1. IInv => LayerOfCurrent
  BY DEF IInv, Dispatching, Working, LayerOfCurrent
<1>2. QED BY Invariance, <1>1, PTL

(* A READY thread of a higher level than the running one has waited since  *)
(* the last timer interrupt at most: the next one preempts for it.         *)
THEOREM PreemptedInTime == Spec => []PreemptedAtNextTimer
<1>1. IInv => PreemptedAtNextTimer
  BY DEF IInv, Preemption, Clocks, Higher, PreemptedAtNextTimer
<1>2. QED BY Invariance, <1>1, PTL

(* One carcass at a time, deleted on another thread's stack.               *)
THEOREM CarcassIsHandedOver == Spec => []CarcassHandedOver
<1>1. IInv => CarcassHandedOver
  BY DEF IInv, Dispatching, CarcassHandedOver
<1>2. QED BY Invariance, <1>1, PTL

(* What a step may do to the current thread in the timer's handler.        *)
LEMMA OnlyYieldSwitches ==
    ASSUME IInv, [Next]_vars, mode = "handler", currentThread' # currentThread
    PROVE  /\ Yield /\ ~AllEmpty /\ currentThread' = NextThread /\ currentLayer' = NextLayer
           /\ T'[currentThread] = T[currentThread] + runTime
<1>1. Yield
  BY DEF Next, vars, threadVars, cpuVars, machineVars, Fork, Wake, Sleep, Dispatch, Resume, Tick, Idle,
         TimerInterrupt, ReturnFromInterrupt
<1>2. ~AllEmpty /\ Run
  BY <1>1 DEF Yield, cpuVars
<1>3. T'[currentThread] = T[currentThread] + runTime
  BY <1>1 DEF Yield, IInv, TypeOK
<1>4. QED BY <1>1, <1>2, <1>3 DEF Run

(* The timer takes the CPU from a thread only for one of its own level or  *)
(* of a higher one.                                                        *)
THEOREM PreemptionGoesUp == Spec => PreemptionNeverLowers
<1>1. IInv /\ [Next]_vars
        => [mode = "handler" /\ currentThread' # currentThread => currentLayer' <= currentLayer]_vars
  <2> SUFFICES ASSUME IInv, [Next]_vars, mode = "handler", currentThread' # currentThread
               PROVE  currentLayer' <= currentLayer
    OBVIOUS
  <2>1. Yield /\ ~AllEmpty /\ currentLayer' = NextLayer
    BY OnlyYieldSwitches
  <2>2. QED BY <2>1, YieldGoesUp
<1>2. QED BY Invariance, <1>1, PTL DEF Spec, PreemptionNeverLowers

(* A preemption inside L1 is for a thread with strictly less left to do,   *)
(* in whatever fractions of a tick burst times are kept: cutting off to    *)
(* whole ticks hides a difference but never inverts one.                   *)
THEOREM ShorterGoesFirst == Spec => ShorterFirst
<1>1. IInv /\ [Next]_vars
        => [mode = "handler" /\ currentLayer = 1 /\ currentThread' # currentThread
              => RemainingBurst[currentThread'] < burst[currentThread] - Grain * T'[currentThread]]_vars
  <2> SUFFICES ASSUME IInv, [Next]_vars, mode = "handler", currentLayer = 1, currentThread' # currentThread
               PROVE  RemainingBurst[currentThread'] < burst[currentThread] - Grain * T'[currentThread]
    OBVIOUS
  <2>1. /\ Yield /\ ~AllEmpty /\ currentThread' = NextThread
        /\ T'[currentThread] = T[currentThread] + runTime
    BY OnlyYieldSwitches
  <2>2. QED BY <2>1, YieldGoesUp
<1>2. QED BY Invariance, <1>1, PTL DEF Spec, ShorterFirst

================================================================================
