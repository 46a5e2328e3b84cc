----------------------------- MODULE TSQueueProofs -----------------------------
(***************************************************************************)
(* Proofs about TSQueue for every set of threads, every set of items and   *)
(* every capacity.                                                         *)
(***************************************************************************)
EXTENDS TSQueue, FiniteSetTheorems, TLAPS

(* The window of the ring that holds the queue's items. *)
Window ==
    /\ Count \in 0..Capacity
    /\ tail = (First + Count + (IF Holder = "e_grow" THEN 1 ELSE 0)) % Capacity
    /\ \A i \in 0..(Count - 1) : buffer[(First + i) % Capacity] \in Items

(* What the loop's test has established is still true when it is used. *)
Room == Holder \in {"e_store", "e_advance", "e_grow"} => size < Capacity
Stock == Holder \in {"d_load", "d_advance", "d_shrink"} => size > 0

(* An enqueue has an argument until it has counted it; once stored, it     *)
(* lies in the slot after the window.                                      *)
Argument == \A t \in Threads : pc[t] \in Enqueueing => item[t] \in Items
Placed ==
    Holder \in {"e_advance", "e_grow"} =>
        buffer[(First + Count) % Capacity] = item[mutex]

(* The inductive invariant of the ring. *)
RingInv == Window /\ Room /\ Stock /\ Argument /\ Placed

(* The whole inductive invariant. *)
IInv == TypeOK /\ MutualExclusion /\ RingInv /\ NoLostWakeup
--------------------------------------------------------------------------------
(* Arithmetic of the ring: every index the code reduces is below twice the *)
(* capacity.                                                               *)
Wrap(x) == IF x < Capacity THEN x ELSE x - Capacity

LEMMA WrapLemma ==
    ASSUME NEW x \in 0..(2 * Capacity - 1)
    PROVE  x % Capacity = Wrap(x) /\ x % Capacity \in Index
<1>1. CASE x < Capacity
  <2>1. x % Capacity = x
    BY <1>1, CapacityAssumption
  <2>2. QED BY <2>1, <1>1, CapacityAssumption DEF Wrap, Index
<1>2. CASE x >= Capacity
  <2>1. x % Capacity = x - Capacity
    BY <1>2, CapacityAssumption
  <2>2. QED BY <2>1, <1>2, CapacityAssumption DEF Wrap, Index
<1>3. QED BY <1>1, <1>2, CapacityAssumption

(* Every location of a thread is one of these; a location is critical or   *)
(* it is not.                                                              *)
LEMMA LocationFacts ==
    /\ Critical \subseteq Locations
    /\ {"idle", "e_lock", "e_wait", "d_lock", "d_wait"} \cap Critical = {}
BY DEF Locations, Critical, EnqueueCritical, DequeueCritical

--------------------------------------------------------------------------------
(* TypeOK is preserved by every step. *)
LEMMA TypeInit == Init => TypeOK
BY CapacityAssumption DEF Init, TypeOK, Index, Locations

(* A step is one action of one thread, or get_size. *)
LEMMA StepCases ==
    ASSUME Next
    PROVE  \/ \E t \in Threads : CallEnqueue(t) \/ EnqueueStep(t)
           \/ \E t \in Threads : CallDequeue(t) \/ DequeueStep(t)
           \/ \E t \in Threads : SpuriousWakeup(t)
           \/ GetSize
BY DEF Next, Threads

LEMMA TypeNext ==
    ASSUME TypeOK, MutualExclusion, RingInv, [Next]_vars
    PROVE  TypeOK'
<1> USE CapacityAssumption, ThreadsAssumption
<1>a. CASE UNCHANGED vars
  BY <1>a DEF TypeOK, vars
<1>b. CASE GetSize
  BY <1>b DEF TypeOK, GetSize, ring
<1>1. ASSUME NEW t \in Threads, CallEnqueue(t)
      PROVE  TypeOK'
  BY <1>1 DEF TypeOK, CallEnqueue, Goto, Locations, Critical, EnqueueCritical, DequeueCritical, ring, Index
<1>2. ASSUME NEW t \in Threads, EnqueueLock(t)
      PROVE  TypeOK'
  BY <1>2 DEF TypeOK, EnqueueLock, Acquire, Goto, Locations, Critical, EnqueueCritical, DequeueCritical, ring, Index
<1>3. ASSUME NEW t \in Threads, EnqueueWait(t)
      PROVE  TypeOK'
  BY <1>3 DEF TypeOK, EnqueueWait, Wait, Goto, Locations, Critical, EnqueueCritical, DequeueCritical, ring, Index
<1>4. ASSUME NEW t \in Threads, EnqueueProceed(t)
      PROVE  TypeOK'
  BY <1>4 DEF TypeOK, EnqueueProceed, Goto, Locations, Critical, EnqueueCritical, DequeueCritical, ring, Index
<1>5. ASSUME NEW t \in Threads, EnqueueStore(t)
      PROVE  TypeOK'
  BY <1>5 DEF TypeOK, EnqueueStore, Goto, Locations, Critical, EnqueueCritical, DequeueCritical, ring, Index
<1>6. ASSUME NEW t \in Threads, EnqueueAdvance(t)
      PROVE  TypeOK'
  BY <1>6 DEF TypeOK, EnqueueAdvance, Goto, Locations, Critical, EnqueueCritical, DequeueCritical, ring, Index
<1>7. ASSUME NEW t \in Threads, EnqueueGrow(t)
      PROVE  TypeOK'
  BY <1>7 DEF TypeOK, EnqueueGrow, Goto, Locations, Critical, EnqueueCritical, DequeueCritical, ring, Index, MutualExclusion, RingInv, Room, Stock, Holder
<1>8. ASSUME NEW t \in Threads, EnqueueSignal(t)
      PROVE  TypeOK'
  BY <1>8 DEF TypeOK, EnqueueSignal, Signal, Locations, Critical, EnqueueCritical, DequeueCritical, ring, Index
<1>9. ASSUME NEW t \in Threads, EnqueueUnlock(t)
      PROVE  TypeOK'
  BY <1>9 DEF TypeOK, EnqueueUnlock, Release, Goto, Locations, Critical, EnqueueCritical, DequeueCritical, ring, Index
<1>10. ASSUME NEW t \in Threads, CallDequeue(t)
      PROVE  TypeOK'
  BY <1>10 DEF TypeOK, CallDequeue, Goto, Locations, Critical, EnqueueCritical, DequeueCritical, ring, Index
<1>11. ASSUME NEW t \in Threads, DequeueLock(t)
      PROVE  TypeOK'
  BY <1>11 DEF TypeOK, DequeueLock, Acquire, Goto, Locations, Critical, EnqueueCritical, DequeueCritical, ring, Index
<1>12. ASSUME NEW t \in Threads, DequeueWait(t)
      PROVE  TypeOK'
  BY <1>12 DEF TypeOK, DequeueWait, Wait, Goto, Locations, Critical, EnqueueCritical, DequeueCritical, ring, Index
<1>13. ASSUME NEW t \in Threads, DequeueProceed(t)
      PROVE  TypeOK'
  BY <1>13 DEF TypeOK, DequeueProceed, Goto, Locations, Critical, EnqueueCritical, DequeueCritical, ring, Index
<1>14. ASSUME NEW t \in Threads, DequeueLoad(t)
      PROVE  TypeOK'
  BY <1>14 DEF TypeOK, DequeueLoad, Goto, Locations, Critical, EnqueueCritical, DequeueCritical, ring, Index
<1>15. ASSUME NEW t \in Threads, DequeueAdvance(t)
      PROVE  TypeOK'
  BY <1>15 DEF TypeOK, DequeueAdvance, Goto, Locations, Critical, EnqueueCritical, DequeueCritical, ring, Index
<1>16. ASSUME NEW t \in Threads, DequeueShrink(t)
      PROVE  TypeOK'
  BY <1>16 DEF TypeOK, DequeueShrink, Goto, Locations, Critical, EnqueueCritical, DequeueCritical, ring, Index, MutualExclusion, RingInv, Room, Stock, Holder
<1>17. ASSUME NEW t \in Threads, DequeueSignal(t)
      PROVE  TypeOK'
  BY <1>17 DEF TypeOK, DequeueSignal, Signal, Locations, Critical, EnqueueCritical, DequeueCritical, ring, Index
<1>18. ASSUME NEW t \in Threads, DequeueUnlock(t)
      PROVE  TypeOK'
  BY <1>18 DEF TypeOK, DequeueUnlock, Release, Goto, Locations, Critical, EnqueueCritical, DequeueCritical, ring, Index
<1>19. ASSUME NEW t \in Threads, SpuriousWakeup(t)
      PROVE  TypeOK'
  BY <1>19 DEF TypeOK, SpuriousWakeup, Goto, Locations, Critical, EnqueueCritical, DequeueCritical, ring, Index
<1>q. QED
  BY StepCases, <1>a, <1>b, <1>1, <1>2, <1>3, <1>4, <1>5, <1>6, <1>7, <1>8, <1>9, <1>10, <1>11, <1>12, <1>13, <1>14, <1>15, <1>16, <1>17, <1>18, <1>19 DEF EnqueueStep, DequeueStep

--------------------------------------------------------------------------------
(* The mutex excludes. *)
LEMMA MutexInit == Init => MutualExclusion
BY ThreadsAssumption
   DEF Init, MutualExclusion, Critical, EnqueueCritical, DequeueCritical

LEMMA MutexNext ==
    ASSUME TypeOK, MutualExclusion, [Next]_vars
    PROVE  MutualExclusion'
<1> USE ThreadsAssumption DEF MutualExclusion, TypeOK
<1> USE DEF Critical, EnqueueCritical, DequeueCritical
<1>a. CASE UNCHANGED vars \/ GetSize
  BY <1>a DEF vars, GetSize
<1>1. ASSUME NEW t \in Threads,
             CallEnqueue(t) \/ CallDequeue(t) \/ SpuriousWakeup(t)
      PROVE  MutualExclusion'
  BY <1>1 DEF CallEnqueue, CallDequeue, SpuriousWakeup, Goto
<1>2. ASSUME NEW t \in Threads, EnqueueLock(t) \/ DequeueLock(t)
      PROVE  MutualExclusion'
  BY <1>2 DEF EnqueueLock, DequeueLock, Acquire, Goto
<1>3. ASSUME NEW t \in Threads, EnqueueWait(t) \/ DequeueWait(t)
      PROVE  MutualExclusion'
  BY <1>3 DEF EnqueueWait, DequeueWait, Wait, Goto
<1>4. ASSUME NEW t \in Threads, EnqueueSignal(t) \/ DequeueSignal(t)
      PROVE  MutualExclusion'
  BY <1>4 DEF EnqueueSignal, DequeueSignal, Signal
<1>5. ASSUME NEW t \in Threads, EnqueueUnlock(t) \/ DequeueUnlock(t)
      PROVE  MutualExclusion'
  BY <1>5 DEF EnqueueUnlock, DequeueUnlock, Release, Goto
<1>6. ASSUME NEW t \in Threads,
             \/ EnqueueProceed(t) \/ EnqueueStore(t)
             \/ EnqueueAdvance(t) \/ EnqueueGrow(t)
      PROVE  MutualExclusion'
  BY <1>6 DEF EnqueueProceed, EnqueueStore, EnqueueAdvance, EnqueueGrow, Goto
<1>7. ASSUME NEW t \in Threads,
             \/ DequeueProceed(t) \/ DequeueLoad(t)
             \/ DequeueAdvance(t) \/ DequeueShrink(t)
      PROVE  MutualExclusion'
  BY <1>7 DEF DequeueProceed, DequeueLoad, DequeueAdvance, DequeueShrink, Goto
<1>q. QED
  BY StepCases, <1>a, <1>1, <1>2, <1>3, <1>4, <1>5, <1>6, <1>7
     DEF EnqueueStep, DequeueStep

--------------------------------------------------------------------------------
(* How a step moves the holder of the mutex, which is all that the ring's  *)
(* invariant sees of the program counters.                                 *)
LEMMA HolderAt ==
    ASSUME TypeOK, MutualExclusion, NEW t \in Threads, pc[t] \in Critical
    PROVE  mutex = t /\ Holder = pc[t]
BY ThreadsAssumption DEF MutualExclusion, Holder

(* The ring is untouched by a step that leaves the holder where it was, or *)
(* that takes the free mutex, or moves between statements that change no   *)
(* counter.                                                                *)
Neutral == {"free", "e_test", "e_signal", "e_unlock", "d_test", "d_signal", "d_unlock"}

LEMMA RingFrame ==
    ASSUME TypeOK, RingInv, UNCHANGED ring, Argument',
           \/ Holder' = Holder /\ (Holder \in {"e_advance", "e_grow"} => item'[mutex'] = item[mutex])
           \/ Holder \in Neutral /\ Holder' \in Neutral
    PROVE  RingInv'
<1> USE CapacityAssumption DEF Neutral
<1>1. Count' = Count /\ First' = First
  BY DEF Count, First, ring
<1>2. Window'
  BY <1>1 DEF Window, RingInv, ring
<1>3. Room' /\ Stock'
  BY DEF Room, Stock, RingInv, ring
<1>4. Placed'
  BY <1>1 DEF Placed, RingInv, ring
<1>5. QED BY <1>2, <1>3, <1>4 DEF RingInv

LEMMA RingInit == Init => RingInv
<1> SUFFICES ASSUME Init PROVE RingInv
  OBVIOUS
<1>1. Holder = "free" /\ Count = 0 /\ First = 0
  BY DEF Init, Holder, Count, First
<1>2. 0 % Capacity = 0
  BY CapacityAssumption
<1>3. Window
  BY <1>1, <1>2, CapacityAssumption DEF Init, Window
<1>4. QED
  BY <1>1, <1>3 DEF Init, RingInv, Room, Stock, Argument, Placed, Enqueueing

(* The slots of a window shorter than the ring differ from the next slot. *)
LEMMA SlotsDistinct ==
    ASSUME NEW f \in Index, NEW n \in 0..(Capacity - 1), NEW i \in 0..(n - 1)
    PROVE  /\ (f + i) % Capacity # (f + n) % Capacity
           /\ (f + i) % Capacity \in Index
           /\ (f + n) % Capacity \in Index
<1> USE CapacityAssumption DEF Index
<1>1. f + i \in 0..(2 * Capacity - 1) /\ f + n \in 0..(2 * Capacity - 1)
  OBVIOUS
<1>2. /\ (f + i) % Capacity = Wrap(f + i) /\ (f + i) % Capacity \in Index
      /\ (f + n) % Capacity = Wrap(f + n) /\ (f + n) % Capacity \in Index
  BY <1>1, WrapLemma
<1>3. Wrap(f + i) # Wrap(f + n)
  BY DEF Wrap
<1>4. QED BY <1>2, <1>3

(* Starting one slot later is the same as looking one slot further. *)
LEMMA SlotShift ==
    ASSUME NEW f \in Index, NEW i \in 0..(Capacity - 1)
    PROVE  (((f + 1) % Capacity) + i) % Capacity = (f + (i + 1)) % Capacity
<1> USE CapacityAssumption DEF Index
<1>1. f + 1 \in 0..(2 * Capacity - 1) /\ f + (i + 1) \in 0..(2 * Capacity - 1)
  OBVIOUS
<1>2. /\ (f + 1) % Capacity = Wrap(f + 1) /\ Wrap(f + 1) \in Index
      /\ (f + (i + 1)) % Capacity = Wrap(f + (i + 1))
  BY <1>1, WrapLemma
<1>3. Wrap(f + 1) + i \in 0..(2 * Capacity - 1)
  BY <1>2
<1>4. (Wrap(f + 1) + i) % Capacity = Wrap(Wrap(f + 1) + i)
  BY <1>3, WrapLemma
<1>5. Wrap(Wrap(f + 1) + i) = Wrap(f + (i + 1))
  BY DEF Wrap
<1>6. QED BY <1>2, <1>4, <1>5

LEMMA SlotNext ==
    ASSUME NEW f \in Index, NEW n \in 0..(Capacity - 1)
    PROVE  (((f + n) % Capacity) + 1) % Capacity = (f + n + 1) % Capacity
BY WrapLemma, CapacityAssumption DEF Index, Wrap

LEMMA FirstInIndex == ASSUME TypeOK PROVE First \in Index
<1>1. head \in Index /\ head + 1 \in 0..(2 * Capacity - 1)
  BY CapacityAssumption DEF TypeOK, Index
<1>2. (head + 1) % Capacity \in Index
  BY <1>1, WrapLemma
<1>3. QED BY <1>1, <1>2 DEF First

(* The steps that move the window or store into the ring. *)
LEMMA RingStore ==
    ASSUME TypeOK, MutualExclusion, RingInv, NEW t \in Threads, EnqueueStore(t)
    PROVE  RingInv'
<1> USE CapacityAssumption
<1>1. /\ mutex = t /\ Holder = "e_store" /\ mutex' = t
      /\ Holder' = "e_advance" /\ UNCHANGED <<size, head, tail, item>>
      /\ buffer' = [buffer EXCEPT ![tail] = item[t]]
  BY HolderAt, ThreadsAssumption
     DEF EnqueueStore, Goto, TypeOK, Holder, Critical, EnqueueCritical
<1>2. /\ Count = size /\ Count' = Count /\ First = head /\ First' = First
      /\ size \in 0..(Capacity - 1)
  BY <1>1 DEF Count, First, RingInv, Room, TypeOK
<1>3. tail = (First + Count) % Capacity
  BY <1>1, <1>2 DEF RingInv, Window, TypeOK, Index
<1>4. \A i \in 0..(Count - 1) : buffer'[(First + i) % Capacity] = buffer[(First + i) % Capacity]
  BY <1>1, <1>2, <1>3, SlotsDistinct DEF TypeOK
<1>5. Window'
  BY <1>1, <1>2, <1>3, <1>4 DEF RingInv, Window
<1>6. Placed'
  BY <1>1, <1>2, <1>3 DEF Placed, TypeOK
<1>7. Argument'
  BY <1>1 DEF EnqueueStore, Goto, RingInv, Argument, Enqueueing, TypeOK
<1>8. QED BY <1>1, <1>2, <1>5, <1>6, <1>7 DEF RingInv, Room, Stock

LEMMA RingAdvance ==
    ASSUME TypeOK, MutualExclusion, RingInv, NEW t \in Threads, EnqueueAdvance(t)
    PROVE  RingInv'
<1> USE CapacityAssumption
<1>1. /\ mutex = t /\ Holder = "e_advance" /\ mutex' = t
      /\ Holder' = "e_grow" /\ UNCHANGED <<buffer, size, head, item>>
      /\ tail' = (tail + 1) % Capacity
  BY HolderAt, ThreadsAssumption
     DEF EnqueueAdvance, Goto, TypeOK, Holder, Critical, EnqueueCritical
<1>2. /\ Count = size /\ Count' = Count /\ First = head /\ First' = First
      /\ size \in 0..(Capacity - 1) /\ head \in Index
  BY <1>1 DEF Count, First, RingInv, Room, TypeOK
<1>3. tail = (First + Count) % Capacity
  BY <1>1, <1>2 DEF RingInv, Window, TypeOK, Index
<1>4. Window'
  BY <1>1, <1>2, <1>3, SlotNext DEF RingInv, Window
<1>5. Argument'
  BY <1>1 DEF EnqueueAdvance, Goto, RingInv, Argument, Enqueueing, TypeOK
<1>6. QED BY <1>1, <1>2, <1>4, <1>5 DEF RingInv, Room, Stock, Placed

LEMMA RingGrow ==
    ASSUME TypeOK, MutualExclusion, RingInv, NEW t \in Threads, EnqueueGrow(t)
    PROVE  RingInv'
<1> USE CapacityAssumption
<1>1. /\ mutex = t /\ Holder = "e_grow" /\ Holder' = "e_signal"
      /\ pc[t] = "e_grow" /\ UNCHANGED <<buffer, head, tail, item>> /\ size' = size + 1
  BY HolderAt, ThreadsAssumption
     DEF EnqueueGrow, Goto, TypeOK, Holder, Critical, EnqueueCritical
<1>2. /\ Count = size /\ Count' = Count + 1 /\ First = head /\ First' = First
      /\ size \in 0..(Capacity - 1) /\ head \in Index
  BY <1>1 DEF Count, First, RingInv, Room, TypeOK
<1>3. buffer[(First + Count) % Capacity] \in Items
  BY <1>1 DEF RingInv, Placed, Argument, Enqueueing
<1>4. \A i \in 0..(Count' - 1) : buffer'[(First' + i) % Capacity] \in Items
  BY <1>1, <1>2, <1>3 DEF RingInv, Window
<1>5. tail' = (First' + Count') % Capacity
  BY <1>1, <1>2 DEF RingInv, Window, Index
<1>6. Window'
  BY <1>1, <1>2, <1>4, <1>5 DEF Window, Index
<1>7. Argument'
  BY <1>1 DEF EnqueueGrow, Goto, RingInv, Argument, Enqueueing, TypeOK
<1>8. QED BY <1>1, <1>6, <1>7 DEF RingInv, Room, Stock, Placed

LEMMA RingLoad ==
    ASSUME TypeOK, MutualExclusion, RingInv, NEW t \in Threads, DequeueLoad(t)
    PROVE  RingInv'
<1> USE CapacityAssumption
<1>1. /\ mutex = t /\ Holder = "d_load" /\ Holder' = "d_advance"
      /\ UNCHANGED <<buffer, size, head, tail, item>>
  BY HolderAt, ThreadsAssumption
     DEF DequeueLoad, Goto, TypeOK, Holder, Critical, DequeueCritical, ring
<1>2. /\ Count = size /\ Count' = size - 1 /\ First = head
      /\ First' = (head + 1) % Capacity /\ size \in 1..Capacity /\ head \in Index
  BY <1>1 DEF Count, First, RingInv, Stock, TypeOK
<1>3. \A i \in 0..(Capacity - 1) : (First' + i) % Capacity = (First + (i + 1)) % Capacity
  BY <1>2, SlotShift
<1>4. tail' = (First' + Count') % Capacity
  <2>1. size - 1 \in 0..(Capacity - 1) /\ (size - 1) + 1 = size
    BY <1>2
  <2>2. (First' + (size - 1)) % Capacity = (First + size) % Capacity
    BY <2>1, <1>3
  <2>3. QED BY <1>1, <1>2, <2>2 DEF RingInv, Window, Index
<1>5. \A i \in 0..(Count' - 1) : buffer'[(First' + i) % Capacity] \in Items
  <2> SUFFICES ASSUME NEW i \in 0..(Count' - 1)
               PROVE  buffer[(First' + i) % Capacity] \in Items
    BY <1>1
  <2>1. i \in 0..(Capacity - 1) /\ i + 1 \in 0..(Count - 1)
    BY <1>2
  <2>2. QED BY <2>1, <1>3 DEF RingInv, Window
<1>6. Window'
  BY <1>1, <1>2, <1>4, <1>5, FirstInIndex DEF Window, Index
<1>7. Argument'
  BY <1>1 DEF DequeueLoad, Goto, RingInv, Argument, Enqueueing, TypeOK
<1>8. QED BY <1>1, <1>2, <1>6, <1>7 DEF RingInv, Room, Stock, Placed

LEMMA RingRetire ==
    ASSUME TypeOK, MutualExclusion, RingInv, NEW t \in Threads,
           DequeueAdvance(t) \/ DequeueShrink(t)
    PROVE  RingInv'
<1> USE CapacityAssumption
<1>1. /\ mutex = t /\ UNCHANGED <<buffer, tail, item>>
      /\ \/ /\ Holder = "d_advance" /\ Holder' = "d_shrink"
            /\ head' = (head + 1) % Capacity /\ size' = size
         \/ /\ Holder = "d_shrink" /\ Holder' = "d_signal"
            /\ head' = head /\ size' = size - 1
  BY HolderAt, ThreadsAssumption
     DEF DequeueAdvance, DequeueShrink, Goto, TypeOK, Holder, Critical, DequeueCritical
<1>2. Count' = Count /\ First' = First
  BY <1>1 DEF Count, First, TypeOK
<1>3. Window'
  BY <1>1, <1>2 DEF RingInv, Window
<1>4. Argument'
  BY <1>1 DEF DequeueAdvance, DequeueShrink, Goto, RingInv, Argument, Enqueueing, TypeOK
<1>5. QED BY <1>1, <1>3, <1>4 DEF RingInv, Room, Stock, Placed

(* The steps that decide the loop's test. *)
LEMMA RingProceed ==
    ASSUME TypeOK, MutualExclusion, RingInv, NEW t \in Threads,
           EnqueueProceed(t) \/ DequeueProceed(t)
    PROVE  RingInv'
<1> USE CapacityAssumption
<1>1. /\ mutex = t /\ UNCHANGED <<buffer, size, head, tail, item>>
      /\ \/ Holder = "e_test" /\ Holder' = "e_store" /\ size # Capacity
         \/ Holder = "d_test" /\ Holder' = "d_load" /\ size # 0
  BY HolderAt, ThreadsAssumption
     DEF EnqueueProceed, DequeueProceed, Goto, TypeOK, Holder, Critical,
         EnqueueCritical, DequeueCritical, ring
<1>2. Count' = Count /\ First' = First
  BY <1>1 DEF Count, First, TypeOK
<1>3. Window'
  BY <1>1, <1>2 DEF RingInv, Window
<1>4. Argument'
  BY <1>1 DEF EnqueueProceed, DequeueProceed, Goto, RingInv, Argument, Enqueueing, TypeOK
<1>5. QED BY <1>1, <1>3, <1>4 DEF RingInv, Room, Stock, Placed, TypeOK

(* The steps that leave the ring alone: calls, wake-ups, the mutex, the    *)
(* condition variables and get_size.                                       *)
LEMMA RingIdle ==
    ASSUME TypeOK, MutualExclusion, RingInv, NEW t \in Threads,
           CallEnqueue(t) \/ CallDequeue(t) \/ SpuriousWakeup(t)
    PROVE  RingInv'
<1>1. pc[t] \notin Critical /\ mutex # t
  BY DEF CallEnqueue, CallDequeue, SpuriousWakeup, Goto, MutualExclusion,
         Critical, EnqueueCritical, DequeueCritical
<1>2. Holder' = Holder
  BY <1>1 DEF CallEnqueue, CallDequeue, SpuriousWakeup, Goto, TypeOK, Holder
<1>3. Holder \in {"e_advance", "e_grow"} => item'[mutex'] = item[mutex]
  BY <1>1 DEF CallEnqueue, CallDequeue, SpuriousWakeup, Holder, TypeOK
<1>4. Argument'
  BY DEF CallEnqueue, CallDequeue, SpuriousWakeup, Goto, RingInv, Argument, Enqueueing, TypeOK
<1>5. UNCHANGED ring
  BY DEF CallEnqueue, CallDequeue, SpuriousWakeup
<1>6. QED BY <1>2, <1>3, <1>4, <1>5, RingFrame

LEMMA RingLocking ==
    ASSUME TypeOK, MutualExclusion, RingInv, NEW t \in Threads,
           \/ EnqueueLock(t) \/ EnqueueWait(t) \/ EnqueueUnlock(t)
           \/ DequeueLock(t) \/ DequeueWait(t) \/ DequeueUnlock(t)
    PROVE  RingInv'
<1> USE DEF EnqueueLock, EnqueueWait, EnqueueUnlock, DequeueLock, DequeueWait,
            DequeueUnlock, Acquire, Wait, Release, Goto
<1>1. Holder \in Neutral /\ Holder' \in Neutral
  BY HolderAt, ThreadsAssumption
     DEF Holder, Neutral, TypeOK, Critical, EnqueueCritical, DequeueCritical
<1>2. Argument'
  BY DEF RingInv, Argument, Enqueueing, TypeOK
<1>3. UNCHANGED ring
  OBVIOUS
<1>4. QED BY <1>1, <1>2, <1>3, RingFrame

LEMMA RingSignal ==
    ASSUME TypeOK, MutualExclusion, RingInv, NEW t \in Threads,
           EnqueueSignal(t) \/ DequeueSignal(t)
    PROVE  RingInv'
<1> USE DEF EnqueueSignal, DequeueSignal, Signal
<1>1. Holder \in Neutral /\ Holder' \in Neutral
  BY HolderAt, ThreadsAssumption
     DEF Holder, Neutral, TypeOK, Critical, EnqueueCritical, DequeueCritical
<1>2. Argument'
  BY DEF RingInv, Argument, Enqueueing, TypeOK
<1>3. UNCHANGED ring
  OBVIOUS
<1>4. QED BY <1>1, <1>2, <1>3, RingFrame

LEMMA RingNext ==
    ASSUME TypeOK, MutualExclusion, RingInv, [Next]_vars
    PROVE  RingInv'
<1>1. CASE UNCHANGED vars \/ GetSize
  <2>1. Holder' = Holder /\ item' = item /\ mutex' = mutex /\ UNCHANGED ring
    BY <1>1 DEF vars, GetSize, Holder, ring
  <2>2. Argument'
    BY <1>1 DEF vars, GetSize, RingInv, Argument, Enqueueing
  <2>3. QED BY <2>1, <2>2, RingFrame
<1>2. CASE \E t \in Threads : CallEnqueue(t) \/ EnqueueStep(t)
  BY <1>2, RingIdle, RingLocking, RingSignal, RingProceed, RingStore, RingAdvance, RingGrow
     DEF EnqueueStep
<1>3. CASE \E t \in Threads : CallDequeue(t) \/ DequeueStep(t)
  BY <1>3, RingIdle, RingLocking, RingSignal, RingProceed, RingLoad, RingRetire
     DEF DequeueStep
<1>4. CASE \E t \in Threads : SpuriousWakeup(t)
  BY <1>4, RingIdle
<1>5. QED BY StepCases, <1>1, <1>2, <1>3, <1>4

--------------------------------------------------------------------------------
(* Wake-ups: how each step changes the number of awake callers.            *)
LEMMA AwakeFinite ==
    /\ IsFiniteSet(AwakeDequeuers) /\ Cardinality(AwakeDequeuers) \in Nat
    /\ IsFiniteSet(AwakeEnqueuers) /\ Cardinality(AwakeEnqueuers) \in Nat
BY ThreadsAssumption, FS_Subset, FS_CardinalityType
   DEF AwakeDequeuers, AwakeEnqueuers

LEMMA AddOne ==
    ASSUME NEW S, NEW T, NEW x, IsFiniteSet(S), T = S \cup {x}, x \notin S
    PROVE  Cardinality(T) = Cardinality(S) + 1
BY FS_AddElement

LEMMA RemoveOne ==
    ASSUME NEW S, NEW T, NEW x, IsFiniteSet(S), T = S \ {x}, x \in S
    PROVE  Cardinality(T) = Cardinality(S) - 1
BY FS_RemoveElement

BlockedDequeuer == \E t \in Threads : pc[t] = "d_wait"
BlockedEnqueuer == \E t \in Threads : pc[t] = "e_wait"

LEMMA WakeInit == Init => NoLostWakeup
BY DEF Init, NoLostWakeup

(* A step after which nobody else waits, nobody awake has left, and        *)
(* nothing is produced or signalled, keeps NoLostWakeup.                   *)
LEMMA WakeFrame ==
    ASSUME TypeOK, NoLostWakeup, size' = size,
           Pending("e_signal")' = Pending("e_signal"),
           Pending("d_signal")' = Pending("d_signal"),
           BlockedDequeuer' => BlockedDequeuer,
           BlockedEnqueuer' => BlockedEnqueuer,
           Cardinality(AwakeDequeuers') >= Cardinality(AwakeDequeuers),
           Cardinality(AwakeEnqueuers') >= Cardinality(AwakeEnqueuers),
           Cardinality(AwakeDequeuers') \in Nat, Cardinality(AwakeEnqueuers') \in Nat
    PROVE  NoLostWakeup'
<1>1. /\ Pending("e_signal") \in {0, 1} /\ Pending("d_signal") \in {0, 1}
      /\ size \in Int /\ Capacity \in Int
  BY CapacityAssumption DEF Pending, TypeOK
<1>2. QED
  BY <1>1, AwakeFinite, CapacityAssumption DEF NoLostWakeup, BlockedDequeuer, BlockedEnqueuer

(* Calls, wake-ups, acquiring the mutex, and the statements between the    *)
(* test and the counters only ever add awake callers.                      *)
LEMMA WakeQuiet ==
    ASSUME TypeOK, MutualExclusion, NoLostWakeup, NEW t \in Threads,
           \/ CallEnqueue(t) \/ CallDequeue(t) \/ SpuriousWakeup(t)
           \/ EnqueueLock(t) \/ DequeueLock(t)
           \/ EnqueueProceed(t) \/ EnqueueStore(t) \/ EnqueueAdvance(t)
           \/ DequeueProceed(t) \/ DequeueLoad(t) \/ DequeueAdvance(t)
           \/ EnqueueUnlock(t) \/ DequeueUnlock(t)
    PROVE  NoLostWakeup'
<1> USE DEF CallEnqueue, CallDequeue, SpuriousWakeup, EnqueueLock, DequeueLock,
            EnqueueProceed, EnqueueStore, EnqueueAdvance, DequeueProceed,
            DequeueLoad, DequeueAdvance, EnqueueUnlock, DequeueUnlock,
            Acquire, Release, Goto
<1>1. \/ Holder' = Holder
      \/ Holder \notin {"e_signal", "d_signal"} /\ Holder' \notin {"e_signal", "d_signal"}
  <2>1. CASE CallEnqueue(t) \/ CallDequeue(t) \/ SpuriousWakeup(t)
    <3>1. pc[t] \notin Critical /\ mutex # t
      BY <2>1 DEF MutualExclusion, Critical, EnqueueCritical, DequeueCritical
    <3>2. QED BY <2>1, <3>1 DEF Holder, TypeOK
  <2>2. CASE ~(CallEnqueue(t) \/ CallDequeue(t) \/ SpuriousWakeup(t))
    BY <2>2, HolderAt, ThreadsAssumption
       DEF Holder, TypeOK, MutualExclusion, Critical, EnqueueCritical, DequeueCritical
  <2>3. QED BY <2>1, <2>2
<1>2. /\ Pending("e_signal")' = Pending("e_signal")
      /\ Pending("d_signal")' = Pending("d_signal")
  BY <1>1 DEF Pending
<1>3. size' = size
  BY DEF ring
<1>4. /\ BlockedDequeuer' => BlockedDequeuer
      /\ BlockedEnqueuer' => BlockedEnqueuer
  BY DEF BlockedDequeuer, BlockedEnqueuer, TypeOK
<1>5. /\ AwakeDequeuers' = AwakeDequeuers \/ (AwakeDequeuers' = AwakeDequeuers \cup {t} /\ t \notin AwakeDequeuers)
      /\ AwakeEnqueuers' = AwakeEnqueuers \/ (AwakeEnqueuers' = AwakeEnqueuers \cup {t} /\ t \notin AwakeEnqueuers)
  BY DEF AwakeDequeuers, AwakeEnqueuers, TypeOK
<1>6. /\ Cardinality(AwakeDequeuers') \in {Cardinality(AwakeDequeuers), Cardinality(AwakeDequeuers) + 1}
      /\ Cardinality(AwakeEnqueuers') \in {Cardinality(AwakeEnqueuers), Cardinality(AwakeEnqueuers) + 1}
  BY <1>5, AwakeFinite, AddOne
<1>7. QED
  BY <1>2, <1>3, <1>4, <1>6, AwakeFinite, WakeFrame

(* A caller goes to wait only when there is nothing to take, or no room.   *)
LEMMA WakeWait ==
    ASSUME TypeOK, MutualExclusion, NoLostWakeup, NEW t \in Threads,
           EnqueueWait(t) \/ DequeueWait(t)
    PROVE  NoLostWakeup'
<1> USE DEF EnqueueWait, DequeueWait, Wait, Goto
<1>1. /\ Pending("e_signal") = 0 /\ Pending("d_signal") = 0
      /\ Pending("e_signal")' = 0 /\ Pending("d_signal")' = 0
  BY HolderAt, ThreadsAssumption
     DEF Pending, Holder, TypeOK, Critical, EnqueueCritical, DequeueCritical
<1>2. size' = size /\ size \in Nat /\ Capacity \in Nat
  BY CapacityAssumption DEF ring, TypeOK
<1>3. CASE EnqueueWait(t)
  <2>1. /\ AwakeDequeuers' = AwakeDequeuers
        /\ AwakeEnqueuers' = AwakeEnqueuers \ {t} /\ t \in AwakeEnqueuers
        /\ BlockedDequeuer' => BlockedDequeuer
    BY <1>3 DEF AwakeDequeuers, AwakeEnqueuers, BlockedDequeuer, TypeOK
  <2>2. Capacity - size = 0 /\ Cardinality(AwakeEnqueuers') \in Nat
    BY <1>2, <1>3, <2>1, AwakeFinite, FS_RemoveElement, FS_CardinalityType
  <2>3. QED
    BY <1>1, <1>2, <2>1, <2>2, AwakeFinite DEF NoLostWakeup, BlockedDequeuer
<1>4. CASE DequeueWait(t)
  <2>1. /\ AwakeEnqueuers' = AwakeEnqueuers
        /\ AwakeDequeuers' = AwakeDequeuers \ {t} /\ t \in AwakeDequeuers
        /\ BlockedEnqueuer' => BlockedEnqueuer
    BY <1>4 DEF AwakeDequeuers, AwakeEnqueuers, BlockedEnqueuer, TypeOK
  <2>2. size = 0 /\ Cardinality(AwakeDequeuers') \in Nat
    BY <1>4, <2>1, AwakeFinite, FS_RemoveElement, FS_CardinalityType
  <2>3. QED
    BY <1>1, <1>2, <2>1, <2>2, AwakeFinite DEF NoLostWakeup, BlockedEnqueuer
<1>5. QED BY <1>3, <1>4

(* Changing the counter takes one caller out of the awake ones and, on the *)
(* other side, is matched by the signal that is now pending.               *)
LEMMA WakeCount ==
    ASSUME TypeOK, MutualExclusion, NoLostWakeup, NEW t \in Threads,
           EnqueueGrow(t) \/ DequeueShrink(t)
    PROVE  NoLostWakeup'
<1> USE DEF EnqueueGrow, DequeueShrink, Goto
<1>1. size \in Int /\ Capacity \in Int
  BY CapacityAssumption DEF TypeOK
<1>2. /\ BlockedDequeuer' => BlockedDequeuer
      /\ BlockedEnqueuer' => BlockedEnqueuer
  BY DEF BlockedDequeuer, BlockedEnqueuer, TypeOK
<1>3. Pending("e_signal") = 0 /\ Pending("d_signal") = 0
  BY HolderAt DEF Pending, Critical, EnqueueCritical, DequeueCritical
<1>4. CASE EnqueueGrow(t)
  <2>1. Pending("e_signal")' = 1 /\ Pending("d_signal")' = 0
    BY <1>4, HolderAt, ThreadsAssumption
       DEF Pending, Holder, TypeOK, Critical, EnqueueCritical
  <2>2. /\ AwakeDequeuers' = AwakeDequeuers
        /\ AwakeEnqueuers' = AwakeEnqueuers \ {t} /\ t \in AwakeEnqueuers
    BY <1>4 DEF AwakeDequeuers, AwakeEnqueuers, TypeOK
  <2>3. Cardinality(AwakeEnqueuers') = Cardinality(AwakeEnqueuers) - 1
    BY <2>2, AwakeFinite, RemoveOne
  <2>4. size' = size + 1
    BY <1>4
  <2>5. QED
    BY <1>1, <1>2, <1>3, <2>1, <2>2, <2>3, <2>4, AwakeFinite
       DEF NoLostWakeup, BlockedDequeuer, BlockedEnqueuer
<1>5. CASE DequeueShrink(t)
  <2>1. Pending("e_signal")' = 0 /\ Pending("d_signal")' = 1
    BY <1>5, HolderAt, ThreadsAssumption
       DEF Pending, Holder, TypeOK, Critical, DequeueCritical
  <2>2. /\ AwakeEnqueuers' = AwakeEnqueuers
        /\ AwakeDequeuers' = AwakeDequeuers \ {t} /\ t \in AwakeDequeuers
    BY <1>5 DEF AwakeDequeuers, AwakeEnqueuers, TypeOK
  <2>3. Cardinality(AwakeDequeuers') = Cardinality(AwakeDequeuers) - 1
    BY <2>2, AwakeFinite, RemoveOne
  <2>4. size' = size - 1
    BY <1>5
  <2>5. QED
    BY <1>1, <1>2, <1>3, <2>1, <2>2, <2>3, <2>4, AwakeFinite
       DEF NoLostWakeup, BlockedDequeuer, BlockedEnqueuer
<1>6. QED BY <1>4, <1>5

(* A signal that finds a waiter makes it awake; one that finds none leaves *)
(* nobody waiting.                                                         *)
LEMMA WakeEnqueueSignal ==
    ASSUME TypeOK, MutualExclusion, NoLostWakeup, NEW t \in Threads, EnqueueSignal(t)
    PROVE  NoLostWakeup'
<1> USE DEF EnqueueSignal, Signal
<1>1. /\ Pending("e_signal") = 1 /\ Pending("e_signal")' = 0
      /\ Pending("d_signal") = 0 /\ Pending("d_signal")' = 0
  <2>1. mutex = t /\ Holder = "e_signal"
    BY HolderAt DEF Critical, EnqueueCritical
  <2>2. Holder' = "e_unlock"
    BY <2>1, ThreadsAssumption DEF Holder, TypeOK
  <2>3. QED BY <2>1, <2>2 DEF Pending
<1>2. size' = size /\ size \in Int /\ Capacity \in Int
  BY CapacityAssumption DEF ring, TypeOK
<1>3. AwakeEnqueuers' = AwakeEnqueuers /\ (BlockedEnqueuer' => BlockedEnqueuer)
  BY DEF AwakeEnqueuers, BlockedEnqueuer, TypeOK
<1>4. CASE BlockedDequeuer
  <2>1. PICK w \in Threads : pc[w] = "d_wait" /\ pc' = [pc EXCEPT ![t] = "e_unlock", ![w] = "d_lock"]
    BY <1>4 DEF BlockedDequeuer
  <2>2. AwakeDequeuers' = AwakeDequeuers \cup {w} /\ w \notin AwakeDequeuers
    BY <2>1 DEF AwakeDequeuers, TypeOK
  <2>3. Cardinality(AwakeDequeuers') = Cardinality(AwakeDequeuers) + 1
    BY <2>2, AwakeFinite, AddOne
  <2>4. QED
    BY <1>1, <1>2, <1>3, <1>4, <2>3, AwakeFinite
       DEF NoLostWakeup, BlockedDequeuer, BlockedEnqueuer
<1>5. CASE ~BlockedDequeuer
  <2>1. ~BlockedDequeuer'
    BY <1>5 DEF BlockedDequeuer, TypeOK
  <2>2. QED
    BY <1>1, <1>2, <1>3, <2>1 DEF NoLostWakeup, BlockedDequeuer, BlockedEnqueuer
<1>6. QED BY <1>4, <1>5

LEMMA WakeDequeueSignal ==
    ASSUME TypeOK, MutualExclusion, NoLostWakeup, NEW t \in Threads, DequeueSignal(t)
    PROVE  NoLostWakeup'
<1> USE DEF DequeueSignal, Signal
<1>1. /\ Pending("d_signal") = 1 /\ Pending("d_signal")' = 0
      /\ Pending("e_signal") = 0 /\ Pending("e_signal")' = 0
  <2>1. mutex = t /\ Holder = "d_signal"
    BY HolderAt DEF Critical, DequeueCritical
  <2>2. Holder' = "d_unlock"
    BY <2>1, ThreadsAssumption DEF Holder, TypeOK
  <2>3. QED BY <2>1, <2>2 DEF Pending
<1>2. size' = size /\ size \in Int /\ Capacity \in Int
  BY CapacityAssumption DEF ring, TypeOK
<1>3. AwakeDequeuers' = AwakeDequeuers /\ (BlockedDequeuer' => BlockedDequeuer)
  BY DEF AwakeDequeuers, BlockedDequeuer, TypeOK
<1>4. CASE BlockedEnqueuer
  <2>1. PICK w \in Threads : pc[w] = "e_wait" /\ pc' = [pc EXCEPT ![t] = "d_unlock", ![w] = "e_lock"]
    BY <1>4 DEF BlockedEnqueuer
  <2>2. AwakeEnqueuers' = AwakeEnqueuers \cup {w} /\ w \notin AwakeEnqueuers
    BY <2>1 DEF AwakeEnqueuers, TypeOK
  <2>3. Cardinality(AwakeEnqueuers') = Cardinality(AwakeEnqueuers) + 1
    BY <2>2, AwakeFinite, AddOne
  <2>4. QED
    BY <1>1, <1>2, <1>3, <1>4, <2>3, AwakeFinite
       DEF NoLostWakeup, BlockedDequeuer, BlockedEnqueuer
<1>5. CASE ~BlockedEnqueuer
  <2>1. ~BlockedEnqueuer'
    BY <1>5 DEF BlockedEnqueuer, TypeOK
  <2>2. QED
    BY <1>1, <1>2, <1>3, <2>1 DEF NoLostWakeup, BlockedDequeuer, BlockedEnqueuer
<1>6. QED BY <1>4, <1>5

LEMMA WakeNext ==
    ASSUME TypeOK, MutualExclusion, NoLostWakeup, [Next]_vars
    PROVE  NoLostWakeup'
<1>1. CASE UNCHANGED vars \/ GetSize
  BY <1>1 DEF vars, GetSize, ring, NoLostWakeup, AwakeDequeuers, AwakeEnqueuers, Pending, Holder
<1>2. CASE \E t \in Threads : CallEnqueue(t) \/ EnqueueStep(t)
  BY <1>2, WakeQuiet, WakeWait, WakeCount, WakeEnqueueSignal DEF EnqueueStep
<1>3. CASE \E t \in Threads : CallDequeue(t) \/ DequeueStep(t)
  BY <1>3, WakeQuiet, WakeWait, WakeCount, WakeDequeueSignal DEF DequeueStep
<1>4. CASE \E t \in Threads : SpuriousWakeup(t)
  BY <1>4, WakeQuiet
<1>5. QED BY StepCases, <1>1, <1>2, <1>3, <1>4

--------------------------------------------------------------------------------
(* The theorems. *)

(* The inductive invariant: type correctness needs the ring's bounds, the  *)
(* ring needs the mutex, and the wake-ups need both.                       *)
THEOREM Invariance == Spec => []IInv
<1>1. Init => IInv
  BY TypeInit, MutexInit, RingInit, WakeInit DEF IInv
<1>2. IInv /\ [Next]_vars => IInv'
  BY TypeNext, MutexNext, RingNext, WakeNext DEF IInv
<1>3. QED BY <1>1, <1>2, PTL DEF Spec

(* Every variable keeps its type; in particular size never leaves          *)
(* 0..buffer_size, at no statement of any thread (lines 79, 83, 92, 96).   *)
THEOREM TypeCorrect == Spec => []TypeOK
BY Invariance, PTL DEF IInv

(* The mutex is held by exactly the thread between lock and unlock.        *)
THEOREM MutexExcludes == Spec => []MutualExclusion
BY Invariance, PTL DEF IInv

(* Whenever the mutex is free, head, tail and size agree and every slot    *)
(* they delimit holds an item.                                             *)
THEOREM RingIsConsistent == Spec => []RingConsistent
<1>1. TypeOK /\ RingInv => RingConsistent
  <2> SUFFICES ASSUME TypeOK, RingInv, mutex = NoThread
               PROVE  /\ tail = (head + size) % Capacity
                      /\ \A i \in 1..size : Contents[i] \in Items
    BY DEF RingConsistent
  <2>1. Holder = "free" /\ Count = size /\ First = head
    BY DEF Holder, Count, First
  <2>2. tail = (head + size) % Capacity
    BY <2>1, CapacityAssumption DEF RingInv, Window, TypeOK, Index
  <2>3. ASSUME NEW i \in 1..size PROVE Contents[i] \in Items
    <3>1. i - 1 \in 0..(Count - 1) /\ First + (i - 1) = First + i - 1
      BY <2>1, CapacityAssumption DEF TypeOK, Index
    <3>2. Contents[i] = buffer[(First + (i - 1)) % Capacity]
      BY <2>1, <3>1 DEF Contents
    <3>3. QED BY <3>1, <3>2 DEF RingInv, Window
  <2>4. QED BY <2>2, <2>3
<1>2. QED BY <1>1, Invariance, PTL DEF IInv

(* Signalling one waiter per enqueue and per dequeue loses no wake-up,     *)
(* whatever the numbers of threads and slots, spurious wake-ups included.  *)
THEOREM NoWakeupIsLost == Spec => []NoLostWakeup
BY Invariance, PTL DEF IInv

--------------------------------------------------------------------------------
(* TSQueue implements BoundedFifo: each step maps to one step of the       *)
(* abstract queue or to none.                                              *)
Calls == [t \in Threads |-> Call(t)]

LEMMA ContentsAt ==
    ASSUME TypeOK, RingInv
    PROVE  /\ Count \in Nat /\ Count <= Capacity
           /\ Contents \in Seq(Items) /\ Len(Contents) = Count
           /\ DOMAIN Contents = 1..Count
           /\ \A i \in 1..Count : Contents[i] = buffer[(First + (i - 1)) % Capacity]
<1>1. Count \in 0..Capacity /\ First \in Index
  BY FirstInIndex DEF RingInv, Window
<1>2. ASSUME NEW i \in 1..Count
      PROVE  /\ buffer[(First + i - 1) % Capacity] = buffer[(First + (i - 1)) % Capacity]
             /\ buffer[(First + (i - 1)) % Capacity] \in Items
  <2>1. First + i - 1 = First + (i - 1) /\ i - 1 \in 0..(Count - 1)
    BY <1>1, CapacityAssumption DEF Index
  <2>2. QED BY <2>1 DEF RingInv, Window
<1>3. QED BY <1>1, <1>2, CapacityAssumption DEF Contents

ContentsTyped == Contents \in Seq(Items) /\ DOMAIN Contents = 1..Count

LEMMA ContentsNow == TypeOK /\ RingInv => ContentsTyped
BY ContentsAt DEF ContentsTyped

(* So it is in the state after a step. *)
LEMMA ContentsNext == TypeOK' /\ RingInv' => ContentsTyped'
BY ContentsNow, PTL

LEMMA ContentsFrame ==
    ASSUME Count' = Count, First' = First, buffer' = buffer
    PROVE  Contents' = Contents
BY DEF Contents

(* Mutex, condition variables and the statements that move no item.        *)
LEMMA Unmoved ==
    ASSUME TypeOK, MutualExclusion, NEW t \in Threads,
           \/ CallEnqueue(t) \/ CallDequeue(t) \/ SpuriousWakeup(t)
           \/ EnqueueLock(t) \/ EnqueueWait(t) \/ EnqueueProceed(t)
           \/ EnqueueAdvance(t) \/ EnqueueSignal(t) \/ EnqueueUnlock(t)
           \/ DequeueLock(t) \/ DequeueWait(t) \/ DequeueProceed(t)
           \/ DequeueAdvance(t) \/ DequeueShrink(t) \/ DequeueSignal(t)
           \/ DequeueUnlock(t)
    PROVE  Contents' = Contents
<1> USE DEF Goto, Acquire, Wait, Signal, Release, ring
<1>1. CASE CallEnqueue(t) \/ CallDequeue(t) \/ SpuriousWakeup(t)
  <2>1. pc[t] \notin Critical /\ mutex # t
    BY <1>1 DEF MutualExclusion, Critical, EnqueueCritical, DequeueCritical,
                CallEnqueue, CallDequeue, SpuriousWakeup
  <2>2. Holder' = Holder /\ UNCHANGED ring
    BY <1>1, <2>1 DEF Holder, TypeOK, CallEnqueue, CallDequeue, SpuriousWakeup
  <2>3. QED BY <2>2, ContentsFrame DEF Count, First
<1>2. CASE \/ EnqueueLock(t) \/ EnqueueWait(t) \/ EnqueueProceed(t)
           \/ EnqueueAdvance(t) \/ EnqueueSignal(t) \/ EnqueueUnlock(t)
  <2>1. /\ Holder \notin {"d_advance", "d_shrink"}
        /\ Holder' \notin {"d_advance", "d_shrink"}
        /\ UNCHANGED <<buffer, size, head>>
    BY <1>2, HolderAt, ThreadsAssumption
       DEF EnqueueLock, EnqueueWait, EnqueueProceed, EnqueueAdvance, EnqueueSignal,
           EnqueueUnlock, Holder, TypeOK, Critical, EnqueueCritical
  <2>2. QED BY <2>1, ContentsFrame DEF Count, First
<1>3. CASE \/ DequeueLock(t) \/ DequeueWait(t) \/ DequeueProceed(t)
           \/ DequeueSignal(t) \/ DequeueUnlock(t)
  <2>1. /\ Holder \notin {"d_advance", "d_shrink"}
        /\ Holder' \notin {"d_advance", "d_shrink"}
        /\ UNCHANGED <<buffer, size, head>>
    BY <1>3, HolderAt, ThreadsAssumption
       DEF DequeueLock, DequeueWait, DequeueProceed, DequeueSignal, DequeueUnlock,
           Holder, TypeOK, Critical, DequeueCritical
  <2>2. QED BY <2>1, ContentsFrame DEF Count, First
<1>4. CASE DequeueAdvance(t)
  <2>1. Holder = "d_advance" /\ Holder' = "d_shrink"
    BY <1>4, HolderAt, ThreadsAssumption
       DEF DequeueAdvance, Holder, TypeOK, Critical, DequeueCritical
  <2>2. QED BY <1>4, <2>1, ContentsFrame DEF Count, First, DequeueAdvance
<1>5. CASE DequeueShrink(t)
  <2>1. Holder = "d_shrink" /\ Holder' = "d_signal"
    BY <1>5, HolderAt, ThreadsAssumption
       DEF DequeueShrink, Holder, TypeOK, Critical, DequeueCritical
  <2>2. QED BY <1>5, <2>1, ContentsFrame DEF Count, First, DequeueShrink, TypeOK
<1>6. QED BY <1>1, <1>2, <1>3, <1>4, <1>5

LEMMA StoreUnmoved ==
    ASSUME TypeOK, MutualExclusion, RingInv, NEW t \in Threads, EnqueueStore(t)
    PROVE  Contents' = Contents
<1> USE CapacityAssumption
<1>1. /\ Holder = "e_store" /\ Holder' = "e_advance" /\ UNCHANGED <<size, head>>
      /\ buffer' = [buffer EXCEPT ![tail] = item[t]]
  BY HolderAt, ThreadsAssumption
     DEF EnqueueStore, Goto, TypeOK, Holder, Critical, EnqueueCritical
<1>2. /\ Count = size /\ Count' = Count /\ First = head /\ First' = First
      /\ size \in 0..(Capacity - 1) /\ head \in Index
  BY <1>1 DEF Count, First, RingInv, Room, TypeOK
<1>3. tail = (First + Count) % Capacity
  BY <1>1, <1>2 DEF RingInv, Window, TypeOK, Index
<1>4. ASSUME NEW i \in 1..Count
      PROVE  buffer'[(First + i - 1) % Capacity] = buffer[(First + i - 1) % Capacity]
  <2>1. i - 1 \in 0..(Count - 1) /\ First + i - 1 = First + (i - 1)
    BY <1>2 DEF Index
  <2>2. (First + (i - 1)) % Capacity # tail
    BY <1>2, <1>3, <2>1, SlotsDistinct
  <2>3. QED BY <1>1, <2>1, <2>2 DEF TypeOK
<1>5. QED BY <1>2, <1>4 DEF Contents

(* The steps inside a call that are not its linearisation point.           *)
LEMMA SilentSteps ==
    ASSUME TypeOK, MutualExclusion, RingInv, NEW t \in Threads,
           \/ SpuriousWakeup(t)
           \/ EnqueueLock(t) \/ EnqueueWait(t) \/ EnqueueProceed(t)
           \/ EnqueueStore(t) \/ EnqueueAdvance(t) \/ EnqueueSignal(t)
           \/ DequeueLock(t) \/ DequeueWait(t) \/ DequeueProceed(t)
           \/ DequeueAdvance(t) \/ DequeueShrink(t) \/ DequeueSignal(t)
    PROVE  UNCHANGED Fifo!fifoVars
<1>1. Contents' = Contents
  BY Unmoved, StoreUnmoved
<1>2. UNCHANGED <<item, element, observed>>
  BY DEF SpuriousWakeup, EnqueueLock, EnqueueWait, EnqueueProceed, EnqueueStore,
         EnqueueAdvance, EnqueueSignal, DequeueLock, DequeueWait, DequeueProceed,
         DequeueAdvance, DequeueShrink, DequeueSignal, Acquire, Wait, Signal
<1>3. \A u \in Threads : Call(u)' = Call(u)
  <2> SUFFICES ASSUME NEW u \in Threads PROVE Call(u)' = Call(u)
    OBVIOUS
  <2> USE DEF Call, Returning, Enqueueing, TypeOK, Locations, Critical, EnqueueCritical, DequeueCritical
  <2>1. CASE SpuriousWakeup(t)
    BY <2>1 DEF SpuriousWakeup, Goto
  <2>2. CASE EnqueueLock(t) \/ EnqueueWait(t) \/ EnqueueProceed(t)
    BY <2>2 DEF EnqueueLock, EnqueueWait, EnqueueProceed, Acquire, Wait, Goto
  <2>3. CASE EnqueueStore(t) \/ EnqueueAdvance(t)
    BY <2>3 DEF EnqueueStore, EnqueueAdvance, Goto
  <2>4. CASE EnqueueSignal(t)
    BY <2>4 DEF EnqueueSignal, Signal
  <2>5. CASE DequeueLock(t) \/ DequeueWait(t) \/ DequeueProceed(t)
    BY <2>5 DEF DequeueLock, DequeueWait, DequeueProceed, Acquire, Wait, Goto
  <2>6. CASE DequeueAdvance(t) \/ DequeueShrink(t)
    BY <2>6 DEF DequeueAdvance, DequeueShrink, Goto
  <2>7. CASE DequeueSignal(t)
    BY <2>7 DEF DequeueSignal, Signal
  <2>8. QED BY <2>1, <2>2, <2>3, <2>4, <2>5, <2>6, <2>7
<1>4. QED BY <1>1, <1>2, <1>3 DEF Fifo!fifoVars

LEMMA CallSteps ==
    ASSUME TypeOK, MutualExclusion, NEW t \in Threads
    PROVE  /\ CallEnqueue(t) => Fifo!BeginEnqueue(t)
           /\ CallDequeue(t) => Fifo!BeginDequeue(t)
           /\ EnqueueUnlock(t) \/ DequeueUnlock(t) => Fifo!Return(t)
<1> USE DEF TypeOK, Call, Returning, Enqueueing, Goto, Locations, Critical, EnqueueCritical, DequeueCritical
<1>1. ASSUME CallEnqueue(t) PROVE Fifo!BeginEnqueue(t)
  <2>1. Contents' = Contents
    BY <1>1, Unmoved
  <2>2. Calls[t] = "none" /\ Calls' = [Calls EXCEPT ![t] = "enqueue"]
    BY <1>1 DEF CallEnqueue, Calls
  <2>3. QED BY <1>1, <2>1, <2>2 DEF CallEnqueue, Calls, Fifo!BeginEnqueue
<1>2. ASSUME CallDequeue(t) PROVE Fifo!BeginDequeue(t)
  <2>1. Contents' = Contents
    BY <1>2, Unmoved
  <2>2. Calls[t] = "none" /\ Calls' = [Calls EXCEPT ![t] = "dequeue"]
    BY <1>2 DEF CallDequeue, Calls
  <2>3. QED BY <1>2, <2>1, <2>2 DEF CallDequeue, Calls, Fifo!BeginDequeue
<1>3. ASSUME EnqueueUnlock(t) \/ DequeueUnlock(t) PROVE Fifo!Return(t)
  <2>1. Contents' = Contents
    BY <1>3, Unmoved
  <2>2. Calls[t] = "returning" /\ Calls' = [Calls EXCEPT ![t] = "none"]
    BY <1>3 DEF EnqueueUnlock, DequeueUnlock, Release, Calls
  <2>3. QED BY <1>3, <2>1, <2>2 DEF EnqueueUnlock, DequeueUnlock, Release, Calls, Fifo!Return
<1>4. QED BY <1>1, <1>2, <1>3

(* Line 83 is where an enqueue takes effect.                               *)
LEMMA EnqueuePoint ==
    ASSUME TypeOK, MutualExclusion, RingInv, TypeOK', RingInv', NEW t \in Threads, EnqueueGrow(t)
    PROVE  Fifo!Enqueue(t)
<1> USE CapacityAssumption
<1>1. /\ mutex = t /\ Holder = "e_grow" /\ Holder' = "e_signal" /\ pc[t] = "e_grow"
      /\ UNCHANGED <<buffer, head, item, element, observed>> /\ size' = size + 1
  BY HolderAt, ThreadsAssumption
     DEF EnqueueGrow, Goto, TypeOK, Holder, Critical, EnqueueCritical
<1>2. /\ Count = size /\ Count' = Count + 1 /\ First' = First
      /\ size \in 0..(Capacity - 1)
  BY <1>1 DEF Count, First, RingInv, Room, TypeOK
<1>3. buffer[(First + Count) % Capacity] = item[t] /\ item[t] \in Items
  BY <1>1 DEF RingInv, Placed, Argument, Enqueueing
<1>4. Contents' = Append(Contents, item[t])
  <2>1. Contents' \in Seq(Items) /\ DOMAIN Contents' = 1..(Count + 1)
    BY <1>2, ContentsNext DEF ContentsTyped
  <2>2. Append(Contents, item[t]) \in Seq(Items) /\ Len(Append(Contents, item[t])) = Count + 1
    BY <1>3, ContentsAt
  <2>3. ASSUME NEW i \in 1..(Count + 1)
        PROVE  Contents'[i] = Append(Contents, item[t])[i]
    <3>1. Contents'[i] = buffer[(First + (i - 1)) % Capacity]
      <4>1. Contents'[i] = buffer'[(First' + i - 1) % Capacity]
        BY <1>2 DEF Contents
      <4>2. First + i - 1 = First + (i - 1)
        BY <1>2, FirstInIndex DEF Index
      <4>3. QED BY <1>1, <1>2, <4>1, <4>2
    <3>2. CASE i \in 1..Count
      BY <3>1, <3>2, ContentsAt
    <3>3. CASE i = Count + 1
      BY <1>2, <1>3, <3>1, <3>3, ContentsAt
    <3>4. QED BY <1>2, <3>2, <3>3, ContentsAt
  <2>4. QED BY <2>1, <2>2, <2>3
<1>5. Calls[t] = "enqueue" /\ Calls' = [Calls EXCEPT ![t] = "returning"]
  BY <1>1 DEF EnqueueGrow, Goto, Calls, Call, Returning, Enqueueing, TypeOK
<1>6. Len(Contents) < Capacity
  BY <1>2, ContentsAt
<1>7. QED BY <1>1, <1>4, <1>5, <1>6 DEF Calls, Fifo!Enqueue

(* Line 94 is where a dequeue takes effect.                                *)
LEMMA DequeuePoint ==
    ASSUME TypeOK, MutualExclusion, RingInv, TypeOK', RingInv', NEW t \in Threads, DequeueLoad(t)
    PROVE  Fifo!Dequeue(t)
<1> USE CapacityAssumption
<1>1. /\ mutex = t /\ Holder = "d_load" /\ Holder' = "d_advance" /\ pc[t] = "d_load"
      /\ UNCHANGED <<buffer, size, head, item, observed>>
      /\ element' = [element EXCEPT ![t] = buffer[head]]
  BY HolderAt, ThreadsAssumption
     DEF DequeueLoad, Goto, TypeOK, Holder, Critical, DequeueCritical, ring
<1>2. /\ Count = size /\ Count' = Count - 1 /\ First = head /\ First \in Index
      /\ First' = (First + 1) % Capacity /\ size \in 1..Capacity
  BY <1>1 DEF Count, First, RingInv, Stock, TypeOK
<1>3. Contents # <<>> /\ Head(Contents) = buffer[head]
  <2>1. Len(Contents) > 0 /\ Head(Contents) = Contents[1]
    BY <1>2, ContentsAt
  <2>2. Contents[1] = buffer[(First + (1 - 1)) % Capacity]
    BY <1>2, ContentsAt
  <2>3. (First + (1 - 1)) % Capacity = head
    BY <1>2 DEF Index
  <2>4. QED BY <2>1, <2>2, <2>3
<1>4. Contents' = Tail(Contents)
  <2>1. Contents' \in Seq(Items) /\ DOMAIN Contents' = 1..(Count - 1)
    BY <1>2, ContentsNext DEF ContentsTyped
  <2>2. Tail(Contents) \in Seq(Items) /\ Len(Tail(Contents)) = Count - 1
    BY <1>2, <1>3, ContentsAt
  <2>3. ASSUME NEW i \in 1..(Count - 1)
        PROVE  Contents'[i] = Tail(Contents)[i]
    <3>1. i - 1 \in 0..(Capacity - 1) /\ (i - 1) + 1 = i /\ i + 1 \in 1..Count
      BY <1>2
    <3>2. Contents'[i] = buffer[(First' + (i - 1)) % Capacity]
      <4>1. Contents'[i] = buffer'[(First' + i - 1) % Capacity]
        BY <1>2 DEF Contents
      <4>2. First' + i - 1 = First' + (i - 1)
        BY <1>2, FirstInIndex DEF Index
      <4>3. QED BY <1>1, <4>1, <4>2
    <3>3. (First' + (i - 1)) % Capacity = (First + i) % Capacity
      BY <1>2, <3>1, SlotShift
    <3>4. Contents[i + 1] = buffer[(First + i) % Capacity]
      <4>1. (i + 1) - 1 = i
        BY <3>1
      <4>2. QED BY <3>1, <4>1, ContentsAt
    <3>5. Tail(Contents)[i] = Contents[i + 1]
      BY <1>2, <1>3, ContentsAt
    <3>6. QED BY <3>2, <3>3, <3>4, <3>5
  <2>4. QED BY <2>1, <2>2, <2>3
<1>5. Calls[t] = "dequeue" /\ Calls' = [Calls EXCEPT ![t] = "returning"]
  BY <1>1 DEF DequeueLoad, Goto, Calls, Call, Returning, Enqueueing, TypeOK
<1>6. QED BY <1>1, <1>3, <1>4, <1>5 DEF Calls, Fifo!Dequeue

(* get_size, without the mutex, sees a dequeued item as long as line 96    *)
(* has not counted it out: it answers the length or one more.              *)
LEMMA GetSizePoint ==
    ASSUME TypeOK, RingInv, GetSize
    PROVE  Fifo!GetSize
<1>1. Contents' = Contents /\ Calls' = Calls
  BY DEF GetSize, ring, Contents, Count, First, Holder, Calls, Call
<1>2. size \in {Count, Count + 1} /\ size \in 0..Capacity
  BY CapacityAssumption DEF Count, TypeOK
<1>3. observed' \in {Len(Contents), Len(Contents) + 1} \cap 0..Capacity
  BY <1>2, ContentsAt DEF GetSize
<1>4. QED BY <1>1, <1>3 DEF GetSize, Calls, Fifo!GetSize

LEMMA Simulation ==
    ASSUME TypeOK, MutualExclusion, RingInv, TypeOK', RingInv', [Next]_vars
    PROVE  [Fifo!Next]_(Fifo!fifoVars)
<1>1. CASE UNCHANGED vars
  BY <1>1 DEF vars, Fifo!fifoVars, Contents, Count, First, Holder, Call
<1>2. CASE GetSize
  BY <1>2, GetSizePoint DEF Fifo!Next
<1>3. ASSUME NEW t \in Enqueuers, CallEnqueue(t) \/ EnqueueStep(t)
      PROVE  [Fifo!Next]_(Fifo!fifoVars)
  <2>1. t \in Threads
    BY DEF Threads
  <2>2. CASE CallEnqueue(t)
    BY <2>1, <2>2, CallSteps DEF Fifo!Next
  <2>3. CASE EnqueueGrow(t)
    BY <2>1, <2>3, EnqueuePoint DEF Fifo!Next
  <2>4. CASE EnqueueUnlock(t)
    BY <2>1, <2>4, CallSteps DEF Fifo!Next, Fifo!Threads, Threads
  <2>5. CASE \/ EnqueueLock(t) \/ EnqueueWait(t) \/ EnqueueProceed(t)
             \/ EnqueueStore(t) \/ EnqueueAdvance(t) \/ EnqueueSignal(t)
    BY <2>1, <2>5, SilentSteps
  <2>6. QED BY <1>3, <2>2, <2>3, <2>4, <2>5 DEF EnqueueStep
<1>4. ASSUME NEW t \in Dequeuers, CallDequeue(t) \/ DequeueStep(t)
      PROVE  [Fifo!Next]_(Fifo!fifoVars)
  <2>1. t \in Threads
    BY DEF Threads
  <2>2. CASE CallDequeue(t)
    BY <2>1, <2>2, CallSteps DEF Fifo!Next
  <2>3. CASE DequeueLoad(t)
    BY <2>1, <2>3, DequeuePoint DEF Fifo!Next
  <2>4. CASE DequeueUnlock(t)
    BY <2>1, <2>4, CallSteps DEF Fifo!Next, Fifo!Threads, Threads
  <2>5. CASE \/ DequeueLock(t) \/ DequeueWait(t) \/ DequeueProceed(t)
             \/ DequeueAdvance(t) \/ DequeueShrink(t) \/ DequeueSignal(t)
    BY <2>1, <2>5, SilentSteps
  <2>6. QED BY <1>4, <2>2, <2>3, <2>4, <2>5 DEF DequeueStep
<1>5. CASE \E t \in Threads : SpuriousWakeup(t)
  BY <1>5, SilentSteps
<1>6. QED BY <1>1, <1>2, <1>3, <1>4, <1>5 DEF Next

LEMMA SimulationInit == Init => Fifo!Init
<1> SUFFICES ASSUME Init PROVE Fifo!Init
  OBVIOUS
<1>1. Count = 0
  BY DEF Init, Count, Holder
<1>2. Contents = <<>>
  BY <1>1 DEF Contents
<1>3. [t \in Threads |-> Call(t)] = [t \in Fifo!Threads |-> "none"]
  BY DEF Init, Call, Threads, Fifo!Threads
<1>4. QED BY <1>2, <1>3 DEF Init, Fifo!Init, Threads, Fifo!Threads

(* Every behaviour of the ring buffer is a behaviour of the FIFO queue.    *)
THEOREM Refinement == Spec => ImplementsFifo
<1>1. IInv /\ IInv' /\ [Next]_vars => [Fifo!Next]_(Fifo!fifoVars)
  BY Simulation DEF IInv
<1>2. QED
  BY <1>1, SimulationInit, Invariance, PTL DEF Spec, ImplementsFifo, Fifo!Spec
================================================================================
