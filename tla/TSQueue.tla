-------------------------------- MODULE TSQueue --------------------------------
(***************************************************************************)
(* The bounded queue of the pthreads pipeline,                             *)
(* src/NTHU-OS-Pthreads/ts_queue.hpp: a ring buffer, one mutex and two     *)
(* condition variables.  One action per statement of enqueue and dequeue,  *)
(* so that what the mutex protects is really exposed to interleaving.      *)
(*                                                                         *)
(* pthread_cond_wait releases the mutex and blocks in one step (pc         *)
(* "e_wait" or "d_wait"); a wake-up, signalled or spurious, sends the      *)
(* thread back to contend for the mutex ("e_lock" or "d_lock") and then to *)
(* the loop's test, exactly as a fresh caller.                             *)
(***************************************************************************)
EXTENDS Integers, Sequences, FiniteSets

CONSTANTS Enqueuers,  \* threads that call enqueue
          Dequeuers,  \* threads that call dequeue
          Items,      \* the values of the template parameter T
          NoItem,     \* an uninitialised slot, or no value
          NoThread,   \* the mutex is free
          Capacity,   \* buffer_size
          Spurious    \* TRUE iff a condition wait may return unsignalled

Threads == Enqueuers \cup Dequeuers

ASSUME CapacityAssumption == Capacity \in Nat \ {0}
ASSUME ThreadsAssumption == IsFiniteSet(Threads) /\ NoThread \notin Threads
ASSUME ItemsAssumption == NoItem \notin Items
ASSUME SpuriousAssumption == Spurious \in BOOLEAN

VARIABLES buffer,     \* the ring, indexed from 0
          size,       \* the number of items, as get_size reports it
          head,       \* the index of the first item
          tail,       \* the index after the last item
          mutex,      \* the thread that holds the mutex, or NoThread
          pc,         \* where each thread is
          item,       \* the argument of a thread's enqueue
          element,    \* the local variable and result of a thread's dequeue
          observed    \* the last answer of get_size

ring == <<buffer, size, head, tail>>
vars == <<buffer, size, head, tail, mutex, pc, item, element, observed>>

Index == 0..(Capacity - 1)

(* The statements executed with the mutex held. *)
EnqueueCritical ==
    {"e_test", "e_store", "e_advance", "e_grow", "e_signal", "e_unlock"}
DequeueCritical ==
    {"d_test", "d_load", "d_advance", "d_shrink", "d_signal", "d_unlock"}
Critical == EnqueueCritical \cup DequeueCritical

Locations == {"idle", "e_lock", "e_wait", "d_lock", "d_wait"} \cup Critical

Goto(t, from, to) ==
    /\ pc[t] = from
    /\ pc' = [pc EXCEPT ![t] = to]

Init ==
    /\ buffer = [i \in Index |-> NoItem]
    /\ size = 0
    /\ head = 0
    /\ tail = 0
    /\ mutex = NoThread
    /\ pc = [t \in Threads |-> "idle"]
    /\ item = [t \in Threads |-> NoItem]
    /\ element = [t \in Threads |-> NoItem]
    /\ observed = 0

--------------------------------------------------------------------------------
(* The mutex and the condition variables. *)

(* Mutant: a lock that does not exclude. *)
AcquireHeld(t, from, to) ==
    /\ Goto(t, from, to)
    /\ mutex' = t
    /\ UNCHANGED <<ring, item, element, observed>>

Acquire(t, from, to) ==
    /\ Goto(t, from, to)
    /\ mutex = NoThread
    /\ mutex' = t
    /\ UNCHANGED <<ring, item, element, observed>>

(* pthread_cond_wait: release and block in one step. *)
Wait(t, from, to) ==
    /\ Goto(t, from, to)
    /\ mutex' = NoThread
    /\ UNCHANGED <<ring, item, element, observed>>

(* pthread_cond_signal: one of the threads blocked at "wait", if there is  *)
(* any, goes to contend for the mutex.                                     *)
Signal(t, from, to, wait, lock) ==
    /\ pc[t] = from
    /\ \/ \E w \in Threads :
            /\ pc[w] = wait
            /\ pc' = [pc EXCEPT ![t] = to, ![w] = lock]
       \/ /\ \A w \in Threads : pc[w] # wait
          /\ pc' = [pc EXCEPT ![t] = to]
    /\ UNCHANGED <<ring, mutex, item, element, observed>>

(* pthread_mutex_unlock and return to the caller. *)
Release(t, from) ==
    /\ Goto(t, from, "idle")
    /\ mutex' = NoThread
    /\ item' = [item EXCEPT ![t] = NoItem]
    /\ element' = [element EXCEPT ![t] = NoItem]
    /\ UNCHANGED <<ring, observed>>

(* A condition wait may return without a signal. *)
SpuriousWakeup(t) ==
    /\ Spurious
    /\ Goto(t, "e_wait", "e_lock") \/ Goto(t, "d_wait", "d_lock")
    /\ UNCHANGED <<ring, mutex, item, element, observed>>

--------------------------------------------------------------------------------
(* enqueue *)

CallEnqueue(t) ==
    /\ Goto(t, "idle", "e_lock")
    /\ \E i \in Items : item' = [item EXCEPT ![t] = i]
    /\ UNCHANGED <<ring, mutex, element, observed>>

EnqueueLock(t) == Acquire(t, "e_lock", "e_test")

EnqueueWait(t) == size = Capacity /\ Wait(t, "e_test", "e_wait")

(* Mutant: the store is not guarded by the test for a full ring. *)
EnqueueProceedFull(t) ==
    /\ Goto(t, "e_test", "e_store")
    /\ UNCHANGED <<ring, mutex, item, element, observed>>

EnqueueProceed(t) ==
    /\ size # Capacity
    /\ Goto(t, "e_test", "e_store")
    /\ UNCHANGED <<ring, mutex, item, element, observed>>

EnqueueStore(t) ==
    /\ Goto(t, "e_store", "e_advance")
    /\ buffer' = [buffer EXCEPT ![tail] = item[t]]
    /\ UNCHANGED <<size, head, tail, mutex, item, element, observed>>

(* Mutant: the tail does not wrap around. *)
EnqueueAdvanceNoWrap(t) ==
    /\ Goto(t, "e_advance", "e_grow")
    /\ tail' = tail + 1
    /\ UNCHANGED <<buffer, size, head, mutex, item, element, observed>>

EnqueueAdvance(t) ==
    /\ Goto(t, "e_advance", "e_grow")
    /\ tail' = (tail + 1) % Capacity
    /\ UNCHANGED <<buffer, size, head, mutex, item, element, observed>>

EnqueueGrow(t) ==
    /\ Goto(t, "e_grow", "e_signal")
    /\ size' = size + 1
    /\ UNCHANGED <<buffer, head, tail, mutex, item, element, observed>>

(* Mutants: enqueue signals its own condition, or none. *)
EnqueueSignalOwn(t) == Signal(t, "e_signal", "e_unlock", "e_wait", "e_lock")
EnqueueSignalNone(t) ==
    /\ Goto(t, "e_signal", "e_unlock")
    /\ UNCHANGED <<ring, mutex, item, element, observed>>

EnqueueSignal(t) == Signal(t, "e_signal", "e_unlock", "d_wait", "d_lock")

EnqueueUnlock(t) == Release(t, "e_unlock")

--------------------------------------------------------------------------------
(* dequeue *)

CallDequeue(t) ==
    /\ Goto(t, "idle", "d_lock")
    /\ UNCHANGED <<ring, mutex, item, element, observed>>

DequeueLock(t) == Acquire(t, "d_lock", "d_test")

DequeueWait(t) == size = 0 /\ Wait(t, "d_test", "d_wait")

DequeueProceed(t) ==
    /\ size # 0
    /\ Goto(t, "d_test", "d_load")
    /\ UNCHANGED <<ring, mutex, item, element, observed>>

(* Mutant: the head advances before the load. *)
DequeueLoadNext(t) ==
    /\ Goto(t, "d_load", "d_advance")
    /\ element' = [element EXCEPT ![t] = buffer[(head + 1) % Capacity]]
    /\ UNCHANGED <<ring, mutex, item, observed>>

DequeueLoad(t) ==
    /\ Goto(t, "d_load", "d_advance")
    /\ element' = [element EXCEPT ![t] = buffer[head]]
    /\ UNCHANGED <<ring, mutex, item, observed>>

DequeueAdvance(t) ==
    /\ Goto(t, "d_advance", "d_shrink")
    /\ head' = (head + 1) % Capacity
    /\ UNCHANGED <<buffer, size, tail, mutex, item, element, observed>>

DequeueShrink(t) ==
    /\ Goto(t, "d_shrink", "d_signal")
    /\ size' = size - 1
    /\ UNCHANGED <<buffer, head, tail, mutex, item, element, observed>>

(* Mutant: dequeue signals its own condition. *)
DequeueSignalOwn(t) == Signal(t, "d_signal", "d_unlock", "d_wait", "d_lock")

DequeueSignal(t) == Signal(t, "d_signal", "d_unlock", "e_wait", "e_lock")

DequeueUnlock(t) == Release(t, "d_unlock")

--------------------------------------------------------------------------------
(* get_size reads the counter without the mutex, at any moment. *)
GetSize ==
    /\ observed' = size
    /\ UNCHANGED <<ring, mutex, pc, item, element>>

(* What a thread does inside a call, up to its return. *)
EnqueueStep(t) ==
    \/ EnqueueLock(t)
    \/ EnqueueWait(t)
    \/ EnqueueProceed(t)
    \/ EnqueueStore(t)
    \/ EnqueueAdvance(t)
    \/ EnqueueGrow(t)
    \/ EnqueueSignal(t)
    \/ EnqueueUnlock(t)

DequeueStep(t) ==
    \/ DequeueLock(t)
    \/ DequeueWait(t)
    \/ DequeueProceed(t)
    \/ DequeueLoad(t)
    \/ DequeueAdvance(t)
    \/ DequeueShrink(t)
    \/ DequeueSignal(t)
    \/ DequeueUnlock(t)

Next ==
    \/ \E t \in Enqueuers : CallEnqueue(t) \/ EnqueueStep(t)
    \/ \E t \in Dequeuers : CallDequeue(t) \/ DequeueStep(t)
    \/ \E t \in Threads : SpuriousWakeup(t)
    \/ GetSize

Spec == Init /\ [][Next]_vars

(* The operating system keeps running a thread that can take a step.       *)
(* Nothing makes a thread call, and nothing makes the mutex fair.          *)
Fairness ==
    /\ \A t \in Enqueuers : WF_vars(EnqueueStep(t))
    /\ \A t \in Dequeuers : WF_vars(DequeueStep(t))

FairSpec == Spec /\ Fairness

--------------------------------------------------------------------------------
(* Properties. *)

(* The range of every variable. *)
TypeOK ==
    /\ buffer \in [Index -> Items \cup {NoItem}]
    /\ size \in 0..Capacity
    /\ head \in Index
    /\ tail \in Index
    /\ mutex \in Threads \cup {NoThread}
    /\ pc \in [Threads -> Locations]
    /\ item \in [Threads -> Items \cup {NoItem}]
    /\ element \in [Threads -> Items \cup {NoItem}]
    /\ observed \in 0..Capacity

(* lines 78-85 and 91-98 exclude one another: the mutex is held by exactly *)
(* the thread that is between them, so no two threads touch the ring.      *)
MutualExclusion == \A t \in Threads : pc[t] \in Critical <=> mutex = t

(* Where the thread that holds the mutex is. *)
Holder == IF mutex = NoThread THEN "free" ELSE pc[mutex]

(* The items an enqueue has counted and no dequeue has loaded. *)
Count == IF Holder \in {"d_advance", "d_shrink"} THEN size - 1 ELSE size
First == IF Holder = "d_advance" THEN (head + 1) % Capacity ELSE head
Contents == [i \in 1..Count |-> buffer[(First + i - 1) % Capacity]]

(* Whenever no call is between its statements, the three counters describe *)
(* one window of the ring and every slot of the window holds an item: a    *)
(* dequeue never returns an uninitialised slot (line 56) nor skips one.    *)
RingConsistent ==
    mutex = NoThread =>
        /\ tail = (head + size) % Capacity
        /\ \A i \in 1..size : Contents[i] \in Items

(* Callers of dequeue that are not blocked and have not yet taken their    *)
(* item, and callers of enqueue that have not yet placed theirs.           *)
AwakeDequeuers ==
    {t \in Threads : pc[t] \in {"d_lock", "d_test", "d_load", "d_advance", "d_shrink"}}
AwakeEnqueuers ==
    {t \in Threads : pc[t] \in {"e_lock", "e_test", "e_store", "e_advance", "e_grow"}}

(* A thread that has changed size and not yet signalled. *)
Pending(loc) == IF Holder = loc THEN 1 ELSE 0

(* No wake-up is lost although line 84 and line 97 signal one waiter and   *)
(* never broadcast: as long as a dequeuer is blocked, every item in the    *)
(* queue has an awake dequeuer, or a signal about to be sent, to take it;  *)
(* and likewise every free slot while an enqueuer is blocked.              *)
NoLostWakeup ==
    /\ (\E t \in Threads : pc[t] = "d_wait") =>
           size <= Cardinality(AwakeDequeuers) + Pending("e_signal")
    /\ (\E t \in Threads : pc[t] = "e_wait") =>
           Capacity - size <= Cardinality(AwakeEnqueuers) + Pending("d_signal")

(* The implementation is a FIFO queue: an enqueue takes effect at line 83, *)
(* a dequeue at line 94.                                                   *)
Returning ==
    {"e_signal", "e_unlock", "d_advance", "d_shrink", "d_signal", "d_unlock"}
Enqueueing == {"e_lock", "e_test", "e_wait", "e_store", "e_advance", "e_grow"}

Call(t) ==
    IF pc[t] = "idle" THEN "none"
    ELSE IF pc[t] \in Returning THEN "returning"
    ELSE IF pc[t] \in Enqueueing THEN "enqueue" ELSE "dequeue"

Fifo == INSTANCE BoundedFifo
            WITH queue <- Contents, call <- [t \in Threads |-> Call(t)]

(* Every behaviour of the ring buffer is one of the FIFO queue: items come *)
(* out in the order they went in, each once, and the unlocked get_size is  *)
(* never off by more than one.                                             *)
ImplementsFifo == Fifo!Spec

(* The system wakes no waiter for nothing for ever.                        *)
SpuriousWakeupsEnd == <>[][\A t \in Threads : ~SpuriousWakeup(t)]_vars

(* While a caller of dequeue has not got its item and the queue holds one, *)
(* some dequeue eventually takes an item (no wake-up lost, no deadlock).   *)
DequeueProgress ==
    SpuriousWakeupsEnd =>
        ((Count > 0 /\ \E t \in Threads : Call(t) = "dequeue")
            ~> (\E t \in Threads : pc[t] = "d_advance"))

(* While a caller of enqueue has not placed its item and there is a free   *)
(* slot, some enqueue eventually places one.                               *)
EnqueueProgress ==
    SpuriousWakeupsEnd =>
        ((size < Capacity /\ \E t \in Threads : Call(t) = "enqueue")
            ~> (\E t \in Threads : pc[t] = "e_signal"))
================================================================================
