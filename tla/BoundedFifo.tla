------------------------------ MODULE BoundedFifo ------------------------------
(***************************************************************************)
(* What TSQueue (src/NTHU-OS-Pthreads/ts_queue.hpp, comments 21-28)        *)
(* promises its callers: a first-in first-out queue of at most Capacity    *)
(* items.  A call of enqueue or dequeue takes effect at one instant        *)
(* between its start and its return; get_size, which takes no lock, may    *)
(* answer one more than the queue holds while a dequeue is under way.      *)
(***************************************************************************)
EXTENDS Naturals, Sequences

CONSTANTS Enqueuers,  \* threads that call enqueue
          Dequeuers,  \* threads that call dequeue
          Items,      \* the values of the template parameter T
          NoItem,     \* "no value"
          Capacity    \* buffer_size

VARIABLES queue,      \* the items in the queue, oldest first
          call,       \* what each thread is doing with the queue
          item,       \* the argument of a thread's enqueue
          element,    \* the result of a thread's dequeue
          observed    \* the last answer of get_size

fifoVars == <<queue, call, item, element, observed>>

Threads == Enqueuers \cup Dequeuers

Init ==
    /\ queue = <<>>
    /\ call = [t \in Threads |-> "none"]
    /\ item = [t \in Threads |-> NoItem]
    /\ element = [t \in Threads |-> NoItem]
    /\ observed = 0

BeginEnqueue(t) ==
    /\ call[t] = "none"
    /\ call' = [call EXCEPT ![t] = "enqueue"]
    /\ \E i \in Items : item' = [item EXCEPT ![t] = i]
    /\ UNCHANGED <<queue, element, observed>>

Enqueue(t) ==
    /\ call[t] = "enqueue"
    /\ Len(queue) < Capacity
    /\ queue' = Append(queue, item[t])
    /\ call' = [call EXCEPT ![t] = "returning"]
    /\ UNCHANGED <<item, element, observed>>

BeginDequeue(t) ==
    /\ call[t] = "none"
    /\ call' = [call EXCEPT ![t] = "dequeue"]
    /\ UNCHANGED <<queue, item, element, observed>>

Dequeue(t) ==
    /\ call[t] = "dequeue"
    /\ queue # <<>>
    /\ element' = [element EXCEPT ![t] = Head(queue)]
    /\ queue' = Tail(queue)
    /\ call' = [call EXCEPT ![t] = "returning"]
    /\ UNCHANGED <<item, observed>>

Return(t) ==
    /\ call[t] = "returning"
    /\ call' = [call EXCEPT ![t] = "none"]
    /\ item' = [item EXCEPT ![t] = NoItem]
    /\ element' = [element EXCEPT ![t] = NoItem]
    /\ UNCHANGED <<queue, observed>>

GetSize ==
    /\ observed' \in {Len(queue), Len(queue) + 1} \cap 0..Capacity
    /\ UNCHANGED <<queue, call, item, element>>

Next ==
    \/ \E t \in Enqueuers : BeginEnqueue(t) \/ Enqueue(t)
    \/ \E t \in Dequeuers : BeginDequeue(t) \/ Dequeue(t)
    \/ \E t \in Threads : Return(t)
    \/ GetSize

Spec == Init /\ [][Next]_fifoVars
================================================================================
