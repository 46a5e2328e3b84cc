--------------------------------- MODULE Synch ---------------------------------
(* NachOS semaphores, locks and conditions (threads/synch.cc).  P and V run*)
(* with interrupts off, so each is one step; a thread is interrupted only  *)
(* where one of them turns interrupts on again, so that the statements from*)
(* there to the next P or V, that one's body included, are one step too.   *)
EXTENDS Integers, Sequences

CONSTANTS KernelThreads, Semaphores, Initially

ASSUME InitiallyAssumption == Initially \in [Semaphores -> Nat]

VARIABLES pc,                   \* where in its call a thread is
          value, queue          \* of each semaphore

semaphores == <<value, queue>>

SynchInit(start) ==
    /\ pc = start
    /\ value = Initially
    /\ queue = [s \in Semaphores |-> <<>>]

Queued(t) == \E s \in Semaphores : \E i \in DOMAIN queue[s] : queue[s][i] = t

(* A thread that is not asleep and is about to do what follows label.      *)
At(t, label) == pc[t] = label /\ ~Queued(t)
Goto(t, label) == pc' = [pc EXCEPT ![t] = label]

(* Take a unit and go on, or fall asleep and, once woken, test again.      *)
P(t, s, next) ==
    \/ /\ value[s] = 0
       /\ queue' = [queue EXCEPT ![s] = Append(@, t)]
       /\ UNCHANGED <<value, pc>>
    \/ /\ value[s] > 0
       /\ value' = [value EXCEPT ![s] = @ - 1]
       /\ Goto(t, next)
       /\ UNCHANGED queue

(* V_HandOver: the unit goes to the woken sleeper, which tests for another.*)
V_HandOver(s) ==
    /\ queue' = [queue EXCEPT ![s] = IF @ = <<>> THEN <<>> ELSE Tail(@)]
    /\ value' = [value EXCEPT ![s] = IF queue[s] = <<>> THEN @ + 1 ELSE @]

(* One sleeper is woken, and whoever tests first takes the unit.           *)
V(s) ==
    /\ queue' = [queue EXCEPT ![s] = IF @ = <<>> THEN <<>> ELSE Tail(@)]
    /\ value' = [value EXCEPT ![s] = @ + 1]
================================================================================
