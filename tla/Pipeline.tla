-------------------------------- MODULE Pipeline --------------------------------
(***************************************************************************)
(* The pthreads pipeline of src/NTHU-OS-Pthreads: a reader fills the input *)
(* queue, producers move items to the worker queue, consumers move them to *)
(* the writer queue, a writer empties it.  A controller creates a consumer *)
(* when the worker queue is long and cancels one when it is short.         *)
(*                                                                         *)
(* A queue is a sequence, and enqueue and dequeue are one step each, which *)
(* module TSQueue and its refinement of BoundedFifo justify.  An item is   *)
(* its line number; its value is the sequence of transforms applied to it. *)
(***************************************************************************)
EXTENDS Integers, Sequences, FiniteSets, SequencesExt

CONSTANTS Producers,        \* the producer threads
          Consumers,        \* Consumer objects; bounds how many live at once
          NoItem,           \* the thread holds no item
          ExpectedLines,    \* n, the number of items
          ReaderQueueSize, WorkerQueueSize, WriterQueueSize,
          LowThreshold, HighThreshold

ASSUME SizesAssumption ==
    /\ ExpectedLines \in Nat
    /\ {ReaderQueueSize, WorkerQueueSize, WriterQueueSize} \subseteq Nat \ {0}
    /\ {LowThreshold, HighThreshold} \subseteq Nat
ASSUME ThreadsAssumption == Producers \cap Consumers = {} /\ NoItem \notin Nat

VARIABLES toRead,       \* expected_lines the reader has not yet enqueued
          toWrite,      \* expected_lines the writer has not yet written
          inputQueue, workerQueue, writerQueue,
          val,          \* the transforms applied to each item
          hand,         \* the item a producer or consumer works on
          at,           \* where each Consumer is, "none" if there is no such object
          isCancel,     \* is_cancel of each Consumer
          consumers,    \* the controller's vector
          controllerAt, \* the controller's position in its loop
          output,       \* the lines written
          mainAt        \* main's position

Threads == Producers \cup Consumers
Lines == 1..ExpectedLines

queues == <<inputQueue, workerQueue, writerQueue>>
consumerVars == <<at, isCancel, consumers, controllerAt>>
vars == <<toRead, toWrite, queues, val, hand, consumerVars, output, mainAt>>

Init ==
    /\ toRead = ExpectedLines
    /\ toWrite = ExpectedLines
    /\ inputQueue = <<>> /\ workerQueue = <<>> /\ writerQueue = <<>>
    /\ val = [i \in Lines |-> <<>>]
    /\ hand = [t \in Threads |-> NoItem]
    /\ at = [c \in Consumers |-> "none"]
    /\ isCancel = [c \in Consumers |-> FALSE]
    /\ consumers = <<>>
    /\ controllerAt = "scaleUp"
    /\ output = <<>>
    /\ mainAt = "joinReader"

--------------------------------------------------------------------------------
(* Mutant: the reader counts down one too far. *)
ReadOneMore ==
    /\ toRead >= 0
    /\ Len(inputQueue) < ReaderQueueSize
    /\ toRead' = toRead - 1
    /\ inputQueue' = Append(inputQueue, ExpectedLines - toRead + 1)
    /\ UNCHANGED <<toWrite, workerQueue, writerQueue, val, hand, consumerVars, output, mainAt>>

(* Reader::process: read a line and enqueue it, until none is expected. *)
Read ==
    /\ toRead > 0
    /\ Len(inputQueue) < ReaderQueueSize
    /\ toRead' = toRead - 1
    /\ inputQueue' = Append(inputQueue, ExpectedLines - toRead + 1)
    /\ UNCHANGED <<toWrite, workerQueue, writerQueue, val, hand, consumerVars, output, mainAt>>

(* Producer::process. *)
ProducerDequeue(p) ==
    /\ hand[p] = NoItem
    /\ inputQueue # <<>>
    /\ hand' = [hand EXCEPT ![p] = Head(inputQueue)]
    /\ inputQueue' = Tail(inputQueue)
    /\ UNCHANGED <<toRead, toWrite, workerQueue, writerQueue, val, consumerVars, output, mainAt>>

ProducerEnqueue(p) ==
    /\ hand[p] # NoItem
    /\ Len(workerQueue) < WorkerQueueSize
    /\ val' = [val EXCEPT ![hand[p]] = Append(@, "producer")]
    /\ workerQueue' = Append(workerQueue, hand[p])
    /\ hand' = [hand EXCEPT ![p] = NoItem]
    /\ UNCHANGED <<toRead, toWrite, inputQueue, writerQueue, consumerVars, output, mainAt>>

(* Consumer::process: the loop's test reads is_cancel before the dequeue,  *)
(* which cancellation does not interrupt.                                  *)
ConsumerTest(c) ==
    /\ at[c] = "test"
    /\ at' = [at EXCEPT ![c] = IF isCancel[c] THEN "none" ELSE "dequeue"]
    /\ UNCHANGED <<toRead, toWrite, queues, val, hand, isCancel, consumers, controllerAt, output, mainAt>>

ConsumerDequeue(c) ==
    /\ at[c] = "dequeue"
    /\ workerQueue # <<>>
    /\ hand' = [hand EXCEPT ![c] = Head(workerQueue)]
    /\ workerQueue' = Tail(workerQueue)
    /\ at' = [at EXCEPT ![c] = "enqueue"]
    /\ UNCHANGED <<toRead, toWrite, inputQueue, writerQueue, val, isCancel, consumers, controllerAt, output, mainAt>>

(* Mutants: a cancelled consumer stops with its item in hand; the consumer *)
(* passes the item on as it came.                                          *)
ConsumerEnqueueCancelled(c) ==
    /\ at[c] = "enqueue"
    /\ Len(writerQueue) < WriterQueueSize
    /\ hand' = [hand EXCEPT ![c] = NoItem]
    /\ IF isCancel[c]
       THEN at' = [at EXCEPT ![c] = "none"] /\ UNCHANGED <<val, writerQueue>>
       ELSE /\ val' = [val EXCEPT ![hand[c]] = Append(@, "consumer")]
            /\ writerQueue' = Append(writerQueue, hand[c])
            /\ at' = [at EXCEPT ![c] = "test"]
    /\ UNCHANGED <<toRead, toWrite, inputQueue, workerQueue, isCancel, consumers, controllerAt, output, mainAt>>
ConsumerEnqueueUntransformed(c) ==
    /\ at[c] = "enqueue"
    /\ Len(writerQueue) < WriterQueueSize
    /\ writerQueue' = Append(writerQueue, hand[c])
    /\ hand' = [hand EXCEPT ![c] = NoItem]
    /\ at' = [at EXCEPT ![c] = "test"]
    /\ UNCHANGED <<toRead, toWrite, inputQueue, workerQueue, val, isCancel, consumers, controllerAt, output, mainAt>>

ConsumerEnqueue(c) ==
    /\ at[c] = "enqueue"
    /\ Len(writerQueue) < WriterQueueSize
    /\ val' = [val EXCEPT ![hand[c]] = Append(@, "consumer")]
    /\ writerQueue' = Append(writerQueue, hand[c])
    /\ hand' = [hand EXCEPT ![c] = NoItem]
    /\ at' = [at EXCEPT ![c] = "test"]
    /\ UNCHANGED <<toRead, toWrite, inputQueue, workerQueue, isCancel, consumers, controllerAt, output, mainAt>>

(* Writer::process. *)
Write ==
    /\ toWrite > 0
    /\ writerQueue # <<>>
    /\ toWrite' = toWrite - 1
    /\ output' = Append(output, Head(writerQueue))
    /\ writerQueue' = Tail(writerQueue)
    /\ UNCHANGED <<toRead, inputQueue, workerQueue, val, hand, consumerVars, mainAt>>

--------------------------------------------------------------------------------
(* What get_size may answer without the lock: the length, or one more while *)
(* a dequeue has taken its item and not yet counted it out (BoundedFifo).   *)
ObservedSizes ==
    {Len(workerQueue)} \cup
    {n \in {Len(workerQueue) + 1} :
        n <= WorkerQueueSize /\ \E c \in Consumers : at[c] = "enqueue"}

(* ConsumerController::process, lines 82-87.  A model with every Consumer  *)
(* object in use skips the creation.                                       *)
ScaleUp ==
    /\ controllerAt = "scaleUp"
    /\ controllerAt' = "scaleDown"
    /\ \E size \in ObservedSizes :
        \/ /\ size > HighThreshold
           /\ \E c \in Consumers :
                /\ at[c] = "none"
                /\ at' = [at EXCEPT ![c] = "test"]
                /\ isCancel' = [isCancel EXCEPT ![c] = FALSE]
                /\ consumers' = Append(consumers, c)
        \/ /\ size <= HighThreshold \/ \A c \in Consumers : at[c] # "none"
           /\ UNCHANGED <<at, isCancel, consumers>>
    /\ UNCHANGED <<toRead, toWrite, queues, val, hand, output, mainAt>>

(* Mutants: the last consumer is cancelled too; the cancelled consumer     *)
(* stays in the vector.                                                    *)
ScaleDownToNone ==
    /\ controllerAt = "scaleDown"
    /\ controllerAt' = "scaleUp"
    /\ \E size \in ObservedSizes :
        \/ /\ size < LowThreshold /\ consumers # <<>>
           /\ isCancel' = [isCancel EXCEPT ![Last(consumers)] = TRUE]
           /\ consumers' = Front(consumers)
        \/ /\ ~(size < LowThreshold /\ consumers # <<>>)
           /\ UNCHANGED <<isCancel, consumers>>
    /\ UNCHANGED <<toRead, toWrite, queues, val, hand, at, output, mainAt>>
ScaleDownKeeping ==
    /\ controllerAt = "scaleDown"
    /\ controllerAt' = "scaleUp"
    /\ \E size \in ObservedSizes :
        \/ /\ size < LowThreshold /\ Len(consumers) > 1
           /\ isCancel' = [isCancel EXCEPT ![Last(consumers)] = TRUE]
           /\ UNCHANGED consumers
        \/ /\ ~(size < LowThreshold /\ Len(consumers) > 1)
           /\ UNCHANGED <<isCancel, consumers>>
    /\ UNCHANGED <<toRead, toWrite, queues, val, hand, at, output, mainAt>>

(* Lines 89-93: a second, separate look at the queue; then line 95, sleep. *)
ScaleDown ==
    /\ controllerAt = "scaleDown"
    /\ controllerAt' = "scaleUp"
    /\ \E size \in ObservedSizes :
        \/ /\ size < LowThreshold /\ Len(consumers) > 1
           /\ isCancel' = [isCancel EXCEPT ![Last(consumers)] = TRUE]
           /\ consumers' = Front(consumers)
        \/ /\ ~(size < LowThreshold /\ Len(consumers) > 1)
           /\ UNCHANGED <<isCancel, consumers>>
    /\ UNCHANGED <<toRead, toWrite, queues, val, hand, at, output, mainAt>>

--------------------------------------------------------------------------------
(* main: join the reader, join the writer, then delete everything while    *)
(* producers, consumers and controller still run, and return.              *)
JoinReader ==
    /\ mainAt = "joinReader" /\ toRead = 0
    /\ mainAt' = "joinWriter"
    /\ UNCHANGED <<toRead, toWrite, queues, val, hand, consumerVars, output>>

(* Mutant: main does not wait for the writer. *)
JoinNobody ==
    /\ mainAt = "joinWriter"
    /\ mainAt' = "deleteObjects"
    /\ UNCHANGED <<toRead, toWrite, queues, val, hand, consumerVars, output>>

JoinWriter ==
    /\ mainAt = "joinWriter" /\ toWrite = 0
    /\ mainAt' = "deleteObjects"
    /\ UNCHANGED <<toRead, toWrite, queues, val, hand, consumerVars, output>>

(* The objects of the threads go first, the controller's among them ...    *)
DeleteObjects ==
    /\ mainAt = "deleteObjects"
    /\ mainAt' = "deleteQueues"
    /\ UNCHANGED <<toRead, toWrite, queues, val, hand, consumerVars, output>>

(* ... then the queues.  A thread inside dequeue waits on the condition    *)
(* that ~TSQueue destroys, which is undefined: the destruction returns, or *)
(* waits for ever for a waiter that nobody will signal.                    *)
InDequeue ==
    \/ \E p \in Producers : hand[p] = NoItem
    \/ \E c \in Consumers : at[c] = "dequeue"

DeleteQueues ==
    /\ mainAt = "deleteQueues"
    /\ \/ mainAt' = "exited"
       \/ InDequeue /\ mainAt' = "blocked"
    /\ UNCHANGED <<toRead, toWrite, queues, val, hand, consumerVars, output>>

(* A thread that goes on uses an object main has deleted: it finds what is *)
(* still there, which changes nothing here, or it faults.                  *)
UseDeleted ==
    /\ mainAt \in {"deleteQueues", "blocked"}
    /\ mainAt' = "crashed"
    /\ UNCHANGED <<toRead, toWrite, queues, val, hand, consumerVars, output>>

ProducerStep(p) == ProducerDequeue(p) \/ ProducerEnqueue(p)
ConsumerStep(c) == ConsumerTest(c) \/ ConsumerDequeue(c) \/ ConsumerEnqueue(c)
ControllerStep == ScaleUp \/ ScaleDown
MainStep == JoinReader \/ JoinWriter \/ DeleteObjects \/ DeleteQueues

Joining == mainAt \in {"joinReader", "joinWriter"}

(* The threads' objects exist. *)
Running == Joining \/ mainAt = "deleteObjects"

Ended == mainAt \in {"blocked", "exited", "crashed"} /\ UNCHANGED vars

Next ==
    \/ Running /\ Read
    \/ Running /\ Write
    \/ Running /\ \E p \in Producers : ProducerStep(p)
    \/ Running /\ \E c \in Consumers : ConsumerStep(c)
    \/ Running /\ ControllerStep
    \/ MainStep
    \/ UseDeleted
    \/ Ended

Spec == Init /\ [][Next]_vars

(* The operating system runs every thread that is not blocked. *)
Fairness ==
    /\ WF_vars(Running /\ Read)
    /\ WF_vars(Running /\ Write)
    /\ \A p \in Producers : WF_vars(Running /\ ProducerStep(p))
    /\ \A c \in Consumers : WF_vars(Running /\ ConsumerStep(c))
    /\ WF_vars(Running /\ ControllerStep)
    /\ WF_vars(MainStep)

FairSpec == Spec /\ Fairness

--------------------------------------------------------------------------------
(* Properties. *)

(* The range of every variable. *)
TypeOK ==
    /\ toRead \in 0..ExpectedLines /\ toWrite \in 0..ExpectedLines
    /\ inputQueue \in Seq(Lines) /\ Len(inputQueue) <= ReaderQueueSize
    /\ workerQueue \in Seq(Lines) /\ Len(workerQueue) <= WorkerQueueSize
    /\ writerQueue \in Seq(Lines) /\ Len(writerQueue) <= WriterQueueSize
    /\ val \in [Lines -> Seq({"producer", "consumer"})]
    /\ hand \in [Threads -> Lines \cup {NoItem}]
    /\ at \in [Consumers -> {"none", "test", "dequeue", "enqueue"}]
    /\ isCancel \in [Consumers -> BOOLEAN]
    /\ consumers \in Seq(Consumers)
    /\ controllerAt \in {"scaleUp", "scaleDown"}
    /\ output \in Seq(Lines)
    /\ mainAt \in {"joinReader", "joinWriter", "deleteObjects", "deleteQueues",
                    "blocked", "exited", "crashed"}

InHand == {hand[t] : t \in Threads} \ {NoItem}
Queued == inputQueue \o workerQueue \o writerQueue \o output

(* Every line read is in exactly one place - a queue, one thread's hands   *)
(* or the output - whatever consumers come and go: cancelling a consumer   *)
(* never loses the item it works on and no item is written twice.          *)
NothingLostOrDuplicated ==
    /\ IsInjective(Queued)
    /\ InHand \cap ToSet(Queued) = {}
    /\ \A s, t \in Threads : hand[s] = hand[t] /\ hand[s] # NoItem => s = t
    /\ InHand \cup ToSet(Queued) = 1..(ExpectedLines - toRead)

(* The two transforms are applied once each, the producer's first: an item *)
(* leaves with the value the sequential program would compute.             *)
TransformedInOrder ==
    /\ \A i \in ToSet(workerQueue) : val[i] = <<"producer">>
    /\ \A i \in ToSet(writerQueue) \cup ToSet(output) : val[i] = <<"producer", "consumer">>

(* The vector holds exactly the live consumers that are not being          *)
(* cancelled, so back()->cancel() (line 90) never touches an object that   *)
(* has deleted itself (consumer.hpp:69), and none is cancelled twice.  It  *)
(* says nothing of the vector once main has deleted the controller.        *)
VectorIsLive ==
    /\ IsInjective(consumers)
    /\ ToSet(consumers) = {c \in Consumers : at[c] # "none" /\ ~isCancel[c]}

(* Once there is a consumer there is always one that is not cancelled,     *)
(* although lines 82 and 89 read the size at different moments.            *)
NeverDownToNone ==
    [][(\E c \in Consumers : at[c] # "none" /\ ~isCancel[c])
        => (\E c \in Consumers : at'[c] # "none" /\ ~isCancel'[c])]_vars

(* main starts to delete threads' objects and queues only when every line  *)
(* has been written and no thread has an item left in its hands.           *)
TeardownIsClean ==
    ~Joining => Len(output) = ExpectedLines /\ InHand = {}

(* The writer finishes after it has written the expected lines             *)
(* (writer.hpp:19-20), and both of main's joins return.  That main itself  *)
(* ends does not follow: see DeleteQueues.                                 *)
WriterFinishes == <>(toWrite = 0)
JoinsReturn == <>~Joining
================================================================================
