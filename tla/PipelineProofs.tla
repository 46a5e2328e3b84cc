----------------------------- MODULE PipelineProofs -----------------------------
(***************************************************************************)
(* Proofs about Pipeline for every number of items, producers and          *)
(* consumers, every size of the queues and every threshold.                *)
(***************************************************************************)
EXTENDS Pipeline, Lemmas, FunctionTheorems

(* NothingLostOrDuplicated, said of the places one by one.                 *)
HandsUnique == \A s, t \in Threads : hand[s] = hand[t] /\ hand[s] # NoItem => s = t

Inputs == ToSet(inputQueue)
Working == ToSet(workerQueue)
Writing == ToSet(writerQueue)
Written == ToSet(output)

Places ==
    /\ IsInjective(inputQueue) /\ IsInjective(workerQueue)
    /\ IsInjective(writerQueue) /\ IsInjective(output)
    /\ Inputs \cap Working = {} /\ Inputs \cap Writing = {} /\ Inputs \cap Written = {}
    /\ Working \cap Writing = {} /\ Working \cap Written = {} /\ Writing \cap Written = {}
    /\ InHand \cap (Inputs \cup Working \cup Writing \cup Written) = {}
    /\ HandsUnique
    /\ InHand \cup Inputs \cup Working \cup Writing \cup Written = 1..(ExpectedLines - toRead)

(* What has been done to an item, wherever it is.                          *)
Transforms ==
    /\ TransformedInOrder
    /\ \A i \in Inputs : val[i] = <<>>
    /\ \A p \in Producers : hand[p] # NoItem => val[hand[p]] = <<>>
    /\ \A c \in Consumers : hand[c] # NoItem => val[hand[c]] = <<"producer">>
    /\ \A i \in Lines : i > ExpectedLines - toRead => val[i] = <<>>

(* A consumer has an item exactly when it is about to enqueue it.          *)
HandsAt == \A c \in Consumers : hand[c] # NoItem <=> at[c] = "enqueue"

(* What main's joins have waited for.                                      *)
Joined ==
    /\ Len(output) = ExpectedLines - toWrite
    /\ mainAt # "joinReader" => toRead = 0
    /\ ~Joining => toWrite = 0

(* The inductive invariant.                                                *)
IInv == TypeOK /\ Places /\ Transforms /\ HandsAt /\ VectorIsLive /\ Joined
--------------------------------------------------------------------------------
(* The queues as sequences of lines.                                       *)
LEMMA QueueTypes ==
    ASSUME TypeOK
    PROVE  /\ inputQueue \in Seq(Lines) /\ workerQueue \in Seq(Lines)
           /\ writerQueue \in Seq(Lines) /\ output \in Seq(Lines)
           /\ NoItem \notin Lines
BY ThreadsAssumption DEF TypeOK, Lines

(* Every item is in one place, said the way the proofs use it.             *)
LEMMA PlacesExact ==
    ASSUME TypeOK
    PROVE  Places <=> NothingLostOrDuplicated
<1> USE QueueTypes
<1> DEFINE a == inputQueue \o workerQueue
           b == a \o writerQueue
<1>1. /\ a \in Seq(Lines) /\ ToSet(a) = Inputs \cup Working
      /\ IsInjective(a) <=> IsInjective(inputQueue) /\ IsInjective(workerQueue) /\ Inputs \cap Working = {}
  BY ConcatFacts DEF Inputs, Working
<1> HIDE DEF a
<1>2. /\ b \in Seq(Lines) /\ ToSet(b) = ToSet(a) \cup Writing
      /\ IsInjective(b) <=> IsInjective(a) /\ IsInjective(writerQueue) /\ ToSet(a) \cap Writing = {}
  BY <1>1, ConcatFacts DEF Writing
<1> HIDE DEF b
<1>3. /\ ToSet(b \o output) = ToSet(b) \cup Written
      /\ IsInjective(b \o output) <=> IsInjective(b) /\ IsInjective(output) /\ ToSet(b) \cap Written = {}
  BY <1>2, ConcatFacts DEF Written
<1>4. Queued = b \o output
  BY DEF Queued, a, b
<1>5. ToSet(Queued) = Inputs \cup Working \cup Writing \cup Written
  BY <1>1, <1>2, <1>3, <1>4
<1>6. IsInjective(Queued) <=>
        /\ IsInjective(inputQueue) /\ IsInjective(workerQueue)
        /\ IsInjective(writerQueue) /\ IsInjective(output)
        /\ Inputs \cap Working = {} /\ Inputs \cap Writing = {} /\ Inputs \cap Written = {}
        /\ Working \cap Writing = {} /\ Working \cap Written = {} /\ Writing \cap Written = {}
  BY <1>1, <1>2, <1>3, <1>4
<1>7. QED BY <1>5, <1>6, Zenon DEF Places, NothingLostOrDuplicated, HandsUnique

(* A thread whose hands are empty takes an item nobody else has ...        *)
LEMMA TakeFacts ==
    ASSUME TypeOK, HandsUnique, NEW t \in Threads, NEW i \in Lines, i \notin InHand,
           hand[t] = NoItem, hand' = [hand EXCEPT ![t] = i]
    PROVE  /\ hand' \in [Threads -> Lines \cup {NoItem}]
           /\ InHand' = InHand \cup {i}
           /\ HandsUnique'
<1>1. hand \in [Threads -> Lines \cup {NoItem}] /\ i # NoItem
  BY QueueTypes DEF TypeOK
<1>2. \A s \in Threads : hand'[s] = IF s = t THEN i ELSE hand[s]
  BY <1>1
<1>3. \A s \in Threads : hand[s] # i
  BY <1>1 DEF InHand
<1>4. InHand' = InHand \cup {i}
  BY <1>1, <1>2 DEF InHand
<1>5. HandsUnique'
  BY <1>2, <1>3 DEF HandsUnique
<1>6. QED BY <1>1, <1>4, <1>5

(* ... and lets it go.                                                     *)
LEMMA GiveFacts ==
    ASSUME TypeOK, HandsUnique, NEW t \in Threads,
           hand[t] # NoItem, hand' = [hand EXCEPT ![t] = NoItem]
    PROVE  /\ hand' \in [Threads -> Lines \cup {NoItem}]
           /\ hand[t] \in Lines /\ hand[t] \in InHand
           /\ InHand' = InHand \ {hand[t]}
           /\ HandsUnique'
<1>1. hand \in [Threads -> Lines \cup {NoItem}] /\ NoItem \notin Lines
  BY QueueTypes DEF TypeOK
<1>2. \A s \in Threads : hand'[s] = IF s = t THEN NoItem ELSE hand[s]
  BY <1>1
<1>3. \A s \in Threads : s # t => hand[s] # hand[t]
  BY DEF HandsUnique
<1>4. InHand' = InHand \ {hand[t]}
  BY <1>1, <1>2, <1>3 DEF InHand
<1>5. HandsUnique'
  BY <1>2 DEF HandsUnique
<1>6. QED BY <1>1, <1>4, <1>5 DEF InHand

(* Every item in a place is a line, and the places are where it says.      *)
LEMMA PlacesAreLines ==
    ASSUME TypeOK
    PROVE  /\ Inputs \subseteq Lines /\ Working \subseteq Lines
           /\ Writing \subseteq Lines /\ Written \subseteq Lines /\ InHand \subseteq Lines
BY QueueTypes, SetOfSeq DEF TypeOK, Inputs, Working, Writing, Written, InHand

(* A step that leaves the items alone.                                     *)
LEMMA ItemsAlone ==
    ASSUME inputQueue' = inputQueue, workerQueue' = workerQueue, writerQueue' = writerQueue,
           output' = output, hand' = hand, val' = val, toRead' = toRead
    PROVE  (Places' <=> Places) /\ (Transforms' <=> Transforms)
<1>1. /\ Inputs' = Inputs /\ Working' = Working /\ Writing' = Writing /\ Written' = Written
      /\ InHand' = InHand /\ (HandsUnique' <=> HandsUnique)
  BY DEF Inputs, Working, Writing, Written, InHand, HandsUnique
<1>2. Places' <=> Places
  BY <1>1 DEF Places
<1>3. Transforms' <=> Transforms
  BY <1>1 DEF Transforms, TransformedInOrder
<1>4. QED BY <1>2, <1>3
--------------------------------------------------------------------------------
(* Every step keeps the inductive invariant.                               *)

LEMMA InitHolds == Init => IInv
<1> SUFFICES ASSUME Init PROVE IInv
  OBVIOUS
<1> USE EmptySeqFacts
<1>1. TypeOK
  BY SizesAssumption DEF Init, TypeOK
<1>2. Inputs = {} /\ Working = {} /\ Writing = {} /\ Written = {} /\ InHand = {}
  BY DEF Init, Inputs, Working, Writing, Written, InHand
<1>3. 1..(ExpectedLines - toRead) = {}
  BY SizesAssumption DEF Init
<1>4. Places
  BY <1>2, <1>3 DEF Init, Places, HandsUnique
<1>5. Transforms
  BY <1>2 DEF Init, Transforms, TransformedInOrder, Inputs, Working, Writing, Written, Lines, Threads
<1>6. HandsAt /\ VectorIsLive /\ Joined
  BY SizesAssumption DEF Init, HandsAt, VectorIsLive, Joined, Joining, Threads
<1>7. QED BY <1>1, <1>4, <1>5, <1>6 DEF IInv

(* The reader's step.                                                      *)
LEMMA ReadKeeps == ASSUME IInv, Running, Read PROVE IInv'
<1> DEFINE x == ExpectedLines - toRead + 1
<1>1. TypeOK /\ Places /\ Transforms /\ HandsAt /\ VectorIsLive /\ Joined
  BY DEF IInv
<1>2. /\ x \in Lines /\ x \notin 1..(ExpectedLines - toRead)
      /\ toRead' \in 0..ExpectedLines
      /\ 1..(ExpectedLines - toRead') = 1..(ExpectedLines - toRead) \cup {x}
      /\ \A i \in Lines : i > ExpectedLines - toRead' => i > ExpectedLines - toRead
      /\ x > ExpectedLines - toRead
  <2>1. ExpectedLines \in Nat /\ toRead \in 1..ExpectedLines /\ toRead' = toRead - 1
    BY <1>1, SizesAssumption DEF TypeOK, Read
  <2>2. x = ExpectedLines - toRead' /\ x \in 1..ExpectedLines
    BY <2>1
  <2>3. \A i \in Int : i \in 1..(ExpectedLines - toRead') <=> i \in 1..(ExpectedLines - toRead) \/ i = x
    BY <2>1
  <2>4. QED BY <2>1, <2>2, <2>3 DEF Lines
<1> HIDE DEF x
<1>3. inputQueue' = Append(inputQueue, x)
  BY DEF Read, x
<1>4. /\ inputQueue' \in Seq(Lines) /\ Inputs' = Inputs \cup {x}
      /\ IsInjective(inputQueue') <=> IsInjective(inputQueue) /\ x \notin Inputs
  BY <1>1, <1>2, <1>3, AppendFacts DEF TypeOK, Inputs
<1>5. /\ Working' = Working /\ Writing' = Writing /\ Written' = Written /\ InHand' = InHand
      /\ HandsUnique' = HandsUnique
  BY DEF Read, Working, Writing, Written, InHand, HandsUnique
<1>6. TypeOK'
  <2>1. Len(inputQueue') <= ReaderQueueSize
    BY <1>1, <1>3, SizesAssumption DEF Read, TypeOK
  <2>2. QED BY <1>1, <1>2, <1>4, <2>1 DEF TypeOK, Read, consumerVars
<1>7. Places'
  <2>1. x \notin Inputs \cup Working \cup Writing \cup Written \cup InHand
    BY <1>1, <1>2 DEF Places
  <2>2. IsInjective(inputQueue')
    BY <1>1, <1>4, <2>1 DEF Places
  <2>3. /\ workerQueue' = workerQueue /\ writerQueue' = writerQueue /\ output' = output
    BY DEF Read
  <2>4. QED BY <1>1, <1>2, <1>4, <1>5, <2>1, <2>2, <2>3 DEF Places
<1>8. Transforms'
  BY <1>1, <1>2, <1>4, <1>5 DEF Transforms, TransformedInOrder, Read, Working, Writing, Written
<1>9. HandsAt' /\ VectorIsLive' /\ Joined'
  BY <1>1, SizesAssumption DEF HandsAt, VectorIsLive, Joined, Joining, Read, consumerVars, Running, TypeOK
<1>10. QED BY <1>6, <1>7, <1>8, <1>9 DEF IInv

(* A producer takes an item from the input queue.                          *)
LEMMA ProducerDequeueKeeps ==
    ASSUME IInv, Running, NEW p \in Producers, ProducerDequeue(p) PROVE IInv'
<1> DEFINE x == Head(inputQueue)
<1>1. TypeOK /\ Places /\ Transforms /\ HandsAt /\ VectorIsLive /\ Joined
  BY DEF IInv
<1>2. /\ x \in Lines /\ inputQueue' \in Seq(Lines)
      /\ Inputs = {x} \cup Inputs'
      /\ IsInjective(inputQueue') /\ x \notin Inputs'
      /\ Len(inputQueue') <= ReaderQueueSize
  <2>1. inputQueue \in Seq(Lines) /\ inputQueue # <<>> /\ inputQueue' = Tail(inputQueue)
    BY <1>1 DEF TypeOK, ProducerDequeue
  <2>2. Len(Tail(inputQueue)) <= ReaderQueueSize
    BY <1>1, <2>1, SizesAssumption DEF TypeOK
  <2>3. QED BY <1>1, <2>1, <2>2, HeadTailFacts DEF Inputs, Places
<1> HIDE DEF x
<1>3. hand[p] = NoItem /\ hand' = [hand EXCEPT ![p] = x] /\ p \in Threads
  BY DEF ProducerDequeue, x, Threads
<1>4. x \notin InHand /\ x \notin Working \cup Writing \cup Written /\ x \in Inputs
  BY <1>1, <1>2 DEF Places
<1>5. hand' \in [Threads -> Lines \cup {NoItem}] /\ InHand' = InHand \cup {x} /\ HandsUnique'
  BY <1>1, <1>2, <1>3, <1>4, TakeFacts DEF Places
<1>6. Working' = Working /\ Writing' = Writing /\ Written' = Written
  BY DEF ProducerDequeue, Working, Writing, Written
<1>7. TypeOK'
  BY <1>1, <1>2, <1>5 DEF TypeOK, ProducerDequeue, consumerVars
<1>8. Places'
  <2>1. /\ workerQueue' = workerQueue /\ writerQueue' = writerQueue /\ output' = output
        /\ toRead' = toRead
    BY DEF ProducerDequeue
  <2>2. QED BY <1>1, <1>2, <1>4, <1>5, <1>6, <2>1 DEF Places
<1>9. Transforms'
  <2>1. \A t \in Threads : hand'[t] = IF t = p THEN x ELSE hand[t]
    BY <1>1, <1>3 DEF TypeOK
  <2>2. val[x] = <<>>
    BY <1>1, <1>4 DEF Transforms
  <2>3. \A c \in Consumers : c # p /\ c \in Threads
    BY ThreadsAssumption DEF Threads
  <2>4. \A q \in Producers : q \in Threads
    BY DEF Threads
  <2>5. val' = val /\ toRead' = toRead /\ Inputs' \subseteq Inputs
    BY <1>2 DEF ProducerDequeue
  <2>6. QED BY <1>1, <1>6, <2>1, <2>2, <2>3, <2>4, <2>5
             DEF Transforms, TransformedInOrder, Working, Writing, Written
<1>10. HandsAt'
  <2>1. \A c \in Consumers : hand'[c] = hand[c] /\ at'[c] = at[c]
    BY <1>1, <1>3, ThreadsAssumption DEF TypeOK, Threads, ProducerDequeue, consumerVars
  <2>2. QED BY <1>1, <2>1 DEF HandsAt
<1>11. VectorIsLive' /\ Joined'
  BY <1>1 DEF VectorIsLive, Joined, Joining, ProducerDequeue, consumerVars
<1>12. QED BY <1>7, <1>8, <1>9, <1>10, <1>11 DEF IInv

(* A producer puts its transformed item into the worker queue.             *)
LEMMA ProducerEnqueueKeeps ==
    ASSUME IInv, Running, NEW p \in Producers, ProducerEnqueue(p) PROVE IInv'
<1> DEFINE x == hand[p]
<1>1. TypeOK /\ Places /\ Transforms /\ HandsAt /\ VectorIsLive /\ Joined
  BY DEF IInv
<1>2. hand[p] # NoItem /\ hand' = [hand EXCEPT ![p] = NoItem] /\ p \in Threads
  BY DEF ProducerEnqueue, Threads
<1>3. /\ hand' \in [Threads -> Lines \cup {NoItem}] /\ x \in Lines /\ x \in InHand
      /\ InHand' = InHand \ {x} /\ HandsUnique'
  BY <1>1, <1>2, GiveFacts DEF Places
<1>4. \A t \in Threads : hand'[t] = IF t = p THEN NoItem ELSE hand[t]
  BY <1>1, <1>2 DEF TypeOK
<1>5. \A t \in Threads : t # p => hand[t] # x
  BY <1>1, <1>2 DEF Places, HandsUnique
<1>6. /\ workerQueue' = Append(workerQueue, x)
      /\ val' = [val EXCEPT ![x] = Append(@, "producer")]
      /\ val[x] = <<>>
  BY <1>1, <1>2 DEF ProducerEnqueue, Transforms
<1> HIDE DEF x
<1>7. /\ workerQueue' \in Seq(Lines) /\ Working' = Working \cup {x}
      /\ IsInjective(workerQueue') <=> IsInjective(workerQueue) /\ x \notin Working
      /\ Len(workerQueue') <= WorkerQueueSize
  <2>1. Len(workerQueue) < WorkerQueueSize /\ workerQueue \in Seq(Lines)
    BY <1>1 DEF ProducerEnqueue, TypeOK
  <2>2. Len(workerQueue') <= WorkerQueueSize
    BY <1>3, <1>6, <2>1, SizesAssumption
  <2>3. QED BY <1>3, <1>6, <2>1, <2>2, AppendFacts DEF Working
<1>8. Inputs' = Inputs /\ Writing' = Writing /\ Written' = Written
  BY DEF ProducerEnqueue, Inputs, Writing, Written
<1>9. x \notin Inputs \cup Working \cup Writing \cup Written
  BY <1>1, <1>3 DEF Places
<1>10. /\ val' \in [Lines -> Seq({"producer", "consumer"})]
       /\ val'[x] = <<"producer">>
       /\ \A i \in Lines : i # x => val'[i] = val[i]
  BY <1>1, <1>3, <1>6 DEF TypeOK
<1>11. TypeOK'
  BY <1>1, <1>3, <1>7, <1>10 DEF TypeOK, ProducerEnqueue, consumerVars
<1>12. Places'
  <2>1. /\ inputQueue' = inputQueue /\ writerQueue' = writerQueue /\ output' = output
        /\ toRead' = toRead
    BY DEF ProducerEnqueue
  <2>2. IsInjective(workerQueue')
    BY <1>1, <1>7, <1>9 DEF Places
  <2>3. QED BY <1>1, <1>3, <1>7, <1>8, <1>9, <2>1, <2>2 DEF Places
<1>13. Transforms'
  <2>1. x \in 1..(ExpectedLines - toRead) /\ toRead' = toRead
    BY <1>1, <1>3 DEF Places, ProducerEnqueue
  <2>2. \A i \in Lines : i > ExpectedLines - toRead => i # x
    BY <1>1, <2>1, SizesAssumption DEF TypeOK, Lines
  <2>3. \A t \in Threads : hand[t] # NoItem => hand[t] \in Lines
    BY <1>1 DEF TypeOK
  <2>4. \A c \in Consumers : c \in Threads /\ c # p
    BY ThreadsAssumption DEF Threads
  <2>5. \A q \in Producers : q \in Threads
    BY DEF Threads
  <2>6. \A i \in Inputs \cup Working \cup Writing \cup Written : i \in Lines /\ i # x
    BY <1>1, <1>9, PlacesAreLines
  <2>7. TransformedInOrder'
    BY <1>1, <1>7, <1>8, <1>10, <2>6 DEF Transforms, TransformedInOrder, Working, Writing, Written
  <2>8. \A i \in Inputs' : val'[i] = <<>>
    BY <1>1, <1>8, <1>10, <2>6 DEF Transforms
  <2>9. \A q \in Producers : hand'[q] # NoItem => val'[hand'[q]] = <<>>
    BY <1>1, <1>4, <1>5, <1>10, <2>3, <2>5 DEF Transforms
  <2>10. \A c \in Consumers : hand'[c] # NoItem => val'[hand'[c]] = <<"producer">>
    BY <1>1, <1>4, <1>5, <1>10, <2>3, <2>4 DEF Transforms
  <2>11. QED BY <1>1, <1>10, <2>1, <2>2, <2>7, <2>8, <2>9, <2>10 DEF Transforms
<1>14. HandsAt'
  <2>1. \A c \in Consumers : hand'[c] = hand[c] /\ at'[c] = at[c]
    BY <1>4, ThreadsAssumption DEF Threads, ProducerEnqueue, consumerVars
  <2>2. QED BY <1>1, <2>1 DEF HandsAt
<1>15. VectorIsLive' /\ Joined'
  BY <1>1 DEF VectorIsLive, Joined, Joining, ProducerEnqueue, consumerVars
<1>16. QED BY <1>11, <1>12, <1>13, <1>14, <1>15 DEF IInv

(* A consumer looks at its cancellation, and ends or goes on.              *)
LEMMA ConsumerTestKeeps ==
    ASSUME IInv, Running, NEW c \in Consumers, ConsumerTest(c) PROVE IInv'
<1>1. TypeOK /\ Places /\ Transforms /\ HandsAt /\ VectorIsLive /\ Joined
  BY DEF IInv
<1>2. /\ at[c] = "test" /\ at \in [Consumers -> {"none", "test", "dequeue", "enqueue"}]
      /\ at' = [at EXCEPT ![c] = IF isCancel[c] THEN "none" ELSE "dequeue"]
  BY <1>1 DEF TypeOK, ConsumerTest
<1>3. \A d \in Consumers :
        at'[d] = IF d = c THEN IF isCancel[c] THEN "none" ELSE "dequeue" ELSE at[d]
  BY <1>2
<1>4. TypeOK'
  <2>1. at' \in [Consumers -> {"none", "test", "dequeue", "enqueue"}]
    BY <1>2
  <2>2. QED BY <1>1, <2>1 DEF TypeOK, ConsumerTest, queues
<1>5. Places' /\ Transforms'
  BY <1>1, ItemsAlone DEF ConsumerTest, queues
<1>6. HandsAt'
  BY <1>1, <1>2, <1>3 DEF HandsAt, ConsumerTest
<1>7. VectorIsLive'
  <2>1. \A d \in Consumers : (at'[d] # "none" /\ ~isCancel[d]) <=> (at[d] # "none" /\ ~isCancel[d])
    BY <1>2, <1>3
  <2>2. QED BY <1>1, <2>1 DEF VectorIsLive, ConsumerTest
<1>8. Joined'
  BY <1>1 DEF Joined, Joining, ConsumerTest
<1>9. QED BY <1>4, <1>5, <1>6, <1>7, <1>8 DEF IInv

(* A consumer takes an item from the worker queue.                         *)
LEMMA ConsumerDequeueKeeps ==
    ASSUME IInv, Running, NEW c \in Consumers, ConsumerDequeue(c) PROVE IInv'
<1> DEFINE x == Head(workerQueue)
<1>1. TypeOK /\ Places /\ Transforms /\ HandsAt /\ VectorIsLive /\ Joined
  BY DEF IInv
<1>2. /\ x \in Lines /\ workerQueue' \in Seq(Lines)
      /\ Working = {x} \cup Working'
      /\ IsInjective(workerQueue') /\ x \notin Working'
      /\ Len(workerQueue') <= WorkerQueueSize
  <2>1. workerQueue \in Seq(Lines) /\ workerQueue # <<>> /\ workerQueue' = Tail(workerQueue)
    BY <1>1 DEF TypeOK, ConsumerDequeue
  <2>2. Len(Tail(workerQueue)) <= WorkerQueueSize
    BY <1>1, <2>1, SizesAssumption DEF TypeOK
  <2>3. QED BY <1>1, <2>1, <2>2, HeadTailFacts DEF Working, Places
<1> HIDE DEF x
<1>3. /\ hand[c] = NoItem /\ hand' = [hand EXCEPT ![c] = x] /\ c \in Threads
      /\ at[c] = "dequeue" /\ at' = [at EXCEPT ![c] = "enqueue"]
  BY <1>1 DEF ConsumerDequeue, x, Threads, HandsAt
<1>4. x \notin InHand /\ x \notin Inputs \cup Writing \cup Written /\ x \in Working
  BY <1>1, <1>2 DEF Places
<1>5. hand' \in [Threads -> Lines \cup {NoItem}] /\ InHand' = InHand \cup {x} /\ HandsUnique'
  BY <1>1, <1>2, <1>3, <1>4, TakeFacts DEF Places
<1>6. Inputs' = Inputs /\ Writing' = Writing /\ Written' = Written
  BY DEF ConsumerDequeue, Inputs, Writing, Written
<1>7. \A t \in Threads : hand'[t] = IF t = c THEN x ELSE hand[t]
  BY <1>1, <1>3 DEF TypeOK
<1>8. \A d \in Consumers : at'[d] = IF d = c THEN "enqueue" ELSE at[d]
  BY <1>1, <1>3 DEF TypeOK
<1>9. TypeOK'
  <2>1. at' \in [Consumers -> {"none", "test", "dequeue", "enqueue"}]
    BY <1>1, <1>3 DEF TypeOK
  <2>2. QED BY <1>1, <1>2, <1>5, <2>1 DEF TypeOK, ConsumerDequeue
<1>10. Places'
  <2>1. /\ inputQueue' = inputQueue /\ writerQueue' = writerQueue /\ output' = output
        /\ toRead' = toRead
    BY DEF ConsumerDequeue
  <2>2. QED BY <1>1, <1>2, <1>4, <1>5, <1>6, <2>1 DEF Places
<1>11. Transforms'
  <2>1. val[x] = <<"producer">>
    BY <1>1, <1>4 DEF Transforms, TransformedInOrder, Working
  <2>2. /\ \A d \in Consumers : d \in Threads
        /\ \A p \in Producers : p \in Threads /\ p # c
    BY ThreadsAssumption DEF Threads
  <2>3. val' = val /\ toRead' = toRead /\ Working' \subseteq Working
    BY <1>2 DEF ConsumerDequeue
  <2>4. TransformedInOrder'
    BY <1>1, <1>6, <2>3 DEF Transforms, TransformedInOrder, Working, Writing, Written
  <2>5. QED BY <1>1, <1>6, <1>7, <2>1, <2>2, <2>3, <2>4 DEF Transforms
<1>12. HandsAt'
  <2>1. x # NoItem /\ \A d \in Consumers : d \in Threads
    BY <1>2, <1>1, QueueTypes DEF Threads
  <2>2. QED BY <1>1, <1>7, <1>8, <2>1 DEF HandsAt
<1>13. VectorIsLive'
  <2>1. \A d \in Consumers : (at'[d] # "none" /\ ~isCancel[d]) <=> (at[d] # "none" /\ ~isCancel[d])
    BY <1>3, <1>8
  <2>2. QED BY <1>1, <2>1 DEF VectorIsLive, ConsumerDequeue
<1>14. Joined'
  BY <1>1 DEF Joined, Joining, ConsumerDequeue
<1>15. QED BY <1>9, <1>10, <1>11, <1>12, <1>13, <1>14 DEF IInv

(* A consumer puts its transformed item into the writer queue.             *)
LEMMA ConsumerEnqueueKeeps ==
    ASSUME IInv, Running, NEW c \in Consumers, ConsumerEnqueue(c) PROVE IInv'
<1> DEFINE x == hand[c]
<1>1. TypeOK /\ Places /\ Transforms /\ HandsAt /\ VectorIsLive /\ Joined
  BY DEF IInv
<1>2. /\ hand[c] # NoItem /\ hand' = [hand EXCEPT ![c] = NoItem] /\ c \in Threads
      /\ at[c] = "enqueue" /\ at' = [at EXCEPT ![c] = "test"]
  BY <1>1 DEF ConsumerEnqueue, Threads, HandsAt
<1>3. /\ hand' \in [Threads -> Lines \cup {NoItem}] /\ x \in Lines /\ x \in InHand
      /\ InHand' = InHand \ {x} /\ HandsUnique'
  BY <1>1, <1>2, GiveFacts DEF Places
<1>4. \A t \in Threads : hand'[t] = IF t = c THEN NoItem ELSE hand[t]
  BY <1>1, <1>2 DEF TypeOK
<1>5. \A t \in Threads : t # c => hand[t] # x
  BY <1>1, <1>2 DEF Places, HandsUnique
<1>6. /\ writerQueue' = Append(writerQueue, x)
      /\ val' = [val EXCEPT ![x] = Append(@, "consumer")]
      /\ val[x] = <<"producer">>
  BY <1>1, <1>2 DEF ConsumerEnqueue, Transforms
<1> HIDE DEF x
<1>7. /\ writerQueue' \in Seq(Lines) /\ Writing' = Writing \cup {x}
      /\ IsInjective(writerQueue') <=> IsInjective(writerQueue) /\ x \notin Writing
      /\ Len(writerQueue') <= WriterQueueSize
  <2>1. Len(writerQueue) < WriterQueueSize /\ writerQueue \in Seq(Lines)
    BY <1>1 DEF ConsumerEnqueue, TypeOK
  <2>2. Len(writerQueue') <= WriterQueueSize
    BY <1>3, <1>6, <2>1, SizesAssumption
  <2>3. QED BY <1>3, <1>6, <2>1, <2>2, AppendFacts DEF Writing
<1>8. Inputs' = Inputs /\ Working' = Working /\ Written' = Written
  BY DEF ConsumerEnqueue, Inputs, Working, Written
<1>9. x \notin Inputs \cup Working \cup Writing \cup Written
  BY <1>1, <1>3 DEF Places
<1>10. /\ val' \in [Lines -> Seq({"producer", "consumer"})]
       /\ val'[x] = <<"producer", "consumer">>
       /\ \A i \in Lines : i # x => val'[i] = val[i]
  <2>1. Append(<<"producer">>, "consumer") = <<"producer", "consumer">>
    BY PairFacts
  <2>2. val \in [Lines -> Seq({"producer", "consumer"})] /\ val' = [val EXCEPT ![x] = <<"producer", "consumer">>]
    BY <1>1, <1>6, <2>1 DEF TypeOK
  <2>3. <<"producer", "consumer">> \in Seq({"producer", "consumer"})
    OBVIOUS
  <2>4. QED BY <1>3, <2>2, <2>3
<1>11. \A d \in Consumers : at'[d] = IF d = c THEN "test" ELSE at[d]
  BY <1>1, <1>2 DEF TypeOK
<1>12. TypeOK'
  <2>1. at' \in [Consumers -> {"none", "test", "dequeue", "enqueue"}]
    BY <1>1, <1>2 DEF TypeOK
  <2>2. QED BY <1>1, <1>3, <1>7, <1>10, <2>1 DEF TypeOK, ConsumerEnqueue
<1>13. Places'
  <2>1. /\ inputQueue' = inputQueue /\ workerQueue' = workerQueue /\ output' = output
        /\ toRead' = toRead
    BY DEF ConsumerEnqueue
  <2>2. IsInjective(writerQueue')
    BY <1>1, <1>7, <1>9 DEF Places
  <2>3. QED BY <1>1, <1>3, <1>7, <1>8, <1>9, <2>1, <2>2 DEF Places
<1>14. Transforms'
  <2>1. x \in 1..(ExpectedLines - toRead) /\ toRead' = toRead
    BY <1>1, <1>3 DEF Places, ConsumerEnqueue
  <2>2. \A i \in Lines : i > ExpectedLines - toRead => i # x
    BY <1>1, <2>1, SizesAssumption DEF TypeOK, Lines
  <2>3. \A t \in Threads : hand[t] # NoItem => hand[t] \in Lines
    BY <1>1 DEF TypeOK
  <2>4. /\ \A d \in Consumers : d \in Threads
        /\ \A p \in Producers : p \in Threads /\ p # c
    BY ThreadsAssumption DEF Threads
  <2>5. \A i \in Inputs \cup Working \cup Writing \cup Written : i \in Lines /\ i # x
    BY <1>1, <1>9, PlacesAreLines
  <2>6. TransformedInOrder'
    BY <1>1, <1>7, <1>8, <1>10, <2>5 DEF Transforms, TransformedInOrder, Working, Writing, Written
  <2>7. \A i \in Inputs' : val'[i] = <<>>
    BY <1>1, <1>8, <1>10, <2>5 DEF Transforms
  <2>8. \A p \in Producers : hand'[p] # NoItem => val'[hand'[p]] = <<>>
    BY <1>1, <1>4, <1>5, <1>10, <2>3, <2>4 DEF Transforms
  <2>9. \A d \in Consumers : hand'[d] # NoItem => val'[hand'[d]] = <<"producer">>
    BY <1>1, <1>4, <1>5, <1>10, <2>3, <2>4 DEF Transforms
  <2>10. QED BY <1>1, <1>10, <2>1, <2>2, <2>6, <2>7, <2>8, <2>9 DEF Transforms
<1>15. HandsAt'
  <2>1. \A d \in Consumers : d \in Threads
    BY DEF Threads
  <2>2. QED BY <1>1, <1>4, <1>11, <2>1 DEF HandsAt
<1>16. VectorIsLive'
  <2>1. \A d \in Consumers : (at'[d] # "none" /\ ~isCancel[d]) <=> (at[d] # "none" /\ ~isCancel[d])
    BY <1>2, <1>11
  <2>2. QED BY <1>1, <2>1 DEF VectorIsLive, ConsumerEnqueue
<1>17. Joined'
  BY <1>1 DEF Joined, Joining, ConsumerEnqueue
<1>18. QED BY <1>12, <1>13, <1>14, <1>15, <1>16, <1>17 DEF IInv

(* The writer's step.                                                      *)
LEMMA WriteKeeps == ASSUME IInv, Running, Write PROVE IInv'
<1> DEFINE x == Head(writerQueue)
<1>1. TypeOK /\ Places /\ Transforms /\ HandsAt /\ VectorIsLive /\ Joined
  BY DEF IInv
<1>2. /\ x \in Lines /\ writerQueue' \in Seq(Lines)
      /\ Writing = {x} \cup Writing'
      /\ IsInjective(writerQueue') /\ x \notin Writing'
      /\ Len(writerQueue') <= WriterQueueSize
  <2>1. writerQueue \in Seq(Lines) /\ writerQueue # <<>> /\ writerQueue' = Tail(writerQueue)
    BY <1>1 DEF TypeOK, Write
  <2>2. Len(Tail(writerQueue)) <= WriterQueueSize
    BY <1>1, <2>1, SizesAssumption DEF TypeOK
  <2>3. QED BY <1>1, <2>1, <2>2, HeadTailFacts DEF Writing, Places
<1> HIDE DEF x
<1>3. x \notin InHand /\ x \notin Inputs \cup Working \cup Written /\ x \in Writing
  BY <1>1, <1>2 DEF Places
<1>4. /\ output' \in Seq(Lines) /\ Written' = Written \cup {x} /\ IsInjective(output')
      /\ Len(output') = Len(output) + 1
  <2>1. output \in Seq(Lines) /\ output' = Append(output, x) /\ IsInjective(output)
    BY <1>1 DEF TypeOK, Write, x, Places
  <2>2. Len(output') = Len(output) + 1
    BY <1>2, <2>1
  <2>3. QED BY <1>2, <1>3, <2>1, <2>2, AppendFacts DEF Written
<1>5. Inputs' = Inputs /\ Working' = Working /\ InHand' = InHand /\ HandsUnique' = HandsUnique
  BY DEF Write, Inputs, Working, InHand, HandsUnique
<1>6. toWrite > 0 /\ toWrite' = toWrite - 1
  BY DEF Write
<1>7. TypeOK'
  <2>1. toWrite' \in 0..ExpectedLines
    BY <1>1, <1>6, SizesAssumption DEF TypeOK
  <2>2. QED BY <1>1, <1>2, <1>4, <2>1 DEF TypeOK, Write, consumerVars
<1>8. Places'
  <2>1. inputQueue' = inputQueue /\ workerQueue' = workerQueue /\ toRead' = toRead
    BY DEF Write
  <2>2. QED BY <1>1, <1>2, <1>3, <1>4, <1>5, <2>1 DEF Places
<1>9. Transforms'
  <2>1. val' = val /\ hand' = hand /\ toRead' = toRead
    BY DEF Write
  <2>2. TransformedInOrder'
    BY <1>1, <1>2, <1>4, <1>5, <2>1 DEF Transforms, TransformedInOrder, Working, Writing, Written
  <2>3. QED BY <1>1, <1>5, <2>1, <2>2 DEF Transforms
<1>10. HandsAt' /\ VectorIsLive'
  BY <1>1 DEF HandsAt, VectorIsLive, Write, consumerVars
<1>11. Joined'
  <2>1. Len(output') = ExpectedLines - toWrite'
    BY <1>1, <1>4, <1>6, SizesAssumption DEF Joined, Joining, TypeOK
  <2>2. QED BY <1>1, <2>1 DEF Joined, Joining, Write, Running
<1>12. QED BY <1>7, <1>8, <1>9, <1>10, <1>11 DEF IInv

(* The controller changes only the Consumer objects.                       *)
LEMMA ScaleUpKeeps == ASSUME IInv, Running, ScaleUp PROVE IInv'
<1>1. TypeOK /\ Places /\ Transforms /\ HandsAt /\ VectorIsLive /\ Joined
  BY DEF IInv
<1>2. Places' /\ Transforms' /\ Joined'
  <2>1. /\ inputQueue' = inputQueue /\ workerQueue' = workerQueue /\ writerQueue' = writerQueue
        /\ output' = output /\ hand' = hand /\ val' = val /\ toRead' = toRead
        /\ toWrite' = toWrite /\ mainAt' = mainAt
    BY DEF ScaleUp, queues
  <2>2. QED BY <1>1, <2>1, ItemsAlone DEF Joined, Joining, HandsAt
<1>3. controllerAt' = "scaleDown"
  BY DEF ScaleUp
<1>4. CASE UNCHANGED <<at, isCancel, consumers>>
  BY <1>1, <1>2, <1>3, <1>4 DEF IInv, TypeOK, HandsAt, VectorIsLive, ScaleUp, queues
<1>5. ASSUME NEW c \in Consumers, at[c] = "none", at' = [at EXCEPT ![c] = "test"],
             isCancel' = [isCancel EXCEPT ![c] = FALSE], consumers' = Append(consumers, c)
      PROVE  IInv'
  <2>1. /\ \A d \in Consumers : at'[d] = IF d = c THEN "test" ELSE at[d]
        /\ \A d \in Consumers : isCancel'[d] = IF d = c THEN FALSE ELSE isCancel[d]
    BY <1>1, <1>5 DEF TypeOK
  <2>2. c \notin ToSet(consumers)
    BY <1>1, <1>5 DEF VectorIsLive
  <2>3. /\ consumers' \in Seq(Consumers) /\ IsInjective(consumers')
        /\ ToSet(consumers') = ToSet(consumers) \cup {c}
    BY <1>1, <1>5, <2>2, AppendFacts DEF TypeOK, VectorIsLive
  <2>4. TypeOK'
    <3>1. at' \in [Consumers -> {"none", "test", "dequeue", "enqueue"}] /\ isCancel' \in [Consumers -> BOOLEAN]
      BY <1>1, <1>5 DEF TypeOK
    <3>2. QED BY <1>1, <1>3, <2>3, <3>1 DEF TypeOK, ScaleUp, queues
  <2>5. HandsAt'
    BY <1>1, <1>5, <2>1 DEF HandsAt, ScaleUp
  <2>6. VectorIsLive'
    BY <1>1, <2>1, <2>3 DEF VectorIsLive
  <2>7. QED BY <1>2, <2>4, <2>5, <2>6 DEF IInv
<1>6. QED BY <1>4, <1>5 DEF ScaleUp

(* The controller cancels the newest consumer.                             *)
LEMMA ScaleDownKeeps == ASSUME IInv, Running, ScaleDown PROVE IInv'
<1>1. TypeOK /\ Places /\ Transforms /\ HandsAt /\ VectorIsLive /\ Joined
  BY DEF IInv
<1>2. Places' /\ Transforms' /\ HandsAt' /\ Joined'
  <2>1. /\ inputQueue' = inputQueue /\ workerQueue' = workerQueue /\ writerQueue' = writerQueue
        /\ output' = output /\ hand' = hand /\ val' = val /\ toRead' = toRead
        /\ toWrite' = toWrite /\ mainAt' = mainAt /\ at' = at
    BY DEF ScaleDown, queues
  <2>2. QED BY <1>1, <2>1, ItemsAlone DEF Joined, Joining, HandsAt
<1>3. controllerAt' = "scaleUp"
  BY DEF ScaleDown
<1>4. CASE UNCHANGED <<isCancel, consumers>>
  BY <1>1, <1>2, <1>3, <1>4 DEF IInv, TypeOK, VectorIsLive, ScaleDown, queues
<1>5. ASSUME Len(consumers) > 1, isCancel' = [isCancel EXCEPT ![Last(consumers)] = TRUE],
             consumers' = Front(consumers)
      PROVE  IInv'
  <2> DEFINE c == Last(consumers)
  <2>1. /\ c \in Consumers /\ c \in ToSet(consumers) /\ consumers' \in Seq(Consumers)
        /\ IsInjective(consumers') /\ ToSet(consumers') = ToSet(consumers) \ {c}
    <3>1. consumers \in Seq(Consumers) /\ consumers # <<>> /\ IsInjective(consumers)
      BY <1>1, <1>5 DEF TypeOK, VectorIsLive
    <3>2. QED BY <1>5, <3>1, FrontLastFacts
  <2> HIDE DEF c
  <2>2. \A d \in Consumers : isCancel'[d] = IF d = c THEN TRUE ELSE isCancel[d]
    BY <1>1, <1>5 DEF TypeOK, c
  <2>3. TypeOK'
    <3>1. isCancel' \in [Consumers -> BOOLEAN]
      BY <1>1, <1>5 DEF TypeOK
    <3>2. QED BY <1>1, <1>3, <2>1, <3>1 DEF TypeOK, ScaleDown, queues
  <2>4. VectorIsLive'
    BY <1>1, <2>1, <2>2 DEF VectorIsLive, ScaleDown
  <2>5. QED BY <1>2, <2>3, <2>4 DEF IInv
<1>6. QED BY <1>4, <1>5 DEF ScaleDown

(* main's joins and deletes, and what the threads then run into.           *)
LEMMA MainKeeps == ASSUME IInv, MainStep \/ UseDeleted PROVE IInv'
<1>1. TypeOK /\ Places /\ Transforms /\ HandsAt /\ VectorIsLive /\ Joined
  BY DEF IInv
<1>2. /\ inputQueue' = inputQueue /\ workerQueue' = workerQueue /\ writerQueue' = writerQueue
      /\ output' = output /\ hand' = hand /\ val' = val /\ toRead' = toRead
      /\ at' = at /\ isCancel' = isCancel /\ consumers' = consumers
  BY DEF MainStep, JoinReader, JoinWriter, DeleteObjects, DeleteQueues, UseDeleted, queues, consumerVars
<1>3. Places' /\ Transforms' /\ HandsAt' /\ VectorIsLive'
  BY <1>1, <1>2, ItemsAlone DEF HandsAt, VectorIsLive
<1>4. TypeOK' /\ Joined'
  BY <1>1 DEF MainStep, JoinReader, JoinWriter, DeleteObjects, DeleteQueues, UseDeleted, queues, consumerVars, TypeOK, Joined, Joining
<1>5. QED BY <1>3, <1>4 DEF IInv

LEMMA StutterKeeps == ASSUME IInv, UNCHANGED vars PROVE IInv'
<1>1. TypeOK /\ Places /\ Transforms /\ HandsAt /\ VectorIsLive /\ Joined
  BY DEF IInv
<1>2. Places' /\ Transforms'
  BY <1>1, ItemsAlone DEF vars, queues
<1>3. TypeOK' /\ HandsAt' /\ VectorIsLive' /\ Joined'
  BY <1>1 DEF vars, queues, consumerVars, TypeOK, HandsAt, VectorIsLive, Joined, Joining
<1>4. QED BY <1>2, <1>3 DEF IInv

LEMMA StepKeeps == ASSUME IInv, [Next]_vars PROVE IInv'
<1>1. ASSUME Running, NEW p \in Producers, ProducerStep(p) PROVE IInv'
  BY <1>1, ProducerDequeueKeeps, ProducerEnqueueKeeps DEF ProducerStep
<1>2. ASSUME Running, NEW c \in Consumers, ConsumerStep(c) PROVE IInv'
  BY <1>2, ConsumerTestKeeps, ConsumerDequeueKeeps, ConsumerEnqueueKeeps DEF ConsumerStep
<1>3. QED BY <1>1, <1>2, ReadKeeps, WriteKeeps, ScaleUpKeeps, ScaleDownKeeps, MainKeeps, StutterKeeps
          DEF Next, ControllerStep, Ended

(* The invariant holds in every state of every run.                        *)
THEOREM Invariance == Spec => []IInv
<1>1. QED BY InitHolds, StepKeeps, PTL DEF Spec
--------------------------------------------------------------------------------
(* What the invariant says, for the properties the runs check.             *)

(* The variables keep their types.                                         *)
THEOREM TypeCorrect == Spec => []TypeOK
<1>1. IInv => TypeOK
  BY DEF IInv
<1>2. QED BY <1>1, Invariance, PTL

(* Wherever the controller cancels and creates consumers, every line that  *)
(* was read is in exactly one queue, one thread's hands or the output.     *)
THEOREM ItemsAreConserved == Spec => []NothingLostOrDuplicated
<1>1. IInv => NothingLostOrDuplicated
  BY PlacesExact DEF IInv
<1>2. QED BY <1>1, Invariance, PTL

(* An item leaves with the producer's and then the consumer's transform,   *)
(* each applied once.                                                      *)
THEOREM TransformsAreOrdered == Spec => []TransformedInOrder
<1>1. IInv => TransformedInOrder
  BY DEF IInv, Transforms
<1>2. QED BY <1>1, Invariance, PTL

(* The controller's vector holds the live consumers that are not cancelled:*)
(* back()->cancel() never touches an object that has deleted itself.       *)
THEOREM VectorHoldsTheLive == Spec => []VectorIsLive
<1>1. IInv => VectorIsLive
  BY DEF IInv
<1>2. QED BY <1>1, Invariance, PTL

(* When main starts to delete the output is complete and no thread    *)
(* holds an item: a duplicate-free output of ExpectedLines lines is all of *)
(* them, so nothing is left for the other places.                          *)
LEMMA OutputIsComplete == ASSUME IInv, ~Joining PROVE TeardownIsClean
<1>1. TypeOK /\ Places /\ Joined
  BY DEF IInv
<1>2. Len(output) = ExpectedLines /\ output \in Seq(Lines) /\ IsInjective(output)
  BY <1>1, SizesAssumption DEF Joined, Joining, TypeOK, Places
<1>3. output \in [Lines -> Lines] /\ IsFiniteSet(Lines)
  <2>1. Lines = 1..Len(output)
    BY <1>2 DEF Lines
  <2>2. output \in [Lines -> Lines]
    BY <1>2, <2>1
  <2>3. 1 \in Int /\ ExpectedLines \in Int
    BY SizesAssumption
  <2>4. IsFiniteSet(Lines)
    BY <2>3, FS_Interval DEF Lines
  <2>5. QED BY <2>2, <2>4
<1>4. Lines \subseteq Written
  <2>1. \A i, j \in Lines : output[i] = output[j] => i = j
    BY <1>2, <1>3 DEF IsInjective
  <2>2. output \in Injection(Lines, Lines)
    BY <1>3, <2>1, Fun_IsInj
  <2>3. output \in Surjection(Lines, Lines)
    BY <1>3, <2>2, FS_Injection
  <2>4. QED BY <1>2, <1>3, <2>3 DEF Written, Surjection, ToSet
<1>5. InHand = {}
  BY <1>1, <1>4, PlacesAreLines DEF Places
<1>6. QED BY <1>2, <1>5 DEF TeardownIsClean

(* main deletes nothing before everything is written.                      *)
THEOREM TeardownsAreClean == Spec => []TeardownIsClean
<1>1. IInv => TeardownIsClean
  BY OutputIsComplete DEF TeardownIsClean
<1>2. QED BY <1>1, Invariance, PTL

(* Once there is a consumer there is always one that is not cancelled: the *)
(* vector is never emptied once it has an element.                         *)
LEMMA VectorNeverEmptied ==
    ASSUME IInv, IInv', [Next]_vars
    PROVE  (\E c \in Consumers : at[c] # "none" /\ ~isCancel[c])
             => (\E c \in Consumers : at'[c] # "none" /\ ~isCancel'[c])
<1> SUFFICES ASSUME NEW c \in Consumers, at[c] # "none", ~isCancel[c]
             PROVE  \E d \in Consumers : at'[d] # "none" /\ ~isCancel'[d]
  OBVIOUS
<1>1. consumers \in Seq(Consumers) /\ consumers # <<>>
  BY EmptySeqFacts DEF IInv, TypeOK, VectorIsLive
<1>2. consumers' \in Seq(Consumers) /\ consumers' # <<>>
  <2>1. consumers' \in Seq(Consumers)
    BY DEF IInv, TypeOK
  <2>2. CASE consumers' = consumers
    BY <1>1, <2>2
  <2>3. CASE \E d \in Consumers : consumers' = Append(consumers, d)
    BY <1>1, <2>3
  <2>4. CASE Len(consumers) > 1 /\ consumers' = Front(consumers)
    BY <1>1, <2>4, FrontLastFacts
  <2>5. CASE UNCHANGED vars
    BY <2>2, <2>5 DEF vars, consumerVars
  <2>6. QED
    BY <2>1, <2>2, <2>3, <2>4, <2>5
    DEF Next, Read, Write, ProducerStep, ProducerDequeue, ProducerEnqueue, ConsumerStep, ConsumerTest,
        ConsumerDequeue, ConsumerEnqueue, ControllerStep, ScaleUp, ScaleDown, MainStep, JoinReader,
        JoinWriter, DeleteObjects, DeleteQueues, UseDeleted, Ended, consumerVars
<1>3. Head(consumers') \in ToSet(consumers')
  BY <1>2, HeadTailFacts
<1>4. QED BY <1>3 DEF IInv, VectorIsLive

(* The same of every step of the program.                                  *)
THEOREM AlwaysAConsumer == Spec => NeverDownToNone
<1>1. IInv /\ IInv' /\ [Next]_vars
        => [(\E c \in Consumers : at[c] # "none" /\ ~isCancel[c])
              => (\E c \in Consumers : at'[c] # "none" /\ ~isCancel'[c])]_vars
  BY VectorNeverEmptied
<1>2. QED BY <1>1, Invariance, PTL DEF Spec, NeverDownToNone

================================================================================
