---------------------------- MODULE PostOfficeProofs ----------------------------
(***************************************************************************)
(* Proofs about PostOffice for every number of threads, mailboxes, calls   *)
(* and messages, and for numbers of any length.                            *)
(***************************************************************************)
EXTENDS PostOffice, Lemmas

Lock(d) == <<"lock", d>>
Done(d) == <<"done", d>>
Box(b) == <<"box", b>>
Waiter(r) == <<"waiter", r>>
Available == <<"messageAvailable", Worker>>

Labels == {"idle", "acquire", "request", "wait", "release", "fetch", "inside", "asleep"}
Calls == Numbers \cup Accesses \cup Mail

(* Every semaphore is binary: a lock or a mailbox is released only by the  *)
(* thread that has it, a device completes a request only once, and nobody  *)
(* signals a thread that does not wait.                                    *)
BinarySemaphores == \A s \in Semaphores : value[s] \in {0, 1}

(***************************************************************************)
(* The inductive invariant: what the drivers rely on ...                   *)
(***************************************************************************)
Dev(u) == Device(job[u])
Critical(u) == pc[u] \in {"request", "wait", "release"}
Awaited(d) == \E u \in Users : pc[u] = "wait" /\ Dev(u) = d

(* Where a call is, and how many requests it has made.                     *)
Progress ==
    \A u \in Users :
        /\ pc[u] \in {"idle", "acquire", "request", "wait", "release"}
        /\ pc[u] = "idle" <=> job[u] = NoJob
        /\ pc[u] \in {"idle", "acquire"} => nth[u] = 0
        /\ pc[u] = "request" => nth[u] < Requests(job[u])
        /\ pc[u] = "wait" => nth[u] \in 1..Requests(job[u])

(* One thread at a time has a device's lock.                               *)
Locks ==
    /\ \A d \in Devices : value[Lock(d)] <= 1
    /\ \A u \in Users : Critical(u) => value[Lock(Dev(u))] = 0
    /\ \A u, v \in Users : Critical(u) /\ Critical(v) /\ Dev(u) = Dev(v) => u = v

(* A request that is waited for is under way or done, and there is no other. *)
Completions ==
    \A d \in Devices :
        /\ busy[d] => due[d]
        /\ Awaited(d) => (due[d] /\ value[Done(d)] = 0) \/ (~due[d] /\ value[Done(d)] = 1)
        /\ ~Awaited(d) => ~due[d] /\ value[Done(d)] = 0

(* A number's next digit comes after its last one.                         *)
LastDigit ==
    \A u \in Users : Critical(u) /\ job[u] \in Numbers /\ nth[u] > 0 =>
        displayed # <<>> /\ displayed[Len(displayed)] = <<job[u], nth[u]>>

OutputInv == Progress /\ Locks /\ Completions /\ LastDigit /\ NumbersUnbroken

(***************************************************************************)
(* ... and what the postal worker and the mailboxes rely on.               *)
(***************************************************************************)
Told ==
    /\ pc[Worker] \in {"idle", "fetch", "acquire", "inside", "release"}
    /\ hand # NoMail <=> pc[Worker] \in {"acquire", "inside", "release"}
    /\ value[Available] <= 1
    /\ ~(value[Available] = 1 /\ pc[Worker] = "fetch")
    /\ WorkerToldOnce

(* One thread at a time is inside a mailbox.                               *)
Inside(t, b) ==
    \/ t = Worker /\ pc[t] \in {"inside", "release"} /\ BoxOf[hand] = b
    \/ t \in Receivers /\ pc[t] = "inside" /\ Reads[t] = b
BoxLocks ==
    \A b \in Boxes :
        /\ value[Box(b)] <= 1
        /\ \A t \in KernelThreads : Inside(t, b) => value[Box(b)] = 0
        /\ \A t, s \in KernelThreads : Inside(t, b) /\ Inside(s, b) => t = s

(* Whoever is on a waiting list sleeps and has not been signalled.         *)
Sleepers ==
    /\ \A b \in Boxes :
        /\ IsInjective(waitQueue[b])
        /\ \A r \in ToSet(waitQueue[b]) : Reads[r] = b /\ pc[r] = "asleep" /\ value[Waiter(r)] = 0
    /\ \A r \in Receivers : value[Waiter(r)] <= 1 /\ (value[Waiter(r)] > 0 => pc[r] = "asleep")

InputInv == Told /\ BoxLocks /\ Sleepers

IInv == TypeOK /\ OutputInv /\ InputInv /\ MailInOrder
--------------------------------------------------------------------------------
(* Each device, box and receiver has semaphores of its own.                *)
LEMMA SemaphoreNames ==
    /\ \A d \in Devices : Lock(d) \in Semaphores /\ Done(d) \in Semaphores
    /\ \A b \in Boxes : Box(b) \in Semaphores
    /\ \A r \in Receivers : Waiter(r) \in Semaphores
    /\ Available \in Semaphores
    /\ \A s \in Semaphores :
        \/ \E d \in Devices : s = Lock(d) \/ s = Done(d)
        \/ \E b \in Boxes : s = Box(b)
        \/ \E r \in Receivers : s = Waiter(r)
        \/ s = Available
BY SemaphoresAssumption DEF Lock, Done, Box, Waiter, Available

(* The semaphores are distinct.                                            *)
LEMMA NamesDiffer ==
    ASSUME NEW x, NEW y
    PROVE  /\ Lock(x) # Done(y) /\ Lock(x) # Box(y) /\ Lock(x) # Waiter(y) /\ Lock(x) # Available
           /\ Done(x) # Box(y) /\ Done(x) # Waiter(y) /\ Done(x) # Available
           /\ Box(x) # Waiter(y) /\ Box(x) # Available /\ Waiter(x) # Available
           /\ (Lock(x) = Lock(y) => x = y) /\ (Done(x) = Done(y) => x = y)
           /\ (Box(x) = Box(y) => x = y) /\ (Waiter(x) = Waiter(y) => x = y)
BY DEF Lock, Done, Box, Waiter, Available

(* P and V change one semaphore, and P leads on or leaves all as it was.   *)
LEMMA VFacts ==
    ASSUME TypeOK, NEW s \in Semaphores, V(s)
    PROVE  /\ queue' \in [Semaphores -> Seq(KernelThreads)]
           /\ value' \in [Semaphores -> Nat]
           /\ value'[s] = value[s] + 1
           /\ \A q \in Semaphores : q # s => value'[q] = value[q]
<1>1. queue' \in [Semaphores -> Seq(KernelThreads)]
  <2>1. queue[s] \in Seq(KernelThreads)
    BY DEF TypeOK
  <2>2. queue[s] # <<>> => Tail(queue[s]) \in Seq(KernelThreads)
    BY <2>1, HeadTailFacts
  <2>3. <<>> \in Seq(KernelThreads)
    OBVIOUS
  <2>4. (IF queue[s] = <<>> THEN <<>> ELSE Tail(queue[s])) \in Seq(KernelThreads)
    BY <2>2, <2>3
  <2>5. QED BY <2>4 DEF TypeOK, V
<1>2. QED BY <1>1 DEF TypeOK, V

LEMMA GotoFacts ==
    ASSUME TypeOK, NEW t \in KernelThreads, NEW l \in Labels, Goto(t, l)
    PROVE  /\ pc' \in [KernelThreads -> Labels]
           /\ pc'[t] = l
           /\ \A q \in KernelThreads : q # t => pc'[q] = pc[q]
BY DEF TypeOK, Goto, Labels

(* P takes a unit and leads on, or leaves the caller asleep where it is.   *)
LEMMA PFacts ==
    ASSUME TypeOK, NEW s \in Semaphores, NEW t \in KernelThreads, NEW l \in Labels, P(t, s, l)
    PROVE  /\ queue' \in [Semaphores -> Seq(KernelThreads)]
           /\ \/ UNCHANGED <<value, pc>>
              \/ /\ value[s] > 0
                 /\ value' \in [Semaphores -> Nat]
                 /\ value'[s] = value[s] - 1
                 /\ \A q \in Semaphores : q # s => value'[q] = value[q]
                 /\ Goto(t, l)
<1>1. queue' \in [Semaphores -> Seq(KernelThreads)]
  <2>1. Append(queue[s], t) \in Seq(KernelThreads)
    BY DEF TypeOK
  <2>2. QED BY <2>1 DEF TypeOK, P
<1>2. QED BY <1>1 DEF TypeOK, P

(* The threads of the two halves of the system.                            *)
LEMMA ThreadFacts ==
    /\ \A u \in Users : u \in KernelThreads /\ u # Worker /\ u \notin Receivers
    /\ \A r \in Receivers : r \in KernelThreads /\ r # Worker /\ r \notin Users
    /\ Worker \in KernelThreads /\ Worker \notin Users /\ Worker \notin Receivers
BY ThreadsAssumption

(* What a job asks of which device.                                        *)
LEMMA DeviceFacts ==
    ASSUME NEW j
    PROVE  /\ Device(j) \in Devices
           /\ j \in Numbers => Device(j) = "display" /\ Requests(j) = Digits
           /\ j \in Accesses => Device(j) = "disk" /\ Requests(j) = 1
           /\ j \in Mail => Device(j) = "network" /\ Requests(j) = 1
           /\ Requests(j) \in 1..Digits
           /\ Device(j) = "display" => j \in Numbers
BY CallsAssumption DEF Device, Devices, Requests
--------------------------------------------------------------------------------
(* A step of the one half leaves the other's invariant alone.              *)
LEMMA OutputAlone ==
    ASSUME OutputInv, UNCHANGED output,
           \A u \in Users : pc'[u] = pc[u],
           \A d \in Devices : value'[Lock(d)] = value[Lock(d)] /\ value'[Done(d)] = value[Done(d)]
    PROVE  OutputInv'
<1>1. /\ job' = job /\ nth' = nth /\ busy' = busy /\ due' = due /\ displayed' = displayed
  BY DEF output
<1>2. \A u \in Users : Dev(u)' = Dev(u) /\ Dev(u) \in Devices /\ (Critical(u)' <=> Critical(u))
  BY <1>1, DeviceFacts DEF Dev, Critical
<1>3. \A d \in Devices : Awaited(d)' <=> Awaited(d)
  BY <1>2 DEF Awaited
<1>4. Progress'
  BY <1>1 DEF OutputInv, Progress
<1>5. Locks'
  BY <1>2 DEF OutputInv, Locks
<1>6. Completions'
  BY <1>1, <1>3 DEF OutputInv, Completions
<1>7. LastDigit' /\ NumbersUnbroken'
  BY <1>1, <1>2 DEF OutputInv, LastDigit, NumbersUnbroken
<1>8. QED BY <1>4, <1>5, <1>6, <1>7 DEF OutputInv

(* A sender's step does not disturb the receiving half.                    *)
LEMMA InputAlone ==
    ASSUME TypeOK, InputInv, UNCHANGED <<inbox, hand, waitQueue>>,
           \A t \in Receivers \cup {Worker} : pc'[t] = pc[t],
           \A b \in Boxes : value'[Box(b)] = value[Box(b)],
           \A r \in Receivers : value'[Waiter(r)] = value[Waiter(r)],
           value'[Available] = value[Available]
    PROVE  InputInv'
<1>1. Told'
  BY DEF InputInv, Told, WorkerToldOnce, Available
<1>2. \A t \in KernelThreads, b \in Boxes : Inside(t, b)' <=> Inside(t, b)
  BY DEF Inside
<1>3. BoxLocks'
  BY <1>2 DEF InputInv, BoxLocks
<1>4. Sleepers'
  <2>1. \A b \in Boxes : ToSet(waitQueue[b]) \subseteq Receivers
    BY SetOfSeq DEF TypeOK
  <2>2. \A r \in Receivers : pc'[r] = pc[r] /\ value'[Waiter(r)] = value[Waiter(r)]
    OBVIOUS
  <2>3. QED BY <2>1, <2>2 DEF InputInv, Sleepers
<1>5. QED BY <1>1, <1>3, <1>4 DEF InputInv

(* A step that moves no mail keeps it in order.                            *)
LEMMA MailAlone ==
    ASSUME MailInOrder, UNCHANGED <<inbox, hand, wire, sent, mailbox, received>>,
           (pc'[Worker] = "release") <=> (pc[Worker] = "release")
    PROVE  MailInOrder'
<1>1. InHand' = InHand
  BY DEF InHand
<1>2. Arriving' = Arriving
  BY <1>1 DEF Arriving
<1>3. QED BY <1>2 DEF MailInOrder
--------------------------------------------------------------------------------
(* Every step keeps the invariant: first the initial states ...            *)
LEMMA InitHolds == Init => IInv
<1> SUFFICES ASSUME Init PROVE IInv
  OBVIOUS
<1> USE SemaphoreNames, ThreadFacts
<1>1. /\ \A d \in Devices : value[Lock(d)] = 1 /\ value[Done(d)] = 0
      /\ \A b \in Boxes : value[Box(b)] = 1
      /\ \A r \in Receivers : value[Waiter(r)] = 0
      /\ value[Available] = 0
  BY SemaphoresAssumption DEF Init, SynchInit, Lock, Done, Box, Waiter, Available
<1>2. /\ \A u \in Users : pc[u] = "idle" /\ job[u] = NoJob /\ nth[u] = 0
      /\ \A r \in Receivers : pc[r] = "acquire"
      /\ pc[Worker] = "idle" /\ hand = NoMail /\ inbox = NoMail
      /\ displayed = <<>> /\ sent = <<>> /\ wire = <<>>
      /\ \A d \in Devices : ~busy[d] /\ ~due[d]
      /\ \A b \in Boxes : mailbox[b] = <<>> /\ received[b] = <<>> /\ waitQueue[b] = <<>>
  BY DEF Init, SynchInit
<1>3. TypeOK
  <2>1. todo \subseteq Numbers \cup Accesses \cup Mail
    BY CallsAssumption DEF Init
  <2>2. value \in [Semaphores -> Nat] /\ queue \in [Semaphores -> Seq(KernelThreads)]
    BY InitiallyAssumption DEF Init, SynchInit
  <2>3. nth \in [Users -> 0..Digits]
    BY CallsAssumption DEF Init
  <2>4. QED BY <2>1, <2>2, <2>3 DEF Init, SynchInit, TypeOK
<1>4. OutputInv
  <2>1. Progress
    BY <1>2 DEF Progress
  <2>2. Locks
    BY <1>1, <1>2 DEF Locks, Critical
  <2>3. Completions
    BY <1>1, <1>2 DEF Completions, Awaited
  <2>4. LastDigit /\ NumbersUnbroken
    BY <1>2 DEF LastDigit, Critical, NumbersUnbroken
  <2>5. QED BY <2>1, <2>2, <2>3, <2>4 DEF OutputInv
<1>5. InputInv
  <2>1. Told
    BY <1>1, <1>2 DEF Told, WorkerToldOnce, Available
  <2>2. BoxLocks
    BY <1>1, <1>2 DEF BoxLocks, Inside
  <2>3. Sleepers
    BY <1>1, <1>2, EmptySeqFacts DEF Sleepers
  <2>4. QED BY <2>1, <2>2, <2>3 DEF InputInv
<1>6. MailInOrder
  <2>1. Arriving = <<>>
    BY <1>2 DEF Arriving, InHand
  <2>2. ASSUME NEW b \in Boxes PROVE Kept(Arriving, To(b)) = <<>> /\ Kept(sent, To(b)) = <<>>
    BY <1>2, <2>1, KeptEmpty, Zenon
  <2>3. (<<>> \o <<>>) \o <<>> = <<>>
    OBVIOUS
  <2>4. QED BY <1>2, <2>2, <2>3, Zenon DEF MailInOrder
<1>7. QED BY <1>3, <1>4, <1>5, <1>6 DEF IInv

(* ... then a thread that falls asleep on a semaphore ...                  *)
LEMMA AsleepKeeps ==
    ASSUME IInv, queue' \in [Semaphores -> Seq(KernelThreads)],
           UNCHANGED <<value, pc>>, UNCHANGED <<output, wire, input>>
    PROVE  IInv'
<1>1. TypeOK'
  BY DEF IInv, TypeOK, output, input
<1>2. OutputInv'
  BY OutputAlone DEF IInv
<1>3. InputInv'
  BY InputAlone DEF IInv, input
<1>4. MailInOrder'
  BY MailAlone DEF IInv, output, input
<1>5. QED BY <1>1, <1>2, <1>3, <1>4 DEF IInv

(* Sent mail that reaches the socket is the last to arrive.                *)
LEMMA SentInOrder ==
    ASSUME TypeOK, MailInOrder, NEW m \in Mail,
           UNCHANGED <<inbox, hand, mailbox, received>>, pc'[Worker] = pc[Worker],
           wire' = Append(wire, m), sent' = Append(sent, m)
    PROVE  wire' \in Seq(Mail) /\ sent' \in Seq(Mail) /\ MailInOrder'
<1>1. wire \in Seq(Mail) /\ sent \in Seq(Mail) /\ wire' \in Seq(Mail) /\ sent' \in Seq(Mail)
  BY DEF TypeOK
<1> DEFINE front == InHand \o (IF inbox = NoMail THEN <<>> ELSE <<inbox>>)
<1>2. front \in Seq(Mail) /\ Arriving = front \o wire /\ Arriving' = front \o wire'
  BY DEF TypeOK, InHand, Arriving
<1> HIDE DEF front
<1>3. Arriving' = Append(Arriving, m) /\ Arriving \in Seq(Mail)
  BY <1>1, <1>2, ConcatAppend
<1>4. ASSUME NEW b \in Boxes
      PROVE  received'[b] \o mailbox'[b] \o Kept(Arriving, To(b))' = Kept(sent, To(b))'
  <2> DEFINE r == received[b] \o mailbox[b]
             k == Kept(Arriving, To(b))
             s == Kept(sent, To(b))
  <2>1. r \in Seq(Mail) /\ k \in Seq(Mail) /\ s \in Seq(Mail) /\ r \o k = s
    BY <1>1, <1>3, KeptSet DEF TypeOK, MailInOrder
  <2>2. /\ Kept(Arriving', To(b)) = IF m \in To(b) THEN Append(k, m) ELSE k
        /\ Kept(sent', To(b)) = IF m \in To(b) THEN Append(s, m) ELSE s
    <3>1. \A v \in Seq(Mail), y \in Mail :
            Kept(Append(v, y), To(b)) = IF y \in To(b) THEN Append(Kept(v, To(b)), y) ELSE Kept(v, To(b))
      BY KeptAppend
    <3>2. QED BY <1>1, <1>3, <3>1, Zenon
  <2>3. received'[b] \o mailbox'[b] = r
    OBVIOUS
  <2> HIDE DEF r, k, s
  <2>4. r \o Append(k, m) = Append(s, m)
    BY <2>1, ConcatAppend
  <2>5. QED BY <2>1, <2>2, <2>3, <2>4
<1>5. QED BY <1>1, <1>4 DEF MailInOrder

(* ... the calls on the devices ...                                        *)
LEMMA UserAlone ==
    ASSUME IInv, NEW u \in Users, \A q \in KernelThreads : q # u => pc'[q] = pc[q],
           \A b \in Boxes : value'[Box(b)] = value[Box(b)],
           \A r \in Receivers : value'[Waiter(r)] = value[Waiter(r)],
           value'[Available] = value[Available],
           UNCHANGED input
    PROVE  InputInv' /\ (UNCHANGED <<wire, sent>> => MailInOrder')
<1>1. \A t \in Receivers \cup {Worker} : pc'[t] = pc[t]
  BY ThreadFacts
<1>2. InputInv'
  BY <1>1, InputAlone DEF IInv, input
<1>3. UNCHANGED <<wire, sent>> => MailInOrder'
  BY <1>1, MailAlone DEF IInv, input
<1>4. QED BY <1>2, <1>3

(* A user starts a job.                                                    *)
LEMMA CallKeeps == ASSUME IInv, NEW u \in Users, Call(u) PROVE IInv'
<1>1. TypeOK /\ OutputInv /\ u \in KernelThreads
  BY ThreadFacts DEF IInv
<1>2. PICK j \in todo : todo' = todo \ {j} /\ job' = [job EXCEPT ![u] = j]
  BY DEF Call
<1>3. /\ pc[u] = "idle" /\ pc' \in [KernelThreads -> Labels] /\ pc'[u] = "acquire"
      /\ \A q \in KernelThreads : q # u => pc'[q] = pc[q]
  BY <1>1, GotoFacts DEF Call, At, Labels
<1>4. j \in Calls /\ j # NoJob /\ nth[u] = 0
  BY <1>1, <1>2, <1>3, CallsAssumption DEF TypeOK, Calls, OutputInv, Progress
<1>5. \A v \in Users : job'[v] = IF v = u THEN j ELSE job[v]
  BY <1>1, <1>2 DEF TypeOK
<1>6. /\ UNCHANGED <<value, queue>> /\ UNCHANGED <<nth, busy, due, displayed, sent, wire, input>>
  BY DEF Call, semaphores
<1>7. TypeOK'
  <2>1. job' \in [Users -> Numbers \cup Accesses \cup Mail \cup {NoJob}]
    BY <1>1, <1>2, <1>4 DEF TypeOK, Calls
  <2>2. QED BY <1>1, <1>2, <1>3, <1>6, <2>1 DEF TypeOK, input, Labels
<1>8. InputInv' /\ MailInOrder'
  BY <1>3, <1>6, UserAlone
<1>9. OutputInv'
  <2>1. \A v \in Users : v \in KernelThreads
    BY ThreadFacts
  <2>2. \A v \in Users : v # u => Dev(v)' = Dev(v) /\ pc'[v] = pc[v]
    BY <1>3, <1>5, <2>1 DEF Dev
  <2>3. \A v \in Users : /\ Critical(v)' <=> Critical(v)
                         /\ Critical(v) => v # u
    BY <1>3, <2>2 DEF Critical
  <2>4. Progress'
    BY <1>1, <1>3, <1>4, <1>5, <1>6, <2>1 DEF OutputInv, Progress
  <2>5. Locks'
    BY <1>1, <1>6, <2>2, <2>3 DEF OutputInv, Locks
  <2>6. \A d \in Devices : Awaited(d)' <=> Awaited(d)
    BY <1>3, <2>2 DEF Awaited
  <2>7. Completions'
    BY <1>1, <1>6, <2>6 DEF OutputInv, Completions
  <2>8. LastDigit' /\ NumbersUnbroken'
    BY <1>1, <1>5, <1>6, <2>3 DEF OutputInv, LastDigit, NumbersUnbroken
  <2>9. QED BY <2>4, <2>5, <2>7, <2>8 DEF OutputInv
<1>10. QED BY <1>7, <1>8, <1>9 DEF IInv

(* P on the device's lock.                                                 *)
LEMMA AcquireDeviceKeeps == ASSUME IInv, NEW u \in Users, AcquireDevice(u) PROVE IInv'
<1> DEFINE d == Dev(u)
<1>1. TypeOK /\ OutputInv /\ u \in KernelThreads /\ d \in Devices /\ Lock(d) \in Semaphores
  BY ThreadFacts, DeviceFacts, SemaphoreNames DEF IInv, Dev
<1>2. pc[u] = "acquire" /\ P(u, Lock(d), "request") /\ UNCHANGED <<output, wire, input>>
  BY DEF AcquireDevice, At, Lock, Dev
<1> HIDE DEF d
<1>3. queue' \in [Semaphores -> Seq(KernelThreads)]
  BY <1>1, <1>2, PFacts DEF Labels
<1>4. CASE UNCHANGED <<value, pc>>
  BY <1>2, <1>3, <1>4, AsleepKeeps
<1>5. ASSUME value[Lock(d)] > 0, value' \in [Semaphores -> Nat],
             value'[Lock(d)] = value[Lock(d)] - 1,
             \A q \in Semaphores : q # Lock(d) => value'[q] = value[q],
             Goto(u, "request")
      PROVE  IInv'
  <2>1. /\ pc' \in [KernelThreads -> Labels] /\ pc'[u] = "request"
        /\ \A q \in KernelThreads : q # u => pc'[q] = pc[q]
    BY <1>1, <1>5, GotoFacts DEF Labels
  <2>2. TypeOK'
    BY <1>1, <1>2, <1>3, <1>5, <2>1 DEF TypeOK, output, input, Labels
  <2>3. /\ \A e \in Devices : /\ e # d => value'[Lock(e)] = value[Lock(e)]
                              /\ value'[Done(e)] = value[Done(e)]
        /\ \A b \in Boxes : value'[Box(b)] = value[Box(b)]
        /\ \A r \in Receivers : value'[Waiter(r)] = value[Waiter(r)]
        /\ value'[Available] = value[Available]
    BY <1>5, SemaphoreNames, NamesDiffer
  <2>4. InputInv' /\ MailInOrder'
    <3>1. UNCHANGED input /\ UNCHANGED <<wire, sent>>
      BY <1>2 DEF output
    <3>2. QED BY <2>1, <2>3, <3>1, UserAlone
  <2>5. /\ job' = job /\ nth' = nth /\ busy' = busy /\ due' = due /\ displayed' = displayed
    BY <1>2 DEF output
  <2>6. \A v \in Users : Dev(v)' = Dev(v) /\ v \in KernelThreads /\ Dev(v) \in Devices
    BY <2>5, ThreadFacts, DeviceFacts DEF Dev
  <2>7. \A v \in Users : Critical(v)' <=> Critical(v) \/ v = u
    BY <2>1, <2>6 DEF Critical
  <2>8. value[Lock(d)] = 1 /\ value'[Lock(d)] = 0
    BY <1>1, <1>5 DEF TypeOK, OutputInv, Locks
  <2>9. \A v \in Users : Critical(v) => Dev(v) # d
    BY <1>1, <2>8 DEF OutputInv, Locks
  <2>10. nth[u] = 0 /\ job[u] # NoJob /\ Requests(job[u]) > 0
    BY <1>1, <1>2, DeviceFacts DEF OutputInv, Progress
  <2>11. Progress'
    BY <1>1, <2>1, <2>5, <2>6, <2>10 DEF OutputInv, Progress
  <2>12. Locks'
    <3>1. \A e \in Devices : value'[Lock(e)] <= 1
      BY <1>1, <2>3, <2>8 DEF OutputInv, Locks
    <3>2. \A v \in Users : Critical(v)' => value'[Lock(Dev(v))] = 0
      BY <1>1, <2>3, <2>6, <2>7, <2>8, <2>9 DEF OutputInv, Locks, d
    <3>3. \A v, w \in Users : Critical(v)' /\ Critical(w)' /\ Dev(v) = Dev(w) => v = w
      BY <1>1, <2>7, <2>9 DEF OutputInv, Locks, d
    <3>4. QED BY <2>6, <3>1, <3>2, <3>3 DEF Locks
  <2>13. \A e \in Devices : Awaited(e)' <=> Awaited(e)
    BY <1>2, <2>1, <2>6 DEF Awaited
  <2>14. Completions'
    BY <1>1, <2>3, <2>5, <2>13 DEF OutputInv, Completions
  <2>15. LastDigit' /\ NumbersUnbroken'
    BY <1>1, <2>5, <2>7, <2>10 DEF OutputInv, LastDigit, NumbersUnbroken
  <2>16. QED BY <2>2, <2>4, <2>11, <2>12, <2>14, <2>15 DEF IInv, OutputInv
<1>6. QED
  <2>1. "request" \in Labels
    BY DEF Labels
  <2>2. QED BY <1>1, <1>2, <1>4, <1>5, <2>1, PFacts

(* The request to the device.                                              *)
LEMMA RequestKeeps == ASSUME IInv, NEW u \in Users, Request(u) PROVE IInv'
<1> DEFINE j == job[u]
<1>0. PICK d \in Devices : d = Dev(u)
  BY DeviceFacts DEF Dev
<1>1. TypeOK /\ OutputInv /\ u \in KernelThreads /\ d \in Devices
  BY ThreadFacts DEF IInv
<1>2. /\ pc[u] = "request"
      /\ nth' = [nth EXCEPT ![u] = @ + 1] /\ due' = [due EXCEPT ![d] = TRUE]
      /\ UNCHANGED <<value, queue>> /\ UNCHANGED <<todo, job, input>>
  BY <1>0 DEF Request, At, semaphores, Dev
<1>3. /\ pc' \in [KernelThreads -> Labels] /\ pc'[u] = "wait"
      /\ \A q \in KernelThreads : q # u => pc'[q] = pc[q]
  BY <1>1, GotoFacts DEF Request, Labels
<1>r. PutChar(u) \/ AccessSector(u) \/ Transmit(u)
  BY DEF Request
<1>4. /\ j # NoJob /\ nth[u] \in 0..Digits /\ nth[u] < Requests(j)
      /\ Requests(j) \in 1..Digits
      /\ nth[u] + 1 \in 1..Requests(j) /\ nth[u] + 1 \in 1..Digits
  <2>1. Requests(j) \in 1..Digits /\ Digits \in Nat
    BY DeviceFacts, CallsAssumption
  <2>2. j # NoJob /\ nth[u] \in 0..Digits /\ nth[u] < Requests(j)
    BY <1>1, <1>2 DEF TypeOK, OutputInv, Progress
  <2> HIDE DEF j
  <2>3. QED BY <2>1, <2>2
<1>5. /\ \A v \in Users : nth'[v] = IF v = u THEN nth[u] + 1 ELSE nth[v]
      /\ \A e \in Devices : due'[e] = IF e = d THEN TRUE ELSE due[e]
  BY <1>1, <1>2 DEF TypeOK
<1>6. \A v \in Users : /\ v \in KernelThreads /\ Dev(v)' = Dev(v) /\ Dev(v) \in Devices
                       /\ Critical(v)' <=> Critical(v)
  <2> SUFFICES ASSUME NEW v \in Users
               PROVE  /\ v \in KernelThreads /\ Dev(v)' = Dev(v) /\ Dev(v) \in Devices
                      /\ Critical(v)' <=> Critical(v)
    OBVIOUS
  <2>1. v \in KernelThreads /\ Dev(v)' = Dev(v) /\ Dev(v) \in Devices
    BY <1>2, ThreadFacts, DeviceFacts DEF Dev
  <2>2. Critical(v)' <=> Critical(v)
    BY <1>2, <1>3, <2>1 DEF Critical
  <2>3. QED BY <2>1, <2>2
<1>7. \A v \in Users : Critical(v) /\ Dev(v) = d => v = u
  BY <1>0, <1>1, <1>2 DEF OutputInv, Locks, Critical
<1>8. ~Awaited(d) /\ ~due[d] /\ value[Done(d)] = 0
  <2>1. ~Awaited(d)
    BY <1>0, <1>2, <1>7 DEF Awaited, Critical
  <2>2. QED BY <1>1, <2>1 DEF OutputInv, Completions
<1>9. /\ busy' \in [Devices -> BOOLEAN]
      /\ \A e \in Devices : e # d => busy'[e] = busy[e]
  <2>1. {"display", "disk"} \subseteq Devices
    BY DEF Devices
  <2>2. CASE PutChar(u)
    <3>1. d = "display"
      BY <1>0, <2>2, DeviceFacts DEF PutChar, Dev
    <3>2. busy' = [busy EXCEPT !["display"] = TRUE] /\ busy \in [Devices -> BOOLEAN]
      BY <1>1, <2>2 DEF TypeOK, PutChar
    <3>3. QED BY <2>1, <3>1, <3>2
  <2>3. CASE AccessSector(u)
    <3>1. d = "disk"
      BY <1>0, <2>3, DeviceFacts DEF AccessSector, Dev
    <3>2. busy' = [busy EXCEPT !["disk"] = TRUE] /\ busy \in [Devices -> BOOLEAN]
      BY <1>1, <2>3 DEF TypeOK, AccessSector
    <3>3. QED BY <2>1, <3>1, <3>2
  <2>4. CASE Transmit(u)
    BY <1>1, <2>4 DEF TypeOK, Transmit
  <2>5. QED BY <1>r, <2>2, <2>3, <2>4
<1>10. /\ displayed' \in Seq(Numbers \X (1..Digits))
       /\ \/ displayed' = displayed /\ j \notin Numbers
          \/ displayed' = Append(displayed, <<j, nth[u] + 1>>) /\ j \in Numbers
  <2>1. CASE PutChar(u)
    <3>1. <<j, nth[u] + 1>> \in Numbers \X (1..Digits)
      BY <1>4, <2>1 DEF PutChar
    <3>2. QED BY <1>1, <2>1, <3>1 DEF TypeOK, PutChar
  <2>2. CASE AccessSector(u) \/ Transmit(u)
    BY <1>1, <2>2, CallsAssumption DEF TypeOK, AccessSector, Transmit
  <2>3. QED BY <1>r, <2>1, <2>2
<1>11. /\ wire' \in Seq(Mail) /\ sent' \in Seq(Mail) /\ MailInOrder'
  <2>1. UNCHANGED <<inbox, hand, mailbox, received>> /\ pc'[Worker] = pc[Worker]
    BY <1>2, <1>3, ThreadFacts DEF input
  <2>2. CASE UNCHANGED <<wire, sent>>
    BY <1>1, <2>1, <2>2, MailAlone DEF IInv, TypeOK
  <2>3. CASE j \in Mail /\ wire' = Append(wire, j) /\ sent' = Append(sent, j)
    BY <2>1, <2>3, SentInOrder DEF IInv
  <2>4. QED BY <1>r, <2>2, <2>3 DEF PutChar, AccessSector, Transmit
<1>12. TypeOK'
  <2>1. nth' \in [Users -> 0..Digits] /\ due' \in [Devices -> BOOLEAN]
    BY <1>1, <1>2, <1>4 DEF TypeOK
  <2>2. QED BY <1>1, <1>2, <1>3, <1>9, <1>10, <1>11, <2>1 DEF TypeOK, input, Labels
<1>13. InputInv'
  BY <1>2, <1>3, UserAlone
<1>14. Progress'
  BY <1>1, <1>2, <1>3, <1>4, <1>5, <1>6 DEF OutputInv, Progress
<1>15. Locks'
  BY <1>1, <1>2, <1>6 DEF OutputInv, Locks
<1>16. Completions'
  <2>1. Awaited(d)' /\ \A e \in Devices : e # d => (Awaited(e)' <=> Awaited(e))
    BY <1>0, <1>3, <1>6, <1>7 DEF Awaited, Critical
  <2>2. due'[d] /\ value'[Done(d)] = 0
    BY <1>1, <1>2, <1>5, <1>8
  <2>3. \A e \in Devices : e # d => /\ busy'[e] = busy[e] /\ due'[e] = due[e]
                                    /\ value'[Done(e)] = value[Done(e)]
    BY <1>2, <1>5, <1>9
  <2> SUFFICES ASSUME NEW e \in Devices
               PROVE  /\ busy'[e] => due'[e]
                      /\ Awaited(e)' => \/ due'[e] /\ value'[Done(e)] = 0
                                        \/ ~due'[e] /\ value'[Done(e)] = 1
                      /\ ~Awaited(e)' => ~due'[e] /\ value'[Done(e)] = 0
    BY DEF Completions
  <2>4. CASE e = d
    BY <2>1, <2>2, <2>4, Zenon
  <2>5. CASE e # d
    BY <1>1, <2>1, <2>3, <2>5 DEF OutputInv, Completions
  <2>6. QED BY <2>4, <2>5
<1>17. LastDigit'
  <2> SUFFICES ASSUME NEW v \in Users, Critical(v), job[v] \in Numbers, nth'[v] > 0
               PROVE  displayed' # <<>> /\ displayed'[Len(displayed')] = <<job[v], nth'[v]>>
    BY <1>2, <1>6 DEF LastDigit
  <2>1. CASE j \in Numbers
    <3>1. v = u
      BY <1>0, <1>7, <2>1, DeviceFacts DEF Dev
    <3>2. displayed' = Append(displayed, <<j, nth[u] + 1>>)
      BY <1>10, <2>1
    <3>3. displayed \in Seq(Numbers \X (1..Digits)) /\ <<j, nth[u] + 1>> \in Numbers \X (1..Digits)
      BY <1>1, <1>4, <2>1 DEF TypeOK
    <3>4. displayed' # <<>> /\ displayed'[Len(displayed')] = <<j, nth[u] + 1>>
      BY <3>2, <3>3
    <3>5. QED BY <1>5, <3>1, <3>4
  <2>2. CASE j \notin Numbers
    BY <1>1, <1>5, <1>10, <2>2 DEF OutputInv, LastDigit
  <2>3. QED BY <2>1, <2>2
<1>18. NumbersUnbroken'
  <2>1. CASE displayed' = displayed
    BY <1>1, <2>1 DEF OutputInv, NumbersUnbroken
  <2>2. CASE displayed' = Append(displayed, <<j, nth[u] + 1>>) /\ j \in Numbers
    <3> DEFINE x == <<j, nth[u] + 1>>
               n == Len(displayed)
    <3>1. /\ n \in Nat /\ Len(displayed') = n + 1 /\ displayed'[n + 1] = x
          /\ \A i \in 1..n : displayed'[i] = displayed[i]
      <4>1. displayed \in Seq(Numbers \X (1..Digits)) /\ x \in Numbers \X (1..Digits)
        BY <1>1, <1>4, <2>2 DEF TypeOK
      <4>2. QED BY <2>2, <4>1
    <3>2. nth[u] # 0 => n > 0 /\ displayed[n] = <<j, nth[u]>>
      <4>1. nth[u] # 0 => nth[u] > 0
        BY <1>4
      <4>2. displayed # <<>> => n > 0
        BY <1>1 DEF TypeOK
      <4>3. QED BY <1>1, <1>2, <2>2, <4>1, <4>2 DEF OutputInv, LastDigit, Critical
    <3>3. x[1] = j /\ x[2] = nth[u] + 1
      OBVIOUS
    <3> HIDE DEF x, n
    <3> SUFFICES ASSUME NEW i \in 2..(n + 1), displayed'[i][2] # 1
                 PROVE  displayed'[i - 1] = <<displayed'[i][1], displayed'[i][2] - 1>>
      BY <3>1 DEF NumbersUnbroken
    <3>4. CASE i = n + 1
      <4>1. displayed'[i] = x /\ nth[u] # 0 /\ (n + 1) - 1 = n /\ (nth[u] + 1) - 1 = nth[u]
        BY <1>4, <3>1, <3>3, <3>4
      <4>2. n \in 1..n /\ displayed'[n] = displayed[n]
        BY <3>1, <3>2, <4>1
      <4>3. QED BY <3>2, <3>3, <3>4, <4>1, <4>2
    <3>5. CASE i # n + 1
      <4>1. i \in 2..n /\ i \in 1..n /\ i - 1 \in 1..n
        BY <3>1, <3>5
      <4>2. displayed[i][2] # 1 => displayed[i - 1] = <<displayed[i][1], displayed[i][2] - 1>>
        BY <1>1, <4>1 DEF OutputInv, NumbersUnbroken, n
      <4>3. displayed'[i] = displayed[i] /\ displayed'[i - 1] = displayed[i - 1]
        BY <3>1, <4>1
      <4>4. QED BY <4>2, <4>3
    <3>6. QED BY <3>4, <3>5
  <2>3. QED BY <1>10, <2>1, <2>2
<1>19. QED BY <1>11, <1>12, <1>13, <1>14, <1>15, <1>16, <1>17, <1>18 DEF IInv, OutputInv

(* P on the device's completion.                                           *)
LEMMA AwaitDeviceKeeps == ASSUME IInv, NEW u \in Users, AwaitDevice(u) PROVE IInv'
<1> DEFINE next == IF nth[u] < Requests(job[u]) THEN "request" ELSE "release"
<1>0. PICK d \in Devices : d = Dev(u)
  BY DeviceFacts DEF Dev
<1>1. TypeOK /\ OutputInv /\ u \in KernelThreads /\ d \in Devices /\ Done(d) \in Semaphores
  BY ThreadFacts, SemaphoreNames DEF IInv
<1>2. pc[u] = "wait" /\ P(u, Done(d), next) /\ UNCHANGED <<output, wire, input>>
  BY <1>0 DEF AwaitDevice, At, Done, Dev
<1>3. next \in {"request", "release"} /\ (next = "request" => nth[u] < Requests(job[u]))
  OBVIOUS
<1> HIDE DEF next
<1>4. queue' \in [Semaphores -> Seq(KernelThreads)]
  BY <1>1, <1>2, <1>3, PFacts DEF Labels
<1>5. CASE UNCHANGED <<value, pc>>
  BY <1>2, <1>4, <1>5, AsleepKeeps
<1>6. ASSUME value[Done(d)] > 0, value' \in [Semaphores -> Nat],
             value'[Done(d)] = value[Done(d)] - 1,
             \A q \in Semaphores : q # Done(d) => value'[q] = value[q],
             Goto(u, next)
      PROVE  IInv'
  <2>1. /\ pc' \in [KernelThreads -> Labels] /\ pc'[u] = next
        /\ \A q \in KernelThreads : q # u => pc'[q] = pc[q]
    BY <1>1, <1>3, <1>6, GotoFacts DEF Labels
  <2>2. TypeOK'
    BY <1>1, <1>2, <1>4, <1>6, <2>1 DEF TypeOK, output, input, Labels
  <2>3. /\ \A e \in Devices : /\ value'[Lock(e)] = value[Lock(e)]
                              /\ e # d => value'[Done(e)] = value[Done(e)]
        /\ \A b \in Boxes : value'[Box(b)] = value[Box(b)]
        /\ \A r \in Receivers : value'[Waiter(r)] = value[Waiter(r)]
        /\ value'[Available] = value[Available]
    BY <1>6, SemaphoreNames, NamesDiffer
  <2>4. InputInv' /\ MailInOrder'
    <3>1. UNCHANGED input /\ UNCHANGED <<wire, sent>>
      BY <1>2 DEF output
    <3>2. QED BY <2>1, <2>3, <3>1, UserAlone
  <2>5. /\ job' = job /\ nth' = nth /\ busy' = busy /\ due' = due /\ displayed' = displayed
    BY <1>2 DEF output
  <2>6. \A v \in Users : Dev(v)' = Dev(v) /\ v \in KernelThreads /\ Dev(v) \in Devices
    BY <2>5, ThreadFacts, DeviceFacts DEF Dev
  <2>7. \A v \in Users : Critical(v)' <=> Critical(v)
    BY <1>2, <1>3, <2>1, <2>6 DEF Critical
  <2>8. \A v \in Users : Critical(v) /\ Dev(v) = d => v = u
    BY <1>0, <1>1, <1>2 DEF OutputInv, Locks, Critical
  <2>9. Awaited(d)
    BY <1>0, <1>2 DEF Awaited
  <2>10. ~due[d] /\ ~busy[d] /\ value[Done(d)] = 1 /\ value'[Done(d)] = 0
    <3>1. ~due[d] /\ value[Done(d)] = 1
      BY <1>1, <1>6, <2>9 DEF OutputInv, Completions
    <3>2. ~busy[d]
      BY <1>1, <3>1 DEF OutputInv, Completions
    <3>3. QED BY <1>6, <3>1, <3>2
  <2>11. ~Awaited(d)'
    BY <1>3, <2>1, <2>6, <2>7, <2>8 DEF Awaited, Critical
  <2>12. \A e \in Devices : e # d => (Awaited(e)' <=> Awaited(e))
    BY <1>0, <2>1, <2>6 DEF Awaited
  <2>13. Progress'
    <3>1. job[u] # NoJob
      BY <1>1, <1>2 DEF OutputInv, Progress
    <3>2. QED BY <1>1, <1>3, <2>1, <2>5, <2>6, <3>1 DEF OutputInv, Progress
  <2>14. Locks'
    BY <1>1, <2>3, <2>6, <2>7 DEF OutputInv, Locks
  <2>15. Completions'
    <3> SUFFICES ASSUME NEW e \in Devices
                 PROVE  /\ busy'[e] => due'[e]
                        /\ Awaited(e)' => \/ due'[e] /\ value'[Done(e)] = 0
                                          \/ ~due'[e] /\ value'[Done(e)] = 1
                        /\ ~Awaited(e)' => ~due'[e] /\ value'[Done(e)] = 0
      BY DEF Completions
    <3>1. CASE e = d
      BY <2>5, <2>10, <2>11, <3>1, Zenon
    <3>2. CASE e # d
      BY <1>1, <2>3, <2>5, <2>12, <3>2 DEF OutputInv, Completions
    <3>3. QED BY <3>1, <3>2
  <2>16. LastDigit' /\ NumbersUnbroken'
    BY <1>1, <2>5, <2>7 DEF OutputInv, LastDigit, NumbersUnbroken
  <2>17. QED BY <2>2, <2>4, <2>13, <2>14, <2>15, <2>16 DEF IInv, OutputInv
<1>7. QED
  <2>1. next \in Labels
    BY <1>3 DEF Labels
  <2>2. QED BY <1>1, <1>2, <1>5, <1>6, <2>1, PFacts

(* V on the device's lock.                                                 *)
LEMMA ReleaseDeviceKeeps == ASSUME IInv, NEW u \in Users, ReleaseDevice(u) PROVE IInv'
<1> DEFINE d == Dev(u)
<1>1. TypeOK /\ OutputInv /\ u \in KernelThreads /\ d \in Devices /\ Lock(d) \in Semaphores
  BY ThreadFacts, DeviceFacts, SemaphoreNames DEF IInv, Dev
<1>2. /\ pc[u] = "release" /\ V(Lock(d)) /\ Goto(u, "idle")
      /\ job' = [job EXCEPT ![u] = NoJob] /\ nth' = [nth EXCEPT ![u] = 0]
      /\ UNCHANGED <<todo, busy, due, displayed, sent, wire, input>>
  BY DEF ReleaseDevice, At, Lock, Dev
<1> HIDE DEF d
<1>3. /\ queue' \in [Semaphores -> Seq(KernelThreads)] /\ value' \in [Semaphores -> Nat]
      /\ value'[Lock(d)] = value[Lock(d)] + 1
      /\ \A q \in Semaphores : q # Lock(d) => value'[q] = value[q]
  BY <1>1, <1>2, VFacts
<1>4. /\ pc' \in [KernelThreads -> Labels] /\ pc'[u] = "idle"
      /\ \A q \in KernelThreads : q # u => pc'[q] = pc[q]
  BY <1>1, <1>2, GotoFacts DEF Labels
<1>5. \A v \in Users : /\ job'[v] = IF v = u THEN NoJob ELSE job[v]
                       /\ nth'[v] = IF v = u THEN 0 ELSE nth[v]
  BY <1>1, <1>2 DEF TypeOK
<1>6. TypeOK'
  <2>1. /\ job' \in [Users -> Numbers \cup Accesses \cup Mail \cup {NoJob}]
        /\ nth' \in [Users -> 0..Digits]
    BY <1>1, <1>2, CallsAssumption DEF TypeOK
  <2>2. QED BY <1>1, <1>2, <1>3, <1>4, <2>1 DEF TypeOK, input, Labels
<1>7. /\ \A e \in Devices : /\ e # d => value'[Lock(e)] = value[Lock(e)]
                            /\ value'[Done(e)] = value[Done(e)]
      /\ \A b \in Boxes : value'[Box(b)] = value[Box(b)]
      /\ \A r \in Receivers : value'[Waiter(r)] = value[Waiter(r)]
      /\ value'[Available] = value[Available]
  BY <1>3, SemaphoreNames, NamesDiffer
<1>8. InputInv' /\ MailInOrder'
  BY <1>2, <1>4, <1>7, UserAlone
<1>9. \A v \in Users : v \in KernelThreads /\ (v # u => Dev(v)' = Dev(v)) /\ Dev(v) \in Devices
  BY <1>5, ThreadFacts, DeviceFacts DEF Dev
<1>10. \A v \in Users : Critical(v)' <=> Critical(v) /\ v # u
  BY <1>4, <1>9 DEF Critical
<1>11. /\ value[Lock(d)] = 0 /\ value'[Lock(d)] = 1
       /\ \A v \in Users : Critical(v) /\ Dev(v) = d => v = u
  <2>1. Critical(u)
    BY <1>2 DEF Critical
  <2>2. value[Lock(d)] = 0 /\ \A v \in Users : Critical(v) /\ Dev(v) = d => v = u
    BY <1>1, <2>1 DEF OutputInv, Locks, d
  <2>3. QED BY <1>3, <2>2
<1>12. Progress'
  BY <1>1, <1>4, <1>5, <1>9 DEF OutputInv, Progress
<1>13. Locks'
  <2>1. \A e \in Devices : value'[Lock(e)] <= 1
    BY <1>1, <1>7, <1>11 DEF OutputInv, Locks
  <2>2. QED BY <1>1, <1>7, <1>9, <1>10, <1>11, <2>1 DEF OutputInv, Locks
<1>14. \A e \in Devices : Awaited(e)' <=> Awaited(e)
  BY <1>2, <1>4, <1>9 DEF Awaited
<1>15. Completions'
  BY <1>1, <1>2, <1>7, <1>14 DEF OutputInv, Completions
<1>16. LastDigit' /\ NumbersUnbroken'
  BY <1>1, <1>2, <1>5, <1>10 DEF OutputInv, LastDigit, NumbersUnbroken
<1>17. QED BY <1>6, <1>8, <1>12, <1>13, <1>15, <1>16 DEF IInv, OutputInv

(* ... the interrupt of a device ...                                       *)
LEMMA CompleteKeeps == ASSUME IInv, NEW d \in Devices, Complete(d) PROVE IInv'
<1>1. TypeOK /\ OutputInv /\ Done(d) \in Semaphores
  BY SemaphoreNames DEF IInv
<1>2. /\ due[d] /\ V(Done(d))
      /\ due' = [due EXCEPT ![d] = FALSE] /\ busy' = [busy EXCEPT ![d] = FALSE]
      /\ UNCHANGED <<pc, todo, job, nth, displayed, sent, wire, input>>
  BY DEF Complete, Done
<1>3. /\ queue' \in [Semaphores -> Seq(KernelThreads)] /\ value' \in [Semaphores -> Nat]
      /\ value'[Done(d)] = value[Done(d)] + 1
      /\ \A q \in Semaphores : q # Done(d) => value'[q] = value[q]
  BY <1>1, <1>2, VFacts
<1>4. /\ due' \in [Devices -> BOOLEAN] /\ busy' \in [Devices -> BOOLEAN]
      /\ ~due'[d] /\ ~busy'[d]
      /\ \A e \in Devices : e # d => due'[e] = due[e] /\ busy'[e] = busy[e]
  BY <1>1, <1>2 DEF TypeOK
<1>5. TypeOK'
  BY <1>1, <1>2, <1>3, <1>4 DEF TypeOK, input
<1>6. /\ \A e \in Devices : /\ value'[Lock(e)] = value[Lock(e)]
                            /\ e # d => value'[Done(e)] = value[Done(e)]
      /\ \A b \in Boxes : value'[Box(b)] = value[Box(b)]
      /\ \A r \in Receivers : value'[Waiter(r)] = value[Waiter(r)]
      /\ value'[Available] = value[Available]
  BY <1>3, SemaphoreNames, NamesDiffer
<1>7. InputInv'
  BY <1>2, <1>6, InputAlone DEF IInv, input
<1>8. MailInOrder'
  BY <1>2, MailAlone DEF IInv, input
<1>9. /\ \A v \in Users : Dev(v)' = Dev(v) /\ (Critical(v)' <=> Critical(v)) /\ Dev(v) \in Devices
      /\ \A e \in Devices : Awaited(e)' <=> Awaited(e)
  <2>1. \A v \in Users : Dev(v)' = Dev(v) /\ (Critical(v)' <=> Critical(v)) /\ Dev(v) \in Devices
    BY <1>2, DeviceFacts DEF Dev, Critical
  <2>2. QED BY <1>2, <2>1 DEF Awaited
<1>10. Progress' /\ LastDigit' /\ NumbersUnbroken'
  BY <1>1, <1>2, <1>9 DEF OutputInv, Progress, LastDigit, NumbersUnbroken
<1>11. Locks'
  BY <1>1, <1>6, <1>9 DEF OutputInv, Locks
<1>12. Awaited(d) /\ value[Done(d)] = 0 /\ value'[Done(d)] = 1
  <2>1. Awaited(d) /\ value[Done(d)] = 0
    BY <1>1, <1>2 DEF OutputInv, Completions
  <2>2. QED BY <1>3, <2>1
<1>13. Completions'
  <2> SUFFICES ASSUME NEW e \in Devices
               PROVE  /\ busy'[e] => due'[e]
                      /\ Awaited(e)' => \/ due'[e] /\ value'[Done(e)] = 0
                                        \/ ~due'[e] /\ value'[Done(e)] = 1
                      /\ ~Awaited(e)' => ~due'[e] /\ value'[Done(e)] = 0
    BY DEF Completions
  <2>1. CASE e = d
    BY <1>4, <1>9, <1>12, <2>1, Zenon
  <2>2. CASE e # d
    BY <1>1, <1>4, <1>6, <1>9, <2>2 DEF OutputInv, Completions
  <2>3. QED BY <2>1, <2>2
<1>14. QED BY <1>5, <1>7, <1>8, <1>10, <1>11, <1>13 DEF IInv, OutputInv
--------------------------------------------------------------------------------
(* The other half: a step of the worker, a receiver or the network's       *)
(* interrupt changes nothing the devices' locks are about.                 *)
LEMMA WorkerAlone ==
    ASSUME IInv, NEW s \in Semaphores, \A d \in Devices : s # Lock(d) /\ s # Done(d),
           \A q \in Semaphores : q # s => value'[q] = value[q],
           \A u \in Users : pc'[u] = pc[u],
           UNCHANGED output
    PROVE  OutputInv'
BY SemaphoreNames, OutputAlone DEF IInv

(* What the worker has, is buffered and is in the socket, as one list.     *)
LEMMA JoinFacts ==
    ASSUME NEW h \in Seq(Mail), NEW i \in Mail \cup {NoMail}, NEW w \in Seq(Mail)
    PROVE  LET all == (h \o (IF i = NoMail THEN <<>> ELSE <<i>>)) \o w
           IN  /\ all \in Seq(Mail)
               /\ i = NoMail => all = h \o w
               /\ i # NoMail => all = h \o (<<i>> \o w)
<1>1. CASE i = NoMail
  <2>1. h \o <<>> = h
    BY ConcatEmptySeq
  <2>2. h \o w \in Seq(Mail)
    BY ConcatFacts
  <2>3. QED BY <1>1, <2>1, <2>2
<1>2. CASE i # NoMail
  <2>1. <<i>> \in Seq(Mail)
    BY <1>2
  <2>2. (h \o <<i>>) \o w = h \o (<<i>> \o w)
    BY <2>1, ConcatAssociative
  <2>3. (h \o <<i>>) \o w \in Seq(Mail)
    BY <2>1, ConcatFacts
  <2>4. QED BY <1>2, <2>2, <2>3
<1>3. QED BY <1>1, <1>2

(* The mail on its way, before a step ...                                  *)
LEMMA ArrivingFacts ==
    ASSUME TypeOK
    PROVE  /\ InHand \in Seq(Mail) /\ Arriving \in Seq(Mail)
           /\ inbox = NoMail => Arriving = InHand \o wire
           /\ inbox # NoMail => Arriving = InHand \o (<<inbox>> \o wire)
<1>1. wire \in Seq(Mail) /\ InHand \in Seq(Mail) /\ inbox \in Mail \cup {NoMail}
  BY DEF TypeOK, InHand
<1>2. QED BY <1>1, JoinFacts DEF Arriving

(* ... and after it.                                                       *)
LEMMA ArrivingNext ==
    ASSUME TypeOK'
    PROVE  /\ InHand' \in Seq(Mail)
           /\ inbox' = NoMail => Arriving' = InHand' \o wire'
           /\ inbox' # NoMail => Arriving' = InHand' \o (<<inbox'>> \o wire')
<1>1. wire' \in Seq(Mail) /\ InHand' \in Seq(Mail) /\ inbox' \in Mail \cup {NoMail}
  BY DEF TypeOK, InHand
<1>2. QED BY <1>1, JoinFacts DEF Arriving

(* Mail that only moves along keeps its order.                             *)
LEMMA MovedOn ==
    ASSUME MailInOrder, UNCHANGED <<sent, mailbox, received>>, Arriving' = Arriving
    PROVE  MailInOrder'
BY DEF MailInOrder

(* A step that changes nothing.                                            *)
LEMMA StutterKeeps == ASSUME IInv, UNCHANGED vars PROVE IInv'
<1>1. /\ queue' \in [Semaphores -> Seq(KernelThreads)]
      /\ UNCHANGED <<value, pc>> /\ UNCHANGED <<output, wire, input>>
  BY DEF IInv, TypeOK, vars, semaphores
<1>2. QED BY <1>1, AsleepKeeps

(* ... the network's interrupt ...                                         *)
LEMMA PollKeeps == ASSUME IInv, Poll PROVE IInv'
<1>1. TypeOK /\ InputInv /\ MailInOrder /\ Available \in Semaphores /\ Worker \in KernelThreads
  BY SemaphoreNames, ThreadFacts DEF IInv
<1>2. /\ inbox = NoMail /\ wire # <<>> /\ inbox' = Head(wire) /\ wire' = Tail(wire)
      /\ V(Available) /\ UNCHANGED <<pc, output, hand, mailbox, waitQueue, received>>
  BY DEF Poll, Available
<1>3. /\ queue' \in [Semaphores -> Seq(KernelThreads)] /\ value' \in [Semaphores -> Nat]
      /\ value'[Available] = value[Available] + 1
      /\ \A q \in Semaphores : q # Available => value'[q] = value[q]
  BY <1>1, <1>2, VFacts
<1>4. wire \in Seq(Mail) /\ inbox' \in Mail /\ wire' \in Seq(Mail) /\ inbox' # NoMail
  BY <1>1, <1>2, HeadTailFacts, MailAssumption DEF TypeOK
<1>5. TypeOK'
  BY <1>1, <1>2, <1>3, <1>4 DEF TypeOK, output
<1>6. OutputInv'
  BY <1>1, <1>2, <1>3, NamesDiffer, WorkerAlone
<1>7. /\ \A b \in Boxes : value'[Box(b)] = value[Box(b)]
      /\ \A r \in Receivers : value'[Waiter(r)] = value[Waiter(r)]
  BY <1>3, SemaphoreNames, NamesDiffer
<1>8. Told'
  <2>1. value[Available] = 0 /\ pc[Worker] # "fetch"
    BY <1>1, <1>2 DEF InputInv, Told, WorkerToldOnce, TypeOK, Available
  <2>2. value'[Available] = 1
    BY <1>3, <2>1
  <2>3. QED BY <1>1, <1>2, <1>4, <2>1, <2>2 DEF InputInv, Told, WorkerToldOnce, Available
<1>9. BoxLocks'
  BY <1>1, <1>2, <1>7 DEF InputInv, BoxLocks, Inside
<1>10. Sleepers'
  <2>1. \A b \in Boxes : ToSet(waitQueue[b]) \subseteq Receivers
    BY <1>1, SetOfSeq DEF TypeOK
  <2>2. QED BY <1>1, <1>2, <1>7, <2>1 DEF InputInv, Sleepers
<1>11. MailInOrder'
  <2>1. wire = <<inbox'>> \o wire'
    BY <1>2, <1>4, HeadTailProperties
  <2>2. Arriving = InHand \o wire
    BY <1>1, <1>2, ArrivingFacts
  <2>3. Arriving' = InHand' \o (<<inbox'>> \o wire')
    BY <1>4, <1>5, ArrivingNext
  <2>4. InHand' = InHand
    BY <1>2 DEF InHand
  <2>5. Arriving' = Arriving
    BY <2>1, <2>2, <2>3, <2>4
  <2>6. QED BY <1>1, <1>2, <2>5, MovedOn DEF output
<1>12. QED BY <1>5, <1>6, <1>8, <1>9, <1>10, <1>11 DEF IInv, InputInv

(* ... the postal worker: it waits for mail ...                            *)
LEMMA AwaitMessageKeeps == ASSUME IInv, AwaitMessage PROVE IInv'
<1>1. TypeOK /\ InputInv /\ MailInOrder /\ Available \in Semaphores /\ Worker \in KernelThreads
      /\ "fetch" \in Labels
  BY SemaphoreNames, ThreadFacts DEF IInv, Labels
<1>2. pc[Worker] = "idle" /\ P(Worker, Available, "fetch") /\ UNCHANGED <<output, wire, input>>
  BY DEF AwaitMessage, At, Available
<1>3. queue' \in [Semaphores -> Seq(KernelThreads)]
  BY <1>1, <1>2, PFacts
<1>4. CASE UNCHANGED <<value, pc>>
  BY <1>2, <1>3, <1>4, AsleepKeeps
<1>5. ASSUME value[Available] > 0, value' \in [Semaphores -> Nat],
             value'[Available] = value[Available] - 1,
             \A q \in Semaphores : q # Available => value'[q] = value[q],
             Goto(Worker, "fetch")
      PROVE  IInv'
  <2>1. /\ pc' \in [KernelThreads -> Labels] /\ pc'[Worker] = "fetch"
        /\ \A q \in KernelThreads : q # Worker => pc'[q] = pc[q]
    BY <1>1, <1>5, GotoFacts
  <2>2. TypeOK'
    BY <1>1, <1>2, <1>3, <1>5, <2>1 DEF TypeOK, output, input, Labels
  <2>3. \A u \in Users : pc'[u] = pc[u]
    BY <2>1, ThreadFacts
  <2>4. OutputInv'
    BY <1>1, <1>2, <1>5, <2>3, NamesDiffer, WorkerAlone
  <2>5. /\ \A b \in Boxes : value'[Box(b)] = value[Box(b)]
        /\ \A r \in Receivers : value'[Waiter(r)] = value[Waiter(r)]
    BY <1>5, SemaphoreNames, NamesDiffer
  <2>6. UNCHANGED <<inbox, hand, mailbox, waitQueue, received, sent, wire>>
    BY <1>2 DEF input, output
  <2>7. Told'
    <3>1. value[Available] = 1 /\ value'[Available] = 0
      BY <1>1, <1>5 DEF InputInv, Told, TypeOK
    <3>2. QED BY <1>1, <1>2, <2>1, <2>6, <3>1 DEF InputInv, Told, WorkerToldOnce, Available
  <2>8. \A t \in KernelThreads, b \in Boxes : Inside(t, b)' <=> Inside(t, b)
    BY <1>2, <2>1, <2>6, ThreadFacts DEF Inside
  <2>9. BoxLocks'
    BY <1>1, <2>5, <2>8 DEF InputInv, BoxLocks
  <2>10. Sleepers'
    <3>1. \A b \in Boxes : ToSet(waitQueue[b]) \subseteq Receivers
      BY <1>1, SetOfSeq DEF TypeOK
    <3>2. \A r \in Receivers : pc'[r] = pc[r]
      BY <2>1, ThreadFacts
    <3>3. QED BY <1>1, <2>5, <2>6, <3>1, <3>2 DEF InputInv, Sleepers
  <2>11. MailInOrder'
    BY <1>1, <1>2, <2>1, <2>6, MailAlone
  <2>12. QED BY <2>2, <2>4, <2>7, <2>9, <2>10, <2>11 DEF IInv, InputInv
<1>6. QED BY <1>1, <1>2, <1>4, <1>5, PFacts

(* ... takes the packet from the buffer ...                                *)
LEMMA FetchKeeps == ASSUME IInv, Fetch PROVE IInv'
<1>1. TypeOK /\ OutputInv /\ InputInv /\ MailInOrder /\ Worker \in KernelThreads /\ "acquire" \in Labels
  BY ThreadFacts DEF IInv, Labels
<1>2. /\ pc[Worker] = "fetch" /\ hand' = inbox /\ inbox' = NoMail
      /\ UNCHANGED <<value, queue>>
      /\ UNCHANGED <<output, wire, mailbox, waitQueue, received>>
  BY DEF Fetch, At, semaphores
<1>3. /\ pc' \in [KernelThreads -> Labels] /\ pc'[Worker] = "acquire"
      /\ \A q \in KernelThreads : q # Worker => pc'[q] = pc[q]
  BY <1>1, GotoFacts DEF Fetch
<1>4. inbox \in Mail /\ hand = NoMail /\ value[Available] # 1 /\ inbox # NoMail
  BY <1>1, <1>2, MailAssumption DEF InputInv, Told, WorkerToldOnce, TypeOK, Available
<1>5. TypeOK'
  BY <1>1, <1>2, <1>3, <1>4 DEF TypeOK, output, Labels
<1>6. /\ \A u \in Users : pc'[u] = pc[u]
      /\ \A r \in Receivers : pc'[r] = pc[r]
  BY <1>3, ThreadFacts
<1>7. OutputInv'
  BY <1>1, <1>2, <1>6, OutputAlone
<1>8. Told'
  BY <1>1, <1>2, <1>3, <1>4 DEF InputInv, Told, WorkerToldOnce, Available
<1>9. \A t \in KernelThreads, b \in Boxes : Inside(t, b)' <=> Inside(t, b)
  BY <1>2, <1>3, <1>6 DEF Inside
<1>10. BoxLocks'
  BY <1>1, <1>2, <1>9 DEF InputInv, BoxLocks
<1>11. Sleepers'
  <2>1. \A b \in Boxes : ToSet(waitQueue[b]) \subseteq Receivers
    BY <1>1, SetOfSeq DEF TypeOK
  <2>2. QED BY <1>1, <1>2, <1>6, <2>1 DEF InputInv, Sleepers
<1>12. MailInOrder'
  <2>1. InHand = <<>> /\ InHand' = <<inbox>>
    BY <1>2, <1>3, <1>4 DEF InHand
  <2>2. Arriving = <<>> \o (<<inbox>> \o wire) /\ Arriving' = <<inbox>> \o wire'
    BY <1>1, <1>2, <1>4, <1>5, <2>1, ArrivingFacts, ArrivingNext
  <2>3. <<inbox>> \o wire \in Seq(Mail)
    <3>1. <<inbox>> \in Seq(Mail) /\ wire \in Seq(Mail)
      BY <1>1, <1>4 DEF TypeOK
    <3>2. QED BY <3>1, ConcatFacts
  <2>4. <<>> \o (<<inbox>> \o wire) = <<inbox>> \o wire
    BY <2>3, ConcatEmptySeq
  <2>5. Arriving' = Arriving
    BY <1>2, <2>2, <2>4
  <2>6. QED BY <1>1, <1>2, <2>5, MovedOn DEF output
<1>13. QED BY <1>5, <1>7, <1>8, <1>10, <1>11, <1>12 DEF IInv, InputInv

(* ... and, like a receiver, locks the box ...                             *)
LEMMA AcquireBoxKeeps ==
    ASSUME IInv, NEW t \in Receivers \cup {Worker}, NEW b \in Boxes, AcquireBox(t, b),
           t = Worker => hand # NoMail /\ b = BoxOf[hand],
           t # Worker => b = Reads[t]
    PROVE  IInv'
<1>1. TypeOK /\ InputInv /\ MailInOrder /\ Box(b) \in Semaphores /\ t \in KernelThreads
      /\ "inside" \in Labels
  BY SemaphoreNames, ThreadFacts DEF IInv, Labels
<1>2. pc[t] = "acquire" /\ P(t, Box(b), "inside") /\ UNCHANGED <<output, wire, input>>
  BY DEF AcquireBox, At, Box
<1>3. queue' \in [Semaphores -> Seq(KernelThreads)]
  BY <1>1, <1>2, PFacts
<1>4. CASE UNCHANGED <<value, pc>>
  BY <1>2, <1>3, <1>4, AsleepKeeps
<1>5. ASSUME value[Box(b)] > 0, value' \in [Semaphores -> Nat],
             value'[Box(b)] = value[Box(b)] - 1,
             \A q \in Semaphores : q # Box(b) => value'[q] = value[q],
             Goto(t, "inside")
      PROVE  IInv'
  <2>1. /\ pc' \in [KernelThreads -> Labels] /\ pc'[t] = "inside"
        /\ \A q \in KernelThreads : q # t => pc'[q] = pc[q]
    BY <1>1, <1>5, GotoFacts
  <2>2. TypeOK'
    BY <1>1, <1>2, <1>3, <1>5, <2>1 DEF TypeOK, output, input, Labels
  <2>3. \A u \in Users : pc'[u] = pc[u]
    BY <2>1, ThreadFacts
  <2>4. OutputInv'
    BY <1>1, <1>2, <1>5, <2>3, NamesDiffer, WorkerAlone
  <2>5. /\ \A c \in Boxes : c # b => value'[Box(c)] = value[Box(c)]
        /\ \A r \in Receivers : value'[Waiter(r)] = value[Waiter(r)]
        /\ value'[Available] = value[Available]
    BY <1>5, SemaphoreNames, NamesDiffer
  <2>6. UNCHANGED <<inbox, hand, mailbox, waitQueue, received, sent, wire>>
    BY <1>2 DEF input, output
  <2>7. value[Box(b)] = 1 /\ value'[Box(b)] = 0
    BY <1>1, <1>5 DEF InputInv, BoxLocks, TypeOK
  <2>8. Told'
    BY <1>1, <1>2, <2>1, <2>5, <2>6, ThreadFacts DEF InputInv, Told, WorkerToldOnce, Available
  <2>9. \A s \in KernelThreads, c \in Boxes :
          Inside(s, c)' <=> Inside(s, c) \/ (s = t /\ c = b)
    BY <1>2, <2>1, <2>6, ThreadFacts DEF Inside
  <2>10. \A s \in KernelThreads : ~Inside(s, b)
    BY <1>1, <2>7 DEF InputInv, BoxLocks
  <2>11. BoxLocks'
    BY <1>1, <2>5, <2>7, <2>9, <2>10 DEF InputInv, BoxLocks
  <2>12. Sleepers'
    <3>1. \A c \in Boxes : ToSet(waitQueue[c]) \subseteq Receivers
      BY <1>1, SetOfSeq DEF TypeOK
    <3>2. \A r \in Receivers : r # t => pc'[r] = pc[r]
      BY <2>1, ThreadFacts
    <3>3. QED BY <1>1, <1>2, <2>5, <2>6, <3>1, <3>2 DEF InputInv, Sleepers
  <2>13. MailInOrder'
    BY <1>1, <1>2, <2>1, <2>6, ThreadFacts, MailAlone
  <2>14. QED BY <2>2, <2>4, <2>8, <2>11, <2>12, <2>13 DEF IInv, InputInv
<1>6. QED BY <1>1, <1>2, <1>4, <1>5, PFacts

(* ... appends the mail and signals the first that waits for it ...        *)
LEMMA DeliverKeeps == ASSUME IInv, Deliver PROVE IInv'
<1> DEFINE rest == IF inbox = NoMail THEN wire ELSE <<inbox>> \o wire
<1>0. PICK b : b = BoxOf[hand]
  OBVIOUS
<1>1. TypeOK /\ OutputInv /\ InputInv /\ MailInOrder /\ Worker \in KernelThreads /\ "release" \in Labels
  BY ThreadFacts DEF IInv, Labels
<1>2. /\ pc[Worker] = "inside" /\ mailbox' = [mailbox EXCEPT ![b] = Append(@, hand)]
      /\ \/ waitQueue[b] = <<>> /\ UNCHANGED <<value, queue>> /\ waitQueue' = waitQueue
         \/ /\ waitQueue[b] # <<>>
            /\ V(Waiter(Head(waitQueue[b])))
            /\ waitQueue' = [waitQueue EXCEPT ![b] = Tail(@)]
      /\ UNCHANGED <<output, wire, inbox, hand, received>>
  BY <1>0 DEF Deliver, At, semaphores, Waiter
<1>3. /\ pc' \in [KernelThreads -> Labels] /\ pc'[Worker] = "release"
      /\ \A q \in KernelThreads : q # Worker => pc'[q] = pc[q]
  BY <1>1, GotoFacts DEF Deliver
<1>4. hand \in Mail /\ hand # NoMail /\ b \in Boxes
  BY <1>0, <1>1, <1>2, MailAssumption DEF InputInv, Told, TypeOK
<1>5. /\ \A u \in Users : pc'[u] = pc[u]
      /\ \A r \in Receivers : pc'[r] = pc[r]
  BY <1>3, ThreadFacts
<1>6. /\ waitQueue[b] \in Seq(Receivers) /\ IsInjective(waitQueue[b])
      /\ \A c \in Boxes : ToSet(waitQueue[c]) \subseteq Receivers
  BY <1>1, <1>4, SetOfSeq DEF TypeOK, InputInv, Sleepers
<1>7. /\ queue' \in [Semaphores -> Seq(KernelThreads)] /\ value' \in [Semaphores -> Nat]
      /\ waitQueue' \in [Boxes -> Seq(Receivers)]
      /\ \A d \in Devices : value'[Lock(d)] = value[Lock(d)] /\ value'[Done(d)] = value[Done(d)]
      /\ \A c \in Boxes : value'[Box(c)] = value[Box(c)]
      /\ value'[Available] = value[Available]
      /\ Sleepers'
  <2>1. CASE waitQueue[b] = <<>> /\ UNCHANGED <<value, queue>> /\ waitQueue' = waitQueue
    BY <1>1, <1>5, <1>6, <2>1 DEF TypeOK, InputInv, Sleepers
  <2>2. CASE /\ waitQueue[b] # <<>>
             /\ V(Waiter(Head(waitQueue[b])))
             /\ waitQueue' = [waitQueue EXCEPT ![b] = Tail(@)]
    <3>1. PICK f : f = Head(waitQueue[b])
      OBVIOUS
    <3>2. /\ f \in ToSet(waitQueue[b]) /\ Tail(waitQueue[b]) \in Seq(Receivers)
          /\ ToSet(Tail(waitQueue[b])) = ToSet(waitQueue[b]) \ {f}
          /\ IsInjective(Tail(waitQueue[b]))
      BY <1>6, <2>2, <3>1, HeadTailFacts
    <3>3. f \in Receivers /\ Waiter(f) \in Semaphores
      BY <1>4, <1>6, <3>2, SemaphoreNames
    <3>4. Reads[f] = b /\ pc[f] = "asleep" /\ value[Waiter(f)] = 0
      BY <1>1, <1>4, <3>2 DEF InputInv, Sleepers
    <3>5. /\ queue' \in [Semaphores -> Seq(KernelThreads)] /\ value' \in [Semaphores -> Nat]
          /\ value'[Waiter(f)] = value[Waiter(f)] + 1
          /\ \A q \in Semaphores : q # Waiter(f) => value'[q] = value[q]
      BY <1>1, <2>2, <3>1, <3>3, VFacts
    <3>6. /\ \A d \in Devices : value'[Lock(d)] = value[Lock(d)] /\ value'[Done(d)] = value[Done(d)]
          /\ \A c \in Boxes : value'[Box(c)] = value[Box(c)]
          /\ \A r \in Receivers : r # f => value'[Waiter(r)] = value[Waiter(r)]
          /\ value'[Available] = value[Available]
      BY <3>5, SemaphoreNames, NamesDiffer
    <3>7. /\ waitQueue' \in [Boxes -> Seq(Receivers)] /\ waitQueue'[b] = Tail(waitQueue[b])
          /\ \A c \in Boxes : c # b => waitQueue'[c] = waitQueue[c]
      BY <1>1, <1>4, <2>2, <3>2 DEF TypeOK
    <3>8. \A c \in Boxes : /\ IsInjective(waitQueue'[c]) /\ ToSet(waitQueue'[c]) \subseteq ToSet(waitQueue[c])
                           /\ f \notin ToSet(waitQueue'[c])
      BY <1>1, <3>2, <3>4, <3>7 DEF InputInv, Sleepers
    <3>9. value'[Waiter(f)] = 1
      BY <3>4, <3>5
    <3>10. Sleepers'
      <4>1. ASSUME NEW c \in Boxes, NEW r \in ToSet(waitQueue'[c])
            PROVE  Reads[r] = c /\ pc'[r] = "asleep" /\ value'[Waiter(r)] = 0
        <5>1. r \in Receivers /\ r # f /\ r \in ToSet(waitQueue[c])
          BY <1>6, <3>8, <4>1
        <5>2. Reads[r] = c /\ pc[r] = "asleep" /\ value[Waiter(r)] = 0
          BY <1>1, <5>1 DEF InputInv, Sleepers
        <5>3. QED BY <1>5, <3>6, <5>1, <5>2
      <4>2. ASSUME NEW r \in Receivers
            PROVE  value'[Waiter(r)] <= 1 /\ (value'[Waiter(r)] > 0 => pc'[r] = "asleep")
        <5>1. CASE r = f
          BY <1>5, <3>3, <3>4, <3>9, <5>1
        <5>2. CASE r # f
          BY <1>1, <1>5, <3>6, <5>2 DEF InputInv, Sleepers
        <5>3. QED BY <5>1, <5>2
      <4>3. QED BY <3>8, <4>1, <4>2 DEF Sleepers
    <3>11. QED BY <3>5, <3>6, <3>7, <3>10
  <2>3. QED BY <1>2, <2>1, <2>2
<1>8. mailbox[b] \in Seq(Mail) /\ received[b] \in Seq(Mail) /\ mailbox' \in [Boxes -> Seq(Mail)]
      /\ mailbox'[b] = Append(mailbox[b], hand)
      /\ \A c \in Boxes : c # b => mailbox'[c] = mailbox[c]
  BY <1>1, <1>2, <1>4 DEF TypeOK
<1>9. TypeOK'
  BY <1>1, <1>2, <1>3, <1>7, <1>8 DEF TypeOK, output, Labels
<1>10. OutputInv'
  BY <1>1, <1>2, <1>5, <1>7, OutputAlone
<1>11. Told'
  BY <1>1, <1>2, <1>3, <1>7 DEF InputInv, Told, WorkerToldOnce, Available
<1>12. BoxLocks'
  <2>1. \A t \in KernelThreads, c \in Boxes : Inside(t, c)' <=> Inside(t, c)
    BY <1>2, <1>3, <1>5 DEF Inside
  <2>2. QED BY <1>1, <1>7, <2>1 DEF InputInv, BoxLocks
<1>13. MailInOrder'
  <2>1. wire \in Seq(Mail) /\ rest \in Seq(Mail) /\ <<hand>> \in Seq(Mail)
    <3>1. wire \in Seq(Mail) /\ (inbox # NoMail => <<inbox>> \in Seq(Mail)) /\ <<hand>> \in Seq(Mail)
      BY <1>1, <1>4 DEF TypeOK
    <3>2. QED BY <3>1, ConcatFacts
  <2>2. InHand = <<hand>> /\ InHand' = <<>>
    BY <1>2, <1>3, <1>4 DEF InHand
  <2>3. Arriving = <<hand>> \o rest /\ Arriving' = <<>> \o rest
    BY <1>1, <1>2, <1>9, <2>2, ArrivingFacts, ArrivingNext
  <2> HIDE DEF rest
  <2>4. Arriving' = rest
    BY <2>1, <2>3, ConcatEmptySeq
  <2> SUFFICES ASSUME NEW c \in Boxes
               PROVE  received[c] \o mailbox'[c] \o Kept(Arriving', To(c)) = Kept(sent, To(c))
    BY <1>2 DEF MailInOrder, output, To
  <2>5. Kept(Arriving, To(c)) = Kept(<<hand>>, To(c)) \o Kept(rest, To(c))
    <3>1. \A v, w \in Seq(Mail) : Kept(v \o w, To(c)) = Kept(v, To(c)) \o Kept(w, To(c))
      BY KeptConcat
    <3>2. QED BY <2>1, <2>3, <3>1, Zenon
  <2>6. Kept(<<hand>>, To(c)) = IF c = b THEN <<hand>> ELSE <<>>
    BY <1>0, <1>4, KeptOne DEF To
  <2>7. Kept(rest, To(c)) \in Seq(Mail)
    BY <2>1, KeptSet
  <2> DEFINE k == Kept(rest, To(c))
             h == <<hand>>
  <2>8. received[c] \o mailbox[c] \o (Kept(<<hand>>, To(c)) \o k) = Kept(sent, To(c))
    BY <1>1, <2>5 DEF MailInOrder
  <2>9. Kept(Arriving', To(c)) = k
    BY <2>4
  <2>10. /\ k \in Seq(Mail) /\ received[c] \in Seq(Mail) /\ mailbox[c] \in Seq(Mail)
         /\ Append(mailbox[c], hand) = mailbox[c] \o h
    <3>1. received[c] \in Seq(Mail) /\ mailbox[c] \in Seq(Mail)
      BY <1>1 DEF TypeOK
    <3>2. Append(mailbox[c], hand) = mailbox[c] \o <<hand>>
      BY <1>4, <3>1, AppendIsConcat
    <3>3. QED BY <2>7, <3>1, <3>2
  <2>b. h \in Seq(Mail)
    BY <2>1
  <2>c. received[c] \o mailbox[c] \o (Kept(h, To(c)) \o k) = Kept(sent, To(c))
    BY <2>8
  <2>d. Kept(h, To(c)) = IF c = b THEN h ELSE <<>>
    BY <2>6
  <2> HIDE DEF k, h
  <2>a. \A v, w, x \in Seq(Mail) : (v \o w) \o x = v \o (w \o x)
    BY ConcatAssociative
  <2>11. CASE c = b
    <3>1. received[c] \o (mailbox[c] \o h) = (received[c] \o mailbox[c]) \o h
      BY <2>b, <2>10, <2>a
    <3>2. received[c] \o mailbox[c] \in Seq(Mail)
      BY <2>10, ConcatFacts
    <3>3. ((received[c] \o mailbox[c]) \o h) \o k = (received[c] \o mailbox[c]) \o (h \o k)
      BY <2>b, <2>10, <2>a, <3>2
    <3>4. (received[c] \o mailbox'[c]) \o k = (received[c] \o mailbox[c]) \o (h \o k)
      BY <1>8, <2>10, <2>11, <3>1, <3>3
    <3>5. QED BY <2>c, <2>d, <2>9, <2>11, <3>4, Zenon
  <2>12. CASE c # b
    <3>1. <<>> \o k = k
      BY <2>10, ConcatEmptySeq
    <3>2. mailbox'[c] = mailbox[c]
      BY <1>8, <2>12
    <3>3. QED BY <2>c, <2>d, <2>9, <2>12, <3>1, <3>2, Zenon
  <2>13. QED BY <2>11, <2>12
<1>14. QED BY <1>7, <1>9, <1>10, <1>11, <1>12, <1>13 DEF IInv, InputInv

(* ... and unlocks the box.                                                *)
LEMMA ReleaseBoxKeeps == ASSUME IInv, ReleaseBox PROVE IInv'
<1>0. PICK b : b = BoxOf[hand]
  OBVIOUS
<1>1. TypeOK /\ OutputInv /\ InputInv /\ MailInOrder /\ Worker \in KernelThreads /\ "idle" \in Labels
  BY ThreadFacts DEF IInv, Labels
<1>2. /\ pc[Worker] = "release" /\ V(Box(b)) /\ hand' = NoMail
      /\ UNCHANGED <<output, wire, inbox, mailbox, waitQueue, received>>
  BY <1>0 DEF ReleaseBox, At, Box
<1>3. hand \in Mail /\ hand # NoMail /\ b \in Boxes /\ Box(b) \in Semaphores
  BY <1>0, <1>1, <1>2, MailAssumption, SemaphoreNames DEF InputInv, Told, TypeOK
<1>4. /\ pc' \in [KernelThreads -> Labels] /\ pc'[Worker] = "idle"
      /\ \A q \in KernelThreads : q # Worker => pc'[q] = pc[q]
  BY <1>1, GotoFacts DEF ReleaseBox
<1>5. /\ queue' \in [Semaphores -> Seq(KernelThreads)] /\ value' \in [Semaphores -> Nat]
      /\ value'[Box(b)] = value[Box(b)] + 1
      /\ \A q \in Semaphores : q # Box(b) => value'[q] = value[q]
  BY <1>1, <1>2, <1>3, VFacts
<1>6. TypeOK'
  BY <1>1, <1>2, <1>4, <1>5 DEF TypeOK, output, Labels
<1>7. /\ \A u \in Users : pc'[u] = pc[u]
      /\ \A r \in Receivers : pc'[r] = pc[r]
  BY <1>4, ThreadFacts
<1>8. OutputInv'
  <2>1. UNCHANGED output /\ \A d \in Devices : Box(b) # Lock(d) /\ Box(b) # Done(d)
    BY <1>2, NamesDiffer
  <2>2. QED BY <1>3, <1>5, <1>7, <2>1, WorkerAlone
<1>9. /\ \A c \in Boxes : c # b => value'[Box(c)] = value[Box(c)]
      /\ \A r \in Receivers : value'[Waiter(r)] = value[Waiter(r)]
      /\ value'[Available] = value[Available]
  BY <1>5, SemaphoreNames, NamesDiffer
<1>10. Told'
  BY <1>1, <1>2, <1>4, <1>9 DEF InputInv, Told, WorkerToldOnce, Available
<1>11. BoxLocks'
  <2>1. \A t \in KernelThreads, c \in Boxes : Inside(t, c)' <=> Inside(t, c) /\ t # Worker
    BY <1>4, <1>7, ThreadFacts DEF Inside
  <2>2. Inside(Worker, b)
    BY <1>0, <1>2 DEF Inside
  <2>3. value[Box(b)] = 0 /\ \A t \in KernelThreads : Inside(t, b) => t = Worker
    BY <1>1, <1>3, <2>2 DEF InputInv, BoxLocks
  <2>4. value'[Box(b)] = 1
    BY <1>5, <2>3
  <2> SUFFICES ASSUME NEW c \in Boxes
               PROVE  /\ value'[Box(c)] <= 1
                      /\ \A t \in KernelThreads : Inside(t, c)' => value'[Box(c)] = 0
                      /\ \A t, s \in KernelThreads : Inside(t, c)' /\ Inside(s, c)' => t = s
    BY DEF BoxLocks
  <2>5. CASE c = b
    BY <2>1, <2>3, <2>4, <2>5
  <2>6. CASE c # b
    BY <1>1, <1>9, <2>1, <2>6 DEF InputInv, BoxLocks
  <2>7. QED BY <2>5, <2>6
<1>12. Sleepers'
  <2>1. \A c \in Boxes : ToSet(waitQueue[c]) \subseteq Receivers
    BY <1>1, SetOfSeq DEF TypeOK
  <2>2. QED BY <1>1, <1>2, <1>7, <1>9, <2>1 DEF InputInv, Sleepers
<1>13. MailInOrder'
  <2>1. InHand' = InHand
    BY <1>2 DEF InHand
  <2>2. Arriving' = Arriving
    BY <1>2, <2>1 DEF Arriving
  <2>3. QED BY <1>1, <1>2, <2>2, MovedOn DEF output
<1>14. QED BY <1>6, <1>8, <1>10, <1>11, <1>12, <1>13 DEF IInv, InputInv

(* A receiver unlocks its box, to sleep or with an item.                   *)
LEMMA LeaveBox ==
    ASSUME TypeOK, BoxLocks, NEW r \in Receivers, pc[r] = "inside", hand' = hand,
           pc' \in [KernelThreads -> Labels], pc'[r] # "inside",
           \A q \in KernelThreads : q # r => pc'[q] = pc[q],
           V(Box(Reads[r]))
    PROVE  /\ BoxLocks'
           /\ queue' \in [Semaphores -> Seq(KernelThreads)] /\ value' \in [Semaphores -> Nat]
           /\ \A q \in Semaphores : q # Box(Reads[r]) => value'[q] = value[q]
<1>0. PICK b : b = Reads[r]
  OBVIOUS
<1>1. b \in Boxes /\ Box(b) \in Semaphores
  BY <1>0, MailAssumption, SemaphoreNames
<1>2. /\ queue' \in [Semaphores -> Seq(KernelThreads)] /\ value' \in [Semaphores -> Nat]
      /\ value'[Box(b)] = value[Box(b)] + 1
      /\ \A q \in Semaphores : q # Box(b) => value'[q] = value[q]
  BY <1>0, <1>1, VFacts
<1>3. \A c \in Boxes : c # b => value'[Box(c)] = value[Box(c)]
  BY <1>2, SemaphoreNames, NamesDiffer
<1>4. \A t \in KernelThreads, c \in Boxes : Inside(t, c)' <=> Inside(t, c) /\ t # r
  BY ThreadFacts DEF Inside
<1>5. Inside(r, b) /\ r \in KernelThreads
  BY <1>0, ThreadFacts DEF Inside
<1>6. value[Box(b)] = 0 /\ \A t \in KernelThreads : Inside(t, b) => t = r
  BY <1>1, <1>5 DEF BoxLocks
<1>7. value'[Box(b)] = 1
  BY <1>2, <1>6
<1>8. BoxLocks'
  <2> SUFFICES ASSUME NEW c \in Boxes
               PROVE  /\ value'[Box(c)] <= 1
                      /\ \A t \in KernelThreads : Inside(t, c)' => value'[Box(c)] = 0
                      /\ \A t, s \in KernelThreads : Inside(t, c)' /\ Inside(s, c)' => t = s
    BY DEF BoxLocks
  <2>1. CASE c = b
    BY <1>4, <1>6, <1>7, <2>1
  <2>2. CASE c # b
    BY <1>3, <1>4, <2>2 DEF BoxLocks
  <2>3. QED BY <2>1, <2>2
<1>9. QED BY <1>0, <1>2, <1>8

(* Nobody signals a receiver that does not sleep.                          *)
LEMMA UnsignalledAwake ==
    ASSUME TypeOK, Sleepers, NEW r \in Receivers, pc[r] # "asleep"
    PROVE  value[Waiter(r)] = 0
<1>1. value[Waiter(r)] \in Nat
  BY SemaphoreNames DEF TypeOK
<1>2. ~(value[Waiter(r)] > 0)
  BY DEF Sleepers
<1>3. QED BY <1>1, <1>2

(* ... the receivers: one finds its box empty ...                          *)
LEMMA WaitForMailKeeps == ASSUME IInv, NEW r \in Receivers, WaitForMail(r) PROVE IInv'
<1>0. PICK b : b = Reads[r]
  OBVIOUS
<1>1. /\ TypeOK /\ OutputInv /\ InputInv /\ MailInOrder /\ r \in KernelThreads
      /\ "asleep" \in Labels /\ b \in Boxes /\ Box(b) \in Semaphores
  BY <1>0, ThreadFacts, MailAssumption, SemaphoreNames DEF IInv, Labels
<1>2. /\ pc[r] = "inside" /\ waitQueue' = [waitQueue EXCEPT ![b] = Append(@, r)]
      /\ V(Box(b)) /\ UNCHANGED <<output, wire, inbox, hand, mailbox, received>>
  BY <1>0 DEF WaitForMail, At, Box
<1>3. /\ pc' \in [KernelThreads -> Labels] /\ pc'[r] = "asleep"
      /\ \A q \in KernelThreads : q # r => pc'[q] = pc[q]
  BY <1>1, GotoFacts DEF WaitForMail
<1>4. /\ BoxLocks'
      /\ queue' \in [Semaphores -> Seq(KernelThreads)] /\ value' \in [Semaphores -> Nat]
      /\ \A q \in Semaphores : q # Box(b) => value'[q] = value[q]
  BY <1>0, <1>1, <1>2, <1>3, LeaveBox DEF InputInv
<1>5. /\ waitQueue[b] \in Seq(Receivers) /\ waitQueue' \in [Boxes -> Seq(Receivers)]
      /\ waitQueue'[b] = Append(waitQueue[b], r)
      /\ \A c \in Boxes : c # b => waitQueue'[c] = waitQueue[c]
  <2>1. waitQueue[b] \in Seq(Receivers)
    BY <1>1 DEF TypeOK
  <2>2. QED BY <1>1, <1>2, <2>1 DEF TypeOK
<1>6. TypeOK'
  BY <1>1, <1>2, <1>3, <1>4, <1>5 DEF TypeOK, output, Labels
<1>7. \A u \in Users : pc'[u] = pc[u]
  BY <1>3, ThreadFacts
<1>8. OutputInv'
  <2>1. UNCHANGED output /\ \A d \in Devices : Box(b) # Lock(d) /\ Box(b) # Done(d)
    BY <1>2, NamesDiffer
  <2>2. QED BY <1>1, <1>4, <1>7, <2>1, WorkerAlone
<1>9. /\ \A q \in Receivers : value'[Waiter(q)] = value[Waiter(q)]
      /\ value'[Available] = value[Available]
  BY <1>4, SemaphoreNames, NamesDiffer
<1>10. pc'[Worker] = pc[Worker] /\ \A q \in Receivers : q # r => pc'[q] = pc[q]
  BY <1>3, ThreadFacts
<1>11. Told'
  BY <1>1, <1>2, <1>9, <1>10 DEF InputInv, Told, WorkerToldOnce, Available
<1>12. Sleepers'
  <2>1. \A c \in Boxes : /\ ToSet(waitQueue[c]) \subseteq Receivers
                         /\ \A q \in ToSet(waitQueue[c]) : Reads[q] = c /\ pc[q] = "asleep" /\ value[Waiter(q)] = 0
    BY <1>1, SetOfSeq DEF TypeOK, InputInv, Sleepers
  <2>2. r \notin ToSet(waitQueue[b])
    BY <1>1, <1>2, <2>1
  <2>3. /\ ToSet(waitQueue'[b]) = ToSet(waitQueue[b]) \cup {r}
        /\ IsInjective(waitQueue'[b]) <=> IsInjective(waitQueue[b]) /\ r \notin ToSet(waitQueue[b])
    BY <1>5, AppendFacts
  <2>4. \A c \in Boxes : IsInjective(waitQueue'[c])
    BY <1>1, <1>5, <2>2, <2>3 DEF InputInv, Sleepers
  <2>5. value[Waiter(r)] = 0
    BY <1>1, <1>2, UnsignalledAwake DEF InputInv
  <2>6. ASSUME NEW c \in Boxes, NEW q \in ToSet(waitQueue'[c])
        PROVE  Reads[q] = c /\ pc'[q] = "asleep" /\ value'[Waiter(q)] = 0
    <3>1. CASE q = r /\ c = b
      BY <1>0, <1>3, <1>9, <2>5, <3>1
    <3>2. CASE ~(q = r /\ c = b)
      <4>1. q \in ToSet(waitQueue[c])
        BY <1>5, <2>3, <2>6, <3>2
      <4>2. q \in Receivers /\ q # r
        BY <1>2, <2>1, <4>1
      <4>3. QED BY <1>9, <1>10, <2>1, <4>1, <4>2
    <3>3. QED BY <3>1, <3>2
  <2>7. \A q \in Receivers : value'[Waiter(q)] <= 1 /\ (value'[Waiter(q)] > 0 => pc'[q] = "asleep")
    BY <1>1, <1>3, <1>9, <1>10 DEF InputInv, Sleepers
  <2>8. QED BY <2>4, <2>6, <2>7 DEF Sleepers
<1>13. MailInOrder'
  <2>1. UNCHANGED <<inbox, hand, wire, sent, mailbox, received>>
    BY <1>2 DEF output
  <2>2. QED BY <1>1, <1>10, <2>1, MailAlone
<1>14. QED BY <1>4, <1>6, <1>8, <1>11, <1>12, <1>13 DEF IInv, InputInv

(* ... and sleeps until it is signalled; then it tests again ...           *)
LEMMA AwaitSignalKeeps == ASSUME IInv, NEW r \in Receivers, AwaitSignal(r) PROVE IInv'
<1>1. TypeOK /\ InputInv /\ MailInOrder /\ Waiter(r) \in Semaphores /\ r \in KernelThreads
      /\ "acquire" \in Labels
  BY SemaphoreNames, ThreadFacts DEF IInv, Labels
<1>2. pc[r] = "asleep" /\ P(r, Waiter(r), "acquire") /\ UNCHANGED <<output, wire, input>>
  BY DEF AwaitSignal, At, Waiter
<1>3. queue' \in [Semaphores -> Seq(KernelThreads)]
  BY <1>1, <1>2, PFacts
<1>4. CASE UNCHANGED <<value, pc>>
  BY <1>2, <1>3, <1>4, AsleepKeeps
<1>5. ASSUME value[Waiter(r)] > 0, value' \in [Semaphores -> Nat],
             value'[Waiter(r)] = value[Waiter(r)] - 1,
             \A q \in Semaphores : q # Waiter(r) => value'[q] = value[q],
             Goto(r, "acquire")
      PROVE  IInv'
  <2>1. /\ pc' \in [KernelThreads -> Labels] /\ pc'[r] = "acquire"
        /\ \A q \in KernelThreads : q # r => pc'[q] = pc[q]
    BY <1>1, <1>5, GotoFacts
  <2>2. TypeOK'
    BY <1>1, <1>2, <1>3, <1>5, <2>1 DEF TypeOK, output, input, Labels
  <2>3. \A u \in Users : pc'[u] = pc[u]
    BY <2>1, ThreadFacts
  <2>4. OutputInv'
    <3>1. UNCHANGED output /\ \A d \in Devices : Waiter(r) # Lock(d) /\ Waiter(r) # Done(d)
      BY <1>2, NamesDiffer
    <3>2. QED BY <1>1, <1>5, <2>3, <3>1, WorkerAlone
  <2>5. /\ \A c \in Boxes : value'[Box(c)] = value[Box(c)]
        /\ \A q \in Receivers : q # r => value'[Waiter(q)] = value[Waiter(q)]
        /\ value'[Available] = value[Available]
    BY <1>5, SemaphoreNames, NamesDiffer
  <2>6. UNCHANGED <<inbox, hand, mailbox, waitQueue, received, sent, wire>>
    BY <1>2 DEF input, output
  <2>7. pc'[Worker] = pc[Worker] /\ \A q \in Receivers : q # r => pc'[q] = pc[q]
    BY <2>1, ThreadFacts
  <2>8. Told'
    BY <1>1, <2>5, <2>6, <2>7 DEF InputInv, Told, WorkerToldOnce, Available
  <2>9. \A t \in KernelThreads, b \in Boxes : Inside(t, b)' <=> Inside(t, b)
    BY <1>2, <2>1, <2>6, ThreadFacts DEF Inside
  <2>10. BoxLocks'
    BY <1>1, <2>5, <2>9 DEF InputInv, BoxLocks
  <2>11. Sleepers'
    <3>1. \A b \in Boxes : ToSet(waitQueue[b]) \subseteq Receivers /\ r \notin ToSet(waitQueue[b])
      BY <1>1, <1>5, SetOfSeq DEF TypeOK, InputInv, Sleepers
    <3>2. value'[Waiter(r)] = 0
      BY <1>1, <1>5 DEF InputInv, Sleepers, TypeOK
    <3>3. \A b \in Boxes :
            /\ IsInjective(waitQueue'[b])
            /\ \A q \in ToSet(waitQueue'[b]) : Reads[q] = b /\ pc'[q] = "asleep" /\ value'[Waiter(q)] = 0
      BY <1>1, <2>5, <2>6, <2>7, <3>1 DEF InputInv, Sleepers
    <3>4. \A q \in Receivers : value'[Waiter(q)] <= 1 /\ (value'[Waiter(q)] > 0 => pc'[q] = "asleep")
      BY <1>1, <2>5, <2>7, <3>2 DEF InputInv, Sleepers
    <3>5. QED BY <3>3, <3>4 DEF Sleepers
  <2>12. MailInOrder'
    BY <1>1, <2>6, <2>7, MailAlone
  <2>13. QED BY <2>2, <2>4, <2>8, <2>10, <2>11, <2>12 DEF IInv, InputInv
<1>6. QED BY <1>1, <1>2, <1>4, <1>5, PFacts

(* The head of one list moved to the end of the other.                     *)
LEMMA HeadMoved ==
    ASSUME NEW s \in Seq(Mail), NEW t \in Seq(Mail), t # <<>>
    PROVE  Append(s, Head(t)) \o Tail(t) = s \o t
<1> DEFINE h == <<Head(t)>>
           rest == Tail(t)
<1>1. h \in Seq(Mail) /\ rest \in Seq(Mail) /\ t = h \o rest /\ Append(s, Head(t)) = s \o h
  BY HeadTailFacts, HeadTailProperties, AppendIsConcat
<1> HIDE DEF h, rest
<1>2. (s \o h) \o rest = s \o (h \o rest)
  BY <1>1, ConcatAssociative
<1>3. Append(s, Head(t)) \o rest = s \o t
  BY <1>1, <1>2
<1>4. QED BY <1>3 DEF rest

(* ... and takes the first item.                                           *)
LEMMA TakeMailKeeps == ASSUME IInv, NEW r \in Receivers, TakeMail(r) PROVE IInv'
<1>0. PICK b : b = Reads[r]
  OBVIOUS
<1>1. /\ TypeOK /\ OutputInv /\ InputInv /\ MailInOrder /\ r \in KernelThreads
      /\ b \in Boxes /\ Box(b) \in Semaphores
  BY <1>0, ThreadFacts, MailAssumption, SemaphoreNames DEF IInv
<1>2. /\ pc[r] = "inside" /\ mailbox[b] # <<>>
      /\ received' = [received EXCEPT ![b] = Append(@, Head(mailbox[b]))]
      /\ mailbox' = [mailbox EXCEPT ![b] = Tail(@)]
      /\ V(Box(b)) /\ UNCHANGED <<output, wire, inbox, hand, waitQueue>>
  BY <1>0 DEF TakeMail, At, Box
<1>3. /\ pc' \in [KernelThreads -> Labels] /\ pc'[r] \in {"acquire", "idle"}
      /\ \A q \in KernelThreads : q # r => pc'[q] = pc[q]
  <2>1. "acquire" \in Labels /\ "idle" \in Labels
    BY DEF Labels
  <2>2. Goto(r, "acquire") \/ Goto(r, "idle")
    BY DEF TakeMail
  <2>3. QED BY <1>1, <2>1, <2>2, GotoFacts
<1>4. /\ BoxLocks'
      /\ queue' \in [Semaphores -> Seq(KernelThreads)] /\ value' \in [Semaphores -> Nat]
      /\ \A q \in Semaphores : q # Box(b) => value'[q] = value[q]
  <2>1. pc'[r] # "inside" /\ hand' = hand
    BY <1>2, <1>3
  <2>2. QED BY <1>0, <1>1, <1>2, <1>3, <2>1, LeaveBox DEF InputInv
<1>5. /\ mailbox[b] \in Seq(Mail) /\ received[b] \in Seq(Mail)
      /\ Head(mailbox[b]) \in Mail /\ Tail(mailbox[b]) \in Seq(Mail)
  <2>1. mailbox[b] \in Seq(Mail) /\ received[b] \in Seq(Mail)
    BY <1>1 DEF TypeOK
  <2>2. QED BY <1>2, <2>1, HeadTailFacts
<1>6. /\ mailbox' \in [Boxes -> Seq(Mail)] /\ received' \in [Boxes -> Seq(Mail)]
      /\ mailbox'[b] = Tail(mailbox[b]) /\ received'[b] = Append(received[b], Head(mailbox[b]))
      /\ \A c \in Boxes : c # b => mailbox'[c] = mailbox[c] /\ received'[c] = received[c]
  BY <1>1, <1>2, <1>5 DEF TypeOK
<1>7. TypeOK'
  BY <1>1, <1>2, <1>3, <1>4, <1>6 DEF TypeOK, output, Labels
<1>8. OutputInv'
  <2>1. UNCHANGED output /\ \A d \in Devices : Box(b) # Lock(d) /\ Box(b) # Done(d)
    BY <1>2, NamesDiffer
  <2>2. \A u \in Users : pc'[u] = pc[u]
    BY <1>3, ThreadFacts
  <2>3. QED BY <1>1, <1>4, <2>1, <2>2, WorkerAlone
<1>9. /\ \A q \in Receivers : value'[Waiter(q)] = value[Waiter(q)]
      /\ value'[Available] = value[Available]
  BY <1>4, SemaphoreNames, NamesDiffer
<1>10. pc'[Worker] = pc[Worker] /\ \A q \in Receivers : q # r => pc'[q] = pc[q]
  BY <1>3, ThreadFacts
<1>11. Told'
  BY <1>1, <1>2, <1>9, <1>10 DEF InputInv, Told, WorkerToldOnce, Available
<1>12. Sleepers'
  <2>1. \A c \in Boxes : ToSet(waitQueue[c]) \subseteq Receivers /\ r \notin ToSet(waitQueue[c])
    BY <1>1, <1>2, SetOfSeq DEF TypeOK, InputInv, Sleepers
  <2>2. \A c \in Boxes :
          /\ IsInjective(waitQueue'[c])
          /\ \A q \in ToSet(waitQueue'[c]) : Reads[q] = c /\ pc'[q] = "asleep" /\ value'[Waiter(q)] = 0
    BY <1>1, <1>2, <1>9, <1>10, <2>1 DEF InputInv, Sleepers
  <2>3. value[Waiter(r)] = 0
    BY <1>1, <1>2, UnsignalledAwake DEF InputInv
  <2>4. \A q \in Receivers : value'[Waiter(q)] <= 1 /\ (value'[Waiter(q)] > 0 => pc'[q] = "asleep")
    BY <1>1, <1>9, <1>10, <2>3 DEF InputInv, Sleepers
  <2>5. QED BY <2>2, <2>4 DEF Sleepers
<1>13. MailInOrder'
  <2>1. Arriving' = Arriving /\ sent' = sent
    <3>1. InHand' = InHand
      BY <1>2, <1>10 DEF InHand
    <3>2. QED BY <1>2, <3>1 DEF Arriving, output
  <2>2. \A c \in Boxes : received'[c] \o mailbox'[c] = received[c] \o mailbox[c]
    <3>1. Append(received[b], Head(mailbox[b])) \o Tail(mailbox[b]) = received[b] \o mailbox[b]
      BY <1>2, <1>5, HeadMoved
    <3>2. QED BY <1>6, <3>1
  <2>3. QED BY <1>1, <2>1, <2>2 DEF MailInOrder, To
<1>14. QED BY <1>4, <1>7, <1>8, <1>11, <1>12, <1>13 DEF IInv, InputInv
--------------------------------------------------------------------------------
(* Every step of Spec keeps the invariant.                                 *)
LEMMA StepKeeps == IInv /\ [Next]_vars => IInv'
<1> SUFFICES ASSUME IInv, [Next]_vars PROVE IInv'
  OBVIOUS
<1>1. CASE UNCHANGED vars
  BY <1>1, StutterKeeps
<1>2. ASSUME NEW u \in Users, UserStep(u) PROVE IInv'
  BY <1>2, CallKeeps, AcquireDeviceKeeps, RequestKeeps, AwaitDeviceKeeps, ReleaseDeviceKeeps
     DEF UserStep
<1>3. ASSUME NEW d \in Devices, Complete(d) PROVE IInv'
  BY <1>3, CompleteKeeps
<1>4. CASE Poll
  BY <1>4, PollKeeps
<1>5. CASE PollInVain
  BY <1>5, StutterKeeps DEF PollInVain
<1>6. CASE WorkerStep
  <2>1. CASE hand # NoMail /\ AcquireBox(Worker, BoxOf[hand])
    <3>1. BoxOf[hand] \in Boxes
      BY <2>1, MailAssumption DEF IInv, TypeOK
    <3>2. QED BY <2>1, <3>1, AcquireBoxKeeps
  <2>2. QED BY <1>6, <2>1, AwaitMessageKeeps, FetchKeeps, DeliverKeeps, ReleaseBoxKeeps DEF WorkerStep
<1>7. ASSUME NEW r \in Receivers, ReceiverStep(r) PROVE IInv'
  <2>1. CASE AcquireBox(r, Reads[r])
    <3>1. Reads[r] \in Boxes /\ r # Worker
      BY MailAssumption, ThreadFacts
    <3>2. QED BY <2>1, <3>1, AcquireBoxKeeps
  <2>2. QED BY <1>7, <2>1, WaitForMailKeeps, AwaitSignalKeeps, TakeMailKeeps DEF ReceiverStep
<1>8. QED BY <1>1, <1>2, <1>3, <1>4, <1>5, <1>6, <1>7 DEF Next

(* The invariant holds in every state of every run.                        *)
THEOREM Invariance == Spec => []IInv
BY InitHolds, StepKeeps, PTL DEF Spec

(* Every variable keeps its type; counters of semaphores never go below 0. *)
THEOREM TypeCorrect == Spec => []TypeOK
<1>1. IInv => TypeOK
  BY DEF IInv
<1>2. QED BY <1>1, Invariance, PTL

(* The semaphores of SynchConsole, SynchDisk, the post office and SynchList*)
(* are binary although Semaphore::V counts: nobody releases a lock that is *)
(* not held, and no interrupt or signal comes a second time.               *)
THEOREM SemaphoresAreBinary == Spec => []BinarySemaphores
<1>1. IInv => BinarySemaphores
  <2> SUFFICES ASSUME IInv, NEW s \in Semaphores PROVE value[s] \in {0, 1}
    BY DEF BinarySemaphores
  <2>1. value[s] \in Nat
    BY DEF IInv, TypeOK
  <2>2. value[s] <= 1
    <3>1. CASE \E d \in Devices : s = Lock(d) \/ s = Done(d)
      BY <3>1 DEF IInv, OutputInv, Locks, Completions
    <3>2. CASE \E b \in Boxes : s = Box(b)
      BY <3>2 DEF IInv, InputInv, BoxLocks
    <3>3. CASE (\E r \in Receivers : s = Waiter(r)) \/ s = Available
      BY <3>3 DEF IInv, InputInv, Sleepers, Told
    <3>4. QED BY <3>1, <3>2, <3>3, SemaphoreNames
  <2>3. QED BY <2>1, <2>2
<1>2. QED BY <1>1, Invariance, PTL

(* No thread makes a request of a device that is at work: the assertions of*)
(* ConsoleOutput::PutChar and Disk::ReadRequest hold for any number of     *)
(* threads and calls.                                                      *)
THEOREM RequestsFindTheDeviceFree == Spec => []OneRequestAtATime
<1>1. IInv => OneRequestAtATime
  <2> SUFFICES ASSUME IInv, NEW u \in Users, pc[u] = "request"
               PROVE  LET d == Device(job[u]) IN ~busy[d] /\ ~due[d] /\ value[<<"done", d>>] = 0
    BY DEF OneRequestAtATime
  <2>1. Dev(u) \in Devices
    BY DeviceFacts DEF Dev
  <2>2. ~Awaited(Dev(u))
    BY DEF IInv, OutputInv, Locks, Critical, Awaited
  <2>3. ~busy[Dev(u)] /\ ~due[Dev(u)] /\ value[Done(Dev(u))] = 0
    BY <2>1, <2>2 DEF IInv, OutputInv, Completions
  <2>4. QED BY <2>3 DEF Dev, Done
<1>2. QED BY <1>1, Invariance, PTL

(* PutInt's lock keeps the digits of a number together on the console.     *)
THEOREM NumbersAreUnbroken == Spec => []NumbersUnbroken
<1>1. IInv => NumbersUnbroken
  BY DEF IInv, OutputInv
<1>2. QED BY <1>1, Invariance, PTL

(* No mail that reached the socket is lost, doubled or overtaken between   *)
(* the network's interrupt, the postal worker and the mailboxes.           *)
THEOREM MailKeepsItsOrder == Spec => []MailInOrder
<1>1. IInv => MailInOrder
  BY DEF IInv
<1>2. QED BY <1>1, Invariance, PTL

(* NetworkInput's callback wakes the postal worker once for each packet it *)
(* buffers.                                                                *)
THEOREM WorkerIsToldOnce == Spec => []WorkerToldOnce
<1>1. IInv => WorkerToldOnce
  BY DEF IInv, InputInv, Told
<1>2. QED BY <1>1, Invariance, PTL
================================================================================
