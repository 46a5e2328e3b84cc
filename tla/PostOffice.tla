------------------------------- MODULE PostOffice -------------------------------
(* The kernel's drivers on top of Synch: threads of one machine print      *)
(* numbers, use the disk and send mail through devices that serve one      *)
(* request at a time (synchconsole.cc, synchdisk.cc, post.cc); the network *)
(* may lose a packet; on the other machine the postal worker puts what     *)
(* arrives into mailboxes (synchlist.cc), which threads wait for.          *)
EXTENDS Synch, SequencesExt, Sublists

CONSTANTS Users, Receivers, Worker, Boxes,
          Numbers,              \* what is printed, Digits characters each
          Digits,
          Accesses,             \* disk accesses
          Mail, BoxOf,          \* messages and their mailboxes
          Reads,                \* the box a receiver reads
          Workloads,            \* sets of calls the users may make in one run
          NoMail, NoJob

Devices == {"display", "disk", "network"}

ASSUME ThreadsAssumption ==
    /\ KernelThreads = Users \cup Receivers \cup {Worker}
    /\ Worker \notin Users \cup Receivers /\ Users \cap Receivers = {}

ASSUME SemaphoresAssumption ==
    /\ Semaphores = ({"lock", "done"} \X Devices) \cup ({"box"} \X Boxes)
            \cup ({"waiter"} \X Receivers) \cup {<<"messageAvailable", Worker>>}
    /\ \A s \in Semaphores : Initially[s] = IF s[1] \in {"lock", "box"} THEN 1 ELSE 0

ASSUME CallsAssumption ==
    /\ Numbers \cap Accesses = {} /\ Numbers \cap Mail = {} /\ Accesses \cap Mail = {}
    /\ Workloads \subseteq SUBSET (Numbers \cup Accesses \cup Mail)
    /\ NoJob \notin Numbers \cup Accesses \cup Mail
    /\ Digits \in Nat \ {0}

(* The postal worker asserts that a message's box exists; no other message *)
(* is sent here, though Send would send it.                                *)
ASSUME MailAssumption ==
    BoxOf \in [Mail -> Boxes] /\ Reads \in [Receivers -> Boxes] /\ NoMail \notin Mail

VARIABLES
    todo,                       \* calls of the workload not made yet
    job, nth,                   \* a user's call and the requests it has made
    busy,                       \* putBusy, active; the network device's is never set
    due,                        \* the device's completion interrupt is pending
    displayed,                  \* characters on the display
    sent,                       \* ghost: mail the network has not lost
    wire, inbox, hand,          \* the socket, NetworkInput's buffer, the worker's
    mailbox, waitQueue,         \* each box's list and its condition's waiters
    received                    \* what each box's receivers have taken

output == <<todo, job, nth, busy, due, displayed, sent>>
input == <<inbox, hand, mailbox, waitQueue, received>>
vars == <<pc, semaphores, output, wire, input>>

TypeOK ==
    /\ pc \in [KernelThreads -> {"idle", "acquire", "request", "wait", "release",
                                 "fetch", "inside", "asleep"}]
    /\ value \in [Semaphores -> Nat] /\ queue \in [Semaphores -> Seq(KernelThreads)]
    /\ todo \subseteq Numbers \cup Accesses \cup Mail
    /\ job \in [Users -> Numbers \cup Accesses \cup Mail \cup {NoJob}]
    /\ nth \in [Users -> 0..Digits]
    /\ busy \in [Devices -> BOOLEAN] /\ due \in [Devices -> BOOLEAN]
    /\ displayed \in Seq(Numbers \X (1..Digits))
    /\ sent \in Seq(Mail) /\ wire \in Seq(Mail)
    /\ inbox \in Mail \cup {NoMail} /\ hand \in Mail \cup {NoMail}
    /\ mailbox \in [Boxes -> Seq(Mail)] /\ received \in [Boxes -> Seq(Mail)]
    /\ waitQueue \in [Boxes -> Seq(Receivers)]

Init ==
    /\ SynchInit([t \in KernelThreads |-> IF t \in Receivers THEN "acquire" ELSE "idle"])
    /\ todo \in Workloads
    /\ job = [u \in Users |-> NoJob] /\ nth = [u \in Users |-> 0]
    /\ busy = [d \in Devices |-> FALSE] /\ due = [d \in Devices |-> FALSE]
    /\ displayed = <<>> /\ sent = <<>> /\ wire = <<>>
    /\ inbox = NoMail /\ hand = NoMail
    /\ mailbox = [b \in Boxes |-> <<>>] /\ received = [b \in Boxes |-> <<>>]
    /\ waitQueue = [b \in Boxes |-> <<>>]


(***************************************************************************)
(* Output: PutInt, ReadSector and WriteSector, Send.                       *)
(***************************************************************************)
Device(j) == IF j \in Numbers THEN "display" ELSE IF j \in Accesses THEN "disk" ELSE "network"
Requests(j) == IF j \in Numbers THEN Digits ELSE 1

Call(u) ==
    /\ At(u, "idle")
    /\ \E j \in todo :
          /\ todo' = todo \ {j}
          /\ job' = [job EXCEPT ![u] = j]
    /\ Goto(u, "acquire")
    /\ UNCHANGED <<semaphores, nth, busy, due, displayed, sent, wire, input>>

(* AcquireDevice_Unlocked: the call goes ahead without the lock.           *)
AcquireDevice_Unlocked(u) ==
    /\ At(u, "acquire")
    /\ Goto(u, "request")
    /\ UNCHANGED <<semaphores, output, wire, input>>

AcquireDevice(u) ==
    /\ At(u, "acquire")
    /\ P(u, <<"lock", Device(job[u])>>, "request")
    /\ UNCHANGED <<output, wire, input>>

(* ConsoleOutput::PutChar, Disk::ReadRequest and WriteRequest: the device  *)
(* is busy until its interrupt.                                            *)
PutChar(u) ==
    /\ job[u] \in Numbers
    /\ displayed' = Append(displayed, <<job[u], nth[u] + 1>>)
    /\ busy' = [busy EXCEPT !["display"] = TRUE]
    /\ UNCHANGED <<sent, wire>>

AccessSector(u) ==
    /\ job[u] \in Accesses
    /\ busy' = [busy EXCEPT !["disk"] = TRUE]
    /\ UNCHANGED <<displayed, sent, wire>>

(* NetworkOutput::Send: the packet reaches the socket or is lost.          *)
Transmit(u) ==
    /\ job[u] \in Mail
    /\ \/ wire' = Append(wire, job[u]) /\ sent' = Append(sent, job[u])
       \/ UNCHANGED <<wire, sent>>
    /\ UNCHANGED <<displayed, busy>>

Request(u) ==
    /\ At(u, "request")
    /\ PutChar(u) \/ AccessSector(u) \/ Transmit(u)
    /\ nth' = [nth EXCEPT ![u] = @ + 1]
    /\ due' = [due EXCEPT ![Device(job[u])] = TRUE]
    /\ Goto(u, "wait")
    /\ UNCHANGED <<semaphores, todo, job, input>>

(* AwaitDevice_Early: the call goes on before the interrupt has come.      *)
AwaitDevice_Early(u) ==
    /\ At(u, "wait")
    /\ Goto(u, IF nth[u] < Requests(job[u]) THEN "request" ELSE "release")
    /\ UNCHANGED <<semaphores, output, wire, input>>

(* PutInt keeps the lock from one character to the next.                   *)
AwaitDevice(u) ==
    /\ At(u, "wait")
    /\ P(u, <<"done", Device(job[u])>>,
         IF nth[u] < Requests(job[u]) THEN "request" ELSE "release")
    /\ UNCHANGED <<output, wire, input>>

ReleaseDevice(u) ==
    /\ At(u, "release")
    /\ V(<<"lock", Device(job[u])>>)
    /\ Goto(u, "idle")
    /\ job' = [job EXCEPT ![u] = NoJob] /\ nth' = [nth EXCEPT ![u] = 0]
    /\ UNCHANGED <<todo, busy, due, displayed, sent, wire, input>>

UserStep(u) ==
    \/ Call(u) \/ AcquireDevice(u) \/ Request(u)
    \/ AwaitDevice(u) \/ ReleaseDevice(u)

(* The device's interrupt and the driver's CallBack.                       *)
Complete(d) ==
    /\ due[d]
    /\ due' = [due EXCEPT ![d] = FALSE] /\ busy' = [busy EXCEPT ![d] = FALSE]
    /\ V(<<"done", d>>)
    /\ UNCHANGED <<pc, todo, job, nth, displayed, sent, wire, input>>

(***************************************************************************)
(* Input: the network's interrupt, the postal worker and the mailboxes.    *)
(***************************************************************************)
(* Poll_Overwriting: it reads a packet whenever there is one.              *)
Poll_Overwriting ==
    /\ wire # <<>>
    /\ inbox' = Head(wire) /\ wire' = Tail(wire)
    /\ V(<<"messageAvailable", Worker>>)
    /\ UNCHANGED <<pc, output, hand, mailbox, waitQueue, received>>

(* NetworkInput::CallBack, polling: it leaves the packet in the socket     *)
(* while one is buffered, and polls on when there is none.                 *)
Poll ==
    /\ inbox = NoMail /\ wire # <<>>
    /\ inbox' = Head(wire) /\ wire' = Tail(wire)
    /\ V(<<"messageAvailable", Worker>>)
    /\ UNCHANGED <<pc, output, hand, mailbox, waitQueue, received>>

PollInVain ==
    /\ inbox # NoMail \/ wire = <<>>
    /\ UNCHANGED vars

AwaitMessage ==
    /\ At(Worker, "idle")
    /\ P(Worker, <<"messageAvailable", Worker>>, "fetch")
    /\ UNCHANGED <<output, wire, input>>

(* Fetch_Keeping: the buffer is not marked empty.                          *)
Fetch_Keeping ==
    /\ At(Worker, "fetch")
    /\ hand' = inbox
    /\ Goto(Worker, "acquire")
    /\ UNCHANGED <<semaphores, output, wire, inbox, mailbox, waitQueue, received>>

(* NetworkInput::Receive.                                                  *)
Fetch ==
    /\ At(Worker, "fetch")
    /\ hand' = inbox /\ inbox' = NoMail
    /\ Goto(Worker, "acquire")
    /\ UNCHANGED <<semaphores, output, wire, mailbox, waitQueue, received>>

AcquireBox(t, b) ==
    /\ At(t, "acquire")
    /\ P(t, <<"box", b>>, "inside")
    /\ UNCHANGED <<output, wire, input>>

(* Deliver_FirstOnly: a waiter is signalled only when the list was empty.  *)
Deliver_FirstOnly ==
    LET b == BoxOf[hand] IN
    /\ At(Worker, "inside")
    /\ mailbox' = [mailbox EXCEPT ![b] = Append(@, hand)]
    /\ \/ /\ waitQueue[b] = <<>> \/ mailbox[b] # <<>>
          /\ UNCHANGED <<semaphores, waitQueue>>
       \/ /\ waitQueue[b] # <<>> /\ mailbox[b] = <<>>
          /\ V(<<"waiter", Head(waitQueue[b])>>)
          /\ waitQueue' = [waitQueue EXCEPT ![b] = Tail(@)]
    /\ Goto(Worker, "release")
    /\ UNCHANGED <<output, wire, inbox, hand, received>>

(* SynchList::Append up to the Signal, whose V wakes the first waiter.     *)
Deliver ==
    LET b == BoxOf[hand] IN
    /\ At(Worker, "inside")
    /\ mailbox' = [mailbox EXCEPT ![b] = Append(@, hand)]
    /\ \/ waitQueue[b] = <<>> /\ UNCHANGED <<semaphores, waitQueue>>
       \/ /\ waitQueue[b] # <<>>
          /\ V(<<"waiter", Head(waitQueue[b])>>)
          /\ waitQueue' = [waitQueue EXCEPT ![b] = Tail(@)]
    /\ Goto(Worker, "release")
    /\ UNCHANGED <<output, wire, inbox, hand, received>>

ReleaseBox ==
    /\ At(Worker, "release")
    /\ V(<<"box", BoxOf[hand]>>)
    /\ hand' = NoMail
    /\ Goto(Worker, "idle")
    /\ UNCHANGED <<output, wire, inbox, mailbox, waitQueue, received>>

WorkerStep ==
    \/ AwaitMessage \/ Fetch
    \/ hand # NoMail /\ AcquireBox(Worker, BoxOf[hand])
    \/ Deliver \/ ReleaseBox

(* SynchList::RemoveFront: wait on the condition while the list is empty,  *)
(* with a semaphore of one's own, testing again under the lock ...         *)
WaitForMail(r) ==
    LET b == Reads[r] IN
    /\ At(r, "inside") /\ mailbox[b] = <<>>
    /\ waitQueue' = [waitQueue EXCEPT ![b] = Append(@, r)]
    /\ V(<<"box", b>>)
    /\ Goto(r, "asleep")
    /\ UNCHANGED <<output, wire, inbox, hand, mailbox, received>>

AwaitSignal(r) ==
    /\ At(r, "asleep")
    /\ P(r, <<"waiter", r>>, "acquire")
    /\ UNCHANGED <<output, wire, input>>

(* ... and take the first item; the thread calls again or never again.     *)
TakeMail(r) ==
    LET b == Reads[r] IN
    /\ At(r, "inside") /\ mailbox[b] # <<>>
    /\ received' = [received EXCEPT ![b] = Append(@, Head(mailbox[b]))]
    /\ mailbox' = [mailbox EXCEPT ![b] = Tail(@)]
    /\ V(<<"box", b>>)
    /\ Goto(r, "acquire") \/ Goto(r, "idle")
    /\ UNCHANGED <<output, wire, inbox, hand, waitQueue>>

ReceiverStep(r) ==
    AcquireBox(r, Reads[r]) \/ WaitForMail(r) \/ AwaitSignal(r) \/ TakeMail(r)

Next ==
    \/ \E u \in Users : UserStep(u)
    \/ \E d \in Devices : Complete(d)
    \/ Poll \/ PollInVain \/ WorkerStep
    \/ \E r \in Receivers : ReceiverStep(r)

Spec == Init /\ [][Next]_vars

(* Ready threads are run (the ready list is a queue in MP1, whose kernel   *)
(* has the post office) and pending interrupts come; nobody need call.     *)
Fairness ==
    /\ \A u \in Users : WF_vars(pc[u] # "idle" /\ UserStep(u))
    /\ \A d \in Devices : WF_vars(Complete(d))
    /\ WF_vars(Poll) /\ WF_vars(WorkerStep)
    /\ \A r \in Receivers : WF_vars(ReceiverStep(r))

FairSpec == Spec /\ Fairness

(***************************************************************************)
(* Properties.                                                             *)
(***************************************************************************)
(* A request never finds the device at work: the assertions of             *)
(* ConsoleOutput::PutChar (putBusy) and Disk::ReadRequest (active), and,   *)
(* for the network, whose sendBusy nothing ever sets, what its assertion   *)
(* would say if it did.  A V hands nothing over and a newcomer may pass a  *)
(* woken thread, so that this rests on the loop in P.                      *)
OneRequestAtATime ==
    \A u \in Users : pc[u] = "request" =>
        LET d == Device(job[u]) IN ~busy[d] /\ ~due[d] /\ value[<<"done", d>>] = 0

(* The digits of a number are displayed together, whatever else is printed.*)
NumbersUnbroken ==
    \A i \in 2..Len(displayed) :
        displayed[i][2] # 1 => displayed[i - 1] = <<displayed[i][1], displayed[i][2] - 1>>

(* Mail the network has not lost is in one place at a time and keeps the   *)
(* order it was sent in: none is overwritten in the input buffer, dropped  *)
(* by the worker, taken twice or overtaken on its way to its box.          *)
InHand == IF hand = NoMail \/ pc[Worker] = "release" THEN <<>> ELSE <<hand>>
Arriving == InHand \o (IF inbox = NoMail THEN <<>> ELSE <<inbox>>) \o wire

To(b) == {m \in Mail : BoxOf[m] = b}

MailInOrder ==
    \A b \in Boxes :
        received[b] \o mailbox[b] \o Kept(Arriving, To(b)) = Kept(sent, To(b))

(* The worker is told of a packet once, and only while one is buffered.    *)
WorkerToldOnce ==
    value[<<"messageAvailable", Worker>>] = 1 \/ pc[Worker] = "fetch" <=> inbox # NoMail

(* A call on a device returns, once the others have made theirs.           *)
CallsReturn == \A u \in Users : pc[u] # "idle" ~> pc[u] = "idle"

(* Mail that reaches the machine is received as long as anybody is in      *)
(* Receive for its box: the signal that comes with each mail is neither    *)
(* lost nor wasted on a thread that finds it taken.                        *)
MailReceived ==
    \A b \in Boxes :
        []<>(\/ received[b] = Kept(sent, To(b))
            \/ \A r \in Receivers : Reads[r] = b => pc[r] = "idle")
================================================================================
