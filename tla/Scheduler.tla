-------------------------------- MODULE Scheduler --------------------------------
(***************************************************************************)
(* The three-level scheduler of NachOS MP3: the ready lists, aging, the    *)
(* timer's preemption, and a thread's life from Fork to the deletion of    *)
(* its carcass.                                                            *)
(*                                                                         *)
(* One simulated CPU: a thread runs until an action here takes it off, and *)
(* code that runs with interrupts off is one step, except that a switch of *)
(* stacks (Run) and what the next thread does on its own stack (Resume)    *)
(* are two.  Clocks are kept as distances: runTime for totalTicks -        *)
(* threadStartTick, waited for totalTicks - waitingBegin.                  *)
(***************************************************************************)
EXTENDS Integers, FiniteSets, SequencesExt, Sublists

CONSTANTS Threads, Main, NoThread,
          Priorities,    \* what Kernel::Exec may pass to a new thread
          LevelWidth,    \* 50: L3 is 0..49, L2 is 50..99, L1 is 100..149
          AgingStep,     \* 10
          AgingPeriod,   \* 1500 ticks
          Quantum,       \* 100 ticks
          TimerDelays,   \* {TimerTicks}; a range with random slicing
          MaxBurst,      \* bound: ticks a thread runs between two waits
          Grain          \* burst times are kept in Grain-ths of a tick

MaxPriority == 3 * LevelWidth - 1

ASSUME PrioritiesAssumption ==
    /\ {LevelWidth, AgingStep, AgingPeriod, Quantum, MaxBurst, Grain} \subseteq Nat \ {0}
    /\ AgingStep <= LevelWidth
    /\ Priorities \subseteq 0..MaxPriority
    /\ TimerDelays \subseteq Nat \ {0} /\ \E d \in TimerDelays : \A e \in TimerDelays : d >= e
ASSUME ThreadsAssumption == Main \in Threads /\ NoThread \notin Threads

VARIABLES status,         \* "created", "running", "ready", "blocked", "deleted"
          priority,
          waited,         \* ticks a ready thread has waited since it was last aged, else 0
          burst,          \* approximatedBurstTime, in Grain-ths of a tick
          T,              \* the CPU time charged to the thread, in ticks
          readyList,      \* readyList_L1, readyList_L2, readyList_L3
          currentThread, currentLayer,
          runTime,        \* of a running thread, else 0
          toBeDestroyed,
          mode,           \* what the machine is doing
          finishing,      \* the argument of the current thread's Sleep
          yieldOnReturn,
          untilTimer      \* ticks to the next timer interrupt

threadVars == <<status, priority, waited, burst, T>>
cpuVars == <<currentThread, currentLayer, runTime, toBeDestroyed>>
machineVars == <<mode, finishing, yieldOnReturn, untilTimer>>
vars == <<threadVars, readyList, cpuVars, machineVars>>

Level(p) == IF p < LevelWidth THEN 3 ELSE IF p < 2 * LevelWidth THEN 2 ELSE 1

(* SortedList::Insert: before the first item that ranks strictly later. *)
Insert(list, t, rank) ==
    LET place == CHOOSE n \in 1..(Len(list) + 1) :
                    /\ \A i \in 1..(n - 1) : rank[list[i]] <= rank[t]
                    /\ n <= Len(list) => rank[list[n]] > rank[t]
    IN InsertAt(list, place, t)

(* Take each thread of ts off the list, if it is there, and insert it again. *)
Reinsert(list, ts, rank) ==
    LET after[n \in 0..Len(ts)] ==
            IF n = 0 THEN list
            ELSE Insert(Kept(after[n - 1], Threads \ {ts[n]}), ts[n], rank)
    IN after[Len(ts)]

RemainingBurst == [t \in Threads |-> burst[t] - Grain * T[t]] \* compare_L1
ByPriority(prio) == [t \in Threads |-> -prio[t]]              \* compare_L2

(* A double stored in an int: the whole ticks, cut off towards 0. *)
WholeTicks(g) == IF g >= 0 THEN g \div Grain ELSE -((-g) \div Grain)

Init ==
    /\ status = [t \in Threads |-> IF t = Main THEN "running" ELSE "created"]
    /\ priority = [t \in Threads |-> 0]
    /\ waited = [t \in Threads |-> 0]
    /\ burst = [t \in Threads |-> 0]
    /\ T = [t \in Threads |-> 0]
    /\ readyList = [l \in 1..3 |-> <<>>]
    /\ currentThread = Main
    /\ currentLayer = 3
    /\ runTime = 0
    /\ toBeDestroyed = NoThread
    /\ mode = "running"
    /\ finishing = FALSE
    /\ yieldOnReturn = FALSE
    /\ untilTimer \in TimerDelays

--------------------------------------------------------------------------------
(* The scheduler's operations, as the values they leave. *)

(* ReadyToRun's insertion, for a thread of priority p, into the given lists. *)
WithReady(lists, t, p, rank) ==
    [lists EXCEPT ![Level(p)] =
        IF Level(p) = 3 THEN Append(@, t)
        ELSE Insert(@, t, IF Level(p) = 2 THEN ByPriority([priority EXCEPT ![t] = p]) ELSE rank)]

AllEmpty == \A l \in 1..3 : readyList[l] = <<>>

(* Mutant: the lists are searched from L3 up. *)
LastLayer == CHOOSE l \in 1..3 : readyList[l] # <<>> /\ \A k \in (l + 1)..3 : readyList[k] = <<>>

(* FindNextToRun: the front of the first list that is not empty. *)
NextLayer == CHOOSE l \in 1..3 : readyList[l] # <<>> /\ \A k \in 1..(l - 1) : readyList[k] = <<>>
NextThread == Head(readyList[NextLayer])
WithoutNext == [readyList EXCEPT ![NextLayer] = Tail(@)]

(* Mutant: currentLayer is not kept up. *)
RunSameLayer ==
    /\ currentThread' = NextThread
    /\ runTime' = 0
    /\ waited' = [waited EXCEPT ![NextThread] = 0]
    /\ toBeDestroyed' = IF finishing THEN currentThread ELSE toBeDestroyed
    /\ finishing' = FALSE
    /\ mode' = "switched"
    /\ UNCHANGED currentLayer

(* Run: dispatch NextThread, which waits no longer. *)
Run ==
    /\ currentThread' = NextThread
    /\ currentLayer' = NextLayer
    /\ runTime' = 0
    /\ waited' = [waited EXCEPT ![NextThread] = 0]
    /\ toBeDestroyed' = IF finishing THEN currentThread ELSE toBeDestroyed
    /\ finishing' = FALSE
    /\ mode' = "switched"

(* What ToYield knows of the current thread's and L1's first thread's      *)
(* remaining time.                                                         *)
CurrentThreadRemainTime == WholeTicks(RemainingBurst[currentThread] - Grain * runTime)
FirstL1ThreadRemainTime(lists) == WholeTicks(RemainingBurst[Head(lists[1])])

(* Mutants: L2 does not give way to L1; L1 gives way to the longer thread. *)
ToYieldNotInL2(lists) ==
    \/ currentLayer = 3 /\ (runTime >= Quantum \/ lists[1] # <<>> \/ lists[2] # <<>>)
    \/ /\ currentLayer = 1 /\ lists[1] # <<>>
       /\ FirstL1ThreadRemainTime(lists) < CurrentThreadRemainTime
ToYieldToLonger(lists) ==
    \/ currentLayer = 3 /\ (runTime >= Quantum \/ lists[1] # <<>> \/ lists[2] # <<>>)
    \/ currentLayer = 2 /\ lists[1] # <<>>
    \/ /\ currentLayer = 1 /\ lists[1] # <<>>
       /\ FirstL1ThreadRemainTime(lists) > CurrentThreadRemainTime

(* ToYield, on the lists UpdateQueues has just left. *)
ToYield(lists) ==
    \/ currentLayer = 3 /\ (runTime >= Quantum \/ lists[1] # <<>> \/ lists[2] # <<>>)
    \/ currentLayer = 2 /\ lists[1] # <<>>
    \/ /\ currentLayer = 1 /\ lists[1] # <<>>
       /\ FirstL1ThreadRemainTime(lists) < CurrentThreadRemainTime

(* updatePriority of every ready thread ... *)
Aged == {t \in Threads : status[t] = "ready" /\ waited[t] >= AgingPeriod}
AgedPriorityUncapped == [t \in Threads |-> IF t \in Aged THEN priority[t] + AgingStep ELSE priority[t]]  \* mutant
AgedPriorityNever == priority  \* mutant
AgedPriority ==
    [t \in Threads |-> IF t \in Aged /\ priority[t] + AgingStep < MaxPriority THEN priority[t] + AgingStep
                       ELSE IF t \in Aged THEN MaxPriority ELSE priority[t]]

(* Mutants: a thread promoted from L3 stays there as well; L2 is not       *)
(* sorted again after its keys have changed.                               *)
UpdatedQueuesKeeping ==
    LET up3 == Kept(readyList[3], {t \in Threads : AgedPriority[t] >= LevelWidth})
    IN [readyList EXCEPT ![2] = Reinsert(@, up3, ByPriority(AgedPriority))]
UpdatedQueuesUnsorted ==
    LET up2 == Kept(readyList[2], {t \in Threads : AgedPriority[t] >= 2 * LevelWidth})
        up3 == Kept(readyList[3], {t \in Threads : AgedPriority[t] >= LevelWidth})
    IN <<Reinsert(readyList[1], up2, RemainingBurst),
         Reinsert(Kept(readyList[2], Threads \ ToSet(up2)), up3, ByPriority(AgedPriority)),
         Kept(readyList[3], Threads \ ToSet(up3))>>

(* ... and UpdateQueues' moves: L2 to L1, within L2, then L3 to L2. *)
UpdatedQueues ==
    LET rank == ByPriority(AgedPriority)
        Changed == {t \in Threads : AgedPriority[t] # priority[t]}
        up2 == Kept(readyList[2], {t \in Changed : AgedPriority[t] >= 2 * LevelWidth})
        within2 == Kept(readyList[2], {t \in Changed : AgedPriority[t] < 2 * LevelWidth})
        up3 == Kept(readyList[3], {t \in Threads : AgedPriority[t] >= LevelWidth})
    IN <<Reinsert(readyList[1], up2, RemainingBurst),
         Reinsert(Reinsert(Kept(readyList[2], Threads \ ToSet(up2)), within2, rank), up3, rank),
         Kept(readyList[3], Threads \ ToSet(up3))>>

--------------------------------------------------------------------------------
(* What the running thread does. *)

(* Thread::Fork, called by Kernel::ExecAll. *)
Fork(t) ==
    /\ mode = "running" /\ currentThread = Main
    /\ status[t] = "created"
    /\ \E p \in Priorities :
        /\ priority' = [priority EXCEPT ![t] = p]
        /\ readyList' = WithReady(readyList, t, p, RemainingBurst)
    /\ status' = [status EXCEPT ![t] = "ready"]
    /\ UNCHANGED <<waited, burst, T, cpuVars, machineVars>>

(* ReadyToRun of a waiting thread: by a running thread's V or by a device's *)
(* interrupt, also when the waiting thread is the one that idles in Sleep.  *)
Wake(t) ==
    /\ mode \in {"running", "handler", "idle"}
    /\ status[t] = "blocked" /\ ~(finishing /\ t = currentThread)
    /\ status' = [status EXCEPT ![t] = "ready"]
    /\ readyList' = WithReady(readyList, t, priority[t], RemainingBurst)
    /\ UNCHANGED <<priority, waited, burst, T, cpuVars, machineVars>>

(* Thread::Sleep up to its loop; Finish is Sleep(TRUE), the only Sleep of  *)
(* the main thread, in ExecAll.                                            *)
Sleep(isFinishing) ==
    /\ mode = "running" /\ (currentThread = Main => isFinishing)
    /\ status' = [status EXCEPT ![currentThread] = "blocked"]
    /\ burst' = [burst EXCEPT ![currentThread] = (Grain * (T[currentThread] + runTime) + @) \div 2]
    /\ T' = [T EXCEPT ![currentThread] = 0]
    /\ finishing' = isFinishing
    /\ runTime' = 0
    /\ mode' = "sleeping"
    /\ UNCHANGED <<priority, waited, readyList, currentThread, currentLayer, toBeDestroyed,
                   yieldOnReturn, untilTimer>>

(* Sleep's loop finds a thread. *)
Dispatch ==
    /\ mode = "sleeping" /\ ~AllEmpty
    /\ Run
    /\ status' = [status EXCEPT ![NextThread] = "running"]
    /\ readyList' = WithoutNext
    /\ UNCHANGED <<priority, burst, T, yieldOnReturn, untilTimer>>

(* Mutant: a new thread's Begin does not look for a carcass. *)
ResumeOnly ==
    /\ mode = "switched"
    /\ mode' = "running"
    /\ UNCHANGED <<threadVars, readyList, cpuVars, finishing, yieldOnReturn, untilTimer>>

(* After SWITCH, or in Begin: CheckToBeDestroyed on the new stack.  What   *)
(* the deleted object held is gone: 0 stands for it.                       *)
Resume ==
    /\ mode = "switched"
    /\ status' = [t \in Threads |-> IF t = toBeDestroyed THEN "deleted" ELSE status[t]]
    /\ priority' = [t \in Threads |-> IF t = toBeDestroyed THEN 0 ELSE priority[t]]
    /\ burst' = [t \in Threads |-> IF t = toBeDestroyed THEN 0 ELSE burst[t]]
    /\ toBeDestroyed' = NoThread
    /\ mode' = "running"
    /\ UNCHANGED <<waited, T, readyList, currentThread, currentLayer, runTime, finishing,
                   yieldOnReturn, untilTimer>>

--------------------------------------------------------------------------------
(* Time and interrupts. *)

TimePasses(d) ==
    /\ untilTimer' = untilTimer - d
    /\ waited' = [t \in Threads |-> IF status[t] = "ready" THEN waited[t] + d ELSE waited[t]]

(* OneTick: advance the clock, then see what is due. *)
Tick ==
    /\ mode = "running" /\ T[currentThread] + runTime < MaxBurst
    /\ TimePasses(1)
    /\ runTime' = runTime + 1
    /\ mode' = "handler"
    /\ UNCHANGED <<status, priority, burst, T, readyList, currentThread, currentLayer,
                   toBeDestroyed, finishing, yieldOnReturn>>

(* Idle, from Sleep's loop: the clock jumps to the next pending interrupt, *)
(* which the timer's is at the latest.                                     *)
Idle ==
    /\ mode = "sleeping" /\ AllEmpty
    /\ \E d \in 0..untilTimer : TimePasses(d)
    /\ mode' = "idle"
    /\ UNCHANGED <<status, priority, burst, T, readyList, cpuVars, finishing, yieldOnReturn>>

(* Alarm::CallBack, then Timer::SetInterrupt. *)
TimerInterrupt ==
    /\ mode \in {"handler", "idle"} /\ untilTimer = 0
    /\ priority' = AgedPriority
    /\ waited' = [t \in Threads |-> IF t \in Aged THEN 0 ELSE waited[t]]
    /\ readyList' = UpdatedQueues
    /\ yieldOnReturn' = (mode = "handler" /\ ToYield(UpdatedQueues))
    /\ untilTimer' \in TimerDelays
    /\ UNCHANGED <<status, burst, T, cpuVars, mode, finishing>>

(* Every interrupt due has been served. *)
ReturnFromInterrupt ==
    /\ mode \in {"handler", "idle"} /\ untilTimer > 0 /\ ~yieldOnReturn
    /\ mode' = IF mode = "handler" THEN "running" ELSE "sleeping"
    /\ UNCHANGED <<threadVars, readyList, cpuVars, finishing, yieldOnReturn, untilTimer>>

(* Thread::Yield, on return from the timer's interrupt: T is charged even  *)
(* when there is no thread to switch to and runTime keeps counting.        *)
Yield ==
    /\ mode = "handler" /\ untilTimer > 0 /\ yieldOnReturn
    /\ yieldOnReturn' = FALSE
    /\ T' = [T EXCEPT ![currentThread] = @ + runTime]
    /\ IF AllEmpty
       THEN mode' = "running" /\ UNCHANGED <<status, waited, readyList, cpuVars, finishing>>
       ELSE /\ Run
            /\ status' = [status EXCEPT ![currentThread] = "ready", ![NextThread] = "running"]
            /\ readyList' = WithReady(WithoutNext, currentThread, priority[currentThread],
                                      [t \in Threads |-> burst[t] - Grain * T'[t]])
    /\ UNCHANGED <<priority, burst, untilTimer>>

Next ==
    \/ \E t \in Threads : Fork(t) \/ Wake(t)
    \/ \E isFinishing \in BOOLEAN : Sleep(isFinishing)
    \/ Dispatch \/ Resume \/ Tick \/ Idle
    \/ TimerInterrupt \/ ReturnFromInterrupt \/ Yield

Spec == Init /\ [][Next]_vars

(* Simulated time passes: every return to user code or out of a critical   *)
(* section is a OneTick, and the machine's own steps follow each other.    *)
Fairness ==
    /\ WF_vars(Tick \/ \E isFinishing \in BOOLEAN : Sleep(isFinishing))
    /\ SF_vars(Tick)
    /\ WF_vars(Dispatch) /\ WF_vars(Resume)
    /\ WF_vars(TimerInterrupt) /\ WF_vars(ReturnFromInterrupt) /\ WF_vars(Yield)

FairSpec == Spec /\ Fairness

--------------------------------------------------------------------------------
(* Properties. *)

(* The range of every variable. *)
TypeOK ==
    /\ status \in [Threads -> {"created", "running", "ready", "blocked", "deleted"}]
    /\ priority \in [Threads -> 0..MaxPriority]
    /\ waited \in [Threads -> Nat]
    /\ burst \in [Threads -> Nat] /\ T \in [Threads -> Nat]
    /\ readyList \in [1..3 -> Seq(Threads)]
    /\ currentThread \in Threads /\ currentLayer \in 1..3 /\ runTime \in Nat
    /\ toBeDestroyed \in Threads \cup {NoThread}
    /\ mode \in {"running", "handler", "sleeping", "idle", "switched"}
    /\ finishing \in BOOLEAN /\ yieldOnReturn \in BOOLEAN
    /\ untilTimer \in Nat

OnLists == readyList[1] \o readyList[2] \o readyList[3]

(* However threads are woken, aged, preempted and promoted, a thread is on *)
(* the lists exactly when it is READY, once, and on its priority's list:   *)
(* UpdateQueues loses none and leaves none behind its level.               *)
ReadyListsExact ==
    /\ IsInjective(OnLists)
    /\ ToSet(OnLists) = {t \in Threads : status[t] = "ready"}
    /\ \A l \in 1..3 : \A t \in ToSet(readyList[l]) : Level(priority[t]) = l

(* L1 stays sorted by remaining burst and L2 by priority, although aging   *)
(* changes the keys of threads while they are on the list.                 *)
ListsSorted ==
    \A l \in 1..2 : \A i, j \in DOMAIN readyList[l] : i < j =>
        LET rank == IF l = 1 THEN RemainingBurst ELSE ByPriority(priority)
        IN rank[readyList[l][i]] <= rank[readyList[l][j]]

(* currentLayer is the level of the thread that runs, so that ToYield      *)
(* compares like with like.                                                *)
LayerOfCurrent == mode \in {"running", "handler"} => currentLayer = Level(priority[currentThread])

(* A READY thread of a higher level waits at most for the next timer       *)
(* interrupt while a lower one runs (requirement (f), scheduler.cc:180).   *)
PreemptedAtNextTimer ==
    mode = "running" => \A t \in Threads :
        status[t] = "ready" /\ Level(priority[t]) < currentLayer
            => waited[t] + untilTimer <= Max(TimerDelays)

(* The hand-over of a finished thread: one carcass at a time (the ASSERT   *)
(* at scheduler.cc:275), deleted on another thread's stack (thread.cc:76), *)
(* and nothing runs, waits for or wakes a thread that finished.            *)
CarcassHandedOver ==
    /\ finishing => toBeDestroyed = NoThread
    /\ toBeDestroyed # NoThread =>
        mode = "switched" /\ toBeDestroyed # currentThread /\ status[toBeDestroyed] = "blocked"
    /\ status[currentThread] # "deleted"

(* The timer takes the CPU from a thread only for one of its own level or  *)
(* of a higher one.                                                        *)
PreemptionNeverLowers ==
    [][mode = "handler" /\ currentThread' # currentThread => currentLayer' <= currentLayer]_vars

(* A preemption inside L1 is for a thread that has strictly less left to   *)
(* do, to the fraction of a tick, although ToYield compares whole ticks,   *)
(* and although another thread may come to the head before the yield.      *)
ShorterFirst ==
    [][mode = "handler" /\ currentLayer = 1 /\ currentThread' # currentThread
        => RemainingBurst[currentThread'] < burst[currentThread] - Grain * T'[currentThread]]_vars

(* Aging: a READY thread runs or reaches L1, whatever the others do.       *)
AgingPreventsStarvation ==
    \A t \in Threads : status[t] = "ready" ~> (status[t] = "running" \/ Level(priority[t]) = 1)

(* "We don't update current thread T" (scheduler.cc:187): when T is        *)
(* charged with RunTime(), the count that RunTime() takes starts again, so *)
(* that no tick is charged twice.                                          *)
ChargedOnce == [][T'[currentThread] > T[currentThread] => runTime' = 0]_vars
================================================================================
