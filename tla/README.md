# Verification of OS_MP: the pthreads pipeline and the NachOS kernel

The repository holds the programming assignments of an operating-systems
course: a producer/consumer pipeline on POSIX threads
(`src/NTHU-OS-Pthreads`) and four states of the NachOS teaching kernel
(`src/NachOS-4.0_MP1` ... `MP4`). The authors' own logic is the pipeline, the
three-level scheduler and the frame table of MP3, the open-file table of
MP1/MP3 and the hierarchical file system of MP4; the rest of NachOS (MIPS
simulator, devices, network) came with the course. This directory models the
authors' logic and as much of the kernel under it as the properties need.

    BoundedFifo         what a bounded queue promises
    TSQueue             the ring buffer, statement by statement
    TSQueueProofs       its invariants, and that it implements BoundedFifo
    Pipeline            all threads of the pipeline over atomic queues
    PipelineProofs      no item lost, the controller's vector, the end
    Scheduler           ready lists, aging, preemption, thread life cycle
    SchedulerProofs     the lists' contents and order, preemption, carcasses
    UserPrograms        frames, loading, exit, the open-file table
    UserProgramsProofs  frames, counter, ids
    SectorLayout        how many sectors a file takes and which
    FileHeader          the three-level index of a file on disk
    FileHeaderProofs    headers and data read back, the map is exact
    NameTree            what the file system promises of its names
    FileSystem          commands as sequences of disk writes, with aborts
    FileSystemProofs    no leak, confined damage, names change atomically
    Synch               semaphores over masked interrupts
    PostOffice          console, disk and network drivers, mailboxes, over Synch
    PostOfficeProofs    one request at a time, the order of digits and mail
    Sublists            a part of a sequence, in its order
    Lemmas              counting, sequences without repetition, order, folds
    MC*.tla, *.cfg      small instances for TLC

## Inventory

State, operations, interactions, what is hard, and what would make it correct.

**TSQueue** (`ts_queue.hpp`). A ring `buffer`, `size`, `head`, `tail`, one
mutex, two condition variables. `enqueue`, `dequeue` (both block), `get_size`
(no lock). Called by every thread of the pipeline. Hard: interleaving, one
signal instead of a broadcast, spurious wake-ups, wrap-around. Correct: a
linearisable FIFO, no lost wake-up, progress.

**Pipeline** (`reader`, `producer`, `consumer`, `consumer_controller`,
`writer`, `main`). Three queues; the controller keeps a vector of consumers and
polls the worker queue to create or cancel them; main joins reader and writer
and deletes everything. Hard: cancellation while an item is in hand, the
consumers' self-deletion, two unlocked reads of the size per round, ending.
Correct: no item lost, duplicated or left untransformed; no use of a deleted
consumer; the program ends.

**MP3 scheduler and threads** (`threads/scheduler.cc`, `thread.cc/.h`,
`alarm.cc`). Three ready lists (L1 by remaining burst, L2 by priority, L3
round robin), aging by the timer, preemption by `ToYield`, a finished thread
deleted by its successor. Called by semaphores and devices (`ReadyToRun`), by
`Kernel::ExecAll` (`Fork`). Hard: aging changes keys of threads in sorted
lists, interrupts in one batch, a thread that idles inside its own `Sleep`,
clocks charged at yields. Correct: see the runs below.

**MP3 interrupts and timer** (`machine/interrupt.cc`, `timer.cc`). Simulated
time, the pending list, `yieldOnReturn`, the idle loop. Drives the scheduler.

**Semaphores, locks, conditions, SynchList** (`threads/synch.cc`,
`synchlist.cc`, the same in all four trees). Values and wait queues guarded by
masking interrupts; conditions are queues of semaphores. Called by every driver
and by the mailboxes. Hard: V hands no unit over, a third thread may take it;
`Wait` releases the lock before it sleeps. Correct: mutual exclusion, no lost
or wasted wake-up, FIFO lists.

**MP3 address spaces** (`userprog/addrspace.cc`, `kernel.cc`). A page table
per process, `mainMemoryUsed` and `mainMemory` for all. Hard: the destructor
frees every entry of the page table, loaded or not, and the unloaded entries'
`physicalPage` is never assigned; segments start inside pages and frames are
not contiguous. Correct: a frame belongs to at most one live process, and a
program is stored in its own frames only.

**MP3 open files** (`filesys/filesys.h`, `exception.cc`). A table of twenty
entries behind Open/Read/Write/Close, shared by all programs. Correct: an id
names one open file from Open to Close; the counter is the entries in use.

**MP4 file system** (`filesys/filesys.cc`, `filehdr.cc`, `directory.cc`,
`openfile.cc`, `pbitmap.cc`). Directories and headers in sectors, a bitmap
file, one current file. Hard: creation and removal are several write-backs and
the user may abort between two of them; removal with and without what is below;
failure half way; index arithmetic over three levels. Correct: used sectors are
exactly the reachable ones but for the command an abort cut short; the names
change atomically; headers and data read back.

**Disk, console, network drivers** (`synchdisk.cc`, `synchconsole.cc`,
`post.cc` over `machine/disk.cc`, `console.cc`, `network.cc`). A device with
one request in flight, a lock and a semaphore V'd by the interrupt; packets may
be lost; a postal worker moves arrivals from a one-packet buffer to mailboxes.
The post office runs in MP1 and MP2 and is commented out of the MP3 kernel.

**Not to be modelled**: the MIPS simulator (an instruction interpreter), the
MP1 and MP2 trees where they differ (superseded by MP3 and MP4), coff2noff and
the cross compiler, test programs, the pipeline's timing experiments
(`exp.cpp`, `consumer_controller_exp.hpp`: copies that log).

`PROJECT.json` lists, under "hazards", what of this is hard to test, at its
line, with the properties that cover it.

## Plan

In this order; all nine are done.

1. `BoundedFifo`, `TSQueue`: the concurrency everything else in the pipeline
   rests on, with invariants, progress and the refinement; `TSQueueProofs`.
2. `Pipeline`: composes the queues at `BoundedFifo`'s level of atomicity.
3. `Scheduler`: dispatch, aging, preemption, carcasses.
4. Findings met on the way, as runs that TLC refutes.
5. `UserPrograms`: frames and open files under interleaved programs.
6. `SectorLayout`, `FileHeader`: the index arithmetic and what is allocated.
7. `NameTree`, `FileSystem`: each disk write a step, an abort between any two,
   refining a tree of names.
8. `Synch`, `PostOffice`: semaphores and the drivers that are their clients.
9. A module of proofs beside each component: `TSQueueProofs`,
   `PipelineProofs`, `SchedulerProofs`, `UserProgramsProofs`,
   `PostOfficeProofs`, `FileHeaderProofs`, `FileSystemProofs`, over `Lemmas`.
   Every invariant and action property that a passing run checks is a theorem
   of one of them.

## TSQueue and BoundedFifo

One action per statement of `enqueue` (lines 78-85) and `dequeue` (91-98), with
`pc` as the position; `pthread_cond_wait` releases and blocks in one step and a
woken thread goes back to the mutex and then to the loop's test. `get_size` may
read at any moment. Callers call with any item at any time, so the queue's
clients are the most general ones.

`BoundedFifo` has one step per operation between call and return.
`ImplementsFifo` maps the ring to it: an enqueue takes effect when it counts
its item (line 83), a dequeue when it loads it (line 94); the answer of
`get_size` may be one too high while a dequeue has loaded and not counted.
That is what `Pipeline!ObservedSizes` uses.

| run | instance | shows |
|---|---|---|
| `queue` | 2 enqueuers, 2 dequeuers, items {a, b}, 2 slots, spurious wake-ups, `FairSpec` | `TypeOK`, `MutualExclusion`, `RingConsistent`, `NoLostWakeup`, `ImplementsFifo`, `DequeueProgress`, `EnqueueProgress` |

Two slots are the smallest ring that can be empty, partly full and full and
that wraps; two threads a side are needed for a woken thread to lose the mutex
to another of its kind. Fairness is weak, per thread: the system runs a thread
that can go on. Nothing makes a thread call, and nothing makes the mutex fair,
so progress is for some caller and not for each. Both progress properties
assume that spurious wake-ups end (`SpuriousWakeupsEnd`), in both directions:
a queue whose signals are missing is not saved by them, and one that is woken
for ever, each time for nothing, owes nothing.

### What is proved

`TSQueueProofs` proves, for every finite set of threads, any items and any
capacity, with and without spurious wake-ups: `TypeCorrect`, `MutexExcludes`,
`RingIsConsistent`, `NoWakeupIsLost` and `Refinement` (`Spec =>
ImplementsFifo`). The assumptions are the four named ones of `TSQueue`
(capacity at least one, finitely many threads, the two null values outside
their sets).

None of the invariants is inductive alone. `RingConsistent` speaks of the ring
while the mutex is free; `RingInv` extends it to every position of the holder:
between the store and the counting the slot at the tail already holds the
item, between the load and the advance of the head the window is one longer
than its contents. `NoLostWakeup` compares the size with the number of awake
threads, so its proof counts: a wake-up moves one thread from the blocked to
the awake (lemmas on the cardinality of a set that gains or loses one
element). The `IInv` of the module is the conjunction; `Invariance` proves it
inductive one action at a time, and the other theorems follow. The refinement
uses `IInv` in the step's antecedent, and each action maps to one abstract
action or to a stutter. `IInv` was checked by TLC on the instance of `queue`
before it was proved. Progress is liveness and model-checked only.

## Pipeline

An item is its line number; `val` is the sequence of transforms applied to it.
Enqueue and dequeue are atomic, which the refinement of the queue justifies.
`at[c]` is a consumer's position in its loop, or "none" when there is no such
object; cancellation only sets `isCancel`, because the consumer runs its loop
body with cancellation disabled and passes no cancellation point outside it.
The controller's two looks at the queue are two actions.

After its joins main deletes the threads' objects (`DeleteObjects`) and then
the queues (`DeleteQueues`), although producers, consumers and the controller
never end. By then nothing is left for them to do with an item
(`TeardownIsClean`), so the model stops their steps where their objects are
gone: what they still do with freed memory is nothing the properties see, or a
fault (`UseDeleted`). `~TSQueue` destroys a condition (ts_queue.hpp:71) that the
producers, who find the input queue empty for good, still wait on. That is
undefined: the destruction may return, or wait for the waiters to leave, as
glibc since 2.25 does, and nobody signals them. `DeleteQueues` chooses, so main
may exit or be "blocked" for ever, and no property claims that the process
ends. `Ended` lets the model stop in the three ends, so a deadlock anywhere else
would be reported.

| run | instance | shows |
|---|---|---|
| `pipeline` | 4 items, 2 producers, at most 2 consumers, queues of 1, 2, 1, thresholds 1 and 1, fair | `TypeOK`, `NothingLostOrDuplicated`, `TransformedInOrder`, `VectorIsLive`, `TeardownIsClean`, `NeverDownToNone`, `JoinsReturn` |
| `pipeline_few` | 1 item, fair | refutes `WriterFinishes` |

The bound on live consumers is the size of `Consumers`; the controller skips a
creation when all are in use. Thresholds of 1 in a queue of 2 let the
controller scale up when the queue is full and down when it is empty, in either
order, as often as it wants. Fairness is weak, per thread.

`pipeline_few` shows a flaw: the controller creates the first consumer only
when the worker queue is longer than the high threshold, so an input of at
most 160 lines (80% of 200 in main.cpp) never gets a consumer, and the writer,
which "finished after output expected lines" (writer.hpp:19-20), never does.
That main deletes queues in which threads wait is listed as a hazard of its
own: no text of the repository says that the process ends, so there is nothing
for a run to refute.

### What is proved

`PipelineProofs` proves all invariants of the run for any number of lines,
producers and consumers, any capacities and any thresholds (`SizesAssumption`,
`ThreadsAssumption`): `ItemsAreConserved`, `TransformsAreOrdered`,
`VectorHoldsTheLive`, `TeardownsAreClean`, `AlwaysAConsumer`, `TypeCorrect`.

`NothingLostOrDuplicated` is stated in a way TLC evaluates quickly and is
proved through `Places`, which names the places: the four sequences have no
repetitions, share nothing with each other or with the hands, and are together
what the reader has read. It is not inductive without `HandsAt` (a consumer has
an item exactly when its next statement is the enqueue, so that a cancelled one
that leaves the loop leaves nothing behind). `TransformedInOrder` speaks of the
output; `Transforms` says what has been done to an item at every place before.
`TeardownIsClean` needs `Joined`, which ties the counters of reader and writer to
the lengths they count and to what main's joins have waited for.
`AlwaysAConsumer` is an action property and needs no more than the types.

## Scheduler

One simulated CPU. A running thread may fork (main only, as ExecAll does), wake
a waiting thread, sleep or finish, and tick. A tick opens a batch of interrupts
(`mode` "handler"): devices wake threads, the timer ages and moves threads and
may ask for a yield, and the batch ends with the yield or the return. A thread
that sleeps looks for a successor and idles until there is one ("sleeping",
"idle"); what it does on the successor's stack is `Resume`.

| model | code |
|---|---|
| `readyList[l]` | `readyList_L1`, `_L2`, `_L3` |
| `waited`, `runTime` | `totalTicks` less `waitingBegin`, less `threadStartTick`; kept at 0 where the code does not read them |
| `burst`, `T` | `approximatedBurstTime` in `Grain`-ths of a tick; `T`, whose values are whole ticks |
| `WholeTicks` | a double stored in an int, as `ToYield` does with both remaining times |
| `untilTimer` | the due time of the timer's pending interrupt |
| `Reinsert`, `Insert` | the loops of `UpdateQueues` over `List::Remove` and `SortedList::Insert` |

| run | instance | shows |
|---|---|---|
| `scheduler` | main and three threads, time slices of 1 or 2 (the -rs option), bursts of 1, in half ticks | `ReadyListsExact`, `ListsSorted`, `TypeOK`, `LayerOfCurrent`, `PreemptedAtNextTimer`, `CarcassHandedOver`, `PreemptionNeverLowers`, `ShorterFirst` |
| `scheduler_live` | main and two threads, time slices of 2, fair | `AgingPreventsStarvation` |
| `scheduler_charge` | the same | refutes `ChargedOnce` |

Three priorities per level and steps of two (0..8 for 0..149 in steps of ten)
give every relation the code tests: within a level, overtaking inside it, across
a boundary, at the cap. The step must exceed the least gap between two
priorities: with steps of one, equal threads age in the order they wait and L2
would stay sorted without being sorted again. Three threads in L2 are needed for
a reinsertion to pass another key that has changed; hence four threads.
`MaxBurst` bounds the ticks a thread runs between two waits; it is at least the
quantum, so quanta expire.

The code halves a double at each wait and compares the first L1 thread's
remaining time with the current one's after cutting both off to whole ticks,
towards 0 (scheduler.cc:188-190). `Grain` says how fine the model's fractions
are; what a halving leaves below one is rounded down, as a double rounds below
its last place. With `Grain` 2 the run has burst times of 0 and of half a tick,
remaining times on both sides of 0, preemptions decided on times with a half in
them, and preemptions that are missed because two different times are the same
in whole ticks. `ShorterFirst` compares the fractions: the
cutting off can hide a difference and never inverts one, which
`WholeTicksMonotone` shows for every `Grain`. A deleted thread's object is gone;
the model keeps zeros in its place.

Fairness: the machine's own steps follow one another
(weak), and simulated time passes (strong fairness of `Tick`): each return from
a critical section or to user code is a `OneTick`, so threads cannot hand the
CPU round for ever at one instant. Inside L1 nothing bounds a thread's wait,
and the liveness property stops there.

`scheduler_charge` shows a flaw: `Thread::Yield` adds the run time to `T`
before it knows whether there is another thread, and when there is none
`threadStartTick` is not reset, so the same ticks are charged again at the next
yield or sleep. `ToYield` (scheduler.cc:187) relies on the opposite.

Not modelled: stacks and registers, `Halt`, threads woken by a `Broadcast`
in one go (they are woken one after another), priorities outside 0..149 (the
code aborts).

### What is proved

`SchedulerProofs` proves all safety properties of the run for any set of
threads, any level width, any aging step of at most a level, any aging period,
quantum and timer delays and any grain of burst times (`PrioritiesAssumption`, `ThreadsAssumption`):
`ListsAreExact`, `ListsStaySorted`, `LayerIsCurrent`, `PreemptedInTime`,
`CarcassIsHandedOver`, `PreemptionGoesUp`, `ShorterGoesFirst`, `TypeCorrect`.

The heart is `UpdateQueues`. It raises priorities of threads that are on the
lists and then takes those threads off and inserts them again, one at a time,
so that most lists on the way are not sorted. `Ordered(s, R)` of `Lemmas`
says that each pair of a sequence is in R; the proof uses the relation
`Before(rank, pending)`, in which a thread that is still to be moved may come
after anything. `InsertOrdered` shows that an insertion before the first thread
of greater rank keeps this order and settles the thread, although pending
threads lie between, and `ReinsertFacts` carries it through the whole fold by
induction on its steps. Aging raises a thread by one level at most
(`AgedFacts`, where `AgingStep <= LevelWidth` is used: the code adds 10 and a
level is 50 wide), so no thread has to pass from L3 to L1 in one call.

The invariant `IInv` of the module is `TypeOK`, the two facts about lists
(`OnLevels`, `InOrder`), and three that the preemption properties need.
`Dispatching` says who runs and in which state a thread is that gives the CPU
up; without it a second thread could finish while a carcass waits. `Clocks`
bounds the time to the next timer interrupt and says that `yieldOnReturn` is
set only inside the batch. `Preemption` says that a waiting thread of a higher
level has waited, together with the time to the next timer interrupt, no longer
than one timer delay: `PreemptedAtNextTimer` looks at the waiting time alone,
and a tick would break it.

## UserPrograms

MP3's programs and what they share. A `Load`, a system call and a destructor
are one step each: the stub file system does its I/O in Unix and never sleeps,
so only the steps of different programs interleave. A finished thread's
destructor runs before any other thread does anything, which is what
`Scheduler`'s `CarcassHandedOver` shows of the thread life cycle.

| model | code |
|---|---|
| `pageTable[p]` | the `physicalPage` of the entries `Load` made valid |
| `mainMemoryUsed` | the set of frames whose mark is TRUE |
| `mainMemory[c]` | which program's `MainMemoryWrite` stored the cell last |
| `Garbage` | `physicalPage` of entries nobody assigned: any frames |
| `held[p]` | ghost: what `p` opened and nobody has closed |
| `aborted` | `GetFrame` found no frame and stopped the machine |

| run | instance | shows |
|---|---|---|
| `programs` | 3 programs of 1 to 3 pages, 3 frames of two cells, 2 files, 3 table entries | `TypeOK`, `NoFrameLeak`, `CounterExact`, `IdsPrivate` |
| `programs_frames` | the same | refutes `RunningKeepsFrames` |
| `programs_load` | the same | refutes `LoadStaysInFrames` |

Three frames are enough for memory to run out, and for a program to be given
the two frames around another's; three table entries for a reused one between
two that are in use. A page of two cells is the least in which a segment can
start inside a page. An id may be closed by any program, since the table
belongs to none.

`programs_frames` shows a flaw: `~AddrSpace` clears the mark of all
`NumPhysPages` entries, and the constructor leaves `physicalPage` of the
entries `Load` does not reach uninitialised. With an allocator that returns
zeroed memory it is frame 0, whoever has it, that becomes free each time a
program ends. `programs_load` shows another: `MainMemoryWrite` translates the
first byte of each page-long piece only, so a data segment that starts inside
a page is stored over the end of its frame. The instance is the shape of
`test/fileIO_test1` (its read-only data is at 832, 64 bytes into a page, and
176 bytes long), loaded where an ended program has left a gap.

### What is proved

`UserProgramsProofs` proves `NoFrameIsLeaked`, `CounterIsExact`, `IdsArePrivate`
and `TypeCorrect` for any set of programs and executables, any memory and any
table size (`SizesAssumption`, `NoFileAssumption`, and `FitAssumption`, which is
`Load`'s own assertion). The invariants are inductive but for one addition,
`FreshTables`: a thread that has not loaded its program has no frames, so that
loading overwrites no page table. `IdsPrivate` needs `CounterExact`, which is
why a table that is not full has a free entry and `Open`'s search ends inside
it; the counter is compared with a cardinality, hence the lemmas on
counting.
`RunningKeepsFrames` and `LoadStaysInFrames` are false and stay with TLC.

## SectorLayout and FileHeader

`FileHeader` keeps the four arrays of a header as functions on row-major
positions, with `Fan` for the 32 entries of a row, and the disk as what each
sector holds: a size and a row of sector numbers, or a file's data. `Allocate`,
`WriteBack`, `FetchFrom`, `Deallocate` and `ByteToSector` are the code's, loop
by loop. `handed` remembers the header that `Allocate` made in memory, so that
`HeaderReadBack` compares it with what a later `FetchFrom` reads.

| run | instance | shows |
|---|---|---|
| `header` | 2 files of 0, 1, 2, 3, 5 or 9 data sectors, `Fan` 2, 34 sectors | `HeaderReadBack`, `DataReadBack`, `MapExact` |

With rows of two, sizes 2, 3, 5 and 9 are the last of a row, the first of the
next row, of the next L3 sector's row and of the second L1 entry, which is
every place where the index arithmetic can be off by one; the disk has room
for one file of nine sectors and one of five, so that a file is allocated in
the gaps another left. The sizes of the code (32, 30 entries of L1) change the
numbers and not the relations. Sizes beyond the index stop the machine by
assertion and are not given.

### What is proved

`FileHeaderProofs` proves the three properties for every width of an index
sector, every number of entries in the header, every disk, any number of files
and all sizes that the index has room for: `HeadersReadBack`,
`AllDataReadBack`, `TheMapIsExact`. So they hold with the code's 32 entries a
row and 30 of L1. The assumptions are `FanAssumption` (a row has an entry)
and `HeaderAssumption` (the numbers are naturals, and `Allocate`'s assertion
that L1 is long enough).

Four groups of lemmas lead there. `Division`, `RoundUp` and `Sizing`: an entry of
one level lies in a row that the level above has an entry for, and the arrays are
long enough for what is used. `Requests` and `AllocateSound`: the requests of
the four loops have different numbers, the kth of them gets the kth clear
sector (`NthExists` and `NthUnique`), hence all get different ones.
`WriteBackStores` and `FetchFromReads`: each row lands in the sector that the
level above names, nothing else is touched, and reading goes back the same way,
level by level. `ByteToSectorIsPosition`: the shifts and remainders put a number
together again from its digits.

The invariant says of each live file that its header is sound (in range and
without repetitions), stored on the disk row by row, that its data sectors hold
its data once written, that no two files share a sector and that the map marks
exactly those taken. `HeaderReadBack` is not inductive: it does not say that
another file's write spares the index sectors; `Stored` and `Apart` do.

## NameTree and FileSystem

A command computes in memory and then writes back, and `pending` is the list of
its disk writes: the header, a new directory's table, the parent's table (two
sectors), the bitmap (two sectors). `WriteSector` does the next one. `Restart`
may come between any two: the machine stops, by the user's abort or because the
program is done, and starts again on the same disk. filesys.cc (24-29, 38-40)
promises that a failed operation writes nothing and that an exit in the middle
may corrupt the disk; `DamageConfined` and `NoLeak` say how much. After an
abort that did damage the only commands given are a restart and a format, which
is what the promise leaves its user.

`head` and `tab` are what the disk holds at a header's sector: the sectors the
header names (`FileHeader` says how) and, for a directory, its entries. A
sector nothing was written to holds garbage, chosen to do most harm.
`Boundary` is the one entry that lies across the two sectors of a directory
(an entry of 20 bytes does not divide 128); a stop between the two leaves it
in use with its old name, and `torn` records that. The entry that lies there
is the seventh, whose first eight bytes, `inUse` and `sector`, end at byte 128
(directory.h:32-41, directory.cc:80). A directory of sixty-four entries has
further boundaries, which the model's two sectors leave out: the entries across
them split later, in front of `isDirectory` or inside the name, and the ones
split there tear the same way or in the name alone.

`NameTree` is the promise: a set of names, each command adds one name, removes
one with all below it, or does nothing, in one step. `ImplementsNameTree` maps
the tables on the disk to it: a creation takes effect when the parent's first
sector is written, an abort leaves the names as before or after.

| run | instance | shows |
|---|---|---|
| `filesystem` | 3 names, paths /a, /b, /c, /a/a, directories of 2 entries, 26 sectors (room for three files) | `TypeOK`, `NoLeak`, `DamageConfined`, `ImplementsNameTree` |

Three names for two entries let a directory be full; room for three files of
five sectors lets the disk be full while a directory is not; one nested path is
enough for a removal to leave or take what is below. The two names that occur
only in the root are symmetric.

What was seen and is not a run: `OpenAFile` (filesys.cc:342, "return 0 if not
found") returns whether `currentFile` is set, so opening a missing name while
another file is open answers 1. The action has this answer.

### What is proved

`FileSystemProofs` proves `NothingLeaks`, `DamageIsConfined`, `TypeCorrect` and
`Implements` (`Spec => ImplementsNameTree`) for any disk, any size of the map's
first sector, any directory size and position of the entry across two sectors,
any set of paths and any file sizes. The assumptions are `DiskAssumption` (the
numbers are naturals and a formatted disk has room for its own two files),
`PathsAssumption` (paths are not empty and one of them is longest, as the
code's buffers bound them) and `FanAssumption`.

The model computes what is reachable; a proof needs to name it. The invariant
says that there is a set `D` of directory headers with a path `P[d]` for each,
such that the disk is sound (`DiskSound`): the root is in `D`, every other
directory of `D` is led to by an entry of another and has that entry's path,
names within a directory differ, and each entry owns its header and data
sectors apart from every other's and from the system's. `DiskFacts` shows that
`Files`, `Reachable` and `Subtree` are then what `D` holds; a path's length
bounds the depth, which is why the recursion up to `MaxDepth` reaches all.
`Settled` adds that marked sectors are held or orphaned and that held sectors
which are not marked lie below one entry, the two properties of the run.

Neither is inductive: both depend on what the writes still to do will make
true. `Working` and `Marking` say what `pending` can be, stage by stage. In
`Creating` the new entry's sectors are unmarked and so no one's, its header and
table are written by the time its name is, and the name's slot is free. In
`Marking` the name is there, and what is unmarked is the new entry's. In
`Removing` the map is written first and loses what is below the entry only; in
`Unlisted` the name is gone and everything held is marked. Each stage is kept
by the next write (`AnyWrite`) and may be cut off by `Restart`, because a settled
disk with nothing to write is settled.

A write that puts a name on the disk changes `D` and `P`. `EntryAdded` and
`EntryRemoved` say how: an added directory joins `D` with its parent's path and
its name; a removed entry takes away all directories that its path leads to,
which is what `Subtree` follows (`SubtreeOf`). The same lemmas carry the
refinement: `NamesAdded` and `NamesRemoved` show that the names of the tree gain
one or lose one with all below it, `ListIs` that `RecursiveList` prints exactly
those names, and `StepShape` sorts every step into going on, tearing an entry
and formatting, the three actions of `NameTree`. When the entry across two
sectors is being written, the tree is looked at as with both halves written
(`Tables`), and the proof of `Marking` is over those tables.

## Synch and PostOffice

`P` and `V` run with interrupts off, so each is one step: a sleeper is appended
to the queue, and once taken off tests the value again. A thread can lose the
processor only where a `SetLevel` turns interrupts on again, that is at the end
of a `P` or `V`; so one action of `PostOffice` runs from one such point to the
next. Interrupts (`Complete`, `Poll`) come at any moment between.

`PostOffice` puts the kernel's clients of semaphores on it: `PutInt`, a disk
access and `Send` share the pattern lock, request, wait for the interrupt,
unlock, with `PutInt` repeating the middle for each digit. The network loses
any packet (`Transmit`), the other machine's `NetworkInput` polls its socket
into a buffer of one packet, the postal worker moves it to a mailbox's
`SynchList`, and receivers wait for it by `Condition::Wait` with a semaphore
each.

| run | instance | shows |
|---|---|---|
| `postoffice` | 2 users; two numbers of two digits, three disk accesses, or two mails; 1 mailbox, 2 receivers; fair | `OneRequestAtATime`, `NumbersUnbroken`, `MailInOrder`, `WorkerToldOnce`, `CallsReturn`, `MailReceived` |

Three accesses by two users let a third caller take the lock between a V and
the woken thread's test. Two receivers let one take the mail the other was
signalled for. The three workloads are separate because the devices share
nothing. Fairness is weak for each thread that is in a call, for each device
and for the poll: MP1's ready list is a queue, and the simulator delivers
pending interrupts in the order of their times. Since V hands no unit over, a
caller could be passed by newcomers for ever; calls are finitely many here, so
`CallsReturn` says that a call returns once the others have stopped calling.

`NetworkOutput` never sets `sendBusy`, so its assertion cannot fail;
`OneRequestAtATime` checks what it would say, from the pending interrupt.

### What is proved

`PostOfficeProofs` proves the four safety properties for any number of users,
receivers, boxes and calls and any number of digits
(`RequestsFindTheDeviceFree`, `NumbersAreUnbroken`, `MailKeepsItsOrder`,
`WorkerIsToldOnce`), the types (`TypeCorrect`) and that no lock, completion or
packet signal ever holds a second unit (`SemaphoresAreBinary`). The assumptions
name the semaphores and their initial values as the constructors give them
(`SemaphoresAssumption`, `InitiallyAssumption`), keep the kinds of threads
and calls apart (`ThreadsAssumption`, `CallsAssumption`) and give each receiver
a box and each message a box that exists (`MailAssumption`). The worker asserts
the latter (post.cc:210) and `Send` only that the number is not negative: a
message to a box the other machine lacks stops that machine, which is not
modelled. Nor is `lockHolder`, with the assertions that who releases a lock or
waits under it holds it (synch.cc:202, 250, 279): a thread's `pc` says where it
is between `Acquire` and `Release`, and every release is by the thread that
acquired.

The invariant is a set of tokens. For a device, the caller past the lock, the
lock's unit, the pending interrupt and the completion's unit go together
(`Locks`, `Completions`): a request is waited for by one thread and is either
under way or done, never both. `LastDigit` says what a caller between two
digits has left on the display, which `NumbersUnbroken` needs across its sleep.
For the mailboxes, `BoxLocks` is the mutual exclusion, `Told` the hand-over
between interrupt and worker, and `Sleepers` says that who is on a waiting list
sleeps and has no signal yet, so that each `Signal` makes a semaphore 1 and not
2. That every call returns is liveness and stays with TLC.

## How the proofs are laid out

Each module of proofs states its `IInv`, proves `Init => IInv`, one lemma per
action that the action keeps it, `Invariance` (`Spec => []IInv`) and from it
the properties the runs check. Each `IInv` was checked by TLC on the run's
instance before it was proved. Theorems and properties have different names,
because the module of proofs extends the model.

Induction is over sets of natural numbers (`InductionOnSet` of `Lemmas`: a set
of naturals that contains 0 and the successor of each of its elements is all of
them) and over sets of sequences (`InductionOnAppend`): the library's induction
theorems take an operator as parameter and cannot be instantiated by the
provers. What a recursive function yields is proved from `RecursionExists` and
`RecursionUnique`, which show that the function asked for by its equation
exists. The rest of `Lemmas` is what appending, removing the head, inserting
and selecting do to the elements of a sequence, to its order and to its freedom
from repetitions.

### What stays with TLC

- Liveness: `DequeueProgress`, `EnqueueProgress`, `JoinsReturn`,
  `AgingPreventsStarvation`, `CallsReturn`, `MailReceived`. Fairness and
  ENABLED are out of the prover's reach.
- The properties that TLC refutes.

## Mutants

Each module defines, before an operation, variants of it with a plausible bug.
They are used by no specification; substituting one for the operation makes TLC
refute the property paired with it in `PROJECT.json`, which shows that the
property depends on that part of the code.

## Not modelled

- The MIPS simulator, `translate.cc`, stacks and context switches: an
  interpreter of instructions, data rather than control.
- The keyboard (`SynchConsoleInput`); `SynchList::Apply` and
  `Condition::Broadcast`, which the kernel never calls.
- `Read` and `Write` system calls, byte offsets inside a sector and the
  read-modify-write of partial sectors (openfile.cc:161-172): contents only.
- In MP4: `-rr` of a missing name (it reads the table at index -1), a path
  that leads through a file, names longer than nine characters, an abort
  during a format, concurrent access (filesys.cc:33 rules it out), printing.
- Stores past the end of the simulated memory by the last frame's segment.
- MP1 and MP2 where they differ from MP3, the pipeline's experiments,
  coff2noff, the cross compiler and the vendored headers
  (`usr/local/nachos/include`). The repository holds four copies of NachOS and
  several of those headers, so the mapped lines are a small share of all.
