------------------------------ MODULE UserPrograms ------------------------------
(* The user programs of MP3 and what they share: the physical frames       *)
(* (userprog/addrspace.cc, threads/kernel.cc) and the open-file table of   *)
(* the stub file system (filesys/filesys.h).  Programs interleave; a system*)
(* call, a Load and a destructor run to their end, the stub doing its I/O  *)
(* in Unix without giving up the processor.                                *)
EXTENDS Integers, FiniteSets

CONSTANTS Programs,
          NumPhysPages,
          PageSize,             \* bytes of a page: the memory is so many cells a frame
          Executables,          \* sizes in bytes of a file's code and of its data
          UserStackSize,
          TableSize,            \* entries of the open-file table: 20 in the code
          FileNames,
          NoFile, Nobody

ASSUME SizesAssumption ==
    /\ NumPhysPages \in Nat /\ TableSize \in Nat /\ PageSize \in Nat \ {0}
    /\ UserStackSize \in Nat /\ Executables \subseteq [code : Nat \ {0}, data : Nat]

ASSUME NoFileAssumption == NoFile \notin FileNames

DivRoundUp(n, s) == (n + s - 1) \div s

NumPages(file) == DivRoundUp(file.code + file.data + UserStackSize, PageSize)

(* Load asserts that the program fits an empty memory.                     *)
ASSUME FitAssumption == \A file \in Executables : NumPages(file) <= NumPhysPages

Frames == 0..(NumPhysPages - 1)
Cells == 0..(NumPhysPages * PageSize - 1)
Ids == 0..(TableSize - 1)
BadId == -1                     \* stands for every id the calls reject by its value

VARIABLES state,                \* each program's thread
          pageTable,            \* frames of its valid entries, by virtual page
          mainMemoryUsed,       \* frames marked used
          mainMemory,           \* the program that loaded what a cell holds
          aborted,              \* GetFrame found none and stopped the machine
          exists,               \* files of the Unix directory
          OpenFileTable, OpenFileTableSize,
          held                  \* ghost: what a program has opened and not closed

memory == <<pageTable, mainMemoryUsed, mainMemory>>
files == <<exists, OpenFileTable, OpenFileTableSize, held>>
vars == <<state, memory, aborted, files>>

TypeOK ==
    /\ state \in [Programs -> {"forked", "running", "finished", "gone"}]
    /\ pageTable \in [Programs -> UNION {[0..(n - 1) -> Frames] : n \in 0..NumPhysPages}]
    /\ mainMemoryUsed \subseteq Frames
    /\ mainMemory \in [Cells -> Programs \cup {Nobody}]
    /\ aborted \in BOOLEAN
    /\ exists \subseteq FileNames
    /\ OpenFileTable \in [Ids -> FileNames \cup {NoFile}]
    /\ OpenFileTableSize \in 0..TableSize
    /\ held \in [Programs -> UNION {[ids -> FileNames] : ids \in SUBSET Ids}]

Pages(p) == DOMAIN pageTable[p]
FramesOf(p) == {pageTable[p][i] : i \in Pages(p)}

(* A finished thread's carcass is deleted by the next thread to run before *)
(* it does anything else (Scheduler's CarcassHandedOver).                  *)
CanRun(p, s) ==
    /\ ~aborted /\ state[p] = s
    /\ \A q \in Programs : state[q] # "finished"

(***************************************************************************)
(* Memory.                                                                 *)
(***************************************************************************)
(* The nth frame GetFrame's linear search finds.                           *)
NthFree(n) ==
    CHOOSE f \in Frames \ mainMemoryUsed :
        Cardinality({g \in Frames \ mainMemoryUsed : g < f}) = n

(* MainMemoryWrite: a segment goes to memory a page's length at a time, the*)
(* address of each piece translated and that of its first byte only.       *)
Stored(table, virtualAddr, size) ==
    UNION {LET vaddr == virtualAddr + k * PageSize
               length == IF size - k * PageSize < PageSize THEN size - k * PageSize ELSE PageSize
               physicalAddr == table[vaddr \div PageSize] * PageSize + (vaddr % PageSize)
           IN  physicalAddr..(physicalAddr + length - 1)
           : k \in 0..(DivRoundUp(size, PageSize) - 1)}

(* ForkExecute: Load takes a frame for every page and stores the code and, *)
(* right after it, the data.  A store past the end of the simulated memory *)
(* is left out.                                                            *)
Load(p, file) ==
    LET n == NumPages(file)
        table == [i \in 0..(n - 1) |-> NthFree(i)]
        stored == Stored(table, 0, file.code) \cup Stored(table, file.code, file.data)
    IN  /\ CanRun(p, "forked")
        /\ IF Cardinality(Frames \ mainMemoryUsed) >= n
           THEN /\ pageTable' = [pageTable EXCEPT ![p] = table]
                /\ mainMemoryUsed' = mainMemoryUsed \cup {table[i] : i \in 0..(n - 1)}
                /\ mainMemory' = [c \in Cells |-> IF c \in stored THEN p ELSE mainMemory[c]]
                /\ state' = [state EXCEPT ![p] = "running"]
                /\ UNCHANGED aborted
           ELSE /\ mainMemoryUsed' = Frames /\ aborted' = TRUE
                /\ UNCHANGED <<state, pageTable, mainMemory>>
        /\ UNCHANGED files

(* The executable does not open: the thread's function returns.            *)
LoadFails(p) ==
    /\ CanRun(p, "forked")
    /\ state' = [state EXCEPT ![p] = "finished"]
    /\ UNCHANGED <<memory, aborted, files>>

(* The Exit system call: the open files stay open.                         *)
Exit(p) ==
    /\ CanRun(p, "running")
    /\ state' = [state EXCEPT ![p] = "finished"]
    /\ UNCHANGED <<memory, aborted, files>>

(* ~AddrSpace clears the mark of all NumPhysPages entries.  Those Load has *)
(* not set hold what the allocator left in them: any frames, or none when  *)
(* Load has set every entry.                                               *)
Garbage(p) == IF Cardinality(Pages(p)) = NumPhysPages THEN {{}} ELSE SUBSET Frames

(* Destroy_ButFirst: the loop starts at one.                               *)
Destroy_ButFirst(p) ==
    /\ state[p] = "finished" /\ ~aborted
    /\ mainMemoryUsed' = mainMemoryUsed \ {pageTable[p][i] : i \in Pages(p) \ {0}}
    /\ pageTable' = [pageTable EXCEPT ![p] = <<>>]
    /\ state' = [state EXCEPT ![p] = "gone"]
    /\ UNCHANGED <<mainMemory, aborted, files>>

Destroy(p) ==
    /\ state[p] = "finished" /\ ~aborted
    /\ \E other \in Garbage(p) : mainMemoryUsed' = (mainMemoryUsed \ FramesOf(p)) \ other
    /\ pageTable' = [pageTable EXCEPT ![p] = <<>>]
    /\ state' = [state EXCEPT ![p] = "gone"]
    /\ UNCHANGED <<mainMemory, aborted, files>>

(***************************************************************************)
(* Files.                                                                  *)
(***************************************************************************)
Create(p, name) ==
    /\ CanRun(p, "running")
    /\ exists' = exists \cup {name}
    /\ UNCHANGED <<state, memory, aborted, OpenFileTable, OpenFileTableSize, held>>

(* FirstEmpty_Next: the next entry, empty or not, as if none were closed.  *)
FirstEmpty_Next == OpenFileTableSize

FirstEmpty == CHOOSE id \in Ids : /\ OpenFileTable[id] = NoFile
                                  /\ \A other \in 0..(id - 1) : OpenFileTable[other] # NoFile

OpenAFile(p, name) ==
    /\ CanRun(p, "running")
    /\ IF OpenFileTableSize = TableSize \/ name \notin exists
       THEN UNCHANGED files
       ELSE /\ OpenFileTableSize' = OpenFileTableSize + 1
            /\ OpenFileTable' = [OpenFileTable EXCEPT ![FirstEmpty] = name]
            /\ held' = [held EXCEPT ![p] =
                   [id \in DOMAIN @ \cup {FirstEmpty} |-> IF id = FirstEmpty THEN name ELSE @[id]]]
            /\ UNCHANGED exists
    /\ UNCHANGED <<state, memory, aborted>>

Rejected(id) == id \in Ids => OpenFileTable[id] = NoFile

Lost(id) == held' = [p \in Programs |-> [i \in DOMAIN held[p] \ {id} |-> held[p][i]]]

(* CloseFile_Miscounting: the counter follows the call, not the close.     *)
CloseFile_Miscounting(p, id) ==
    /\ CanRun(p, "running") /\ OpenFileTableSize > 0
    /\ OpenFileTableSize' = OpenFileTableSize - 1
    /\ OpenFileTable' = [i \in Ids |-> IF i = id THEN NoFile ELSE OpenFileTable[i]]
    /\ Lost(id)
    /\ UNCHANGED <<state, memory, aborted, exists>>

(* CloseFile_Untested: the entry is not tested.                            *)
CloseFile_Untested(p, id) ==
    /\ CanRun(p, "running") /\ id \in Ids
    /\ OpenFileTableSize' = OpenFileTableSize - 1
    /\ OpenFileTable' = [OpenFileTable EXCEPT ![id] = NoFile]
    /\ Lost(id)
    /\ UNCHANGED <<state, memory, aborted, exists>>

(* Any id, another program's included, which then loses the file.          *)
CloseFile(p, id) ==
    /\ CanRun(p, "running")
    /\ \/ Rejected(id) /\ UNCHANGED files
       \/ /\ ~Rejected(id)
          /\ OpenFileTable' = [OpenFileTable EXCEPT ![id] = NoFile]
          /\ OpenFileTableSize' = OpenFileTableSize - 1
          /\ Lost(id)
          /\ UNCHANGED exists
    /\ UNCHANGED <<state, memory, aborted>>

(* Nothing is left to run.                                                 *)
Done == /\ aborted \/ \A p \in Programs : state[p] = "gone"
        /\ UNCHANGED vars

Init ==
    /\ state = [p \in Programs |-> "forked"]
    /\ pageTable = [p \in Programs |-> <<>>]
    /\ mainMemoryUsed = {} /\ aborted = FALSE
    /\ mainMemory = [c \in Cells |-> Nobody]
    /\ exists = {}
    /\ OpenFileTable = [id \in Ids |-> NoFile] /\ OpenFileTableSize = 0
    /\ held = [p \in Programs |-> <<>>]

Next ==
    \/ \E p \in Programs :
          \/ \E file \in Executables : Load(p, file)
          \/ LoadFails(p) \/ Exit(p) \/ Destroy(p)
          \/ \E name \in FileNames : Create(p, name) \/ OpenAFile(p, name)
          \/ \E id \in Ids \cup {BadId} : CloseFile(p, id)
    \/ Done

Spec == Init /\ [][Next]_vars

(***************************************************************************)
(* Properties.                                                             *)
(***************************************************************************)
(* A frame marked used is a frame of a program that has loaded and whose   *)
(* address space is still there: no order of loads, failed loads and exits *)
(* leaks a frame (until the machine is aborted for want of one).           *)
NoFrameLeak == ~aborted => mainMemoryUsed \subseteq UNION {FramesOf(p) : p \in Programs}

(* The counter that rejects an open is the number of entries in use: after *)
(* any opens and closes, an open past the check finds an empty entry and   *)
(* does not fall off the end of OpenAFile (filesys.h:80-86).               *)
CounterExact == OpenFileTableSize = Cardinality({id \in Ids : OpenFileTable[id] # NoFile})

(* Until somebody closes it an id names the file it was opened for, and no *)
(* other program gets it: entries are reused only after their close.       *)
IdsPrivate ==
    /\ \A p \in Programs : \A id \in DOMAIN held[p] : OpenFileTable[id] = held[p][id]
    /\ \A p, q \in Programs : p # q => DOMAIN held[p] \cap DOMAIN held[q] = {}

(* What ~AddrSpace says it does, "Return used frame" (addrspace.cc:86):    *)
(* the frames of a program that runs on stay marked.                       *)
RunningKeepsFrames ==
    \A p \in Programs : state[p] = "running" => FramesOf(p) \subseteq mainMemoryUsed

(* A program is loaded into its own frames, "the case where size might be   *)
(* too large" and is written "into different frames" (addrspace.cc:98-99)   *)
(* included: the memory that changes is that of frames Load has just taken.*)
LoadStaysInFrames ==
    [][\A p \in Programs : state[p] = "forked" /\ state'[p] = "running" =>
        \A c \in Cells : mainMemory'[c] # mainMemory[c] => c \div PageSize \in FramesOf(p)']_vars
================================================================================
