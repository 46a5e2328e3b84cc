--------------------------- MODULE UserProgramsProofs ---------------------------
(***************************************************************************)
(* Proofs about UserPrograms for every set of programs, every memory and   *)
(* every open-file table.                                                  *)
(***************************************************************************)
EXTENDS UserPrograms, Lemmas

(* A thread that has not loaded its program yet has no frames.             *)
FreshTables == \A p \in Programs : state[p] = "forked" => Pages(p) = {}

(* The inductive invariant.                                                *)
IInv == TypeOK /\ NoFrameLeak /\ FreshTables /\ CounterExact /\ IdsPrivate
--------------------------------------------------------------------------------
(* The number of pages of an executable.                                   *)
LEMMA NumPagesType ==
    ASSUME NEW file \in Executables
    PROVE  NumPages(file) \in 0..NumPhysPages
<1>1. file.code \in Nat /\ file.data \in Nat
  BY SizesAssumption
<1>2. \A n \in Nat : DivRoundUp(n, PageSize) \in Nat
  BY SizesAssumption DEF DivRoundUp
<1>3. NumPages(file) \in Nat
  BY <1>1, <1>2, SizesAssumption DEF NumPages
<1>4. QED BY <1>3, FitAssumption, SizesAssumption

(* Frames and ids are counted.                                             *)
LEMMA FramesFinite ==
    /\ Frames \subseteq Nat /\ IsFiniteSet(Frames)
    /\ IsFiniteSet(Ids) /\ Cardinality(Ids) = TableSize
BY FS_Interval, SizesAssumption DEF Frames, Ids

(* GetFrame finds an unmarked frame as long as there are enough.           *)
LEMMA NthFreeIsFree ==
    ASSUME NEW n \in Nat, n < Cardinality(Frames \ mainMemoryUsed)
    PROVE  NthFree(n) \in Frames \ mainMemoryUsed
<1> DEFINE Free == Frames \ mainMemoryUsed
<1>1. Free \subseteq Nat /\ IsFiniteSet(Free)
  BY FramesFinite, FS_Subset
<1>2. \E f \in Free : Cardinality(LessThan(Free, f)) = n
  BY <1>1, NthExists
<1>3. QED BY <1>2 DEF NthFree, LessThan

(* Page tables, and what a program holds open, as functions; the empty one *)
(* is both.                                                                *)
Tables == UNION {[0..(n - 1) -> Frames] : n \in 0..NumPhysPages}
Holdings == UNION {[ids -> FileNames] : ids \in SUBSET Ids}

LEMMA Empty == DOMAIN <<>> = {} /\ <<>> \in Tables /\ <<>> \in Holdings
<1>1. DOMAIN <<>> = {} /\ \A S : <<>> \in [{} -> S]
  OBVIOUS
<1>2. 0..(0 - 1) = {} /\ 0 \in 0..NumPhysPages
  BY SizesAssumption
<1>3. [{} -> Frames] \in {[0..(n - 1) -> Frames] : n \in 0..NumPhysPages}
  BY <1>2
<1>4. [{} -> FileNames] \in {[ids -> FileNames] : ids \in SUBSET Ids}
  OBVIOUS
<1>5. QED BY <1>1, <1>3, <1>4 DEF Tables, Holdings

LEMMA HoldingType ==
    ASSUME NEW h \in Holdings
    PROVE  DOMAIN h \subseteq Ids /\ h \in [DOMAIN h -> FileNames]
BY DEF Holdings

--------------------------------------------------------------------------------
(* The invariant holds at the start.                                       *)
LEMMA InvariantInit == Init => IInv
<1> SUFFICES ASSUME Init PROVE IInv
  OBVIOUS
<1> USE DEF Init
<1>1. TypeOK
  <2>1. pageTable \in [Programs -> Tables]
    BY Empty
  <2>2. held \in [Programs -> Holdings]
    BY Empty
  <2>3. 0 \in 0..NumPhysPages /\ 0 \in 0..TableSize
    BY SizesAssumption
  <2>4. QED BY <2>1, <2>2, <2>3 DEF TypeOK, Tables, Holdings
<1>2. NoFrameLeak /\ FreshTables
  BY Empty DEF NoFrameLeak, FreshTables, Pages
<1>3. CounterExact
  <2>1. {id \in Ids : OpenFileTable[id] # NoFile} = {}
    OBVIOUS
  <2>2. QED BY <2>1, FS_EmptySet DEF CounterExact
<1>4. IdsPrivate
  BY Empty DEF IdsPrivate
<1>5. QED BY <1>1, <1>2, <1>3, <1>4 DEF IInv

(* The parts of the invariant that speak of memory, and of files.          *)
MemoryOK == TypeOK /\ NoFrameLeak /\ FreshTables
FilesOK == CounterExact /\ IdsPrivate

LEMMA FilesUnchanged == FilesOK /\ UNCHANGED files => FilesOK'
BY DEF FilesOK, CounterExact, IdsPrivate, files

--------------------------------------------------------------------------------
(* Loading: what the program gets was free and is marked.                  *)
LEMMA LoadStep ==
    ASSUME IInv, NEW p \in Programs, NEW file \in Executables, Load(p, file)
    PROVE  MemoryOK'
<1> USE DEF IInv
<1> DEFINE n == NumPages(file)
           table == [i \in 0..(n - 1) |-> NthFree(i)]
<1>1. n \in 0..NumPhysPages /\ n \in Nat
  BY NumPagesType, SizesAssumption
<1>2. state[p] = "forked" /\ ~aborted /\ UNCHANGED files
  BY DEF Load, CanRun
<1>3. CASE Cardinality(Frames \ mainMemoryUsed) >= n
  <2>1. \A i \in 0..(n - 1) : NthFree(i) \in Frames \ mainMemoryUsed
    <3>1. Cardinality(Frames \ mainMemoryUsed) \in Nat
      BY FramesFinite, FS_Subset, FS_CardinalityType
    <3>2. QED BY <1>1, <1>3, <3>1, NthFreeIsFree
  <2>2. table \in [0..(n - 1) -> Frames]
    BY <2>1
  <2>3. /\ pageTable' = [pageTable EXCEPT ![p] = table]
        /\ mainMemoryUsed' = mainMemoryUsed \cup {table[i] : i \in 0..(n - 1)}
        /\ state' = [state EXCEPT ![p] = "running"]
        /\ aborted' = aborted
    BY <1>3 DEF Load
  <2>4. mainMemory' \in [Cells -> Programs \cup {Nobody}]
    <3>1. \E stored : mainMemory' = [c \in Cells |-> IF c \in stored THEN p ELSE mainMemory[c]]
      BY <1>3 DEF Load
    <3>2. QED BY <3>1 DEF TypeOK
  <2> HIDE DEF n, table
  <2>5. TypeOK'
    <3>1. table \in Tables
      BY <1>1, <2>2 DEF Tables
    <3>a. pageTable' \in [Programs -> Tables]
      BY <3>1, <2>3 DEF TypeOK, Tables
    <3>2. mainMemoryUsed' \subseteq Frames
      BY <2>2, <2>3 DEF TypeOK
    <3>3. QED BY <1>2, <2>3, <2>4, <3>a, <3>2 DEF TypeOK, Tables, files
  <2>6. NoFrameLeak'
    <3>1. pageTable'[p] = table /\ DOMAIN table = 0..(n - 1)
      BY <2>2, <2>3 DEF TypeOK
    <3>2. FramesOf(p)' = {table[i] : i \in 0..(n - 1)}
      BY <3>1 DEF FramesOf, Pages
    <3>3. \A q \in Programs : q # p => FramesOf(q)' = FramesOf(q)
      BY <2>3 DEF TypeOK, FramesOf, Pages
    <3>4. FramesOf(p) = {}
      BY <1>2 DEF FreshTables, FramesOf
    <3>5. QED BY <1>2, <2>3, <3>2, <3>3, <3>4 DEF NoFrameLeak
  <2>7. FreshTables'
    BY <2>3 DEF FreshTables, TypeOK, Pages
  <2>8. QED BY <2>5, <2>6, <2>7 DEF MemoryOK
<1>4. CASE ~(Cardinality(Frames \ mainMemoryUsed) >= n)
  <2>1. /\ mainMemoryUsed' = Frames /\ aborted' = TRUE
        /\ UNCHANGED <<state, pageTable, mainMemory>>
    BY <1>4 DEF Load
  <2>2. QED BY <1>2, <2>1 DEF MemoryOK, TypeOK, NoFrameLeak, FreshTables, Pages, files
<1>5. QED BY <1>3, <1>4

(* The destructor takes the program's frames from its table and the marks. *)
LEMMA DestroyStep ==
    ASSUME IInv, NEW p \in Programs, Destroy(p)
    PROVE  MemoryOK'
<1> USE DEF IInv
<1>1. /\ pageTable' = [pageTable EXCEPT ![p] = <<>>]
      /\ state' = [state EXCEPT ![p] = "gone"]
      /\ UNCHANGED <<mainMemory, aborted, files>>
  BY DEF Destroy
<1>2. PICK other : mainMemoryUsed' = (mainMemoryUsed \ FramesOf(p)) \ other
  BY DEF Destroy
<1>3. TypeOK'
  <2>1. pageTable' \in [Programs -> Tables]
    BY <1>1, Empty DEF TypeOK, Tables
  <2>2. QED BY <1>1, <1>2, <2>1 DEF TypeOK, Tables, files
<1>4. NoFrameLeak'
  <2>1. \A q \in Programs : q # p => FramesOf(q)' = FramesOf(q)
    BY <1>1 DEF TypeOK, FramesOf, Pages
  <2>2. QED BY <1>1, <1>2, <2>1 DEF NoFrameLeak
<1>5. FreshTables'
  BY <1>1 DEF FreshTables, TypeOK, Pages
<1>6. QED BY <1>3, <1>4, <1>5 DEF MemoryOK

(* Every other step leaves the memory alone.                               *)
LEMMA MemoryUnchanged ==
    ASSUME MemoryOK, UNCHANGED <<memory, aborted>>, TypeOK',
           \A p \in Programs : state'[p] = "forked" => state[p] = "forked"
    PROVE  MemoryOK'
BY DEF MemoryOK, NoFrameLeak, FreshTables, memory, FramesOf, Pages

--------------------------------------------------------------------------------
(* The entries in use, which CounterExact counts.                          *)
InUse == {id \in Ids : OpenFileTable[id] # NoFile}

LEMMA InUseFinite == IsFiniteSet(InUse) /\ Cardinality(InUse) \in Nat
BY FramesFinite, FS_Subset, FS_CardinalityType DEF InUse

(* When the counter is below the table's size the search of OpenAFile ends *)
(* at an empty entry.                                                      *)
LEMMA FirstEmptyFound ==
    ASSUME IInv, OpenFileTableSize # TableSize
    PROVE  FirstEmpty \in Ids /\ OpenFileTable[FirstEmpty] = NoFile
<1> DEFINE Unused == {id \in Ids : OpenFileTable[id] = NoFile}
<1>1. Unused # {}
  <2> SUFFICES ASSUME Unused = {} PROVE FALSE
    OBVIOUS
  <2>1. InUse = Ids
    BY DEF InUse
  <2>2. QED BY <2>1, FramesFinite DEF IInv, CounterExact, InUse
<1>2. Unused \subseteq Nat
  BY SizesAssumption DEF Ids
<1>3. PICK id \in Unused : \A other \in Unused : id <= other
  BY <1>1, <1>2, LeastElement
<1>4. \A other \in 0..(id - 1) : OpenFileTable[other] # NoFile
  BY <1>2, <1>3, SizesAssumption DEF Ids
<1>5. QED BY <1>3, <1>4 DEF FirstEmpty

(* Opening takes an entry that nobody holds.                               *)
LEMMA OpenStep ==
    ASSUME IInv, NEW p \in Programs, NEW name \in FileNames, OpenAFile(p, name)
    PROVE  TypeOK' /\ FilesOK'
<1> USE DEF IInv
<1>1. UNCHANGED <<state, memory, aborted>>
  BY DEF OpenAFile
<1>2. CASE UNCHANGED files
  BY <1>1, <1>2, FilesUnchanged DEF FilesOK, TypeOK, memory, files
<1>3. CASE ~(OpenFileTableSize = TableSize \/ name \notin exists)
  <2> DEFINE id == FirstEmpty
             mine == [i \in DOMAIN held[p] \cup {id} |-> IF i = id THEN name ELSE held[p][i]]
  <2>1. id \in Ids /\ OpenFileTable[id] = NoFile
    BY <1>3, FirstEmptyFound
  <2>2. /\ OpenFileTableSize' = OpenFileTableSize + 1
        /\ OpenFileTable' = [OpenFileTable EXCEPT ![id] = name]
        /\ held' = [held EXCEPT ![p] = mine]
        /\ UNCHANGED exists
    BY <1>3 DEF OpenAFile
  <2> HIDE DEF id
  <2>3. held \in [Programs -> Holdings]
    BY DEF TypeOK, Holdings
  <2>4. DOMAIN held[p] \subseteq Ids /\ held[p] \in [DOMAIN held[p] -> FileNames]
    BY <2>3, HoldingType
  <2>5. mine \in Holdings
    <3>1. mine \in [DOMAIN held[p] \cup {id} -> FileNames]
      BY <2>4
    <3>2. DOMAIN held[p] \cup {id} \in SUBSET Ids
      BY <2>1, <2>4
    <3> HIDE DEF mine
    <3>3. QED BY <3>1, <3>2 DEF Holdings
  <2>6. TypeOK'
    <3>1. held' \in [Programs -> Holdings]
      BY <2>2, <2>3, <2>5
    <3>2. OpenFileTableSize' \in 0..TableSize
      BY <1>3, <2>2, SizesAssumption DEF TypeOK
    <3>3. OpenFileTable' \in [Ids -> FileNames \cup {NoFile}]
      BY <2>2 DEF TypeOK
    <3>4. QED BY <1>1, <2>2, <3>1, <3>2, <3>3 DEF TypeOK, memory, Holdings
  <2>7. CounterExact'
    <3>1. InUse' = InUse \cup {id} /\ id \notin InUse
      BY <2>1, <2>2, NoFileAssumption DEF InUse, TypeOK
    <3>2. Cardinality(InUse') = Cardinality(InUse) + 1
      BY <3>1, InUseFinite, FS_AddElement
    <3>3. QED BY <3>2, <2>2 DEF CounterExact, InUse
  <2>8. IdsPrivate'
    <3>1. \A q \in Programs : id \notin DOMAIN held[q]
      <4>1. ASSUME NEW q \in Programs, id \in DOMAIN held[q] PROVE FALSE
        <5>1. held[q][id] \in FileNames
          BY <2>3, <4>1, HoldingType
        <5>2. QED BY <2>1, <4>1, <5>1, NoFileAssumption DEF IdsPrivate
      <4>2. QED BY <4>1
    <3>2. \A q \in Programs : held'[q] = IF q = p THEN mine ELSE held[q]
      BY <2>2, <2>3
    <3>3. DOMAIN mine = DOMAIN held[p] \cup {id}
      OBVIOUS
    <3>4. \A i \in Ids : OpenFileTable'[i] = IF i = id THEN name ELSE OpenFileTable[i]
      BY <2>2 DEF TypeOK
    <3>5. \A q \in Programs : \A i \in DOMAIN held'[q] : OpenFileTable'[i] = held'[q][i]
      <4>1. ASSUME NEW i \in DOMAIN mine
            PROVE  OpenFileTable'[i] = mine[i]
        <5>1. CASE i = id
          BY <2>1, <3>4, <5>1
        <5>2. CASE i # id
          <6>1. i \in DOMAIN held[p] /\ i \in Ids
            BY <2>4, <5>2
          <6>2. QED BY <3>4, <5>2, <6>1 DEF IdsPrivate
        <5>3. QED BY <5>1, <5>2
      <4>2. ASSUME NEW q \in Programs, q # p, NEW i \in DOMAIN held[q]
            PROVE  OpenFileTable'[i] = held[q][i]
        <5>1. i \in Ids /\ i # id
          BY <2>3, <3>1, <4>2, HoldingType
        <5>2. QED BY <3>4, <5>1 DEF IdsPrivate
      <4> HIDE DEF mine
      <4>3. QED BY <3>2, <4>1, <4>2
    <3> HIDE DEF mine
    <3>6. \A q, r \in Programs : q # r => DOMAIN held'[q] \cap DOMAIN held'[r] = {}
      BY <3>1, <3>2, <3>3 DEF IdsPrivate
    <3>7. QED BY <3>5, <3>6 DEF IdsPrivate
  <2>9. QED BY <2>6, <2>7, <2>8 DEF FilesOK
<1>4. QED BY <1>2, <1>3 DEF OpenAFile

(* Closing empties an entry in use and takes it from whoever held it.      *)
LEMMA CloseStep ==
    ASSUME IInv, NEW p \in Programs, NEW id \in Ids \cup {BadId}, CloseFile(p, id)
    PROVE  TypeOK' /\ FilesOK'
<1> USE DEF IInv
<1>1. UNCHANGED <<state, memory, aborted>>
  BY DEF CloseFile
<1>2. CASE UNCHANGED files
  BY <1>1, <1>2, FilesUnchanged DEF FilesOK, TypeOK, memory, files
<1>3. CASE /\ ~Rejected(id)
           /\ OpenFileTable' = [OpenFileTable EXCEPT ![id] = NoFile]
           /\ OpenFileTableSize' = OpenFileTableSize - 1
           /\ Lost(id)
           /\ UNCHANGED exists
  <2>1. id \in Ids /\ id \in InUse
    BY <1>3 DEF Rejected, InUse
  <2>2. held \in [Programs -> Holdings]
    BY DEF TypeOK, Holdings
  <2>3. \A q \in Programs :
           /\ held'[q] = [i \in DOMAIN held[q] \ {id} |-> held[q][i]]
           /\ DOMAIN held'[q] = DOMAIN held[q] \ {id}
           /\ \A i \in DOMAIN held'[q] : held'[q][i] = held[q][i]
    BY <1>3 DEF Lost
  <2>4. Cardinality(InUse') = Cardinality(InUse) - 1
    <3>1. InUse' = InUse \ {id}
      BY <1>3, <2>1 DEF InUse, TypeOK
    <3>2. QED BY <2>1, <3>1, InUseFinite, FS_RemoveElement
  <2>5. TypeOK'
    <3>1. held' \in [Programs -> Holdings]
      <4>1. ASSUME NEW q \in Programs PROVE held'[q] \in Holdings
        <5>1. DOMAIN held[q] \ {id} \in SUBSET Ids
          BY <2>2, HoldingType
        <5>2. held'[q] \in [DOMAIN held[q] \ {id} -> FileNames]
          <6>1. \A i \in DOMAIN held[q] : held[q][i] \in FileNames
            BY <2>2, HoldingType
          <6>2. QED BY <2>3, <6>1
        <5>3. QED BY <5>1, <5>2 DEF Holdings
      <4>2. QED BY <4>1, <1>3 DEF Lost
    <3>2. OpenFileTableSize' \in 0..TableSize
      <4>1. InUse # {} /\ Cardinality(InUse) # 0
        BY <2>1, InUseFinite, FS_EmptySet
      <4>2. QED BY <1>3, <4>1, InUseFinite, SizesAssumption DEF TypeOK, CounterExact, InUse
    <3>3. QED BY <1>1, <1>3, <3>1, <3>2 DEF TypeOK, memory, Holdings
  <2>6. CounterExact'
    BY <1>3, <2>4 DEF CounterExact, InUse
  <2>7. IdsPrivate'
    <3>1. \A q \in Programs : \A i \in DOMAIN held'[q] : i \in Ids /\ i # id
      BY <2>2, <2>3, HoldingType
    <3>2. \A i \in Ids : i # id => OpenFileTable'[i] = OpenFileTable[i]
      BY <1>3 DEF TypeOK
    <3>3. \A q \in Programs : \A i \in DOMAIN held'[q] : OpenFileTable'[i] = held'[q][i]
      <4>1. ASSUME NEW q \in Programs, NEW i \in DOMAIN held'[q]
            PROVE  OpenFileTable'[i] = held'[q][i]
        <5>1. OpenFileTable'[i] = OpenFileTable[i]
          BY <3>1, <3>2
        <5>2. i \in DOMAIN held[q] /\ held'[q][i] = held[q][i]
          BY <2>3
        <5>3. QED BY <5>1, <5>2 DEF IdsPrivate
      <4>2. QED BY <4>1
    <3>4. \A q, r \in Programs : q # r => DOMAIN held'[q] \cap DOMAIN held'[r] = {}
      BY <2>3, Zenon DEF IdsPrivate
    <3>5. QED BY <3>3, <3>4 DEF IdsPrivate
  <2>8. QED BY <2>5, <2>6, <2>7 DEF FilesOK
<1>4. QED BY <1>2, <1>3 DEF CloseFile

--------------------------------------------------------------------------------
(* Every step keeps the invariant.                                         *)
LEMMA InvariantNext == IInv /\ [Next]_vars => IInv'
<1> SUFFICES ASSUME IInv, [Next]_vars PROVE IInv'
  OBVIOUS
<1> USE DEF IInv
<1>a. MemoryOK /\ FilesOK
  BY DEF MemoryOK, FilesOK
<1>b. ASSUME UNCHANGED <<memory, aborted>>, TypeOK', FilesOK',
             \A p \in Programs : state'[p] = "forked" => state[p] = "forked"
      PROVE  IInv'
  BY <1>a, <1>b, MemoryUnchanged DEF MemoryOK, FilesOK
<1>1. ASSUME NEW p \in Programs, NEW file \in Executables, Load(p, file)
      PROVE  IInv'
  <2>1. UNCHANGED files
    BY <1>1 DEF Load
  <2>2. QED BY <1>1, <1>a, <2>1, LoadStep, FilesUnchanged DEF MemoryOK, FilesOK
<1>2. ASSUME NEW p \in Programs, LoadFails(p) \/ Exit(p)
      PROVE  IInv'
  <2>1. state' = [state EXCEPT ![p] = "finished"] /\ UNCHANGED <<memory, aborted, files>>
    BY <1>2 DEF LoadFails, Exit
  <2>2. TypeOK'
    BY <2>1 DEF TypeOK, memory, files
  <2>3. QED BY <1>a, <1>b, <2>1, <2>2, FilesUnchanged DEF TypeOK
<1>3. ASSUME NEW p \in Programs, Destroy(p)
      PROVE  IInv'
  <2>1. UNCHANGED files
    BY <1>3 DEF Destroy
  <2>2. QED BY <1>3, <1>a, <2>1, DestroyStep, FilesUnchanged DEF MemoryOK, FilesOK
<1>4. ASSUME NEW p \in Programs, NEW name \in FileNames, Create(p, name)
      PROVE  IInv'
  <2>1. UNCHANGED <<state, memory, aborted>> /\ TypeOK'
    BY <1>4 DEF Create, TypeOK, memory
  <2>2. FilesOK'
    BY <1>4 DEF Create, FilesOK, CounterExact, IdsPrivate
  <2>3. QED BY <1>b, <2>1, <2>2
<1>5. ASSUME NEW p \in Programs, NEW name \in FileNames, OpenAFile(p, name)
      PROVE  IInv'
  <2>1. UNCHANGED <<state, memory, aborted>>
    BY <1>5 DEF OpenAFile
  <2>2. QED BY <1>5, <1>b, <2>1, OpenStep
<1>6. ASSUME NEW p \in Programs, NEW id \in Ids \cup {BadId}, CloseFile(p, id)
      PROVE  IInv'
  <2>1. UNCHANGED <<state, memory, aborted>>
    BY <1>6 DEF CloseFile
  <2>2. QED BY <1>6, <1>b, <2>1, CloseStep
<1>7. CASE UNCHANGED vars
  <2>1. UNCHANGED <<state, memory, aborted, files>>
    BY <1>7 DEF vars
  <2>2. TypeOK'
    BY <2>1 DEF TypeOK, memory, files
  <2>3. QED BY <1>a, <1>b, <2>1, <2>2, FilesUnchanged
<1>8. QED BY <1>1, <1>2, <1>3, <1>4, <1>5, <1>6, <1>7 DEF Next, Done

(* IInv is an invariant of the specification.                              *)
LEMMA Invariance == Spec => []IInv
BY InvariantInit, InvariantNext, PTL DEF Spec

(* The kernel's tables and the programs' states keep their types: no load  *)
(* is given a page that is not a frame (addrspace.cc:68), no open runs off *)
(* the table (filesys.h:80).                                               *)
THEOREM TypeCorrect == Spec => []TypeOK
BY Invariance, PTL DEF IInv

(* No order of loads, failed loads, exits and destructors leaks a frame.   *)
THEOREM NoFrameIsLeaked == Spec => []NoFrameLeak
BY Invariance, PTL DEF IInv

(* The open-file table's counter is the number of entries in use.          *)
THEOREM CounterIsExact == Spec => []CounterExact
BY Invariance, PTL DEF IInv

(* An id belongs to one program and one file until it is closed.           *)
THEOREM IdsArePrivate == Spec => []IdsPrivate
BY Invariance, PTL DEF IInv
================================================================================
