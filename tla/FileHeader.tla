------------------------------- MODULE FileHeader -------------------------------
(* The layout of a file on the MP4 disk (filesys/filehdr.cc) and what is   *)
(* read and written through it (filesys/openfile.cc): a header whose three *)
(* levels of index sectors lead to the data.  An array of the code is a    *)
(* function on its row-major positions; level 4 is dataSectors.            *)
EXTENDS SectorLayout, Sequences

CONSTANTS NumDirect,            \* entries of level L1, held in the header itself
          NumSectors, Files,
          Sizes                 \* sizes of the files created, in data sectors

(* That the index has room for every size is the assertion of Allocate.    *)
ASSUME HeaderAssumption ==
    /\ NumDirect \in Nat /\ NumSectors \in Nat /\ Sizes \subseteq Nat
    /\ \A n \in Sizes : LevelSizes(n)[1] <= NumDirect

NoSector == -1
Sectors == 0..(NumSectors - 1)
Levels == 1..4
RowLength(level) == IF level = 1 THEN NumDirect ELSE Fan
Positions(level) ==
    0..(<<NumDirect, NumDirect * Fan, NumDirect * Fan * Fan, NumDirect * Fan * Fan * Fan>>[level] - 1)

VARIABLES freeMap,              \* the marked sectors
          disk,                 \* the contents of every sector
          header,               \* each file's header sector, NoSector if there is none
          handed,               \* ghost: the in-core header Allocate made
          written               \* ghost: the files whose data has been written

vars == <<freeMap, disk, header, handed, written>>

(* A sector holds a size and a row of sector numbers, or a file's data.    *)
Blank == [n |-> 0, row |-> [i \in 0..(NumDirect + Fan) |-> NoSector]]
Data(f, k) == [n |-> k, row |-> f]

(* The in-core header: its size and the arrays of the four levels.         *)
SectorsOf(hdr) ==
    UNION {{hdr.at[level][i] : i \in 0..(LevelSizes(hdr.n)[level] - 1)} : level \in Levels}

(* Allocate: the lowest clear sectors go to L1, then to L2, L3 and the data.*)
NthClear(k, clear) == CHOOSE s \in clear : Cardinality({t \in clear : t < s}) = k

Allocate(n, clear) ==
    LET size == LevelSizes(n)
        before == <<0, size[1], size[1] + size[2], size[1] + size[2] + size[3]>>
    IN  [n |-> n,
         at |-> [level \in Levels |-> [i \in Positions(level) |->
                    IF i < size[level] THEN NthClear(before[level] + i, clear) ELSE NoSector]]]

Row(hdr, level, r) == [i \in 0..(RowLength(level) - 1) |-> hdr.at[level][r * RowLength(level) + i]]

(* WriteBack: L1 goes with the size into the header's own sector, each row *)
(* of the next level into the sector the level above names for it.         *)
WriteBack(sector, hdr, contents) ==
    [s \in Sectors |->
        IF s = sector THEN [n |-> hdr.n, row |-> Row(hdr, 1, 0)]
        ELSE IF \E level \in 1..3 : \E r \in 0..(LevelSizes(hdr.n)[level] - 1) : hdr.at[level][r] = s
        THEN LET level == CHOOSE l \in 1..3 :
                              \E r \in 0..(LevelSizes(hdr.n)[l] - 1) : hdr.at[l][r] = s
                 r == CHOOSE r \in 0..(LevelSizes(hdr.n)[level] - 1) : hdr.at[level][r] = s
             IN  [n |-> 0, row |-> Row(hdr, level + 1, r)]
        ELSE contents[s]]

(* Mutant: every row is read from the first sector of the level above.     *)
FetchFrom_FirstRow(sector, contents) ==
    LET n == contents[sector].n
        NextLevel(level, above) ==
            [i \in Positions(level) |->
                IF i \div Fan < LevelSizes(n)[level - 1]
                THEN contents[above[0]].row[i % Fan] ELSE NoSector]
        L1 == [i \in Positions(1) |-> contents[sector].row[i]]
        L2 == NextLevel(2, L1)
        L3 == NextLevel(3, L2)
    IN  [n |-> n, at |-> <<L1, L2, L3, NextLevel(4, L3)>>]

(* FetchFrom: the rows back into the arrays, level by level.               *)
FetchFrom(sector, contents) ==
    LET n == contents[sector].n
        NextLevel(level, above) ==
            [i \in Positions(level) |->
                IF i \div Fan < LevelSizes(n)[level - 1]
                THEN contents[above[i \div Fan]].row[i % Fan] ELSE NoSector]
        L1 == [i \in Positions(1) |-> contents[sector].row[i]]
        L2 == NextLevel(2, L1)
        L3 == NextLevel(3, L2)
    IN  [n |-> n, at |-> <<L1, L2, L3, NextLevel(4, L3)>>]

(* Mutant: the position in the last row is dropped.                        *)
ByteToSector_RowStart(hdr, sectorNum) == hdr.at[4][sectorNum - (sectorNum % Fan)]

(* ByteToSector, of the sector number an offset lies in.                   *)
ByteToSector(hdr, sectorNum) ==
    LET L3Num == (sectorNum \div Fan) % Fan
        L2Num == (sectorNum \div (Fan * Fan)) % Fan
        L1Num == sectorNum \div (Fan * Fan * Fan)
    IN  hdr.at[4][((L1Num * Fan + L2Num) * Fan + L3Num) * Fan + (sectorNum % Fan)]

(***************************************************************************)
(* A file is created, its data written, the file removed, with others.     *)
(***************************************************************************)
Create(f, n) ==
    LET clear == Sectors \ freeMap
        sector == NthClear(0, clear)
        hdr == Allocate(n, clear \ {sector})
    IN  /\ header[f] = NoSector
        /\ Cardinality(clear) > SectorsNeeded(n)
        /\ header' = [header EXCEPT ![f] = sector]
        /\ handed' = [handed EXCEPT ![f] = hdr]
        /\ freeMap' = freeMap \cup {sector} \cup SectorsOf(hdr)
        /\ disk' = WriteBack(sector, hdr, disk)
        /\ UNCHANGED written

(* Open, and Write to the end of the file.                                 *)
WriteAt(f) ==
    LET hdr == FetchFrom(header[f], disk)
    IN  /\ header[f] # NoSector /\ f \notin written
        /\ disk' = [s \in Sectors |->
                      IF \E k \in 0..(hdr.n - 1) : ByteToSector(hdr, k) = s
                      THEN Data(f, CHOOSE k \in 0..(hdr.n - 1) : ByteToSector(hdr, k) = s)
                      ELSE disk[s]]
        /\ written' = written \cup {f}
        /\ UNCHANGED <<freeMap, header, handed>>

(* Mutant: the index sectors stay marked.                                  *)
Deallocate_DataOnly(hdr) == {hdr.at[4][i] : i \in 0..(hdr.n - 1)}

(* Remove: the header is fetched, what it names deallocated.  What the     *)
(* sectors held is left on the disk, where it is not read again: blank.    *)
Deallocate(hdr) == SectorsOf(hdr)

RemoveFile(f) ==
    LET freed == Deallocate(FetchFrom(header[f], disk)) \cup {header[f]}
    IN  /\ header[f] # NoSector
        /\ freeMap' = freeMap \ freed
        /\ disk' = [s \in Sectors |-> IF s \in freed THEN Blank ELSE disk[s]]
        /\ header' = [header EXCEPT ![f] = NoSector]
        /\ handed' = [handed EXCEPT ![f] = Blank]
        /\ written' = written \ {f}

Init ==
    /\ freeMap = {}
    /\ disk = [s \in Sectors |-> Blank]
    /\ header = [f \in Files |-> NoSector]
    /\ handed = [f \in Files |-> Blank]
    /\ written = {}

Next == \E f \in Files : WriteAt(f) \/ RemoveFile(f) \/ \E n \in Sizes : Create(f, n)

Spec == Init /\ [][Next]_vars

(***************************************************************************)
(* Properties.                                                             *)
(***************************************************************************)
Live == {f \in Files : header[f] # NoSector}

(* What Allocate was given for a file is what a later FetchFrom reads, at  *)
(* every level, whatever was created, written and removed meanwhile.       *)
HeaderReadBack ==
    \A f \in Live :
        LET hdr == FetchFrom(header[f], disk)
        IN  /\ hdr.n = handed[f].n
            /\ \A level \in Levels : \A i \in 0..(LevelSizes(hdr.n)[level] - 1) :
                  hdr.at[level][i] = handed[f].at[level][i]

(* Every sector of a written file reads back as it was written: the index  *)
(* arithmetic of ByteToSector gives no sector twice and none of another    *)
(* file's or of an index.                                                  *)
DataReadBack ==
    \A f \in written :
        LET hdr == FetchFrom(header[f], disk)
        IN  \A k \in 0..(hdr.n - 1) : disk[ByteToSector(hdr, k)] = Data(f, k)

(* The marked sectors are those of the files, each of one file, and as     *)
(* many as the sizes call for: Deallocate gives back what Allocate took.   *)
MapExact ==
    /\ freeMap = UNION {{header[f]} \cup SectorsOf(handed[f]) : f \in Live}
    /\ \A f \in Live : Cardinality({header[f]} \cup SectorsOf(handed[f])) = 1 + SectorsNeeded(handed[f].n)
    /\ \A f, g \in Live : f # g =>
          ({header[f]} \cup SectorsOf(handed[f])) \cap ({header[g]} \cup SectorsOf(handed[g])) = {}
================================================================================
