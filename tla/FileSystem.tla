------------------------------- MODULE FileSystem -------------------------------
(* The MP4 file system (filesys/filesys.cc, directory.cc, pbitmap.cc,      *)
(* filehdr.cc): a bitmap file, a tree of directories and the headers of    *)
(* their files on one disk.  A command reads what it needs, computes in    *)
(* memory and then writes back, sector by sector; the user may abort the   *)
(* machine between any two writes and start it again on the same disk.     *)
(* The contents of files and the layout of a header are left to FileHeader.*)
EXTENDS SectorLayout, SequencesExt

CONSTANTS Names,                \* names of files and directories
          Paths,                \* the paths commands are given
          NumSectors,           \* sectors of the disk
          Half,                 \* first bit of the bitmap's second sector
          DirEntries,           \* entries of a directory
          Boundary,             \* the entry that lies across two sectors
          FileSizes,            \* data sectors of the files created
          NoName

Sectors == 0..(NumSectors - 1)
Slots == 1..DirEntries
FreeMapSector == 0
DirectorySector == 1
NoSector == -1                  \* Find's "not in directory", and no open file
MapSize == 2                    \* data sectors of the bitmap file
DirSize == 1                    \* data sectors of a directory, told apart by Boundary

ASSUME PathsAssumption ==
    /\ Paths \subseteq Seq(Names) \ {<<>>}
    /\ \E p \in Paths : \A q \in Paths : Len(q) <= Len(p)

(* A formatted disk has room for the bitmap and the root.                  *)
ASSUME DiskAssumption ==
    /\ {NumSectors, Half, DirEntries} \subseteq Nat /\ FileSizes \subseteq Nat
    /\ Boundary \in 1..DirEntries
    /\ 2 + SectorsNeeded(MapSize) + SectorsNeeded(DirSize) <= NumSectors

VARIABLES used,                 \* disk: the sectors the bitmap file has marked
          head,                 \* disk: by sector, what the header there names
          tab,                  \* disk: by header sector, a directory's entries
          pending,              \* the running command's writes still to do
          phase,                \* main's commands, or the user program
          currentFile,          \* header of the program's open file
          r2,                   \* what the program's last system call returned
          torn,                 \* an abort has left a half-written entry
          orphans               \* sectors of files whose directory was removed alone

disk == <<used, head, tab>>
vars == <<used, head, tab, pending, phase, currentFile, r2, torn, orphans>>

Entry == [inUse : BOOLEAN, name : Names \cup {NoName}, dir : BOOLEAN, sector : Sectors]
Empty == [inUse |-> FALSE, name |-> NoName, dir |-> FALSE, sector |-> 0]
EmptyTable == [i \in Slots |-> Empty]

(* What a sector holds before its header or directory is written: anything,*)
(* here what would do most harm if it were read.                           *)
GarbageTable == [i \in Slots |-> [Empty EXCEPT !.inUse = TRUE, !.dir = TRUE]]
GarbageHeader == {FreeMapSector}
HeaderAt(sector) == IF sector \in DOMAIN head THEN head[sector] ELSE GarbageHeader
TableAt(tables, sector) == IF sector \in DOMAIN tables THEN tables[sector] ELSE GarbageTable

TypeOK ==
    /\ used \subseteq Sectors
    /\ head \in [DOMAIN head -> SUBSET Sectors] /\ DOMAIN head \subseteq Sectors
    /\ tab \in [DOMAIN tab -> [Slots -> Entry]] /\ DOMAIN tab \subseteq Sectors
    /\ \A i \in DOMAIN pending : pending[i].to \in {"head", "table", "rest", "map"}
    /\ phase \in {"main", "program"}
    /\ currentFile \in Sectors \cup {NoSector}
    /\ r2 \in {0, 1}
    /\ torn \in BOOLEAN
    /\ orphans \subseteq Sectors

(***************************************************************************)
(* Directories.                                                            *)
(***************************************************************************)
Used(table) == {table[i] : i \in {j \in Slots : table[j].inUse}}

(* The first slot of a table in use under a name, 0 if there is none.      *)
FindIndex(table, name) ==
    LET hit == {i \in Slots : table[i].inUse /\ table[i].name = name}
    IN  IF hit = {} THEN 0 ELSE CHOOSE i \in hit : \A j \in hit : i <= j

Find(table, name) ==
    LET i == FindIndex(table, name)
    IN  IF i = 0 THEN NoSector ELSE table[i].sector

(* The first slot of a table not in use, 0 if the table is full.           *)
FreeSlot(table) ==
    LET free == {i \in Slots : ~table[i].inUse}
    IN  IF free = {} THEN 0 ELSE CHOOSE i \in free : \A j \in free : i <= j

Add(table, name, sector, isDirectory) ==
    [table EXCEPT ![FreeSlot(table)] =
        [inUse |-> TRUE, name |-> name, dir |-> isDirectory, sector |-> sector]]

RemoveFrom(table, name) == [table EXCEPT ![FindIndex(table, name)].inUse = FALSE]

IsDirectory(table, name) == FindIndex(table, name) # 0 /\ table[FindIndex(table, name)].dir

(* The header of the directory a path's last name is looked up in.         *)
(* NoSector where the code's assertion stops the machine; a file in the    *)
(* place of a directory is not given to the commands.                      *)
ProcessPath(tables, path) ==
    LET at[i \in 0..(Len(path) - 1)] ==
            IF i = 0 THEN DirectorySector
            ELSE IF at[i - 1] # NoSector /\ IsDirectory(TableAt(tables, at[i - 1]), path[i])
                 THEN Find(TableAt(tables, at[i - 1]), path[i])
                 ELSE NoSector
    IN  at[Len(path) - 1]

(* Every entry at or below a set of entries, as deep as paths go.          *)
MaxDepth == CHOOSE n \in {Len(p) : p \in Paths} : \A p \in Paths : Len(p) <= n
Subtree(tables, entries) ==
    LET below[k \in 0..MaxDepth] ==
            IF k = 0 THEN entries
            ELSE below[k - 1] \cup UNION {Used(TableAt(tables, e.sector)) : e \in {f \in below[k - 1] : f.dir}}
    IN  below[MaxDepth]

SectorsOf(entries) == UNION {{e.sector} \cup HeaderAt(e.sector) : e \in entries}

(* All files and directories.                                              *)
Files == Subtree(tab, Used(tab[DirectorySector]))

SystemSectors == {FreeMapSector, DirectorySector} \cup head[FreeMapSector] \cup head[DirectorySector]
Reachable == SystemSectors \cup SectorsOf(Files)

(***************************************************************************)
(* Write-backs, in the order the disk sees them.                           *)
(***************************************************************************)
PutHeader(sector, blocks) == <<[to |-> "head", at |-> sector, val |-> blocks]>>
PutTable(sector, table) ==
    <<[to |-> "table", at |-> sector, val |-> table], [to |-> "rest", at |-> sector, val |-> table]>>
PutMap(map) == <<[to |-> "map", at |-> 1, val |-> map], [to |-> "map", at |-> 2, val |-> map]>>

MapPart(i) == {s \in Sectors : (s < Half) = (i = 1)}

(* The first of a directory's two sectors is written: the entries before   *)
(* the boundary, and of the one across it, bytes 120 to 139 of the table,  *)
(* the eight bytes of inUse and sector.                                    *)
FirstPart(old, new) ==
    [i \in Slots |->
        IF i < Boundary THEN new[i]
        ELSE IF i = Boundary THEN [old[i] EXCEPT !.inUse = new[i].inUse, !.sector = new[i].sector]
        ELSE old[i]]

Written(contents, sector, val) ==
    [s \in DOMAIN contents \cup {sector} |-> IF s = sector THEN val ELSE contents[s]]

WriteSector ==
    /\ pending # <<>>
    /\ LET w == Head(pending)
       IN  /\ head' = IF w.to = "head" THEN Written(head, w.at, w.val) ELSE head
           /\ tab' = IF w.to = "table"
                     THEN Written(tab, w.at, FirstPart(TableAt(tab, w.at), w.val))
                     ELSE IF w.to = "rest" THEN Written(tab, w.at, w.val)
                     ELSE tab
           /\ used' = IF w.to = "map" THEN (used \ MapPart(w.at)) \cup (w.val \cap MapPart(w.at))
                      ELSE used
    /\ pending' = Tail(pending)
    /\ UNCHANGED <<phase, currentFile, r2, torn, orphans>>

(***************************************************************************)
(* Commands.  Each starts on a disk no abort has damaged: filesys.cc       *)
(* promises nothing of a corrupt one, and its user formats it.             *)
(***************************************************************************)
Sound == Reachable \subseteq used /\ ~torn
Ready == pending = <<>> /\ Sound

(* A header or a table no directory leads to is not read again before it   *)
(* is written: a command that changes the disk starts by forgetting them.  *)
Forget ==
    /\ head' = Restrict(head, {FreeMapSector, DirectorySector} \cup {e.sector : e \in Files})
    /\ tab' = Restrict(tab, {DirectorySector} \cup {e.sector : e \in {f \in Files : f.dir}})

(* Create, for "nachos -cp" and the Create system call with a size, and    *)
(* for "nachos -mkdir".                                                    *)
HeaderSector == CHOOSE s \in Sectors \ used : \A t \in Sectors \ used : s <= t
DataSectors(size, sector) == Lowest(SectorsNeeded(size), Sectors \ (used \cup {sector}))
EnoughSpace(size) == Cardinality(Sectors \ used) > SectorsNeeded(size)

(* Mutants: the bitmap is written before the directory; a new directory is *)
(* not initialised.                                                        *)
CreateWrites_MapFirst(parent, name, isDirectory, sector, blocks) ==
    PutHeader(sector, blocks)
    \o (IF isDirectory THEN PutTable(sector, EmptyTable) ELSE <<>>)
    \o PutMap(used \cup {sector} \cup blocks)
    \o PutTable(parent, Add(tab[parent], name, sector, isDirectory))

CreateWrites_NotInitialised(parent, name, isDirectory, sector, blocks) ==
    PutHeader(sector, blocks)
    \o PutTable(parent, Add(tab[parent], name, sector, isDirectory))
    \o PutMap(used \cup {sector} \cup blocks)

CreateWrites(parent, name, isDirectory, sector, blocks) ==
    PutHeader(sector, blocks)
    \o (IF isDirectory THEN PutTable(sector, EmptyTable) ELSE <<>>)
    \o PutTable(parent, Add(tab[parent], name, sector, isDirectory))
    \o PutMap(used \cup {sector} \cup blocks)

Create(path, isDirectory, size) ==
    LET parent == ProcessPath(tab, path)
        sector == HeaderSector
        success == /\ FindIndex(tab[parent], Last(path)) = 0
                   /\ FreeSlot(tab[parent]) # 0
                   /\ EnoughSpace(size)
    IN  /\ Ready
        /\ parent # NoSector
        /\ pending' = IF success
                       THEN CreateWrites(parent, Last(path), isDirectory, sector, DataSectors(size, sector))
                       ELSE <<>>
        /\ r2' = IF phase = "program" /\ success THEN 1 ELSE 0
        /\ Forget
        /\ UNCHANGED <<used, phase, currentFile, torn, orphans>>

(* "nachos -r" removes one entry, "nachos -rr" the entry with all below    *)
(* it.  -rr of a missing name reads the table at index -1 and is not given.*)
(* Mutant: the directory's header is cleared in place of the file's.       *)
RemoveWrites_Parent(parent, name, freed) ==
    PutMap((used \ freed) \ {parent}) \o PutTable(parent, RemoveFrom(tab[parent], name))

RemoveWrites(parent, name, freed) ==
    PutMap(used \ freed) \o PutTable(parent, RemoveFrom(tab[parent], name))

RemoveEntry(path, recursive) ==
    LET parent == ProcessPath(tab, path)
        i == FindIndex(tab[parent], Last(path))
        target == {tab[parent][i]}
        removed == IF recursive THEN Subtree(tab, target) ELSE target
    IN  /\ Ready /\ phase = "main" /\ parent # NoSector
        /\ \/ /\ i = 0 /\ ~recursive
              /\ UNCHANGED <<pending, orphans>>
           \/ /\ i # 0
              /\ pending' = RemoveWrites(parent, Last(path), SectorsOf(removed))
              /\ orphans' = orphans \cup (SectorsOf(Subtree(tab, target)) \ SectorsOf(removed))
        /\ Forget
        /\ UNCHANGED <<used, phase, currentFile, r2, torn>>

(* ExecAll: main is done with its commands and the program runs.           *)
ExecAll ==
    /\ Ready /\ phase = "main"
    /\ phase' = "program"
    /\ UNCHANGED <<disk, pending, currentFile, r2, torn, orphans>>

(* Mutant: the sector is returned in place of a Boolean.                   *)
OpenAFile_ReturnsSector(path) ==
    LET parent == ProcessPath(tab, path)
        sector == Find(tab[parent], Last(path))
    IN  /\ Ready /\ phase = "program" /\ parent # NoSector
        /\ currentFile' = IF sector >= 0 THEN sector ELSE currentFile
        /\ r2' = sector
        /\ UNCHANGED <<disk, pending, phase, torn, orphans>>

OpenAFile(path) ==
    LET parent == ProcessPath(tab, path)
        sector == Find(tab[parent], Last(path))
    IN  /\ Ready /\ phase = "program" /\ parent # NoSector
        /\ currentFile' = IF sector >= 0 THEN sector ELSE currentFile
        /\ r2' = IF currentFile' # NoSector THEN 1 ELSE 0
        /\ UNCHANGED <<disk, pending, phase, torn, orphans>>

CloseFile ==
    /\ Ready /\ phase = "program"
    /\ currentFile' = NoSector
    /\ r2' = 1
    /\ UNCHANGED <<disk, pending, phase, torn, orphans>>

(* An entry in use has its first bytes on the disk and not yet its last.   *)
Tearing ==
    /\ pending # <<>> /\ Head(pending).to = "rest"
    /\ Head(pending).val[Boundary].inUse
    /\ TableAt(tab, Head(pending).at)[Boundary] # Head(pending).val[Boundary]

(* The machine stops, its program done or at the user's abort, and the     *)
(* next one starts on the same disk.                                       *)
Restart ==
    /\ pending' = <<>> /\ phase' = "main" /\ currentFile' = NoSector /\ r2' = 0
    /\ torn' = (torn \/ Tearing)
    /\ UNCHANGED <<disk, orphans>>

(* "nachos -f": the map's and the root's sectors are the first of the disk.*)
MapBlocks == 2..(1 + SectorsNeeded(MapSize))
RootBlocks == (2 + SectorsNeeded(MapSize))..(1 + SectorsNeeded(MapSize) + SectorsNeeded(DirSize))
FormattedMap == {FreeMapSector, DirectorySector} \cup MapBlocks \cup RootBlocks
FormattedHead ==
    [s \in {FreeMapSector, DirectorySector} |-> IF s = FreeMapSector THEN MapBlocks ELSE RootBlocks]
FormattedTables == [s \in {DirectorySector} |-> EmptyTable]

Format ==
    /\ pending = <<>> /\ phase = "main"
    /\ used' = FormattedMap /\ head' = FormattedHead /\ tab' = FormattedTables
    /\ torn' = FALSE /\ orphans' = {} /\ r2' = 0
    /\ UNCHANGED <<pending, phase, currentFile>>

Init ==
    /\ used = FormattedMap /\ head = FormattedHead /\ tab = FormattedTables
    /\ torn = FALSE /\ orphans = {} /\ r2 = 0
    /\ pending = <<>> /\ phase = "main" /\ currentFile = NoSector

Next ==
    \/ WriteSector \/ ExecAll \/ CloseFile \/ Restart \/ Format
    \/ \E path \in Paths :
          \/ \E size \in FileSizes : Create(path, FALSE, size)
          \/ Create(path, TRUE, DirSize)
          \/ \E recursive \in BOOLEAN : RemoveEntry(path, recursive)
          \/ OpenAFile(path)

Spec == Init /\ [][Next]_vars

(***************************************************************************)
(* Properties.                                                             *)
(***************************************************************************)
(* No abort leaks a sector: at every point between two writes, each sector *)
(* the bitmap has marked belongs to a file the directories lead to, or to  *)
(* one whose directory "-r" removed before it.  Create writes the names    *)
(* before the bitmap (filesys.cc:290), Remove after it (filesys.cc:410).   *)
NoLeak == used \subseteq Reachable \cup orphans

(* The damage an abort can do is one command's: what is in a directory but *)
(* not marked belongs to one entry and what is below it, the one that was  *)
(* being created or removed, and never to the system's own files.          *)
DamageConfined ==
    ~torn /\ ~Tearing =>
        \/ Reachable \subseteq used
        \/ \E e \in Files : Reachable \ used \subseteq SectorsOf(Subtree(tab, {e}))

(* Seen through the directories, every command happens at one disk write,  *)
(* and an abort leaves the names as before it or as after it.  The names   *)
(* are those on disk; an entry across two sectors counts as written with   *)
(* its first one.                                                          *)
Tables == IF Tearing THEN Written(tab, Head(pending).at, Head(pending).val) ELSE tab

RecursiveList(tables) ==
    LET Lines(prefix, sector) ==
            {[path |-> Append(prefix, e.name), dir |-> e.dir, sector |-> e.sector]
                : e \in Used(TableAt(tables, sector))}
        upTo[k \in 0..(MaxDepth - 1)] ==
            IF k = 0 THEN Lines(<<>>, DirectorySector)
            ELSE upTo[k - 1] \cup UNION {Lines(l.path, l.sector) : l \in {m \in upTo[k - 1] : m.dir}}
    IN  upTo[MaxDepth - 1]

Tree == IF torn THEN {} ELSE {[path |-> l.path, dir |-> l.dir] : l \in RecursiveList(Tables)}

Abstract == INSTANCE NameTree WITH tree <- Tree
ImplementsNameTree == Abstract!Spec
================================================================================
