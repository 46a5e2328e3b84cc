------------------------------ MODULE SectorLayout ------------------------------
(* How many sectors a NachOS MP4 file takes (filesys/filehdr.cc) and which *)
(* clear sectors a request is given (lib/bitmap.cc).                       *)
EXTENDS Integers, FiniteSets

CONSTANT Fan                    \* entries of an index sector: 32 in the code

ASSUME FanAssumption == Fan \in Nat \ {0}

DivRoundUp(n, s) == (n + s - 1) \div s

(* Entries of the levels L1, L2 and L3 of the index and of the data, for a *)
(* file of n data sectors.                                                 *)
LevelSizes(n) ==
    LET L3 == DivRoundUp(n, Fan)
        L2 == DivRoundUp(L3, Fan)
        L1 == DivRoundUp(L2, Fan)
    IN  <<L1, L2, L3, n>>

(* Sectors the file needs beside the one of its header.                    *)
SectorsNeeded(n) ==
    LET size == LevelSizes(n)
    IN  size[1] + size[2] + size[3] + size[4]

(* What k calls of FindAndSet return: the lowest k of the clear sectors.   *)
Lowest(k, clear) == {s \in clear : Cardinality({t \in clear : t < s}) < k}
================================================================================
