------------------------------ MODULE MCFileHeader ------------------------------
(* Index sectors of two entries, so that nine data sectors need two        *)
(* sectors of L1, three of L2 and five of L3; a disk on which the files    *)
(* find their sectors in the gaps others left.                             *)
EXTENDS FileHeader, TLC

CONSTANTS a, b

MCFiles == {a, b}
MCSymmetry == Permutations(MCFiles)
================================================================================
