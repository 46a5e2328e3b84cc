----------------------------- MODULE MCUserPrograms -----------------------------
(* Three programs of one to three pages on three frames, so that memory    *)
(* runs out; two files and a table of three entries, so that it fills up.  *)
EXTENDS UserPrograms, TLC

CONSTANTS p1, p2, p3, f, g

MCPrograms == {p1, p2, p3}
MCFileNames == {f, g}
MCExecutables == {[code |-> 1, data |-> 0], [code |-> 1, data |-> 2], [code |-> 3, data |-> 2]}
MCSymmetry == Permutations(MCPrograms) \cup Permutations(MCFileNames)
================================================================================
