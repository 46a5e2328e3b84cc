------------------------------ MODULE MCFileSystem ------------------------------
(* Three names for directories of two entries, one of which lies across    *)
(* two sectors; the root and one directory below it; a disk with room for  *)
(* three files or directories of one data sector (five sectors each).      *)
EXTENDS FileSystem, TLC

CONSTANTS a, b, c

MCNames == {a, b, c}
MCPaths == {<<a>>, <<b>>, <<c>>, <<a, a>>}
MCSymmetry == Permutations({b, c})
================================================================================
