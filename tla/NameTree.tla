-------------------------------- MODULE NameTree --------------------------------
(* What the MP4 file system promises of its names, through a user abort at *)
(* any disk write: each command changes the tree in one step or not at     *)
(* all.  The promise ends when an abort tears a directory entry; it is     *)
(* made again for the disk that is formatted next.                         *)
EXTENDS Integers, Sequences

CONSTANTS Paths                 \* nonempty sequences of names

VARIABLES tree,                 \* the names, each with whether it is a directory
          torn                  \* an abort has torn a directory entry

vars == <<tree, torn>>

Init == tree = {} /\ torn = FALSE

PathsIn(t) == {n.path : n \in t}
Below(p, q) == Len(q) >= Len(p) /\ SubSeq(q, 1, Len(p)) = p

(* A name that is not there can appear in the root or in a directory.      *)
Creatable(t) ==
    {p \in Paths \ PathsIn(t) :
        Len(p) > 1 => [path |-> SubSeq(p, 1, Len(p) - 1), dir |-> TRUE] \in t}

(* One name appears, or one goes with everything below it.                 *)
Command ==
    LET t == tree
    IN  /\ ~torn /\ ~torn'
        /\ tree' \in {t \cup {[path |-> p, dir |-> d]} : p \in Creatable(t), d \in BOOLEAN}
                     \cup {{n \in t : ~Below(p, n.path)} : p \in PathsIn(t)}

Tear == torn' = TRUE /\ tree' = {}

Format == tree' = {} /\ torn' = FALSE

Next == Command \/ Tear \/ Format

Spec == Init /\ [][Next]_vars
================================================================================
