------------------------------ MODULE MCScheduler ------------------------------
(* The main thread and two or three it forks; three priorities per level   *)
(* and an aging step that overtakes; time in halves of a timer period.     *)
EXTENDS Scheduler, TLC

CONSTANTS main, t1, t2, t3

MCThreads == {main, t1, t2}
MCPriorities == {0, 4, 7}
MCFixedDelay == {2}

MCWideThreads == {main, t1, t2, t3}
MCWidePriorities == {0, 3, 4}
MCWideDelays == {1, 2}
MCWideSymmetry == Permutations({t1, t2, t3})
================================================================================
