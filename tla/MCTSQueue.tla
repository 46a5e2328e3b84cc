------------------------------- MODULE MCTSQueue -------------------------------
(* Small instances of TSQueue.  Two threads on each side and a ring of two *)
(* slots are enough for both sides to be blocked, for a waiter to be       *)
(* overtaken by a fresh caller and for the indices to wrap.                *)
EXTENDS TSQueue

CONSTANTS e1, e2, d1, d2, a, b

MCEnqueuers == {e1, e2}
MCDequeuers == {d1, d2}
MCItems == {a, b}
================================================================================
