------------------------------- MODULE MCPipeline -------------------------------
(* Two producers, at most two consumers at a time.                         *)
EXTENDS Pipeline

CONSTANTS p1, p2, c1, c2

MCProducers == {p1, p2}
MCConsumers == {c1, c2}
================================================================================
