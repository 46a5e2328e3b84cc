-------------------------------- MODULE Sublists --------------------------------
(* The elements of a list that belong to a set, in their order.            *)
EXTENDS Integers, Sequences

Kept(s, K) ==
    LET kept[n \in 0..Len(s)] ==
            IF n = 0 THEN <<>>
            ELSE IF s[n] \in K THEN Append(kept[n - 1], s[n]) ELSE kept[n - 1]
    IN kept[Len(s)]
================================================================================
