-------------------------------- MODULE MCCLI --------------------------------
(* Small instances of CLI for TLC. *)
EXTENDS CLI, TLC

CONSTANTS c1, c2, v1, v2

MCConns == {c1, c2}
MCKeys == {1, 2}
MCValues == {v1, v2}
MCValLen == v1 :> 1 @@ v2 :> 3

\* Until key 2 is put the range fits a cap of 25 bytes; then it does not.
MCStores == {(1 :> v1) @@ (2 :> Tombstone)}

MCRequests ==
    {[op |-> "put", ops |-> (2 :> v2)], [op |-> "range", lo |-> 1, hi |-> 3],
     [op |-> "get", key |-> 2], [op |-> "ping"], [op |-> "stats"]}

Symmetry == Permutations(Conns)
=============================================================================
