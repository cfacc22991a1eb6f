------------------------------- MODULE MCClient ------------------------------
(* Small instances of Server with Client for TLC. *)
EXTENDS Client, TLC

CONSTANTS c1, v1, v2, v3

MCConns == {c1}
MCKeys == {1, 2}
MCValues == {v1, v2, v3}
MCValLen == v1 :> 1 @@ v2 :> 3 @@ v3 :> 10

\* With a cap of 32 bytes and pages of 11: two pages that meet the cap
\* exactly; a pair that goes over it while a page is open or, once key 1 is
\* put, after a page was sent; a page that only the end of the scan flushes.
MCStores ==
    {(1 :> v2) @@ (2 :> v2), (1 :> v1) @@ (2 :> v3), (1 :> v1) @@ (2 :> Tombstone)}

PutReq == [op |-> "put", ops |-> (1 :> v2)]
RangeReq == [op |-> "range", lo |-> 1, hi |-> 3]
MCRequests ==
    {PutReq, RangeReq, [op |-> "batch", ops |-> (1 :> v1) @@ (2 :> Tombstone)],
     [op |-> "get", key |-> 2],
     [op |-> "malformed"]}
=============================================================================
