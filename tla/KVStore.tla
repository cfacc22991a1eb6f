------------------------------- MODULE KVStore -------------------------------
(***************************************************************************)
(* What little-db promises its callers (internal/engine/engine.go, the     *)
(* package comment and the comments on Put, Delete, BatchPut, Get and      *)
(* ReadKeyRange): one map from keys to values, in which every accepted     *)
(* Put, Delete or BatchPut takes effect at one instant and as a whole, and *)
(* which nothing else changes.                                             *)
(*                                                                         *)
(* A write request is a sequence of operations.  Put and Delete are        *)
(* sequences of length one; a BatchPut may name a key several times, and   *)
(* then its last entry wins.  The writer goroutine serves one request at a *)
(* time: it takes one, and then the request takes effect or fails.         *)
(***************************************************************************)
EXTENDS Naturals, Sequences

CONSTANTS
    Keys,       \* the keys
    Values,     \* the values a key can be given
    Tombstone,  \* "no value": what a Delete writes, and what Get's
                \* ErrKeyNotFound stands for
    Batches     \* the write requests callers may submit

Op == [key : Keys, val : Values \cup {Tombstone}]

VARIABLES
    store,    \* store[k] is the value of key k, or Tombstone
    pending   \* the request being served, or <<>>

\* i is the position of the last operation of the request on key k.
IsLastOp(ops, k, i) ==
    /\ ops[i].key = k
    /\ \A j \in DOMAIN ops : ops[j].key = k => j <= i

Touches(ops, k) == \E i \in DOMAIN ops : IsLastOp(ops, k, i)

LastOp(ops, k) == CHOOSE i \in DOMAIN ops : IsLastOp(ops, k, i)

\* The map s after the operations of a request, in order.
ApplyOps(s, ops) ==
    [k \in Keys |-> IF Touches(ops, k) THEN ops[LastOp(ops, k)].val ELSE s[k]]

Init ==
    /\ store = [k \in Keys |-> Tombstone]
    /\ pending = <<>>

Accept(ops) ==
    /\ pending = <<>>
    /\ pending' = ops
    /\ UNCHANGED store

\* The request takes effect.
Write ==
    /\ pending # <<>>
    /\ store' = ApplyOps(store, pending)
    /\ pending' = <<>>

\* The request fails and leaves the map alone.
Refuse ==
    /\ pending # <<>>
    /\ pending' = <<>>
    /\ UNCHANGED store

Next == (\E ops \in Batches : Accept(ops)) \/ Write \/ Refuse

Spec == Init /\ [][Next]_<<store, pending>>
=============================================================================
