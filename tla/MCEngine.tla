------------------------------ MODULE MCEngine ------------------------------
(* A small instance of Engine for TLC. *)
EXTENDS EngineInv

CONSTANTS k1, k2, v1, v2

Put(k, v) == [key |-> k, val |-> v]
Del(k) == [key |-> k, val |-> Tombstone]

MCKeys == {k1, k2}
MCValues == {v1, v2}
MCBatches ==
    { <<Put(k1, v1)>>, <<Put(k2, v2)>>, <<Del(k1)>>,
      <<Put(k1, v1), Put(k2, v2), Put(k1, v2)>> }
=============================================================================
