----------------------------- MODULE MCRecovery -----------------------------
(* Small instances of Recovery for TLC. *)
EXTENDS RecoveryInv

CONSTANTS k1, k2, v1, v2

Put(k, v) == [key |-> k, val |-> v]
Del(k) == [key |-> k, val |-> Tombstone]

MCKeys == {k1, k2}
MCValues == {v1, v2}

\* Puts, deletes, and batches of puts and of both.
MCBatches ==
    { <<Put(k1, v1)>>, <<Del(k1)>>, <<Put(k1, v2), Put(k2, v1)>>,
      <<Put(k2, v1), Put(k1, v2), Del(k2)>> }

\* Puts and batches of puts.
PutBatches ==
    { <<Put(k1, v1)>>, <<Put(k2, v2)>>, <<Put(k1, v2), Put(k2, v1)>> }

\* One key.
OneKeyBatches == { <<Put(k1, v1)>>, <<Del(k1)>> }

\* The two circumstances set apart.
Apart == DeletesApart /\ HintsHaveSegments
=============================================================================
