---------------------------- MODULE MCDurability ----------------------------
(* Small instances of Durability for TLC. *)
EXTENDS Durability

CONSTANTS k1, k2, v1, v2

Put(k, v) == [key |-> k, val |-> v]
Del(k) == [key |-> k, val |-> Tombstone]

MCKeys == {k1, k2}
MCValues == {v1, v2}

\* A put, a delete and a batch of puts.
MCBatches ==
    { <<Put(k1, v1)>>, <<Del(k1)>>, <<Put(k1, v2), Put(k2, v1)>> }

\* Deletes and compactions are not mixed (the run deleted_key_returns).
DeletesApart ==
    (\E i \in Ids : \E p \in DOMAIN file[i] : file[i][p].val = Tombstone)
        => cpc = "idle" /\ hintFiles = {}

\* No compaction while values in the keydir wait for an fsync that nobody
\* will ask for: the burst's fsync failed, or Open took on an active segment
\* whose tail is not stable.  The compaction would drop the values that they
\* supersede.
CompactionOnStable ==
    mode = "up" /\ burst = "none" /\ cpc # "idle" => disk.file[active] = file[active]

Apart == DeletesApart /\ CompactionOnStable
=============================================================================
