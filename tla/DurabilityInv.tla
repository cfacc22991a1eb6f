--------------------------- MODULE DurabilityInv ---------------------------
(***************************************************************************)
(* The inductive invariants of Durability.  StableInv is behind            *)
(* SealedSynced and OpenSucceeds under power failures: it adds to DirInv,  *)
(* which is about the directory as processes see it, what is stable of     *)
(* that directory at each control point of the writer, of the compactor    *)
(* and of Open.  SurvivalInv is behind AckedSurvive where nobody compacts: *)
(* it relates the log to the history of the writes.                        *)
(* DurabilityProofs proves them inductive for every value of the           *)
(* constants.                                                              *)
(***************************************************************************)
EXTENDS Durability, RecoveryInv

Manifests == [segs : SUBSET Ids, active : Ids \cup {NoSeg}]

\* The stable part of the directory is a directory.
DTypeOK ==
    /\ disk \in [file : [Ids -> Seq(Entry)], segFiles : SUBSET Ids,
                 hint : [Ids -> SUBSET HintEntry], hintFiles : SUBSET Ids,
                 manifest : Manifests]
    /\ syncing \in BOOLEAN
    /\ \A i \in Ids : \A p \in DOMAIN disk.file[i] : disk.file[i][p].t <= MaxWrites
    /\ \A i \in Ids : \A h \in disk.hint[i] : h.t <= MaxWrites

\* Open has renamed its manifest and not yet synced the directory: the one
\* moment at which the stable directory may lack a file the manifest names.
InOpenWindow == mode = "sweep" /\ syncing

\* When the manifest a process reads is the stable one.
ManifestStable ==
    /\ mode \in {"down", "fresh", "manifest", "sweep"} /\ ~InOpenWindow =>
         manifest = disk.manifest
    /\ mode = "up" /\ wpc \in {"rotatePublish", "commitPublish"} /\ ~syncing =>
         manifest = disk.manifest
    /\ mode = "up" /\ Unlinking => manifest = disk.manifest
    /\ syncing => InOpenWindow \/ (mode = "up" /\ wpc \in {"rotatePublish", "commitPublish"})
    /\ mode = "up" => disk.manifest # NoManifest
    /\ mode = "up" /\ manifest.active = active => disk.manifest.active = active
    /\ disk.manifest # NoManifest => disk.manifest.active \in disk.manifest.segs
    /\ manifest = NoManifest =>
         disk.hintFiles = {} /\ \A i \in Ids : disk.file[i] = <<>>

\* Every file that the manifest in use or the stable one names is there, for
\* processes and stably; a file that may be removed is named by neither.
NamesStable ==
    /\ disk.manifest.segs \subseteq segFiles \cap disk.segFiles
    /\ ~InOpenWindow => manifest.segs \subseteq disk.segFiles
    /\ mode = "up" /\ newSeg # NoSeg /\ cpc \in {"scan", "submitted", "cleanup"} =>
         newSeg \notin disk.manifest.segs
    /\ mode = "up" /\ wpc = "rotateManifest" => next \notin disk.manifest.segs

\* Whatever is not being appended to is stable: the segments of both
\* manifests but the active one, the segment that is being sealed, the merged
\* segment once it is submitted.  A segment that has become the active one in
\* the manifest alone is empty.
ContentsStable ==
    /\ \A i \in (manifest.segs \cup disk.manifest.segs) \ {manifest.active} :
         file[i] = disk.file[i]
    /\ mode = "up" /\ wpc = "rotateManifest" =>
         disk.file[active] = file[active] /\ disk.file[next] = <<>>
    /\ mode = "up" /\ cpc = "submitted" /\ newSeg # NoSeg => disk.file[newSeg] = file[newSeg]
    /\ (mode = "up" /\ manifest.active # active) \/ manifest.active # disk.manifest.active =>
         file[manifest.active] = <<>> /\ disk.file[manifest.active] = <<>>

\* The segment the next Open takes for the active one has room or is stable:
\* Open seals it if it has none.  A manifest that Open writes adds an empty
\* segment to the ones it has read.
RoomInv ==
    /\ mode # "up" /\ manifest.active # NoSeg =>
         \/ Len(file[manifest.active]) < MaxSegmentSize
         \/ disk.file[manifest.active] = file[manifest.active]
    /\ mode \in {"fresh", "manifest"} =>
         /\ segments \subseteq LiveOnDisk \cup {active}
         /\ manifest # NoManifest => disk.file[manifest.active] = file[manifest.active]
    /\ mode = "manifest" => file[active] = <<>> /\ disk.file[active] = <<>>

SyncInv == ManifestStable /\ NamesStable /\ ContentsStable /\ RoomInv

StableInv == DirInv /\ DTypeOK /\ SyncInv

----------------------------------------------------------------------------
(* Where nobody compacts: the log is the history of the writes.            *)

\* Segments that hold entries are live, for processes and stably, and none is
\* above the active one.  What is stable of a segment is a beginning of it.
PlacesInv ==
    \A i \in Ids :
      /\ file[i] # <<>> =>
           /\ i \in manifest.segs \cap disk.manifest.segs
           /\ i <= manifest.active /\ i <= disk.manifest.active
           /\ mode # "down" => i \in segments /\ (active # NoSeg => i <= active)
           /\ next # NoSeg => i < next
      /\ Len(disk.file[i]) <= Len(file[i])
      /\ \A p \in DOMAIN disk.file[i] : disk.file[i][p] = file[i][p]

\* Timestamps grow along the log, and no record is in two segments.
SortedInv ==
    \A i, j \in Ids : \A p \in DOMAIN file[i] : \A q \in DOMAIN file[j] :
      /\ i < j => file[i][p].t < file[j][q].t
      /\ i = j /\ p <= q => file[i][p].t <= file[j][q].t

\* Position p of segment i is the last in the log with an entry about key k
\* that is not newer than t.
LastUpTo(k, t, i, p) ==
    /\ i \in Ids /\ p \in DOMAIN file[i]
    /\ file[i][p].key = k /\ file[i][p].t <= t
    /\ \A j \in Ids : \A q \in DOMAIN file[j] :
         file[j][q].key = k /\ file[j][q].t <= t => j < i \/ (j = i /\ q <= p)

\* The log up to timestamp t gives key k the value v.
SaysUpTo(k, t, v) ==
    \/ /\ v = Tombstone
       /\ \A i \in Ids : \A p \in DOMAIN file[i] : file[i][p].key = k => ~(file[i][p].t <= t)
    \/ \E i \in Ids : \E p \in DOMAIN file[i] : LastUpTo(k, t, i, p) /\ v = file[i][p].val

\* The n-th record of the history is still in the log.
Logged(n) ==
    n = 1 \/ \E i \in Ids : \E p \in DOMAIN file[i] : file[i][p].t = history[n].t

HistoryOK ==
    /\ history \in Seq([t : Nat, map : [Keys -> Values \cup {Tombstone}]])
    /\ acked \in DOMAIN history
    /\ \A m, n \in DOMAIN history : m < n => history[m].t < history[n].t
    /\ history[1] = [t |-> 0, map |-> EmptyMap]

\* Every entry is of a record of the history, and a record that is in the log
\* made of it the map that history has.
RecordsInv ==
    /\ \A i \in Ids : \A p \in DOMAIN file[i] :
         \E n \in DOMAIN history : n # 1 /\ history[n].t = file[i][p].t
    /\ \A n \in DOMAIN history : Logged(n) =>
         \A k \in Keys : SaysUpTo(k, history[n].t, history[n].map[k])

\* What callers know of is stable.
AckedInv ==
    acked = 1 \/ \E i \in Ids : \E p \in DOMAIN disk.file[i] : disk.file[i][p].t = history[acked].t

\* A process has the whole history in its log, and the last map of it in its
\* keydir, or the one before while the last record is applied.
CurrentInv ==
    mode # "down" =>
      LET n == Len(history)
      IN  /\ Logged(n)
          /\ history[n].t <= lastTstamp
          /\ Stamped => history[n].t < lastTstamp
          /\ IF wpc # "keydir" THEN View = history[n].map
             ELSE /\ acked < n
                  /\ View = history[n - 1].map
                  /\ history[n].map = Store!ApplyOps(history[n - 1].map, wreq)

HistoryInv == HistoryOK /\ PlacesInv /\ SortedInv /\ RecordsInv /\ AckedInv /\ CurrentInv

SurvivalInv ==
    /\ StableInv /\ HintInv /\ NoHints /\ disk.hintFiles = {}
    /\ HistoryInv
=============================================================================
