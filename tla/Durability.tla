----------------------------- MODULE Durability -----------------------------
(***************************************************************************)
(* What little-db keeps across a power failure: which fsync and directory  *)
(* sync stands before which publication (segment.sync, syncDir,            *)
(* writeManifest, writeHintFile), around the engine and Open of            *)
(* Recovery.tla.                                                           *)
(*                                                                         *)
(* The directory of Recovery.tla is what processes see.  disk is the part  *)
(* of it a power failure cannot take away.  An fsync of a file makes its   *)
(* entries stable, and not its directory entry; a directory sync makes     *)
(* stable the creations, removals and renames so far, in no other order.   *)
(* A power failure cuts the unstable tail of a segment anywhere, also      *)
(* inside a record, and keeps or loses each unstable directory change.     *)
(* It exposes no blocks that were never written, and a failed fsync may be *)
(* tried again.                                                            *)
(*                                                                         *)
(* Four circumstances count as faults and happen only if named in Faults:  *)
(*   "midUnlink"    a hint is on disk without its segment;                 *)
(*   "sealUnsynced" the process ends while its active segment is full and  *)
(*                  not stable;                                            *)
(*   "renameWindow" the process ends, and not the machine, while the last  *)
(*                  rename of the manifest is not stable;                  *)
(*   "openWindow"   the power fails inside the writeManifest of Open.      *)
(***************************************************************************)
EXTENDS Recovery, SequencesExt

VARIABLES
    disk,     \* the stable part of the directory
    burst,    \* the burst in hand: "none", "writes", or "commit" if a
              \* compaction commit was in the queue when it was collected
    syncing,  \* writeManifest has renamed, its directory sync is to come
    history,  \* history: the maps after each record appended, oldest first
    acked     \* history: how many of them callers know of

diskVars == <<disk, burst, syncing>>
ackVars == <<history, acked>>
durVars == <<allVars, diskVars, ackVars>>

EmptyMap == [k \in Keys |-> Tombstone]

----------------------------------------------------------------------------
(* What becomes stable.                                                    *)

\* The entries of the files S, as they are after the step.  A file created
\* in the step has none.
Entries(S) ==
    [i \in Ids |-> IF i \in S THEN file'[i]
                   ELSE IF i \in segFiles' \ segFiles THEN <<>>
                   ELSE disk.file[i]]

\* segment.sync of the files S, and no directory sync.
Fsync(S) == disk' = [disk EXCEPT !.file = Entries(S)]

\* segment.sync of the files S, then syncDir: the names of segments and
\* hints, and the manifest man.
FsyncDir(S, man) ==
    disk' = [file |-> [i \in Ids |-> IF i \in segFiles' THEN Entries(S)[i] ELSE <<>>],
             segFiles |-> segFiles', hint |-> hint', hintFiles |-> hintFiles',
             manifest |-> man]

----------------------------------------------------------------------------
(* The steps of the engine and of Open, with what they make stable.        *)

\* Steps that sync nothing.
Unsynced ==
    /\ \/ /\ mode = "up"
          /\ \/ RotateFail \/ RotateAbort \/ AppendFail \/ ApplyKeydir
             \/ ~syncing /\ (RotatePublish \/ CommitPublish)
             \/ \E c \in Ids : UnlinkSegment(c) \/ UnlinkHint(c)
             \/ CompactSnapshot \/ CompactCreate \/ CompactCreateFail
             \/ \E c \in Ids : ScanEntry(c) \/ ScanNext(c)
             \/ CompactFail \/ RetireOnly \/ CleanupSegment \/ CleanupHint
          /\ UNCHANGED recVars
       \/ OpenFresh
       \/ ~syncing /\ (OpenDone \/ \E i \in Ids : SweepOne(i))
    /\ Fsync({})
    /\ UNCHANGED <<burst, syncing, ackVars>>

\* A write of the burst is begun.  The first one finds what the queue held:
\* a compaction commit is part of this burst only if it was there by then.
BeginWrite ==
    /\ mode = "up"
    /\ \E ops \in Batches : StartWrite(ops)
    /\ IF burst # "none" THEN UNCHANGED burst
       ELSE \/ burst' = "writes"
            \/ cpc = "submitted" /\ burst' = "commit"
    /\ Fsync({})
    /\ UNCHANGED <<recVars, syncing, ackVars>>

\* Mutant: commits are polled for between the writes of a burst.
CommitAnywhere ==
    /\ mode = "up"
    /\ UNCHANGED <<burst, recVars, ackVars>>

\* A commit is handled in the burst it is part of, or in one of its own.
CommitInBurst ==
    /\ mode = "up"
    /\ burst # "writes"
    /\ burst' = IF burst = "commit" THEN "writes" ELSE "none"
    /\ UNCHANGED <<recVars, ackVars>>

CommitRefused ==
    /\ CommitInBurst
    /\ CommitFail
    /\ Fsync({})
    /\ UNCHANGED syncing

\* recover.  Records above the highest timestamp it finds are lost.
Rebuild ==
    /\ OpenRecover
    /\ Fsync({})
    /\ \E n \in DOMAIN history :
         /\ \A m \in DOMAIN history : history[m].t <= lastTstamp' <=> m <= n
         /\ history' = SubSeq(history, 1, n)
    /\ UNCHANGED <<burst, syncing, acked>>

\* The record is in the file, and so in the log, before anyone is told.
LogRecord ==
    /\ mode = "up"
    /\ AppendRecord
    /\ history' = Append(history, [t |-> lastTstamp,
                     map |-> Store!ApplyOps(Last(history).map, wreq)])
    /\ Fsync({})
    /\ UNCHANGED <<recVars, burst, syncing, acked>>

\* rotateActive fsyncs the segment it is about to seal.
Seal ==
    /\ mode = "up"
    /\ RotateCreate
    /\ Fsync({active})
    /\ UNCHANGED <<recVars, burst, syncing, ackVars>>

\* rotateActive syncs the directory, then renames the manifest.
RotateRename ==
    /\ mode = "up"
    /\ RotateManifest
    /\ FsyncDir({}, manifest)
    /\ syncing' = TRUE
    /\ UNCHANGED <<recVars, burst, ackVars>>

\* The directory sync after the rename fails: the rename is visible and not
\* stable.
RotateUnconfirmed ==
    /\ mode = "up"
    /\ RotateUncertain
    /\ FsyncDir({}, manifest)
    /\ UNCHANGED <<recVars, burst, syncing, ackVars>>

\* Mutant: the merged segment is published without its fsync.
MergeFlushed ==
    /\ mode = "up"
    /\ WriteHintFile
    /\ FsyncDir({}, manifest)
    /\ UNCHANGED <<recVars, burst, syncing, ackVars>>

\* The merged segment is fsynced, its hint fsynced, renamed and its name
\* synced.
Merge ==
    /\ mode = "up"
    /\ WriteHintFile
    /\ FsyncDir({newSeg}, manifest)
    /\ UNCHANGED <<recVars, burst, syncing, ackVars>>

\* Mutant: old segments are removed before the manifest is confirmed.
CommitUnconfirmed ==
    /\ CommitInBurst
    /\ CommitManifest
    /\ IF newSeg = NoSeg THEN Fsync({}) ELSE FsyncDir({}, manifest)
    /\ UNCHANGED syncing

\* handleCompactCommit syncs the directory if there is a merged segment, then
\* renames the manifest, whose own sync may fail.
CommitRename ==
    /\ CommitInBurst
    /\ CommitManifest
    /\ IF newSeg = NoSeg THEN Fsync({}) ELSE FsyncDir({}, manifest)
    /\ syncing' = (wpc' = "commitPublish")

\* Open renames the manifest without a directory sync before it.
OpenRename ==
    /\ OpenManifest
    /\ Fsync({})
    /\ syncing' = TRUE
    /\ UNCHANGED <<burst, ackVars>>

OpenRenameFail ==
    /\ OpenManifestFail
    /\ "renameWindow" \in Faults \/ manifest' = disk.manifest
    /\ Fsync({})
    /\ UNCHANGED <<burst, syncing, ackVars>>

\* writeManifest's directory sync returns.
ManifestSynced ==
    /\ syncing
    /\ UNCHANGED <<allVars, burst, ackVars>>
    /\ FsyncDir({}, manifest)
    /\ syncing' = FALSE

\* The fsync that ends a burst (SyncOnPut): its callers get their answers.
\* (The code omits it when no write of the burst succeeded; here it then
\* makes stable, and counts as known, what was stable or in doubt before.)
SyncBurst ==
    /\ mode = "up"
    /\ wpc = "idle"
    /\ burst # "none"
    /\ burst' = "none"
    /\ UNCHANGED <<allVars, syncing, history>>
    /\ \/ /\ active \notin torn
          /\ acked' = Len(history)
          /\ Fsync({active})
       \/ /\ active \in torn \/ "sync" \in Faults
          /\ UNCHANGED <<disk, acked>>

----------------------------------------------------------------------------
(* Failures.                                                               *)

\* The process ends and the machine stays up.
ProcessEnds ==
    /\ Kill
    /\ mode = "up" /\ "sealUnsynced" \notin Faults =>
         Len(file[active]) < MaxSegmentSize \/ disk.file[active] = file[active]
    /\ "renameWindow" \in Faults \/ manifest = disk.manifest
    /\ syncing' = FALSE
    /\ burst' = "none"
    /\ UNCHANGED <<disk, ackVars>>

\* The lengths the tail of file i can be cut to: whole records.
Cuts(i) ==
    {n \in Len(disk.file[i]) .. Len(file[i]) :
        n \in 1 .. Len(file[i]) - 1 => file[i][n].t # file[i][n + 1].t}

\* The machine loses power and comes back: of every unstable name either
\* state, of every unstable tail some length, perhaps part of a record more.
\* What a segment no manifest names holds does not matter.
PowerLoss ==
    /\ mode = "sweep" /\ syncing => "openWindow" \in Faults
    /\ mode' = "down"
    /\ syncing' = FALSE
    /\ burst' = "none"
    /\ segFiles' \in {S \in SUBSET (segFiles \cup disk.segFiles) :
                        segFiles \cap disk.segFiles \subseteq S}
    /\ hintFiles' \in {S \in SUBSET (hintFiles \cup disk.hintFiles) :
                        /\ hintFiles \cap disk.hintFiles \subseteq S
                        /\ "midUnlink" \in Faults \/ S \subseteq segFiles'}
    /\ hint' = [i \in Ids |-> IF i \notin hintFiles' THEN {}
                              ELSE IF i \in hintFiles THEN hint[i]
                              ELSE disk.hint[i]]
    /\ manifest' \in {manifest, disk.manifest}
    /\ LET named == (manifest.segs \cup disk.manifest.segs) \cap segFiles \cap segFiles'
           loose == {i \in named : file[i] # disk.file[i] \/ i \in torn}
       IN  \E cut \in [loose -> 0 .. Max({Len(file[i]) : i \in Ids})] :
             /\ \A i \in loose : cut[i] \in Cuts(i)
             /\ file' = [i \in Ids |->
                            IF i \in loose THEN SubSeq(file[i], 1, cut[i])
                            ELSE IF i \in segFiles' THEN disk.file[i] ELSE <<>>]
             /\ torn' \in {T \in SUBSET loose :
                             \A i \in T : cut[i] < Len(file[i]) \/ i \in torn}
    /\ ResetMemory
    /\ disk' = [file |-> file', segFiles |-> segFiles', hint |-> hint',
                hintFiles |-> hintFiles', manifest |-> manifest']
    /\ UNCHANGED <<saved, ackVars>>

----------------------------------------------------------------------------
(* The specification.                                                      *)

DInit ==
    /\ RInit
    /\ disk = [file |-> file, segFiles |-> {}, hint |-> hint, hintFiles |-> {},
               manifest |-> NoManifest]
    /\ syncing = FALSE
    /\ burst = "none"
    /\ history = <<[t |-> 0, map |-> EmptyMap]>>
    /\ acked = 1

DNext ==
    \/ Unsynced \/ BeginWrite \/ LogRecord \/ SyncBurst \/ Seal
    \/ CommitRefused \/ Rebuild
    \/ RotateRename \/ RotateUnconfirmed \/ ManifestSynced
    \/ Merge \/ CommitRename \/ OpenRename \/ OpenRenameFail
    \/ ProcessEnds \/ PowerLoss

DSpec == DInit /\ [][DNext]_durVars

----------------------------------------------------------------------------
(* Properties.                                                             *)

\* recoverSegment: a segment that is not the active one was fsynced before
\* its manifest was published, so a partial record in it is corruption.
SealedSynced ==
    \A i \in manifest.segs \ {manifest.active} : disk.file[i] = file[i]

\* After a power failure or a kill the map is what it was after some write,
\* and every write acknowledged under SyncOnPut is part of it (SPEC, failure
\* model, OS crash in sync mode: all acked writes survive).
AckedSurvive ==
    mode # "down" => \E n \in acked .. Len(history) : history[n].map = View
=============================================================================
