-------------------------- MODULE DurabilityProofs --------------------------
(***************************************************************************)
(* Proofs about power failures, for every value of the constants: that     *)
(* StableInv is inductive, so that sealed segments are stable and Open     *)
(* succeeds on every directory that kills and power failures leave; and    *)
(* that SurvivalInv is where nobody compacts, so that acknowledged writes  *)
(* survive.                                                                *)
(***************************************************************************)
EXTENDS DurabilityInv, RecoveryProofs

USE DEF dirVars, dbVars, writerVars, compactorVars, recVars, Writing

\* The three windows in which the code leaves a published segment or name
\* unstable are not hit.
WindowsShut == Faults \cap {"sealUnsynced", "renameWindow", "openWindow"} = {}

----------------------------------------------------------------------------
(* What the two kinds of sync make stable.                                 *)

\* segment.sync: entries of files, and nothing of the directory.
LEMMA FsyncFacts ==
  ASSUME DTypeOK, NEW S, Fsync(S)
  PROVE  /\ disk'.segFiles = disk.segFiles /\ disk'.manifest = disk.manifest
         /\ disk'.hint = disk.hint /\ disk'.hintFiles = disk.hintFiles
         /\ disk'.file = Entries(S)
         /\ \A i \in Ids : disk'.file[i] =
              IF i \in S THEN file'[i]
              ELSE IF i \in segFiles' \ segFiles THEN <<>> ELSE disk.file[i]
  BY DEF DTypeOK, Fsync, Entries

\* segment.sync and syncDir: the names too.
LEMMA FsyncDirFacts ==
  ASSUME NEW S, NEW man, FsyncDir(S, man)
  PROVE  /\ disk'.segFiles = segFiles' /\ disk'.manifest = man
         /\ disk'.hint = hint' /\ disk'.hintFiles = hintFiles'
         /\ \A i \in Ids : disk'.file[i] =
              IF i \notin segFiles' THEN <<>>
              ELSE IF i \in S THEN file'[i]
              ELSE IF i \in segFiles' \ segFiles THEN <<>> ELSE disk.file[i]
  BY DEF FsyncDir, Entries

\* The stable part stays a directory.
LEMMA DiskType ==
  ASSUME DirInv, DirInv', DTypeOK, syncing' \in BOOLEAN,
         NEW S, Fsync(S) \/ FsyncDir(S, manifest)
  PROVE  DTypeOK'
  <1>1. /\ file' \in [Ids -> Seq(Entry)] /\ segFiles' \subseteq Ids
        /\ hint' \in [Ids -> SUBSET HintEntry] /\ hintFiles' \subseteq Ids
        /\ manifest \in Manifests
        /\ \A i \in Ids : \A p \in DOMAIN file'[i] : file'[i][p].t <= MaxWrites
        /\ \A i \in Ids : \A h \in hint'[i] : h.t <= MaxWrites
    BY DEF DirInv, RTypeOK, StampsBounded, Manifests
  <1>2. /\ disk.file \in [Ids -> Seq(Entry)] /\ disk.segFiles \subseteq Ids
        /\ disk.hint \in [Ids -> SUBSET HintEntry] /\ disk.hintFiles \subseteq Ids
        /\ disk.manifest \in Manifests
        /\ \A i \in Ids : \A p \in DOMAIN disk.file[i] : disk.file[i][p].t <= MaxWrites
        /\ \A i \in Ids : \A h \in disk.hint[i] : h.t <= MaxWrites
    BY DEF DTypeOK
  <1>3. << >> \in Seq(Entry) /\ DOMAIN << >> = {}
    OBVIOUS
  <1>4. Entries(S) \in [Ids -> Seq(Entry)]
    BY <1>1, <1>2, <1>3 DEF Entries
  <1>5. \A i \in Ids : \A p \in DOMAIN Entries(S)[i] : Entries(S)[i][p].t <= MaxWrites
    BY <1>1, <1>2, <1>3 DEF Entries
  <1>6. CASE Fsync(S)
    <2>1. disk' = [disk EXCEPT !.file = Entries(S)]
      BY <1>6 DEF Fsync
    <2>2. disk' \in [file : [Ids -> Seq(Entry)], segFiles : SUBSET Ids,
                     hint : [Ids -> SUBSET HintEntry], hintFiles : SUBSET Ids,
                     manifest : Manifests]
      BY <1>4, <2>1 DEF DTypeOK
    <2>3. disk'.file = Entries(S) /\ disk'.hint = disk.hint
      BY <1>6, FsyncFacts
    <2>4. QED
      BY <1>2, <1>5, <2>2, <2>3 DEF DTypeOK
  <1>7. CASE FsyncDir(S, manifest)
    <2> DEFINE F == [i \in Ids |-> IF i \in segFiles' THEN Entries(S)[i] ELSE <<>>]
    <2>1. F \in [Ids -> Seq(Entry)]
      BY <1>3, <1>4
    <2>2. \A i \in Ids : \A p \in DOMAIN F[i] : F[i][p].t <= MaxWrites
      BY <1>3, <1>5
    <2>3. disk' = [file |-> F, segFiles |-> segFiles', hint |-> hint',
                   hintFiles |-> hintFiles', manifest |-> manifest]
      BY <1>7 DEF FsyncDir
    <2>4. /\ disk' \in [file : [Ids -> Seq(Entry)], segFiles : SUBSET Ids,
                        hint : [Ids -> SUBSET HintEntry], hintFiles : SUBSET Ids,
                        manifest : Manifests]
          /\ disk'.file = F /\ disk'.hint = hint'
      <3> HIDE DEF F
      <3>1. QED
        BY <1>1, <2>1, <2>3
    <2>5. QED
      <3> HIDE DEF F
      <3>1. QED
        BY <1>1, <2>2, <2>4 DEF DTypeOK
  <1>8. QED
    BY <1>6, <1>7

----------------------------------------------------------------------------
(* The running engine.                                                     *)

\* What the first layer says of the manifest while the engine runs.
LEMMA UpFacts ==
  ASSUME DirInv, mode = "up"
  PROVE  /\ file \in [Ids -> Seq(Entry)] /\ segFiles \subseteq Ids
         /\ active \in segments /\ segments \subseteq segFiles
         /\ manifest # NoManifest /\ manifest.active \in manifest.segs
         /\ manifest.segs \subseteq segFiles
         /\ torn \subseteq {manifest.active}
         /\ manifest.active # active => torn = {} /\ (wpc = "rotatePublish" \/ writesDisabled)
         /\ wpc = "rotatePublish" =>
              /\ manifest = [segs |-> segments \cup {next}, active |-> next]
              /\ next \notin segments /\ file[next] = <<>>
         /\ Publishing =>
              manifest = [segs |-> (segments \ candidates) \cup Merged, active |-> active]
         /\ ~writesDisabled /\ wpc # "rotatePublish" /\ ~Publishing =>
              manifest = [segs |-> segments, active |-> active]
         /\ writesDisabled =>
              /\ manifest.segs = segments \cup {manifest.active}
              /\ manifest.active \notin segments /\ wpc = "idle"
         /\ wpc \in {"rotateManifest", "rotatePublish"} =>
              next \in segFiles \ segments /\ file[next] = <<>> /\ torn = {}
         /\ newSeg # NoSeg => newSeg # manifest.active
         /\ newSeg # NoSeg /\ ~Publishing /\ ~Unlinking => newSeg \notin manifest.segs
  <1>1. CoreInv
    BY DEF DirInv
  <1>2. TypeOK /\ ControlInv /\ OwnershipInv /\ ManifestInv
    BY <1>1 DEF CoreInv
  <1>3. wpc \in {"rotateManifest", "rotatePublish"} => next # NoSeg
    BY <1>2 DEF ControlInv
  <1>4. wpc \in {"rotateManifest", "rotatePublish"} =>
          /\ next \in segFiles \ segments /\ file[next] = <<>> /\ torn = {} /\ next # newSeg
    BY <1>2, <1>3 DEF OwnershipInv
  <1>5. writesDisabled => wpc = "idle"
    BY <1>2 DEF ControlInv
  <1>6. /\ file \in [Ids -> Seq(Entry)] /\ segFiles \subseteq Ids
        /\ active \in segments /\ segments \subseteq segFiles
    BY <1>2 DEF TypeOK, OwnershipInv
  <1>7. /\ manifest # NoManifest /\ manifest.active \in manifest.segs
        /\ manifest.segs \subseteq segFiles
        /\ torn \subseteq {manifest.active}
    BY <1>1, UpDisk
  <1>8. /\ wpc = "rotatePublish" => manifest = [segs |-> segments \cup {next}, active |-> next]
        /\ Publishing =>
             manifest = [segs |-> (segments \ candidates) \cup Merged, active |-> active]
        /\ ~writesDisabled /\ wpc # "rotatePublish" /\ ~Publishing =>
             manifest = [segs |-> segments, active |-> active]
        /\ writesDisabled =>
             /\ manifest.segs = segments \cup {manifest.active}
             /\ manifest.active \notin segments
             /\ manifest.active # newSeg /\ torn = {}
    BY <1>2, <1>5 DEF ManifestInv, Publishing
  <1>9. newSeg # NoSeg => newSeg # active /\ (newSeg \in segments <=> Unlinking)
    BY <1>2 DEF OwnershipInv
  <1>10. manifest.active # active => torn = {} /\ (wpc = "rotatePublish" \/ writesDisabled)
    BY <1>4, <1>8
  <1>11. newSeg # NoSeg => newSeg # manifest.active
    BY <1>4, <1>8, <1>9
  <1>12. newSeg # NoSeg /\ ~Publishing /\ ~Unlinking => newSeg \notin manifest.segs
    BY <1>4, <1>8, <1>9, <1>11
  <1>13. QED
    BY <1>4, <1>5, <1>6, <1>7, <1>8, <1>10, <1>11, <1>12

\* A step that publishes nothing and touches no named segment, but for an
\* append to the active one.
Quiet ==
  /\ mode = "up" /\ mode' = "up" /\ UNCHANGED <<manifest, active, syncing>>
  /\ disk'.manifest = disk.manifest /\ disk'.segFiles = disk.segFiles
  /\ \A i \in segFiles : disk'.file[i] = disk.file[i]
  /\ \A i \in manifest.segs \cup disk.manifest.segs :
       i \in segFiles' /\ (file'[i] = file[i] \/ (i = active /\ manifest.active = active))
  /\ wpc' \in {"rotatePublish", "commitPublish"} => wpc' = wpc
  /\ Unlinking' => Unlinking
  /\ syncing => wpc' = wpc
  /\ wpc' = "rotateManifest" =>
       wpc = "rotateManifest" /\ next' = next /\ file'[active] = file[active]
  /\ cpc' \in {"scan", "submitted", "cleanup"} =>
       newSeg' = NoSeg \/ newSeg' \notin disk.manifest.segs
  /\ cpc' = "submitted" =>
       \/ newSeg' = NoSeg
       \/ cpc = "submitted" /\ newSeg' = newSeg /\ file'[newSeg] = file[newSeg]

LEMMA QuietStep ==
  ASSUME DirInv, SyncInv, Quiet
  PROVE  SyncInv'
  <1>0. /\ mode = "up" /\ mode' = "up" /\ UNCHANGED <<manifest, active, syncing>>
        /\ disk'.manifest = disk.manifest /\ disk'.segFiles = disk.segFiles
        /\ manifest # NoManifest
    BY UpFacts DEF Quiet
  <1>1. ManifestStable'
    BY <1>0 DEF SyncInv, ManifestStable, InOpenWindow, Quiet, NoManifest
  <1>2. NamesStable'
    BY <1>0 DEF SyncInv, NamesStable, InOpenWindow, Quiet
  <1>3. manifest.segs \cup disk.manifest.segs \subseteq segFiles /\ active \in segFiles
        /\ manifest.active \in manifest.segs
    BY <1>0, UpFacts DEF SyncInv, NamesStable
  <1>4. ContentsStable'
    <2>1. \A i \in (manifest.segs \cup disk.manifest.segs) \ {manifest.active} :
            file'[i] = disk'.file[i]
      BY <1>3 DEF Quiet, SyncInv, ContentsStable
    <2>2. wpc' = "rotateManifest" => disk'.file[active] = file'[active] /\ disk'.file[next'] = <<>>
      <3>1. wpc = "rotateManifest" => next \in segFiles
        BY <1>0, UpFacts
      <3>2. QED
        BY <1>0, <1>3, <3>1 DEF Quiet, SyncInv, ContentsStable
    <2>3. cpc' = "submitted" /\ newSeg' # NoSeg => disk'.file[newSeg'] = file'[newSeg']
      <3>1. cpc = "submitted" /\ newSeg # NoSeg => newSeg \in segFiles
        BY <1>0 DEF DirInv, CoreInv, OwnershipInv
      <3>2. QED
        BY <1>0, <3>1 DEF Quiet, SyncInv, ContentsStable
    <2>4. manifest.active # active \/ manifest.active # disk.manifest.active =>
            file'[manifest.active] = <<>> /\ disk'.file[manifest.active] = <<>>
      <3>1. manifest.active = active => disk.manifest.active = active
        BY <1>0 DEF SyncInv, ManifestStable
      <3>2. QED
        BY <1>0, <1>3, <3>1 DEF Quiet, SyncInv, ContentsStable
    <2>5. QED
      BY <1>0, <2>1, <2>2, <2>3, <2>4 DEF ContentsStable
  <1>5. RoomInv'
    BY <1>0 DEF RoomInv
  <1>6. QED
    BY <1>1, <1>2, <1>4, <1>5 DEF SyncInv

\* A step that leaves the files alone is quiet if it publishes nothing.
LEMMA QuietControl ==
  ASSUME DirInv, SyncInv, DTypeOK, Fsync({}), mode = "up",
         UNCHANGED <<mode, manifest, active, syncing, file, segFiles>>,
         /\ wpc' \in {"rotateManifest", "rotatePublish", "commitPublish", "unlink", "unlinkHint"}
              => wpc' = wpc
         /\ wpc' = wpc \/ wpc \notin {"rotatePublish", "commitPublish"}
         /\ wpc' = "rotateManifest" => next' = next
         /\ cpc' \in {"scan", "submitted"} => cpc' = cpc /\ newSeg' = newSeg
         /\ cpc' = "cleanup" => cpc \in {"submitted", "cleanup"} /\ newSeg' = newSeg
  PROVE  SyncInv'
  <1>1. /\ disk'.manifest = disk.manifest /\ disk'.segFiles = disk.segFiles
        /\ \A i \in Ids : disk'.file[i] = disk.file[i]
    BY FsyncFacts
  <1>2. manifest.segs \cup disk.manifest.segs \subseteq segFiles /\ segFiles \subseteq Ids
    BY UpFacts DEF SyncInv, NamesStable
  <1>3. syncing => wpc' = wpc
    BY DEF SyncInv, ManifestStable, InOpenWindow
  <1>4. cpc' \in {"scan", "submitted", "cleanup"} =>
          newSeg' = NoSeg \/ newSeg' \notin disk.manifest.segs
    BY DEF SyncInv, NamesStable
  <1>5. Quiet
    BY <1>1, <1>2, <1>3, <1>4 DEF Quiet, Unlinking
  <1>6. QED
    BY <1>5, QuietStep

\* The removal of a segment that no manifest names is quiet.
LEMMA QuietRemove ==
  ASSUME DirInv, SyncInv, DTypeOK, Fsync({}), mode = "up",
         UNCHANGED <<mode, manifest, active, syncing>>,
         NEW i, RemoveSegment(i), i \notin manifest.segs, i \notin disk.manifest.segs,
         /\ wpc' \in {"rotatePublish", "commitPublish"} => wpc' = wpc
         /\ Unlinking' => Unlinking
         /\ wpc' = wpc \/ wpc \notin {"rotatePublish", "commitPublish"}
         /\ wpc' = "rotateManifest" => wpc' = wpc /\ next' = next /\ i # active
         /\ cpc' = "scan" => cpc = "scan" /\ newSeg' = newSeg
         /\ cpc' = "submitted" =>
              newSeg' = NoSeg \/ (cpc = "submitted" /\ newSeg' = newSeg /\ newSeg # i)
         /\ cpc' = "cleanup" => cpc = "cleanup" /\ newSeg' = newSeg
  PROVE  SyncInv'
  <1>1. /\ disk'.manifest = disk.manifest /\ disk'.segFiles = disk.segFiles
        /\ \A j \in Ids : disk'.file[j] = disk.file[j]
    <2>1. segFiles' \ segFiles = {}
      BY DEF RemoveSegment
    <2>2. QED
      BY <2>1, FsyncFacts
  <1>2. /\ manifest.segs \cup disk.manifest.segs \subseteq segFiles /\ segFiles \subseteq Ids
        /\ file \in [Ids -> Seq(Entry)] /\ active \in segFiles
        /\ newSeg # NoSeg => newSeg \in Ids
    BY UpFacts DEF SyncInv, NamesStable, DirInv, CoreInv, TypeOK
  <1>3. syncing => wpc' = wpc
    BY DEF SyncInv, ManifestStable, InOpenWindow
  <1>4. \A j \in Ids \ {i} : file'[j] = file[j]
    BY <1>2 DEF RemoveSegment
  <1>5. \A j \in segFiles \ {i} : j \in segFiles'
    BY DEF RemoveSegment
  <1>6. cpc' \in {"scan", "submitted", "cleanup"} =>
          newSeg' = NoSeg \/ newSeg' \notin disk.manifest.segs
    BY DEF SyncInv, NamesStable
  <1>7. \A j \in manifest.segs \cup disk.manifest.segs : j \in segFiles' /\ file'[j] = file[j]
    BY <1>2, <1>4, <1>5
  <1>8. Quiet
    BY <1>1, <1>2, <1>3, <1>4, <1>6, <1>7 DEF Quiet
  <1>9. QED
    BY <1>8, QuietStep

\* The steps of the running engine that sync nothing.
LEMMA UnsyncedRunning ==
  ASSUME DirInv, SyncInv, DTypeOK, mode = "up", UNCHANGED recVars, Fsync({}),
         UNCHANGED syncing,
         \/ RotateFail \/ RotateAbort \/ AppendFail \/ ApplyKeydir
         \/ CommitFail
         \/ \E ops \in Batches : StartWrite(ops)
         \/ \E c \in Ids : UnlinkSegment(c) \/ UnlinkHint(c)
         \/ CompactSnapshot \/ CompactCreate \/ CompactCreateFail
         \/ \E c \in Ids : ScanEntry(c) \/ ScanNext(c)
         \/ CompactFail \/ RetireOnly \/ CleanupSegment \/ CleanupHint
         \/ AppendRecord
  PROVE  SyncInv'
  <1>0. TypeOK /\ ControlInv /\ OwnershipInv /\ IdAssumption
    BY IdAssumption DEF DirInv, CoreInv
  <1>u. newSeg # NoSeg /\ cpc \in {"scan", "submitted", "cleanup"} =>
          newSeg \notin manifest.segs /\ newSeg \notin disk.manifest.segs
    <2>1. cpc \in {"scan", "submitted", "cleanup"} => ~Publishing /\ ~Unlinking
      BY <1>0 DEF ControlInv
    <2>2. QED
      BY <2>1, UpFacts DEF SyncInv, NamesStable
  <1>n. /\ manifest.segs \cup disk.manifest.segs \subseteq segFiles /\ segFiles \subseteq Ids
        /\ file \in [Ids -> Seq(Entry)]
    BY UpFacts DEF SyncInv, NamesStable
  <1>1. CASE RotateFail \/ AppendFail
    BY <1>1, QuietControl DEF RotateFail, AppendFail, FailWrite
  <1>2. CASE RotateAbort
    <2>1. next \notin manifest.segs /\ next \notin disk.manifest.segs
      <3>1. wpc = "rotateManifest" /\ ~writesDisabled
        BY <1>0, <1>2 DEF RotateAbort, ControlInv
      <3>2. manifest = [segs |-> segments, active |-> active] /\ next \notin segments
        BY <3>1, UpFacts DEF Publishing
      <3>3. QED
        BY <3>1, <3>2 DEF SyncInv, NamesStable
    <2>2. RemoveSegment(next) /\ UNCHANGED <<manifest, active, cpc, newSeg>>
          /\ wpc = "rotateManifest" /\ wpc' = "idle"
      BY <1>2 DEF RotateAbort, FailWrite
    <2>3. cpc = "submitted" => newSeg = NoSeg \/ newSeg # next
      BY <1>0, <2>2 DEF OwnershipInv, ControlInv
    <2>4. QED
      BY <2>1, <2>2, <2>3, QuietRemove DEF Unlinking
  <1>3. CASE ApplyKeydir \/ CommitFail
    BY <1>3, QuietControl DEF ApplyKeydir, CommitFail
  <1>4. ASSUME NEW ops \in Batches, StartWrite(ops)
        PROVE  SyncInv'
    BY <1>4, QuietControl DEF StartWrite
  <1>5. ASSUME NEW c \in Ids, UnlinkSegment(c)
        PROVE  SyncInv'
    <2>1. c \in candidates /\ Unlinking /\ wpc = "unlink" /\ wpc' = "unlinkHint"
      BY <1>5 DEF UnlinkSegment, Lowest, Unlinking
    <2>2. c \notin segments /\ c \notin manifest.segs /\ manifest = disk.manifest
      <3>1. ~writesDisabled /\ ~Publishing
        BY <1>0, <2>1 DEF ControlInv, Publishing
      <3>2. manifest = [segs |-> segments, active |-> active] /\ candidates \cap segments = {}
        BY <1>0, <2>1, <3>1, UpFacts DEF OwnershipInv
      <3>3. QED
        BY <2>1, <3>2 DEF SyncInv, ManifestStable
    <2>3. cpc = "committing"
      BY <1>0, <2>1 DEF ControlInv
    <2>4. RemoveSegment(c) /\ UNCHANGED <<manifest, active, cpc, newSeg>>
      BY <1>5 DEF UnlinkSegment
    <2>5. QED
      BY <2>1, <2>2, <2>3, <2>4, QuietRemove DEF Unlinking
  <1>6. ASSUME NEW c \in Ids, UnlinkHint(c)
        PROVE  SyncInv'
    <2>1. Unlinking /\ wpc = "unlinkHint" /\ wpc' \in {"idle", "unlink"}
          /\ UNCHANGED <<manifest, active, file, segFiles>> /\ cpc' \in {cpc, "idle"}
      BY <1>6 DEF UnlinkHint, ResetCompactor, Unlinking
    <2>2. cpc = "committing"
      BY <1>0, <2>1 DEF ControlInv
    <2>3. /\ disk'.manifest = disk.manifest /\ disk'.segFiles = disk.segFiles
          /\ \A i \in Ids : disk'.file[i] = disk.file[i]
      BY <2>1, FsyncFacts
    <2>4. ~syncing
      BY <2>1 DEF SyncInv, ManifestStable, InOpenWindow
    <2>5. Quiet
      BY <1>n, <2>1, <2>2, <2>3, <2>4 DEF Quiet
    <2>6. QED
      BY <2>5, QuietStep
  <1>7. CASE CompactSnapshot \/ CompactCreateFail \/ CleanupHint
    BY <1>7, QuietControl DEF CompactSnapshot, CompactCreateFail, CleanupHint, ResetCompactor
  <1>8. CASE CompactCreate
    <2>1. /\ CreateSegment(nextID) /\ nextID \in Ids /\ nextID \notin segFiles
          /\ newSeg' = nextID /\ cpc' = "scan" /\ UNCHANGED <<manifest, active, wpc, next>>
      BY <1>8 DEF CompactCreate, CreateSegment
    <2>2. /\ disk'.manifest = disk.manifest /\ disk'.segFiles = disk.segFiles
          /\ \A i \in segFiles : disk'.file[i] = disk.file[i]
      BY <1>n, <2>1, FsyncFacts
    <2>3. \A i \in segFiles : i \in segFiles' /\ file'[i] = file[i]
      BY <1>n, <2>1 DEF CreateSegment
    <2>4. active \in segFiles
      BY UpFacts
    <2>5. Quiet
      BY <1>n, <2>1, <2>2, <2>3, <2>4 DEF Quiet, Unlinking
    <2>6. QED
      BY <2>5, QuietStep
  <1>9. ASSUME NEW c \in Ids, ScanEntry(c)
        PROVE  SyncInv'
    <2>1. /\ cpc = "scan" /\ UNCHANGED <<segFiles, manifest, active, wpc, next, cpc, newSeg>>
          /\ \A i \in Ids \ {newSeg} : file'[i] = file[i]
      BY <1>n, <1>9 DEF ScanEntry
    <2>2. newSeg # NoSeg /\ newSeg # active
      BY <1>0, <2>1 DEF ControlInv, OwnershipInv
    <2>3. /\ disk'.manifest = disk.manifest /\ disk'.segFiles = disk.segFiles
          /\ \A i \in Ids : disk'.file[i] = disk.file[i]
      BY <2>1, FsyncFacts
    <2>4. active \in segFiles
      BY UpFacts
    <2>5. Quiet
      BY <1>n, <1>u, <2>1, <2>2, <2>3, <2>4 DEF Quiet, Unlinking
    <2>6. QED
      BY <2>5, QuietStep
  <1>10. ASSUME NEW c \in Ids, ScanNext(c)
        PROVE  SyncInv'
    BY <1>10, QuietControl DEF ScanNext
  <1>11. CASE CompactFail
    <2>1. cpc = "scan" /\ newSeg # NoSeg /\ RemoveSegment(newSeg) /\ cpc' = "idle"
          /\ UNCHANGED <<manifest, active, wpc, next>>
      BY <1>0, <1>11 DEF CompactFail, ResetCompactor, ControlInv
    <2>2. newSeg # active
      BY <1>0, <2>1 DEF OwnershipInv
    <2>3. QED
      BY <1>u, <2>1, <2>2, QuietRemove DEF Unlinking
  <1>12. CASE RetireOnly
    <2>1. cpc = "scan" /\ newSeg # NoSeg /\ RemoveSegment(newSeg) /\ newSeg' = NoSeg
          /\ cpc' = "submitted" /\ UNCHANGED <<manifest, active, wpc, next>>
      BY <1>0, <1>12 DEF RetireOnly, ControlInv
    <2>2. newSeg # active
      BY <1>0, <2>1 DEF OwnershipInv
    <2>3. QED
      BY <1>u, <2>1, <2>2, QuietRemove DEF Unlinking
  <1>13. CASE CleanupSegment
    <2>1. CASE newSeg = NoSeg
      BY <1>13, <2>1, QuietControl DEF CleanupSegment, ResetCompactor
    <2>2. CASE newSeg # NoSeg
      <3>1. cpc = "cleanup" /\ RemoveSegment(newSeg) /\ newSeg' = newSeg
            /\ cpc' = "cleanupHint" /\ UNCHANGED <<manifest, active, wpc, next>>
        BY <1>13, <2>2 DEF CleanupSegment
      <3>2. newSeg # active
        BY <1>0, <2>2 DEF OwnershipInv
      <3>3. QED
        BY <1>u, <2>2, <3>1, <3>2, QuietRemove DEF Unlinking
    <2>3. QED
      BY <2>1, <2>2
  <1>14. CASE AppendRecord
    <2>1. /\ wpc = "append" /\ wpc' = "keydir"
          /\ UNCHANGED <<segFiles, manifest, active, next, cpc, newSeg>>
          /\ \A i \in Ids \ {active} : file'[i] = file[i]
      BY <1>n, <1>14 DEF AppendRecord
    <2>2. manifest.active = active
      BY <1>0, <2>1, UpFacts DEF ControlInv, Publishing
    <2>3. newSeg # NoSeg => newSeg # active /\ newSeg \in Ids
      BY <1>0 DEF OwnershipInv, TypeOK
    <2>4. /\ disk'.manifest = disk.manifest /\ disk'.segFiles = disk.segFiles
          /\ \A i \in Ids : disk'.file[i] = disk.file[i]
      BY <2>1, FsyncFacts
    <2>5. ~syncing
      BY <2>1 DEF SyncInv, ManifestStable, InOpenWindow
    <2>6. Quiet
      BY <1>n, <1>u, <2>1, <2>2, <2>3, <2>4, <2>5 DEF Quiet, Unlinking
    <2>7. QED
      BY <2>6, QuietStep
  <1>15. QED
    BY <1>1, <1>2, <1>3, <1>4, <1>5, <1>6, <1>7, <1>8, <1>9, <1>10, <1>11, <1>12,
       <1>13, <1>14

\* rotateActive fsyncs the segment it seals.
LEMMA SealStep ==
  ASSUME DirInv, SyncInv, DTypeOK, Seal
  PROVE  SyncInv'
  <1>0. /\ mode = "up" /\ mode' = "up" /\ wpc = "rotate" /\ wpc' = "rotateManifest"
        /\ CreateSegment(nextID) /\ nextID \in Ids /\ next' = nextID /\ Fsync({active})
        /\ UNCHANGED <<manifest, active, syncing, cpc, newSeg>>
    BY DEF Seal, RotateCreate
  <1>1. /\ manifest.segs \cup disk.manifest.segs \subseteq segFiles /\ segFiles \subseteq Ids
        /\ file \in [Ids -> Seq(Entry)] /\ active \in segFiles /\ nextID \notin segFiles
        /\ manifest # NoManifest
    BY <1>0, UpFacts DEF SyncInv, NamesStable, CreateSegment
  <1>2. /\ disk'.manifest = disk.manifest /\ disk'.segFiles = disk.segFiles
        /\ \A i \in segFiles \ {active} : disk'.file[i] = disk.file[i]
        /\ disk'.file[active] = file'[active] /\ disk'.file[nextID] = <<>>
    <2>1. nextID \in segFiles' \ segFiles /\ nextID # active
      BY <1>0, <1>1 DEF CreateSegment
    <2>2. QED
      BY <1>0, <1>1, <2>1, FsyncFacts
  <1>3. \A i \in segFiles : i \in segFiles' /\ file'[i] = file[i]
    BY <1>0, <1>1 DEF CreateSegment
  <1>4. ~syncing /\ manifest.active = active /\ disk.manifest.active = active
    <2>1. manifest.active = active
      BY <1>0, UpFacts DEF DirInv, CoreInv, ControlInv
    <2>2. QED
      BY <1>0, <2>1 DEF SyncInv, ManifestStable, InOpenWindow
  <1>5. ManifestStable'
    BY <1>0, <1>1, <1>2, <1>4 DEF SyncInv, ManifestStable, InOpenWindow, Unlinking, NoManifest
  <1>6. NamesStable'
    BY <1>0, <1>1, <1>2, <1>3 DEF SyncInv, NamesStable, InOpenWindow
  <1>7. ContentsStable'
    <2>1. newSeg # NoSeg /\ cpc = "submitted" => newSeg \in segFiles /\ newSeg # active
      BY <1>0 DEF DirInv, CoreInv, OwnershipInv
    <2>2. QED
      BY <1>0, <1>1, <1>2, <1>3, <1>4, <2>1 DEF SyncInv, ContentsStable
  <1>8. QED
    BY <1>0, <1>5, <1>6, <1>7 DEF SyncInv, RoomInv

\* syncDir, with the files as they are.
LEMMA DirSynced ==
  ASSUME SyncInv, segFiles \subseteq Ids, FsyncDir({}, manifest), UNCHANGED <<file, segFiles>>
  PROVE  /\ disk'.manifest = manifest /\ disk'.segFiles = segFiles
         /\ disk'.hintFiles = hintFiles'
         /\ \A i \in segFiles : disk'.file[i] = disk.file[i]
         /\ \A i \in Ids \ segFiles : disk'.file[i] = <<>>
  BY FsyncDirFacts

\* rotateActive renames the manifest: the segment it seals and the new one
\* are stable, in contents and in name.
LEMMA RotateRenameStep ==
  ASSUME DirInv, SyncInv, DTypeOK, RotateRename \/ RotateUnconfirmed
  PROVE  SyncInv'
  <1>0. /\ mode = "up" /\ mode' = "up" /\ wpc = "rotateManifest"
        /\ FsyncDir({}, manifest)
        /\ manifest' = [segs |-> segments \cup {next}, active |-> next]
        /\ UNCHANGED <<file, segFiles, active, cpc, newSeg>>
        /\ \/ wpc' = "rotatePublish" /\ syncing' = TRUE
           \/ wpc' = "idle" /\ syncing' = syncing
    BY DEF RotateRename, RotateUnconfirmed, RotateManifest, RotateUncertain, WriteManifest, FailWrite
  <1>1. /\ segFiles \subseteq Ids /\ segments \subseteq segFiles /\ active \in segments
        /\ manifest = [segs |-> segments, active |-> active]
        /\ next \in segFiles \ segments /\ file[next] = <<>>
    BY <1>0, UpFacts DEF DirInv, CoreInv, ControlInv, Publishing
  <1>2. /\ disk'.manifest = manifest /\ disk'.segFiles = segFiles
        /\ \A i \in segFiles : disk'.file[i] = disk.file[i]
    BY <1>0, <1>1, DirSynced
  <1>3. ~syncing
    BY <1>0 DEF SyncInv, ManifestStable, InOpenWindow
  <1>4. ManifestStable'
    BY <1>0, <1>1, <1>2, <1>3, IdFacts DEF ManifestStable, InOpenWindow, Unlinking, NoManifest
  <1>5. NamesStable'
    <2>1. newSeg # NoSeg /\ cpc \in {"scan", "submitted", "cleanup"} => newSeg \notin segments
      BY <1>0 DEF DirInv, CoreInv, OwnershipInv, Unlinking
    <2>2. QED
      BY <1>0, <1>1, <1>2, <2>1 DEF NamesStable, InOpenWindow
  <1>6. ContentsStable'
    <2>1. newSeg # NoSeg /\ cpc = "submitted" => newSeg \in segFiles
      BY <1>0 DEF DirInv, CoreInv, OwnershipInv
    <2>2. disk.file[active] = file[active] /\ disk.file[next] = <<>>
      BY <1>0 DEF SyncInv, ContentsStable
    <2>3. \A i \in segments : disk.file[i] = file[i]
      BY <1>1, <2>2 DEF SyncInv, ContentsStable
    <2>4. newSeg # NoSeg /\ cpc = "submitted" => disk.file[newSeg] = file[newSeg]
      BY <1>0 DEF SyncInv, ContentsStable
    <2>5. QED
      BY <1>0, <1>1, <1>2, <2>1, <2>2, <2>3, <2>4 DEF ContentsStable
  <1>7. QED
    BY <1>0, <1>4, <1>5, <1>6 DEF SyncInv, RoomInv

\* What the manifest publishes the engine takes on, once it is stable.
LEMMA PublishStep ==
  ASSUME DirInv, SyncInv, DTypeOK, mode = "up", UNCHANGED recVars, Fsync({}),
         ~syncing, UNCHANGED syncing, RotatePublish \/ CommitPublish
  PROVE  SyncInv'
  <1>0. UNCHANGED <<file, segFiles, manifest>>
    BY DEF RotatePublish, CommitPublish
  <1>1. /\ disk'.manifest = disk.manifest /\ disk'.segFiles = disk.segFiles
        /\ disk'.hintFiles = disk.hintFiles
        /\ \A i \in Ids : disk'.file[i] = disk.file[i]
    BY <1>0, FsyncFacts
  <1>2. /\ manifest.segs \cup disk.manifest.segs \subseteq segFiles /\ segFiles \subseteq Ids
        /\ manifest # NoManifest /\ manifest.active \in manifest.segs
    BY UpFacts DEF SyncInv, NamesStable
  <1>3. CASE RotatePublish
    <2>1. /\ wpc = "rotatePublish" /\ wpc' = "append" /\ active' = next
          /\ UNCHANGED <<cpc, newSeg>>
      BY <1>3 DEF RotatePublish
    <2>2. manifest = disk.manifest /\ manifest.active = next
      BY <2>1, UpFacts DEF SyncInv, ManifestStable
    <2>3. ManifestStable'
      BY <1>0, <1>1, <1>2, <2>1, <2>2 DEF SyncInv, ManifestStable, InOpenWindow, Unlinking, NoManifest
    <2>4. NamesStable'
      BY <1>0, <1>1, <1>2, <2>1 DEF SyncInv, NamesStable, InOpenWindow
    <2>5. ContentsStable'
      <3>1. newSeg # NoSeg /\ cpc = "submitted" => newSeg \in Ids
        BY DEF DirInv, CoreInv, TypeOK
      <3>2. QED
        BY <1>0, <1>1, <1>2, <2>1, <2>2, <3>1 DEF SyncInv, ContentsStable
    <2>6. QED
      BY <2>3, <2>4, <2>5 DEF SyncInv, RoomInv
  <1>4. CASE CommitPublish
    <2>1. /\ Publishing /\ active' = active
          /\ \/ wpc = "commitPublish" /\ wpc' = "unlink" /\ cpc' = cpc
             \/ wpc' = "idle" /\ cpc' = "idle"
      BY <1>4 DEF CommitPublish, Publishing, ResetCompactor
    <2>2. cpc = "committing" /\ manifest.active = active
      BY <2>1, UpFacts DEF DirInv, CoreInv, ControlInv
    <2>3. wpc = "commitPublish" => manifest = disk.manifest
      BY DEF SyncInv, ManifestStable
    <2>4. ManifestStable'
      BY <1>0, <1>1, <1>2, <2>1, <2>2, <2>3 DEF SyncInv, ManifestStable, InOpenWindow, NoManifest, Unlinking
    <2>5. NamesStable'
      BY <1>0, <1>1, <1>2, <2>1, <2>2 DEF SyncInv, NamesStable, InOpenWindow
    <2>6. ContentsStable'
      BY <1>0, <1>1, <1>2, <2>1, <2>2 DEF SyncInv, ContentsStable
    <2>7. QED
      BY <2>4, <2>5, <2>6 DEF SyncInv, RoomInv
  <1>5. QED
    BY <1>3, <1>4

\* The merged segment is fsynced and its name synced before it is submitted.
LEMMA MergeStep ==
  ASSUME DirInv, SyncInv, DTypeOK, Merge
  PROVE  SyncInv'
  <1>0. /\ mode = "up" /\ mode' = "up" /\ cpc = "scan" /\ cpc' = "submitted"
        /\ FsyncDir({newSeg}, manifest)
        /\ UNCHANGED <<file, segFiles, manifest, active, wpc, next, newSeg, syncing>>
    BY DEF Merge, WriteHintFile
  <1>1. newSeg # NoSeg /\ newSeg # active /\ ~Publishing /\ ~Unlinking /\ newSeg # next
    <2>1. newSeg # NoSeg /\ ~Publishing /\ ~Unlinking
      BY <1>0 DEF DirInv, CoreInv, ControlInv
    <2>2. QED
      BY <1>0, <2>1 DEF DirInv, CoreInv, OwnershipInv
  <1>2. /\ segFiles \subseteq Ids /\ active \in segFiles
        /\ manifest # NoManifest /\ manifest.active \in manifest.segs
        /\ manifest.segs \subseteq segFiles /\ newSeg \notin manifest.segs
        /\ wpc = "rotateManifest" => next \in segFiles /\ next \notin manifest.segs
    <2>1. /\ segFiles \subseteq Ids /\ active \in segFiles
          /\ manifest # NoManifest /\ manifest.active \in manifest.segs
          /\ manifest.segs \subseteq segFiles /\ newSeg \notin manifest.segs
      BY <1>0, <1>1, UpFacts
    <2>2. wpc = "rotateManifest" =>
            /\ next \in segFiles \ segments
            /\ manifest = [segs |-> segments, active |-> active]
      BY <1>0, <1>1, UpFacts
    <2>3. QED
      BY <2>1, <2>2
  <1>3. /\ disk'.manifest = manifest /\ disk'.segFiles = segFiles
        /\ \A i \in segFiles \ {newSeg} : disk'.file[i] = disk.file[i]
        /\ newSeg \in segFiles /\ disk'.file[newSeg] = file[newSeg]
    <2>1. newSeg \in segFiles
      BY <1>0, <1>1 DEF DirInv, CoreInv, OwnershipInv
    <2>2. QED
      BY <1>0, <1>2, <2>1, FsyncDirFacts
  <1>4. ManifestStable'
    BY <1>0, <1>2, <1>3 DEF SyncInv, ManifestStable, InOpenWindow, NoManifest, Unlinking
  <1>5. NamesStable'
    BY <1>0, <1>2, <1>3 DEF NamesStable, InOpenWindow
  <1>6. ContentsStable'
    <2>1. \A i \in manifest.segs \ {manifest.active} : file[i] = disk.file[i]
      BY DEF SyncInv, ContentsStable
    <2>2. wpc = "rotateManifest" => disk.file[active] = file[active] /\ disk.file[next] = <<>>
      BY <1>0 DEF SyncInv, ContentsStable
    <2>3. manifest.active # active => file[manifest.active] = <<>> /\ disk.file[manifest.active] = <<>>
      BY <1>0 DEF SyncInv, ContentsStable
    <2>4. QED
      BY <1>0, <1>1, <1>2, <1>3, <2>1, <2>2, <2>3 DEF ContentsStable
  <1>7. QED
    BY <1>0, <1>4, <1>5, <1>6 DEF SyncInv, RoomInv

\* handleCompactCommit renames a manifest that names stable segments.
LEMMA CommitRenameStep ==
  ASSUME DirInv, SyncInv, DTypeOK, CommitRename
  PROVE  SyncInv'
  <1>0. /\ mode = "up" /\ mode' = "up" /\ wpc = "idle" /\ cpc = "submitted"
        /\ cpc' = "committing" /\ ~writesDisabled
        /\ IF newSeg = NoSeg THEN Fsync({}) ELSE FsyncDir({}, manifest)
        /\ manifest' = [segs |-> (segments \ candidates) \cup Merged, active |-> active]
        /\ UNCHANGED <<file, segFiles, active>>
        /\ wpc' \in {"commitPublish", "commitPublishKeep"}
        /\ syncing' = (wpc' = "commitPublish")
    BY DEF CommitRename, CommitInBurst, CommitManifest, WriteManifest
  <1>1. /\ segFiles \subseteq Ids /\ segments \subseteq segFiles /\ active \in segments
        /\ manifest = [segs |-> segments, active |-> active]
    BY <1>0, UpFacts DEF Publishing
  <1>2. /\ disk.manifest # NoManifest /\ disk.manifest.active = active
        /\ disk.manifest.active \in disk.manifest.segs
        /\ disk.manifest.segs \subseteq segFiles \cap disk.segFiles
        /\ segments \subseteq disk.segFiles
    BY <1>0, <1>1 DEF SyncInv, ManifestStable, NamesStable, InOpenWindow
  <1>3. /\ disk'.manifest \in {disk.manifest, manifest}
        /\ \A i \in segFiles : disk'.file[i] = disk.file[i]
        /\ disk.segFiles \cap segFiles \subseteq disk'.segFiles
        /\ newSeg # NoSeg => newSeg \in disk'.segFiles
    <2>1. CASE newSeg = NoSeg
      <3>1. Fsync({}) /\ segFiles' \ segFiles = {}
        BY <1>0, <2>1
      <3>2. QED
        BY <1>1, <2>1, <3>1, FsyncFacts
    <2>2. CASE newSeg # NoSeg
      <3>1. newSeg \in segFiles
        BY <1>0, <2>2 DEF DirInv, CoreInv, OwnershipInv
      <3>2. FsyncDir({}, manifest)
        BY <1>0, <2>2
      <3>3. QED
        BY <1>0, <1>1, <2>2, <3>1, <3>2, DirSynced
    <2>3. QED
      BY <2>1, <2>2
  <1>4. manifest.active \in manifest.segs /\ manifest # NoManifest
        /\ manifest' # NoManifest
    BY <1>0, <1>1, IdFacts DEF NoManifest
  <1>5. ManifestStable'
    <2>1. wpc' = "commitPublish" <=> syncing'
      BY <1>0
    <2>2. disk'.manifest # NoManifest /\ disk'.manifest.active = active
          /\ disk'.manifest.active \in disk'.manifest.segs
      BY <1>1, <1>2, <1>3, <1>4
    <2>3. QED
      BY <1>0, <1>4, <2>1, <2>2 DEF ManifestStable, InOpenWindow, Unlinking, NoManifest
  <1>6. NamesStable'
    BY <1>0, <1>1, <1>2, <1>3 DEF NamesStable, InOpenWindow, Merged
  <1>7. ContentsStable'
    <2>1. \A i \in segments \cup disk.manifest.segs : i # active => file[i] = disk.file[i]
      BY <1>1 DEF SyncInv, ContentsStable
    <2>2. newSeg # NoSeg => file[newSeg] = disk.file[newSeg] /\ newSeg \in segFiles
      BY <1>0 DEF SyncInv, ContentsStable, DirInv, CoreInv, OwnershipInv
    <2>3. disk'.manifest.active = active /\ disk'.manifest.segs \subseteq segments \cup disk.manifest.segs
      BY <1>1, <1>2, <1>3
    <2>4. QED
      BY <1>0, <1>1, <1>2, <1>3, <2>1, <2>2, <2>3 DEF ContentsStable, Merged
  <1>8. QED
    BY <1>0, <1>5, <1>6, <1>7 DEF SyncInv, RoomInv

\* The fsync that ends a burst.
LEMMA SyncBurstStep ==
  ASSUME DirInv, SyncInv, DTypeOK, SyncBurst
  PROVE  SyncInv'
  <1>0. /\ mode = "up" /\ mode' = mode /\ wpc = "idle"
        /\ Fsync({active}) \/ UNCHANGED disk
        /\ UNCHANGED vars /\ UNCHANGED syncing
    BY DEF SyncBurst, allVars
  <1>1. UNCHANGED <<file, segFiles, manifest, active, wpc, next, cpc, newSeg>>
    BY <1>0 DEF vars
  <1>2. /\ manifest.segs \cup disk.manifest.segs \subseteq segFiles /\ segFiles \subseteq Ids
        /\ active \in segFiles /\ manifest # NoManifest
    BY <1>0, UpFacts DEF SyncInv, NamesStable
  <1>3. /\ disk'.manifest = disk.manifest /\ disk'.segFiles = disk.segFiles
        /\ \A i \in Ids : i # active => disk'.file[i] = disk.file[i]
        /\ disk'.file[active] \in {disk.file[active], file[active]}
    <2>1. CASE UNCHANGED disk
      BY <2>1
    <2>2. CASE Fsync({active})
      <3>1. segFiles' \ segFiles = {}
        BY <1>1
      <3>2. QED
        BY <1>1, <1>2, <2>2, <3>1, FsyncFacts
    <2>3. QED
      BY <1>0, <2>1, <2>2
  <1>4. ManifestStable'
    BY <1>0, <1>1, <1>2, <1>3 DEF SyncInv, ManifestStable, InOpenWindow, NoManifest, Unlinking
  <1>5. NamesStable'
    BY <1>0, <1>1, <1>3 DEF SyncInv, NamesStable, InOpenWindow
  <1>6. ContentsStable'
    <2>1. newSeg # NoSeg => newSeg \in Ids /\ newSeg # active
      BY <1>0 DEF DirInv, CoreInv, TypeOK, OwnershipInv
    <2>2. manifest.active # active => file[active] = disk.file[active]
      BY <1>0, UpFacts DEF SyncInv, ContentsStable
    <2>3. manifest.active = active => disk.manifest.active = active
      BY <1>0 DEF SyncInv, ManifestStable
    <2>4. manifest.active \in Ids
      BY <1>0, UpFacts
    <2>5. QED
      BY <1>0, <1>1, <1>2, <1>3, <2>1, <2>2, <2>3, <2>4 DEF SyncInv, ContentsStable
  <1>7. QED
    BY <1>0, <1>4, <1>5, <1>6 DEF SyncInv, RoomInv

\* The directory sync of writeManifest returns.
LEMMA ManifestSyncedStep ==
  ASSUME DirInv, SyncInv, DTypeOK, ManifestSynced
  PROVE  SyncInv'
  <1>0. /\ syncing /\ syncing' = FALSE /\ FsyncDir({}, manifest)
        /\ UNCHANGED <<mode, file, segFiles, manifest, active, wpc, next, cpc, newSeg>>
    BY DEF ManifestSynced, allVars, vars
  <1>1. \/ mode = "up" /\ wpc \in {"rotatePublish", "commitPublish"}
        \/ mode = "sweep"
    BY <1>0 DEF SyncInv, ManifestStable, InOpenWindow
  <1>2. /\ segFiles \subseteq Ids /\ manifest # NoManifest
        /\ manifest.active \in manifest.segs /\ manifest.segs \subseteq segFiles
    <2>1. CASE mode = "up"
      BY <2>1, UpFacts
    <2>2. CASE mode = "sweep"
      <3>1. segFiles \subseteq Ids /\ segments \subseteq segFiles /\ active \in segments
            /\ manifest = [segs |-> segments, active |-> active]
        BY <2>2 DEF DirInv, RTypeOK, OpenInv, Opening
      <3>2. QED
        BY <3>1, IdFacts DEF NoManifest
    <2>3. QED
      BY <1>1, <2>1, <2>2
  <1>3. /\ disk'.manifest = manifest /\ disk'.segFiles = segFiles
        /\ \A i \in segFiles : disk'.file[i] = disk.file[i]
    BY <1>0, <1>2, DirSynced
  <1>4. ManifestStable'
    BY <1>0, <1>1, <1>2, <1>3 DEF ManifestStable, InOpenWindow, NoManifest, Unlinking
  <1>5. NamesStable'
    <2>1. mode = "up" /\ newSeg # NoSeg /\ cpc \in {"scan", "submitted", "cleanup"} =>
            newSeg \notin manifest.segs
      <3>1. mode = "up" /\ cpc \in {"scan", "submitted", "cleanup"} => ~Publishing /\ ~Unlinking
        BY DEF DirInv, CoreInv, ControlInv
      <3>2. QED
        BY <3>1, UpFacts
    <2>2. QED
      BY <1>0, <1>1, <1>2, <1>3, <2>1 DEF NamesStable, InOpenWindow
  <1>6. ContentsStable'
    <2>1. mode = "up" /\ newSeg # NoSeg /\ cpc = "submitted" => newSeg \in segFiles
      BY DEF DirInv, CoreInv, OwnershipInv
    <2>2. QED
      BY <1>0, <1>1, <1>2, <1>3, <2>1 DEF SyncInv, ContentsStable
  <1>7. RoomInv'
    BY <1>0, <1>1, <1>2, <1>3 DEF SyncInv, RoomInv
  <1>8. QED
    BY <1>4, <1>5, <1>6, <1>7 DEF SyncInv

----------------------------------------------------------------------------
(* Open.                                                                   *)

\* Outside the engine and the window of Open, the manifest is stable, and the
\* files it names are there.
LEMMA DownFacts ==
  ASSUME DirInv, SyncInv, mode # "up", ~InOpenWindow
  PROVE  /\ manifest = disk.manifest /\ ~syncing
         /\ manifest.segs \subseteq segFiles /\ manifest.segs \subseteq disk.segFiles
         /\ segFiles \subseteq Ids /\ file \in [Ids -> Seq(Entry)]
         /\ manifest = NoManifest => \A i \in Ids : file[i] = <<>> /\ disk.file[i] = <<>>
         /\ manifest # NoManifest => manifest.active \in manifest.segs
         /\ manifest.active # NoSeg => manifest.active \in manifest.segs
  <1>1. manifest = disk.manifest /\ ~syncing
    BY DEF DirInv, RTypeOK, SyncInv, ManifestStable
  <1>2. /\ segFiles \subseteq Ids /\ file \in [Ids -> Seq(Entry)]
        /\ manifest = NoManifest => \A i \in Ids : file[i] = <<>> /\ disk.file[i] = <<>>
        /\ manifest # NoManifest => manifest.active \in manifest.segs
    BY DEF DirInv, RTypeOK, DiskInv, SyncInv, ManifestStable
  <1>3. manifest.segs \subseteq segFiles /\ manifest.segs \subseteq disk.segFiles
    BY <1>1 DEF SyncInv, NamesStable
  <1>4. manifest.active # NoSeg => manifest # NoManifest
    BY DEF NoManifest
  <1>5. QED
    BY <1>1, <1>2, <1>3, <1>4

\* What a step of Open leaves alone.
LEMMA OpenStep ==
  ASSUME DirInv, SyncInv, DTypeOK, mode # "up", mode' # "up", ~InOpenWindow, Fsync({}),
         UNCHANGED <<manifest, syncing>>,
         \A i \in manifest.segs : i \in segFiles' /\ file'[i] = file[i],
         mode' \in {"fresh", "manifest"} =>
           /\ segments' \subseteq LiveOnDisk' \cup {active'}
           /\ manifest # NoManifest => disk.file[manifest.active] = file[manifest.active],
         mode' = "manifest" => file'[active'] = <<>> /\ disk'.file[active'] = <<>>
  PROVE  SyncInv'
  <1>1. /\ manifest = disk.manifest /\ ~syncing
        /\ manifest.segs \subseteq segFiles /\ manifest.segs \subseteq disk.segFiles
        /\ segFiles \subseteq Ids
        /\ manifest = NoManifest => \A i \in Ids : disk.file[i] = <<>>
        /\ manifest # NoManifest => manifest.active \in manifest.segs
        /\ manifest.active # NoSeg => manifest.active \in manifest.segs
    BY DownFacts
  <1>2. /\ disk'.manifest = disk.manifest /\ disk'.segFiles = disk.segFiles
        /\ disk'.hintFiles = disk.hintFiles
        /\ \A i \in segFiles : disk'.file[i] = disk.file[i]
        /\ manifest = NoManifest => \A i \in Ids : disk'.file[i] = <<>>
    BY <1>1, FsyncFacts
  <1>3. ManifestStable'
    BY <1>1, <1>2 DEF SyncInv, ManifestStable, InOpenWindow, NoManifest
  <1>4. NamesStable'
    BY <1>1, <1>2 DEF NamesStable
  <1>5. ContentsStable'
    BY <1>1, <1>2 DEF SyncInv, ContentsStable
  <1>6. RoomInv'
    <2>1. /\ manifest.active # NoSeg =>
               \/ Len(file'[manifest.active]) < MaxSegmentSize
               \/ disk'.file[manifest.active] = file'[manifest.active]
          /\ mode' \in {"fresh", "manifest"} /\ manifest # NoManifest =>
               disk'.file[manifest.active] = file'[manifest.active]
      BY <1>1, <1>2 DEF SyncInv, RoomInv
    <2>2. QED
      BY <2>1 DEF RoomInv, NoManifest
  <1>7. QED
    BY <1>3, <1>4, <1>5, <1>6 DEF SyncInv

\* recover: an active segment that is full is stable.
LEMMA RebuildStep ==
  ASSUME DirInv, SyncInv, DTypeOK, Rebuild
  PROVE  SyncInv'
  <1>0. /\ mode = "down" /\ Fsync({}) /\ segments' = LiveOnDisk
        /\ UNCHANGED <<file, segFiles, manifest, syncing>>
        /\ \/ /\ ActiveOnDisk # NoSeg /\ active' = ActiveOnDisk
              /\ mode' = IF manifest = NoManifest THEN "manifest" ELSE "sweep"
           \/ /\ ActiveOnDisk = NoSeg \/ ~(Len(file[ActiveOnDisk]) < MaxSegmentSize)
              /\ mode' = "fresh"
    BY DEF Rebuild, OpenRecover
  <1>1. ~InOpenWindow /\ LiveOnDisk' = LiveOnDisk
    BY <1>0 DEF InOpenWindow, LiveOnDisk, NoManifest
  <1>2. /\ manifest.segs \subseteq segFiles
        /\ manifest = NoManifest => \A i \in Ids : file[i] = <<>> /\ disk.file[i] = <<>>
        /\ manifest # NoManifest => manifest.active \in manifest.segs
        /\ segFiles \subseteq Ids
    BY <1>0, <1>1, DownFacts
  <1>3. mode' = "fresh" /\ manifest # NoManifest => disk.file[manifest.active] = file[manifest.active]
    <2>1. manifest # NoManifest => ActiveOnDisk = manifest.active /\ manifest.active # NoSeg
      BY <1>2, IdFacts DEF ActiveOnDisk
    <2>2. QED
      BY <1>0, <2>1 DEF SyncInv, RoomInv
  <1>4. mode' = "manifest" => manifest = NoManifest
    BY <1>0
  <1>5. mode' = "manifest" => file'[active'] = <<>> /\ disk'.file[active'] = <<>>
    <2>1. ActiveOnDisk # NoSeg => ActiveOnDisk \in Ids
      BY LiveFacts DEF DirInv
    <2>2. mode' = "manifest" => active' \in Ids
      BY <1>0, <2>1
    <2>3. \A i \in Ids : disk'.file[i] = disk.file[i]
      BY <1>0, FsyncFacts
    <2>4. QED
      BY <1>0, <1>2, <1>4, <2>2, <2>3
  <1>6. mode' # "up" /\ mode # "up"
    BY <1>0
  <1>7. QED
    BY <1>0, <1>1, <1>2, <1>3, <1>4, <1>5, <1>6, OpenStep

\* A fresh active segment.
LEMMA FreshStep ==
  ASSUME DirInv, SyncInv, DTypeOK, OpenFresh, Fsync({}), UNCHANGED syncing
  PROVE  SyncInv'
  <1>0. /\ mode = "fresh" /\ mode' = "manifest" /\ nextID \in Ids /\ CreateSegment(nextID)
        /\ segments' = segments \cup {nextID} /\ active' = nextID /\ UNCHANGED manifest
    BY DEF OpenFresh
  <1>1. ~InOpenWindow
    BY <1>0 DEF InOpenWindow
  <1>2. manifest.segs \subseteq segFiles /\ segFiles \subseteq Ids /\ file \in [Ids -> Seq(Entry)]
    BY <1>0, <1>1, DownFacts
  <1>3. nextID \notin segFiles /\ file' = [file EXCEPT ![nextID] = <<>>]
        /\ segFiles' = segFiles \cup {nextID}
    BY <1>0 DEF CreateSegment
  <1>4. \A i \in manifest.segs : i \in segFiles' /\ file'[i] = file[i]
    BY <1>2, <1>3
  <1>5. file'[nextID] = <<>> /\ disk'.file[nextID] = <<>>
    BY <1>0, <1>2, <1>3, FsyncFacts
  <1>6. active = NoSeg /\ segments \subseteq Ids
    BY <1>0, <1>2 DEF DirInv, OpenInv, Opening
  <1>7. LiveOnDisk \subseteq LiveOnDisk'
    BY <1>0, <1>3 DEF LiveOnDisk, NoManifest
  <1>8. segments' \subseteq LiveOnDisk' \cup {active'}
    <2>1. segments \subseteq LiveOnDisk \cup {NoSeg}
      BY <1>0, <1>6 DEF SyncInv, RoomInv
    <2>2. QED
      BY <1>0, <1>6, <1>7, <2>1, IdFacts
  <1>9. manifest # NoManifest => disk.file[manifest.active] = file[manifest.active]
    BY <1>0 DEF SyncInv, RoomInv
  <1>10. QED
    BY <1>0, <1>1, <1>4, <1>5, <1>8, <1>9, OpenStep

\* Open renames its manifest: what it names is empty or stable.
LEMMA OpenRenameStep ==
  ASSUME DirInv, SyncInv, DTypeOK, OpenRename
  PROVE  SyncInv'
  <1>0. /\ mode = "manifest" /\ mode' = "sweep" /\ syncing' = TRUE /\ Fsync({})
        /\ manifest' = [segs |-> segments, active |-> active]
        /\ UNCHANGED <<file, segFiles>>
    BY DEF OpenRename, OpenManifest, WriteManifest
  <1>1. ~InOpenWindow
    BY <1>0 DEF InOpenWindow
  <1>2. /\ manifest = disk.manifest
        /\ manifest.segs \subseteq segFiles /\ manifest.segs \subseteq disk.segFiles
        /\ segFiles \subseteq Ids
        /\ manifest = NoManifest => \A i \in Ids : file[i] = <<>> /\ disk.file[i] = <<>>
        /\ manifest # NoManifest => manifest.active \in manifest.segs
    BY <1>0, <1>1, DownFacts
  <1>3. /\ disk'.manifest = disk.manifest /\ disk'.segFiles = disk.segFiles
        /\ \A i \in Ids : disk'.file[i] = disk.file[i]
    BY <1>0, FsyncFacts
  <1>4. segments \subseteq segFiles /\ active \in segments
    BY <1>0 DEF DirInv, OpenInv, Opening
  <1>5. /\ segments \subseteq LiveOnDisk \cup {active}
        /\ manifest # NoManifest => disk.file[manifest.active] = file[manifest.active]
        /\ file[active] = <<>> /\ disk.file[active] = <<>>
    BY <1>0 DEF SyncInv, RoomInv
  <1>6. ManifestStable'
    BY <1>0, <1>2, <1>3, <1>4, IdFacts DEF ManifestStable, InOpenWindow, NoManifest
  <1>7. NamesStable'
    BY <1>0, <1>2, <1>3 DEF NamesStable, InOpenWindow
  <1>8. ContentsStable'
    <2>1. \A i \in segments \cup manifest.segs : file[i] = disk.file[i]
      <3>1. CASE manifest = NoManifest
        BY <1>2, <1>4, <3>1
      <3>2. CASE manifest # NoManifest
        <4>1. \A i \in manifest.segs : file[i] = disk.file[i]
          BY <1>5, <3>2 DEF SyncInv, ContentsStable
        <4>2. QED
          BY <1>5, <3>2, <4>1 DEF LiveOnDisk
      <3>3. QED
        BY <3>1, <3>2
    <2>2. QED
      BY <1>0, <1>2, <1>3, <1>4, <1>5, <2>1 DEF ContentsStable
  <1>9. RoomInv'
    <2>1. Len(file[active]) < MaxSegmentSize
      BY <1>5, PositiveSizeAssumption
    <2>2. QED
      BY <1>0, <2>1 DEF RoomInv
  <1>10. QED
    BY <1>6, <1>7, <1>8, <1>9 DEF SyncInv

\* Open gives up.  Outside the window the manifest is the stable one.
LEMMA OpenRenameFailStep ==
  ASSUME WindowsShut, DirInv, SyncInv, DTypeOK, OpenRenameFail
  PROVE  SyncInv'
  <1>0. /\ mode = "manifest" /\ mode' = "down" /\ manifest' = disk.manifest /\ Fsync({})
        /\ UNCHANGED <<file, segFiles, syncing>>
    BY DEF OpenRenameFail, OpenManifestFail, WindowsShut
  <1>1. ~InOpenWindow
    BY <1>0 DEF InOpenWindow
  <1>2. manifest' = manifest /\ manifest.segs \subseteq segFiles
    BY <1>0, <1>1, DownFacts
  <1>3. QED
    BY <1>0, <1>1, <1>2, OpenStep

\* The sweep spares what the manifest names, and the manifest is stable.
LEMMA SweepStep ==
  ASSUME DirInv, SyncInv, DTypeOK, ~syncing, UNCHANGED syncing, Fsync({}),
         NEW i \in Ids, SweepOne(i)
  PROVE  SyncInv'
  <1>0. /\ mode = "sweep" /\ mode' = "sweep" /\ UNCHANGED manifest /\ i \notin manifest.segs
        /\ \/ UNCHANGED <<file, segFiles>>
           \/ segFiles' = segFiles \ {i} /\ file' = [file EXCEPT ![i] = <<>>]
    BY DEF SweepOne, Orphans
  <1>1. ~InOpenWindow
    BY <1>0 DEF InOpenWindow
  <1>2. manifest.segs \subseteq segFiles /\ segFiles \subseteq Ids /\ file \in [Ids -> Seq(Entry)]
    BY <1>0, <1>1, DownFacts
  <1>3. \A j \in manifest.segs : j \in segFiles' /\ file'[j] = file[j]
    BY <1>0, <1>2
  <1>4. QED
    BY <1>0, <1>1, <1>3, OpenStep

\* The writer starts on a stable manifest.
LEMMA OpenDoneStep ==
  ASSUME DirInv, SyncInv, DTypeOK, ~syncing, UNCHANGED syncing, Fsync({}), OpenDone
  PROVE  SyncInv'
  <1>0. /\ mode = "sweep" /\ mode' = "up"
        /\ UNCHANGED <<file, segFiles, manifest, active, wpc, next, cpc, newSeg>>
    BY DEF OpenDone, vars
  <1>1. ~InOpenWindow
    BY <1>0 DEF InOpenWindow
  <1>2. /\ manifest = disk.manifest
        /\ manifest.segs \subseteq segFiles /\ manifest.segs \subseteq disk.segFiles
        /\ segFiles \subseteq Ids
    BY <1>0, <1>1, DownFacts
  <1>3. /\ disk'.manifest = disk.manifest /\ disk'.segFiles = disk.segFiles
        /\ \A i \in Ids : disk'.file[i] = disk.file[i]
    BY <1>0, FsyncFacts
  <1>4. /\ manifest.active = active /\ active \in manifest.segs
        /\ wpc = "idle" /\ newSeg = NoSeg
    BY <1>0 DEF DirInv, OpenInv, Opening, Stopped
  <1>5. ManifestStable'
    BY <1>0, <1>2, <1>3, <1>4, IdFacts DEF ManifestStable, InOpenWindow, Unlinking, NoManifest
  <1>6. NamesStable'
    BY <1>0, <1>2, <1>3, <1>4 DEF NamesStable
  <1>7. ContentsStable'
    BY <1>0, <1>2, <1>3, <1>4 DEF SyncInv, ContentsStable
  <1>8. QED
    BY <1>0, <1>5, <1>6, <1>7 DEF SyncInv, RoomInv

----------------------------------------------------------------------------
(* The end of the process, and of the power.                               *)

\* The process ends: what is stable stays so.
LEMMA ProcessEndsStep ==
  ASSUME WindowsShut, DirInv, SyncInv, DTypeOK, ProcessEnds
  PROVE  SyncInv'
  <1>0. /\ mode' = "down" /\ manifest = disk.manifest /\ syncing' = FALSE
        /\ UNCHANGED <<file, segFiles, manifest, disk>>
        /\ mode = "up" =>
             Len(file[active]) < MaxSegmentSize \/ disk.file[active] = file[active]
    BY DEF ProcessEnds, Kill, WindowsShut
  <1>1. ManifestStable'
    BY <1>0 DEF SyncInv, ManifestStable, InOpenWindow, NoManifest
  <1>2. NamesStable'
    BY <1>0 DEF SyncInv, NamesStable, InOpenWindow
  <1>3. ContentsStable'
    BY <1>0 DEF SyncInv, ContentsStable
  <1>4. RoomInv'
    <2>1. CASE mode = "up"
      <3>1. manifest.active # active => Len(file[manifest.active]) < MaxSegmentSize
        BY <2>1, PositiveSizeAssumption DEF SyncInv, ContentsStable
      <3>2. QED
        BY <1>0, <2>1, <3>1 DEF RoomInv
    <2>2. CASE mode # "up"
      BY <1>0, <2>2 DEF SyncInv, RoomInv
    <2>3. QED
      BY <2>1, <2>2
  <1>5. QED
    BY <1>1, <1>2, <1>3, <1>4 DEF SyncInv

\* What the power can take: the tail of the one active segment at most.
LEMMA PowerLossFacts ==
  ASSUME WindowsShut, DirInv, SyncInv, DTypeOK, PowerLoss
  PROVE  /\ manifest' \in {manifest, disk.manifest}
         /\ manifest'.segs \subseteq segFiles'
         /\ manifest' # NoManifest => manifest'.active \in manifest'.segs
         /\ torn' \subseteq {manifest'.active}
         /\ manifest' = NoManifest => torn' = {} /\ hintFiles' = {} /\ \A i \in Ids : file'[i] = <<>>
         /\ \A i \in Ids : \/ file'[i] = <<>> \/ file'[i] = disk.file[i]
                           \/ \E n \in 0 .. Len(file[i]) : file'[i] = SubSeq(file[i], 1, n)
         /\ file' = [i \in Ids |-> file'[i]]
         /\ torn' \subseteq Ids
         /\ manifest.segs \cup disk.manifest.segs \subseteq segFiles'
         /\ \A i \in Ids : i # manifest.active =>
              /\ file'[i] = IF i \in segFiles' THEN disk.file[i] ELSE <<>>
              /\ i \in manifest.segs \cup disk.manifest.segs => file[i] = disk.file[i]
         /\ manifest # NoManifest =>
              \E n \in Cuts(manifest.active) :
                 file'[manifest.active] = SubSeq(file[manifest.active], 1, n)
  <1> DEFINE named == (manifest.segs \cup disk.manifest.segs) \cap segFiles \cap segFiles'
             loose == {i \in named : file[i] # disk.file[i] \/ i \in torn}
  <1>1. ~InOpenWindow
    BY DEF PowerLoss, InOpenWindow, WindowsShut
  <1>2. /\ manifest' \in {manifest, disk.manifest}
        /\ segFiles \cap disk.segFiles \subseteq segFiles'
        /\ hintFiles' \subseteq hintFiles \cup disk.hintFiles
    BY DEF PowerLoss
  <1>3. PICK cut \in [loose -> 0 .. Max({Len(file[i]) : i \in Ids})] :
          /\ \A i \in loose : cut[i] \in Cuts(i)
          /\ file' = [i \in Ids |-> IF i \in loose THEN SubSeq(file[i], 1, cut[i])
                                    ELSE IF i \in segFiles' THEN disk.file[i] ELSE <<>>]
          /\ torn' \subseteq loose
    BY DEF PowerLoss
  <1>4. /\ manifest.segs \subseteq segFiles /\ manifest.segs \subseteq disk.segFiles
        /\ disk.manifest.segs \subseteq segFiles \cap disk.segFiles
    <2>1. CASE mode = "up"
      BY <1>1, <2>1, UpFacts DEF SyncInv, NamesStable
    <2>2. CASE mode # "up"
      BY <1>1, <2>2, DownFacts DEF SyncInv, NamesStable
    <2>3. QED
      BY <2>1, <2>2
  <1>5. /\ manifest # NoManifest => manifest.active \in manifest.segs
        /\ disk.manifest # NoManifest => disk.manifest.active \in disk.manifest.segs
        /\ manifest = NoManifest <=> disk.manifest = NoManifest
    <2>1. CASE mode = "up"
      BY <2>1, UpFacts DEF SyncInv, ManifestStable
    <2>2. CASE mode # "up"
      BY <1>1, <2>2, DownFacts
    <2>3. QED
      BY <2>1, <2>2
  <1>6. manifest = NoManifest =>
          /\ manifest = disk.manifest
          /\ hintFiles = {} /\ disk.hintFiles = {} /\ named = {}
          /\ \A i \in Ids : disk.file[i] = <<>>
    BY <1>5 DEF DirInv, DiskInv, SyncInv, ManifestStable, NoManifest
  <1>7. loose \subseteq {manifest.active}
    <2>1. manifest # NoManifest => torn \subseteq {manifest.active}
      BY DEF DirInv, DiskInv
    <2>2. \A i \in named : i # manifest.active => file[i] = disk.file[i]
      BY DEF SyncInv, ContentsStable
    <2>3. QED
      BY <1>6, <2>1, <2>2
  <1>8. manifest.active # disk.manifest.active => loose = {}
    <2> SUFFICES ASSUME manifest.active # disk.manifest.active
                 PROVE  loose = {}
      OBVIOUS
    <2>1. mode = "up"
      BY <1>1, DownFacts
    <2>2. manifest.active # active
      BY <2>1 DEF SyncInv, ManifestStable
    <2>3. torn = {}
      BY <2>1, <2>2, UpFacts
    <2>4. file[manifest.active] = disk.file[manifest.active]
      BY <2>1, <2>2 DEF SyncInv, ContentsStable
    <2>5. QED
      BY <1>7, <2>3, <2>4
  <1>9. torn' \subseteq {manifest'.active}
    BY <1>2, <1>3, <1>7, <1>8
  <1>10. ASSUME manifest' = NoManifest
         PROVE  torn' = {} /\ hintFiles' = {} /\ \A i \in Ids : file'[i] = <<>>
    <2>1. manifest = NoManifest
      BY <1>2, <1>5, <1>10
    <2>2. QED
      BY <1>2, <1>3, <1>6, <2>1
  <1>11. ASSUME NEW i \in Ids
         PROVE  \/ file'[i] = <<>> \/ file'[i] = disk.file[i]
                \/ \E n \in 0 .. Len(file[i]) : file'[i] = SubSeq(file[i], 1, n)
    <2>1. CASE i \notin loose
      BY <1>3, <2>1
    <2>2. CASE i \in loose
      <3>1. Len(disk.file[i]) \in Nat
        BY DEF DTypeOK
      <3>2. cut[i] \in Len(disk.file[i]) .. Len(file[i])
        BY <1>3, <2>2 DEF Cuts
      <3>3. cut[i] \in 0 .. Len(file[i])
        BY <3>1, <3>2
      <3>4. QED
        BY <1>3, <2>2, <3>3
    <2>3. QED
      BY <2>1, <2>2
  <1>12. torn' \subseteq Ids
    BY <1>3 DEF DirInv, RTypeOK
  <1>13. file' = [i \in Ids |-> file'[i]]
    BY <1>3
  <1>14. ASSUME NEW i \in Ids, i # manifest.active
         PROVE  /\ file'[i] = IF i \in segFiles' THEN disk.file[i] ELSE <<>>
                /\ i \in manifest.segs \cup disk.manifest.segs => file[i] = disk.file[i]
    <2>1. i \notin loose
      BY <1>7, <1>14
    <2>2. file'[i] = IF i \in segFiles' THEN disk.file[i] ELSE <<>>
      BY <1>3, <2>1
    <2>3. QED
      BY <1>14, <2>2 DEF SyncInv, ContentsStable
  <1>15. ASSUME manifest # NoManifest
         PROVE  \E n \in Cuts(manifest.active) :
                   file'[manifest.active] = SubSeq(file[manifest.active], 1, n)
    <2> DEFINE a == manifest.active
    <2>1. a \in named /\ a \in Ids /\ a \in segFiles'
      BY <1>2, <1>4, <1>5, <1>15 DEF DirInv, RTypeOK
    <2>2. file[a] \in Seq(Entry)
      BY <2>1 DEF DirInv, RTypeOK
    <2>3. CASE a \in loose
      BY <1>3, <2>1, <2>3
    <2>4. CASE a \notin loose
      <3>1. file[a] = disk.file[a]
        BY <2>1, <2>4
      <3>2. file'[a] = disk.file[a]
        BY <1>3, <2>1, <2>4
      <3>3. SubSeq(file[a], 1, Len(file[a])) = file[a] /\ Len(file[a]) \in Nat
        BY <2>2
      <3>4. Len(file[a]) \in Cuts(a)
        BY <3>1, <3>3 DEF Cuts
      <3>5. QED
        BY <3>1, <3>2, <3>3, <3>4
    <2>5. QED
      BY <2>3, <2>4
  <1>16. manifest.segs \cup disk.manifest.segs \subseteq segFiles'
    BY <1>2, <1>4
  <1>17. QED
    BY <1>2, <1>4, <1>5, <1>9, <1>10, <1>11, <1>12, <1>13, <1>14, <1>15, <1>16

\* A prefix of a segment is one.
LEMMA PrefixFacts ==
  ASSUME NEW s \in Seq(Entry), NEW n \in 0 .. Len(s)
  PROVE  /\ SubSeq(s, 1, n) \in Seq(Entry)
         /\ DOMAIN SubSeq(s, 1, n) \subseteq DOMAIN s
         /\ \A p \in DOMAIN SubSeq(s, 1, n) : SubSeq(s, 1, n)[p] = s[p]
  OBVIOUS

\* A power failure leaves a directory that Open can take up.
LEMMA PowerLossDir ==
  ASSUME WindowsShut, DirInv, SyncInv, DTypeOK, PowerLoss
  PROVE  DirInv' /\ DTypeOK'
  <1>0. /\ mode' = "down" /\ ResetMemory /\ UNCHANGED saved /\ syncing' = FALSE
        /\ segFiles' \subseteq segFiles \cup disk.segFiles
        /\ hintFiles' \subseteq hintFiles \cup disk.hintFiles
        /\ hint' = [i \in Ids |-> IF i \notin hintFiles' THEN {}
                                  ELSE IF i \in hintFiles THEN hint[i] ELSE disk.hint[i]]
        /\ disk' = [file |-> file', segFiles |-> segFiles', hint |-> hint',
                    hintFiles |-> hintFiles', manifest |-> manifest']
    BY DEF PowerLoss
  <1>1. Stopped' /\ lastTstamp' \in Nat /\ keydir' \in [Keys -> Loc]
    BY <1>0, ResetStops
  <1>2. /\ file \in [Ids -> Seq(Entry)] /\ disk.file \in [Ids -> Seq(Entry)]
        /\ \A i \in Ids : \A p \in DOMAIN file[i] : file[i][p].t <= MaxWrites
        /\ \A i \in Ids : \A p \in DOMAIN disk.file[i] : disk.file[i][p].t <= MaxWrites
    BY DEF DirInv, RTypeOK, StampsBounded, DTypeOK
  <1>3. ASSUME NEW i \in Ids
        PROVE  /\ file'[i] \in Seq(Entry)
               /\ \A p \in DOMAIN file'[i] : file'[i][p].t <= MaxWrites
    <2>1. CASE file'[i] = <<>>
      BY <2>1
    <2>2. CASE file'[i] = disk.file[i]
      BY <1>2, <2>2
    <2>3. ASSUME NEW n \in 0 .. Len(file[i]), file'[i] = SubSeq(file[i], 1, n)
          PROVE  /\ file'[i] \in Seq(Entry)
                 /\ \A p \in DOMAIN file'[i] : file'[i][p].t <= MaxWrites
      BY <1>2, <2>3, PrefixFacts
    <2>4. QED
      BY <2>1, <2>2, <2>3, PowerLossFacts
  <1>4. file' \in [Ids -> Seq(Entry)]
    BY <1>3, PowerLossFacts
  <1>5. /\ hint' \in [Ids -> SUBSET HintEntry]
        /\ \A i \in Ids : \A h \in hint'[i] : h.t <= MaxWrites
    <2>1. /\ hint \in [Ids -> SUBSET HintEntry] /\ disk.hint \in [Ids -> SUBSET HintEntry]
          /\ \A i \in Ids : \A h \in hint[i] : h.t <= MaxWrites
          /\ \A i \in Ids : \A h \in disk.hint[i] : h.t <= MaxWrites
      BY DEF DirInv, RTypeOK, StampsBounded, DTypeOK
    <2>2. QED
      BY <1>0, <2>1
  <1>6. /\ segFiles' \subseteq Ids /\ hintFiles' \subseteq Ids
        /\ manifest' \in Manifests
    BY <1>0, PowerLossFacts DEF DirInv, RTypeOK, DTypeOK, Manifests
  <1>7. RTypeOK'
    BY <1>0, <1>1, <1>4, <1>5, <1>6, PowerLossFacts DEF DirInv, RTypeOK, Manifests
  <1>8. DiskInv'
    BY PowerLossFacts DEF DiskInv, NoManifest
  <1>9. StampsBounded'
    BY <1>0, <1>3, <1>5, WritesAssumption DEF StampsBounded, ResetMemory, ResetCompactor
  <1>10. DirInv'
    BY <1>0, <1>1, <1>7, <1>8, <1>9 DEF DirInv, OpenInv, Opening
  <1>11. DTypeOK'
    BY <1>0, <1>3, <1>4, <1>5, <1>6 DEF DTypeOK
  <1>12. QED
    BY <1>10, <1>11

\* All that is left of it is stable.
LEMMA PowerLossStep ==
  ASSUME WindowsShut, DirInv, SyncInv, DTypeOK, PowerLoss
  PROVE  SyncInv'
  <1>0. /\ mode' = "down" /\ syncing' = FALSE
        /\ disk' = [file |-> file', segFiles |-> segFiles', hint |-> hint',
                    hintFiles |-> hintFiles', manifest |-> manifest']
    BY DEF PowerLoss
  <1>1. ManifestStable'
    BY <1>0, PowerLossFacts DEF ManifestStable, InOpenWindow, NoManifest
  <1>2. NamesStable'
    BY <1>0, PowerLossFacts DEF NamesStable
  <1>3. ContentsStable' /\ RoomInv'
    BY <1>0 DEF ContentsStable, RoomInv
  <1>4. QED
    BY <1>1, <1>2, <1>3 DEF SyncInv

----------------------------------------------------------------------------
(* The invariant and what follows from it.                                 *)

\* An empty directory is stable.
LEMMA StableInit == DInit => StableInv
  <1> SUFFICES ASSUME DInit
               PROVE  StableInv
    OBVIOUS
  <1>1. DirInv
    BY DirInit DEF DInit
  <1>2. /\ mode = "down" /\ manifest = NoManifest /\ segFiles = {} /\ hintFiles = {}
        /\ syncing = FALSE
        /\ disk = [file |-> file, segFiles |-> {}, hint |-> hint, hintFiles |-> {},
                   manifest |-> NoManifest]
    BY DEF DInit, RInit
  <1>3. DTypeOK
    BY <1>1, <1>2 DEF DirInv, RTypeOK, StampsBounded, DTypeOK, Manifests
  <1>4. \A i \in Ids : file[i] = <<>>
    BY DEF DInit, RInit
  <1>5. SyncInv
    BY <1>2, <1>4 DEF SyncInv, ManifestStable, NamesStable, ContentsStable, RoomInv,
                      InOpenWindow, NoManifest
  <1>6. QED
    BY <1>1, <1>3, <1>5 DEF StableInv

\* Every step but a power failure is one of Recovery, or none.
LEMMA StepsOfRecovery == [DNext]_durVars => PowerLoss \/ [RNext]_allVars
  <1> SUFFICES ASSUME [DNext]_durVars
               PROVE  PowerLoss \/ [RNext]_allVars
    OBVIOUS
  <1>1. CASE Unsynced
    BY <1>1 DEF Unsynced, RNext, Running, Open, Next, Writer, Compactor
  <1>2. CASE BeginWrite \/ LogRecord \/ Seal \/ RotateRename \/ RotateUnconfirmed \/ Merge
    BY <1>2 DEF BeginWrite, LogRecord, Seal, RotateRename, RotateUnconfirmed, Merge,
                RNext, Running, Next, Writer, Compactor
  <1>3. CASE CommitRefused \/ CommitRename
    BY <1>3 DEF CommitRefused, CommitRename, CommitInBurst, RNext, Running, Next, Writer
  <1>4. CASE Rebuild \/ OpenRename \/ OpenRenameFail \/ ProcessEnds
    BY <1>4 DEF Rebuild, OpenRename, OpenRenameFail, ProcessEnds, RNext, Open
  <1>5. CASE SyncBurst \/ ManifestSynced \/ UNCHANGED durVars
    BY <1>5 DEF SyncBurst, ManifestSynced, durVars
  <1>6. QED
    BY <1>1, <1>2, <1>3, <1>4, <1>5 DEF DNext

\* Every such step syncs files, or files and the directory, or nothing.
LEMMA StepsSync ==
  ASSUME DTypeOK, [DNext]_durVars, ~PowerLoss
  PROVE  /\ syncing' \in BOOLEAN
         /\ \/ \E S \in {{}, {active}, {newSeg}} : Fsync(S) \/ FsyncDir(S, manifest)
            \/ UNCHANGED disk
  <1>0. syncing \in BOOLEAN
    BY DEF DTypeOK
  <1>1. CASE Unsynced \/ BeginWrite \/ LogRecord \/ Seal \/ RotateUnconfirmed \/ Merge
             \/ CommitRefused \/ Rebuild \/ OpenRenameFail
    BY <1>0, <1>1 DEF Unsynced, BeginWrite, LogRecord, Seal, RotateUnconfirmed, Merge,
                      CommitRefused, Rebuild, OpenRenameFail
  <1>2. CASE SyncBurst \/ RotateRename \/ ManifestSynced \/ OpenRename \/ ProcessEnds
    BY <1>0, <1>2 DEF SyncBurst, RotateRename, ManifestSynced, OpenRename, ProcessEnds
  <1>3. CASE CommitRename
    BY <1>3 DEF CommitRename
  <1>4. CASE UNCHANGED durVars
    BY <1>0, <1>4 DEF durVars, diskVars
  <1>5. QED
    BY <1>1, <1>2, <1>3, <1>4 DEF DNext

\* Nothing happens.
LEMMA SyncStutter ==
  ASSUME SyncInv, UNCHANGED durVars
  PROVE  SyncInv'
  <1>1. UNCHANGED <<mode, file, segFiles, manifest, segments, active, wpc, next, cpc, newSeg,
                    disk, syncing>>
    BY DEF durVars, allVars, vars, diskVars
  <1>2. QED
    BY <1>1 DEF SyncInv, ManifestStable, NamesStable, ContentsStable, RoomInv, InOpenWindow,
                NoManifest, Unlinking, LiveOnDisk

\* Every step keeps what is published stable, outside the three windows.
LEMMA StableStep ==
  ASSUME WindowsShut, StableInv, [DNext]_durVars
  PROVE  StableInv'
  <1>0. DirInv /\ DTypeOK /\ SyncInv
    BY DEF StableInv
  <1>1. CASE PowerLoss
    BY <1>0, <1>1, PowerLossDir, PowerLossStep DEF StableInv
  <1>2. CASE ~PowerLoss
    <2>1. DirInv'
      BY <1>0, <1>2, StepsOfRecovery, DirStep
    <2>2. DTypeOK'
      <3>1. CASE UNCHANGED disk
        <4>1. syncing' \in BOOLEAN
          BY <1>0, <1>2, StepsSync
        <4>2. QED
          BY <1>0, <3>1, <4>1 DEF DTypeOK
      <3>2. QED
        BY <1>0, <1>2, <2>1, <3>1, StepsSync, DiskType
    <2>3. SyncInv'
      <3>1. CASE Unsynced
        <4>1. Fsync({}) /\ UNCHANGED syncing
          BY <3>1 DEF Unsynced
        <4>2. CASE mode = "up" /\ UNCHANGED recVars
          <5>1. CASE ~syncing /\ (RotatePublish \/ CommitPublish)
            BY <1>0, <4>1, <4>2, <5>1, PublishStep
          <5>2. CASE ~(~syncing /\ (RotatePublish \/ CommitPublish))
            <6>1. ~OpenFresh /\ ~OpenDone /\ \A i \in Ids : ~SweepOne(i)
              BY <4>2 DEF OpenFresh, OpenDone, SweepOne
            <6>2. QED
              BY <1>0, <3>1, <4>1, <4>2, <5>2, <6>1, UnsyncedRunning DEF Unsynced
          <5>3. QED
            BY <5>1, <5>2
        <4>3. CASE OpenFresh
          BY <1>0, <4>1, <4>3, FreshStep
        <4>4. CASE ~syncing /\ OpenDone
          BY <1>0, <4>1, <4>4, OpenDoneStep
        <4>5. CASE ~syncing /\ \E i \in Ids : SweepOne(i)
          BY <1>0, <4>1, <4>5, SweepStep
        <4>6. QED
          BY <3>1, <4>2, <4>3, <4>4, <4>5 DEF Unsynced
      <3>2. CASE BeginWrite
        BY <1>0, <3>2, UnsyncedRunning DEF BeginWrite
      <3>3. CASE LogRecord
        BY <1>0, <3>3, UnsyncedRunning DEF LogRecord
      <3>4. CASE CommitRefused
        BY <1>0, <3>4, UnsyncedRunning DEF CommitRefused, CommitInBurst
      <3>5. CASE SyncBurst
        BY <1>0, <3>5, SyncBurstStep
      <3>6. CASE Seal
        BY <1>0, <3>6, SealStep
      <3>7. CASE Rebuild
        BY <1>0, <3>7, RebuildStep
      <3>8. CASE RotateRename \/ RotateUnconfirmed
        BY <1>0, <3>8, RotateRenameStep
      <3>9. CASE ManifestSynced
        BY <1>0, <3>9, ManifestSyncedStep
      <3>10. CASE Merge
        BY <1>0, <3>10, MergeStep
      <3>11. CASE CommitRename
        BY <1>0, <3>11, CommitRenameStep
      <3>12. CASE OpenRename
        BY <1>0, <3>12, OpenRenameStep
      <3>13. CASE OpenRenameFail
        BY <1>0, <3>13, OpenRenameFailStep
      <3>14. CASE ProcessEnds
        BY <1>0, <3>14, ProcessEndsStep
      <3>15. CASE UNCHANGED durVars
        BY <1>0, <3>15, SyncStutter
      <3>16. QED
        BY <1>2, <3>1, <3>2, <3>3, <3>4, <3>5, <3>6, <3>7, <3>8, <3>9, <3>10, <3>11,
           <3>12, <3>13, <3>14, <3>15 DEF DNext
    <2>4. QED
      BY <2>1, <2>2, <2>3 DEF StableInv
  <1>3. QED
    BY <1>1, <1>2

\* Outside the three windows, everything that is published is stable.
THEOREM StableInvariance ==
  ASSUME WindowsShut
  PROVE  DSpec => []StableInv
  <1>1. StableInv /\ [DNext]_durVars => StableInv'
    BY StableStep
  <1>2. QED
    BY <1>1, StableInit, PTL DEF DSpec

\* A segment that the manifest does not call active was fsynced, and is as it
\* was then: recoverSegment may call a partial record in it corruption.
THEOREM SealedAlwaysSynced ==
  ASSUME WindowsShut
  PROVE  DSpec => []SealedSynced
  <1>1. StableInv => SealedSynced
    BY DEF StableInv, SyncInv, ContentsStable, SealedSynced
  <1>2. QED
    BY <1>1, StableInvariance, PTL

\* Open never refuses a directory that kills and power failures, at any step
\* and in any order, have left.
THEOREM OpenSurvivesPowerLoss ==
  ASSUME WindowsShut
  PROVE  DSpec => []OpenSucceeds
  <1>1. StableInv => OpenSucceeds
    BY LiveFacts DEF StableInv, DirInv, OpenSucceeds, Unopenable
  <1>2. QED
    BY <1>1, StableInvariance, PTL

----------------------------------------------------------------------------
(* Where nobody compacts: what the log says survives.                      *)

\* The files of segments that are not there are empty, and so is what is
\* stable of them.
LEMMA PlacesFacts ==
  ASSUME DirInv, DTypeOK, PlacesInv
  PROVE  \A i \in Ids :
           /\ file[i] \in Seq(Entry) /\ disk.file[i] \in Seq(Entry)
           /\ file[i] # <<>> => i \in segFiles
           /\ file[i] = <<>> => disk.file[i] = <<>>
  <1> SUFFICES ASSUME NEW i \in Ids
               PROVE  /\ file[i] \in Seq(Entry) /\ disk.file[i] \in Seq(Entry)
                      /\ file[i] # <<>> => i \in segFiles
                      /\ file[i] = <<>> => disk.file[i] = <<>>
    OBVIOUS
  <1>1. file[i] \in Seq(Entry) /\ disk.file[i] \in Seq(Entry)
    BY DEF DirInv, RTypeOK, DTypeOK
  <1>2. file[i] # <<>> => i \in segFiles
    BY DEF DirInv, DiskInv, PlacesInv, NoManifest
  <1>3. file[i] = <<>> => disk.file[i] = <<>>
    <2>1. Len(disk.file[i]) <= Len(file[i])
      BY DEF PlacesInv
    <2>2. file[i] = <<>> => Len(disk.file[i]) = 0
      BY <1>1, <2>1
    <2>3. QED
      BY <1>1, <2>2, EmptySeq
  <1>4. QED
    BY <1>1, <1>2, <1>3

\* What a step of the running engine does to the log, but for an append.
LEMMA PlainStep ==
  ASSUME ~Compaction, DirInv, NoHints, mode = "up", [Next]_vars, ~AppendRecord,
         \A i \in Ids : file[i] # <<>> => i \in segFiles
  PROVE  /\ file' = file
         /\ \/ manifest' = manifest
            \/ next # NoSeg /\ manifest' = [segs |-> segments \cup {next}, active |-> next]
         /\ \/ UNCHANGED <<segments, active>>
            \/ next # NoSeg /\ segments' = segments \cup {next} /\ active' = next
         /\ next' \in {next, NoSeg, nextID}
         /\ keydir' = keydir \/ ApplyKeydir
         /\ \/ lastTstamp' = lastTstamp /\ (Stamped' => Stamped)
            \/ lastTstamp' = lastTstamp + 1 /\ wpc = "idle"
         /\ wpc' = "keydir" <=> wpc = "keydir" /\ ~ApplyKeydir
         /\ wpc' = "keydir" => wreq' = wreq
  <1>0. CoreInv
    BY DEF DirInv
  <1>1. /\ wpc \notin {"commitPublish", "commitPublishKeep", "unlink", "unlinkHint"}
        /\ next # NoSeg <=> wpc \in {"rotateManifest", "rotatePublish"}
        /\ file \in [Ids -> Seq(Entry)] /\ next \in Ids \cup {NoSeg} /\ cpc = "idle"
        /\ next # NoSeg => file[next] = <<>>
    BY <1>0 DEF NoHints, CoreInv, TypeOK, ControlInv, OwnershipInv, Publishing, Unlinking
  <1>2. CASE RotateCreate
    <2>1. file' = [file EXCEPT ![nextID] = <<>>] /\ nextID \in Ids /\ nextID \notin segFiles
      BY <1>2 DEF RotateCreate, CreateSegment
    <2>2. file[nextID] = <<>>
      BY <2>1
    <2>3. file' = file
      BY <1>1, <2>1, <2>2
    <2>4. QED
      BY <1>2, <2>3 DEF RotateCreate, ApplyKeydir, Stamped
  <1>3. CASE RotateAbort
    <2>1. file' = [file EXCEPT ![next] = <<>>] \/ file' = file
      BY <1>3 DEF RotateAbort, RemoveSegment
    <2>2. next \in Ids /\ file[next] = <<>>
      BY <1>1, <1>3 DEF RotateAbort
    <2>3. file' = file
      BY <1>1, <2>1, <2>2
    <2>4. QED
      BY <1>3, <2>3 DEF RotateAbort, FailWrite, ApplyKeydir, Stamped
  <1>4. CASE RotateManifest \/ RotateUncertain \/ RotatePublish
    BY <1>1, <1>4 DEF RotateManifest, RotateUncertain, RotatePublish, WriteManifest, FailWrite,
                      ApplyKeydir, Stamped
  <1>5. CASE RotateFail \/ AppendFail \/ ApplyKeydir \/ \E ops \in Batches : StartWrite(ops)
    BY <1>5 DEF RotateFail, AppendFail, ApplyKeydir, StartWrite, FailWrite, Stamped
  <1>6. CASE Reader \/ UNCHANGED vars
    BY <1>6 DEF Reader, ReadStart, ReadValue, vars, ApplyKeydir, Stamped
  <1>7. ~Compactor /\ ~CommitManifest /\ ~CommitFail /\ ~CommitPublish
        /\ \A c \in Ids : ~UnlinkSegment(c) /\ ~UnlinkHint(c)
    BY <1>1 DEF Compactor, CompactSnapshot, CompactCreate, CompactCreateFail, ScanEntry,
                ScanNext, CompactFail, RetireOnly, WriteHintFile, CleanupSegment, CleanupHint,
                CommitManifest, CommitFail, CommitPublish, UnlinkSegment, UnlinkHint
  <1>8. QED
    BY <1>2, <1>3, <1>4, <1>5, <1>6, <1>7 DEF Next, Writer

\* Without the compactor, nothing but an append changes the log.
LEMMA SameLog ==
  ASSUME ~Compaction, DirInv, DTypeOK, NoHints, PlacesInv, [RNext]_allVars,
         ~(mode = "up" /\ AppendRecord)
  PROVE  file' = file
  <1>0. file \in [Ids -> Seq(Entry)] /\ \A i \in Ids : file[i] # <<>> => i \in segFiles
    BY PlacesFacts DEF DirInv, RTypeOK
  <1>1. CASE Running
    BY <1>0, <1>1, PlainStep DEF Running
  <1>2. CASE OpenFresh
    <2>1. /\ file' = [file EXCEPT ![nextID] = <<>>] /\ nextID \in Ids /\ nextID \notin segFiles
      BY <1>2 DEF OpenFresh, CreateSegment
    <2>2. QED
      BY <1>0, <2>1
  <1>3. ASSUME NEW i \in Ids, SweepOne(i)
        PROVE  file' = file
    <2>1. i \notin manifest.segs /\ (file' = file \/ file' = [file EXCEPT ![i] = <<>>])
      BY <1>3 DEF SweepOne, Orphans
    <2>2. file[i] = <<>>
      BY <2>1 DEF PlacesInv
    <2>3. QED
      BY <1>0, <2>1, <2>2
  <1>4. CASE Kill \/ OpenRecover \/ OpenManifest \/ OpenManifestFail \/ OpenDone \/ UNCHANGED allVars
    BY <1>4 DEF Kill, OpenRecover, OpenManifest, OpenManifestFail, OpenDone, allVars, vars
  <1>5. QED
    BY <1>1, <1>2, <1>3, <1>4 DEF RNext, Open

\* Where a segment that holds entries is, after such a step.
LEMMA PlaceStep ==
  ASSUME ~Compaction, DirInv, DTypeOK, NoHints, PlacesInv, [RNext]_allVars,
         ~(mode = "up" /\ AppendRecord),
         NEW i \in Ids, file[i] # <<>>
  PROVE  /\ i \in manifest'.segs /\ i <= manifest'.active
         /\ mode' # "down" => i \in segments' /\ (active' # NoSeg => i <= active')
         /\ next' # NoSeg => i < next'
  <1>0. /\ i \in manifest.segs /\ i <= manifest.active /\ i \in segFiles /\ i \in Nat
        /\ mode # "down" => i \in segments /\ (active # NoSeg => i <= active)
        /\ next # NoSeg => i < next
        /\ manifest # NoManifest
    BY PlacesFacts, IdFacts DEF PlacesInv, NoManifest
  <1>n. mode # "down" => nextID \in Nat /\ i < nextID
    <2>1. CASE mode = "up"
      BY <1>0, <2>1 DEF DirInv, CoreInv, TypeOK, OwnershipInv
    <2>2. CASE Opening
      BY <1>0, <2>2 DEF DirInv, OpenInv
    <2>3. QED
      BY <2>1, <2>2 DEF DirInv, RTypeOK, Opening
  <1>s. mode # "up" => next = NoSeg
    BY DEF DirInv, OpenInv, Stopped
  <1>1. CASE Running
    <2>1. /\ mode = "up" /\ mode' = "up"
          /\ \/ manifest' = manifest
             \/ next # NoSeg /\ manifest' = [segs |-> segments \cup {next}, active |-> next]
          /\ \/ UNCHANGED <<segments, active>>
             \/ next # NoSeg /\ segments' = segments \cup {next} /\ active' = next
          /\ next' \in {next, NoSeg, nextID}
      BY <1>1, PlainStep, PlacesFacts DEF Running
    <2>2. next # NoSeg => i <= next
      <3>1. next \in Ids \cup {NoSeg}
        BY <2>1 DEF DirInv, CoreInv, TypeOK
      <3>2. QED
        BY <1>0, <3>1, IdFacts
    <2>3. manifest' = manifest \/ (manifest'.segs = segments \cup {next} /\ manifest'.active = next /\ next # NoSeg)
      BY <2>1
    <2>4. QED
      BY <1>0, <1>n, <2>1, <2>2, <2>3
  <1>2. CASE OpenRecover
    <2>1. /\ manifest' = manifest /\ segments' = manifest.segs /\ next' = next
          /\ active' \in {manifest.active, NoSeg} /\ mode = "down"
      BY <1>0, <1>2 DEF OpenRecover, LiveOnDisk, ActiveOnDisk
    <2>2. QED
      BY <1>0, <1>s, <2>1
  <1>3. CASE OpenFresh
    <2>1. /\ manifest' = manifest /\ segments' = segments \cup {nextID} /\ next' = next
          /\ active' = nextID /\ mode = "fresh"
      BY <1>3 DEF OpenFresh
    <2>2. QED
      BY <1>0, <1>n, <1>s, <2>1
  <1>4. CASE OpenManifest \/ OpenManifestFail
    <2>1. /\ mode = "manifest" /\ next' = NoSeg
          /\ manifest' = manifest \/ manifest' = [segs |-> segments, active |-> active]
          /\ mode' = "down" \/ UNCHANGED <<segments, active>>
      BY <1>4, <1>s DEF OpenManifest, OpenManifestFail, WriteManifest, ResetMemory
    <2>2. active # NoSeg
      BY <2>1, IdFacts DEF DirInv, OpenInv, Opening, RTypeOK
    <2>3. QED
      BY <1>0, <2>1, <2>2
  <1>5. CASE OpenDone \/ (\E j \in Ids : SweepOne(j)) \/ UNCHANGED allVars
    BY <1>0, <1>5 DEF OpenDone, SweepOne, allVars, vars
  <1>6. CASE Kill
    BY <1>0, <1>6 DEF Kill, ResetMemory
  <1>7. QED
    BY <1>1, <1>2, <1>3, <1>4, <1>5, <1>6 DEF RNext, Open

\* What is stable of a segment stays, or becomes all of it.
LEMMA StableGrows ==
  ASSUME DirInv, DTypeOK, PlacesInv, file' = file,
         NEW S, Fsync(S) \/ FsyncDir(S, manifest) \/ UNCHANGED disk,
         \A i \in Ids : file[i] # <<>> => i \in segFiles'
  PROVE  /\ \A i \in Ids : disk'.file[i] = disk.file[i] \/ disk'.file[i] = file[i]
         /\ disk'.manifest \in {disk.manifest, manifest}
  <1>1. CASE Fsync(S)
    <2>1. /\ disk'.manifest = disk.manifest
          /\ \A i \in Ids : disk'.file[i] =
               IF i \in S THEN file'[i]
               ELSE IF i \in segFiles' \ segFiles THEN <<>> ELSE disk.file[i]
      BY <1>1, FsyncFacts
    <2>2. QED
      BY <2>1, PlacesFacts
  <1>2. CASE FsyncDir(S, manifest)
    <2>1. /\ disk'.manifest = manifest
          /\ \A i \in Ids : disk'.file[i] =
               IF i \notin segFiles' THEN <<>>
               ELSE IF i \in S THEN file'[i]
               ELSE IF i \in segFiles' \ segFiles THEN <<>> ELSE disk.file[i]
      BY <1>2, FsyncDirFacts
    <2>2. QED
      BY <2>1, PlacesFacts
  <1>3. CASE UNCHANGED disk
    BY <1>3
  <1>4. QED
    BY <1>1, <1>2, <1>3

\* What the log says up to a timestamp depends on no later entry.
LEMMA SaysFrame ==
  ASSUME NEW t,
         \A i \in Ids : \A p \in DOMAIN file[i] : file[i][p].t <= t =>
           p \in DOMAIN file'[i] /\ file'[i][p] = file[i][p],
         \A i \in Ids : \A p \in DOMAIN file'[i] : file'[i][p].t <= t =>
           p \in DOMAIN file[i] /\ file'[i][p] = file[i][p]
  PROVE  \A k, v : SaysUpTo(k, t, v) => SaysUpTo(k, t, v)'
  <1> SUFFICES ASSUME NEW k, NEW v, SaysUpTo(k, t, v)
               PROVE  SaysUpTo(k, t, v)'
    OBVIOUS
  <1>1. CASE v = Tombstone /\ \A i \in Ids : \A p \in DOMAIN file[i] :
               file[i][p].key = k => ~(file[i][p].t <= t)
    <2>1. \A i \in Ids : \A p \in DOMAIN file'[i] : file'[i][p].key = k => ~(file'[i][p].t <= t)
      BY <1>1
    <2>2. QED
      BY <1>1, <2>1 DEF SaysUpTo
  <1>2. ASSUME NEW i \in Ids, NEW p \in DOMAIN file[i], LastUpTo(k, t, i, p), v = file[i][p].val
        PROVE  SaysUpTo(k, t, v)'
    <2>1. p \in DOMAIN file'[i] /\ file'[i][p] = file[i][p]
      BY <1>2 DEF LastUpTo
    <2>2. LastUpTo(k, t, i, p)'
      BY <1>2, <2>1 DEF LastUpTo
    <2>3. QED
      BY <1>2, <2>1, <2>2 DEF SaysUpTo
  <1>3. QED
    BY <1>1, <1>2 DEF SaysUpTo

\* Entries have positions, and timestamps to compare.
LEMMA LogEntry ==
  ASSUME DirInv, NEW i \in Ids, NEW p \in DOMAIN file[i]
  PROVE  /\ file[i][p].t \in Nat /\ i \in Nat /\ p \in Nat \ {0} /\ p <= Len(file[i])
         /\ Len(file[i]) \in Nat /\ DOMAIN file[i] = 1 .. Len(file[i])
         /\ file[i] # <<>>
  <1>1. file[i] \in Seq(Entry) /\ i \in Nat
    BY IdFacts DEF DirInv, RTypeOK
  <1>2. /\ Len(file[i]) \in Nat /\ DOMAIN file[i] = 1 .. Len(file[i]) /\ file[i][p] \in Entry
    BY <1>1
  <1>3. file[i] # <<>>
    OBVIOUS
  <1>4. QED
    BY <1>1, <1>2, <1>3 DEF Entry

\* A stable entry is an entry.
LEMMA StablePosition ==
  ASSUME DirInv, DTypeOK, PlacesInv, NEW i \in Ids, NEW p \in DOMAIN disk.file[i]
  PROVE  p \in DOMAIN file[i] /\ file[i][p] = disk.file[i][p]
  <1>1. Len(disk.file[i]) <= Len(file[i]) /\ file[i][p] = disk.file[i][p]
    BY DEF PlacesInv
  <1>2. file[i] \in Seq(Entry) /\ disk.file[i] \in Seq(Entry)
    BY DEF DirInv, RTypeOK, DTypeOK
  <1>3. QED
    BY <1>1, <1>2

\* Every entry is of some record after the first.
LEMMA EntryRecord ==
  ASSUME HistoryOK, RecordsInv, NEW i \in Ids, NEW p \in DOMAIN file[i]
  PROVE  \E n \in DOMAIN history : /\ n \in Nat /\ n > 1 /\ n <= Len(history)
                                   /\ history[n].t = file[i][p].t
  <1>1. PICK n \in DOMAIN history : n # 1 /\ history[n].t = file[i][p].t
    BY DEF RecordsInv
  <1>2. DOMAIN history = 1 .. Len(history) /\ Len(history) \in Nat
    BY DEF HistoryOK
  <1>3. QED
    BY <1>1, <1>2

\* The history, as a sequence.
LEMMA HistoryFacts ==
  ASSUME HistoryOK
  PROVE  /\ Len(history) \in Nat /\ Len(history) >= 1 /\ DOMAIN history = 1 .. Len(history)
         /\ acked \in 1 .. Len(history)
         /\ \A n \in 1 .. Len(history) :
              history[n].t \in Nat /\ history[n].map \in [Keys -> Values \cup {Tombstone}]
         /\ \A m, n \in 1 .. Len(history) : m <= n => history[m].t <= history[n].t
         /\ \A m, n \in 1 .. Len(history) : m < n => history[m].t < history[n].t
         /\ history[1].t = 0
  <1>1. /\ Len(history) \in Nat /\ DOMAIN history = 1 .. Len(history)
        /\ \A n \in 1 .. Len(history) :
             history[n].t \in Nat /\ history[n].map \in [Keys -> Values \cup {Tombstone}]
    <2> DEFINE R == [t : Nat, map : [Keys -> Values \cup {Tombstone}]]
    <2>1. history \in Seq(R)
      BY DEF HistoryOK
    <2>2. /\ Len(history) \in Nat /\ DOMAIN history = 1 .. Len(history)
          /\ \A n \in 1 .. Len(history) : history[n] \in R
      <3> HIDE DEF R
      <3>1. QED
        BY <2>1
    <2>3. QED
      BY <2>2
  <1>2. /\ acked \in 1 .. Len(history) /\ history[1].t = 0
        /\ \A m, n \in 1 .. Len(history) : m < n => history[m].t < history[n].t
    <2>1. /\ acked \in DOMAIN history /\ history[1] = [t |-> 0, map |-> EmptyMap]
          /\ \A m, n \in DOMAIN history : m < n => history[m].t < history[n].t
      BY DEF HistoryOK
    <2>2. QED
      BY <1>1, <2>1
  <1>3. Len(history) >= 1
    BY <1>1, <1>2
  <1>4. ASSUME NEW m \in 1 .. Len(history), NEW n \in 1 .. Len(history), m <= n
        PROVE  history[m].t <= history[n].t
    <2>1. CASE m = n
      BY <1>1, <2>1
    <2>2. CASE m < n
      BY <1>1, <1>2, <2>2
    <2>3. QED
      BY <1>1, <1>4, <2>1, <2>2
  <1>5. QED
    BY <1>1, <1>2, <1>3, <1>4

\* The same keydir leads to the same values as long as the entries it leads
\* to are kept.
LEMMA ViewKept ==
  ASSUME RTypeOK, KeydirResolves, keydir' = keydir, segments \subseteq segments',
         segments \subseteq Ids,
         NoEntry.pos \notin DOMAIN file'[NoEntry.file],
         \A i \in segments : \A p \in DOMAIN file[i] :
           p \in DOMAIN file'[i] /\ file'[i][p] = file[i][p]
  PROVE  View' = View
  <1>1. ASSUME NEW k \in Keys
        PROVE  View'[k] = View[k]
    <2>1. CASE keydir[k] = NoEntry
      <3>1. NoEntry.pos \notin DOMAIN file[NoEntry.file]
        BY IdFacts, DirEntry DEF NoEntry
      <3>2. QED
        BY <2>1, <3>1 DEF View, ValueAt, Resolves
    <2>2. CASE Locates(keydir[k], k)
      <3>1. keydir[k].file \in segments /\ keydir[k].pos \in DOMAIN file[keydir[k].file]
        BY <2>2 DEF Locates, Resolves
      <3>2. QED
        BY <3>1 DEF View, ValueAt, Resolves
    <2>3. QED
      BY <2>1, <2>2 DEF KeydirResolves
  <1>2. QED
    BY <1>1 DEF View

\* The history is written by LogRecord, cut by Rebuild, and otherwise stays;
\* callers get to know of it in SyncBurst.
LEMMA HistorySteps ==
  ASSUME [DNext]_durVars, ~PowerLoss, ~LogRecord, ~Rebuild
  PROVE  history' = history /\ (acked' = acked \/ SyncBurst)
  BY DEF DNext, durVars, ackVars, Unsynced, BeginWrite, SyncBurst, Seal, CommitRefused,
         RotateRename, RotateUnconfirmed, ManifestSynced, Merge, CommitRename, CommitInBurst,
         OpenRename, OpenRenameFail, ProcessEnds

\* Records are appended by LogRecord alone.
LEMMA AppendIsLogged ==
  ASSUME [DNext]_durVars, ~PowerLoss, ~LogRecord
  PROVE  ~(mode = "up" /\ AppendRecord)
  <1> SUFFICES ASSUME mode = "up", wpc = "append", wpc' = "keydir"
               PROVE  FALSE
    BY DEF AppendRecord
  <1>1. ~Unsynced
    BY DEF Unsynced, RotateFail, RotateAbort, AppendFail, ApplyKeydir, RotatePublish,
           CommitPublish, UnlinkSegment, UnlinkHint, CompactSnapshot, CompactCreate,
           CompactCreateFail, ScanEntry, ScanNext, CompactFail, RetireOnly, CleanupSegment,
           CleanupHint, OpenFresh, OpenDone, SweepOne, FailWrite
  <1>2. ~BeginWrite /\ ~Seal /\ ~RotateRename /\ ~RotateUnconfirmed /\ ~Merge
    BY DEF BeginWrite, StartWrite, Seal, RotateCreate, RotateRename, RotateManifest,
           RotateUnconfirmed, RotateUncertain, Merge, WriteHintFile
  <1>3. ~CommitRefused /\ ~CommitRename
    BY DEF CommitRefused, CommitFail, CommitRename, CommitManifest
  <1>4. ~Rebuild /\ ~OpenRename /\ ~OpenRenameFail /\ ~ProcessEnds
    BY DEF Rebuild, OpenRecover, OpenRename, OpenManifest, OpenRenameFail, OpenManifestFail,
           ProcessEnds, Kill, ResetMemory
  <1>5. ~SyncBurst /\ ~ManifestSynced /\ ~UNCHANGED durVars
    BY DEF SyncBurst, ManifestSynced, durVars, allVars, vars
  <1>6. QED
    BY <1>1, <1>2, <1>3, <1>4, <1>5 DEF DNext

\* Every step but an append and a power failure leaves the log as it is, and
\* its segments in their places.
LEMMA QuietLog ==
  ASSUME ~Compaction, StableInv, DirInv', NoHints, PlacesInv, SortedInv,
         [DNext]_durVars, ~PowerLoss, ~LogRecord
  PROVE  /\ file' = file /\ PlacesInv' /\ SortedInv'
         /\ \A i \in Ids : disk'.file[i] = disk.file[i] \/ disk'.file[i] = file[i]
  <1>0. DirInv /\ DTypeOK
    BY DEF StableInv
  <1>1. [RNext]_allVars /\ ~(mode = "up" /\ AppendRecord)
    BY StepsOfRecovery, AppendIsLogged
  <1>2. file' = file
    BY <1>0, <1>1, SameLog
  <1>3. \A i \in Ids : file[i] # <<>> =>
          /\ i \in manifest'.segs /\ i <= manifest'.active
          /\ mode' # "down" => i \in segments' /\ (active' # NoSeg => i <= active')
          /\ next' # NoSeg => i < next'
    BY <1>0, <1>1, PlaceStep
  <1>4. \A i \in Ids : file[i] # <<>> => i \in segFiles'
    BY <1>3 DEF DirInv, DiskInv, NoManifest
  <1>5. /\ \A i \in Ids : disk'.file[i] = disk.file[i] \/ disk'.file[i] = file[i]
        /\ disk'.manifest \in {disk.manifest, manifest}
    <2>1. CASE UNCHANGED disk
      BY <2>1
    <2>2. ASSUME NEW S, Fsync(S) \/ FsyncDir(S, manifest)
          PROVE  /\ \A i \in Ids : disk'.file[i] = disk.file[i] \/ disk'.file[i] = file[i]
                 /\ disk'.manifest \in {disk.manifest, manifest}
      BY <1>0, <1>2, <1>4, <2>2, StableGrows
    <2>3. QED
      BY <1>0, <2>1, <2>2, StepsSync
  <1>6. PlacesInv'
    <2> SUFFICES ASSUME NEW i \in Ids
                 PROVE  /\ file'[i] # <<>> =>
                             /\ i \in manifest'.segs \cap disk'.manifest.segs
                             /\ i <= manifest'.active /\ i <= disk'.manifest.active
                             /\ mode' # "down" => i \in segments' /\ (active' # NoSeg => i <= active')
                             /\ next' # NoSeg => i < next'
                        /\ Len(disk'.file[i]) <= Len(file'[i])
                        /\ \A p \in DOMAIN disk'.file[i] : disk'.file[i][p] = file'[i][p]
      BY DEF PlacesInv
    <2>1. /\ file[i] # <<>> =>
               /\ i \in manifest.segs \cap disk.manifest.segs
               /\ i <= manifest.active /\ i <= disk.manifest.active
          /\ Len(disk.file[i]) <= Len(file[i])
          /\ \A p \in DOMAIN disk.file[i] : disk.file[i][p] = file[i][p]
      BY DEF PlacesInv
    <2>2. Len(file[i]) <= Len(file[i])
      <3>1. file[i] \in Seq(Entry)
        BY <1>0 DEF DirInv, RTypeOK
      <3>2. QED
        BY <3>1
    <2>3. QED
      BY <1>2, <1>3, <1>5, <2>1, <2>2
  <1>7. SortedInv'
    BY <1>2 DEF SortedInv
  <1>8. QED
    BY <1>2, <1>5, <1>6, <1>7

\* What callers know of stays stable.
LEMMA QuietAcked ==
  ASSUME StableInv, PlacesInv, AckedInv, acked' = acked, history'[acked] = history[acked],
         \A i \in Ids : disk'.file[i] = disk.file[i] \/ disk'.file[i] = file[i]
  PROVE  AckedInv'
  <1>1. CASE acked = 1
    BY <1>1 DEF AckedInv
  <1>2. ASSUME NEW i \in Ids, NEW p \in DOMAIN disk.file[i], disk.file[i][p].t = history[acked].t
        PROVE  AckedInv'
    <2>1. p \in DOMAIN file[i] /\ file[i][p] = disk.file[i][p]
      BY StablePosition DEF StableInv
    <2>2. p \in DOMAIN disk'.file[i] /\ disk'.file[i][p].t = history[acked].t
      BY <1>2, <2>1
    <2>3. QED
      BY <2>2 DEF AckedInv
  <1>3. QED
    BY <1>1, <1>2 DEF AckedInv

\* What the log says of the history, where neither is written.
LEMMA QuietRecords ==
  ASSUME RecordsInv, file' = file, history' = history
  PROVE  RecordsInv'
  BY DEF RecordsInv, Logged, SaysUpTo, LastUpTo

\* What the process sees, after a step of the engine that appends nothing.
LEMMA CurrentRunning ==
  ASSUME ~Compaction, HintInv, DirInv', NoHints, mode = "up", [Next]_vars, ~AppendRecord,
         HistoryOK, CurrentInv, \A i \in Ids : file[i] # <<>> => i \in segFiles,
         history' = history, acked' = acked \/ wpc = "idle"
  PROVE  CurrentInv'
  <1>0. DirInv /\ CoreInv /\ RTypeOK /\ KeydirResolves /\ IndInv
    BY DEF HintInv, DirInv, DataInv, IndInv
  <1>1. /\ file' = file
        /\ \/ UNCHANGED <<segments, active>>
           \/ next # NoSeg /\ segments' = segments \cup {next} /\ active' = next
        /\ keydir' = keydir \/ ApplyKeydir
        /\ \/ lastTstamp' = lastTstamp /\ (Stamped' => Stamped)
           \/ lastTstamp' = lastTstamp + 1 /\ wpc = "idle"
        /\ wpc' = "keydir" <=> wpc = "keydir" /\ ~ApplyKeydir
        /\ wpc' = "keydir" => wreq' = wreq
    BY <1>0, PlainStep
  <1>2. PICK n : n = Len(history) /\ n = Len(history')
    OBVIOUS
  <1>3. /\ Logged(n) /\ history[n].t <= lastTstamp /\ (Stamped => history[n].t < lastTstamp)
        /\ IF wpc # "keydir" THEN View = history[n].map
           ELSE /\ acked < n /\ View = history[n - 1].map
                /\ history[n].map = Store!ApplyOps(history[n - 1].map, wreq)
    BY <1>2 DEF CurrentInv
  <1>4. n \in 1 .. Len(history) /\ history[n].t \in Nat /\ lastTstamp \in Nat
    BY <1>0, <1>2, HistoryFacts DEF RTypeOK
  <1>5. /\ Logged(n)' /\ history'[n].t <= lastTstamp'
        /\ Stamped' => history'[n].t < lastTstamp'
    BY <1>1, <1>3, <1>4 DEF Logged
  <1>6. ~ApplyKeydir => View' = View
    <2> SUFFICES ASSUME ~ApplyKeydir
                 PROVE  View' = View
      OBVIOUS
    <2>1. keydir' = keydir /\ segments \subseteq segments' /\ segments \subseteq Ids
      BY <1>0, <1>1 DEF CoreInv, TypeOK
    <2>2. NoEntry.pos \notin DOMAIN file'[NoEntry.file]
      BY <1>0, <1>1, IdFacts, DirEntry DEF NoEntry
    <2>3. QED
      BY <1>0, <1>1, <2>1, <2>2, ViewKept
  <1>7. ApplyKeydir => wpc = "keydir" /\ View' = Store!ApplyOps(View, wreq)
    <2> SUFFICES ASSUME ApplyKeydir
                 PROVE  wpc = "keydir" /\ View' = Store!ApplyOps(View, wreq)
      OBVIOUS
    <2>1. wpc = "keydir" /\ keydir' = ApplyBatch(wreq) /\ UNCHANGED <<file, segments>>
      BY DEF ApplyKeydir
    <2>2. \A k \in Keys : ValueAt(ApplyBatch(wreq)[k]) = Store!ApplyOps(View, wreq)[k]
      BY <1>0, <2>1, AppliedValue
    <2>3. View' = [k \in Keys |-> ValueAt(ApplyBatch(wreq)[k])]
      BY <2>1 DEF View, ValueAt, Resolves
    <2>4. QED
      BY <2>1, <2>2, <2>3 DEF Store!ApplyOps
  <1>8. IF wpc' # "keydir" THEN View' = history'[n].map
        ELSE /\ acked' < n /\ View' = history'[n - 1].map
             /\ history'[n].map = Store!ApplyOps(history'[n - 1].map, wreq')
    <2>1. CASE wpc' = "keydir"
      BY <1>1, <1>3, <1>6, <2>1
    <2>2. CASE wpc' # "keydir" /\ ApplyKeydir
      BY <1>3, <1>7, <2>2
    <2>3. CASE wpc' # "keydir" /\ ~ApplyKeydir
      BY <1>1, <1>3, <1>6, <2>3
    <2>4. QED
      BY <2>1, <2>2, <2>3
  <1>9. QED
    BY <1>2, <1>5, <1>8 DEF CurrentInv, Store!ApplyOps, Store!Touches, Store!LastOp, Store!IsLastOp

\* What the process sees, while Open goes on.
LEMMA CurrentOpening ==
  ASSUME HintInv, HintInv', Opening, [RNext]_allVars, file' = file, history' = history,
         HistoryOK, CurrentInv
  PROVE  CurrentInv'
  <1> SUFFICES ASSUME mode' # "down"
               PROVE  CurrentInv'
    BY DEF CurrentInv
  <1>1. /\ RTypeOK /\ KeydirResolves /\ wpc = "idle" /\ segments \subseteq Ids
    BY DEF HintInv, DirInv, OpenInv, Stopped, Opening, RTypeOK
  <1>2. /\ UNCHANGED <<keydir, lastTstamp, wpc>> /\ segments \subseteq segments'
    BY DEF Opening, RNext, Running, Open, Kill, OpenRecover, OpenFresh, OpenManifest,
           OpenManifestFail, OpenDone, SweepOne, allVars, vars
  <1>3. NoEntry.pos \notin DOMAIN file'[NoEntry.file]
    BY <1>1, IdFacts, DirEntry DEF NoEntry
  <1>4. View' = View
    BY <1>1, <1>2, <1>3, ViewKept
  <1>5. mode # "down"
    BY DEF Opening
  <1>6. QED
    BY <1>1, <1>2, <1>4, <1>5 DEF CurrentInv, Logged, Stamped

\* The log up to a timestamp that no entry is newer than is the whole log:
\* what it says is what segments that include it give.
LEMMA SaysGives ==
  ASSUME DirInv, SortedInv, NEW S \in SUBSET Ids, \A i \in Ids : file[i] # <<>> => i \in S,
         NEW t, \A i \in Ids : \A p \in DOMAIN file[i] : file[i][p].t <= t,
         NEW k, NEW v, SaysUpTo(k, t, v)
  PROVE  Gives(S, k, v)
  <1>1. CASE v = Tombstone /\ \A i \in Ids : \A p \in DOMAIN file[i] :
               file[i][p].key = k => ~(file[i][p].t <= t)
    BY <1>1 DEF Gives, Occurs
  <1>2. ASSUME NEW i \in Ids, NEW p \in DOMAIN file[i], LastUpTo(k, t, i, p), v = file[i][p].val
        PROVE  Gives(S, k, v)
    <2>1. i \in S /\ file[i][p].key = k
      BY <1>2, LogEntry DEF LastUpTo
    <2>2. ASSUME NEW j \in S, NEW q \in DOMAIN file[j], file[j][q].key = k
          PROVE  /\ file[j][q].t <= file[i][p].t
                 /\ file[j][q].t = file[i][p].t => j = i /\ q <= p
                 /\ file[i][p].val = Tombstone => j < i \/ (j = i /\ q <= p)
      <3>1. j \in Ids /\ file[j][q].t \in Nat /\ file[i][p].t \in Nat
        BY LogEntry
      <3>2. j < i \/ (j = i /\ q <= p)
        BY <1>2, <2>2, <3>1 DEF LastUpTo
      <3>3. /\ j < i => file[j][q].t < file[i][p].t
            /\ j = i /\ q <= p => file[j][q].t <= file[i][p].t
        BY <3>1 DEF SortedInv
      <3>4. QED
        BY <3>1, <3>2, <3>3
    <2>3. Decides(S, k, i, p)
      BY <2>1, <2>2 DEF Decides
    <2>4. QED
      BY <1>2, <2>1, <2>3 DEF Gives
  <1>3. QED
    BY <1>1, <1>2 DEF SaysUpTo

\* recover finds the log as it is: the history ends with the newest record
\* the log has, nothing that callers know of is cut, and the keydir it builds
\* has the map of that record.
LEMMA RebuildHistory ==
  ASSUME ~Compaction, StableInv, HintInv, HintInv', NoHints, HistoryInv, Rebuild
  PROVE  HistoryOK' /\ RecordsInv' /\ CurrentInv'
         /\ acked' = acked /\ history'[acked] = history[acked]
  <1>0. /\ DirInv /\ DTypeOK /\ RTypeOK /\ DiskInv /\ StampsBounded /\ TrueHints /\ hintFiles = {}
        /\ HistoryOK /\ PlacesInv /\ SortedInv /\ RecordsInv /\ AckedInv
    BY DEF StableInv, DirInv, HistoryInv, NoHints, TrueHints
  <1>1. /\ mode = "down" /\ mode' \in {"fresh", "manifest", "sweep"}
        /\ UNCHANGED <<file, segFiles, manifest, wpc, acked>>
        /\ segments' = LiveOnDisk
        /\ keydir' = Replay(LiveOnDisk, ActiveOnDisk)
        /\ lastTstamp' = ReplayTstamp(LiveOnDisk, ActiveOnDisk)
    BY DEF Rebuild, OpenRecover
  <1>2. PICK n \in DOMAIN history :
          /\ \A m \in DOMAIN history : history[m].t <= lastTstamp' <=> m <= n
          /\ history' = SubSeq(history, 1, n)
    BY DEF Rebuild
  <1>3. PICK L, T : L = LiveOnDisk /\ T = lastTstamp'
    OBVIOUS
  <1>4. /\ L \in SUBSET (Ids \cap segFiles) /\ L \in SUBSET Ids
        /\ \A i \in Ids : file[i] # <<>> => i \in L
    <2>1. L \in SUBSET (Ids \cap segFiles)
      BY <1>0, <1>3, LiveFacts
    <2>2. \A i \in Ids : file[i] # <<>> => i \in L
      BY <1>0, <1>3, PlacesFacts DEF PlacesInv, LiveOnDisk
    <2>3. QED
      BY <2>1, <2>2
  <1>5. /\ T \in Nat
        /\ \A i \in Ids : \A p \in DOMAIN file[i] : file[i][p].t <= T
        /\ T = 0 \/ \E i \in Ids : \E p \in DOMAIN file[i] : file[i][p].t = T
    <2>1. \A i \in Ids : ~HintUsable(i)
      BY <1>0 DEF HintUsable
    <2>2. /\ T \in Nat
          /\ \A i \in L : \A p \in DOMAIN file[i] : file[i][p].t <= T
          /\ T = 0 \/ \E i \in L : \E p \in DOMAIN file[i] : file[i][p].t = T
      BY <1>0, <1>1, <1>3, <1>4, <2>1, TstampFacts
    <2>3. \A i \in Ids : \A p \in DOMAIN file[i] : i \in L
      BY <1>0, <1>4, LogEntry
    <2>4. QED
      BY <1>4, <2>2, <2>3
  <1>6. /\ n \in 1 .. Len(history) /\ Len(history) \in Nat /\ n \in Nat
        /\ DOMAIN history = 1 .. Len(history)
        /\ Len(history') = n /\ DOMAIN history' = 1 .. n
        /\ \A m \in 1 .. n : history'[m] = history[m]
        /\ history' \in Seq([t : Nat, map : [Keys -> Values \cup {Tombstone}]])
    <2> DEFINE R == [t : Nat, map : [Keys -> Values \cup {Tombstone}]]
    <2>1. history \in Seq(R)
      BY <1>0 DEF HistoryOK
    <2>2. n \in 1 .. Len(history) /\ Len(history) \in Nat /\ DOMAIN history = 1 .. Len(history)
      BY <1>0, <1>2, HistoryFacts
    <2> HIDE DEF R
    <2>3. /\ history' = [m \in 1 .. n |-> history[m]] /\ history' \in Seq(R) /\ Len(history') = n
      BY <1>2, <2>1, <2>2
    <2>4. QED
      BY <2>2, <2>3 DEF R
  <1>7. \A m \in 1 .. Len(history) : history[m].t <= T <=> m <= n
    BY <1>2, <1>3, <1>6
  <1>8. \A i \in Ids : \A p \in DOMAIN file[i] :
          \E m \in 1 .. n : m # 1 /\ history[m].t = file[i][p].t
    <2> SUFFICES ASSUME NEW i \in Ids, NEW p \in DOMAIN file[i]
                 PROVE  \E m \in 1 .. n : m # 1 /\ history[m].t = file[i][p].t
      OBVIOUS
    <2>1. PICK m \in 1 .. Len(history) : m # 1 /\ history[m].t = file[i][p].t
      BY <1>0, <1>6 DEF RecordsInv
    <2>2. m <= n
      BY <1>5, <1>7, <2>1
    <2>3. QED
      BY <1>6, <2>1, <2>2
  <1>9. acked \in 1 .. n
    <2>1. acked \in 1 .. Len(history)
      BY <1>0, HistoryFacts
    <2>2. ASSUME NEW i \in Ids, NEW p \in DOMAIN disk.file[i], disk.file[i][p].t = history[acked].t
          PROVE  acked <= n
      <3>1. p \in DOMAIN file[i] /\ file[i][p] = disk.file[i][p]
        BY <1>0, StablePosition
      <3>2. history[acked].t <= T
        BY <1>5, <2>2, <3>1
      <3>3. QED
        BY <1>7, <2>1, <3>2
    <2>3. QED
      BY <1>0, <1>6, <2>1, <2>2 DEF AckedInv
  <1>10. HistoryOK'
    <2>1. \A m, l \in 1 .. n : m < l => history'[m].t < history'[l].t
      BY <1>0, <1>6, HistoryFacts
    <2>2. history'[1] = [t |-> 0, map |-> EmptyMap]
      BY <1>0, <1>6 DEF HistoryOK
    <2>3. QED
      BY <1>1, <1>6, <1>9, <2>1, <2>2 DEF HistoryOK, EmptyMap
  <1>11. RecordsInv'
    <2>1. \A i \in Ids : \A p \in DOMAIN file'[i] :
            \E m \in DOMAIN history' : m # 1 /\ history'[m].t = file'[i][p].t
      BY <1>1, <1>6, <1>8
    <2>2. ASSUME NEW m \in DOMAIN history', Logged(m)', NEW k \in Keys
          PROVE  SaysUpTo(k, history[m].t, history[m].map[k])'
      <3>1. PICK t, v : t = history[m].t /\ v = history[m].map[k]
        OBVIOUS
      <3>2. m \in DOMAIN history /\ history'[m] = history[m]
        BY <1>6
      <3>3. SaysUpTo(k, t, v)
        BY <1>0, <1>1, <2>2, <3>1, <3>2 DEF RecordsInv, Logged
      <3>4. SaysUpTo(k, t, v)'
        BY <1>1, <3>3 DEF SaysUpTo, LastUpTo
      <3>5. QED
        BY <3>1, <3>2, <3>4
    <2>3. QED
      BY <2>1, <2>2 DEF RecordsInv
  <1>12. Logged(n) /\ history[n].t = T
    <2>1. CASE T = 0
      <3>1. history[1].t = 0 /\ \A m \in 1 .. Len(history) : m > 1 => history[m].t > 0
        BY <1>0, HistoryFacts
      <3>2. n = 1
        <4>1. history[n].t <= 0 /\ history[n].t \in Nat
          BY <1>0, <1>6, <1>7, <2>1, HistoryFacts
        <4>2. QED
          BY <1>6, <3>1, <4>1
      <3>3. QED
        BY <2>1, <3>1, <3>2 DEF Logged
    <2>2. ASSUME NEW i \in Ids, NEW p \in DOMAIN file[i], file[i][p].t = T
          PROVE  Logged(n) /\ history[n].t = T
      <3>1. PICK m \in 1 .. n : history[m].t = T
        BY <1>8, <2>2
      <3>2. history[n].t <= T /\ history[n].t \in Nat /\ history[m].t <= history[n].t
        BY <1>0, <1>6, <1>7, <3>1, HistoryFacts
      <3>3. history[n].t = T
        BY <1>5, <3>1, <3>2
      <3>4. QED
        BY <2>2, <3>3 DEF Logged
    <2>3. QED
      BY <1>5, <2>1, <2>2
  <1>13. View' = history[n].map
    <2>1. ASSUME NEW k \in Keys
          PROVE  View'[k] = history[n].map[k]
      <3>1. PICK v : v = history[n].map[k]
        OBVIOUS
      <3>2. SaysUpTo(k, T, v)
        BY <1>0, <1>2, <1>12, <3>1 DEF RecordsInv
      <3>3. Gives(L, k, v)
        BY <1>0, <1>4, <1>5, <3>2, SaysGives
      <3>4. View'[k] = IF keydir'[k].file \in L /\ keydir'[k].pos \in DOMAIN file[keydir'[k].file]
                       THEN file[keydir'[k].file][keydir'[k].pos].val ELSE Tombstone
        BY <1>1, <1>3 DEF View, ValueAt, Resolves
      <3>5. QED
        BY <1>0, <1>1, <1>3, <1>4, <3>1, <3>3, <3>4, ReplayView
    <2>2. history[n].map \in [Keys -> Values \cup {Tombstone}]
      BY <1>0, <1>6, HistoryFacts
    <2>3. QED
      BY <2>1, <2>2 DEF View
  <1>14. CurrentInv'
    <2>1. wpc' = "idle"
      BY <1>0, <1>1 DEF DirInv, OpenInv, Stopped
    <2>2. Logged(n)' /\ history'[n] = history[n]
      BY <1>1, <1>6, <1>12 DEF Logged
    <2>3. history[n].t <= lastTstamp'
      BY <1>2, <1>3, <1>5, <1>12
    <2>4. QED
      BY <1>6, <1>13, <2>1, <2>2, <2>3 DEF CurrentInv, Stamped
  <1>15. QED
    BY <1>1, <1>6, <1>9, <1>10, <1>11, <1>14

\* The burst's fsync makes stable all that callers are about to know: the
\* record is in the active segment, which is fsynced, or in one that was.
LEMMA SyncBurstAcked ==
  ASSUME StableInv, HistoryOK, PlacesInv, AckedInv, CurrentInv, SyncBurst
  PROVE  AckedInv' /\ acked' \in DOMAIN history
  <1>0. /\ mode = "up" /\ UNCHANGED <<allVars, history>> /\ file' = file /\ segFiles' = segFiles
    BY DEF SyncBurst, allVars, vars
  <1>1. CASE UNCHANGED <<disk, acked>>
    BY <1>0, <1>1 DEF AckedInv, HistoryOK
  <1>2. CASE acked' = Len(history) /\ Fsync({active})
    <2>1. Len(history) \in DOMAIN history
      BY HistoryFacts
    <2>2. Logged(Len(history))
      BY <1>0 DEF CurrentInv
    <2>3. ASSUME NEW i \in Ids, NEW p \in DOMAIN file[i], file[i][p].t = history[Len(history)].t
          PROVE  p \in DOMAIN disk'.file[i] /\ disk'.file[i][p].t = history[Len(history)].t
      <3>1. disk'.file[i] = IF i = active THEN file[i] ELSE disk.file[i]
        BY <1>0, <1>2, FsyncFacts DEF StableInv
      <3>2. CASE i = active
        BY <2>3, <3>1, <3>2
      <3>3. CASE i # active
        <4>1. file[i] # <<>> /\ i \in manifest.segs
          BY LogEntry DEF StableInv, PlacesInv
        <4>2. manifest.active # active => file[manifest.active] = <<>>
          BY <1>0 DEF StableInv, SyncInv, ContentsStable
        <4>3. i # manifest.active
          BY <3>3, <4>1, <4>2
        <4>4. file[i] = disk.file[i]
          BY <4>1, <4>3 DEF StableInv, SyncInv, ContentsStable
        <4>5. QED
          BY <2>3, <3>1, <3>3, <4>4
      <3>4. QED
        BY <3>2, <3>3
    <2>4. QED
      BY <1>0, <1>2, <2>1, <2>2, <2>3 DEF AckedInv, Logged
  <1>3. QED
    BY <1>1, <1>2 DEF SyncBurst

\* The log after an append: the record is the newest, and at its end.
LEMMA LogRecordFacts ==
  ASSUME StableInv, HintInv, DirInv', NoHints, HistoryInv, LogRecord
  PROVE  LET a == active  n == Len(file[active])  T == lastTstamp IN
         /\ a \in Ids /\ n \in Nat /\ T \in Nat /\ wreq \in Batches
         /\ Len(wreq) \in Nat \ {0} /\ DOMAIN wreq = 1 .. Len(wreq)
         /\ DOMAIN file[a] = 1 .. n /\ DOMAIN file'[a] = 1 .. n + Len(wreq)
         /\ Len(file'[a]) = n + Len(wreq)
         /\ \A i \in Ids : \A p \in DOMAIN file[i] :
              /\ p \in DOMAIN file'[i] /\ file'[i][p] = file[i][p]
              /\ file[i][p].t <= history[Len(history)].t /\ file[i][p].t < T
         /\ \A i \in Ids \ {a} : file'[i] = file[i]
         /\ \A l \in 1 .. Len(wreq) : file'[a][n + l] =
              [key |-> wreq[l].key, val |-> wreq[l].val, t |-> T]
         /\ \A p \in DOMAIN file'[a] : p \in 1 .. n \/ \E l \in 1 .. Len(wreq) : p = n + l
         /\ history[Len(history)].t < T
  <1>0. /\ CoreInv /\ DirInv /\ mode = "up" /\ AppendRecord /\ wpc = "append"
        /\ HistoryOK /\ RecordsInv /\ CurrentInv
    BY DEF HintInv, DirInv, LogRecord, AppendRecord, HistoryInv
  <1>1. PICK a, n, w, T : a = active /\ n = Len(file[active]) /\ w = wreq /\ T = lastTstamp
    OBVIOUS
  <1>2. /\ n \in Nat /\ w \in Batches /\ a \in Ids
        /\ DOMAIN file[a] = 1 .. n /\ DOMAIN file'[a] = 1 .. n + Len(w)
        /\ Len(file'[a]) = n + Len(w)
        /\ \A q \in 1 .. n : file'[a][q] = file[a][q]
        /\ \A l \in 1 .. Len(w) : file'[a][n + l] =
             [key |-> w[l].key, val |-> w[l].val, t |-> T]
    BY <1>0, <1>1, AppendFacts DEF CoreInv, TypeOK
  <1>3. Len(w) \in Nat \ {0} /\ DOMAIN w = 1 .. Len(w) /\ T \in Nat
    BY <1>0, <1>1, <1>2, RequestFacts DEF CoreInv, TypeOK
  <1>4. \A i \in Ids \ {a} : file'[i] = file[i]
    BY <1>0, <1>1 DEF AppendRecord, CoreInv, TypeOK
  <1>5. history[Len(history)].t < T /\ history[Len(history)].t \in Nat
    BY <1>0, <1>1, HistoryFacts DEF CurrentInv, Stamped
  <1>6. ASSUME NEW i \in Ids, NEW p \in DOMAIN file[i]
        PROVE  /\ p \in DOMAIN file'[i] /\ file'[i][p] = file[i][p]
               /\ file[i][p].t <= history[Len(history)].t /\ file[i][p].t < T
    <2>1. p \in DOMAIN file'[i] /\ file'[i][p] = file[i][p]
      <3>1. CASE i = a
        BY <1>2, <1>3, <3>1
      <3>2. CASE i # a
        BY <1>4, <3>2
      <3>3. QED
        BY <3>1, <3>2
    <2>2. PICK m \in 1 .. Len(history) : history[m].t = file[i][p].t
      BY <1>0, HistoryFacts DEF RecordsInv
    <2>3. history[m].t <= history[Len(history)].t /\ history[m].t \in Nat
      BY <1>0, HistoryFacts
    <2>4. QED
      BY <1>3, <1>5, <2>1, <2>2, <2>3
  <1>7. ASSUME NEW p \in DOMAIN file'[a]
        PROVE  p \in 1 .. n \/ \E l \in 1 .. Len(w) : p = n + l
    <2>1. p \in 1 .. n \/ p - n \in 1 .. Len(w)
      BY <1>2, <1>3
    <2>2. QED
      BY <1>2, <2>1
  <1>8. QED
    BY <1>1, <1>2, <1>3, <1>4, <1>5, <1>6, <1>7

\* The segment that is appended to is live everywhere, and the last.
LEMMA LogRecordPlaces ==
  ASSUME StableInv, HintInv, DirInv', NoHints, HistoryInv, LogRecord
  PROVE  PlacesInv' /\ SortedInv' /\ \A i \in Ids : disk'.file[i] = disk.file[i]
  <1>0. /\ CoreInv /\ DirInv /\ DTypeOK /\ SyncInv /\ mode = "up" /\ AppendRecord
        /\ PlacesInv /\ SortedInv
    BY DEF HintInv, DirInv, LogRecord, StableInv, HistoryInv
  <1>1. PICK a, n, T : a = active /\ n = Len(file[active]) /\ T = lastTstamp
    OBVIOUS
  <1>2. /\ a \in Ids /\ n \in Nat /\ T \in Nat /\ Len(wreq) \in Nat \ {0}
        /\ Len(file'[a]) = n + Len(wreq)
        /\ \A i \in Ids : \A p \in DOMAIN file[i] :
             p \in DOMAIN file'[i] /\ file'[i][p] = file[i][p] /\ file[i][p].t < T
        /\ \A i \in Ids \ {a} : file'[i] = file[i]
        /\ \A l \in 1 .. Len(wreq) : file'[a][n + l] =
             [key |-> wreq[l].key, val |-> wreq[l].val, t |-> T]
        /\ DOMAIN file[a] = 1 .. n
        /\ \A p \in DOMAIN file'[a] : p \in 1 .. n \/ \E l \in 1 .. Len(wreq) : p = n + l
    BY <1>1, LogRecordFacts
  <1>3. /\ UNCHANGED <<segFiles, manifest, segments, active, next, mode>> /\ Fsync({})
        /\ wpc = "append"
    BY <1>0 DEF LogRecord, AppendRecord
  <1>4. /\ disk'.manifest = disk.manifest /\ \A i \in Ids : disk'.file[i] = disk.file[i]
    BY <1>0, <1>3, FsyncFacts
  <1>5. /\ manifest = [segs |-> segments, active |-> a] /\ a \in segments /\ next = NoSeg
        /\ disk.manifest.active = a /\ a \in disk.manifest.segs
    <2>1. ~writesDisabled /\ next = NoSeg
      BY <1>0, <1>3 DEF CoreInv, ControlInv
    <2>2. manifest = [segs |-> segments, active |-> active] /\ active \in segments
      BY <1>0, <1>3, <2>1, UpFacts DEF Publishing
    <2>3. disk.manifest.active = active /\ disk.manifest # NoManifest
          /\ disk.manifest.active \in disk.manifest.segs
      BY <1>0, <2>2 DEF SyncInv, ManifestStable
    <2>4. QED
      BY <1>1, <2>1, <2>2, <2>3
  <1>6. PlacesInv'
    <2> SUFFICES ASSUME NEW i \in Ids
                 PROVE  /\ file'[i] # <<>> =>
                             /\ i \in manifest'.segs \cap disk'.manifest.segs
                             /\ i <= manifest'.active /\ i <= disk'.manifest.active
                             /\ mode' # "down" => i \in segments' /\ (active' # NoSeg => i <= active')
                             /\ next' # NoSeg => i < next'
                        /\ Len(disk'.file[i]) <= Len(file'[i])
                        /\ \A p \in DOMAIN disk'.file[i] : disk'.file[i][p] = file'[i][p]
      BY DEF PlacesInv
    <2>1. /\ file[i] # <<>> =>
               /\ i \in manifest.segs \cap disk.manifest.segs
               /\ i <= manifest.active /\ i <= disk.manifest.active
               /\ i \in segments /\ (active # NoSeg => i <= active)
               /\ next # NoSeg => i < next
          /\ Len(disk.file[i]) <= Len(file[i])
          /\ \A p \in DOMAIN disk.file[i] : disk.file[i][p] = file[i][p]
      BY <1>0 DEF PlacesInv
    <2>2. CASE i # a
      BY <1>2, <1>3, <1>4, <2>1, <2>2
    <2>3. CASE i = a
      <3>1. a <= a /\ Len(disk.file[a]) \in Nat
        <4>1. disk.file[a] \in Seq(Entry) /\ a \in Nat
          BY <1>0, <1>2, IdFacts DEF DTypeOK
        <4>2. QED
          BY <4>1
      <3>2. Len(disk'.file[a]) <= Len(file'[a])
        BY <1>1, <1>2, <1>4, <2>1, <2>3, <3>1
      <3>3. \A p \in DOMAIN disk'.file[a] : disk'.file[a][p] = file'[a][p]
        BY <1>0, <1>2, <1>4, <2>3, StablePosition
      <3>4. QED
        BY <1>1, <1>3, <1>4, <1>5, <2>3, <3>1, <3>2, <3>3
    <2>4. QED
      BY <2>2, <2>3
  <1>7. SortedInv'
    <2> SUFFICES ASSUME NEW i \in Ids, NEW j \in Ids, NEW p \in DOMAIN file'[i], NEW q \in DOMAIN file'[j]
                 PROVE  /\ i < j => file'[i][p].t < file'[j][q].t
                        /\ i = j /\ p <= q => file'[i][p].t <= file'[j][q].t
      BY DEF SortedInv
    <2>n. i \in Nat /\ j \in Nat /\ a \in Nat
      <3>1. a \in Ids
        BY <1>2
      <3>2. QED
        BY <3>1, IdFacts
    <2>m. \A x \in Ids : \A r \in DOMAIN file'[x] : r \notin DOMAIN file[x] =>
            x = a /\ file'[x][r].t = T /\ \E l \in 1 .. Len(wreq) : r = n + l
      <3> SUFFICES ASSUME NEW x \in Ids, NEW r \in DOMAIN file'[x], r \notin DOMAIN file[x]
                   PROVE  x = a /\ file'[x][r].t = T /\ \E l \in 1 .. Len(wreq) : r = n + l
        OBVIOUS
      <3>1. x = a
        BY <1>2
      <3>2. PICK l \in 1 .. Len(wreq) : r = n + l
        BY <1>2, <3>1
      <3>3. file'[x][r] = [key |-> wreq[l].key, val |-> wreq[l].val, t |-> T]
        BY <1>2, <3>1, <3>2
      <3>4. QED
        BY <3>1, <3>2, <3>3
    <2>1. CASE p \in DOMAIN file[i] /\ q \in DOMAIN file[j]
      BY <1>0, <1>2, <2>1 DEF SortedInv
    <2>2. CASE p \in DOMAIN file[i] /\ q \notin DOMAIN file[j]
      <3>1. j = a /\ file'[j][q].t = T
        BY <2>2, <2>m
      <3>2. file'[i][p].t < T /\ file'[i][p].t \in Nat
        BY <1>0, <1>2, <2>2, LogEntry
      <3>3. QED
        BY <1>2, <3>1, <3>2
    <2>3. CASE p \notin DOMAIN file[i] /\ q \in DOMAIN file[j]
      <3>1. i = a /\ \E l \in 1 .. Len(wreq) : p = n + l
        BY <2>3, <2>m
      <3>2. j <= a
        BY <1>0, <1>1, <1>5, <2>3, LogEntry DEF PlacesInv
      <3>3. j = a => q \in 1 .. n
        BY <1>2, <2>3
      <3>4. ~(i < j)
        BY <2>n, <3>1, <3>2
      <3>5. ~(i = j /\ p <= q)
        BY <1>2, <3>1, <3>3
      <3>6. QED
        BY <3>4, <3>5
    <2>4. CASE p \notin DOMAIN file[i] /\ q \notin DOMAIN file[j]
      <3>1. i = a /\ j = a /\ file'[i][p].t = T /\ file'[j][q].t = T
        BY <2>4, <2>m
      <3>2. QED
        BY <1>2, <2>n, <3>1
    <2>5. QED
      BY <2>1, <2>2, <2>3, <2>4
  <1>8. QED
    BY <1>4, <1>6, <1>7

\* The history after an append has one more record.
LEMMA LogRecordGrows ==
  ASSUME StableInv, HintInv, DirInv', NoHints, HistoryInv, LogRecord
  PROVE  LET N == Len(history) IN
         /\ acked' = acked /\ Len(history') = N + 1 /\ DOMAIN history' = 1 .. N + 1
         /\ \A m \in 1 .. N : history'[m] = history[m]
         /\ history'[N + 1].t = lastTstamp
         /\ history'[N + 1].map = Store!ApplyOps(history[N].map, wreq)
         /\ HistoryOK'
  <1> DEFINE R == [t : Nat, map : [Keys -> Values \cup {Tombstone}]]
  <1>0. HistoryOK
    BY DEF HistoryInv
  <1>1. PICK N : N = Len(history)
    OBVIOUS
  <1>2. PICK r : r = [t |-> lastTstamp, map |-> Store!ApplyOps(history[N].map, wreq)]
    OBVIOUS
  <1>3. history' = Append(history, r) /\ acked' = acked
    BY <1>1, <1>2 DEF LogRecord, Last
  <1>4. r \in R
    <2>1. lastTstamp \in Nat /\ wreq \in Batches
      BY LogRecordFacts
    <2>2. history[N].map \in [Keys -> Values \cup {Tombstone}]
      BY <1>0, <1>1, HistoryFacts
    <2>3. \A k \in Keys : Store!Touches(wreq, k) =>
            wreq[Store!LastOp(wreq, k)].val \in Values \cup {Tombstone}
      BY <2>1, LastOpFacts, RequestFacts
    <2>4. Store!ApplyOps(history[N].map, wreq) \in [Keys -> Values \cup {Tombstone}]
      BY <2>2, <2>3 DEF Store!ApplyOps
    <2>5. QED
      BY <1>2, <2>1, <2>4
  <1>5. history \in Seq(R) /\ acked \in DOMAIN history
    BY <1>0 DEF HistoryOK
  <1>6. /\ N \in Nat /\ N >= 1 /\ DOMAIN history = 1 .. N
        /\ \A m, n \in 1 .. N : m < n => history[m].t < history[n].t
        /\ \A m, n \in 1 .. N : m <= n => history[m].t <= history[n].t
        /\ \A m \in 1 .. N : history[m].t \in Nat
    BY <1>0, <1>1, HistoryFacts
  <1>7. /\ history' \in Seq(R) /\ Len(history') = N + 1 /\ DOMAIN history' = 1 .. N + 1
        /\ history'[N + 1] = r /\ \A m \in 1 .. N : history'[m] = history[m]
    <2> HIDE DEF R
    <2>1. QED
      BY <1>1, <1>3, <1>4, <1>5, <1>6
  <1>8. history[N].t < r.t /\ r.t \in Nat
    BY <1>1, <1>2, LogRecordFacts
  <1>9. ASSUME NEW m \in 1 .. N + 1, NEW n \in 1 .. N + 1, m < n
        PROVE  history'[m].t < history'[n].t
    <2>1. m \in 1 .. N
      BY <1>6, <1>9
    <2>2. CASE n \in 1 .. N
      BY <1>6, <1>7, <1>9, <2>1, <2>2
    <2>3. CASE n = N + 1
      <3>1. history[m].t <= history[N].t /\ history[m].t \in Nat /\ history[N].t \in Nat
        BY <1>6, <2>1
      <3>2. history[m].t < r.t
        BY <1>8, <3>1
      <3>3. QED
        BY <1>7, <2>1, <2>3, <3>2
    <2>4. QED
      BY <1>6, <2>2, <2>3
  <1>10. history'[1] = [t |-> 0, map |-> EmptyMap]
    BY <1>0, <1>6, <1>7 DEF HistoryOK
  <1>11. acked' \in DOMAIN history'
    BY <1>3, <1>5, <1>6, <1>7
  <1>12. HistoryOK'
    BY <1>7, <1>9, <1>10, <1>11 DEF HistoryOK, EmptyMap
  <1>13. QED
    BY <1>1, <1>2, <1>3, <1>7, <1>12

\* Up to the new record the log says what the request makes of the last map.
LEMMA LogRecordSays ==
  ASSUME StableInv, HintInv, DirInv', NoHints, HistoryInv, LogRecord, NEW k \in Keys,
         NEW T, T = lastTstamp,
         NEW v, v = Store!ApplyOps(history[Len(history)].map, wreq)[k]
  PROVE  SaysUpTo(k, T, v)'
  <1>0. HistoryOK /\ RecordsInv /\ CurrentInv /\ mode = "up" /\ PlacesInv /\ AppendRecord /\ DirInv
    BY DEF HistoryInv, LogRecord, HintInv
  <1>1. PICK a, n, w, N : /\ a = active /\ n = Len(file[active])
                          /\ w = wreq /\ N = Len(history)
    OBVIOUS
  <1>2. /\ a \in Ids /\ n \in Nat /\ T \in Nat /\ w \in Batches
        /\ Len(w) \in Nat \ {0} /\ DOMAIN w = 1 .. Len(w)
        /\ DOMAIN file[a] = 1 .. n /\ DOMAIN file'[a] = 1 .. n + Len(w)
        /\ \A i \in Ids : \A p \in DOMAIN file[i] :
             /\ p \in DOMAIN file'[i] /\ file'[i][p] = file[i][p]
             /\ file[i][p].t <= history[N].t /\ file[i][p].t < T
        /\ \A i \in Ids \ {a} : file'[i] = file[i]
        /\ \A l \in 1 .. Len(w) : file'[a][n + l] =
             [key |-> w[l].key, val |-> w[l].val, t |-> T]
        /\ \A p \in DOMAIN file'[a] : p \in 1 .. n \/ \E l \in 1 .. Len(w) : p = n + l
        /\ history[N].t < T
    BY <1>1, LogRecordFacts
  <1>3. v = Store!ApplyOps(history[N].map, w)[k]
    BY <1>1
  <1>4. QED
    <2>1. CASE Store!Touches(w, k)
      <3>1. PICK l \in 1 .. Len(w) : l = Store!LastOp(w, k) /\ w[l].key = k
        BY <1>2, <2>1, LastOpFacts
      <3>2. \A x \in 1 .. Len(w) : w[x].key = k => x <= l
        BY <1>2, <2>1, <3>1, LastOpLast DEF Store!IsLastOp
      <3>3. PICK P : P = n + l
        OBVIOUS
      <3>4. /\ P \in DOMAIN file'[a] /\ file'[a][P] = [key |-> k, val |-> w[l].val, t |-> T]
        BY <1>2, <3>1, <3>3
      <3>5. v = w[l].val
        BY <1>3, <2>1, <3>1 DEF Store!ApplyOps
      <3>6. ASSUME NEW j \in Ids, NEW q \in DOMAIN file'[j], file'[j][q].key = k
            PROVE  j < a \/ (j = a /\ q <= P)
        <4>1. CASE j # a
          <5>1. file'[j] = file[j]
            BY <1>2, <4>1
          <5>2. j <= a
            BY <1>0, <1>1, <5>1, LogEntry, UpFacts, IdFacts DEF PlacesInv
          <5>3. j \in Nat /\ a \in Nat
            <6>1. a \in Ids
              BY <1>2
            <6>2. QED
              BY <6>1, IdFacts
          <5>4. QED
            BY <4>1, <5>2, <5>3
        <4>2. CASE j = a /\ q \in 1 .. n
          BY <1>2, <3>1, <3>3, <4>2
        <4>3. ASSUME j = a, NEW x \in 1 .. Len(w), q = n + x
              PROVE  q <= P
          <5>1. file'[j][q] = [key |-> w[x].key, val |-> w[x].val, t |-> T]
            BY <1>2, <4>3
          <5>2. x <= l
            BY <3>2, <3>6, <5>1
          <5>3. QED
            BY <1>2, <3>1, <3>3, <4>3, <5>2
        <4>4. QED
          BY <1>2, <3>6, <4>1, <4>2, <4>3
      <3>7. T <= T
        BY <1>2
      <3>8. LastUpTo(k, T, a, P)'
        <4>1. a \in Ids /\ file'[a][P].key = k /\ file'[a][P].t <= T
          BY <1>2, <3>4, <3>7
        <4>2. QED
          BY <3>4, <3>6, <4>1 DEF LastUpTo
      <3>9. a \in Ids /\ file'[a][P].val = v
        BY <1>2, <3>4, <3>5
      <3>10. QED
        BY <3>4, <3>8, <3>9 DEF SaysUpTo
    <2>2. CASE ~Store!Touches(w, k)
      <3>1. v = history[N].map[k]
        BY <1>3, <2>2 DEF Store!ApplyOps
      <3>2. SaysUpTo(k, history[N].t, v)
        BY <1>0, <1>1, <3>1, HistoryFacts DEF CurrentInv, RecordsInv
      <3>3. \A l \in 1 .. Len(w) : w[l].key # k
        BY <1>2, <2>2, TouchFacts
      <3>4. ASSUME NEW j \in Ids, NEW q \in DOMAIN file'[j], file'[j][q].key = k
            PROVE  q \in DOMAIN file[j]
        <4>1. CASE j # a
          BY <1>2, <4>1
        <4>2. ASSUME j = a, NEW x \in 1 .. Len(w), q = n + x
              PROVE  FALSE
          <5>1. file'[j][q] = [key |-> w[x].key, val |-> w[x].val, t |-> T]
            BY <1>2, <4>2
          <5>2. QED
            BY <3>3, <3>4, <5>1
        <4>3. CASE j = a
          <5>1. q \in 1 .. n
            BY <1>2, <3>4, <4>2, <4>3
          <5>2. QED
            BY <1>2, <4>3, <5>1
        <4>4. QED
          BY <4>1, <4>3
      <3>5. \A j \in Ids : \A q \in DOMAIN file[j] :
              q \in DOMAIN file'[j] /\ file'[j][q] = file[j][q] /\ file[j][q].t <= history[N].t
              /\ file[j][q].t <= T
        <4> SUFFICES ASSUME NEW j \in Ids, NEW q \in DOMAIN file[j]
                     PROVE  /\ q \in DOMAIN file'[j] /\ file'[j][q] = file[j][q]
                            /\ file[j][q].t <= history[N].t /\ file[j][q].t <= T
          OBVIOUS
        <4>1. file[j][q].t \in Nat
          BY <1>0, LogEntry
        <4>2. /\ q \in DOMAIN file'[j] /\ file'[j][q] = file[j][q]
              /\ file[j][q].t <= history[N].t /\ file[j][q].t < T /\ T \in Nat
          BY <1>2
        <4>3. QED
          BY <4>1, <4>2
      <3>6. CASE v = Tombstone /\ \A i \in Ids : \A p \in DOMAIN file[i] :
                   file[i][p].key = k => ~(file[i][p].t <= history[N].t)
        <4>1. \A i \in Ids : \A p \in DOMAIN file'[i] : file'[i][p].key = k => ~(file'[i][p].t <= T)
          BY <3>4, <3>5, <3>6
        <4>2. QED
          BY <3>6, <4>1 DEF SaysUpTo
      <3>7. ASSUME NEW i \in Ids, NEW p \in DOMAIN file[i], LastUpTo(k, history[N].t, i, p),
                   v = file[i][p].val
            PROVE  SaysUpTo(k, T, v)'
        <4>1. p \in DOMAIN file'[i] /\ file'[i][p] = file[i][p] /\ file'[i][p].t <= T
              /\ file'[i][p].key = k
          BY <3>5, <3>7 DEF LastUpTo
        <4>2. \A j \in Ids : \A q \in DOMAIN file'[j] : file'[j][q].key = k =>
                j < i \/ (j = i /\ q <= p)
          BY <3>4, <3>5, <3>7 DEF LastUpTo
        <4>3. LastUpTo(k, T, i, p)'
          BY <4>1, <4>2 DEF LastUpTo
        <4>4. QED
          BY <3>7, <4>1, <4>3 DEF SaysUpTo
      <3>8. QED
        BY <3>2, <3>6, <3>7 DEF SaysUpTo
    <2>3. QED
      BY <2>1, <2>2

\* The history and the log go on together: LogRecord.
LEMMA LogRecordHistory ==
  ASSUME StableInv, HintInv, DirInv', NoHints, HistoryInv, LogRecord
  PROVE  RecordsInv' /\ CurrentInv'
  <1>0. /\ HistoryOK /\ RecordsInv /\ CurrentInv /\ DirInv /\ mode = "up" /\ AppendRecord
        /\ CoreInv /\ RTypeOK /\ KeydirResolves
    BY DEF HistoryInv, LogRecord, HintInv, DirInv, DataInv
  <1>1. PICK a, n, T, w, N : /\ a = active /\ n = Len(file[active]) /\ T = lastTstamp
                             /\ w = wreq /\ N = Len(history)
    OBVIOUS
  <1>2. /\ a \in Ids /\ n \in Nat /\ T \in Nat /\ Len(w) \in Nat \ {0}
        /\ \A i \in Ids : \A p \in DOMAIN file[i] :
             p \in DOMAIN file'[i] /\ file'[i][p] = file[i][p] /\ file[i][p].t < T
        /\ \A i \in Ids \ {a} : file'[i] = file[i]
        /\ \A l \in 1 .. Len(w) : file'[a][n + l] =
             [key |-> w[l].key, val |-> w[l].val, t |-> T]
        /\ DOMAIN file[a] = 1 .. n /\ DOMAIN file'[a] = 1 .. n + Len(w)
        /\ \A p \in DOMAIN file'[a] : p \in 1 .. n \/ \E l \in 1 .. Len(w) : p = n + l
        /\ history[N].t < T
    BY <1>1, LogRecordFacts
  <1>3. /\ acked' = acked /\ Len(history') = N + 1 /\ DOMAIN history' = 1 .. N + 1
        /\ \A m \in 1 .. N : history'[m] = history[m]
        /\ history'[N + 1].t = T
        /\ history'[N + 1].map = Store!ApplyOps(history[N].map, w)
    BY <1>1, LogRecordGrows
  <1>4. /\ N \in Nat /\ N >= 1 /\ DOMAIN history = 1 .. N /\ acked \in 1 .. N
        /\ \A m \in 1 .. N : history[m].t \in Nat /\ history[m].t <= history[N].t
    BY <1>0, <1>1, HistoryFacts
  <1>5. ASSUME NEW i \in Ids, NEW p \in DOMAIN file'[i], p \notin DOMAIN file[i]
        PROVE  i = a /\ file'[i][p].t = T
    <2>1. i = a
      BY <1>2, <1>5
    <2>2. PICK l \in 1 .. Len(w) : p = n + l
      BY <1>2, <1>5, <2>1
    <2>3. file'[i][p] = [key |-> w[l].key, val |-> w[l].val, t |-> T]
      BY <1>2, <2>1, <2>2
    <2>4. QED
      BY <2>1, <2>3
  <1>6. ASSUME NEW i \in Ids, NEW p \in DOMAIN file'[i]
        PROVE  \E m \in DOMAIN history' : m # 1 /\ history'[m].t = file'[i][p].t
    <2>1. CASE p \in DOMAIN file[i]
      <3>1. PICK m \in 1 .. N : m # 1 /\ history[m].t = file[i][p].t
        BY <1>0, <1>4, <2>1 DEF RecordsInv
      <3>2. file'[i][p] = file[i][p]
        BY <1>2, <2>1
      <3>3. m \in 1 .. N + 1 /\ history'[m].t = history[m].t
        BY <1>3, <1>4, <3>1
      <3>4. QED
        BY <1>3, <3>1, <3>2, <3>3
    <2>2. CASE p \notin DOMAIN file[i]
      <3>1. N + 1 \in DOMAIN history' /\ N + 1 # 1
        BY <1>3, <1>4
      <3>2. file'[i][p].t = T
        BY <1>5, <2>2
      <3>3. QED
        BY <1>3, <3>1, <3>2
    <2>3. QED
      BY <2>1, <2>2
  <1>7. ASSUME NEW m \in DOMAIN history', Logged(m)', NEW k \in Keys
        PROVE  SaysUpTo(k, history[m].t, history[m].map[k])'
    <2>1. PICK t, v : t = history'[m].t /\ v = history'[m].map[k]
      OBVIOUS
    <2>2. CASE m \in 1 .. N
      <3>1. t = history[m].t /\ v = history[m].map[k] /\ t < T
        <4>1. history'[m] = history[m] /\ history[m].t \in Nat /\ history[N].t \in Nat
              /\ history[m].t <= history[N].t
          BY <1>3, <1>4, <2>2
        <4>2. QED
          BY <1>2, <2>1, <4>1
      <3>2. \A i \in Ids : \A p \in DOMAIN file'[i] : file'[i][p].t <= t =>
              p \in DOMAIN file[i] /\ file'[i][p] = file[i][p]
        <4> SUFFICES ASSUME NEW i \in Ids, NEW p \in DOMAIN file'[i], file'[i][p].t <= t
                     PROVE  p \in DOMAIN file[i] /\ file'[i][p] = file[i][p]
          OBVIOUS
        <4>1. t \in Nat
          BY <1>4, <2>2, <3>1
        <4>2. ~(T <= t)
          BY <1>2, <3>1, <4>1
        <4>3. p \in DOMAIN file[i]
          BY <1>5, <4>2
        <4>4. QED
          BY <1>2, <4>3
      <3>3. Logged(m)
        <4>1. CASE m = 1
          BY <4>1 DEF Logged
        <4>2. ASSUME NEW i \in Ids, NEW p \in DOMAIN file'[i], file'[i][p].t = history'[m].t
              PROVE  Logged(m)
          <5>1. t \in Nat
            BY <1>4, <2>2, <3>1
          <5>2. file'[i][p].t <= t
            BY <2>1, <4>2, <5>1
          <5>3. p \in DOMAIN file[i] /\ file'[i][p] = file[i][p]
            BY <3>2, <5>2
          <5>4. file[i][p].t = history[m].t
            BY <2>1, <3>1, <4>2, <5>3
          <5>5. QED
            BY <5>3, <5>4 DEF Logged
        <4>3. QED
          BY <1>7, <4>1, <4>2 DEF Logged
      <3>4. SaysUpTo(k, t, v)
        BY <1>0, <1>4, <2>2, <3>1, <3>3 DEF RecordsInv
      <3>5. \A i \in Ids : \A p \in DOMAIN file[i] : file[i][p].t <= t =>
              p \in DOMAIN file'[i] /\ file'[i][p] = file[i][p]
        BY <1>2
      <3>6. SaysUpTo(k, t, v)'
        BY <3>2, <3>4, <3>5, SaysFrame
      <3>7. QED
        BY <2>1, <3>6
    <2>3. CASE m = N + 1
      <3>1. t = lastTstamp /\ v = Store!ApplyOps(history[Len(history)].map, wreq)[k]
        BY <1>1, <1>3, <2>1, <2>3
      <3>2. SaysUpTo(k, t, v)'
        BY <3>1, LogRecordSays
      <3>3. QED
        BY <2>1, <3>2
    <2>4. QED
      BY <1>3, <1>4, <2>2, <2>3
  <1>8. RecordsInv'
    BY <1>6, <1>7 DEF RecordsInv
  <1>9. CurrentInv'
    <2>1. /\ UNCHANGED <<keydir, segments, lastTstamp, wreq>> /\ wpc = "append" /\ wpc' = "keydir"
      BY <1>0 DEF AppendRecord
    <2>2. View' = View
      <3>1. segments \subseteq Ids /\ segments \subseteq segments'
        BY <1>0, <2>1 DEF CoreInv, TypeOK
      <3>2. NoEntry.pos \notin DOMAIN file'[NoEntry.file]
        <4>1. file' \in [Ids -> Seq(Entry)]
          BY DEF DirInv, RTypeOK
        <4>2. NoEntry.pos = 0 /\ file'[NoEntry.file] \in Seq(Entry)
          BY <4>1, IdFacts DEF NoEntry
        <4>3. QED
          BY <4>2
      <3>3. \A i \in segments : \A p \in DOMAIN file[i] :
              p \in DOMAIN file'[i] /\ file'[i][p] = file[i][p]
        BY <1>2, <3>1
      <3>4. QED
        BY <1>0, <2>1, <3>1, <3>2, <3>3, ViewKept
    <2>3. View = history[N].map
      BY <1>0, <1>1, <2>1 DEF CurrentInv
    <2>4. Logged(N + 1)'
      <3>1. n + 1 \in DOMAIN file'[a] /\ 1 \in 1 .. Len(w)
        BY <1>2
      <3>2. file'[a][n + 1] = [key |-> w[1].key, val |-> w[1].val, t |-> T]
        BY <1>2, <3>1
      <3>3. a \in Ids /\ file'[a][n + 1].t = history'[N + 1].t
        BY <1>2, <1>3, <3>2
      <3>4. QED
        BY <3>1, <3>3 DEF Logged
    <2>5. /\ history'[N + 1].t <= lastTstamp' /\ ~Stamped'
      BY <1>1, <1>2, <1>3, <2>1 DEF Stamped
    <2>6. /\ acked' < N + 1 /\ N + 1 - 1 = N /\ history'[N] = history[N]
      BY <1>3, <1>4
    <2>7. PICK M : M = N + 1
      OBVIOUS
    <2>8. /\ M = Len(history') /\ M - 1 = N
      <3>1. M - 1 = N
        BY <1>4, <2>7
      <3>2. Len(history') = N + 1
        BY <1>3
      <3>3. QED
        BY <2>7, <3>1, <3>2
    <2>9. /\ View' = history'[M - 1].map /\ acked' < M
          /\ history'[M].map = Store!ApplyOps(history'[M - 1].map, wreq')
          /\ Logged(M)' /\ history'[M].t <= lastTstamp'
      <3>1. View' = history'[M - 1].map /\ acked' < M /\ history'[M].t <= lastTstamp'
        BY <2>2, <2>3, <2>5, <2>6, <2>7, <2>8
      <3>2. history'[M].map = Store!ApplyOps(history'[M - 1].map, wreq')
        BY <1>1, <1>3, <2>1, <2>6, <2>7, <2>8
      <3>3. Logged(M)'
        BY <2>4, <2>7
      <3>4. QED
        BY <3>1, <3>2, <3>3
    <2>10. QED
      BY <2>1, <2>5, <2>8, <2>9
         DEF CurrentInv, Store!ApplyOps, Store!Touches, Store!LastOp, Store!IsLastOp
  <1>10. QED
    BY <1>8, <1>9

\* A power failure cuts the end of the log, between two records.
LEMMA PowerLossCut ==
  ASSUME WindowsShut, StableInv, PlacesInv, SortedInv, PowerLoss
  PROVE  /\ \A i \in Ids : \A p \in DOMAIN file'[i] :
              p \in DOMAIN file[i] /\ file'[i][p] = file[i][p]
         /\ \A i \in Ids : \A p \in DOMAIN disk.file[i] :
              p \in DOMAIN file'[i] /\ file'[i][p] = disk.file[i][p]
         /\ \A i, j \in Ids : \A p \in DOMAIN file'[i] : \A q \in DOMAIN file[j] \ DOMAIN file'[j] :
              file[i][p].t < file[j][q].t
  <1>0. DirInv /\ DTypeOK /\ SyncInv
    BY DEF StableInv
  <1>1. /\ manifest.segs \cup disk.manifest.segs \subseteq segFiles'
        /\ \A i \in Ids : i # manifest.active =>
             /\ file'[i] = IF i \in segFiles' THEN disk.file[i] ELSE <<>>
             /\ i \in manifest.segs \cup disk.manifest.segs => file[i] = disk.file[i]
        /\ manifest # NoManifest =>
             \E n \in Cuts(manifest.active) :
                file'[manifest.active] = SubSeq(file[manifest.active], 1, n)
    BY <1>0, PowerLossFacts
  <1>2. \A i \in Ids : i # manifest.active => file'[i] = file[i] /\ disk.file[i] = file[i]
    <2> SUFFICES ASSUME NEW i \in Ids, i # manifest.active
                 PROVE  file'[i] = file[i] /\ disk.file[i] = file[i]
      OBVIOUS
    <2>1. CASE i \in manifest.segs
      BY <1>1, <2>1
    <2>2. CASE i \notin manifest.segs
      <3>1. file[i] = <<>> /\ disk.file[i] = <<>>
        BY <1>0, <2>2, PlacesFacts DEF PlacesInv
      <3>2. QED
        BY <1>1, <3>1
    <2>3. QED
      BY <2>1, <2>2
  <1>3. CASE manifest.active \notin Ids
    BY <1>0, <1>2, <1>3, StablePosition
  <1>4. CASE manifest.active \in Ids
    <2>1. PICK a : a = manifest.active
      OBVIOUS
    <2>2. a \in Ids /\ manifest # NoManifest
      BY <1>4, <2>1, IdFacts DEF NoManifest
    <2>3. PICK n \in Cuts(a) : file'[a] = SubSeq(file[a], 1, n)
      BY <1>1, <2>1, <2>2
    <2>4. /\ file[a] \in Seq(Entry) /\ disk.file[a] \in Seq(Entry)
          /\ Len(file[a]) \in Nat /\ Len(disk.file[a]) \in Nat
          /\ DOMAIN file[a] = 1 .. Len(file[a]) /\ DOMAIN disk.file[a] = 1 .. Len(disk.file[a])
      BY <1>0, <2>2 DEF DirInv, RTypeOK, DTypeOK
    <2>5. /\ n \in Len(disk.file[a]) .. Len(file[a]) /\ n \in Nat
          /\ n \in 1 .. Len(file[a]) - 1 => file[a][n].t # file[a][n + 1].t
      BY <2>3, <2>4 DEF Cuts
    <2>6. DOMAIN file'[a] = 1 .. n /\ \A p \in 1 .. n : p \in DOMAIN file[a] /\ file'[a][p] = file[a][p]
      BY <2>3, <2>4, <2>5
    <2>7. ASSUME NEW i \in Ids, NEW p \in DOMAIN file'[i]
          PROVE  p \in DOMAIN file[i] /\ file'[i][p] = file[i][p]
      BY <1>2, <2>1, <2>6
    <2>8. ASSUME NEW i \in Ids, NEW p \in DOMAIN disk.file[i]
          PROVE  p \in DOMAIN file'[i] /\ file'[i][p] = disk.file[i][p]
      <3>1. CASE i # a
        BY <1>2, <2>1, <3>1
      <3>2. CASE i = a
        <4>1. p \in DOMAIN file[a] /\ file[a][p] = disk.file[a][p]
          BY <1>0, <2>2, <3>2, StablePosition
        <4>2. p \in 1 .. n
          BY <2>4, <2>5, <3>2
        <4>3. QED
          BY <2>6, <3>2, <4>1, <4>2
      <3>3. QED
        BY <3>1, <3>2
    <2>9. ASSUME NEW i \in Ids, NEW j \in Ids, NEW p \in DOMAIN file'[i],
                 NEW q \in DOMAIN file[j] \ DOMAIN file'[j]
          PROVE  file[i][p].t < file[j][q].t
      <3>1. j = a /\ q \in DOMAIN file[a] /\ q \notin 1 .. n
        BY <1>2, <2>1, <2>6
      <3>2. q \in Nat /\ q > n /\ q <= Len(file[a])
        BY <2>4, <2>5, <3>1
      <3>3. p \in DOMAIN file[i] /\ file[i][p].t \in Nat /\ file[a][q].t \in Nat
        <4>1. p \in DOMAIN file[i]
          BY <2>7
        <4>2. QED
          BY <1>0, <2>2, <3>1, <4>1, LogEntry
      <3>4. i <= a /\ i \in Nat /\ a \in Nat
        <4>1. file[i] # <<>> /\ i \in Nat
          BY <1>0, <3>3, LogEntry
        <4>2. QED
          BY <1>0, <2>1, <2>2, <4>1, IdFacts DEF PlacesInv
      <3>5. CASE i # a
        <4>1. i < a
          BY <3>4, <3>5
        <4>2. QED
          BY <2>2, <3>1, <3>3, <4>1 DEF SortedInv
      <3>6. CASE i = a
        <4>1. p \in 1 .. n
          BY <2>6, <3>6
        <4>2. /\ n \in 1 .. Len(file[a]) - 1 /\ n \in DOMAIN file[a] /\ n + 1 \in DOMAIN file[a]
              /\ p <= n /\ n <= n + 1 /\ n + 1 <= q
          BY <2>4, <2>5, <3>2, <4>1
        <4>3. /\ file[a][p].t <= file[a][n].t /\ file[a][n].t <= file[a][n + 1].t
              /\ file[a][n + 1].t <= file[a][q].t
          BY <2>2, <3>1, <3>3, <3>6, <4>2 DEF SortedInv
        <4>4. file[a][n].t \in Nat /\ file[a][n + 1].t \in Nat
          BY <1>0, <2>2, <4>2, LogEntry
        <4>5. file[a][n].t # file[a][n + 1].t
          BY <2>5, <4>2
        <4>6. QED
          BY <3>1, <3>3, <3>6, <4>3, <4>4, <4>5
      <3>7. QED
        BY <3>5, <3>6
    <2>10. QED
      BY <2>7, <2>8, <2>9
  <1>5. QED
    BY <1>3, <1>4

\* What is left of the log after a power failure is still the history of the
\* writes, up to a record, and all of it that callers know of.
LEMMA PowerLossHistory ==
  ASSUME WindowsShut, StableInv, DirInv', HistoryInv, PowerLoss
  PROVE  HistoryInv'
  <1>0. /\ DirInv /\ DTypeOK /\ SyncInv
        /\ HistoryOK /\ PlacesInv /\ SortedInv /\ RecordsInv /\ AckedInv
    BY DEF StableInv, HistoryInv
  <1>1. /\ mode' = "down" /\ history' = history /\ acked' = acked /\ next' = NoSeg
        /\ disk'.file = file' /\ disk'.manifest = manifest'
        /\ manifest' \in {manifest, disk.manifest}
    BY DEF PowerLoss, ResetMemory, ackVars
  <1>2. \A i \in Ids : \A p \in DOMAIN file'[i] : p \in DOMAIN file[i] /\ file'[i][p] = file[i][p]
    BY <1>0, PowerLossCut
  <1>3. \A i \in Ids : \A p \in DOMAIN disk.file[i] :
          p \in DOMAIN file'[i] /\ file'[i][p] = disk.file[i][p]
    BY <1>0, PowerLossCut
  <1>4. \A i, j \in Ids : \A p \in DOMAIN file'[i] : \A q \in DOMAIN file[j] \ DOMAIN file'[j] :
          file[i][p].t < file[j][q].t
    BY <1>0, PowerLossCut
  <1>5. HistoryOK' /\ CurrentInv'
    BY <1>0, <1>1 DEF HistoryOK, CurrentInv, EmptyMap
  <1>6. SortedInv'
    BY <1>0, <1>2 DEF SortedInv
  <1>7. PlacesInv'
    <2> SUFFICES ASSUME NEW i \in Ids
                 PROVE  /\ file'[i] # <<>> =>
                             /\ i \in manifest'.segs \cap disk'.manifest.segs
                             /\ i <= manifest'.active /\ i <= disk'.manifest.active
                        /\ Len(disk'.file[i]) <= Len(file'[i])
                        /\ \A p \in DOMAIN disk'.file[i] : disk'.file[i][p] = file'[i][p]
      BY <1>1 DEF PlacesInv
    <2>1. file'[i] \in Seq(Entry) /\ file[i] \in Seq(Entry)
      BY <1>0 DEF DirInv, RTypeOK
    <2>2. file'[i] # <<>> => file[i] # <<>>
      <3> SUFFICES ASSUME file'[i] # <<>>
                   PROVE  file[i] # <<>>
        OBVIOUS
      <3>1. 1 \in DOMAIN file'[i]
        BY <2>1
      <3>2. QED
        BY <1>2, <3>1
    <2>3. file[i] # <<>> => /\ i \in manifest.segs \cap disk.manifest.segs
                            /\ i <= manifest.active /\ i <= disk.manifest.active
      BY <1>0 DEF PlacesInv
    <2>4. Len(file'[i]) <= Len(file'[i])
      BY <2>1
    <2>5. QED
      BY <1>1, <2>2, <2>3, <2>4
  <1>8. AckedInv'
    BY <1>0, <1>1, <1>3 DEF AckedInv
  <1>9. RecordsInv'
    <2>1. \A i \in Ids : \A p \in DOMAIN file'[i] :
            \E m \in DOMAIN history' : m # 1 /\ history'[m].t = file'[i][p].t
      BY <1>0, <1>1, <1>2 DEF RecordsInv
    <2>2. ASSUME NEW m \in DOMAIN history', Logged(m)', NEW k \in Keys
          PROVE  SaysUpTo(k, history[m].t, history[m].map[k])'
      <3>1. PICK t, v : t = history[m].t /\ v = history[m].map[k]
        OBVIOUS
      <3>2. Logged(m) /\ m \in DOMAIN history
        BY <1>1, <1>2, <2>2 DEF Logged
      <3>3. SaysUpTo(k, t, v)
        BY <1>0, <3>1, <3>2 DEF RecordsInv
      <3>4. ASSUME NEW j \in Ids, NEW q \in DOMAIN file[j], q \notin DOMAIN file'[j]
            PROVE  ~(file[j][q].t <= t)
        <4>1. file[j][q].t \in Nat /\ t \in Nat
          BY <1>0, <3>1, <3>2, LogEntry, HistoryFacts
        <4>2. CASE m = 1
          <5>1. PICK x \in 1 .. Len(history) : x > 1 /\ history[x].t = file[j][q].t
            BY <1>0, EntryRecord, HistoryFacts
          <5>2. t < history[x].t
            <6>1. 1 \in 1 .. Len(history)
              BY <1>0, HistoryFacts
            <6>2. QED
              BY <1>0, <3>1, <4>2, <5>1, <6>1, HistoryFacts
          <5>3. QED
            BY <4>1, <5>1, <5>2
        <4>3. ASSUME NEW i \in Ids, NEW p \in DOMAIN file'[i], file'[i][p].t = history'[m].t
              PROVE  ~(file[j][q].t <= t)
          <5>1. file[i][p].t = t
            BY <1>1, <1>2, <3>1, <4>3
          <5>2. t < file[j][q].t
            BY <1>4, <3>4, <5>1
          <5>3. QED
            BY <4>1, <5>2
        <4>4. QED
          BY <2>2, <4>2, <4>3 DEF Logged
      <3>5. SaysUpTo(k, t, v)'
        <4>1. \A i \in Ids : \A p \in DOMAIN file[i] : file[i][p].t <= t =>
                p \in DOMAIN file'[i] /\ file'[i][p] = file[i][p]
          BY <1>2, <3>4
        <4>2. \A i \in Ids : \A p \in DOMAIN file'[i] : file'[i][p].t <= t =>
                p \in DOMAIN file[i] /\ file'[i][p] = file[i][p]
          BY <1>2
        <4>3. QED
          BY <3>3, <4>1, <4>2, SaysFrame
      <3>6. QED
        BY <1>1, <3>1, <3>5
    <2>3. QED
      BY <2>1, <2>2 DEF RecordsInv
  <1>10. QED
    BY <1>5, <1>6, <1>7, <1>8, <1>9 DEF HistoryInv

\* recover runs in Rebuild alone.
LEMMA OnlyRebuild ==
  ASSUME [DNext]_durVars, ~PowerLoss, ~LogRecord, mode = "down", mode' # "down"
  PROVE  Rebuild
  BY DEF DNext, durVars, allVars, recVars, Unsynced, BeginWrite, SyncBurst, Seal, CommitRefused,
         RotateRename, RotateUnconfirmed, ManifestSynced, Merge, CommitRename, CommitInBurst,
         OpenRename, OpenRenameFail, ProcessEnds, OpenFresh, OpenDone, SweepOne, OpenManifest,
         OpenManifestFail, Kill

\* Hints, where there are none.
LEMMA PowerLossHints ==
  ASSUME DirInv', NoHints, disk.hintFiles = {}, PowerLoss
  PROVE  HintInv' /\ NoHints' /\ disk'.hintFiles = {}
  <1>1. /\ mode' = "down" /\ hintFiles' = {} /\ disk'.hintFiles = hintFiles'
        /\ cpc' = "idle" /\ newSeg' = NoSeg /\ wpc' = "idle"
    BY DEF PowerLoss, ResetMemory, ResetCompactor, NoHints
  <1>2. HintFilesInv'
    BY <1>1 DEF HintFilesInv, Publishing
  <1>3. QED
    BY <1>1, <1>2 DEF HintInv, NoHints, Opening

\* Every step keeps the log and the history in agreement.
LEMMA SurvivalStep ==
  ASSUME WindowsShut, ~Compaction, SurvivalInv, [DNext]_durVars
  PROVE  SurvivalInv'
  <1>0. /\ StableInv /\ HintInv /\ NoHints /\ disk.hintFiles = {} /\ HistoryInv
        /\ DirInv /\ DTypeOK
        /\ HistoryOK /\ PlacesInv /\ SortedInv /\ RecordsInv /\ AckedInv /\ CurrentInv
    BY DEF SurvivalInv, HistoryInv, StableInv
  <1>1. StableInv' /\ DirInv'
    BY <1>0, StableStep DEF StableInv
  <1>2. CASE PowerLoss
    BY <1>0, <1>1, <1>2, PowerLossHints, PowerLossHistory DEF SurvivalInv
  <1>3. CASE ~PowerLoss
    <2>1. [RNext]_allVars
      BY <1>3, StepsOfRecovery
    <2>2. NoHints'
      BY <1>0, <2>1, NoHintsStep
    <2>3. HintInv'
      BY <1>0, <2>1, HintInvStep DEF HintsHaveSegments, NoHints
    <2>4. disk'.hintFiles = {}
      <3>1. CASE UNCHANGED disk
        BY <1>0, <3>1
      <3>2. ASSUME NEW S, Fsync(S) \/ FsyncDir(S, manifest)
            PROVE  disk'.hintFiles = {}
        BY <1>0, <2>2, <3>2, FsyncFacts, FsyncDirFacts DEF NoHints
      <3>3. QED
        BY <1>0, <1>3, <3>1, <3>2, StepsSync
    <2>5. HistoryInv'
      <3>1. CASE LogRecord
        <4>1. PlacesInv' /\ SortedInv' /\ \A i \in Ids : disk'.file[i] = disk.file[i]
          BY <1>0, <1>1, <3>1, LogRecordPlaces
        <4>2. RecordsInv' /\ CurrentInv'
          BY <1>0, <1>1, <3>1, LogRecordHistory
        <4>3. /\ HistoryOK' /\ acked' = acked
              /\ \A m \in 1 .. Len(history) : history'[m] = history[m]
          BY <1>0, <1>1, <3>1, LogRecordGrows
        <4>4. AckedInv'
          BY <1>0, <4>1, <4>3, QuietAcked, HistoryFacts
        <4>5. QED
          BY <4>1, <4>2, <4>3, <4>4 DEF HistoryInv
      <3>2. CASE ~LogRecord
        <4>1. /\ file' = file /\ PlacesInv' /\ SortedInv'
              /\ \A i \in Ids : disk'.file[i] = disk.file[i] \/ disk'.file[i] = file[i]
          BY <1>0, <1>1, <1>3, <3>2, QuietLog
        <4>2. CASE Rebuild
          <5>1. /\ HistoryOK' /\ RecordsInv' /\ CurrentInv'
                /\ acked' = acked /\ history'[acked] = history[acked]
            BY <1>0, <2>3, <4>2, RebuildHistory
          <5>2. AckedInv'
            BY <1>0, <4>1, <5>1, QuietAcked
          <5>3. QED
            BY <4>1, <5>1, <5>2 DEF HistoryInv
        <4>3. CASE ~Rebuild
          <5>1. history' = history /\ (acked' = acked \/ SyncBurst)
            BY <1>3, <3>2, <4>3, HistorySteps
          <5>2. RecordsInv'
            BY <1>0, <4>1, <5>1, QuietRecords
          <5>3. AckedInv' /\ acked' \in DOMAIN history
            <6>1. CASE SyncBurst
              BY <1>0, <6>1, SyncBurstAcked
            <6>2. CASE acked' = acked
              BY <1>0, <4>1, <5>1, <6>2, QuietAcked DEF HistoryOK
            <6>3. QED
              BY <5>1, <6>1, <6>2
          <5>4. HistoryOK'
            BY <1>0, <5>1, <5>3 DEF HistoryOK, EmptyMap
          <5>5. CurrentInv'
            <6>1. CASE mode = "up" /\ mode' = "up"
              <7>1. [Next]_vars
                BY <2>1, <6>1 DEF RNext, Running, Kill, Open, OpenRecover, OpenFresh,
                       OpenManifest, OpenManifestFail, OpenDone, SweepOne, allVars
              <7>2. ~AppendRecord
                BY <1>3, <3>2, <6>1, AppendIsLogged
              <7>3. acked' = acked \/ wpc = "idle"
                BY <5>1 DEF SyncBurst
              <7>4. \A i \in Ids : file[i] # <<>> => i \in segFiles
                BY <1>0, PlacesFacts
              <7>5. QED
                BY <1>0, <1>1, <5>1, <6>1, <7>1, <7>2, <7>3, <7>4, CurrentRunning
            <6>2. CASE Opening
              BY <1>0, <2>1, <2>3, <4>1, <5>1, <6>2, CurrentOpening
            <6>3. CASE mode = "down" /\ mode' # "down"
              <7>1. Rebuild
                BY <1>3, <3>2, <6>3, OnlyRebuild
              <7>2. QED
                BY <4>3, <7>1
            <6>4. CASE mode' = "down"
              BY <6>4 DEF CurrentInv
            <6>5. mode \in {"down", "fresh", "manifest", "sweep", "up"}
              BY <1>0 DEF DirInv, RTypeOK
            <6>6. mode = "up" => mode' \in {"up", "down"}
              BY <2>1 DEF RNext, Running, Kill, Open, OpenRecover, OpenFresh,
                     OpenManifest, OpenManifestFail, OpenDone, SweepOne, allVars
            <6>7. QED
              BY <6>1, <6>2, <6>3, <6>4, <6>5, <6>6 DEF Opening
          <5>6. QED
            BY <4>1, <5>2, <5>3, <5>4, <5>5 DEF HistoryInv
        <4>4. QED
          BY <4>2, <4>3
      <3>3. QED
        BY <3>1, <3>2
    <2>6. QED
      BY <1>1, <2>2, <2>3, <2>4, <2>5 DEF SurvivalInv
  <1>4. QED
    BY <1>2, <1>3

\* The empty directory is the history of no writes.
LEMMA SurvivalInit == DInit => SurvivalInv
  <1> SUFFICES ASSUME DInit
               PROVE  SurvivalInv
    OBVIOUS
  <1>1. StableInv /\ HintInv
    BY StableInit, HintInit DEF DInit
  <1>2. /\ NoHints /\ disk.hintFiles = {} /\ mode = "down"
        /\ \A i \in Ids : file[i] = <<>> /\ disk.file[i] = <<>>
    BY DEF DInit, RInit, NoHints
  <1>3. \A i \in Ids : DOMAIN file[i] = {} /\ DOMAIN disk.file[i] = {} /\ Len(disk.file[i]) <= Len(file[i])
    BY <1>2
  <1>4. /\ history = <<[t |-> 0, map |-> EmptyMap]>> /\ acked = 1
    BY DEF DInit
  <1>5. HistoryOK
    <2> DEFINE R == [t : Nat, map : [Keys -> Values \cup {Tombstone}]]
               r == [t |-> 0, map |-> EmptyMap]
    <2>1. r \in R
      BY DEF EmptyMap
    <2>2. <<r>> \in Seq(R) /\ DOMAIN <<r>> = {1} /\ <<r>>[1] = r
      <3> HIDE DEF R, r
      <3>1. QED
        BY <2>1
    <2>3. QED
      BY <1>4, <2>2 DEF HistoryOK
  <1>6. PlacesInv /\ SortedInv
    BY <1>2, <1>3 DEF PlacesInv, SortedInv
  <1>7. RecordsInv
    <2>1. \A n \in DOMAIN history : n = 1 /\ history[n].map = EmptyMap
      BY <1>4
    <2>2. \A t : \A k \in Keys : SaysUpTo(k, t, EmptyMap[k])
      BY <1>3 DEF SaysUpTo, EmptyMap
    <2>3. QED
      BY <1>3, <2>1, <2>2 DEF RecordsInv
  <1>8. AckedInv /\ CurrentInv
    BY <1>2, <1>4 DEF AckedInv, CurrentInv
  <1>9. QED
    BY <1>1, <1>2, <1>5, <1>6, <1>7, <1>8 DEF SurvivalInv, HistoryInv

\* Where nobody compacts, and outside the three windows, the log is the
\* history of the writes up to some record, with all that callers know of
\* stable, whatever call fails and whenever the process or the power does.
THEOREM SurvivalInvariance ==
  ASSUME WindowsShut, ~Compaction
  PROVE  DSpec => []SurvivalInv
  <1>1. SurvivalInv /\ [DNext]_durVars => SurvivalInv'
    BY SurvivalStep
  <1>2. QED
    BY <1>1, SurvivalInit, PTL DEF DSpec

\* Every write acknowledged under SyncOnPut is in the map that Open rebuilds,
\* and that map is one there was: nothing acknowledged is lost, no batch is
\* half there, and no write is there without all the ones before it.
THEOREM AckedWritesSurvive ==
  ASSUME WindowsShut, ~Compaction
  PROVE  DSpec => []AckedSurvive
  <1>1. SurvivalInv => AckedSurvive
    <2> SUFFICES ASSUME SurvivalInv, mode # "down"
                 PROVE  \E n \in acked .. Len(history) : history[n].map = View
      BY DEF AckedSurvive
    <2>1. PICK N : N = Len(history)
      OBVIOUS
    <2>2. N \in Nat /\ acked \in 1 .. N
      BY <2>1, HistoryFacts DEF SurvivalInv, HistoryInv
    <2>3. IF wpc # "keydir" THEN View = history[N].map
          ELSE acked < N /\ View = history[N - 1].map
      BY <2>1 DEF SurvivalInv, HistoryInv, CurrentInv
    <2>4. N \in acked .. N /\ (acked < N => N - 1 \in acked .. N)
      BY <2>2
    <2>5. QED
      BY <2>1, <2>3, <2>4
  <1>2. QED
    BY <1>1, SurvivalInvariance, PTL
=============================================================================
