------------------------------ MODULE Recovery ------------------------------
(***************************************************************************)
(* The end of the process and the next Open (engine.go Open, recovery.go,  *)
(* manifest.go reconcileManifest, compact.go sweepOrphans), around the     *)
(* running engine of Engine.tla.                                           *)
(*                                                                         *)
(* The process may be killed between any two steps, also while Open runs;  *)
(* the operating system keeps what was written to files (kill -9, or a     *)
(* clean Close, which is a kill of an idle writer).  What a power failure  *)
(* keeps is not modelled here.                                             *)
(***************************************************************************)
EXTENDS Engine, FiniteSetsExt

ASSUME PositiveSizeAssumption == MaxSegmentSize > 0

VARIABLES
    mode,   \* "up", "down", or how far Open has come
    saved   \* history: the map callers are entitled to find after Open

recVars == <<mode, saved>>
allVars == <<vars, recVars>>

NoManifest == [segs |-> {}, active |-> NoSeg]

----------------------------------------------------------------------------
(* The end of the process.                                                 *)

\* In-memory state is gone.
ResetMemory ==
    /\ segments' = {}
    /\ active' = NoSeg
    /\ nextID' = 0
    /\ lastTstamp' = 0
    /\ keydir' = [k \in Keys |-> NoEntry]
    /\ writesDisabled' = FALSE
    /\ wpc' = "idle"
    /\ wreq' = <<>>
    /\ next' = NoSeg
    /\ ResetCompactor
    /\ rd' = [r \in Readers |-> IdleReader]

\* A request whose record is complete in the file is part of the log although
\* its caller never got an answer; one caught inside write(2) may leave part
\* of its record behind.  A kill between the removal of a segment and of its
\* hint is a fault with a name of its own, "midUnlink".
Kill ==
    /\ mode # "down"
    /\ "midUnlink" \in Faults \/ (wpc # "unlinkHint" /\ cpc # "cleanupHint")
    /\ mode' = "down"
    /\ saved' = IF mode # "up" THEN saved
                ELSE IF wpc = "keydir" THEN Store!ApplyOps(View, wreq) ELSE View
    /\ \/ UNCHANGED torn
       \/ wpc = "append" /\ torn' = torn \cup {active}
    /\ ResetMemory
    /\ UNCHANGED <<file, segFiles, hint, hintFiles, manifest>>

----------------------------------------------------------------------------
(* Replay: recover, tryRecoverFromHint, recoverSegment.                    *)

\* Mutant: a tombstone is put like a value.
ReplayTombstone(kd, e, loc) ==
    IF e.t >= kd[e.key].t THEN [kd EXCEPT ![e.key] = loc] ELSE kd

\* putIfNewer for a PUT, the gated delete for a tombstone.
ReplayEntry(kd, e, loc) ==
    IF e.t >= kd[e.key].t
    THEN [kd EXCEPT ![e.key] = IF e.val = Tombstone THEN NoEntry ELSE loc]
    ELSE kd

\* recoverSegment: every entry, in file order.
ReplayData(kd, i) ==
    LET after[p \in 0 .. Len(file[i])] ==
            IF p = 0 THEN kd
            ELSE ReplayEntry(after[p - 1], file[i][p],
                             [file |-> i, pos |-> p, t |-> file[i][p].t])
    IN  after[Len(file[i])]

\* A hint is used when every entry lies within the segment.
HintUsable(i) ==
    /\ i \in hintFiles
    /\ \A h \in hint[i] : h.pos <= Len(file[i])

\* Mutant: put where the code has putIfNewer.
ReplayHintUngated(kd, i) ==
    [k \in Keys |->
        LET H == {h \in hint[i] : h.key = k}
        IN  IF H = {} THEN kd[k]
            ELSE LET h == CHOOSE h \in H : TRUE
                 IN  [file |-> i, pos |-> h.pos, t |-> h.t]]

\* tryRecoverFromHint.  A hint has one entry per key, and no tombstones: the
\* compactor writes none.
ReplayHint(kd, i) ==
    [k \in Keys |->
        LET H == {h \in hint[i] : h.key = k /\ h.t >= kd[k].t}
        IN  IF H = {} THEN kd[k]
            ELSE LET h == CHOOSE h \in H : TRUE
                 IN  [file |-> i, pos |-> h.pos, t |-> h.t]]

\* One segment: the active one is never read through a hint.
ReplaySegment(kd, i, act) ==
    IF i # act /\ HintUsable(i) THEN ReplayHint(kd, i) ELSE ReplayData(kd, i)

\* The live segments, by ascending id.
Replay(live, act) ==
    LET below[n \in 0 .. MaxSegId + 1] ==
            IF n = 0 THEN [k \in Keys |-> NoEntry]
            ELSE IF n - 1 \notin live THEN below[n - 1]
            ELSE ReplaySegment(below[n - 1], n - 1, act)
    IN  below[MaxSegId + 1]

\* The highest timestamp replay comes across.
ReplayTstamp(live, act) ==
    LET Seen(i) == IF i # act /\ HintUsable(i) THEN {h.t : h \in hint[i]}
                   ELSE {file[i][p].t : p \in DOMAIN file[i]}
    IN  Max({0} \cup UNION {Seen(i) : i \in live})

----------------------------------------------------------------------------
(* Open.                                                                   *)

\* reconcileManifest: every .seg file when there is no manifest.
LiveOnDisk == IF manifest = NoManifest THEN segFiles ELSE manifest.segs

\* Mutant: the highest id is taken for the active segment.
HighestOnDisk == Max(LiveOnDisk \cup {NoSeg})

\* The active segment is the one the manifest names; without a manifest, the
\* highest id.
ActiveOnDisk ==
    IF manifest = NoManifest THEN Max(segFiles \cup {NoSeg}) ELSE manifest.active

\* Open returns an error, and changes nothing, when the manifest names a
\* missing file or a sealed segment ends in part of a record (unless its hint
\* is used and the end never looked at).
Unopenable ==
    \/ ~(LiveOnDisk \subseteq segFiles)
    \/ \E i \in LiveOnDisk \cap torn : i # ActiveOnDisk /\ ~HintUsable(i)

\* Everything up to the choice of the active segment: the active file's torn
\* tail is truncated, and it is taken on again if it has room.
OpenRecover ==
    /\ mode = "down"
    /\ ~Unopenable
    /\ segments' = LiveOnDisk
    /\ nextID' = Max(segFiles \cup {-1}) + 1
    /\ keydir' = Replay(LiveOnDisk, ActiveOnDisk)
    /\ lastTstamp' = ReplayTstamp(LiveOnDisk, ActiveOnDisk)
    /\ torn' = torn \ {ActiveOnDisk}
    /\ IF ActiveOnDisk # NoSeg /\ Len(file[ActiveOnDisk]) < MaxSegmentSize
       THEN /\ active' = ActiveOnDisk
            /\ mode' = IF manifest = NoManifest THEN "manifest" ELSE "sweep"
       ELSE /\ active' = NoSeg
            /\ mode' = "fresh"
    /\ UNCHANGED <<file, segFiles, hint, hintFiles, manifest, writesDisabled,
                   writerVars, compactorVars, rd, saved>>

\* A fresh active segment.
OpenFresh ==
    /\ mode = "fresh"
    /\ nextID \in Ids
    /\ CreateSegment(nextID)
    /\ segments' = segments \cup {nextID}
    /\ active' = nextID
    /\ nextID' = nextID + 1
    /\ mode' = "manifest"
    /\ UNCHANGED <<torn, hint, hintFiles, manifest, lastTstamp, keydir,
                   writesDisabled, writerVars, compactorVars, rd, saved>>

OpenManifest ==
    /\ mode = "manifest"
    /\ WriteManifest(segments, active)
    /\ mode' = "sweep"
    /\ UNCHANGED <<file, segFiles, torn, hint, hintFiles, dbVars, writerVars,
                   compactorVars, rd, saved>>

\* writeManifest fails, before or after its rename: Open returns the error.
OpenManifestFail ==
    /\ mode = "manifest"
    /\ \/ "manifest" \in Faults /\ UNCHANGED manifest
       \/ "uncertain" \in Faults /\ WriteManifest(segments, active)
    /\ mode' = "down"
    /\ ResetMemory
    /\ UNCHANGED <<file, segFiles, torn, hint, hintFiles, saved>>

Orphans == (segFiles \cup hintFiles) \ manifest.segs

\* sweepOrphans goes through the directory in name order, so the hint of an
\* id before its segment; it goes past a file it cannot remove.
SweepOne(i) ==
    /\ mode = "sweep"
    /\ i \in Orphans
    /\ Lowest(Orphans, i) \/ "unlink" \in Faults
    /\ \/ /\ i \in hintFiles
          /\ hintFiles' = hintFiles \ {i}
          /\ hint' = [hint EXCEPT ![i] = {}]
          /\ UNCHANGED <<file, segFiles>>
       \/ /\ i \in segFiles
          /\ i \notin hintFiles \/ "unlink" \in Faults
          /\ segFiles' = segFiles \ {i}
          /\ file' = [file EXCEPT ![i] = <<>>]
          /\ UNCHANGED <<hint, hintFiles>>
    /\ UNCHANGED <<torn, manifest, dbVars, writerVars, compactorVars, rd, recVars>>

\* The sweep is best effort; then the writer starts.
OpenDone ==
    /\ mode = "sweep"
    /\ Orphans = {} \/ "unlink" \in Faults
    /\ mode' = "up"
    /\ UNCHANGED <<vars, saved>>

----------------------------------------------------------------------------
(* The specification.                                                      *)

\* An empty directory.
RInit ==
    /\ mode = "down"
    /\ saved = [k \in Keys |-> Tombstone]
    /\ file = [i \in Ids |-> <<>>]
    /\ segFiles = {}
    /\ torn = {}
    /\ hint = [i \in Ids |-> {}]
    /\ hintFiles = {}
    /\ manifest = NoManifest
    /\ segments = {}
    /\ active = NoSeg
    /\ nextID = 0
    /\ lastTstamp = 0
    /\ keydir = [k \in Keys |-> NoEntry]
    /\ writesDisabled = FALSE
    /\ wpc = "idle"
    /\ wreq = <<>>
    /\ next = NoSeg
    /\ cpc = "idle"
    /\ candidates = {}
    /\ newSeg = NoSeg
    /\ todo = {}
    /\ scanPos = 0
    /\ rewrites = {}
    /\ rd = [r \in Readers |-> IdleReader]

Running == mode = "up" /\ Next /\ UNCHANGED recVars

Open ==
    \/ OpenRecover \/ OpenFresh \/ OpenManifest
    \/ OpenManifestFail \/ OpenDone
    \/ \E i \in Ids : SweepOne(i)

RNext == Running \/ Kill \/ Open

RSpec == RInit /\ [][RNext]_allVars

----------------------------------------------------------------------------
(* Properties.                                                             *)

\* Open never refuses a directory the engine itself left behind.
OpenSucceeds == mode = "down" => ~Unopenable

\* What Open rebuilds is sound before the writer starts, and stays so.
OpenResolves == mode \in {"fresh", "manifest", "sweep", "up"} => KeydirResolves

\* Once the keydir is rebuilt, lookups give what they gave before the process
\* ended (recovery.go, contract of recover: every acknowledged record is
\* reflected in the keydir).
RecoveredView == mode \in {"fresh", "manifest", "sweep"} => View = saved

\* A hint recovery would use describes its segment: each entry is the PUT at
\* that position, and no PUT of the segment is missing.
HintsDescribeData ==
    \A i \in (manifest.segs \cap hintFiles) \ {manifest.active} :
        hint[i] = {[key |-> file[i][p].key, pos |-> p, t |-> file[i][p].t] :
                      p \in {q \in DOMAIN file[i] : file[i][q].val # Tombstone}}

\* Kill and Open in any order, at any step, leave the map as it was: every
\* write that took effect is found again and nothing else is.
DurableStore == INSTANCE KVStore WITH
    store <- IF mode = "up" THEN View ELSE saved, pending <- wreq
NothingLost == DurableStore!Spec
=============================================================================
