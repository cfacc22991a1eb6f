------------------------------- MODULE Engine -------------------------------
(***************************************************************************)
(* The running storage engine of little-db (internal/engine): the single   *)
(* writer goroutine, the compactor, and readers, over a directory of       *)
(* append-only segment files, hint files and a manifest.  A behaviour is   *)
(* one life of the process on an initially empty directory; Recovery.tla   *)
(* adds the end of the process and Open.                                   *)
(*                                                                         *)
(* Abstractions.  A segment file is the sequence of its entries: a PUT or  *)
(* tombstone record is one entry, a BATCH record one entry per operation,  *)
(* all with the batch's timestamp.  The byte offset of a value is the      *)
(* position of its entry.  The timestamp of a request is one more than the *)
(* previous one: only the order of timestamps is ever used, and the code   *)
(* forces them to increase (handleOne: now <= lastTstamp).  Files are seen *)
(* as a process sees them (page cache); what a power failure keeps is not  *)
(* part of this module, so fsync appears only as a call that can fail.     *)
(*                                                                         *)
(* Every call that can fail does so when its name is in Faults.            *)
(***************************************************************************)
EXTENDS Integers, Sequences, FiniteSets

CONSTANTS
    Keys, Values, Tombstone, Batches,   \* as in KVStore
    Readers,         \* goroutines in Get or ReadKeyRange
    MaxSegmentSize,  \* Options.MaxSegmentSize, in entries
    Compaction,      \* whether anyone compacts (Options.CompactionInterval > 0,
                     \* or calls of Compact)
    MaxSegId,        \* bound: segment ids are 0..MaxSegId
    MaxWrites,       \* bound: number of write requests
    Faults           \* the calls that may fail

ASSUME TombstoneAssumption == Tombstone \notin Values
ASSUME BatchesAssumption ==
    Batches \subseteq Seq([key : Keys, val : Values \cup {Tombstone}]) \ {<<>>}
ASSUME SizeAssumption == MaxSegmentSize \in Nat
ASSUME CompactionAssumption == Compaction \in BOOLEAN
ASSUME IdAssumption == MaxSegId \in Nat
ASSUME WritesAssumption == MaxWrites \in Nat
ASSUME FaultsAssumption ==
    Faults \subseteq {"sync", "create", "dirsync", "manifest", "uncertain",
                      "append", "scan", "hint", "unlink", "midUnlink",
                      "sealUnsynced", "renameWindow", "openWindow"}

Ids == 0 .. MaxSegId
NoSeg == -1

Entry == [key : Keys, val : Values \cup {Tombstone}, t : Nat]

\* keydirEntry: where the current value of a key is.  Position 0 of no file
\* stands for the key's absence from the map.
Loc == [file : Ids, pos : Nat, t : Nat]
NoEntry == [file |-> 0, pos |-> 0, t |-> 0]

Rewrite == [key : Keys, old : Loc, new : Loc]
HintEntry == [key : Keys, pos : Nat, t : Nat]

VARIABLES
    \* The data directory.
    file,        \* file[i]: the entries of segment file i
    segFiles,    \* ids whose .seg file exists
    torn,        \* ids whose file ends in part of a record
    hint,        \* hint[i]: the entries of hint file i
    hintFiles,   \* ids whose .hint file exists
    manifest,    \* MANIFEST: the live ids and the active one
    \* DB fields.
    segments,    \* db.segments
    active,      \* db.active.id
    nextID,      \* db.nextID
    lastTstamp,  \* db.lastTstamp
    keydir,      \* db.keydir
    writesDisabled,
    \* The writer goroutine.
    wpc,         \* what it is about to do
    wreq,        \* the write request in hand
    next,        \* the segment a rotation is bringing in
    \* The compactor (at most one pass runs: compactMu).
    cpc,         \* what it is about to do
    candidates,  \* the segments being merged
    newSeg,      \* the merged segment, or NoSeg
    todo,        \* candidates still to be scanned
    scanPos,     \* entries of the lowest of them already scanned
    rewrites,    \* what the commit will do to the keydir
    \* Readers, inside segmentsMu.RLock while keys is not empty.
    rd           \* rd[r]: keys still to be read, the keydir snapshot, and
                 \* what the database held when it was taken (history)

dirVars == <<file, segFiles, torn, hint, hintFiles, manifest>>
writerVars == <<wpc, wreq, next>>
compactorVars == <<cpc, candidates, newSeg, todo, scanPos, rewrites>>
dbVars == <<segments, active, nextID, lastTstamp, keydir, writesDisabled>>
vars == <<dirVars, dbVars, writerVars, compactorVars, rd>>

----------------------------------------------------------------------------
(* Reading.                                                                *)

\* A keydir entry that leads to an entry of a live segment.
Resolves(e) == e.file \in segments /\ e.pos \in DOMAIN file[e.file]

\* What a reader that found e in the keydir returns (Tombstone: no value).
ValueAt(e) == IF Resolves(e) THEN file[e.file][e.pos].val ELSE Tombstone

\* What Get returns for every key.
View == [k \in Keys |-> ValueAt(keydir[k])]

\* The promise the engine keeps, over what Get returns.
Store == INSTANCE KVStore WITH store <- View, pending <- wreq

IdleReader == [keys |-> {}, snap |-> [k \in Keys |-> NoEntry],
               view |-> [k \in Keys |-> Tombstone]]

\* Mutant: the maps are changed under the read lock.
LockIgnored == TRUE

\* segmentsMu.Lock is granted when no reader holds the read lock.
LockFree == \A r \in Readers : rd[r].keys = {}

\* RLock, then the keydir lookup: Get for one key, ReadKeyRange for a set of
\* keys under one keydir lock.
ReadStart(r, K) ==
    /\ rd[r].keys = {}
    /\ rd' = [rd EXCEPT ![r] = [keys |-> K, snap |-> keydir, view |-> View]]
    /\ UNCHANGED <<dirVars, dbVars, writerVars, compactorVars>>

\* The pread of one value; RUnlock after the last.
ReadValue(r, k) ==
    /\ k \in rd[r].keys
    /\ rd' = [rd EXCEPT ![r] = IF rd[r].keys = {k} THEN IdleReader
                               ELSE [@ EXCEPT !.keys = rd[r].keys \ {k}]]
    /\ UNCHANGED <<dirVars, dbVars, writerVars, compactorVars>>

----------------------------------------------------------------------------
(* The directory.                                                          *)

\* createSegment: O_EXCL, so the id must be free.
CreateSegment(i) ==
    /\ i \notin segFiles
    /\ segFiles' = segFiles \cup {i}
    /\ file' = [file EXCEPT ![i] = <<>>]

\* os.Remove, whose error every caller ignores.
RemoveSegment(i) ==
    \/ /\ segFiles' = segFiles \ {i}
       /\ file' = [file EXCEPT ![i] = <<>>]
    \/ /\ "unlink" \in Faults
       /\ UNCHANGED <<file, segFiles>>

RemoveHint(i) ==
    \/ /\ hintFiles' = hintFiles \ {i}
       /\ hint' = [hint EXCEPT ![i] = {}]
    \/ /\ "unlink" \in Faults
       /\ UNCHANGED <<hint, hintFiles>>

WriteManifest(segs, act) == manifest' = [segs |-> segs, active |-> act]

----------------------------------------------------------------------------
(* The writer: handleOne, handleBatch and rotateActive.                    *)

\* A single record rotates whenever it would pass the threshold, a batch only
\* when the active segment is not empty.  (A batch of one entry differs from
\* a single record only when MaxSegmentSize is 0.)
NeedsRotation(ops) ==
    /\ Len(ops) > 1 => Len(file[active]) > 0
    /\ Len(file[active]) + Len(ops) > MaxSegmentSize

\* A request is taken off the queue and given its timestamp.  An append that
\* failed in flush has been counted in the segment's size, so a rotation may
\* be tried before the entries in the file call for it.
StartWrite(ops) ==
    /\ wpc = "idle"
    /\ ~writesDisabled
    /\ lastTstamp < MaxWrites
    /\ lastTstamp' = lastTstamp + 1
    /\ wreq' = ops
    /\ \/ (NeedsRotation(ops) \/ active \in torn) /\ wpc' = "rotate"
       \/ ~NeedsRotation(ops) /\ wpc' = "append"
    /\ UNCHANGED <<dirVars, segments, active, nextID, keydir, writesDisabled,
                   next, compactorVars, rd>>

\* The request fails: the writer replies with the error.
FailWrite == wpc' = "idle" /\ wreq' = <<>>

\* Mutant: the error of the sync is ignored.
RotateUnsynced ==
    /\ wpc = "rotate"
    /\ nextID \in Ids
    /\ CreateSegment(nextID)
    /\ next' = nextID
    /\ nextID' = nextID + 1
    /\ wpc' = "rotateManifest"
    /\ UNCHANGED <<torn, hint, hintFiles, manifest, segments, active,
                   lastTstamp, keydir, writesDisabled, wreq, compactorVars, rd>>

\* rotateActive: the active segment is synced, the new file created.
RotateCreate ==
    /\ wpc = "rotate"
    /\ active \notin torn
    /\ nextID \in Ids
    /\ CreateSegment(nextID)
    /\ next' = nextID
    /\ nextID' = nextID + 1
    /\ wpc' = "rotateManifest"
    /\ UNCHANGED <<torn, hint, hintFiles, manifest, segments, active,
                   lastTstamp, keydir, writesDisabled, wreq, compactorVars, rd>>

\* sync fails (always, once an append to the segment has failed: bufio keeps
\* the error), or the file cannot be created and the id is spent.
RotateFail ==
    /\ wpc = "rotate"
    /\ \/ /\ active \in torn \/ "sync" \in Faults
          /\ UNCHANGED nextID
       \/ /\ active \notin torn
          /\ nextID \in Ids
          /\ "create" \in Faults \/ nextID \in segFiles
          /\ nextID' = nextID + 1
    /\ FailWrite
    /\ UNCHANGED <<dirVars, segments, active, lastTstamp, keydir,
                   writesDisabled, next, compactorVars, rd>>

RotateManifest ==
    /\ wpc = "rotateManifest"
    /\ WriteManifest(segments \cup {next}, next)
    /\ wpc' = "rotatePublish"
    /\ UNCHANGED <<file, segFiles, torn, hint, hintFiles, dbVars, wreq, next,
                   compactorVars, rd>>

\* syncDir or writeManifest fails before the rename: the new file goes.
RotateAbort ==
    /\ wpc = "rotateManifest"
    /\ Faults \cap {"dirsync", "manifest"} # {}
    /\ RemoveSegment(next)
    /\ next' = NoSeg
    /\ FailWrite
    /\ UNCHANGED <<torn, hint, hintFiles, manifest, dbVars, compactorVars, rd>>

\* Mutant: an unconfirmed manifest is handled like one never renamed.
RotateUncertainRemoves ==
    /\ wpc = "rotateManifest"
    /\ "uncertain" \in Faults
    /\ WriteManifest(segments \cup {next}, next)
    /\ RemoveSegment(next)
    /\ next' = NoSeg
    /\ FailWrite
    /\ UNCHANGED <<torn, hint, hintFiles, dbVars, compactorVars, rd>>

\* The manifest was renamed into place but not confirmed
\* (ErrManifestPublishedButUncertain): the file stays, writes are disabled.
RotateUncertain ==
    /\ wpc = "rotateManifest"
    /\ "uncertain" \in Faults
    /\ WriteManifest(segments \cup {next}, next)
    /\ writesDisabled' = TRUE
    /\ next' = NoSeg
    /\ FailWrite
    /\ UNCHANGED <<file, segFiles, torn, hint, hintFiles, segments, active,
                   nextID, lastTstamp, keydir, compactorVars, rd>>

RotatePublish ==
    /\ wpc = "rotatePublish"
    /\ LockFree
    /\ segments' = segments \cup {next}
    /\ active' = next
    /\ next' = NoSeg
    /\ wpc' = "append"
    /\ UNCHANGED <<dirVars, nextID, lastTstamp, keydir, writesDisabled, wreq,
                   compactorVars, rd>>

\* The entries of a request, stamped with its timestamp.
EntriesOf(ops) ==
    [i \in DOMAIN ops |->
        [key |-> ops[i].key, val |-> ops[i].val, t |-> lastTstamp]]

\* append and flush: the bytes can be read from the file.
AppendRecord ==
    /\ wpc = "append"
    /\ active \notin torn
    /\ file' = [file EXCEPT ![active] = @ \o EntriesOf(wreq)]
    /\ wpc' = "keydir"
    /\ UNCHANGED <<segFiles, torn, hint, hintFiles, manifest, dbVars, wreq,
                   next, compactorVars, rd>>

\* The write fails part-way.
AppendFail ==
    /\ wpc = "append"
    /\ active \in torn \/ "append" \in Faults
    /\ torn' = torn \cup {active}
    /\ FailWrite
    /\ UNCHANGED <<file, segFiles, hint, hintFiles, manifest, dbVars, next,
                   compactorVars, rd>>

\* Where operation i of the request, the last thing appended, now is.
LocOf(ops, i) ==
    [file |-> active, pos |-> Len(file[active]) - Len(ops) + i, t |-> lastTstamp]

\* keydir.put, delete or applyBatch.
ApplyBatch(ops) ==
    [k \in Keys |->
        IF ~Store!Touches(ops, k) THEN keydir[k]
        ELSE LET i == Store!LastOp(ops, k)
             IN  IF ops[i].val = Tombstone THEN NoEntry ELSE LocOf(ops, i)]

ApplyKeydir ==
    /\ wpc = "keydir"
    /\ keydir' = ApplyBatch(wreq)
    /\ wpc' = "idle"
    /\ wreq' = <<>>
    /\ UNCHANGED <<dirVars, segments, active, nextID, lastTstamp,
                   writesDisabled, next, compactorVars, rd>>

----------------------------------------------------------------------------
(* The compactor: compactOnce and compactSegmentInto.                      *)

MinCandidates == 2

Lowest(S, c) == c \in S /\ \A d \in S : c <= d

ResetCompactor ==
    /\ cpc' = "idle"
    /\ candidates' = {}
    /\ newSeg' = NoSeg
    /\ todo' = {}
    /\ scanPos' = 0
    /\ rewrites' = {}

\* Every live segment but the active one is a candidate.
CompactSnapshot ==
    /\ Compaction
    /\ cpc = "idle"
    /\ Cardinality(segments \ {active}) >= MinCandidates
    /\ candidates' = segments \ {active}
    /\ todo' = segments \ {active}
    /\ cpc' = "create"
    /\ UNCHANGED <<dirVars, dbVars, writerVars, newSeg, scanPos, rewrites, rd>>

\* The id of the merged segment is taken from nextID, shared with rotation.
CompactCreate ==
    /\ cpc = "create"
    /\ nextID \in Ids
    /\ CreateSegment(nextID)
    /\ newSeg' = nextID
    /\ nextID' = nextID + 1
    /\ cpc' = "scan"
    /\ UNCHANGED <<torn, hint, hintFiles, manifest, segments, active,
                   lastTstamp, keydir, writesDisabled, writerVars, candidates,
                   todo, scanPos, rewrites, rd>>

CompactCreateFail ==
    /\ cpc = "create"
    /\ nextID \in Ids
    /\ "create" \in Faults \/ nextID \in segFiles
    /\ nextID' = nextID + 1
    /\ ResetCompactor
    /\ UNCHANGED <<dirVars, segments, active, lastTstamp, keydir,
                   writesDisabled, writerVars, rd>>

\* Mutant: the offset of the value is off by one.
IsLiveShifted(c, p) ==
    LET e == file[c][p]
    IN  /\ e.val # Tombstone
        /\ keydir[e.key].file = c
        /\ keydir[e.key].pos = p + 1

\* The entry at position p of candidate c is the current value of its key.
IsLive(c, p) ==
    LET e == file[c][p]
    IN  /\ e.val # Tombstone
        /\ keydir[e.key].file = c
        /\ keydir[e.key].pos = p

\* Mutant: the arguments c and newSeg of the copy are swapped.
ScanIntoCandidate(c) ==
    LET p == scanPos + 1
        e == file[c][p]
    IN  /\ cpc = "scan"
        /\ Lowest(todo, c)
        /\ scanPos < Len(file[c])
        /\ scanPos' = p
        /\ IF IsLive(c, p)
           THEN file' = [file EXCEPT ![c] = Append(@, e)]
           ELSE UNCHANGED file
        /\ UNCHANGED <<segFiles, torn, hint, hintFiles, manifest, dbVars,
                       writerVars, cpc, candidates, newSeg, todo, rewrites, rd>>

\* One entry of the lowest unscanned candidate: a live one is copied.
ScanEntry(c) ==
    LET p == scanPos + 1
        e == file[c][p]
    IN  /\ cpc = "scan"
        /\ Lowest(todo, c)
        /\ scanPos < Len(file[c])
        /\ scanPos' = p
        /\ IF IsLive(c, p)
           THEN /\ file' = [file EXCEPT ![newSeg] = Append(@, e)]
                /\ rewrites' = rewrites \cup
                     {[key |-> e.key,
                       old |-> [file |-> c, pos |-> p, t |-> e.t],
                       new |-> [file |-> newSeg, pos |-> Len(file[newSeg]) + 1,
                                t |-> e.t]]}
           ELSE UNCHANGED <<file, rewrites>>
        /\ UNCHANGED <<segFiles, torn, hint, hintFiles, manifest, dbVars,
                       writerVars, cpc, candidates, newSeg, todo, rd>>

ScanNext(c) ==
    /\ cpc = "scan"
    /\ Lowest(todo, c)
    /\ scanPos = Len(file[c])
    /\ todo' = todo \ {c}
    /\ scanPos' = 0
    /\ UNCHANGED <<dirVars, dbVars, writerVars, cpc, candidates, newSeg,
                   rewrites, rd>>

\* Mutant: the hint is built from the old offsets.
HintOfOld(R) == {[key |-> r.key, pos |-> r.old.pos, t |-> r.new.t] : r \in R}

HintOf(R) == {[key |-> r.key, pos |-> r.new.pos, t |-> r.new.t] : r \in R}

\* A read, an append or the final sync of the merged segment fails, or its
\* hint cannot be written: the merged segment is removed.  If only the last
\* directory sync of writeHintFile failed the hint is already in place, and
\* stays.
CompactFail ==
    /\ cpc = "scan"
    /\ \/ /\ "scan" \in Faults
          /\ UNCHANGED <<hint, hintFiles>>
       \/ /\ "hint" \in Faults
          /\ todo = {}
          /\ rewrites # {}
          /\ hint' = [hint EXCEPT ![newSeg] = HintOf(rewrites)]
          /\ hintFiles' = hintFiles \cup {newSeg}
    /\ RemoveSegment(newSeg)
    /\ ResetCompactor
    /\ UNCHANGED <<torn, manifest, dbVars, writerVars, rd>>

\* Nothing was live: the empty merged segment goes, the candidates are
\* submitted for retirement.
RetireOnly ==
    /\ cpc = "scan"
    /\ todo = {}
    /\ rewrites = {}
    /\ RemoveSegment(newSeg)
    /\ newSeg' = NoSeg
    /\ cpc' = "submitted"
    /\ UNCHANGED <<torn, hint, hintFiles, manifest, dbVars, writerVars,
                   candidates, todo, scanPos, rewrites, rd>>

\* The merged segment is synced, its hint written, the commit submitted.
WriteHintFile ==
    /\ cpc = "scan"
    /\ todo = {}
    /\ rewrites # {}
    /\ hint' = [hint EXCEPT ![newSeg] = HintOf(rewrites)]
    /\ hintFiles' = hintFiles \cup {newSeg}
    /\ cpc' = "submitted"
    /\ UNCHANGED <<file, segFiles, torn, manifest, dbVars, writerVars,
                   candidates, newSeg, todo, scanPos, rewrites, rd>>

\* The commit was refused: cleanupNewSeg, then removeHintFile.
CleanupSegment ==
    /\ cpc = "cleanup"
    /\ IF newSeg = NoSeg
       THEN UNCHANGED <<file, segFiles>> /\ ResetCompactor
       ELSE /\ RemoveSegment(newSeg)
            /\ cpc' = "cleanupHint"
            /\ UNCHANGED <<candidates, newSeg, todo, scanPos, rewrites>>
    /\ UNCHANGED <<torn, hint, hintFiles, manifest, dbVars, writerVars, rd>>

CleanupHint ==
    /\ cpc = "cleanupHint"
    /\ RemoveHint(newSeg)
    /\ ResetCompactor
    /\ UNCHANGED <<file, segFiles, torn, manifest, dbVars, writerVars, rd>>

----------------------------------------------------------------------------
(* The writer again: handleCompactCommit.                                  *)

Merged == {newSeg} \ {NoSeg}

CommitManifest ==
    /\ wpc = "idle"
    /\ cpc = "submitted"
    /\ ~writesDisabled
    /\ WriteManifest((segments \ candidates) \cup Merged, active)
    /\ \/ wpc' = "commitPublish"
       \/ "uncertain" \in Faults /\ wpc' = "commitPublishKeep"
    /\ cpc' = "committing"
    /\ UNCHANGED <<file, segFiles, torn, hint, hintFiles, dbVars, wreq, next,
                   candidates, newSeg, todo, scanPos, rewrites, rd>>

\* Writes are disabled, or a call before the manifest's rename failed.
CommitFail ==
    /\ wpc = "idle"
    /\ cpc = "submitted"
    /\ \/ writesDisabled
       \/ "dirsync" \in Faults /\ newSeg # NoSeg
       \/ "manifest" \in Faults
    /\ cpc' = "cleanup"
    /\ UNCHANGED <<dirVars, dbVars, writerVars, candidates, newSeg, todo,
                   scanPos, rewrites, rd>>

\* Mutant: the key is moved without comparing.
SwapBlindly ==
    [k \in Keys |->
        LET R == {r \in rewrites : r.key = k}
        IN  IF R = {} THEN keydir[k] ELSE (CHOOSE r \in R : TRUE).new]

\* Mutant: the two entries of compareAndSwap are exchanged.
SwapExchanged ==
    [k \in Keys |->
        LET R == {r \in rewrites : r.key = k /\ r.new = keydir[k]}
        IN  IF R = {} THEN keydir[k] ELSE (CHOOSE r \in R : TRUE).old]

\* keydir.compareAndSwap for every rewrite.
SwapAll ==
    [k \in Keys |->
        LET R == {r \in rewrites : r.key = k /\ r.old = keydir[k]}
        IN  IF R = {} THEN keydir[k] ELSE (CHOOSE r \in R : TRUE).new]

\* Under segmentsMu.Lock.  After an uncertain publish the old files stay.
CommitPublish ==
    /\ wpc \in {"commitPublish", "commitPublishKeep"}
    /\ LockFree
    /\ segments' = (segments \cup Merged) \ candidates
    /\ keydir' = SwapAll
    /\ IF wpc = "commitPublish"
       THEN /\ wpc' = "unlink"
            /\ UNCHANGED compactorVars
       ELSE wpc' = "idle" /\ ResetCompactor
    /\ UNCHANGED <<dirVars, active, nextID, lastTstamp, writesDisabled, wreq,
                   next, rd>>

UnlinkSegment(c) ==
    /\ wpc = "unlink"
    /\ Lowest(candidates, c)
    /\ RemoveSegment(c)
    /\ wpc' = "unlinkHint"
    /\ UNCHANGED <<torn, hint, hintFiles, manifest, dbVars, wreq, next,
                   compactorVars, rd>>

UnlinkHint(c) ==
    /\ wpc = "unlinkHint"
    /\ Lowest(candidates, c)
    /\ RemoveHint(c)
    /\ IF candidates = {c}
       THEN wpc' = "idle" /\ ResetCompactor
       ELSE /\ wpc' = "unlink"
            /\ candidates' = candidates \ {c}
            /\ UNCHANGED <<cpc, newSeg, todo, scanPos, rewrites>>
    /\ UNCHANGED <<file, segFiles, torn, manifest, dbVars, wreq, next, rd>>

----------------------------------------------------------------------------
(* The specification.                                                      *)

\* Open on an empty directory has created segment 0 and the first manifest.
Init ==
    /\ file = [i \in Ids |-> <<>>]
    /\ segFiles = {0}
    /\ torn = {}
    /\ hint = [i \in Ids |-> {}]
    /\ hintFiles = {}
    /\ manifest = [segs |-> {0}, active |-> 0]
    /\ segments = {0}
    /\ active = 0
    /\ nextID = 1
    /\ lastTstamp = 0
    /\ keydir = [k \in Keys |-> NoEntry]
    /\ writesDisabled = FALSE
    /\ wpc = "idle"
    /\ wreq = <<>>
    /\ next = NoSeg
    /\ cpc = "idle"
    /\ candidates = {}
    /\ newSeg = NoSeg
    /\ todo = {}
    /\ scanPos = 0
    /\ rewrites = {}
    /\ rd = [r \in Readers |-> IdleReader]

Reader ==
    \/ \E r \in Readers : \E K \in SUBSET Keys \ {{}} : ReadStart(r, K)
    \/ \E r \in Readers : \E k \in Keys : ReadValue(r, k)

Writer ==
    \/ \E ops \in Batches : StartWrite(ops)
    \/ RotateCreate \/ RotateFail \/ RotateManifest \/ RotateAbort
    \/ RotateUncertain \/ RotatePublish
    \/ AppendRecord \/ AppendFail \/ ApplyKeydir
    \/ CommitManifest \/ CommitFail \/ CommitPublish
    \/ \E c \in Ids : UnlinkSegment(c) \/ UnlinkHint(c)

Compactor ==
    \/ CompactSnapshot \/ CompactCreate \/ CompactCreateFail
    \/ \E c \in Ids : ScanEntry(c) \/ ScanNext(c)
    \/ CompactFail \/ RetireOnly \/ WriteHintFile
    \/ CleanupSegment \/ CleanupHint

Next == Writer \/ Compactor \/ Reader

Spec == Init /\ [][Next]_vars
----------------------------------------------------------------------------
(* Properties.                                                             *)

TypeOK ==
    /\ file \in [Ids -> Seq(Entry)]
    /\ segFiles \subseteq Ids
    /\ torn \subseteq Ids
    /\ hint \in [Ids -> SUBSET HintEntry]
    /\ hintFiles \subseteq Ids
    /\ manifest \in [segs : SUBSET Ids, active : Ids]
    /\ segments \subseteq Ids
    /\ active \in Ids
    /\ nextID \in Nat
    /\ lastTstamp \in Nat
    /\ keydir \in [Keys -> Loc]
    /\ writesDisabled \in BOOLEAN
    /\ wpc \in {"idle", "rotate", "rotateManifest", "rotatePublish", "append",
                "keydir", "commitPublish", "commitPublishKeep", "unlink",
                "unlinkHint"}
    /\ wreq \in Batches \cup {<<>>}
    /\ next \in Ids \cup {NoSeg}
    /\ cpc \in {"idle", "create", "scan", "submitted", "committing",
                "cleanup", "cleanupHint"}
    /\ candidates \subseteq Ids
    /\ newSeg \in Ids \cup {NoSeg}
    /\ todo \subseteq candidates
    /\ scanPos \in Nat
    /\ rewrites \subseteq Rewrite
    /\ rd \in [Readers -> [keys : SUBSET Keys, snap : [Keys -> Loc],
                           view : [Keys -> Values \cup {Tombstone}]]]

\* e is the location of a PUT of key k in a live segment.
Locates(e, k) ==
    /\ Resolves(e)
    /\ file[e.file][e.pos].key = k
    /\ file[e.file][e.pos].t = e.t
    /\ file[e.file][e.pos].val # Tombstone

\* Every keydir entry leads to a PUT of its own key in a live segment: the
\* branch of Get that the code calls unreachable (engine.go, "Should be
\* unreachable under segmentsMu.RLock") is, whatever rotation, compaction
\* and their failures do.
KeydirResolves == \A k \in Keys : keydir[k] = NoEntry \/ Locates(keydir[k], k)

\* Snapshot semantics of ReadKeyRange (and of Get): each value still to be
\* read under the read lock is the one the key had when the keydir was
\* consulted, although writes and compaction go on meanwhile.
SnapshotReads ==
    \A r \in Readers : \A k \in rd[r].keys :
        ValueAt(rd[r].snap[k]) = rd[r].view[k]

\* At every instant the files the manifest names exist and hold every value
\* the database would return: a process that dies here leaves nothing that
\* is only in a file Open will ignore and delete.
ManifestHoldsData ==
    /\ manifest.segs \subseteq segFiles
    /\ manifest.active \in manifest.segs
    /\ \A k \in Keys : keydir[k] # NoEntry =>
         \E i \in manifest.segs : \E p \in DOMAIN file[i] :
            file[i][p] = [key |-> k, val |-> View[k], t |-> keydir[k].t]

\* Only the segment the manifest calls active may end in part of a record:
\* recovery truncates that one and refuses any other.
OnlyActiveTorn == torn \cap manifest.segs \subseteq {manifest.active}

\* Segment ids are never given out twice and never to an existing file:
\* rotation and compaction share nextID.
IdsFresh ==
    /\ \A i \in segFiles : i < nextID
    /\ next # NoSeg => next # newSeg
    /\ newSeg # NoSeg /\ cpc = "scan" => newSeg \notin manifest.segs

\* A segment that is live and no longer active is never changed.
SealedImmutable ==
    [][\A i \in segments \ {active} :
          i \in segFiles' /\ i \in segments' => file'[i] = file[i]]_vars

\* Put, Delete and BatchPut take effect at once and as a whole, while the
\* writer serves them, and nothing else - rotation, compaction, a failed
\* write - changes what Get returns.
Linearizable == Store!Spec

=============================================================================
