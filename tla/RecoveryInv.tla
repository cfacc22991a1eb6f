---------------------------- MODULE RecoveryInv -----------------------------
(***************************************************************************)
(* The inductive invariants of Recovery, in three layers, each resting on  *)
(* the one before:                                                         *)
(*   DirInv   what every directory the engine leaves behind is like,       *)
(*            whatever call failed and wherever the process was killed;    *)
(*   HintInv  that a hint file describes its segment, as long as no        *)
(*            process leaves a hint without its segment;                   *)
(*   LogInv   that the live segments determine the map, as long as deletes *)
(*            and compactions are not mixed as well.                       *)
(* RecoveryProofs proves them inductive for every value of the constants.  *)
(***************************************************************************)
EXTENDS Recovery, EngineInv

Opening == mode \in {"fresh", "manifest", "sweep"}

----------------------------------------------------------------------------
(* The two circumstances that the runs stale_hint and deleted_key_returns  *)
(* show the code does not exclude.                                         *)

\* No process leaves a hint without its segment.
HintsHaveSegments == mode = "down" => hintFiles \subseteq segFiles

\* Deletes and compactions are not mixed: together they bring deleted keys
\* back.
DeletesApart ==
    (\E i \in Ids : \E p \in DOMAIN file[i] : file[i][p].val = Tombstone)
        => cpc = "idle" /\ hintFiles = {}

\* Where nobody compacts neither happens: no hint is ever written.
NoHints == cpc = "idle" /\ hintFiles = {}

----------------------------------------------------------------------------
(* First layer: the directory.                                             *)

RTypeOK ==
    /\ mode \in {"down", "fresh", "manifest", "sweep", "up"}
    /\ saved \in [Keys -> Values \cup {Tombstone}]
    /\ file \in [Ids -> Seq(Entry)]
    /\ segFiles \subseteq Ids
    /\ torn \subseteq Ids
    /\ hint \in [Ids -> SUBSET HintEntry]
    /\ hintFiles \subseteq Ids
    /\ manifest \in [segs : SUBSET Ids, active : Ids \cup {NoSeg}]
    /\ lastTstamp \in Nat
    /\ keydir \in [Keys -> Loc]

\* Nothing of a process runs: neither writer nor compactor nor readers.
Stopped ==
    /\ writesDisabled = FALSE
    /\ wpc = "idle" /\ wreq = <<>> /\ next = NoSeg
    /\ cpc = "idle" /\ candidates = {} /\ newSeg = NoSeg
    /\ todo = {} /\ scanPos = 0 /\ rewrites = {}
    /\ rd = [r \in Readers |-> IdleReader]

\* Before the first manifest nothing was written; afterwards the files it
\* names exist, and only its active one may end in part of a record.
DiskInv ==
    /\ manifest = NoManifest =>
         torn = {} /\ hintFiles = {} /\ \A i \in Ids : file[i] = <<>>
    /\ manifest # NoManifest =>
         /\ manifest.active \in manifest.segs
         /\ manifest.segs \subseteq segFiles
         /\ torn \subseteq {manifest.active}

\* What Open has established at each of its steps.
OpenInv ==
    /\ mode # "up" => Stopped
    /\ Opening =>
         /\ torn = {}
         /\ segments \subseteq segFiles
         /\ nextID \in Nat
         /\ \A i \in segFiles : i < nextID
         /\ IF mode = "fresh" THEN active = NoSeg ELSE active \in segments
         /\ mode = "sweep" => manifest = [segs |-> segments, active |-> active]

\* Timestamps are within the bound of the model, on disk too.
StampsBounded ==
    /\ lastTstamp <= MaxWrites
    /\ \A i \in Ids : \A p \in DOMAIN file[i] : file[i][p].t <= MaxWrites
    /\ \A i \in Ids : \A h \in hint[i] : h.t <= MaxWrites
    /\ \A r \in rewrites : r.new.t <= MaxWrites

DirInv ==
    /\ RTypeOK /\ DiskInv /\ OpenInv /\ StampsBounded
    /\ mode = "up" => CoreInv

----------------------------------------------------------------------------
(* Second layer: hints.                                                    *)

\* The hint of a segment, from its data.
Puts(i) ==
    {[key |-> file[i][p].key, pos |-> p, t |-> file[i][p].t] :
        p \in {q \in DOMAIN file[i] : file[i][q].val # Tombstone}}

\* A merged segment holds PUTs, one for each of its keys.
IsMerged(i) ==
    /\ \A p \in DOMAIN file[i] : file[i][p].val # Tombstone
    /\ \A p, q \in DOMAIN file[i] : file[i][p].key = file[i][q].key => p = q

\* A hint describes its segment, and belongs to no segment that may change.
HintFilesInv ==
    /\ mode # "down" => \A i \in hintFiles : i < nextID
    /\ \A i \in hintFiles \cap segFiles : hint[i] = Puts(i) /\ IsMerged(i)
    /\ {active, next, manifest.active} \cap hintFiles = {}
    /\ cpc = "scan" => newSeg \notin hintFiles
    /\ newSeg # NoSeg /\ (cpc = "submitted" \/ Publishing) => newSeg \in hintFiles

\* The merged segment is the copies in rewrites, one for a key, each of an
\* entry the scan has passed and that is still current or was overwritten
\* outside the candidates.
CopiesInv ==
    Pending =>
      /\ newSeg # NoSeg =>
           \A p \in DOMAIN file[newSeg] : \E r \in rewrites : r.new.pos = p
      /\ \A r, s \in rewrites : r.key = s.key => r = s
      /\ \A r \in rewrites :
           /\ ~Unscanned(r.old)
           /\ r.new.t = r.old.t
           /\ keydir[r.key] # NoEntry /\ keydir[r.key].file \in candidates =>
                keydir[r.key] = r.old

\* A hint is without its segment only while its removal is under way.
HintOwners ==
    \A i \in hintFiles \ segFiles :
        \/ wpc = "unlinkHint" /\ Lowest(candidates, i)
        \/ cpc = "cleanupHint" /\ i = newSeg

HintInv ==
    /\ DirInv /\ HintFilesInv
    /\ mode = "up" => DataInv /\ CopiesInv
    /\ Opening => KeydirResolves

----------------------------------------------------------------------------
(* Third layer: the log.                                                   *)

\* Some entry of the segments S is about key k.
Occurs(S, k) == \E i \in S : \E p \in DOMAIN file[i] : file[i][p].key = k

\* The entry at position p of segment i decides what S says about key k: it
\* has the highest timestamp, of its own record it is the last, and if it is
\* a tombstone replay comes to it last.
Decides(S, k, i, p) ==
    /\ i \in S /\ p \in DOMAIN file[i] /\ file[i][p].key = k
    /\ \A j \in S : \A q \in DOMAIN file[j] : file[j][q].key = k =>
         /\ file[j][q].t <= file[i][p].t
         /\ file[j][q].t = file[i][p].t => j = i /\ q <= p
         /\ file[i][p].val = Tombstone => j < i \/ (j = i /\ q <= p)

\* The keydir entry for what is at position p of segment i.
LocAt(i, p) ==
    IF file[i][p].val = Tombstone THEN NoEntry
    ELSE [file |-> i, pos |-> p, t |-> file[i][p].t]

\* The segments S put key k at e.
PutsAt(S, k, e) ==
    \/ ~Occurs(S, k) /\ e = NoEntry
    \/ \E i \in S : \E p \in DOMAIN file[i] : Decides(S, k, i, p) /\ e = LocAt(i, p)

\* The segments S give key k the value v.
Gives(S, k, v) ==
    \/ ~Occurs(S, k) /\ v = Tombstone
    \/ \E i \in S : \E p \in DOMAIN file[i] : Decides(S, k, i, p) /\ v = file[i][p].val

\* The keydir, with the record that is in the log already.
LoggedKeydir == IF wpc = "keydir" THEN ApplyBatch(wreq) ELSE keydir

\* A request has its timestamp and no record yet.
Stamped == wpc \in {"rotate", "rotateManifest", "rotatePublish", "append"}

\* Only merged segments, which have hints, come after the active one.
OrderInv ==
    /\ \A i \in manifest.segs : i \in hintFiles \/ i <= manifest.active
    /\ mode \in {"manifest", "sweep", "up"} =>
         \A i \in segments : i \in hintFiles \/ i <= active
    /\ next # NoSeg => active < next
    /\ mode = "up" /\ writesDisabled => file[manifest.active] = <<>>

\* With no process running or during Open, the segments Open reads give every
\* key the value callers are entitled to.
SavedInv == mode # "up" => \A k \in Keys : Gives(LiveOnDisk, k, saved[k])

\* The keydir is what the live segments say.
LoggedInv == mode # "down" => \A k \in Keys : PutsAt(segments, k, LoggedKeydir[k])

\* No entry of a live segment is newer than the clock.
ClockInv ==
    mode # "down" => \A i \in segments : \A p \in DOMAIN file[i] :
        file[i][p].t <= lastTstamp /\ (Stamped => file[i][p].t < lastTstamp)

LogInv == HintInv /\ OrderInv /\ SavedInv /\ LoggedInv /\ ClockInv /\ RecoveredView
=============================================================================
