----------------------------- MODULE EngineInv ------------------------------
(***************************************************************************)
(* The inductive invariant of Engine: what the writer, the compactor and   *)
(* the readers rely on about each other between their steps.  TLC checks   *)
(* it on the instances of MCEngine; EngineProofs proves it inductive for   *)
(* every value of the constants.                                           *)
(***************************************************************************)
EXTENDS Engine

Writing ==
    wpc \in {"rotate", "rotateManifest", "rotatePublish", "append", "keydir"}
Publishing == wpc \in {"commitPublish", "commitPublishKeep"}
Unlinking == wpc \in {"unlink", "unlinkHint"}

\* Which control points of the writer and of the compactor go together, and
\* what is in hand at each.
ControlInv ==
    /\ IF Writing THEN wreq \in Batches ELSE wreq = <<>>
    /\ next # NoSeg <=> wpc \in {"rotateManifest", "rotatePublish"}
    /\ cpc = "committing" <=> Publishing \/ Unlinking
    /\ cpc \in {"idle", "create"} => newSeg = NoSeg
    /\ cpc \in {"scan", "cleanupHint"} => newSeg # NoSeg
    /\ newSeg = NoSeg => rewrites = {}
    /\ cpc = "idle" => candidates = {}
    /\ cpc \notin {"create", "scan"} => todo = {}
    /\ cpc # "scan" \/ todo = {} => scanPos = 0
    /\ writesDisabled => wpc = "idle"

\* Who owns which segment file.
OwnershipInv ==
    /\ segments \subseteq segFiles
    /\ active \in segments
    /\ torn \subseteq {active}
    /\ \A i \in segFiles : i < nextID
    /\ next # NoSeg =>
         /\ next \in segFiles \ segments
         /\ next # newSeg
         /\ file[next] = <<>>
         /\ torn = {}
    /\ newSeg # NoSeg =>
         /\ newSeg < nextID
         /\ newSeg \notin candidates
         /\ newSeg # active
         /\ cpc # "cleanupHint" => newSeg \in segFiles
         /\ newSeg \in segments <=> Unlinking
    /\ active \notin candidates
    /\ IF Unlinking THEN candidates \cap segments = {}
                    ELSE candidates \subseteq segments

\* What the manifest says at each control point of the writer.
ManifestInv ==
    /\ ~writesDisabled =>
         manifest = IF wpc = "rotatePublish"
                    THEN [segs |-> segments \cup {next}, active |-> next]
                    ELSE IF Publishing
                    THEN [segs |-> (segments \ candidates) \cup Merged,
                          active |-> active]
                    ELSE [segs |-> segments, active |-> active]
    /\ writesDisabled =>
         /\ manifest.segs = segments \cup {manifest.active}
         /\ manifest.active \in segFiles \ segments
         /\ manifest.active # newSeg
         /\ torn = {}

\* The record the writer has just appended is at the end of the active file.
AppendedInv ==
    wpc = "keydir" =>
        /\ Len(wreq) <= Len(file[active])
        /\ \A i \in 1 .. Len(wreq) :
             file[active][Len(file[active]) - Len(wreq) + i] = EntriesOf(wreq)[i]

\* The merged segment is being built, or waits to be published.
Pending == cpc \in {"scan", "submitted"} \/ Publishing

\* Rewrite r leads from a PUT in a candidate to its copy.
RewriteOK(r) ==
    /\ r.old.file \in candidates
    /\ r.old.pos \in DOMAIN file[r.old.file]
    /\ r.new.file = newSeg
    /\ r.new.pos \in DOMAIN file[newSeg]
    /\ file[newSeg][r.new.pos] = file[r.old.file][r.old.pos]
    /\ file[newSeg][r.new.pos].key = r.key
    /\ file[newSeg][r.new.pos].val # Tombstone
    /\ file[newSeg][r.new.pos].t = r.new.t

RewritesInv == Pending => \A r \in rewrites : RewriteOK(r)

\* The compactor has not come to the entry at e yet.
Unscanned(e) == e.file \in todo /\ (Lowest(todo, e.file) => e.pos > scanPos)

\* Every current value in a candidate has been copied or will be.
CoverageInv ==
    /\ cpc = "create" => todo = candidates
    /\ Pending => \A k \in Keys :
         keydir[k].file \in candidates /\ keydir[k] # NoEntry =>
            \/ Unscanned(keydir[k])
            \/ \E r \in rewrites : r.key = k /\ r.old = keydir[k]

\* Snapshots of readers inside the read lock lead to what they led to.
ReadersInv ==
    \A r \in Readers : \A k \in rd[r].keys :
        /\ rd[r].snap[k] = NoEntry \/ Resolves(rd[r].snap[k])
        /\ ValueAt(rd[r].snap[k]) = rd[r].view[k]

\* What holds of control, ownership and manifest, whatever the keydir says.
CoreInv == TypeOK /\ ControlInv /\ OwnershipInv /\ ManifestInv /\ AppendedInv

\* Where the values are.
DataInv ==
    /\ KeydirResolves
    /\ RewritesInv
    /\ CoverageInv
    /\ ReadersInv

\* All of it.
IndInv == CoreInv /\ DataInv
=============================================================================
