# little-db: TLA+ models and proofs

little-db is a Bitcask-style key-value store in Go: an append-only log of
segment files, an in-memory index (the keydir), a single writer goroutine, a
compactor, crash recovery, and a TCP server, a client and a command line around
it. These modules model the storage engine (`internal/engine`), what it keeps
across kills and power failures, and the way of a request from a command line
over the wire to the engine and back (`cmd/little-db`, `internal/client`,
`internal/wire`, `internal/server`). `PROJECT.json` maps every definition to the
lines it models.

## Inventory

| Component | State | Operations | Interacts with |
|---|---|---|---|
| write path (`engine.go` handleOne, handleBatch, rotateActive) | active segment, nextID, lastTstamp, writesDisabled | append a record or a batch, rotate | keydir, manifest, segment files; serialised by the writer goroutine |
| read path (Get, ReadKeyRange) | none; holds segmentsMu for reading | keydir snapshot, then preads | excludes rotation's and compaction's publication |
| keydir (`keydir.go`) | key -> (file, offset, length, timestamp) | put, putIfNewer, delete, compareAndSwap, applyBatch | everyone, under its own lock |
| compaction (`compact.go`) | candidates, merged segment, rewrites | scan, copy live values, hint, commit, unlink | shares nextID with rotation; commits through the writer's queue |
| manifest (`manifest.go`) | live segment ids, active id | atomic replacement (tmp, rename, directory sync) | rotation, compaction, Open |
| hint files (`hint.go`) | (key, offset, length, timestamp) per merged segment | write, read, remove | compaction, recovery |
| recovery, Open (`recovery.go`) | builds all of the above | replay, truncate, sweep | the files a previous process left |
| submit, group commit, Close | reqCh, submitMu, compactMu, closed, done | enqueue, burst, one fsync, reply, drain, tear down | all goroutines |
| host crash durability (`segment.sync`, `syncDir`, `writeManifest`) | what the disk holds | fsync a file, sync the directory, rename | rotation, compaction, Open, the end of a burst |
| record codec (`record.go`) | bytes of a segment | encode, decode, readRecord, recoverSegment | compaction reads by one, Open by the other |
| server (`server.go`, runServe) | draining, conns, wg, rangeSem, per connection a handler and a range stream | accept, dispatch, page, reply, Shutdown | the engine by its public methods, peers by frames |
| wire protocol (`internal/wire`) | none | encode and decode frames, requests, responses, range pages | server and client |
| client (`client.go`) | one connection | dial, one call at a time, read a stream, Close | server |
| command line (`subcommands.go`) | one process per command | parse flags, check arguments, call, exit code | client |
| data-dir lock, stats, logging | flock, counters, output | | |

What is hard here is not in any one function: a compaction scans while writes
land on the keys it copies; a manifest may be published without anybody knowing;
the process or the power may go between any two file operations; segment ids,
which recovery sorts by, are not ages once a compaction has run; Close meets
callers, a compactor and readers at every point; Shutdown meets connections that
are being accepted, are reading, or are in the middle of a range; an answer may
come after its caller has given up; two parsers of one record format, and two
sides of one protocol, must agree at every length. `PROJECT.json` lists these as
hazards, each at its line.

What makes each part correct: lookups resolve and are linearizable (write path,
keydir, compaction); a range read is one snapshot (read path); the manifest
always names files that hold everything (manifest, rotation, compaction); Open
accepts whatever the engine leaves and rebuilds the same map (recovery, hints);
acknowledged writes survive a power failure (durability); answers are true and
always given, and Close ends everything (submit, Close); Shutdown ends and
leaves nobody in the engine, and streams keep their slots, their cap and their
framing (server); what a call returns is about that call (client); what arrives
is what was sent, or is refused (codecs); exit codes say what happened (command
line).

## Modules

- `KVStore` is the promise to callers: one map and the request being served,
  which takes effect as a whole or fails without effect; nothing else changes the
  map. Naming the request matters: a map that may change by any put would also
  allow a compaction that brings a deleted value back.
- `Engine` is one life of the process. Its variables are the data directory
  (`file`, `segFiles`, `torn`, `hint`, `hintFiles`, `manifest`), the fields of
  `DB` (`segments`, `active`, `nextID`, `lastTstamp`, `keydir`,
  `writesDisabled`), the control state of the writer (`wpc`, `wreq`, `next`) and
  of the compactor (`cpc`, `candidates`, `newSeg`, `todo`, `scanPos`,
  `rewrites`), and the readers inside the read lock (`rd`). One action per step
  between which another goroutine, or the end of the process, can come:
  rotation is RotateCreate, RotateManifest, RotatePublish with its three ways to
  fail; a write is StartWrite, AppendRecord, ApplyKeydir; a compaction is
  CompactSnapshot, CompactCreate, ScanEntry/ScanNext, WriteHintFile or
  RetireOnly, CommitManifest, CommitPublish, UnlinkSegment/UnlinkHint, or the
  cleanup of a refused commit.
- `Recovery` extends `Engine` with Kill, enabled in every state (between the two
  unlinks of a segment and its hint only as the fault "midUnlink"), and Open:
  OpenRecover (reconcile, replay, truncate, choose the active segment),
  OpenFresh, OpenManifest, SweepOne, OpenDone.
- `Lifecycle` is about waiting and answering: callers in submit, the writer's
  bursts, compactMu, readers, Close. A request is only appended or not, fsynced
  or not. It is separate from `Engine` because its state is orthogonal: `Engine`
  has one request at a time and no answers, `Lifecycle` has the queue and no files.
- `Durability` extends `Recovery` with what the disk holds. Every action of
  `Recovery` is one of its own, joined with the fsyncs and directory syncs the
  code makes there; writeManifest becomes two steps, its rename and its directory
  sync (ManifestSynced); SyncBurst ends a burst; PowerLoss keeps what is on disk
  and any part of the rest. `history` and `acked` say which writes callers know of.
- `Server` is the serve command: the goroutine in Serve, one handler per
  connection, Shutdown, and the Close of the engine after it. The engine is
  KVStore's map (`store`), which a write changes in one step, since `Engine` is
  shown to implement it. Peers are what the network lets any program do.
- `Client` extends `Server` with the Go client on a connection: its call, its
  stream, its deadline, what it returns. A connection may also belong to a raw
  peer. `CLI` extends `Client` with the commands, each one process, one
  connection, one call and an exit code.
- `Record` is the record codec with both of its readers, `Wire` the protocol's
  codec, `WireStreams` its readers at both ends of a connection. `Args` (extends
  `Wire`) is what commands check before they dial, `Flags` is parseFlags.
- `EngineInv`, `RecoveryInv`, `DurabilityInv`, `LifecycleInv`, `ServerInv` and
  `ClientInv` state the inductive invariants of the modules they are named after;
  `EngineProofs`, `RecoveryProofs`, `DurabilityProofs`, `LifecycleProofs`,
  `ServerProofs` and `ClientProofs` prove them and what follows from them. The
  recovery proofs use those of the engine, the durability proofs both.
  `CallProofs` goes on from `ClientProofs` with range streams and with
  a Shutdown that is not cut short, `CLIProofs` from there with the commands.
- `MCEngine`, `MCRecovery`, `MCLifecycle`, `MCDurability`, `MCClient`, `MCCLI`
  give constants values for TLC. `MCCodecs` takes the four parsers (records,
  streams, arguments, flags) together: in a behaviour one of them runs and the
  others wait.

Definitions whose comment begins with "Mutant:" are wrong variants of the
definition that follows them. No specification uses them; each shows, put in the
place of the right one, that a property notices.

### Abstractions

The engine.

- A segment is the sequence of its entries; a BATCH record is one entry per
  operation, all with the batch's timestamp. Offsets are positions and
  `MaxSegmentSize` counts entries. Records are appended whole or leave the file
  in `torn`, which is all that recovery and later appends can tell.
- A timestamp is one more than the last: the code only compares them and forces
  them to increase. The highest one known after a restart is what replay met, as
  in the code, and may be lower than before.
- A failing call is a disjunct enabled by the constant `Faults`. A failed append
  stays failed (bufio keeps its error), so sync and rotation fail from then on.
  Such an append may or may not have been counted in the segment's size, so the
  next request may try to rotate or to append; both fail.
- `os.Remove` errors are ignored by the code, so removal may also do nothing.
- A hint covers what HintUsable checks (presence and bounds); CRC and count never
  fail for a file the engine wrote itself.
- In `Recovery` a kill keeps everything written to files. A clean Close is a kill
  of an idle process as far as files are concerned.
- In `Engine`, acknowledgements are left out: a write takes effect at ApplyKeydir.
  In `Recovery`, a record complete in the file when the process dies counts as
  written although its caller has no answer; recovery cannot tell the difference.
- Key length and value size are checked by validateKeyValue before submit, so the
  error branches of encode are unreachable and left out.
- A batch of one entry is treated like a single record; they differ only when
  `MaxSegmentSize` is 0, which Open replaces by its default.

Power failures (`Durability`).

- An fsync of a file makes its content stable and not its name; a directory sync
  makes names stable. A power failure cuts an unstable tail anywhere, also inside
  a record, and each name that is not stable has either state, independently of
  the others. It exposes no blocks that were never written. A failed fsync may be
  tried again with success. The truncation of a torn tail by Open is stable.
- The model is of SyncOnPut. Without it the code promises nothing about a power
  failure. The fsync of a burst is also made when every write of the burst failed,
  which the code omits; it then only makes stable what could be so before.
- Four circumstances happen only if `Faults` names them, because the code does not
  survive them (see Findings): "midUnlink" (a hint is left without its segment),
  "sealUnsynced" (the process ends with a full, unsynced active segment),
  "renameWindow" (the process, and not the machine, ends between a rename of the
  manifest and its directory sync), "openWindow" (the power fails inside the
  writeManifest of Open). Left out altogether: an id reused while the old file's
  removal is not stable, and the window between a hint's rename and its sync.

Server, client and command line.

- A frame is written whole, or an error leaves nothing or a cut frame (`Torn`) on
  the wire. A write blocks when `Buffer` frames are unread and then fails at its
  deadline. A deadline that is set may expire at any moment; one in the past ends
  the read at once.
- A request is what ReadRequest returns, or "malformed" (ProtocolError: answered,
  the connection goes on) or "garbage" (FrameError: the connection ends). `Wire`
  is where these are told apart.
- The number of a request and the snapshot that an END frame carries are history;
  no step depends on them.
- Pages and the cap are counted in bytes as in the code: handleRange adds up the
  lengths of the pairs it buffers (pageBytes, the field `bytes` of a stream) and
  the encoder counts those of the page it is given (`BodyBytes`). That the two
  agree is part of what is proved, and not assumed.
- Unless `Reuse`, a caller closes the Client after an error that did not come from
  the server, as every command does and as the comment of ReadKeyRange asks.
- The requests of a Client are ones that EncodeRequest writes. Its error return
  (nothing sent, the connection as it was) is left out: the commands are the only
  users of the package, and what they dial with is encodable (ChecksAreTheEncoders).
- A range takes its slot and its snapshot of the engine in one step; no other step
  depends on both.
- When the connection was closed by a server that answers nobody in particular (a
  CLOSED frame sent to an idle connection), a call may lose that frame: its own
  request resets the connection.
- A command whose stdin fails ends like one that cannot dial. Hex, base64, JSON
  and output formats are taken as decoded. Help and environment defaults are
  left out.

Codecs.

- One symbol per field and per byte of a key or value; a cut inside a field reads
  like one before it. The width of integers and their byte order are left out.
  Only the length of a frame is two symbols, because a cut between them is an
  error of its own. The symbol of the CRC field is what it covers: the checksum
  has no collisions.
- Limits are small, so that both sides of each are among the inputs: keys, values
  and batches one over their limit arrive as payloads of another program, three
  smallest entries fit the byte budget of a batch but not its count, and four
  pairs fit a page but collide with the mark of the end.
- A token on a command line is one of the seven kinds that parseFlags tells apart.

## Runs

| Run | Instance | Shows |
|---|---|---|
| `engine` | 2 keys, 2 values, a three-operation batch, 3 writes, ids 0..5, a reader, every fault | IndInv (with TypeOK and IdsFresh among its consequences), KeydirResolves, SnapshotReads, ManifestHoldsData, OnlyActiveTorn, SealedImmutable, Linearizable |
| `recovery` | segments of 2 entries, puts, deletes, batches, compaction, hints, 4 writes, ids 0..5, kills, faults of every kind but the hint's | OpenSucceeds, OpenResolves, HintsDescribeData, NothingLost |
| `durability` | segments of 2 entries, 4 writes, ids 0..3, kills and power failures, seven kinds of faults | OpenSucceeds, SealedSynced, AckedSurvive |
| `group_commit` | 3 writers, Compact, a reader, 2 Close calls, queue of 2, SyncOnPut, every fault | AnswersAreTrue, CommittedNotCleanedUp, QuietAfterClose, CleanCloseIsDurable |
| `shutdown` | a writer, Compact, the background compactor, Close, queue of 1 | CallsReturn, CloseReturns under fairness |
| `server` | a Client with 2 calls or a raw peer, three stores, one range slot, a cap of 32 bytes, pages of 11, failing accept, network and engine, timeouts, graceful and forced Shutdown | ShutdownDrains, SlotsAreStreams, StreamWithinCap, FramingKept, CallsAnsweredTruly, AnswersAreOwn, NilMeansWholeRange, and ShutdownCompletes under fairness |
| `cli` | 2 commands on 2 connections, one range slot, a failing engine and stdout, a graceful Shutdown | ExitCodesTrue, DrainLeavesNoDoubt |
| `codecs` | segments of up to 2 writes, cut or damaged at every symbol; every request, payload and answer, up to one over every limit, cut at every place; arguments around every limit; up to 5 tokens | WholeWritesRecovered, RotRefused, OffsetsPointAtValues, ReadersAgree, RequestsArriveAsSent, CutsAreTold, NilMeansAllOfIt, AnswersAreUnderstood, ChecksAreTheEncoders, FlagsReadAsMeant |
| `deleted_key_returns` | 1 key, no faults | RecoveredView is violated |
| `stale_hint` | puts, a kill between two unlinks | HintsDescribeData is violated |
| `seal_unsynced` | no compaction, a kill | SealedSynced is violated |
| `late_answer` | a Client that goes on after a timeout | CallsAnsweredTruly is violated |

Bounds. With `MaxSegmentSize` 1 every second write rotates, so three writes make
two sealed segments (the least that is compacted), a pass, and a write that lands
during it; ids up to 5 leave room for three rotations or failed allocations and a
merged segment. In `recovery` and `durability` the bounds hold across restarts:
four timestamps and four or six ids allow several lives, with a kill inside Open
among them. With segments of two entries a segment can be full with one batch, or
hold one write that is acknowledged and one that is not. Reaching `MaxWrites` or
`MaxSegId` only disables further writes and allocations. In `server` the three
stores make a response that meets the cap exactly, one that exceeds it while a
page is open or after one was sent, and one with a page that only the end of the
scan flushes; two calls are the least in which an answer can be taken for another
one's. A range that finds every slot taken needs a second connection: that is in
`cli`, where two ranges compete for one slot, and a put makes a range that fits
the cap exceed it.

State constraints. `recovery` and `durability` do not mix deletes with compaction
(DeletesApart): with both, the first finding breaks them without any fault. Each
mechanism is shown right without the other. `recovery` has no process leave a hint
without its segment (HintsHaveSegments, second finding). `durability` starts no
compaction on values that no fsync will follow (CompactionOnStable, see the last
list of Findings). OpenSucceeds and SealedSynced need none of these constraints;
their theorems have none.

Deadlock is checked wherever the program does not stop: in `Engine` a reader can
always start, in `Recovery` the process can always die, and `Lifecycle` has an
explicit step for the state in which every goroutine has returned. It is not
checked in `server`, `cli`, `codecs` and `late_answer`, where the server process
exits, commands end and parsers reach the end of their input.

## Fairness

`Engine`, `Recovery`, `Durability`, `CLI` and the parsers are checked for safety
only.

`FairSpec` of `Lifecycle` assumes that a goroutine that can go on does so (the Go
scheduler), and strong fairness where several goroutines compete for a channel
slot or for compactMu (Go queues blocked senders and hands a mutex over to a
starving waiter). Nobody is assumed to call anything, and the ticker may stay
silent. A file-system call is assumed to return, with success or an error.

`CFairSpec` of `Client` assumes weak fairness of the goroutines of the server
process: Serve, Shutdown and runServe, and every handler. A handler's read ends at
the latest at ReadDeadline and a blocked write at WriteDeadline, because the code
sets both deadlines. No peer is assumed to send or to read anything, no signal is
assumed to come, and the context of Shutdown may never expire.

## Findings

1. **A deleted key comes back after a restart** (`deleted_key_returns`). The
   merged segment's id is higher than that of the segment active during the
   compaction. A later Delete puts its tombstone into that active segment;
   replay goes by ascending id, meets the tombstone before the merged value,
   keeps nothing of it, and then restores the value. It takes two sealed
   segments, one compaction, one Delete and a restart. The comment in
   `recovery.go` promises that every acknowledged record is reflected.
2. **A left-over hint can be adopted by another segment** (`stale_hint`).
   `handleCompactCommit` removes a segment and then its hint; a kill between the
   two leaves the hint. Open takes the next id from `.seg` files alone and creates
   its fresh segment before the orphan sweep, so the id may be given out again; the
   hint then counts as live and, once the segment is sealed, as trusted. A
   `writeHintFile` that fails after its rename leaves a hint as well, because the
   cleanup removes only the segment (`compact.go:234`).
3. **Open seals a segment that was never fsynced** (`seal_unsynced`). A full active
   segment of the previous process is sealed in the manifest as it is. Recovery
   takes a torn tail of a sealed segment for corruption, on the ground that sealed
   segments were fsynced; after a power failure Open fails.
4. **A late answer is taken for the next call's** (`late_answer`). Responses carry
   no request id, and a Client whose call timed out is not marked as broken. A
   caller that goes on reads the late answer: a Put returns nil for a write that has
   not happened. The commands close their connection and are not affected.

Also seen while modelling, without a run of their own:

- `engine.go:476`: Open publishes a fresh active segment without the directory sync
  that rotateActive makes first. With "openWindow" in `Faults` of `durability`,
  OpenSucceeds is violated.
- `manifest.go:260`: after a kill between the rename of the manifest and its
  directory sync, the next process acknowledges writes under a manifest that a power
  failure can still take back. With "renameWindow" OpenSucceeds and AckedSurvive
  are violated.
- `engine.go:1041`: after a failed fsync, or a restart on an unsynced tail, the
  keydir holds values that are not stable; a compaction may drop the older,
  acknowledged ones. Without CompactionOnStable AckedSurvive is violated.
- `server.go:276`: the past read deadline that Shutdown sets can be overwritten by a
  handler that checked draining just before. The drain then takes up to ReadDeadline
  longer, and ends (ShutdownCompletes).
- `record.go:169`: a file that ends right after a record's header gives io.EOF, as
  does one that ends between records, where the comment (126-128) promises
  io.ErrUnexpectedEOF. Its callers know the file's size and do not depend on it.
- `recovery.go:198`: a damaged length in the active segment that points past the end
  reads as a torn tail, and what follows is truncated. RotRefused is about sealed
  segments.

## Proofs

Theorems hold for every value of the constants: any number of keys, values,
goroutines, connections and requests, any sizes and limits, and any set of failing
calls. They use the named assumptions of the modules and nothing else, except where
a theorem says so: as ASSUME what it takes of the constants (which calls do not
fail, what the peers or callers do not do), as a conjunct []P beside the
specification what a behaviour must keep to. Where there is such a condition a run
or a finding shows that the code does not do without it. A safety property is seldom inductive alone; each component has
an inductive invariant, which TLC has checked on the instances above before it was
proved. Each part of an invariant has a lemma with one case per action.

### The engine (`EngineProofs`)

Assumed: a tombstone is not a value; requests are non-empty sequences of
operations; sizes and bounds are natural numbers.

KeydirResolves is kept by CommitPublish only because each current value in a
candidate has a rewrite (CoverageInv) that leads to an equal entry (RewritesInv) in
a segment that is about to become live (OwnershipInv), and because the compactor
has finished its scan (ControlInv). `IndInv` is the conjunction of

- TypeOK;
- ControlInv: which control points of writer and compactor go together;
- OwnershipInv: which of active, next, candidates and merged segment a file is;
- ManifestInv: what the manifest says at each control point, also when an
  unconfirmed publication disabled writes;
- AppendedInv: the record in hand is at the end of the active file;
- DataInv: KeydirResolves; rewrites lead to copies (RewritesInv); every current
  value in a candidate is copied or still to be scanned (CoverageInv); readers'
  snapshots still lead to what they led to (ReadersInv).

All but DataInv is `CoreInv`. It does not depend on what the keydir holds, and is
inductive by itself (`CoreStep`), so that it also holds of a process that started
from what Open found.

Each part has a lemma `...Step` with one case per action, and they combine in
`IndStep` and `Invariance`. TLC checks `IndInv` in the run `engine`. The properties
of `Engine` follow from it: `TypeCorrect`, `KeydirAlwaysResolves`,
`ReadsAreSnapshots`, `ManifestAlwaysHoldsData`, `TornOnlyAtActive`,
`IdsAlwaysFresh`, the action property `SealedStaysSealed`, and
`EngineImplementsStore`: every step of `Engine` is a step of `KVStore`, or leaves
the map and the request alone. The refinement rests on ViewStep: ApplyKeydir is
KVStore's Write because the appended record is where LocOf says, CommitPublish is
a stutter because every swapped entry leads to an equal value, and every other
step accepts or refuses a request or is a stutter (RequestStep).

### Recovery and Open (`RecoveryProofs`)

Three invariants, each resting on the one before, because they hold under different
conditions.

- `DirInv` has no condition (`DirectoryInvariance`). It says what is in the
  directory when no process runs (DiskInv), what Open has established at each step
  (OpenInv), and that a process that is up has CoreInv. `OpenAlwaysSucceeds`
  follows: whatever failed and wherever a process was killed, the next Open accepts
  the directory.
- `HintInv` holds while no process leaves a hint without its segment
  (HintsHaveSegments; the run `stale_hint` shows why). HintFilesInv says that a hint
  is the PUTs of its segment and belongs to none that may still change; CopiesInv
  that the merged segment is the copies in rewrites, one for a key. Then
  `HintsAlwaysDescribeData` and `OpenAlwaysResolves`. `HintsKeepSegments` and
  `HintsSound` replace the condition by one on calls: no write of a hint and no
  removal fails, and no kill falls between the removals of a segment and its hint.
- `LogInv` holds while, further, deletes and compactions are not mixed
  (DeletesApart; the run `deleted_key_returns` shows why). An entry decides what a
  set of segments says of a key (Decides) if its timestamp is the highest, if it is
  the last of its own record, and, for a tombstone, if replay comes to it last.
  LoggedInv says that the keydir is what the live segments decide, SavedInv that
  what Open reads decides what callers are entitled to, OrderInv that only merged
  segments come after the active one. Replay computes exactly what is decided
  (lemmas on ReplayData, ReplayHint and Replay), a compaction changes nothing of
  it, and so `ViewRecovered` and the refinement `NothingIsLost`: an engine that is
  killed and opened again at any step implements KVStore.

`NothingLostWithoutCompaction` and `NothingLostWithoutDeletes` are the two cases in
which the conditions of LogInv are met by configuration: without compaction under
every fault; with puts only when each hint goes with its segment.

What replay computes is proved by induction on the position in a file and on the
segment id. The library's induction theorems take a predicate as a parameter, which
the provers cannot instantiate; here the predicate is a set of natural numbers, which
has a least element (`Least`) and is all of 0 .. n if it has 0 and every successor
(`UpTo`), and `Recursion` gives the recursive functions their equations.

### Power failures (`DurabilityProofs`)

Assumed: the three windows of the Findings do not occur (WindowsShut: "sealUnsynced",
"renameWindow" and "openWindow" are not among `Faults`). The run `seal_unsynced` and
the list after the findings show what happens in each of them. Everything else may
fail, also what leaves hints without segments, and deletes and compactions may be
mixed.

`StableInv` adds to `DirInv` when the manifest that processes see is the one on disk
(ManifestStable), that every file either manifest names is there and stably so
(NamesStable), that whatever is not being appended to has its content on disk
(ContentsStable), and that the segment the next Open will take for the active one
has room or is stable (RoomInv), since Open seals it without an fsync if it has
none. For PowerLoss, ContentsStable is what matters: a cut can only fall into the
segment both manifests call active. `SealedAlwaysSynced` and `OpenSurvivesPowerLoss`
follow; the second is OpenSucceeds of the run `durability`.

`AckedWritesSurvive` (AckedSurvive) assumes further that nobody compacts: with
compaction the property needs CompactionOnStable and DeletesApart, as the run
`durability` has them, and there it is only model-checked. Deletes are allowed. The
live segments, by id, are then one log, and `SurvivalInv` relates it to the history
of all maps there were:

- PlacesInv: a segment with entries is in both manifests and not above the active one
  of either, and what is stable of it is a beginning of it;
- SortedInv: timestamps grow along the log, and no record is in two segments;
- RecordsInv: every entry is of a record of the history, and the log up to a record
  that it still has says what the map was after that record;
- AckedInv: the last record callers know of is stable;
- CurrentInv: the keydir has the last map, or the one before while a record is
  applied.

PowerLoss may only cut the segment that is the end of the log (ContentsStable and
PlacesInv), and only between two records, so what it takes is newer than all it
leaves (`PowerLossCut`); what the log says up to a record it leaves does not change
(`SaysFrame`). Rebuild then finds in the log the newest record left, at or above the
last one callers know of (`RebuildHistory`), and replay of the whole log gives the
map of that record, by the lemmas on replay of `RecoveryProofs`. SyncBurst fsyncs the
active segment alone: a record of the burst that went to a segment before it was
sealed by a rotation, which fsynced it (`SyncBurstAcked`).

### Submit, group commit and Close (`LifecycleProofs`)

Assumed: the sets of callers, compactors, readers and closers are disjoint
(RolesAssumption), the queue has at least one place.

`LifecycleInd` says who holds compactMu (MutexInv), how far the writer is with its
burst and that it leaves only when closed and with nothing queued (WriterInv), what
has happened by each step of Close (CloseInv), that a request is in one place at a
time (QueueInv) and takes effect in the burst only (AppliedInv), that an answer is
true from the moment it is decided, as a result, in the reply channel and as what
the call returns (AnswerInv), and that only the active segment is unsynced (LogInv).
`LifecycleInvariance` gives `AnswersTrue`, `CleanupIsSafe`, `CloseIsQuiet` and
`CloseIsDurable`, the four safety properties of the run `group_commit`.

### The server (`ServerProofs`)

Assumed: keys are finitely many positive numbers, what Open found is a map of them,
requests are those ReadRequest returns, limits are natural numbers and MaxStreams,
FlushBytes and Buffer are not zero (New replaces zeros by defaults).
Finiteness of the keys is what makes a range a sequence.

`ServerInd` relates the wait group and the set of connections to the handlers that
run (HandlersInv), Shutdown to both (DrainInv), the semaphore to the streams that
hold a slot (SlotsInv), pageBytes to what the encoder will count and both to the cap
(CapInv), and a cut frame to a handler on its way out (FramingInv). HandlersInv is
what makes `ShutdownLeavesNoHandler` (ShutdownDrains) true: Serve adds to the wait
group under the lock under which Shutdown sets draining. `SlotsNeverLeak`,
`CapNeverExceeded` and `FramingNeverLost` are the other three. The invariant holds
whatever peers do, so it also holds where Clients or commands are the peers.

### Client and server together (`ClientProofs`, `CallProofs`)

Assumed: callers stop at a transport error (~Reuse). Without that the properties are
false; finding 4 is the counterexample.

Responses carry no request id, so a Client relies on there being one call at a time.
`ClientInd` says where the one call of a connection can be: queued, with the handler,
on its way back, or given up. In each of these places the number that history keeps
is the call's, frames before the last are pages (RequestInv, ReplyInv, FrameInv), and
each answer is true of what was applied (EffectInv, ResultInv). A frame of number 0
is the farewell of a draining server, and stands for a request that will not be read.
From it follow `CallsNeverLie` (CallsAnsweredTruly) and `AnswersNeverMixed`
(AnswersAreOwn).

`RangesAreWhole` (NilMeansWholeRange) needs `StreamInd`: while the Client waits, what
pageFn was given, the pages on the wire, the page being filled and the pairs still to
be scanned are, in this order, the snapshot. Saying that with a concatenation of all
pages would need induction over their number; `Sound` says it with cut points, one per
frame, which a step extends at one end and takes off at the other.

`DrainCutsNoWrite` (DrainLeavesNoDoubt) assumes further that the context of Shutdown
does not expire (~Grace) and that neither network nor Accept fails. `DrainInd` adds
that the process does not exit before Shutdown returns (ServingInv), that the server's
end of a connection is closed only behind its handler (LinkInv), and that a write
which took effect has its answer in hand or on the wire as long as its call may still
lose the connection (DoubtInv).

### Commands (`CLIProofs`)

A command makes one call on a connection of its own, so it need not be assumed that
it stops at an error: CmdInd shows it. `ExitCodesNeverLie` (ExitCodesTrue) has no
assumption beyond those of the modules; `DrainSparesCommands` has those of
`DrainCutsNoWrite` on Shutdown and network.

### What the proofs changed

- `Outcome` of `Client` was a CASE whose guards overlapped; TLC took the first that
  held, where TLA+ leaves the choice open. It is now in the order of the code: first
  the status, then the body.
- `Server` computed the size of a page from its pairs where the code keeps a counter.
  The counter is now state, and CapInv relates it to what the encoder sends.
- Replay was a fold over a sequence of segment ids. It is now a recursive function of
  the id and, within a segment, one of the position, which is also how recover loops.
- The invariant of the engine was split into CoreInv and DataInv: the first holds
  after every Open, the second depends on what replay computed.
- Rebuild cut the history with a filter; it now takes the beginning of it up to the
  highest timestamp that recovery found, which is the same where the history is in
  the order of the timestamps, and can be reasoned about without induction.
- A range of the store was a CHOOSE of a sorted sequence; it is now a choice from the
  set of such sequences, which has one element.

### Only model-checked

- Liveness (CallsReturn, CloseReturns, ShutdownCompletes): fairness and ENABLED are
  beyond the prover.
- AckedSurvive of `Durability` with compaction. There a merged segment is above
  segments that are newer than its entries, and after a power failure either manifest
  may be the one in use, so the log has no order that a cut could be measured by.
- `Record`, `Wire`, `WireStreams`, `Args`, `Flags`: decoding is recursion over data.

## Not modelled

- The data directory lock: one flock call, which the operating system keeps.
- Logging, the byte count of Stats and the snapshot of it that Close keeps: nothing
  reads them back.
- JSON of the manifest, CRC and footer of hints, hex, base64, output formats.
- Durability in async mode, which promises none.
- File descriptors and seek positions of segments.

## Plan

Done: all components, with proofs for engine, recovery, durability, lifecycle, server,
client and commands.

Left: AckedSurvive with compaction, under CompactionOnStable and DeletesApart as
conditions on the behaviour: what both manifests give for every record that is still in
the log, in the terms of `LogInv`.
