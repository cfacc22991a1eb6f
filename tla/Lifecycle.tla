------------------------------ MODULE Lifecycle ------------------------------
(***************************************************************************)
(* The goroutines of the engine and how they wait for one another: callers *)
(* in submit, the writer goroutine with its group commit, passes of the    *)
(* compactor, readers, and Close.  What a request does to files and keydir *)
(* is the subject of Engine.tla; here a request is appended or not, and    *)
(* fsynced or not, and it is answered.                                     *)
(*                                                                         *)
(* Every caller makes one call.  A reply of "ok" is a nil error, "closed"  *)
(* is ErrDBClosed, "disabled" ErrWritesDisabled, "err" any other error.    *)
(***************************************************************************)
EXTENDS Naturals, Sequences, FiniteSets

CONSTANTS
    Callers,     \* goroutines that call Put, Delete or BatchPut
    Manual,      \* goroutines that call Compact
    Loop,        \* the background compactor: one goroutine, or none
    Readers,     \* goroutines that call Get or ReadKeyRange
    Closers,     \* goroutines that call Close
    NoOne,
    QueueDepth,  \* Options.WriteQueueDepth
    SyncOnPut,   \* Options.SyncOnPut
    Faults       \* the calls that may fail

ASSUME QueueAssumption == QueueDepth \in Nat \ {0}
ASSUME SyncAssumption == SyncOnPut \in BOOLEAN
ASSUME LifecycleFaultsAssumption ==
    Faults \subseteq {"append", "sync", "uncertain", "manifest"}

Compactors == Manual \cup Loop
Requesters == Callers \cup Compactors
Goroutines == Requesters \cup Readers \cup Closers

\* A goroutine makes one kind of call.
ASSUME RolesAssumption ==
    /\ NoOne \notin Goroutines
    /\ Callers \cap Compactors = {}
    /\ Manual \cap Loop = {}
    /\ Requesters \cap (Readers \cup Closers) = {}
    /\ Readers \cap Closers = {}

VARIABLES
    pc,       \* pc[g]: where goroutine g is
    res,      \* res[g]: what its call returned
    reply,    \* reply[g]: the reply channel of its request (capacity 1)
    closed,   \* db.closed, and db.done being closed
    once,     \* db.closeOnce: who runs the body of Close
    closeErr, \* db.closeErr is not nil
    files,    \* the segment files and the directory lock are held
    compactMu,
    writesDisabled,
    \* The writer goroutine.
    reqCh,    \* db.reqCh
    wpc,
    burst,    \* the requests of this burst
    results,  \* the results so far
    draining, \* in drainAfterClose
    \* The log.
    applied,  \* requesters whose request took effect (appended or committed)
    current,  \* of those, the writes in the active segment
    dirty,    \* of those, the writes not fsynced
    broken    \* an append to the active segment failed: bufio keeps the error

callVars == <<pc, res, reply>>
closeVars == <<closed, once, closeErr, files>>
writerVars == <<reqCh, wpc, burst, results, draining>>
logVars == <<applied, current, dirty, broken, writesDisabled>>
vars == <<callVars, closeVars, compactMu, writerVars, logVars>>

At(g, l) == pc[g] = l
Goto(g, l) == pc' = [pc EXCEPT ![g] = l]

\* The call of g returns r.
Return(g, l, r) == Goto(g, l) /\ res' = [res EXCEPT ![g] = r]

----------------------------------------------------------------------------
(* submit, for callers and for the commit of a compaction.                 *)

\* A pending Lock keeps new read locks out (sync.RWMutex).
SubmitMuFree == \A c \in Closers : ~At(c, "lockSubmit")

\* Put, Delete, BatchPut enter submit.
Call(g) == At(g, "idle") /\ Goto(g, "submit")
           /\ UNCHANGED <<res, reply, closeVars, compactMu, writerVars, logVars>>

\* RLock and the two checks; a refused caller returns, a refused compactor
\* goes on to clean up.
SubmitLock(g) ==
    /\ At(g, "submit")
    /\ SubmitMuFree
    /\ LET Refused(r) ==
               Return(g, IF g \in Callers THEN "returned" ELSE "cleanup", r)
       IN  \/ closed /\ Refused("closed")
           \/ ~closed /\ writesDisabled /\ Refused("disabled")
           \/ ~closed /\ ~writesDisabled /\ Goto(g, "send") /\ UNCHANGED res
    /\ UNCHANGED <<reply, closeVars, compactMu, writerVars, logVars>>

\* The send on reqCh, RUnlock.
Send(g) ==
    /\ At(g, "send")
    /\ Len(reqCh) < QueueDepth
    /\ reqCh' = Append(reqCh, g)
    /\ Goto(g, "wait")
    /\ UNCHANGED <<res, reply, closeVars, compactMu, wpc, burst, results,
                   draining, logVars>>

\* The receive from the reply channel, for a caller.
Receive(g) ==
    /\ At(g, "wait")
    /\ reply[g] # "none"
    /\ Return(g, "returned", reply[g])
    /\ UNCHANGED <<reply, closeVars, compactMu, writerVars, logVars>>

----------------------------------------------------------------------------
(* Compact, compactOnce and compactorLoop.                                 *)

\* Compact's early check.
CompactCall(g) ==
    /\ At(g, "idle")
    /\ IF closed THEN Return(g, "returned", "closed")
                 ELSE Goto(g, "lockCompact") /\ UNCHANGED res
    /\ UNCHANGED <<reply, closeVars, compactMu, writerVars, logVars>>

\* The ticker fires and closed is not set.  A tick that select takes when done
\* is closed too finds closed set, for Close sets it first, and is LoopExit.
LoopTick(g) ==
    /\ At(g, "idle")
    /\ ~closed
    /\ Goto(g, "lockCompact")
    /\ UNCHANGED <<res, reply, closeVars, compactMu, writerVars, logVars>>

LoopExit(g) ==
    /\ At(g, "idle")
    /\ closed
    /\ Goto(g, "returned")
    /\ UNCHANGED <<res, reply, closeVars, compactMu, writerVars, logVars>>

\* Where a pass ends: Compact returns, the loop waits for its ticker.
Over(g) == IF g \in Loop THEN "idle" ELSE "returned"

\* Mutant: closed is not checked again once compactMu is held.
CompactLockUnchecked(g) ==
    /\ At(g, "lockCompact")
    /\ compactMu = NoOne
    /\ Goto(g, "pass") /\ compactMu' = g /\ UNCHANGED res
    /\ reply' = [reply EXCEPT ![g] = "none"]
    /\ applied' = applied \ {g}
    /\ UNCHANGED <<closeVars, writerVars, current, dirty, broken,
                   writesDisabled>>

\* compactMu.Lock and the second check of closed.
CompactLock(g) ==
    /\ At(g, "lockCompact")
    /\ compactMu = NoOne
    /\ IF closed THEN Return(g, Over(g), "closed") /\ UNCHANGED compactMu
                 ELSE Goto(g, "pass") /\ compactMu' = g /\ UNCHANGED res
    /\ reply' = [reply EXCEPT ![g] = "none"]
    /\ applied' = applied \ {g}
    /\ UNCHANGED <<closeVars, writerVars, current, dirty, broken,
                   writesDisabled>>

\* Too few candidates, or the pass fails: the deferred Unlock.
CompactStop(g) ==
    /\ At(g, "pass")
    /\ compactMu' = NoOne
    /\ \E r \in {"ok", "err"} : Return(g, Over(g), r)
    /\ UNCHANGED <<reply, closeVars, writerVars, logVars>>

\* Candidates scanned, merged segment and hint written: the commit goes to
\* the writer.
CompactSubmit(g) ==
    /\ At(g, "pass")
    /\ Goto(g, "submit")
    /\ UNCHANGED <<res, reply, closeVars, compactMu, writerVars, logVars>>

\* The writer's answer: a rejected commit is cleaned up after.
CompactReceive(g) ==
    /\ At(g, "wait")
    /\ reply[g] # "none"
    /\ IF reply[g] = "ok"
       THEN Return(g, Over(g), "ok") /\ compactMu' = NoOne
       ELSE Return(g, "cleanup", reply[g]) /\ UNCHANGED compactMu
    /\ UNCHANGED <<reply, closeVars, writerVars, logVars>>

\* cleanupNewSeg and removeHintFile.
CompactCleanup(g) ==
    /\ At(g, "cleanup")
    /\ Goto(g, Over(g))
    /\ compactMu' = NoOne
    /\ UNCHANGED <<res, reply, closeVars, writerVars, logVars>>

----------------------------------------------------------------------------
(* The writer: writerLoop, drainAfterClose, processBurst, handleOne.       *)

\* No reader is inside segmentsMu.RLock.
SegmentsMuFree == \A r \in Readers : ~At(r, "pread")

WriterTake ==
    /\ wpc = "select"
    /\ reqCh # <<>>
    /\ burst' = <<Head(reqCh)>>
    /\ reqCh' = Tail(reqCh)
    /\ wpc' = "grab"
    /\ UNCHANGED <<callVars, closeVars, compactMu, results, draining, logVars>>

\* done is closed.  With requests queued as well, select takes either case.
WriterDone ==
    /\ wpc = "select"
    /\ closed
    /\ draining' = TRUE
    /\ wpc' = "grab"
    /\ UNCHANGED <<callVars, closeVars, compactMu, reqCh, burst, results, logVars>>

\* More of what is queued joins the burst: up to the queue's depth, or all
\* of it after Close.
WriterGrab ==
    /\ wpc = "grab"
    /\ reqCh # <<>>
    /\ draining \/ Len(burst) < QueueDepth
    /\ burst' = Append(burst, Head(reqCh))
    /\ reqCh' = Tail(reqCh)
    /\ UNCHANGED <<callVars, closeVars, compactMu, wpc, results, draining, logVars>>

\* Mutant: what was drained after Close is dropped.
DrainDiscards ==
    /\ wpc = "grab"
    /\ reqCh = <<>> \/ (~draining /\ Len(burst) = QueueDepth)
    /\ wpc' = IF draining THEN "exited" ELSE "handle"
    /\ UNCHANGED <<callVars, closeVars, compactMu, reqCh, burst, results,
                   draining, logVars>>

WriterGrabbed ==
    /\ wpc = "grab"
    /\ reqCh = <<>> \/ (~draining /\ Len(burst) = QueueDepth)
    /\ wpc' = IF burst = <<>> THEN "exited" ELSE "handle"
    /\ UNCHANGED <<callVars, closeVars, compactMu, reqCh, burst, results,
                   draining, logVars>>

\* The request at hand in processBurst's first loop, and its result.
Handling(r) == wpc = "handle" /\ Len(results) < Len(burst)
               /\ r = burst[Len(results) + 1]
Result(x) == results' = Append(results, x)

\* The sticky check, for a request already in the burst.
HandleDisabled(r) ==
    /\ Handling(r)
    /\ writesDisabled
    /\ Result("disabled")
    /\ UNCHANGED <<callVars, closeVars, compactMu, reqCh, wpc, burst, draining,
                   logVars>>

\* The record goes to the active segment.
HandleAppend(r) ==
    /\ Handling(r)
    /\ r \in Callers
    /\ ~writesDisabled
    /\ ~broken
    /\ applied' = applied \cup {r}
    /\ current' = current \cup {r}
    /\ dirty' = dirty \cup {r}
    /\ Result("ok")
    /\ UNCHANGED <<callVars, closeVars, compactMu, reqCh, wpc, burst, draining,
                   broken, writesDisabled>>

\* Mutant: the segment is sealed without a sync.
HandleRotateUnsynced(r) ==
    /\ Handling(r)
    /\ r \in Callers
    /\ ~writesDisabled
    /\ ~broken
    /\ SegmentsMuFree
    /\ applied' = applied \cup {r}
    /\ current' = {r}
    /\ dirty' = dirty \cup {r}
    /\ Result("ok")
    /\ UNCHANGED <<callVars, closeVars, compactMu, reqCh, wpc, burst, draining,
                   broken, writesDisabled>>

\* The active segment is full: rotateActive syncs and seals it, and the
\* record goes to a new one.
HandleRotate(r) ==
    /\ Handling(r)
    /\ r \in Callers
    /\ ~writesDisabled
    /\ ~broken
    /\ SegmentsMuFree
    /\ applied' = applied \cup {r}
    /\ current' = {r}
    /\ dirty' = (dirty \ current) \cup {r}
    /\ Result("ok")
    /\ UNCHANGED <<callVars, closeVars, compactMu, reqCh, wpc, burst, draining,
                   broken, writesDisabled>>

\* rotateActive fails: at its sync (always, after a failed append), or after
\* it, where an unconfirmed manifest disables writes.
HandleRotateFail(r) ==
    /\ Handling(r)
    /\ r \in Callers
    /\ ~writesDisabled
    /\ \/ /\ broken \/ "sync" \in Faults
          /\ Result("err")
          /\ UNCHANGED <<dirty, writesDisabled>>
       \/ /\ ~broken /\ "manifest" \in Faults
          /\ Result("err")
          /\ dirty' = dirty \ current
          /\ UNCHANGED writesDisabled
       \/ /\ ~broken /\ "uncertain" \in Faults
          /\ Result("disabled")
          /\ dirty' = dirty \ current
          /\ writesDisabled' = TRUE
    /\ UNCHANGED <<callVars, closeVars, compactMu, reqCh, wpc, burst, draining,
                   applied, current, broken>>

\* The append or the flush fails.
HandleAppendFail(r) ==
    /\ Handling(r)
    /\ r \in Callers
    /\ ~writesDisabled
    /\ broken \/ "append" \in Faults
    /\ broken' = TRUE
    /\ Result("err")
    /\ UNCHANGED <<callVars, closeVars, compactMu, reqCh, wpc, burst, draining,
                   applied, current, dirty, writesDisabled>>

\* handleCompactCommit: the manifest is swapped, or nothing happens.
HandleCommit(r) ==
    /\ Handling(r)
    /\ r \in Compactors
    /\ ~writesDisabled
    /\ \/ SegmentsMuFree /\ applied' = applied \cup {r} /\ Result("ok")
       \/ "manifest" \in Faults /\ UNCHANGED applied /\ Result("err")
    /\ UNCHANGED <<callVars, closeVars, compactMu, reqCh, wpc, burst, draining,
                   current, dirty, broken, writesDisabled>>

\* Requests of the burst that appended to the active segment (appendedActive).
Appended == {i \in DOMAIN results : results[i] = "ok" /\ burst[i] \in Callers}

\* Mutant: every request of the burst is poisoned.
PoisonAll == [i \in DOMAIN results |-> "err"]

\* The results after a failed fsync.
Poison == [i \in DOMAIN results |-> IF i \in Appended THEN "err" ELSE results[i]]

\* One fsync for the whole burst.
SyncBurst ==
    /\ wpc = "handle"
    /\ Len(results) = Len(burst)
    /\ wpc' = "reply"
    /\ \/ /\ Appended = {} \/ ~SyncOnPut
          /\ UNCHANGED <<results, dirty>>
       \/ /\ Appended # {} /\ SyncOnPut
          /\ ~broken
          /\ dirty' = dirty \ current
          /\ UNCHANGED results
       \/ /\ Appended # {} /\ SyncOnPut
          /\ broken \/ "sync" \in Faults
          /\ results' = Poison
          /\ UNCHANGED dirty
    /\ UNCHANGED <<callVars, closeVars, compactMu, reqCh, burst, draining,
                   applied, current, broken, writesDisabled>>

\* The next reply; after the last one the loop goes on, or the writer exits.
Reply ==
    /\ wpc = "reply"
    /\ reply[Head(burst)] = "none"
    /\ reply' = [reply EXCEPT ![Head(burst)] = Head(results)]
    /\ burst' = Tail(burst)
    /\ results' = Tail(results)
    /\ wpc' = IF Len(burst) > 1 THEN "reply"
              ELSE IF draining THEN "exited" ELSE "select"
    /\ UNCHANGED <<pc, res, closeVars, compactMu, reqCh, draining, logVars>>

----------------------------------------------------------------------------
(* Get and ReadKeyRange.                                                   *)

ReadCall(g) ==
    /\ At(g, "idle")
    /\ IF closed THEN Return(g, "returned", "closed")
                 ELSE Goto(g, "rlock") /\ UNCHANGED res
    /\ UNCHANGED <<reply, closeVars, compactMu, writerVars, logVars>>

\* segmentsMu.RLock, which waits while Close asks for the lock, and the second
\* check of closed.
ReadLock(g) ==
    /\ At(g, "rlock")
    /\ \A c \in Closers : ~At(c, "teardown")
    /\ IF closed THEN Return(g, "returned", "closed")
                 ELSE Goto(g, "pread") /\ UNCHANGED res
    /\ UNCHANGED <<reply, closeVars, compactMu, writerVars, logVars>>

\* The preads, RUnlock.
ReadDone(g) ==
    /\ At(g, "pread")
    /\ Return(g, "returned", "ok")
    /\ UNCHANGED <<reply, closeVars, compactMu, writerVars, logVars>>

----------------------------------------------------------------------------
(* Close.                                                                  *)

\* closeOnce: the first caller runs the body, the others wait for it.
CloseCall(c) ==
    /\ At(c, "idle")
    /\ IF once = NoOne THEN once' = c /\ Goto(c, "lockSubmit")
                       ELSE UNCHANGED once /\ Goto(c, "waitOnce")
    /\ UNCHANGED <<res, reply, closed, closeErr, files, compactMu, writerVars,
                   logVars>>

\* submitMu.Lock, granted when no submit is between its check and its send;
\* closed is published and done is closed.
CloseSignal(c) ==
    /\ At(c, "lockSubmit")
    /\ \A g \in Requesters : ~At(g, "send")
    /\ closed' = TRUE
    /\ Goto(c, "waitWriter")
    /\ UNCHANGED <<res, reply, once, closeErr, files, compactMu, writerVars,
                   logVars>>

\* writerWG.Wait.
CloseWaitWriter(c) ==
    /\ At(c, "waitWriter")
    /\ wpc = "exited"
    /\ Goto(c, "waitLoop")
    /\ UNCHANGED <<res, reply, closeVars, compactMu, writerVars, logVars>>

\* Mutant: compactMu is taken before the compactor has been waited for.
CloseWaitLoopLocked(c) ==
    /\ At(c, "waitLoop")
    /\ \/ /\ compactMu = NoOne /\ compactMu' = c
          /\ UNCHANGED pc
       \/ /\ compactMu = c /\ \A l \in Loop : At(l, "returned")
          /\ compactMu' = NoOne /\ Goto(c, "lockCompact")
    /\ UNCHANGED <<res, reply, closeVars, writerVars, logVars>>

\* compactorWG.Wait.
CloseWaitLoop(c) ==
    /\ At(c, "waitLoop")
    /\ \A l \in Loop : At(l, "returned")
    /\ Goto(c, "lockCompact")
    /\ UNCHANGED <<res, reply, closeVars, compactMu, writerVars, logVars>>

\* compactMu.Lock, after a manual Compact.
CloseLockCompact(c) ==
    /\ At(c, "lockCompact")
    /\ compactMu = NoOne
    /\ compactMu' = c
    /\ Goto(c, "teardown")
    /\ UNCHANGED <<res, reply, closeVars, writerVars, logVars>>

\* Mutant: the active segment is closed without the last sync.
CloseTeardownUnsynced(c) ==
    /\ At(c, "teardown")
    /\ SegmentsMuFree
    /\ files' = FALSE
    /\ compactMu' = NoOne
    /\ Goto(c, "returned")
    /\ UNCHANGED <<res, reply, closed, once, closeErr, writerVars, logVars>>

\* Under segmentsMu.Lock: the last sync, every file closed; then the directory
\* lock and compactMu are released.
CloseTeardown(c) ==
    /\ At(c, "teardown")
    /\ SegmentsMuFree
    /\ \/ ~broken /\ dirty' = dirty \ current /\ UNCHANGED closeErr
       \/ (broken \/ "sync" \in Faults) /\ closeErr' = TRUE /\ UNCHANGED dirty
    /\ files' = FALSE
    /\ compactMu' = NoOne
    /\ Goto(c, "returned")
    /\ UNCHANGED <<res, reply, closed, once, writerVars, applied, current,
                   broken, writesDisabled>>

CloseAgain(c) ==
    /\ At(c, "waitOnce")
    /\ At(once, "returned")
    /\ Goto(c, "returned")
    /\ UNCHANGED <<res, reply, closeVars, compactMu, writerVars, logVars>>

----------------------------------------------------------------------------
(* The specification.                                                      *)

Init ==
    /\ pc = [g \in Goroutines |-> "idle"]
    /\ res = [g \in Goroutines |-> "none"]
    /\ reply = [g \in Requesters |-> "none"]
    /\ closed = FALSE
    /\ once = NoOne
    /\ closeErr = FALSE
    /\ files = TRUE
    /\ compactMu = NoOne
    /\ writesDisabled = FALSE
    /\ reqCh = <<>>
    /\ wpc = "select"
    /\ burst = <<>>
    /\ results = <<>>
    /\ draining = FALSE
    /\ applied = {}
    /\ current = {}
    /\ dirty = {}
    /\ broken = FALSE

Submitting(g) == SubmitLock(g) \/ Send(g)

Caller(g) == Call(g) \/ Submitting(g) \/ Receive(g)

Pass(g) ==
    \/ CompactLock(g) \/ CompactStop(g) \/ CompactSubmit(g)
    \/ Submitting(g) \/ CompactReceive(g) \/ CompactCleanup(g)

Handle(r) ==
    \/ HandleDisabled(r) \/ HandleAppend(r) \/ HandleRotate(r)
    \/ HandleRotateFail(r) \/ HandleAppendFail(r) \/ HandleCommit(r)

Writer ==
    \/ WriterTake \/ WriterDone \/ WriterGrab \/ WriterGrabbed
    \/ \E r \in Requesters : Handle(r)
    \/ SyncBurst \/ Reply

Reader(g) == ReadCall(g) \/ ReadLock(g) \/ ReadDone(g)

Closing(c) ==
    \/ CloseSignal(c) \/ CloseWaitWriter(c) \/ CloseWaitLoop(c)
    \/ CloseLockCompact(c) \/ CloseTeardown(c) \/ CloseAgain(c)

\* Every goroutine has returned.
AllReturned == \A g \in Goroutines : At(g, "returned")

Next ==
    \/ \E g \in Callers : Caller(g)
    \/ \E g \in Manual : CompactCall(g) \/ Pass(g)
    \/ \E g \in Loop : LoopTick(g) \/ LoopExit(g) \/ Pass(g)
    \/ \E g \in Readers : Reader(g)
    \/ \E c \in Closers : CloseCall(c) \/ Closing(c)
    \/ Writer
    \/ AllReturned /\ UNCHANGED vars

Spec == Init /\ [][Next]_vars

\* A goroutine that can go on does (the Go scheduler).  Nobody is obliged to
\* call anything, and the ticker may stay silent.  A goroutine blocked on a
\* channel or on compactMu is served in turn (a channel's senders wait in a
\* queue, a starving mutex is handed over), hence strong fairness there.
Fairness ==
    /\ WF_vars(Writer)
    /\ \A g \in Callers : WF_vars(SubmitLock(g) \/ Receive(g)) /\ SF_vars(Send(g))
    /\ \A g \in Compactors : WF_vars(Pass(g)) /\ SF_vars(CompactLock(g))
                             /\ SF_vars(Send(g))
    /\ \A g \in Loop : WF_vars(LoopExit(g))
    /\ \A g \in Readers : WF_vars(ReadLock(g) \/ ReadDone(g))
    /\ \A c \in Closers : WF_vars(Closing(c))

FairSpec == Spec /\ Fairness

----------------------------------------------------------------------------
(* Properties.                                                             *)

\* A nil error is a promise: the record is in the log and, under SyncOnPut,
\* fsynced, also when a rotation inside the burst sealed the segment it went
\* to.  ErrDBClosed and ErrWritesDisabled are promises too: the write did not
\* happen and never will (comment on submitMu: "bail with ErrDBClosed while
\* the write still lands").
AnswersAreTrue ==
    \A g \in Callers :
        /\ res[g] = "ok" => g \in applied /\ (SyncOnPut => g \notin dirty)
        /\ res[g] \in {"closed", "disabled"} => g \notin applied

\* A compaction that cleans up after itself was not committed: an fsync error
\* of the burst it shared does not make it remove a published segment.
CommittedNotCleanedUp ==
    \A g \in Compactors : At(g, "cleanup") => g \notin applied

\* Once Close has closed the files and given up the directory lock, nobody
\* is inside a compaction pass, a pread or the writer loop.
QuietAfterClose ==
    ~files => /\ wpc = "exited"
              /\ reqCh = <<>>
              /\ \A g \in Compactors :
                   pc[g] \notin {"pass", "submit", "send", "wait", "cleanup"}
              /\ \A g \in Readers : ~At(g, "pread")

\* After a Close that returned no error every record is fsynced, with or
\* without SyncOnPut.
CleanCloseIsDurable == ~files /\ ~closeErr => dirty = {}

\* Whoever calls gets an answer: submit waits unconditionally for a reply
\* that the writer must send, also while Close is in progress.
CallsReturn ==
    \A g \in Callers \cup Manual :
        ~At(g, "idle") ~> At(g, "returned")

\* Close returns: writer, compactor, readers and a manual Compact do not wait
\* for one another in a circle.
CloseReturns == \A c \in Closers : ~At(c, "idle") ~> At(c, "returned")
=============================================================================
