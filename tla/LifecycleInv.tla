---------------------------- MODULE LifecycleInv ----------------------------
(***************************************************************************)
(* The inductive invariant of Lifecycle: what callers, writer, compactors, *)
(* readers and Close rely on about each other between their steps.         *)
(* LifecycleProofs proves it inductive for every value of the constants.   *)
(***************************************************************************)
EXTENDS Lifecycle

Answers == {"none", "ok", "closed", "disabled", "err"}

CallerPcs == {"idle", "submit", "send", "wait", "returned"}
HoldsCompactMu == {"pass", "submit", "send", "wait", "cleanup"}
CompactorPcs == {"idle", "lockCompact", "returned"} \cup HoldsCompactMu
ReaderPcs == {"idle", "rlock", "pread", "returned"}

\* The steps of the body of Close: after closed is published, after the
\* writer has been waited for, and after the background compactor has.
AfterSignal == {"waitWriter", "waitLoop", "lockCompact", "teardown"}
AfterWriter == AfterSignal \ {"waitWriter"}
AfterLoop == AfterWriter \ {"waitLoop"}
CloserPcs == {"idle", "lockSubmit", "waitOnce", "returned"} \cup AfterSignal

PcTypeOK ==
    /\ pc \in [Goroutines -> CallerPcs \cup CompactorPcs \cup ReaderPcs \cup CloserPcs]
    /\ \A g \in Callers : pc[g] \in CallerPcs
    /\ \A g \in Compactors : pc[g] \in CompactorPcs
    /\ \A g \in Readers : pc[g] \in ReaderPcs
    /\ \A g \in Closers : pc[g] \in CloserPcs

LifecycleTypeOK ==
    /\ res \in [Goroutines -> Answers]
    /\ reply \in [Requesters -> Answers]
    /\ closed \in BOOLEAN /\ closeErr \in BOOLEAN /\ files \in BOOLEAN
    /\ writesDisabled \in BOOLEAN /\ draining \in BOOLEAN /\ broken \in BOOLEAN
    /\ once \in Closers \cup {NoOne}
    /\ compactMu \in Compactors \cup Closers \cup {NoOne}
    /\ reqCh \in Seq(Requesters) /\ Len(reqCh) <= QueueDepth
    /\ wpc \in {"select", "grab", "handle", "reply", "exited"}
    /\ burst \in Seq(Requesters)
    /\ results \in Seq(Answers)
    /\ applied \subseteq Requesters

\* compactMu is held by the compactor inside a pass, or by Close.
MutexInv ==
    /\ \A g \in Compactors : pc[g] \in HoldsCompactMu <=> compactMu = g
    /\ \A c \in Closers : At(c, "teardown") <=> compactMu = c

\* How far the writer is with its burst, and that it leaves only when closed
\* and with nothing queued.
WriterInv ==
    /\ wpc \in {"select", "exited"} => burst = <<>>
    /\ wpc \in {"select", "grab", "exited"} => results = <<>>
    /\ wpc = "grab" /\ ~draining => burst # <<>>
    /\ wpc = "handle" => burst # <<>> /\ Len(results) <= Len(burst)
    /\ wpc = "reply" => burst # <<>> /\ Len(results) = Len(burst)
    /\ draining => closed /\ wpc # "select"
    /\ draining /\ wpc # "grab" => reqCh = <<>>
    /\ wpc = "exited" => draining

\* What has happened by each step of Close.  Once closed is published nobody
\* is between submit's check and its send.
CloseInv ==
    /\ closed => \A g \in Requesters : ~At(g, "send")
    /\ \A c \in Closers :
         /\ pc[c] \in AfterSignal \cup {"lockSubmit"} => once = c
         /\ pc[c] \in AfterSignal => closed
         /\ pc[c] \in AfterWriter => wpc = "exited"
         /\ pc[c] \in AfterLoop => \A l \in Loop : At(l, "returned")
    /\ ~files => /\ closed
                 /\ wpc = "exited"
                 /\ \A c \in Closers : pc[c] \notin AfterSignal \cup {"lockSubmit"}
                 /\ once # NoOne
                 /\ \A g \in Compactors : pc[g] \notin HoldsCompactMu
                 /\ \A g \in Readers : ~At(g, "pread")

\* A request is in one place at a time: with its caller, in the queue, in the
\* burst, or answered.
Waiting(g) == At(g, "wait") /\ reply[g] = "none"
QueueInv ==
    /\ \A i \in DOMAIN reqCh : Waiting(reqCh[i])
    /\ \A i \in DOMAIN burst : Waiting(burst[i])
    /\ \A i, j \in DOMAIN reqCh : reqCh[i] = reqCh[j] => i = j
    /\ \A i, j \in DOMAIN burst : burst[i] = burst[j] => i = j
    /\ \A i \in DOMAIN reqCh, j \in DOMAIN burst : reqCh[i] # burst[j]
    /\ \A g \in Callers : At(g, "idle") => reply[g] = "none"
    /\ \A g \in Requesters : pc[g] \in {"pass", "submit", "send"} => reply[g] = "none"

\* Requests take effect in the burst only.
AppliedInv ==
    /\ \A g \in Callers : At(g, "idle") => g \notin applied
    /\ \A g \in Requesters : pc[g] \in {"pass", "submit", "send"} => g \notin applied
    /\ \A i \in DOMAIN reqCh : reqCh[i] \notin applied
    /\ \A i \in DOMAIN burst : i > Len(results) => burst[i] \notin applied

\* What an answer r says of the request of g.
Truthful(g, r) ==
    /\ r = "ok" => g \in applied
    /\ r \in {"closed", "disabled"} => g \notin applied
    /\ r # "ok" /\ g \in Compactors => g \notin applied
Durable(g, r) == SyncOnPut /\ r = "ok" /\ g \in Callers => g \notin dirty

\* Every answer is true from the moment it is decided: as a result, in the
\* reply channel, and as what the call returns.
AnswerInv ==
    /\ \A i \in DOMAIN results :
         /\ results[i] # "none"
         /\ Truthful(burst[i], results[i])
         /\ wpc = "reply" => Durable(burst[i], results[i])
    /\ \A g \in Requesters :
         reply[g] # "none" => Truthful(g, reply[g]) /\ Durable(g, reply[g])
    /\ \A g \in Callers :
         /\ res[g] # "none" => Truthful(g, res[g]) /\ Durable(g, res[g])
         /\ ~At(g, "returned") => res[g] = "none"
    /\ \A g \in Compactors : At(g, "cleanup") => g \notin applied

\* Only what is in the active segment may be unsynced.
LogInv ==
    /\ dirty \subseteq current
    /\ current \subseteq Callers
    /\ ~files /\ ~closeErr => dirty = {}

LifecycleInd ==
    PcTypeOK /\ LifecycleTypeOK /\ MutexInv /\ WriterInv /\ CloseInv /\ QueueInv
    /\ AppliedInv /\ AnswerInv /\ LogInv
=============================================================================
