-------------------------- MODULE LifecycleProofs ---------------------------
(***************************************************************************)
(* Proofs, for every value of the constants, that LifecycleInd is an       *)
(* inductive invariant of Lifecycle, and of the safety properties that     *)
(* follow from it.                                                         *)
(***************************************************************************)
EXTENDS LifecycleInv, SequenceTheorems, TLAPS

USE RolesAssumption
USE DEF callVars, closeVars, writerVars, logVars, At, Goto, Return,
        Compactors, Requesters, Goroutines

----------------------------------------------------------------------------
(* The queue and the burst.                                                *)

\* The head and the tail of the queue.
LEMMA QueueHead ==
  ASSUME LifecycleTypeOK, reqCh # <<>>
  PROVE  /\ Head(reqCh) \in Requesters /\ Head(reqCh) = reqCh[1]
         /\ Len(reqCh) \in Nat \ {0} /\ DOMAIN reqCh = 1 .. Len(reqCh)
         /\ Tail(reqCh) \in Seq(Requesters) /\ Len(Tail(reqCh)) = Len(reqCh) - 1
         /\ DOMAIN Tail(reqCh) = 1 .. Len(reqCh) - 1
         /\ \A i \in 1 .. Len(reqCh) - 1 : Tail(reqCh)[i] = reqCh[i + 1]
  <1>1. reqCh \in Seq(Requesters)
    BY DEF LifecycleTypeOK
  <1>2. QED
    BY <1>1, HeadTailProperties, EmptySeq, LenProperties

\* The heads and the tails of the burst and its results, once every request
\* of the burst has one.
LEMMA BurstHead ==
  ASSUME LifecycleTypeOK, WriterInv, wpc = "reply"
  PROVE  /\ Len(burst) \in Nat \ {0} /\ Len(results) = Len(burst)
         /\ DOMAIN burst = 1 .. Len(burst) /\ DOMAIN results = 1 .. Len(burst)
         /\ Head(burst) \in Requesters /\ Head(burst) = burst[1]
         /\ Head(results) \in Answers /\ Head(results) = results[1]
         /\ Tail(burst) \in Seq(Requesters) /\ Tail(results) \in Seq(Answers)
         /\ DOMAIN Tail(burst) = 1 .. Len(burst) - 1 /\ Len(Tail(burst)) = Len(burst) - 1
         /\ DOMAIN Tail(results) = 1 .. Len(burst) - 1 /\ Len(Tail(results)) = Len(burst) - 1
         /\ \A i \in 1 .. Len(burst) - 1 :
              Tail(burst)[i] = burst[i + 1] /\ Tail(results)[i] = results[i + 1]
  <1>1. burst \in Seq(Requesters) /\ results \in Seq(Answers)
    BY DEF LifecycleTypeOK
  <1>2. burst # <<>> /\ Len(results) = Len(burst)
    BY DEF WriterInv
  <1>3. results # <<>>
    BY <1>1, <1>2, EmptySeq
  <1>4. QED
    BY <1>1, <1>2, <1>3, HeadTailProperties, EmptySeq, LenProperties

\* The result of a request is one more, and the others stay.
LEMMA ResultAppended ==
  ASSUME LifecycleTypeOK, NEW x \in Answers, Result(x)
  PROVE  /\ Len(results) \in Nat /\ DOMAIN results = 1 .. Len(results)
         /\ results' \in Seq(Answers)
         /\ Len(results') = Len(results) + 1
         /\ DOMAIN results' = 1 .. Len(results) + 1
         /\ \A i \in 1 .. Len(results) : results'[i] = results[i]
         /\ results'[Len(results) + 1] = x
  <1>1. results \in Seq(Answers)
    BY DEF LifecycleTypeOK
  <1>2. QED
    BY <1>1, AppendProperties, LenProperties DEF Result

\* The request in hand waits, has had no effect, and is nowhere else.
LEMMA InHand ==
  ASSUME LifecycleInd, NEW r \in Requesters, Handling(r)
  PROVE  /\ Waiting(r) /\ r \notin applied
         /\ Len(burst) \in Nat /\ DOMAIN burst = 1 .. Len(burst)
         /\ Len(results) + 1 \in DOMAIN burst /\ burst[Len(results) + 1] = r
         /\ \A i \in DOMAIN burst : i # Len(results) + 1 => burst[i] # r
         /\ \A i \in DOMAIN reqCh : reqCh[i] # r
  <1>1. burst \in Seq(Requesters) /\ results \in Seq(Answers)
    BY DEF LifecycleInd, LifecycleTypeOK
  <1>2. Len(results) + 1 \in DOMAIN burst /\ burst[Len(results) + 1] = r
    BY <1>1 DEF Handling
  <1>3. QED
    BY <1>1, <1>2 DEF LifecycleInd, QueueInv, AppliedInv

\* Put, Delete and BatchPut.
LEMMA CallerStep ==
  ASSUME LifecycleInd, NEW g \in Callers, Caller(g)
  PROVE  LifecycleInd'
  <1> USE DEF LifecycleInd
  <1>1. CASE Call(g)
    <2>1. PcTypeOK'
      BY <1>1 DEF Call, PcTypeOK, CallerPcs, CompactorPcs, ReaderPcs, CloserPcs, HoldsCompactMu, AfterSignal
    <2>2. LifecycleTypeOK'
      BY <1>1 DEF Call, LifecycleTypeOK, Answers
    <2>3. MutexInv'
      BY <1>1 DEF Call, PcTypeOK, LifecycleTypeOK, MutexInv, HoldsCompactMu
    <2>4. WriterInv'
      BY <1>1 DEF Call, PcTypeOK, LifecycleTypeOK, WriterInv, CloseInv
    <2>5. LogInv'
      BY <1>1 DEF Call, PcTypeOK, LifecycleTypeOK, LogInv
    <2>6. CloseInv'
      BY <1>1 DEF Call, PcTypeOK, LifecycleTypeOK, MutexInv, CloseInv, HoldsCompactMu, AfterSignal, AfterWriter, AfterLoop
    <2>7. QueueInv'
      BY <1>1 DEF Call, PcTypeOK, LifecycleTypeOK, QueueInv, Waiting
    <2>8. AppliedInv'
      BY <1>1 DEF Call, PcTypeOK, LifecycleTypeOK, QueueInv, Waiting, AppliedInv
    <2>9. AnswerInv'
      BY <1>1 DEF Call, PcTypeOK, LifecycleTypeOK, QueueInv, Waiting, AppliedInv, LogInv, AnswerInv, Truthful, Durable
    <2>10. QED
      BY <2>1, <2>2, <2>3, <2>4, <2>5, <2>6, <2>7, <2>8, <2>9
  <1>2. CASE SubmitLock(g)
    <2>1. PcTypeOK'
      BY <1>2 DEF SubmitLock, PcTypeOK, CallerPcs, CompactorPcs, ReaderPcs, CloserPcs, HoldsCompactMu, AfterSignal
    <2>2. LifecycleTypeOK'
      BY <1>2, ZenonT(30) DEF SubmitLock, LifecycleTypeOK, Answers
    <2>3. MutexInv'
      BY <1>2 DEF SubmitLock, PcTypeOK, LifecycleTypeOK, MutexInv, HoldsCompactMu
    <2>4. WriterInv'
      BY <1>2 DEF SubmitLock, PcTypeOK, LifecycleTypeOK, WriterInv, CloseInv
    <2>5. LogInv'
      BY <1>2 DEF SubmitLock, PcTypeOK, LifecycleTypeOK, LogInv
    <2>6. CloseInv'
      BY <1>2 DEF SubmitLock, PcTypeOK, LifecycleTypeOK, MutexInv, CloseInv, HoldsCompactMu, AfterSignal, AfterWriter, AfterLoop
    <2>7. QueueInv'
      BY <1>2 DEF SubmitLock, PcTypeOK, LifecycleTypeOK, QueueInv, Waiting
    <2>8. AppliedInv'
      BY <1>2 DEF SubmitLock, PcTypeOK, LifecycleTypeOK, QueueInv, Waiting, AppliedInv
    <2>9. AnswerInv'
      BY <1>2 DEF SubmitLock, PcTypeOK, LifecycleTypeOK, QueueInv, Waiting, AppliedInv, LogInv, AnswerInv, Truthful, Durable
    <2>10. QED
      BY <2>1, <2>2, <2>3, <2>4, <2>5, <2>6, <2>7, <2>8, <2>9
  <1>3. CASE Send(g)
    <2>1. PcTypeOK'
      BY <1>3 DEF Send, PcTypeOK, CallerPcs, CompactorPcs, ReaderPcs, CloserPcs, HoldsCompactMu, AfterSignal
    <2>2. LifecycleTypeOK'
      BY <1>3, QueueAssumption, AppendProperties DEF Send, LifecycleTypeOK, Answers
    <2>3. MutexInv'
      BY <1>3 DEF Send, PcTypeOK, LifecycleTypeOK, MutexInv, HoldsCompactMu
    <2>4. WriterInv'
      BY <1>3 DEF Send, PcTypeOK, LifecycleTypeOK, WriterInv, CloseInv
    <2>5. LogInv'
      BY <1>3 DEF Send, PcTypeOK, LifecycleTypeOK, LogInv
    <2>6. CloseInv'
      BY <1>3 DEF Send, PcTypeOK, LifecycleTypeOK, MutexInv, CloseInv, HoldsCompactMu, AfterSignal, AfterWriter, AfterLoop
    <2>7. QueueInv'
      BY <1>3 DEF Send, PcTypeOK, LifecycleTypeOK, QueueInv, Waiting
    <2>8. AppliedInv'
      BY <1>3 DEF Send, PcTypeOK, LifecycleTypeOK, QueueInv, Waiting, AppliedInv
    <2>9. AnswerInv'
      BY <1>3 DEF Send, PcTypeOK, LifecycleTypeOK, QueueInv, Waiting, AppliedInv, LogInv, AnswerInv, Truthful, Durable
    <2>10. QED
      BY <2>1, <2>2, <2>3, <2>4, <2>5, <2>6, <2>7, <2>8, <2>9
  <1>4. CASE Receive(g)
    <2>1. PcTypeOK'
      BY <1>4 DEF Receive, PcTypeOK, CallerPcs, CompactorPcs, ReaderPcs, CloserPcs, HoldsCompactMu, AfterSignal
    <2>2. LifecycleTypeOK'
      BY <1>4 DEF Receive, LifecycleTypeOK, Answers
    <2>3. MutexInv'
      BY <1>4 DEF Receive, PcTypeOK, LifecycleTypeOK, MutexInv, HoldsCompactMu
    <2>4. WriterInv'
      BY <1>4 DEF Receive, PcTypeOK, LifecycleTypeOK, WriterInv, CloseInv
    <2>5. LogInv'
      BY <1>4 DEF Receive, PcTypeOK, LifecycleTypeOK, LogInv
    <2>6. CloseInv'
      BY <1>4 DEF Receive, PcTypeOK, LifecycleTypeOK, MutexInv, CloseInv, HoldsCompactMu, AfterSignal, AfterWriter, AfterLoop
    <2>7. QueueInv'
      BY <1>4 DEF Receive, PcTypeOK, LifecycleTypeOK, QueueInv, Waiting
    <2>8. AppliedInv'
      BY <1>4 DEF Receive, PcTypeOK, LifecycleTypeOK, QueueInv, Waiting, AppliedInv
    <2>9. AnswerInv'
      BY <1>4 DEF Receive, PcTypeOK, LifecycleTypeOK, QueueInv, Waiting, AppliedInv, LogInv, AnswerInv, Truthful, Durable
    <2>10. QED
      BY <2>1, <2>2, <2>3, <2>4, <2>5, <2>6, <2>7, <2>8, <2>9
  <1>5. QED
    BY <1>1, <1>2, <1>3, <1>4 DEF Caller, Submitting

\* A pass of the compactor.
LEMMA PassStep ==
  ASSUME LifecycleInd, NEW g \in Compactors, Pass(g)
  PROVE  LifecycleInd'
  <1> USE DEF LifecycleInd
  <1>1. CASE CompactLock(g)
    <2>1. PcTypeOK'
      BY <1>1 DEF CompactLock, Over, PcTypeOK, CallerPcs, CompactorPcs, ReaderPcs, CloserPcs, HoldsCompactMu, AfterSignal
    <2>2. LifecycleTypeOK'
      BY <1>1, ZenonT(30) DEF CompactLock, Over, LifecycleTypeOK, Answers
    <2>3. MutexInv'
      BY <1>1 DEF CompactLock, Over, PcTypeOK, LifecycleTypeOK, MutexInv, HoldsCompactMu
    <2>4. WriterInv'
      BY <1>1 DEF CompactLock, Over, PcTypeOK, LifecycleTypeOK, WriterInv, CloseInv
    <2>5. LogInv'
      BY <1>1 DEF CompactLock, Over, PcTypeOK, LifecycleTypeOK, LogInv
    <2>6. CloseInv'
      BY <1>1 DEF CompactLock, Over, PcTypeOK, LifecycleTypeOK, MutexInv, CloseInv, HoldsCompactMu, AfterSignal, AfterWriter, AfterLoop
    <2>7. QueueInv'
      BY <1>1 DEF CompactLock, Over, PcTypeOK, LifecycleTypeOK, QueueInv, Waiting
    <2>8. AppliedInv'
      BY <1>1 DEF CompactLock, Over, PcTypeOK, LifecycleTypeOK, QueueInv, Waiting, AppliedInv
    <2>9. AnswerInv'
      BY <1>1 DEF CompactLock, Over, PcTypeOK, LifecycleTypeOK, QueueInv, Waiting, AppliedInv, LogInv, AnswerInv, Truthful, Durable, WriterInv
    <2>10. QED
      BY <2>1, <2>2, <2>3, <2>4, <2>5, <2>6, <2>7, <2>8, <2>9
  <1>2. CASE CompactStop(g)
    <2>1. PcTypeOK'
      BY <1>2 DEF CompactStop, Over, PcTypeOK, CallerPcs, CompactorPcs, ReaderPcs, CloserPcs, HoldsCompactMu, AfterSignal
    <2>2. LifecycleTypeOK'
      BY <1>2 DEF CompactStop, Over, LifecycleTypeOK, Answers
    <2>3. MutexInv'
      BY <1>2 DEF CompactStop, Over, PcTypeOK, LifecycleTypeOK, MutexInv, HoldsCompactMu
    <2>4. WriterInv'
      BY <1>2 DEF CompactStop, Over, PcTypeOK, LifecycleTypeOK, WriterInv, CloseInv
    <2>5. LogInv'
      BY <1>2 DEF CompactStop, Over, PcTypeOK, LifecycleTypeOK, LogInv
    <2>6. CloseInv'
      BY <1>2 DEF CompactStop, Over, PcTypeOK, LifecycleTypeOK, MutexInv, CloseInv, HoldsCompactMu, AfterSignal, AfterWriter, AfterLoop
    <2>7. QueueInv'
      BY <1>2 DEF CompactStop, Over, PcTypeOK, LifecycleTypeOK, QueueInv, Waiting
    <2>8. AppliedInv'
      BY <1>2 DEF CompactStop, Over, PcTypeOK, LifecycleTypeOK, QueueInv, Waiting, AppliedInv
    <2>9. AnswerInv'
      BY <1>2 DEF CompactStop, Over, PcTypeOK, LifecycleTypeOK, QueueInv, Waiting, AppliedInv, LogInv, AnswerInv, Truthful, Durable
    <2>10. QED
      BY <2>1, <2>2, <2>3, <2>4, <2>5, <2>6, <2>7, <2>8, <2>9
  <1>3. CASE CompactSubmit(g)
    <2>1. PcTypeOK'
      BY <1>3 DEF CompactSubmit, PcTypeOK, CallerPcs, CompactorPcs, ReaderPcs, CloserPcs, HoldsCompactMu, AfterSignal
    <2>2. LifecycleTypeOK'
      BY <1>3 DEF CompactSubmit, LifecycleTypeOK, Answers
    <2>3. MutexInv'
      BY <1>3 DEF CompactSubmit, PcTypeOK, LifecycleTypeOK, MutexInv, HoldsCompactMu
    <2>4. WriterInv'
      BY <1>3 DEF CompactSubmit, PcTypeOK, LifecycleTypeOK, WriterInv, CloseInv
    <2>5. LogInv'
      BY <1>3 DEF CompactSubmit, PcTypeOK, LifecycleTypeOK, LogInv
    <2>6. CloseInv'
      BY <1>3 DEF CompactSubmit, PcTypeOK, LifecycleTypeOK, MutexInv, CloseInv, HoldsCompactMu, AfterSignal, AfterWriter, AfterLoop
    <2>7. QueueInv'
      BY <1>3 DEF CompactSubmit, PcTypeOK, LifecycleTypeOK, QueueInv, Waiting
    <2>8. AppliedInv'
      BY <1>3 DEF CompactSubmit, PcTypeOK, LifecycleTypeOK, QueueInv, Waiting, AppliedInv
    <2>9. AnswerInv'
      BY <1>3 DEF CompactSubmit, PcTypeOK, LifecycleTypeOK, QueueInv, Waiting, AppliedInv, LogInv, AnswerInv, Truthful, Durable
    <2>10. QED
      BY <2>1, <2>2, <2>3, <2>4, <2>5, <2>6, <2>7, <2>8, <2>9
  <1>4. CASE SubmitLock(g)
    <2>1. PcTypeOK'
      BY <1>4 DEF SubmitLock, PcTypeOK, CallerPcs, CompactorPcs, ReaderPcs, CloserPcs, HoldsCompactMu, AfterSignal
    <2>2. LifecycleTypeOK'
      BY <1>4, ZenonT(30) DEF SubmitLock, LifecycleTypeOK, Answers
    <2>3. MutexInv'
      BY <1>4 DEF SubmitLock, PcTypeOK, LifecycleTypeOK, MutexInv, HoldsCompactMu
    <2>4. WriterInv'
      BY <1>4 DEF SubmitLock, PcTypeOK, LifecycleTypeOK, WriterInv, CloseInv
    <2>5. LogInv'
      BY <1>4 DEF SubmitLock, PcTypeOK, LifecycleTypeOK, LogInv
    <2>6. CloseInv'
      BY <1>4 DEF SubmitLock, PcTypeOK, LifecycleTypeOK, MutexInv, CloseInv, HoldsCompactMu, AfterSignal, AfterWriter, AfterLoop
    <2>7. QueueInv'
      BY <1>4 DEF SubmitLock, PcTypeOK, LifecycleTypeOK, QueueInv, Waiting
    <2>8. AppliedInv'
      BY <1>4 DEF SubmitLock, PcTypeOK, LifecycleTypeOK, QueueInv, Waiting, AppliedInv
    <2>9. AnswerInv'
      BY <1>4 DEF SubmitLock, PcTypeOK, LifecycleTypeOK, QueueInv, Waiting, AppliedInv, LogInv, AnswerInv, Truthful, Durable
    <2>10. QED
      BY <2>1, <2>2, <2>3, <2>4, <2>5, <2>6, <2>7, <2>8, <2>9
  <1>5. CASE Send(g)
    <2>1. PcTypeOK'
      BY <1>5 DEF Send, PcTypeOK, CallerPcs, CompactorPcs, ReaderPcs, CloserPcs, HoldsCompactMu, AfterSignal
    <2>2. LifecycleTypeOK'
      BY <1>5, QueueAssumption, AppendProperties DEF Send, LifecycleTypeOK, Answers
    <2>3. MutexInv'
      BY <1>5 DEF Send, PcTypeOK, LifecycleTypeOK, MutexInv, HoldsCompactMu
    <2>4. WriterInv'
      BY <1>5 DEF Send, PcTypeOK, LifecycleTypeOK, WriterInv, CloseInv
    <2>5. LogInv'
      BY <1>5 DEF Send, PcTypeOK, LifecycleTypeOK, LogInv
    <2>6. CloseInv'
      BY <1>5 DEF Send, PcTypeOK, LifecycleTypeOK, MutexInv, CloseInv, HoldsCompactMu, AfterSignal, AfterWriter, AfterLoop
    <2>7. QueueInv'
      BY <1>5 DEF Send, PcTypeOK, LifecycleTypeOK, QueueInv, Waiting
    <2>8. AppliedInv'
      BY <1>5 DEF Send, PcTypeOK, LifecycleTypeOK, QueueInv, Waiting, AppliedInv
    <2>9. AnswerInv'
      BY <1>5 DEF Send, PcTypeOK, LifecycleTypeOK, QueueInv, Waiting, AppliedInv, LogInv, AnswerInv, Truthful, Durable
    <2>10. QED
      BY <2>1, <2>2, <2>3, <2>4, <2>5, <2>6, <2>7, <2>8, <2>9
  <1>6. CASE CompactReceive(g)
    <2>1. PcTypeOK'
      BY <1>6 DEF CompactReceive, Over, PcTypeOK, CallerPcs, CompactorPcs, ReaderPcs, CloserPcs, HoldsCompactMu, AfterSignal
    <2>2. LifecycleTypeOK'
      BY <1>6, ZenonT(30) DEF CompactReceive, Over, LifecycleTypeOK, Answers
    <2>3. MutexInv'
      BY <1>6, ZenonT(30) DEF CompactReceive, Over, PcTypeOK, LifecycleTypeOK, MutexInv, HoldsCompactMu
    <2>4. WriterInv'
      BY <1>6 DEF CompactReceive, Over, PcTypeOK, LifecycleTypeOK, WriterInv, CloseInv
    <2>5. LogInv'
      BY <1>6 DEF CompactReceive, Over, PcTypeOK, LifecycleTypeOK, LogInv
    <2>6. CloseInv'
      BY <1>6 DEF CompactReceive, Over, PcTypeOK, LifecycleTypeOK, MutexInv, CloseInv, HoldsCompactMu, AfterSignal, AfterWriter, AfterLoop
    <2>7. QueueInv'
      BY <1>6 DEF CompactReceive, Over, PcTypeOK, LifecycleTypeOK, QueueInv, Waiting
    <2>8. AppliedInv'
      BY <1>6 DEF CompactReceive, Over, PcTypeOK, LifecycleTypeOK, QueueInv, Waiting, AppliedInv
    <2>9. AnswerInv'
      BY <1>6 DEF CompactReceive, Over, PcTypeOK, LifecycleTypeOK, QueueInv, Waiting, AppliedInv, LogInv, AnswerInv, Truthful, Durable
    <2>10. QED
      BY <2>1, <2>2, <2>3, <2>4, <2>5, <2>6, <2>7, <2>8, <2>9
  <1>7. CASE CompactCleanup(g)
    <2>1. PcTypeOK'
      BY <1>7 DEF CompactCleanup, Over, PcTypeOK, CallerPcs, CompactorPcs, ReaderPcs, CloserPcs, HoldsCompactMu, AfterSignal
    <2>2. LifecycleTypeOK'
      BY <1>7 DEF CompactCleanup, Over, LifecycleTypeOK, Answers
    <2>3. MutexInv'
      BY <1>7 DEF CompactCleanup, Over, PcTypeOK, LifecycleTypeOK, MutexInv, HoldsCompactMu
    <2>4. WriterInv'
      BY <1>7 DEF CompactCleanup, Over, PcTypeOK, LifecycleTypeOK, WriterInv, CloseInv
    <2>5. LogInv'
      BY <1>7 DEF CompactCleanup, Over, PcTypeOK, LifecycleTypeOK, LogInv
    <2>6. CloseInv'
      BY <1>7 DEF CompactCleanup, Over, PcTypeOK, LifecycleTypeOK, MutexInv, CloseInv, HoldsCompactMu, AfterSignal, AfterWriter, AfterLoop
    <2>7. QueueInv'
      BY <1>7 DEF CompactCleanup, Over, PcTypeOK, LifecycleTypeOK, QueueInv, Waiting
    <2>8. AppliedInv'
      BY <1>7 DEF CompactCleanup, Over, PcTypeOK, LifecycleTypeOK, QueueInv, Waiting, AppliedInv
    <2>9. AnswerInv'
      BY <1>7 DEF CompactCleanup, Over, PcTypeOK, LifecycleTypeOK, QueueInv, Waiting, AppliedInv, LogInv, AnswerInv, Truthful, Durable
    <2>10. QED
      BY <2>1, <2>2, <2>3, <2>4, <2>5, <2>6, <2>7, <2>8, <2>9
  <1>8. QED
    BY <1>1, <1>2, <1>3, <1>4, <1>5, <1>6, <1>7 DEF Pass, Submitting

\* The call of Compact.
LEMMA ManualStep ==
  ASSUME LifecycleInd, NEW g \in Manual, CompactCall(g)
  PROVE  LifecycleInd'
  <1> USE DEF LifecycleInd
  <1>1. CASE CompactCall(g)
    <2>1. PcTypeOK'
      BY <1>1 DEF CompactCall, PcTypeOK, CallerPcs, CompactorPcs, ReaderPcs, CloserPcs, HoldsCompactMu, AfterSignal
    <2>2. LifecycleTypeOK'
      BY <1>1, ZenonT(30) DEF CompactCall, LifecycleTypeOK, Answers
    <2>3. MutexInv'
      BY <1>1 DEF CompactCall, PcTypeOK, LifecycleTypeOK, MutexInv, HoldsCompactMu
    <2>4. WriterInv'
      BY <1>1 DEF CompactCall, PcTypeOK, LifecycleTypeOK, WriterInv, CloseInv
    <2>5. LogInv'
      BY <1>1 DEF CompactCall, PcTypeOK, LifecycleTypeOK, LogInv
    <2>6. CloseInv'
      BY <1>1 DEF CompactCall, PcTypeOK, LifecycleTypeOK, MutexInv, CloseInv, HoldsCompactMu, AfterSignal, AfterWriter, AfterLoop
    <2>7. QueueInv'
      BY <1>1 DEF CompactCall, PcTypeOK, LifecycleTypeOK, QueueInv, Waiting
    <2>8. AppliedInv'
      BY <1>1 DEF CompactCall, PcTypeOK, LifecycleTypeOK, QueueInv, Waiting, AppliedInv
    <2>9. AnswerInv'
      BY <1>1, SMTT(30) DEF CompactCall, PcTypeOK, LifecycleTypeOK, QueueInv, Waiting, AppliedInv, LogInv, AnswerInv, Truthful, Durable
    <2>10. QED
      BY <2>1, <2>2, <2>3, <2>4, <2>5, <2>6, <2>7, <2>8, <2>9
  <1>2. QED
    BY <1>1 DEF CompactCall

\* The background compactor between passes.
LEMMA LoopStep ==
  ASSUME LifecycleInd, NEW g \in Loop, LoopTick(g) \/ LoopExit(g)
  PROVE  LifecycleInd'
  <1> USE DEF LifecycleInd
  <1>1. CASE LoopTick(g)
    <2>1. PcTypeOK'
      BY <1>1 DEF LoopTick, PcTypeOK, CallerPcs, CompactorPcs, ReaderPcs, CloserPcs, HoldsCompactMu, AfterSignal
    <2>2. LifecycleTypeOK'
      BY <1>1 DEF LoopTick, LifecycleTypeOK, Answers
    <2>3. MutexInv'
      BY <1>1 DEF LoopTick, PcTypeOK, LifecycleTypeOK, MutexInv, HoldsCompactMu
    <2>4. WriterInv'
      BY <1>1 DEF LoopTick, PcTypeOK, LifecycleTypeOK, WriterInv, CloseInv
    <2>5. LogInv'
      BY <1>1 DEF LoopTick, PcTypeOK, LifecycleTypeOK, LogInv
    <2>6. CloseInv'
      BY <1>1 DEF LoopTick, PcTypeOK, LifecycleTypeOK, MutexInv, CloseInv, HoldsCompactMu, AfterSignal, AfterWriter, AfterLoop
    <2>7. QueueInv'
      BY <1>1 DEF LoopTick, PcTypeOK, LifecycleTypeOK, QueueInv, Waiting
    <2>8. AppliedInv'
      BY <1>1 DEF LoopTick, PcTypeOK, LifecycleTypeOK, QueueInv, Waiting, AppliedInv
    <2>9. AnswerInv'
      BY <1>1 DEF LoopTick, PcTypeOK, LifecycleTypeOK, QueueInv, Waiting, AppliedInv, LogInv, AnswerInv, Truthful, Durable
    <2>10. QED
      BY <2>1, <2>2, <2>3, <2>4, <2>5, <2>6, <2>7, <2>8, <2>9
  <1>2. CASE LoopExit(g)
    <2>1. PcTypeOK'
      BY <1>2 DEF LoopExit, PcTypeOK, CallerPcs, CompactorPcs, ReaderPcs, CloserPcs, HoldsCompactMu, AfterSignal
    <2>2. LifecycleTypeOK'
      BY <1>2 DEF LoopExit, LifecycleTypeOK, Answers
    <2>3. MutexInv'
      BY <1>2 DEF LoopExit, PcTypeOK, LifecycleTypeOK, MutexInv, HoldsCompactMu
    <2>4. WriterInv'
      BY <1>2 DEF LoopExit, PcTypeOK, LifecycleTypeOK, WriterInv, CloseInv
    <2>5. LogInv'
      BY <1>2 DEF LoopExit, PcTypeOK, LifecycleTypeOK, LogInv
    <2>6. CloseInv'
      BY <1>2 DEF LoopExit, PcTypeOK, LifecycleTypeOK, MutexInv, CloseInv, HoldsCompactMu, AfterSignal, AfterWriter, AfterLoop
    <2>7. QueueInv'
      BY <1>2 DEF LoopExit, PcTypeOK, LifecycleTypeOK, QueueInv, Waiting
    <2>8. AppliedInv'
      BY <1>2 DEF LoopExit, PcTypeOK, LifecycleTypeOK, QueueInv, Waiting, AppliedInv
    <2>9. AnswerInv'
      BY <1>2 DEF LoopExit, PcTypeOK, LifecycleTypeOK, QueueInv, Waiting, AppliedInv, LogInv, AnswerInv, Truthful, Durable
    <2>10. QED
      BY <2>1, <2>2, <2>3, <2>4, <2>5, <2>6, <2>7, <2>8, <2>9
  <1>3. QED
    BY <1>1, <1>2 DEF LoopTick

\* Get and ReadKeyRange.
LEMMA ReaderStep ==
  ASSUME LifecycleInd, NEW g \in Readers, Reader(g)
  PROVE  LifecycleInd'
  <1> USE DEF LifecycleInd
  <1>1. CASE ReadCall(g)
    <2>1. PcTypeOK'
      BY <1>1 DEF ReadCall, PcTypeOK, CallerPcs, CompactorPcs, ReaderPcs, CloserPcs, HoldsCompactMu, AfterSignal
    <2>2. LifecycleTypeOK'
      BY <1>1, SMTT(30) DEF ReadCall, LifecycleTypeOK, Answers
    <2>3. MutexInv'
      BY <1>1 DEF ReadCall, PcTypeOK, LifecycleTypeOK, MutexInv, HoldsCompactMu
    <2>4. WriterInv'
      BY <1>1 DEF ReadCall, PcTypeOK, LifecycleTypeOK, WriterInv, CloseInv
    <2>5. LogInv'
      BY <1>1 DEF ReadCall, PcTypeOK, LifecycleTypeOK, LogInv
    <2>6. CloseInv'
      BY <1>1 DEF ReadCall, PcTypeOK, LifecycleTypeOK, MutexInv, CloseInv, HoldsCompactMu, AfterSignal, AfterWriter, AfterLoop
    <2>7. QueueInv'
      BY <1>1 DEF ReadCall, PcTypeOK, LifecycleTypeOK, QueueInv, Waiting
    <2>8. AppliedInv'
      BY <1>1 DEF ReadCall, PcTypeOK, LifecycleTypeOK, QueueInv, Waiting, AppliedInv
    <2>9. AnswerInv'
      BY <1>1 DEF ReadCall, PcTypeOK, LifecycleTypeOK, QueueInv, Waiting, AppliedInv, LogInv, AnswerInv, Truthful, Durable
    <2>10. QED
      BY <2>1, <2>2, <2>3, <2>4, <2>5, <2>6, <2>7, <2>8, <2>9
  <1>2. CASE ReadLock(g)
    <2>1. PcTypeOK'
      BY <1>2 DEF ReadLock, PcTypeOK, CallerPcs, CompactorPcs, ReaderPcs, CloserPcs, HoldsCompactMu, AfterSignal
    <2>2. LifecycleTypeOK'
      BY <1>2 DEF ReadLock, LifecycleTypeOK, Answers
    <2>3. MutexInv'
      BY <1>2 DEF ReadLock, PcTypeOK, LifecycleTypeOK, MutexInv, HoldsCompactMu
    <2>4. WriterInv'
      BY <1>2 DEF ReadLock, PcTypeOK, LifecycleTypeOK, WriterInv, CloseInv
    <2>5. LogInv'
      BY <1>2 DEF ReadLock, PcTypeOK, LifecycleTypeOK, LogInv
    <2>6. CloseInv'
      BY <1>2 DEF ReadLock, PcTypeOK, LifecycleTypeOK, MutexInv, CloseInv, HoldsCompactMu, AfterSignal, AfterWriter, AfterLoop
    <2>7. QueueInv'
      BY <1>2 DEF ReadLock, PcTypeOK, LifecycleTypeOK, QueueInv, Waiting
    <2>8. AppliedInv'
      BY <1>2 DEF ReadLock, PcTypeOK, LifecycleTypeOK, QueueInv, Waiting, AppliedInv
    <2>9. AnswerInv'
      BY <1>2, SMTT(30) DEF ReadLock, PcTypeOK, LifecycleTypeOK, QueueInv, Waiting, AppliedInv, LogInv, AnswerInv, Truthful, Durable
    <2>10. QED
      BY <2>1, <2>2, <2>3, <2>4, <2>5, <2>6, <2>7, <2>8, <2>9
  <1>3. CASE ReadDone(g)
    <2>1. PcTypeOK'
      BY <1>3 DEF ReadDone, PcTypeOK, CallerPcs, CompactorPcs, ReaderPcs, CloserPcs, HoldsCompactMu, AfterSignal
    <2>2. LifecycleTypeOK'
      BY <1>3 DEF ReadDone, LifecycleTypeOK, Answers
    <2>3. MutexInv'
      BY <1>3 DEF ReadDone, PcTypeOK, LifecycleTypeOK, MutexInv, HoldsCompactMu
    <2>4. WriterInv'
      BY <1>3 DEF ReadDone, PcTypeOK, LifecycleTypeOK, WriterInv, CloseInv
    <2>5. LogInv'
      BY <1>3 DEF ReadDone, PcTypeOK, LifecycleTypeOK, LogInv
    <2>6. CloseInv'
      BY <1>3 DEF ReadDone, PcTypeOK, LifecycleTypeOK, MutexInv, CloseInv, HoldsCompactMu, AfterSignal, AfterWriter, AfterLoop
    <2>7. QueueInv'
      BY <1>3 DEF ReadDone, PcTypeOK, LifecycleTypeOK, QueueInv, Waiting
    <2>8. AppliedInv'
      BY <1>3 DEF ReadDone, PcTypeOK, LifecycleTypeOK, QueueInv, Waiting, AppliedInv
    <2>9. AnswerInv'
      BY <1>3 DEF ReadDone, PcTypeOK, LifecycleTypeOK, QueueInv, Waiting, AppliedInv, LogInv, AnswerInv, Truthful, Durable
    <2>10. QED
      BY <2>1, <2>2, <2>3, <2>4, <2>5, <2>6, <2>7, <2>8, <2>9
  <1>4. QED
    BY <1>1, <1>2, <1>3 DEF Reader

\* Close.
LEMMA CloserStep ==
  ASSUME LifecycleInd, NEW c \in Closers, CloseCall(c) \/ Closing(c)
  PROVE  LifecycleInd'
  <1> USE DEF LifecycleInd
  <1>1. CASE CloseCall(c)
    <2>1. PcTypeOK'
      BY <1>1 DEF CloseCall, PcTypeOK, CallerPcs, CompactorPcs, ReaderPcs, CloserPcs, HoldsCompactMu, AfterSignal
    <2>2. LifecycleTypeOK'
      BY <1>1 DEF CloseCall, LifecycleTypeOK, Answers
    <2>3. MutexInv'
      BY <1>1 DEF CloseCall, PcTypeOK, LifecycleTypeOK, MutexInv, HoldsCompactMu
    <2>4. WriterInv'
      BY <1>1 DEF CloseCall, PcTypeOK, LifecycleTypeOK, WriterInv, CloseInv
    <2>5. LogInv'
      BY <1>1 DEF CloseCall, PcTypeOK, LifecycleTypeOK, LogInv
    <2>6. CloseInv'
      BY <1>1 DEF CloseCall, PcTypeOK, LifecycleTypeOK, MutexInv, CloseInv, HoldsCompactMu, AfterSignal, AfterWriter, AfterLoop
    <2>7. QueueInv'
      BY <1>1 DEF CloseCall, PcTypeOK, LifecycleTypeOK, QueueInv, Waiting
    <2>8. AppliedInv'
      BY <1>1 DEF CloseCall, PcTypeOK, LifecycleTypeOK, QueueInv, Waiting, AppliedInv
    <2>9. AnswerInv'
      BY <1>1 DEF CloseCall, PcTypeOK, LifecycleTypeOK, QueueInv, Waiting, AppliedInv, LogInv, AnswerInv, Truthful, Durable
    <2>10. QED
      BY <2>1, <2>2, <2>3, <2>4, <2>5, <2>6, <2>7, <2>8, <2>9
  <1>2. CASE CloseSignal(c)
    <2>1. PcTypeOK'
      BY <1>2 DEF CloseSignal, PcTypeOK, CallerPcs, CompactorPcs, ReaderPcs, CloserPcs, HoldsCompactMu, AfterSignal
    <2>2. LifecycleTypeOK'
      BY <1>2 DEF CloseSignal, LifecycleTypeOK, Answers
    <2>3. MutexInv'
      BY <1>2 DEF CloseSignal, PcTypeOK, LifecycleTypeOK, MutexInv, HoldsCompactMu
    <2>4. WriterInv'
      BY <1>2 DEF CloseSignal, PcTypeOK, LifecycleTypeOK, WriterInv, CloseInv
    <2>5. LogInv'
      BY <1>2 DEF CloseSignal, PcTypeOK, LifecycleTypeOK, LogInv
    <2>6. CloseInv'
      BY <1>2 DEF CloseSignal, PcTypeOK, LifecycleTypeOK, MutexInv, CloseInv, HoldsCompactMu, AfterSignal, AfterWriter, AfterLoop
    <2>7. QueueInv'
      BY <1>2 DEF CloseSignal, PcTypeOK, LifecycleTypeOK, QueueInv, Waiting
    <2>8. AppliedInv'
      BY <1>2 DEF CloseSignal, PcTypeOK, LifecycleTypeOK, QueueInv, Waiting, AppliedInv
    <2>9. AnswerInv'
      BY <1>2 DEF CloseSignal, PcTypeOK, LifecycleTypeOK, QueueInv, Waiting, AppliedInv, LogInv, AnswerInv, Truthful, Durable
    <2>10. QED
      BY <2>1, <2>2, <2>3, <2>4, <2>5, <2>6, <2>7, <2>8, <2>9
  <1>3. CASE CloseWaitWriter(c)
    <2>1. PcTypeOK'
      BY <1>3 DEF CloseWaitWriter, PcTypeOK, CallerPcs, CompactorPcs, ReaderPcs, CloserPcs, HoldsCompactMu, AfterSignal
    <2>2. LifecycleTypeOK'
      BY <1>3 DEF CloseWaitWriter, LifecycleTypeOK, Answers
    <2>3. MutexInv'
      BY <1>3 DEF CloseWaitWriter, PcTypeOK, LifecycleTypeOK, MutexInv, HoldsCompactMu
    <2>4. WriterInv'
      BY <1>3 DEF CloseWaitWriter, PcTypeOK, LifecycleTypeOK, WriterInv, CloseInv
    <2>5. LogInv'
      BY <1>3 DEF CloseWaitWriter, PcTypeOK, LifecycleTypeOK, LogInv
    <2>6. CloseInv'
      BY <1>3 DEF CloseWaitWriter, PcTypeOK, LifecycleTypeOK, MutexInv, CloseInv, HoldsCompactMu, AfterSignal, AfterWriter, AfterLoop
    <2>7. QueueInv'
      BY <1>3 DEF CloseWaitWriter, PcTypeOK, LifecycleTypeOK, QueueInv, Waiting
    <2>8. AppliedInv'
      BY <1>3 DEF CloseWaitWriter, PcTypeOK, LifecycleTypeOK, QueueInv, Waiting, AppliedInv
    <2>9. AnswerInv'
      BY <1>3 DEF CloseWaitWriter, PcTypeOK, LifecycleTypeOK, QueueInv, Waiting, AppliedInv, LogInv, AnswerInv, Truthful, Durable
    <2>10. QED
      BY <2>1, <2>2, <2>3, <2>4, <2>5, <2>6, <2>7, <2>8, <2>9
  <1>4. CASE CloseWaitLoop(c)
    <2>1. PcTypeOK'
      BY <1>4 DEF CloseWaitLoop, PcTypeOK, CallerPcs, CompactorPcs, ReaderPcs, CloserPcs, HoldsCompactMu, AfterSignal
    <2>2. LifecycleTypeOK'
      BY <1>4 DEF CloseWaitLoop, LifecycleTypeOK, Answers
    <2>3. MutexInv'
      BY <1>4 DEF CloseWaitLoop, PcTypeOK, LifecycleTypeOK, MutexInv, HoldsCompactMu
    <2>4. WriterInv'
      BY <1>4 DEF CloseWaitLoop, PcTypeOK, LifecycleTypeOK, WriterInv, CloseInv
    <2>5. LogInv'
      BY <1>4 DEF CloseWaitLoop, PcTypeOK, LifecycleTypeOK, LogInv
    <2>6. CloseInv'
      BY <1>4 DEF CloseWaitLoop, PcTypeOK, LifecycleTypeOK, MutexInv, CloseInv, HoldsCompactMu, AfterSignal, AfterWriter, AfterLoop
    <2>7. QueueInv'
      BY <1>4 DEF CloseWaitLoop, PcTypeOK, LifecycleTypeOK, QueueInv, Waiting
    <2>8. AppliedInv'
      BY <1>4 DEF CloseWaitLoop, PcTypeOK, LifecycleTypeOK, QueueInv, Waiting, AppliedInv
    <2>9. AnswerInv'
      BY <1>4 DEF CloseWaitLoop, PcTypeOK, LifecycleTypeOK, QueueInv, Waiting, AppliedInv, LogInv, AnswerInv, Truthful, Durable
    <2>10. QED
      BY <2>1, <2>2, <2>3, <2>4, <2>5, <2>6, <2>7, <2>8, <2>9
  <1>5. CASE CloseLockCompact(c)
    <2>1. PcTypeOK'
      BY <1>5 DEF CloseLockCompact, PcTypeOK, CallerPcs, CompactorPcs, ReaderPcs, CloserPcs, HoldsCompactMu, AfterSignal
    <2>2. LifecycleTypeOK'
      BY <1>5 DEF CloseLockCompact, LifecycleTypeOK, Answers
    <2>3. MutexInv'
      BY <1>5 DEF CloseLockCompact, PcTypeOK, LifecycleTypeOK, MutexInv, HoldsCompactMu
    <2>4. WriterInv'
      BY <1>5 DEF CloseLockCompact, PcTypeOK, LifecycleTypeOK, WriterInv, CloseInv
    <2>5. LogInv'
      BY <1>5 DEF CloseLockCompact, PcTypeOK, LifecycleTypeOK, LogInv
    <2>6. CloseInv'
      BY <1>5 DEF CloseLockCompact, PcTypeOK, LifecycleTypeOK, MutexInv, CloseInv, HoldsCompactMu, AfterSignal, AfterWriter, AfterLoop
    <2>7. QueueInv'
      BY <1>5 DEF CloseLockCompact, PcTypeOK, LifecycleTypeOK, QueueInv, Waiting
    <2>8. AppliedInv'
      BY <1>5 DEF CloseLockCompact, PcTypeOK, LifecycleTypeOK, QueueInv, Waiting, AppliedInv
    <2>9. AnswerInv'
      BY <1>5 DEF CloseLockCompact, PcTypeOK, LifecycleTypeOK, QueueInv, Waiting, AppliedInv, LogInv, AnswerInv, Truthful, Durable
    <2>10. QED
      BY <2>1, <2>2, <2>3, <2>4, <2>5, <2>6, <2>7, <2>8, <2>9
  <1>6. CASE CloseTeardown(c)
    <2>1. PcTypeOK'
      BY <1>6 DEF CloseTeardown, SegmentsMuFree, PcTypeOK, CallerPcs, CompactorPcs, ReaderPcs, CloserPcs, HoldsCompactMu, AfterSignal
    <2>2. LifecycleTypeOK'
      BY <1>6 DEF CloseTeardown, SegmentsMuFree, LifecycleTypeOK, Answers
    <2>3. MutexInv'
      BY <1>6 DEF CloseTeardown, SegmentsMuFree, PcTypeOK, LifecycleTypeOK, MutexInv, HoldsCompactMu
    <2>4. WriterInv'
      BY <1>6 DEF CloseTeardown, SegmentsMuFree, PcTypeOK, LifecycleTypeOK, WriterInv, CloseInv
    <2>5. LogInv'
      BY <1>6 DEF CloseTeardown, SegmentsMuFree, PcTypeOK, LifecycleTypeOK, LogInv
    <2>6. CloseInv'
      BY <1>6 DEF CloseTeardown, SegmentsMuFree, PcTypeOK, LifecycleTypeOK, MutexInv, CloseInv, HoldsCompactMu, AfterSignal, AfterWriter, AfterLoop
    <2>7. QueueInv'
      BY <1>6 DEF CloseTeardown, SegmentsMuFree, PcTypeOK, LifecycleTypeOK, QueueInv, Waiting
    <2>8. AppliedInv'
      BY <1>6 DEF CloseTeardown, SegmentsMuFree, PcTypeOK, LifecycleTypeOK, QueueInv, Waiting, AppliedInv
    <2>9. AnswerInv'
      BY <1>6 DEF CloseTeardown, SegmentsMuFree, PcTypeOK, LifecycleTypeOK, QueueInv, Waiting, AppliedInv, LogInv, AnswerInv, Truthful, Durable
    <2>10. QED
      BY <2>1, <2>2, <2>3, <2>4, <2>5, <2>6, <2>7, <2>8, <2>9
  <1>7. CASE CloseAgain(c)
    <2>1. PcTypeOK'
      BY <1>7 DEF CloseAgain, PcTypeOK, CallerPcs, CompactorPcs, ReaderPcs, CloserPcs, HoldsCompactMu, AfterSignal
    <2>2. LifecycleTypeOK'
      BY <1>7 DEF CloseAgain, LifecycleTypeOK, Answers
    <2>3. MutexInv'
      BY <1>7 DEF CloseAgain, PcTypeOK, LifecycleTypeOK, MutexInv, HoldsCompactMu
    <2>4. WriterInv'
      BY <1>7 DEF CloseAgain, PcTypeOK, LifecycleTypeOK, WriterInv, CloseInv
    <2>5. LogInv'
      BY <1>7 DEF CloseAgain, PcTypeOK, LifecycleTypeOK, LogInv
    <2>6. CloseInv'
      BY <1>7 DEF CloseAgain, PcTypeOK, LifecycleTypeOK, MutexInv, CloseInv, HoldsCompactMu, AfterSignal, AfterWriter, AfterLoop
    <2>7. QueueInv'
      BY <1>7 DEF CloseAgain, PcTypeOK, LifecycleTypeOK, QueueInv, Waiting
    <2>8. AppliedInv'
      BY <1>7 DEF CloseAgain, PcTypeOK, LifecycleTypeOK, QueueInv, Waiting, AppliedInv
    <2>9. AnswerInv'
      BY <1>7 DEF CloseAgain, PcTypeOK, LifecycleTypeOK, QueueInv, Waiting, AppliedInv, LogInv, AnswerInv, Truthful, Durable
    <2>10. QED
      BY <2>1, <2>2, <2>3, <2>4, <2>5, <2>6, <2>7, <2>8, <2>9
  <1>8. QED
    BY <1>1, <1>2, <1>3, <1>4, <1>5, <1>6, <1>7 DEF Closing

\* The writer collects a burst, syncs and answers.
LEMMA WriterQueueStep ==
  ASSUME LifecycleInd, WriterTake \/ WriterDone \/ WriterGrab \/ WriterGrabbed \/ SyncBurst \/ Reply
  PROVE  LifecycleInd'
  <1> USE DEF LifecycleInd
  <1>1. CASE WriterTake
    <2>1. PcTypeOK'
      BY <1>1 DEF WriterTake, PcTypeOK, CallerPcs, CompactorPcs, ReaderPcs, CloserPcs, HoldsCompactMu, AfterSignal
    <2>2. LifecycleTypeOK'
      BY <1>1, QueueAssumption, QueueHead DEF WriterTake, LifecycleTypeOK, Answers
    <2>3. MutexInv'
      BY <1>1 DEF WriterTake, PcTypeOK, LifecycleTypeOK, MutexInv, HoldsCompactMu
    <2>4. WriterInv'
      BY <1>1 DEF WriterTake, PcTypeOK, LifecycleTypeOK, WriterInv, CloseInv
    <2>5. LogInv'
      BY <1>1 DEF WriterTake, PcTypeOK, LifecycleTypeOK, LogInv
    <2>6. CloseInv'
      BY <1>1 DEF WriterTake, PcTypeOK, LifecycleTypeOK, MutexInv, CloseInv, HoldsCompactMu, AfterSignal, AfterWriter, AfterLoop
    <2>7. QueueInv'
      BY <1>1, SMTT(30) DEF WriterTake, PcTypeOK, LifecycleTypeOK, QueueInv, Waiting
    <2>8. AppliedInv'
      BY <1>1 DEF WriterTake, PcTypeOK, LifecycleTypeOK, QueueInv, Waiting, AppliedInv
    <2>9. AnswerInv'
      BY <1>1, QueueHead DEF WriterTake, PcTypeOK, LifecycleTypeOK, QueueInv, Waiting, AppliedInv, LogInv, AnswerInv, Truthful, Durable, WriterInv
    <2>10. QED
      BY <2>1, <2>2, <2>3, <2>4, <2>5, <2>6, <2>7, <2>8, <2>9
  <1>2. CASE WriterDone
    <2>1. PcTypeOK'
      BY <1>2 DEF WriterDone, PcTypeOK, CallerPcs, CompactorPcs, ReaderPcs, CloserPcs, HoldsCompactMu, AfterSignal
    <2>2. LifecycleTypeOK'
      BY <1>2 DEF WriterDone, LifecycleTypeOK, Answers
    <2>3. MutexInv'
      BY <1>2 DEF WriterDone, PcTypeOK, LifecycleTypeOK, MutexInv, HoldsCompactMu
    <2>4. WriterInv'
      BY <1>2 DEF WriterDone, PcTypeOK, LifecycleTypeOK, WriterInv, CloseInv
    <2>5. LogInv'
      BY <1>2 DEF WriterDone, PcTypeOK, LifecycleTypeOK, LogInv
    <2>6. CloseInv'
      BY <1>2 DEF WriterDone, PcTypeOK, LifecycleTypeOK, MutexInv, CloseInv, HoldsCompactMu, AfterSignal, AfterWriter, AfterLoop
    <2>7. QueueInv'
      BY <1>2 DEF WriterDone, PcTypeOK, LifecycleTypeOK, QueueInv, Waiting
    <2>8. AppliedInv'
      BY <1>2 DEF WriterDone, PcTypeOK, LifecycleTypeOK, QueueInv, Waiting, AppliedInv
    <2>9. AnswerInv'
      BY <1>2 DEF WriterDone, PcTypeOK, LifecycleTypeOK, QueueInv, Waiting, AppliedInv, LogInv, AnswerInv, Truthful, Durable
    <2>10. QED
      BY <2>1, <2>2, <2>3, <2>4, <2>5, <2>6, <2>7, <2>8, <2>9
  <1>3. CASE WriterGrab
    <2>1. PcTypeOK'
      BY <1>3 DEF WriterGrab, PcTypeOK, CallerPcs, CompactorPcs, ReaderPcs, CloserPcs, HoldsCompactMu, AfterSignal
    <2>2. LifecycleTypeOK'
      BY <1>3, QueueAssumption, QueueHead, AppendProperties DEF WriterGrab, LifecycleTypeOK, Answers
    <2>3. MutexInv'
      BY <1>3 DEF WriterGrab, PcTypeOK, LifecycleTypeOK, MutexInv, HoldsCompactMu
    <2>4. WriterInv'
      BY <1>3 DEF WriterGrab, PcTypeOK, LifecycleTypeOK, WriterInv, CloseInv
    <2>5. LogInv'
      BY <1>3 DEF WriterGrab, PcTypeOK, LifecycleTypeOK, LogInv
    <2>6. CloseInv'
      BY <1>3 DEF WriterGrab, PcTypeOK, LifecycleTypeOK, MutexInv, CloseInv, HoldsCompactMu, AfterSignal, AfterWriter, AfterLoop
    <2>7. QueueInv'
      BY <1>3, SMTT(30) DEF WriterGrab, PcTypeOK, LifecycleTypeOK, QueueInv, Waiting
    <2>8. AppliedInv'
      BY <1>3 DEF WriterGrab, PcTypeOK, LifecycleTypeOK, QueueInv, Waiting, AppliedInv
    <2>9. AnswerInv'
      BY <1>3, QueueHead, AppendProperties DEF WriterGrab, PcTypeOK, LifecycleTypeOK, QueueInv, Waiting, AppliedInv, LogInv, AnswerInv, Truthful, Durable, WriterInv
    <2>10. QED
      BY <2>1, <2>2, <2>3, <2>4, <2>5, <2>6, <2>7, <2>8, <2>9
  <1>4. CASE WriterGrabbed
    <2>1. PcTypeOK'
      BY <1>4 DEF WriterGrabbed, PcTypeOK, CallerPcs, CompactorPcs, ReaderPcs, CloserPcs, HoldsCompactMu, AfterSignal
    <2>2. LifecycleTypeOK'
      BY <1>4 DEF WriterGrabbed, LifecycleTypeOK, Answers
    <2>3. MutexInv'
      BY <1>4 DEF WriterGrabbed, PcTypeOK, LifecycleTypeOK, MutexInv, HoldsCompactMu
    <2>4. WriterInv'
      BY <1>4 DEF WriterGrabbed, PcTypeOK, LifecycleTypeOK, WriterInv, CloseInv
    <2>5. LogInv'
      BY <1>4 DEF WriterGrabbed, PcTypeOK, LifecycleTypeOK, LogInv
    <2>6. CloseInv'
      BY <1>4 DEF WriterGrabbed, PcTypeOK, LifecycleTypeOK, MutexInv, CloseInv, HoldsCompactMu, AfterSignal, AfterWriter, AfterLoop
    <2>7. QueueInv'
      BY <1>4 DEF WriterGrabbed, PcTypeOK, LifecycleTypeOK, QueueInv, Waiting
    <2>8. AppliedInv'
      BY <1>4 DEF WriterGrabbed, PcTypeOK, LifecycleTypeOK, QueueInv, Waiting, AppliedInv
    <2>9. AnswerInv'
      BY <1>4 DEF WriterGrabbed, PcTypeOK, LifecycleTypeOK, QueueInv, Waiting, AppliedInv, LogInv, AnswerInv, Truthful, Durable
    <2>10. QED
      BY <2>1, <2>2, <2>3, <2>4, <2>5, <2>6, <2>7, <2>8, <2>9
  <1>5. CASE SyncBurst
    <2>1. PcTypeOK'
      BY <1>5 DEF SyncBurst, Appended, Poison, PcTypeOK, CallerPcs, CompactorPcs, ReaderPcs, CloserPcs, HoldsCompactMu, AfterSignal
    <2>2. LifecycleTypeOK'
      <3>1. results \in Seq(Answers) /\ DOMAIN results = 1 .. Len(results)
        BY DEF LifecycleTypeOK
      <3>2. Poison \in [1 .. Len(results) -> Answers]
        BY <3>1 DEF Poison, Answers
      <3>3. results' \in Seq(Answers)
        BY <1>5, <3>1, <3>2 DEF SyncBurst
      <3>4. QED
        BY <1>5, <3>3 DEF SyncBurst, LifecycleTypeOK
    <2>3. MutexInv'
      BY <1>5 DEF SyncBurst, Appended, Poison, PcTypeOK, LifecycleTypeOK, MutexInv, HoldsCompactMu
    <2>4. WriterInv'
      BY <1>5 DEF SyncBurst, Appended, Poison, PcTypeOK, LifecycleTypeOK, WriterInv, CloseInv
    <2>5. LogInv'
      BY <1>5 DEF SyncBurst, Appended, Poison, PcTypeOK, LifecycleTypeOK, LogInv
    <2>6. CloseInv'
      BY <1>5 DEF SyncBurst, Appended, Poison, PcTypeOK, LifecycleTypeOK, MutexInv, CloseInv, HoldsCompactMu, AfterSignal, AfterWriter, AfterLoop
    <2>7. QueueInv'
      BY <1>5 DEF SyncBurst, Appended, Poison, PcTypeOK, LifecycleTypeOK, QueueInv, Waiting
    <2>8. AppliedInv'
      BY <1>5 DEF SyncBurst, Appended, Poison, PcTypeOK, LifecycleTypeOK, QueueInv, Waiting, AppliedInv
    <2>9. AnswerInv'
      BY <1>5 DEF SyncBurst, Appended, Poison, PcTypeOK, LifecycleTypeOK, QueueInv, Waiting, AppliedInv, LogInv, AnswerInv, Truthful, Durable
    <2>10. QED
      BY <2>1, <2>2, <2>3, <2>4, <2>5, <2>6, <2>7, <2>8, <2>9
  <1>6. CASE Reply
    <2>1. PcTypeOK'
      BY <1>6 DEF Reply, PcTypeOK, CallerPcs, CompactorPcs, ReaderPcs, CloserPcs, HoldsCompactMu, AfterSignal
    <2>2. LifecycleTypeOK'
      BY <1>6, BurstHead DEF Reply, LifecycleTypeOK, Answers, WriterInv
    <2>3. MutexInv'
      BY <1>6 DEF Reply, PcTypeOK, LifecycleTypeOK, MutexInv, HoldsCompactMu
    <2>4. WriterInv'
      <3>1. wpc' = "reply" => Tail(burst) # <<>>
        <4>1. wpc' = "reply" => Len(burst) > 1
          BY <1>6 DEF Reply
        <4>2. wpc' = "reply" => Len(Tail(burst)) # 0
          BY <1>6, <4>1, BurstHead DEF Reply
        <4>3. Len(<<>>) = 0
          OBVIOUS
        <4>4. QED
          BY <4>2, <4>3
      <3>2. wpc' # "reply" => Tail(burst) = <<>> /\ Tail(results) = <<>>
        BY <1>6, BurstHead, EmptySeq DEF Reply
      <3>3. QED
        BY <1>6, <3>1, <3>2, BurstHead DEF Reply, WriterInv
    <2>5. LogInv'
      BY <1>6 DEF Reply, PcTypeOK, LifecycleTypeOK, LogInv
    <2>6. CloseInv'
      BY <1>6 DEF Reply, PcTypeOK, LifecycleTypeOK, MutexInv, CloseInv, HoldsCompactMu, AfterSignal, AfterWriter, AfterLoop
    <2>7. QueueInv'
      <3>1. \A i \in DOMAIN burst' : i + 1 \in DOMAIN burst /\ burst'[i] = burst[i + 1]
                                    /\ burst'[i] # Head(burst)
        BY <1>6, BurstHead DEF Reply, QueueInv
      <3>2. \A i \in DOMAIN reqCh : reqCh[i] # Head(burst)
        BY <1>6, BurstHead, SMTT(30) DEF Reply, QueueInv
      <3>3. \A i \in DOMAIN burst' : i \in Nat
        BY <1>6, BurstHead DEF Reply
      <3>4. QED
        BY <1>6, <3>1, <3>2, <3>3, BurstHead DEF Reply, LifecycleTypeOK, QueueInv, Waiting
    <2>8. AppliedInv'
      BY <1>6, BurstHead DEF Reply, PcTypeOK, LifecycleTypeOK, QueueInv, Waiting, AppliedInv, WriterInv
    <2>9. AnswerInv'
      BY <1>6, BurstHead DEF Reply, PcTypeOK, LifecycleTypeOK, QueueInv, Waiting, AppliedInv, LogInv, AnswerInv, Truthful, Durable, WriterInv
    <2>10. QED
      BY <2>1, <2>2, <2>3, <2>4, <2>5, <2>6, <2>7, <2>8, <2>9
  <1>7. QED
    BY <1>1, <1>2, <1>3, <1>4, <1>5, <1>6 DEF WriterTake

\* The writer serves a request of its burst.
LEMMA HandleStep ==
  ASSUME LifecycleInd, NEW r \in Requesters, Handle(r)
  PROVE  LifecycleInd'
  <1> USE DEF LifecycleInd
  <1>1. CASE HandleDisabled(r)
    <2>1. PcTypeOK'
      BY <1>1 DEF HandleDisabled, Handling, Result, PcTypeOK, CallerPcs, CompactorPcs, ReaderPcs, CloserPcs, HoldsCompactMu, AfterSignal
    <2>2. LifecycleTypeOK'
      BY <1>1 DEF HandleDisabled, Handling, Result, LifecycleTypeOK, Answers
    <2>3. MutexInv'
      BY <1>1 DEF HandleDisabled, Handling, Result, PcTypeOK, LifecycleTypeOK, MutexInv, HoldsCompactMu
    <2>4. WriterInv'
      BY <1>1 DEF HandleDisabled, Handling, Result, PcTypeOK, LifecycleTypeOK, WriterInv, CloseInv
    <2>5. LogInv'
      BY <1>1 DEF HandleDisabled, Handling, Result, PcTypeOK, LifecycleTypeOK, LogInv
    <2>6. CloseInv'
      BY <1>1 DEF HandleDisabled, Handling, Result, PcTypeOK, LifecycleTypeOK, MutexInv, CloseInv, HoldsCompactMu, AfterSignal, AfterWriter, AfterLoop
    <2>7. QueueInv'
      BY <1>1 DEF HandleDisabled, Handling, Result, PcTypeOK, LifecycleTypeOK, QueueInv, Waiting
    <2>8. AppliedInv'
      BY <1>1 DEF HandleDisabled, Handling, Result, PcTypeOK, LifecycleTypeOK, QueueInv, Waiting, AppliedInv
    <2>9. AnswerInv'
      BY <1>1 DEF HandleDisabled, Handling, Result, PcTypeOK, LifecycleTypeOK, QueueInv, Waiting, AppliedInv, LogInv, AnswerInv, Truthful, Durable
    <2>10. QED
      BY <2>1, <2>2, <2>3, <2>4, <2>5, <2>6, <2>7, <2>8, <2>9
  <1>2. CASE HandleAppend(r)
    <2>1. PcTypeOK'
      BY <1>2 DEF HandleAppend, Handling, Result, PcTypeOK, CallerPcs, CompactorPcs, ReaderPcs, CloserPcs, HoldsCompactMu, AfterSignal
    <2>2. LifecycleTypeOK'
      BY <1>2 DEF HandleAppend, Handling, Result, LifecycleTypeOK, Answers
    <2>3. MutexInv'
      BY <1>2 DEF HandleAppend, Handling, Result, PcTypeOK, LifecycleTypeOK, MutexInv, HoldsCompactMu
    <2>4. WriterInv'
      BY <1>2 DEF HandleAppend, Handling, Result, PcTypeOK, LifecycleTypeOK, WriterInv, CloseInv
    <2>5. LogInv'
      BY <1>2 DEF HandleAppend, Handling, Result, PcTypeOK, LifecycleTypeOK, LogInv, CloseInv
    <2>6. CloseInv'
      BY <1>2 DEF HandleAppend, Handling, Result, PcTypeOK, LifecycleTypeOK, MutexInv, CloseInv, HoldsCompactMu, AfterSignal, AfterWriter, AfterLoop
    <2>7. QueueInv'
      BY <1>2 DEF HandleAppend, Handling, Result, PcTypeOK, LifecycleTypeOK, QueueInv, Waiting
    <2>8. AppliedInv'
      BY <1>2 DEF HandleAppend, Handling, Result, PcTypeOK, LifecycleTypeOK, QueueInv, Waiting, AppliedInv
    <2>9. AnswerInv'
      BY <1>2 DEF HandleAppend, Handling, Result, PcTypeOK, LifecycleTypeOK, QueueInv, Waiting, AppliedInv, LogInv, AnswerInv, Truthful, Durable
    <2>10. QED
      BY <2>1, <2>2, <2>3, <2>4, <2>5, <2>6, <2>7, <2>8, <2>9
  <1>3. CASE HandleRotate(r)
    <2>1. PcTypeOK'
      BY <1>3 DEF HandleRotate, Handling, Result, PcTypeOK, CallerPcs, CompactorPcs, ReaderPcs, CloserPcs, HoldsCompactMu, AfterSignal
    <2>2. LifecycleTypeOK'
      BY <1>3 DEF HandleRotate, Handling, Result, LifecycleTypeOK, Answers
    <2>3. MutexInv'
      BY <1>3 DEF HandleRotate, Handling, Result, PcTypeOK, LifecycleTypeOK, MutexInv, HoldsCompactMu
    <2>4. WriterInv'
      BY <1>3 DEF HandleRotate, Handling, Result, PcTypeOK, LifecycleTypeOK, WriterInv, CloseInv
    <2>5. LogInv'
      BY <1>3 DEF HandleRotate, Handling, Result, PcTypeOK, LifecycleTypeOK, LogInv, CloseInv
    <2>6. CloseInv'
      BY <1>3 DEF HandleRotate, Handling, Result, PcTypeOK, LifecycleTypeOK, MutexInv, CloseInv, HoldsCompactMu, AfterSignal, AfterWriter, AfterLoop
    <2>7. QueueInv'
      BY <1>3 DEF HandleRotate, Handling, Result, PcTypeOK, LifecycleTypeOK, QueueInv, Waiting
    <2>8. AppliedInv'
      BY <1>3 DEF HandleRotate, Handling, Result, PcTypeOK, LifecycleTypeOK, QueueInv, Waiting, AppliedInv
    <2>9. AnswerInv'
      BY <1>3 DEF HandleRotate, Handling, Result, PcTypeOK, LifecycleTypeOK, QueueInv, Waiting, AppliedInv, LogInv, AnswerInv, Truthful, Durable
    <2>10. QED
      BY <2>1, <2>2, <2>3, <2>4, <2>5, <2>6, <2>7, <2>8, <2>9
  <1>4. CASE HandleRotateFail(r)
    <2>1. PcTypeOK'
      BY <1>4 DEF HandleRotateFail, Handling, Result, PcTypeOK, CallerPcs, CompactorPcs, ReaderPcs, CloserPcs, HoldsCompactMu, AfterSignal
    <2>2. LifecycleTypeOK'
      <3>1. PICK x \in {"err", "disabled"} : Result(x)
        BY <1>4 DEF HandleRotateFail
      <3>2. writesDisabled' \in BOOLEAN
        BY <1>4 DEF HandleRotateFail, LifecycleTypeOK
      <3>3. QED
        BY <1>4, <3>1, <3>2, ResultAppended DEF HandleRotateFail, LifecycleTypeOK, Answers
    <2>3. MutexInv'
      BY <1>4 DEF HandleRotateFail, Handling, Result, PcTypeOK, LifecycleTypeOK, MutexInv, HoldsCompactMu
    <2>4. WriterInv'
      BY <1>4 DEF HandleRotateFail, Handling, Result, PcTypeOK, LifecycleTypeOK, WriterInv, CloseInv
    <2>5. LogInv'
      BY <1>4 DEF HandleRotateFail, Handling, Result, PcTypeOK, LifecycleTypeOK, LogInv
    <2>6. CloseInv'
      BY <1>4 DEF HandleRotateFail, Handling, Result, PcTypeOK, LifecycleTypeOK, MutexInv, CloseInv, HoldsCompactMu, AfterSignal, AfterWriter, AfterLoop
    <2>7. QueueInv'
      BY <1>4 DEF HandleRotateFail, Handling, Result, PcTypeOK, LifecycleTypeOK, QueueInv, Waiting
    <2>8. AppliedInv'
      BY <1>4 DEF HandleRotateFail, Handling, Result, PcTypeOK, LifecycleTypeOK, QueueInv, Waiting, AppliedInv
    <2>9. AnswerInv'
      <3>1. PICK x \in {"err", "disabled"} : Result(x)
        BY <1>4 DEF HandleRotateFail
      <3>2. dirty' \subseteq dirty
        BY <1>4 DEF HandleRotateFail
      <3>3. Truthful(r, x) /\ r \in Callers
        BY <1>4, <3>1, InHand DEF HandleRotateFail, Truthful
      <3>4. QED
        BY <1>4, <3>1, <3>2, <3>3, ResultAppended, InHand
           DEF HandleRotateFail, Handling, AnswerInv, Truthful, Durable, Answers
    <2>10. QED
      BY <2>1, <2>2, <2>3, <2>4, <2>5, <2>6, <2>7, <2>8, <2>9
  <1>5. CASE HandleAppendFail(r)
    <2>1. PcTypeOK'
      BY <1>5 DEF HandleAppendFail, Handling, Result, PcTypeOK, CallerPcs, CompactorPcs, ReaderPcs, CloserPcs, HoldsCompactMu, AfterSignal
    <2>2. LifecycleTypeOK'
      BY <1>5 DEF HandleAppendFail, Handling, Result, LifecycleTypeOK, Answers
    <2>3. MutexInv'
      BY <1>5 DEF HandleAppendFail, Handling, Result, PcTypeOK, LifecycleTypeOK, MutexInv, HoldsCompactMu
    <2>4. WriterInv'
      BY <1>5 DEF HandleAppendFail, Handling, Result, PcTypeOK, LifecycleTypeOK, WriterInv, CloseInv
    <2>5. LogInv'
      BY <1>5 DEF HandleAppendFail, Handling, Result, PcTypeOK, LifecycleTypeOK, LogInv
    <2>6. CloseInv'
      BY <1>5 DEF HandleAppendFail, Handling, Result, PcTypeOK, LifecycleTypeOK, MutexInv, CloseInv, HoldsCompactMu, AfterSignal, AfterWriter, AfterLoop
    <2>7. QueueInv'
      BY <1>5 DEF HandleAppendFail, Handling, Result, PcTypeOK, LifecycleTypeOK, QueueInv, Waiting
    <2>8. AppliedInv'
      BY <1>5 DEF HandleAppendFail, Handling, Result, PcTypeOK, LifecycleTypeOK, QueueInv, Waiting, AppliedInv
    <2>9. AnswerInv'
      BY <1>5 DEF HandleAppendFail, Handling, Result, PcTypeOK, LifecycleTypeOK, QueueInv, Waiting, AppliedInv, LogInv, AnswerInv, Truthful, Durable
    <2>10. QED
      BY <2>1, <2>2, <2>3, <2>4, <2>5, <2>6, <2>7, <2>8, <2>9
  <1>6. CASE HandleCommit(r)
    <2>1. PcTypeOK'
      BY <1>6 DEF HandleCommit, Handling, Result, PcTypeOK, CallerPcs, CompactorPcs, ReaderPcs, CloserPcs, HoldsCompactMu, AfterSignal
    <2>2. LifecycleTypeOK'
      <3>1. PICK x \in {"ok", "err"} : Result(x)
        BY <1>6 DEF HandleCommit
      <3>2. applied' \subseteq Requesters
        BY <1>6 DEF HandleCommit, LifecycleTypeOK
      <3>3. QED
        BY <1>6, <3>1, <3>2, ResultAppended DEF HandleCommit, LifecycleTypeOK, Answers
    <2>3. MutexInv'
      BY <1>6 DEF HandleCommit, Handling, Result, PcTypeOK, LifecycleTypeOK, MutexInv, HoldsCompactMu
    <2>4. WriterInv'
      BY <1>6 DEF HandleCommit, Handling, Result, PcTypeOK, LifecycleTypeOK, WriterInv, CloseInv
    <2>5. LogInv'
      BY <1>6 DEF HandleCommit, Handling, Result, PcTypeOK, LifecycleTypeOK, LogInv
    <2>6. CloseInv'
      BY <1>6 DEF HandleCommit, Handling, Result, PcTypeOK, LifecycleTypeOK, MutexInv, CloseInv, HoldsCompactMu, AfterSignal, AfterWriter, AfterLoop
    <2>7. QueueInv'
      BY <1>6 DEF HandleCommit, Handling, Result, PcTypeOK, LifecycleTypeOK, QueueInv, Waiting
    <2>8. AppliedInv'
      <3>1. PICK x \in {"ok", "err"} : Result(x)
        BY <1>6 DEF HandleCommit
      <3>2. applied' \subseteq applied \cup {r}
        BY <1>6 DEF HandleCommit
      <3>3. QED
        BY <1>6, <3>1, <3>2, ResultAppended, InHand
           DEF HandleCommit, Handling, AppliedInv, Waiting, PcTypeOK, Answers
    <2>9. AnswerInv'
      <3>1. PICK x \in {"ok", "err"} :
              Result(x) /\ applied' = IF x = "ok" THEN applied \cup {r} ELSE applied
        BY <1>6 DEF HandleCommit
      <3>2. Truthful(r, x)' /\ r \in Compactors
        BY <1>6, <3>1, InHand DEF HandleCommit, Truthful
      <3>3. QED
        BY <1>6, <3>1, <3>2, ResultAppended, InHand
           DEF HandleCommit, Handling, AnswerInv, Truthful, Durable, Answers, Waiting
    <2>10. QED
      BY <2>1, <2>2, <2>3, <2>4, <2>5, <2>6, <2>7, <2>8, <2>9
  <1>7. QED
    BY <1>1, <1>2, <1>3, <1>4, <1>5, <1>6 DEF Handle

----------------------------------------------------------------------------
(* The inductive invariant.                                                *)

\* A freshly opened database satisfies the invariant.
LEMMA LifecycleInit ==
  ASSUME Init
  PROVE  LifecycleInd
  <1> USE RolesAssumption, QueueAssumption DEF Init
  <1>1. PcTypeOK
    BY DEF PcTypeOK, CallerPcs, CompactorPcs, ReaderPcs, CloserPcs
  <1>2. LifecycleTypeOK
    <2>1. res \in [Goroutines -> Answers] /\ reply \in [Requesters -> Answers]
      BY DEF Answers
    <2>2. reqCh \in Seq(Requesters) /\ Len(reqCh) <= QueueDepth
      BY EmptySeq
    <2>3. burst \in Seq(Requesters) /\ results \in Seq(Answers)
      BY EmptySeq
    <2>4. QED
      BY <2>1, <2>2, <2>3 DEF LifecycleTypeOK
  <1>3. MutexInv
    BY DEF MutexInv, HoldsCompactMu
  <1>4. WriterInv
    BY DEF WriterInv
  <1>5. CloseInv
    BY DEF CloseInv, AfterSignal, AfterWriter, AfterLoop
  <1>6. QueueInv
    BY DEF QueueInv, Waiting
  <1>7. AppliedInv
    BY DEF AppliedInv
  <1>8. AnswerInv
    BY DEF AnswerInv
  <1>9. LogInv
    BY DEF LogInv
  <1>10. QED
    BY <1>1, <1>2, <1>3, <1>4, <1>5, <1>6, <1>7, <1>8, <1>9 DEF LifecycleInd

\* Nothing that LifecycleInd speaks of changes in a stuttering step.
LEMMA LifecycleStutter ==
  ASSUME LifecycleInd, UNCHANGED vars
  PROVE  LifecycleInd'
  <1> USE DEF LifecycleInd, vars
  <1>1. PcTypeOK'
    BY DEF PcTypeOK
  <1>2. LifecycleTypeOK'
    BY DEF LifecycleTypeOK
  <1>3. MutexInv'
    BY DEF MutexInv
  <1>4. WriterInv'
    BY DEF WriterInv
  <1>5. CloseInv'
    BY DEF CloseInv
  <1>6. QueueInv'
    BY DEF QueueInv, Waiting
  <1>7. AppliedInv'
    BY DEF AppliedInv
  <1>8. AnswerInv'
    BY DEF AnswerInv, Truthful, Durable
  <1>9. LogInv'
    BY DEF LogInv
  <1>10. QED
    BY <1>1, <1>2, <1>3, <1>4, <1>5, <1>6, <1>7, <1>8, <1>9

\* Every step of every goroutine preserves the invariant.
LEMMA LifecycleStep ==
  ASSUME LifecycleInd, [Next]_vars
  PROVE  LifecycleInd'
  <1>1. ASSUME NEW g \in Callers, Caller(g) PROVE LifecycleInd'
    BY <1>1, CallerStep
  <1>2. ASSUME NEW g \in Manual, CompactCall(g) \/ Pass(g) PROVE LifecycleInd'
    BY <1>2, ManualStep, PassStep
  <1>3. ASSUME NEW g \in Loop, LoopTick(g) \/ LoopExit(g) \/ Pass(g)
        PROVE  LifecycleInd'
    BY <1>3, LoopStep, PassStep
  <1>4. ASSUME NEW g \in Readers, Reader(g) PROVE LifecycleInd'
    BY <1>4, ReaderStep
  <1>5. ASSUME NEW c \in Closers, CloseCall(c) \/ Closing(c) PROVE LifecycleInd'
    BY <1>5, CloserStep
  <1>6. CASE Writer
    BY <1>6, WriterQueueStep, HandleStep DEF Writer
  <1>7. CASE UNCHANGED vars
    BY <1>7, LifecycleStutter
  <1>8. QED
    BY <1>1, <1>2, <1>3, <1>4, <1>5, <1>6, <1>7 DEF Next

\* Whatever the goroutines of the engine do, in whatever order, what they
\* rely on about each other (mutexes, queue, burst, answers, the steps of
\* Close) holds between their steps.
THEOREM LifecycleInvariance == Spec => []LifecycleInd
  <1>1. Init => LifecycleInd
    BY LifecycleInit
  <1>2. LifecycleInd /\ [Next]_vars => LifecycleInd'
    BY LifecycleStep
  <1>3. QED
    BY <1>1, <1>2, PTL DEF Spec

----------------------------------------------------------------------------
(* What it gives.                                                          *)

\* submit, writerLoop and processBurst: a call that returned nil is in the
\* log, and fsynced under SyncOnPut; one refused with ErrDBClosed or
\* ErrWritesDisabled never lands, for any number of callers, compactors and
\* Close calls.
THEOREM AnswersTrue == Spec => []AnswersAreTrue
  <1>1. LifecycleInd => AnswersAreTrue
    BY DEF LifecycleInd, AnswerInv, Truthful, Durable, AnswersAreTrue
  <1>2. QED
    BY <1>1, LifecycleInvariance, PTL

\* compactOnce removes the merged segment only if the writer did not publish
\* it, whatever became of the burst the commit shared.
THEOREM CleanupIsSafe == Spec => []CommittedNotCleanedUp
  <1>1. LifecycleInd => CommittedNotCleanedUp
    BY DEF LifecycleInd, AnswerInv, CommittedNotCleanedUp
  <1>2. QED
    BY <1>1, LifecycleInvariance, PTL

\* Close gives up the files and the directory lock only when the writer has
\* exited with an empty queue and no compaction or read is under way.
THEOREM CloseIsQuiet == Spec => []QuietAfterClose
  <1>1. LifecycleInd => QuietAfterClose
    BY DEF LifecycleInd, WriterInv, CloseInv, HoldsCompactMu, QuietAfterClose
  <1>2. QED
    BY <1>1, LifecycleInvariance, PTL

\* A Close that returns nil has fsynced every record, with or without
\* SyncOnPut.
THEOREM CloseIsDurable == Spec => []CleanCloseIsDurable
  <1>1. LifecycleInd => CleanCloseIsDurable
    BY DEF LifecycleInd, LogInv, CleanCloseIsDurable
  <1>2. QED
    BY <1>1, LifecycleInvariance, PTL
=============================================================================
