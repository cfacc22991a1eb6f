---------------------------- MODULE EngineProofs ----------------------------
(***************************************************************************)
(* Proofs, for every value of the constants, that IndInv is an inductive   *)
(* invariant of Engine, and what follows from it: the type invariant, the  *)
(* safety invariants that TLC checks on small instances, and that Engine   *)
(* implements KVStore.                                                     *)
(***************************************************************************)
EXTENDS EngineInv, SequenceTheorems, TLAPS

USE DEF dirVars, dbVars, writerVars, compactorVars, Writing

----------------------------------------------------------------------------
(* Types of the operators the actions are built from.                      *)

\* Ids are natural numbers and NoSeg is none of them.
LEMMA IdFacts == NoSeg \notin Ids /\ 0 \in Ids /\ Ids \subseteq Nat
  BY IdAssumption DEF Ids, NoSeg

\* A write request is a non-empty sequence of operations.
LEMMA RequestFacts ==
  ASSUME NEW ops \in Batches
  PROVE  /\ Len(ops) \in Nat \ {0}
         /\ DOMAIN ops = 1 .. Len(ops)
         /\ \A i \in DOMAIN ops : ops[i].key \in Keys /\ ops[i].val \in Values \cup {Tombstone}
  <1> DEFINE S == [key : Keys, val : Values \cup {Tombstone}]
  <1>1. ops \in Seq(S) /\ ops # <<>>
    BY BatchesAssumption
  <1>2. \A i \in DOMAIN ops : ops[i] \in S
    <2> HIDE DEF S
    <2> QED BY <1>1
  <1>3. Len(ops) \in Nat \ {0}
    BY <1>1, EmptySeq
  <1>4. QED
    BY <1>1, <1>2, <1>3

\* The entries appended for a request have the type of file entries.
LEMMA EntriesType ==
  ASSUME TypeOK, NEW ops \in Batches
  PROVE  EntriesOf(ops) \in Seq(Entry) /\ Len(EntriesOf(ops)) = Len(ops)
  <1>1. lastTstamp \in Nat
    BY DEF TypeOK
  <1>2. EntriesOf(ops) \in [1 .. Len(ops) -> Entry]
    BY <1>1, RequestFacts DEF EntriesOf, Entry
  <1>3. QED
    BY <1>2, RequestFacts DEF EntriesOf

\* An entry of a file has the type Entry.
LEMMA FileEntry ==
  ASSUME TypeOK, NEW i \in Ids, NEW p \in DOMAIN file[i]
  PROVE  /\ file[i][p] \in Entry
         /\ p \in Nat \ {0}
         /\ p <= Len(file[i])
  <1>1. file[i] \in Seq(Entry)
    BY DEF TypeOK
  <1>2. QED
    BY <1>1

\* What Get returns is a value or Tombstone.
LEMMA ValueType ==
  ASSUME TypeOK, NEW e \in Loc
  PROVE  ValueAt(e) \in Values \cup {Tombstone}
  <1>1. CASE Resolves(e)
    <2>1. e.file \in Ids /\ e.pos \in DOMAIN file[e.file]
      BY <1>1 DEF Resolves, Loc
    <2>2. file[e.file][e.pos] \in Entry
      BY <2>1, FileEntry
    <2>3. QED
      BY <1>1, <2>2 DEF ValueAt, Entry
  <1>2. CASE ~Resolves(e)
    BY <1>2 DEF ValueAt
  <1>3. QED
    BY <1>1, <1>2

\* What Get returns for the keys is a map of the abstract store.
LEMMA ViewType ==
  ASSUME TypeOK
  PROVE  View \in [Keys -> Values \cup {Tombstone}]
  <1>1. \A k \in Keys : keydir[k] \in Loc
    BY DEF TypeOK
  <1>2. QED
    BY <1>1, ValueType DEF View

\* The entry that stands for an absent key is a location.
LEMMA NoEntryType == NoEntry \in Loc
  BY IdFacts DEF NoEntry, Loc

\* A reader that holds no lock has a well typed (empty) snapshot.
LEMMA IdleReaderType ==
  IdleReader \in [keys : SUBSET Keys, snap : [Keys -> Loc],
                  view : [Keys -> Values \cup {Tombstone}]]
  BY NoEntryType DEF IdleReader

\* Removing a segment file keeps the directory well typed.
LEMMA RemoveType ==
  ASSUME TypeOK, NEW i \in Ids, RemoveSegment(i)
  PROVE  file' \in [Ids -> Seq(Entry)] /\ segFiles' \subseteq Ids
  <1>1. file \in [Ids -> Seq(Entry)] /\ segFiles \subseteq Ids
    BY DEF TypeOK
  <1>2. <<>> \in Seq(Entry)
    BY EmptySeq
  <1>3. [file EXCEPT ![i] = <<>>] \in [Ids -> Seq(Entry)]
    BY <1>1, <1>2
  <1>4. QED
    BY <1>1, <1>3 DEF RemoveSegment

\* The hint built from a pass's rewrites has the type of a hint file.
LEMMA HintType ==
  ASSUME TypeOK
  PROVE  HintOf(rewrites) \in SUBSET HintEntry
  <1>1. \A r \in rewrites : r.key \in Keys /\ r.new.pos \in Nat /\ r.new.t \in Nat
    BY DEF TypeOK, Rewrite, Loc
  <1>2. QED
    BY <1>1 DEF HintOf, HintEntry

\* The position of an operation just appended.
LEMMA LocType ==
  ASSUME TypeOK, AppendedInv, wpc = "keydir", wreq \in Batches,
         NEW i \in DOMAIN wreq
  PROVE  /\ LocOf(wreq, i) \in Loc
         /\ LocOf(wreq, i).pos \in DOMAIN file[active]
  <1>1. file[active] \in Seq(Entry) /\ active \in Ids /\ lastTstamp \in Nat
    BY DEF TypeOK
  <1>2. Len(wreq) \in Nat /\ i \in 1 .. Len(wreq) /\ Len(wreq) <= Len(file[active])
    BY RequestFacts DEF AppendedInv
  <1>3. Len(file[active]) - Len(wreq) + i \in 1 .. Len(file[active])
    BY <1>1, <1>2
  <1>4. QED
    BY <1>1, <1>3 DEF LocOf, Loc

\* The last operation of a request on a key is one of its operations.
LEMMA LastOpFacts ==
  ASSUME NEW ops \in Batches, NEW k \in Keys, Store!Touches(ops, k)
  PROVE  Store!LastOp(ops, k) \in DOMAIN ops /\ ops[Store!LastOp(ops, k)].key = k
  BY DEF Store!Touches, Store!LastOp, Store!IsLastOp

\* The keydir after a request is a keydir.
LEMMA ApplyType ==
  ASSUME TypeOK, AppendedInv, wpc = "keydir", wreq \in Batches
  PROVE  ApplyBatch(wreq) \in [Keys -> Loc]
  <1>1. ASSUME NEW k \in Keys, Store!Touches(wreq, k)
        PROVE  LocOf(wreq, Store!LastOp(wreq, k)) \in Loc
    BY <1>1, LastOpFacts, LocType
  <1>2. \A k \in Keys : keydir[k] \in Loc
    BY DEF TypeOK
  <1>3. QED
    BY <1>1, <1>2, NoEntryType DEF ApplyBatch

\* The rewrite the commit applies to a key, when there is one.
LEMMA SwapFacts ==
  ASSUME NEW k \in Keys
  PROVE  \/ SwapAll[k] = keydir[k] /\ \A r \in rewrites : ~(r.key = k /\ r.old = keydir[k])
         \/ \E r \in rewrites : r.key = k /\ r.old = keydir[k] /\ SwapAll[k] = r.new
  <1> DEFINE R == {r \in rewrites : r.key = k /\ r.old = keydir[k]}
  <1>1. SwapAll[k] = IF R = {} THEN keydir[k] ELSE (CHOOSE r \in R : TRUE).new
    BY DEF SwapAll
  <1>2. CASE R = {}
    BY <1>1, <1>2
  <1>3. CASE R # {}
    <2>1. (CHOOSE r \in R : TRUE) \in R
      BY <1>3
    <2>2. QED
      BY <1>1, <1>3, <2>1
  <1>4. QED
    BY <1>2, <1>3

\* The keydir after a compaction commit is a keydir.
LEMMA SwapType ==
  ASSUME TypeOK
  PROVE  SwapAll \in [Keys -> Loc]
  <1>1. \A k \in Keys : keydir[k] \in Loc
    BY DEF TypeOK
  <1>2. \A r \in rewrites : r.new \in Loc
    BY DEF TypeOK, Rewrite
  <1>3. SwapAll = [k \in Keys |-> SwapAll[k]]
    BY DEF SwapAll
  <1>4. QED
    BY <1>1, <1>2, <1>3, SwapFacts

----------------------------------------------------------------------------
(* Every step preserves every part of the invariant.                       *)

\* No step breaks the pairing of the writer's and compactor's control
\* points (who is inside handleCompactCommit, who holds a request).
LEMMA ControlStep == CoreInv /\ [Next]_vars => ControlInv'
  <1> SUFFICES ASSUME TypeOK, ControlInv, [Next]_vars
               PROVE  ControlInv'
    BY DEF CoreInv
  <1> USE IdFacts DEF ControlInv, Publishing, Unlinking
  <1>1. ASSUME NEW ops \in Batches, StartWrite(ops)
        PROVE  ControlInv'
    BY <1>1 DEF StartWrite, TypeOK
  <1>2. CASE RotateCreate
    BY <1>2 DEF RotateCreate, CreateSegment, TypeOK
  <1>3. CASE RotateFail
    BY <1>3 DEF RotateFail, FailWrite, TypeOK
  <1>4. CASE RotateManifest
    BY <1>4 DEF RotateManifest, WriteManifest, TypeOK
  <1>5. CASE RotateAbort
    BY <1>5 DEF RotateAbort, RemoveSegment, FailWrite, TypeOK
  <1>6. CASE RotateUncertain
    BY <1>6 DEF RotateUncertain, WriteManifest, FailWrite, TypeOK
  <1>7. CASE RotatePublish
    BY <1>7 DEF RotatePublish, TypeOK
  <1>8. CASE AppendRecord
    BY <1>8 DEF AppendRecord, TypeOK
  <1>9. CASE AppendFail
    BY <1>9 DEF AppendFail, FailWrite, TypeOK
  <1>10. CASE ApplyKeydir
    BY <1>10 DEF ApplyKeydir, TypeOK
  <1>11. CASE CommitManifest
    BY <1>11 DEF CommitManifest, WriteManifest, TypeOK
  <1>12. CASE CommitFail
    BY <1>12 DEF CommitFail, TypeOK
  <1>13. CASE CommitPublish
    BY <1>13 DEF CommitPublish, ResetCompactor, TypeOK
  <1>14. ASSUME NEW c \in Ids, UnlinkSegment(c)
        PROVE  ControlInv'
    BY <1>14 DEF UnlinkSegment, RemoveSegment, TypeOK
  <1>15. ASSUME NEW c \in Ids, UnlinkHint(c)
        PROVE  ControlInv'
    BY <1>15 DEF UnlinkHint, RemoveHint, ResetCompactor, TypeOK
  <1>16. CASE CompactSnapshot
    BY <1>16 DEF CompactSnapshot, TypeOK
  <1>17. CASE CompactCreate
    BY <1>17 DEF CompactCreate, CreateSegment, TypeOK
  <1>18. CASE CompactCreateFail
    BY <1>18 DEF CompactCreateFail, ResetCompactor, TypeOK
  <1>19. ASSUME NEW c \in Ids, ScanEntry(c)
        PROVE  ControlInv'
    BY <1>19 DEF ScanEntry, Lowest, TypeOK
  <1>20. ASSUME NEW c \in Ids, ScanNext(c)
        PROVE  ControlInv'
    BY <1>20 DEF ScanNext, TypeOK
  <1>21. CASE CompactFail
    BY <1>21 DEF CompactFail, RemoveSegment, ResetCompactor, TypeOK
  <1>22. CASE RetireOnly
    BY <1>22 DEF RetireOnly, RemoveSegment, TypeOK
  <1>23. CASE WriteHintFile
    BY <1>23 DEF WriteHintFile, TypeOK
  <1>24. CASE CleanupSegment
    BY <1>24 DEF CleanupSegment, RemoveSegment, ResetCompactor, TypeOK
  <1>25. CASE CleanupHint
    BY <1>25 DEF CleanupHint, RemoveHint, ResetCompactor, TypeOK
  <1>26. ASSUME NEW r \in Readers, NEW K \in SUBSET Keys \ {{}}, ReadStart(r, K)
        PROVE  ControlInv'
    BY <1>26 DEF ReadStart, TypeOK
  <1>27. ASSUME NEW r \in Readers, NEW k \in Keys, ReadValue(r, k)
        PROVE  ControlInv'
    BY <1>27 DEF ReadValue, TypeOK
  <1>28. CASE UNCHANGED vars
    BY <1>28 DEF vars, TypeOK
  <1>29. QED
    BY <1>1, <1>2, <1>3, <1>4, <1>5, <1>6, <1>7, <1>8, <1>9, <1>10, <1>11,
       <1>12, <1>13, <1>14, <1>15, <1>16, <1>17, <1>18, <1>19, <1>20,
       <1>21, <1>22, <1>23, <1>24, <1>25, <1>26, <1>27, <1>28
       DEF Next, Writer, Compactor, Reader

\* No step breaks the types of the variables.
LEMMA TypeStep == CoreInv /\ [Next]_vars => TypeOK'
  <1> SUFFICES ASSUME TypeOK, ControlInv, AppendedInv, [Next]_vars
               PROVE  TypeOK'
    BY DEF CoreInv
  <1> USE IdFacts
  <1>1. ASSUME NEW ops \in Batches, StartWrite(ops)
        PROVE  TypeOK'
    BY <1>1, SMTT(30) DEF StartWrite, TypeOK
  <1>2. CASE RotateCreate
    BY <1>2, SMTT(30) DEF RotateCreate, CreateSegment, TypeOK
  <1>3. CASE RotateFail
    <2>1. nextID' \in Nat
      BY <1>3 DEF RotateFail, TypeOK
    <2>2. /\ wpc' = "idle" /\ wreq' = <<>>
          /\ UNCHANGED <<dirVars, segments, active, lastTstamp, keydir,
                         writesDisabled, next, compactorVars, rd>>
      BY <1>3 DEF RotateFail, FailWrite
    <2>3. QED
      BY <2>1, <2>2 DEF TypeOK
  <1>4. CASE RotateManifest
    BY <1>4 DEF RotateManifest, WriteManifest, TypeOK, ControlInv
  <1>5. CASE RotateAbort
    <2>1. next \in Ids
      BY <1>5 DEF RotateAbort, ControlInv, TypeOK
    <2>2. file' \in [Ids -> Seq(Entry)] /\ segFiles' \subseteq Ids
      BY <1>5, <2>1, RemoveType DEF RotateAbort
    <2>3. QED
      BY <1>5, <2>1, <2>2 DEF RotateAbort, FailWrite, TypeOK
  <1>6. CASE RotateUncertain
    BY <1>6 DEF RotateUncertain, WriteManifest, FailWrite, TypeOK, ControlInv
  <1>7. CASE RotatePublish
    BY <1>7 DEF RotatePublish, TypeOK, ControlInv
  <1>8. CASE AppendRecord
    <2>1. wreq \in Batches /\ active \in Ids /\ file \in [Ids -> Seq(Entry)]
      BY <1>8 DEF AppendRecord, ControlInv, TypeOK
    <2>2. file[active] \o EntriesOf(wreq) \in Seq(Entry)
      BY <2>1, EntriesType
    <2>3. file' \in [Ids -> Seq(Entry)]
      BY <1>8, <2>1, <2>2 DEF AppendRecord
    <2>4. QED
      BY <1>8, <2>3 DEF AppendRecord, TypeOK
  <1>9. CASE AppendFail
    BY <1>9 DEF AppendFail, FailWrite, TypeOK
  <1>10. CASE ApplyKeydir
    <2>1. keydir' \in [Keys -> Loc]
      BY <1>10, ApplyType DEF ApplyKeydir, ControlInv
    <2>2. QED
      BY <1>10, <2>1 DEF ApplyKeydir, TypeOK
  <1>11. CASE CommitManifest
    <2>1. (segments \ candidates) \cup Merged \subseteq Ids /\ active \in Ids
      BY DEF Merged, TypeOK
    <2>2. manifest' \in [segs : SUBSET Ids, active : Ids]
      BY <1>11, <2>1 DEF CommitManifest, WriteManifest
    <2>3. QED
      BY <1>11, <2>2 DEF CommitManifest, TypeOK
  <1>12. CASE CommitFail
    BY <1>12 DEF CommitFail, TypeOK
  <1>13. CASE CommitPublish
    <2>1. keydir' \in [Keys -> Loc]
      BY <1>13, SwapType DEF CommitPublish
    <2>2. segments' \subseteq Ids
      BY <1>13 DEF CommitPublish, Merged, TypeOK
    <2>3. QED
      BY <1>13, <2>1, <2>2 DEF CommitPublish, ResetCompactor, TypeOK
  <1>14. ASSUME NEW c \in Ids, UnlinkSegment(c)
        PROVE  TypeOK'
    <2>1. c \in Ids
      BY <1>14 DEF UnlinkSegment, ControlInv, TypeOK
    <2>2. file' \in [Ids -> Seq(Entry)] /\ segFiles' \subseteq Ids
      BY <1>14, <2>1, RemoveType DEF UnlinkSegment
    <2>3. QED
      BY <1>14, <2>1, <2>2 DEF UnlinkSegment, TypeOK
  <1>15. ASSUME NEW c \in Ids, UnlinkHint(c)
        PROVE  TypeOK'
    BY <1>15 DEF UnlinkHint, RemoveHint, ResetCompactor, TypeOK,
                ControlInv, Unlinking
  <1>16. CASE CompactSnapshot
    BY <1>16 DEF CompactSnapshot, TypeOK
  <1>17. CASE CompactCreate
    BY <1>17, SMTT(30) DEF CompactCreate, CreateSegment, TypeOK
  <1>18. CASE CompactCreateFail
    BY <1>18 DEF CompactCreateFail, ResetCompactor, TypeOK
  <1>19. ASSUME NEW c \in Ids, ScanEntry(c)
        PROVE  TypeOK'
    <2> DEFINE p == scanPos + 1
    <2> DEFINE e == file[c][p]
    <2>1. newSeg \in Ids /\ file \in [Ids -> Seq(Entry)] /\ scanPos \in Nat
      BY <1>19 DEF ScanEntry, ControlInv, TypeOK
    <2>2. p \in DOMAIN file[c] /\ p \in Nat
      BY <1>19, <2>1 DEF ScanEntry
    <2>3. e \in Entry
      BY <2>1, <2>2
    <2>4. Append(file[newSeg], e) \in Seq(Entry) /\ Len(file[newSeg]) + 1 \in Nat
      BY <2>1, <2>3
    <2>5. file' \in [Ids -> Seq(Entry)]
      BY <1>19, <2>1, <2>4 DEF ScanEntry
    <2>6. [key |-> e.key, old |-> [file |-> c, pos |-> p, t |-> e.t],
           new |-> [file |-> newSeg, pos |-> Len(file[newSeg]) + 1, t |-> e.t]] \in Rewrite
      BY <2>1, <2>2, <2>3, <2>4 DEF Rewrite, Loc, Entry
    <2>7. rewrites' \subseteq Rewrite
      BY <1>19, <2>6 DEF ScanEntry, TypeOK
    <2>8. QED
      BY <1>19, <2>2, <2>5, <2>7 DEF ScanEntry, TypeOK
  <1>20. ASSUME NEW c \in Ids, ScanNext(c)
        PROVE  TypeOK'
    BY <1>20 DEF ScanNext, TypeOK
  <1>21. CASE CompactFail
    <2>1. newSeg \in Ids
      BY <1>21 DEF CompactFail, ControlInv, TypeOK
    <2>2. file' \in [Ids -> Seq(Entry)] /\ segFiles' \subseteq Ids
      BY <1>21, <2>1, RemoveType DEF CompactFail
    <2>3. hint' \in [Ids -> SUBSET HintEntry] /\ hintFiles' \subseteq Ids
      <3>1. [hint EXCEPT ![newSeg] = HintOf(rewrites)] \in [Ids -> SUBSET HintEntry]
        BY <2>1, HintType DEF TypeOK
      <3>2. hintFiles \cup {newSeg} \subseteq Ids
        BY <2>1 DEF TypeOK
      <3>3. QED
        BY <1>21, <3>1, <3>2 DEF CompactFail, TypeOK
    <2>4. QED
      BY <1>21, <2>2, <2>3 DEF CompactFail, ResetCompactor, TypeOK
  <1>22. CASE RetireOnly
    <2>1. newSeg \in Ids
      BY <1>22 DEF RetireOnly, ControlInv, TypeOK
    <2>2. file' \in [Ids -> Seq(Entry)] /\ segFiles' \subseteq Ids
      BY <1>22, <2>1, RemoveType DEF RetireOnly
    <2>3. QED
      BY <1>22, <2>1, <2>2 DEF RetireOnly, TypeOK
  <1>23. CASE WriteHintFile
    <2>1. newSeg \in Ids
      BY <1>23 DEF WriteHintFile, ControlInv, TypeOK
    <2>2. hint' \in [Ids -> SUBSET HintEntry] /\ hintFiles' \subseteq Ids
      BY <1>23, <2>1, HintType DEF WriteHintFile, TypeOK
    <2>3. QED
      BY <1>23, <2>2 DEF WriteHintFile, TypeOK
  <1>24. CASE CleanupSegment
    <2>1. CASE newSeg = NoSeg
      BY <1>24, <2>1 DEF CleanupSegment, ResetCompactor, TypeOK
    <2>2. CASE newSeg # NoSeg
      <3>1. newSeg \in Ids
        BY <2>2 DEF TypeOK
      <3>2. file' \in [Ids -> Seq(Entry)] /\ segFiles' \subseteq Ids
        BY <1>24, <2>2, <3>1, RemoveType DEF CleanupSegment
      <3>3. QED
        BY <1>24, <2>2, <3>2 DEF CleanupSegment, TypeOK
    <2>3. QED
      BY <2>1, <2>2
  <1>25. CASE CleanupHint
    BY <1>25 DEF CleanupHint, RemoveHint, ResetCompactor, TypeOK
  <1>26. ASSUME NEW r \in Readers, NEW K \in SUBSET Keys \ {{}}, ReadStart(r, K)
        PROVE  TypeOK'
    <2>1. [keys |-> K, snap |-> keydir, view |-> View] \in
            [keys : SUBSET Keys, snap : [Keys -> Loc],
             view : [Keys -> Values \cup {Tombstone}]]
      BY ViewType DEF TypeOK
    <2>2. rd' \in [Readers -> [keys : SUBSET Keys, snap : [Keys -> Loc],
                              view : [Keys -> Values \cup {Tombstone}]]]
      BY <1>26, <2>1 DEF ReadStart, TypeOK
    <2>3. QED
      BY <1>26, <2>2, SMTT(30) DEF ReadStart, TypeOK
  <1>27. ASSUME NEW r \in Readers, NEW k \in Keys, ReadValue(r, k)
        PROVE  TypeOK'
    <2>1. rd[r] \in [keys : SUBSET Keys, snap : [Keys -> Loc],
                    view : [Keys -> Values \cup {Tombstone}]]
      BY DEF TypeOK
    <2>2. [rd[r] EXCEPT !.keys = rd[r].keys \ {k}] \in
            [keys : SUBSET Keys, snap : [Keys -> Loc],
             view : [Keys -> Values \cup {Tombstone}]]
      BY <2>1
    <2>3. rd' \in [Readers -> [keys : SUBSET Keys, snap : [Keys -> Loc],
                              view : [Keys -> Values \cup {Tombstone}]]]
      BY <1>27, <2>2, IdleReaderType DEF ReadValue, TypeOK
    <2>4. QED
      BY <1>27, <2>3, ZenonT(30) DEF ReadValue, TypeOK
  <1>28. CASE UNCHANGED vars
    BY <1>28, SMTT(30) DEF vars, TypeOK
  <1>29. QED
    BY <1>1, <1>2, <1>3, <1>4, <1>5, <1>6, <1>7, <1>8, <1>9, <1>10, <1>11,
       <1>12, <1>13, <1>14, <1>15, <1>16, <1>17, <1>18, <1>19, <1>20,
       <1>21, <1>22, <1>23, <1>24, <1>25, <1>26, <1>27, <1>28
       DEF Next, Writer, Compactor, Reader

\* No step lets rotation, compaction and the live set disagree about who
\* owns a segment file.
LEMMA OwnershipStep == CoreInv /\ [Next]_vars => OwnershipInv'
  <1> SUFFICES ASSUME TypeOK, ControlInv, OwnershipInv, [Next]_vars
               PROVE  OwnershipInv'
    BY DEF CoreInv
  <1> USE IdFacts DEF TypeOK, ControlInv, OwnershipInv, Publishing, Unlinking
  <1>1. ASSUME NEW ops \in Batches, StartWrite(ops)
        PROVE  OwnershipInv'
    BY <1>1 DEF StartWrite
  <1>2. CASE RotateCreate
    BY <1>2 DEF RotateCreate, CreateSegment
  <1>3. CASE RotateFail
    BY <1>3 DEF RotateFail, FailWrite
  <1>4. CASE RotateManifest
    BY <1>4 DEF RotateManifest, WriteManifest
  <1>5. CASE RotateAbort
    BY <1>5 DEF RotateAbort, RemoveSegment, FailWrite
  <1>6. CASE RotateUncertain
    BY <1>6 DEF RotateUncertain, WriteManifest, FailWrite
  <1>7. CASE RotatePublish
    BY <1>7 DEF RotatePublish
  <1>8. CASE AppendRecord
    BY <1>8 DEF AppendRecord
  <1>9. CASE AppendFail
    BY <1>9 DEF AppendFail, FailWrite
  <1>10. CASE ApplyKeydir
    BY <1>10 DEF ApplyKeydir
  <1>11. CASE CommitManifest
    BY <1>11 DEF CommitManifest, WriteManifest
  <1>12. CASE CommitFail
    BY <1>12 DEF CommitFail
  <1>13. CASE CommitPublish
    BY <1>13, ZenonT(30) DEF CommitPublish, ResetCompactor, Merged
  <1>14. ASSUME NEW c \in Ids, UnlinkSegment(c)
        PROVE  OwnershipInv'
    BY <1>14, ZenonT(30) DEF UnlinkSegment, RemoveSegment, Lowest
  <1>15. ASSUME NEW c \in Ids, UnlinkHint(c)
        PROVE  OwnershipInv'
    BY <1>15 DEF UnlinkHint, RemoveHint, ResetCompactor
  <1>16. CASE CompactSnapshot
    BY <1>16 DEF CompactSnapshot
  <1>17. CASE CompactCreate
    BY <1>17 DEF CompactCreate, CreateSegment
  <1>18. CASE CompactCreateFail
    BY <1>18 DEF CompactCreateFail, ResetCompactor
  <1>19. ASSUME NEW c \in Ids, ScanEntry(c)
        PROVE  OwnershipInv'
    BY <1>19 DEF ScanEntry
  <1>20. ASSUME NEW c \in Ids, ScanNext(c)
        PROVE  OwnershipInv'
    BY <1>20 DEF ScanNext
  <1>21. CASE CompactFail
    <2>1. newSeg \in Ids /\ newSeg \notin segments /\ ~Unlinking /\ ~Publishing
      BY <1>21 DEF CompactFail
    <2>2. segments \subseteq segFiles' /\ segFiles' \subseteq segFiles
      BY <1>21, <2>1 DEF CompactFail, RemoveSegment
    <2>3. next # NoSeg => file'[next] = <<>> /\ next \in segFiles'
      BY <1>21, <2>1 DEF CompactFail, RemoveSegment
    <2>4. QED
      BY <1>21, <2>1, <2>2, <2>3 DEF CompactFail, ResetCompactor
  <1>22. CASE RetireOnly
    <2>1. newSeg \in Ids /\ newSeg \notin segments /\ ~Unlinking /\ ~Publishing
      BY <1>22 DEF RetireOnly
    <2>2. segments \subseteq segFiles' /\ segFiles' \subseteq segFiles
      BY <1>22, <2>1 DEF RetireOnly, RemoveSegment
    <2>3. next # NoSeg => file'[next] = <<>> /\ next \in segFiles'
      BY <1>22, <2>1 DEF RetireOnly, RemoveSegment
    <2>4. QED
      BY <1>22, <2>1, <2>2, <2>3 DEF RetireOnly
  <1>23. CASE WriteHintFile
    BY <1>23 DEF WriteHintFile
  <1>24. CASE CleanupSegment
    BY <1>24, ZenonT(30) DEF CleanupSegment, RemoveSegment, ResetCompactor
  <1>25. CASE CleanupHint
    <2>1. newSeg \in Ids /\ newSeg \notin segments /\ ~Unlinking /\ ~Publishing
      BY <1>25 DEF CleanupHint
    <2>2. UNCHANGED <<file, segFiles, torn, segments, active, nextID, next, wpc>>
      BY <1>25 DEF CleanupHint
    <2>3. QED
      BY <1>25, <2>1, <2>2 DEF CleanupHint, ResetCompactor
  <1>26. ASSUME NEW r \in Readers, NEW K \in SUBSET Keys \ {{}}, ReadStart(r, K)
        PROVE  OwnershipInv'
    BY <1>26 DEF ReadStart
  <1>27. ASSUME NEW r \in Readers, NEW k \in Keys, ReadValue(r, k)
        PROVE  OwnershipInv'
    BY <1>27 DEF ReadValue
  <1>28. CASE UNCHANGED vars
    BY <1>28 DEF vars
  <1>29. QED
    BY <1>1, <1>2, <1>3, <1>4, <1>5, <1>6, <1>7, <1>8, <1>9, <1>10, <1>11,
       <1>12, <1>13, <1>14, <1>15, <1>16, <1>17, <1>18, <1>19, <1>20,
       <1>21, <1>22, <1>23, <1>24, <1>25, <1>26, <1>27, <1>28
       DEF Next, Writer, Compactor, Reader

\* No step, completed or failed, leaves the manifest in a state its control
\* point does not account for.
LEMMA ManifestStep == CoreInv /\ [Next]_vars => ManifestInv'
  <1> SUFFICES ASSUME TypeOK, ControlInv, OwnershipInv, ManifestInv, [Next]_vars
               PROVE  ManifestInv'
    BY DEF CoreInv
  <1> USE IdFacts DEF ControlInv, OwnershipInv, ManifestInv, Publishing, Unlinking, Merged
  <1>0. manifest.active \in Ids
    BY DEF TypeOK
  <1>1. ASSUME NEW ops \in Batches, StartWrite(ops)
        PROVE  ManifestInv'
    BY <1>1 DEF StartWrite
  <1>2. CASE RotateCreate
    BY <1>2 DEF RotateCreate, CreateSegment
  <1>3. CASE RotateFail
    BY <1>3 DEF RotateFail, FailWrite
  <1>4. CASE RotateManifest
    BY <1>4 DEF RotateManifest, WriteManifest
  <1>5. CASE RotateAbort
    BY <1>5 DEF RotateAbort, RemoveSegment, FailWrite
  <1>6. CASE RotateUncertain
    BY <1>6 DEF RotateUncertain, WriteManifest, FailWrite
  <1>7. CASE RotatePublish
    BY <1>7 DEF RotatePublish
  <1>8. CASE AppendRecord
    BY <1>8 DEF AppendRecord
  <1>9. CASE AppendFail
    BY <1>9 DEF AppendFail, FailWrite
  <1>10. CASE ApplyKeydir
    BY <1>10 DEF ApplyKeydir
  <1>11. CASE CommitManifest
    BY <1>11 DEF CommitManifest, WriteManifest
  <1>12. CASE CommitFail
    BY <1>12 DEF CommitFail
  <1>13. CASE CommitPublish
    BY <1>13 DEF CommitPublish, ResetCompactor
  <1>14. ASSUME NEW c \in Ids, UnlinkSegment(c)
        PROVE  ManifestInv'
    BY <1>14 DEF UnlinkSegment, RemoveSegment
  <1>15. ASSUME NEW c \in Ids, UnlinkHint(c)
        PROVE  ManifestInv'
    BY <1>15 DEF UnlinkHint, RemoveHint, ResetCompactor
  <1>16. CASE CompactSnapshot
    BY <1>16 DEF CompactSnapshot
  <1>17. CASE CompactCreate
    BY <1>17 DEF CompactCreate, CreateSegment
  <1>18. CASE CompactCreateFail
    BY <1>18 DEF CompactCreateFail, ResetCompactor
  <1>19. ASSUME NEW c \in Ids, ScanEntry(c)
        PROVE  ManifestInv'
    BY <1>19 DEF ScanEntry
  <1>20. ASSUME NEW c \in Ids, ScanNext(c)
        PROVE  ManifestInv'
    BY <1>20 DEF ScanNext
  <1>21. CASE CompactFail
    BY <1>0, <1>21 DEF CompactFail, RemoveSegment, ResetCompactor
  <1>22. CASE RetireOnly
    BY <1>0, <1>22 DEF RetireOnly, RemoveSegment
  <1>23. CASE WriteHintFile
    BY <1>23 DEF WriteHintFile
  <1>24. CASE CleanupSegment
    BY <1>24 DEF CleanupSegment, RemoveSegment, ResetCompactor
  <1>25. CASE CleanupHint
    BY <1>0, <1>25 DEF CleanupHint, RemoveHint, ResetCompactor
  <1>26. ASSUME NEW r \in Readers, NEW K \in SUBSET Keys \ {{}}, ReadStart(r, K)
        PROVE  ManifestInv'
    BY <1>26 DEF ReadStart
  <1>27. ASSUME NEW r \in Readers, NEW k \in Keys, ReadValue(r, k)
        PROVE  ManifestInv'
    BY <1>27 DEF ReadValue
  <1>28. CASE UNCHANGED vars
    BY <1>28 DEF vars
  <1>29. QED
    BY <1>1, <1>2, <1>3, <1>4, <1>5, <1>6, <1>7, <1>8, <1>9, <1>10, <1>11,
       <1>12, <1>13, <1>14, <1>15, <1>16, <1>17, <1>18, <1>19, <1>20,
       <1>21, <1>22, <1>23, <1>24, <1>25, <1>26, <1>27, <1>28
       DEF Next, Writer, Compactor, Reader

----------------------------------------------------------------------------
(* Live segments only grow, but for the commit of a compaction.            *)

\* What this step leaves of the live segments.
Grows ==
  /\ segments \subseteq segments'
  /\ \A i \in segments :
       /\ DOMAIN file[i] \subseteq DOMAIN file'[i]
       /\ \A p \in DOMAIN file[i] : file'[i][p] = file[i][p]
       /\ i # active \/ ~AppendRecord => file'[i] = file[i]

\* Only the publication of a compaction takes segments out of the live set
\* or moves what lies in them; every other step at most appends.
LEMMA GrowsStep ==
  ASSUME TypeOK, ControlInv, OwnershipInv, [Next]_vars
  PROVE  CommitPublish \/ Grows
  <1> USE IdFacts DEF Grows
  <1>0. segments \subseteq Ids /\ file \in [Ids -> Seq(Entry)]
    BY DEF TypeOK
  <1>1. ASSUME NEW ops \in Batches, StartWrite(ops)
        PROVE  CommitPublish \/ Grows
    BY <1>1 DEF StartWrite
  <1>2. CASE RotateCreate
    BY <1>0, <1>2 DEF RotateCreate, CreateSegment, OwnershipInv
  <1>3. CASE RotateFail
    BY <1>3 DEF RotateFail, FailWrite
  <1>4. CASE RotateManifest
    BY <1>4 DEF RotateManifest, WriteManifest
  <1>5. CASE RotateAbort
    <2>1. next \in Ids \ segments
      BY <1>5 DEF RotateAbort, TypeOK, ControlInv, OwnershipInv, Publishing, Unlinking
    <2>2. QED
      BY <1>0, <1>5, <2>1 DEF RotateAbort, RemoveSegment
  <1>6. CASE RotateUncertain
    BY <1>6 DEF RotateUncertain, WriteManifest, FailWrite
  <1>7. CASE RotatePublish
    BY <1>7 DEF RotatePublish
  <1>8. CASE AppendRecord
    <2>1. wreq \in Batches /\ active \in Ids
      BY <1>8 DEF AppendRecord, ControlInv, TypeOK
    <2>2. file[active] \in Seq(Entry) /\ EntriesOf(wreq) \in Seq(Entry)
      BY <2>1, <1>0, EntriesType
    <2>3. file'[active] = file[active] \o EntriesOf(wreq)
      BY <1>0, <1>8, <2>1 DEF AppendRecord
    <2>4. /\ DOMAIN file[active] \subseteq DOMAIN file'[active]
          /\ \A p \in DOMAIN file[active] : file'[active][p] = file[active][p]
      BY <2>2, <2>3
    <2>5. \A i \in segments \ {active} : file'[i] = file[i]
      BY <1>0, <1>8 DEF AppendRecord
    <2>6. QED
      BY <1>8, <2>4, <2>5 DEF AppendRecord
  <1>9. CASE AppendFail
    BY <1>9 DEF AppendFail, FailWrite
  <1>10. CASE ApplyKeydir
    BY <1>10 DEF ApplyKeydir
  <1>11. CASE CommitManifest
    BY <1>11 DEF CommitManifest, WriteManifest
  <1>12. CASE CommitFail
    BY <1>12 DEF CommitFail
  <1>13. CASE CommitPublish
    BY <1>13
  <1>14. ASSUME NEW c \in Ids, UnlinkSegment(c)
        PROVE  CommitPublish \/ Grows
    <2>1. c \in Ids \ segments
      BY <1>14 DEF UnlinkSegment, TypeOK, ControlInv, OwnershipInv, Publishing, Unlinking, Lowest
    <2>2. QED
      BY <1>0, <1>14, <2>1 DEF UnlinkSegment, RemoveSegment
  <1>15. ASSUME NEW c \in Ids, UnlinkHint(c)
        PROVE  CommitPublish \/ Grows
    BY <1>15 DEF UnlinkHint, RemoveHint, ResetCompactor
  <1>16. CASE CompactSnapshot
    BY <1>16 DEF CompactSnapshot
  <1>17. CASE CompactCreate
    BY <1>0, <1>17 DEF CompactCreate, CreateSegment, OwnershipInv
  <1>18. CASE CompactCreateFail
    BY <1>18 DEF CompactCreateFail, ResetCompactor
  <1>19. ASSUME NEW c \in Ids, ScanEntry(c)
        PROVE  CommitPublish \/ Grows
    <2>1. newSeg \notin segments
      BY <1>19 DEF ScanEntry, ControlInv, OwnershipInv, Publishing, Unlinking
    <2>2. \A i \in segments : file'[i] = file[i]
      BY <1>0, <1>19, <2>1 DEF ScanEntry
    <2>3. QED
      BY <1>19, <2>2 DEF ScanEntry
  <1>20. ASSUME NEW c \in Ids, ScanNext(c)
        PROVE  CommitPublish \/ Grows
    BY <1>20 DEF ScanNext
  <1>21. CASE CompactFail
    <2>1. newSeg \in Ids \ segments
      BY <1>21 DEF CompactFail, TypeOK, ControlInv, OwnershipInv, Publishing, Unlinking
    <2>2. QED
      BY <1>0, <1>21, <2>1 DEF CompactFail, RemoveSegment
  <1>22. CASE RetireOnly
    <2>1. newSeg \in Ids \ segments
      BY <1>22 DEF RetireOnly, TypeOK, ControlInv, OwnershipInv, Publishing, Unlinking
    <2>2. QED
      BY <1>0, <1>22, <2>1 DEF RetireOnly, RemoveSegment
  <1>23. CASE WriteHintFile
    BY <1>23 DEF WriteHintFile
  <1>24. CASE CleanupSegment
    <2>1. newSeg # NoSeg => newSeg \in Ids \ segments
      BY <1>24 DEF CleanupSegment, TypeOK, ControlInv, OwnershipInv, Publishing, Unlinking
    <2>2. QED
      BY <1>0, <1>24, <2>1 DEF CleanupSegment, RemoveSegment
  <1>25. CASE CleanupHint
    BY <1>25 DEF CleanupHint, RemoveHint, ResetCompactor
  <1>26. ASSUME NEW r \in Readers, NEW K \in SUBSET Keys \ {{}}, ReadStart(r, K)
        PROVE  CommitPublish \/ Grows
    BY <1>26 DEF ReadStart
  <1>27. ASSUME NEW r \in Readers, NEW k \in Keys, ReadValue(r, k)
        PROVE  CommitPublish \/ Grows
    BY <1>27 DEF ReadValue
  <1>28. CASE UNCHANGED vars
    BY <1>28 DEF vars
  <1>29. QED
    BY <1>1, <1>2, <1>3, <1>4, <1>5, <1>6, <1>7, <1>8, <1>9, <1>10, <1>11,
       <1>12, <1>13, <1>14, <1>15, <1>16, <1>17, <1>18, <1>19, <1>20,
       <1>21, <1>22, <1>23, <1>24, <1>25, <1>26, <1>27, <1>28
       DEF Next, Writer, Compactor, Reader

----------------------------------------------------------------------------
(* Only three kinds of steps touch the keydir or a reader's snapshot.      *)

\* Only a write's last step and a compaction's publication change the keydir.
LEMMA KeydirFrame ==
  ASSUME [Next]_vars
  PROVE  ApplyKeydir \/ CommitPublish \/ keydir' = keydir
  BY DEF vars, Next, Writer, Compactor, Reader, StartWrite, RotateCreate,
         RotateFail, RotateManifest, RotateAbort, RotateUncertain,
         RotatePublish, AppendRecord, AppendFail, CommitManifest,
         CommitFail, UnlinkSegment, UnlinkHint, CompactSnapshot,
         CompactCreate, CompactCreateFail, ScanEntry, ScanNext,
         CompactFail, RetireOnly, WriteHintFile, CleanupSegment,
         CleanupHint, ReadStart, ReadValue

\* Only a reader's own steps change its snapshot.
LEMMA ReaderFrame ==
  ASSUME [Next]_vars
  PROVE  \/ rd' = rd
         \/ \E r \in Readers : \E K \in SUBSET Keys \ {{}} : ReadStart(r, K)
         \/ \E r \in Readers : \E k \in Keys : ReadValue(r, k)
  BY DEF vars, Next, Writer, Compactor, Reader, StartWrite, RotateCreate,
         RotateFail, RotateManifest, RotateAbort, RotateUncertain,
         RotatePublish, AppendRecord, AppendFail, ApplyKeydir,
         CommitManifest, CommitFail, CommitPublish, UnlinkSegment,
         UnlinkHint, CompactSnapshot, CompactCreate, CompactCreateFail,
         ScanEntry, ScanNext, CompactFail, RetireOnly, WriteHintFile,
         CleanupSegment, CleanupHint

\* An operation that was just appended is where LocOf says.
LEMMA AppendedEntry ==
  ASSUME TypeOK, AppendedInv, wpc = "keydir", wreq \in Batches,
         NEW i \in DOMAIN wreq
  PROVE  file[active][LocOf(wreq, i).pos] =
            [key |-> wreq[i].key, val |-> wreq[i].val, t |-> lastTstamp]
  <1>1. i \in 1 .. Len(wreq)
    BY RequestFacts
  <1>2. file[active][LocOf(wreq, i).pos] = EntriesOf(wreq)[i]
    BY <1>1 DEF AppendedInv, LocOf
  <1>3. QED
    BY <1>2 DEF EntriesOf

\* At the commit, a keydir entry either is rewritten or lies outside the
\* candidates: nothing current is dropped.
LEMMA CommitCovers ==
  ASSUME IndInv, Publishing, NEW k \in Keys, keydir[k] # NoEntry
  PROVE  \/ /\ SwapAll[k] = keydir[k]
            /\ keydir[k].file \in segments \ candidates
         \/ \E r \in rewrites :
               /\ r.key = k
               /\ r.old = keydir[k]
               /\ SwapAll[k] = r.new
               /\ RewriteOK(r)
               /\ newSeg \in Ids \ candidates
  <1> USE DEF IndInv, CoreInv, DataInv
  <1>1. todo = {} /\ Pending /\ ~Unlinking
    BY DEF ControlInv, Pending, Publishing, Unlinking
  <1>2. keydir[k].file \in segments
    BY DEF KeydirResolves, Locates, Resolves
  <1>3. keydir[k].file \in candidates =>
          \E r \in rewrites : r.key = k /\ r.old = keydir[k]
    BY <1>1 DEF CoverageInv, Unscanned
  <1>4. CASE \A r \in rewrites : ~(r.key = k /\ r.old = keydir[k])
    BY <1>2, <1>3, <1>4, SwapFacts
  <1>5. CASE \E r \in rewrites : r.key = k /\ r.old = keydir[k]
    <2>1. PICK r \in rewrites : r.key = k /\ r.old = keydir[k] /\ SwapAll[k] = r.new
      BY <1>5, SwapFacts
    <2>2. RewriteOK(r)
      BY <1>1 DEF RewritesInv
    <2>3. newSeg # NoSeg
      BY <2>1 DEF ControlInv
    <2>4. newSeg \in Ids \ candidates
      BY <2>3 DEF OwnershipInv, TypeOK
    <2>5. QED
      BY <2>1, <2>2, <2>4
  <1>6. QED
    BY <1>4, <1>5

\* A rewrite leads from a real entry, so the commit gives nothing to a key
\* that has no value.
LEMMA AbsentStays ==
  ASSUME IndInv, Publishing, NEW k \in Keys, keydir[k] = NoEntry
  PROVE  SwapAll[k] = NoEntry
  <1> USE DEF IndInv, CoreInv, DataInv
  <1>1. \A r \in rewrites : RewriteOK(r)
    BY DEF RewritesInv, Pending
  <1>2. \A r \in rewrites : r.old.file \in Ids /\ r.old.pos \in DOMAIN file[r.old.file]
    BY <1>1 DEF RewriteOK, TypeOK, Rewrite, Loc
  <1>3. \A r \in rewrites : r.old.pos # 0
    BY <1>2, FileEntry
  <1>4. QED
    BY <1>3, SwapFacts DEF NoEntry

\* No step leaves a keydir entry that leads nowhere.
LEMMA KeydirStep == IndInv /\ [Next]_vars => KeydirResolves'
  <1> SUFFICES ASSUME IndInv, [Next]_vars
               PROVE  KeydirResolves'
    OBVIOUS
  <1> USE DEF IndInv, CoreInv, DataInv
  <1>1. CASE ApplyKeydir
    <2>1. wpc = "keydir" /\ wreq \in Batches /\ active \in segments
      BY <1>1 DEF ApplyKeydir, ControlInv, OwnershipInv
    <2> SUFFICES ASSUME NEW k \in Keys
                 PROVE  (keydir[k] = NoEntry \/ Locates(keydir[k], k))'
      BY DEF KeydirResolves
    <2>2. UNCHANGED <<file, segments>> /\ keydir'[k] = ApplyBatch(wreq)[k]
      BY <1>1 DEF ApplyKeydir
    <2>3. CASE ~Store!Touches(wreq, k)
      <3>1. keydir'[k] = keydir[k]
        BY <2>2, <2>3 DEF ApplyBatch
      <3>2. QED
        BY <2>2, <3>1 DEF KeydirResolves, Locates, Resolves
    <2>4. CASE Store!Touches(wreq, k)
      <3> DEFINE i == Store!LastOp(wreq, k)
      <3>1. i \in DOMAIN wreq /\ wreq[i].key = k
        BY <2>1, <2>4, LastOpFacts
      <3>2. keydir'[k] = IF wreq[i].val = Tombstone THEN NoEntry ELSE LocOf(wreq, i)
        BY <2>2, <2>4 DEF ApplyBatch
      <3>3. /\ LocOf(wreq, i).pos \in DOMAIN file[active]
            /\ file[active][LocOf(wreq, i).pos] =
                 [key |-> wreq[i].key, val |-> wreq[i].val, t |-> lastTstamp]
        BY <2>1, <3>1, LocType, AppendedEntry
      <3>4. LocOf(wreq, i).file = active /\ LocOf(wreq, i).t = lastTstamp
        BY DEF LocOf
      <3> HIDE DEF i
      <3>5. QED
        BY <2>1, <2>2, <3>1, <3>2, <3>3, <3>4 DEF Locates, Resolves
    <2>5. QED
      BY <2>3, <2>4
  <1>2. CASE CommitPublish
    <2>1. Publishing
      BY <1>2 DEF CommitPublish, Publishing
    <2> SUFFICES ASSUME NEW k \in Keys
                 PROVE  (keydir[k] = NoEntry \/ Locates(keydir[k], k))'
      BY DEF KeydirResolves
    <2>2. /\ file' = file
          /\ segments' = (segments \cup Merged) \ candidates
          /\ keydir'[k] = SwapAll[k]
      BY <1>2 DEF CommitPublish
    <2>3. CASE keydir[k] = NoEntry
      BY <2>1, <2>2, <2>3, AbsentStays
    <2>4. CASE /\ keydir[k] # NoEntry
               /\ SwapAll[k] = keydir[k]
               /\ keydir[k].file \in segments \ candidates
      BY <2>2, <2>4 DEF KeydirResolves, Locates, Resolves
    <2>5. ASSUME NEW r \in rewrites, r.key = k, SwapAll[k] = r.new, RewriteOK(r),
                 newSeg \in Ids \ candidates
          PROVE  Locates(keydir[k], k)'
      <3>1. newSeg \in segments'
        BY <2>2, <2>5, IdFacts DEF Merged
      <3>2. QED
        BY <2>2, <2>5, <3>1 DEF RewriteOK, Locates, Resolves
    <2>6. QED
      BY <2>1, <2>3, <2>4, <2>5, CommitCovers
  <1>3. CASE keydir' = keydir /\ ~CommitPublish
    <2>1. Grows
      BY <1>3, GrowsStep
    <2>2. QED
      BY <1>3, <2>1 DEF Grows, KeydirResolves, Locates, Resolves
  <1>4. QED
    BY <1>1, <1>2, <1>3, KeydirFrame

\* From append to keydir update the record in hand stays at the end of the
\* active file.
LEMMA AppendedStep == CoreInv /\ [Next]_vars => AppendedInv'
  <1> SUFFICES ASSUME TypeOK, ControlInv, OwnershipInv, AppendedInv, [Next]_vars
               PROVE  AppendedInv'
    BY DEF CoreInv
  <1>0. active \in Ids /\ file \in [Ids -> Seq(Entry)] /\ active # NoSeg
    BY IdFacts DEF TypeOK
  <1>1. ASSUME NEW ops \in Batches, StartWrite(ops)
        PROVE  AppendedInv'
    BY <1>1 DEF StartWrite, AppendedInv, EntriesOf
  <1>2. CASE RotateCreate
    BY <1>2 DEF RotateCreate, CreateSegment, AppendedInv, EntriesOf
  <1>3. CASE RotateFail
    BY <1>3 DEF RotateFail, FailWrite, AppendedInv, EntriesOf
  <1>4. CASE RotateManifest
    BY <1>4 DEF RotateManifest, WriteManifest, AppendedInv, EntriesOf
  <1>5. CASE RotateAbort
    BY <1>5 DEF RotateAbort, RemoveSegment, FailWrite, AppendedInv,
       EntriesOf
  <1>6. CASE RotateUncertain
    BY <1>6 DEF RotateUncertain, WriteManifest, FailWrite, AppendedInv,
       EntriesOf
  <1>7. CASE RotatePublish
    BY <1>7 DEF RotatePublish, AppendedInv, EntriesOf
  <1>8. CASE AppendRecord
    <2>1. wreq \in Batches /\ active \in Ids /\ file \in [Ids -> Seq(Entry)]
      BY <1>8 DEF AppendRecord, ControlInv, TypeOK
    <2> DEFINE s == file[active]
    <2> DEFINE u == EntriesOf(wreq)
    <2>2. s \in Seq(Entry) /\ u \in Seq(Entry) /\ Len(u) = Len(wreq)
      BY <2>1, EntriesType
    <2>3. file'[active] = s \o u
      BY <1>8, <2>1 DEF AppendRecord
    <2>4. UNCHANGED <<active, wreq, lastTstamp>>
      BY <1>8 DEF AppendRecord
    <2>5. EntriesOf(wreq)' = u
      BY <2>4 DEF EntriesOf
    <2>6. Len(s \o u) = Len(s) + Len(u) /\ Len(s) \in Nat /\ Len(u) \in Nat
      BY <2>2, SMTT(30)
    <2>7. \A i \in 1 .. Len(u) : (s \o u)[Len(s) + i] = u[i]
      BY <2>2
    <2>8. /\ (Len(wreq) <= Len(file[active]))'
          /\ \A i \in 1 .. Len(u) :
               Len(file'[active]) - Len(wreq) + i = Len(s) + i
      BY <2>2, <2>3, <2>4, <2>6
    <2>9. \A i \in 1 .. Len(wreq) :
            file'[active][Len(file'[active]) - Len(wreq) + i] = u[i]
      BY <2>2, <2>3, <2>7, <2>8
    <2> HIDE DEF s, u
    <2>10. QED
      BY <2>4, <2>5, <2>8, <2>9 DEF AppendedInv
  <1>9. CASE AppendFail
    BY <1>9 DEF AppendFail, FailWrite, AppendedInv, EntriesOf
  <1>10. CASE ApplyKeydir
    BY <1>10 DEF ApplyKeydir, AppendedInv, EntriesOf
  <1>11. CASE CommitManifest
    BY <1>11 DEF CommitManifest, WriteManifest, AppendedInv, EntriesOf
  <1>12. CASE CommitFail
    BY <1>12 DEF CommitFail, AppendedInv, EntriesOf
  <1>13. CASE CommitPublish
    BY <1>13 DEF CommitPublish, ResetCompactor, AppendedInv, EntriesOf
  <1>14. ASSUME NEW c \in Ids, UnlinkSegment(c)
        PROVE  AppendedInv'
    BY <1>14 DEF UnlinkSegment, RemoveSegment, AppendedInv, EntriesOf
  <1>15. ASSUME NEW c \in Ids, UnlinkHint(c)
        PROVE  AppendedInv'
    BY <1>15 DEF UnlinkHint, RemoveHint, ResetCompactor, AppendedInv,
       EntriesOf
  <1>16. CASE CompactSnapshot
    BY <1>16 DEF CompactSnapshot, AppendedInv, EntriesOf
  <1>17. CASE CompactCreate
    <2>1. file'[active] = file[active]
      BY <1>0, <1>17 DEF CompactCreate, CreateSegment, OwnershipInv
    <2>2. QED
      BY <1>17, <2>1 DEF CompactCreate, AppendedInv, EntriesOf
  <1>18. CASE CompactCreateFail
    BY <1>18 DEF CompactCreateFail, ResetCompactor, AppendedInv, EntriesOf
  <1>19. ASSUME NEW c \in Ids, ScanEntry(c)
        PROVE  AppendedInv'
    <2>1. newSeg # active
      BY <1>19, <1>0 DEF ScanEntry, ControlInv, OwnershipInv
    <2>2. file'[active] = file[active]
      BY <1>0, <1>19, <2>1 DEF ScanEntry, RemoveSegment
    <2>3. QED
      BY <1>19, <2>2 DEF ScanEntry, AppendedInv, EntriesOf
  <1>20. ASSUME NEW c \in Ids, ScanNext(c)
        PROVE  AppendedInv'
    BY <1>20, ZenonT(30) DEF ScanNext, AppendedInv, EntriesOf
  <1>21. CASE CompactFail
    <2>1. newSeg # active
      BY <1>21, <1>0 DEF CompactFail, ControlInv, OwnershipInv
    <2>2. file'[active] = file[active]
      BY <1>0, <1>21, <2>1 DEF CompactFail, RemoveSegment
    <2>3. QED
      BY <1>21, <2>2 DEF CompactFail, AppendedInv, EntriesOf, ResetCompactor
  <1>22. CASE RetireOnly
    <2>1. newSeg # active
      BY <1>22, <1>0 DEF RetireOnly, ControlInv, OwnershipInv
    <2>2. file'[active] = file[active]
      BY <1>0, <1>22, <2>1 DEF RetireOnly, RemoveSegment
    <2>3. QED
      BY <1>22, <2>2 DEF RetireOnly, AppendedInv, EntriesOf
  <1>23. CASE WriteHintFile
    BY <1>23 DEF WriteHintFile, AppendedInv, EntriesOf
  <1>24. CASE CleanupSegment
    <2>1. newSeg # active
      BY <1>24, <1>0 DEF CleanupSegment, ControlInv, OwnershipInv
    <2>2. file'[active] = file[active]
      BY <1>0, <1>24, <2>1 DEF CleanupSegment, RemoveSegment
    <2>3. QED
      BY <1>24, <2>2 DEF CleanupSegment, AppendedInv, EntriesOf, ResetCompactor
  <1>25. CASE CleanupHint
    BY <1>25 DEF CleanupHint, RemoveHint, ResetCompactor, AppendedInv,
       EntriesOf
  <1>26. ASSUME NEW r \in Readers, NEW K \in SUBSET Keys \ {{}}, ReadStart(r, K)
        PROVE  AppendedInv'
    BY <1>26 DEF ReadStart, AppendedInv, EntriesOf
  <1>27. ASSUME NEW r \in Readers, NEW k \in Keys, ReadValue(r, k)
        PROVE  AppendedInv'
    BY <1>27 DEF ReadValue, AppendedInv, EntriesOf
  <1>28. CASE UNCHANGED vars
    BY <1>28, ZenonT(30) DEF vars, AppendedInv, EntriesOf
  <1>29. QED
    BY <1>1, <1>2, <1>3, <1>4, <1>5, <1>6, <1>7, <1>8, <1>9, <1>10, <1>11,
       <1>12, <1>13, <1>14, <1>15, <1>16, <1>17, <1>18, <1>19, <1>20,
       <1>21, <1>22, <1>23, <1>24, <1>25, <1>26, <1>27, <1>28
       DEF Next, Writer, Compactor, Reader

\* Every rewrite keeps leading from a PUT of a candidate to its copy.
LEMMA RewritesStep == IndInv /\ [Next]_vars => RewritesInv'
  <1> SUFFICES ASSUME TypeOK, ControlInv, OwnershipInv, RewritesInv, [Next]_vars
               PROVE  RewritesInv'
    BY DEF IndInv, CoreInv, DataInv
  <1>0. /\ file \in [Ids -> Seq(Entry)]
        /\ candidates \subseteq Ids /\ todo \subseteq candidates
        /\ newSeg \in Ids \cup {NoSeg} /\ NoSeg \notin Ids
        /\ segments \subseteq segFiles
        /\ active \in Ids /\ nextID \in Nat
    BY IdFacts DEF TypeOK, OwnershipInv
  <1>1. newSeg = NoSeg => rewrites = {}
    BY DEF ControlInv
  <1>31. ASSUME NEW ops \in Batches, StartWrite(ops)
        PROVE  RewritesInv'
    BY <1>31 DEF StartWrite, RewritesInv, RewriteOK, Pending, Publishing
  <1>2. CASE RotateCreate
    <2>1. nextID \notin candidates /\ nextID # newSeg
      BY <1>0, <1>2 DEF RotateCreate, CreateSegment, ControlInv, OwnershipInv, Publishing, Unlinking
    <2>2. \A i \in candidates \cup Merged : file'[i] = file[i]
      BY <1>0, <1>2, <2>1 DEF RotateCreate, CreateSegment, RemoveSegment, Merged
    <2>3. newSeg # NoSeg => file'[newSeg] = file[newSeg]
      BY <2>2 DEF Merged
    <2>4. UNCHANGED <<rewrites, candidates, newSeg, cpc>> /\ ~Publishing /\ ~Publishing'
      BY <1>2 DEF RotateCreate, FailWrite, Publishing
    <2>5. QED
      BY <1>1, <2>2, <2>3, <2>4 DEF RewritesInv, RewriteOK, Pending
  <1>3. CASE RotateFail
    BY <1>3 DEF RotateFail, FailWrite, RewritesInv, RewriteOK, Pending,
       Publishing
  <1>4. CASE RotateManifest
    BY <1>4 DEF RotateManifest, WriteManifest, RewritesInv, RewriteOK,
       Pending, Publishing
  <1>5. CASE RotateAbort
    <2>1. next \notin candidates /\ next # newSeg
      BY <1>0, <1>5 DEF RotateAbort, CreateSegment, ControlInv, OwnershipInv, Publishing, Unlinking
    <2>2. \A i \in candidates \cup Merged : file'[i] = file[i]
      BY <1>0, <1>5, <2>1 DEF RotateAbort, CreateSegment, RemoveSegment, Merged
    <2>3. newSeg # NoSeg => file'[newSeg] = file[newSeg]
      BY <2>2 DEF Merged
    <2>4. UNCHANGED <<rewrites, candidates, newSeg, cpc>> /\ ~Publishing /\ ~Publishing'
      BY <1>5 DEF RotateAbort, FailWrite, Publishing
    <2>5. QED
      BY <1>1, <2>2, <2>3, <2>4 DEF RewritesInv, RewriteOK, Pending
  <1>6. CASE RotateUncertain
    BY <1>6 DEF RotateUncertain, WriteManifest, FailWrite, RewritesInv,
       RewriteOK, Pending, Publishing
  <1>7. CASE RotatePublish
    BY <1>7 DEF RotatePublish, RewritesInv, RewriteOK, Pending, Publishing
  <1>8. CASE AppendRecord
    <2>1. active \notin candidates /\ active # newSeg
      BY <1>0, <1>8 DEF AppendRecord, CreateSegment, ControlInv, OwnershipInv, Publishing, Unlinking
    <2>2. \A i \in candidates \cup Merged : file'[i] = file[i]
      BY <1>0, <1>8, <2>1 DEF AppendRecord, CreateSegment, RemoveSegment, Merged
    <2>3. newSeg # NoSeg => file'[newSeg] = file[newSeg]
      BY <2>2 DEF Merged
    <2>4. UNCHANGED <<rewrites, candidates, newSeg, cpc>> /\ ~Publishing /\ ~Publishing'
      BY <1>8 DEF AppendRecord, FailWrite, Publishing
    <2>5. QED
      BY <1>1, <2>2, <2>3, <2>4 DEF RewritesInv, RewriteOK, Pending
  <1>9. CASE AppendFail
    BY <1>9 DEF AppendFail, FailWrite, RewritesInv, RewriteOK, Pending,
       Publishing
  <1>10. CASE ApplyKeydir
    BY <1>10 DEF ApplyKeydir, RewritesInv, RewriteOK, Pending, Publishing
  <1>11. CASE CommitManifest
    BY <1>11 DEF CommitManifest, WriteManifest, RewritesInv, RewriteOK,
       Pending, Publishing
  <1>12. CASE CommitFail
    BY <1>12 DEF CommitFail, RewritesInv, RewriteOK, Pending, Publishing
  <1>13. CASE CommitPublish
    BY <1>13 DEF CommitPublish, ResetCompactor, ControlInv, RewritesInv, Pending,
       Publishing, Unlinking
  <1>14. ASSUME NEW c \in Ids, UnlinkSegment(c)
        PROVE  RewritesInv'
    BY <1>14 DEF UnlinkSegment, ControlInv, RewritesInv, Pending, Publishing, Unlinking
  <1>15. ASSUME NEW c \in Ids, UnlinkHint(c)
        PROVE  RewritesInv'
    BY <1>15 DEF UnlinkHint, ResetCompactor, ControlInv, RewritesInv, Pending,
       Publishing, Unlinking
  <1>16. CASE CompactSnapshot
    BY <1>16 DEF CompactSnapshot, ControlInv, RewritesInv
  <1>17. CASE CompactCreate
    BY <1>17 DEF CompactCreate, ControlInv, RewritesInv
  <1>18. CASE CompactCreateFail
    BY <1>18 DEF CompactCreateFail, ResetCompactor, ControlInv, RewritesInv, Pending,
       Publishing, Unlinking
  <1>19. ASSUME NEW c \in Ids, ScanEntry(c)
        PROVE  RewritesInv'
    <2> DEFINE p == scanPos + 1
    <2> DEFINE e == file[c][p]
    <2>1. /\ newSeg \in Ids /\ newSeg \notin candidates
          /\ c \in candidates /\ scanPos \in Nat
          /\ file[c] \in Seq(Entry) /\ file[newSeg] \in Seq(Entry)
      BY <1>0, <1>19 DEF ScanEntry, Lowest, TypeOK, ControlInv, OwnershipInv
    <2>2. p \in DOMAIN file[c]
      BY <1>19, <2>1 DEF ScanEntry
    <2>3. UNCHANGED <<candidates, newSeg, cpc, wpc>>
      BY <1>19 DEF ScanEntry
    <2>4. CASE ~IsLive(c, p)
      <3>1. UNCHANGED <<file, rewrites>>
        BY <1>19, <2>4 DEF ScanEntry
      <3>2. QED
        BY <2>3, <3>1 DEF RewritesInv, RewriteOK, Pending, Publishing
    <2>5. CASE IsLive(c, p)
      <3>0. PICK n : n = [key |-> e.key, old |-> [file |-> c, pos |-> p, t |-> e.t],
                          new |-> [file |-> newSeg, pos |-> Len(file[newSeg]) + 1,
                                   t |-> e.t]]
        OBVIOUS
      <3>1. /\ file' = [file EXCEPT ![newSeg] = Append(@, e)]
            /\ rewrites' = rewrites \cup {n}
        BY <1>19, <2>5, <3>0 DEF ScanEntry
      <3>2. \A i \in candidates : file'[i] = file[i]
        BY <1>0, <2>1, <3>1
      <3>3. file'[newSeg] = Append(file[newSeg], e)
        BY <1>0, <2>1, <3>1
      <3>4. /\ DOMAIN file[newSeg] \subseteq DOMAIN file'[newSeg]
            /\ \A x \in DOMAIN file[newSeg] : file'[newSeg][x] = file[newSeg][x]
            /\ Len(file[newSeg]) + 1 \in DOMAIN file'[newSeg]
            /\ file'[newSeg][Len(file[newSeg]) + 1] = e
        BY <2>1, <3>3
      <3>5. \A r \in rewrites : RewriteOK(r)
        BY <1>19 DEF ScanEntry, RewritesInv, Pending
      <3>6. \A r \in rewrites : RewriteOK(r)'
        BY <2>3, <3>2, <3>4, <3>5 DEF RewriteOK
      <3>7. e.val # Tombstone
        BY <2>5 DEF IsLive
      <3>8. /\ n.key = e.key /\ n.old.file = c /\ n.old.pos = p
            /\ n.new.file = newSeg /\ n.new.pos = Len(file[newSeg]) + 1
            /\ n.new.t = e.t
        BY <3>0
      <3>9. RewriteOK(n)'
        <4>1. newSeg' = newSeg /\ c \in candidates' /\ file'[c] = file[c]
          BY <2>1, <2>3, <3>2
        <4>2. QED
          BY <2>2, <3>4, <3>7, <3>8, <4>1 DEF RewriteOK
      <3>10. QED
        BY <3>1, <3>6, <3>9 DEF RewritesInv
    <2>6. QED
      BY <2>4, <2>5
  <1>20. ASSUME NEW c \in Ids, ScanNext(c)
        PROVE  RewritesInv'
    BY <1>20 DEF ScanNext, RewritesInv, RewriteOK, Pending, Publishing
  <1>21. CASE CompactFail
    BY <1>21 DEF CompactFail, ResetCompactor, ControlInv, RewritesInv, Pending,
       Publishing, Unlinking
  <1>22. CASE RetireOnly
    BY <1>22 DEF RetireOnly, RewritesInv
  <1>23. CASE WriteHintFile
    BY <1>23 DEF WriteHintFile, RewritesInv, RewriteOK, Pending, Publishing
  <1>24. CASE CleanupSegment
    BY <1>24 DEF CleanupSegment, ResetCompactor, ControlInv, RewritesInv, Pending,
       Publishing, Unlinking
  <1>25. CASE CleanupHint
    BY <1>25 DEF CleanupHint, ResetCompactor, ControlInv, RewritesInv, Pending,
       Publishing, Unlinking
  <1>26. ASSUME NEW r \in Readers, NEW K \in SUBSET Keys \ {{}}, ReadStart(r, K)
        PROVE  RewritesInv'
    BY <1>26 DEF ReadStart, RewritesInv, RewriteOK, Pending, Publishing
  <1>27. ASSUME NEW r \in Readers, NEW k \in Keys, ReadValue(r, k)
        PROVE  RewritesInv'
    BY <1>27 DEF ReadValue, RewritesInv, RewriteOK, Pending, Publishing
  <1>28. CASE UNCHANGED vars
    BY <1>28 DEF vars, RewritesInv, RewriteOK, Pending, Publishing
  <1>29. QED
    BY <1>31, <1>2, <1>3, <1>4, <1>5, <1>6, <1>7, <1>8, <1>9, <1>10, <1>11,
       <1>12, <1>13, <1>14, <1>15, <1>16, <1>17, <1>18, <1>19, <1>20,
       <1>21, <1>22, <1>23, <1>24, <1>25, <1>26, <1>27, <1>28
       DEF Next, Writer, Compactor, Reader

\* Nothing current is missed: the compactor passes an entry only after
\* copying it, and writes that land meanwhile point outside the candidates.
LEMMA CoverageStep == IndInv /\ [Next]_vars => CoverageInv'
  <1> SUFFICES ASSUME TypeOK, ControlInv, OwnershipInv, KeydirResolves, CoverageInv,
                      [Next]_vars
               PROVE  CoverageInv'
    BY DEF IndInv, CoreInv, DataInv
  <1>0. \A k \in Keys : keydir[k] # NoEntry =>
          /\ keydir[k].pos > 0
          /\ ~(keydir[k].pos > Len(file[keydir[k].file]))
    <2> SUFFICES ASSUME NEW k \in Keys, keydir[k] # NoEntry
                 PROVE  keydir[k].pos > 0 /\ ~(keydir[k].pos > Len(file[keydir[k].file]))
      OBVIOUS
    <2>1. /\ keydir[k].file \in Ids
          /\ keydir[k].pos \in DOMAIN file[keydir[k].file]
      BY DEF KeydirResolves, Locates, Resolves, TypeOK
    <2>2. file[keydir[k].file] \in Seq(Entry)
      BY <2>1 DEF TypeOK
    <2>3. QED
      BY <2>1, <2>2
  <1>1. ASSUME NEW ops \in Batches, StartWrite(ops)
        PROVE  CoverageInv'
    BY <1>1 DEF StartWrite, CoverageInv, Unscanned, Pending, Publishing
  <1>2. CASE RotateCreate
    BY <1>2 DEF RotateCreate, CreateSegment, CoverageInv, Unscanned,
       Pending, Publishing
  <1>3. CASE RotateFail
    BY <1>3 DEF RotateFail, FailWrite, CoverageInv, Unscanned, Pending,
       Publishing
  <1>4. CASE RotateManifest
    BY <1>4 DEF RotateManifest, WriteManifest, CoverageInv, Unscanned,
       Pending, Publishing
  <1>5. CASE RotateAbort
    BY <1>5 DEF RotateAbort, RemoveSegment, FailWrite, CoverageInv,
       Unscanned, Pending, Publishing
  <1>6. CASE RotateUncertain
    BY <1>6 DEF RotateUncertain, WriteManifest, FailWrite, CoverageInv,
       Unscanned, Pending, Publishing
  <1>7. CASE RotatePublish
    BY <1>7 DEF RotatePublish, CoverageInv, Unscanned, Pending, Publishing
  <1>8. CASE AppendRecord
    BY <1>8 DEF AppendRecord, CoverageInv, Unscanned, Pending, Publishing
  <1>9. CASE AppendFail
    BY <1>9 DEF AppendFail, FailWrite, CoverageInv, Unscanned, Pending,
       Publishing
  <1>10. CASE ApplyKeydir
    <2>1. wpc = "keydir" /\ wreq \in Batches /\ active \notin candidates
      BY <1>10 DEF ApplyKeydir, ControlInv, OwnershipInv
    <2>2. /\ keydir' = ApplyBatch(wreq)
          /\ UNCHANGED <<cpc, candidates, todo, scanPos, rewrites>>
          /\ ~Publishing /\ ~Publishing'
      BY <1>10 DEF ApplyKeydir, Publishing
    <2>3. ASSUME NEW k \in Keys, keydir'[k].file \in candidates, keydir'[k] # NoEntry
          PROVE  keydir'[k] = keydir[k]
      <3>1. \A i : LocOf(wreq, i).file \notin candidates
        BY <2>1 DEF LocOf
      <3>2. QED
        BY <2>2, <2>3, <3>1 DEF ApplyBatch
    <2>4. QED
      BY <2>2, <2>3 DEF CoverageInv, Unscanned, Pending
  <1>11. CASE CommitManifest
    BY <1>11 DEF CommitManifest, WriteManifest, CoverageInv, Unscanned,
       Pending, Publishing
  <1>12. CASE CommitFail
    BY <1>12 DEF CommitFail, CoverageInv, Unscanned, Pending, Publishing
  <1>13. CASE CommitPublish
    BY <1>13 DEF CommitPublish, ResetCompactor, ControlInv, CoverageInv, Pending,
       Publishing, Unlinking
  <1>14. ASSUME NEW c \in Ids, UnlinkSegment(c)
        PROVE  CoverageInv'
    BY <1>14 DEF UnlinkSegment, ControlInv, CoverageInv, Pending,
       Publishing, Unlinking
  <1>15. ASSUME NEW c \in Ids, UnlinkHint(c)
        PROVE  CoverageInv'
    BY <1>15 DEF UnlinkHint, ResetCompactor, ControlInv, CoverageInv, Pending,
       Publishing, Unlinking
  <1>16. CASE CompactSnapshot
    BY <1>16 DEF CompactSnapshot, ControlInv, CoverageInv, Pending,
       Publishing, Unlinking
  <1>17. CASE CompactCreate
    <2>1. todo = candidates /\ scanPos = 0
      BY <1>17 DEF CompactCreate, ControlInv, CoverageInv
    <2>2. UNCHANGED <<keydir, candidates, todo, scanPos>> /\ cpc' = "scan"
      BY <1>17 DEF CompactCreate
    <2>3. QED
      BY <1>0, <2>1, <2>2 DEF CoverageInv, Unscanned
  <1>18. CASE CompactCreateFail
    BY <1>18 DEF CompactCreateFail, ResetCompactor, ControlInv, CoverageInv, Pending,
       Publishing, Unlinking
  <1>19. ASSUME NEW c \in Ids, ScanEntry(c)
        PROVE  CoverageInv'
    <2> DEFINE p == scanPos + 1
    <2>1. /\ Lowest(todo, c) /\ cpc = "scan" /\ scanPos \in Nat
          /\ todo \subseteq Ids /\ rewrites \subseteq rewrites'
          /\ UNCHANGED <<keydir, cpc, candidates, todo>> /\ scanPos' = p
      BY <1>19 DEF ScanEntry, TypeOK
    <2> SUFFICES ASSUME NEW k \in Keys, keydir[k].file \in candidates, keydir[k] # NoEntry,
                        Unscanned(keydir[k]), ~Unscanned(keydir[k])'
                 PROVE  \E r \in rewrites' : r.key = k /\ r.old = keydir[k]
      BY <2>1 DEF CoverageInv, Pending
    <2>2. keydir[k].pos \in Nat
      BY DEF TypeOK, Loc
    <2>3. Lowest(todo, keydir[k].file) /\ keydir[k].pos = p
      BY <2>1, <2>2 DEF Unscanned
    <2>4. keydir[k].file = c
      BY <2>1, <2>3, IdFacts DEF Lowest
    <2>5. file[c][p].key = k /\ file[c][p].t = keydir[k].t /\ file[c][p].val # Tombstone
      BY <2>3, <2>4 DEF KeydirResolves, Locates
    <2>6. IsLive(c, p)
      BY <2>3, <2>4, <2>5 DEF IsLive
    <2>7. \E r \in rewrites' : /\ r.key = k
                               /\ r.old = [file |-> c, pos |-> p, t |-> keydir[k].t]
      <3> DEFINE n == [key |-> file[c][p].key,
                       old |-> [file |-> c, pos |-> p, t |-> file[c][p].t],
                       new |-> [file |-> newSeg, pos |-> Len(file[newSeg]) + 1,
                                t |-> file[c][p].t]]
      <3>1. rewrites' = rewrites \cup {n}
        BY <1>19, <2>6 DEF ScanEntry
      <3>2. n.key = k /\ n.old = [file |-> c, pos |-> p, t |-> keydir[k].t]
        BY <2>5
      <3> HIDE DEF n
      <3>3. QED
        BY <3>1, <3>2
    <2>8. keydir[k] = [file |-> c, pos |-> p, t |-> keydir[k].t]
      BY <2>3, <2>4 DEF TypeOK, Loc
    <2>9. QED
      BY <2>7, <2>8
  <1>20. ASSUME NEW c \in Ids, ScanNext(c)
        PROVE  CoverageInv'
    <2>1. /\ Lowest(todo, c) /\ cpc = "scan" /\ scanPos = Len(file[c])
          /\ UNCHANGED <<keydir, cpc, candidates, rewrites>>
          /\ todo' = todo \ {c} /\ scanPos' = 0
      BY <1>20 DEF ScanNext
    <2> SUFFICES ASSUME NEW k \in Keys, keydir[k].file \in candidates, keydir[k] # NoEntry,
                        Unscanned(keydir[k])
                 PROVE  Unscanned(keydir[k])'
      BY <2>1 DEF CoverageInv, Pending
    <2>2. keydir[k].file # c
      BY <1>0, <2>1 DEF Unscanned
    <2>3. QED
      BY <1>0, <2>1, <2>2 DEF Unscanned
  <1>21. CASE CompactFail
    BY <1>21 DEF CompactFail, ResetCompactor, ControlInv, CoverageInv, Pending,
       Publishing, Unlinking
  <1>22. CASE RetireOnly
    BY <1>22 DEF RetireOnly, RemoveSegment, CoverageInv, Unscanned, Pending,
       Publishing
  <1>23. CASE WriteHintFile
    BY <1>23 DEF WriteHintFile, CoverageInv, Unscanned, Pending, Publishing
  <1>24. CASE CleanupSegment
    BY <1>24 DEF CleanupSegment, ResetCompactor, ControlInv, CoverageInv, Pending,
       Publishing, Unlinking
  <1>25. CASE CleanupHint
    BY <1>25 DEF CleanupHint, ResetCompactor, ControlInv, CoverageInv, Pending,
       Publishing, Unlinking
  <1>26. ASSUME NEW r \in Readers, NEW K \in SUBSET Keys \ {{}}, ReadStart(r, K)
        PROVE  CoverageInv'
    BY <1>26 DEF ReadStart, CoverageInv, Unscanned, Pending, Publishing
  <1>27. ASSUME NEW r \in Readers, NEW k \in Keys, ReadValue(r, k)
        PROVE  CoverageInv'
    BY <1>27 DEF ReadValue, CoverageInv, Unscanned, Pending, Publishing
  <1>28. CASE UNCHANGED vars
    BY <1>28 DEF vars, CoverageInv, Unscanned, Pending, Publishing
  <1>29. QED
    BY <1>1, <1>2, <1>3, <1>4, <1>5, <1>6, <1>7, <1>8, <1>9, <1>10, <1>11,
       <1>12, <1>13, <1>14, <1>15, <1>16, <1>17, <1>18, <1>19, <1>20,
       <1>21, <1>22, <1>23, <1>24, <1>25, <1>26, <1>27, <1>28
       DEF Next, Writer, Compactor, Reader

\* Position 0 is in no file: the absent entry reads as no value.
LEMMA NoEntryValue ==
  ASSUME TypeOK
  PROVE  ~Resolves(NoEntry)
  BY IdFacts, FileEntry DEF Resolves, NoEntry

\* A step under which live segments only grow leaves every location that
\* resolves, and what it leads to.
LEMMA GrowsKeeps ==
  ASSUME TypeOK, TypeOK', Grows
  PROVE  \A e : e = NoEntry \/ Resolves(e) =>
           /\ \/ e = NoEntry
              \/ e.file \in segments' /\ e.pos \in DOMAIN file'[e.file]
           /\ ValueAt(e) = IF e.file \in segments' /\ e.pos \in DOMAIN file'[e.file]
                           THEN file'[e.file][e.pos].val ELSE Tombstone
  <1>1. ~(NoEntry.file \in segments' /\ NoEntry.pos \in DOMAIN file'[NoEntry.file])
    <2>1. NoEntry.file \in Ids /\ NoEntry.pos = 0
      BY IdFacts DEF NoEntry
    <2>2. file'[NoEntry.file] \in Seq(Entry)
      BY <2>1 DEF TypeOK
    <2>3. QED
      BY <2>1, <2>2
  <1>2. QED
    BY <1>1, NoEntryValue DEF Grows, Resolves, ValueAt

\* No step changes what a reader inside the read lock will read.
LEMMA ReadersStep == IndInv /\ [Next]_vars => ReadersInv'
  <1> SUFFICES ASSUME IndInv, [Next]_vars
               PROVE  ReadersInv'
    OBVIOUS
  <1> USE DEF IndInv, CoreInv, DataInv
  <1>1. TypeOK'
    BY TypeStep
  <1>2. CASE CommitPublish
    <2>1. \A r \in Readers : rd'[r].keys = {}
      BY <1>2 DEF CommitPublish, LockFree
    <2>2. QED
      BY <2>1 DEF ReadersInv
  <1>3. CASE rd' = rd /\ ~CommitPublish
    <2>1. Grows
      BY <1>3, GrowsStep
    <2> SUFFICES ASSUME NEW r \in Readers, NEW k \in rd[r].keys
                 PROVE  (/\ rd[r].snap[k] = NoEntry \/ Resolves(rd[r].snap[k])
                         /\ ValueAt(rd[r].snap[k]) = rd[r].view[k])'
      BY <1>3 DEF ReadersInv
    <2> DEFINE e == rd[r].snap[k]
    <2>2. (e = NoEntry \/ Resolves(e)) /\ ValueAt(e) = rd[r].view[k]
      BY DEF ReadersInv
    <2>3. /\ \/ e = NoEntry
             \/ e.file \in segments' /\ e.pos \in DOMAIN file'[e.file]
          /\ ValueAt(e) = IF e.file \in segments' /\ e.pos \in DOMAIN file'[e.file]
                          THEN file'[e.file][e.pos].val ELSE Tombstone
      BY <1>1, <2>1, <2>2, GrowsKeeps
    <2>4. QED
      BY <1>3, <2>2, <2>3 DEF Resolves, ValueAt
  <1>4. ASSUME NEW s \in Readers, NEW K \in SUBSET Keys \ {{}}, ReadStart(s, K)
        PROVE  ReadersInv'
    <2>1. UNCHANGED <<file, segments, keydir>>
      BY <1>4 DEF ReadStart, dirVars, dbVars
    <2>2. \A e : /\ (Resolves(e) <=> e.file \in segments' /\ e.pos \in DOMAIN file'[e.file])
                /\ ValueAt(e) = IF e.file \in segments' /\ e.pos \in DOMAIN file'[e.file]
                                THEN file'[e.file][e.pos].val ELSE Tombstone
      BY <2>1 DEF Resolves, ValueAt
    <2>3. /\ rd'[s] = [keys |-> K, snap |-> keydir, view |-> View]
          /\ \A r \in Readers \ {s} : rd'[r] = rd[r]
      BY <1>4 DEF ReadStart, TypeOK
    <2>4. \A k \in Keys : /\ keydir[k] = NoEntry \/ Resolves(keydir[k])
                          /\ ValueAt(keydir[k]) = View[k]
      BY DEF KeydirResolves, Locates, View
    <2>5. \A r \in Readers : \A k \in rd'[r].keys :
             /\ rd'[r].snap[k] = NoEntry \/ Resolves(rd'[r].snap[k])
             /\ ValueAt(rd'[r].snap[k]) = rd'[r].view[k]
      BY <2>3, <2>4 DEF ReadersInv
    <2>6. QED
      BY <2>2, <2>5 DEF ReadersInv, Resolves, ValueAt
  <1>5. ASSUME NEW s \in Readers, NEW x \in Keys, ReadValue(s, x)
        PROVE  ReadersInv'
    <2>1. UNCHANGED <<file, segments, keydir>>
      BY <1>5 DEF ReadValue, dirVars, dbVars
    <2>2. \A r \in Readers \ {s} : rd'[r] = rd[r]
      BY <1>5 DEF ReadValue, TypeOK
    <2>3. \/ rd'[s].keys = {}
          \/ /\ rd'[s].keys \subseteq rd[s].keys
             /\ rd'[s].snap = rd[s].snap /\ rd'[s].view = rd[s].view
      BY <1>5 DEF ReadValue, TypeOK, IdleReader
    <2>4. \A r \in Readers : \A k \in rd'[r].keys :
             /\ rd'[r].snap[k] = NoEntry \/ Resolves(rd'[r].snap[k])
             /\ ValueAt(rd'[r].snap[k]) = rd'[r].view[k]
      BY <2>2, <2>3 DEF ReadersInv
    <2>5. \A e : /\ (Resolves(e) <=> e.file \in segments' /\ e.pos \in DOMAIN file'[e.file])
                /\ ValueAt(e) = IF e.file \in segments' /\ e.pos \in DOMAIN file'[e.file]
                                THEN file'[e.file][e.pos].val ELSE Tombstone
      BY <2>1 DEF Resolves, ValueAt
    <2>6. QED
      BY <2>4, <2>5 DEF ReadersInv, Resolves, ValueAt
  <1>6. QED
    BY <1>2, <1>3, <1>4, <1>5, ReaderFrame

\* Control, ownership, manifest and the appended record stay consistent
\* whatever the keydir says.
LEMMA CoreStep == CoreInv /\ [Next]_vars => CoreInv'
  BY TypeStep, ControlStep, OwnershipStep, ManifestStep, AppendedStep DEF CoreInv

\* The invariant is inductive.
LEMMA IndStep == IndInv /\ [Next]_vars => IndInv'
  BY CoreStep, KeydirStep, RewritesStep, CoverageStep, ReadersStep
     DEF IndInv, DataInv

\* The invariant holds when Open has created segment 0.
LEMMA InitInv == Init => IndInv
  <1> SUFFICES ASSUME Init
               PROVE  IndInv
    OBVIOUS
  <1> USE DEF Init
  <1>1. TypeOK
    <2>1. file \in [Ids -> Seq(Entry)]
      OBVIOUS
    <2>2. QED
      BY <2>1, IdFacts, NoEntryType, IdleReaderType DEF TypeOK
  <1>2. ControlInv
    BY DEF ControlInv, Publishing, Unlinking
  <1>3. OwnershipInv
    BY DEF OwnershipInv, Unlinking
  <1>4. ManifestInv
    BY DEF ManifestInv, Publishing
  <1>5. KeydirResolves
    BY DEF KeydirResolves
  <1>6. AppendedInv /\ RewritesInv /\ CoverageInv
    BY DEF AppendedInv, RewritesInv, CoverageInv, Pending, Publishing
  <1>7. ReadersInv
    BY DEF ReadersInv, IdleReader
  <1>8. QED
    BY <1>1, <1>2, <1>3, <1>4, <1>5, <1>6, <1>7 DEF IndInv, CoreInv, DataInv

----------------------------------------------------------------------------
(* The theorems.                                                           *)

\* The engine keeps its invariant, whatever the numbers of keys, readers,
\* segments and writes, the segment size, and the calls that fail.
THEOREM Invariance == Spec => []IndInv
  <1>1. IndInv /\ UNCHANGED vars => IndInv'
    BY IndStep
  <1>2. QED
    BY InitInv, IndStep, <1>1, PTL DEF Spec

\* Every variable keeps its type.
THEOREM TypeCorrect == Spec => []TypeOK
  BY Invariance, PTL DEF IndInv, CoreInv

\* No lookup ever finds a keydir entry without its segment or its record:
\* the branch of Get called unreachable is.
THEOREM KeydirAlwaysResolves == Spec => []KeydirResolves
  BY Invariance, PTL DEF IndInv, CoreInv, DataInv

\* A reader inside the read lock gets the values of the instant at which it
\* consulted the keydir.
THEOREM ReadsAreSnapshots == Spec => []SnapshotReads
  <1>1. IndInv => SnapshotReads
    BY DEF IndInv, CoreInv, DataInv, ReadersInv, SnapshotReads
  <1>2. QED
    BY <1>1, Invariance, PTL

\* The files the manifest names hold everything, at every instant.
THEOREM ManifestAlwaysHoldsData == Spec => []ManifestHoldsData
  <1>1. ASSUME IndInv
        PROVE  ManifestHoldsData
    <2> USE <1>1 DEF IndInv, CoreInv, DataInv
    <2>1. manifest.segs \subseteq segFiles /\ manifest.active \in manifest.segs
      <3>1. next # NoSeg => next \in segFiles
        BY DEF OwnershipInv
      <3>2. Publishing => Merged \subseteq segFiles
        BY DEF OwnershipInv, ControlInv, Merged
      <3>3. wpc = "rotatePublish" => next # NoSeg
        BY DEF ControlInv
      <3>4. active \notin candidates /\ active \in segments /\ segments \subseteq segFiles
        BY DEF OwnershipInv
      <3>5. QED
        BY <3>1, <3>2, <3>3, <3>4 DEF ManifestInv
    <2>2. ASSUME NEW k \in Keys, keydir[k] # NoEntry
          PROVE  \E i \in manifest.segs : \E p \in DOMAIN file[i] :
                    file[i][p] = [key |-> k, val |-> View[k], t |-> keydir[k].t]
      <3> DEFINE e == keydir[k]
      <3>1. /\ e.file \in segments /\ e.file \in Ids
            /\ e.pos \in DOMAIN file[e.file]
            /\ file[e.file][e.pos].key = k
            /\ file[e.file][e.pos].t = e.t
            /\ View[k] = file[e.file][e.pos].val
        BY <2>2 DEF KeydirResolves, Locates, Resolves, View, ValueAt, TypeOK
      <3>2. file[e.file][e.pos] \in Entry
        BY <3>1, FileEntry
      <3>3. file[e.file][e.pos] = [key |-> k, val |-> View[k], t |-> keydir[k].t]
        BY <3>1, <3>2 DEF Entry
      <3>4. CASE ~Publishing
        <4>1. segments \subseteq manifest.segs
          BY <3>4 DEF ManifestInv
        <4>2. QED
          BY <3>1, <3>3, <4>1
      <3>5. CASE Publishing
        <4>1. manifest.segs = (segments \ candidates) \cup Merged
          BY <3>5 DEF ManifestInv, ControlInv, Publishing
        <4>2. CASE e.file \in segments \ candidates
          BY <3>1, <3>3, <4>1, <4>2
        <4>3. ASSUME NEW r \in rewrites, r.old = e, RewriteOK(r), newSeg \in Ids
              PROVE  \E i \in manifest.segs : \E p \in DOMAIN file[i] :
                        file[i][p] = [key |-> k, val |-> View[k], t |-> keydir[k].t]
          <5>1. newSeg \in manifest.segs
            BY <4>1, <4>3, IdFacts DEF Merged
          <5>2. r.new.pos \in DOMAIN file[newSeg] /\ file[newSeg][r.new.pos] = file[e.file][e.pos]
            BY <4>3 DEF RewriteOK
          <5>3. QED
            BY <3>3, <5>1, <5>2
        <4>4. QED
          BY <2>2, <3>5, <4>2, <4>3, CommitCovers
      <3>6. QED
        BY <3>4, <3>5
    <2>3. QED
      BY <2>1, <2>2 DEF ManifestHoldsData
  <1>2. QED
    BY <1>1, Invariance, PTL

\* A torn record is only ever at the end of the segment recovery truncates.
THEOREM TornOnlyAtActive == Spec => []OnlyActiveTorn
  <1>1. ASSUME IndInv
        PROVE  OnlyActiveTorn
    <2>1. wpc = "rotatePublish" => torn = {}
      BY <1>1 DEF IndInv, CoreInv, ControlInv, OwnershipInv
    <2>2. writesDisabled => torn = {}
      BY <1>1 DEF IndInv, CoreInv, ManifestInv
    <2>3. torn \subseteq {active}
      BY <1>1 DEF IndInv, CoreInv, OwnershipInv
    <2>4. QED
      BY <1>1, <2>1, <2>2, <2>3 DEF IndInv, CoreInv, ManifestInv, OnlyActiveTorn
  <1>2. QED
    BY <1>1, Invariance, PTL

\* Rotation and compaction never share a segment id.
THEOREM IdsAlwaysFresh == Spec => []IdsFresh
  <1>1. ASSUME IndInv
        PROVE  IdsFresh
    <2>1. /\ \A i \in segFiles : i < nextID
          /\ next # NoSeg => next # newSeg
          /\ newSeg # NoSeg /\ cpc = "scan" => newSeg \notin segments /\ ~Publishing
      BY <1>1 DEF IndInv, CoreInv, OwnershipInv, ControlInv
    <2>2. wpc = "rotatePublish" => next # NoSeg
      BY <1>1 DEF IndInv, CoreInv, ControlInv
    <2>3. newSeg # NoSeg /\ cpc = "scan" => newSeg \notin manifest.segs
      BY <1>1, <2>1, <2>2 DEF IndInv, CoreInv, ManifestInv
    <2>4. QED
      BY <2>1, <2>3 DEF IdsFresh
  <1>2. QED
    BY <1>1, Invariance, PTL

\* No step changes a live segment that is not the active one.
THEOREM SealedStaysSealed == Spec => SealedImmutable
  <1>1. ASSUME IndInv, [Next]_vars
        PROVE  \A i \in segments \ {active} :
                  i \in segFiles' /\ i \in segments' => file'[i] = file[i]
    <2>1. CASE CommitPublish
      BY <2>1 DEF CommitPublish, dirVars
    <2>2. CASE Grows
      BY <2>2 DEF Grows
    <2>3. QED
      BY <1>1, <2>1, <2>2, GrowsStep DEF IndInv, CoreInv
  <1>2. QED
    BY <1>1, Invariance, PTL DEF Spec, SealedImmutable

\* The request in hand changes only when the idle writer takes one or when it
\* answers the one it has.
LEMMA RequestStep ==
  ASSUME IndInv, [Next]_vars
  PROVE  \/ wreq' = wreq
         \/ wreq = <<>> /\ wreq' \in Batches
         \/ wreq # <<>> /\ wreq' = <<>>
  <1>1. \/ wreq' = wreq
        \/ wpc = "idle" /\ wreq' \in Batches
        \/ wreq' = <<>>
    BY DEF vars, Next, Writer, Compactor, Reader, StartWrite, RotateCreate,
           RotateFail, RotateManifest, RotateAbort, RotateUncertain,
           RotatePublish, AppendRecord, AppendFail, ApplyKeydir, FailWrite,
           CommitManifest, CommitFail, CommitPublish, UnlinkSegment,
           UnlinkHint, CompactSnapshot, CompactCreate, CompactCreateFail,
           ScanEntry, ScanNext, CompactFail, RetireOnly, WriteHintFile,
           CleanupSegment, CleanupHint, ReadStart, ReadValue
  <1>2. wpc = "idle" => wreq = <<>>
    BY DEF IndInv, CoreInv, ControlInv
  <1>3. QED
    BY <1>1, <1>2

\* The keydir after a request leads to the values the request gives.
LEMMA AppliedValue ==
  ASSUME IndInv, wpc = "keydir", NEW k \in Keys
  PROVE  ValueAt(ApplyBatch(wreq)[k]) = Store!ApplyOps(View, wreq)[k]
  <1> USE DEF IndInv, CoreInv, DataInv
  <1>1. wreq \in Batches /\ active \in segments
    BY DEF ControlInv, OwnershipInv
  <1>2. CASE ~Store!Touches(wreq, k)
    BY <1>2 DEF ApplyBatch, View, Store!ApplyOps
  <1>3. CASE Store!Touches(wreq, k)
    <2> DEFINE i == Store!LastOp(wreq, k)
    <2>1. i \in DOMAIN wreq
      BY <1>1, <1>3, LastOpFacts
    <2>2. ApplyBatch(wreq)[k] =
            IF wreq[i].val = Tombstone THEN NoEntry ELSE LocOf(wreq, i)
      BY <1>3 DEF ApplyBatch
    <2>3. /\ LocOf(wreq, i).pos \in DOMAIN file[active]
          /\ file[active][LocOf(wreq, i).pos] =
               [key |-> wreq[i].key, val |-> wreq[i].val, t |-> lastTstamp]
      BY <1>1, <2>1, LocType, AppendedEntry
    <2>4. LocOf(wreq, i).file = active
      BY DEF LocOf
    <2> HIDE DEF i
    <2>5. ValueAt(LocOf(wreq, i)) = wreq[i].val
      BY <1>1, <2>3, <2>4 DEF ValueAt, Resolves
    <2>6. ValueAt(NoEntry) = Tombstone
      BY NoEntryValue DEF ValueAt
    <2>7. ValueAt(ApplyBatch(wreq)[k]) = wreq[i].val
      BY <2>2, <2>5, <2>6
    <2>8. QED
      BY <1>3, <2>7 DEF i, Store!ApplyOps
  <1>4. QED
    BY <1>2, <1>3

\* What one step of the engine does to the map callers see: the keydir update
\* of a request applies it as a whole, every other step leaves it alone.
LEMMA ViewStep == IndInv /\ [Next]_vars => [Store!Next]_<<View, wreq>>
  <1> SUFFICES ASSUME IndInv, [Next]_vars
               PROVE  Store!Next \/ <<View, wreq>>' = <<View, wreq>>
    OBVIOUS
  <1> USE DEF IndInv, CoreInv, DataInv
  <1>0. TypeOK'
    BY TypeStep
  <1>1. CASE ApplyKeydir
    <2>1. wpc = "keydir" /\ wreq \in Batches /\ active \in segments
      BY <1>1 DEF ApplyKeydir, ControlInv, OwnershipInv
    <2>2. UNCHANGED <<file, segments>> /\ keydir' = ApplyBatch(wreq)
      BY <1>1 DEF ApplyKeydir, dirVars
    <2>3. \A k \in Keys : ValueAt(ApplyBatch(wreq)[k]) = Store!ApplyOps(View, wreq)[k]
      BY <2>1, AppliedValue
    <2>4. \A e : ValueAt(e) = IF e.file \in segments' /\ e.pos \in DOMAIN file'[e.file]
                               THEN file'[e.file][e.pos].val ELSE Tombstone
      BY <2>2 DEF ValueAt, Resolves
    <2>5. View' = [k \in Keys |-> ValueAt(ApplyBatch(wreq)[k])]
      BY <2>2, <2>4 DEF View, ValueAt, Resolves
    <2>6. View' = Store!ApplyOps(View, wreq)
      BY <2>3, <2>5 DEF Store!ApplyOps
    <2>7. wreq # <<>> /\ wreq' = <<>>
      BY <1>1, <2>1, BatchesAssumption DEF ApplyKeydir
    <2>8. QED
      BY <2>6, <2>7 DEF Store!Next, Store!Write
  <1>2. CASE CommitPublish
    <2>1. Publishing
      BY <1>2 DEF CommitPublish, Publishing
    <2>2. /\ file' = file
          /\ segments' = (segments \cup Merged) \ candidates
          /\ keydir' = SwapAll
      BY <1>2 DEF CommitPublish, dirVars
    <2>3. ASSUME NEW k \in Keys
          PROVE  View'[k] = View[k]
      <3>1. View'[k] = IF SwapAll[k].file \in segments' /\ SwapAll[k].pos \in DOMAIN file[SwapAll[k].file]
                       THEN file[SwapAll[k].file][SwapAll[k].pos].val ELSE Tombstone
        BY <2>2 DEF View, ValueAt, Resolves
      <3>2. CASE keydir[k] = NoEntry
        <4>1. SwapAll[k] = NoEntry
          BY <2>1, <3>2, AbsentStays
        <4>2. NoEntry.pos \notin DOMAIN file[NoEntry.file]
          BY IdFacts, FileEntry DEF NoEntry
        <4>3. QED
          BY <3>1, <3>2, <4>1, <4>2 DEF View, ValueAt, Resolves
      <3>3. CASE /\ keydir[k] # NoEntry
                 /\ SwapAll[k] = keydir[k]
                 /\ keydir[k].file \in segments \ candidates
        BY <2>2, <3>1, <3>3 DEF View, ValueAt, Resolves
      <3>4. ASSUME keydir[k] # NoEntry,
                   NEW r \in rewrites, r.old = keydir[k], SwapAll[k] = r.new, RewriteOK(r),
                   newSeg \in Ids \ candidates
            PROVE  View'[k] = View[k]
        <4>1. newSeg \in segments'
          BY <2>2, <3>4, IdFacts DEF Merged
        <4>2. View[k] = file[r.old.file][r.old.pos].val
          BY <3>4 DEF KeydirResolves, Locates, View, ValueAt
        <4>3. View'[k] = file[newSeg][r.new.pos].val
          BY <3>1, <3>4, <4>1 DEF RewriteOK
        <4>4. QED
          BY <3>4, <4>2, <4>3 DEF RewriteOK
      <3>5. QED
        BY <2>1, <3>2, <3>3, <3>4, CommitCovers
    <2>4. View' = View
      BY <2>3 DEF View
    <2>5. QED
      BY <1>2, <2>4 DEF CommitPublish
  <1>3. CASE keydir' = keydir /\ ~CommitPublish
    <2>1. Grows
      BY <1>3, GrowsStep
    <2>2. \A k \in Keys : keydir[k] = NoEntry \/ Resolves(keydir[k])
      BY DEF KeydirResolves, Locates
    <2>3. \A k \in Keys :
            ValueAt(keydir[k]) =
              IF keydir[k].file \in segments' /\ keydir[k].pos \in DOMAIN file'[keydir[k].file]
              THEN file'[keydir[k].file][keydir[k].pos].val ELSE Tombstone
      BY <1>0, <2>1, <2>2, GrowsKeeps
    <2>4. View' = View
      BY <1>3, <2>3 DEF View, ValueAt, Resolves
    <2>5. CASE wreq' = wreq
      BY <2>4, <2>5
    <2>6. CASE wreq = <<>> /\ wreq' \in Batches
      BY <2>4, <2>6 DEF Store!Next, Store!Accept
    <2>7. CASE wreq # <<>> /\ wreq' = <<>>
      BY <2>4, <2>7 DEF Store!Next, Store!Refuse
    <2>8. QED
      BY <2>5, <2>6, <2>7, RequestStep
  <1>4. QED
    BY <1>1, <1>2, <1>3, KeydirFrame

\* The engine implements the map of KVStore.
THEOREM EngineImplementsStore == Spec => Linearizable
  <1>1. Init => Store!Init
    <2> SUFFICES ASSUME Init
                 PROVE  View = [k \in Keys |-> Tombstone]
      BY DEF Store!Init, Init
    <2>1. TypeOK
      BY InitInv DEF IndInv, CoreInv
    <2>2. \A k \in Keys : keydir[k] = NoEntry
      BY DEF Init
    <2>3. QED
      BY <2>1, <2>2, NoEntryValue DEF View, ValueAt
  <1>2. QED
    BY <1>1, ViewStep, Invariance, PTL DEF Spec, Linearizable, Store!Spec
=============================================================================
