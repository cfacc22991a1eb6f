------------------------------- MODULE Record -------------------------------
(***************************************************************************)
(* The bytes of a segment: the record codec (internal/engine/record.go)    *)
(* and its two readers, recoverSegment (recovery.go), which Open runs, and *)
(* readRecord, which compaction runs.                                      *)
(*                                                                         *)
(* A file is a sequence of symbols.  Every field of the layout is one      *)
(* symbol, whatever its width in bytes, and so is every byte of a key or a *)
(* value; a cut inside a field reads like a cut before it.  The symbol of  *)
(* the CRC field is what the checksum covers: CRC32C counts as free of     *)
(* collisions.                                                             *)
(***************************************************************************)
EXTENDS Integers, Sequences, FiniteSets, SequencesExt

CONSTANTS
    maxKeyLen, maxValLen, maxBatchBodyLen, maxBatchEntries,
    Logs,            \* sequences of records that a segment may hold
    Symbols          \* what a damaged symbol may read as

ASSUME RecordLimitsAssumption ==
    {maxKeyLen, maxValLen, maxBatchBodyLen, maxBatchEntries} \subseteq Nat \ {0}
ASSUME SymbolsAssumption == Symbols \subseteq Nat

FlagPut == 0
FlagTombstone == 1
FlagBatch == 2

----------------------------------------------------------------------------
(* The layout.  Header: crc, tstamp, flag, key_len, val_len.               *)

RecordHeader == 5
BatchCountSize == 1
BatchEntryHeaderSize == 3

BytesAt(f, from, n) == SubSeq(f, from + 1, from + n)

Checked(rest) == <<rest>> \o rest

\* An entry of a batch.  A tombstone has no value.
PutEntry(k, v) == [flag |-> FlagPut, key |-> k, value |-> v]
DelEntry(k) == [flag |-> FlagTombstone, key |-> k, value |-> <<>>]

\* record.encode.
EncodeOne(t, e) ==
    Checked(<<t, e.flag, Len(e.key), Len(e.value)>> \o e.key \o e.value)

\* encodeBatchRecord.
EncodeEntry(e) == <<e.flag, Len(e.key), Len(e.value)>> \o e.key \o e.value
EncodeBatch(t, es) ==
    LET body == <<Len(es)>> \o FlattenSeq([i \in DOMAIN es |-> EncodeEntry(es[i])])
    IN  Checked(<<t, FlagBatch, 0, Len(body)>> \o body)

\* A record of a log: the entries of one write.
Encode(r) ==
    IF r.batch THEN EncodeBatch(r.tstamp, r.entries)
    ELSE EncodeOne(r.tstamp, r.entries[1])

EncodeLog(log) == FlattenSeq([i \in DOMAIN log |-> Encode(log[i])])

----------------------------------------------------------------------------
(* decodeBatchBody.                                                        *)

Malformed == [ok |-> FALSE, off |-> 0, out |-> <<>>]

\* Mutant: the header of the record is left out of the value's offset.
DecodeEntryNoHeader(body, start, s) ==
    LET flag == body[s.off + 1]
        k == body[s.off + 2]
        v == body[s.off + 3]
        keyOff == s.off + BatchEntryHeaderSize
    IN  [ok |-> TRUE, off |-> keyOff + k + v,
         out |-> Append(s.out, [flag |-> flag, key |-> BytesAt(body, keyOff, k),
                                value |-> BytesAt(body, keyOff + k, v),
                                pos |-> start + keyOff + k])]

\* One turn of the loop: the entry at offset s.off.
DecodeEntry(body, start, s) ==
    LET flag == body[s.off + 1]
        k == body[s.off + 2]
        v == body[s.off + 3]
        keyOff == s.off + BatchEntryHeaderSize
        end == keyOff + k + v
    IN  IF \/ ~s.ok
           \/ s.off + BatchEntryHeaderSize > Len(body)
           \/ flag \notin {FlagPut, FlagTombstone}
           \/ k = 0 \/ k > maxKeyLen \/ v > maxValLen
           \/ flag = FlagTombstone /\ v # 0
           \/ end > Len(body)
        THEN Malformed
        ELSE [ok |-> TRUE, off |-> end,
              out |-> Append(s.out, [flag |-> flag, key |-> BytesAt(body, keyOff, k),
                                     value |-> BytesAt(body, keyOff + k, v),
                                     pos |-> start + RecordHeader + keyOff + k])]

DecodeBatchBody(body, start) ==
    LET count == body[1]
        upTo[i \in 0 .. count] ==
            IF i = 0 THEN [ok |-> TRUE, off |-> BatchCountSize, out |-> <<>>]
            ELSE DecodeEntry(body, start, upTo[i - 1])
    IN  IF \/ Len(body) < BatchCountSize
           \/ count > maxBatchEntries
           \/ count * (BatchEntryHeaderSize + 1) > Len(body) - BatchCountSize
           \/ ~upTo[count].ok
           \/ upTo[count].off # Len(body)
        THEN Malformed
        ELSE upTo[count]

----------------------------------------------------------------------------
(* The readers.                                                            *)

\* The checks that readRecord makes of a header.
HeaderOK(flag, k, v) ==
    /\ flag \in {FlagPut, FlagTombstone, FlagBatch}
    /\ IF flag = FlagBatch
       THEN k = 0 /\ v >= BatchCountSize /\ v <= maxBatchBodyLen
       ELSE k \in 1 .. maxKeyLen /\ v <= maxValLen

\* Mutant: recovery refuses a batch that is as long as a batch may be.
AnomalyAtLimit(flag, k, v) ==
    \/ flag \notin {FlagPut, FlagTombstone, FlagBatch}
    \/ flag = FlagBatch /\ (k # 0 \/ v < BatchCountSize \/ v >= maxBatchBodyLen)
    \/ flag # FlagBatch /\ (k = 0 \/ k > maxKeyLen \/ v > maxValLen)

\* What recoverSegment refuses in a header, in its own copy of those checks.
Anomaly(flag, k, v) ==
    \/ flag \notin {FlagPut, FlagTombstone, FlagBatch}
    \/ flag = FlagBatch /\ (k # 0 \/ v < BatchCountSize \/ v > maxBatchBodyLen)
    \/ flag # FlagBatch /\ (k = 0 \/ k > maxKeyLen \/ v > maxValLen)

\* A whole record at offset o, as entries with the offsets of their values.
EntriesAt(f, o) ==
    LET flag == f[o + 3]
        k == f[o + 4]
        v == f[o + 5]
    IN  IF flag = FlagBatch THEN DecodeBatchBody(BytesAt(f, o + RecordHeader, v), o)
        ELSE [ok |-> TRUE, off |-> 0,
              out |-> <<[flag |-> flag, key |-> BytesAt(f, o + RecordHeader, k),
                         value |-> IF flag = FlagPut
                                   THEN BytesAt(f, o + RecordHeader + k, v) ELSE <<>>,
                         pos |-> o + RecordHeader + k]>>]

BodyLen(f, o) == f[o + 4] + f[o + 5]

\* Mutant: the checksum covers the body and not the header.
CrcOfBody(f, o) ==
    SubSeq(f[o + 1], RecordHeader, Len(f[o + 1])) = BytesAt(f, o + RecordHeader, BodyLen(f, o))

CrcOK(f, o) == f[o + 1] = BytesAt(f, o + 1, RecordHeader - 1 + BodyLen(f, o))

\* readRecord at offset o: io.ReadFull says EOF if it read nothing at all.
ReadRecord(f, o) ==
    LET left == Len(f) - o
    IN  IF left = 0 THEN "EOF"
        ELSE IF left < RecordHeader THEN "UnexpectedEOF"
        ELSE IF ~HeaderOK(f[o + 3], f[o + 4], f[o + 5]) THEN "bad"
        ELSE IF left = RecordHeader THEN "EOF"
        ELSE IF left < RecordHeader + BodyLen(f, o) THEN "UnexpectedEOF"
        ELSE IF ~CrcOK(f, o) THEN "bad" ELSE "record"

\* recoverSegment at offset o.  A record that runs past the end of the file
\* is torn, whatever its header says.
RecoverAt(f, o) ==
    LET left == Len(f) - o
    IN  IF left = 0 THEN "end"
        ELSE IF left < RecordHeader THEN "torn"
        ELSE IF left < RecordHeader + BodyLen(f, o) THEN "torn"
        ELSE IF Anomaly(f[o + 3], f[o + 4], f[o + 5]) \/ ~CrcOK(f, o) THEN "corrupt"
        ELSE IF ~EntriesAt(f, o).ok THEN "corrupt" ELSE "record"

----------------------------------------------------------------------------
(* recoverSegment.                                                         *)

VARIABLES
    log,     \* history: the records that were written
    damage,  \* history: "none", "cut" (bytes lost at the end) or "rot"
             \* (one symbol reads as another)
    was,     \* history: the segment as Open found it
    file,    \* the segment
    active,  \* allowTornTail: it is the manifest's active segment
    recordStart,
    found,   \* the entries applied so far
    recovery \* "scan", "ok" or "error"

recordVars == <<log, damage, was, file, active, recordStart, found, recovery>>

\* Where the records of a log begin, and where the last one ends.
Bounds(l) == {Len(EncodeLog(SubSeq(l, 1, i))) : i \in 0 .. Len(l)}

\* The symbol at p reads as another one.  At the start of a record that is
\* a wrong checksum.
Rotten(l, f) ==
    {[f EXCEPT ![p + 1] = s] : p \in (0 .. Len(f) - 1) \ Bounds(l), s \in Symbols}
    \cup {[f EXCEPT ![p + 1] = <<>>] : p \in Bounds(l) \ {Len(f)}}

RecordInit ==
    /\ log \in Logs
    /\ active \in BOOLEAN
    /\ LET f == EncodeLog(log)
       IN  \/ damage = "none" /\ file = f
           \/ damage = "cut" /\ \E n \in 0 .. Len(f) - 1 : file = SubSeq(f, 1, n)
           \/ damage = "rot" /\ file \in Rotten(log, f) \ {f}
    /\ was = file
    /\ recordStart = 0
    /\ found = <<>>
    /\ recovery = "scan"

ApplyRecord ==
    /\ recovery = "scan"
    /\ RecoverAt(file, recordStart) = "record"
    /\ found' = found \o EntriesAt(file, recordStart).out
    /\ recordStart' = recordStart + RecordHeader + BodyLen(file, recordStart)
    /\ UNCHANGED <<log, damage, was, file, active, recovery>>

CleanEnd ==
    /\ recovery = "scan"
    /\ RecoverAt(file, recordStart) = "end"
    /\ recovery' = "ok"
    /\ UNCHANGED <<log, damage, was, file, active, recordStart, found>>

\* Mutant: the tail of any segment is truncated.
TornTailAnywhere ==
    /\ recovery = "scan"
    /\ RecoverAt(file, recordStart) = "torn"
    /\ recovery' = "ok"
    /\ file' = SubSeq(file, 1, recordStart)
    /\ UNCHANGED <<log, damage, was, active, recordStart, found>>

\* A torn tail: truncated in the active segment, refused in any other.
TornTail ==
    /\ recovery = "scan"
    /\ RecoverAt(file, recordStart) = "torn"
    /\ recovery' = IF active THEN "ok" ELSE "error"
    /\ file' = IF active THEN SubSeq(file, 1, recordStart) ELSE file
    /\ UNCHANGED <<log, damage, was, active, recordStart, found>>

Corrupt ==
    /\ recovery = "scan"
    /\ RecoverAt(file, recordStart) = "corrupt"
    /\ recovery' = "error"
    /\ UNCHANGED <<log, damage, was, file, active, recordStart, found>>

RecordNext == ApplyRecord \/ CleanEnd \/ TornTail \/ Corrupt

RecordSpec == RecordInit /\ [][RecordNext]_recordVars

----------------------------------------------------------------------------
(* Properties.                                                             *)

\* The entries of the first n records, as they were written.
Written(n) == FlattenSeq([i \in 1 .. n |-> log[i].entries])

\* The records that Open found whole.
Whole == CHOOSE n \in 0 .. Len(log) :
            /\ Len(EncodeLog(SubSeq(log, 1, n))) <= Len(was)
            /\ n < Len(log) => Len(EncodeLog(SubSeq(log, 1, n + 1))) > Len(was)

Entry(e) == [flag |-> e.flag, key |-> e.key, value |-> e.value]
Found == [i \in DOMAIN found |-> Entry(found[i])]

\* encode, encodeBatchRecord and recoverSegment: of a segment with nothing
\* but its tail lost, recovery finds exactly the writes that are whole,
\* never part of a batch.  It refuses the loss in a sealed segment, and
\* leaves an active one ending at its last whole record.
WholeWritesRecovered ==
    damage \in {"none", "cut"} /\ recovery # "scan" =>
        IF active \/ Len(was) \in Bounds(log)
        THEN /\ recovery = "ok"
             /\ Found = Written(Whole)
             /\ file = EncodeLog(SubSeq(log, 1, Whole))
        ELSE recovery = "error" /\ file = was

\* recoverSegment and SPEC.md section 13: recovery of a sealed segment never
\* succeeds on a file with a symbol that reads as another.
RotRefused ==
    damage = "rot" /\ ~active => recovery # "ok"

\* decodeBatchBody and applyRecordOnRecovery: the offset that the keydir is
\* given for a value is where the bytes of that value are.
OffsetsPointAtValues ==
    \A i \in DOMAIN found :
        BytesAt(file, found[i].pos, Len(found[i].value)) = found[i].value

\* recoverSegment inlines the parser of readRecord: at every record of any
\* file, damaged or not, the two accept the same records, and readRecord
\* sees no record where recovery sees the end.
ReadersAgree ==
    recovery = "scan" =>
        LET a == RecoverAt(file, recordStart)
            b == ReadRecord(file, recordStart)
        IN  /\ a = "record" => b = "record"
            /\ b = "record" => a = "record" \/ ~EntriesAt(file, recordStart).ok
            /\ a = "end" => b = "EOF"
=============================================================================
