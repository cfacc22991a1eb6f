-------------------------------- MODULE Wire --------------------------------
(***************************************************************************)
(* The codec of the TCP protocol (internal/wire): frames, requests and     *)
(* responses.  WireStreams.tla models its readers.                         *)
(*                                                                         *)
(* A stream is a sequence of symbols.  A byte of a key, a value or a       *)
(* message is one symbol and so is a field, whatever its width; the length *)
(* of a frame is two, so that it can be cut.                               *)
(***************************************************************************)
EXTENDS Integers, Sequences, SequencesExt

CONSTANTS
    MaxFramePayload, MaxKeyLen, MaxValLen, MaxBatchEntries, MaxErrMsgLen,
    RangeEndSentinel,
    Base  \* what one symbol of a frame's length counts to

ASSUME WireLimitsAssumption ==
    {MaxFramePayload, MaxKeyLen, MaxValLen, MaxBatchEntries, RangeEndSentinel, Base}
        \subseteq Nat \ {0}

OpPut == 1
OpGet == 2
OpDelete == 3
OpBatch == 4
OpReadKeyRange == 5
OpPing == 6
OpStats == 7
BatchOpPut == 0
BatchOpDelete == 1
StatusOK == 0
StatusNotFound == 1
StatusInternal == 3

MinBatchEntryBytes == 4  \* op, klen, a key of one byte, vlen
MinRangePairBytes == 3

Slice(s, off, n) == SubSeq(s, off + 1, off + n)
Field(x) == <<Len(x)>> \o x

----------------------------------------------------------------------------
(* Frames (frame.go).                                                      *)

HeaderSize == 2

FitsFrame(body) == Len(body) + 1 <= MaxFramePayload

\* EncodeFrame and WriteFrame of a body that fits.
EncodeFrame(tag, body) ==
    LET n == Len(body) + 1
    IN  <<n \div Base, n % Base, tag>> \o body

PayloadLen(s, off) == s[off + 1] * Base + s[off + 2]

\* Mutant: EOF inside a frame is not turned into ErrUnexpectedEOF.
ReadFrameEOF(s, off) ==
    LET left == Len(s) - off
    IN  IF left = 0 THEN "EOF"
        ELSE IF left < HeaderSize THEN "UnexpectedEOF"
        ELSE IF PayloadLen(s, off) \notin 1 .. MaxFramePayload THEN "FrameError"
        ELSE IF left = HeaderSize THEN "EOF"
        ELSE IF left < HeaderSize + PayloadLen(s, off) THEN "UnexpectedEOF" ELSE "frame"

\* What ReadFrame returns of the stream s, which ends, from offset off.
ReadFrame(s, off) ==
    LET left == Len(s) - off
    IN  IF left = 0 THEN "EOF"
        ELSE IF left < HeaderSize THEN "UnexpectedEOF"
        ELSE IF PayloadLen(s, off) \notin 1 .. MaxFramePayload THEN "FrameError"
        ELSE IF left < HeaderSize + PayloadLen(s, off) THEN "UnexpectedEOF" ELSE "frame"

Tag(s, off) == s[off + HeaderSize + 1]
Body(s, off) == Slice(s, off + HeaderSize + 1, PayloadLen(s, off) - 1)

----------------------------------------------------------------------------
(* Requests (request.go).  A decoder returns Refused for a ProtocolError.  *)

Refused == [op |-> 0]
Put(k, v) == [op |-> OpPut, key |-> k, value |-> v]
KeyOnly(op, k) == [op |-> op, key |-> k]
Batch(es) == [op |-> OpBatch, entries |-> es]
Span(s, e) == [op |-> OpReadKeyRange, start |-> s, end |-> e]
Bare(op) == [op |-> op]

CheckKey(k) == Len(k) \in 1 .. MaxKeyLen

\* bytes.Compare(a, b) > 0
After(a, b) ==
    \E i \in 1 .. Len(a) :
        /\ i <= Len(b) + 1
        /\ SubSeq(a, 1, i - 1) = SubSeq(b, 1, i - 1)
        /\ i > Len(b) \/ a[i] > b[i]

BatchBody(es) ==
    <<Len(es)>> \o FlattenSeq([i \in DOMAIN es |->
        <<IF es[i].del THEN BatchOpDelete ELSE BatchOpPut>> \o Field(es[i].key) \o Field(es[i].value)])

EncodeBatchOK(es) ==
    /\ Len(es) \in 1 .. MaxBatchEntries
    /\ \A i \in DOMAIN es :
         /\ CheckKey(es[i].key)
         /\ IF es[i].del THEN es[i].value = <<>> ELSE Len(es[i].value) <= MaxValLen
    /\ Len(BatchBody(es)) <= MaxFramePayload - 1

EncodeRangeOK(r) ==
    /\ Len(r.start) <= MaxKeyLen
    /\ Len(r.end) <= MaxKeyLen
    /\ ~(r.start # <<>> /\ r.end # <<>> /\ After(r.start, r.end))

EncodeRequestBody(r) ==
    CASE r.op = OpPut -> Field(r.key) \o Field(r.value)
      [] r.op \in {OpGet, OpDelete} -> Field(r.key)
      [] r.op = OpBatch -> BatchBody(r.entries)
      [] r.op = OpReadKeyRange -> Field(r.start) \o Field(r.end)
      [] r.op \in {OpPing, OpStats} -> <<>>

\* EncodeRequest returns no error.
Encodable(r) ==
    /\ CASE r.op = OpPut -> CheckKey(r.key) /\ Len(r.value) <= MaxValLen
         [] r.op \in {OpGet, OpDelete} -> CheckKey(r.key)
         [] r.op = OpBatch -> EncodeBatchOK(r.entries)
         [] r.op = OpReadKeyRange -> EncodeRangeOK(r)
         [] r.op \in {OpPing, OpStats} -> TRUE
    /\ FitsFrame(EncodeRequestBody(r))

DecodeKeyOnly(op, b) ==
    IF /\ Len(b) >= 1
       /\ b[1] \in 1 .. MaxKeyLen
       /\ Len(b) = 1 + b[1]
    THEN KeyOnly(op, Slice(b, 1, b[1])) ELSE Refused

\* Mutant: a body may go on after the value.
DecodePutPrefix(b) ==
    IF /\ Len(b) >= 1
       /\ b[1] \in 1 .. MaxKeyLen
       /\ Len(b) >= 2 + b[1]
       /\ b[b[1] + 2] <= MaxValLen
       /\ Len(b) >= 2 + b[1] + b[b[1] + 2]
    THEN Put(Slice(b, 1, b[1]), Slice(b, b[1] + 2, b[b[1] + 2])) ELSE Refused

DecodePut(b) ==
    IF /\ Len(b) >= 1
       /\ b[1] \in 1 .. MaxKeyLen
       /\ Len(b) >= 2 + b[1]
       /\ b[b[1] + 2] <= MaxValLen
       /\ Len(b) = 2 + b[1] + b[b[1] + 2]
    THEN Put(Slice(b, 1, b[1]), SubSeq(b, b[1] + 3, Len(b))) ELSE Refused

DecodeReadKeyRange(b) ==
    LET r == Span(Slice(b, 1, b[1]), SubSeq(b, b[1] + 3, Len(b)))
    IN  IF /\ Len(b) >= 1
           /\ b[1] <= MaxKeyLen
           /\ Len(b) >= 2 + b[1]
           /\ b[b[1] + 2] <= MaxKeyLen
           /\ Len(b) = 2 + b[1] + b[b[1] + 2]
           /\ ~(r.start # <<>> /\ r.end # <<>> /\ After(r.start, r.end))
        THEN r ELSE Refused

\* A loop of a decoder: where it is, what it has read, whether it goes on.
Loop0(off) == [ok |-> TRUE, off |-> off, out |-> <<>>]
Stopped == [ok |-> FALSE, off |-> 0, out |-> <<>>]

\* The key and the value at offset off of b: klen, key, vlen, val.
PairOK(b, off) ==
    /\ off + 1 <= Len(b)
    /\ b[off + 1] \in 1 .. MaxKeyLen
    /\ off + 1 + b[off + 1] + 1 <= Len(b)
    /\ LET v == b[off + 1 + b[off + 1] + 1]
       IN  v <= MaxValLen /\ off + 1 + b[off + 1] + 1 + v <= Len(b)
PairKey(b, off) == Slice(b, off + 1, b[off + 1])
PairValue(b, off) ==
    LET vlenOff == off + 1 + b[off + 1]
    IN  Slice(b, vlenOff + 1, b[vlenOff + 1])
PairEnd(b, off) == off + 2 + Len(PairKey(b, off)) + Len(PairValue(b, off))

DecodeBatchEntry(b, s) ==
    IF \/ ~s.ok
       \/ s.off + 1 > Len(b)
       \/ ~PairOK(b, s.off + 1)
       \/ b[s.off + 1] \notin {BatchOpPut, BatchOpDelete}
       \/ b[s.off + 1] = BatchOpDelete /\ PairValue(b, s.off + 1) # <<>>
    THEN Stopped
    ELSE [ok |-> TRUE, off |-> PairEnd(b, s.off + 1),
          out |-> Append(s.out, [del |-> b[s.off + 1] = BatchOpDelete,
                                 key |-> PairKey(b, s.off + 1),
                                 value |-> PairValue(b, s.off + 1)])]

DecodeBatch(b) ==
    LET upTo[i \in 0 .. b[1]] ==
            IF i = 0 THEN Loop0(1) ELSE DecodeBatchEntry(b, upTo[i - 1])
    IN  IF /\ Len(b) >= 1
           /\ b[1] \in 1 .. MaxBatchEntries
           /\ b[1] * MinBatchEntryBytes <= Len(b) - 1
           /\ upTo[b[1]].ok
           /\ upTo[b[1]].off = Len(b)
        THEN Batch(upTo[b[1]].out) ELSE Refused

DecodeRequest(op, b) ==
    CASE op = OpPut -> DecodePut(b)
      [] op \in {OpGet, OpDelete} -> DecodeKeyOnly(op, b)
      [] op = OpBatch -> DecodeBatch(b)
      [] op = OpReadKeyRange -> DecodeReadKeyRange(b)
      [] op \in {OpPing, OpStats} -> IF b = <<>> THEN Bare(op) ELSE Refused
      [] OTHER -> Refused

----------------------------------------------------------------------------
(* Responses (response.go).                                                *)

\* Mutant: the message is sent at any length.
EncodeErrorWhole(msg) == Field(msg)

\* EncodeError, which truncates the message.
EncodeError(msg) ==
    Field(IF Len(msg) > MaxErrMsgLen THEN SubSeq(msg, 1, MaxErrMsgLen) ELSE msg)
DecodeErrorOK(b) ==
    /\ Len(b) >= 1
    /\ b[1] <= MaxErrMsgLen
    /\ Len(b) = 1 + b[1]

\* EncodeGetOK, of a value that it does not refuse, and EncodeStatsOK with
\* their decoders.
EncodeGetOKRefuses(v) == Len(v) > MaxValLen
EncodeGetOK(v) == Field(v)
DecodeGetOK(b) == Len(b) >= 1 /\ b[1] <= MaxValLen /\ Len(b) = 1 + b[1]
EncodeStatsOK(keys, bytes) == <<keys, bytes>>
DecodeStatsOK(b) == Len(b) = 2

\* EncodeRangePage of a page, a sequence of pairs [key, value].
PageBody(pairs) ==
    <<Len(pairs)>> \o FlattenSeq([i \in DOMAIN pairs |->
        Field(pairs[i].key) \o Field(pairs[i].value)])

EncodeRangePageOK(pairs) ==
    /\ Len(pairs) < RangeEndSentinel
    /\ \A i \in DOMAIN pairs : CheckKey(pairs[i].key) /\ Len(pairs[i].value) <= MaxValLen
    /\ FitsFrame(PageBody(pairs))

EncodeRangeEnd == <<RangeEndSentinel>>

DecodePair(b, s) ==
    IF ~s.ok \/ ~PairOK(b, s.off) THEN Stopped
    ELSE [ok |-> TRUE, off |-> PairEnd(b, s.off),
          out |-> Append(s.out, [key |-> PairKey(b, s.off), value |-> PairValue(b, s.off)])]

\* Mutant: a page without pairs is taken for the end of the stream.
DecodeRangeEmptyEnds(b) ==
    LET upTo[i \in 0 .. b[1]] ==
            IF i = 0 THEN Loop0(1) ELSE DecodePair(b, upTo[i - 1])
    IN  IF b \in {<<RangeEndSentinel>>, <<0>>} THEN [kind |-> "end"]
        ELSE IF upTo[b[1]].ok THEN [kind |-> "page", pairs |-> upTo[b[1]].out]
        ELSE [kind |-> "protocol"]

\* DecodeRangeFrame: the end of the stream, a page, or a ProtocolError.
DecodeRangeFrame(b) ==
    LET upTo[i \in 0 .. b[1]] ==
            IF i = 0 THEN Loop0(1) ELSE DecodePair(b, upTo[i - 1])
    IN  IF b = <<>> THEN [kind |-> "protocol"]
        ELSE IF b[1] = RangeEndSentinel
             THEN [kind |-> IF Len(b) = 1 THEN "end" ELSE "protocol"]
        ELSE IF \/ b[1] * MinRangePairBytes > Len(b) - 1
                \/ ~upTo[b[1]].ok
                \/ upTo[b[1]].off # Len(b)
             THEN [kind |-> "protocol"]
        ELSE [kind |-> "page", pairs |-> upTo[b[1]].out]
=============================================================================
