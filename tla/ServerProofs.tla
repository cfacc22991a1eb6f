---------------------------- MODULE ServerProofs ----------------------------
(***************************************************************************)
(* Proofs, for every value of the constants, that ServerInd is an          *)
(* inductive invariant of Server, whatever its peers do, and what follows  *)
(* from it: the safety invariants of Server that TLC checks on small       *)
(* instances.                                                              *)
(***************************************************************************)
EXTENDS ServerInv, SequenceTheorems, FiniteSetTheorems, TLAPS

USE DEF engineVars, lifeVars, HandlerRecord, StreamRecord, NetRecord

----------------------------------------------------------------------------
(* Requests, frames and pages.                                             *)

\* A request keeps its operation when it is numbered.
LEMMA Numbered ==
  ASSUME NEW r \in Requests, NEW k \in Nat
  PROVE  /\ Number(r, k) \in Sent
         /\ Number(r, k).n = k
         /\ Number(r, k).op = r.op
  <1>1. "op" \in DOMAIN r
    BY RequestsAssumption
  <1>2. QED
    BY <1>1 DEF Number, Sent

\* What the handler can rely on about a request it has read.
LEMMA SentFacts ==
  ASSUME NEW q \in Sent
  PROVE  /\ q.n \in Nat
         /\ q.op \in Writes => \E K \in SUBSET Keys : q.ops \in [K -> Values \cup {Tombstone}]
         /\ q.op = "get" => q.key \in Keys
  <1>1. CASE q \in [op : {"garbage"}, n : Nat]
    BY <1>1 DEF Writes
  <1>2. ASSUME NEW r \in Requests, NEW k \in Nat, q = Number(r, k)
        PROVE  /\ q.n \in Nat
               /\ q.op \in Writes => \E K \in SUBSET Keys : q.ops \in [K -> Values \cup {Tombstone}]
               /\ q.op = "get" => q.key \in Keys
    <2>1. q.n = k /\ q.op = r.op
      BY <1>2, Numbered
    <2>2. CASE r \in [op : Writes, ops : UNION {[K -> Values \cup {Tombstone}] : K \in SUBSET Keys}]
      <3>1. q.ops = r.ops
        BY <1>2, <2>2 DEF Number
      <3>2. QED
        BY <2>1, <2>2, <3>1 DEF Writes
    <2>3. CASE r \in [op : {"get"}, key : Keys]
      BY <1>2, <2>1, <2>3 DEF Number, Writes
    <2>4. CASE r.op \notin Writes \cup {"get"}
      BY <2>1, <2>4
    <2>5. QED
      BY <2>2, <2>3, <2>4, RequestsAssumption DEF Writes
  <1>3. QED
    BY <1>1, <1>2 DEF Sent

\* The frames that handlers build.
LEMMA FrameTypes ==
  ASSUME NEW k \in Nat
  PROVE  /\ OK(k) \in Frames
         /\ \A st \in Statuses : Err(st, k) \in Frames
         /\ \A s \in Seq(Pairs) : End(s, k) \in Frames /\ Frame("OK", "page", s, k) \in Frames
         /\ \A v \in Values : Frame("OK", "value", <<v>>, k) \in Frames
         /\ \A j \in Nat : Frame("OK", "count", <<j>>, k) \in Frames
         /\ Torn \in Frames
  <1>1. <<>> \in Seq(Data)
    BY EmptySeq
  <1>2. \A s \in Seq(Pairs) : s \in Seq(Data)
    BY SeqMonotonic DEF Data
  <1>3. \A x \in Data : <<x>> \in Seq(Data)
    OBVIOUS
  <1>4. QED
    BY <1>1, <1>2, <1>3 DEF OK, Err, End, Frame, Torn, Frames, Statuses, Data

\* The pairs of a range are a sequence of pairs.
LEMMA RangeType ==
  ASSUME StreamTypeOK, NEW r, NEW pairs \in RangeOf(r)
  PROVE  pairs \in Seq(Pairs)
  <1> DEFINE in == {k \in Keys : store[k] # Tombstone /\ r.lo <= k /\ k < r.hi}
  <1>1. Cardinality(in) \in Nat
    <2>1. IsFiniteSet(in)
      BY KeysAssumption, FS_Subset
    <2> HIDE DEF in
    <2> QED BY <2>1, FS_CardinalityType
  <1>2. PICK s \in [1 .. Cardinality(in) -> in] : pairs = [i \in DOMAIN s |-> <<s[i], store[s[i]]>>]
    BY DEF RangeOf
  <1>3. \A k \in in : <<k, store[k]>> \in Pairs
    BY DEF StreamTypeOK, Pairs
  <1> HIDE DEF in
  <1>4. pairs \in [1 .. Cardinality(in) -> Pairs]
    BY <1>2, <1>3
  <1>5. QED
    BY <1>1, <1>4, SeqDef

\* A pair has a positive number of bytes.
LEMMA EntryType == \A p \in Pairs : EntryBytes(p) \in Nat \ {0}
  <1> SUFFICES ASSUME NEW p \in Pairs PROVE EntryBytes(p) \in Nat \ {0}
    OBVIOUS
  <1>1. p[2] \in Values
    BY DEF Pairs
  <1>2. ValLen[p[2]] \in Nat
    BY <1>1, ValLenAssumption
  <1>3. QED
    BY <1>2 DEF EntryBytes

\* Appending a pair to a page appends its bytes to the body.
LEMMA PairBytesAppend ==
  ASSUME NEW page \in Seq(Pairs), NEW p \in Pairs, IsFiniteSet(PairBytes(page))
  PROVE  /\ IsFiniteSet(PairBytes(Append(page, p)))
         /\ Cardinality(PairBytes(Append(page, p)))
              = Cardinality(PairBytes(page)) + EntryBytes(p)
  <1> DEFINE n == Len(page) + 1
             new == {n} \X (1 .. EntryBytes(p))
  <1>1. /\ DOMAIN Append(page, p) = DOMAIN page \cup {n} /\ n \notin DOMAIN page
        /\ \A i \in DOMAIN page : Append(page, p)[i] = page[i]
        /\ Append(page, p)[n] = p
    BY AppendProperties, LenProperties
  <1>2. PairBytes(Append(page, p)) = PairBytes(page) \cup new
    <2> HIDE DEF n
    <2> QED BY <1>1 DEF PairBytes
  <1>3. PairBytes(page) \cap new = {}
    <2> HIDE DEF n
    <2> QED BY <1>1 DEF PairBytes
  <1>4. IsFiniteSet(1 .. EntryBytes(p)) /\ Cardinality(1 .. EntryBytes(p)) = EntryBytes(p)
    BY EntryType, FS_Interval
  <1>5. IsFiniteSet({n}) /\ Cardinality({n}) = 1
    BY FS_Singleton
  <1>6. IsFiniteSet(new) /\ Cardinality(new) = EntryBytes(p)
    BY <1>4, <1>5, FS_Product, EntryType, SMTT(30)
  <1>7. QED
    <2> HIDE DEF new
    <2>1. Cardinality({}) = 0
      BY FS_EmptySet
    <2>2. Cardinality(PairBytes(page)) \in Nat
      BY FS_CardinalityType
    <2>3. /\ IsFiniteSet(PairBytes(page) \cup new)
          /\ Cardinality(PairBytes(page) \cup new) = Cardinality(PairBytes(page))
               + Cardinality(new) - Cardinality(PairBytes(page) \cap new)
      BY <1>6, FS_Union
    <2>4. Cardinality(PairBytes(page) \cap new) = 0
      BY <1>3, <2>1
    <2>5. EntryBytes(p) \in Nat
      BY EntryType
    <2>6. Cardinality(PairBytes(page) \cup new) = Cardinality(PairBytes(page)) + EntryBytes(p)
      BY <1>6, <2>2, <2>3, <2>4, <2>5
    <2>7. QED
      BY <1>2, <2>3, <2>6

----------------------------------------------------------------------------
(* What the parts of a handler's step do to its state.                     *)

\* The handler goes to another step.
LEMMA GotoEffect ==
  ASSUME HandlerTypeOK, NEW c \in Conns, NEW q \in HandlerPcs, Goto(c, q)
  PROVE  /\ HandlerTypeOK'
         /\ h'[c].pc = q /\ h'[c].req = h[c].req /\ h'[c].resp = h[c].resp
         /\ h'[c].after = h[c].after
         /\ \A d \in Conns \ {c} : h'[d] = h[d]
  <1>1. h'[c] = [h[c] EXCEPT !.pc = q]
    BY DEF Goto, HandlerTypeOK
  <1>2. QED
    BY <1>1 DEF Goto, HandlerTypeOK

\* An answer is to be written.
LEMMA ReplyEffect ==
  ASSUME HandlerTypeOK, NEW c \in Conns, NEW f \in Frames,
         NEW l \in {"loop", "close"}, Reply(c, f, l)
  PROVE  /\ HandlerTypeOK'
         /\ h'[c].pc = "reply" /\ h'[c].req = h[c].req /\ h'[c].resp = f
         /\ h'[c].after = l
         /\ \A d \in Conns \ {c} : h'[d] = h[d]
  <1>1. h'[c] = [h[c] EXCEPT !.pc = "reply", !.resp = f, !.after = l]
    BY DEF Reply, HandlerTypeOK
  <1>2. "reply" \in HandlerPcs
    BY DEF HandlerPcs, AlivePcs
  <1>3. h'[c] \in HandlerRecord
    BY <1>1, <1>2, ZenonT(30) DEF HandlerTypeOK
  <1>4. QED
    BY <1>1, <1>3 DEF Reply, HandlerTypeOK

\* The answer is written: the handler goes on or returns, by way of the release
\* of its slot if it holds one.
LEMMA ReturnEffect ==
  ASSUME HandlerTypeOK, NEW c \in Conns, NEW l \in {"loop", "close"}, ReturnTo(c, l)
  PROVE  /\ HandlerTypeOK'
         /\ h'[c].pc = IF stream[c].held THEN "release" ELSE l
         /\ h'[c].req = NoRequest /\ h'[c].resp = Torn /\ h'[c].after = l
         /\ \A d \in Conns \ {c} : h'[d] = h[d]
  <1>1. h'[c] = [h[c] EXCEPT !.pc = IF stream[c].held THEN "release" ELSE l,
                             !.after = l, !.req = NoRequest, !.resp = Torn]
    BY DEF ReturnTo, HandlerTypeOK
  <1>2. Torn \in Frames
    BY FrameTypes
  <1>3. (IF stream[c].held THEN "release" ELSE l) \in HandlerPcs
    BY DEF HandlerPcs, AlivePcs
  <1>4. h'[c] \in HandlerRecord
    BY <1>1, <1>2, <1>3, ZenonT(30) DEF HandlerTypeOK
  <1>5. QED
    BY <1>1, <1>4 DEF ReturnTo, HandlerTypeOK

\* The other fields of a connection when the frames on their way change.
LEMMA OutEffect ==
  ASSUME NetTypeOK, NEW c \in Conns, NEW s \in Seq(Frames), net' = [net EXCEPT ![c].out = s]
  PROVE  /\ NetTypeOK'
         /\ net'[c].out = s /\ net'[c].in = net[c].in /\ net'[c].state = net[c].state
         /\ net'[c].peer = net[c].peer /\ net'[c].srv = net[c].srv
         /\ \A d \in Conns \ {c} : net'[d] = net[d]
  <1>1. net'[c] = [net[c] EXCEPT !.out = s]
    BY DEF NetTypeOK
  <1>2. QED
    BY <1>1, ZenonT(30) DEF NetTypeOK

\* The same for the requests on their way.
LEMMA InEffect ==
  ASSUME NetTypeOK, NEW c \in Conns, NEW s \in Seq(Sent), net' = [net EXCEPT ![c].in = s]
  PROVE  /\ NetTypeOK'
         /\ net'[c].in = s /\ net'[c].out = net[c].out /\ net'[c].state = net[c].state
         /\ net'[c].peer = net[c].peer /\ net'[c].srv = net[c].srv
         /\ \A d \in Conns \ {c} : net'[d] = net[d]
  <1>1. net'[c] = [net[c] EXCEPT !.in = s]
    BY DEF NetTypeOK
  <1>2. QED
    BY <1>1, ZenonT(30) DEF NetTypeOK

\* A whole frame is written.
LEMMA WrittenEffect ==
  ASSUME NetTypeOK, NEW c \in Conns, NEW f \in Frames, Written(c, f)
  PROVE  /\ NetTypeOK'
         /\ net'[c].out = IF net[c].peer THEN Append(net[c].out, f) ELSE net[c].out
         /\ net'[c].in = net[c].in /\ net'[c].state = net[c].state
         /\ net'[c].peer = net[c].peer /\ net'[c].srv = net[c].srv
         /\ \A d \in Conns \ {c} : net'[d] = net[d]
  <1> DEFINE s == IF net[c].peer THEN Append(net[c].out, f) ELSE net[c].out
  <1>1. s \in Seq(Frames)
    BY AppendProperties DEF NetTypeOK
  <1>2. net' = [net EXCEPT ![c].out = s]
    BY DEF Written
  <1> HIDE DEF s
  <1>3. QED
    BY <1>1, <1>2, OutEffect DEF s

\* A write fails, with part of the frame on the wire or none of it.
LEMMA WriteFailsEffect ==
  ASSUME NetTypeOK, NEW c \in Conns, WriteFails(c)
  PROVE  /\ NetTypeOK'
         /\ net'[c].out \in {net[c].out, Append(net[c].out, Torn)}
         /\ net'[c].in = net[c].in /\ net'[c].state = net[c].state
         /\ net'[c].peer = net[c].peer /\ net'[c].srv = net[c].srv
         /\ \A d \in Conns \ {c} : net'[d] = net[d]
  <1>1. CASE UNCHANGED net
    BY <1>1 DEF NetTypeOK
  <1>2. CASE net' = [net EXCEPT ![c].out = Append(@, Torn)]
    <2>1. Append(net[c].out, Torn) \in Seq(Frames)
      BY FrameTypes, AppendProperties DEF NetTypeOK
    <2>2. QED
      BY <1>2, <2>1, OutEffect
  <1>3. QED
    BY <1>1, <1>2 DEF WriteFails

----------------------------------------------------------------------------
(* Steps of one handler.                                                   *)

\* A step of a handler that goes on changes neither the set of handlers nor
\* what Shutdown waits for.
LEMMA HandlerOnly ==
  ASSUME ServerInd, main # "exited", NEW c \in Conns, UNCHANGED lifeVars,
         h[c].pc \in AlivePcs \ {"done"}, h'[c].pc \in AlivePcs \ {"done"},
         \A d \in Conns \ {c} : h'[d] = h[d],
         \A d \in Conns : net'[d].state = net[d].state
  PROVE  HandlersInv' /\ DrainInv'
  <1>1. Live' = Live /\ c \in Live
    BY DEF Live
  <1>2. HandlersInv'
    <2>1. \A d \in Conns : d # c => h'[d].pc = h[d].pc
      OBVIOUS
    <2>2. \A d \in Conns : h'[d].pc \in AlivePcs \ {"done"} <=> h[d].pc \in AlivePcs \ {"done"}
      BY <2>1
    <2>3. conns' = {d \in Conns : h'[d].pc \in AlivePcs \ {"done"}}
      BY <2>2 DEF ServerInd, HandlersInv
    <2>4. \A d \in Conns : h[d].pc = "none" => h'[d].pc = "none"
      BY <2>1 DEF AlivePcs
    <2>5. QED
      BY <1>1, <2>3, <2>4 DEF ServerInd, HandlersInv
  <1>3. DrainInv'
    BY <1>1 DEF ServerInd, DrainInv
  <1>4. QED
    BY <1>2, <1>3

\* The slots are accounted for if the handler moves and no slot does.
LEMMA SlotsKept ==
  ASSUME ServerInd, NEW c \in Conns, UNCHANGED <<stream, sem>>, main # "exited",
         \A d \in Conns \ {c} : h'[d] = h[d],
         stream[c].held => h'[c].pc \in {"scan", "reply", "release"},
         h'[c].pc \in {"scan", "release"} => stream[c].held
  PROVE  SlotsInv'
  BY DEF ServerInd, SlotsInv, Streams

\* Nothing is cut short if the handler writes nothing, or a whole frame.
LEMMA FramingKeptOn ==
  ASSUME ServerInd, NEW c \in Conns,
         \A d \in Conns \ {c} : h'[d] = h[d] /\ net'[d].out = net[d].out,
         h'[c].pc = "reply" => h'[c].resp.st # "torn",
         \/ net'[c].out = net[c].out /\ (Leaving(c) => Leaving(c)')
         \/ \E f \in Frames : net'[c].out = Append(net[c].out, f) /\ f.st # "torn" /\ ~Leaving(c)
         \/ net'[c].out = Append(net[c].out, Torn) /\ ~Leaving(c) /\ Leaving(c)'
  PROVE  FramingInv'
  <1>1. ASSUME NEW d \in Conns, d # c
        PROVE  /\ h'[d].pc = "reply" => h'[d].resp.st # "torn"
               /\ \A i \in DOMAIN net'[d].out :
                    net'[d].out[i] = Torn => i = Len(net'[d].out) /\ Leaving(d)'
    BY <1>1 DEF ServerInd, FramingInv, Leaving
  <1>2. \A i \in DOMAIN net'[c].out :
          net'[c].out[i] = Torn => i = Len(net'[c].out) /\ Leaving(c)'
    <2>1. CASE net'[c].out = net[c].out /\ (Leaving(c) => Leaving(c)')
      BY <2>1 DEF ServerInd, FramingInv
    <2>2. net[c].out \in Seq(Frames)
      BY DEF ServerInd, ServerTypeOK, NetTypeOK
    <2>3. ASSUME NEW f \in Frames, net'[c].out = Append(net[c].out, f), ~Leaving(c),
                 f # Torn \/ Leaving(c)'
          PROVE  \A i \in DOMAIN net'[c].out :
                   net'[c].out[i] = Torn => i = Len(net'[c].out) /\ Leaving(c)'
      <3> DEFINE s == net[c].out
                 t == net'[c].out
      <3>1. /\ DOMAIN s = 1 .. Len(s) /\ DOMAIN t = 1 .. Len(s) + 1 /\ Len(t) = Len(s) + 1
            /\ Len(s) \in Nat /\ \A i \in 1 .. Len(s) : t[i] = s[i]
            /\ t[Len(s) + 1] = f
        BY <2>2, <2>3, AppendProperties, LenProperties
      <3>2. \A i \in DOMAIN s : s[i] # Torn
        BY <2>3 DEF ServerInd, FramingInv
      <3>3. QED
        BY <2>3, <3>1, <3>2
    <2>4. Torn \in Frames /\ Torn.st = "torn"
      BY FrameTypes DEF Torn, Frame
    <2>5. QED
      BY <2>1, <2>3, <2>4
  <1>3. QED
    BY <1>1, <1>2 DEF FramingInv

\* The bytes of an empty page.
LEMMA NewPage == IsFiniteSet(PairBytes(<<>>)) /\ Cardinality(PairBytes(<<>>)) = 0
  <1>1. PairBytes(<<>>) = {}
    BY DEF PairBytes
  <1>2. QED
    BY <1>1, FS_EmptySet

\* The streams that hold slots are handlers, and finitely many.
LEMMA StreamsFinite ==
  ASSUME ServerInd, main # "exited"
  PROVE  IsFiniteSet(Streams) /\ sem = Cardinality(Streams)
  <1>1. Streams \in SUBSET Live
    BY DEF ServerInd, SlotsInv, Streams, Live, AlivePcs
  <1>2. QED
    BY <1>1, FS_Subset DEF ServerInd, SlotsInv, HandlersInv

\* A stream that begins takes a slot.
LEMMA SlotTaken ==
  ASSUME ServerInd, main # "exited", NEW c \in Conns, ~stream[c].held, UNCHANGED main,
         NEW s, stream' = [stream EXCEPT ![c] = s], s.held = TRUE, sem' = sem + 1,
         h'[c].pc \in {"scan", "reply", "release"},
         \A d \in Conns \ {c} : h'[d] = h[d]
  PROVE  SlotsInv'
  <1>1. /\ stream'[c].held = TRUE
        /\ \A d \in Conns \ {c} : stream'[d] = stream[d]
    BY DEF ServerInd, ServerTypeOK, StreamTypeOK
  <1>2. Streams' = Streams \cup {c} /\ c \notin Streams
    BY <1>1 DEF Streams
  <1>3. Cardinality(Streams \cup {c}) = Cardinality(Streams) + 1
    BY <1>2, StreamsFinite, FS_AddElement
  <1>4. QED
    BY <1>1, <1>2, <1>3, StreamsFinite DEF ServerInd, SlotsInv

\* The slot of a stream is one of those in use.
LEMMA SlotHeld ==
  ASSUME ServerInd, main # "exited", NEW c \in Conns, stream[c].held
  PROVE  sem - 1 \in Nat /\ Cardinality(Streams \ {c}) = sem - 1
  <1>1. c \in Streams
    BY DEF Streams
  <1>2. Cardinality(Streams \ {c}) = Cardinality(Streams) - 1 /\ IsFiniteSet(Streams \ {c})
    BY <1>1, StreamsFinite, FS_RemoveElement
  <1>3. Cardinality(Streams \ {c}) \in Nat
    BY <1>2, FS_CardinalityType
  <1>4. QED
    BY <1>2, <1>3, StreamsFinite

\* The deferred release gives the slot back.
LEMMA SlotGiven ==
  ASSUME ServerInd, main # "exited", NEW c \in Conns, stream[c].held, UNCHANGED main,
         stream' = [stream EXCEPT ![c] = NoStream], sem' = sem - 1,
         h'[c].pc \in {"loop", "close"},
         \A d \in Conns \ {c} : h'[d] = h[d]
  PROVE  SlotsInv'
  <1>1. /\ stream'[c].held = FALSE
        /\ \A d \in Conns \ {c} : stream'[d] = stream[d]
    BY DEF ServerInd, ServerTypeOK, StreamTypeOK, NoStream
  <1>2. Streams' = Streams \ {c}
    BY <1>1 DEF Streams
  <1>3. QED
    BY <1>1, <1>2, SlotHeld DEF ServerInd, SlotsInv

\* A range request: refused with OVERLOAD, or a stream begins with an empty
\* page, or with the engine's error.
LEMMA RangeBeginEffect ==
  ASSUME ServerInd, NEW c \in Conns, RangeBegin(c)
  PROVE  \/ /\ UNCHANGED <<sem, stream>>
            /\ Reply(c, Err("OVERLOAD", h[c].req.n), "loop")
         \/ /\ sem' = sem + 1
            /\ \E s \in StreamRecord :
                 /\ stream' = [stream EXCEPT ![c] = s]
                 /\ s.held = TRUE /\ s.page = <<>> /\ s.bytes = 0 /\ s.sent = 0
            /\ \/ Goto(c, "scan")
               \/ \E st \in EngineErrors(h[c].req) : Reply(c, Err(st, h[c].req.n), "loop")
  <1>1. ASSUME NEW pairs \in Seq(Pairs)
        PROVE  LET s == [NoStream EXCEPT !.todo = pairs, !.snap = pairs, !.held = TRUE]
               IN  /\ s \in StreamRecord
                   /\ s.held = TRUE /\ s.page = <<>> /\ s.bytes = 0 /\ s.sent = 0
    BY EmptySeq DEF NoStream
  <1>2. LET s == [NoStream EXCEPT !.held = TRUE]
        IN  /\ s \in StreamRecord
            /\ s.held = TRUE /\ s.page = <<>> /\ s.bytes = 0 /\ s.sent = 0
    BY EmptySeq DEF NoStream
  <1>3. CASE sem >= MaxStreams
    BY <1>3 DEF RangeBegin
  <1>4. CASE ~(sem >= MaxStreams)
    <2>1. CASE \E pairs \in RangeOf(h[c].req) :
                 stream' = [stream EXCEPT ![c] =
                   [NoStream EXCEPT !.todo = pairs, !.snap = pairs, !.held = TRUE]]
      <3>1. PICK pairs \in RangeOf(h[c].req) :
                 stream' = [stream EXCEPT ![c] =
                   [NoStream EXCEPT !.todo = pairs, !.snap = pairs, !.held = TRUE]]
        BY <2>1
      <3>2. pairs \in Seq(Pairs)
        BY RangeType DEF ServerInd, ServerTypeOK
      <3>3. \E s \in StreamRecord :
                 /\ stream' = [stream EXCEPT ![c] = s]
                 /\ s.held = TRUE /\ s.page = <<>> /\ s.bytes = 0 /\ s.sent = 0
        BY <1>1, <3>1, <3>2
      <3>4. QED
        BY <1>4, <3>3 DEF RangeBegin
    <2>2. CASE stream' = [stream EXCEPT ![c] = [NoStream EXCEPT !.held = TRUE]]
      <3>1. \E s \in StreamRecord :
                 /\ stream' = [stream EXCEPT ![c] = s]
                 /\ s.held = TRUE /\ s.page = <<>> /\ s.bytes = 0 /\ s.sent = 0
        BY <1>2, <2>2
      <3>2. QED
        BY <1>4, <3>1 DEF RangeBegin
    <2>3. QED
      BY <1>4, <2>1, <2>2 DEF RangeBegin
  <1>5. QED
    BY <1>3, <1>4

\* A step of a handler between its start and the last of its deferred calls.
LEMMA HandlerGoesOn ==
  ASSUME ServerInd, main # "exited", NEW c \in Conns,
         \/ Loop(c) \/ ArmDeadline(c) \/ ReadRequest(c) \/ ReadEnds(c)
         \/ ExecWrite(c) \/ ExecGet(c) \/ ExecPingStats(c)
         \/ RangeBegin(c) \/ ScanPair(c) \/ Flush(c) \/ FlushFail(c) \/ StreamEnd(c)
         \/ WriteReply(c) \/ WriteReplyFail(c) \/ Release(c) \/ CloseConn(c)
  PROVE  ServerInd'
  <1> USE DEF ServerInd, ServerTypeOK
  <1>1. CASE Loop(c)
    <2>1. /\ HandlerTypeOK' /\ h'[c].pc \in {"reply", "arm"}
          /\ \A d \in Conns \ {c} : h'[d] = h[d]
          /\ h'[c].pc = "reply" => h'[c].resp.st # "torn"
      <3>1. CASE draining
        <4>1. Err("CLOSED", 0) \in Frames /\ Err("CLOSED", 0).st # "torn"
          BY FrameTypes DEF Err, Frame, Statuses
        <4>2. QED
          BY <1>1, <3>1, <4>1, ReplyEffect DEF Loop
      <3>2. CASE ~draining
        BY <1>1, <3>2, GotoEffect DEF Loop, HandlerPcs, AlivePcs
      <3>3. QED
        BY <3>1, <3>2
    <2>2. /\ NetTypeOK' /\ \A d \in Conns : net'[d].state = net[d].state
          /\ \A d \in Conns \ {c} : net'[d].out = net[d].out
          /\ net'[c].out = net[c].out
      BY <1>1 DEF Loop, NetTypeOK
    <2>3. LifeTypeOK'
      BY <1>1 DEF Loop, LifeTypeOK
    <2>4. StreamTypeOK'
      BY <1>1 DEF Loop, StreamTypeOK
    <2>5. HandlersInv' /\ DrainInv'
      BY <1>1, <2>1, <2>2, HandlerOnly DEF Loop, AlivePcs
    <2>6. SlotsInv'
      BY <1>1, <2>1, SlotsKept DEF Loop, SlotsInv
    <2>7. CapInv'
      BY <1>1 DEF Loop, CapInv
    <2>8. FramingInv'
      BY <1>1, <2>1, <2>2, FramingKeptOn DEF Loop, Leaving
    <2>9. QED
      BY <2>1, <2>2, <2>3, <2>4, <2>5, <2>6, <2>7, <2>8
  <1>2. CASE ArmDeadline(c)
    <2>1. /\ HandlerTypeOK' /\ h'[c].pc \in {"read", "close"}
          /\ \A d \in Conns \ {c} : h'[d] = h[d]
      <3>1. h'[c] = [h[c] EXCEPT !.pc = IF net[c].srv THEN "read" ELSE "close", !.rdl = "future"]
        BY <1>2 DEF ArmDeadline, HandlerTypeOK
      <3>2. "read" \in HandlerPcs /\ "close" \in HandlerPcs
        BY DEF HandlerPcs, AlivePcs
      <3>3. h'[c] \in HandlerRecord
        BY <3>1, <3>2 DEF HandlerTypeOK
      <3>4. h'[c].pc \in {"read", "close"}
        BY <3>1 DEF HandlerTypeOK
      <3>5. QED
        BY <1>2, <3>3, <3>4 DEF ArmDeadline, HandlerTypeOK
    <2>2. /\ NetTypeOK' /\ \A d \in Conns : net'[d].state = net[d].state
          /\ \A d \in Conns \ {c} : net'[d].out = net[d].out
          /\ net'[c].out = net[c].out
      BY <1>2 DEF ArmDeadline, NetTypeOK
    <2>3. LifeTypeOK'
      BY <1>2 DEF ArmDeadline, LifeTypeOK
    <2>4. StreamTypeOK'
      BY <1>2 DEF ArmDeadline, StreamTypeOK
    <2>5. HandlersInv' /\ DrainInv'
      BY <1>2, <2>1, <2>2, HandlerOnly DEF ArmDeadline, AlivePcs
    <2>6. SlotsInv'
      BY <1>2, <2>1, SlotsKept DEF ArmDeadline, SlotsInv
    <2>7. CapInv'
      BY <1>2 DEF ArmDeadline, CapInv
    <2>8. FramingInv'
      BY <1>2, <2>1, <2>2, FramingKeptOn DEF ArmDeadline, Leaving
    <2>9. QED
      BY <2>1, <2>2, <2>3, <2>4, <2>5, <2>6, <2>7, <2>8
  <1>3. CASE ReadRequest(c)
    <2>1. /\ HandlerTypeOK' /\ h'[c].pc \in {"close", "reply", "exec"}
          /\ \A d \in Conns \ {c} : h'[d] = h[d]
          /\ h'[c].pc = "reply" => h'[c].resp.st # "torn"
      <3> DEFINE r == Head(net[c].in)
                 q == CASE r.op = "garbage" -> "close" [] r.op = "malformed" -> "reply" [] OTHER -> "exec"
                 f == IF r.op = "malformed" THEN Err("BAD_REQUEST", r.n) ELSE h[c].resp
      <3>1. r \in Sent
        BY <1>3, HeadTailProperties DEF ReadRequest, NetTypeOK
      <3>2. q \in {"close", "reply", "exec"} /\ (q = "reply" => r.op = "malformed")
        OBVIOUS
      <3>3. f \in Frames /\ (r.op = "malformed" => f.st # "torn")
        BY <3>1, SentFacts, FrameTypes DEF HandlerTypeOK, Err, Frame, Statuses
      <3>4. h' = [h EXCEPT ![c].req = r, ![c].pc = q, ![c].resp = f, ![c].after = "loop"]
        BY <1>3 DEF ReadRequest
      <3> HIDE DEF r, q, f
      <3>5. h'[c] = [h[c] EXCEPT !.req = r, !.pc = q, !.resp = f, !.after = "loop"]
        BY <3>4 DEF HandlerTypeOK
      <3>6. q \in HandlerPcs
        BY <3>2 DEF HandlerPcs, AlivePcs
      <3>7. h'[c] \in HandlerRecord
        BY <3>1, <3>3, <3>5, <3>6 DEF HandlerTypeOK
      <3>8. h'[c].pc = q /\ h'[c].resp = f
        BY <3>5 DEF HandlerTypeOK
      <3>9. QED
        BY <3>2, <3>3, <3>4, <3>7, <3>8 DEF HandlerTypeOK
    <2>2. /\ NetTypeOK' /\ \A d \in Conns : net'[d].state = net[d].state
          /\ \A d \in Conns \ {c} : net'[d].out = net[d].out
          /\ net'[c].out = net[c].out
      <3>1. Tail(net[c].in) \in Seq(Sent)
        BY <1>3, HeadTailProperties DEF ReadRequest, NetTypeOK
      <3>2. QED
        BY <1>3, <3>1, InEffect, ZenonT(30) DEF ReadRequest
    <2>3. LifeTypeOK'
      BY <1>3 DEF ReadRequest, LifeTypeOK
    <2>4. StreamTypeOK'
      BY <1>3 DEF ReadRequest, StreamTypeOK
    <2>5. HandlersInv' /\ DrainInv'
      BY <1>3, <2>1, <2>2, HandlerOnly, ZenonT(30) DEF ReadRequest, AlivePcs
    <2>6. SlotsInv'
      BY <1>3, <2>1, SlotsKept, ZenonT(30) DEF ReadRequest, SlotsInv
    <2>7. CapInv'
      BY <1>3 DEF ReadRequest, CapInv
    <2>8. FramingInv'
      BY <1>3, <2>1, <2>2, FramingKeptOn, ZenonT(30) DEF ReadRequest, Leaving
    <2>9. QED
      BY <2>1, <2>2, <2>3, <2>4, <2>5, <2>6, <2>7, <2>8
  <1>4. CASE ReadEnds(c)
    <2>1. /\ HandlerTypeOK' /\ h'[c].pc \in {"close"}
          /\ \A d \in Conns \ {c} : h'[d] = h[d]
      BY <1>4, GotoEffect DEF ReadEnds, HandlerPcs, AlivePcs
    <2>2. /\ NetTypeOK' /\ \A d \in Conns : net'[d].state = net[d].state
          /\ \A d \in Conns \ {c} : net'[d].out = net[d].out
          /\ net'[c].out = net[c].out
      BY <1>4 DEF ReadEnds, NetTypeOK
    <2>3. LifeTypeOK'
      BY <1>4 DEF ReadEnds, LifeTypeOK
    <2>4. StreamTypeOK'
      BY <1>4 DEF ReadEnds, StreamTypeOK
    <2>5. HandlersInv' /\ DrainInv'
      BY <1>4, <2>1, <2>2, HandlerOnly DEF ReadEnds, AlivePcs
    <2>6. SlotsInv'
      BY <1>4, <2>1, SlotsKept DEF ReadEnds, SlotsInv
    <2>7. CapInv'
      BY <1>4 DEF ReadEnds, CapInv
    <2>8. FramingInv'
      BY <1>4, <2>1, <2>2, FramingKeptOn DEF ReadEnds, Leaving
    <2>9. QED
      BY <2>1, <2>2, <2>3, <2>4, <2>5, <2>6, <2>7, <2>8
  <1>5. CASE ExecWrite(c)
    <2>1. /\ HandlerTypeOK' /\ h'[c].pc \in {"reply"}
          /\ \A d \in Conns \ {c} : h'[d] = h[d]
          /\ h'[c].pc = "reply" => h'[c].resp.st # "torn"
      <3>1. h[c].req.n \in Nat
        BY SentFacts DEF HandlerTypeOK, NoRequest
      <3>2. /\ OK(h[c].req.n) \in Frames /\ OK(h[c].req.n).st # "torn"
            /\ \A st \in EngineErrors(h[c].req) :
                 Err(st, h[c].req.n) \in Frames /\ Err(st, h[c].req.n).st # "torn"
        BY <3>1, FrameTypes DEF OK, Err, Frame, Statuses, EngineErrors
      <3>3. QED
        BY <1>5, <3>2, ReplyEffect DEF ExecWrite
    <2>2. /\ NetTypeOK' /\ \A d \in Conns : net'[d].state = net[d].state
          /\ \A d \in Conns \ {c} : net'[d].out = net[d].out
          /\ net'[c].out = net[c].out
      BY <1>5 DEF ExecWrite, NetTypeOK
    <2>3. LifeTypeOK'
      BY <1>5 DEF ExecWrite, LifeTypeOK
    <2>4. StreamTypeOK'
      <3>1. Apply(h[c].req) \in [Keys -> Values \cup {Tombstone}]
        BY <1>5, SentFacts DEF ExecWrite, HandlerTypeOK, NoRequest, Writes, Apply, StreamTypeOK
      <3>2. QED
        BY <1>5, <3>1 DEF ExecWrite, StreamTypeOK
    <2>5. HandlersInv' /\ DrainInv'
      BY <1>5, <2>1, <2>2, HandlerOnly DEF ExecWrite, AlivePcs
    <2>6. SlotsInv'
      BY <1>5, <2>1, SlotsKept DEF ExecWrite, SlotsInv
    <2>7. CapInv'
      BY <1>5 DEF ExecWrite, CapInv
    <2>8. FramingInv'
      BY <1>5, <2>1, <2>2, FramingKeptOn DEF ExecWrite, Leaving
    <2>9. QED
      BY <2>1, <2>2, <2>3, <2>4, <2>5, <2>6, <2>7, <2>8
  <1>6. CASE ExecGet(c)
    <2>1. /\ HandlerTypeOK' /\ h'[c].pc \in {"reply"}
          /\ \A d \in Conns \ {c} : h'[d] = h[d]
          /\ h'[c].pc = "reply" => h'[c].resp.st # "torn"
      <3>1. h[c].req.n \in Nat
        BY SentFacts DEF HandlerTypeOK, NoRequest
      <3>2. h[c].req.key \in Keys
        BY <1>6, SentFacts DEF ExecGet, HandlerTypeOK, NoRequest
      <3>3. \A st \in EngineErrors(h[c].req) \cup {"NOT_FOUND"} :
              Err(st, h[c].req.n) \in Frames /\ Err(st, h[c].req.n).st # "torn"
        BY <3>1, FrameTypes DEF Err, Frame, Statuses, EngineErrors
      <3>4. store[h[c].req.key] # Tombstone =>
              /\ Frame("OK", "value", <<store[h[c].req.key]>>, h[c].req.n) \in Frames
              /\ Frame("OK", "value", <<store[h[c].req.key]>>, h[c].req.n).st # "torn"
        BY <3>1, <3>2, FrameTypes DEF Frame, StreamTypeOK
      <3>5. QED
        BY <1>6, <3>3, <3>4, ReplyEffect DEF ExecGet
    <2>2. /\ NetTypeOK' /\ \A d \in Conns : net'[d].state = net[d].state
          /\ \A d \in Conns \ {c} : net'[d].out = net[d].out
          /\ net'[c].out = net[c].out
      BY <1>6 DEF ExecGet, NetTypeOK
    <2>3. LifeTypeOK'
      BY <1>6 DEF ExecGet, LifeTypeOK
    <2>4. StreamTypeOK'
      BY <1>6 DEF ExecGet, StreamTypeOK
    <2>5. HandlersInv' /\ DrainInv'
      BY <1>6, <2>1, <2>2, HandlerOnly DEF ExecGet, AlivePcs
    <2>6. SlotsInv'
      BY <1>6, <2>1, SlotsKept DEF ExecGet, SlotsInv
    <2>7. CapInv'
      BY <1>6 DEF ExecGet, CapInv
    <2>8. FramingInv'
      BY <1>6, <2>1, <2>2, FramingKeptOn DEF ExecGet, Leaving
    <2>9. QED
      BY <2>1, <2>2, <2>3, <2>4, <2>5, <2>6, <2>7, <2>8
  <1>7. CASE ExecPingStats(c)
    <2>1. /\ HandlerTypeOK' /\ h'[c].pc \in {"reply"}
          /\ \A d \in Conns \ {c} : h'[d] = h[d]
          /\ h'[c].pc = "reply" => h'[c].resp.st # "torn"
      <3> DEFINE live == {k \in Keys : store[k] # Tombstone}
      <3>1. h[c].req.n \in Nat
        BY SentFacts DEF HandlerTypeOK, NoRequest
      <3>2. Cardinality(live) \in Nat
        <4>1. IsFiniteSet(live)
          BY KeysAssumption, FS_Subset
        <4> HIDE DEF live
        <4>2. QED
          BY <4>1, FS_CardinalityType
      <3>3. /\ OK(h[c].req.n) \in Frames /\ OK(h[c].req.n).st # "torn"
            /\ Frame("OK", "count", <<Cardinality(live)>>, h[c].req.n) \in Frames
            /\ Frame("OK", "count", <<Cardinality(live)>>, h[c].req.n).st # "torn"
        <4> HIDE DEF live
        <4> QED BY <3>1, <3>2, FrameTypes DEF OK, Frame
      <3>4. QED
        BY <1>7, <3>3, ReplyEffect DEF ExecPingStats
    <2>2. /\ NetTypeOK' /\ \A d \in Conns : net'[d].state = net[d].state
          /\ \A d \in Conns \ {c} : net'[d].out = net[d].out
          /\ net'[c].out = net[c].out
      BY <1>7 DEF ExecPingStats, NetTypeOK
    <2>3. LifeTypeOK'
      BY <1>7 DEF ExecPingStats, LifeTypeOK
    <2>4. StreamTypeOK'
      BY <1>7 DEF ExecPingStats, StreamTypeOK
    <2>5. HandlersInv' /\ DrainInv'
      BY <1>7, <2>1, <2>2, HandlerOnly DEF ExecPingStats, AlivePcs
    <2>6. SlotsInv'
      BY <1>7, <2>1, SlotsKept DEF ExecPingStats, SlotsInv
    <2>7. CapInv'
      BY <1>7 DEF ExecPingStats, CapInv
    <2>8. FramingInv'
      BY <1>7, <2>1, <2>2, FramingKeptOn DEF ExecPingStats, Leaving
    <2>9. QED
      BY <2>1, <2>2, <2>3, <2>4, <2>5, <2>6, <2>7, <2>8
  <1>8. CASE RangeBegin(c)
    <2>1. /\ HandlerTypeOK' /\ h'[c].pc \in {"reply", "scan"}
          /\ \A d \in Conns \ {c} : h'[d] = h[d]
          /\ h'[c].pc = "reply" => h'[c].resp.st # "torn"
      <3>1. h[c].req.n \in Nat
        BY SentFacts DEF HandlerTypeOK, NoRequest
      <3>2. \A st \in EngineErrors(h[c].req) \cup {"OVERLOAD"} :
              Err(st, h[c].req.n) \in Frames /\ Err(st, h[c].req.n).st # "torn"
        BY <3>1, FrameTypes DEF Err, Frame, Statuses, EngineErrors
      <3>3. "scan" \in HandlerPcs
        BY DEF HandlerPcs, AlivePcs
      <3>4. CASE Goto(c, "scan")
        BY <3>3, <3>4, GotoEffect
      <3>5. ASSUME NEW st \in EngineErrors(h[c].req) \cup {"OVERLOAD"}, Reply(c, Err(st, h[c].req.n), "loop")
            PROVE  /\ HandlerTypeOK' /\ h'[c].pc \in {"reply", "scan"}
                   /\ \A d \in Conns \ {c} : h'[d] = h[d]
                   /\ h'[c].pc = "reply" => h'[c].resp.st # "torn"
        BY <3>2, <3>5, ReplyEffect
      <3>6. QED
        BY <1>8, <3>4, <3>5, RangeBeginEffect
    <2>2. /\ NetTypeOK' /\ \A d \in Conns : net'[d].state = net[d].state
          /\ \A d \in Conns \ {c} : net'[d].out = net[d].out
          /\ net'[c].out = net[c].out
      BY <1>8 DEF RangeBegin, NetTypeOK
    <2>3. LifeTypeOK'
      <3>1. sem' \in {sem, sem + 1}
        BY <1>8, RangeBeginEffect
      <3>2. UNCHANGED <<dbOpen, lifeVars>>
        BY <1>8 DEF RangeBegin
      <3>3. QED
        BY <3>1, <3>2 DEF LifeTypeOK
    <2>4. StreamTypeOK'
      BY <1>8, RangeBeginEffect DEF RangeBegin, StreamTypeOK
    <2>5. HandlersInv' /\ DrainInv'
      BY <1>8, <2>1, <2>2, HandlerOnly DEF RangeBegin, AlivePcs
    <2>6. SlotsInv'
      <3>1. CASE UNCHANGED <<sem, stream>> /\ Reply(c, Err("OVERLOAD", h[c].req.n), "loop")
        <4>1. h'[c].pc = "reply"
          BY <3>1 DEF Reply, HandlerTypeOK
        <4>2. QED
          BY <1>8, <2>1, <3>1, <4>1, SlotsKept DEF RangeBegin
      <3>2. CASE /\ sem' = sem + 1
                 /\ \E s \in StreamRecord : stream' = [stream EXCEPT ![c] = s] /\ s.held = TRUE
        <4>1. h[c].pc = "exec" /\ UNCHANGED main
          BY <1>8 DEF RangeBegin
        <4>2. ~stream[c].held
          BY <4>1 DEF SlotsInv
        <4>3. QED
          BY <2>1, <3>2, <4>1, <4>2, SlotTaken
      <3>3. QED
        BY <1>8, <3>1, <3>2, RangeBeginEffect
    <2>7. CapInv'
      <3>1. CASE UNCHANGED stream
        BY <3>1 DEF CapInv
      <3>2. CASE \E s \in StreamRecord : /\ stream' = [stream EXCEPT ![c] = s]
                                        /\ s.page = <<>> /\ s.bytes = 0 /\ s.sent = 0
        <4>1. /\ stream'[c].page = <<>> /\ stream'[c].bytes = 0 /\ stream'[c].sent = 0
              /\ \A d \in Conns \ {c} : stream'[d] = stream[d]
          BY <3>2 DEF StreamTypeOK
        <4>2. QED
          BY <4>1, NewPage, LimitsAssumption DEF CapInv
      <3>3. QED
        BY <1>8, <3>1, <3>2, RangeBeginEffect
    <2>8. FramingInv'
      BY <1>8, <2>1, <2>2, FramingKeptOn DEF RangeBegin, Leaving
    <2>9. QED
      BY <2>1, <2>2, <2>3, <2>4, <2>5, <2>6, <2>7, <2>8
  <1>9. CASE ScanPair(c)
    <2>1. /\ HandlerTypeOK' /\ h'[c].pc \in {"scan"}
          /\ \A d \in Conns \ {c} : h'[d] = h[d]
      BY <1>9 DEF ScanPair, HandlerTypeOK
    <2>2. /\ NetTypeOK' /\ \A d \in Conns : net'[d].state = net[d].state
          /\ \A d \in Conns \ {c} : net'[d].out = net[d].out
          /\ net'[c].out = net[c].out
      BY <1>9 DEF ScanPair, NetTypeOK
    <2>3. LifeTypeOK'
      BY <1>9 DEF ScanPair, LifeTypeOK
    <2>4. StreamTypeOK'
      <3> DEFINE p == Head(stream[c].todo)
      <3>1. p \in Pairs /\ Tail(stream[c].todo) \in Seq(Pairs)
        BY <1>9, HeadTailProperties DEF ScanPair, ScanOver, StreamTypeOK
      <3>2. Append(stream[c].page, p) \in Seq(Pairs) /\ stream[c].bytes + EntryBytes(p) \in Nat
        BY <3>1, AppendProperties, EntryType DEF StreamTypeOK
      <3> HIDE DEF p
      <3>3. stream' \in {[stream EXCEPT ![c].over = TRUE],
                         [stream EXCEPT ![c].page = Append(@, p), ![c].bytes = @ + EntryBytes(p),
                                        ![c].todo = Tail(@)]}
        BY <1>9 DEF ScanPair, p
      <3>4. CASE stream' = [stream EXCEPT ![c].over = TRUE]
        <4>1. stream'[c] = [stream[c] EXCEPT !.over = TRUE]
          BY <3>4 DEF StreamTypeOK
        <4>2. stream'[c] \in StreamRecord
          BY <4>1 DEF StreamTypeOK
        <4>3. QED
          BY <1>9, <3>4, <4>2 DEF ScanPair, StreamTypeOK
      <3>5. CASE stream' = [stream EXCEPT ![c].page = Append(@, p), ![c].bytes = @ + EntryBytes(p),
                                          ![c].todo = Tail(@)]
        <4>1. stream'[c] = [stream[c] EXCEPT !.page = Append(stream[c].page, p),
                               !.bytes = stream[c].bytes + EntryBytes(p), !.todo = Tail(stream[c].todo)]
          BY <3>5 DEF StreamTypeOK
        <4>2. stream'[c] \in StreamRecord
          BY <3>1, <3>2, <4>1 DEF StreamTypeOK
        <4>3. QED
          BY <1>9, <3>5, <4>2 DEF ScanPair, StreamTypeOK
      <3>6. QED
        BY <3>3, <3>4, <3>5
    <2>5. HandlersInv' /\ DrainInv'
      BY <1>9, <2>1, <2>2, HandlerOnly DEF ScanPair, AlivePcs
    <2>6. SlotsInv'
      <3>1. \A d \in Conns : stream'[d].held = stream[d].held
        BY <1>9 DEF ScanPair, StreamTypeOK
      <3>2. Streams' = Streams
        BY <3>1 DEF Streams
      <3>3. QED
        BY <1>9, <3>1, <3>2 DEF ScanPair, SlotsInv
    <2>7. CapInv'
      <3> DEFINE p == Head(stream[c].todo)
      <3>1. p \in Pairs
        BY <1>9, HeadTailProperties DEF ScanPair, ScanOver, StreamTypeOK
      <3>2. \A d \in Conns \ {c} : stream'[d] = stream[d]
        BY <1>9 DEF ScanPair, StreamTypeOK
      <3>3. CASE stream' = [stream EXCEPT ![c].over = TRUE]
        <4>1. stream'[c].page = stream[c].page /\ stream'[c].bytes = stream[c].bytes
              /\ stream'[c].sent = stream[c].sent
          BY <3>3 DEF StreamTypeOK
        <4>2. QED
          BY <3>2, <4>1 DEF CapInv
      <3>4. CASE /\ Projected(c) <= MaxRangeBytes
                 /\ stream' = [stream EXCEPT ![c].page = Append(@, p), ![c].bytes = @ + EntryBytes(p),
                                             ![c].todo = Tail(@)]
        <4>1. /\ stream'[c].page = Append(stream[c].page, p)
              /\ stream'[c].bytes = stream[c].bytes + EntryBytes(p)
              /\ stream'[c].sent = stream[c].sent
          BY <3>4 DEF StreamTypeOK
        <4>2. /\ IsFiniteSet(PairBytes(stream'[c].page))
              /\ stream'[c].bytes = Cardinality(PairBytes(stream'[c].page))
          BY <3>1, <4>1, PairBytesAppend DEF CapInv, StreamTypeOK
        <4>3. stream'[c].page # <<>>
          <5>1. stream[c].page \in Seq(Pairs)
            BY DEF StreamTypeOK
          <5>2. Len(stream'[c].page) = Len(stream[c].page) + 1 /\ Len(stream[c].page) \in Nat
            BY <3>1, <4>1, <5>1, AppendProperties, LenProperties
          <5>3. Len(<<>>) = 0
            OBVIOUS
          <5>4. QED
            BY <5>2, <5>3
        <4>4. stream[c].sent \in Nat /\ stream[c].bytes \in Nat /\ EntryBytes(p) \in Nat
          BY <3>1, EntryType DEF StreamTypeOK
        <4>5. stream'[c].sent + (4 + stream'[c].bytes) <= MaxRangeBytes
          <5>1. Projected(c) = stream[c].sent + stream[c].bytes + 4 + EntryBytes(p)
            BY DEF Projected
          <5> HIDE DEF p
          <5>2. stream[c].sent + (4 + (stream[c].bytes + EntryBytes(p))) <= MaxRangeBytes
            BY <3>4, <4>4, <5>1, LimitsAssumption, SMTT(30)
          <5>3. QED
            BY <4>1, <5>2
        <4>6. QED
          BY <3>2, <4>2, <4>3, <4>5 DEF CapInv
      <3>5. QED
        <4>1. Projected(c) \in Int
          BY <3>1, EntryType DEF Projected, StreamTypeOK
        <4>2. QED
          BY <1>9, <3>3, <3>4, <4>1, LimitsAssumption DEF ScanPair
    <2>8. FramingInv'
      BY <1>9, <2>1, <2>2, FramingKeptOn DEF ScanPair, Leaving
    <2>9. QED
      BY <2>1, <2>2, <2>3, <2>4, <2>5, <2>6, <2>7, <2>8
  <1>10. CASE Flush(c)
    <2>1. /\ HandlerTypeOK' /\ h'[c].pc \in {"scan"}
          /\ \A d \in Conns \ {c} : h'[d] = h[d]
      BY <1>10 DEF Flush, FlushDue, HandlerTypeOK
    <2>2. /\ NetTypeOK' /\ \A d \in Conns : net'[d].state = net[d].state
          /\ \A d \in Conns \ {c} : net'[d].out = net[d].out
          /\ net'[c].out \in {net[c].out, Append(net[c].out, Frame("OK", "page", stream[c].page, h[c].req.n))}
          /\ Frame("OK", "page", stream[c].page, h[c].req.n) \in Frames
      <3>1. Frame("OK", "page", stream[c].page, h[c].req.n) \in Frames
        <4>1. h[c].req.n \in Nat
          BY SentFacts DEF HandlerTypeOK, NoRequest
        <4>2. stream[c].page \in Seq(Pairs)
          BY DEF StreamTypeOK
        <4>3. QED
          BY <4>1, <4>2, FrameTypes
      <3>2. QED
        BY <1>10, <3>1, WrittenEffect DEF Flush
    <2>3. LifeTypeOK'
      BY <1>10 DEF Flush, LifeTypeOK
    <2>4. StreamTypeOK'
      <3>1. BodyBytes(stream[c].page) \in Nat
        BY FS_CardinalityType DEF BodyBytes, CapInv
      <3>2. stream'[c] = [stream[c] EXCEPT !.sent = stream[c].sent + BodyBytes(stream[c].page),
                                          !.page = <<>>, !.bytes = 0]
        BY <1>10 DEF Flush, StreamTypeOK
      <3>3. stream'[c] \in StreamRecord
        <4>1. <<>> \in Seq(Pairs) /\ stream[c] \in StreamRecord
          BY EmptySeq DEF StreamTypeOK
        <4>2. stream[c].sent + BodyBytes(stream[c].page) \in Nat
          BY <3>1 DEF StreamTypeOK
        <4>3. ASSUME NEW x \in Nat
              PROVE  [stream[c] EXCEPT !.sent = x, !.page = <<>>, !.bytes = 0] \in StreamRecord
          BY <4>1
        <4>4. QED
          BY <3>2, <4>2, <4>3
      <3>4. QED
        BY <1>10, <3>3 DEF Flush, StreamTypeOK
    <2>5. HandlersInv' /\ DrainInv'
      BY <1>10, <2>1, <2>2, HandlerOnly DEF Flush, AlivePcs, FlushDue
    <2>6. SlotsInv'
      <3>1. \A d \in Conns : stream'[d].held = stream[d].held
        BY <1>10 DEF Flush, FlushDue, StreamTypeOK
      <3>2. Streams' = Streams
        BY <3>1 DEF Streams
      <3>3. QED
        BY <1>10, <3>1, <3>2 DEF Flush, FlushDue, SlotsInv
    <2>7. CapInv'
      <3>1. \A d \in Conns \ {c} : stream'[d] = stream[d]
        BY <1>10 DEF Flush, StreamTypeOK
      <3>2. /\ stream'[c].page = <<>> /\ stream'[c].bytes = 0
            /\ stream'[c].sent = stream[c].sent + BodyBytes(stream[c].page)
        BY <1>10 DEF Flush, StreamTypeOK
      <3>3. BodyBytes(stream[c].page) = 4 + stream[c].bytes /\ stream[c].page # <<>>
        BY <1>10 DEF BodyBytes, CapInv, Flush, FlushDue
      <3>4. stream'[c].sent <= MaxRangeBytes /\ stream'[c].sent \in Nat
        BY <3>2, <3>3 DEF CapInv, StreamTypeOK
      <3>5. QED
        BY <3>1, <3>2, <3>4, NewPage DEF CapInv
    <2>8. FramingInv'
      <3>1. Frame("OK", "page", stream[c].page, h[c].req.n).st # "torn"
        BY DEF Frame
      <3>2. UNCHANGED h /\ h[c].pc = "scan"
        BY <1>10 DEF Flush, FlushDue
      <3>3. ~Leaving(c) /\ ~Leaving(c)'
        BY <3>2 DEF Leaving
      <3>4. QED
        BY <2>1, <2>2, <3>1, <3>2, <3>3, FramingKeptOn
    <2>9. QED
      BY <2>1, <2>2, <2>3, <2>4, <2>5, <2>6, <2>7, <2>8
  <1>11. CASE FlushFail(c)
    <2>1. /\ HandlerTypeOK' /\ h'[c].pc \in {"release"}
          /\ \A d \in Conns \ {c} : h'[d] = h[d]
      <3>1. h'[c] = [h[c] EXCEPT !.pc = "release", !.after = "close"]
        BY <1>11 DEF FlushFail, HandlerTypeOK
      <3>2. "release" \in HandlerPcs
        BY DEF HandlerPcs, AlivePcs
      <3>3. h'[c] \in HandlerRecord
        BY <3>1, <3>2 DEF HandlerTypeOK
      <3>4. QED
        BY <1>11, <3>1, <3>3 DEF FlushFail, HandlerTypeOK
    <2>2. /\ NetTypeOK' /\ \A d \in Conns : net'[d].state = net[d].state
          /\ \A d \in Conns \ {c} : net'[d].out = net[d].out
          /\ net'[c].out \in {net[c].out, Append(net[c].out, Torn)}
      BY <1>11, WriteFailsEffect DEF FlushFail
    <2>3. LifeTypeOK'
      BY <1>11 DEF FlushFail, LifeTypeOK
    <2>4. StreamTypeOK'
      BY <1>11 DEF FlushFail, StreamTypeOK
    <2>5. HandlersInv' /\ DrainInv'
      BY <1>11, <2>1, <2>2, HandlerOnly DEF FlushFail, AlivePcs, FlushDue
    <2>6. SlotsInv'
      BY <1>11, <2>1, SlotsKept DEF FlushFail, SlotsInv, FlushDue
    <2>7. CapInv'
      BY <1>11 DEF FlushFail, CapInv
    <2>8. FramingInv'
      <3>1. h[c].pc = "scan" /\ h'[c].pc = "release" /\ h'[c].after = "close"
        BY <1>11 DEF FlushFail, FlushDue, HandlerTypeOK
      <3>2. ~Leaving(c) /\ Leaving(c)'
        BY <3>1 DEF Leaving
      <3>3. QED
        BY <2>1, <2>2, <3>1, <3>2, FramingKeptOn
    <2>9. QED
      BY <2>1, <2>2, <2>3, <2>4, <2>5, <2>6, <2>7, <2>8
  <1>12. CASE StreamEnd(c)
    <2>1. /\ HandlerTypeOK' /\ h'[c].pc \in {"reply"}
          /\ \A d \in Conns \ {c} : h'[d] = h[d]
          /\ h'[c].pc = "reply" => h'[c].resp.st # "torn"
      <3>1. h[c].req.n \in Nat
        BY SentFacts DEF HandlerTypeOK, NoRequest
      <3>2. /\ Err("OVERLOAD", h[c].req.n) \in Frames /\ Err("OVERLOAD", h[c].req.n).st # "torn"
            /\ End(stream[c].snap, h[c].req.n) \in Frames /\ End(stream[c].snap, h[c].req.n).st # "torn"
        BY <3>1, FrameTypes DEF Err, End, Frame, Statuses, StreamTypeOK
      <3>3. QED
        BY <1>12, <3>2, ReplyEffect DEF StreamEnd
    <2>2. /\ NetTypeOK' /\ \A d \in Conns : net'[d].state = net[d].state
          /\ \A d \in Conns \ {c} : net'[d].out = net[d].out
          /\ net'[c].out = net[c].out
      BY <1>12 DEF StreamEnd, NetTypeOK
    <2>3. LifeTypeOK'
      BY <1>12 DEF StreamEnd, LifeTypeOK
    <2>4. StreamTypeOK'
      BY <1>12 DEF StreamEnd, StreamTypeOK
    <2>5. HandlersInv' /\ DrainInv'
      BY <1>12, <2>1, <2>2, HandlerOnly DEF StreamEnd, AlivePcs
    <2>6. SlotsInv'
      BY <1>12, <2>1, SlotsKept DEF StreamEnd, SlotsInv
    <2>7. CapInv'
      BY <1>12 DEF StreamEnd, CapInv
    <2>8. FramingInv'
      BY <1>12, <2>1, <2>2, FramingKeptOn DEF StreamEnd, Leaving
    <2>9. QED
      BY <2>1, <2>2, <2>3, <2>4, <2>5, <2>6, <2>7, <2>8
  <1>13. CASE WriteReply(c)
    <2>1. /\ HandlerTypeOK' /\ h'[c].pc \in {"release", "loop", "close"}
          /\ \A d \in Conns \ {c} : h'[d] = h[d]
      BY <1>13, ReturnEffect DEF WriteReply, HandlerTypeOK
    <2>2. /\ NetTypeOK' /\ \A d \in Conns : net'[d].state = net[d].state
          /\ \A d \in Conns \ {c} : net'[d].out = net[d].out
          /\ net'[c].out \in {net[c].out, Append(net[c].out, h[c].resp)}
      BY <1>13, WrittenEffect DEF WriteReply, HandlerTypeOK
    <2>3. LifeTypeOK'
      BY <1>13 DEF WriteReply, LifeTypeOK
    <2>4. StreamTypeOK'
      BY <1>13 DEF WriteReply, StreamTypeOK
    <2>5. HandlersInv' /\ DrainInv'
      BY <1>13, <2>1, <2>2, HandlerOnly DEF WriteReply, AlivePcs
    <2>6. SlotsInv'
      <3>1. h'[c].pc = IF stream[c].held THEN "release" ELSE h[c].after
        BY <1>13, ReturnEffect DEF WriteReply, HandlerTypeOK
      <3>2. h[c].after \in {"loop", "close"}
        BY DEF HandlerTypeOK
      <3>3. QED
        BY <1>13, <2>1, <3>1, <3>2, SlotsKept DEF WriteReply
    <2>7. CapInv'
      BY <1>13 DEF WriteReply, CapInv
    <2>8. FramingInv'
      <3>1. h[c].pc = "reply" /\ h[c].resp.st # "torn" /\ h[c].resp \in Frames
        BY <1>13 DEF WriteReply, FramingInv, HandlerTypeOK
      <3>2. ~Leaving(c) /\ h'[c].pc # "reply"
        BY <2>1, <3>1 DEF Leaving
      <3>3. QED
        BY <2>1, <2>2, <3>1, <3>2, FramingKeptOn
    <2>9. QED
      BY <2>1, <2>2, <2>3, <2>4, <2>5, <2>6, <2>7, <2>8
  <1>14. CASE WriteReplyFail(c)
    <2>1. /\ HandlerTypeOK' /\ h'[c].pc \in {"release", "close"}
          /\ \A d \in Conns \ {c} : h'[d] = h[d]
      BY <1>14, ReturnEffect DEF WriteReplyFail
    <2>2. /\ NetTypeOK' /\ \A d \in Conns : net'[d].state = net[d].state
          /\ \A d \in Conns \ {c} : net'[d].out = net[d].out
          /\ net'[c].out \in {net[c].out, Append(net[c].out, Torn)}
      BY <1>14, WriteFailsEffect DEF WriteReplyFail
    <2>3. LifeTypeOK'
      BY <1>14 DEF WriteReplyFail, LifeTypeOK
    <2>4. StreamTypeOK'
      BY <1>14 DEF WriteReplyFail, StreamTypeOK
    <2>5. HandlersInv' /\ DrainInv'
      BY <1>14, <2>1, <2>2, HandlerOnly DEF WriteReplyFail, AlivePcs
    <2>6. SlotsInv'
      <3>1. h'[c].pc = IF stream[c].held THEN "release" ELSE "close"
        BY <1>14, ReturnEffect DEF WriteReplyFail
      <3>2. QED
        BY <1>14, <2>1, <3>1, SlotsKept DEF WriteReplyFail
    <2>7. CapInv'
      BY <1>14 DEF WriteReplyFail, CapInv
    <2>8. FramingInv'
      <3>1. h[c].pc = "reply" /\ h'[c].pc # "reply" /\ h'[c].after = "close"
        BY <1>14, <2>1, ReturnEffect DEF WriteReplyFail
      <3>2. ~Leaving(c) /\ Leaving(c)'
        BY <2>1, <3>1 DEF Leaving
      <3>3. QED
        BY <2>1, <2>2, <3>1, <3>2, FramingKeptOn
    <2>9. QED
      BY <2>1, <2>2, <2>3, <2>4, <2>5, <2>6, <2>7, <2>8
  <1>15. CASE Release(c)
    <2>1. /\ HandlerTypeOK' /\ h'[c].pc \in {"loop", "close"}
          /\ \A d \in Conns \ {c} : h'[d] = h[d]
      BY <1>15, GotoEffect DEF Release, HandlerTypeOK, HandlerPcs, AlivePcs
    <2>2. /\ NetTypeOK' /\ \A d \in Conns : net'[d].state = net[d].state
          /\ \A d \in Conns \ {c} : net'[d].out = net[d].out
          /\ net'[c].out = net[c].out
      BY <1>15 DEF Release, NetTypeOK
    <2>3. LifeTypeOK'
      BY <1>15, SlotHeld, ZenonT(30) DEF Release, LifeTypeOK, SlotsInv
    <2>4. StreamTypeOK'
      BY <1>15, EmptySeq DEF Release, StreamTypeOK, NoStream
    <2>5. HandlersInv' /\ DrainInv'
      BY <1>15, <2>1, <2>2, HandlerOnly DEF Release, AlivePcs
    <2>6. SlotsInv'
      BY <1>15, <2>1, SlotGiven DEF Release, SlotsInv
    <2>7. CapInv'
      <3>1. /\ stream'[c].page = <<>> /\ stream'[c].bytes = 0 /\ stream'[c].sent = 0
            /\ \A d \in Conns \ {c} : stream'[d] = stream[d]
        BY <1>15 DEF Release, StreamTypeOK, NoStream
      <3>2. QED
        BY <3>1, NewPage, LimitsAssumption DEF CapInv
    <2>8. FramingInv'
      <3>1. h[c].pc = "release" /\ h'[c].pc = h[c].after
        BY <1>15, GotoEffect DEF Release, HandlerTypeOK, HandlerPcs, AlivePcs
      <3>2. h'[c].pc # "reply" /\ (Leaving(c) => Leaving(c)')
        BY <2>1, <3>1 DEF Leaving
      <3>3. QED
        BY <2>1, <2>2, <3>2, FramingKeptOn
    <2>9. QED
      BY <2>1, <2>2, <2>3, <2>4, <2>5, <2>6, <2>7, <2>8
  <1>16. CASE CloseConn(c)
    <2>1. /\ HandlerTypeOK' /\ h'[c].pc \in {"untrack"}
          /\ \A d \in Conns \ {c} : h'[d] = h[d]
      BY <1>16, GotoEffect DEF CloseConn, HandlerPcs, AlivePcs
    <2>2. /\ NetTypeOK' /\ \A d \in Conns : net'[d].state = net[d].state
          /\ \A d \in Conns \ {c} : net'[d].out = net[d].out
          /\ net'[c].out = net[c].out
      <3>1. net'[c] = [net[c] EXCEPT !.srv = FALSE, !.in = <<>>]
        BY <1>16 DEF CloseConn, NetTypeOK
      <3>2. <<>> \in Seq(Sent)
        BY EmptySeq
      <3>3. net'[c] \in NetRecord
        BY <3>1, <3>2 DEF NetTypeOK
      <3>4. QED
        BY <1>16, <3>1, <3>3 DEF CloseConn, NetTypeOK
    <2>3. LifeTypeOK'
      BY <1>16 DEF CloseConn, LifeTypeOK
    <2>4. StreamTypeOK'
      BY <1>16 DEF CloseConn, StreamTypeOK
    <2>5. HandlersInv' /\ DrainInv'
      BY <1>16, <2>1, <2>2, HandlerOnly DEF CloseConn, AlivePcs
    <2>6. SlotsInv'
      BY <1>16, <2>1, SlotsKept DEF CloseConn, SlotsInv
    <2>7. CapInv'
      BY <1>16 DEF CloseConn, CapInv
    <2>8. FramingInv'
      BY <1>16, <2>1, <2>2, FramingKeptOn DEF CloseConn, Leaving
    <2>9. QED
      BY <2>1, <2>2, <2>3, <2>4, <2>5, <2>6, <2>7, <2>8
  <1>17. QED
    BY <1>1, <1>2, <1>3, <1>4, <1>5, <1>6, <1>7, <1>8, <1>9, <1>10, <1>11, <1>12, <1>13, <1>14, <1>15, <1>16

\* untrackConn and wg.Done: the handler leaves s.conns, then s.wg.
LEMMA HandlerLeaves ==
  ASSUME ServerInd, main # "exited", NEW c \in Conns, Untrack(c) \/ Done(c)
  PROVE  ServerInd'
  <1> USE DEF ServerInd, ServerTypeOK
  <1>1. CASE Untrack(c)
    <2>1. /\ HandlerTypeOK' /\ h'[c].pc = "done"
          /\ \A d \in Conns \ {c} : h'[d] = h[d]
      BY <1>1, GotoEffect DEF Untrack, HandlerPcs, AlivePcs
    <2>2. LifeTypeOK' /\ StreamTypeOK' /\ NetTypeOK' /\ CapInv'
      BY <1>1, SMTT(30) DEF Untrack, LifeTypeOK, StreamTypeOK, NetTypeOK, CapInv
    <2>3. Live' = Live /\ c \in Live
      BY <1>1, <2>1 DEF Untrack, Live, AlivePcs
    <2>4. HandlersInv'
      <3>1. conns' = {d \in Conns : h'[d].pc \in AlivePcs \ {"done"}}
        BY <1>1, <2>1 DEF Untrack, HandlersInv
      <3>2. \A d \in Conns : h[d].pc = "none" => h'[d].pc = "none"
        BY <1>1, <2>1 DEF Untrack
      <3>3. QED
        BY <1>1, <2>3, <3>1, <3>2 DEF Untrack, HandlersInv
    <2>5. DrainInv'
      BY <1>1, <2>3 DEF Untrack, DrainInv
    <2>6. SlotsInv'
      BY <1>1, <2>1, SlotsKept DEF Untrack, SlotsInv
    <2>7. FramingInv'
      BY <1>1, <2>1, FramingKeptOn DEF Untrack, Leaving
    <2>8. QED
      BY <2>1, <2>2, <2>4, <2>5, <2>6, <2>7
  <1>2. CASE Done(c)
    <2>1. /\ HandlerTypeOK' /\ h'[c].pc = "gone"
          /\ \A d \in Conns \ {c} : h'[d] = h[d]
      BY <1>2, GotoEffect DEF Done, HandlerPcs
    <2>2. Live' = Live \ {c} /\ c \in Live
      BY <1>2, <2>1 DEF Done, Live, AlivePcs
    <2>3. wg - 1 \in Nat /\ IsFiniteSet(Live') /\ Cardinality(Live') = wg - 1
      <3>1. IsFiniteSet(Live \ {c}) /\ Cardinality(Live \ {c}) = Cardinality(Live) - 1
        BY <2>2, FS_RemoveElement DEF HandlersInv
      <3>2. Cardinality(Live \ {c}) \in Nat
        BY <3>1, FS_CardinalityType
      <3>3. QED
        BY <2>2, <3>1, <3>2 DEF HandlersInv
    <2>4. LifeTypeOK'
      BY <1>2, <2>3 DEF Done, LifeTypeOK
    <2>5. StreamTypeOK' /\ NetTypeOK' /\ CapInv'
      BY <1>2 DEF Done, StreamTypeOK, NetTypeOK, CapInv
    <2>6. HandlersInv'
      <3>1. conns' = {d \in Conns : h'[d].pc \in AlivePcs \ {"done"}}
        BY <1>2, <2>1 DEF Done, HandlersInv, AlivePcs
      <3>2. \A d \in Conns : h[d].pc = "none" => h'[d].pc = "none"
        BY <1>2, <2>1 DEF Done
      <3>3. QED
        BY <1>2, <2>3, <3>1, <3>2 DEF Done, HandlersInv
    <2>7. DrainInv'
      BY <1>2, <2>2 DEF Done, DrainInv
    <2>8. SlotsInv'
      BY <1>2, <2>1, SlotsKept DEF Done, SlotsInv
    <2>9. FramingInv'
      BY <1>2, <2>1, FramingKeptOn DEF Done, Leaving
    <2>10. QED
      BY <2>1, <2>4, <2>5, <2>6, <2>7, <2>8, <2>9
  <1>3. QED
    BY <1>1, <1>2

\* Every step of handleConn.
LEMMA HandlerStep ==
  ASSUME ServerInd, main # "exited", NEW c \in Conns, Handler(c)
  PROVE  ServerInd'
  BY HandlerGoesOn, HandlerLeaves DEF Handler

----------------------------------------------------------------------------
(* Serve, Shutdown and runServe.                                           *)

\* The accept loop: a connection is taken, tracked and given its handler, or
\* refused.
LEMMA ServeStep ==
  ASSUME ServerInd, main # "exited",
         (\E c \in Conns : Accept(c)) \/ AcceptError \/ Track
  PROVE  ServerInd'
  <1> USE DEF ServerInd, ServerTypeOK
  <1>1. ASSUME NEW c \in Conns, Accept(c) PROVE ServerInd'
    <2>1. /\ net'[c] = [net[c] EXCEPT !.state = "accepted"]
          /\ \A d \in Conns \ {c} : net'[d] = net[d]
      BY <1>1 DEF Accept, NetTypeOK
    <2>2. NetTypeOK' /\ \A d \in Conns : net'[d].out = net[d].out
      BY <1>1, <2>1, ZenonT(30) DEF Accept, NetTypeOK
    <2>3. LifeTypeOK' /\ HandlerTypeOK' /\ StreamTypeOK' /\ CapInv' /\ SlotsInv'
      BY <1>1 DEF Accept, LifeTypeOK, HandlerTypeOK, StreamTypeOK, CapInv, SlotsInv, Streams
    <2>4. Live' = Live
      BY <1>1 DEF Accept, Live
    <2>5. DrainInv'
      BY <1>1, <2>4 DEF Accept, DrainInv
    <2>6. HandlersInv'
      <3>1. net'[c].state = "accepted"
        BY <2>1 DEF NetTypeOK
      <3>2. QED
        BY <1>1, <2>1, <2>4, <3>1 DEF Accept, HandlersInv
    <2>7. FramingInv'
      BY <1>1, <2>2 DEF Accept, FramingInv, Leaving
    <2>8. QED
      BY <2>2, <2>3, <2>5, <2>6, <2>7
  <1>2. CASE AcceptError
    <2>1. LifeTypeOK' /\ HandlerTypeOK' /\ StreamTypeOK' /\ NetTypeOK'
      BY <1>2 DEF AcceptError, LifeTypeOK, HandlerTypeOK, StreamTypeOK, NetTypeOK
    <2>2. CapInv' /\ SlotsInv' /\ FramingInv'
      BY <1>2 DEF AcceptError, CapInv, SlotsInv, Streams, FramingInv, Leaving
    <2>3. HandlersInv' /\ DrainInv'
      BY <1>2 DEF AcceptError, HandlersInv, DrainInv, Live, LifeTypeOK
    <2>4. QED
      BY <2>1, <2>2, <2>3
  <1>3. CASE Track /\ draining
    <2>1. PICK c \in Conns : c = serve.conn
      BY <1>3 DEF Track, HandlersInv
    <2>2. /\ net'[c] = [net[c] EXCEPT !.srv = FALSE]
          /\ \A d \in Conns \ {c} : net'[d] = net[d]
      BY <1>3, <2>1 DEF Track, RefuseConn, NetTypeOK
    <2>3. /\ NetTypeOK'
          /\ \A d \in Conns : net'[d].out = net[d].out /\ net'[d].state = net[d].state
      <3>1. /\ net'[c] \in NetRecord
            /\ net'[c].out = net[c].out /\ net'[c].state = net[c].state
        BY <2>1, <2>2, ZenonT(30) DEF NetTypeOK
      <3>2. net' = [net EXCEPT ![c] = net'[c]]
        BY <1>3, <2>1 DEF Track, RefuseConn, NetTypeOK
      <3>3. QED
        BY <2>2, <3>1, <3>2 DEF NetTypeOK
    <2>4. LifeTypeOK' /\ HandlerTypeOK' /\ StreamTypeOK'
      BY <1>3 DEF Track, RefuseConn, LifeTypeOK, HandlerTypeOK, StreamTypeOK
    <2>5. CapInv' /\ SlotsInv'
      BY <1>3 DEF Track, RefuseConn, CapInv, SlotsInv, Streams
    <2>6. HandlersInv' /\ DrainInv'
      BY <1>3, <2>3 DEF Track, RefuseConn, HandlersInv, DrainInv, Live, LifeTypeOK
    <2>7. FramingInv'
      BY <1>3, <2>3 DEF Track, RefuseConn, FramingInv, Leaving
    <2>8. QED
      BY <2>3, <2>4, <2>5, <2>6, <2>7
  <1>4. CASE Track /\ ~draining
    <2> DEFINE c == serve.conn
    <2>1. c \in Conns /\ h[c].pc = "none" /\ net[c].state = "accepted"
      BY <1>4 DEF Track, HandlersInv
    <2>2. Goto(c, "loop") /\ UNCHANGED <<net, stream, sem, main, sd, draining>>
      BY <1>4 DEF Track, StartHandler, Goto
    <2> HIDE DEF c
    <2>3. /\ HandlerTypeOK' /\ h'[c].pc = "loop"
          /\ \A d \in Conns \ {c} : h'[d] = h[d]
      BY <2>1, <2>2, GotoEffect DEF HandlerPcs, AlivePcs
    <2>4. Live' = Live \cup {c} /\ c \notin Live
      BY <2>1, <2>3 DEF Live, AlivePcs
    <2>5. IsFiniteSet(Live') /\ Cardinality(Live') = wg + 1
      BY <2>4, FS_AddElement DEF HandlersInv
    <2>6. LifeTypeOK'
      BY <1>4 DEF Track, StartHandler, LifeTypeOK
    <2>7. StreamTypeOK' /\ NetTypeOK' /\ CapInv'
      BY <1>4, <2>2 DEF Track, StreamTypeOK, NetTypeOK, CapInv
    <2>8. HandlersInv'
      <3>1. conns' = conns \cup {c} /\ wg' = wg + 1 /\ serve'.pc = "accept"
        BY <1>4 DEF Track, StartHandler, c
      <3>2. conns' = {d \in Conns : h'[d].pc \in AlivePcs \ {"done"}}
        BY <2>1, <2>3, <3>1 DEF HandlersInv, AlivePcs
      <3>3. QED
        BY <2>1, <2>2, <2>3, <2>5, <3>1, <3>2 DEF HandlersInv
    <2>9. DrainInv'
      BY <1>4, <2>2 DEF DrainInv
    <2>10. SlotsInv'
      BY <2>1, <2>2, <2>3, SlotsKept DEF SlotsInv
    <2>11. FramingInv'
      BY <2>1, <2>2, <2>3, FramingKeptOn DEF Leaving
    <2>12. QED
      BY <2>3, <2>6, <2>7, <2>8, <2>9, <2>10, <2>11
  <1>5. QED
    BY <1>1, <1>2, <1>3, <1>4

\* Shutdown, the Close of the engine after it, and the end of the process.
LEMMA ShutdownStep ==
  ASSUME ServerInd, main # "exited",
         Signal \/ CloseListener \/ Poke \/ ForceClose \/ ShutdownReturns \/ CloseEngine \/ Exit
  PROVE  ServerInd'
  <1> USE DEF ServerInd, ServerTypeOK
  <1>1. CASE Signal
    <2>1. LifeTypeOK' /\ HandlerTypeOK' /\ StreamTypeOK' /\ NetTypeOK'
      BY <1>1 DEF Signal, LifeTypeOK, HandlerTypeOK, StreamTypeOK, NetTypeOK
    <2>2. CapInv' /\ SlotsInv' /\ FramingInv'
      BY <1>1 DEF Signal, CapInv, SlotsInv, Streams, FramingInv, Leaving
    <2>3. HandlersInv' /\ DrainInv'
      BY <1>1 DEF Signal, HandlersInv, DrainInv, Live
    <2>4. QED
      BY <2>1, <2>2, <2>3
  <1>2. CASE CloseListener
    <2>1. /\ NetTypeOK'
          /\ \A d \in Conns : /\ net'[d].out = net[d].out
                              /\ net'[d].state \in {"none", "backlog"} => net'[d].state = net[d].state
                              /\ net[d].state = "accepted" => net'[d].state = net[d].state
      <3>1. ASSUME NEW d \in Conns, net[d].state = "backlog"
            PROVE  /\ net'[d] \in NetRecord
                   /\ net'[d].out = net[d].out /\ net'[d].state = "reset"
        <4>1. net'[d] = [net[d] EXCEPT !.state = "reset", !.srv = FALSE]
          BY <1>2, <3>1 DEF CloseListener
        <4>2. QED
          BY <4>1, ZenonT(30) DEF NetTypeOK
      <3>2. \A d \in Conns : net[d].state # "backlog" => net'[d] = net[d]
        BY <1>2 DEF CloseListener
      <3>3. DOMAIN net' = Conns /\ net' = [d \in Conns |-> net'[d]]
        BY <1>2 DEF CloseListener
      <3>4. QED
        BY <3>1, <3>2, <3>3 DEF NetTypeOK
    <2>2. LifeTypeOK' /\ HandlerTypeOK' /\ StreamTypeOK'
      BY <1>2 DEF CloseListener, LifeTypeOK, HandlerTypeOK, StreamTypeOK
    <2>3. CapInv' /\ SlotsInv'
      BY <1>2 DEF CloseListener, CapInv, SlotsInv, Streams
    <2>4. HandlersInv' /\ DrainInv'
      BY <1>2, <2>1 DEF CloseListener, HandlersInv, DrainInv, Live
    <2>5. FramingInv'
      BY <1>2, <2>1, ZenonT(30) DEF CloseListener, FramingInv, Leaving
    <2>6. QED
      BY <2>1, <2>2, <2>3, <2>4, <2>5
  <1>3. CASE Poke
    <2>1. /\ HandlerTypeOK'
          /\ \A d \in Conns : /\ h'[d].pc = h[d].pc /\ h'[d].resp = h[d].resp
                              /\ h'[d].after = h[d].after
      <3>1. ASSUME NEW d \in Conns
            PROVE  /\ h'[d] \in HandlerRecord
                   /\ h'[d].pc = h[d].pc /\ h'[d].resp = h[d].resp /\ h'[d].after = h[d].after
        <4>1. h'[d] = h[d] \/ h'[d] = [h[d] EXCEPT !.rdl = "past"]
          BY <1>3 DEF Poke
        <4>2. QED
          BY <4>1 DEF HandlerTypeOK
      <3>2. DOMAIN h' = Conns /\ h' = [d \in Conns |-> h'[d]]
        BY <1>3 DEF Poke
      <3>3. QED
        BY <3>1, <3>2 DEF HandlerTypeOK
    <2>2. LifeTypeOK' /\ NetTypeOK' /\ StreamTypeOK'
      BY <1>3 DEF Poke, LifeTypeOK, NetTypeOK, StreamTypeOK
    <2>3. CapInv' /\ SlotsInv'
      BY <1>3, <2>1 DEF Poke, CapInv, SlotsInv, Streams
    <2>4. Live' = Live
      BY <2>1 DEF Live
    <2>5. HandlersInv' /\ DrainInv'
      BY <1>3, <2>1, <2>4 DEF Poke, HandlersInv, DrainInv
    <2>6. FramingInv'
      BY <1>3, <2>1 DEF Poke, FramingInv, Leaving
    <2>7. QED
      BY <2>1, <2>2, <2>3, <2>5, <2>6
  <1>4. CASE ForceClose
    <2>1. /\ NetTypeOK'
          /\ \A d \in Conns : net'[d].out = net[d].out /\ net'[d].state = net[d].state
      <3>1. ASSUME NEW d \in Conns
            PROVE  /\ net'[d] \in NetRecord
                   /\ net'[d].out = net[d].out /\ net'[d].state = net[d].state
        <4>1. net'[d] = net[d] \/ net'[d] = [net[d] EXCEPT !.srv = FALSE]
          BY <1>4 DEF ForceClose
        <4>2. QED
          BY <4>1 DEF NetTypeOK
      <3>2. DOMAIN net' = Conns /\ net' = [d \in Conns |-> net'[d]]
        BY <1>4 DEF ForceClose
      <3>3. QED
        BY <3>1, <3>2 DEF NetTypeOK
    <2>2. LifeTypeOK' /\ HandlerTypeOK' /\ StreamTypeOK'
      BY <1>4 DEF ForceClose, LifeTypeOK, HandlerTypeOK, StreamTypeOK
    <2>3. CapInv' /\ SlotsInv'
      BY <1>4 DEF ForceClose, CapInv, SlotsInv, Streams
    <2>4. HandlersInv' /\ DrainInv'
      BY <1>4, <2>1 DEF ForceClose, HandlersInv, DrainInv, Live
    <2>5. FramingInv'
      BY <1>4, <2>1 DEF ForceClose, FramingInv, Leaving
    <2>6. QED
      BY <2>1, <2>2, <2>3, <2>4, <2>5
  <1>5. CASE ShutdownReturns
    <2>1. LifeTypeOK' /\ HandlerTypeOK' /\ StreamTypeOK' /\ NetTypeOK'
      BY <1>5 DEF ShutdownReturns, LifeTypeOK, HandlerTypeOK, StreamTypeOK, NetTypeOK
    <2>2. CapInv' /\ SlotsInv' /\ FramingInv'
      BY <1>5 DEF ShutdownReturns, CapInv, SlotsInv, Streams, FramingInv, Leaving
    <2>3. Live = {}
      BY <1>5, FS_EmptySet DEF ShutdownReturns, HandlersInv
    <2>4. conns = {}
      BY <2>3 DEF HandlersInv, Live
    <2>5. sem = 0
      <3>1. Streams = {}
        BY <2>3 DEF Live, AlivePcs, SlotsInv, Streams
      <3>2. QED
        BY <3>1, FS_EmptySet DEF SlotsInv
    <2>6. HandlersInv'
      BY <1>5 DEF ShutdownReturns, HandlersInv, Live
    <2>7. DrainInv'
      BY <1>5, <2>3, <2>4, <2>5 DEF ShutdownReturns, DrainInv, Live
    <2>8. QED
      BY <2>1, <2>2, <2>6, <2>7
  <1>6. CASE CloseEngine
    <2>1. LifeTypeOK' /\ HandlerTypeOK' /\ StreamTypeOK' /\ NetTypeOK'
      BY <1>6 DEF CloseEngine, LifeTypeOK, HandlerTypeOK, StreamTypeOK, NetTypeOK
    <2>2. CapInv' /\ SlotsInv' /\ FramingInv'
      BY <1>6 DEF CloseEngine, CapInv, SlotsInv, Streams, FramingInv, Leaving
    <2>3. HandlersInv' /\ DrainInv'
      BY <1>6 DEF CloseEngine, HandlersInv, DrainInv, Live
    <2>4. QED
      BY <2>1, <2>2, <2>3
  <1>7. CASE Exit
    <2>1. HandlerTypeOK' /\ \A d \in Conns : h'[d].pc = "gone"
      <3>1. ASSUME NEW d \in Conns
            PROVE  /\ h'[d] \in HandlerRecord
                   /\ h'[d].pc = "gone"
        <4>1. h'[d] = [h[d] EXCEPT !.pc = "gone"] /\ "gone" \in HandlerPcs
          BY <1>7 DEF Exit, HandlerPcs
        <4>2. QED
          BY <4>1 DEF HandlerTypeOK
      <3>2. DOMAIN h' = Conns /\ h' = [d \in Conns |-> h'[d]]
        BY <1>7 DEF Exit
      <3>3. QED
        BY <3>1, <3>2 DEF HandlerTypeOK
    <2>2. NetTypeOK' /\ \A d \in Conns : net'[d].out = net[d].out
      <3>1. ASSUME NEW d \in Conns
            PROVE  /\ net'[d] \in NetRecord
                   /\ net'[d].out = net[d].out
        <4>1. net'[d] = [net[d] EXCEPT !.srv = FALSE]
          BY <1>7 DEF Exit
        <4>2. QED
          BY <4>1, ZenonT(30) DEF NetTypeOK
      <3>2. DOMAIN net' = Conns /\ net' = [d \in Conns |-> net'[d]]
        BY <1>7 DEF Exit
      <3>3. QED
        BY <3>1, <3>2 DEF NetTypeOK
    <2>3. LifeTypeOK' /\ StreamTypeOK' /\ CapInv' /\ HandlersInv' /\ SlotsInv'
      BY <1>7 DEF Exit, LifeTypeOK, StreamTypeOK, CapInv, HandlersInv, SlotsInv
    <2>4. DrainInv'
      BY <1>7, <2>1 DEF Exit, DrainInv, Live, AlivePcs
    <2>5. FramingInv'
      BY <2>1, <2>2 DEF FramingInv, Leaving
    <2>6. QED
      BY <2>1, <2>2, <2>3, <2>4, <2>5
  <1>8. QED
    BY <1>1, <1>2, <1>3, <1>4, <1>5, <1>6, <1>7

\* Every step of the server process.
LEMMA ServerStep ==
  ASSUME ServerInd, main # "exited", ServerNext
  PROVE  ServerInd'
  BY HandlerStep, ServeStep, ShutdownStep DEF ServerNext, Process

----------------------------------------------------------------------------
(* The peers.                                                              *)

\* No move of a peer breaks what the server relies on.
LEMMA PeerStep ==
  ASSUME ServerInd, NEW c \in Conns, PeerMove(c)
  PROVE  ServerInd'
  <1> USE DEF ServerInd, ServerTypeOK
  <1>1. UNCHANGED <<engineVars, lifeVars, sem, h, stream>>
    BY DEF PeerMove
  <1>2. SUFFICES ASSUME TRUE
                 PROVE  /\ NetTypeOK'
                        /\ \A d \in Conns \ {c} : net'[d] = net[d]
                        /\ net'[c].state \in {"none", "backlog"} => net[c].state \in {"none", "backlog"}
                        /\ net[c].state = "accepted" => net'[c].state = "accepted"
                        /\ \/ net'[c].out \in {net[c].out, <<>>}
                           \/ net[c].out # <<>> /\ net'[c].out = Tail(net[c].out)
    <2>1. LifeTypeOK' /\ HandlerTypeOK' /\ StreamTypeOK' /\ CapInv' /\ SlotsInv'
      BY <1>1, SMTT(30) DEF LifeTypeOK, HandlerTypeOK, StreamTypeOK, CapInv, SlotsInv, Streams
    <2>2. HandlersInv' /\ DrainInv'
      BY <1>1, <1>2 DEF HandlersInv, DrainInv, Live
    <2>3. FramingInv'
      <3>1. \A d \in Conns : Leaving(d)' = Leaving(d)
        BY <1>1 DEF Leaving
      <3>2. ASSUME NEW i \in DOMAIN net'[c].out, net'[c].out[i] = Torn
            PROVE  i = Len(net'[c].out) /\ Leaving(c)
        <4>1. CASE net'[c].out = net[c].out
          BY <3>2, <4>1 DEF FramingInv
        <4>2. CASE net'[c].out = <<>>
          BY <3>2, <4>2
        <4>3. CASE net[c].out # <<>> /\ net'[c].out = Tail(net[c].out)
          <5> DEFINE s == net[c].out
          <5>1. s \in Seq(Frames)
            BY DEF NetTypeOK
          <5>2. /\ Len(s) \in Nat /\ DOMAIN s = 1 .. Len(s) /\ DOMAIN Tail(s) = 1 .. Len(s) - 1
                /\ Len(Tail(s)) = Len(s) - 1 /\ \A j \in 1 .. Len(s) - 1 : Tail(s)[j] = s[j + 1]
            BY <4>3, <5>1, HeadTailProperties, LenProperties, EmptySeq
          <5>3. i + 1 \in DOMAIN s /\ s[i + 1] = Torn
            BY <3>2, <4>3, <5>2
          <5>4. QED
            BY <3>2, <4>3, <5>2, <5>3 DEF FramingInv
        <4>4. QED
          BY <1>2, <4>1, <4>2, <4>3
      <3>3. QED
        BY <1>1, <1>2, <3>1, <3>2 DEF FramingInv
    <2>4. QED
      BY <1>2, <2>1, <2>2, <2>3
  <1>3. CASE Dial(c)
    <2>1. net'[c] = [net[c] EXCEPT !.state = "backlog", !.peer = TRUE, !.srv = TRUE]
      BY <1>3 DEF Dial, NetTypeOK
    <2>2. /\ net'[c] \in NetRecord
          /\ net'[c].out = net[c].out
      BY <2>1, ZenonT(30) DEF NetTypeOK
    <2>3. QED
      BY <1>3, <2>2 DEF Dial, NetTypeOK
  <1>4. CASE Receive(c)
    <2>1. Tail(net[c].out) \in Seq(Frames) /\ net[c].out # <<>>
      BY <1>4, HeadTailProperties DEF Receive, NetTypeOK
    <2>2. QED
      BY <1>4, <2>1, OutEffect DEF Receive
  <1>5. CASE Hangup(c)
    <2>1. net'[c] = [net[c] EXCEPT !.peer = FALSE, !.out = <<>>]
      BY <1>5 DEF Hangup, NetTypeOK
    <2>2. <<>> \in Seq(Frames)
      BY EmptySeq
    <2>3. /\ net'[c] \in NetRecord
          /\ net'[c].out = <<>> /\ net'[c].state = net[c].state
      BY <2>1, <2>2, ZenonT(30) DEF NetTypeOK
    <2>4. QED
      BY <1>5, <2>3 DEF Hangup, NetTypeOK
  <1>6. ASSUME NEW q \in Sent, net' = [net EXCEPT ![c].in = Append(@, q)]
        PROVE  /\ NetTypeOK'
               /\ \A d \in Conns \ {c} : net'[d] = net[d]
               /\ net'[c].state = net[c].state
               /\ net'[c].out = net[c].out
    <2>1. Append(net[c].in, q) \in Seq(Sent)
      BY AppendProperties DEF NetTypeOK
    <2>2. QED
      BY <1>6, <2>1, InEffect
  <1>7. CASE UNCHANGED net
    BY <1>7 DEF NetTypeOK
  <1>8. QED
    BY <1>3, <1>4, <1>5, <1>6, <1>7 DEF PeerMove

----------------------------------------------------------------------------
(* The inductive invariant.                                                *)

\* A server that starts satisfies the invariant.
LEMMA ServerInit ==
  ASSUME Init
  PROVE  ServerInd
  <1>1. LifeTypeOK
    BY DEF Init, LifeTypeOK
  <1>2. HandlerTypeOK
    BY FrameTypes DEF Init, HandlerTypeOK, HandlerPcs
  <1>3. StreamTypeOK
    BY StoresAssumption, EmptySeq DEF Init, StreamTypeOK, NoStream
  <1>4. NetTypeOK
    BY EmptySeq DEF Init, NetTypeOK
  <1>5. Live = {} /\ Streams = {}
    BY DEF Init, Live, Streams, AlivePcs, NoStream
  <1>6. HandlersInv /\ DrainInv /\ SlotsInv
    BY <1>5, FS_EmptySet DEF Init, HandlersInv, DrainInv, SlotsInv, Live, AlivePcs, NoStream
  <1>7. CapInv
    BY NewPage, LimitsAssumption DEF Init, CapInv, NoStream
  <1>8. FramingInv
    BY DEF Init, FramingInv
  <1>9. QED
    BY <1>1, <1>2, <1>3, <1>4, <1>6, <1>7, <1>8 DEF ServerInd, ServerTypeOK

\* The invariant says what the properties of Server say.
LEMMA ServerSafe ==
  ASSUME ServerInd
  PROVE  ShutdownDrains /\ SlotsAreStreams /\ StreamWithinCap /\ FramingKept
  <1>1. ShutdownDrains
    BY DEF ServerInd, DrainInv, Live, ShutdownDrains
  <1>2. SlotsAreStreams
    <2>1. main # "exited" =>
            Streams = {c \in Conns : stream[c].held /\ h[c].pc \in {"scan", "reply", "release"}}
      BY DEF ServerInd, SlotsInv, Streams
    <2>2. QED
      BY <2>1 DEF ServerInd, SlotsInv, SlotsAreStreams
  <1>3. StreamWithinCap
    BY DEF ServerInd, CapInv, BodyBytes, StreamWithinCap
  <1>4. FramingKept
    BY DEF ServerInd, FramingInv, FramingKept
  <1>5. QED
    BY <1>1, <1>2, <1>3, <1>4

\* Every move of an arbitrary peer is one the invariant allows.
LEMMA PeerMoves ==
  ASSUME ServerInd, NEW c \in Conns, Peer(c)
  PROVE  PeerMove(c)
  <1>1. ASSUME NEW r \in Requests, Send(c, r) PROVE PeerMove(c)
    <2>1. Number(r, 0) \in Sent
      BY Numbered
    <2>2. QED
      BY <1>1, <2>1 DEF Send, PeerMove
  <1>2. QED
    BY <1>1 DEF Peer, PeerMove, Dial, Receive, Hangup

\* Every step of the server and of its peers preserves the invariant.
LEMMA ServerPreserves ==
  ASSUME ServerInd, [Next]_serverVars
  PROVE  ServerInd'
  <1>1. CASE main # "exited" /\ ServerNext
    BY <1>1, ServerStep
  <1>2. ASSUME NEW c \in Conns, Peer(c) PROVE ServerInd'
    BY <1>2, PeerMoves, PeerStep
  <1>3. CASE UNCHANGED serverVars
    BY <1>3 DEF serverVars, ServerInd, ServerTypeOK, LifeTypeOK, HandlerTypeOK, StreamTypeOK,
         NetTypeOK, HandlersInv, DrainInv, SlotsInv, CapInv, FramingInv, Live, Streams, Leaving
  <1>4. QED
    BY <1>1, <1>2, <1>3 DEF Next

\* Serve, handleConn, handleRange and Shutdown, with peers that send, read
\* and hang up as they like: what they rely on about each other holds between
\* their steps, for any number of connections and any limits.
THEOREM ServerInvariance == Spec => []ServerInd
  <1>1. Init => ServerInd
    BY ServerInit
  <1>2. ServerInd /\ [Next]_serverVars => ServerInd'
    BY ServerPreserves
  <1>3. QED
    BY <1>1, <1>2, PTL DEF Spec

\* Once Shutdown has returned, forced or not, no handler goroutine is left:
\* none tracked, none running, none with a slot of the semaphore.
THEOREM ShutdownLeavesNoHandler == Spec => []ShutdownDrains
  <1>1. ServerInd => ShutdownDrains
    BY ServerSafe
  <1>2. QED
    BY <1>1, ServerInvariance, PTL

\* handleRange never leaks a slot of rangeSem and never gives one back twice.
THEOREM SlotsNeverLeak == Spec => []SlotsAreStreams
  <1>1. ServerInd => SlotsAreStreams
    BY ServerSafe
  <1>2. QED
    BY <1>1, ServerInvariance, PTL

\* Whatever the pairs of a range, the bodies of the pages of one response
\* stay within MaxRangeResponseBytes.
THEOREM CapNeverExceeded == Spec => []StreamWithinCap
  <1>1. ServerInd => StreamWithinCap
    BY ServerSafe
  <1>2. QED
    BY <1>1, ServerInvariance, PTL

\* After a frame that was cut short nothing else is written on a connection.
THEOREM FramingNeverLost == Spec => []FramingKept
  <1>1. ServerInd => FramingKept
    BY ServerSafe
  <1>2. QED
    BY <1>1, ServerInvariance, PTL
=============================================================================
