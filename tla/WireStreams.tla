---------------------------- MODULE WireStreams -----------------------------
(***************************************************************************)
(* The two readers of the TCP protocol: the loop of the server, which      *)
(* reads requests (wire.ReadRequest), and the client, which reads the      *)
(* answer to a call, one frame or the stream of a range.                   *)
(***************************************************************************)
EXTENDS Wire

CONSTANTS
    Conversations,  \* sequences of messages that a client may send
    Calls           \* calls with the sequences of answers to them

VARIABLES
    side,    \* "server": requests are read; "client": the answer to a call
    call,    \* of a client: the operation called
    sent,    \* history: the messages sent, in order
    bytes,   \* what arrives before the connection ends
    off,     \* how much of it is read
    seen,    \* of a server: the requests read; of a client: the pairs
    status,  \* of a client: the status of the last frame read
    reader   \* "read", or how the reader ended

streamVars == <<side, call, sent, bytes, off, seen, status, reader>>

\* A message: a request, or what another program wrote: a payload, or the
\* header of a frame that may not be.
FrameOf(m) ==
    CASE m.kind = "request" -> EncodeFrame(m.req.op, EncodeRequestBody(m.req))
      [] m.kind = "payload" -> EncodeFrame(m.payload[1], Tail(m.payload))
      [] m.kind = "header" -> <<m.len \div Base, m.len % Base>>

\* An answer: a page, the end of a stream, a value, statistics or an error.
AnswerFrame(a) ==
    CASE a.kind = "page" -> EncodeFrame(StatusOK, PageBody(a.pairs))
      [] a.kind = "end" -> EncodeFrame(StatusOK, EncodeRangeEnd)
      [] a.kind = "value" -> EncodeFrame(StatusOK, EncodeGetOK(a.value))
      [] a.kind = "stats" -> EncodeFrame(StatusOK, EncodeStatsOK(a.keys, a.size))
      [] a.kind = "error" -> EncodeFrame(a.status, EncodeError(a.msg))

\* What dispatchOnce answers a GET that found v with.  The text of the error
\* is longer than a message may be.
GetAnswer(v) ==
    IF EncodeGetOKRefuses(v)
    THEN [kind |-> "error", status |-> StatusInternal, msg |-> [n \in 1 .. MaxErrMsgLen + 1 |-> 1]]
    ELSE [kind |-> "value", value |-> v]

\* What of the frames of a stream is sent: at a page that EncodeRangePage
\* refuses the server closes the connection.
Sent(answers) ==
    LET first == SelectInSeq(answers, LAMBDA a :
                    a.kind = "page" /\ ~EncodeRangePageOK(a.pairs))
    IN  IF first = 0 THEN answers ELSE SubSeq(answers, 1, first - 1)

\* Where the frames of a conversation begin, and where the last one ends.
Stream == FlattenSeq([i \in DOMAIN sent |->
            IF side = "server" THEN FrameOf(sent[i]) ELSE AnswerFrame(sent[i])])
EndOf(i) == Len(FlattenSeq([j \in 1 .. i |->
            IF side = "server" THEN FrameOf(sent[j]) ELSE AnswerFrame(sent[j])]))

StreamInit ==
    /\ \/ /\ side = "server"
          /\ call = "none"
          /\ sent \in Conversations
       \/ /\ side = "client"
          /\ \E c \in Calls :
               /\ call = c.call
               /\ sent = Sent(c.answers)
    /\ \E n \in 0 .. Len(Stream) : bytes = SubSeq(Stream, 1, n)
    /\ off = 0
    /\ seen = <<>>
    /\ status = StatusOK
    /\ reader = "read"

\* ReadRequest returns a request or a ProtocolError; the loop goes on.
ServerReads ==
    /\ reader = "read" /\ side = "server"
    /\ ReadFrame(bytes, off) = "frame"
    /\ seen' = Append(seen, DecodeRequest(Tag(bytes, off), Body(bytes, off)))
    /\ off' = off + HeaderSize + PayloadLen(bytes, off)
    /\ UNCHANGED <<side, call, sent, bytes, status, reader>>

\* ReadFrame returns an error: the connection is given up.
ReadEnds ==
    /\ reader = "read"
    /\ ReadFrame(bytes, off) # "frame"
    /\ reader' = ReadFrame(bytes, off)
    /\ UNCHANGED <<side, call, sent, bytes, off, seen, status>>

\* What one frame of an answer is to its call.
AnswerKind(tag, b) ==
    IF call = "get" /\ tag = StatusNotFound THEN "notfound"
    ELSE IF tag # StatusOK THEN IF DecodeErrorOK(b) THEN "remote" ELSE "protocol"
    ELSE CASE call = "get" -> IF DecodeGetOK(b) THEN "nil" ELSE "protocol"
           [] call = "stats" -> IF DecodeStatsOK(b) THEN "nil" ELSE "protocol"
           [] call = "range" -> IF DecodeRangeFrame(b).kind = "end" THEN "nil"
                                ELSE DecodeRangeFrame(b).kind

\* roundTripUnary, ReadKeyRange and ReadRangeStream: one frame.
ClientReads ==
    LET b == Body(bytes, off)
        kind == AnswerKind(Tag(bytes, off), b)
    IN  /\ reader = "read" /\ side = "client"
        /\ ReadFrame(bytes, off) = "frame"
        /\ off' = off + HeaderSize + PayloadLen(bytes, off)
        /\ status' = Tag(bytes, off)
        /\ IF kind = "page"
           THEN seen' = seen \o DecodeRangeFrame(b).pairs /\ UNCHANGED reader
           ELSE /\ reader' = kind
                /\ seen' = IF kind = "nil" /\ call = "get" THEN Tail(b) ELSE seen
        /\ UNCHANGED <<side, call, sent, bytes>>

StreamNext == ServerReads \/ ClientReads \/ ReadEnds

StreamSpec == StreamInit /\ [][StreamNext]_streamVars

----------------------------------------------------------------------------
(* Properties.                                                             *)

\* request.go, DecodeRequest ("one bad request must not desync the stream",
\* frame.go): the i-th request that the server reads is the i-th that was
\* sent, whatever payloads were sent between.  A payload of another program
\* is accepted only if it is, to the last byte, what EncodeRequest writes for
\* the request it is taken for.
RequestsArriveAsSent ==
    side = "server" =>
        \A i \in DOMAIN seen :
            /\ sent[i].kind = "request" => seen[i] = sent[i].req
            /\ sent[i].kind = "payload" /\ seen[i] # Refused =>
                  /\ Encodable(seen[i])
                  /\ FrameOf(sent[i]) = FrameOf([kind |-> "request", req |-> seen[i]])

\* frame.go, ReadFrame: a connection that ends between frames reads as EOF
\* and one that ends inside a frame does not; no frame is read that did not
\* arrive whole, and none after a length that is out of range.
CutsAreTold ==
    side = "server" /\ reader # "read" =>
        LET n == Len(seen)
            next == EndOf(n + 1) <= Len(bytes)
        IN  /\ EndOf(n) = off
            /\ reader = IF off = Len(bytes) THEN "EOF"
                    ELSE IF next THEN "FrameError" ELSE "UnexpectedEOF"
            /\ reader = "FrameError" => sent[n + 1].kind = "header"

\* response.go with client.go: a call that returns nil was given all that
\* was sent up to the end of its answer, also when pages are empty, or one
\* has as many pairs as the mark of the end or does not fit a frame.
NilMeansAllOfIt ==
    side = "client" /\ reader = "nil" =>
        /\ off = Len(Stream)
        /\ call = "range" => seen = FlattenSeq([i \in 1 .. Len(sent) - 1 |-> sent[i].pairs])
        /\ call = "get" => seen = sent[1].value

\* response.go: an answer that arrives whole ends the call as it was meant
\* to, and no answer of this server reads as malformed, its frames included;
\* a call ends with an error of the server exactly as the server sent one,
\* and the error keeps its status however long its message.
AnswersAreUnderstood ==
    side = "client" =>
        /\ reader \notin {"protocol", "FrameError"}
        /\ reader \in {"remote", "notfound"} =>
              \E n \in DOMAIN sent :
                  /\ off = EndOf(n)
                  /\ sent[n].kind = "error" /\ sent[n].status = status
        /\ reader \in {"EOF", "UnexpectedEOF"} =>
              Len(bytes) < Len(Stream) \/ \A i \in DOMAIN sent : sent[i].kind = "page"
=============================================================================
