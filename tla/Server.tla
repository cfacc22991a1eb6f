------------------------------- MODULE Server -------------------------------
(***************************************************************************)
(* The TCP server (internal/server/server.go) and the serve command that   *)
(* runs it (runServe in cmd/little-db/main.go): the accept loop, one       *)
(* handler goroutine per connection, range streams with their two limits,  *)
(* Shutdown, and the Close of the engine that follows.                     *)
(*                                                                         *)
(* The engine is the map that KVStore.tla promises; Engine.tla shows that  *)
(* it keeps that promise.  Requests are the ones wire.ReadRequest returns, *)
(* or "malformed" for its ProtocolError and "garbage" for its FrameError.  *)
(* A deadline that is set may expire at any moment.                        *)
(***************************************************************************)
EXTENDS Integers, Sequences, FiniteSets

CONSTANTS
    Conns,         \* TCP connections; each is dialled at most once
    NoConn,
    Keys,          \* keys, numbered in their order; a key is one byte long
    Values,
    Tombstone,     \* no value
    ValLen,        \* ValLen[v]: the length of value v
    InitStores,    \* what Open may have found
    Requests,      \* the requests peers may send
    MaxStreams,    \* Options.MaxConcurrentRangeStreams
    MaxRangeBytes, \* Options.MaxRangeResponseBytes
    FlushBytes,    \* rangePageFlushBytes
    Grace,         \* whether the context of Shutdown can expire
    Buffer,        \* frames the network takes before a write blocks
    Pipeline,      \* bound: requests of a connection on their way
    Faults         \* what may fail

ASSUME KeysAssumption == Keys \subseteq Nat \ {0} /\ IsFiniteSet(Keys)
ASSUME LimitsAssumption ==
    /\ MaxStreams \in Nat \ {0}
    /\ MaxRangeBytes \in Nat
    /\ FlushBytes \in Nat \ {0}
    /\ Buffer \in Nat \ {0}
ASSUME ValLenAssumption == ValLen \in [Values -> Nat]
ASSUME NoConnAssumption == NoConn \notin Conns
ASSUME StoresAssumption == InitStores \subseteq [Keys -> Values \cup {Tombstone}]

\* What wire.ReadRequest returns.  The writes are PUT, DELETE and BATCH: the
\* keys they name and what becomes of each.
Writes == {"put", "delete", "batch"}
ASSUME RequestsAssumption ==
    Requests \subseteq
        [op : Writes, ops : UNION {[K -> Values \cup {Tombstone}] : K \in SUBSET Keys}]
        \cup [op : {"get"}, key : Keys] \cup [op : {"range"}, lo : Nat, hi : Nat]
        \cup [op : {"ping", "stats", "malformed", "garbage"}]

\* Request r with its number on the connection, which is history: it is not on
\* the wire.
Number(r, k) == [f \in DOMAIN r \cup {"n"} |-> IF f = "n" THEN k ELSE r[f]]

VARIABLES
    store,    \* the engine's map
    dbOpen,   \* the engine is open
    draining, \* s.draining
    listener, \* s.ln is open
    serve,    \* the goroutine in Serve: where it is, the connection in hand
    sd,       \* where Shutdown is
    main,     \* where runServe is
    conns,    \* s.conns
    wg,       \* s.wg
    sem,      \* how full the channel s.rangeSem is
    h,        \* h[c]: the handler goroutine of connection c
    stream,   \* stream[c]: the locals of handleRange
    net,      \* net[c]: the connection
    applied   \* history: <<c, n>> if request number n on c took effect

engineVars == <<store, dbOpen, applied>>
lifeVars == <<draining, listener, serve, sd, main, conns, wg>>
serverVars == <<engineVars, lifeVars, sem, h, stream, net>>

----------------------------------------------------------------------------
(* Frames.  The number n of the request that a frame answers is history:   *)
(* it is not on the wire.  0: no request, or one that is not told from     *)
(* others.  The data of END, the snapshot that the stream was to carry, is *)
(* history too.                                                            *)

Frame(st, body, data, n) == [st |-> st, body |-> body, data |-> data, n |-> n]
OK(n) == Frame("OK", "empty", <<>>, n)
End(snap, n) == Frame("OK", "end", snap, n)
Err(st, n) == Frame(st, "error", <<>>, n)
Torn == Frame("torn", "torn", <<>>, 0)

\* Where a handler can be between Accept and the return of its goroutine.
AlivePcs ==
    {"loop", "arm", "read", "exec", "scan", "reply", "release",
     "close", "untrack", "done"}

NoRequest == [op |-> "none", n |-> 0]
NoStream == [todo |-> <<>>, page |-> <<>>, bytes |-> 0, sent |-> 0, over |-> FALSE,
             held |-> FALSE, snap |-> <<>>]

Init ==
    /\ store \in InitStores
    /\ dbOpen = TRUE
    /\ draining = FALSE
    /\ listener = TRUE
    /\ serve = [pc |-> "accept", conn |-> NoConn]
    /\ sd = "idle"
    /\ main = "serving"
    /\ conns = {}
    /\ wg = 0
    /\ sem = 0
    /\ h = [c \in Conns |-> [pc |-> "none", req |-> NoRequest, rdl |-> "none",
                             resp |-> Torn, after |-> "loop"]]
    /\ stream = [c \in Conns |-> NoStream]
    /\ net = [c \in Conns |-> [state |-> "none", in |-> <<>>, out |-> <<>>,
                               peer |-> FALSE, srv |-> FALSE]]
    /\ applied = {}

----------------------------------------------------------------------------
(* The network and the peers of the server (not part of the repository).   *)

\* The peer connects; the connection waits in the listener's backlog.
Dial(c) ==
    /\ net[c].state = "none"
    /\ listener
    /\ net' = [net EXCEPT ![c].state = "backlog", ![c].peer = TRUE, ![c].srv = TRUE]
    /\ UNCHANGED <<engineVars, lifeVars, sem, h, stream>>

\* The peer sends a request.
Send(c, r) ==
    /\ net[c].peer
    /\ Len(net[c].in) < Pipeline
    /\ net' = [net EXCEPT ![c].in = Append(@, Number(r, 0))]
    /\ UNCHANGED <<engineVars, lifeVars, sem, h, stream>>

\* The peer reads one whole frame.
Receive(c) ==
    /\ net[c].peer
    /\ net[c].out # <<>>
    /\ Head(net[c].out) # Torn
    /\ net' = [net EXCEPT ![c].out = Tail(@)]
    /\ UNCHANGED <<engineVars, lifeVars, sem, h, stream>>

\* The peer closes its end; the server reads EOF after what was sent.
Hangup(c) ==
    /\ net[c].peer
    /\ net' = [net EXCEPT ![c].peer = FALSE, ![c].out = <<>>]
    /\ UNCHANGED <<engineVars, lifeVars, sem, h, stream>>

\* wire.WriteFrame on connection c under a write deadline: all of the frame,
\* or an error with part of the frame on the wire or none of it.
Written(c, f) ==
    /\ net[c].srv
    /\ Len(net[c].out) < Buffer
    /\ net' = [net EXCEPT ![c].out = IF net[c].peer THEN Append(@, f) ELSE @]

WriteFails(c) ==
    /\ \/ "net" \in Faults
       \/ ~net[c].srv \/ ~net[c].peer \/ Len(net[c].out) >= Buffer
    /\ \/ UNCHANGED net
       \/ /\ net[c].srv /\ net[c].peer
          /\ net' = [net EXCEPT ![c].out = Append(@, Torn)]

----------------------------------------------------------------------------
(* Serve: the accept loop.                                                 *)

Accept(c) ==
    /\ serve.pc = "accept"
    /\ listener
    /\ net[c].state = "backlog"
    /\ serve' = [pc |-> "accepted", conn |-> c]
    /\ net' = [net EXCEPT ![c].state = "accepted"]
    /\ UNCHANGED <<engineVars, draining, listener, sd, main, conns, wg, sem, h, stream>>

\* Accept returns an error: the listener is closed, or the call failed.
AcceptError ==
    /\ serve.pc = "accept"
    /\ ~listener \/ "accept" \in Faults
    /\ serve' = [pc |-> IF draining THEN "returned" ELSE "failed", conn |-> NoConn]
    /\ UNCHANGED <<engineVars, draining, listener, sd, main, conns, wg, sem, h, stream, net>>

\* Under connsMu: track the connection and start its handler.
StartHandler(c) ==
    /\ conns' = conns \cup {c}
    /\ wg' = wg + 1
    /\ h' = [h EXCEPT ![c].pc = "loop"]
    /\ serve' = [pc |-> "accept", conn |-> NoConn]
    /\ UNCHANGED net

\* Under connsMu, if the server is draining: drop the connection, return.
RefuseConn(c) ==
    /\ net' = [net EXCEPT ![c].srv = FALSE]
    /\ serve' = [pc |-> "returned", conn |-> NoConn]
    /\ UNCHANGED <<conns, wg, h>>

\* Mutant: draining is not checked again under connsMu.
TrackUnchecked ==
    /\ serve.pc = "accepted"
    /\ StartHandler(serve.conn)
    /\ UNCHANGED <<engineVars, draining, listener, sd, main, sem, stream>>

Track ==
    /\ serve.pc = "accepted"
    /\ IF draining THEN RefuseConn(serve.conn) ELSE StartHandler(serve.conn)
    /\ UNCHANGED <<engineVars, draining, listener, sd, main, sem, stream>>

----------------------------------------------------------------------------
(* handleConn: one handler.                                                *)

Goto(c, pc) == h' = [h EXCEPT ![c].pc = pc]

\* The answer f is to be written; the handler then goes on, or returns.
Reply(c, f, after) ==
    h' = [h EXCEPT ![c].pc = "reply", ![c].resp = f, ![c].after = after]

\* Mutant: the loop does not look at draining.
LoopBlind(c) ==
    /\ h[c].pc = "loop"
    /\ Goto(c, "arm")
    /\ UNCHANGED <<engineVars, lifeVars, sem, stream, net>>

Loop(c) ==
    /\ h[c].pc = "loop"
    /\ IF draining THEN Reply(c, Err("CLOSED", 0), "close") ELSE Goto(c, "arm")
    /\ UNCHANGED <<engineVars, lifeVars, sem, stream, net>>

\* SetReadDeadline(now + ReadDeadline), which fails on a closed connection.
ArmDeadline(c) ==
    /\ h[c].pc = "arm"
    /\ h' = [h EXCEPT ![c].pc = IF net[c].srv THEN "read" ELSE "close",
                      ![c].rdl = "future"]
    /\ UNCHANGED <<engineVars, lifeVars, sem, stream, net>>

\* ReadRequest returns a request, or a ProtocolError, which is answered.
ReadRequest(c) ==
    /\ h[c].pc = "read"
    /\ h[c].rdl = "future"
    /\ net[c].srv
    /\ net[c].in # <<>>
    /\ LET r == Head(net[c].in)
       IN  h' = [h EXCEPT
                 ![c].req = r,
                 ![c].pc = CASE r.op = "garbage" -> "close"
                             [] r.op = "malformed" -> "reply"
                             [] OTHER -> "exec",
                 ![c].resp = IF r.op = "malformed" THEN Err("BAD_REQUEST", r.n) ELSE @,
                 ![c].after = "loop"]
    /\ net' = [net EXCEPT ![c].in = Tail(@)]
    /\ UNCHANGED <<engineVars, lifeVars, sem, stream>>

\* ReadRequest returns EOF, the deadline, or another error.
ReadEnds(c) ==
    /\ h[c].pc = "read"
    /\ Goto(c, "close")
    /\ UNCHANGED <<engineVars, lifeVars, sem, stream, net>>

----------------------------------------------------------------------------
(* dispatchOnce.                                                           *)

\* The map after a Put, Delete or BatchPut.
Apply(r) ==
    [k \in Keys |-> IF k \in DOMAIN r.ops THEN r.ops[k] ELSE store[k]]

\* An engine call that fails, as the status of classifyEngineErr.
EngineErrors(r) ==
    IF ~dbOpen THEN {"CLOSED"}
    ELSE {"INTERNAL" : f \in Faults \cap {"engine"}}
         \cup {"CLOSED" : f \in {g \in Faults : g = "disabled" /\ r.op \in Writes}}
         \cup {"BAD_REQUEST" : f \in {g \in Faults : g = "toolarge" /\ r.op = "batch"}}

\* Mutant: the error of the engine call is not looked at.
ExecWriteUnchecked(c) ==
    LET r == h[c].req
    IN  /\ h[c].pc = "exec"
        /\ r.op \in Writes
        /\ Reply(c, OK(r.n), "loop")
        /\ \/ dbOpen /\ store' = Apply(r) /\ applied' = applied \cup {<<c, r.n>>}
           \/ EngineErrors(r) # {} /\ UNCHANGED <<store, applied>>
        /\ UNCHANGED <<dbOpen, lifeVars, sem, stream, net>>

\* The engine call of a write: it takes effect and returns nil, or it
\* returns an error.  Behind INTERNAL it may have taken effect all the same
\* (the record was appended and its fsync failed).
ExecWrite(c) ==
    LET r == h[c].req
        done == store' = Apply(r) /\ applied' = applied \cup {<<c, r.n>>}
    IN  /\ h[c].pc = "exec"
        /\ r.op \in Writes
        /\ \/ /\ dbOpen
              /\ done
              /\ Reply(c, OK(r.n), "loop")
           \/ \E st \in EngineErrors(r) :
                /\ Reply(c, Err(st, r.n), "loop")
                /\ \/ UNCHANGED <<store, applied>>
                   \/ st = "INTERNAL" /\ done
        /\ UNCHANGED <<dbOpen, lifeVars, sem, stream, net>>

ExecGet(c) ==
    LET r == h[c].req
    IN  /\ h[c].pc = "exec"
        /\ r.op = "get"
        /\ \/ /\ dbOpen
              /\ Reply(c, IF store[r.key] = Tombstone THEN Err("NOT_FOUND", r.n)
                          ELSE Frame("OK", "value", <<store[r.key]>>, r.n), "loop")
           \/ \E st \in EngineErrors(r) : Reply(c, Err(st, r.n), "loop")
        /\ UNCHANGED <<engineVars, lifeVars, sem, stream, net>>

\* PING and STATS ask nothing of the engine that a closed one refuses.
ExecPingStats(c) ==
    LET r == h[c].req
        live == {k \in Keys : store[k] # Tombstone}
    IN  /\ h[c].pc = "exec"
        /\ \/ r.op = "ping" /\ Reply(c, OK(r.n), "loop")
           \/ r.op = "stats" /\ Reply(c, Frame("OK", "count", <<Cardinality(live)>>, r.n), "loop")
        /\ UNCHANGED <<engineVars, lifeVars, sem, stream, net>>

----------------------------------------------------------------------------
(* handleRange.                                                            *)

\* u32 klen + key + u32 vlen + value
EntryBytes(p) == 4 + 1 + 4 + ValLen[p[2]]

\* len(wire.EncodeRangePage(page)): u32 pair_count and the bytes of the pairs.
PairBytes(page) == UNION {{i} \X (1 .. EntryBytes(page[i])) : i \in DOMAIN page}
BodyBytes(page) == 4 + Cardinality(PairBytes(page))

\* DB.ReadKeyRange: the pairs of [lo, hi) in the order of their keys.  (A set
\* of one sequence.)
RangeOf(r) ==
    LET in == {k \in Keys : store[k] # Tombstone /\ r.lo <= k /\ k < r.hi}
        sorted == {s \in [1 .. Cardinality(in) -> in] :
                     \A i, j \in DOMAIN s : i < j => s[i] < s[j]}
    IN  {[i \in DOMAIN s |-> <<s[i], store[s[i]]>>] : s \in sorted}

\* The request takes a slot of rangeSem if there is one, and the engine
\* reads the whole range before it hands out the first pair.
RangeBegin(c) ==
    LET r == h[c].req
    IN  /\ h[c].pc = "exec"
        /\ r.op = "range"
        /\ IF sem >= MaxStreams
           THEN /\ Reply(c, Err("OVERLOAD", r.n), "loop")
                /\ UNCHANGED <<sem, stream>>
           ELSE /\ sem' = sem + 1
                /\ \/ /\ dbOpen
                      /\ \E pairs \in RangeOf(r) :
                           stream' = [stream EXCEPT ![c] =
                             [NoStream EXCEPT !.todo = pairs, !.snap = pairs, !.held = TRUE]]
                      /\ Goto(c, "scan")
                   \/ \E st \in EngineErrors(r) :
                        /\ stream' = [stream EXCEPT ![c] = [NoStream EXCEPT !.held = TRUE]]
                        /\ Reply(c, Err(st, r.n), "loop")
        /\ UNCHANGED <<engineVars, lifeVars, net>>

\* The scan is over: all pairs were handed out, or the cap was met.
ScanOver(c) == stream[c].over \/ stream[c].todo = <<>>

\* The callback must flush before the next pair.
PageFull(c) == stream[c].bytes >= FlushBytes

\* Mutant: the header of the page is left out of the projection.
ProjectedBare(c) ==
    stream[c].sent + stream[c].bytes + EntryBytes(Head(stream[c].todo))

\* Bytes on the wire if the next pair joins the page.
Projected(c) ==
    stream[c].sent + stream[c].bytes + 4 + EntryBytes(Head(stream[c].todo))

\* The callback for the next pair.
ScanPair(c) ==
    /\ h[c].pc = "scan"
    /\ ~ScanOver(c) /\ ~PageFull(c)
    /\ stream' = IF Projected(c) > MaxRangeBytes
                 THEN [stream EXCEPT ![c].over = TRUE]
                 ELSE [stream EXCEPT ![c].page = Append(@, Head(stream[c].todo)),
                                     ![c].bytes = @ + EntryBytes(Head(stream[c].todo)),
                                     ![c].todo = Tail(@)]
    /\ UNCHANGED <<engineVars, lifeVars, sem, h, net>>

FlushDue(c) ==
    /\ h[c].pc = "scan"
    /\ stream[c].page # <<>>
    /\ ScanOver(c) \/ PageFull(c)

Flush(c) ==
    LET page == stream[c].page
    IN  /\ FlushDue(c)
        /\ Written(c, Frame("OK", "page", page, h[c].req.n))
        /\ stream' = [stream EXCEPT ![c].sent = @ + BodyBytes(page),
                                    ![c].page = <<>>, ![c].bytes = 0]
        /\ UNCHANGED <<engineVars, lifeVars, sem, h>>

\* Mutant: a failed flush is answered in-band, like an error of the scan.
FlushFailInBand(c) ==
    /\ FlushDue(c)
    /\ WriteFails(c)
    /\ Reply(c, Err("INTERNAL", h[c].req.n), "loop")
    /\ UNCHANGED <<engineVars, lifeVars, sem, stream>>

FlushFail(c) ==
    /\ FlushDue(c)
    /\ WriteFails(c)
    /\ h' = [h EXCEPT ![c].pc = "release", ![c].after = "close"]
    /\ UNCHANGED <<engineVars, lifeVars, sem, stream>>

\* Mutant: END is sent without the last page.
StreamEndEarly(c) ==
    LET n == h[c].req.n
    IN  /\ h[c].pc = "scan"
        /\ ScanOver(c) /\ ~PageFull(c)
        /\ Reply(c, IF stream[c].over THEN Err("OVERLOAD", n) ELSE End(stream[c].snap, n),
                 "loop")
        /\ UNCHANGED <<engineVars, lifeVars, sem, stream, net>>

\* Mutant: the OVERLOAD frame does not end the response.
StreamEndBoth(c) ==
    LET n == h[c].req.n
    IN  /\ h[c].pc = "scan"
        /\ ScanOver(c) /\ stream[c].page = <<>>
        /\ IF stream[c].over THEN Written(c, Err("OVERLOAD", n)) ELSE UNCHANGED net
        /\ Reply(c, End(stream[c].snap, n), "loop")
        /\ UNCHANGED <<engineVars, lifeVars, sem, stream>>

\* The stream ends with the END sentinel, or with OVERLOAD.
StreamEnd(c) ==
    LET n == h[c].req.n
    IN  /\ h[c].pc = "scan"
        /\ ScanOver(c) /\ stream[c].page = <<>>
        /\ Reply(c, IF stream[c].over THEN Err("OVERLOAD", n) ELSE End(stream[c].snap, n),
                 "loop")
        /\ UNCHANGED <<engineVars, lifeVars, sem, stream, net>>

----------------------------------------------------------------------------
(* The answer goes out, and the handler goes on or returns.                *)

\* Mutant: the slot is not given back when the stream ends.
ReturnWithSlot(c, pc) ==
    h' = [h EXCEPT ![c].pc = pc, ![c].after = pc, ![c].req = NoRequest, ![c].resp = Torn]

\* handleRange returns through its deferred release of the slot.
ReturnTo(c, pc) ==
    h' = [h EXCEPT ![c].pc = IF stream[c].held THEN "release" ELSE pc,
                   ![c].after = pc, ![c].req = NoRequest, ![c].resp = Torn]

WriteReply(c) ==
    /\ h[c].pc = "reply"
    /\ Written(c, h[c].resp)
    /\ ReturnTo(c, h[c].after)
    /\ UNCHANGED <<engineVars, lifeVars, sem, stream>>

WriteReplyFail(c) ==
    /\ h[c].pc = "reply"
    /\ WriteFails(c)
    /\ ReturnTo(c, "close")
    /\ UNCHANGED <<engineVars, lifeVars, sem, stream>>

Release(c) ==
    /\ h[c].pc = "release"
    /\ sem' = sem - 1
    /\ stream' = [stream EXCEPT ![c] = NoStream]
    /\ Goto(c, h[c].after)
    /\ UNCHANGED <<engineVars, lifeVars, net>>

\* The deferred calls of the goroutine: c.Close, untrackConn, wg.Done.
CloseConn(c) ==
    /\ h[c].pc = "close"
    /\ net' = [net EXCEPT ![c].srv = FALSE, ![c].in = <<>>]
    /\ Goto(c, "untrack")
    /\ UNCHANGED <<engineVars, lifeVars, sem, stream>>

Untrack(c) ==
    /\ h[c].pc = "untrack"
    /\ conns' = conns \ {c}
    /\ Goto(c, "done")
    /\ UNCHANGED <<engineVars, draining, listener, serve, sd, main, wg, sem, stream, net>>

Done(c) ==
    /\ h[c].pc = "done"
    /\ wg' = wg - 1
    /\ Goto(c, "gone")
    /\ UNCHANGED <<engineVars, draining, listener, serve, sd, main, conns, sem, stream, net>>

Handler(c) ==
    \/ Loop(c) \/ ArmDeadline(c) \/ ReadRequest(c) \/ ReadEnds(c)
    \/ ExecWrite(c) \/ ExecGet(c) \/ ExecPingStats(c)
    \/ RangeBegin(c) \/ ScanPair(c) \/ Flush(c) \/ FlushFail(c) \/ StreamEnd(c)
    \/ WriteReply(c) \/ WriteReplyFail(c) \/ Release(c)
    \/ CloseConn(c) \/ Untrack(c) \/ Done(c)

----------------------------------------------------------------------------
(* Shutdown and runServe.                                                  *)

\* A signal: runServe calls Shutdown, which sets draining first.
Signal ==
    /\ main = "serving"
    /\ main' = "shutdown"
    /\ draining' = TRUE
    /\ sd' = "close"
    /\ UNCHANGED <<engineVars, listener, serve, conns, wg, sem, h, stream, net>>

CloseListener ==
    /\ sd = "close"
    /\ listener' = FALSE
    /\ sd' = "poke"
    /\ net' = [c \in Conns |-> IF net[c].state = "backlog"
                               THEN [net[c] EXCEPT !.state = "reset", !.srv = FALSE]
                               ELSE net[c]]
    /\ UNCHANGED <<engineVars, draining, serve, main, conns, wg, sem, h, stream>>

\* Under connsMu: a past read deadline for every tracked connection.
Poke ==
    /\ sd = "poke"
    /\ sd' = "wait"
    /\ h' = [c \in Conns |-> IF c \in conns THEN [h[c] EXCEPT !.rdl = "past"] ELSE h[c]]
    /\ UNCHANGED <<engineVars, draining, listener, serve, main, conns, wg, sem, stream, net>>

\* The context expires: every tracked connection is closed.
ForceClose ==
    /\ sd = "wait"
    /\ Grace
    /\ sd' = "forced"
    /\ net' = [c \in Conns |-> IF c \in conns THEN [net[c] EXCEPT !.srv = FALSE] ELSE net[c]]
    /\ UNCHANGED <<engineVars, draining, listener, serve, main, conns, wg, sem, h, stream>>

\* Mutant: Shutdown does not wait for the handlers.
ShutdownNoWait ==
    /\ sd \in {"wait", "forced"}
    /\ sd' = "returned"
    /\ UNCHANGED <<engineVars, draining, listener, serve, main, conns, wg, sem, h, stream, net>>

\* wg.Wait has returned.
ShutdownReturns ==
    /\ sd \in {"wait", "forced"}
    /\ wg = 0
    /\ sd' = "returned"
    /\ UNCHANGED <<engineVars, draining, listener, serve, main, conns, wg, sem, h, stream, net>>

\* runServe returns, which runs its deferred db.Close: Shutdown and Serve
\* have returned, or Serve has returned on its own.
CloseEngine ==
    /\ \/ main = "shutdown" /\ sd = "returned" /\ serve.pc \in {"returned", "failed"}
       \/ main = "serving" /\ serve.pc \in {"returned", "failed"}
    /\ dbOpen
    /\ dbOpen' = FALSE
    /\ main' = "closed"
    /\ UNCHANGED <<store, applied, draining, listener, serve, sd, conns, wg, sem, h, stream, net>>

\* The process ends, and its connections and goroutines with it.
Exit ==
    /\ main = "closed"
    /\ main' = "exited"
    /\ listener' = FALSE
    /\ net' = [c \in Conns |-> [net[c] EXCEPT !.srv = FALSE]]
    /\ h' = [c \in Conns |-> [h[c] EXCEPT !.pc = "gone"]]
    /\ serve' = [serve EXCEPT !.pc = "returned"]
    /\ UNCHANGED <<engineVars, draining, sd, conns, wg, sem, stream>>

Process ==
    \/ \E c \in Conns : Accept(c)
    \/ AcceptError \/ Track
    \/ CloseListener \/ Poke \/ ShutdownReturns \/ CloseEngine

ServerNext ==
    Process \/ Signal \/ ForceClose \/ Exit \/ \E c \in Conns : Handler(c)

\* A peer that does what it likes.
Peer(c) ==
    Dial(c) \/ (\E r \in Requests : Send(c, r)) \/ Receive(c) \/ Hangup(c)

Next == main # "exited" /\ (ServerNext \/ \E c \in Conns : Peer(c))

Spec == Init /\ [][Next]_serverVars

\* Every goroutine of the process goes on when it can.  A read ends at the
\* latest at its deadline, a blocked write fails at the latest at its own.
Fairness ==
    /\ WF_serverVars(main # "exited" /\ Process)
    /\ \A c \in Conns : WF_serverVars(main # "exited" /\ Handler(c))

----------------------------------------------------------------------------
(* Properties.                                                             *)

\* Serve and Shutdown (server.go, "leaving a goroutine alive past
\* Shutdown"): once Shutdown has returned, forced or not, no handler runs,
\* none is tracked, and the engine that runServe closes next is in no
\* handler's hands.
ShutdownDrains ==
    sd = "returned" => /\ \A c \in Conns : h[c].pc \notin AlivePcs
                       /\ conns = {}
                       /\ sem = 0

\* handleRange (server.go, the semaphore): its slots are exactly the streams
\* in flight, so a stream that fails gives its slot back and range requests
\* are not refused for ever.
SlotsAreStreams ==
    main # "exited" => sem = Cardinality({c \in Conns : stream[c].held /\ h[c].pc \in
                           {"scan", "reply", "release"}})

\* handleRange (server.go, "we never write a page that pushes us past the
\* cap"): the bodies of the pages of one response, the page in hand
\* included, stay within MaxRangeResponseBytes.
StreamWithinCap ==
    \A c \in Conns :
        stream[c].sent + (IF stream[c].page = <<>> THEN 0 ELSE BodyBytes(stream[c].page))
            <= MaxRangeBytes

\* handleConn and handleRange ("a transport write error has already
\* corrupted the framing on this conn"): nothing is written after a frame
\* that was cut short.
FramingKept ==
    \A c \in Conns : \A i \in DOMAIN net[c].out :
        net[c].out[i] = Torn => i = Len(net[c].out)

\* Shutdown and runServe: after a signal the process reaches the Close of
\* the engine, even if the context never expires and whatever peers do.
ShutdownCompletes == draining ~> ~dbOpen
=============================================================================
