------------------------------- MODULE Client -------------------------------
(***************************************************************************)
(* The Go client (internal/client/client.go), one Client per connection,   *)
(* against the server of Server.tla: what a call tells its caller when     *)
(* deadlines expire, connections break and the server shuts down.          *)
(*                                                                         *)
(* A caller makes its calls one after the other.  Unless Reuse, it closes  *)
(* the Client after an error that did not come from the server, as every   *)
(* subcommand of cmd/little-db does.  A connection may also belong to      *)
(* another program, a peer that does what it likes.                        *)
(*                                                                         *)
(* A frame is told from another only by its status and by whether its body *)
(* decodes as the call expects.                                            *)
(***************************************************************************)
EXTENDS Server

CONSTANTS
    Reuse,        \* whether callers go on after a transport error
    MaxCalls,     \* bound: calls of a Client
    ClientFaults  \* what may happen to a call: its deadline expires
                  \* ("timeout"), or pageFn returns false ("stop")

ASSUME ReuseAssumption == Reuse \in BOOLEAN
ASSUME ClientFaultsAssumption == ClientFaults \subseteq {"timeout", "stop"}

VARIABLE
    cl   \* cl[c]: the Client on connection c, or a peer that is none ("raw")

NoResult == [kind |-> "none", st |-> "none", from |-> 0]

\* An error that leaves the connection in an unknown state.
Broken == {"timeout", "eof", "protocol", "stopped"}

NewClient(pc) ==
    [pc |-> pc, call |-> NoRequest, res |-> NoResult, got |-> <<>>, snap |-> <<>>,
     bad |-> FALSE]

\* The call returns.  from: the request that the last frame read was for.
Return(c, kind, st, from) ==
    [cl[c] EXCEPT !.pc = "idle", !.bad = @ \/ kind \in Broken,
                  !.res = [kind |-> kind, st |-> st, from |-> from]]

----------------------------------------------------------------------------
(* Dial, and the request of a call.                                        *)

ClientDial(c) ==
    /\ cl[c].pc = "none"
    /\ Dial(c)
    /\ cl' = [cl EXCEPT ![c].pc = "idle"]

\* The caller may make a call.
MayCall(c) ==
    /\ cl[c].pc = "idle"
    /\ cl[c].call.n < MaxCalls
    /\ Reuse \/ ~cl[c].bad

\* setDeadlines, EncodeRequest and the write.  A connection that the server
\* has closed may still take the bytes.
Call(c, r) ==
    LET n == cl[c].call.n + 1
        req == Number(r, n)
    IN  /\ MayCall(c)
        /\ net' = [net EXCEPT ![c].in = IF net[c].srv THEN Append(@, req) ELSE @]
        /\ cl' = [cl EXCEPT ![c].pc = "wait", ![c].call = req, ![c].res = NoResult,
                            ![c].got = <<>>, ![c].snap = <<>>]
        /\ UNCHANGED <<engineVars, lifeVars, sem, h, stream>>

\* The write fails, with part of the frame sent or none of it.
CallFails(c, r) ==
    LET n == cl[c].call.n + 1
    IN  /\ MayCall(c)
        /\ "net" \in Faults \/ ~net[c].srv
        /\ \E part \in BOOLEAN :
             net' = [net EXCEPT ![c].in = IF part /\ net[c].srv
                                          THEN Append(@, [op |-> "garbage", n |-> n]) ELSE @]
        /\ cl' = [cl EXCEPT ![c] = [Return(c, "eof", "none", 0) EXCEPT
                                      !.call = Number(r, n)]]
        /\ UNCHANGED <<engineVars, lifeVars, sem, h, stream>>

----------------------------------------------------------------------------
(* The answer.                                                             *)

\* What the call of operation op makes of frame f: statusToErr, and the
\* decoders of OK bodies.  "more": a page of a stream.
Outcome(op, f) ==
    IF f.st # "OK" THEN IF op = "get" /\ f.st = "NOT_FOUND" THEN "notfound" ELSE "remote"
    ELSE CASE op \in Writes \cup {"ping"} -> "nil"
           [] op = "get" -> IF f.body = "value" THEN "nil" ELSE "protocol"
           [] op = "stats" -> IF f.body = "count" THEN "nil" ELSE "protocol"
           [] op = "range" -> IF f.body = "page" THEN "more"
                              ELSE IF f.body = "end" THEN "nil" ELSE "protocol"

\* wire.ReadFrame returns a frame.  pageFn may ask to stop after a page.
Read(c) ==
    LET f == Head(net[c].out)
        o == Outcome(cl[c].call.op, f)
        page == IF f.body = "page" THEN f.data ELSE <<>>
    IN  /\ cl[c].pc = "wait"
        /\ Receive(c)
        /\ \/ /\ o = "more"
              /\ cl' = [cl EXCEPT ![c].got = @ \o page]
           \/ /\ o = "more" /\ "stop" \in ClientFaults
              /\ cl' = [cl EXCEPT ![c] = Return(c, "stopped", "none", f.n)]
           \/ /\ o # "more"
              /\ cl' = [cl EXCEPT ![c] = [Return(c, o, f.st, f.n) EXCEPT
                          !.snap = IF f.body = "end" THEN f.data ELSE <<>>]]

\* The deadline of the call, or of the next frame of its stream, expires.
Timeout(c) ==
    /\ cl[c].pc = "wait"
    /\ "timeout" \in ClientFaults
    /\ cl' = [cl EXCEPT ![c] = Return(c, "timeout", "none", 0)]
    /\ UNCHANGED serverVars

\* The server has closed the connection.  A frame that answered no request
\* can be lost with it: the request came after it and resets the connection.
ReadFails(c) ==
    /\ cl[c].pc = "wait"
    /\ ~net[c].srv
    /\ "net" \in Faults \/ \A i \in DOMAIN net[c].out : net[c].out[i].n = 0
    /\ cl' = [cl EXCEPT ![c] = Return(c, "eof", "none", 0)]
    /\ UNCHANGED serverVars

\* Client.Close.
ClientClose(c) ==
    /\ cl[c].pc = "idle"
    /\ Hangup(c)
    /\ cl' = [cl EXCEPT ![c].pc = "closed"]

\* A Client sends well-formed requests only.
ClientRequests == {r \in Requests : r.op \notin {"malformed", "garbage"}}

ClientStep(c) ==
    \/ ClientDial(c)
    \/ \E r \in ClientRequests : Call(c, r) \/ CallFails(c, r)
    \/ Read(c) \/ Timeout(c) \/ ReadFails(c) \/ ClientClose(c)

RawPeer(c) == cl[c].pc = "raw" /\ Peer(c) /\ UNCHANGED cl

CInit ==
    /\ Init
    /\ cl \in [Conns -> {NewClient("none"), NewClient("raw")}]

CNext ==
    \/ main # "exited" /\ ServerNext /\ UNCHANGED cl
    \/ \E c \in Conns : ClientStep(c) \/ (main # "exited" /\ RawPeer(c))

cvars == <<serverVars, cl>>

CSpec == CInit /\ [][CNext]_cvars

CFairSpec == CSpec /\ Fairness

----------------------------------------------------------------------------
(* Properties.                                                             *)

\* client.go, Put, Delete and Batch, with dispatchOnce: nil means that the
\* write took effect, and a BAD_REQUEST, CLOSED or OVERLOAD error means
\* that it did not and never will, also when the server drains while the
\* call is on its way.
CallsAnsweredTruly ==
    \A c \in Conns :
        LET did == <<c, cl[c].call.n>> \in applied
        IN  /\ cl[c].res.kind = "nil" /\ cl[c].call.op \in Writes => did
            /\ cl[c].res.st \in {"BAD_REQUEST", "CLOSED", "OVERLOAD"} => ~did

\* client.go, roundTripUnary and ReadKeyRange: the frames a call reads are
\* the answer to that call.  The exception is the CLOSED frame of a draining
\* server, which answers whatever comes next.
AnswersAreOwn ==
    \A c \in Conns :
        cl[c].res.kind \in {"nil", "notfound", "remote", "protocol"} =>
            \/ cl[c].res.from = cl[c].call.n
            \/ cl[c].res.from = 0 /\ cl[c].res.st = "CLOSED"

\* client.go, ReadKeyRange with handleRange: nil means that pageFn was given
\* the whole range, as it was at one moment of the call.
NilMeansWholeRange ==
    \A c \in Conns :
        cl[c].call.op = "range" /\ cl[c].res.kind = "nil" => cl[c].got = cl[c].snap

\* server.go, package comment ("A connection currently processing a request
\* finishes that request"): a drain without a deadline cuts off no call whose
\* write took effect.
DrainLeavesNoDoubt ==
    \A c \in Conns :
        cl[c].res.kind = "eof" => <<c, cl[c].call.n>> \notin applied
=============================================================================
