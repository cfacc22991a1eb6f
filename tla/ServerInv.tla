----------------------------- MODULE ServerInv ------------------------------
(***************************************************************************)
(* The inductive invariant of Server: what the accept loop, the handlers   *)
(* and Shutdown rely on about each other between their steps, whatever the *)
(* peers do.  ServerProofs proves it inductive for every value of the      *)
(* constants.                                                              *)
(***************************************************************************)
EXTENDS Server

HandlerPcs == AlivePcs \cup {"none", "gone"}

\* What is on the wire: requests with their number, and frames.
Sent == {Number(r, k) : r \in Requests, k \in Nat} \cup [op : {"garbage"}, n : Nat]
Pairs == Keys \X Values
Data == Pairs \cup Values \cup Nat
Statuses ==
    {"OK", "NOT_FOUND", "BAD_REQUEST", "OVERLOAD", "CLOSED", "INTERNAL", "torn"}
Frames ==
    [st : Statuses, body : {"empty", "value", "count", "page", "end", "error", "torn"},
     data : Seq(Data), n : Nat]

LifeTypeOK ==
    /\ dbOpen \in BOOLEAN /\ draining \in BOOLEAN /\ listener \in BOOLEAN
    /\ serve \in [pc : {"accept", "accepted", "returned", "failed"},
                  conn : Conns \cup {NoConn}]
    /\ sd \in {"idle", "close", "poke", "wait", "forced", "returned"}
    /\ main \in {"serving", "shutdown", "closed", "exited"}
    /\ wg \in Nat /\ sem \in Nat

HandlerRecord ==
    [pc : HandlerPcs, req : Sent \cup {NoRequest}, rdl : {"none", "future", "past"},
     resp : Frames, after : {"loop", "close"}]
HandlerTypeOK == h \in [Conns -> HandlerRecord]

StreamRecord ==
    [todo : Seq(Pairs), page : Seq(Pairs), bytes : Nat, sent : Nat, over : BOOLEAN,
     held : BOOLEAN, snap : Seq(Pairs)]
StreamTypeOK ==
    /\ store \in [Keys -> Values \cup {Tombstone}]
    /\ stream \in [Conns -> StreamRecord]

NetRecord ==
    [state : {"none", "backlog", "accepted", "reset"}, in : Seq(Sent), out : Seq(Frames),
     peer : BOOLEAN, srv : BOOLEAN]
NetTypeOK == net \in [Conns -> NetRecord]

ServerTypeOK == LifeTypeOK /\ HandlerTypeOK /\ StreamTypeOK /\ NetTypeOK

\* The connections whose handler goroutine runs.
Live == {c \in Conns : h[c].pc \in AlivePcs}

\* s.wg counts the handlers, s.conns holds those that may still write, and a
\* connection gets its one handler from Serve.
HandlersInv ==
    main # "exited" =>
        /\ IsFiniteSet(Live) /\ wg = Cardinality(Live)
        /\ conns = {c \in Conns : h[c].pc \in AlivePcs \ {"done"}}
        /\ \A c \in Conns : net[c].state \in {"none", "backlog"} => h[c].pc = "none"
        /\ serve.pc = "accepted" => /\ serve.conn \in Conns
                                    /\ net[serve.conn].state = "accepted"
                                    /\ h[serve.conn].pc = "none"

\* Nothing is started once Shutdown has begun.
DrainInv ==
    /\ sd # "idle" => draining
    /\ sd = "returned" => Live = {} /\ conns = {} /\ sem = 0

\* The streams that hold a slot of rangeSem.
Streams == {c \in Conns : stream[c].held}
SlotsInv ==
    main # "exited" =>
        /\ \A c \in Conns :
             /\ stream[c].held => h[c].pc \in {"scan", "reply", "release"}
             /\ h[c].pc \in {"scan", "release"} => stream[c].held
        /\ sem = Cardinality(Streams)

\* pageBytes is the length that the encoder gives the pairs of the page, and
\* with the header of the page they fit under the cap.
CapInv ==
    \A c \in Conns :
        /\ IsFiniteSet(PairBytes(stream[c].page))
        /\ stream[c].bytes = Cardinality(PairBytes(stream[c].page))
        /\ stream[c].sent + (IF stream[c].page = <<>> THEN 0 ELSE 4 + stream[c].bytes)
             <= MaxRangeBytes

\* A handler whose connection has a frame cut short is on its way out.
Leaving(c) ==
    \/ h[c].pc \in {"close", "untrack", "done", "gone"}
    \/ h[c].pc = "release" /\ h[c].after = "close"
FramingInv ==
    \A c \in Conns :
        /\ h[c].pc = "reply" => h[c].resp.st # "torn"
        /\ \A i \in DOMAIN net[c].out :
             net[c].out[i] = Torn => i = Len(net[c].out) /\ Leaving(c)

ServerInd ==
    ServerTypeOK /\ HandlersInv /\ DrainInv /\ SlotsInv /\ CapInv /\ FramingInv

\* What a peer, or a Client, may do to connection c.
PeerMove(c) ==
    /\ UNCHANGED <<engineVars, lifeVars, sem, h, stream>>
    /\ \/ Dial(c) \/ Receive(c) \/ Hangup(c)
       \/ \E q \in Sent : net' = [net EXCEPT ![c].in = Append(@, q)]
       \/ UNCHANGED net
=============================================================================
