----------------------------- MODULE ClientInv ------------------------------
(***************************************************************************)
(* The inductive invariant of Client: where a call can be between the      *)
(* Client, the network and the handler, and what each of them knows of it. *)
(* It holds for callers that do not go on after a transport error (~Reuse) *)
(* and is proved in ClientProofs.  StreamInd, on range streams, and        *)
(* DrainInd, on a drain without a deadline, are proved beside it in        *)
(* CallProofs.                                                             *)
(***************************************************************************)
EXTENDS Client, ServerInv

Kinds == {"none", "nil", "notfound", "remote"} \cup Broken
ClientRecord ==
    [pc : {"none", "raw", "idle", "wait", "closed"}, call : Sent \cup {NoRequest},
     res : [kind : Kinds, st : Statuses \cup {"none"}, from : Nat],
     got : Seq(Data), snap : Seq(Data), bad : BOOLEAN]
ClientTypeOK == cl \in [Conns -> ClientRecord]

\* The number of the current call of c, and whether it took effect.
Current(c) == cl[c].call.n
Did(c) == <<c, Current(c)>> \in applied

\* The farewell of a draining server, and a frame that ends a response.
Farewell == Err("CLOSED", 0)
Final(f) == ~(f.st = "OK" /\ f.body = "page")

\* The response to the current call is on its way, as far as its last frame.
Answered(c) ==
    \E i \in DOMAIN net[c].out : Final(net[c].out[i]) /\ net[c].out[i].n # 0

\* The handler reads no more requests.
Ending(c) == Leaving(c) \/ (h[c].pc = "reply" /\ h[c].after = "close")

\* A request of c waits for a handler that will read it.
Queued(c) == net[c].in # <<>> /\ ~Ending(c)

\* The handler is at work on a request of c.
AtWork(c) == h[c].pc \in {"exec", "scan"} \/ (h[c].pc = "reply" /\ h[c].resp.n # 0)

\* A call is under way, or its Client gave it up.
Pending(c) == cl[c].pc = "wait" \/ cl[c].bad

\* The Client: what it keeps of its call.  An error that leaves the connection
\* in an unknown state is the last result of a Client.
CallOps == Writes \cup {"get", "range", "ping", "stats"}
CallInv(c) ==
    /\ cl[c].pc = "none" =>
         net[c].state = "none" /\ net[c].in = <<>> /\ net[c].out = <<>> /\ ~cl[c].bad
    /\ cl[c].pc \in {"idle", "wait"} => net[c].peer
    /\ cl[c].pc = "none" \/ Current(c) = 0 => cl[c].call = NoRequest
    /\ Current(c) # 0 => cl[c].call.op \in CallOps
    /\ cl[c].pc = "wait" => Current(c) # 0 /\ ~cl[c].bad /\ cl[c].res = NoResult
    /\ cl[c].bad => cl[c].res.kind \in Broken /\ cl[c].res.st \in {"none", "OK"}

\* The request on its way and the one in the handler's hands are the current
\* call.  At most one is under way.
RequestInv(c) ==
    /\ Queued(c) => /\ Len(net[c].in) = 1
                    /\ net[c].in[1] = cl[c].call
                         \/ (net[c].in[1].op = "garbage" /\ cl[c].bad)
                    /\ ~AtWork(c)
    /\ h[c].pc \in {"exec", "scan"} => h[c].req = cl[c].call /\ Current(c) # 0
    /\ h[c].pc = "scan" => cl[c].call.op = "range"
    /\ Queued(c) \/ AtWork(c) => ~Answered(c) /\ Pending(c)

\* The answer in the handler's hands is the last frame of the response to the
\* current call, or the farewell.
ReplyInv(c) ==
    h[c].pc = "reply" =>
        IF h[c].resp.n = 0
        THEN h[c].resp = Farewell /\ h[c].after = "close"
        ELSE h[c].resp.n = Current(c) /\ h[c].after = "loop" /\ Final(h[c].resp)

\* The frames on their way answer the current call, and none follows the last
\* frame of a response; a farewell answers none.
FrameInv(c) ==
    \A i \in DOMAIN net[c].out :
        LET f == net[c].out[i]
        IN  /\ f.n = 0 => f \in {Farewell, Torn} /\ Leaving(c)
            /\ f.n # 0 => f.n = Current(c) /\ Pending(c)
            /\ ~Final(f) => cl[c].call.op = "range"
            /\ \A j \in DOMAIN net[c].out : i < j /\ Final(f) => net[c].out[j].n = 0

\* The statuses of errors behind which nothing has happened.
Refusals == {"NOT_FOUND", "BAD_REQUEST", "CLOSED", "OVERLOAD"}

\* What a frame says of the current call.
True(c, f) ==
    /\ f.st = "OK" /\ Final(f) /\ cl[c].call.op \in Writes => Did(c)
    /\ f.st \in Refusals => ~Did(c)

\* Calls take effect in the handler's hands only, and answers are true.
EffectInv(c) ==
    /\ \A m \in Nat : <<c, m>> \in applied => m # 0 /\ m <= Current(c)
    /\ Queued(c) \/ h[c].pc \in {"exec", "scan"} => ~Did(c)
    /\ h[c].pc = "reply" /\ h[c].resp.n # 0 => True(c, h[c].resp)
    /\ \A i \in DOMAIN net[c].out : net[c].out[i].n # 0 => True(c, net[c].out[i])
    /\ cl[c].pc = "wait" /\ Did(c) /\ ~Answered(c) =>
         \/ AtWork(c)
         \/ Leaving(c) /\ \A i \in DOMAIN net[c].out : net[c].out[i] # Farewell

\* The result of the Client.
ResultInv(c) ==
    /\ cl[c].res.kind = "nil" /\ cl[c].call.op \in Writes => Did(c)
    /\ cl[c].res.st \in Refusals => ~Did(c)
    /\ cl[c].res.kind = "notfound" => cl[c].res.st = "NOT_FOUND"
    /\ cl[c].res.kind \in {"nil", "notfound", "remote", "protocol"} =>
         cl[c].res.from = Current(c) \/ (cl[c].res.from = 0 /\ cl[c].res.st = "CLOSED")

ConnInv(c) ==
    CallInv(c) /\ RequestInv(c) /\ ReplyInv(c) /\ FrameInv(c) /\ EffectInv(c) /\ ResultInv(c)

ClientInd ==
    /\ ClientTypeOK
    /\ \A c \in Conns : IF cl[c].pc = "raw" THEN cl[c].res = NoResult ELSE ConnInv(c)

----------------------------------------------------------------------------
(* Range streams.                                                          *)

\* Sequence s stands in w behind the first k elements.
Piece(s, w, k) == k + Len(s) <= Len(w) /\ \A j \in DOMAIN s : s[j] = w[k + j]

\* What pageFn was given and the first k frames on their way are, cut up, the
\* first m pairs of w.
Sound(c, k, w, m) ==
    \E cut \in [0 .. k -> 0 .. Len(w)] :
        /\ cut[0] = Len(cl[c].got) /\ cut[k] = m /\ Piece(cl[c].got, w, 0)
        /\ \A i \in 1 .. k : /\ cut[i] = cut[i - 1] + Len(net[c].out[i].data)
                             /\ Piece(net[c].out[i].data, w, cut[i - 1])

\* The page and the pairs not yet scanned are the rest of the snapshot.
Rest(c, m) ==
    LET x == stream[c]
    IN  /\ Sound(c, Len(net[c].out), x.snap, m)
        /\ Piece(x.page, x.snap, m) /\ Piece(x.todo, x.snap, m + Len(x.page))
        /\ m + Len(x.page) + Len(x.todo) = Len(x.snap)

\* While the Client waits, nothing of the range is lost or given twice, and END
\* comes behind all of it.
StreamInv(c) ==
    /\ cl[c].pc = "wait" =>
         /\ Queued(c) \/ h[c].pc = "exec" => cl[c].got = <<>> /\ net[c].out = <<>>
         /\ h[c].pc = "scan" => \E m \in 0 .. Len(stream[c].snap) : Rest(c, m)
         /\ h[c].pc = "reply" /\ h[c].resp.body = "end" =>
              Sound(c, Len(net[c].out), h[c].resp.data, Len(h[c].resp.data))
         /\ \A i \in DOMAIN net[c].out :
              LET f == net[c].out[i]
              IN  f.body = "end" => Sound(c, i - 1, f.data, Len(f.data))
    /\ cl[c].call.op = "range" /\ cl[c].res.kind = "nil" => cl[c].got = cl[c].snap

StreamInd == \A c \in Conns : cl[c].pc # "raw" => StreamInv(c)

----------------------------------------------------------------------------
(* A drain without a deadline, over a network that works.                  *)

\* runServe closes the engine after a drain only, and until it exits the
\* connections that no handler has yet are open.
ServingInv ==
    /\ main = "serving" => listener /\ ~draining /\ serve.pc \in {"accept", "accepted"}
    /\ main = "closed" => sd = "returned"
    /\ main # "exited" =>
         /\ serve.pc = "accepted" => net[serve.conn].srv
         /\ \A c \in Conns : net[c].state = "backlog" => net[c].srv

\* A handler at work has its connection.
LinkInv(c) == ~net[c].srv => h[c].pc \in {"none", "untrack", "done", "gone"}

\* The answer to a write that took effect is not lost.
DoubtInv(c) ==
    /\ Did(c) => cl[c].call.op \in Writes
    /\ cl[c].pc = "wait" /\ Did(c) /\ ~Answered(c) => AtWork(c)
    /\ cl[c].res.kind = "eof" =>
         cl[c].pc \in {"idle", "closed"} /\ ~net[c].srv /\ ~Did(c)

DrainInd ==
    /\ ServingInv
    /\ \A c \in Conns : LinkInv(c) /\ (cl[c].pc # "raw" => DoubtInv(c))
=============================================================================
