---------------------------- MODULE ClientProofs ----------------------------
(***************************************************************************)
(* Proofs, for every value of the constants, that ClientInd is an          *)
(* inductive invariant of Clients whose callers stop at a transport error, *)
(* together with the server they talk to, and what follows from it: the    *)
(* answers that calls return are true and their own.                       *)
(***************************************************************************)
EXTENDS ClientInv, ServerProofs

USE DEF engineVars, lifeVars, HandlerRecord, StreamRecord, NetRecord, Refusals

----------------------------------------------------------------------------
(* Frames on their way.                                                    *)

\* A frame is written behind the others.
LEMMA Appended ==
  ASSUME NEW S, NEW s \in Seq(S), NEW e \in S, NEW t, t = Append(s, e)
  PROVE  /\ t \in Seq(S) /\ Len(s) \in Nat /\ Len(t) = Len(s) + 1
         /\ DOMAIN s = 1 .. Len(s) /\ DOMAIN t = 1 .. Len(s) + 1
         /\ \A i \in DOMAIN s : i \in DOMAIN t /\ t[i] = s[i]
         /\ t[Len(s) + 1] = e
         /\ \A i \in DOMAIN t : i \in DOMAIN s \/ i = Len(s) + 1
  <1>1. /\ t \in Seq(S) /\ Len(s) \in Nat /\ Len(t) = Len(s) + 1
        /\ DOMAIN s = 1 .. Len(s) /\ DOMAIN t = 1 .. Len(s) + 1
        /\ \A i \in 1 .. Len(s) : t[i] = s[i]
        /\ t[Len(s) + 1] = e
    BY AppendProperties, LenProperties
  <1>2. QED
    BY <1>1

\* The first frame is read.
LEMMA Taken ==
  ASSUME NEW S, NEW s \in Seq(S), s # <<>>, NEW t, t = Tail(s)
  PROVE  /\ t \in Seq(S) /\ Len(s) \in Nat /\ Len(t) = Len(s) - 1
         /\ DOMAIN s = 1 .. Len(s) /\ DOMAIN t = 1 .. Len(s) - 1
         /\ 1 \in DOMAIN s /\ Head(s) = s[1] /\ Head(s) \in S
         /\ \A i \in DOMAIN t : i + 1 \in DOMAIN s /\ 1 < i + 1 /\ t[i] = s[i + 1]
  <1>1. /\ Len(s) \in Nat /\ DOMAIN s = 1 .. Len(s) /\ DOMAIN Tail(s) = 1 .. Len(s) - 1
        /\ Len(Tail(s)) = Len(s) - 1 /\ \A j \in 1 .. Len(s) - 1 : Tail(s)[j] = s[j + 1]
    BY HeadTailProperties, LenProperties, EmptySeq
  <1>2. Head(s) = s[1] /\ Head(s) \in S /\ t \in Seq(S)
    BY HeadTailProperties
  <1>3. Len(s) # 0
    BY EmptySeq
  <1>4. QED
    BY <1>1, <1>2, <1>3

----------------------------------------------------------------------------
(* Steps that leave a connection as it is, for its Client.                 *)

\* What the Client and the handler of c, and the network between them, keep.
Same(c) ==
    /\ cl'[c] = cl[c]
    /\ h'[c].pc = h[c].pc /\ h'[c].req = h[c].req
    /\ h'[c].resp = h[c].resp /\ h'[c].after = h[c].after
    /\ net'[c].in = net[c].in /\ net'[c].out = net[c].out /\ net'[c].peer = net[c].peer
    /\ net[c].state = "none" => net'[c].state = "none"
    /\ \A m : <<c, m>> \in applied' <=> <<c, m>> \in applied

\* Nothing happens to the connection.
LEMMA SameConn ==
  ASSUME NEW c \in Conns, ConnInv(c), Same(c)
  PROVE  ConnInv(c)'
  <1>1. /\ Leaving(c)' = Leaving(c) /\ Ending(c)' = Ending(c) /\ Queued(c)' = Queued(c)
        /\ AtWork(c)' = AtWork(c) /\ Pending(c)' = Pending(c) /\ Answered(c)' = Answered(c)
        /\ Did(c)' = Did(c) /\ Current(c)' = Current(c)
    BY DEF Same, Leaving, Ending, Queued, AtWork, Pending, Answered, Did, Current
  <1>2. CallInv(c)' /\ RequestInv(c)' /\ ReplyInv(c)' /\ ResultInv(c)'
    BY <1>1 DEF Same, ConnInv, CallInv, RequestInv, ReplyInv, ResultInv
  <1>3. FrameInv(c)'
    BY <1>1 DEF Same, ConnInv, FrameInv
  <1>4. \A f : True(c, f)' <=> True(c, f)
    BY <1>1 DEF Same, True
  <1>5. EffectInv(c)'
    BY <1>1, <1>4 DEF Same, ConnInv, EffectInv
  <1>6. QED
    BY <1>2, <1>3, <1>5 DEF ConnInv

\* No frame without a number is on its way before the handler leaves.
LEMMA NoFarewellYet ==
  ASSUME NEW c \in Conns, FrameInv(c), ~Leaving(c)
  PROVE  \A i \in DOMAIN net[c].out : net[c].out[i].n # 0 /\ net[c].out[i] \notin {Farewell, Torn}
  <1>1. Farewell.n = 0 /\ Torn.n = 0
    BY DEF Farewell, Torn, Err, Frame
  <1>2. QED
    BY <1>1 DEF FrameInv

\* The handler moves, takes up no work and writes nothing.
Quiet(c) ==
    /\ net'[c].out = net[c].out /\ net'[c].in \in {net[c].in, <<>>}
    /\ net'[c].peer = net[c].peer /\ (net[c].state = "none" => net'[c].state = "none")
    /\ h'[c].pc \notin {"exec", "scan", "reply"}
    /\ Ending(c) => Ending(c)'
    /\ Leaving(c) => Leaving(c)'
    /\ AtWork(c) => Leaving(c)'

\* Such a move takes nothing from the Client.
LEMMA QuietMove ==
  ASSUME NEW c \in Conns, ConnInv(c), cl'[c] = cl[c],
         \A m : <<c, m>> \in applied' <=> <<c, m>> \in applied, Quiet(c)
  PROVE  ConnInv(c)'
  <1> USE DEF ConnInv, Quiet
  <1>1. /\ Queued(c)' => Queued(c) /\ net'[c].in = net[c].in
        /\ ~AtWork(c)' /\ Pending(c)' = Pending(c) /\ Answered(c)' = Answered(c)
        /\ Did(c)' = Did(c) /\ Current(c)' = Current(c)
    BY DEF Queued, AtWork, Pending, Answered, Did, Current
  <1>2. CallInv(c)' /\ ReplyInv(c)' /\ ResultInv(c)'
    BY <1>1 DEF CallInv, ReplyInv, ResultInv
  <1>3. RequestInv(c)'
    BY <1>1 DEF RequestInv
  <1>4. FrameInv(c)'
    BY <1>1 DEF FrameInv
  <1>5. EffectInv(c)'
    <2>1. \A f : True(c, f)' <=> True(c, f)
      BY <1>1 DEF True
    <2>2. AtWork(c) => ~Leaving(c)
      BY DEF AtWork, Leaving
    <2>3. cl[c].pc = "wait" /\ Did(c) /\ ~Answered(c) =>
            Leaving(c)' /\ \A i \in DOMAIN net[c].out : net[c].out[i] # Farewell
      BY <2>2, NoFarewellYet DEF EffectInv
    <2>4. QED
      BY <1>1, <2>1, <2>3 DEF EffectInv
  <1>6. QED
    BY <1>2, <1>3, <1>4, <1>5

----------------------------------------------------------------------------
(* Steps of the handler.                                                   *)

\* The handler has the answer to the call in its hands.
LEMMA AnswerReady ==
  ASSUME NEW c \in Conns, ConnInv(c), ServerTypeOK, cl'[c] = cl[c], net'[c] = net[c],
         h[c].pc \in {"exec", "scan"},
         h'[c].pc = "reply", h'[c].after = "loop",
         NEW f, h'[c].resp = f, f.n = Current(c), Final(f), True(c, f)',
         \A m : <<c, m>> \in applied' => <<c, m>> \in applied \/ m = Current(c)
  PROVE  ConnInv(c)'
  <1> USE DEF ConnInv
  <1>1. /\ ~Leaving(c) /\ ~Ending(c) /\ AtWork(c) /\ ~Queued(c) /\ net[c].in = <<>>
        /\ Pending(c) /\ ~Answered(c) /\ Current(c) # 0
    BY DEF Leaving, Ending, AtWork, Queued, RequestInv
  <1>2. /\ ~Leaving(c)' /\ ~Ending(c)' /\ AtWork(c)' /\ ~Queued(c)'
        /\ Pending(c)' /\ ~Answered(c)' /\ Current(c)' = Current(c)
    BY <1>1 DEF Leaving, Ending, AtWork, Queued, Answered, Pending, Current
  <1>3. CallInv(c)'
    BY <1>2 DEF CallInv
  <1>4. RequestInv(c)' /\ ReplyInv(c)'
    BY <1>1, <1>2 DEF RequestInv, ReplyInv
  <1>5. FrameInv(c)'
    BY <1>1, <1>2 DEF FrameInv
  <1>6. EffectInv(c)'
    <2>1. \A i \in DOMAIN net[c].out : net[c].out[i].n # 0 => ~Final(net[c].out[i])
      BY <1>1 DEF Answered
    <2>2. \A g : ~Final(g) => True(c, g)'
      BY DEF True, Final
    <2>3. Current(c) <= Current(c)
      <3>1. Current(c) \in Int
        BY <1>1, SentFacts DEF ServerTypeOK, HandlerTypeOK, RequestInv, NoRequest, Current
      <3>2. QED
        BY <3>1
    <2>4. \A m \in Nat : <<c, m>> \in applied' => m # 0 /\ m <= Current(c)'
      BY <1>1, <1>2, <2>3 DEF EffectInv
    <2>5. QED
      BY <1>2, <2>1, <2>2, <2>4 DEF EffectInv
  <1>7. ResultInv(c)'
    <2>1. \/ cl[c].res.kind = "none" /\ cl[c].res.st = "none"
          \/ cl[c].res.kind \in Broken /\ cl[c].res.st \in {"none", "OK"}
      BY <1>1 DEF Pending, CallInv, NoResult
    <2>2. QED
      BY <1>2, <2>1 DEF ResultInv, Broken
  <1>8. QED
    BY <1>3, <1>4, <1>5, <1>6, <1>7

\* The handler of a draining server has a farewell in its hands.
LEMMA FarewellReady ==
  ASSUME NEW c \in Conns, ConnInv(c), cl'[c] = cl[c], net'[c] = net[c],
         \A m : <<c, m>> \in applied' <=> <<c, m>> \in applied,
         h[c].pc = "loop", h'[c].pc = "reply", h'[c].after = "close", h'[c].resp = Farewell
  PROVE  ConnInv(c)'
  <1> USE DEF ConnInv
  <1>1. ~Leaving(c) /\ ~AtWork(c) /\ Farewell.n = 0
    BY DEF Leaving, AtWork, Farewell, Err, Frame
  <1>2. /\ ~Leaving(c)' /\ ~AtWork(c)' /\ ~Queued(c)'
        /\ Pending(c)' = Pending(c) /\ Answered(c)' = Answered(c) /\ Current(c)' = Current(c)
        /\ Did(c)' = Did(c)
    BY <1>1 DEF Leaving, Ending, AtWork, Queued, Answered, Pending, Current, Did
  <1>3. CallInv(c)' /\ ResultInv(c)'
    BY <1>2 DEF CallInv, ResultInv
  <1>4. RequestInv(c)' /\ ReplyInv(c)'
    BY <1>1, <1>2 DEF RequestInv, ReplyInv
  <1>5. FrameInv(c)'
    BY <1>1, <1>2 DEF FrameInv
  <1>6. EffectInv(c)'
    <2>1. \A f : True(c, f)' <=> True(c, f)
      BY <1>2 DEF True
    <2>2. QED
      BY <1>1, <1>2, <2>1 DEF EffectInv
  <1>7. QED
    BY <1>3, <1>4, <1>5, <1>6

\* No request on the wire is the call of a Client that has made none.
LEMMA NoRequestUnsent == NoRequest \notin Sent
  <1>1. \A r \in Requests : r.op # "none"
    BY RequestsAssumption DEF Writes
  <1>2. \A q \in Sent : q.op # "none"
    BY <1>1, Numbered DEF Sent
  <1>3. QED
    BY <1>2 DEF NoRequest

\* The handler takes the call from the wire.
LEMMA CallTaken ==
  ASSUME NEW c \in Conns, ConnInv(c), ClientTypeOK, cl'[c] = cl[c], applied' = applied,
         Queued(c), net[c].in[1].op # "garbage",
         h'[c].pc = "exec", h'[c].req = net[c].in[1],
         net'[c].in = <<>>, net'[c].out = net[c].out, net'[c].peer = net[c].peer,
         net'[c].state = net[c].state, net[c].in[1] \in Sent
  PROVE  ConnInv(c)'
  <1> USE DEF ConnInv
  <1>1. /\ ~Leaving(c) /\ ~AtWork(c) /\ Pending(c) /\ ~Answered(c) /\ ~Did(c)
        /\ net[c].in[1] = cl[c].call
    BY DEF Queued, Ending, RequestInv, EffectInv
  <1>2. Current(c) # 0
    <2>1. NoRequest \notin Sent
      BY NoRequestUnsent
    <2>2. QED
      BY <1>1, <2>1 DEF CallInv
  <1>3. /\ ~Leaving(c)' /\ AtWork(c)' /\ ~Queued(c)' /\ Pending(c)' /\ ~Answered(c)'
        /\ Current(c)' = Current(c) /\ ~Did(c)'
    BY <1>1 DEF Leaving, AtWork, Queued, Answered, Pending, Current, Did
  <1>4. CallInv(c)' /\ ResultInv(c)'
    BY <1>1, <1>3 DEF CallInv, ResultInv
  <1>5. RequestInv(c)' /\ ReplyInv(c)'
    BY <1>1, <1>2, <1>3 DEF RequestInv, ReplyInv
  <1>6. FrameInv(c)'
    BY <1>1, <1>3 DEF FrameInv
  <1>7. EffectInv(c)'
    <2>1. \A f : True(c, f)' <=> True(c, f)
      BY <1>1, <1>3 DEF True
    <2>2. QED
      BY <1>3, <2>1 DEF EffectInv
  <1>8. QED
    BY <1>4, <1>5, <1>6, <1>7

\* A page goes out, or gets lost because nobody is there to read it.
LEMMA PageSent ==
  ASSUME NEW c \in Conns, ConnInv(c), cl'[c] = cl[c], applied' = applied,
         net[c].out \in Seq(Frames), NEW f \in Frames, ~Final(f), f.n = Current(c),
         h[c].pc = "scan", h'[c] = h[c], net'[c].in = net[c].in,
         net'[c].peer = net[c].peer, net'[c].state = net[c].state,
         net'[c].out = IF net[c].peer THEN Append(net[c].out, f) ELSE net[c].out
  PROVE  ConnInv(c)'
  <1>1. CASE ~net[c].peer
    BY <1>1, SameConn DEF Same
  <1>2. CASE net[c].peer
    <2> USE DEF ConnInv
    <2>1. /\ ~Leaving(c) /\ AtWork(c) /\ Pending(c) /\ ~Answered(c) /\ ~Did(c) /\ ~Queued(c)
          /\ Current(c) # 0 /\ cl[c].call.op = "range" /\ ~Ending(c)
      BY DEF Leaving, AtWork, RequestInv, EffectInv, Ending
    <2> DEFINE s == net[c].out
               t == net'[c].out
    <2>2. /\ DOMAIN s = 1 .. Len(s) /\ DOMAIN t = 1 .. Len(s) + 1 /\ Len(s) \in Nat
          /\ \A i \in DOMAIN s : i \in DOMAIN t /\ t[i] = s[i]
          /\ t[Len(s) + 1] = f
          /\ \A i \in DOMAIN t : i \in DOMAIN s \/ i = Len(s) + 1
      BY <1>2, Appended, SMTT(30)
    <2> HIDE DEF s, t
    <2>3. \A i \in DOMAIN t : t[i].n = Current(c) /\ ~Final(t[i])
      <3>1. \A i \in DOMAIN s : s[i].n = Current(c) /\ ~Final(s[i])
        BY <2>1, NoFarewellYet DEF s, FrameInv, Answered
      <3>2. QED
        BY <2>2, <3>1
    <2>4. /\ ~Leaving(c)' /\ AtWork(c)' /\ ~Queued(c)' /\ Pending(c)'
          /\ Current(c)' = Current(c) /\ ~Did(c)' /\ ~Ending(c)'
      BY <2>1 DEF Leaving, AtWork, Queued, Answered, Pending, Current, Did, Ending
    <2>5. ~Answered(c)'
      BY <2>3 DEF Answered, t
    <2>6. CallInv(c)' /\ ResultInv(c)'
      BY <2>1, <2>4 DEF CallInv, ResultInv, Pending
    <2>7. RequestInv(c)' /\ ReplyInv(c)'
      BY <2>1, <2>4, <2>5 DEF RequestInv, ReplyInv
    <2>8. FrameInv(c)'
      BY <2>1, <2>3, <2>4 DEF FrameInv, t
    <2>9. EffectInv(c)'
      <3>1. \A g : ~Final(g) => True(c, g)'
        BY DEF True, Final
      <3>2. QED
        BY <2>1, <2>3, <2>4, <2>5, <3>1 DEF EffectInv, t
    <2>10. QED
      BY <2>6, <2>7, <2>8, <2>9
  <1>3. QED
    BY <1>1, <1>2 DEF ConnInv

\* The answer to the call goes out, or gets lost because nobody is there.
LEMMA AnswerSent ==
  ASSUME NEW c \in Conns, ConnInv(c), cl'[c] = cl[c], applied' = applied,
         net[c].out \in Seq(Frames), h[c].resp \in Frames,
         h[c].pc = "reply", h[c].resp.n # 0,
         h'[c].pc \in {"release", h[c].after}, h'[c].after = h[c].after,
         net'[c].in = net[c].in, net'[c].peer = net[c].peer, net'[c].state = net[c].state,
         net'[c].out = IF net[c].peer THEN Append(net[c].out, h[c].resp) ELSE net[c].out
  PROVE  ConnInv(c)'
  <1> USE DEF ConnInv
  <1> DEFINE s == net[c].out
             t == net'[c].out
             f == h[c].resp
  <1>1. /\ f.n = Current(c) /\ h[c].after = "loop" /\ Final(f) /\ Current(c) # 0
        /\ ~Leaving(c) /\ AtWork(c) /\ ~Queued(c) /\ net[c].in = <<>>
        /\ ~Answered(c) /\ Pending(c)
    BY DEF ReplyInv, Leaving, AtWork, RequestInv, Queued, Ending
  <1>2. /\ ~Leaving(c)' /\ ~AtWork(c)' /\ ~Queued(c)' /\ Pending(c)'
        /\ Current(c)' = Current(c) /\ Did(c)' = Did(c)
    BY <1>1 DEF Leaving, AtWork, Queued, Pending, Current, Did
  <1>3. \A i \in DOMAIN s : s[i].n = Current(c) /\ ~Final(s[i])
    BY <1>1, NoFarewellYet DEF FrameInv, Answered
  <1>4. CASE ~net[c].peer
    <2>1. t = s /\ Answered(c)' = Answered(c)
      BY <1>4 DEF Answered
    <2>2. cl[c].pc # "wait"
      BY <1>4 DEF CallInv
    <2>3. CallInv(c)' /\ ResultInv(c)' /\ RequestInv(c)' /\ ReplyInv(c)'
      BY <1>1, <1>2, <2>1, ZenonT(30) DEF CallInv, ResultInv, RequestInv, ReplyInv
    <2>4. FrameInv(c)'
      BY <1>1, <1>2, <2>1, ZenonT(30) DEF FrameInv
    <2>5. \A g : True(c, g)' <=> True(c, g)
      BY <1>2 DEF True
    <2>6. EffectInv(c)'
      BY <1>1, <1>2, <2>1, <2>2, <2>5 DEF EffectInv
    <2>7. QED
      BY <2>3, <2>4, <2>6
  <1>5. CASE net[c].peer
    <2>1. /\ DOMAIN s = 1 .. Len(s) /\ DOMAIN t = 1 .. Len(s) + 1 /\ Len(s) \in Nat
          /\ \A i \in DOMAIN s : i \in DOMAIN t /\ t[i] = s[i]
          /\ t[Len(s) + 1] = f
          /\ \A i \in DOMAIN t : i \in DOMAIN s \/ i = Len(s) + 1
      BY <1>5, Appended, SMTT(30)
    <2> HIDE DEF s, t
    <2>2. \A i \in DOMAIN t : /\ t[i].n = Current(c)
                              /\ i = Len(s) + 1 \/ (~Final(t[i]) /\ t[i] = s[i])
      BY <1>1, <1>3, <2>1
    <2>3. Answered(c)'
      <3>1. Len(s) + 1 \in DOMAIN t
        BY <2>1
      <3>2. QED
        BY <1>1, <2>1, <3>1 DEF Answered, t
    <2>4. CallInv(c)' /\ ResultInv(c)'
      BY <1>1, <1>2 DEF CallInv, ResultInv, Pending
    <2>5. RequestInv(c)' /\ ReplyInv(c)'
      BY <1>1, <1>2 DEF RequestInv, ReplyInv
    <2>6. FrameInv(c)'
      <3>1. ASSUME NEW i \in DOMAIN t
            PROVE  /\ t[i].n # 0 /\ t[i].n = Current(c)
                   /\ ~Final(t[i]) => cl[c].call.op = "range"
                   /\ \A j \in DOMAIN t : i < j => ~Final(t[i])
        <4>1. t[i].n # 0 /\ t[i].n = Current(c)
          BY <1>1, <2>2
        <4>2. ~Final(t[i]) => cl[c].call.op = "range"
          BY <1>1, <2>1, <2>2 DEF FrameInv, s
        <4>3. \A j \in DOMAIN t : i < j => i # Len(s) + 1
          BY <2>1
        <4>4. QED
          BY <2>2, <4>1, <4>2, <4>3
      <3>2. QED
        BY <1>2, <3>1 DEF FrameInv, t
    <2>7. EffectInv(c)'
      <3>1. \A g : True(c, g)' <=> True(c, g)
        BY <1>2 DEF True
      <3>2. True(c, f)
        BY DEF EffectInv
      <3>3. \A g : ~Final(g) => True(c, g)
        BY DEF True, Final
      <3>4. \A i \in DOMAIN t : True(c, t[i])
        BY <2>1, <2>2, <3>2, <3>3
      <3>5. QED
        BY <1>1, <1>2, <2>3, <3>1, <3>4 DEF EffectInv, t
    <2>8. QED
      BY <2>4, <2>5, <2>6, <2>7
  <1>6. QED
    BY <1>4, <1>5

\* The last thing on a connection: a farewell, or a frame cut short.
LEMMA LastFrame ==
  ASSUME NEW c \in Conns, FrameInv(c), ~Leaving(c), Leaving(c)', cl'[c] = cl[c],
         net[c].out \in Seq(Frames), NEW e \in Frames, e \in {Farewell, Torn},
         net'[c].out \in {net[c].out, Append(net[c].out, e)}
  PROVE  /\ FrameInv(c)' /\ Answered(c)' = Answered(c)
         /\ \A i \in DOMAIN net'[c].out :
              \/ net'[c].out[i] = e
              \/ i \in DOMAIN net[c].out /\ net'[c].out[i] = net[c].out[i]
  <1> DEFINE s == net[c].out
             t == net'[c].out
  <1>1. \A i \in DOMAIN s : s[i].n # 0
    BY NoFarewellYet
  <1>2. Current(c)' = Current(c) /\ Pending(c)' = Pending(c) /\ e.n = 0 /\ Final(e)
    BY DEF Current, Pending, Farewell, Torn, Err, Frame, Final
  <1>3. CASE t = s
    BY <1>1, <1>2, <1>3 DEF FrameInv, Answered
  <1>4. CASE t = Append(s, e)
    <2>1. /\ DOMAIN s = 1 .. Len(s) /\ DOMAIN t = 1 .. Len(s) + 1 /\ Len(s) \in Nat
          /\ \A i \in DOMAIN s : i \in DOMAIN t /\ t[i] = s[i]
          /\ t[Len(s) + 1] = e
          /\ \A i \in DOMAIN t : i \in DOMAIN s \/ i = Len(s) + 1
      BY <1>4, Appended, SMTT(30)
    <2> HIDE DEF s, t
    <2>2. \A i \in DOMAIN t : (i \in DOMAIN s /\ t[i] = s[i]) \/ (i = Len(s) + 1 /\ t[i] = e)
      BY <2>1
    <2>3. Answered(c)' = Answered(c)
      BY <1>2, <2>1, <2>2 DEF Answered, s, t
    <2>4. ASSUME NEW i \in DOMAIN t
          PROVE  /\ t[i].n = 0 => t[i] \in {Farewell, Torn}
                 /\ t[i].n # 0 => t[i].n = Current(c) /\ Pending(c)
                 /\ ~Final(t[i]) => cl[c].call.op = "range"
                 /\ \A j \in DOMAIN t : i < j /\ Final(t[i]) => t[j].n = 0
      <3>1. CASE i = Len(s) + 1
        BY <1>2, <2>1, <3>1
      <3>2. CASE i \in DOMAIN s /\ t[i] = s[i]
        <4>1. /\ t[i].n = 0 => t[i] \in {Farewell, Torn}
              /\ t[i].n # 0 => t[i].n = Current(c) /\ Pending(c)
              /\ ~Final(t[i]) => cl[c].call.op = "range"
          BY <3>2 DEF FrameInv, s
        <4>2. \A j \in DOMAIN s : i < j /\ Final(s[i]) => s[j].n = 0
          BY <3>2 DEF FrameInv, s
        <4>3. QED
          BY <1>2, <2>2, <3>2, <4>1, <4>2
      <3>3. QED
        BY <2>2, <3>1, <3>2
    <2>5. FrameInv(c)'
      BY <1>2, <2>4 DEF FrameInv, t
    <2>6. QED
      BY <2>2, <2>3, <2>5 DEF s, t
  <1>5. QED
    BY <1>3, <1>4

\* A farewell goes out, or a write fails: the handler leaves.
LEMMA HandlerGivesUp ==
  ASSUME NEW c \in Conns, ConnInv(c), cl'[c] = cl[c], applied' = applied,
         net[c].out \in Seq(Frames), net[c].state # "none", h[c].pc \in {"scan", "reply"},
         \/ h'[c].pc = "close"
         \/ h'[c].pc = "release" /\ h'[c].after = "close",
         net'[c].in = net[c].in, net'[c].peer = net[c].peer, net'[c].state = net[c].state,
         NEW e \in Frames, e = Torn \/ (e = Farewell /\ h[c].resp.n = 0 /\ h[c].pc = "reply"),
         net'[c].out \in {net[c].out, Append(net[c].out, e)}
  PROVE  ConnInv(c)'
  <1> USE DEF ConnInv
  <1>1. ~Leaving(c)
    BY DEF Leaving
  <1>2. /\ Leaving(c)' /\ ~AtWork(c)' /\ ~Queued(c)' /\ Pending(c)' = Pending(c)
        /\ Current(c)' = Current(c) /\ Did(c)' = Did(c)
    BY DEF Leaving, AtWork, Queued, Pending, Current, Did, Ending
  <1>3. /\ FrameInv(c)' /\ Answered(c)' = Answered(c)
        /\ \A i \in DOMAIN net'[c].out :
             \/ net'[c].out[i] = e
             \/ i \in DOMAIN net[c].out /\ net'[c].out[i] = net[c].out[i]
    BY <1>1, <1>2, LastFrame
  <1>4. CallInv(c)' /\ ResultInv(c)'
    BY <1>2 DEF CallInv, ResultInv
  <1>5. RequestInv(c)' /\ ReplyInv(c)'
    BY <1>2 DEF RequestInv, ReplyInv
  <1>6. EffectInv(c)'
    <2>1. \A f : True(c, f)' <=> True(c, f)
      BY <1>2 DEF True
    <2>2. Farewell.n = 0 /\ Torn.n = 0 /\ Torn # Farewell
      BY DEF Farewell, Torn, Err, Frame
    <2>3. \A i \in DOMAIN net'[c].out : net'[c].out[i].n # 0 => True(c, net'[c].out[i])
      BY <1>3, <2>2 DEF EffectInv
    <2>4. cl[c].pc = "wait" /\ Did(c) /\ ~Answered(c) =>
            e = Torn /\ \A i \in DOMAIN net[c].out : net[c].out[i] # Farewell
      BY <1>1, NoFarewellYet DEF EffectInv, AtWork
    <2>5. QED
      BY <1>2, <1>3, <2>1, <2>2, <2>3, <2>4 DEF EffectInv
  <1>7. QED
    BY <1>3, <1>4, <1>5, <1>6
----------------------------------------------------------------------------
(* The steps of the server and the Client of a connection.                 *)

\* What a handler gets from the engine for an error.
LEMMA ErrorStatuses ==
  ASSUME NEW r, NEW st \in EngineErrors(r)
  PROVE  st \in {"CLOSED", "INTERNAL", "BAD_REQUEST"} /\ st \in Statuses
  BY DEF EngineErrors, Statuses

\* An operation of a request is executed: the answer is in the handler's hands.
LEMMA ExecConn ==
  ASSUME ServerInd, NEW c \in Conns, ConnInv(c), UNCHANGED cl,
         ExecWrite(c) \/ ExecGet(c) \/ ExecPingStats(c) \/ StreamEnd(c)
  PROVE  ConnInv(c)'
  <1> USE DEF ServerInd
  <1>0. PICK r : r = h[c].req
    OBVIOUS
  <1>1. h[c].pc \in {"exec", "scan"} /\ net' = net
    BY DEF ExecWrite, ExecGet, ExecPingStats, StreamEnd
  <1>2. r = cl[c].call /\ r.n = Current(c) /\ Current(c) # 0 /\ ~Did(c)
    BY <1>0, <1>1 DEF ConnInv, RequestInv, EffectInv, Current
  <1>3. r.n \in Nat
    <2>1. r \in Sent \cup {NoRequest}
      BY <1>0 DEF ServerTypeOK, HandlerTypeOK
    <2>2. QED
      BY <2>1, SentFacts DEF NoRequest
  <1>4. SUFFICES ASSUME TRUE
                 PROVE  \E f \in Frames : /\ Reply(c, f, "loop") /\ f.n = r.n /\ Final(f)
                                          /\ True(c, f)'
                                          /\ applied' \in {applied, applied \cup {<<c, r.n>>}}
    <2>1. PICK f \in Frames : /\ Reply(c, f, "loop") /\ f.n = r.n /\ Final(f)
                              /\ True(c, f)'
                              /\ applied' \in {applied, applied \cup {<<c, r.n>>}}
      BY <1>4
    <2>2. h'[c].pc = "reply" /\ h'[c].resp = f /\ h'[c].after = "loop"
      BY <2>1, ReplyEffect DEF ServerTypeOK
    <2>3. \A m : <<c, m>> \in applied' => <<c, m>> \in applied \/ m = Current(c)
      BY <1>2, <2>1
    <2>4. f.n = Current(c)
      BY <1>2, <2>1
    <2>5. QED
      BY <1>1, <2>1, <2>2, <2>3, <2>4, AnswerReady
  <1>5. cl'[c] = cl[c]
    OBVIOUS
  <1>6. ASSUME NEW st \in Statuses, applied' = applied
        PROVE  /\ Err(st, r.n) \in Frames /\ Err(st, r.n).n = r.n /\ Final(Err(st, r.n))
               /\ st # "OK" => True(c, Err(st, r.n))'
    <2>1. ~Did(c)'
      BY <1>2, <1>5, <1>6 DEF Did, Current
    <2>2. Err(st, r.n) \in Frames
      BY <1>3, FrameTypes
    <2>3. QED
      BY <2>1, <2>2 DEF Err, Frame, Final, True
  <1>7. CASE ExecWrite(c)
    <2>1. OK(r.n) \in Frames /\ OK(r.n).n = r.n /\ Final(OK(r.n)) /\ OK(r.n).st = "OK"
      BY <1>3, FrameTypes DEF OK, Frame, Final
    <2>2. CASE applied' = applied \cup {<<c, r.n>>} /\ Reply(c, OK(r.n), "loop")
      <3>1. Did(c)'
        BY <1>2, <1>5, <2>2 DEF Did, Current
      <3>2. True(c, OK(r.n))'
        BY <2>1, <3>1 DEF True
      <3>3. QED
        BY <2>1, <2>2, <3>2
    <2>3. ASSUME NEW st \in EngineErrors(r), Reply(c, Err(st, r.n), "loop"),
                 \/ applied' = applied
                 \/ st = "INTERNAL" /\ applied' = applied \cup {<<c, r.n>>}
          PROVE  \E f \in Frames : /\ Reply(c, f, "loop") /\ f.n = r.n /\ Final(f)
                                   /\ True(c, f)'
                                   /\ applied' \in {applied, applied \cup {<<c, r.n>>}}
      <3>1. st \in Statuses /\ st # "OK"
        BY ErrorStatuses
      <3>2. CASE applied' = applied
        BY <1>6, <2>3, <3>1, <3>2
      <3>3. CASE st = "INTERNAL" /\ applied' = applied \cup {<<c, r.n>>}
        <4>1. Err(st, r.n) \in Frames
          BY <1>3, <3>1, FrameTypes
        <4>2. Err(st, r.n).n = r.n /\ Final(Err(st, r.n)) /\ True(c, Err(st, r.n))'
          BY <3>3 DEF Err, Frame, Final, True
        <4>3. QED
          BY <2>3, <3>3, <4>1, <4>2
      <3>4. QED
        BY <2>3, <3>2, <3>3
    <2>4. QED
      BY <1>0, <1>7, <2>2, <2>3 DEF ExecWrite
  <1>8. ASSUME ExecGet(c) \/ ExecPingStats(c) \/ StreamEnd(c)
        PROVE  \E f \in Frames : Reply(c, f, "loop") /\ f.n = r.n /\ Final(f) /\ True(c, f)'
    <2>1. applied' = applied /\ r.op \notin Writes /\ ~Did(c)'
      <3>1. applied' = applied
        BY <1>8 DEF ExecGet, ExecPingStats, StreamEnd
      <3>2. r.op \notin Writes
        BY <1>0, <1>2, <1>8 DEF ExecGet, ExecPingStats, StreamEnd, ConnInv, RequestInv, Writes
      <3>3. QED
        BY <1>2, <1>5, <3>1, <3>2 DEF Did, Current
    <2>2. ASSUME NEW f \in Frames, Reply(c, f, "loop"), f.n = r.n, f.body # "page"
          PROVE  \E g \in Frames : Reply(c, g, "loop") /\ g.n = r.n /\ Final(g) /\ True(c, g)'
      <3>1. cl'[c].call.op \notin Writes
        BY <1>2, <2>1
      <3>2. QED
        BY <2>1, <2>2, <3>1 DEF Final, True
    <2>3. ASSUME NEW st \in Statuses
          PROVE  Err(st, r.n) \in Frames /\ Err(st, r.n).n = r.n /\ Err(st, r.n).body # "page"
      BY <1>3, FrameTypes DEF Err, Frame
    <2>4. {"NOT_FOUND", "OVERLOAD"} \subseteq Statuses
      BY DEF Statuses
    <2>5. CASE ExecGet(c)
      <3>1. r.op = "get" /\ r \in Sent
        <4>1. r.op = "get"
          BY <1>0, <2>5 DEF ExecGet
        <4>2. r \in Sent \cup {NoRequest}
          BY <1>0 DEF ServerTypeOK, HandlerTypeOK
        <4>3. QED
          BY <4>1, <4>2 DEF NoRequest
      <3>2. store[r.key] = Tombstone \/ store[r.key] \in Values
        BY <3>1, SentFacts DEF ServerTypeOK, StreamTypeOK
      <3>3. store[r.key] \in Values =>
              Frame("OK", "value", <<store[r.key]>>, r.n) \in Frames
        BY <1>3, FrameTypes
      <3>4. \A x, k : Frame("OK", "value", x, k).n = k /\ Frame("OK", "value", x, k).body # "page"
        BY DEF Frame
      <3>5. CASE Reply(c, Err("NOT_FOUND", r.n), "loop")
        BY <2>2, <2>3, <2>4, <3>5
      <3>6. CASE /\ store[r.key] \in Values
                 /\ Reply(c, Frame("OK", "value", <<store[r.key]>>, r.n), "loop")
        BY <2>2, <3>3, <3>4, <3>6
      <3>7. ASSUME NEW st \in EngineErrors(r), Reply(c, Err(st, r.n), "loop")
            PROVE  \E g \in Frames : Reply(c, g, "loop") /\ g.n = r.n /\ Final(g) /\ True(c, g)'
        BY <2>2, <2>3, <3>7, ErrorStatuses
      <3>8. QED
        BY <1>0, <2>5, <3>2, <3>5, <3>6, <3>7 DEF ExecGet
    <2>6. CASE ExecPingStats(c)
      <3> DEFINE live == {k \in Keys : store[k] # Tombstone}
      <3>1. Cardinality(live) \in Nat
        BY KeysAssumption, FS_Subset, FS_CardinalityType
      <3> HIDE DEF live
      <3>2. /\ OK(r.n) \in Frames /\ OK(r.n).n = r.n /\ OK(r.n).body # "page"
        BY <1>3, FrameTypes DEF OK, Frame
      <3>3. /\ Frame("OK", "count", <<Cardinality(live)>>, r.n) \in Frames
            /\ Frame("OK", "count", <<Cardinality(live)>>, r.n).n = r.n
            /\ Frame("OK", "count", <<Cardinality(live)>>, r.n).body # "page"
        BY <1>3, <3>1, FrameTypes DEF Frame
      <3>4. \/ Reply(c, OK(r.n), "loop")
            \/ Reply(c, Frame("OK", "count", <<Cardinality(live)>>, r.n), "loop")
        BY <1>0, <2>6 DEF ExecPingStats, live
      <3>5. QED
        BY <2>2, <3>2, <3>3, <3>4
    <2>7. CASE StreamEnd(c)
      <3>1. /\ End(stream[c].snap, r.n) \in Frames /\ End(stream[c].snap, r.n).n = r.n
            /\ End(stream[c].snap, r.n).body # "page"
        <4>1. stream[c].snap \in Seq(Pairs)
          BY DEF ServerTypeOK, StreamTypeOK
        <4>2. QED
          BY <1>3, <4>1, FrameTypes DEF End, Frame
      <3>2. \/ Reply(c, Err("OVERLOAD", r.n), "loop")
            \/ Reply(c, End(stream[c].snap, r.n), "loop")
        BY <1>0, <2>7 DEF StreamEnd
      <3>3. QED
        BY <2>2, <2>3, <2>4, <3>1, <3>2
    <2>8. QED
      BY <1>8, <2>5, <2>6, <2>7
  <1>9. CASE ExecGet(c) \/ ExecPingStats(c) \/ StreamEnd(c)
    <2>1. applied' = applied
      BY <1>9 DEF ExecGet, ExecPingStats, StreamEnd
    <2>2. QED
      BY <1>8, <1>9, <2>1
  <1>10. QED
    BY <1>7, <1>9

\* The handler of c begins a stream, or refuses to.
LEMMA RangeConn ==
  ASSUME ServerInd, NEW c \in Conns, ConnInv(c), UNCHANGED cl, RangeBegin(c)
  PROVE  ConnInv(c)'
  <1>1. PICK r : r = h[c].req
    OBVIOUS
  <1>2. h[c].pc = "exec" /\ r.op = "range" /\ net' = net /\ applied' = applied
    BY <1>1 DEF RangeBegin
  <1>3. r = cl[c].call /\ r.n = Current(c) /\ Current(c) # 0 /\ ~Did(c)
    BY <1>1, <1>2 DEF ConnInv, RequestInv, EffectInv, Current
  <1>4. r.n \in Nat
    <2>1. r \in Sent \cup {NoRequest}
      BY <1>1 DEF ServerInd, ServerTypeOK, HandlerTypeOK
    <2>2. QED
      BY <2>1, SentFacts DEF NoRequest
  <1>5. ASSUME NEW st \in Statuses, st # "OK", Reply(c, Err(st, r.n), "loop")
        PROVE  ConnInv(c)'
    <2>1. PICK f \in Frames : f = Err(st, r.n)
      BY <1>4, FrameTypes
    <2>2. h'[c].pc = "reply" /\ h'[c].resp = f /\ h'[c].after = "loop"
      BY <1>5, <2>1, ReplyEffect DEF ServerInd, ServerTypeOK
    <2>3. ~Did(c)'
      BY <1>2, <1>3 DEF Did, Current
    <2>4. f.n = Current(c) /\ Final(f) /\ True(c, f)'
      BY <1>3, <1>5, <2>1, <2>3 DEF Err, Frame, Final, True
    <2>5. QED
      BY <1>2, <2>2, <2>4, AnswerReady DEF ServerInd
  <1>6. CASE Goto(c, "scan")
    <2>1. h'[c].pc = "scan" /\ h'[c].req = h[c].req
      BY <1>6, GotoEffect DEF ServerInd, ServerTypeOK, HandlerPcs, AlivePcs
    <2> USE DEF ConnInv
    <2>2. /\ ~Leaving(c) /\ ~Leaving(c)' /\ AtWork(c) /\ AtWork(c)' /\ ~Ending(c) /\ ~Ending(c)'
          /\ Queued(c)' = Queued(c) /\ Pending(c)' = Pending(c) /\ Answered(c)' = Answered(c)
          /\ Did(c)' = Did(c) /\ Current(c)' = Current(c)
      BY <1>2, <2>1 DEF Leaving, Ending, Queued, AtWork, Pending, Answered, Did, Current
    <2>3. CallInv(c)' /\ ReplyInv(c)' /\ ResultInv(c)'
      BY <1>2, <2>1, <2>2 DEF CallInv, ReplyInv, ResultInv
    <2>4. RequestInv(c)'
      BY <1>1, <1>2, <1>3, <2>1, <2>2 DEF RequestInv
    <2>5. FrameInv(c)'
      BY <1>2, <2>2 DEF FrameInv
    <2>6. EffectInv(c)'
      <3>1. \A f : True(c, f)' <=> True(c, f)
        BY <2>2 DEF True
      <3>2. QED
        BY <1>2, <1>3, <2>1, <2>2, <3>1 DEF EffectInv
    <2>7. QED
      BY <2>3, <2>4, <2>5, <2>6
  <1>7. \/ Reply(c, Err("OVERLOAD", r.n), "loop")
        \/ Goto(c, "scan")
        \/ \E st \in EngineErrors(r) : Reply(c, Err(st, r.n), "loop")
    BY <1>1 DEF RangeBegin
  <1>8. QED
    BY <1>5, <1>6, <1>7, ErrorStatuses DEF Statuses

\* The handler of c reads a request.
LEMMA ReadConn ==
  ASSUME ServerInd, NEW c \in Conns, ConnInv(c), ClientTypeOK, UNCHANGED cl, ReadRequest(c)
  PROVE  ConnInv(c)'
  <1> USE DEF ServerInd, ServerTypeOK
  <1>1. /\ h[c].pc = "read" /\ net[c].in # <<>> /\ applied' = applied
    BY DEF ReadRequest
  <1>2. Queued(c) /\ ~AtWork(c) /\ ~Leaving(c)
    BY <1>1 DEF Queued, Ending, Leaving, AtWork
  <1>3. PICK s \in Seq(Sent) : s = net[c].in
    BY DEF NetTypeOK
  <1>4. Len(s) = 1 /\ Head(s) = s[1] /\ s[1] \in Sent /\ Tail(s) = <<>>
    <2>1. Len(s) = 1
      BY <1>2, <1>3 DEF ConnInv, RequestInv
    <2>2. Tail(s) \in Seq(Sent) /\ Len(Tail(s)) = 0 /\ Head(s) = s[1] /\ s[1] \in Sent
      BY <1>1, <1>3, <2>1, Taken
    <2>3. QED
      BY <2>1, <2>2, EmptySeq
  <1>5. PICK q : q = s[1]
    OBVIOUS
  <1>6. q = cl[c].call \/ (q.op = "garbage" /\ cl[c].bad)
    BY <1>2, <1>3, <1>5 DEF ConnInv, RequestInv
  <1>7. q.op # "malformed"
    <2>1. q # NoRequest
      BY <1>4, <1>5, NoRequestUnsent
    <2>2. QED
      BY <1>6, <2>1 DEF ConnInv, CallInv, CallOps, Writes
  <1>8. net' = [net EXCEPT ![c].in = Tail(s)]
    BY <1>3 DEF ReadRequest
  <1>9. /\ net'[c].in = <<>> /\ net'[c].out = net[c].out /\ net'[c].state = net[c].state
        /\ net'[c].peer = net[c].peer
    BY <1>4, <1>8, InEffect, EmptySeq
  <1>10. /\ h'[c].pc = IF q.op = "garbage" THEN "close" ELSE "exec"
         /\ h'[c].req = q
    <2>1. h' = [h EXCEPT ![c] = [h[c] EXCEPT !.req = q,
                   !.pc = IF q.op = "garbage" THEN "close" ELSE "exec", !.after = "loop"]]
      BY <1>3, <1>4, <1>5, <1>7 DEF ReadRequest, HandlerTypeOK
    <2>2. h'[c] = [h[c] EXCEPT !.req = q,
                   !.pc = IF q.op = "garbage" THEN "close" ELSE "exec", !.after = "loop"]
      BY <2>1 DEF HandlerTypeOK
    <2>3. QED
      BY <2>2 DEF HandlerTypeOK
  <1>11. CASE q.op = "garbage"
    <2>1. Leaving(c)' /\ Ending(c)'
      BY <1>10, <1>11 DEF Leaving, Ending
    <2>2. QED
      BY <1>1, <1>2, <1>9, <1>10, <1>11, <2>1, QuietMove DEF Quiet
  <1>12. CASE q.op # "garbage"
    BY <1>1, <1>2, <1>3, <1>4, <1>5, <1>9, <1>10, <1>12, CallTaken
  <1>13. QED
    BY <1>11, <1>12

\* The handler of c moves and takes up no work.
LEMMA HandlerQuiet ==
  ASSUME ServerInd, NEW c \in Conns,
         \/ (Loop(c) /\ ~draining) \/ ArmDeadline(c) \/ ReadEnds(c) \/ Release(c)
         \/ CloseConn(c) \/ Untrack(c) \/ Done(c)
  PROVE  Quiet(c)
  <1> USE DEF ServerInd, ServerTypeOK
  <1>1. ASSUME NEW q \in HandlerPcs \ {"exec", "scan", "reply"}, Goto(c, q), net' = net,
               h[c].pc \notin {"exec", "scan", "reply"},
               Leaving(c) => \/ q \in {"close", "untrack", "done", "gone"}
                             \/ q = "release" /\ h[c].after = "close"
        PROVE  Quiet(c)
    <2>1. h'[c].pc = q /\ h'[c].after = h[c].after
      BY <1>1, GotoEffect
    <2>2. /\ Leaving(c) => Leaving(c)'
          /\ Ending(c) => Ending(c)'
          /\ ~AtWork(c)
      BY <1>1, <2>1 DEF Leaving, Ending, AtWork
    <2>3. QED
      BY <1>1, <2>1, <2>2 DEF Quiet
  <1>2. CASE Loop(c) /\ ~draining
    BY <1>1, <1>2 DEF Loop, Leaving, HandlerPcs, AlivePcs
  <1>3. CASE ArmDeadline(c)
    <2>1. h'[c] = [h[c] EXCEPT !.pc = IF net[c].srv THEN "read" ELSE "close", !.rdl = "future"]
      BY <1>3 DEF ArmDeadline, HandlerTypeOK
    <2>2. h'[c].pc \in {"read", "close"}
      BY <2>1 DEF HandlerTypeOK
    <2>3. ~Leaving(c) /\ ~Ending(c) /\ ~AtWork(c) /\ net' = net
      BY <1>3 DEF ArmDeadline, Leaving, Ending, AtWork
    <2>4. QED
      BY <2>2, <2>3 DEF Quiet
  <1>4. CASE ReadEnds(c)
    BY <1>1, <1>4 DEF ReadEnds, Leaving, HandlerPcs, AlivePcs
  <1>5. CASE Release(c)
    <2>1. PICK q \in {"loop", "close"} : q = h[c].after
      BY DEF HandlerTypeOK
    <2>2. Goto(c, q) /\ h[c].pc = "release" /\ net' = net
      BY <1>5, <2>1 DEF Release
    <2>3. QED
      BY <1>1, <2>1, <2>2 DEF Leaving, HandlerPcs, AlivePcs
  <1>6. CASE CloseConn(c)
    <2>1. h'[c].pc = "untrack"
      BY <1>6, GotoEffect DEF CloseConn, HandlerPcs, AlivePcs
    <2>2. net'[c] = [net[c] EXCEPT !.srv = FALSE, !.in = <<>>]
      BY <1>6 DEF CloseConn, NetTypeOK
    <2>3. /\ net'[c].in = <<>> /\ net'[c].out = net[c].out /\ net'[c].state = net[c].state
          /\ net'[c].peer = net[c].peer
      BY <2>2 DEF NetTypeOK
    <2>4. Leaving(c)' /\ Ending(c)' /\ ~AtWork(c)
      BY <1>6, <2>1 DEF CloseConn, Leaving, Ending, AtWork
    <2>5. QED
      BY <2>1, <2>3, <2>4 DEF Quiet
  <1>7. CASE Untrack(c)
    BY <1>1, <1>7 DEF Untrack, HandlerPcs, AlivePcs
  <1>8. CASE Done(c)
    BY <1>1, <1>8 DEF Done, HandlerPcs, AlivePcs
  <1>9. QED
    BY <1>2, <1>3, <1>4, <1>5, <1>6, <1>7, <1>8

\* The same, and the farewell of a draining server.
LEMMA QuietConn ==
  ASSUME ServerInd, NEW c \in Conns, ConnInv(c), UNCHANGED cl,
         \/ Loop(c) \/ ArmDeadline(c) \/ ReadEnds(c) \/ Release(c)
         \/ CloseConn(c) \/ Untrack(c) \/ Done(c)
  PROVE  ConnInv(c)'
  <1> USE DEF ServerInd, ServerTypeOK
  <1>1. cl'[c] = cl[c] /\ applied' = applied
    BY DEF Loop, ArmDeadline, ReadEnds, Release, CloseConn, Untrack, Done
  <1>2. CASE Loop(c) /\ draining
    <2>1. Reply(c, Farewell, "close") /\ net' = net /\ h[c].pc = "loop"
      BY <1>2 DEF Loop, Farewell
    <2>2. Farewell \in Frames
      BY FrameTypes DEF Farewell, Statuses
    <2>3. h'[c].pc = "reply" /\ h'[c].resp = Farewell /\ h'[c].after = "close"
      BY <2>1, <2>2, ReplyEffect
    <2>4. QED
      BY <1>1, <2>1, <2>3, FarewellReady
  <1>3. CASE ~(Loop(c) /\ draining)
    <2>1. Quiet(c)
      BY <1>3, HandlerQuiet
    <2>2. QED
      BY <1>1, <2>1, QuietMove
  <1>4. QED
    BY <1>2, <1>3

\* The handler of c writes, or fails to.
LEMMA WriteConn ==
  ASSUME ServerInd, main # "exited", NEW c \in Conns, ConnInv(c), UNCHANGED cl,
         ScanPair(c) \/ Flush(c) \/ FlushFail(c) \/ WriteReply(c) \/ WriteReplyFail(c)
  PROVE  ConnInv(c)'
  <1> USE DEF ServerInd, ServerTypeOK
  <1>1. /\ cl'[c] = cl[c] /\ applied' = applied /\ h[c].pc \in {"scan", "reply"}
        /\ net[c].out \in Seq(Frames) /\ h[c].resp \in Frames
    BY DEF ScanPair, Flush, FlushFail, FlushDue, WriteReply, WriteReplyFail, NetTypeOK, HandlerTypeOK
  <1>2. net[c].state # "none"
    BY <1>1 DEF HandlersInv
  <1>3. Torn \in Frames
    BY FrameTypes
  <1>4. CASE ScanPair(c)
    <2>1. h' = h /\ net' = net
      BY <1>4 DEF ScanPair
    <2>2. QED
      BY <1>1, <2>1, SameConn DEF Same
  <1>5. CASE Flush(c)
    <2>1. PICK f : f = Frame("OK", "page", stream[c].page, h[c].req.n)
      OBVIOUS
    <2>2. h[c].pc = "scan" /\ h'[c] = h[c] /\ Written(c, f)
      BY <1>5, <2>1 DEF Flush, FlushDue
    <2>3. f.n = Current(c) /\ ~Final(f)
      BY <2>1, <2>2 DEF Frame, Final, ConnInv, RequestInv, Current
    <2>4. f \in Frames
      <3>1. h[c].req.n \in Nat
        <4>1. h[c].req \in Sent \cup {NoRequest}
          BY DEF HandlerTypeOK
        <4>2. QED
          BY <4>1, SentFacts DEF NoRequest
      <3>2. stream[c].page \in Seq(Pairs)
        BY DEF StreamTypeOK
      <3>3. QED
        BY <2>1, <3>1, <3>2, FrameTypes
    <2>5. /\ net'[c].out = IF net[c].peer THEN Append(net[c].out, f) ELSE net[c].out
          /\ net'[c].in = net[c].in /\ net'[c].state = net[c].state
          /\ net'[c].peer = net[c].peer
      BY <2>2, <2>4, WrittenEffect
    <2>6. QED
      BY <1>1, <2>2, <2>3, <2>4, <2>5, PageSent
  <1>6. CASE FlushFail(c)
    <2>1. h'[c] = [h[c] EXCEPT !.pc = "release", !.after = "close"]
      BY <1>6 DEF FlushFail, HandlerTypeOK
    <2>2. h'[c].pc = "release" /\ h'[c].after = "close"
      BY <2>1 DEF HandlerTypeOK
    <2>3. /\ net'[c].out \in {net[c].out, Append(net[c].out, Torn)}
          /\ net'[c].in = net[c].in /\ net'[c].state = net[c].state
          /\ net'[c].peer = net[c].peer
      BY <1>6, WriteFailsEffect DEF FlushFail
    <2>4. QED
      BY <1>1, <1>2, <1>3, <2>2, <2>3, HandlerGivesUp
  <1>7. CASE WriteReply(c)
    <2>1. PICK l \in {"loop", "close"} : l = h[c].after
      BY DEF HandlerTypeOK
    <2>2. h'[c].pc \in {"release", l} /\ h'[c].after = l
      BY <1>7, <2>1, ReturnEffect DEF WriteReply
    <2>3. /\ net'[c].out = IF net[c].peer THEN Append(net[c].out, h[c].resp) ELSE net[c].out
          /\ net'[c].in = net[c].in /\ net'[c].state = net[c].state
          /\ net'[c].peer = net[c].peer
      BY <1>1, <1>7, WrittenEffect DEF WriteReply
    <2>4. h[c].pc = "reply"
      BY <1>7 DEF WriteReply
    <2>5. CASE h[c].resp.n # 0
      BY <1>1, <2>1, <2>2, <2>3, <2>4, <2>5, AnswerSent
    <2>6. CASE h[c].resp.n = 0
      <3>1. h[c].resp = Farewell /\ l = "close" /\ Farewell \in Frames
        BY <1>1, <2>1, <2>4, <2>6 DEF ConnInv, ReplyInv
      <3>2. net'[c].out \in {net[c].out, Append(net[c].out, Farewell)}
        BY <2>3, <3>1
      <3>3. QED
        BY <1>1, <1>2, <2>2, <2>3, <2>4, <2>6, <3>1, <3>2, HandlerGivesUp
    <2>7. QED
      BY <2>5, <2>6
  <1>8. CASE WriteReplyFail(c)
    <2>1. h'[c].pc \in {"release", "close"} /\ h'[c].after = "close"
      BY <1>8, ReturnEffect DEF WriteReplyFail
    <2>2. /\ net'[c].out \in {net[c].out, Append(net[c].out, Torn)}
          /\ net'[c].in = net[c].in /\ net'[c].state = net[c].state
          /\ net'[c].peer = net[c].peer
      BY <1>8, WriteFailsEffect DEF WriteReplyFail
    <2>3. QED
      BY <1>1, <1>2, <1>3, <2>1, <2>2, HandlerGivesUp
  <1>9. QED
    BY <1>4, <1>5, <1>6, <1>7, <1>8

\* Every step of the handler of c.
LEMMA HandlerConn ==
  ASSUME ServerInd, main # "exited", NEW c \in Conns, ConnInv(c), ClientTypeOK, UNCHANGED cl,
         Handler(c)
  PROVE  ConnInv(c)'
  BY ExecConn, RangeConn, ReadConn, QuietConn, WriteConn DEF Handler

\* The handler of another connection.
LEMMA HandlerElsewhere ==
  ASSUME ServerInd, NEW c \in Conns, NEW d \in Conns \ {c}, UNCHANGED cl, Handler(c)
  PROVE  Same(d) /\ h'[d] = h[d] /\ net'[d] = net[d]
  <1> USE DEF ServerInd, ServerTypeOK
  <1>1. h'[d] = h[d]
    <2>1. \A q : Goto(c, q) => h'[d] = h[d]
      BY DEF Goto, HandlerTypeOK
    <2>2. \A f, l : Reply(c, f, l) => h'[d] = h[d]
      BY DEF Reply, HandlerTypeOK
    <2>3. \A l : ReturnTo(c, l) => h'[d] = h[d]
      BY DEF ReturnTo, HandlerTypeOK
    <2>4. ArmDeadline(c) \/ FlushFail(c) => h'[d] = h[d]
      BY DEF ArmDeadline, FlushFail, HandlerTypeOK
    <2>5. ReadRequest(c) => h'[d] = h[d]
      BY DEF ReadRequest, HandlerTypeOK
    <2>6. ScanPair(c) \/ Flush(c) => h'[d] = h[d]
      BY DEF ScanPair, Flush
    <2>7. /\ Loop(c) \/ ReadEnds(c) \/ Release(c) \/ CloseConn(c) => h'[d] = h[d]
          /\ Untrack(c) \/ Done(c) \/ WriteReply(c) \/ WriteReplyFail(c) => h'[d] = h[d]
      BY <2>1, <2>2, <2>3
         DEF Loop, ReadEnds, Release, CloseConn, Untrack, Done, WriteReply, WriteReplyFail
    <2>8. ExecWrite(c) \/ ExecGet(c) \/ ExecPingStats(c) \/ StreamEnd(c) => h'[d] = h[d]
      BY <2>2 DEF ExecWrite, ExecGet, ExecPingStats, StreamEnd
    <2>9. RangeBegin(c) => h'[d] = h[d]
      BY <2>1, <2>2 DEF RangeBegin
    <2>10. QED
      BY <2>4, <2>5, <2>6, <2>7, <2>8, <2>9 DEF Handler
  <1>2. net'[d] = net[d]
    <2>1. \A f : Written(c, f) => net'[d] = net[d]
      BY DEF Written, NetTypeOK
    <2>2. WriteFails(c) => net'[d] = net[d]
      BY DEF WriteFails, NetTypeOK
    <2>3. /\ ReadRequest(c) \/ CloseConn(c) => net'[d] = net[d]
          /\ Flush(c) \/ FlushFail(c) \/ WriteReply(c) \/ WriteReplyFail(c) => net'[d] = net[d]
      BY <2>1, <2>2
         DEF ReadRequest, CloseConn, Flush, FlushFail, WriteReply, WriteReplyFail, NetTypeOK
    <2>4. /\ Loop(c) \/ ArmDeadline(c) \/ ReadEnds(c) \/ Release(c) => net'[d] = net[d]
          /\ Untrack(c) \/ Done(c) \/ ScanPair(c) \/ RangeBegin(c) => net'[d] = net[d]
          /\ ExecWrite(c) \/ ExecGet(c) \/ ExecPingStats(c) \/ StreamEnd(c) => net'[d] = net[d]
      BY DEF Loop, ArmDeadline, ReadEnds, Release, Untrack, Done, ScanPair, RangeBegin,
         ExecWrite, ExecGet, ExecPingStats, StreamEnd
    <2>5. QED
      BY <2>3, <2>4 DEF Handler
  <1>3. \A m : <<d, m>> \in applied' <=> <<d, m>> \in applied
    <2>1. ExecWrite(c) => \A m : <<d, m>> \in applied' <=> <<d, m>> \in applied
      BY DEF ExecWrite
    <2>2. Handler(c) /\ ~ExecWrite(c) => applied' = applied
      BY ZenonT(30) DEF Handler, Loop, ArmDeadline, ReadRequest, ReadEnds, Release, CloseConn, Untrack,
         Done, ScanPair, RangeBegin, Flush, FlushFail, WriteReply, WriteReplyFail,
         ExecGet, ExecPingStats, StreamEnd
    <2>3. QED
      BY <2>1, <2>2
  <1>4. QED
    BY <1>1, <1>2, <1>3 DEF Same

\* The accept loop, Shutdown and runServe.
LEMMA ProcessMoves ==
  ASSUME ServerInd, main # "exited", NEW c \in Conns, UNCHANGED cl,
         Process \/ Signal \/ ForceClose \/ Exit
  PROVE  (Same(c) \/ Quiet(c)) /\ applied' = applied /\ stream' = stream
  <1> USE DEF ServerInd, ServerTypeOK
  <1>1. cl'[c] = cl[c] /\ applied' = applied /\ stream' = stream
    BY DEF Process, Signal, ForceClose, Exit, Accept, AcceptError, Track, CloseListener, Poke,
       ShutdownReturns, CloseEngine
  <1>2. CASE AcceptError \/ ShutdownReturns \/ CloseEngine \/ Signal
    <2>1. h' = h /\ net' = net
      BY <1>2 DEF AcceptError, ShutdownReturns, CloseEngine, Signal
    <2>2. QED
      BY <1>1, <2>1 DEF Same
  <1>3. ASSUME NEW d \in Conns, Accept(d) PROVE Same(c) \/ Quiet(c)
    <2>1. h' = h
      BY <1>3 DEF Accept
    <2>2. c # d => net'[c] = net[c]
      BY <1>3 DEF Accept, NetTypeOK
    <2>3. net'[d] = [net[d] EXCEPT !.state = "accepted"] /\ net[d].state = "backlog"
      BY <1>3 DEF Accept, NetTypeOK
    <2>4. /\ net'[d].in = net[d].in /\ net'[d].out = net[d].out /\ net'[d].peer = net[d].peer
      BY <2>3 DEF NetTypeOK
    <2>5. QED
      BY <1>1, <2>1, <2>2, <2>3, <2>4 DEF Same
  <1>4. CASE Track
    <2>1. PICK d \in Conns : d = serve.conn
      BY <1>4 DEF Track, HandlersInv
    <2>2. CASE RefuseConn(d) /\ draining
      <3>1. h' = h /\ (c # d => net'[c] = net[c])
        BY <2>2 DEF RefuseConn, NetTypeOK
      <3>2. net'[d] = [net[d] EXCEPT !.srv = FALSE]
        BY <2>2 DEF RefuseConn, NetTypeOK
      <3>3. /\ net'[d].in = net[d].in /\ net'[d].out = net[d].out
            /\ net'[d].peer = net[d].peer /\ net'[d].state = net[d].state
        BY <3>2 DEF NetTypeOK
      <3>4. QED
        BY <1>1, <3>1, <3>3 DEF Same
    <2>3. CASE StartHandler(d)
      <3>1. net' = net /\ (c # d => h'[c] = h[c])
        BY <2>3 DEF StartHandler, HandlerTypeOK
      <3>2. h'[d] = [h[d] EXCEPT !.pc = "loop"] /\ h[d].pc = "none"
        BY <1>4, <2>1, <2>3 DEF StartHandler, HandlerTypeOK, Track, HandlersInv
      <3>3. h'[d].pc = "loop"
        BY <3>2 DEF HandlerTypeOK
      <3>4. CASE c # d
        BY <1>1, <3>1, <3>4 DEF Same
      <3>5. CASE c = d
        <4>1. ~Leaving(c) /\ ~Ending(c) /\ ~AtWork(c)
          BY <3>2, <3>5 DEF Leaving, Ending, AtWork
        <4>2. QED
          BY <1>1, <3>1, <3>3, <3>5, <4>1 DEF Quiet
      <3>6. QED
        BY <3>4, <3>5
    <2>4. QED
      BY <1>4, <2>1, <2>2, <2>3 DEF Track
  <1>5. CASE CloseListener
    <2>1. h' = h
      BY <1>5 DEF CloseListener
    <2>2. \/ net'[c] = net[c]
          \/ net[c].state = "backlog" /\ net'[c] = [net[c] EXCEPT !.state = "reset", !.srv = FALSE]
      BY <1>5 DEF CloseListener
    <2>3. /\ net'[c].in = net[c].in /\ net'[c].out = net[c].out
          /\ net'[c].peer = net[c].peer
          /\ net[c].state = "none" => net'[c].state = "none"
      BY <2>2 DEF NetTypeOK
    <2>4. QED
      BY <1>1, <2>1, <2>3 DEF Same
  <1>6. CASE Poke
    <2>1. net' = net /\ h'[c] \in {h[c], [h[c] EXCEPT !.rdl = "past"]}
      BY <1>6 DEF Poke
    <2>2. /\ h'[c].pc = h[c].pc /\ h'[c].req = h[c].req
          /\ h'[c].resp = h[c].resp /\ h'[c].after = h[c].after
      BY <2>1 DEF HandlerTypeOK
    <2>3. QED
      BY <1>1, <2>1, <2>2 DEF Same
  <1>7. CASE ForceClose
    <2>1. h' = h /\ net'[c] \in {net[c], [net[c] EXCEPT !.srv = FALSE]}
      BY <1>7 DEF ForceClose
    <2>2. /\ net'[c].in = net[c].in /\ net'[c].out = net[c].out
          /\ net'[c].peer = net[c].peer /\ net'[c].state = net[c].state
      BY <2>1 DEF NetTypeOK
    <2>3. QED
      BY <1>1, <2>1, <2>2 DEF Same
  <1>8. CASE Exit
    <2>1. net'[c] = [net[c] EXCEPT !.srv = FALSE] /\ h'[c] = [h[c] EXCEPT !.pc = "gone"]
      BY <1>8 DEF Exit
    <2>2. /\ net'[c].in = net[c].in /\ net'[c].out = net[c].out
          /\ net'[c].peer = net[c].peer /\ net'[c].state = net[c].state
          /\ h'[c].pc = "gone"
      BY <2>1 DEF NetTypeOK, HandlerTypeOK
    <2>3. Leaving(c)' /\ Ending(c)'
      BY <2>2 DEF Leaving, Ending
    <2>4. QED
      BY <1>1, <2>2, <2>3 DEF Quiet
  <1>9. QED
    BY <1>1, <1>2, <1>3, <1>4, <1>5, <1>6, <1>7, <1>8 DEF Process

\* They take nothing from a Client.
LEMMA ProcessConn ==
  ASSUME ServerInd, main # "exited", NEW c \in Conns, ConnInv(c), UNCHANGED cl,
         Process \/ Signal \/ ForceClose \/ Exit
  PROVE  ConnInv(c)'
  <1>1. (Same(c) \/ Quiet(c)) /\ applied' = applied
    BY ProcessMoves
  <1>2. QED
    BY <1>1, SameConn, QuietMove

\* Every step of the server process.
LEMMA ServerConn ==
  ASSUME ServerInd, ClientInd, main # "exited", ServerNext, UNCHANGED cl
  PROVE  ClientInd'
  <1>1. ClientTypeOK'
    BY DEF ClientInd, ClientTypeOK
  <1>2. ASSUME NEW c \in Conns, cl[c].pc # "raw" PROVE ConnInv(c)'
    <2>1. ConnInv(c) /\ ClientTypeOK
      BY <1>2 DEF ClientInd
    <2>2. CASE Process \/ Signal \/ ForceClose \/ Exit
      BY <2>1, <2>2, ProcessConn
    <2>3. ASSUME NEW d \in Conns, Handler(d) PROVE ConnInv(c)'
      <3>1. CASE c = d
        BY <2>1, <2>3, <3>1, HandlerConn
      <3>2. CASE c # d
        BY <2>1, <2>3, <3>2, HandlerElsewhere, SameConn
      <3>3. QED
        BY <3>1, <3>2
    <2>4. QED
      BY <2>2, <2>3 DEF ServerNext
  <1>3. QED
    BY <1>1, <1>2 DEF ClientInd
----------------------------------------------------------------------------
(* The steps of the Client.                                                *)

\* What a Client is after its call returns.
LEMMA Returned ==
  ASSUME ClientTypeOK, NEW c \in Conns, NEW kind \in Kinds, NEW st \in Statuses \cup {"none"},
         NEW from \in Nat, NEW x, x = Return(c, kind, st, from)
  PROVE  /\ x \in ClientRecord /\ x.pc = "idle" /\ x.call = cl[c].call
         /\ x.bad = (cl[c].bad \/ kind \in Broken)
         /\ x.res.kind = kind /\ x.res.st = st /\ x.res.from = from
  <1> DEFINE r == [kind |-> kind, st |-> st, from |-> from]
  <1>1. /\ r \in [kind : Kinds, st : Statuses \cup {"none"}, from : Nat]
        /\ r.kind = kind /\ r.st = st /\ r.from = from
    OBVIOUS
  <1> HIDE DEF r
  <1>2. PICK b \in BOOLEAN : b = (cl[c].bad \/ kind \in Broken)
    OBVIOUS
  <1>3. x = [cl[c] EXCEPT !.pc = "idle", !.bad = b, !.res = r]
    BY <1>2 DEF Return, r
  <1>4. cl[c] \in ClientRecord
    BY DEF ClientTypeOK
  <1>5. x \in ClientRecord /\ x.pc = "idle" /\ x.call = cl[c].call /\ x.bad = b /\ x.res = r
    BY <1>1, <1>3, <1>4, ZenonT(30) DEF ClientRecord
  <1>6. QED
    BY <1>1, <1>2, <1>5

\* The number of a call.
LEMMA CurrentType ==
  ASSUME ClientTypeOK, NEW c \in Conns
  PROVE  Current(c) \in Nat
  <1>1. cl[c].call \in Sent \cup {NoRequest}
    BY DEF ClientTypeOK, ClientRecord
  <1>2. QED
    BY <1>1, SentFacts DEF NoRequest, Current

\* What a call makes of a frame.
LEMMA Outcomes ==
  ASSUME NEW op \in CallOps, NEW f \in Frames
  PROVE  /\ Outcome(op, f) \in {"nil", "notfound", "remote", "protocol", "more"}
         /\ Outcome(op, f) = "more" <=> op = "range" /\ ~Final(f)
         /\ Outcome(op, f) \in {"nil", "protocol"} => f.st = "OK"
         /\ Outcome(op, f) = "notfound" => f.st = "NOT_FOUND"
  <1>1. CASE op = "get"
    BY <1>1 DEF Outcome, Writes
  <1>2. CASE op \in Writes \cup {"ping"}
    BY <1>2 DEF Outcome, Writes
  <1>3. CASE op = "stats"
    BY <1>3 DEF Outcome, Writes
  <1>4. CASE op = "range"
    BY <1>4 DEF Outcome, Writes, Final
  <1>5. QED
    BY <1>1, <1>2, <1>3, <1>4 DEF CallOps

\* Dial.
LEMMA DialConn ==
  ASSUME NEW c \in Conns, ConnInv(c), cl[c].pc = "none",
         cl'[c].pc = "idle", cl'[c].call = cl[c].call, cl'[c].res = cl[c].res,
         cl'[c].bad = cl[c].bad, h'[c] = h[c], applied' = applied,
         net'[c].in = net[c].in, net'[c].out = net[c].out, net'[c].peer
  PROVE  ConnInv(c)'
  <1> USE DEF ConnInv
  <1>1. /\ net[c].in = <<>> /\ net[c].out = <<>> /\ ~cl[c].bad /\ cl[c].call = NoRequest
        /\ ~Pending(c) /\ ~Queued(c) /\ ~AtWork(c)
    BY DEF CallInv, RequestInv, Pending
  <1>2. /\ Current(c)' = Current(c) /\ Did(c)' = Did(c) /\ ~Queued(c)' /\ ~AtWork(c)'
        /\ Leaving(c)' = Leaving(c)
    BY <1>1 DEF Current, Did, Queued, AtWork, Leaving
  <1>3. CallInv(c)' /\ ResultInv(c)'
    BY <1>1, <1>2 DEF CallInv, ResultInv, Current, NoRequest
  <1>4. RequestInv(c)' /\ ReplyInv(c)'
    BY <1>1, <1>2 DEF RequestInv, ReplyInv, AtWork
  <1>5. DOMAIN net'[c].out = {}
    BY <1>1
  <1>6. FrameInv(c)'
    BY <1>5 DEF FrameInv
  <1>7. EffectInv(c)'
    BY <1>1, <1>2, <1>5 DEF EffectInv, AtWork
  <1>8. QED
    BY <1>3, <1>4, <1>6, <1>7

\* A call begins, or fails before it has begun.
LEMMA NewCall ==
  ASSUME NEW c \in Conns, ConnInv(c), ClientTypeOK, cl[c].pc = "idle", ~cl[c].bad,
         h'[c] = h[c], applied' = applied, net'[c].out = net[c].out,
         net'[c].peer = net[c].peer, net'[c].state = net[c].state,
         net[c].in \in Seq(Sent), NEW e \in Sent, net'[c].in \in {net[c].in, Append(net[c].in, e)},
         NEW q, cl'[c].call = q, q.n = Current(c) + 1, q.op \in CallOps,
         \/ cl'[c].pc = "wait" /\ cl'[c].res = NoResult /\ ~cl'[c].bad /\ e = q
         \/ /\ cl'[c].pc = "idle" /\ cl'[c].bad
            /\ cl'[c].res.kind = "eof" /\ cl'[c].res.st = "none" /\ e.op = "garbage"
  PROVE  ConnInv(c)'
  <1> USE DEF ConnInv
  <1>1. ~Pending(c) /\ ~Queued(c) /\ ~AtWork(c)
    BY DEF RequestInv, Pending
  <1>2. \A i \in DOMAIN net[c].out : net[c].out[i].n = 0
    BY <1>1 DEF FrameInv
  <1>3. /\ Current(c) \in Nat /\ Current(c)' = Current(c) + 1 /\ Current(c)' # 0
        /\ \A m \in Nat : m <= Current(c) => m <= Current(c)'
    <2>1. Current(c) \in Nat /\ Current(c)' = Current(c) + 1
      BY CurrentType DEF Current
    <2>2. QED
      BY <2>1
  <1>4. ~Did(c)'
    <2>1. ~(Current(c) + 1 <= Current(c)) /\ Current(c) + 1 \in Nat
      BY <1>3
    <2>2. <<c, Current(c) + 1>> \notin applied
      BY <2>1 DEF EffectInv
    <2>3. QED
      BY <1>3, <2>2 DEF Did
  <1>5. Pending(c)' /\ ~AtWork(c)' /\ Leaving(c)' = Leaving(c) /\ Ending(c)' = Ending(c)
    BY <1>1 DEF Pending, AtWork, Leaving, Ending
  <1>6. ~Answered(c)'
    BY <1>2 DEF Answered
  <1>7. CallInv(c)'
    BY <1>3 DEF CallInv, Broken
  <1>8. RequestInv(c)' /\ ReplyInv(c)'
    <2>1. Queued(c)' => Len(net'[c].in) = 1 /\ net'[c].in[1] = e
      <3>1. Queued(c)' => net[c].in = <<>>
        BY <1>1, <1>5 DEF Queued
      <3>2. net[c].in = <<>> => Len(Append(net[c].in, e)) = 1 /\ Append(net[c].in, e)[1] = e
        BY EmptySeq, AppendProperties
      <3>3. QED
        BY <3>1, <3>2 DEF Queued
    <2>2. QED
      BY <1>1, <1>5, <1>6, <2>1 DEF RequestInv, ReplyInv, AtWork
  <1>9. FrameInv(c)'
    <2>1. \A f \in {Farewell, Torn} : Final(f)
      BY DEF Farewell, Torn, Err, Frame, Final
    <2>2. QED
      BY <1>2, <1>5, <2>1 DEF FrameInv
  <1>10. EffectInv(c)'
    BY <1>1, <1>2, <1>3, <1>4, <1>5 DEF EffectInv, AtWork
  <1>11. ResultInv(c)'
    BY <1>4 DEF ResultInv, NoResult
  <1>12. QED
    BY <1>7, <1>8, <1>9, <1>10, <1>11

\* A frame that is not the last is read.
LEMMA PageTaken ==
  ASSUME NEW c \in Conns, FrameInv(c), net[c].out \in Seq(Frames), net[c].out # <<>>,
         ~Final(Head(net[c].out)), net'[c].out = Tail(net[c].out), h'[c] = h[c],
         cl'[c].call = cl[c].call, Pending(c) => Pending(c)'
  PROVE  /\ FrameInv(c)' /\ Answered(c)' = Answered(c)
         /\ \A i \in DOMAIN net'[c].out : \E k \in DOMAIN net[c].out : net'[c].out[i] = net[c].out[k]
  <1> DEFINE s == net[c].out
             t == net'[c].out
  <1>1. /\ DOMAIN s = 1 .. Len(s) /\ DOMAIN t = 1 .. Len(s) - 1 /\ Len(s) \in Nat
        /\ 1 \in DOMAIN s /\ Head(s) = s[1]
        /\ \A i \in DOMAIN t : i + 1 \in DOMAIN s /\ t[i] = s[i + 1]
    BY Taken
  <1>2. Current(c)' = Current(c) /\ Leaving(c)' = Leaving(c)
    BY DEF Current, Leaving
  <1> HIDE DEF s, t
  <1>3. ASSUME NEW i \in DOMAIN t
        PROVE  /\ t[i].n = 0 => t[i] \in {Farewell, Torn} /\ Leaving(c)
               /\ t[i].n # 0 => t[i].n = Current(c) /\ Pending(c)
               /\ ~Final(t[i]) => cl[c].call.op = "range"
               /\ \A j \in DOMAIN t : i < j /\ Final(t[i]) => t[j].n = 0
    <2>1. i + 1 \in DOMAIN s /\ t[i] = s[i + 1]
      BY <1>1
    <2>2. \A j \in DOMAIN t : j + 1 \in DOMAIN s /\ t[j] = s[j + 1] /\ (i < j => i + 1 < j + 1)
      BY <1>1
    <2>3. QED
      BY <2>1, <2>2 DEF FrameInv, s
  <1>4. FrameInv(c)'
    BY <1>2, <1>3 DEF FrameInv, t
  <1>5. Answered(c)' => Answered(c)
    BY <1>1 DEF Answered, s, t
  <1>6. Answered(c) => Answered(c)'
    <2>1. ASSUME NEW k \in DOMAIN s, Final(s[k]), s[k].n # 0 PROVE Answered(c)'
      <3>1. k # 1
        BY <1>1, <2>1 DEF s
      <3>2. k - 1 \in DOMAIN t /\ t[k - 1] = s[k]
        <4>1. k - 1 \in DOMAIN t /\ (k - 1) + 1 = k
          BY <1>1, <3>1
        <4>2. QED
          BY <1>1, <4>1
      <3>3. QED
        BY <2>1, <3>2 DEF Answered, t
    <2>2. QED
      BY <2>1 DEF Answered, s
  <1>7. \A i \in DOMAIN t : \E k \in DOMAIN s : t[i] = s[k]
    BY <1>1
  <1>8. Answered(c)' = Answered(c)
    BY <1>5, <1>6 DEF Answered
  <1>9. QED
    BY <1>4, <1>7, <1>8 DEF s, t

\* pageFn is given a page and asks for more.
LEMMA PageConn ==
  ASSUME NEW c \in Conns, ConnInv(c), net[c].out \in Seq(Frames), net[c].out # <<>>,
         ~Final(Head(net[c].out)), net'[c].out = Tail(net[c].out),
         net'[c].in = net[c].in, net'[c].peer = net[c].peer, net'[c].state = net[c].state,
         h'[c] = h[c], applied' = applied, cl'[c].pc = cl[c].pc, cl'[c].call = cl[c].call,
         cl'[c].res = cl[c].res, cl'[c].bad = cl[c].bad
  PROVE  ConnInv(c)'
  <1> USE DEF ConnInv
  <1>1. /\ Leaving(c)' = Leaving(c) /\ Queued(c)' = Queued(c) /\ AtWork(c)' = AtWork(c)
        /\ Pending(c)' = Pending(c) /\ Did(c)' = Did(c) /\ Current(c)' = Current(c)
    BY DEF Leaving, Ending, Queued, AtWork, Pending, Did, Current
  <1>2. /\ FrameInv(c)' /\ Answered(c)' = Answered(c)
        /\ \A i \in DOMAIN net'[c].out : \E k \in DOMAIN net[c].out : net'[c].out[i] = net[c].out[k]
    BY <1>1, PageTaken
  <1>3. CallInv(c)' /\ ResultInv(c)'
    BY <1>1 DEF CallInv, ResultInv
  <1>4. RequestInv(c)' /\ ReplyInv(c)'
    BY <1>1, <1>2 DEF RequestInv, ReplyInv
  <1>5. EffectInv(c)'
    <2>1. \A f : True(c, f)' <=> True(c, f)
      BY <1>1 DEF True
    <2>2. QED
      BY <1>1, <1>2, <2>1 DEF EffectInv
  <1>6. QED
    BY <1>2, <1>3, <1>4, <1>5

\* The call is given up, at a page or before it read one.
LEMMA GiveUpConn ==
  ASSUME NEW c \in Conns, ConnInv(c), net[c].out \in Seq(Frames), cl[c].pc = "wait",
         \/ net'[c].out = net[c].out
         \/ /\ net[c].out # <<>> /\ ~Final(Head(net[c].out))
            /\ net'[c].out = Tail(net[c].out),
         net'[c].in = net[c].in, net'[c].peer = net[c].peer, net'[c].state = net[c].state,
         h'[c] = h[c], applied' = applied, cl'[c].pc = "idle", cl'[c].call = cl[c].call,
         cl'[c].bad, cl'[c].res.kind \in {"timeout", "eof", "stopped"}, cl'[c].res.st = "none"
  PROVE  ConnInv(c)'
  <1> USE DEF ConnInv
  <1>1. /\ Leaving(c)' = Leaving(c) /\ Queued(c)' = Queued(c) /\ AtWork(c)' = AtWork(c)
        /\ Pending(c)' /\ Did(c)' = Did(c) /\ Current(c)' = Current(c)
    BY DEF Leaving, Ending, Queued, AtWork, Pending, Did, Current
  <1>2. /\ FrameInv(c)' /\ Answered(c)' = Answered(c)
        /\ \A i \in DOMAIN net'[c].out : \E k \in DOMAIN net[c].out : net'[c].out[i] = net[c].out[k]
    <2>1. CASE net'[c].out = net[c].out
      BY <1>1, <2>1 DEF FrameInv, Answered
    <2>2. CASE net'[c].out # net[c].out
      BY <1>1, <2>2, PageTaken
    <2>3. QED
      BY <2>1, <2>2
  <1>3. CallInv(c)' /\ ResultInv(c)'
    BY <1>1 DEF CallInv, ResultInv, Broken
  <1>4. RequestInv(c)' /\ ReplyInv(c)'
    BY <1>1, <1>2 DEF RequestInv, ReplyInv, CallInv
  <1>5. EffectInv(c)'
    <2>1. \A f : True(c, f)' <=> True(c, f)
      BY <1>1 DEF True
    <2>2. QED
      BY <1>1, <1>2, <2>1, ZenonT(30) DEF EffectInv
  <1>6. QED
    BY <1>2, <1>3, <1>4, <1>5

\* The call reads the last frame of its response, and returns.
LEMMA LastConn ==
  ASSUME NEW c \in Conns, ConnInv(c), net[c].out \in Seq(Frames), net[c].out # <<>>,
         cl[c].pc = "wait", NEW f \in Frames, f = Head(net[c].out), f # Torn,
         NEW o, o = Outcome(cl[c].call.op, f), o # "more",
         net'[c].out = Tail(net[c].out),
         net'[c].in = net[c].in, net'[c].peer = net[c].peer, net'[c].state = net[c].state,
         h'[c] = h[c], applied' = applied, cl'[c].pc = "idle", cl'[c].call = cl[c].call,
         cl'[c].bad = (cl[c].bad \/ o \in Broken),
         cl'[c].res.kind = o, cl'[c].res.st = f.st, cl'[c].res.from = f.n
  PROVE  ConnInv(c)'
  <1> USE DEF ConnInv
  <1>1. /\ cl[c].call.op \in CallOps /\ Current(c) # 0 /\ ~cl[c].bad
    BY DEF CallInv
  <1>2. /\ o \in {"nil", "notfound", "remote", "protocol"}
        /\ cl[c].call.op = "range" => Final(f)
        /\ o \in {"nil", "protocol"} => f.st = "OK"
        /\ o = "notfound" => f.st = "NOT_FOUND"
    BY <1>1, Outcomes
  <1> DEFINE s == net[c].out
             t == net'[c].out
  <1>3. /\ 1 \in DOMAIN s /\ f = s[1]
        /\ \A i \in DOMAIN t : i + 1 \in DOMAIN s /\ 1 < i + 1 /\ t[i] = s[i + 1]
    BY Taken
  <1> HIDE DEF s, t
  <1>4. /\ Final(f) /\ (f.n = 0 => f = Farewell /\ Leaving(c)) /\ (f.n # 0 => f.n = Current(c))
        /\ \A j \in DOMAIN s : 1 < j => s[j].n = 0
    <2>1. Final(f)
      BY <1>2, <1>3 DEF FrameInv, s
    <2>2. QED
      BY <1>3, <2>1 DEF FrameInv, s
  <1>5. ~Queued(c) /\ ~AtWork(c)
    <2>1. CASE f.n = 0
      BY <1>4, <2>1 DEF Queued, Ending, AtWork, Leaving
    <2>2. CASE f.n # 0
      <3>1. Answered(c)
        BY <1>3, <1>4, <2>2 DEF Answered, s
      <3>2. QED
        BY <3>1 DEF RequestInv
    <2>3. QED
      BY <2>1, <2>2
  <1>6. \A i \in DOMAIN t : t[i].n = 0 /\ t[i] \in {Farewell, Torn} /\ Final(t[i]) /\ Leaving(c)
    <2>1. \A g \in {Farewell, Torn} : Final(g)
      BY DEF Farewell, Torn, Err, Frame, Final
    <2>2. \A i \in DOMAIN t : t[i].n = 0
      BY <1>3, <1>4
    <2>3. \A i \in DOMAIN t : t[i] \in {Farewell, Torn} /\ Leaving(c)
      BY <1>3, <2>2 DEF FrameInv, s
    <2>4. QED
      BY <2>1, <2>2, <2>3
  <1>7. /\ Leaving(c)' = Leaving(c) /\ ~Queued(c)' /\ ~AtWork(c)'
        /\ Did(c)' = Did(c) /\ Current(c)' = Current(c)
    BY <1>5 DEF Leaving, Ending, Queued, AtWork, Did, Current
  <1>8. CallInv(c)'
    BY <1>1, <1>2, <1>7 DEF CallInv, Broken
  <1>9. RequestInv(c)' /\ ReplyInv(c)'
    BY <1>5, <1>7 DEF RequestInv, ReplyInv, AtWork
  <1>10. FrameInv(c)'
    BY <1>6, <1>7 DEF FrameInv, t
  <1>11. EffectInv(c)'
    BY <1>5, <1>6, <1>7 DEF EffectInv, AtWork, t
  <1>12. ResultInv(c)'
    <2>1. CASE f.n # 0
      <3>1. True(c, f)
        BY <1>3, <2>1 DEF EffectInv, s
      <3>2. QED
        BY <1>2, <1>4, <1>7, <2>1, <3>1 DEF ResultInv, True
    <2>2. CASE f.n = 0
      <3>1. f = Farewell /\ f.st = "CLOSED" /\ Leaving(c)
        BY <1>4, <2>2 DEF Farewell, Err, Frame
      <3>2. ~Answered(c)
        <4>1. \A j \in DOMAIN s : s[j].n = 0
          <5>1. \A j \in DOMAIN s : j = 1 \/ 1 < j
            BY LenProperties DEF s
          <5>2. QED
            BY <1>3, <1>4, <2>2, <5>1
        <4>2. QED
          BY <4>1 DEF Answered, s
      <3>3. ~Did(c)
        BY <1>3, <1>5, <3>1, <3>2 DEF EffectInv, s
      <3>4. QED
        BY <1>2, <1>7, <2>2, <3>1, <3>3 DEF ResultInv
    <2>3. QED
      BY <2>1, <2>2
  <1>13. QED
    BY <1>8, <1>9, <1>10, <1>11, <1>12

\* Close.
LEMMA CloseConnOf ==
  ASSUME NEW c \in Conns, ConnInv(c), cl[c].pc = "idle", net'[c].out = <<>>,
         net'[c].in = net[c].in, net'[c].state = net[c].state,
         h'[c] = h[c], applied' = applied, cl'[c].pc = "closed", cl'[c].call = cl[c].call,
         cl'[c].bad = cl[c].bad, cl'[c].res = cl[c].res
  PROVE  ConnInv(c)'
  <1> USE DEF ConnInv
  <1>1. /\ Queued(c)' = Queued(c) /\ AtWork(c)' = AtWork(c)
        /\ Pending(c)' = Pending(c) /\ Did(c)' = Did(c) /\ Current(c)' = Current(c)
    BY DEF Leaving, Ending, Queued, AtWork, Pending, Did, Current
  <1>2. DOMAIN net'[c].out = {}
    OBVIOUS
  <1>3. CallInv(c)' /\ ResultInv(c)'
    BY <1>1 DEF CallInv, ResultInv
  <1>4. RequestInv(c)' /\ ReplyInv(c)'
    BY <1>1, <1>2 DEF RequestInv, ReplyInv, Answered
  <1>5. FrameInv(c)'
    BY <1>2 DEF FrameInv
  <1>6. EffectInv(c)'
    <2>1. \A f : True(c, f)' <=> True(c, f)
      BY <1>1 DEF True
    <2>2. QED
      BY <1>1, <1>2, <2>1 DEF EffectInv
  <1>7. QED
    BY <1>3, <1>4, <1>5, <1>6

\* The requests of Clients.
LEMMA CallRequests ==
  ASSUME NEW r \in ClientRequests, NEW k \in Nat
  PROVE  Number(r, k) \in Sent /\ Number(r, k).n = k /\ Number(r, k).op \in CallOps
  <1>1. r \in Requests /\ r.op \in CallOps
    BY RequestsAssumption DEF ClientRequests, CallOps, Writes
  <1>2. QED
    BY <1>1, Numbered

\* What a step of the Client of c changes: its own record and connection.
Own(c) ==
    /\ \E x \in ClientRecord : x.pc # "raw" /\ cl' = [cl EXCEPT ![c] = x]
    /\ h' = h /\ applied' = applied
    /\ \A d \in Conns \ {c} : net'[d] = net[d]

\* A Client dials, or closes its connection.
LEMMA DialCloseStep ==
  ASSUME ServerInd, ClientTypeOK, NEW c \in Conns, ConnInv(c), ClientDial(c) \/ ClientClose(c)
  PROVE  ConnInv(c)' /\ Own(c) /\ PeerMove(c)
  <1> USE DEF ServerInd, ServerTypeOK
  <1>1. PICK pc \in {"idle", "closed"} : cl' = [cl EXCEPT ![c].pc = pc]
    BY DEF ClientDial, ClientClose
  <1>2. PICK x : x = [cl[c] EXCEPT !.pc = pc]
    OBVIOUS
  <1>3. /\ x \in ClientRecord /\ x.pc = pc /\ x.call = cl[c].call /\ x.res = cl[c].res
        /\ x.bad = cl[c].bad
    BY <1>2 DEF ClientTypeOK, ClientRecord
  <1>4. cl' = [cl EXCEPT ![c] = x] /\ cl'[c] = x
    BY <1>1, <1>2 DEF ClientTypeOK
  <1>5. CASE ClientDial(c)
    <2>1. net'[c] = [net[c] EXCEPT !.state = "backlog", !.peer = TRUE, !.srv = TRUE]
      BY <1>5 DEF ClientDial, Dial, NetTypeOK
    <2>2. net'[c].in = net[c].in /\ net'[c].out = net[c].out /\ net'[c].peer
      BY <2>1 DEF NetTypeOK
    <2>3. /\ cl[c].pc = "none" /\ pc = "idle" /\ Dial(c)
          /\ h' = h /\ applied' = applied /\ \A d \in Conns \ {c} : net'[d] = net[d]
      <3>1. cl'[c].pc = "idle"
        BY <1>5 DEF ClientDial, ClientTypeOK, ClientRecord
      <3>2. QED
        BY <1>3, <1>4, <1>5, <3>1 DEF ClientDial, Dial, NetTypeOK
    <2>4. ConnInv(c)'
      BY <1>3, <1>4, <2>2, <2>3, DialConn
    <2>5. QED
      BY <1>3, <1>4, <2>3, <2>4 DEF Own, PeerMove, Dial
  <1>6. CASE ClientClose(c)
    <2>1. net'[c] = [net[c] EXCEPT !.peer = FALSE, !.out = <<>>]
      BY <1>6 DEF ClientClose, Hangup, NetTypeOK
    <2>2. net'[c].in = net[c].in /\ net'[c].out = <<>> /\ net'[c].state = net[c].state
      BY <2>1 DEF NetTypeOK
    <2>3. /\ cl[c].pc = "idle" /\ pc = "closed" /\ Hangup(c)
          /\ h' = h /\ applied' = applied /\ \A d \in Conns \ {c} : net'[d] = net[d]
      <3>1. cl'[c].pc = "closed"
        BY <1>6 DEF ClientClose, ClientTypeOK, ClientRecord
      <3>2. QED
        BY <1>3, <1>4, <1>6, <3>1 DEF ClientClose, Hangup, NetTypeOK
    <2>4. ConnInv(c)'
      BY <1>3, <1>4, <2>2, <2>3, CloseConnOf
    <2>5. QED
      BY <1>3, <1>4, <2>3, <2>4 DEF Own, PeerMove, Hangup
  <1>7. QED
    BY <1>5, <1>6

\* A Client whose connection is in a known state makes a call.
LEMMA CallStep ==
  ASSUME ServerInd, ClientTypeOK, NEW c \in Conns, ConnInv(c), ~cl[c].bad,
         NEW r \in ClientRequests, Call(c, r) \/ CallFails(c, r)
  PROVE  ConnInv(c)' /\ Own(c) /\ PeerMove(c)
  <1> USE DEF ServerInd, ServerTypeOK
  <1>1. PICK k \in Nat : k = Current(c) + 1
    BY CurrentType
  <1>2. PICK q \in Sent : q = Number(r, k) /\ q.n = k /\ q.op \in CallOps
    BY CallRequests
  <1>3. /\ cl[c].pc = "idle" /\ ~cl[c].bad
        /\ UNCHANGED <<engineVars, lifeVars, sem, h, stream>>
        /\ net[c].in \in Seq(Sent)
    BY DEF Call, CallFails, MayCall, NetTypeOK
  <1>4. /\ <<>> \in Seq(Data)
        /\ NoResult \in [kind : Kinds, st : Statuses \cup {"none"}, from : Nat]
    BY EmptySeq DEF NoResult, Kinds
  <1>5. ASSUME NEW e \in Sent, NEW x \in ClientRecord, cl' = [cl EXCEPT ![c] = x], x.call = q,
               x.pc # "raw",
               net' = [net EXCEPT ![c].in = Append(@, e)] \/ net' = net,
               \/ x.pc = "wait" /\ x.res = NoResult /\ ~x.bad /\ e = q
               \/ /\ x.pc = "idle" /\ x.bad
                  /\ x.res.kind = "eof" /\ x.res.st = "none" /\ e.op = "garbage"
        PROVE  ConnInv(c)' /\ Own(c) /\ PeerMove(c)
    <2>1. Append(net[c].in, e) \in Seq(Sent)
      BY <1>3, AppendProperties
    <2>2. /\ net'[c].in \in {net[c].in, Append(net[c].in, e)}
          /\ net'[c].out = net[c].out /\ net'[c].state = net[c].state
          /\ net'[c].peer = net[c].peer /\ \A d \in Conns \ {c} : net'[d] = net[d]
      BY <1>5, <2>1, InEffect
    <2>3. cl'[c] = x
      BY <1>5 DEF ClientTypeOK
    <2>4. ConnInv(c)'
      BY <1>1, <1>2, <1>3, <1>5, <2>2, <2>3, NewCall
    <2>5. PeerMove(c)
      BY <1>3, <1>5 DEF PeerMove
    <2>6. QED
      BY <1>3, <1>5, <2>2, <2>4, <2>5 DEF Own
  <1>6. CASE Call(c, r)
    <2>1. PICK x : x = [cl[c] EXCEPT !.pc = "wait", !.call = q, !.res = NoResult,
                                     !.got = <<>>, !.snap = <<>>]
      OBVIOUS
    <2>2. cl[c] \in ClientRecord
      BY DEF ClientTypeOK
    <2>3. x \in ClientRecord /\ x.pc = "wait" /\ x.call = q /\ x.res = NoResult /\ x.bad = cl[c].bad
      BY <1>4, <2>1, <2>2 DEF ClientRecord
    <2>4. cl' = [cl EXCEPT ![c] = x]
      BY <1>1, <1>2, <1>6, <2>1 DEF Call, ClientTypeOK, Current
    <2>5. net' = [net EXCEPT ![c].in = Append(@, q)] \/ net' = net
      BY <1>1, <1>2, <1>6 DEF Call, Current, NetTypeOK
    <2>6. QED
      BY <1>3, <1>5, <2>3, <2>4, <2>5
  <1>7. CASE CallFails(c, r)
    <2>1. PICK e \in Sent : e = [op |-> "garbage", n |-> k] /\ e.op = "garbage"
      <3>1. [op |-> "garbage", n |-> k] \in [op : {"garbage"}, n : Nat]
        OBVIOUS
      <3>2. [op |-> "garbage", n |-> k] \in Sent
        BY <3>1 DEF Sent
      <3>3. QED
        BY <3>2
    <2>2. PICK y : y = Return(c, "eof", "none", 0)
      OBVIOUS
    <2>3. /\ y \in ClientRecord /\ y.pc = "idle" /\ y.bad
          /\ y.res.kind = "eof" /\ y.res.st = "none"
      <3>1. "eof" \in Kinds /\ "eof" \in Broken
        BY DEF Kinds, Broken
      <3>2. /\ y \in ClientRecord /\ y.pc = "idle" /\ y.call = cl[c].call
            /\ y.bad = (cl[c].bad \/ "eof" \in Broken)
            /\ y.res.kind = "eof" /\ y.res.st = "none"
        BY <2>2, <3>1, Returned
      <3>3. y.bad
        BY <3>1, <3>2
      <3>4. QED
        BY <3>2, <3>3
    <2>4. PICK x : x = [y EXCEPT !.call = q]
      OBVIOUS
    <2>5. /\ x \in ClientRecord /\ x.pc = "idle" /\ x.bad /\ x.call = q
          /\ x.res.kind = "eof" /\ x.res.st = "none"
      BY <2>3, <2>4 DEF ClientRecord
    <2>6. cl' = [cl EXCEPT ![c] = x]
      BY <1>1, <1>2, <1>7, <2>2, <2>4 DEF CallFails, Current
    <2>7. net' = [net EXCEPT ![c].in = Append(@, e)] \/ net' = net
      <3>1. PICK part \in BOOLEAN :
              net' = [net EXCEPT ![c].in = IF part /\ net[c].srv THEN Append(@, e) ELSE @]
        BY <1>1, <1>7, <2>1 DEF CallFails, Current
      <3>2. CASE part /\ net[c].srv
        BY <3>1, <3>2
      <3>3. CASE ~(part /\ net[c].srv)
        BY <3>1, <3>3 DEF NetTypeOK
      <3>4. QED
        BY <3>2, <3>3
    <2>8. QED
      BY <1>5, <2>1, <2>5, <2>6, <2>7
  <1>8. QED
    BY <1>6, <1>7

\* A call reads a frame, or is given up.
LEMMA ReadStep ==
  ASSUME ServerInd, ClientTypeOK, NEW c \in Conns, ConnInv(c),
         Read(c) \/ Timeout(c) \/ ReadFails(c)
  PROVE  ConnInv(c)' /\ Own(c) /\ PeerMove(c)
  <1> USE DEF ServerInd, ServerTypeOK
  <1>1. cl[c].pc = "wait" /\ cl[c] \in ClientRecord /\ net[c].out \in Seq(Frames)
    BY DEF Read, Timeout, ReadFails, ClientTypeOK, NetTypeOK
  <1>2. UNCHANGED <<engineVars, lifeVars, sem, h, stream>>
    BY DEF Read, Receive, Timeout, ReadFails, serverVars
  <1>3. CASE Timeout(c) \/ ReadFails(c)
    <2>1. PICK kind \in {"timeout", "eof"} : cl' = [cl EXCEPT ![c] = Return(c, kind, "none", 0)]
      BY <1>3 DEF Timeout, ReadFails
    <2>2. PICK x : x = Return(c, kind, "none", 0)
      OBVIOUS
    <2>3. /\ x \in ClientRecord /\ x.pc = "idle" /\ x.bad /\ x.call = cl[c].call
          /\ x.res.kind = kind /\ x.res.st = "none"
      <3>1. kind \in Kinds /\ kind \in Broken
        BY DEF Kinds, Broken
      <3>2. /\ x \in ClientRecord /\ x.pc = "idle" /\ x.call = cl[c].call
            /\ x.bad = (cl[c].bad \/ kind \in Broken)
            /\ x.res.kind = kind /\ x.res.st = "none"
        BY <2>2, <3>1, Returned
      <3>3. x.bad
        BY <3>1, <3>2
      <3>4. QED
        BY <3>2, <3>3
    <2>4. cl' = [cl EXCEPT ![c] = x] /\ cl'[c] = x /\ net' = net
      BY <1>3, <2>1, <2>2 DEF ClientTypeOK, Timeout, ReadFails, serverVars
    <2>5. ConnInv(c)'
      BY <1>1, <1>2, <2>3, <2>4, GiveUpConn
    <2>6. QED
      BY <1>2, <2>3, <2>4, <2>5 DEF Own, PeerMove
  <1>4. CASE Read(c)
    <2>1. net[c].out # <<>> /\ Head(net[c].out) # Torn /\ Receive(c)
      BY <1>4, ZenonT(30) DEF Read, Receive
    <2>2. PICK f \in Frames : f = Head(net[c].out)
      BY <1>1, <2>1, Taken
    <2>3. Tail(net[c].out) \in Seq(Frames)
      BY <1>1, <2>1, HeadTailProperties
    <2>4. /\ net'[c].out = Tail(net[c].out) /\ net'[c].in = net[c].in
          /\ net'[c].state = net[c].state /\ net'[c].peer = net[c].peer
          /\ \A d \in Conns \ {c} : net'[d] = net[d]
      BY <2>1, <2>3, OutEffect DEF Receive
    <2>5. f.data \in Seq(Data) /\ f.n \in Nat /\ f.st \in Statuses /\ <<>> \in Seq(Data)
      BY EmptySeq DEF Frames
    <2>6. PICK o : o = Outcome(cl[c].call.op, f)
      OBVIOUS
    <2>7. /\ o \in {"nil", "notfound", "remote", "protocol", "more"}
          /\ o = "more" => ~Final(f)
      <3>1. cl[c].call.op \in CallOps
        BY <1>1 DEF ConnInv, CallInv
      <3>2. QED
        BY <2>6, <3>1, Outcomes
    <2>8. SUFFICES ASSUME TRUE
                   PROVE  ConnInv(c)' /\ \E x \in ClientRecord : x.pc # "raw" /\ cl' = [cl EXCEPT ![c] = x]
      BY <1>2, <2>1, <2>4 DEF Own, PeerMove
    <2>9. ASSUME NEW page \in Seq(Data), o = "more", cl' = [cl EXCEPT ![c].got = @ \o page]
          PROVE  ConnInv(c)' /\ \E x \in ClientRecord : x.pc # "raw" /\ cl' = [cl EXCEPT ![c] = x]
      <3>1. PICK g \in Seq(Data) : g = cl[c].got \o page
        BY <1>1, ConcatProperties DEF ClientRecord
      <3>2. PICK x : x = [cl[c] EXCEPT !.got = g]
        OBVIOUS
      <3>3. /\ x \in ClientRecord /\ x.pc = cl[c].pc /\ x.call = cl[c].call
            /\ x.res = cl[c].res /\ x.bad = cl[c].bad
        BY <1>1, <3>2 DEF ClientRecord
      <3>4. cl' = [cl EXCEPT ![c] = x] /\ cl'[c] = x
        BY <2>9, <3>1, <3>2 DEF ClientTypeOK
      <3>5. ConnInv(c)'
        BY <1>1, <1>2, <2>1, <2>2, <2>4, <2>7, <2>9, <3>3, <3>4, PageConn
      <3>6. QED
        BY <1>1, <3>3, <3>4, <3>5
    <2>10. ASSUME o = "more", cl' = [cl EXCEPT ![c] = Return(c, "stopped", "none", f.n)]
           PROVE  ConnInv(c)' /\ \E x \in ClientRecord : x.pc # "raw" /\ cl' = [cl EXCEPT ![c] = x]
      <3>1. PICK x : x = Return(c, "stopped", "none", f.n)
        OBVIOUS
      <3>2. /\ x \in ClientRecord /\ x.pc = "idle" /\ x.bad /\ x.call = cl[c].call
            /\ x.res.kind = "stopped" /\ x.res.st = "none"
        <4>1. "stopped" \in Kinds /\ "stopped" \in Broken
          BY DEF Kinds, Broken
        <4>2. /\ x \in ClientRecord /\ x.pc = "idle" /\ x.call = cl[c].call
              /\ x.bad = (cl[c].bad \/ "stopped" \in Broken)
              /\ x.res.kind = "stopped" /\ x.res.st = "none"
          <5>1. PICK k \in Nat : k = f.n
            BY <2>5
          <5>2. x = Return(c, "stopped", "none", k)
            BY <3>1, <5>1
          <5>3. QED
            BY <4>1, <5>2, Returned
        <4>3. x.bad
          BY <4>1, <4>2
        <4>4. QED
          BY <4>2, <4>3
      <3>3. cl' = [cl EXCEPT ![c] = x] /\ cl'[c] = x
        BY <2>10, <3>1 DEF ClientTypeOK
      <3>4. ConnInv(c)'
        BY <1>1, <1>2, <2>1, <2>2, <2>4, <2>7, <2>10, <3>2, <3>3, GiveUpConn
      <3>5. QED
        BY <3>2, <3>3, <3>4
    <2>11. ASSUME NEW sn \in Seq(Data), o # "more",
                  cl' = [cl EXCEPT ![c] = [Return(c, o, f.st, f.n) EXCEPT !.snap = sn]]
           PROVE  ConnInv(c)' /\ \E x \in ClientRecord : x.pc # "raw" /\ cl' = [cl EXCEPT ![c] = x]
      <3>1. PICK y : y = Return(c, o, f.st, f.n)
        OBVIOUS
      <3>2. /\ y \in ClientRecord /\ y.pc = "idle" /\ y.call = cl[c].call
            /\ y.bad = (cl[c].bad \/ o \in Broken)
            /\ y.res.kind = o /\ y.res.st = f.st /\ y.res.from = f.n
        BY <2>5, <2>7, <2>11, <3>1, Returned DEF Kinds, Broken
      <3>3. PICK x : x = [y EXCEPT !.snap = sn]
        OBVIOUS
      <3>4. /\ x \in ClientRecord /\ x.pc = "idle" /\ x.call = y.call
            /\ x.bad = y.bad /\ x.res = y.res
        BY <3>2, <3>3 DEF ClientRecord
      <3>5. cl' = [cl EXCEPT ![c] = x] /\ cl'[c] = x
        BY <2>11, <3>1, <3>3 DEF ClientTypeOK
      <3>6. /\ cl'[c].pc = "idle" /\ cl'[c].call = cl[c].call
            /\ cl'[c].bad = (cl[c].bad \/ o \in Broken)
            /\ cl'[c].res.kind = o /\ cl'[c].res.st = f.st /\ cl'[c].res.from = f.n
        BY <3>2, <3>4, <3>5
      <3>7. ConnInv(c)'
        <4>1. h'[c] = h[c] /\ applied' = applied
          BY <1>2
        <4>2. f # Torn /\ o # "more"
          BY <2>1, <2>2, <2>11
        <4>3. QED
          BY <1>1, <2>1, <2>2, <2>4, <2>6, <3>6, <4>1, <4>2, LastConn
      <3>8. QED
        BY <3>4, <3>5, <3>7
    <2>12. PICK page \in Seq(Data) : page = IF f.body = "page" THEN f.data ELSE <<>>
      BY <2>5
    <2>13. PICK sn \in Seq(Data) : sn = IF f.body = "end" THEN f.data ELSE <<>>
      BY <2>5
    <2>14. \/ o = "more" /\ cl' = [cl EXCEPT ![c].got = @ \o page]
           \/ o = "more" /\ cl' = [cl EXCEPT ![c] = Return(c, "stopped", "none", f.n)]
           \/ o # "more" /\ cl' = [cl EXCEPT ![c] = [Return(c, o, f.st, f.n) EXCEPT !.snap = sn]]
      BY <1>4, <2>2, <2>6, <2>12, <2>13, ZenonT(30) DEF Read
    <2>15. QED
      BY <2>9, <2>10, <2>11, <2>14
  <1>5. QED
    BY <1>3, <1>4
----------------------------------------------------------------------------
(* The inductive invariant.                                                *)

\* A step of one Client takes nothing from the others.
LEMMA OwnStep ==
  ASSUME ServerInd, ClientInd, NEW c \in Conns, cl[c].pc # "raw",
         ConnInv(c)', Own(c), PeerMove(c)
  PROVE  ClientInd' /\ ServerInd'
  <1>1. ClientTypeOK
    BY DEF ClientInd
  <1>2. PICK x \in ClientRecord : x.pc # "raw" /\ cl' = [cl EXCEPT ![c] = x]
    BY DEF Own
  <1>3. ClientTypeOK'
    BY <1>1, <1>2 DEF ClientTypeOK
  <1>4. cl'[c].pc # "raw" /\ \A d \in Conns \ {c} : cl'[d] = cl[d]
    BY <1>1, <1>2 DEF ClientTypeOK
  <1>5. ASSUME NEW d \in Conns \ {c}, cl[d].pc # "raw" PROVE ConnInv(d)'
    <2>1. Same(d)
      BY <1>4 DEF Own, Same
    <2>2. QED
      BY <1>5, <2>1, SameConn DEF ClientInd
  <1>6. ClientInd'
    BY <1>3, <1>4, <1>5 DEF ClientInd
  <1>7. QED
    BY <1>6, PeerStep

\* Every step of a Client whose caller stops at a transport error.
LEMMA ClientConn ==
  ASSUME ~Reuse, ServerInd, ClientInd, NEW c \in Conns, ClientStep(c)
  PROVE  ClientInd' /\ ServerInd'
  <1>1. ClientTypeOK /\ cl[c].pc # "raw" /\ ConnInv(c)
    <2>1. cl[c].pc \in {"none", "idle", "wait"}
      BY ZenonT(30) DEF ClientStep, ClientDial, Call, CallFails, MayCall, Read, Timeout, ReadFails, ClientClose
    <2>2. QED
      BY <2>1 DEF ClientInd
  <1>2. ASSUME NEW r \in ClientRequests, Call(c, r) \/ CallFails(c, r) PROVE ~cl[c].bad
    BY <1>2 DEF Call, CallFails, MayCall
  <1>3. ConnInv(c)' /\ Own(c) /\ PeerMove(c)
    BY <1>1, <1>2, DialCloseStep, CallStep, ReadStep DEF ClientStep
  <1>4. QED
    BY <1>1, <1>3, OwnStep

\* A peer that is no Client.
LEMMA RawConn ==
  ASSUME ServerInd, ClientInd, NEW c \in Conns, RawPeer(c)
  PROVE  ClientInd' /\ ServerInd'
  <1>1. PeerMove(c) /\ cl[c].pc = "raw" /\ UNCHANGED cl
    BY PeerMoves DEF RawPeer
  <1>2. UNCHANGED <<h, applied>> /\ \A d \in Conns \ {c} : net'[d] = net[d]
    BY <1>1 DEF PeerMove, Dial, Receive, Hangup, ServerInd, ServerTypeOK, NetTypeOK
  <1>3. ASSUME NEW d \in Conns, cl[d].pc # "raw" PROVE ConnInv(d)'
    <2>1. Same(d)
      BY <1>1, <1>2, <1>3 DEF Same
    <2>2. QED
      BY <1>3, <2>1, SameConn DEF ClientInd
  <1>4. ClientInd'
    BY <1>1, <1>3 DEF ClientInd, ClientTypeOK
  <1>5. QED
    BY <1>1, <1>4, PeerStep

\* Nobody has called yet.
LEMMA ClientInit ==
  ASSUME CInit
  PROVE  ServerInd /\ ClientInd
  <1>1. ServerInd
    BY ServerInit DEF CInit
  <1>2. ASSUME NEW c \in Conns
        PROVE  /\ cl[c] \in ClientRecord /\ cl[c].pc \in {"none", "raw"} /\ ~cl[c].bad
               /\ cl[c].call = NoRequest /\ cl[c].res = NoResult
    <2>1. PICK pc \in {"none", "raw"} : cl[c] = NewClient(pc)
      BY DEF CInit
    <2>2. /\ <<>> \in Seq(Data)
          /\ NoResult \in [kind : Kinds, st : Statuses \cup {"none"}, from : Nat]
      BY EmptySeq DEF NoResult, Kinds
    <2>3. QED
      BY <2>1, <2>2 DEF NewClient, ClientRecord
  <1>3. ClientTypeOK
    BY <1>2 DEF ClientTypeOK, CInit
  <1>4. ASSUME NEW c \in Conns, cl[c].pc = "none" PROVE ConnInv(c)
    <2>1. /\ net[c].in = <<>> /\ net[c].out = <<>> /\ net[c].state = "none"
          /\ h[c].pc = "none" /\ applied = {}
      BY DEF CInit, Init
    <2>2. Current(c) = 0 /\ ~Did(c) /\ ~Queued(c) /\ ~AtWork(c) /\ ~Leaving(c)
      BY <1>2, <2>1 DEF Current, Did, Queued, AtWork, Leaving, NoRequest
    <2>3. DOMAIN net[c].out = {}
      BY <2>1
    <2>4. CallInv(c) /\ RequestInv(c) /\ ReplyInv(c)
      BY <1>2, <1>4, <2>1, <2>2 DEF CallInv, RequestInv, ReplyInv
    <2>5. FrameInv(c) /\ EffectInv(c)
      BY <1>4, <2>1, <2>2, <2>3 DEF FrameInv, EffectInv
    <2>6. ResultInv(c)
      BY <1>2 DEF ResultInv, NoResult
    <2>7. QED
      BY <2>4, <2>5, <2>6 DEF ConnInv
  <1>5. QED
    BY <1>1, <1>2, <1>3, <1>4 DEF ClientInd

\* Every step of the Clients, of other peers and of the server.
LEMMA ClientPreserves ==
  ASSUME ~Reuse, ServerInd, ClientInd, [CNext]_cvars
  PROVE  ServerInd' /\ ClientInd'
  <1>1. CASE main # "exited" /\ ServerNext /\ UNCHANGED cl
    BY <1>1, ServerStep, ServerConn
  <1>2. ASSUME NEW c \in Conns, ClientStep(c) \/ RawPeer(c) PROVE ServerInd' /\ ClientInd'
    BY <1>2, ClientConn, RawConn
  <1>3. CASE UNCHANGED cvars
    <2>1. UNCHANGED serverVars /\ UNCHANGED cl
      BY <1>3 DEF cvars
    <2>2. ServerInd'
      BY <2>1, ServerPreserves
    <2>3. \A c \in Conns : Same(c)
      BY <2>1 DEF serverVars, Same
    <2>4. ClientInd'
      BY <2>1, <2>3, SameConn DEF ClientInd, ClientTypeOK
    <2>5. QED
      BY <2>2, <2>4
  <1>4. QED
    BY <1>1, <1>2, <1>3 DEF CNext

\* The invariant says what the properties of Client say.
LEMMA ClientSafe ==
  ASSUME ClientInd
  PROVE  CallsAnsweredTruly /\ AnswersAreOwn
  <1>1. ASSUME NEW c \in Conns, cl[c].pc = "raw"
        PROVE  cl[c].res.kind = "none" /\ cl[c].res.st = "none"
    BY <1>1 DEF ClientInd, NoResult
  <1>2. \A c \in Conns : cl[c].pc # "raw" => ResultInv(c)
    BY DEF ClientInd, ConnInv
  <1>3. CallsAnsweredTruly
    BY <1>1, <1>2 DEF CallsAnsweredTruly, ResultInv, Did, Current
  <1>4. AnswersAreOwn
    BY <1>1, <1>2 DEF AnswersAreOwn, ResultInv, Current
  <1>5. QED
    BY <1>3, <1>4

\* client.go against server.go, over connections that break and deadlines
\* that expire: where a call can be, and what the Client, the network and the
\* handler know of it, for callers that close their Client after a transport
\* error, beside any peers that are no Clients.
THEOREM ClientInvariance ==
  ASSUME ~Reuse
  PROVE  CSpec => [](ServerInd /\ ClientInd)
  <1>1. CInit => ServerInd /\ ClientInd
    BY ClientInit
  <1>2. ServerInd /\ ClientInd /\ [CNext]_cvars => (ServerInd /\ ClientInd)'
    BY ClientPreserves
  <1>3. QED
    BY <1>1, <1>2, PTL DEF CSpec

\* nil of Put, Delete and Batch means that the write took effect; BAD_REQUEST,
\* CLOSED and OVERLOAD mean that it did not and never will.
THEOREM CallsNeverLie ==
  ASSUME ~Reuse
  PROVE  CSpec => []CallsAnsweredTruly
  <1>1. ServerInd /\ ClientInd => CallsAnsweredTruly
    BY ClientSafe
  <1>2. QED
    BY <1>1, ClientInvariance, PTL

\* A call returns the answer to its own request, or the farewell of a server
\* that drains: no answer of an earlier call is taken for it.
THEOREM AnswersNeverMixed ==
  ASSUME ~Reuse
  PROVE  CSpec => []AnswersAreOwn
  <1>1. ServerInd /\ ClientInd => AnswersAreOwn
    BY ClientSafe
  <1>2. QED
    BY <1>1, ClientInvariance, PTL
=============================================================================
