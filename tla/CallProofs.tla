----------------------------- MODULE CallProofs ------------------------------
(***************************************************************************)
(* Proofs, for every value of the constants, of two more promises of a     *)
(* call, beside the invariants of ServerProofs and ClientProofs.           *)
(*                                                                         *)
(* A range stream loses nothing and gives nothing twice: StreamInd is      *)
(* inductive, and with it nil of ReadKeyRange means the whole range.       *)
(*                                                                         *)
(* A drain without a deadline, over a network that works, cuts off no call *)
(* whose write took effect: DrainInd is inductive.                         *)
(***************************************************************************)
EXTENDS ClientProofs

USE DEF engineVars, lifeVars, HandlerRecord, StreamRecord, NetRecord

\* A sequence without elements.
LEMMA NoneThere ==
  ASSUME NEW S, NEW s \in Seq(S), DOMAIN s = {}
  PROVE  s = <<>> /\ Len(s) = 0
  <1>1. DOMAIN s = 1 .. Len(s)
    BY LenProperties
  <1>2. PICK k \in Nat : k = Len(s)
    BY LenProperties
  <1>3. k # 0 => 1 \in 1 .. k
    OBVIOUS
  <1>4. Len(s) = 0
    BY <1>1, <1>2, <1>3
  <1>5. QED
    BY <1>4, EmptySeq

----------------------------------------------------------------------------
(* Pieces of a sequence.                                                   *)

\* A piece grows by the element that follows it.
LEMMA PieceGrows ==
  ASSUME NEW w \in Seq(Data), NEW s \in Seq(Data), NEW t \in Seq(Data), NEW k \in Nat,
         Piece(s, w, k), Piece(t, w, k + Len(s)), t # <<>>
  PROVE  /\ Piece(Append(s, Head(t)), w, k)
         /\ Piece(Tail(t), w, k + Len(Append(s, Head(t))))
         /\ Len(Append(s, Head(t))) = Len(s) + 1 /\ Len(Tail(t)) = Len(t) - 1
         /\ Append(s, Head(t)) \in Seq(Data) /\ Tail(t) \in Seq(Data)
  <1>1. /\ Len(t) \in Nat /\ Len(Tail(t)) = Len(t) - 1 /\ Tail(t) \in Seq(Data)
        /\ 1 \in DOMAIN t /\ Head(t) = t[1] /\ Head(t) \in Data /\ DOMAIN t = 1 .. Len(t)
        /\ \A i \in DOMAIN Tail(t) : i \in Nat /\ i + 1 \in DOMAIN t /\ Tail(t)[i] = t[i + 1]
    BY Taken
  <1>2. PICK a \in Seq(Data) : a = Append(s, Head(t))
    BY <1>1, Appended
  <1>3. /\ Len(s) \in Nat /\ Len(a) = Len(s) + 1 /\ a[Len(s) + 1] = Head(t)
        /\ \A i \in DOMAIN a : (i \in DOMAIN s /\ a[i] = s[i]) \/ i = Len(s) + 1
    BY <1>1, <1>2, Appended
  <1>4. Len(w) \in Nat
    BY LenProperties
  <1>5. k + Len(a) <= Len(w)
    BY <1>1, <1>3, <1>4 DEF Piece
  <1>6. w[k + (Len(s) + 1)] = Head(t)
    <2>1. PICK m \in Nat : m = k + Len(s)
      BY <1>3
    <2>2. Piece(t, w, m)
      BY <2>1
    <2>3. t[1] = w[m + 1]
      BY <1>1, <2>2, Zenon DEF Piece
    <2>4. m + 1 = k + (Len(s) + 1)
      BY <1>3, <2>1
    <2>5. QED
      BY <1>1, <2>3, <2>4, Zenon
  <1>7. Piece(a, w, k)
    BY <1>3, <1>5, <1>6 DEF Piece
  <1>8. Piece(Tail(t), w, k + Len(a))
    <2>1. (k + Len(a)) + Len(Tail(t)) <= Len(w)
      BY <1>1, <1>3, <1>4 DEF Piece
    <2>2. ASSUME NEW i \in DOMAIN Tail(t) PROVE Tail(t)[i] = w[(k + Len(a)) + i]
      <3>1. i + 1 \in DOMAIN t /\ Tail(t)[i] = t[i + 1] /\ i \in Nat
        BY <1>1
      <3>2. t[i + 1] = w[(k + Len(s)) + (i + 1)]
        BY <3>1 DEF Piece
      <3>3. (k + Len(s)) + (i + 1) = (k + Len(a)) + i
        BY <1>3, <3>1
      <3>4. QED
        BY <3>1, <3>2, <3>3
    <2>3. QED
      BY <2>1, <2>2 DEF Piece
  <1>9. QED
    BY <1>1, <1>2, <1>3, <1>7, <1>8

\* A piece and the one that follows it are a piece.
LEMMA PieceJoined ==
  ASSUME NEW w \in Seq(Data), NEW s \in Seq(Data), NEW t \in Seq(Data), NEW k \in Nat,
         Piece(s, w, k), Piece(t, w, k + Len(s))
  PROVE  /\ Piece(s \o t, w, k) /\ Len(s \o t) = Len(s) + Len(t) /\ s \o t \in Seq(Data)
  <1>1. Len(s) \in Nat /\ Len(t) \in Nat /\ Len(w) \in Nat
    BY LenProperties
  <1>2. PICK a \in Seq(Data) : a = s \o t
    BY ConcatProperties
  <1>3. /\ Len(a) = Len(s) + Len(t) /\ DOMAIN a = 1 .. Len(s) + Len(t)
        /\ DOMAIN s = 1 .. Len(s) /\ DOMAIN t = 1 .. Len(t)
        /\ \A i \in 1 .. Len(s) : a[i] = s[i]
        /\ \A i \in 1 .. Len(t) : a[Len(s) + i] = t[i]
    BY <1>1, <1>2, ConcatProperties, LenProperties
  <1>4. k + Len(a) <= Len(w)
    BY <1>1, <1>3 DEF Piece
  <1>5. ASSUME NEW i \in DOMAIN a PROVE a[i] = w[k + i]
    <2>1. CASE i \in 1 .. Len(s)
      BY <1>3, <2>1 DEF Piece
    <2>2. CASE i \notin 1 .. Len(s)
      <3>1. PICK j \in 1 .. Len(t) : i = Len(s) + j
        <4>1. i - Len(s) \in 1 .. Len(t) /\ i = Len(s) + (i - Len(s))
          BY <1>1, <1>3, <2>2
        <4>2. QED
          BY <4>1
      <3>2. a[i] = t[j] /\ t[j] = w[(k + Len(s)) + j]
        BY <1>3, <3>1 DEF Piece
      <3>3. (k + Len(s)) + j = k + i
        BY <1>1, <3>1
      <3>4. QED
        BY <3>2, <3>3
    <2>3. QED
      BY <2>1, <2>2
  <1>6. QED
    BY <1>2, <1>3, <1>4, <1>5 DEF Piece

\* A piece of full length is the whole sequence.
LEMMA PieceWhole ==
  ASSUME NEW w \in Seq(Data), NEW s \in Seq(Data), Piece(s, w, 0), Len(s) = Len(w)
  PROVE  s = w
  <1>1. \A i \in 1 .. Len(s) : s[i] = w[i]
    <2>1. DOMAIN s = 1 .. Len(s) /\ Len(s) \in Nat
      BY LenProperties
    <2>2. \A i \in 1 .. Len(s) : s[i] = w[0 + i] /\ 0 + i = i
      BY <2>1 DEF Piece
    <2>3. QED
      BY <2>2
  <1>2. QED
    BY <1>1, SeqEqual

----------------------------------------------------------------------------
(* Frames on their way.                                                    *)

\* The frames that count and what pageFn was given stay as they are.
LEMMA SoundKept ==
  ASSUME NEW c \in Conns, NEW k \in Nat, NEW w, NEW m, Sound(c, k, w, m),
         cl'[c].got = cl[c].got, \A i \in 1 .. k : net'[c].out[i] = net[c].out[i]
  PROVE  Sound(c, k, w, m)'
  BY DEF Sound

\* One more page is on its way.
LEMMA SoundGrows ==
  ASSUME NEW c \in Conns, NEW k \in Nat, NEW w \in Seq(Data), NEW m \in Nat, Sound(c, k, w, m),
         cl'[c].got = cl[c].got, \A i \in 1 .. k : net'[c].out[i] = net[c].out[i],
         NEW s \in Seq(Data), net'[c].out[k + 1].data = s, Piece(s, w, m)
  PROVE  Sound(c, k + 1, w, m + Len(s))'
  <1>1. PICK cut \in [0 .. k -> 0 .. Len(w)] :
          /\ cut[0] = Len(cl[c].got) /\ cut[k] = m /\ Piece(cl[c].got, w, 0)
          /\ \A i \in 1 .. k : /\ cut[i] = cut[i - 1] + Len(net[c].out[i].data)
                               /\ Piece(net[c].out[i].data, w, cut[i - 1])
    BY DEF Sound
  <1> DEFINE new == [i \in 0 .. k + 1 |-> IF i = k + 1 THEN m + Len(s) ELSE cut[i]]
  <1>2. Len(s) \in Nat /\ Len(w) \in Nat /\ m + Len(s) <= Len(w)
    BY LenProperties DEF Piece
  <1>3. /\ new \in [0 .. k + 1 -> 0 .. Len(w)] /\ new[k + 1] = m + Len(s)
        /\ \A i \in 0 .. k : new[i] = cut[i]
    BY <1>2
  <1> HIDE DEF new
  <1>4. ASSUME NEW i \in 1 .. k + 1
        PROVE  /\ new[i] = new[i - 1] + Len(net'[c].out[i].data)
               /\ Piece(net'[c].out[i].data, w, new[i - 1])
    <2>1. CASE i = k + 1
      <3>1. i - 1 = k /\ k \in 0 .. k
        BY <2>1
      <3>2. QED
        BY <1>1, <1>3, <2>1, <3>1
    <2>2. CASE i # k + 1
      <3>1. i \in 1 .. k /\ i \in 0 .. k /\ i - 1 \in 0 .. k
        BY <2>2
      <3>2. QED
        BY <1>1, <1>3, <3>1
    <2>3. QED
      BY <2>1, <2>2
  <1>5. new[0] = Len(cl'[c].got) /\ Piece(cl'[c].got, w, 0)
    BY <1>1, <1>3, SMTT(30)
  <1>6. QED
    BY <1>3, <1>4, <1>5 DEF Sound

\* pageFn is given the first page.
LEMMA SoundTaken ==
  ASSUME NEW c \in Conns, NEW k \in Nat \ {0}, NEW w \in Seq(Data), NEW m, Sound(c, k, w, m),
         NEW s \in Seq(Data), net[c].out[1].data = s, cl[c].got \in Seq(Data),
         cl'[c].got = cl[c].got \o s,
         \A i \in 1 .. k - 1 : net'[c].out[i] = net[c].out[i + 1]
  PROVE  Sound(c, k - 1, w, m)'
  <1>1. PICK cut \in [0 .. k -> 0 .. Len(w)] :
          /\ cut[0] = Len(cl[c].got) /\ cut[k] = m /\ Piece(cl[c].got, w, 0)
          /\ \A i \in 1 .. k : /\ cut[i] = cut[i - 1] + Len(net[c].out[i].data)
                               /\ Piece(net[c].out[i].data, w, cut[i - 1])
    BY DEF Sound
  <1> DEFINE new == [i \in 0 .. k - 1 |-> cut[i + 1]]
  <1>2. \A i \in 0 .. k - 1 : i + 1 \in 0 .. k /\ i + 1 \in 1 .. k /\ (i + 1) - 1 = i
    BY SMTT(30)
  <1>3. /\ new \in [0 .. k - 1 -> 0 .. Len(w)]
        /\ \A i \in 0 .. k - 1 : new[i] = cut[i + 1]
    BY <1>2
  <1> HIDE DEF new
  <1>4. cut[1] = cut[0] + Len(s) /\ Piece(s, w, cut[0])
    <2>1. 1 \in 1 .. k /\ 1 - 1 = 0
      OBVIOUS
    <2>2. QED
      BY <1>1, <2>1
  <1>5. new[0] = Len(cl'[c].got) /\ Piece(cl'[c].got, w, 0)
    <2>1. new[0] = cut[1]
      BY <1>3
    <2>2. Len(cl[c].got) \in Nat /\ 0 + Len(cl[c].got) = Len(cl[c].got)
      BY LenProperties
    <2>3. Piece(s, w, 0 + Len(cl[c].got))
      BY <1>1, <1>4, <2>2
    <2>4. Piece(cl[c].got \o s, w, 0) /\ Len(cl[c].got \o s) = Len(cl[c].got) + Len(s)
      BY <1>1, <2>3, PieceJoined, SMTT(30)
    <2>5. QED
      BY <1>1, <1>4, <2>1, <2>4
  <1>6. new[k - 1] = m
    BY <1>1, <1>3
  <1>7. ASSUME NEW i \in 1 .. k - 1
        PROVE  /\ new[i] = new[i - 1] + Len(net'[c].out[i].data)
               /\ Piece(net'[c].out[i].data, w, new[i - 1])
    <2>1. /\ i \in 0 .. k - 1 /\ i - 1 \in 0 .. k - 1 /\ (i - 1) + 1 = i /\ i + 1 \in 1 .. k
          /\ (i + 1) - 1 = i
      OBVIOUS
    <2>2. new[i] = cut[i + 1] /\ new[i - 1] = cut[i]
      BY <1>3, <2>1
    <2>3. /\ cut[i + 1] = cut[i] + Len(net[c].out[i + 1].data)
          /\ Piece(net[c].out[i + 1].data, w, cut[i])
      BY <1>1, <2>1
    <2>4. QED
      BY <2>2, <2>3
  <1>8. QED
    BY <1>3, <1>5, <1>6, <1>7 DEF Sound
----------------------------------------------------------------------------
(* Steps of the server.                                                    *)

\* Nothing happens to the connection, or its Client does not wait.
LEMMA StreamSame ==
  ASSUME NEW c \in Conns, StreamInv(c), cl'[c] = cl[c],
         cl[c].pc # "wait" \/ (Same(c) /\ stream'[c] = stream[c])
  PROVE  StreamInv(c)'
  <1>1. CASE cl[c].pc # "wait"
    BY <1>1 DEF StreamInv
  <1>2. CASE Same(c) /\ stream'[c] = stream[c]
    <2>1. \A k, w, m : Sound(c, k, w, m)' <=> Sound(c, k, w, m)
      BY <1>2 DEF Sound, Same
    <2>2. Queued(c)' = Queued(c)
      BY <1>2 DEF Same, Queued, Ending, Leaving
    <2>3. \A m : Rest(c, m)' <=> Rest(c, m)
      BY <1>2, <2>1 DEF Rest, Same
    <2>4. QED
      BY <1>2, <2>1, <2>2, <2>3 DEF StreamInv, Same
  <1>3. QED
    BY <1>1, <1>2

\* The handler moves, and writes no END.
LEMMA StreamQuiet ==
  ASSUME NEW c \in Conns, StreamInv(c), cl'[c] = cl[c], net[c].out \in Seq(Frames),
         NEW e \in Frames, e.body # "end", net'[c].out \in {net[c].out, Append(net[c].out, e)},
         h'[c].pc \notin {"exec", "scan"},
         h'[c].pc = "reply" => h'[c].resp.body # "end",
         Queued(c)' => Queued(c) /\ net'[c].out = net[c].out
  PROVE  StreamInv(c)'
  <1>1. \A i \in DOMAIN net'[c].out : net'[c].out[i].body = "end" =>
          /\ i \in DOMAIN net[c].out /\ i \in Nat \ {0}
          /\ \A j \in 1 .. i : net'[c].out[j] = net[c].out[j]
    <2>1. DOMAIN net[c].out = 1 .. Len(net[c].out) /\ Len(net[c].out) \in Nat
      BY LenProperties
    <2>2. CASE net'[c].out = net[c].out
      BY <2>1, <2>2
    <2>3. CASE net'[c].out = Append(net[c].out, e)
      <3>1. /\ \A i \in DOMAIN net[c].out : net'[c].out[i] = net[c].out[i]
            /\ net'[c].out[Len(net[c].out) + 1] = e
            /\ \A i \in DOMAIN net'[c].out : i \in DOMAIN net[c].out \/ i = Len(net[c].out) + 1
        BY <2>3, Appended
      <3>2. QED
        BY <2>1, <3>1, SMTT(30)
    <2>4. QED
      BY <2>2, <2>3
  <1>2. ASSUME NEW i \in DOMAIN net'[c].out, net'[c].out[i].body = "end", cl[c].pc = "wait"
        PROVE  Sound(c, i - 1, net[c].out[i].data, Len(net[c].out[i].data))'
    <2>1. PICK w : w = net[c].out[i].data /\ w = net'[c].out[i].data
      <3>1. i \in 1 .. i
        BY <1>1, <1>2
      <3>2. QED
        BY <1>1, <1>2, <3>1
    <2>2. PICK k \in Nat : k = i - 1 /\ \A j \in 1 .. k : j \in 1 .. i
      BY <1>1, <1>2
    <2>3. Sound(c, k, w, Len(w))
      BY <1>1, <1>2, <2>1, <2>2, SMTT(30) DEF StreamInv
    <2>4. Sound(c, k, w, Len(w))'
      BY <1>1, <1>2, <2>2, <2>3, SoundKept
    <2>5. QED
      BY <2>1, <2>2, <2>4
  <1>3. Queued(c)' => net'[c].out = net[c].out /\ Queued(c)
    OBVIOUS
  <1>4. QED
    BY <1>2, <1>3 DEF StreamInv

\* The handler takes the call from the wire.
LEMMA StreamRead ==
  ASSUME ServerInd, NEW c \in Conns, ConnInv(c), StreamInv(c), UNCHANGED cl, ReadRequest(c)
  PROVE  StreamInv(c)'
  <1> USE DEF ServerInd, ServerTypeOK
  <1>1. Queued(c)
    BY DEF ReadRequest, Queued, Ending, Leaving
  <1>2. Tail(net[c].in) \in Seq(Sent) /\ net' = [net EXCEPT ![c].in = Tail(net[c].in)]
    <2>1. net[c].in \in Seq(Sent) /\ net[c].in # <<>>
      BY DEF ReadRequest, NetTypeOK
    <2>2. Tail(net[c].in) \in Seq(Sent)
      BY <2>1, HeadTailProperties
    <2>3. QED
      BY <2>2 DEF ReadRequest
  <1>3. net'[c].out = net[c].out
    BY <1>2, InEffect
  <1>4. CASE cl[c].pc # "wait"
    BY <1>4, StreamSame
  <1>5. CASE cl[c].pc = "wait"
    <2>1. cl'[c].got = <<>> /\ net'[c].out = <<>> /\ DOMAIN net'[c].out = {}
      BY <1>1, <1>3, <1>5 DEF StreamInv
    <2>2. h'[c].pc # "scan" /\ (h'[c].pc = "reply" => h'[c].resp.body # "end")
      <3>1. PICK r : r = Head(net[c].in)
        OBVIOUS
      <3>2. PICK f : f = IF r.op = "malformed" THEN Err("BAD_REQUEST", r.n) ELSE h[c].resp
        OBVIOUS
      <3>3. PICK pc : pc = CASE r.op = "garbage" -> "close"
                             [] r.op = "malformed" -> "reply"
                             [] OTHER -> "exec"
        OBVIOUS
      <3>4. h'[c] = [h[c] EXCEPT !.req = r, !.pc = pc, !.resp = f, !.after = "loop"]
        BY <3>1, <3>2, <3>3 DEF ReadRequest, HandlerTypeOK
      <3>5. h'[c].pc = pc /\ h'[c].resp = f
        BY <3>4 DEF HandlerTypeOK
      <3>6. pc # "scan" /\ (pc = "reply" => r.op = "malformed")
        BY <3>3
      <3>7. QED
        BY <3>2, <3>5, <3>6 DEF Err, Frame
    <2>3. QED
      BY <2>1, <2>2 DEF StreamInv
  <1>6. QED
    BY <1>4, <1>5

\* The handler has an answer in its hands, or a stream to scan.
LEMMA StreamExec ==
  ASSUME ServerInd, NEW c \in Conns, ConnInv(c), StreamInv(c), UNCHANGED cl,
         ExecWrite(c) \/ ExecGet(c) \/ ExecPingStats(c) \/ RangeBegin(c)
  PROVE  StreamInv(c)'
  <1> USE DEF ServerInd, ServerTypeOK
  <1>1. h[c].pc = "exec" /\ net' = net
    BY DEF ExecWrite, ExecGet, ExecPingStats, RangeBegin
  <1>2. \A f : Reply(c, f, "loop") => h'[c].pc = "reply" /\ h'[c].resp = f
    <2>1. ASSUME NEW f, Reply(c, f, "loop") PROVE h'[c].pc = "reply" /\ h'[c].resp = f
      <3>1. h'[c] = [h[c] EXCEPT !.pc = "reply", !.resp = f, !.after = "loop"]
        BY <2>1 DEF Reply, HandlerTypeOK
      <3>2. QED
        BY <3>1 DEF HandlerTypeOK
    <2>2. QED
      BY <2>1
  <1>3. ASSUME NEW f, Reply(c, f, "loop"), f.body # "end" PROVE StreamInv(c)'
    <2>1. h'[c].pc = "reply" /\ h'[c].resp = f
      BY <1>2, <1>3
    <2>2. Queued(c)' => Queued(c)
      BY <1>1 DEF Queued, Ending, Leaving
    <2>3. Torn \in Frames /\ Torn.body # "end" /\ net[c].out \in Seq(Frames)
      <3>1. Torn \in Frames /\ Torn.body # "end"
        BY FrameTypes DEF Torn, Frame
      <3>2. QED
        BY <3>1 DEF NetTypeOK
    <2>4. QED
      BY <1>1, <1>3, <2>1, <2>2, <2>3, StreamQuiet
  <1>4. CASE ExecWrite(c) \/ ExecGet(c) \/ ExecPingStats(c)
    <2>1. \E f : Reply(c, f, "loop") /\ f.body # "end"
      <3>1. \A k : OK(k).body # "end"
        BY DEF OK, Frame
      <3>2. \A st, k : Err(st, k).body # "end"
        BY DEF Err, Frame
      <3>3. \A x, k : Frame("OK", "value", x, k).body # "end" /\ Frame("OK", "count", x, k).body # "end"
        BY DEF Frame
      <3>4. CASE ExecWrite(c)
        BY <3>1, <3>2, <3>4 DEF ExecWrite
      <3>5. CASE ExecGet(c)
        BY <3>2, <3>3, <3>5 DEF ExecGet
      <3>6. CASE ExecPingStats(c)
        BY <3>1, <3>3, <3>6 DEF ExecPingStats
      <3>7. QED
        BY <1>4, <3>4, <3>5, <3>6
    <2>2. QED
      BY <1>3, <2>1
  <1>5. ASSUME NEW st, NEW k, Reply(c, Err(st, k), "loop") PROVE StreamInv(c)'
    <2>1. PICK f : f = Err(st, k)
      OBVIOUS
    <2>2. f.body # "end"
      BY <2>1 DEF Err, Frame
    <2>3. QED
      BY <1>3, <1>5, <2>1, <2>2
  <1>6. ASSUME NEW pairs \in RangeOf(h[c].req), Goto(c, "scan"),
               stream' = [stream EXCEPT ![c] =
                            [NoStream EXCEPT !.todo = pairs, !.snap = pairs, !.held = TRUE]]
        PROVE  StreamInv(c)'
    <2>1. h'[c].pc = "scan"
      BY <1>6, GotoEffect DEF HandlerPcs, AlivePcs
    <2>2. pairs \in Seq(Pairs) /\ pairs \in Seq(Data)
      BY RangeType, SeqMonotonic DEF Data
    <2>3. stream'[c].todo = pairs /\ stream'[c].snap = pairs /\ stream'[c].page = <<>>
      BY <1>6 DEF StreamTypeOK, NoStream
    <2>4. CASE cl[c].pc # "wait"
      BY <2>4, StreamSame
    <2>5. CASE cl[c].pc = "wait"
      <3>1. /\ cl'[c].got = <<>> /\ net'[c].out = <<>> /\ DOMAIN net'[c].out = {}
            /\ Len(net'[c].out) = 0 /\ Len(cl'[c].got) = 0 /\ DOMAIN cl'[c].got = {}
        BY <1>1, <2>5 DEF StreamInv
      <3>2. Len(pairs) \in Nat
        BY <2>2, LenProperties
      <3>3. Sound(c, 0, pairs, 0)'
        <4> DEFINE cut == [i \in 0 .. 0 |-> 0]
        <4>1. cut \in [0 .. 0 -> 0 .. Len(pairs)] /\ cut[0] = 0
          BY <3>2
        <4> HIDE DEF cut
        <4>2. Piece(cl'[c].got, pairs, 0)
          BY <3>1, <3>2 DEF Piece
        <4>3. \A i \in 1 .. 0 : FALSE
          OBVIOUS
        <4>4. QED
          BY <3>1, <4>1, <4>2, <4>3 DEF Sound
      <3>4. Piece(<<>>, pairs, 0) /\ Piece(pairs, pairs, 0 + Len(<<>>)) /\ 0 + Len(<<>>) + Len(pairs) = Len(pairs)
        <4>1. Len(<<>>) = 0 /\ DOMAIN <<>> = {} /\ 0 + Len(<<>>) = 0
          OBVIOUS
        <4>2. DOMAIN pairs = 1 .. Len(pairs)
          BY <2>2, LenProperties
        <4>3. Piece(pairs, pairs, 0)
          BY <3>2, <4>2 DEF Piece
        <4>4. QED
          BY <3>2, <4>1, <4>3 DEF Piece
      <3>5. Rest(c, 0)'
        BY <2>3, <3>1, <3>3, <3>4 DEF Rest
      <3>6. \E m \in 0 .. Len(stream'[c].snap) : Rest(c, m)'
        BY <2>3, <3>2, <3>5
      <3>7. QED
        BY <2>1, <3>1, <3>6 DEF StreamInv
    <2>6. QED
      BY <2>4, <2>5
  <1>7. CASE RangeBegin(c)
    BY <1>5, <1>6, <1>7 DEF RangeBegin
  <1>8. QED
    BY <1>4, <1>7

\* The callback takes the next pair into the page, or meets the cap.
LEMMA StreamPair ==
  ASSUME ServerInd, NEW c \in Conns, StreamInv(c), UNCHANGED cl, ScanPair(c)
  PROVE  StreamInv(c)'
  <1> USE DEF ServerInd, ServerTypeOK
  <1>1. h[c].pc = "scan" /\ h' = h /\ net' = net /\ applied' = applied /\ stream[c].todo # <<>>
    BY DEF ScanPair, ScanOver
  <1>2. CASE cl[c].pc # "wait"
    BY <1>2, StreamSame
  <1>3. CASE cl[c].pc = "wait"
    <2>1. PICK m \in Nat : Rest(c, m) /\ m \in 0 .. Len(stream[c].snap)
      BY <1>1, <1>3 DEF StreamInv
    <2>2. /\ stream[c].page \in Seq(Data) /\ stream[c].todo \in Seq(Data)
          /\ stream[c].snap \in Seq(Data)
      BY SeqMonotonic DEF StreamTypeOK, Data
    <2>3. /\ stream'[c].snap = stream[c].snap
          /\ \/ stream'[c].page = stream[c].page /\ stream'[c].todo = stream[c].todo
             \/ /\ stream'[c].page = Append(stream[c].page, Head(stream[c].todo))
                /\ stream'[c].todo = Tail(stream[c].todo)
      <3>1. stream[c] \in StreamRecord
        BY DEF StreamTypeOK
      <3>2. CASE stream' = [stream EXCEPT ![c].over = TRUE]
        <4>1. stream'[c] = [stream[c] EXCEPT !.over = TRUE]
          BY <3>2 DEF StreamTypeOK
        <4>2. QED
          BY <3>1, <4>1
      <3>3. CASE stream' = [stream EXCEPT ![c].page = Append(@, Head(stream[c].todo)),
                                     ![c].bytes = @ + EntryBytes(Head(stream[c].todo)),
                                     ![c].todo = Tail(@)]
        <4>1. PICK p, b, t : /\ p = Append(stream[c].page, Head(stream[c].todo))
                             /\ b = stream[c].bytes + EntryBytes(Head(stream[c].todo))
                             /\ t = Tail(stream[c].todo)
          OBVIOUS
        <4>2. stream'[c] = [stream[c] EXCEPT !.page = p, !.bytes = b, !.todo = t]
          BY <3>3, <4>1 DEF StreamTypeOK
        <4>3. stream'[c].page = p /\ stream'[c].todo = t /\ stream'[c].snap = stream[c].snap
          BY <3>1, <4>2
        <4>4. QED
          BY <4>1, <4>3
      <3>4. QED
        BY <3>2, <3>3 DEF ScanPair
    <2>4. \A k, w, n : Sound(c, k, w, n)' <=> Sound(c, k, w, n)
      BY <1>1 DEF Sound
    <2>5. Rest(c, m)'
      <3>1. CASE stream'[c].page = stream[c].page /\ stream'[c].todo = stream[c].todo
        BY <1>1, <2>1, <2>3, <2>4, <3>1 DEF Rest
      <3>2. CASE /\ stream'[c].page = Append(stream[c].page, Head(stream[c].todo))
                 /\ stream'[c].todo = Tail(stream[c].todo)
        <4>1. /\ Piece(stream'[c].page, stream[c].snap, m)
              /\ Piece(stream'[c].todo, stream[c].snap, m + Len(stream'[c].page))
              /\ Len(stream'[c].page) = Len(stream[c].page) + 1
              /\ Len(stream'[c].todo) = Len(stream[c].todo) - 1
          <5>1. PICK w \in Seq(Data), p \in Seq(Data), t \in Seq(Data) :
                  w = stream[c].snap /\ p = stream[c].page /\ t = stream[c].todo
            BY <2>2
          <5>2. Piece(p, w, m) /\ Piece(t, w, m + Len(p)) /\ t # <<>>
            BY <1>1, <2>1, <5>1 DEF Rest
          <5>3. /\ Piece(Append(p, Head(t)), w, m)
                /\ Piece(Tail(t), w, m + Len(Append(p, Head(t))))
                /\ Len(Append(p, Head(t))) = Len(p) + 1 /\ Len(Tail(t)) = Len(t) - 1
            BY <5>2, PieceGrows
          <5>4. QED
            BY <3>2, <5>1, <5>3
        <4>2. m + Len(stream'[c].page) + Len(stream'[c].todo) = Len(stream[c].snap)
          <5>1. Len(stream[c].page) \in Nat /\ Len(stream[c].todo) \in Nat
            BY <2>2, LenProperties
          <5>2. m + Len(stream[c].page) + Len(stream[c].todo) = Len(stream[c].snap)
            BY <2>1 DEF Rest
          <5>3. PICK a \in Nat, b \in Nat : a = Len(stream[c].page) /\ b = Len(stream[c].todo)
            BY <5>1
          <5>4. Len(stream'[c].page) = a + 1 /\ Len(stream'[c].todo) = b - 1
            BY <4>1, <5>3
          <5>5. m + (a + 1) + (b - 1) = m + a + b
            OBVIOUS
          <5>6. QED
            BY <5>2, <5>3, <5>4, <5>5
        <4>3. QED
          BY <1>1, <2>1, <2>3, <2>4, <4>1, <4>2 DEF Rest
      <3>3. QED
        BY <2>3, <3>1, <3>2
    <2>6. QED
      BY <1>1, <1>3, <2>1, <2>3, <2>4, <2>5 DEF StreamInv, Queued, Ending, Leaving
  <1>4. QED
    BY <1>2, <1>3

\* A page goes out.
LEMMA StreamFlush ==
  ASSUME ServerInd, NEW c \in Conns, ConnInv(c), StreamInv(c), UNCHANGED cl, Flush(c)
  PROVE  StreamInv(c)'
  <1> USE DEF ServerInd, ServerTypeOK
  <1>1. h[c].pc = "scan" /\ h' = h
    BY DEF Flush, FlushDue
  <1>2. CASE cl[c].pc # "wait"
    BY <1>2, StreamSame
  <1>3. CASE cl[c].pc = "wait"
    <2>1. PICK m \in Nat : Rest(c, m) /\ m \in 0 .. Len(stream[c].snap)
      BY <1>1, <1>3 DEF StreamInv
    <2>2. PICK p \in Seq(Pairs) : p = stream[c].page
      BY DEF StreamTypeOK
    <2>3. /\ p \in Seq(Data) /\ stream[c].todo \in Seq(Data)
          /\ stream[c].snap \in Seq(Data) /\ Len(p) \in Nat
          /\ Len(stream[c].todo) \in Nat /\ Len(stream[c].snap) \in Nat
      BY SeqMonotonic, LenProperties DEF StreamTypeOK, Data
    <2>4. PICK f \in Frames : f = Frame("OK", "page", p, h[c].req.n)
      <3>1. h[c].req \in Sent \cup {NoRequest}
        BY DEF HandlerTypeOK
      <3>2. h[c].req.n \in Nat
        BY <3>1, SentFacts DEF NoRequest
      <3>3. QED
        BY <3>2, FrameTypes
    <2>5. f.data = p /\ f.body = "page" /\ Written(c, f)
      BY <2>2, <2>4 DEF Flush, Frame
    <2>6. net[c].peer
      BY <1>3 DEF ConnInv, CallInv
    <2>7. net[c].out \in Seq(Frames) /\ net'[c].out = Append(net[c].out, f) /\ net'[c].in = net[c].in
      BY <2>5, <2>6, WrittenEffect DEF NetTypeOK
    <2>8. PICK k \in Nat : k = Len(net[c].out)
      BY <2>7, LenProperties
    <2>9. /\ Len(net'[c].out) = k + 1 /\ DOMAIN net[c].out = 1 .. k
          /\ \A i \in 1 .. k : net'[c].out[i] = net[c].out[i]
          /\ net'[c].out[k + 1] = f
          /\ \A i \in DOMAIN net'[c].out : i \in 1 .. k \/ i = k + 1
      BY <2>7, <2>8, Appended
    <2>10. /\ stream'[c].page = <<>> /\ stream'[c].todo = stream[c].todo
           /\ stream'[c].snap = stream[c].snap
      <3>1. PICK b : b = stream[c].sent + BodyBytes(stream[c].page)
        OBVIOUS
      <3>2. stream'[c] = [stream[c] EXCEPT !.sent = b, !.page = <<>>, !.bytes = 0]
        BY <3>1 DEF Flush, StreamTypeOK
      <3>3. stream[c] \in StreamRecord
        BY DEF StreamTypeOK
      <3>4. QED
        BY <3>2, <3>3
    <2>11. PICK w \in Seq(Data) : w = stream[c].snap
      BY <2>3
    <2>12. /\ Sound(c, k, w, m) /\ Piece(p, w, m) /\ Piece(stream[c].todo, w, m + Len(p))
           /\ m + Len(p) + Len(stream[c].todo) = Len(w)
      BY <2>1, <2>2, <2>8, <2>11 DEF Rest
    <2>13. PICK n \in Nat : n = m + Len(p) /\ n <= Len(w)
      <3>1. PICK a \in Nat, b \in Nat : a = Len(p) /\ b = Len(stream[c].todo)
        BY <2>3
      <3>2. m + a + b = Len(w)
        BY <2>12, <3>1
      <3>3. m + a \in Nat /\ m + a <= Len(w)
        BY <3>2
      <3>4. QED
        BY <3>1, <3>3
    <2>14. Sound(c, k + 1, w, n)'
      <3>1. net'[c].out[k + 1].data = p
        BY <2>5, <2>9
      <3>2. Sound(c, k + 1, w, m + Len(p))'
        BY <2>3, <2>9, <2>12, <3>1, SoundGrows
      <3>3. QED
        BY <2>13, <3>2
    <2>15. Rest(c, n)'
      <3>1. Len(<<>>) = 0 /\ DOMAIN <<>> = {} /\ n + Len(<<>>) = n
        OBVIOUS
      <3>2. Piece(<<>>, w, n) /\ Piece(stream[c].todo, w, n + Len(<<>>))
        BY <2>12, <2>13, <3>1 DEF Piece
      <3>3. n + Len(<<>>) + Len(stream[c].todo) = Len(w)
        BY <2>12, <2>13, <3>1
      <3>4. QED
        BY <2>9, <2>10, <2>11, <2>14, <3>2, <3>3 DEF Rest
    <2>16. \E x \in 0 .. Len(stream'[c].snap) : Rest(c, x)'
      BY <2>3, <2>10, <2>11, <2>13, <2>15
    <2>17. ASSUME NEW i \in DOMAIN net'[c].out PROVE net'[c].out[i].body # "end"
      <3>1. \A j \in 1 .. k : net[c].out[j].body # "end"
        <4>1. AtWork(c) /\ ~Leaving(c)
          BY <1>1 DEF AtWork, Leaving
        <4>2. ~Answered(c) /\ \A j \in DOMAIN net[c].out : net[c].out[j].n # 0
          BY <4>1, NoFarewellYet DEF ConnInv, RequestInv
        <4>3. QED
          BY <2>9, <4>2 DEF Answered, Final
      <3>2. QED
        BY <2>5, <2>9, <3>1
    <2>18. ~Queued(c)'
      <3>1. AtWork(c) /\ ~Ending(c)
        BY <1>1 DEF AtWork, Ending, Leaving
      <3>2. net[c].in = <<>>
        BY <3>1 DEF ConnInv, RequestInv, Queued
      <3>3. QED
        BY <2>7, <3>2 DEF Queued
    <2>19. QED
      BY <1>1, <2>16, <2>17, <2>18 DEF StreamInv
  <1>4. QED
    BY <1>2, <1>3

\* The stream ends: END is in the handler's hands behind the whole range.
LEMMA StreamEnds ==
  ASSUME ServerInd, NEW c \in Conns, ConnInv(c), StreamInv(c), UNCHANGED cl, StreamEnd(c)
  PROVE  StreamInv(c)'
  <1> USE DEF ServerInd, ServerTypeOK
  <1>1. h[c].pc = "scan" /\ net' = net
    BY DEF StreamEnd
  <1>2. PICK f : /\ Reply(c, f, "loop")
                 /\ f = IF stream[c].over THEN Err("OVERLOAD", h[c].req.n)
                        ELSE End(stream[c].snap, h[c].req.n)
    BY DEF StreamEnd
  <1>3. h'[c].pc = "reply" /\ h'[c].resp = f
    <2>1. h'[c] = [h[c] EXCEPT !.pc = "reply", !.resp = f, !.after = "loop"]
      BY <1>2 DEF Reply, HandlerTypeOK
    <2>2. QED
      BY <2>1 DEF HandlerTypeOK
  <1>4. CASE cl[c].pc # "wait"
    BY <1>4, StreamSame
  <1>5. CASE cl[c].pc = "wait"
    <2>1. PICK m \in Nat : Rest(c, m) /\ m \in 0 .. Len(stream[c].snap)
      BY <1>1, <1>5 DEF StreamInv
    <2>2. f.body = "end" => stream[c].todo = <<>> /\ stream[c].page = <<>> /\ f.data = stream[c].snap
      <3>1. Err("OVERLOAD", h[c].req.n).body # "end"
        BY DEF Err, Frame
      <3>2. End(stream[c].snap, h[c].req.n).data = stream[c].snap
        BY DEF End, Frame
      <3>3. QED
        BY <1>2, <3>1, <3>2 DEF StreamEnd, ScanOver
    <2>3. f.body = "end" => m = Len(stream[c].snap) /\ Sound(c, Len(net[c].out), f.data, Len(f.data))
      <3>1. Len(<<>>) = 0
        OBVIOUS
      <3>2. f.body = "end" => m + 0 + 0 = Len(stream[c].snap)
        BY <2>1, <2>2, <3>1 DEF Rest
      <3>3. QED
        BY <2>1, <2>2, <3>2 DEF Rest
    <2>4. \A k, w, n : Sound(c, k, w, n)' <=> Sound(c, k, w, n)
      BY <1>1 DEF Sound
    <2>5. Queued(c)' => Queued(c)
      BY <1>1 DEF Queued, Ending, Leaving
    <2>6. QED
      BY <1>1, <1>3, <1>5, <2>3, <2>4, <2>5 DEF StreamInv
  <1>6. QED
    BY <1>4, <1>5

\* The answer goes out.
LEMMA StreamReply ==
  ASSUME ServerInd, NEW c \in Conns, ConnInv(c), StreamInv(c), UNCHANGED cl, WriteReply(c)
  PROVE  StreamInv(c)'
  <1> USE DEF ServerInd, ServerTypeOK
  <1>1. h[c].pc = "reply"
    BY DEF WriteReply
  <1>2. CASE cl[c].pc # "wait"
    BY <1>2, StreamSame
  <1>3. CASE cl[c].pc = "wait"
    <2>1. PICK f \in Frames : f = h[c].resp
      BY DEF HandlerTypeOK
    <2>2. net[c].peer
      BY <1>3 DEF ConnInv, CallInv
    <2>3. net[c].out \in Seq(Frames) /\ net'[c].out = Append(net[c].out, f) /\ net'[c].in = net[c].in
      BY <2>1, <2>2, WrittenEffect DEF WriteReply, NetTypeOK
    <2>4. PICK l \in {"loop", "close"} : l = h[c].after
      BY DEF HandlerTypeOK
    <2>5. h'[c].pc \in {"release", l} /\ h'[c].after = l
      BY <2>4, ReturnEffect DEF WriteReply
    <2>6. f.n # 0 => net[c].in = <<>> /\ ~Leaving(c) /\ ~Answered(c)
      <3>1. f.n # 0 => AtWork(c) /\ ~Leaving(c) /\ ~Ending(c)
        BY <1>1, <2>1 DEF AtWork, Leaving, Ending, ConnInv, ReplyInv
      <3>2. QED
        BY <3>1 DEF ConnInv, RequestInv, Queued
    <2>7. f.n = 0 => f = Farewell /\ l = "close"
      BY <1>1, <2>1, <2>4 DEF ConnInv, ReplyInv
    <2>8. ~Queued(c)'
      BY <2>3, <2>5, <2>6, <2>7 DEF Queued, Ending, Leaving
    <2>9. CASE f.body # "end"
      BY <2>3, <2>5, <2>8, <2>9, StreamQuiet
    <2>10. CASE f.body = "end"
      <3>1. f.n # 0
        BY <2>7, <2>10 DEF Farewell, Err, Frame
      <3>2. PICK k \in Nat : k = Len(net[c].out)
        BY <2>3, LenProperties
      <3>3. /\ DOMAIN net[c].out = 1 .. k
            /\ \A i \in 1 .. k : net'[c].out[i] = net[c].out[i]
            /\ net'[c].out[k + 1] = f
            /\ \A i \in DOMAIN net'[c].out : i \in 1 .. k \/ i = k + 1
        BY <2>3, <3>2, Appended
      <3>4. \A i \in 1 .. k : net[c].out[i].body # "end"
        <4>1. \A i \in DOMAIN net[c].out : net[c].out[i].n # 0
          BY <2>6, <3>1, NoFarewellYet DEF ConnInv
        <4>2. QED
          BY <2>6, <3>1, <3>3, <4>1 DEF Answered, Final
      <3>5. PICK w : w = f.data
        OBVIOUS
      <3>6. Sound(c, k, w, Len(w))
        BY <1>1, <1>3, <2>1, <2>10, <3>2, <3>5 DEF StreamInv
      <3>7. Sound(c, k, w, Len(w))'
        BY <3>3, <3>6, SoundKept
      <3>8. ASSUME NEW i \in DOMAIN net'[c].out, net'[c].out[i].body = "end"
            PROVE  Sound(c, i - 1, net[c].out[i].data, Len(net[c].out[i].data))'
        <4>1. i = k + 1 /\ i - 1 = k
          <5>1. i = k + 1
            BY <3>3, <3>4, <3>8
          <5>2. QED
            BY <5>1
        <4>2. net'[c].out[i].data = w
          BY <3>3, <3>5, <4>1
        <4>3. QED
          BY <3>7, <4>1, <4>2
      <3>9. QED
        BY <2>5, <2>8, <3>8 DEF StreamInv
    <2>11. QED
      BY <2>9, <2>10
  <1>4. QED
    BY <1>2, <1>3

\* The handler moves, takes up no work and writes nothing.
LEMMA StreamMove ==
  ASSUME ServerTypeOK, NEW c \in Conns, StreamInv(c), cl'[c] = cl[c], Quiet(c)
  PROVE  StreamInv(c)'
  <1>1. Torn \in Frames /\ Torn.body # "end" /\ net[c].out \in Seq(Frames)
    <2>1. Torn \in Frames /\ Torn.body # "end"
      BY FrameTypes DEF Torn, Frame
    <2>2. QED
      BY <2>1 DEF ServerTypeOK, NetTypeOK
  <1>2. Queued(c)' => Queued(c)
    BY DEF Quiet, Queued
  <1>3. QED
    BY <1>1, <1>2, StreamQuiet DEF Quiet

\* A write fails, or the server drains: the handler reads no more requests.
LEMMA StreamLeaves ==
  ASSUME ServerInd, NEW c \in Conns, StreamInv(c), UNCHANGED cl,
         FlushFail(c) \/ WriteReplyFail(c) \/ (Loop(c) /\ draining)
  PROVE  StreamInv(c)'
  <1> USE DEF ServerInd, ServerTypeOK
  <1>1. Torn \in Frames /\ Torn.body # "end" /\ net[c].out \in Seq(Frames)
    <2>1. Torn \in Frames /\ Torn.body # "end"
      BY FrameTypes DEF Torn, Frame
    <2>2. QED
      BY <2>1 DEF NetTypeOK
  <1>2. CASE FlushFail(c) \/ WriteReplyFail(c)
    <2>1. net'[c].out \in {net[c].out, Append(net[c].out, Torn)}
      BY <1>2, WriteFailsEffect DEF FlushFail, WriteReplyFail
    <2>2. h'[c].pc \in {"release", "close"} /\ h'[c].after = "close"
      <3>1. CASE FlushFail(c)
        <4>1. h'[c] = [h[c] EXCEPT !.pc = "release", !.after = "close"]
          BY <3>1 DEF FlushFail, HandlerTypeOK
        <4>2. QED
          BY <4>1 DEF HandlerTypeOK
      <3>2. CASE WriteReplyFail(c)
        BY <3>2, ReturnEffect DEF WriteReplyFail
      <3>3. QED
        BY <1>2, <3>1, <3>2
    <2>3. ~Queued(c)'
      BY <2>2 DEF Queued, Ending, Leaving
    <2>4. QED
      BY <1>1, <2>1, <2>2, <2>3, StreamQuiet
  <1>3. CASE Loop(c) /\ draining
    <2>1. Reply(c, Farewell, "close") /\ net' = net
      BY <1>3 DEF Loop, Farewell
    <2>2. Farewell \in Frames /\ Farewell.body # "end"
      <3>1. Farewell.body # "end"
        BY DEF Farewell, Err, Frame
      <3>2. QED
        BY <3>1, FrameTypes DEF Farewell, Statuses
    <2>3. h'[c].pc = "reply" /\ h'[c].resp = Farewell /\ h'[c].after = "close"
      BY <2>1, <2>2, ReplyEffect
    <2>4. ~Queued(c)'
      BY <2>3 DEF Queued, Ending
    <2>5. QED
      BY <1>1, <2>1, <2>2, <2>3, <2>4, StreamQuiet
  <1>4. QED
    BY <1>2, <1>3

\* Every step of the handler of c.
LEMMA StreamHandler ==
  ASSUME ServerInd, NEW c \in Conns, ConnInv(c), StreamInv(c), UNCHANGED cl, Handler(c)
  PROVE  StreamInv(c)'
  <1>1. CASE \/ (Loop(c) /\ ~draining) \/ ArmDeadline(c) \/ ReadEnds(c) \/ Release(c)
             \/ CloseConn(c) \/ Untrack(c) \/ Done(c)
    <2>1. Quiet(c)
      BY <1>1, HandlerQuiet
    <2>2. QED
      BY <2>1, StreamMove DEF ServerInd
  <1>2. CASE FlushFail(c) \/ WriteReplyFail(c) \/ (Loop(c) /\ draining)
    BY <1>2, StreamLeaves
  <1>3. CASE \/ ReadRequest(c) \/ ExecWrite(c) \/ ExecGet(c) \/ ExecPingStats(c) \/ RangeBegin(c)
             \/ ScanPair(c) \/ Flush(c) \/ StreamEnd(c) \/ WriteReply(c)
    BY <1>3, StreamRead, StreamExec, StreamPair, StreamFlush, StreamEnds, StreamReply
  <1>4. QED
    BY <1>1, <1>2, <1>3 DEF Handler

\* The handler of another connection.
LEMMA StreamElsewhere ==
  ASSUME ServerInd, NEW c \in Conns, NEW d \in Conns \ {c}, Handler(c)
  PROVE  stream'[d] = stream[d]
  <1> USE DEF ServerInd, ServerTypeOK
  <1>1. CASE RangeBegin(c) \/ Release(c)
    BY <1>1 DEF RangeBegin, Release, StreamTypeOK
  <1>2. CASE ScanPair(c) \/ Flush(c)
    BY <1>2 DEF ScanPair, Flush, StreamTypeOK
  <1>3. CASE ~(RangeBegin(c) \/ Release(c) \/ ScanPair(c) \/ Flush(c))
    BY <1>3 DEF Handler, Loop, ArmDeadline, ReadRequest, ReadEnds, CloseConn, Untrack,
       Done, FlushFail, WriteReply, WriteReplyFail, ExecWrite, ExecGet, ExecPingStats, StreamEnd
  <1>4. QED
    BY <1>1, <1>2, <1>3

\* Every step of the server process.
LEMMA StreamServer ==
  ASSUME ServerInd, ClientInd, StreamInd, main # "exited", ServerNext, UNCHANGED cl
  PROVE  StreamInd'
  <1>1. ASSUME NEW c \in Conns, cl[c].pc # "raw" PROVE StreamInv(c)'
    <2>1. ConnInv(c) /\ StreamInv(c)
      BY <1>1 DEF ClientInd, StreamInd
    <2>2. CASE Process \/ Signal \/ ForceClose \/ Exit
      <3>1. (Same(c) \/ Quiet(c)) /\ stream' = stream
        BY <2>2, ProcessMoves
      <3>2. QED
        BY <2>1, <3>1, StreamSame, StreamMove DEF ServerInd
    <2>3. ASSUME NEW d \in Conns, Handler(d) PROVE StreamInv(c)'
      <3>1. CASE c = d
        BY <2>1, <2>3, <3>1, StreamHandler
      <3>2. CASE c # d
        BY <2>1, <2>3, <3>2, HandlerElsewhere, StreamElsewhere, StreamSame
      <3>3. QED
        BY <3>1, <3>2
    <2>4. QED
      BY <2>2, <2>3 DEF ServerNext
  <1>2. QED
    BY <1>1 DEF StreamInd

----------------------------------------------------------------------------
(* Steps of the Client.                                                    *)

\* The Client does not wait.
LEMMA StreamIdle ==
  ASSUME NEW c \in Conns, cl'[c].pc # "wait",
         cl'[c].call.op = "range" /\ cl'[c].res.kind = "nil" => cl'[c].got = cl'[c].snap
  PROVE  StreamInv(c)'
  BY DEF StreamInv

\* A Client dials, or closes its connection.
LEMMA StreamDialClose ==
  ASSUME ClientTypeOK, NEW c \in Conns, StreamInv(c), ClientDial(c) \/ ClientClose(c)
  PROVE  StreamInv(c)'
  <1>1. PICK pc \in {"idle", "closed"} : cl' = [cl EXCEPT ![c].pc = pc]
    BY DEF ClientDial, ClientClose
  <1>2. cl'[c] = [cl[c] EXCEPT !.pc = pc] /\ cl[c] \in ClientRecord
    BY <1>1 DEF ClientTypeOK
  <1>3. /\ cl'[c].pc = pc /\ cl'[c].call = cl[c].call /\ cl'[c].res = cl[c].res
        /\ cl'[c].got = cl[c].got /\ cl'[c].snap = cl[c].snap
    BY <1>2 DEF ClientRecord
  <1>4. QED
    BY <1>3, StreamIdle DEF StreamInv

\* A Client makes a call: nothing of an earlier one is on its way.
LEMMA StreamCall ==
  ASSUME ~Reuse, ServerInd, ClientTypeOK, NEW c \in Conns, ConnInv(c), StreamInv(c),
         NEW r \in ClientRequests, Call(c, r) \/ CallFails(c, r)
  PROVE  StreamInv(c)'
  <1> USE DEF ServerInd, ServerTypeOK
  <1>1. cl[c] \in ClientRecord /\ cl[c].pc = "idle" /\ ~cl[c].bad /\ h' = h
    BY DEF ClientTypeOK, Call, CallFails, MayCall
  <1>2. CASE CallFails(c, r)
    <2>1. PICK q : q = Number(r, cl[c].call.n + 1)
      OBVIOUS
    <2>2. PICK y : y = Return(c, "eof", "none", 0)
      OBVIOUS
    <2>3. y \in ClientRecord /\ y.pc = "idle" /\ y.res.kind = "eof"
      <3>1. "eof" \in Kinds
        BY DEF Kinds, Broken
      <3>2. QED
        BY <2>2, <3>1, Returned
    <2>4. cl'[c] = [y EXCEPT !.call = q]
      BY <1>2, <2>1, <2>2 DEF CallFails, ClientTypeOK
    <2>5. cl'[c].pc = "idle" /\ cl'[c].res.kind = "eof"
      BY <2>3, <2>4 DEF ClientRecord
    <2>6. QED
      BY <2>5, StreamIdle
  <1>3. CASE Call(c, r)
    <2>1. cl'[c].got = <<>> /\ cl'[c].res = NoResult
      <3>1. PICK q : q = Number(r, cl[c].call.n + 1)
        OBVIOUS
      <3>2. cl'[c] = [cl[c] EXCEPT !.pc = "wait", !.call = q, !.res = NoResult,
                                   !.got = <<>>, !.snap = <<>>]
        BY <1>3, <3>1 DEF Call, ClientTypeOK
      <3>3. QED
        BY <1>1, <3>2 DEF ClientRecord
    <2>2. net'[c].out = net[c].out
      <3>1. PICK s : s = IF net[c].srv THEN Append(net[c].in, Number(r, cl[c].call.n + 1)) ELSE net[c].in
        OBVIOUS
      <3>2. net' = [net EXCEPT ![c].in = s]
        BY <1>3, <3>1 DEF Call
      <3>3. net'[c] = [net[c] EXCEPT !.in = s] /\ net[c] \in NetRecord
        BY <3>2 DEF NetTypeOK
      <3>4. QED
        BY <3>3
    <2>3. ~AtWork(c) /\ \A i \in DOMAIN net[c].out : net[c].out[i] \in {Farewell, Torn} /\ Leaving(c)
      <3>1. ~Pending(c)
        BY <1>1 DEF Pending
      <3>2. QED
        BY <3>1 DEF ConnInv, RequestInv, FrameInv
    <2>4. \A f \in {Farewell, Torn} : f.body # "end"
      BY DEF Farewell, Torn, Err, Frame
    <2>5. h'[c].pc \notin {"exec", "scan"} /\ (h'[c].pc = "reply" => h'[c].resp.body # "end")
      BY <1>1, <2>3, <2>4 DEF AtWork, ConnInv, ReplyInv
    <2>6. Queued(c)' => net'[c].out = <<>>
      <3>1. Queued(c)' => ~Leaving(c)
        BY <1>1 DEF Queued, Ending, Leaving
      <3>2. ~Leaving(c) => DOMAIN net[c].out = {}
        BY <2>3
      <3>3. net[c].out \in Seq(Frames)
        BY DEF NetTypeOK
      <3>4. DOMAIN net[c].out = {} => net[c].out = <<>>
        BY <3>3, NoneThere
      <3>5. QED
        BY <2>2, <3>1, <3>2, <3>4
    <2>7. cl'[c].res.kind # "nil"
      BY <2>1 DEF NoResult
    <2>8. \A i \in DOMAIN net'[c].out : net'[c].out[i].body # "end"
      BY <2>2, <2>3, <2>4
    <2>9. QED
      BY <2>1, <2>5, <2>6, <2>7, <2>8 DEF StreamInv
  <1>4. QED
    BY <1>2, <1>3

\* pageFn is given a page.
LEMMA StreamPage ==
  ASSUME ServerInd, ClientTypeOK, NEW c \in Conns, ConnInv(c), StreamInv(c),
         cl[c].pc = "wait", net[c].out # <<>>, net'[c].out = Tail(net[c].out),
         net'[c].in = net[c].in, h' = h, stream' = stream,
         NEW s \in Seq(Data), s = Head(net[c].out).data,
         cl'[c].got = cl[c].got \o s, cl'[c].res = cl[c].res
  PROVE  StreamInv(c)'
  <1> USE DEF ServerInd, ServerTypeOK
  <1>1. net[c].out \in Seq(Frames) /\ cl[c] \in ClientRecord
    BY DEF ClientTypeOK, NetTypeOK
  <1>2. PICK n \in Nat : n = Len(net[c].out)
    BY <1>1, LenProperties
  <1>3. /\ n # 0 /\ Len(net'[c].out) = n - 1 /\ DOMAIN net[c].out = 1 .. n
        /\ DOMAIN net'[c].out = 1 .. n - 1 /\ net[c].out[1].data = s
        /\ \A i \in 1 .. n - 1 : net'[c].out[i] = net[c].out[i + 1]
    <2>1. /\ Len(net'[c].out) = n - 1 /\ DOMAIN net[c].out = 1 .. n /\ 1 \in DOMAIN net[c].out
          /\ DOMAIN net'[c].out = 1 .. n - 1 /\ net[c].out[1] = Head(net[c].out)
          /\ \A i \in DOMAIN net'[c].out : net'[c].out[i] = net[c].out[i + 1]
      BY <1>1, <1>2, Taken
    <2>2. n # 0
      BY <2>1
    <2>3. QED
      BY <2>1, <2>2
  <1>4. ASSUME NEW k \in 1 .. n, NEW w \in Seq(Data), NEW m, Sound(c, k, w, m)
        PROVE  Sound(c, k - 1, w, m)'
    <2>1. k \in Nat \ {0} /\ \A i \in 1 .. k - 1 : i \in 1 .. n - 1
      OBVIOUS
    <2>2. cl[c].got \in Seq(Data)
      BY <1>1 DEF ClientRecord
    <2>3. QED
      BY <1>3, <1>4, <2>1, <2>2, SoundTaken
  <1>5. n \in 1 .. n
    BY <1>3
  <1>6. ~Queued(c)' /\ h'[c].pc # "exec"
    <2>1. ~Queued(c) /\ h[c].pc # "exec"
      BY DEF StreamInv
    <2>2. QED
      BY <2>1 DEF Queued, Ending, Leaving
  <1>7. ASSUME h'[c].pc = "scan" PROVE \E m \in 0 .. Len(stream'[c].snap) : Rest(c, m)'
    <2>1. PICK w \in Seq(Data) : w = stream[c].snap
      BY SeqMonotonic DEF StreamTypeOK, Data
    <2>2. PICK m \in 0 .. Len(w) : Rest(c, m)
      BY <1>7, <2>1 DEF StreamInv
    <2>3. Sound(c, n - 1, w, m)'
      BY <1>2, <1>4, <1>5, <2>1, <2>2 DEF Rest
    <2>4. Rest(c, m)'
      BY <1>3, <2>1, <2>2, <2>3 DEF Rest
    <2>5. QED
      BY <2>1, <2>2, <2>4
  <1>8. ASSUME h'[c].pc = "reply", h'[c].resp.body = "end"
        PROVE  Sound(c, Len(net[c].out), h[c].resp.data, Len(h[c].resp.data))'
    <2>1. PICK w \in Seq(Data) : w = h[c].resp.data
      BY DEF HandlerTypeOK, Frames
    <2>2. Sound(c, n, w, Len(w))
      BY <1>2, <1>8, <2>1 DEF StreamInv
    <2>3. Sound(c, n - 1, w, Len(w))'
      BY <1>4, <1>5, <2>2
    <2>4. QED
      BY <1>3, <2>1, <2>3
  <1>9. ASSUME NEW i \in DOMAIN net'[c].out, net'[c].out[i].body = "end"
        PROVE  Sound(c, i - 1, net[c].out[i].data, Len(net[c].out[i].data))'
    <2>1. i \in 1 .. n - 1 /\ i \in 1 .. n /\ i + 1 \in 1 .. n /\ (i + 1) - 1 = i
      BY <1>3
    <2>2. net'[c].out[i] = net[c].out[i + 1] /\ net[c].out[i + 1] \in Frames
      <3>1. net[c].out[i + 1] \in Frames
        BY <1>1, <1>3, <2>1, ElementOfSeq, LenProperties
      <3>2. QED
        BY <1>3, <2>1, <3>1
    <2>3. PICK w \in Seq(Data) : w = net[c].out[i + 1].data
      BY <2>2 DEF Frames
    <2>4. Sound(c, i, w, Len(w))
      BY <1>3, <1>9, <2>1, <2>2, <2>3 DEF StreamInv
    <2>5. Sound(c, i - 1, w, Len(w))'
      BY <1>4, <2>1, <2>4
    <2>6. QED
      BY <2>2, <2>3, <2>5
  <1>10. cl'[c].res.kind # "nil"
    BY DEF ConnInv, CallInv, NoResult
  <1>11. QED
    BY <1>6, <1>7, <1>8, <1>9, <1>10 DEF StreamInv

\* END comes behind all of the range.
LEMMA StreamWhole ==
  ASSUME ServerInd, ClientTypeOK, NEW c \in Conns, StreamInv(c), cl[c].pc = "wait",
         net[c].out # <<>>, NEW f \in Frames, f = Head(net[c].out), f.body = "end"
  PROVE  cl[c].got = f.data
  <1>1. net[c].out \in Seq(Frames) /\ cl[c].got \in Seq(Data) /\ f.data \in Seq(Data)
    BY DEF ClientTypeOK, ClientRecord, ServerInd, ServerTypeOK, NetTypeOK, Frames
  <1>2. 1 \in DOMAIN net[c].out /\ net[c].out[1] = f
    BY <1>1, Taken
  <1>3. Sound(c, 0, f.data, Len(f.data))
    <2>1. 1 - 1 = 0
      OBVIOUS
    <2>2. QED
      BY <1>2, <2>1 DEF StreamInv
  <1>4. Len(cl[c].got) = Len(f.data) /\ Piece(cl[c].got, f.data, 0)
    BY <1>3 DEF Sound
  <1>5. QED
    BY <1>1, <1>4, PieceWhole

\* A call reads a frame, or is given up.
LEMMA StreamReads ==
  ASSUME ServerInd, ClientTypeOK, NEW c \in Conns, ConnInv(c), StreamInv(c),
         Read(c) \/ Timeout(c) \/ ReadFails(c)
  PROVE  StreamInv(c)'
  <1> USE DEF ServerInd, ServerTypeOK
  <1>1. cl[c].pc = "wait" /\ cl[c] \in ClientRecord /\ net[c].out \in Seq(Frames)
    BY DEF Read, Timeout, ReadFails, ClientTypeOK, NetTypeOK
  <1>2. ASSUME NEW kind \in Broken, NEW k \in Nat, cl' = [cl EXCEPT ![c] = Return(c, kind, "none", k)]
        PROVE  StreamInv(c)'
    <2>1. PICK x : x = Return(c, kind, "none", k)
      OBVIOUS
    <2>2. x.pc = "idle" /\ x.res.kind = kind /\ kind # "nil"
      <3>1. kind \in Kinds /\ kind # "nil"
        BY DEF Kinds, Broken
      <3>2. QED
        BY <2>1, <3>1, Returned
    <2>3. cl'[c] = x
      BY <1>2, <2>1 DEF ClientTypeOK
    <2>4. QED
      BY <2>2, <2>3, StreamIdle
  <1>3. CASE Timeout(c) \/ ReadFails(c)
    BY <1>2, <1>3 DEF Timeout, ReadFails, Broken
  <1>4. CASE Read(c)
    <2>1. net[c].out # <<>> /\ Receive(c)
      BY <1>4, ZenonT(30) DEF Read, Receive
    <2>2. PICK f \in Frames : f = Head(net[c].out)
      BY <1>1, <2>1, Taken
    <2>3. Tail(net[c].out) \in Seq(Frames)
      BY <1>1, <2>1, HeadTailProperties
    <2>4. net'[c].out = Tail(net[c].out) /\ net'[c].in = net[c].in /\ h' = h /\ stream' = stream
      BY <2>1, <2>3, OutEffect DEF Receive
    <2>5. PICK s \in Seq(Data) : s = f.data
      BY DEF Frames
    <2>6. f.n \in Nat /\ f.st \in Statuses /\ <<>> \in Seq(Data)
      BY EmptySeq DEF Frames
    <2>7. PICK o : o = Outcome(cl[c].call.op, f)
      OBVIOUS
    <2>8. /\ o \in {"nil", "notfound", "remote", "protocol", "more"}
          /\ o = "more" => f.body = "page"
          /\ o = "nil" /\ cl[c].call.op = "range" => f.body = "end"
      <3>1. cl[c].call.op \in CallOps
        BY <1>1 DEF ConnInv, CallInv
      <3>2. o = "nil" /\ cl[c].call.op = "range" => f.body = "end"
        BY <2>7 DEF Outcome, Writes
      <3>3. QED
        BY <2>7, <3>1, <3>2, Outcomes DEF Final
    <2>9. PICK sn \in Seq(Data) : sn = IF f.body = "end" THEN f.data ELSE <<>>
      BY <2>5, <2>6
    <2>10. CASE o = "more" /\ cl' = [cl EXCEPT ![c].got = @ \o s]
      <3>1. cl'[c] = [cl[c] EXCEPT !.got = cl[c].got \o s]
        BY <2>10 DEF ClientTypeOK
      <3>2. cl'[c].got = cl[c].got \o s /\ cl'[c].res = cl[c].res
        BY <1>1, <3>1 DEF ClientRecord
      <3>3. QED
        BY <1>1, <2>1, <2>2, <2>4, <2>5, <3>2, StreamPage
    <2>11. CASE o = "more" /\ cl' = [cl EXCEPT ![c] = Return(c, "stopped", "none", f.n)]
      BY <1>2, <2>6, <2>11 DEF Broken
    <2>12. CASE o # "more" /\ cl' = [cl EXCEPT ![c] = [Return(c, o, f.st, f.n) EXCEPT !.snap = sn]]
      <3>1. PICK b \in BOOLEAN : b = (cl[c].bad \/ o \in Broken)
        OBVIOUS
      <3>2. PICK x : x = [kind |-> o, st |-> f.st, from |-> f.n]
        OBVIOUS
      <3>3. cl'[c] = [[cl[c] EXCEPT !.pc = "idle", !.bad = b, !.res = x] EXCEPT !.snap = sn]
        BY <2>12, <3>1, <3>2 DEF Return, ClientTypeOK
      <3>4. /\ cl'[c].pc = "idle" /\ cl'[c].call = cl[c].call /\ cl'[c].res = x
            /\ cl'[c].got = cl[c].got /\ cl'[c].snap = sn
        BY <1>1, <3>3 DEF ClientRecord
      <3>5. x.kind = o
        BY <3>2
      <3>6. f.body = "end" => cl[c].got = f.data
        BY <1>1, <2>1, <2>2, StreamWhole
      <3>7. QED
        BY <2>8, <2>9, <3>4, <3>5, <3>6, StreamIdle
    <2>13. QED
      BY <1>4, <2>2, <2>5, <2>7, <2>8, <2>9, <2>10, <2>11, <2>12, ZenonT(30) DEF Read
  <1>5. QED
    BY <1>3, <1>4

----------------------------------------------------------------------------
(* The inductive invariant.                                                *)

\* Every step of a Client.
LEMMA StreamClient ==
  ASSUME ~Reuse, ServerInd, ClientInd, StreamInd, NEW c \in Conns, ClientStep(c)
  PROVE  StreamInd'
  <1>1. ClientTypeOK /\ cl[c].pc # "raw" /\ ConnInv(c) /\ StreamInv(c)
    <2>1. cl[c].pc \in {"none", "idle", "wait"}
      BY ZenonT(30) DEF ClientStep, ClientDial, Call, CallFails, MayCall, Read, Timeout, ReadFails, ClientClose
    <2>2. QED
      BY <2>1 DEF ClientInd, StreamInd
  <1>2. StreamInv(c)'
    BY <1>1, StreamDialClose, StreamCall, StreamReads DEF ClientStep
  <1>3. Own(c) /\ stream' = stream
    <2>1. ASSUME NEW r \in ClientRequests, Call(c, r) \/ CallFails(c, r) PROVE ~cl[c].bad
      BY <2>1 DEF Call, CallFails, MayCall
    <2>2. Own(c) /\ PeerMove(c)
      BY <1>1, <2>1, DialCloseStep, CallStep, ReadStep DEF ClientStep
    <2>3. QED
      BY <2>2 DEF PeerMove
  <1>4. \A d \in Conns \ {c} : cl'[d] = cl[d] /\ Same(d)
    BY <1>1, <1>3 DEF Own, Same, ClientTypeOK
  <1>5. ASSUME NEW d \in Conns \ {c}, cl'[d].pc # "raw" PROVE StreamInv(d)'
    BY <1>3, <1>4, <1>5, StreamSame DEF StreamInd
  <1>6. QED
    BY <1>2, <1>5 DEF StreamInd

\* A peer that is no Client.
LEMMA StreamRaw ==
  ASSUME ServerInd, StreamInd, NEW c \in Conns, RawPeer(c)
  PROVE  StreamInd'
  <1>1. PeerMove(c) /\ cl[c].pc = "raw" /\ UNCHANGED cl
    BY PeerMoves DEF RawPeer
  <1>2. UNCHANGED <<h, stream, applied>> /\ \A d \in Conns \ {c} : net'[d] = net[d]
    BY <1>1 DEF PeerMove, Dial, Receive, Hangup, ServerInd, ServerTypeOK, NetTypeOK
  <1>3. ASSUME NEW d \in Conns, cl'[d].pc # "raw" PROVE StreamInv(d)'
    <2>1. Same(d) /\ stream'[d] = stream[d]
      BY <1>1, <1>2, <1>3 DEF Same
    <2>2. QED
      BY <1>1, <1>3, <2>1, StreamSame DEF StreamInd
  <1>4. QED
    BY <1>3 DEF StreamInd

\* Every step of the Clients, of other peers and of the server.
LEMMA StreamPreserves ==
  ASSUME ~Reuse, ServerInd, ClientInd, StreamInd, [CNext]_cvars
  PROVE  StreamInd'
  <1>1. CASE main # "exited" /\ ServerNext /\ UNCHANGED cl
    BY <1>1, StreamServer
  <1>2. ASSUME NEW c \in Conns, ClientStep(c) \/ RawPeer(c) PROVE StreamInd'
    BY <1>2, StreamClient, StreamRaw
  <1>3. CASE UNCHANGED cvars
    <2>1. UNCHANGED serverVars /\ UNCHANGED cl
      BY <1>3 DEF cvars
    <2>2. \A c \in Conns : Same(c) /\ cl'[c] = cl[c] /\ stream'[c] = stream[c]
      BY <2>1 DEF serverVars, Same
    <2>3. QED
      BY <2>2, StreamSame DEF StreamInd
  <1>4. QED
    BY <1>1, <1>2, <1>3 DEF CNext

\* Nobody has called yet.
LEMMA StreamInit ==
  ASSUME CInit
  PROVE  StreamInd
  <1>1. ASSUME NEW c \in Conns PROVE cl[c].pc # "wait" /\ cl[c].res.kind # "nil"
    BY DEF CInit, NewClient, NoResult
  <1>2. QED
    BY <1>1 DEF StreamInd, StreamInv

\* client.go, ReadKeyRange, against server.go, handleRange: nil means that
\* pageFn was given the whole range, as it was at one moment of the call,
\* however its pages were cut, whatever fails and whenever the server drains.
THEOREM RangesAreWhole ==
  ASSUME ~Reuse
  PROVE  CSpec => []NilMeansWholeRange
  <1>1. CInit => ServerInd /\ ClientInd /\ StreamInd
    BY ClientInit, StreamInit
  <1>2. ServerInd /\ ClientInd /\ StreamInd /\ [CNext]_cvars
          => (ServerInd /\ ClientInd /\ StreamInd)'
    BY ClientPreserves, StreamPreserves
  <1>3. ServerInd /\ ClientInd /\ StreamInd => NilMeansWholeRange
    <2>1. SUFFICES ASSUME ClientInd, StreamInd, NEW c \in Conns,
                          cl[c].call.op = "range", cl[c].res.kind = "nil"
                   PROVE  cl[c].got = cl[c].snap
      BY DEF NilMeansWholeRange
    <2>2. cl[c].pc # "raw"
      BY <2>1 DEF ClientInd, NoResult
    <2>3. QED
      BY <2>1, <2>2 DEF StreamInd, StreamInv
  <1>4. QED
    BY <1>1, <1>2, <1>3, PTL DEF CSpec

----------------------------------------------------------------------------
(* A drain without a deadline: the connections.                            *)

\* A network that works, and a Shutdown whose context does not expire.
Calm == ~Grace /\ Faults \cap {"net", "accept"} = {}

\* Peers and Clients leave the server's side of connections alone.
LEMMA DrainPeer ==
  ASSUME ServerInd, ServingInv, \A d \in Conns : LinkInv(d), NEW c \in Conns, PeerMove(c)
  PROVE  /\ ServingInv' /\ \A d \in Conns : LinkInv(d)'
         /\ \A d \in Conns : net[d].state # "none" => net'[d].srv = net[d].srv
  <1> USE DEF ServerInd, ServerTypeOK
  <1>1. /\ main' = main /\ listener' = listener /\ draining' = draining /\ sd' = sd
        /\ serve' = serve /\ h' = h
    BY DEF PeerMove
  <1>2. /\ \A d \in Conns \ {c} : net'[d] = net[d]
        /\ \/ net'[c].state = net[c].state /\ net'[c].srv = net[c].srv
           \/ net[c].state = "none" /\ net'[c].srv
    <2>1. CASE Dial(c)
      <3>1. net'[c] = [net[c] EXCEPT !.state = "backlog", !.peer = TRUE, !.srv = TRUE]
        BY <2>1 DEF Dial, NetTypeOK
      <3>2. net'[c].srv
        BY <3>1 DEF NetTypeOK
      <3>3. QED
        BY <2>1, <3>2 DEF Dial, NetTypeOK
    <2>2. CASE Receive(c)
      <3>1. Tail(net[c].out) \in Seq(Frames)
        BY <2>2, HeadTailProperties DEF Receive, NetTypeOK
      <3>2. QED
        BY <2>2, <3>1, OutEffect DEF Receive
    <2>3. CASE Hangup(c)
      <3>1. net'[c] = [net[c] EXCEPT !.peer = FALSE, !.out = <<>>]
        BY <2>3 DEF Hangup, NetTypeOK
      <3>2. net'[c].state = net[c].state /\ net'[c].srv = net[c].srv
        BY <3>1 DEF NetTypeOK
      <3>3. QED
        BY <2>3, <3>2 DEF Hangup, NetTypeOK
    <2>4. ASSUME NEW q \in Sent, net' = [net EXCEPT ![c].in = Append(@, q)]
          PROVE  /\ \A d \in Conns \ {c} : net'[d] = net[d]
                 /\ net'[c].state = net[c].state /\ net'[c].srv = net[c].srv
      <3>1. Append(net[c].in, q) \in Seq(Sent)
        BY AppendProperties DEF NetTypeOK
      <3>2. QED
        BY <2>4, <3>1, InEffect
    <2>5. CASE UNCHANGED net
      BY <2>5
    <2>6. QED
      BY <2>1, <2>2, <2>3, <2>4, <2>5 DEF PeerMove
  <1>3. \A d \in Conns : LinkInv(d)'
    BY <1>1, <1>2 DEF LinkInv
  <1>4. \A d \in Conns : net[d].state # "none" => net'[d].srv = net[d].srv
    BY <1>2
  <1>5. ServingInv'
    <2>1. main # "exited" /\ serve.pc = "accepted" =>
            serve.conn \in Conns /\ net[serve.conn].state # "none"
      BY DEF HandlersInv
    <2>2. main # "exited" /\ serve.pc = "accepted" => net'[serve.conn].srv
      BY <1>4, <2>1 DEF ServingInv
    <2>3. main # "exited" => \A d \in Conns : net'[d].state = "backlog" => net'[d].srv
      BY <1>2 DEF ServingInv
    <2>4. QED
      BY <1>1, <2>2, <2>3 DEF ServingInv
  <1>6. QED
    BY <1>3, <1>4, <1>5

\* What a handler does to the server's side of its connection.
LEMMA HandlerLink ==
  ASSUME ServerInd, NEW c \in Conns, Handler(c)
  PROVE  /\ net'[c].state = net[c].state
         /\ net'[c].srv = net[c].srv \/ h'[c].pc = "untrack"
         /\ h[c].pc \in {"untrack", "done"} => h'[c].pc \in {"done", "gone"}
         /\ h[c].pc \in AlivePcs
         /\ net'[c].srv => net[c].srv
  <1> USE DEF ServerInd, ServerTypeOK
  <1>1. h[c].pc \in AlivePcs
    BY ZenonT(30) DEF Handler, Loop, ArmDeadline, ReadRequest, ReadEnds, Release, CloseConn, Untrack,
       Done, ScanPair, RangeBegin, Flush, FlushFail, FlushDue, WriteReply, WriteReplyFail,
       ExecWrite, ExecGet, ExecPingStats, StreamEnd, AlivePcs
  <1>2. CASE CloseConn(c)
    <2>1. net'[c] = [net[c] EXCEPT !.srv = FALSE, !.in = <<>>]
      BY <1>2 DEF CloseConn, NetTypeOK
    <2>2. net'[c].state = net[c].state /\ ~net'[c].srv
      BY <2>1 DEF NetTypeOK
    <2>3. h'[c].pc = "untrack" /\ h[c].pc = "close"
      BY <1>2, GotoEffect DEF CloseConn, HandlerPcs, AlivePcs
    <2>4. QED
      BY <1>1, <2>2, <2>3
  <1>3. CASE ~CloseConn(c)
    <2>1. net'[c].state = net[c].state /\ net'[c].srv = net[c].srv
      <3>1. CASE ReadRequest(c)
        <4>1. Tail(net[c].in) \in Seq(Sent)
          BY <3>1, HeadTailProperties DEF ReadRequest, NetTypeOK
        <4>2. QED
          BY <3>1, <4>1, InEffect DEF ReadRequest
      <3>2. CASE Flush(c)
        <4>1. PICK f : f = Frame("OK", "page", stream[c].page, h[c].req.n)
          OBVIOUS
        <4>2. f \in Frames
          <5>1. h[c].req \in Sent \cup {NoRequest} /\ stream[c].page \in Seq(Pairs)
            BY DEF HandlerTypeOK, StreamTypeOK
          <5>2. h[c].req.n \in Nat
            BY <5>1, SentFacts DEF NoRequest
          <5>3. QED
            BY <4>1, <5>1, <5>2, FrameTypes
        <4>3. Written(c, f)
          BY <3>2, <4>1 DEF Flush
        <4>4. QED
          BY <4>2, <4>3, WrittenEffect
      <3>3. CASE WriteReply(c)
        <4>1. h[c].resp \in Frames
          BY DEF HandlerTypeOK
        <4>2. QED
          BY <3>3, <4>1, WrittenEffect DEF WriteReply
      <3>4. CASE FlushFail(c) \/ WriteReplyFail(c)
        BY <3>4, WriteFailsEffect DEF FlushFail, WriteReplyFail
      <3>5. CASE ~(ReadRequest(c) \/ Flush(c) \/ WriteReply(c) \/ FlushFail(c) \/ WriteReplyFail(c))
        BY <1>3, <3>5, ZenonT(30) DEF Handler, Loop, ArmDeadline, ReadEnds, Release, Untrack, Done, ScanPair,
           RangeBegin, ExecWrite, ExecGet, ExecPingStats, StreamEnd
      <3>6. QED
        BY <3>1, <3>2, <3>3, <3>4, <3>5
    <2>2. h[c].pc \in {"untrack", "done"} => h'[c].pc \in {"done", "gone"}
      <3>1. h[c].pc \in {"untrack", "done"} => Untrack(c) \/ Done(c)
        BY ZenonT(30) DEF Handler, Loop, ArmDeadline, ReadRequest, ReadEnds, Release, CloseConn,
           ScanPair, RangeBegin, Flush, FlushFail, FlushDue, WriteReply, WriteReplyFail,
           ExecWrite, ExecGet, ExecPingStats, StreamEnd
      <3>2. Untrack(c) \/ Done(c) => h'[c].pc \in {"done", "gone"}
        BY GotoEffect DEF Untrack, Done, HandlerPcs, AlivePcs
      <3>3. QED
        BY <3>1, <3>2
    <2>3. QED
      BY <1>1, <2>1, <2>2
  <1>4. QED
    BY <1>2, <1>3

\* Handlers.
LEMMA DrainHandler ==
  ASSUME ServerInd, main # "exited", ServingInv, \A d \in Conns : LinkInv(d),
         NEW c \in Conns, Handler(c), UNCHANGED cl
  PROVE  ServingInv' /\ \A d \in Conns : LinkInv(d)'
  <1>1. /\ net'[c].state = net[c].state
        /\ net'[c].srv = net[c].srv \/ h'[c].pc = "untrack"
        /\ h[c].pc \in {"untrack", "done"} => h'[c].pc \in {"done", "gone"}
        /\ h[c].pc \in AlivePcs
    BY HandlerLink
  <1>2. \A d \in Conns \ {c} : h'[d] = h[d] /\ net'[d] = net[d]
    BY HandlerElsewhere
  <1>3. LinkInv(c)'
    BY <1>1 DEF LinkInv, AlivePcs
  <1>4. \A d \in Conns \ {c} : LinkInv(d)'
    BY <1>2 DEF LinkInv
  <1>5. /\ main' = main /\ listener' = listener /\ draining' = draining /\ sd' = sd
        /\ serve' = serve
    BY ZenonT(30) DEF Handler, Loop, ArmDeadline, ReadRequest, ReadEnds, Release, CloseConn, Untrack,
       Done, ScanPair, RangeBegin, Flush, FlushFail, WriteReply, WriteReplyFail,
       ExecWrite, ExecGet, ExecPingStats, StreamEnd
  <1>6. /\ serve.pc = "accepted" => serve.conn \in Conns \ {c}
        /\ net[c].state # "backlog"
    BY <1>1 DEF ServerInd, HandlersInv, AlivePcs
  <1>7. ServingInv'
    BY <1>1, <1>2, <1>5, <1>6 DEF ServingInv
  <1>8. QED
    BY <1>3, <1>4, <1>7

\* The accept loop, Shutdown and runServe.
LEMMA DrainProcess ==
  ASSUME Calm, ServerInd, main # "exited", ServingInv, \A d \in Conns : LinkInv(d),
         Process \/ Signal \/ ForceClose \/ Exit
  PROVE  /\ ServingInv' /\ \A d \in Conns : LinkInv(d)' /\ (net'[d].srv => net[d].srv)
         /\ \A d \in Conns : h'[d].pc = h[d].pc \/ ~AtWork(d)
  <1> USE DEF ServerInd, ServerTypeOK
  <1>1. CASE AcceptError \/ ShutdownReturns \/ CloseEngine \/ Signal
    <2>1. h' = h /\ net' = net
      BY <1>1 DEF AcceptError, ShutdownReturns, CloseEngine, Signal
    <2>2. \A d \in Conns : LinkInv(d)'
      BY <2>1 DEF LinkInv
    <2>3. ServingInv'
      <3>1. CASE AcceptError
        BY <2>1, <3>1 DEF AcceptError, ServingInv, Calm
      <3>2. CASE ShutdownReturns
        BY <2>1, <3>2 DEF ShutdownReturns, ServingInv
      <3>3. CASE CloseEngine
        BY <2>1, <3>3 DEF CloseEngine, ServingInv
      <3>4. CASE Signal
        BY <2>1, <3>4 DEF Signal, ServingInv
      <3>5. QED
        BY <1>1, <3>1, <3>2, <3>3, <3>4
    <2>4. QED
      BY <2>1, <2>2, <2>3
  <1>2. ASSUME NEW c \in Conns, Accept(c)
        PROVE  /\ ServingInv' /\ \A d \in Conns : LinkInv(d)' /\ (net'[d].srv => net[d].srv)
               /\ \A d \in Conns : h'[d].pc = h[d].pc
    <2>1. net'[c] = [net[c] EXCEPT !.state = "accepted"] /\ net[c].state = "backlog" /\ h' = h
      BY <1>2 DEF Accept, NetTypeOK
    <2>2. net'[c].state = "accepted" /\ net'[c].srv = net[c].srv
      BY <2>1 DEF NetTypeOK
    <2>3. \A d \in Conns \ {c} : net'[d] = net[d]
      BY <1>2 DEF Accept, NetTypeOK
    <2>4. \A d \in Conns : LinkInv(d)' /\ (net'[d].srv => net[d].srv)
      BY <2>1, <2>2, <2>3 DEF LinkInv
    <2>5. ServingInv'
      <3>1. /\ main' = main /\ listener' = listener /\ draining' = draining /\ sd' = sd
            /\ serve'.pc = "accepted" /\ serve'.conn = c
        BY <1>2 DEF Accept
      <3>2. net[c].srv
        BY <2>1 DEF ServingInv
      <3>3. QED
        BY <2>2, <2>3, <3>1, <3>2 DEF ServingInv
    <2>6. QED
      BY <2>1, <2>4, <2>5
  <1>3. CASE Track
    <2>1. PICK c \in Conns : c = serve.conn /\ net[c].state = "accepted" /\ h[c].pc = "none" /\ net[c].srv
      BY <1>3 DEF Track, HandlersInv, ServingInv
    <2>2. main' = main /\ listener' = listener /\ draining' = draining /\ sd' = sd
      BY <1>3 DEF Track
    <2>3. CASE RefuseConn(c) /\ draining
      <3>1. net'[c] = [net[c] EXCEPT !.srv = FALSE] /\ h' = h /\ serve'.pc = "returned"
        BY <2>3 DEF RefuseConn, NetTypeOK
      <3>2. net'[c].state = net[c].state /\ ~net'[c].srv
        BY <3>1 DEF NetTypeOK
      <3>3. \A d \in Conns \ {c} : net'[d] = net[d]
        BY <2>3 DEF RefuseConn, NetTypeOK
      <3>4. \A d \in Conns : LinkInv(d)' /\ (net'[d].srv => net[d].srv)
        BY <2>1, <3>1, <3>2, <3>3 DEF LinkInv
      <3>5. ServingInv'
        BY <2>1, <2>2, <2>3, <3>1, <3>2, <3>3, ZenonT(30) DEF ServingInv
      <3>6. QED
        BY <3>1, <3>4, <3>5
    <2>4. CASE StartHandler(c) /\ ~draining
      <3>1. net' = net /\ serve'.pc = "accept" /\ \A d \in Conns \ {c} : h'[d] = h[d]
        BY <2>4 DEF StartHandler, HandlerTypeOK
      <3>2. \A d \in Conns : LinkInv(d)'
        BY <2>1, <3>1 DEF LinkInv
      <3>3. ServingInv'
        BY <2>2, <3>1 DEF ServingInv
      <3>4. ~AtWork(c)
        BY <2>1 DEF AtWork
      <3>5. QED
        BY <3>1, <3>2, <3>3, <3>4
    <2>5. QED
      BY <1>3, <2>1, <2>3, <2>4 DEF Track
  <1>4. CASE CloseListener
    <2>1. h' = h /\ main' = main /\ serve' = serve /\ draining' = draining /\ sd' = "poke" /\ sd = "close"
      BY <1>4 DEF CloseListener
    <2>2. \A d \in Conns :
            \/ net[d].state # "backlog" /\ net'[d] = net[d]
            \/ net[d].state = "backlog" /\ net'[d].state = "reset" /\ ~net'[d].srv
      <3>1. \A d \in Conns :
              \/ net[d].state # "backlog" /\ net'[d] = net[d]
              \/ net[d].state = "backlog" /\ net'[d] = [net[d] EXCEPT !.state = "reset", !.srv = FALSE]
        BY <1>4 DEF CloseListener
      <3>2. QED
        BY <3>1 DEF NetTypeOK
    <2>3. \A d \in Conns : net[d].state = "backlog" => h[d].pc = "none"
      BY DEF HandlersInv
    <2>4. \A d \in Conns : LinkInv(d)' /\ (net'[d].srv => net[d].srv)
      <3>1. \A d \in Conns : net[d].state = "backlog" => net[d].srv
        BY DEF ServingInv
      <3>2. QED
        BY <2>1, <2>2, <2>3, <3>1 DEF LinkInv
    <2>5. main # "serving"
      BY <2>1 DEF DrainInv, ServingInv
    <2>6. serve.pc = "accepted" => serve.conn \in Conns /\ net[serve.conn].state = "accepted"
      BY DEF HandlersInv
    <2>7. main # "closed"
      BY <2>1 DEF ServingInv
    <2>8. ServingInv'
      BY <2>1, <2>2, <2>5, <2>6, <2>7 DEF ServingInv
    <2>9. QED
      BY <2>1, <2>4, <2>8
  <1>5. CASE Poke
    <2>1. net' = net /\ \A d \in Conns : h'[d] \in {h[d], [h[d] EXCEPT !.rdl = "past"]}
      BY <1>5 DEF Poke
    <2>2. \A d \in Conns : h'[d].pc = h[d].pc
      BY <2>1 DEF HandlerTypeOK
    <2>3. ServingInv'
      BY <1>5, <2>1 DEF Poke, ServingInv
    <2>4. QED
      BY <2>1, <2>2, <2>3 DEF LinkInv
  <1>6. CASE Exit
    <2>1. main = "closed" /\ main' = "exited"
      BY <1>6 DEF Exit
    <2>2. \A d \in Conns : net'[d] = [net[d] EXCEPT !.srv = FALSE] /\ h'[d] = [h[d] EXCEPT !.pc = "gone"]
      BY <1>6 DEF Exit
    <2>3. ASSUME NEW d \in Conns PROVE ~net'[d].srv /\ h'[d].pc = "gone"
      <3>1. net[d] \in NetRecord /\ h[d] \in HandlerRecord
        BY DEF NetTypeOK, HandlerTypeOK
      <3>2. QED
        BY <2>2, <3>1
    <2>4. \A d \in Conns : ~AtWork(d)
      BY <2>1 DEF ServingInv, DrainInv, Live, AtWork, AlivePcs
    <2>5. QED
      BY <2>1, <2>3, <2>4 DEF ServingInv, LinkInv
  <1>7. ~ForceClose
    BY DEF ForceClose, Calm
  <1>8. QED
    BY <1>1, <1>2, <1>3, <1>4, <1>5, <1>6, <1>7 DEF Process

----------------------------------------------------------------------------
(* A drain without a deadline: the calls.                                  *)

\* The handler is not at work, and no answer is taken from the network.
LEMMA DoubtIdle ==
  ASSUME NEW c \in Conns, DoubtInv(c), cl'[c] = cl[c],
         \A m : <<c, m>> \in applied' <=> <<c, m>> \in applied,
         net'[c].srv => net[c].srv,
         cl[c].pc = "wait" /\ Did(c) /\ ~Answered(c)' => ~Answered(c) /\ (AtWork(c) => AtWork(c)')
  PROVE  DoubtInv(c)'
  <1>1. Did(c)' = Did(c)
    BY DEF Did, Current
  <1>2. QED
    BY <1>1 DEF DoubtInv

\* The call has no effect.
LEMMA DoubtNone ==
  ASSUME NEW c \in Conns, ~Did(c)',
         cl'[c].res.kind = "eof" => cl'[c].pc \in {"idle", "closed"} /\ ~net'[c].srv
  PROVE  DoubtInv(c)'
  BY DEF DoubtInv

\* The handler of c.
LEMMA DoubtHandler ==
  ASSUME Calm, ServerInd, NEW c \in Conns, ConnInv(c), LinkInv(c), DoubtInv(c), UNCHANGED cl,
         Handler(c), ConnInv(c)'
  PROVE  DoubtInv(c)'
  <1> USE DEF ServerInd, ServerTypeOK
  <1>1. net'[c].srv => net[c].srv
    BY HandlerLink
  <1>2. net[c].out \in Seq(Frames) /\ h[c].resp \in Frames
    BY DEF NetTypeOK, HandlerTypeOK
  <1>3. CASE ~ExecWrite(c) /\ h[c].pc \in {"exec", "scan"}
    <2>1. applied' = applied
      BY <1>3, ZenonT(30) DEF Handler, Loop, ArmDeadline, ReadRequest, ReadEnds, Release, CloseConn, Untrack,
         Done, ScanPair, RangeBegin, Flush, FlushFail, WriteReply, WriteReplyFail,
         ExecGet, ExecPingStats, StreamEnd
    <2>2. ~Did(c)'
      BY <1>3, <2>1 DEF ConnInv, EffectInv, Did, Current
    <2>3. QED
      BY <1>1, <2>2, DoubtNone DEF DoubtInv
  <1>4. CASE ExecWrite(c)
    <2>1. h[c].pc = "exec" /\ h[c].req = cl[c].call /\ cl[c].call.op \in Writes
      BY <1>4 DEF ExecWrite, ConnInv, RequestInv
    <2>2. AtWork(c)'
      <3>1. Current(c) # 0 /\ ~Leaving(c)
        BY <2>1 DEF ConnInv, RequestInv, Leaving
      <3>2. PICK f : Reply(c, f, "loop") /\ f.n = Current(c)
        <4>1. \A k : OK(k).n = k /\ \A st : Err(st, k).n = k
          BY DEF OK, Err, Frame
        <4>2. \E f : Reply(c, f, "loop") /\ f.n = h[c].req.n
          BY <1>4, <4>1 DEF ExecWrite
        <4>3. QED
          BY <2>1, <4>2 DEF Current
      <3>3. h'[c] = [h[c] EXCEPT !.pc = "reply", !.resp = f, !.after = "loop"]
        BY <3>2 DEF Reply, HandlerTypeOK
      <3>4. h'[c].pc = "reply" /\ h'[c].resp = f
        BY <3>3 DEF HandlerTypeOK
      <3>5. QED
        BY <3>1, <3>2, <3>4 DEF AtWork
    <2>3. net[c].srv
      BY <2>1 DEF LinkInv
    <2>4. cl[c].res.kind # "eof"
      BY <2>3 DEF DoubtInv
    <2>5. QED
      BY <2>1, <2>2, <2>4 DEF DoubtInv
  <1>5. CASE h[c].pc \notin {"exec", "scan"}
    <2>1. applied' = applied
      BY <1>5, ZenonT(30) DEF Handler, Loop, ArmDeadline, ReadRequest, ReadEnds, Release, CloseConn, Untrack,
         Done, ScanPair, RangeBegin, Flush, FlushFail, FlushDue, WriteReply, WriteReplyFail,
         ExecWrite, ExecGet, ExecPingStats, StreamEnd
    <2>2. CASE h[c].pc # "reply"
      <3>1. net'[c].out = net[c].out
        <4>1. \/ ReadRequest(c) \/ CloseConn(c) \/ net' = net
          BY <1>5, <2>2, ZenonT(30) DEF Handler, Loop, ArmDeadline, ReadEnds, Release, Untrack,
             Done, ScanPair, RangeBegin, Flush, FlushFail, FlushDue, WriteReply, WriteReplyFail,
             ExecWrite, ExecGet, ExecPingStats, StreamEnd
        <4>2. CASE ReadRequest(c)
          <5>1. Tail(net[c].in) \in Seq(Sent)
            BY <4>2, HeadTailProperties DEF ReadRequest, NetTypeOK
          <5>2. QED
            BY <4>2, <5>1, InEffect DEF ReadRequest
        <4>3. CASE CloseConn(c)
          <5>1. net'[c] = [net[c] EXCEPT !.srv = FALSE, !.in = <<>>]
            BY <4>3 DEF CloseConn, NetTypeOK
          <5>2. QED
            BY <5>1 DEF NetTypeOK
        <4>4. QED
          BY <4>1, <4>2, <4>3
      <3>2. Answered(c)' = Answered(c) /\ ~AtWork(c)
        BY <1>5, <2>2, <3>1 DEF Answered, AtWork
      <3>3. QED
        BY <1>1, <2>1, <3>2, DoubtIdle
    <2>3. CASE h[c].pc = "reply"
      <3>1. WriteReply(c) \/ WriteReplyFail(c)
        BY <2>3 DEF Handler, Loop, ArmDeadline, ReadRequest, ReadEnds, Release, CloseConn, Untrack,
           Done, ScanPair, RangeBegin, Flush, FlushFail, FlushDue,
           ExecWrite, ExecGet, ExecPingStats, StreamEnd
      <3>2. ASSUME NEW e \in Frames, net'[c].out \in {net[c].out, Append(net[c].out, e)}
            PROVE  Answered(c) => Answered(c)'
        <4>1. \A i \in DOMAIN net[c].out : i \in DOMAIN net'[c].out /\ net'[c].out[i] = net[c].out[i]
          BY <1>2, <3>2, Appended, SMTT(30)
        <4>2. QED
          BY <4>1 DEF Answered
      <3>3. CASE WriteReply(c)
        <4>1. net'[c].out = IF net[c].peer THEN Append(net[c].out, h[c].resp) ELSE net[c].out
          BY <1>2, <3>3, WrittenEffect DEF WriteReply
        <4>2. Answered(c) => Answered(c)'
          BY <1>2, <3>2, <4>1
        <4>3. cl[c].pc = "wait" => net[c].peer
          BY DEF ConnInv, CallInv
        <4>4. CASE h[c].resp.n = 0
          BY <1>1, <1>5, <2>1, <2>3, <4>2, <4>4, DoubtIdle DEF AtWork
        <4>5. CASE h[c].resp.n # 0
          <5>1. net[c].peer => Answered(c)'
            <6>1. Final(h[c].resp)
              BY <2>3, <4>5 DEF ConnInv, ReplyInv
            <6>2. net[c].peer => /\ Len(net[c].out) + 1 \in DOMAIN net'[c].out
                                 /\ net'[c].out[Len(net[c].out) + 1] = h[c].resp
              <7>1. ASSUME net[c].peer
                    PROVE  /\ Len(net[c].out) + 1 \in DOMAIN net'[c].out
                           /\ net'[c].out[Len(net[c].out) + 1] = h[c].resp
                <8>1. /\ DOMAIN net'[c].out = 1 .. Len(net[c].out) + 1 /\ Len(net[c].out) \in Nat
                      /\ net'[c].out[Len(net[c].out) + 1] = h[c].resp
                  BY <1>2, <4>1, <7>1, Appended
                <8>2. QED
                  BY <8>1
              <7>2. QED
                BY <7>1
            <6>3. QED
              BY <4>5, <6>1, <6>2 DEF Answered
          <5>2. QED
            BY <1>1, <2>1, <4>2, <4>3, <5>1, DoubtIdle
        <4>6. QED
          BY <4>4, <4>5
      <3>4. CASE WriteReplyFail(c)
        <4>1. net'[c].out \in {net[c].out, Append(net[c].out, Torn)} /\ Torn \in Frames
          BY <3>4, WriteFailsEffect, FrameTypes DEF WriteReplyFail
        <4>2. Answered(c) => Answered(c)'
          BY <3>2, <4>1
        <4>3. CASE h[c].resp.n = 0
          BY <1>1, <1>5, <2>1, <2>3, <4>2, <4>3, DoubtIdle DEF AtWork
        <4>4. CASE h[c].resp.n # 0
          <5>1. ~(cl[c].pc = "wait" /\ Did(c))
            <6>1. SUFFICES ASSUME cl[c].pc = "wait", Did(c) PROVE FALSE
              OBVIOUS
            <6>2. net[c].peer /\ cl[c].call.op \in Writes
              BY <6>1 DEF ConnInv, CallInv, DoubtInv
            <6>3. net[c].srv
              BY <2>3 DEF LinkInv
            <6>4. Len(net[c].out) >= Buffer
              BY <3>4, <6>2, <6>3 DEF WriteReplyFail, WriteFails, Calm
            <6>5. DOMAIN net[c].out = {}
              <7>1. AtWork(c) /\ ~Leaving(c)
                BY <2>3, <4>4 DEF AtWork, Leaving
              <7>2. ~Answered(c) /\ \A i \in DOMAIN net[c].out : net[c].out[i].n # 0
                BY <7>1, NoFarewellYet DEF ConnInv, RequestInv
              <7>3. \A i \in DOMAIN net[c].out : cl[c].call.op = "range"
                BY <7>2 DEF Answered, ConnInv, FrameInv
              <7>4. QED
                BY <6>2, <7>3 DEF Writes
            <6>6. Len(net[c].out) = 0
              BY <1>2, <6>5, NoneThere
            <6>7. QED
              BY <6>4, <6>6, LimitsAssumption
          <5>2. QED
            BY <1>1, <2>1, <5>1, DoubtIdle
        <4>5. QED
          BY <4>3, <4>4
      <3>5. QED
        BY <3>1, <3>3, <3>4
    <2>4. QED
      BY <2>2, <2>3
  <1>6. QED
    BY <1>3, <1>4, <1>5

\* The server process.
LEMMA DrainServer ==
  ASSUME Calm, ServerInd, ClientInd, DrainInd, main # "exited", ServerNext, UNCHANGED cl
  PROVE  DrainInd'
  <1>1. ServingInv /\ \A c \in Conns : LinkInv(c)
    BY DEF DrainInd
  <1>2. ClientInd'
    BY ServerConn
  <1>3. CASE Process \/ Signal \/ ForceClose \/ Exit
    <2>1. /\ ServingInv' /\ \A d \in Conns : LinkInv(d)' /\ (net'[d].srv => net[d].srv)
          /\ \A d \in Conns : h'[d].pc = h[d].pc \/ ~AtWork(d)
      BY <1>1, <1>3, DrainProcess
    <2>2. ASSUME NEW c \in Conns, cl[c].pc # "raw" PROVE DoubtInv(c)'
      <3>1. (Same(c) \/ Quiet(c)) /\ applied' = applied
        BY <1>3, ProcessMoves
      <3>2. net'[c].out = net[c].out
        BY <3>1 DEF Same, Quiet
      <3>3. Answered(c)' = Answered(c)
        BY <3>2 DEF Answered
      <3>4. AtWork(c) => AtWork(c)'
        <4>1. CASE Same(c)
          BY <4>1 DEF Same, AtWork
        <4>2. CASE Quiet(c)
          BY <2>1, <4>2 DEF Quiet, AtWork
        <4>3. QED
          BY <3>1, <4>1, <4>2
      <3>5. DoubtInv(c)
        BY <2>2 DEF DrainInd
      <3>6. QED
        BY <2>1, <3>1, <3>3, <3>4, <3>5, DoubtIdle
    <2>3. QED
      BY <2>1, <2>2 DEF DrainInd
  <1>4. ASSUME NEW d \in Conns, Handler(d) PROVE DrainInd'
    <2>1. ServingInv' /\ \A c \in Conns : LinkInv(c)'
      BY <1>1, <1>4, DrainHandler
    <2>2. ASSUME NEW c \in Conns, cl[c].pc # "raw" PROVE DoubtInv(c)'
      <3>1. ConnInv(c) /\ DoubtInv(c) /\ ConnInv(c)'
        BY <1>2, <2>2 DEF ClientInd, DrainInd
      <3>2. CASE c = d
        BY <1>1, <1>4, <3>1, <3>2, DoubtHandler
      <3>3. CASE c # d
        <4>1. Same(c) /\ net'[c] = net[c]
          BY <1>4, <3>3, HandlerElsewhere
        <4>2. Answered(c)' = Answered(c) /\ AtWork(c)' = AtWork(c)
          BY <4>1 DEF Same, Answered, AtWork
        <4>3. QED
          BY <3>1, <4>1, <4>2, DoubtIdle DEF Same
      <3>4. QED
        BY <3>2, <3>3
    <2>3. QED
      BY <2>1, <2>2 DEF DrainInd
  <1>5. QED
    BY <1>3, <1>4 DEF ServerNext

\* A Client dials, or closes its connection.
LEMMA DoubtDialClose ==
  ASSUME ServerInd, ClientTypeOK, NEW c \in Conns, ConnInv(c), DoubtInv(c),
         ClientDial(c) \/ ClientClose(c)
  PROVE  DoubtInv(c)'
  <1> USE DEF ServerInd, ServerTypeOK
  <1>1. PICK pc \in {"idle", "closed"} : cl' = [cl EXCEPT ![c].pc = pc]
    BY DEF ClientDial, ClientClose
  <1>2. cl'[c] = [cl[c] EXCEPT !.pc = pc] /\ cl[c] \in ClientRecord
    BY <1>1 DEF ClientTypeOK
  <1>3. cl'[c].pc = pc /\ cl'[c].call = cl[c].call /\ cl'[c].res = cl[c].res
    BY <1>2 DEF ClientRecord
  <1>4. applied' = applied
    BY DEF ClientDial, ClientClose, Dial, Hangup
  <1>5. Did(c)' = Did(c)
    BY <1>3, <1>4 DEF Did, Current
  <1>6. CASE ClientDial(c)
    <2>1. cl[c].pc = "none"
      BY <1>6 DEF ClientDial
    <2>2. Current(c) = 0
      BY <2>1 DEF ConnInv, CallInv, NoRequest, Current
    <2>3. ~Did(c)
      BY <2>2 DEF ConnInv, EffectInv, Did
    <2>4. cl[c].res.kind # "eof"
      BY <2>1 DEF DoubtInv
    <2>5. QED
      BY <1>3, <1>5, <2>3, <2>4, DoubtNone
  <1>7. CASE ClientClose(c)
    <2>1. net'[c] = [net[c] EXCEPT !.peer = FALSE, !.out = <<>>]
      BY <1>7 DEF ClientClose, Hangup, NetTypeOK
    <2>2. net'[c].srv = net[c].srv
      BY <2>1 DEF NetTypeOK
    <2>3. QED
      BY <1>3, <1>5, <2>2 DEF DoubtInv
  <1>8. QED
    BY <1>6, <1>7

\* A new call has had no effect, and its write fails on a closed connection
\* only.
LEMMA DoubtCall ==
  ASSUME Calm, ServerInd, ClientTypeOK, NEW c \in Conns, ConnInv(c),
         NEW r \in ClientRequests, Call(c, r) \/ CallFails(c, r)
  PROVE  DoubtInv(c)'
  <1> USE DEF ServerInd, ServerTypeOK
  <1>1. PICK k \in Nat : k = Current(c) + 1
    BY CurrentType
  <1>2. PICK q : q = Number(r, k) /\ q.n = k
    BY CallRequests
  <1>3. applied' = applied /\ cl[c] \in ClientRecord
    BY DEF Call, CallFails, ClientTypeOK
  <1>4. <<c, k>> \notin applied
    <2>1. ~(k <= Current(c))
      BY <1>1, CurrentType
    <2>2. QED
      BY <2>1 DEF ConnInv, EffectInv
  <1>5. CASE Call(c, r)
    <2>1. cl'[c] = [cl[c] EXCEPT !.pc = "wait", !.call = q, !.res = NoResult,
                                 !.got = <<>>, !.snap = <<>>]
      BY <1>1, <1>2, <1>5 DEF Call, ClientTypeOK, Current
    <2>2. cl'[c].call = q /\ cl'[c].res = NoResult
      BY <1>3, <2>1 DEF ClientRecord
    <2>3. ~Did(c)' /\ cl'[c].res.kind # "eof"
      BY <1>2, <1>3, <1>4, <2>2 DEF Did, Current, NoResult
    <2>4. QED
      BY <2>3, DoubtNone
  <1>6. CASE CallFails(c, r)
    <2>1. PICK y : y = Return(c, "eof", "none", 0)
      OBVIOUS
    <2>2. y \in ClientRecord /\ y.pc = "idle"
      <3>1. "eof" \in Kinds
        BY DEF Kinds, Broken
      <3>2. QED
        BY <2>1, <3>1, Returned
    <2>3. cl'[c] = [y EXCEPT !.call = q]
      BY <1>1, <1>2, <1>6, <2>1 DEF CallFails, ClientTypeOK, Current
    <2>4. cl'[c].call = q /\ cl'[c].pc = "idle"
      BY <2>2, <2>3 DEF ClientRecord
    <2>5. ~net[c].srv
      BY <1>6 DEF CallFails, Calm
    <2>6. net' = net
      BY <1>6, <2>5 DEF CallFails, NetTypeOK
    <2>7. ~Did(c)'
      BY <1>2, <1>3, <1>4, <2>4 DEF Did, Current
    <2>8. QED
      BY <2>4, <2>5, <2>6, <2>7, DoubtNone
  <1>7. QED
    BY <1>5, <1>6

\* A call reads a frame, or is given up.
LEMMA DoubtRead ==
  ASSUME Calm, ServerInd, ClientTypeOK, NEW c \in Conns, ConnInv(c), LinkInv(c), DoubtInv(c),
         Read(c) \/ Timeout(c) \/ ReadFails(c)
  PROVE  DoubtInv(c)'
  <1> USE DEF ServerInd, ServerTypeOK
  <1>1. /\ cl[c].pc = "wait" /\ cl[c] \in ClientRecord /\ net[c].out \in Seq(Frames)
        /\ applied' = applied /\ h' = h
    BY DEF Read, Receive, Timeout, ReadFails, ClientTypeOK, NetTypeOK, serverVars
  <1>2. ASSUME NEW x, cl'[c] = x, x.call = cl[c].call, x.pc = "idle", x.res.kind # "eof"
        PROVE  DoubtInv(c)'
    <2>1. Did(c)' = Did(c)
      BY <1>1, <1>2 DEF Did, Current
    <2>2. QED
      BY <1>2, <2>1 DEF DoubtInv
  <1>3. ASSUME NEW kind \in Broken, NEW k \in Nat, cl' = [cl EXCEPT ![c] = Return(c, kind, "none", k)]
        PROVE  cl'[c].call = cl[c].call /\ cl'[c].pc = "idle" /\ cl'[c].res.kind = kind
    <2>1. PICK x : x = Return(c, kind, "none", k)
      OBVIOUS
    <2>2. x.pc = "idle" /\ x.res.kind = kind /\ x.call = cl[c].call
      <3>1. kind \in Kinds
        BY DEF Kinds
      <3>2. QED
        BY <2>1, <3>1, Returned
    <2>3. cl'[c] = x
      BY <1>3, <2>1 DEF ClientTypeOK
    <2>4. QED
      BY <2>2, <2>3
  <1>4. CASE Timeout(c)
    BY <1>2, <1>3, <1>4 DEF Timeout, Broken
  <1>5. CASE ReadFails(c)
    <2>1. cl'[c].call = cl[c].call /\ cl'[c].pc = "idle"
      BY <1>3, <1>5 DEF ReadFails, Broken
    <2>2. ~net[c].srv /\ net' = net /\ \A i \in DOMAIN net[c].out : net[c].out[i].n = 0
      BY <1>5 DEF ReadFails, Calm, serverVars
    <2>3. ~Answered(c) /\ ~AtWork(c)
      BY <2>2 DEF Answered, AtWork, LinkInv
    <2>4. ~Did(c)
      BY <1>1, <2>3 DEF DoubtInv
    <2>5. ~Did(c)'
      BY <1>1, <2>1, <2>4 DEF Did, Current
    <2>6. QED
      BY <2>1, <2>2, <2>5, DoubtNone
  <1>6. CASE Read(c)
    <2>1. net[c].out # <<>> /\ Receive(c)
      BY <1>6, ZenonT(30) DEF Read, Receive
    <2>2. PICK f \in Frames : f = Head(net[c].out)
      BY <1>1, <2>1, Taken
    <2>3. Tail(net[c].out) \in Seq(Frames)
      BY <1>1, <2>1, HeadTailProperties
    <2>4. net'[c].out = Tail(net[c].out)
      BY <2>1, <2>3, OutEffect DEF Receive
    <2>5. f.data \in Seq(Data) /\ f.n \in Nat /\ f.st \in Statuses /\ <<>> \in Seq(Data)
      BY EmptySeq DEF Frames
    <2>6. PICK o : o = Outcome(cl[c].call.op, f)
      OBVIOUS
    <2>7. o \in {"nil", "notfound", "remote", "protocol", "more"} /\ (o = "more" => ~Final(f))
      <3>1. cl[c].call.op \in CallOps
        BY <1>1 DEF ConnInv, CallInv
      <3>2. QED
        BY <2>6, <3>1, Outcomes
    <2>8. PICK page : page = IF f.body = "page" THEN f.data ELSE <<>>
      OBVIOUS
    <2>9. PICK sn \in Seq(Data) : sn = IF f.body = "end" THEN f.data ELSE <<>>
      BY <2>5
    <2>10. CASE o = "more" /\ cl' = [cl EXCEPT ![c].got = @ \o page]
      <3>1. PICK g : g = cl[c].got \o page
        OBVIOUS
      <3>2. cl'[c] = [cl[c] EXCEPT !.got = g]
        BY <2>10, <3>1 DEF ClientTypeOK
      <3>3. cl'[c].pc = "wait" /\ cl'[c].call = cl[c].call /\ cl'[c].res = cl[c].res
        BY <1>1, <3>2 DEF ClientRecord
      <3>4. cl[c].res.kind # "eof"
        BY <1>1 DEF ConnInv, CallInv, NoResult
      <3>5. Answered(c) => Answered(c)'
        <4>1. SUFFICES ASSUME NEW i \in DOMAIN net[c].out, Final(net[c].out[i]), net[c].out[i].n # 0
                       PROVE  Answered(c)'
          BY DEF Answered
        <4>2. /\ DOMAIN net[c].out = 1 .. Len(net[c].out) /\ Len(net[c].out) \in Nat
              /\ DOMAIN net'[c].out = 1 .. Len(net[c].out) - 1 /\ f = net[c].out[1]
              /\ \A j \in DOMAIN net'[c].out : net'[c].out[j] = net[c].out[j + 1]
          BY <1>1, <2>1, <2>2, <2>4, Taken
        <4>3. i # 1
          BY <2>7, <2>10, <4>1, <4>2
        <4>4. i - 1 \in DOMAIN net'[c].out /\ (i - 1) + 1 = i
          BY <4>2, <4>3
        <4>5. net'[c].out[i - 1] = net[c].out[i]
          BY <4>2, <4>4
        <4>6. QED
          BY <4>1, <4>4, <4>5 DEF Answered
      <3>6. Did(c)' = Did(c) /\ AtWork(c)' = AtWork(c)
        BY <1>1, <3>3 DEF Did, Current, AtWork
      <3>7. QED
        BY <1>1, <3>3, <3>4, <3>5, <3>6 DEF DoubtInv
    <2>11. CASE o = "more" /\ cl' = [cl EXCEPT ![c] = Return(c, "stopped", "none", f.n)]
      BY <1>2, <1>3, <2>5, <2>11 DEF Broken
    <2>12. CASE o # "more" /\ cl' = [cl EXCEPT ![c] = [Return(c, o, f.st, f.n) EXCEPT !.snap = sn]]
      <3>1. PICK y : y = Return(c, o, f.st, f.n)
        OBVIOUS
      <3>2. y \in ClientRecord /\ y.pc = "idle" /\ y.call = cl[c].call /\ y.res.kind = o
        <4>1. PICK st \in Statuses \cup {"none"}, k \in Nat : st = f.st /\ k = f.n
          BY <2>5
        <4>2. PICK kind \in Kinds : kind = o
          BY <2>7, <2>12 DEF Kinds, Broken
        <4>3. y = Return(c, kind, st, k)
          BY <3>1, <4>1, <4>2
        <4>4. QED
          BY <4>2, <4>3, Returned
      <3>3. PICK x : x = [y EXCEPT !.snap = sn]
        OBVIOUS
      <3>4. x.pc = "idle" /\ x.call = cl[c].call /\ x.res.kind = o
        BY <3>2, <3>3 DEF ClientRecord
      <3>5. cl'[c] = x
        BY <2>12, <3>1, <3>3 DEF ClientTypeOK
      <3>6. QED
        BY <1>2, <2>7, <3>4, <3>5
    <2>13. QED
      BY <1>6, <2>2, <2>6, <2>8, <2>9, <2>10, <2>11, <2>12, ZenonT(30) DEF Read
  <1>7. QED
    BY <1>4, <1>5, <1>6

\* A step of one Client takes nothing from the others.
LEMMA DrainOwn ==
  ASSUME ServerInd, ClientTypeOK, DrainInd, NEW c \in Conns, Own(c), PeerMove(c), DoubtInv(c)'
  PROVE  DrainInd'
  <1>1. ServingInv' /\ \A d \in Conns : LinkInv(d)'
    BY DrainPeer DEF DrainInd
  <1>2. ASSUME NEW d \in Conns \ {c}, cl'[d].pc # "raw" PROVE DoubtInv(d)'
    <2>1. cl'[d] = cl[d] /\ h' = h /\ applied' = applied /\ net'[d] = net[d]
      BY DEF Own, ClientTypeOK
    <2>2. Answered(d)' = Answered(d) /\ AtWork(d)' = AtWork(d)
      BY <2>1 DEF Answered, AtWork
    <2>3. DoubtInv(d)
      BY <1>2, <2>1 DEF DrainInd
    <2>4. QED
      BY <2>1, <2>2, <2>3, DoubtIdle
  <1>3. QED
    BY <1>1, <1>2 DEF DrainInd

\* Every step of a Client whose caller stops at a transport error.
LEMMA DrainClient ==
  ASSUME Calm, ~Reuse, ServerInd, ClientInd, DrainInd, NEW c \in Conns, ClientStep(c)
  PROVE  DrainInd'
  <1>1. ClientTypeOK /\ cl[c].pc # "raw" /\ ConnInv(c) /\ LinkInv(c) /\ DoubtInv(c)
    <2>1. cl[c].pc \in {"none", "idle", "wait"}
      BY ZenonT(30) DEF ClientStep, ClientDial, Call, CallFails, MayCall, Read, Timeout, ReadFails, ClientClose
    <2>2. QED
      BY <2>1 DEF ClientInd, DrainInd
  <1>2. ASSUME NEW r \in ClientRequests, Call(c, r) \/ CallFails(c, r) PROVE ~cl[c].bad
    BY <1>2 DEF Call, CallFails, MayCall
  <1>3. Own(c) /\ PeerMove(c)
    BY <1>1, <1>2, DialCloseStep, CallStep, ReadStep DEF ClientStep
  <1>4. DoubtInv(c)'
    BY <1>1, DoubtDialClose, DoubtCall, DoubtRead DEF ClientStep
  <1>5. QED
    BY <1>1, <1>3, <1>4, DrainOwn

\* A peer that is no Client.
LEMMA DrainRaw ==
  ASSUME ServerInd, DrainInd, NEW c \in Conns, RawPeer(c)
  PROVE  DrainInd'
  <1>1. PeerMove(c) /\ cl[c].pc = "raw" /\ UNCHANGED cl
    BY PeerMoves DEF RawPeer
  <1>2. ServingInv' /\ \A d \in Conns : LinkInv(d)'
    BY <1>1, DrainPeer DEF DrainInd
  <1>3. UNCHANGED <<h, applied>> /\ \A d \in Conns \ {c} : net'[d] = net[d]
    BY <1>1 DEF PeerMove, Dial, Receive, Hangup, ServerInd, ServerTypeOK, NetTypeOK
  <1>4. ASSUME NEW d \in Conns, cl'[d].pc # "raw" PROVE DoubtInv(d)'
    <2>1. cl'[d] = cl[d] /\ h' = h /\ applied' = applied /\ net'[d] = net[d]
      BY <1>1, <1>3, <1>4
    <2>2. Answered(d)' = Answered(d) /\ AtWork(d)' = AtWork(d)
      BY <2>1 DEF Answered, AtWork
    <2>3. DoubtInv(d)
      BY <1>4, <2>1 DEF DrainInd
    <2>4. QED
      BY <2>1, <2>2, <2>3, DoubtIdle
  <1>5. QED
    BY <1>2, <1>4 DEF DrainInd

\* Nobody has called yet.
LEMMA DrainInit ==
  ASSUME CInit
  PROVE  DrainInd
  <1>1. /\ main = "serving" /\ listener /\ ~draining /\ serve.pc = "accept" /\ applied = {}
        /\ \A c \in Conns : net[c].state = "none" /\ h[c].pc = "none"
    BY DEF CInit, Init
  <1>2. \A c \in Conns : cl[c].pc # "wait" /\ cl[c].res.kind # "eof"
    BY DEF CInit, NewClient, NoResult
  <1>3. ServingInv
    BY <1>1 DEF ServingInv
  <1>4. \A c \in Conns : LinkInv(c) /\ DoubtInv(c)
    BY <1>1, <1>2 DEF LinkInv, DoubtInv, Did
  <1>5. QED
    BY <1>3, <1>4 DEF DrainInd

\* Nothing happens.
LEMMA DrainStutter ==
  ASSUME DrainInd, UNCHANGED cvars
  PROVE  DrainInd'
  <1>1. UNCHANGED serverVars /\ UNCHANGED cl
    BY DEF cvars
  <1>2. ServingInv' /\ \A c \in Conns : LinkInv(c)'
    BY <1>1 DEF DrainInd, ServingInv, LinkInv, serverVars
  <1>3. ASSUME NEW c \in Conns, cl'[c].pc # "raw" PROVE DoubtInv(c)'
    <2>1. Answered(c)' = Answered(c) /\ AtWork(c)' = AtWork(c)
      BY <1>1 DEF Answered, AtWork, serverVars
    <2>2. DoubtInv(c)
      BY <1>1, <1>3 DEF DrainInd
    <2>3. QED
      BY <1>1, <2>1, <2>2, DoubtIdle DEF serverVars
  <1>4. QED
    BY <1>2, <1>3 DEF DrainInd

\* Every step of the Clients, of other peers and of the server.
LEMMA DrainPreserves ==
  ASSUME Calm, ~Reuse, ServerInd, ClientInd, DrainInd, [CNext]_cvars
  PROVE  DrainInd'
  <1>1. CASE main # "exited" /\ ServerNext /\ UNCHANGED cl
    BY <1>1, DrainServer
  <1>2. ASSUME NEW c \in Conns, ClientStep(c) \/ RawPeer(c) PROVE DrainInd'
    BY <1>2, DrainClient, DrainRaw
  <1>3. CASE UNCHANGED cvars
    BY <1>3, DrainStutter
  <1>4. QED
    BY <1>1, <1>2, <1>3 DEF CNext

\* The invariant says what DrainLeavesNoDoubt says.
LEMMA DrainSafe ==
  ASSUME ClientInd, DrainInd
  PROVE  DrainLeavesNoDoubt
  <1>1. SUFFICES ASSUME NEW c \in Conns, cl[c].res.kind = "eof" PROVE ~Did(c)
    BY DEF DrainLeavesNoDoubt, Did, Current
  <1>2. cl[c].pc # "raw"
    BY <1>1 DEF ClientInd, NoResult
  <1>3. QED
    BY <1>1, <1>2 DEF DrainInd, DoubtInv

\* server.go, Shutdown: if its context does not expire and the network works,
\* a call that loses its connection has had no effect, deadlines of calls,
\* slow readers and peers of all kinds notwithstanding.
THEOREM DrainCutsNoWrite ==
  ASSUME ~Reuse, ~Grace, Faults \cap {"net", "accept"} = {}
  PROVE  CSpec => []DrainLeavesNoDoubt
  <1>1. Calm
    BY DEF Calm
  <1>2. CInit => ServerInd /\ ClientInd /\ DrainInd
    BY ClientInit, DrainInit
  <1>3. ServerInd /\ ClientInd /\ DrainInd /\ [CNext]_cvars
          => (ServerInd /\ ClientInd /\ DrainInd)'
    BY <1>1, ClientPreserves, DrainPreserves
  <1>4. ServerInd /\ ClientInd /\ DrainInd => DrainLeavesNoDoubt
    BY DrainSafe
  <1>5. QED
    BY <1>2, <1>3, <1>4, PTL DEF CSpec
=============================================================================
