------------------------------- MODULE MCCodecs ------------------------------
(***************************************************************************)
(* Small instances for TLC of everything that parses: records of a         *)
(* segment, frames of the protocol, arguments and flags of a command.      *)
(* A behaviour is one of one of these parsers; the others wait at an input *)
(* that stays unread.                                                      *)
(***************************************************************************)
EXTENDS Record, WireStreams, Args, Flags

Strings(max) == UNION {[1 .. n -> {1, 2}] : n \in 0 .. max}

----------------------------------------------------------------------------
(* Records.                                                                *)

One(e) == [batch |-> FALSE, entries |-> <<e>>]
Many(es) == [batch |-> TRUE, entries |-> es]

\* Writes of every kind: a put, a put of an empty value under a longer key,
\* a delete, and batches of one and of two entries.
MCWrites ==
    {One(PutEntry(<<1>>, <<2>>)), One(PutEntry(<<1, 0>>, <<>>)), One(DelEntry(<<1>>)),
     Many(<<PutEntry(<<0>>, <<1>>)>>),
     Many(<<PutEntry(<<1>>, <<3>>), DelEntry(<<0>>)>>)}

Stamped(ws) ==
    [n \in DOMAIN ws |-> [batch |-> ws[n].batch, entries |-> ws[n].entries, tstamp |-> n]]

MCLogs == UNION {{Stamped(ws) : ws \in [1 .. n -> MCWrites]} : n \in 0 .. 2}

RecordWaits == RecordInit /\ log = <<>> /\ damage = "none" /\ active

----------------------------------------------------------------------------
(* Frames.                                                                 *)

MCEntries ==
    {[del |-> FALSE, key |-> <<1>>, value |-> <<2>>],
     [del |-> FALSE, key |-> <<1, 2>>, value |-> <<>>],
     [del |-> FALSE, key |-> <<1, 1, 1>>, value |-> <<>>],
     [del |-> FALSE, key |-> <<1>>, value |-> <<2, 2, 2>>],
     [del |-> TRUE, key |-> <<2>>, value |-> <<>>]}

\* Requests of every kind and size, up to one byte or one entry over every
\* limit.  Ours are the ones that EncodeRequest writes.
MCRequests ==
    {Put(k, v) : k \in Strings(3), v \in Strings(3)}
    \cup {KeyOnly(op, k) : op \in {OpGet, OpDelete}, k \in Strings(3)}
    \cup {Batch(es) : es \in UNION {[1 .. n -> MCEntries] : n \in 1 .. 3}}
    \cup {Span(s, e) : s \in Strings(3), e \in Strings(3)}
    \cup {Bare(OpPing), Bare(OpStats)}

Requests == {[kind |-> "request", req |-> r] : r \in {q \in MCRequests : Encodable(q)}}

\* Well framed payloads of another program: any tag with any body of up to
\* MaxRaw symbols, and the requests that EncodeRequest refuses.
MaxRaw == 5
RawPayloads ==
    {<<t>> \o b : t \in 0 .. 8, b \in UNION {[1 .. n -> 0 .. 3] : n \in 0 .. MaxRaw}}
RefusedPayloads ==
    {<<r.op>> \o EncodeRequestBody(r) :
        r \in {q \in MCRequests : ~Encodable(q) /\ FitsFrame(EncodeRequestBody(q))}}
Payloads == {[kind |-> "payload", payload |-> p] : p \in RawPayloads \cup RefusedPayloads}

Headers == {[kind |-> "header", len |-> n] : n \in {0, MaxFramePayload + 1}}

\* A message of any kind, and a request before or after it.
PlainPut == [kind |-> "request", req |-> Put(<<1>>, <<2>>)]
MCConversations ==
    {<<m, PlainPut>> : m \in Requests \cup Payloads \cup Headers}
    \cup {<<PlainPut, m>> : m \in Headers}

\* Pages of up to four pairs, where four is the mark of the end, and pairs
\* that EncodeRangePage refuses (it does not rely on the engine's limits).
MCPairs == {[key |-> <<1>>, value |-> <<>>], [key |-> <<1, 2>>, value |-> <<2, 1>>]}
OverPairs == {[key |-> <<1, 1, 1>>, value |-> <<>>], [key |-> <<1>>, value |-> <<2, 2, 2>>]}
MCPages ==
    {[kind |-> "page", pairs |-> ps] :
        ps \in UNION {[1 .. n -> MCPairs] : n \in 0 .. 4} \cup {<<p>> : p \in OverPairs}}
MCErrors == {[kind |-> "error", status |-> st, msg |-> m] : st \in 1 .. 5, m \in Strings(2)}
LongErrors == {e \in MCErrors : e.msg = <<1, 2>>}
MCEnd == [kind |-> "end"]

MCCalls ==
    {[call |-> "range", answers |-> <<p, q, z>>] :
        p \in MCPages, q \in MCPages, z \in LongErrors \cup {MCEnd}}
    \cup {[call |-> "range", answers |-> <<z>>] : z \in MCErrors \cup {MCEnd}}
    \cup {[call |-> "get", answers |-> <<GetAnswer(v)>>] : v \in Strings(3)}
    \cup {[call |-> "stats", answers |-> <<[kind |-> "stats", keys |-> 1, size |-> 2]>>]}
    \cup {[call |-> c, answers |-> <<e>>] : c \in {"get", "stats"}, e \in MCErrors}

StreamWaits ==
    /\ side = "server" /\ call = "none" /\ sent = <<PlainPut, PlainPut>>
    /\ bytes = <<>> /\ off = 0 /\ seen = <<>> /\ status = StatusOK /\ reader = "read"

----------------------------------------------------------------------------
(* Commands, with arguments up to and over every limit, and their flags.   *)

Lines ==
    {[op |-> "put", key |-> k, value |-> v] :
        k \in {<<>>, <<1>>, <<1, 2>>, <<1, 1, 1>>}, v \in {<<>>, <<2>>, <<2, 1, 2>>}}
    \cup {[op |-> op, key |-> <<2>>, value |-> <<1>>] : op \in {"delete", "other"}}

MCCommands ==
    {[name |-> "put", key |-> k, value |-> v, stdin |-> b] :
        k \in Strings(3), v \in Strings(4), b \in BOOLEAN}
    \cup {[name |-> n, key |-> k] : n \in {"get", "delete"}, k \in Strings(3)}
    \cup {[name |-> "range", start |-> s, end |-> e] : s \in Strings(3), e \in Strings(3)}
    \cup {[name |-> "batch", lines |-> ls] : ls \in UNION {[1 .. n -> Lines] : n \in 0 .. 3}}

Tokens == FlagTokens \cup {"--", "-", "p"}
MaxArgs == 5
MCArgLists == UNION {[1 .. n -> Tokens] : n \in 0 .. MaxArgs}

ArgsWait ==
    /\ cmd = [name |-> "get", key |-> <<>>]
    /\ lineNo = 1 /\ entries = <<>> /\ size = 0 /\ req = Refused /\ verdict = "args"

FlagsWait ==
    /\ args = <<>> /\ i = 1 /\ reordered = <<>> /\ positional = <<>>
    /\ sawDoubleDash = FALSE /\ parsed = "loop" /\ flags = <<>> /\ rest = <<>>

----------------------------------------------------------------------------

VARIABLE parser   \* which of them runs

MCInit ==
    \/ parser = "record" /\ RecordInit /\ StreamWaits /\ ArgsWait /\ FlagsWait
    \/ parser = "stream" /\ RecordWaits /\ StreamInit /\ ArgsWait /\ FlagsWait
    \/ parser = "args" /\ RecordWaits /\ StreamWaits /\ ArgsInit /\ FlagsWait
    \/ parser = "flags" /\ RecordWaits /\ StreamWaits /\ ArgsWait /\ FlagsInit

MCNext ==
    /\ UNCHANGED parser
    /\ \/ /\ parser = "record" /\ RecordNext
          /\ UNCHANGED <<streamVars, argsVars, flagsVars>>
       \/ /\ parser = "stream" /\ StreamNext
          /\ UNCHANGED <<recordVars, argsVars, flagsVars>>
       \/ /\ parser = "args" /\ ArgsNext
          /\ UNCHANGED <<recordVars, streamVars, flagsVars>>
       \/ /\ parser = "flags" /\ FlagsNext
          /\ UNCHANGED <<recordVars, streamVars, argsVars>>

MCSpec == MCInit /\ [][MCNext]_<<parser, recordVars, streamVars, argsVars, flagsVars>>
=============================================================================
