-------------------------------- MODULE Args --------------------------------
(***************************************************************************)
(* The checks that the subcommands of cmd/little-db/subcommands.go make of *)
(* their arguments before they dial: what runPut, runGet, runDelete,       *)
(* runRange and runBatch pass on to the client, and what ends with exit    *)
(* code 2.  Arguments are the bytes that decodeArg and decodeBatchField    *)
(* return.                                                                 *)
(***************************************************************************)
EXTENDS Wire

CONSTANT Commands   \* the commands, with their arguments

VARIABLES
    cmd,     \* the command
    lineNo,  \* of batch: the line of the input that is next
    entries, \* of batch: the entries so far
    size,    \* of batch: encodedSize
    req,     \* the request handed to the client
    verdict  \* "args", "dial" or "usage"

argsVars == <<cmd, lineNo, entries, size, req, verdict>>

BatchHeaderSize == 1
BatchEntryOverhead == 3  \* op, klen, vlen
BatchBodyBudget == MaxFramePayload - 1

ValidateKey(k) == Len(k) # 0 /\ Len(k) <= MaxKeyLen
ValidateValue(v) == Len(v) <= MaxValLen
ValidateRangeBound(b) == Len(b) <= MaxKeyLen

ArgsInit ==
    /\ cmd \in Commands
    /\ lineNo = 1
    /\ entries = <<>>
    /\ size = BatchHeaderSize
    /\ req = Refused
    /\ verdict = "args"

\* The arguments are good: dial with request r.  Otherwise exit code 2.
Decide(good, r) ==
    /\ verdict' = IF good THEN "dial" ELSE "usage"
    /\ req' = IF good THEN r ELSE Refused
    /\ UNCHANGED <<cmd, lineNo, entries, size>>

\* Mutant: a value from stdin is read up to the limit and no further.
ReadStdinShort(v) == IF Len(v) > MaxValLen THEN SubSeq(v, 1, MaxValLen) ELSE v

\* io.LimitReader: one byte more than a value may have.
ReadStdin(v) == IF Len(v) > MaxValLen + 1 THEN SubSeq(v, 1, MaxValLen + 1) ELSE v

RunPut ==
    LET v == IF cmd.stdin THEN ReadStdin(cmd.value) ELSE cmd.value
    IN  /\ verdict = "args" /\ cmd.name = "put"
        /\ Decide(ValidateKey(cmd.key) /\ ValidateValue(v), Put(cmd.key, v))

RunGet ==
    /\ verdict = "args" /\ cmd.name = "get"
    /\ Decide(ValidateKey(cmd.key), KeyOnly(OpGet, cmd.key))

RunDelete ==
    /\ verdict = "args" /\ cmd.name = "delete"
    /\ Decide(ValidateKey(cmd.key), KeyOnly(OpDelete, cmd.key))

RunRange ==
    /\ verdict = "args" /\ cmd.name = "range"
    /\ Decide(/\ ValidateRangeBound(cmd.start) /\ ValidateRangeBound(cmd.end)
              /\ ~(cmd.start # <<>> /\ cmd.end # <<>> /\ After(cmd.start, cmd.end)),
              Span(cmd.start, cmd.end))

\* The loop of runBatch: one line, with its op, key and value.
Line == cmd.lines[lineNo]
LineSize == BatchEntryOverhead + Len(Line.key) + (IF Line.op = "put" THEN Len(Line.value) ELSE 0)

LineGood ==
    /\ ValidateKey(Line.key)
    /\ Line.op \in {"put", "delete"}
    /\ Line.op = "put" => ValidateValue(Line.value)
    /\ size + LineSize <= BatchBodyBudget

\* A delete has no value, whatever the line says.
BatchLine ==
    /\ verdict = "args" /\ cmd.name = "batch"
    /\ lineNo <= Len(cmd.lines)
    /\ IF LineGood
       THEN /\ entries' = Append(entries,
                            [del |-> Line.op = "delete", key |-> Line.key,
                             value |-> IF Line.op = "put" THEN Line.value ELSE <<>>])
            /\ size' = size + LineSize
            /\ lineNo' = lineNo + 1
            /\ UNCHANGED <<cmd, req, verdict>>
       ELSE Decide(FALSE, Refused)

BatchEnd ==
    /\ verdict = "args" /\ cmd.name = "batch"
    /\ lineNo > Len(cmd.lines)
    /\ Decide(Len(entries) \in 1 .. MaxBatchEntries, Batch(entries))

ArgsNext == RunPut \/ RunGet \/ RunDelete \/ RunRange \/ BatchLine \/ BatchEnd

ArgsSpec == ArgsInit /\ [][ArgsNext]_argsVars

----------------------------------------------------------------------------
(* Properties.                                                             *)

\* The request that the command asks for, were there no limits.
Asked ==
    CASE cmd.name = "put" -> Put(cmd.key, cmd.value)
      [] cmd.name = "get" -> KeyOnly(OpGet, cmd.key)
      [] cmd.name = "delete" -> KeyOnly(OpDelete, cmd.key)
      [] cmd.name = "range" -> Span(cmd.start, cmd.end)
      [] cmd.name = "batch" ->
           Batch([i \in DOMAIN cmd.lines |->
                    [del |-> cmd.lines[i].op = "delete", key |-> cmd.lines[i].key,
                     value |-> IF cmd.lines[i].op = "put" THEN cmd.lines[i].value ELSE <<>>]])

\* validateKey ("exits with exitUsage instead of round-tripping to the
\* server") and the budget of runBatch: what is dialled for is what was
\* asked, to the last byte of stdin, and the client can encode it; exit code
\* 2 is for commands that the encoder would have refused, and for lines that
\* are no put and no delete.
ChecksAreTheEncoders ==
    /\ verdict = "dial" => req = Asked /\ Encodable(req)
    /\ verdict = "usage" =>
          \/ cmd.name = "batch" /\ \E i \in DOMAIN cmd.lines : cmd.lines[i].op = "other"
          \/ ~Encodable(Asked)
=============================================================================
