-------------------------------- MODULE Flags -------------------------------
(***************************************************************************)
(* parseFlags (cmd/little-db/subcommands.go), which puts the arguments of  *)
(* a subcommand into the order that the flag package of Go wants.          *)
(*                                                                         *)
(* A token is one of the kinds that the code tells apart: "-b" a boolean   *)
(* flag, "-v" a flag that takes a value, "-v=" one that brings its value,  *)
(* "-u" a flag that is not registered, "--", "-", and "p" anything else.   *)
(***************************************************************************)
EXTENDS Integers, Sequences

CONSTANT ArgLists    \* the argument lists to parse

VARIABLES
    args,       \* the arguments
    i,          \* the index of the loop
    reordered, positional, sawDoubleDash,
    parsed,     \* "loop", "ok" or "error"
    flags, rest \* what fs.Parse has set, with values, and fs.Args()

flagsVars == <<args, i, reordered, positional, sawDoubleDash, parsed, flags, rest>>

FlagTokens == {"-b", "-v", "-v=", "-u"}
NoValue == "none"

\* isKnownFlagToken
IsKnownFlagToken(t) == t \in {"-b", "-v", "-v="}

\* needsFlagSentinel.  Of "--" the code asks only whether it starts with -.
NeedsFlagSentinel(ts) == \E n \in DOMAIN ts : ts[n] \in FlagTokens \cup {"--"}

\* The flag package (external): flags up to the first argument that is not
\* one, or up to "--".
Parse(ts) ==
    LET stop == Len(ts) + 1
        \* from[n]: the result of parsing from token n on.
        from[n \in 1 .. stop + 1] ==
            IF n >= stop THEN [ok |-> n = stop, flags |-> <<>>, rest |-> <<>>]
            ELSE IF ts[n] = "--"
                 THEN [ok |-> TRUE, flags |-> <<>>, rest |-> SubSeq(ts, n + 1, Len(ts))]
            ELSE IF ts[n] \notin FlagTokens
                 THEN [ok |-> TRUE, flags |-> <<>>, rest |-> SubSeq(ts, n, Len(ts))]
            ELSE IF ts[n] = "-u" THEN [ok |-> FALSE, flags |-> <<>>, rest |-> <<>>]
            ELSE LET after == IF ts[n] = "-v" THEN from[n + 2] ELSE from[n + 1]
                     value == IF ts[n] = "-v" /\ n < Len(ts) THEN ts[n + 1] ELSE NoValue
                 IN  [after EXCEPT !.flags = <<<<ts[n], value>>>> \o @]
    IN  from[1]

\* fs.Parse of ts, and the return.
ParseAndReturn(ts) ==
    /\ parsed' = IF Parse(ts).ok THEN "ok" ELSE "error"
    /\ flags' = Parse(ts).flags
    /\ rest' = Parse(ts).rest

FlagsInit ==
    /\ args \in ArgLists
    /\ i = 1
    /\ reordered = <<>>
    /\ positional = <<>>
    /\ sawDoubleDash = FALSE
    /\ parsed = "loop"
    /\ flags = <<>>
    /\ rest = <<>>

InLoop == parsed = "loop" /\ i <= Len(args)

Positional ==
    /\ InLoop
    /\ sawDoubleDash \/ args[i] \notin FlagTokens \cup {"--"}
    /\ positional' = Append(positional, args[i])
    /\ i' = i + 1
    /\ UNCHANGED <<args, reordered, sawDoubleDash, parsed, flags, rest>>

DoubleDash ==
    /\ InLoop
    /\ ~sawDoubleDash /\ args[i] = "--"
    /\ sawDoubleDash' = TRUE
    /\ i' = i + 1
    /\ UNCHANGED <<args, reordered, positional, parsed, flags, rest>>

\* A flag, with the value that the next token is.
Flag ==
    /\ InLoop
    /\ ~sawDoubleDash /\ args[i] \in FlagTokens
    /\ LET takes == args[i] = "-v"
           missing == takes /\ (i = Len(args) \/ IsKnownFlagToken(args[i + 1]))
           taken == SubSeq(args, i, IF takes THEN i + 1 ELSE i)
       IN  IF missing
           THEN /\ ParseAndReturn(Append(reordered, args[i]))
                /\ UNCHANGED <<i, reordered>>
           ELSE /\ reordered' = reordered \o taken
                /\ i' = i + Len(taken)
                /\ UNCHANGED <<parsed, flags, rest>>
    /\ UNCHANGED <<args, positional, sawDoubleDash>>

\* Mutant: the positional arguments follow without "--".
ReturnUnmarked ==
    /\ parsed = "loop" /\ i > Len(args)
    /\ ParseAndReturn(reordered \o positional)
    /\ UNCHANGED <<args, i, reordered, positional, sawDoubleDash>>

Return ==
    /\ parsed = "loop" /\ i > Len(args)
    /\ ParseAndReturn(reordered
                      \o (IF NeedsFlagSentinel(positional) THEN <<"--">> ELSE <<>>)
                      \o positional)
    /\ UNCHANGED <<args, i, reordered, positional, sawDoubleDash>>

FlagsNext == Positional \/ DoubleDash \/ Flag \/ Return

FlagsSpec == FlagsInit /\ [][FlagsNext]_flagsVars

----------------------------------------------------------------------------
(* What the arguments mean: the part that each token plays.                *)

IsReading(f) ==
    \A n \in DOMAIN args :
        LET ended == \E m \in 1 .. n - 1 : f[m] = "end"
            wanted == n > 1 /\ f[n - 1] = "flag" /\ args[n - 1] = "-v"
        IN  f[n] = IF ended THEN "positional"
                   ELSE IF wanted THEN "value"
                   ELSE IF args[n] = "--" THEN "end"
                   ELSE IF args[n] \in FlagTokens THEN "flag" ELSE "positional"

Reading == CHOOSE f \in [DOMAIN args -> {"positional", "value", "end", "flag"}] : IsReading(f)

\* A flag without its value, or a flag that nobody registered.
Wrong(f) ==
    \E n \in DOMAIN args :
        /\ f[n] = "flag"
        /\ \/ args[n] = "-u"
           \/ args[n] = "-v" /\ (n = Len(args) \/ IsKnownFlagToken(args[n + 1]))

\* The tokens of args that play the part p.
Part(f, p) ==
    LET chosen == SelectSeq([n \in DOMAIN args |-> <<args[n], f[n]>>], LAMBDA x : x[2] = p)
    IN  [k \in DOMAIN chosen |-> chosen[k][1]]

\* parseFlags, "reorders args so flag position no longer matters; a literal
\* -- forces every following token to be positional": whatever the order,
\* the flags get the values written after them and the rest is positional,
\* in order; a flag without its value is an error.
FlagsReadAsMeant ==
    parsed # "loop" =>
        IF Wrong(Reading) THEN parsed = "error"
        ELSE /\ parsed = "ok"
             /\ rest = Part(Reading, "positional")
             /\ [n \in DOMAIN flags |-> flags[n][1]] = Part(Reading, "flag")
             /\ SelectSeq([n \in DOMAIN flags |-> flags[n][2]], LAMBDA v : v # NoValue)
                    = Part(Reading, "value")
=============================================================================
