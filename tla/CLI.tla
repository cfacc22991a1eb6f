-------------------------------- MODULE CLI ---------------------------------
(***************************************************************************)
(* The subcommands of cmd/little-db/subcommands.go, each one process with  *)
(* one connection and one call, against the client and the server of       *)
(* Client.tla: what the exit code of a command says of the database.       *)
(*                                                                         *)
(* Args.tla models the arguments; here they are good or end the command.   *)
(***************************************************************************)
EXTENDS Client

CONSTANT StdoutFails   \* whether a write to stdout may fail

ASSUME StdoutAssumption == StdoutFails \in BOOLEAN

VARIABLE
    cmd   \* cmd[c]: the command on connection c, and its exit code

exitOK == 0
exitTransport == 1
exitUsage == 2
exitRemoteBad == 3
exitNotFound == 4
exitOverloaded == 5
Running == 99

CLIInit ==
    /\ Init
    /\ cl = [c \in Conns |-> NewClient("none")]
    /\ cmd = [c \in Conns |-> [pc |-> "start", exit |-> Running]]

\* Mutant: INTERNAL exits as CLOSED does.
ClassifyErrCoarse(res) ==
    CASE res.kind = "nil" -> exitOK
      [] res.kind = "notfound" -> exitNotFound
      [] res.kind = "remote" -> IF res.st = "NOT_FOUND" THEN exitNotFound ELSE exitOverloaded
      [] OTHER -> exitTransport

\* classifyErr, of what a call returned.
ClassifyErr(res) ==
    CASE res.kind = "nil" -> exitOK
      [] res.kind = "notfound" -> exitNotFound
      [] res.kind = "remote" ->
           CASE res.st = "NOT_FOUND" -> exitNotFound
             [] res.st \in {"OVERLOAD", "CLOSED"} -> exitOverloaded
             [] OTHER -> exitRemoteBad
      [] OTHER -> exitTransport

\* Bad arguments: the command ends before it dials.
Usage(c) ==
    /\ cmd[c].pc = "start"
    /\ cmd' = [cmd EXCEPT ![c].pc = "done", ![c].exit = exitUsage]
    /\ UNCHANGED cvars

\* dialClient.
DialClient(c) ==
    /\ cmd[c].pc = "start"
    /\ ClientDial(c)
    /\ cmd' = [cmd EXCEPT ![c].pc = "dialled"]

DialFails(c) ==
    /\ cmd[c].pc = "start"
    /\ ~listener \/ "net" \in Faults
    /\ cmd' = [cmd EXCEPT ![c].pc = "done", ![c].exit = exitTransport]
    /\ UNCHANGED cvars

\* The call of the command.
Issue(c) ==
    /\ cmd[c].pc = "dialled"
    /\ \E r \in ClientRequests : Call(c, r) \/ CallFails(c, r)
    /\ cmd' = [cmd EXCEPT ![c].pc = "called"]

\* The call goes on up to its return.  When stdout does not take a page the
\* callback of runRange stops the stream.
Await(c) ==
    /\ cmd[c].pc = "called"
    /\ Read(c) \/ Timeout(c) \/ ReadFails(c)
    /\ UNCHANGED cmd

\* The exit code of the subcommand with what its call returned.  fails:
\* stdout does not take the value of get.
RunWrite(res) == ClassifyErr(res)
RunPing(res) == ClassifyErr(res)
RunStats(res) == ClassifyErr(res)
RunGet(res, fails) ==
    IF res.kind = "nil" /\ fails THEN exitTransport ELSE ClassifyErr(res)
RunRange(res) ==
    IF res.kind = "stopped" THEN exitTransport ELSE ClassifyErr(res)

ExitCode(op, res, fails) ==
    CASE op \in Writes -> RunWrite(res)
      [] op = "ping" -> RunPing(res)
      [] op = "stats" -> RunStats(res)
      [] op = "get" -> RunGet(res, fails)
      [] op = "range" -> RunRange(res)

\* The command ends, and its deferred Close with it.
Finish(c) ==
    /\ cmd[c].pc = "called"
    /\ ClientClose(c)
    /\ \E fails \in IF StdoutFails THEN BOOLEAN ELSE {FALSE} :
         cmd' = [cmd EXCEPT ![c].pc = "done",
                            ![c].exit = ExitCode(cl[c].call.op, cl[c].res, fails)]

CLIStep(c) ==
    Usage(c) \/ DialClient(c) \/ DialFails(c) \/ Issue(c) \/ Await(c) \/ Finish(c)

CLINext ==
    \/ main # "exited" /\ ServerNext /\ UNCHANGED <<cl, cmd>>
    \/ \E c \in Conns : CLIStep(c)

clivars == <<cvars, cmd>>

CLISpec == CLIInit /\ [][CLINext]_clivars

----------------------------------------------------------------------------
(* Properties.                                                             *)

\* docs/cli.md, "Exit codes", with classifyErr: a write that exits with 0
\* took effect, and one that exits with 2, 4 or 5 ("back off and retry") did
\* not and never will, so that trying again does nothing twice.
ExitCodesTrue ==
    \A c \in Conns :
        LET did == <<c, cl[c].call.n>> \in applied
        IN  /\ cmd[c].exit = exitOK /\ cl[c].call.op \in Writes => did
            /\ cmd[c].exit \in {exitUsage, exitNotFound, exitOverloaded} => ~did
=============================================================================
