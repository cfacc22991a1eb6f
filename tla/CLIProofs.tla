----------------------------- MODULE CLIProofs ------------------------------
(***************************************************************************)
(* Proofs, for every value of the constants, that exit codes are true and  *)
(* that a drain leaves no command in doubt.  A command makes one call on a *)
(* connection of its own, so that the invariants of ServerProofs,          *)
(* ClientProofs and CallProofs hold of it, whatever Reuse is: it never     *)
(* goes on after a transport error.                                        *)
(***************************************************************************)
EXTENDS CLI, CallProofs

USE DEF engineVars, lifeVars, HandlerRecord, StreamRecord, NetRecord

CmdRecord == [pc : {"start", "dialled", "called", "done"}, exit : Nat]

\* How far the command and its Client are, and where its exit code is from.
CmdInv(c) ==
    /\ cl[c].pc # "raw"
    /\ cmd[c].pc # "done" => cmd[c].exit = Running
    /\ cmd[c].pc = "start" => cl[c].pc = "none"
    /\ cmd[c].pc = "dialled" => cl[c].pc = "idle" /\ ~cl[c].bad
    /\ cmd[c].pc = "called" => cl[c].pc \in {"idle", "wait"} /\ Current(c) # 0
    /\ cmd[c].pc = "done" =>
         \/ cl[c].pc = "none" /\ cmd[c].exit \in {exitUsage, exitTransport}
         \/ /\ cl[c].pc = "closed" /\ Current(c) # 0
            /\ \E fails \in BOOLEAN : cmd[c].exit = ExitCode(cl[c].call.op, cl[c].res, fails)

CmdInd == cmd \in [Conns -> CmdRecord] /\ \A c \in Conns : CmdInv(c)

\* The exit codes of classifyErr.
LEMMA Classified ==
  ASSUME NEW res
  PROVE  /\ ClassifyErr(res) \in {exitOK, exitTransport, exitRemoteBad, exitNotFound, exitOverloaded}
         /\ ClassifyErr(res) = exitOK => res.kind = "nil"
         /\ ClassifyErr(res) = exitNotFound =>
              res.kind = "notfound" \/ (res.kind = "remote" /\ res.st = "NOT_FOUND")
         /\ ClassifyErr(res) = exitOverloaded => res.st \in {"OVERLOAD", "CLOSED"}
  BY DEF ClassifyErr, exitOK, exitTransport, exitRemoteBad, exitNotFound, exitOverloaded

\* The exit codes of a subcommand.
LEMMA Exits ==
  ASSUME NEW op \in CallOps, NEW res, NEW fails \in BOOLEAN
  PROVE  ExitCode(op, res, fails) \in {ClassifyErr(res), exitTransport}
  BY DEF ExitCode, CallOps, Writes, RunWrite, RunPing, RunStats, RunGet, RunRange

\* A step of the command on c.
LEMMA CmdStep ==
  ASSUME ServerInd, ClientInd, CmdInd, NEW c \in Conns, CLIStep(c)
  PROVE  ServerInd' /\ ClientInd' /\ CmdInd'
  <1>1. ClientTypeOK /\ cl[c].pc # "raw" /\ ConnInv(c) /\ CmdInv(c) /\ cmd[c] \in CmdRecord
    <2>1. CmdInv(c) /\ cl[c].pc # "raw" /\ cmd[c] \in CmdRecord
      BY DEF CmdInd, CmdInv
    <2>2. QED
      BY <2>1 DEF ClientInd
  <1>2. ASSUME ConnInv(c)', Own(c), PeerMove(c), cmd' = [cmd EXCEPT ![c] = cmd'[c]],
               cmd'[c] \in CmdRecord, CmdInv(c)'
        PROVE  ServerInd' /\ ClientInd' /\ CmdInd'
    <2>1. ServerInd' /\ ClientInd'
      BY <1>1, <1>2, OwnStep
    <2>2. \A d \in Conns \ {c} : cl'[d] = cl[d] /\ cmd'[d] = cmd[d]
      BY <1>1, <1>2 DEF Own, ClientTypeOK, CmdInd
    <2>3. \A d \in Conns \ {c} : CmdInv(d)'
      BY <2>2 DEF CmdInd, CmdInv, Current
    <2>4. cmd' \in [Conns -> CmdRecord]
      BY <1>2 DEF CmdInd
    <2>5. QED
      BY <1>2, <2>1, <2>3, <2>4 DEF CmdInd
  <1>3. CASE Usage(c) \/ DialFails(c)
    <2>1. UNCHANGED cvars /\ cmd[c].pc = "start"
      BY <1>3 DEF Usage, DialFails
    <2>2. PICK e \in {exitUsage, exitTransport} : cmd' = [cmd EXCEPT ![c].pc = "done", ![c].exit = e]
      BY <1>3 DEF Usage, DialFails
    <2>3. e \in Nat
      BY DEF exitUsage, exitTransport
    <2>4. cmd'[c] = [cmd[c] EXCEPT !.pc = "done", !.exit = e] /\ cmd' = [cmd EXCEPT ![c] = cmd'[c]]
      BY <2>2 DEF CmdInd
    <2>5. cmd'[c] \in CmdRecord /\ cmd'[c].pc = "done" /\ cmd'[c].exit = e
      BY <1>1, <2>3, <2>4 DEF CmdRecord
    <2>6. cl' = cl
      BY <2>1 DEF cvars
    <2>7. CmdInv(c)'
      BY <1>1, <2>1, <2>5, <2>6 DEF CmdInv
    <2>8. PICK x \in ClientRecord : x = cl[c]
      BY <1>1 DEF ClientTypeOK
    <2>9. Own(c) /\ PeerMove(c)
      <3>1. cl' = [cl EXCEPT ![c] = x] /\ x.pc # "raw"
        BY <1>1, <2>6, <2>8 DEF ClientTypeOK
      <3>2. QED
        BY <2>1, <3>1 DEF Own, PeerMove, cvars, serverVars
    <2>10. ConnInv(c)'
      <3>1. Same(c)
        BY <2>1 DEF Same, cvars, serverVars
      <3>2. QED
        BY <1>1, <3>1, SameConn
    <2>11. QED
      BY <1>2, <2>4, <2>5, <2>7, <2>9, <2>10
  <1>4. CASE DialClient(c)
    <2>1. ClientDial(c) /\ cmd[c].pc = "start"
      BY <1>4 DEF DialClient
    <2>2. ConnInv(c)' /\ Own(c) /\ PeerMove(c)
      BY <1>1, <2>1, DialCloseStep
    <2>3. cl'[c] = [cl[c] EXCEPT !.pc = "idle"] /\ cl[c] \in ClientRecord /\ cl[c].pc = "none"
      BY <1>1, <2>1 DEF ClientDial, ClientTypeOK
    <2>4. cl'[c].pc = "idle" /\ cl'[c].bad = cl[c].bad /\ ~cl[c].bad
      BY <1>1, <2>3 DEF ClientRecord, ConnInv, CallInv
    <2>5. cmd'[c] = [cmd[c] EXCEPT !.pc = "dialled"] /\ cmd' = [cmd EXCEPT ![c] = cmd'[c]]
      BY <1>4 DEF DialClient, CmdInd
    <2>6. cmd'[c] \in CmdRecord /\ cmd'[c].pc = "dialled" /\ cmd'[c].exit = cmd[c].exit
      BY <1>1, <2>5 DEF CmdRecord
    <2>7. CmdInv(c)'
      BY <1>1, <2>1, <2>4, <2>6 DEF CmdInv
    <2>8. QED
      BY <1>2, <2>2, <2>5, <2>6, <2>7
  <1>5. CASE Issue(c)
    <2>1. PICK r \in ClientRequests : Call(c, r) \/ CallFails(c, r)
      BY <1>5 DEF Issue
    <2>2. cmd[c].pc = "dialled" /\ ~cl[c].bad
      BY <1>1, <1>5 DEF Issue, CmdInv
    <2>3. ConnInv(c)' /\ Own(c) /\ PeerMove(c)
      BY <1>1, <2>1, <2>2, CallStep
    <2>4. PICK k \in Nat : k = Current(c) + 1 /\ k # 0
      BY <1>1, CurrentType
    <2>5. PICK q : q = Number(r, k) /\ q.n = k
      BY CallRequests
    <2>6. cl'[c].pc \in {"idle", "wait"} /\ cl'[c].call = q
      <3>1. CASE Call(c, r)
        <4>1. cl'[c] = [cl[c] EXCEPT !.pc = "wait", !.call = q, !.res = NoResult,
                                     !.got = <<>>, !.snap = <<>>]
          BY <1>1, <2>4, <2>5, <3>1 DEF Call, ClientTypeOK, Current
        <4>2. QED
          BY <1>1, <4>1 DEF ClientTypeOK, ClientRecord
      <3>2. CASE CallFails(c, r)
        <4>1. PICK y : y = Return(c, "eof", "none", 0)
          OBVIOUS
        <4>2. y \in ClientRecord /\ y.pc = "idle"
          <5>1. "eof" \in Kinds
            BY DEF Kinds, Broken
          <5>2. QED
            BY <1>1, <4>1, <5>1, Returned
        <4>3. cl'[c] = [y EXCEPT !.call = q]
          BY <1>1, <2>4, <2>5, <3>2, <4>1 DEF CallFails, ClientTypeOK, Current
        <4>4. QED
          BY <4>2, <4>3 DEF ClientRecord
      <3>3. QED
        BY <2>1, <3>1, <3>2
    <2>7. cmd'[c] = [cmd[c] EXCEPT !.pc = "called"] /\ cmd' = [cmd EXCEPT ![c] = cmd'[c]]
      BY <1>5 DEF Issue, CmdInd
    <2>8. cmd'[c] \in CmdRecord /\ cmd'[c].pc = "called" /\ cmd'[c].exit = cmd[c].exit
      BY <1>1, <2>7 DEF CmdRecord
    <2>9. CmdInv(c)'
      BY <1>1, <2>2, <2>4, <2>5, <2>6, <2>8 DEF CmdInv, Current
    <2>10. QED
      BY <1>2, <2>3, <2>7, <2>8, <2>9
  <1>6. CASE Await(c)
    <2>1. (Read(c) \/ Timeout(c) \/ ReadFails(c)) /\ cmd[c].pc = "called" /\ cmd' = cmd
      BY <1>6 DEF Await
    <2>2. ConnInv(c)' /\ Own(c) /\ PeerMove(c)
      BY <1>1, <2>1, ReadStep
    <2>3. cl'[c].pc \in {"idle", "wait"} /\ cl'[c].call = cl[c].call
      <3>1. cl[c] \in ClientRecord /\ cl[c].pc = "wait"
        BY <1>1, <2>1 DEF ClientTypeOK, Read, Timeout, ReadFails
      <3>2. \A kind, st, from : /\ Return(c, kind, st, from).pc = "idle"
                                /\ Return(c, kind, st, from).call = cl[c].call
                                /\ \A w : /\ [Return(c, kind, st, from) EXCEPT !.snap = w].pc = "idle"
                                          /\ [Return(c, kind, st, from) EXCEPT !.snap = w].call = cl[c].call
        BY <3>1 DEF Return, ClientRecord
      <3>3. ASSUME NEW g, cl' = [cl EXCEPT ![c].got = g]
            PROVE  cl'[c].pc = "wait" /\ cl'[c].call = cl[c].call
        <4>1. cl'[c] = [cl[c] EXCEPT !.got = g]
          BY <1>1, <3>3 DEF ClientTypeOK
        <4>2. QED
          BY <3>1, <4>1 DEF ClientRecord
      <3>4. ASSUME NEW x, cl' = [cl EXCEPT ![c] = x] PROVE cl'[c] = x
        BY <1>1, <3>4 DEF ClientTypeOK
      <3>5. CASE Read(c)
        <4>1. PICK f, o, page, w : /\ f = Head(net[c].out) /\ o = Outcome(cl[c].call.op, f)
                                   /\ page = IF f.body = "page" THEN f.data ELSE <<>>
                                   /\ w = IF f.body = "end" THEN f.data ELSE <<>>
          OBVIOUS
        <4>2. \/ cl' = [cl EXCEPT ![c].got = @ \o page]
              \/ cl' = [cl EXCEPT ![c] = Return(c, "stopped", "none", f.n)]
              \/ cl' = [cl EXCEPT ![c] = [Return(c, o, f.st, f.n) EXCEPT !.snap = w]]
          BY <3>5, <4>1, ZenonT(30) DEF Read
        <4>3. CASE cl' = [cl EXCEPT ![c].got = @ \o page]
          <5>1. PICK g : g = cl[c].got \o page
            OBVIOUS
          <5>2. cl' = [cl EXCEPT ![c].got = g]
            BY <4>3, <5>1
          <5>3. QED
            BY <3>3, <5>2
        <4>4. CASE cl' = [cl EXCEPT ![c] = Return(c, "stopped", "none", f.n)]
          <5>1. cl'[c] = Return(c, "stopped", "none", f.n)
            BY <3>4, <4>4
          <5>2. QED
            BY <3>2, <5>1
        <4>5. CASE cl' = [cl EXCEPT ![c] = [Return(c, o, f.st, f.n) EXCEPT !.snap = w]]
          <5>1. cl'[c] = [Return(c, o, f.st, f.n) EXCEPT !.snap = w]
            BY <3>4, <4>5
          <5>2. QED
            BY <3>2, <5>1
        <4>6. QED
          BY <4>2, <4>3, <4>4, <4>5
      <3>6. CASE Timeout(c) \/ ReadFails(c)
        BY <3>2, <3>4, <3>6 DEF Timeout, ReadFails
      <3>7. QED
        BY <2>1, <3>5, <3>6
    <2>4. cmd' = [cmd EXCEPT ![c] = cmd'[c]] /\ cmd'[c] = cmd[c]
      BY <2>1 DEF CmdInd
    <2>5. CmdInv(c)'
      BY <1>1, <2>1, <2>3, <2>4 DEF CmdInv, Current
    <2>6. QED
      BY <1>1, <1>2, <2>2, <2>4, <2>5
  <1>7. CASE Finish(c)
    <2>1. ClientClose(c) /\ cmd[c].pc = "called"
      BY <1>7 DEF Finish
    <2>2. ConnInv(c)' /\ Own(c) /\ PeerMove(c)
      BY <1>1, <2>1, DialCloseStep
    <2>3. cl'[c] = [cl[c] EXCEPT !.pc = "closed"] /\ cl[c] \in ClientRecord
      BY <1>1, <2>1 DEF ClientClose, ClientTypeOK
    <2>4. cl'[c].pc = "closed" /\ cl'[c].call = cl[c].call /\ cl'[c].res = cl[c].res
      BY <2>3 DEF ClientRecord
    <2>5. PICK fails \in BOOLEAN :
            cmd' = [cmd EXCEPT ![c].pc = "done", ![c].exit = ExitCode(cl[c].call.op, cl[c].res, fails)]
      BY <1>7 DEF Finish
    <2>6. PICK e : e = ExitCode(cl[c].call.op, cl[c].res, fails)
      OBVIOUS
    <2>7. e \in Nat
      <3>1. cl[c].call.op \in CallOps
        BY <1>1, <2>1 DEF CmdInv, ConnInv, CallInv
      <3>2. e \in {ClassifyErr(cl[c].res), exitTransport}
        BY <2>6, <3>1, Exits
      <3>3. QED
        BY <3>2, Classified DEF exitOK, exitTransport, exitRemoteBad, exitNotFound, exitOverloaded
    <2>8. cmd'[c] = [cmd[c] EXCEPT !.pc = "done", !.exit = e] /\ cmd' = [cmd EXCEPT ![c] = cmd'[c]]
      BY <2>5, <2>6 DEF CmdInd
    <2>9. cmd'[c] \in CmdRecord /\ cmd'[c].pc = "done" /\ cmd'[c].exit = e
      BY <1>1, <2>7, <2>8 DEF CmdRecord
    <2>10. CmdInv(c)'
      BY <1>1, <2>1, <2>4, <2>6, <2>9 DEF CmdInv, Current
    <2>11. QED
      BY <1>2, <2>2, <2>8, <2>9, <2>10
  <1>8. QED
    BY <1>3, <1>4, <1>5, <1>6, <1>7 DEF CLIStep

\* Every step of the commands and of the server.
LEMMA CLIPreserves ==
  ASSUME ServerInd, ClientInd, CmdInd, [CLINext]_clivars
  PROVE  ServerInd' /\ ClientInd' /\ CmdInd'
  <1>1. UNCHANGED <<cl, cmd>> => CmdInd'
    BY DEF CmdInd, CmdInv, Current
  <1>2. CASE main # "exited" /\ ServerNext /\ UNCHANGED <<cl, cmd>>
    BY <1>1, <1>2, ServerStep, ServerConn
  <1>3. ASSUME NEW c \in Conns, CLIStep(c) PROVE ServerInd' /\ ClientInd' /\ CmdInd'
    BY <1>3, CmdStep
  <1>4. CASE UNCHANGED clivars
    <2>1. UNCHANGED serverVars /\ UNCHANGED <<cl, cmd>>
      BY <1>4 DEF clivars, cvars
    <2>2. ServerInd'
      BY <2>1, ServerPreserves
    <2>3. \A c \in Conns : Same(c)
      BY <2>1 DEF serverVars, Same
    <2>4. ClientInd'
      BY <2>1, <2>3, SameConn DEF ClientInd, ClientTypeOK
    <2>5. QED
      BY <1>1, <2>1, <2>2, <2>4
  <1>5. QED
    BY <1>2, <1>3, <1>4 DEF CLINext

\* No command has started.
LEMMA CLIStart ==
  ASSUME CLIInit
  PROVE  ServerInd /\ ClientInd /\ CmdInd
  <1>1. CInit
    BY DEF CLIInit, CInit
  <1>2. \A c \in Conns : cl[c].pc = "none"
    BY DEF CLIInit, NewClient
  <1>3. CmdInd
    BY <1>2 DEF CLIInit, CmdInd, CmdInv, CmdRecord, Running
  <1>4. QED
    BY <1>1, <1>3, ClientInit

\* The invariants say what ExitCodesTrue says.
LEMMA CLISafe ==
  ASSUME ClientInd, CmdInd
  PROVE  ExitCodesTrue
  <1> SUFFICES ASSUME NEW c \in Conns
               PROVE  /\ cmd[c].exit = exitOK /\ cl[c].call.op \in Writes => Did(c)
                      /\ cmd[c].exit \in {exitUsage, exitNotFound, exitOverloaded} => ~Did(c)
    BY DEF ExitCodesTrue, Did, Current
  <1>1. CmdInv(c) /\ ConnInv(c)
    BY DEF CmdInd, CmdInv, ClientInd
  <1> USE DEF exitOK, exitTransport, exitUsage, exitRemoteBad, exitNotFound, exitOverloaded, Running
  <1>2. CASE cmd[c].pc # "done"
    BY <1>1, <1>2 DEF CmdInv
  <1>3. CASE cl[c].pc = "none" /\ cmd[c].exit \in {exitUsage, exitTransport}
    <2>1. Current(c) = 0
      BY <1>1, <1>3 DEF ConnInv, CallInv, NoRequest, Current
    <2>2. ~Did(c)
      BY <1>1, <2>1 DEF ConnInv, EffectInv, Did
    <2>3. QED
      BY <1>3, <2>2
  <1>4. ASSUME Current(c) # 0, NEW fails \in BOOLEAN,
               cmd[c].exit = ExitCode(cl[c].call.op, cl[c].res, fails)
        PROVE  /\ cmd[c].exit = exitOK /\ cl[c].call.op \in Writes => Did(c)
               /\ cmd[c].exit \in {exitUsage, exitNotFound, exitOverloaded} => ~Did(c)
    <2>1. cl[c].call.op \in CallOps
      BY <1>1, <1>4 DEF ConnInv, CallInv
    <2>2. cmd[c].exit \in {ClassifyErr(cl[c].res), exitTransport}
      BY <1>4, <2>1, Exits
    <2>3. cmd[c].exit = exitOK => cl[c].res.kind = "nil"
      BY <2>2, Classified
    <2>4. cmd[c].exit \in {exitUsage, exitNotFound, exitOverloaded} =>
            cl[c].res.kind = "notfound" \/ cl[c].res.st \in {"NOT_FOUND", "OVERLOAD", "CLOSED"}
      BY <2>2, Classified
    <2>5. QED
      BY <1>1, <2>3, <2>4 DEF ConnInv, ResultInv, Refusals
  <1>5. QED
    BY <1>1, <1>2, <1>3, <1>4 DEF CmdInv

\* cmd/little-db, the subcommands: an exit code of 0 means that a write took
\* effect; 2, 4 and 5 mean that it did not and never will, whatever fails,
\* whenever the server drains and whatever other commands do.
THEOREM ExitCodesNeverLie == CLISpec => []ExitCodesTrue
  <1>1. CLIInit => ServerInd /\ ClientInd /\ CmdInd
    BY CLIStart
  <1>2. ServerInd /\ ClientInd /\ CmdInd /\ [CLINext]_clivars
          => (ServerInd /\ ClientInd /\ CmdInd)'
    BY CLIPreserves
  <1>3. ServerInd /\ ClientInd /\ CmdInd => ExitCodesTrue
    BY CLISafe
  <1>4. QED
    BY <1>1, <1>2, <1>3, PTL DEF CLISpec

----------------------------------------------------------------------------
(* A drain that is not cut short.                                          *)

\* A step of a command.
LEMMA CmdDrain ==
  ASSUME Calm, ServerInd, ClientInd, CmdInd, DrainInd, NEW c \in Conns, CLIStep(c)
  PROVE  DrainInd'
  <1>1. ClientTypeOK /\ cl[c].pc # "raw" /\ CmdInv(c)
    BY DEF CmdInd, CmdInv, ClientInd
  <1>2. ConnInv(c) /\ LinkInv(c) /\ DoubtInv(c)
    BY <1>1 DEF ClientInd, DrainInd
  <1>3. CASE Usage(c) \/ DialFails(c)
    BY <1>3, DrainStutter DEF Usage, DialFails
  <1>4. CASE DialClient(c) \/ Finish(c)
    <2>1. ClientDial(c) \/ ClientClose(c)
      BY <1>4 DEF DialClient, Finish
    <2>2. Own(c) /\ PeerMove(c)
      BY <1>1, <1>2, <2>1, DialCloseStep
    <2>3. DoubtInv(c)'
      BY <1>1, <1>2, <2>1, DoubtDialClose
    <2>4. QED
      BY <1>1, <2>2, <2>3, DrainOwn
  <1>5. CASE Issue(c)
    <2>1. PICK r \in ClientRequests : Call(c, r) \/ CallFails(c, r)
      BY <1>5 DEF Issue
    <2>2. ~cl[c].bad
      BY <1>1, <1>5 DEF Issue, CmdInv
    <2>3. Own(c) /\ PeerMove(c)
      BY <1>1, <1>2, <2>1, <2>2, CallStep
    <2>4. DoubtInv(c)'
      BY <1>1, <1>2, <2>1, DoubtCall
    <2>5. QED
      BY <1>1, <2>3, <2>4, DrainOwn
  <1>6. CASE Await(c)
    <2>1. Read(c) \/ Timeout(c) \/ ReadFails(c)
      BY <1>6 DEF Await
    <2>2. Own(c) /\ PeerMove(c)
      BY <1>1, <1>2, <2>1, ReadStep
    <2>3. DoubtInv(c)'
      BY <1>1, <1>2, <2>1, DoubtRead
    <2>4. QED
      BY <1>1, <2>2, <2>3, DrainOwn
  <1>7. QED
    BY <1>3, <1>4, <1>5, <1>6 DEF CLIStep

\* Every step of the commands and of the server.
LEMMA CLIDrain ==
  ASSUME Calm, ServerInd, ClientInd, CmdInd, DrainInd, [CLINext]_clivars
  PROVE  DrainInd'
  <1>1. CASE main # "exited" /\ ServerNext /\ UNCHANGED <<cl, cmd>>
    BY <1>1, DrainServer
  <1>2. ASSUME NEW c \in Conns, CLIStep(c) PROVE DrainInd'
    BY <1>2, CmdDrain
  <1>3. CASE UNCHANGED clivars
    BY <1>3, DrainStutter DEF clivars
  <1>4. QED
    BY <1>1, <1>2, <1>3 DEF CLINext

\* server.go, Shutdown, seen from the shell: if its context does not expire
\* and the network works, a command whose connection the server ends had no
\* effect, so that it may be run again.
THEOREM DrainSparesCommands ==
  ASSUME ~Grace, Faults \cap {"net", "accept"} = {}
  PROVE  CLISpec => []DrainLeavesNoDoubt
  <1>1. Calm
    BY DEF Calm
  <1>2. CLIInit => ServerInd /\ ClientInd /\ CmdInd /\ DrainInd
    <2>1. CLIInit => CInit
      BY DEF CLIInit, CInit
    <2>2. QED
      BY <2>1, CLIStart, DrainInit
  <1>3. ServerInd /\ ClientInd /\ CmdInd /\ DrainInd /\ [CLINext]_clivars
          => (ServerInd /\ ClientInd /\ CmdInd /\ DrainInd)'
    BY <1>1, CLIPreserves, CLIDrain
  <1>4. ServerInd /\ ClientInd /\ CmdInd /\ DrainInd => DrainLeavesNoDoubt
    BY DrainSafe
  <1>5. QED
    BY <1>2, <1>3, <1>4, PTL DEF CLISpec
=============================================================================
