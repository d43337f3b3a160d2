-------------------------- MODULE DryRunPreflight ---------------------------
(***************************************************************************)
(* Upload with Options.DryRun: each endpoint's goroutine connects, proves  *)
(* the target directory writable by sending a throwaway probe file and     *)
(* deleting it, and sends one DryRunEvent (runEndpoint, runDryRun,         *)
(* probeWritable and newProbeFile in dispatch.go). The names of the probes *)
(* are random, so each endpoint has its own, and no real file is touched.  *)
(* The caller is the command line program: processEvents and the exit code *)
(* of a run with --dry-run (cmd/uploadfun).                                *)
(***************************************************************************)
EXTENDS Naturals, Sequences

CONSTANTS
  Endpoints,
  Protocol,   \* Endpoint.Protocol; "other" has no transport
  Settings    \* the values of stallTimeout to consider

ASSUME DryRunAssumption ==
  /\ Protocol \in [Endpoints -> {"ftp", "ftps", "sftp", "other"}]
  /\ Settings \subseteq [Endpoints -> BOOLEAN]

VARIABLES
  stallTimeout,   \* whether Endpoint.StallTimeout is set; 0 is none
  pc,         \* where the endpoint's goroutine is
  outcome,    \* the error runDryRun holds; "ok" is nil
  out,        \* outcome of the DryRunEvent being sent
  told,       \* the DryRunEvents the caller has received, in order
  session,    \* the connection is open
  local,      \* the local probe file exists
  probe,      \* what the server holds under the probe's name
  closed,     \* the event channel is closed
  \* The command line program that receives.
  failed,     \* processEvents' result so far
  exit        \* the exit code, NoExit before

cliVars == <<failed, exit>>
vars == <<stallTimeout, pc, outcome, out, told, session, local, probe, closed, cliVars>>

NoExit == 255
exitOK == 0
exitPartialFailure == 1

Outcomes == {"ok", "protocol", "connect", "tempfile", "write", "cleanup"}
Places == {"spawned", "dial", "newProbe", "upload", "delete", "cleanLocal",
           "report", "disconnect", "end"}
NoEvent == "none"

TypeOK ==
  /\ stallTimeout \in [Endpoints -> BOOLEAN]
  /\ pc \in [Endpoints -> Places]
  /\ outcome \in [Endpoints -> Outcomes]
  /\ out \in [Endpoints -> Outcomes \cup {NoEvent}]
  /\ told \in [Endpoints -> Seq(Outcomes)]
  /\ session \in [Endpoints -> BOOLEAN]
  /\ local \in [Endpoints -> BOOLEAN]
  /\ probe \in [Endpoints -> {"absent", "short", "full"}]
  /\ closed \in BOOLEAN
  /\ failed \in BOOLEAN
  /\ exit \in {NoExit, exitOK, exitPartialFailure}

Init ==
  /\ stallTimeout \in Settings
  /\ pc = [e \in Endpoints |-> "spawned"]
  /\ outcome = [e \in Endpoints |-> "ok"]
  /\ out = [e \in Endpoints |-> NoEvent]
  /\ told = [e \in Endpoints |-> <<>>]
  /\ session = [e \in Endpoints |-> FALSE]
  /\ local = [e \in Endpoints |-> FALSE]
  /\ probe = [e \in Endpoints |-> "absent"]
  /\ closed = FALSE
  /\ failed = FALSE
  /\ exit = NoExit

-----------------------------------------------------------------------------
At(e, p) == pc[e] = p /\ out[e] = NoEvent
Goto(e, p) == pc' = [pc EXCEPT ![e] = p]

\* The step ends with error err, and the goroutine goes on at place p. Here and
\* below, a definition no action uses is a seeded fault: a mistaken form of the
\* one it precedes, put in its place to see a property catch it.
FailsSwapped(e, err, p) ==
  /\ outcome' = [outcome EXCEPT ![e] = p]
  /\ Goto(e, err)
Fails(e, err, p) ==
  /\ outcome' = [outcome EXCEPT ![e] = err]
  /\ Goto(e, p)

Begin(e) ==
  /\ At(e, "spawned")
  /\ IF Protocol[e] = "other"
       THEN Fails(e, "protocol", "report")
       ELSE Goto(e, "dial") /\ UNCHANGED outcome
  /\ UNCHANGED <<out, told, session, local, probe, closed, cliVars, stallTimeout>>

ConnectOK(e) ==
  /\ At(e, "dial")
  /\ session' = [session EXCEPT ![e] = TRUE]
  /\ Goto(e, "newProbe")
  /\ UNCHANGED <<outcome, out, told, local, probe, closed, cliVars, stallTimeout>>

\* The server refuses or does not answer, or the context was canceled:
\* runDryRun returns right after reporting it.
ConnectFails(e) ==
  /\ At(e, "dial")
  /\ Fails(e, "connect", "report")
  /\ UNCHANGED <<out, told, session, local, probe, closed, cliVars, stallTimeout>>

\* newProbeFile removes the file again when it cannot write it.
NewProbe(e) ==
  /\ At(e, "newProbe")
  /\ \/ /\ local' = [local EXCEPT ![e] = TRUE]
        /\ Goto(e, "upload")
        /\ UNCHANGED outcome
     \/ /\ Fails(e, "tempfile", "report")
        /\ UNCHANGED local
  /\ UNCHANGED <<out, told, session, probe, closed, cliVars, stallTimeout>>

UploadOK(e) ==
  /\ At(e, "upload")
  /\ \E contents \in {"short", "full"} : probe' = [probe EXCEPT ![e] = contents]
  /\ Goto(e, "delete")
  /\ UNCHANGED <<outcome, out, told, session, local, closed, cliVars, stallTimeout>>

\* The upload may fail before, while or after the server stores the probe.
UploadFails(e) ==
  /\ At(e, "upload")
  /\ \E contents \in {"absent", "short", "full"} :
       probe' = [probe EXCEPT ![e] = contents]
  /\ Fails(e, "write", "cleanLocal")
  /\ UNCHANGED <<out, told, session, local, closed, cliVars, stallTimeout>>

\* A nil Delete: the probe is gone, or an FTP server answered 550, its reply
\* for a missing file and for one that may not be deleted.
AfterDelete(e) == IF Protocol[e] = "sftp" THEN {"absent"} ELSE {"absent", probe[e]}

DeleteOK(e) ==
  /\ At(e, "delete")
  /\ \E contents \in AfterDelete(e) : probe' = [probe EXCEPT ![e] = contents]
  /\ Goto(e, "cleanLocal")
  /\ UNCHANGED <<outcome, out, told, session, local, closed, cliVars, stallTimeout>>

IgnoresCleanup(e) == Goto(e, "cleanLocal") /\ UNCHANGED outcome
ReportsCleanup(e) == Fails(e, "cleanup", "cleanLocal")

DeleteFails(e) ==
  /\ At(e, "delete")
  /\ \E contents \in {"absent", probe[e]} : probe' = [probe EXCEPT ![e] = contents]
  /\ ReportsCleanup(e)
  /\ UNCHANGED <<out, told, session, local, closed, cliVars, stallTimeout>>

\* The deferred os.Remove of probeWritable, on a file this process has just
\* created. It runs on every way out once the file exists.
NothingRemoved(e) == UNCHANGED local
Removed(e) == local' = [local EXCEPT ![e] = FALSE]

RemoveLocal(e) ==
  /\ At(e, "cleanLocal")
  /\ Removed(e)
  /\ Goto(e, "report")
  /\ UNCHANGED <<outcome, out, told, session, probe, closed, cliVars, stallTimeout>>

\* The deferred Disconnect is in place once Connect has succeeded.
ReportsAgain(e) == IF outcome[e] # "ok" THEN "report" ELSE "disconnect"
AfterReport(e) == IF session[e] THEN "disconnect" ELSE "end"

Report(e) ==
  /\ At(e, "report")
  /\ out' = [out EXCEPT ![e] = outcome[e]]
  /\ Goto(e, AfterReport(e))
  /\ UNCHANGED <<outcome, told, session, local, probe, closed, cliVars, stallTimeout>>

Disconnect(e) ==
  /\ At(e, "disconnect")
  /\ session' = [session EXCEPT ![e] = FALSE]
  /\ Goto(e, "end")
  /\ UNCHANGED <<outcome, out, told, local, probe, closed, cliVars, stallTimeout>>

\* processEvents keeps its failure once it has seen one.
RememberLast(verdict) == verdict # "ok"
Remember(verdict) == failed \/ verdict # "ok"

Receive(e) ==
  /\ out[e] # NoEvent
  /\ told' = [told EXCEPT ![e] = Append(@, out[e])]
  /\ out' = [out EXCEPT ![e] = NoEvent]
  /\ failed' = Remember(out[e])
  /\ UNCHANGED <<pc, outcome, session, local, probe, closed, exit, stallTimeout>>

\* Every goroutine has returned: Upload closes the channel.
EarlyReturnsUncounted == \A e \in Endpoints : At(e, "end") /\ outcome[e] = "ok"
AllReturned == \A e \in Endpoints : At(e, "end")

Close ==
  /\ ~closed
  /\ AllReturned
  /\ closed' = TRUE
  /\ UNCHANGED <<pc, outcome, out, told, session, local, probe, cliVars, stallTimeout>>

\* The range loop of processEvents ends, and run returns.
RunReturns ==
  /\ closed /\ exit = NoExit
  /\ exit' = IF failed THEN exitPartialFailure ELSE exitOK
  /\ UNCHANGED <<pc, outcome, out, told, session, local, probe, closed, failed, stallTimeout>>

Ended == exit # NoExit /\ UNCHANGED vars

Step(e) ==
  \/ Begin(e) \/ ConnectOK(e) \/ ConnectFails(e) \/ NewProbe(e)
  \/ UploadOK(e) \/ UploadFails(e) \/ DeleteOK(e) \/ DeleteFails(e)
  \/ RemoveLocal(e) \/ Report(e) \/ Disconnect(e)

Next ==
  \/ \E e \in Endpoints : Step(e) \/ Receive(e)
  \/ Close
  \/ RunReturns
  \/ Ended

Spec == Init /\ [][Next]_vars

\* A call on the session that may never return, as the server may fall silent:
\* a stall timeout of 0 bounds none (guardedConn.arm), and the SSH reader's first
\* read after the login has none either (StallGuard's OneUnguardedRead). The
\* delete comes after an answer under SFTP, so only the other two are exposed.
MayHang(e) ==
  /\ pc[e] \in {"upload", "delete", "disconnect"}
  /\ \/ ~stallTimeout[e]
     \/ Protocol[e] = "sftp" /\ pc[e] # "delete"

\* The caller receives, and a connect is bounded by ConnectTimeout. A call is
\* bounded by StallTimeout where there is one (StallGuard's CallsEnd).
FairSpec ==
  /\ Spec
  /\ \A e \in Endpoints : WF_vars(~MayHang(e) /\ Step(e)) /\ WF_vars(Receive(e))
  /\ WF_vars(Close) /\ WF_vars(RunReturns)

-----------------------------------------------------------------------------
\* Exactly one DryRunEvent per endpoint, on every way out of runDryRun
\* (comment of DryRunEvent).
OneEventEach ==
  \A e \in Endpoints : /\ Len(told[e]) <= 1
                       /\ closed => Len(told[e]) = 1

\* Whatever failed on the way, no session and no local probe file is left
\* when the channel is closed.
NothingLeftOpen ==
  closed => \A e \in Endpoints : ~session[e] /\ ~local[e]

\* A probe still on an SFTP server after the dry run was announced: the event
\* says that the probe's upload or its cleanup failed.
SFTPLeftoverReported ==
  closed => \A e \in Endpoints :
    Protocol[e] = "sftp" /\ probe[e] # "absent"
      => told[e] \in {<<"write">>, <<"cleanup">>}

\* A dry run of the program exits 0 only if every endpoint was found reachable
\* and writable and 1 only if one was not, in whatever order the verdicts came
\* (processEvents, run).
ExitTellsVerdicts ==
  /\ exit = exitOK => \A e \in Endpoints : told[e] = <<"ok">>
  /\ exit = exitPartialFailure => \E e \in Endpoints : told[e] # <<"ok">>

\* A dry run ends, and every endpoint has its verdict, unless a server falls
\* silent in a call that nothing bounds: any call without a stall timeout, and
\* an SFTP endpoint's upload or disconnect with one. An endpoint held up so
\* keeps no other from its verdict.
Terminates ==
  /\ \A e \in Endpoints : <>(told[e] # <<>>) \/ <>[]MayHang(e)
  /\ <>(exit # NoExit) \/ \E e \in Endpoints : <>[]MayHang(e)

\* dispatch.go, runDryRun's probeWritable: "the probe exists on the server only
\* between its upload and its delete". An endpoint reported as writable can
\* keep it: Delete takes reply 550 for "was not there".
WritableMeansProbeGone ==
  \A e \in Endpoints : told[e] = <<"ok">> => probe[e] = "absent"
=============================================================================
