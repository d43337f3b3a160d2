----------------------------- MODULE UploadCli ------------------------------
(***************************************************************************)
(* The command line program around the engine (cmd/uploadfun/main.go and   *)
(* processEvents in printer.go): it prepares the run, ranges over the      *)
(* event channel remembering whether anything failed, and turns that into  *)
(* the exit code, while a second goroutine waits for signals: the first    *)
(* cancels the engine's context, the second ends the process at once.      *)
(***************************************************************************)
EXTENDS UploadEngine

CONSTANT MaxSignals   \* bound on the signals the user sends

ASSUME CliAssumption ==
  /\ MaxSignals \in Nat
  /\ NumFiles > 0 /\ Endpoints # {}   \* expandPaths and LoadConfig reject none

VARIABLES
  phase,        \* "setup" before Upload, "upload", "exited"
  signals,      \* signals sent so far
  queued,       \* signals waiting in sigCh
  handler,      \* the signal handleSignals waits for: "first", "second"
  anyFailed,    \* processEvents' result so far
  exit          \* the process's exit code, NoExit while it runs

NoExit == 255
exitOK == 0
exitPartialFailure == 1
exitConfigError == 2
exitUsageError == 3
exitSignalAbort == 130

signalVars == <<signals, queued, handler>>
mainVars == <<phase, anyFailed, exit>>
cliVars == <<vars, signalVars, mainVars>>

CliTypeOK ==
  /\ TypeOK
  /\ phase \in {"setup", "upload", "exited"}
  /\ signals \in 0..MaxSignals /\ queued \in 0..2
  /\ handler \in {"first", "second"}
  /\ anyFailed \in BOOLEAN
  /\ exit \in {NoExit, exitOK, exitPartialFailure, exitConfigError,
               exitUsageError, exitSignalAbort}

CliInit ==
  /\ Init
  /\ phase = "setup"
  /\ signals = 0 /\ queued = 0 /\ handler = "first"
  /\ anyFailed = FALSE
  /\ exit = NoExit

Exit(code) == exit' = code /\ phase' = "exited"

\* The arguments ask for help or are wrong, a path cannot be used, or the
\* configuration is refused.
SetupStops ==
  /\ phase = "setup"
  /\ \E code \in {exitOK, exitUsageError, exitConfigError} : Exit(code)
  /\ UNCHANGED <<vars, signalVars, anyFailed>>

SetupDone ==
  /\ phase = "setup"
  /\ phase' = "upload"
  /\ UNCHANGED <<vars, signalVars, anyFailed, exit>>

EngineStep ==
  /\ phase = "upload"
  /\ \/ \E e \in Endpoints :
          LocalStep(e) \/ Dial(e) \/ SessionCall(e) \/ HangUp(e)
     \/ Close
  /\ UNCHANGED <<signalVars, mainVars>>

\* The range loop of processEvents keeps its failure once it has seen one.
LastEndpointFailed(event) == event.type = "done" /\ event.failed > 0
Remember(event) == anyFailed \/ (event.type = "done" /\ event.failed > 0)

ProcessEvent(e) ==
  /\ phase = "upload"
  /\ Receive(e)
  /\ anyFailed' = Remember(out[e])
  /\ UNCHANGED <<signalVars, phase, exit>>

RunReturns ==
  /\ phase = "upload"
  /\ closed
  /\ Exit(IF anyFailed THEN exitPartialFailure ELSE exitOK)
  /\ UNCHANGED <<vars, signalVars, anyFailed>>

\* sigCh holds two signals: a send the channel has no room for is dropped.
RoomForOne == queued < 1
RoomForAll == TRUE
RoomInSigCh == queued < 2

Signal ==
  /\ phase # "exited"
  /\ signals < MaxSignals
  /\ signals' = signals + 1
  /\ queued' = IF RoomInSigCh THEN queued + 1 ELSE queued
  /\ UNCHANGED <<vars, handler, mainVars>>

FirstSignal ==
  /\ phase # "exited"
  /\ handler = "first" /\ queued > 0
  /\ queued' = queued - 1
  /\ handler' = "second"
  /\ Cancel
  /\ UNCHANGED <<signals, mainVars>>

AbortAtOnce == queued > 0
AbortNow == handler = "second" /\ queued > 0

SecondSignal ==
  /\ phase # "exited"
  /\ AbortNow
  /\ queued' = queued - 1
  /\ Exit(exitSignalAbort)
  /\ UNCHANGED <<vars, signals, handler, anyFailed>>

Exited == phase = "exited" /\ UNCHANGED cliVars

CliNext ==
  \/ SetupStops \/ SetupDone \/ EngineStep
  \/ \E e \in Endpoints : ProcessEvent(e)
  \/ RunReturns
  \/ Signal \/ FirstSignal \/ SecondSignal
  \/ Exited

CliSpec == CliInit /\ [][CliNext]_cliVars

\* Only the signal goroutine has to run: a transfer may hang for ever.
SignalFairness == WF_cliVars(FirstSignal) /\ WF_cliVars(SecondSignal)

CliFairSpec == CliSpec /\ SignalFairness

-----------------------------------------------------------------------------
\* The exit code of a run that got to its end says whether every file reached
\* every endpoint, and then verified unless verification is off; in particular
\* a run cut short by a signal never exits 0 with a file left behind.
ExitCodeTruthful ==
  /\ closed /\ exit = exitOK =>
       \A e \in Endpoints : /\ uploaded[e] = Files
                            /\ ~NoVerify => \A f \in Files : remote[e][f] = "full"
  /\ exit = exitPartialFailure =>
       \E e \in Endpoints : uploaded[e] # Files

\* One signal never costs the report: unless a second one was sent the
\* program ends by itself, and every endpoint has then reported its tally.
FirstSignalStillReports ==
  /\ exit = exitSignalAbort => signals >= 2
  /\ exit = exitPartialFailure => \A e \in Endpoints : done[e] # NoEvent

\* Two signals end the process whatever the servers and transfers are doing,
\* even if both arrive before the handler runs.
SecondSignalExits == signals >= 2 ~> exit # NoExit
=============================================================================
