-------------------------- MODULE UploadCliProofs ---------------------------
(***************************************************************************)
(* Theorems about the command line program around the engine (UploadCli).  *)
(* The program only ever lets the engine take steps of its own, so what    *)
(* UploadEngineProofs and UploadEngineReports prove of the engine holds of *)
(* it inside the program. On top of that come the exit code and signals.   *)
(***************************************************************************)
EXTENDS UploadCli, UploadEngineReports

-----------------------------------------------------------------------------
(***************************************************************************)
(* The engine inside the program.                                          *)
(***************************************************************************)

\* Every step of the program is a step of the engine, or leaves it alone: the
\* caller's receiving and its canceling are the ones the engine allows for.
LEMMA CliStepsOfEngine == [CliNext]_cliVars => [Next]_vars
<1>. SUFFICES ASSUME [CliNext]_cliVars PROVE [Next]_vars
  OBVIOUS
<1>1. CASE SetupStops \/ SetupDone \/ RunReturns \/ Signal \/ SecondSignal
  BY <1>1 DEF SetupStops, SetupDone, RunReturns, Signal, SecondSignal
<1>2. CASE EngineStep
  BY <1>2 DEF EngineStep, Next
<1>3. CASE \E e \in Endpoints : ProcessEvent(e)
  BY <1>3 DEF ProcessEvent, Next
<1>4. CASE FirstSignal
  BY <1>4 DEF FirstSignal, Next
<1>5. CASE Exited \/ UNCHANGED cliVars
  BY <1>5 DEF Exited, cliVars
<1>. QED  BY <1>1, <1>2, <1>3, <1>4, <1>5 DEF CliNext

\* The program runs the engine as it is: all that is proved of the engine for
\* any caller holds in a run of the command line program (run, Upload).
THEOREM CliRunsTheEngine == CliSpec => Spec
<1>1. CliInit => Init
  BY DEF CliInit
<1>. QED  BY <1>1, CliStepsOfEngine, PTL DEF CliSpec, Spec

-----------------------------------------------------------------------------
(***************************************************************************)
(* The inductive invariant: what main's variables have to do with the Done *)
(* events received so far, and with the signals sent so far.               *)
(***************************************************************************)
EndpointFailed(e) == done[e] # NoEvent /\ done[e].failed > 0

Taken == IF handler = "second" THEN 1 ELSE 0

VerdictInv ==
  /\ exit # NoExit => phase = "exited"
  /\ anyFailed <=> \E e \in Endpoints : EndpointFailed(e)
  /\ phase = "setup" => \A e \in Endpoints : done[e] = NoEvent
  /\ exit = exitOK => ~anyFailed
  /\ exit = exitPartialFailure => anyFailed /\ closed

SignalInv ==
  /\ queued + Taken <= signals
  /\ exit = exitSignalAbort => signals >= 2

CliInv == CliTypeOK /\ VerdictInv /\ SignalInv

\* The program starts in CliInv.
LEMMA CliInvInit == CliInit => CliInv
<1>. SUFFICES ASSUME CliInit PROVE CliInv
  OBVIOUS
<1>1. TypeOK
  BY TypeInvInit DEF CliInit, TypeInv
<1>2. CliTypeOK
  <2>1. 0 \in 0..MaxSignals /\ 0 \in 0..2
    BY CliAssumption DEF CliAssumption
  <2>. QED  BY <1>1, <2>1 DEF CliInit, CliTypeOK
<1>3. \A e \in Endpoints : done[e] = NoEvent
  BY DEF CliInit, Init
<1>. QED
  BY <1>2, <1>3
  DEF CliInit, CliInv, VerdictInv, SignalInv, EndpointFailed, Taken, NoExit, exitOK,
      exitPartialFailure, exitSignalAbort

\* The variables of main and of the signal handler keep their types.
LEMMA CliTypeNext == CliTypeOK /\ TypeOK' /\ [CliNext]_cliVars => CliTypeOK'
<1>. SUFFICES ASSUME CliTypeOK, TypeOK', [CliNext]_cliVars PROVE CliTypeOK'
  OBVIOUS
<1>. USE CliAssumption DEF CliTypeOK, CliAssumption, signalVars, mainVars
<1>1. CASE SetupStops
  BY <1>1 DEF SetupStops, Exit
<1>2. CASE SetupDone
  BY <1>2 DEF SetupDone
<1>3. CASE EngineStep
  BY <1>3 DEF EngineStep
<1>4. ASSUME NEW e \in Endpoints, ProcessEvent(e) PROVE CliTypeOK'
  <2>1. anyFailed' \in BOOLEAN
    BY <1>4, Zenon DEF ProcessEvent, Remember
  <2>. QED  BY <1>4, <2>1 DEF ProcessEvent
<1>5. CASE RunReturns
  BY <1>5 DEF RunReturns, Exit
<1>6. CASE Signal
  BY <1>6 DEF Signal, RoomInSigCh
<1>7. CASE FirstSignal
  BY <1>7 DEF FirstSignal
<1>8. CASE SecondSignal
  BY <1>8 DEF SecondSignal, AbortNow, Exit
<1>9. CASE Exited \/ UNCHANGED cliVars
  BY <1>9 DEF Exited, cliVars
<1>. QED  BY <1>1, <1>2, <1>3, <1>4, <1>5, <1>6, <1>7, <1>8, <1>9 DEF CliNext

\* processEvents has seen a failure exactly when a Done event with failed files
\* has been received: an endpoint's Done is its last event, so that what it said
\* is never overwritten.
LEMMA FailureRemembered ==
  ASSUME TypeOK, EndingInv, VerdictInv, NEW d \in Endpoints, ProcessEvent(d)
  PROVE  anyFailed' <=> \E e \in Endpoints : EndpointFailed(e)'
<1>1. /\ out[d] # NoEvent
      /\ done' = IF out[d].type = "done" THEN [done EXCEPT ![d] = out[d]] ELSE done
      /\ anyFailed' <=> anyFailed \/ (out[d].type = "done" /\ out[d].failed > 0)
  BY DEF ProcessEvent, Receive, Remember
<1>2. done[d] = NoEvent /\ DOMAIN done = Endpoints
  BY <1>1 DEF TypeOK, EndingInv, Ending
<1>3. CASE out[d].type = "done"
  <2>1. /\ done'[d] = out[d]
        /\ \A e \in Endpoints \ {d} : done'[e] = done[e]
    BY <1>1, <1>2, <1>3
  <2>2. EndpointFailed(d)' <=> out[d].failed > 0
    BY <1>1, <2>1 DEF EndpointFailed
  <2>3. \A e \in Endpoints \ {d} : EndpointFailed(e)' <=> EndpointFailed(e)
    BY <2>1 DEF EndpointFailed
  <2>4. ~EndpointFailed(d)
    BY <1>2 DEF EndpointFailed
  <2>. QED  BY <1>1, <1>3, <2>2, <2>3, <2>4, Zenon DEF VerdictInv
<1>4. CASE out[d].type # "done"
  <2>1. \A e \in Endpoints : EndpointFailed(e)' <=> EndpointFailed(e)
    BY <1>1, <1>4 DEF EndpointFailed
  <2>. QED  BY <1>1, <1>4, <2>1, Zenon DEF VerdictInv
<1>. QED  BY <1>3, <1>4

\* Every step keeps what is said of the verdict.
LEMMA VerdictInvNext ==
  CliTypeOK /\ EngineInv /\ VerdictInv /\ [CliNext]_cliVars => VerdictInv'
<1>. SUFFICES ASSUME CliTypeOK, EngineInv, VerdictInv, [CliNext]_cliVars
              PROVE  VerdictInv'
  OBVIOUS
<1>0. TypeOK /\ EndingInv
  BY DEF EngineInv, TypeInv
<1>. USE DEF NoExit, exitOK, exitPartialFailure, exitSignalAbort, exitConfigError,
             exitUsageError
<1>a. ASSUME UNCHANGED done
      PROVE  (\E e \in Endpoints : EndpointFailed(e)') <=>
               \E e \in Endpoints : EndpointFailed(e)
  BY <1>a DEF EndpointFailed
<1>1. CASE SetupStops
  <2>1. UNCHANGED <<done, anyFailed>> /\ phase = "setup" /\ phase' = "exited"
        /\ exit' \in {exitOK, exitUsageError, exitConfigError}
    BY <1>1 DEF SetupStops, Exit, vars, callerVars
  <2>2. ~anyFailed
    BY <2>1 DEF VerdictInv, EndpointFailed
  <2>. QED  BY <2>1, <2>2, <1>a DEF VerdictInv
<1>2. CASE SetupDone
  <2>1. UNCHANGED <<done, anyFailed, exit, closed>> /\ phase = "setup" /\ phase' = "upload"
    BY <1>2 DEF SetupDone, vars, callerVars
  <2>. QED  BY <2>1, <1>a DEF VerdictInv
<1>3. CASE EngineStep
  <2>1. UNCHANGED <<phase, anyFailed, exit>> /\ phase = "upload"
    BY <1>3 DEF EngineStep, mainVars
  <2>2. UNCHANGED done
    <3>1. ASSUME NEW e \in Endpoints, WorkerStep(e) PROVE UNCHANGED done
      BY <3>1, WorkersChangeNothingReceived DEF callerVars
    <3>2. Close => UNCHANGED done
      BY DEF Close
    <3>. QED  BY <1>3, <3>1, <3>2 DEF EngineStep, WorkerStep
  <2>. QED  BY <2>1, <2>2, <1>a DEF VerdictInv
<1>4. ASSUME NEW e \in Endpoints, ProcessEvent(e) PROVE VerdictInv'
  <2>1. UNCHANGED <<phase, exit>> /\ phase = "upload"
    BY <1>4 DEF ProcessEvent
  <2>2. anyFailed' <=> \E d \in Endpoints : EndpointFailed(d)'
    BY <1>0, <1>4, FailureRemembered
  <2>. QED  BY <2>1, <2>2 DEF VerdictInv
<1>5. CASE RunReturns
  <2>1. /\ UNCHANGED <<done, anyFailed, closed>> /\ closed /\ phase' = "exited"
        /\ exit' = IF anyFailed THEN exitPartialFailure ELSE exitOK
    BY <1>5 DEF RunReturns, Exit, vars, callerVars
  <2>. QED  BY <2>1, <1>a DEF VerdictInv
<1>6. CASE Signal
  <2>1. UNCHANGED <<done, anyFailed, closed, phase, exit>>
    BY <1>6 DEF Signal, vars, callerVars, mainVars
  <2>. QED  BY <2>1, <1>a DEF VerdictInv
<1>7. CASE FirstSignal
  <2>1. UNCHANGED <<done, anyFailed, closed, phase, exit>>
    BY <1>7 DEF FirstSignal, Cancel, mainVars
  <2>. QED  BY <2>1, <1>a DEF VerdictInv
<1>8. CASE SecondSignal
  <2>1. UNCHANGED <<done, anyFailed>> /\ phase' = "exited" /\ exit' = exitSignalAbort
    BY <1>8 DEF SecondSignal, Exit, vars, callerVars
  <2>. QED  BY <2>1, <1>a DEF VerdictInv
<1>9. CASE Exited \/ UNCHANGED cliVars
  <2>1. UNCHANGED <<done, anyFailed, closed, phase, exit>>
    BY <1>9 DEF Exited, cliVars, vars, callerVars, mainVars
  <2>. QED  BY <2>1, <1>a DEF VerdictInv
<1>. QED  BY <1>1, <1>2, <1>3, <1>4, <1>5, <1>6, <1>7, <1>8, <1>9 DEF CliNext

\* Every step keeps what is said of the signals: the handler only takes what was
\* sent, and the second one it takes is a second one sent.
LEMMA SignalInvNext == CliTypeOK /\ VerdictInv /\ SignalInv /\ [CliNext]_cliVars => SignalInv'
<1>. SUFFICES ASSUME CliTypeOK, VerdictInv, SignalInv, [CliNext]_cliVars
              PROVE  SignalInv'
  OBVIOUS
<1>0. queued \in Nat /\ signals \in Nat
  BY CliAssumption DEF CliTypeOK, CliAssumption
<1>. USE <1>0 DEF SignalInv, Taken, NoExit, exitOK, exitPartialFailure,
       exitSignalAbort, exitConfigError, exitUsageError
<1>1. CASE SetupStops \/ SetupDone \/ EngineStep \/ RunReturns
  <2>1. UNCHANGED <<signals, queued, handler>>
    BY <1>1 DEF SetupStops, SetupDone, EngineStep, RunReturns, signalVars
  <2>2. exit' # exitSignalAbort \/ UNCHANGED exit
    BY <1>1 DEF SetupStops, SetupDone, EngineStep, RunReturns, mainVars, Exit
  <2>. QED  BY <2>1, <2>2
<1>2. CASE (\E e \in Endpoints : ProcessEvent(e)) \/ Exited \/ UNCHANGED cliVars
  <2>1. UNCHANGED <<signals, queued, handler, exit>>
    BY <1>2 DEF ProcessEvent, Exited, cliVars, signalVars, mainVars
  <2>. QED  BY <2>1
<1>3. CASE Signal
  <2>1. signals' = signals + 1 /\ UNCHANGED <<handler, exit>>
    BY <1>3 DEF Signal, mainVars
  <2>2. queued' = queued \/ queued' = queued + 1
    BY <1>3 DEF Signal
  <2>3. CASE queued' = queued
    BY <2>1, <2>3
  <2>4. CASE queued' = queued + 1
    BY <2>1, <2>4
  <2>. QED  BY <2>2, <2>3, <2>4
<1>4. CASE FirstSignal
  <2>1. /\ handler = "first" /\ handler' = "second" /\ queued > 0
        /\ queued' = queued - 1 /\ UNCHANGED <<signals, exit>>
    BY <1>4 DEF FirstSignal, mainVars
  <2>. QED  BY <2>1
<1>5. CASE SecondSignal
  <2>1. /\ handler = "second" /\ UNCHANGED <<handler, signals>> /\ queued > 0
        /\ queued' = queued - 1
    BY <1>5 DEF SecondSignal, AbortNow
  <2>. QED  BY <2>1
<1>. QED  BY <1>1, <1>2, <1>3, <1>4, <1>5 DEF CliNext

\* CliInv holds in every reachable state, with the engine's own invariant.
LEMMA CliInvHolds == CliSpec => [](EngineInv /\ CliInv)
<1>1. CliInit => EngineInv /\ CliInv
  BY EngineInvInit, CliInvInit DEF CliInit
<1>2. EngineInv /\ CliInv /\ [CliNext]_cliVars => (EngineInv /\ CliInv)'
  <2>. SUFFICES ASSUME EngineInv, CliInv, [CliNext]_cliVars
                PROVE  EngineInv' /\ CliInv'
    OBVIOUS
  <2>1. EngineInv'
    BY CliStepsOfEngine, TypeInvNext, ConnInvNext, TallyInvNext, EndingInvNext
    DEF EngineInv
  <2>2. TypeOK'
    BY <2>1 DEF EngineInv, TypeInv
  <2>. QED
    BY <2>1, <2>2, CliTypeNext, VerdictInvNext, SignalInvNext DEF CliInv
<1>. QED  BY <1>1, <1>2, PTL DEF CliSpec

-----------------------------------------------------------------------------
(***************************************************************************)
(* The theorems.                                                           *)
(***************************************************************************)

\* The program's variables have their types, with the signal channel never over
\* the two signals it has room for.
THEOREM CliTypesHold == CliSpec => []CliTypeOK
<1>1. CliInv => CliTypeOK
  BY DEF CliInv
<1>. QED  BY <1>1, CliInvHolds, PTL

\* A Done event's failed files are the files that have had no success.
LEMMA FailedFilesAreMissing ==
  ASSUME EngineInv, TallyIsExact, NEW e \in Endpoints, done[e] # NoEvent
  PROVE  done[e].failed > 0 <=> uploaded[e] # Files
<1>1. /\ IsFiniteSet(Files) /\ Cardinality(Files) = NumFiles
      /\ NumFiles \in Nat
  <2>1. NumFiles \in Nat
    BY EngineAssumption DEF EngineAssumption
  <2>2. /\ IsFiniteSet(1..NumFiles)
        /\ Cardinality(1..NumFiles) = IF 1 > NumFiles THEN 0 ELSE NumFiles - 1 + 1
    BY <2>1, FS_Interval
  <2>. QED  BY <2>1, <2>2 DEF Files
<1>2. uploaded[e] \subseteq Files
  BY DEF EngineInv, TypeInv, TypeOK
<1>3. /\ Cardinality(uploaded[e]) \in Nat
      /\ Cardinality(uploaded[e]) <= NumFiles
      /\ Cardinality(uploaded[e]) = NumFiles => uploaded[e] = Files
  BY <1>1, <1>2, FS_Subset, FS_CardinalityType
<1>4. done[e].failed = NumFiles - Cardinality(uploaded[e])
  BY DEF TallyIsExact
<1>. QED  BY <1>1, <1>3, <1>4

\* A run that got to its end exits 0 only if every file is on every endpoint, in
\* full where it is verified, and 1 only if one is not: canceled or not, with
\* whatever the servers did and in whatever order the Done events came.
THEOREM ExitCodeIsTruthful == CliSpec => []ExitCodeTruthful
<1>1. ASSUME EngineInv, CliInv, TallyIsExact, ChannelDiscipline, SuccessIsStored
      PROVE  ExitCodeTruthful
  <2>1. ASSUME closed, exit = exitOK, NEW e \in Endpoints
        PROVE  /\ uploaded[e] = Files
               /\ ~NoVerify => \A f \in Files : remote[e][f] = "full"
    <3>1. done[e] # NoEvent
      BY <1>1, <2>1 DEF ChannelDiscipline
    <3>2. ~EndpointFailed(e)
      BY <1>1, <2>1 DEF CliInv, VerdictInv
    <3>3. uploaded[e] = Files
      BY <1>1, <3>1, <3>2, FailedFilesAreMissing DEF EndpointFailed
    <3>. QED  BY <1>1, <3>3 DEF SuccessIsStored
  <2>2. ASSUME exit = exitPartialFailure
        PROVE  \E e \in Endpoints : uploaded[e] # Files
    <3>1. PICK e \in Endpoints : EndpointFailed(e)
      BY <1>1, <2>2 DEF CliInv, VerdictInv
    <3>. QED  BY <1>1, <3>1, FailedFilesAreMissing DEF EndpointFailed
  <2>. QED  BY <2>1, <2>2 DEF ExitCodeTruthful
<1>. QED
  BY <1>1, CliInvHolds, CliRunsTheEngine, TallyOfDone, ChannelIsDisciplined,
     SuccessStaysTrue, PTL

\* Without a second signal the program ends by itself, and has reported every
\* endpoint's tally when it exits 1.
THEOREM OneSignalStillReports == CliSpec => []FirstSignalStillReports
<1>1. CliInv /\ ChannelDiscipline => FirstSignalStillReports
  BY DEF CliInv, VerdictInv, SignalInv, ChannelDiscipline, FirstSignalStillReports
<1>. QED  BY <1>1, CliInvHolds, CliRunsTheEngine, ChannelIsDisciplined, PTL

=============================================================================
