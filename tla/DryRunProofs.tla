---------------------------- MODULE DryRunProofs ----------------------------
(***************************************************************************)
(* Theorems about the dry run (DryRunPreflight), for any number of         *)
(* endpoints and any mix of protocols. No endpoint's goroutine touches     *)
(* another's variables, so everything but the exit code is proved of one   *)
(* endpoint at a time.                                                     *)
(***************************************************************************)
EXTENDS DryRunPreflight, TLAPS

-----------------------------------------------------------------------------
(***************************************************************************)
(* Types.                                                                  *)
(***************************************************************************)

\* A step keeps every variable's type.
LEMMA TypesNext == TypeOK /\ [Next]_vars => TypeOK'
<1>. SUFFICES ASSUME TypeOK, [Next]_vars PROVE TypeOK'
  OBVIOUS
<1>. USE DEF TypeOK, At, Goto, Fails, Outcomes, Places, cliVars
<1>1. ASSUME NEW e \in Endpoints, Begin(e) PROVE TypeOK'
  BY <1>1 DEF Begin
<1>2. ASSUME NEW e \in Endpoints, ConnectOK(e) PROVE TypeOK'
  BY <1>2 DEF ConnectOK
<1>3. ASSUME NEW e \in Endpoints, ConnectFails(e) PROVE TypeOK'
  BY <1>3 DEF ConnectFails
<1>4. ASSUME NEW e \in Endpoints, NewProbe(e) PROVE TypeOK'
  BY <1>4 DEF NewProbe
<1>5. ASSUME NEW e \in Endpoints, UploadOK(e) PROVE TypeOK'
  BY <1>5 DEF UploadOK
<1>6. ASSUME NEW e \in Endpoints, UploadFails(e) PROVE TypeOK'
  BY <1>6 DEF UploadFails
<1>7. ASSUME NEW e \in Endpoints, DeleteOK(e) PROVE TypeOK'
  BY <1>7 DEF DeleteOK, AfterDelete
<1>8. ASSUME NEW e \in Endpoints, DeleteFails(e) PROVE TypeOK'
  BY <1>8 DEF DeleteFails, ReportsCleanup
<1>9. ASSUME NEW e \in Endpoints, RemoveLocal(e) PROVE TypeOK'
  BY <1>9 DEF RemoveLocal, Removed
<1>10. ASSUME NEW e \in Endpoints, Report(e) PROVE TypeOK'
  BY <1>10 DEF Report, AfterReport
<1>11. ASSUME NEW e \in Endpoints, Disconnect(e) PROVE TypeOK'
  BY <1>11 DEF Disconnect
<1>12. ASSUME NEW e \in Endpoints, Receive(e) PROVE TypeOK'
  <2>1. failed' \in BOOLEAN
    BY <1>12, Zenon DEF Receive, Remember
  <2>2. told' \in [Endpoints -> Seq(Outcomes)]
    BY <1>12 DEF Receive
  <2>. QED  BY <1>12, <2>1, <2>2 DEF Receive
<1>13. CASE Close
  BY <1>13 DEF Close
<1>14. CASE RunReturns
  BY <1>14 DEF RunReturns
<1>15. CASE Ended \/ UNCHANGED vars
  BY <1>15 DEF Ended, vars
<1>. QED
  BY <1>1, <1>2, <1>3, <1>4, <1>5, <1>6, <1>7, <1>8, <1>9, <1>10, <1>11, <1>12,
     <1>13, <1>14, <1>15
  DEF Next, Step

-----------------------------------------------------------------------------
(***************************************************************************)
(* The inductive invariant of one endpoint.                                *)
(***************************************************************************)

\* The verdict is sent once, on leaving runDryRun, and is what it ended with.
Verdict(e) ==
  IF pc[e] \in {"disconnect", "end"}
    THEN \/ out[e] = outcome[e] /\ told[e] = <<>>
         \/ out[e] = NoEvent /\ told[e] = <<outcome[e]>>
    ELSE out[e] = NoEvent /\ told[e] = <<>>

\* What is open, and the places in the code it is open at.
Open(e) ==
  /\ local[e] => pc[e] \in {"upload", "delete", "cleanLocal"}
  /\ session[e] => pc[e] \notin {"spawned", "dial", "end"}

\* A probe on the server is about to be deleted, or an SFTP endpoint holds the
\* error that left it there.
Leftover(e) ==
  probe[e] # "absent" =>
    \/ pc[e] = "delete"
    \/ /\ pc[e] \in {"cleanLocal", "report", "disconnect", "end"}
       /\ Protocol[e] = "sftp" => outcome[e] \in {"write", "cleanup"}

Endpoint(e) == Verdict(e) /\ Open(e) /\ Leftover(e)

\* A goroutine's step keeps what is said of its endpoint.
LEMMA EndpointStep ==
  ASSUME TypeOK, NEW e \in Endpoints, Endpoint(e), Step(e)
  PROVE  Endpoint(e)' /\ UNCHANGED <<told, closed, failed, exit>> /\ out[e] = NoEvent
<1>. USE DEF TypeOK, Endpoint, Verdict, Open, Leftover, At, Goto, Fails, NoEvent,
             cliVars
<1>1. CASE Begin(e)
  BY <1>1 DEF Begin
<1>2. CASE ConnectOK(e)
  BY <1>2 DEF ConnectOK
<1>3. CASE ConnectFails(e)
  BY <1>3 DEF ConnectFails
<1>4. CASE NewProbe(e)
  BY <1>4 DEF NewProbe
<1>5. CASE UploadOK(e)
  BY <1>5 DEF UploadOK
<1>6. CASE UploadFails(e)
  BY <1>6 DEF UploadFails
<1>7. CASE DeleteOK(e)
  BY <1>7 DEF DeleteOK, AfterDelete
<1>8. CASE DeleteFails(e)
  BY <1>8 DEF DeleteFails, ReportsCleanup
<1>9. CASE RemoveLocal(e)
  BY <1>9 DEF RemoveLocal, Removed
<1>10. CASE Report(e)
  BY <1>10 DEF Report, AfterReport
<1>11. CASE Disconnect(e)
  BY <1>11 DEF Disconnect
<1>. QED
  BY <1>1, <1>2, <1>3, <1>4, <1>5, <1>6, <1>7, <1>8, <1>9, <1>10, <1>11 DEF Step

\* A goroutine's step is no concern of the other endpoints.
LEMMA EndpointsApart ==
  ASSUME TypeOK, NEW d \in Endpoints, NEW e \in Endpoints, d # e, Step(d)
  PROVE  /\ pc'[e] = pc[e] /\ outcome'[e] = outcome[e] /\ out'[e] = out[e]
         /\ told'[e] = told[e] /\ session'[e] = session[e] /\ local'[e] = local[e]
         /\ probe'[e] = probe[e]
<1>. USE DEF TypeOK, Goto, Fails
<1>1. CASE Begin(d) \/ ConnectOK(d) \/ ConnectFails(d) \/ NewProbe(d)
  BY <1>1 DEF Begin, ConnectOK, ConnectFails, NewProbe
<1>2. CASE UploadOK(d) \/ UploadFails(d)
  BY <1>2 DEF UploadOK, UploadFails
<1>3. CASE DeleteOK(d) \/ DeleteFails(d)
  BY <1>3 DEF DeleteOK, DeleteFails, ReportsCleanup
<1>4. CASE RemoveLocal(d) \/ Report(d) \/ Disconnect(d)
  BY <1>4 DEF RemoveLocal, Removed, Report, Disconnect
<1>. QED  BY <1>1, <1>2, <1>3, <1>4 DEF Step

\* Receiving an endpoint's verdict keeps what is said of every endpoint, and it
\* is the endpoint's only one.
LEMMA EndpointReceived ==
  ASSUME TypeOK, NEW d \in Endpoints, Endpoint(d), Receive(d)
  PROVE  /\ \A e \in Endpoints : Endpoint(e) => Endpoint(e)'
         /\ told[d] = <<>> /\ told'[d] = <<out[d]>>
<1>1. told[d] = <<>> /\ out[d] = outcome[d] /\ pc[d] \in {"disconnect", "end"}
  BY DEF Endpoint, Verdict, Receive
<1>2. told'[d] = <<out[d]>> /\ out'[d] = NoEvent
  <2>1. told'[d] = Append(told[d], out[d]) /\ out'[d] = NoEvent
    BY DEF Receive, TypeOK
  <2>. QED  BY <1>1, <2>1
<1>3. Endpoint(d)'
  BY <1>1, <1>2 DEF Endpoint, Verdict, Open, Leftover, Receive
<1>4. ASSUME NEW e \in Endpoints, e # d, Endpoint(e) PROVE Endpoint(e)'
  <2>1. told'[e] = told[e] /\ out'[e] = out[e]
    BY <1>4 DEF Receive, TypeOK
  <2>. QED  BY <1>4, <2>1 DEF Endpoint, Verdict, Open, Leftover, Receive
<1>. QED  BY <1>1, <1>2, <1>3, <1>4

-----------------------------------------------------------------------------
(***************************************************************************)
(* The inductive invariant of the dry run: its endpoints, and what the     *)
(* program makes of their verdicts.                                        *)
(***************************************************************************)
Unwritable(e) == told[e] # <<>> /\ told[e] # <<"ok">>

Verdicts ==
  /\ failed <=> \E e \in Endpoints : Unwritable(e)
  /\ closed => AllReturned
  /\ exit # NoExit => closed
  /\ exit = exitOK => ~failed
  /\ exit = exitPartialFailure => failed

DryRunInv ==
  /\ TypeOK
  /\ \A e \in Endpoints : Endpoint(e)
  /\ Verdicts

\* The dry run starts in DryRunInv.
LEMMA DryRunInvInit == Init => DryRunInv
<1>. SUFFICES ASSUME Init PROVE DryRunInv
  OBVIOUS
<1>1. TypeOK
  <2>1. told \in [Endpoints -> Seq(Outcomes)]
    <3>1. <<>> \in Seq(Outcomes)
      OBVIOUS
    <3>. QED  BY <3>1 DEF Init
  <2>. QED  BY <2>1, DryRunAssumption DEF Init, TypeOK, Outcomes, Places, DryRunAssumption
<1>2. \A e \in Endpoints : Endpoint(e) /\ ~Unwritable(e)
  BY DEF Init, Endpoint, Verdict, Open, Leftover, Unwritable
<1>. QED
  BY <1>1, <1>2 DEF Init, DryRunInv, Verdicts, NoExit, exitOK, exitPartialFailure

\* Every step keeps DryRunInv.
LEMMA DryRunInvNext == DryRunInv /\ [Next]_vars => DryRunInv'
<1>. SUFFICES ASSUME TypeOK, \A e \in Endpoints : Endpoint(e), Verdicts, [Next]_vars
              PROVE  (\A e \in Endpoints : Endpoint(e)') /\ Verdicts'
  BY TypesNext DEF DryRunInv
<1>1. ASSUME NEW d \in Endpoints, Step(d)
      PROVE  (\A e \in Endpoints : Endpoint(e)') /\ Verdicts'
  <2>1. UNCHANGED <<told, closed, failed, exit>> /\ Endpoint(d)'
    BY <1>1, EndpointStep
  <2>2. ASSUME NEW e \in Endpoints, e # d PROVE Endpoint(e)'
    BY <1>1, <2>2, EndpointsApart DEF Endpoint, Verdict, Open, Leftover
  <2>3. pc[d] # "end"
    BY <1>1
    DEF Step, Begin, ConnectOK, ConnectFails, NewProbe, UploadOK, UploadFails,
        DeleteOK, DeleteFails, RemoveLocal, Report, Disconnect, At
  <2>4. ~closed
    BY <2>3 DEF Verdicts, AllReturned, At
  <2>. QED  BY <2>1, <2>2, <2>4 DEF Verdicts, Unwritable
<1>2. ASSUME NEW d \in Endpoints, Receive(d)
      PROVE  (\A e \in Endpoints : Endpoint(e)') /\ Verdicts'
  <2>1. \A e \in Endpoints : Endpoint(e)'
    BY <1>2, EndpointReceived
  <2>2. told[d] = <<>> /\ told'[d] = <<out[d]>>
    BY <1>2, EndpointReceived
  <2>3. ~closed /\ UNCHANGED <<closed, exit>>
    BY <1>2 DEF Receive, Verdicts, AllReturned, At
  <2>4. failed' <=> \E e \in Endpoints : Unwritable(e)'
    <3>1. failed' <=> failed \/ out[d] # "ok"
      BY <1>2 DEF Receive, Remember
    <3>2. Unwritable(d)' <=> out[d] # "ok"
      BY <2>2 DEF Unwritable
    <3>3. \A e \in Endpoints \ {d} : Unwritable(e)' <=> Unwritable(e)
      BY <1>2 DEF Receive, Unwritable, TypeOK
    <3>4. ~Unwritable(d)
      BY <2>2 DEF Unwritable
    <3>. QED  BY <3>1, <3>2, <3>3, <3>4, Zenon DEF Verdicts
  <2>. QED  BY <2>1, <2>3, <2>4 DEF Verdicts, NoExit, exitOK, exitPartialFailure
<1>3. CASE Close
  <2>1. UNCHANGED <<pc, outcome, out, told, session, local, probe, failed, exit>>
    BY <1>3 DEF Close, cliVars
  <2>2. AllReturned /\ closed' = TRUE
    BY <1>3 DEF Close
  <2>. QED
    BY <2>1, <2>2
    DEF Verdicts, Unwritable, AllReturned, At, Endpoint, Verdict, Open, Leftover
<1>4. CASE RunReturns
  <2>1. /\ UNCHANGED <<pc, outcome, out, told, session, local, probe, closed, failed>>
        /\ closed /\ exit' = IF failed THEN exitPartialFailure ELSE exitOK
    BY <1>4 DEF RunReturns
  <2>. QED
    BY <2>1
    DEF Verdicts, Unwritable, AllReturned, At, Endpoint, Verdict, Open, Leftover,
        exitOK, exitPartialFailure
<1>5. CASE Ended \/ UNCHANGED vars
  BY <1>5
  DEF Ended, vars, cliVars, Verdicts, Unwritable, AllReturned, At, Endpoint, Verdict,
      Open, Leftover
<1>. QED  BY <1>1, <1>2, <1>3, <1>4, <1>5 DEF Next

\* DryRunInv holds in every reachable state.
LEMMA DryRunInvHolds == Spec => []DryRunInv
BY DryRunInvInit, DryRunInvNext, PTL DEF Spec

-----------------------------------------------------------------------------
(***************************************************************************)
(* The theorems.                                                           *)
(***************************************************************************)

\* The dry run's variables have their types.
THEOREM DryRunTypesHold == Spec => []TypeOK
<1>1. DryRunInv => TypeOK
  BY DEF DryRunInv
<1>. QED  BY <1>1, DryRunInvHolds, PTL

\* Every endpoint answers with exactly one DryRunEvent, whatever way runDryRun
\* is left by.
THEOREM OneVerdictEach == Spec => []OneEventEach
<1>1. ASSUME DryRunInv PROVE OneEventEach
  <2>. SUFFICES ASSUME NEW e \in Endpoints
                PROVE  Len(told[e]) <= 1 /\ (closed => Len(told[e]) = 1)
    BY DEF OneEventEach
  <2>1. told[e] = <<>> \/ told[e] = <<outcome[e]>>
    BY <1>1 DEF DryRunInv, Endpoint, Verdict
  <2>2. closed => told[e] = <<outcome[e]>>
    <3>1. outcome[e] # NoEvent
      BY <1>1 DEF DryRunInv, TypeOK, Outcomes, NoEvent
    <3>. QED  BY <1>1, <3>1 DEF DryRunInv, Endpoint, Verdict, Verdicts, AllReturned, At
  <2>3. Len(<<>>) <= 1 /\ Len(<<outcome[e]>>) <= 1 /\ Len(<<outcome[e]>>) = 1
    OBVIOUS
  <2>4. Len(told[e]) <= 1
    BY <2>1, <2>3, Zenon
  <2>5. closed => Len(told[e]) = 1
    BY <2>2, <2>3, Zenon
  <2>. QED  BY <2>4, <2>5
<1>. QED  BY <1>1, DryRunInvHolds, PTL

\* No session and no local probe file outlives the run, whatever failed.
THEOREM NothingStaysOpen == Spec => []NothingLeftOpen
<1>1. DryRunInv => NothingLeftOpen
  BY DEF DryRunInv, Endpoint, Open, Verdicts, AllReturned, At, NothingLeftOpen
<1>. QED  BY <1>1, DryRunInvHolds, PTL

\* A probe left on an SFTP server is announced by its endpoint's verdict.
THEOREM LeftoverIsReported == Spec => []SFTPLeftoverReported
<1>1. ASSUME DryRunInv, closed, NEW e \in Endpoints,
             Protocol[e] = "sftp", probe[e] # "absent"
      PROVE  told[e] \in {<<"write">>, <<"cleanup">>}
  <2>1. outcome[e] # NoEvent /\ At(e, "end")
    BY <1>1 DEF DryRunInv, TypeOK, Outcomes, NoEvent, Verdicts, AllReturned
  <2>2. told[e] = <<outcome[e]>> /\ outcome[e] \in {"write", "cleanup"}
    BY <1>1, <2>1 DEF DryRunInv, Endpoint, Verdict, Leftover, At
  <2>. QED  BY <2>2
<1>2. DryRunInv => SFTPLeftoverReported
  BY <1>1 DEF SFTPLeftoverReported
<1>. QED  BY <1>2, DryRunInvHolds, PTL

\* The exit code of a dry run is 0 only if every endpoint answered that it is
\* writable, and 1 only if one did not, whatever the order of the answers.
THEOREM ExitCodeTellsVerdicts == Spec => []ExitTellsVerdicts
<1>1. ASSUME DryRunInv, exit = exitOK, NEW e \in Endpoints PROVE told[e] = <<"ok">>
  <2>1. closed /\ ~Unwritable(e)
    BY <1>1 DEF DryRunInv, Verdicts, NoExit, exitOK
  <2>2. outcome[e] # NoEvent /\ At(e, "end")
    BY <1>1, <2>1 DEF DryRunInv, TypeOK, Outcomes, NoEvent, Verdicts, AllReturned
  <2>3. told[e] = <<outcome[e]>>
    BY <1>1, <2>2 DEF DryRunInv, Endpoint, Verdict, At
  <2>. QED  BY <2>1, <2>3 DEF Unwritable
<1>2. ASSUME DryRunInv, exit = exitPartialFailure
      PROVE  \E e \in Endpoints : told[e] # <<"ok">>
  BY <1>2 DEF DryRunInv, Verdicts, Unwritable
<1>3. DryRunInv => ExitTellsVerdicts
  BY <1>1, <1>2 DEF ExitTellsVerdicts
<1>. QED  BY <1>3, DryRunInvHolds, PTL

=============================================================================
