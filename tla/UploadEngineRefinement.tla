----------------------- MODULE UploadEngineRefinement -----------------------
(***************************************************************************)
(* The engine implements the contract towards its caller, UploadContract,  *)
(* for every set of endpoints, every batch and every setting: the caller's *)
(* receives of a success and of Done and the close of the channel are the  *)
(* contract's steps, and everything else is invisible to the caller.       *)
(***************************************************************************)
EXTENDS UploadEngineProofs

-----------------------------------------------------------------------------
(***************************************************************************)
(* Successes come in the order of the batch: the one being sent is of a    *)
(* file after all that were received.                                      *)
(***************************************************************************)
InOrder(e) == out[e].type = "success" => \A g \in uploaded[e] : g < out[e].file
OrderInv == \A e \in Endpoints : InOrder(e)

\* Only the end of uploadFile sends a success.
LEMMA OneSendOfSuccess ==
  ASSUME TypeOK, NEW e \in Endpoints, WorkerStep(e), ~Success(e)
  PROVE  \A d \in Endpoints : out'[d].type = "success" => out'[d] = out[d]
<1>. USE DEF TypeOK, Send, FileEvent
<1>1. ASSUME Begin(e) \/ EndOfBatch(e) \/ StopCanceled(e) \/ NextFile(e)
             \/ Attempt(e) \/ Wake(e)
      PROVE  UNCHANGED out
  BY <1>1 DEF Begin, EndOfBatch, StopCanceled, NextFile, Attempt, Wake
<1>2. ASSUME FailAllFiles(e) \/ SkipRemaining(e) \/ Report(e)
      PROVE  \A d \in Endpoints : out'[d].type = "success" => out'[d] = out[d]
  BY <1>2 DEF FailAllFiles, SkipRemaining, Report
<1>3. ASSUME AfterConnectFailed(e) \/ Start(e)
      PROVE  \A d \in Endpoints : out'[d].type = "success" => out'[d] = out[d]
  BY <1>3 DEF AfterConnectFailed, Start
<1>4. ASSUME Dial(e)
      PROVE  \A d \in Endpoints : out'[d].type = "success" => out'[d] = out[d]
  BY <1>4 DEF Dial, ConnectOK, ConnectCanceled, ConnectFailed
<1>5. ASSUME DeleteReturns(e) \/ UploadReturns(e) \/ VerifyReturns(e)
      PROVE  UNCHANGED out
  BY <1>5 DEF DeleteReturns, UploadReturns, VerifyReturns, CallReturns
<1>6. ASSUME DeleteFails(e) \/ OpenDenied(e) \/ UploadFails(e) \/ VerifyFails(e)
      PROVE  \A d \in Endpoints : out'[d].type = "success" => out'[d] = out[d]
  <2>1. out' = [out EXCEPT ![e] = FileEvent(e, "error")]
    BY <1>6 DEF DeleteFails, OpenDenied, UploadFails, VerifyFails, AttemptFails
  <2>. QED  BY <2>1
<1>7. ASSUME Progress(e)
      PROVE  \A d \in Endpoints : out'[d].type = "success" => out'[d] = out[d]
  BY <1>7 DEF Progress
<1>8. ASSUME HangUp(e)
      PROVE  \A d \in Endpoints : out'[d].type = "success" => out'[d] = out[d]
  BY <1>8 DEF HangUp, Retry, GiveUp, Finish
<1>. QED
  BY <1>1, <1>2, <1>3, <1>4, <1>5, <1>6, <1>7, <1>8
  DEF WorkerStep, LocalStep, SessionCall

\* Every step keeps the order: the file being dealt with is after all the
\* successes so far (TallyInv).
LEMMA OrderInvNext == TypeOK /\ TallyInv /\ OrderInv /\ [Next]_vars => OrderInv'
<1>. SUFFICES ASSUME TypeOK, TallyInv, OrderInv, [Next]_vars PROVE OrderInv'
  OBVIOUS
<1>1. ASSUME NEW e \in Endpoints, WorkerStep(e), ~Success(e) PROVE OrderInv'
  <2>1. uploaded' = uploaded
    BY <1>1, WorkersChangeNothingReceived DEF callerVars
  <2>. QED  BY <1>1, <2>1, OneSendOfSuccess DEF OrderInv, InOrder
<1>2. ASSUME NEW e \in Endpoints, Success(e) PROVE OrderInv'
  <2>1. /\ out' = [out EXCEPT ![e] = FileEvent(e, "success")]
        /\ uploaded' = uploaded
    BY <1>2 DEF Success, Send, callerVars
  <2>2. \A g \in uploaded[e] : g < file[e]
    BY DEF TallyInv, Tally, Reported
  <2>. QED  BY <2>1, <2>2 DEF OrderInv, InOrder, FileEvent, TypeOK
<1>3. ASSUME NEW e \in Endpoints, Receive(e) PROVE OrderInv'
  <2>1. out' = [out EXCEPT ![e] = NoEvent]
    BY <1>3 DEF Receive
  <2>2. \A d \in Endpoints \ {e} : uploaded'[d] = uploaded[d]
    BY <1>3 DEF Receive, TypeOK
  <2>. QED  BY <2>1, <2>2 DEF OrderInv, InOrder, NoEvent, TypeOK
<1>4. ASSUME Cancel \/ Close \/ Ended \/ UNCHANGED vars PROVE OrderInv'
  <2>1. UNCHANGED <<out, uploaded>>
    BY <1>4 DEF Cancel, Close, Ended, vars, callerVars
  <2>. QED  BY <2>1 DEF OrderInv, InOrder
<1>. QED  BY <1>1, <1>2, <1>3, <1>4 DEF Next, WorkerStep

\* The engine starts in order.
LEMMA OrderInvInit == Init => OrderInv
BY DEF Init, OrderInv, InOrder, NoEvent

\* The contract follows from EngineInv and the order.
RefinementInv == EngineInv /\ OrderInv

LEMMA RefinementInvHolds == Spec => []RefinementInv
<1>1. Init => OrderInv
  BY OrderInvInit
<1>2. EngineInv /\ OrderInv /\ [Next]_vars => OrderInv'
  BY OrderInvNext DEF EngineInv, TypeInv
<1>. QED  BY <1>1, <1>2, EngineInvHolds, PTL DEF Spec, RefinementInv

-----------------------------------------------------------------------------
(***************************************************************************)
(* The visible steps.                                                      *)
(***************************************************************************)

\* Before its Done event is received an endpoint has no counts.
LEMMA NoCountsBeforeDone ==
  ASSUME EndingInv, NEW e \in Endpoints, out[e] # NoEvent
  PROVE  FinalCounts(done[e]) = {}
BY DEF EndingInv, Ending, FinalCounts

\* The counts of an event that is one.
LEMMA CountsOfDone ==
  ASSUME NEW s, NEW f
  PROVE  LET ev == [type |-> "done", succeeded |-> s, failed |-> f]
         IN  ev # NoEvent /\ FinalCounts(ev) = {[succeeded |-> s, failed |-> f]}
<1>1. [type |-> "done", succeeded |-> s, failed |-> f] # NoEvent
  <2>1. [type |-> "done", succeeded |-> s, failed |-> f].type # NoEvent.type
    BY DEF NoEvent
  <2>. QED  BY <2>1
<1>. QED  BY <1>1 DEF FinalCounts

\* Receiving a success is the contract's FileUploaded.
LEMMA ReceiveSuccess ==
  ASSUME TypeOK, EndingInv, OrderInv, NEW e \in Endpoints, Receive(e),
         out[e].type = "success"
  PROVE  Contract!FileUploaded(e, out[e].file) /\ out[e].file \in 1..NumFiles
<1>1. out[e].file \in 1..NumFiles
  BY EventKinds DEF TypeOK, Files
<1>2. FinalCounts(done[e]) = {}
  BY NoCountsBeforeDone DEF Receive
<1>3. \A g \in uploaded[e] : g < out[e].file
  BY DEF OrderInv, InOrder
<1>4. /\ uploaded' = [uploaded EXCEPT ![e] = @ \cup {out[e].file}]
      /\ UNCHANGED <<done, closed>>
  BY DEF Receive
<1>. QED  BY <1>1, <1>2, <1>3, <1>4 DEF Contract!FileUploaded

\* Receiving Done is the contract's EndpointDone, with the counts it asks for.
LEMMA ReceiveDone ==
  ASSUME EngineInv, NEW e \in Endpoints, Receive(e), out[e].type = "done"
  PROVE  Contract!EndpointDone(e)
<1>1. FinalCounts(done[e]) = {}
  BY NoCountsBeforeDone DEF Receive, EngineInv
<1>2. /\ done' = [done EXCEPT ![e] = out[e]]
      /\ UNCHANGED <<uploaded, closed>>
  BY DEF Receive
<1>3. out[e] = FinalEvent(e) /\ pc[e] \in {"finish", "end"}
  BY DEF EngineInv, EndingInv, Ending, NoEvent
<1>4. Reported(e) = uploaded[e]
  BY DEF Reported
<1>5. /\ succeeded[e] = Cardinality(uploaded[e])
      /\ succeeded[e] + failed[e] = NumFiles
  BY <1>3, <1>4 DEF EngineInv, TallyInv, Tally
<1>6. failed[e] = NumFiles - succeeded[e]
  BY <1>5, TallyNumbers DEF EngineInv, TypeInv
<1>7. FinalCounts(out[e]) = {[succeeded |-> Cardinality(uploaded[e]),
                              failed |-> NumFiles - Cardinality(uploaded[e])]}
  BY <1>3, <1>5, <1>6, CountsOfDone DEF FinalEvent
<1>. DEFINE counts == [d \in Endpoints |-> FinalCounts(done[d])]
<1>8. counts[e] = {}
  BY <1>1
<1>9. counts' = [counts EXCEPT ![e] = FinalCounts(out[e])]
  BY <1>2 DEF EngineInv, TypeInv, TypeOK, FinalCounts
<1>10. Contract!Cardinality(uploaded[e]) = Cardinality(uploaded[e])
  BY DEF Contract!Cardinality, Cardinality
<1>11. counts' = [counts EXCEPT ![e] =
          {Contract!Counts(Contract!Cardinality(uploaded[e]))}]
  BY <1>7, <1>9, <1>10 DEF Contract!Counts
<1>. QED
  <2>. HIDE DEF counts
  <2>1. /\ counts[e] = {}
        /\ counts' = [counts EXCEPT ![e] =
             {Contract!Counts(Contract!Cardinality(uploaded[e]))}]
        /\ UNCHANGED <<uploaded, ~closed>>
    BY <1>2, <1>8, <1>11
  <2>. QED  BY <2>1 DEF Contract!EndpointDone, counts

\* Receiving any other event is invisible.
LEMMA ReceiveOther ==
  ASSUME NEW e \in Endpoints, Receive(e), out[e].type \notin {"success", "done"}
  PROVE  UNCHANGED Contract!vars
<1>1. UNCHANGED <<uploaded, done, closed>>
  BY DEF Receive
<1>. QED  BY <1>1 DEF Contract!vars

\* The close is the contract's: every endpoint has reported by then.
LEMMA CloseIsContractClose ==
  ASSUME EngineInv, Close
  PROVE  Contract!Close
<1>1. ~closed /\ closed' = TRUE /\ UNCHANGED <<uploaded, done>>
  BY DEF Close
<1>2. ASSUME NEW e \in Endpoints PROVE FinalCounts(done[e]) # {}
  <2>1. pc[e] = "end" /\ out[e] = NoEvent
    BY DEF Close, AllReturned, At
  <2>2. FinalEvent(e).type = "done" /\ NoEvent.type = "none"
    BY DEF FinalEvent, NoEvent
  <2>3. done[e] = FinalEvent(e)
    BY <2>1, <2>2 DEF EngineInv, EndingInv, Ending
  <2>. QED  BY <2>3, CountsOfDone DEF FinalEvent
<1>. QED  BY <1>1, <1>2 DEF Contract!Close

\* Every behaviour of the engine is one the contract allows: successes in
\* batch order, one Done per endpoint whose counts agree with them and add up
\* to the batch, and then the close (Upload, run, uploadFile).
THEOREM EngineImplementsContract == Spec => ImplementsContract
<1>1. Init => Contract!Init
  <2>. SUFFICES ASSUME Init PROVE Contract!Init
    OBVIOUS
  <2>1. \A e \in Endpoints : FinalCounts(done[e]) = {}
    BY DEF Init, FinalCounts
  <2>. QED  BY <2>1 DEF Init, Contract!Init
<1>2. RefinementInv /\ [Next]_vars => [Contract!Next]_(Contract!vars)
  <2>. SUFFICES ASSUME RefinementInv, [Next]_vars
                PROVE  Contract!Next \/ UNCHANGED Contract!vars
    OBVIOUS
  <2>. USE DEF RefinementInv
  <2>1. ASSUME NEW e \in Endpoints, WorkerStep(e) PROVE UNCHANGED Contract!vars
    BY <2>1, WorkersChangeNothingReceived DEF callerVars, Contract!vars
  <2>2. ASSUME NEW e \in Endpoints, Receive(e)
        PROVE  Contract!Next \/ UNCHANGED Contract!vars
    <3>1. CASE out[e].type = "success"
      BY <2>2, <3>1, ReceiveSuccess DEF EngineInv, TypeInv, Contract!Next
    <3>2. CASE out[e].type = "done"
      BY <2>2, <3>2, ReceiveDone DEF Contract!Next
    <3>. QED  BY <2>2, <3>1, <3>2, ReceiveOther
  <2>3. CASE Close
    BY <2>3, CloseIsContractClose DEF Contract!Next
  <2>4. CASE Cancel \/ Ended \/ UNCHANGED vars
    <3>1. UNCHANGED <<uploaded, done, closed>>
      BY <2>4 DEF Cancel, Ended, vars, callerVars
    <3>. QED  BY <3>1 DEF Contract!vars
  <2>. QED  BY <2>1, <2>2, <2>3, <2>4 DEF Next, WorkerStep
<1>. QED
  BY <1>1, <1>2, RefinementInvHolds, PTL DEF Spec, ImplementsContract, Contract!Spec
=============================================================================
