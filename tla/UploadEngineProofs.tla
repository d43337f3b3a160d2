------------------------- MODULE UploadEngineProofs -------------------------
(***************************************************************************)
(* Theorems about UploadEngine, for every set of endpoints, every batch    *)
(* and every setting of the constants that EngineAssumption admits.        *)
(***************************************************************************)
EXTENDS UploadEngine, FiniteSetTheorems, TLAPS

-----------------------------------------------------------------------------
(***************************************************************************)
(* Events.                                                                 *)
(***************************************************************************)

\* An event's type tells which kind of record it is.
LEMMA EventKinds ==
  ASSUME NEW ev \in Events \cup {NoEvent}
  PROVE  /\ ev.type \in {"start", "progress", "success", "error"}
              => ev.file \in Files /\ ev.attempt \in Nat
         /\ ev.type \in {"unreachable", "givenup"} => ev.skipped \subseteq Files
         /\ ev.type = "done" => ev \in DoneEvents
         /\ ev.type = "none" => ev = NoEvent
<1>1. CASE ev \in FileEvents
  BY <1>1 DEF FileEvents
<1>2. CASE ev \in SkipEvents
  BY <1>2 DEF SkipEvents
<1>3. CASE ev \in DoneEvents
  BY <1>3 DEF DoneEvents
<1>4. CASE ev = NoEvent
  BY <1>4 DEF NoEvent
<1>. QED  BY <1>1, <1>2, <1>3, <1>4 DEF Events

\* The record a worker sends about the file it is at.
LEMMA FileEventIsEvent ==
  ASSUME NEW e \in Endpoints, file[e] \in Files, attempt[e] \in Nat,
         NEW type \in {"start", "progress", "success", "error"}
  PROVE  FileEvent(e, type) \in Events
BY DEF FileEvent, Events, FileEvents

-----------------------------------------------------------------------------
(***************************************************************************)
(* Types. A worker that deals with a file is inside the batch: without     *)
(* that the events it sends would name no file.                            *)
(***************************************************************************)
InFile == {"attempt", "dial", "dialFailed", "ready", "delete", "upload",
           "verify", "success", "failed", "denied", "sleep"}
InBatch == \A e \in Endpoints : pc[e] \in InFile => file[e] \in Files

TypeInv == TypeOK /\ InBatch

\* The engine starts well typed, and no worker is inside a file.
LEMMA TypeInvInit == Init => TypeInv
<1>. SUFFICES ASSUME Init PROVE TypeInv
  OBVIOUS
<1>1. /\ remote \in [Endpoints -> [Files -> Contents]]
      /\ errors \in [Endpoints -> [Files -> Nat]]
  BY DEF Init, Contents
<1>2. /\ file \in [Endpoints -> 1..(NumFiles + 1)]
      /\ sent \in [Endpoints -> 0..Chunks]
  BY EngineAssumption DEF Init, EngineAssumption
<1>3. TypeOK
  BY <1>1, <1>2 DEF Init, TypeOK, Places, Sessions
<1>4. InBatch
  BY DEF Init, InBatch, InFile
<1>. QED  BY <1>3, <1>4 DEF TypeInv

\* uploadFile's "return false" keeps the loop variables in the batch.
LEMMA FileFailedTypes ==
  ASSUME TypeOK, NEW e \in Endpoints, file[e] \in Files, FileFailed(e)
  PROVE  /\ file' \in [Endpoints -> 1..(NumFiles + 1)]
         /\ failed' \in [Endpoints -> Nat]
         /\ pc' = [pc EXCEPT ![e] = "loop"]
         /\ \A d \in Endpoints \ {e} : file'[d] = file[d]
<1>1. /\ file' = [file EXCEPT ![e] = @ + 1]
      /\ failed' = [failed EXCEPT ![e] = @ + 1]
      /\ pc' = [pc EXCEPT ![e] = "loop"]
  BY DEF FileFailed, Goto
<1>2. /\ file \in [Endpoints -> 1..(NumFiles + 1)]
      /\ failed \in [Endpoints -> Nat]
  BY DEF TypeOK
<1>3. file[e] + 1 \in 1..(NumFiles + 1)
  BY EngineAssumption DEF Files, EngineAssumption
<1>. QED  BY <1>1, <1>2, <1>3

\* uploadFile's "return false", with everything else left alone.
LEMMA FileFailedKeepsTypes ==
  ASSUME TypeInv, NEW e \in Endpoints, file[e] \in Files, FileFailed(e),
         UNCHANGED <<out, attempt, callerVars, connVars, transferVars>>
  PROVE  TypeInv'
<1>1. /\ file' \in [Endpoints -> 1..(NumFiles + 1)]
      /\ failed' \in [Endpoints -> Nat]
      /\ pc' = [pc EXCEPT ![e] = "loop"]
      /\ \A d \in Endpoints \ {e} : file'[d] = file[d]
  BY FileFailedTypes DEF TypeInv
<1>. QED
  BY <1>1 DEF TypeInv, TypeOK, InBatch, InFile, Places, callerVars, connVars,
              transferVars

\* Either way the worker stays with its file.
LEMMA SleepBeforeRetryTypes ==
  ASSUME TypeInv, NEW e \in Endpoints, file[e] \in Files, SleepBeforeRetry(e),
         UNCHANGED file
  PROVE  /\ attempt' \in [Endpoints -> Nat]
         /\ pc' \in [Endpoints -> Places]
         /\ InBatch'
<1>1. CASE attempt[e] < Attempts[e]
  BY <1>1 DEF SleepBeforeRetry, Goto, TypeInv, TypeOK, InBatch, InFile, Places
<1>2. CASE ~(attempt[e] < Attempts[e])
  <2>1. /\ attempt' = [attempt EXCEPT ![e] = @ + 1]
        /\ pc' = [pc EXCEPT ![e] = "attempt"]
    BY <1>2 DEF SleepBeforeRetry, NextAttempt, Goto
  <2>2. attempt' \in [Endpoints -> Nat]
    BY <2>1 DEF TypeInv, TypeOK
  <2>. QED  BY <2>1, <2>2 DEF TypeInv, TypeOK, InBatch, InFile, Places
<1>. QED  BY <1>1, <1>2

\* The server holds one of Contents under the worker's file.
LEMMA StoreTypes ==
  ASSUME TypeOK, NEW e \in Endpoints, NEW contents \in Contents, Store(e, contents)
  PROVE  remote' \in [Endpoints -> [Files -> Contents]]
<1>1. [remote[e] EXCEPT ![file[e]] = contents] \in [Files -> Contents]
  BY DEF TypeOK
<1>. QED  BY <1>1 DEF TypeOK, Store

\* A failing call leaves everything well typed once its event is.
LEMMA AttemptFailsTypes ==
  ASSUME TypeInv, NEW e \in Endpoints, FileEvent(e, "error") \in Events,
         remote' \in [Endpoints -> [Files -> Contents]], file[e] \in Files,
         NEW verdict \in {"failed", "denied"}, AttemptFails(e, verdict)
  PROVE  TypeInv'
<1>1. sent' \in [Endpoints -> 0..Chunks]
  BY EngineAssumption DEF TypeInv, TypeOK, AttemptFails, EngineAssumption
<1>. QED
  BY <1>1 DEF TypeInv, TypeOK, InBatch, InFile, AttemptFails, Send, Goto, Places,
              Sessions, callerVars, loopVars, connVars, transferVars

\* A call that returns nil leaves everything well typed.
LEMMA CallReturnsTypes ==
  ASSUME TypeInv, NEW e \in Endpoints, remote' \in [Endpoints -> [Files -> Contents]],
         file[e] \in Files, NEW p \in {"upload", "verify", "success"}, CallReturns(e, p)
  PROVE  TypeInv'
<1>1. sent' \in [Endpoints -> 0..Chunks]
  BY EngineAssumption DEF TypeInv, TypeOK, CallReturns, EngineAssumption
<1>. QED
  BY <1>1 DEF TypeInv, TypeOK, InBatch, InFile, CallReturns, Goto, Places,
              callerVars, loopVars, connVars

\* Every step keeps the types and keeps workers inside the batch.
LEMMA TypeInvNext == TypeInv /\ [Next]_vars => TypeInv'
<1>. SUFFICES ASSUME TypeInv, [Next]_vars PROVE TypeInv'
  OBVIOUS
<1>. USE DEF TypeInv, TypeOK, InBatch, InFile, At, Goto, callerVars, loopVars,
             connVars, transferVars
<1>1. ASSUME NEW e \in Endpoints, Begin(e) PROVE TypeInv'
  BY <1>1 DEF Begin, Places
<1>2. ASSUME NEW e \in Endpoints, FailAllFiles(e) PROVE TypeInv'
  <2>1. CASE MoreFiles(e)
    <3>1. FileEvent(e, "error") \in Events
      BY <2>1, FileEventIsEvent, EngineAssumption DEF MoreFiles, Files, EngineAssumption
    <3>2. file' \in [Endpoints -> 1..(NumFiles + 1)]
      BY <1>2, <2>1, EngineAssumption DEF FailAllFiles, MoreFiles, EngineAssumption
    <3>. QED  BY <1>2, <2>1, <3>1, <3>2 DEF FailAllFiles, Send
  <2>2. CASE ~MoreFiles(e)
    <3>1. [type |-> "done", succeeded |-> 0, failed |-> NumFiles] \in Events
      BY EngineAssumption DEF Events, DoneEvents, EngineAssumption
    <3>2. NumFiles \in Nat
      BY EngineAssumption DEF EngineAssumption
    <3>3. failed' \in [Endpoints -> Nat]
      BY <1>2, <2>2, <3>2 DEF FailAllFiles
    <3>. QED  BY <1>2, <2>2, <3>1, <3>3 DEF FailAllFiles, Send, Places
  <2>. QED  BY <2>1, <2>2
<1>3. ASSUME NEW e \in Endpoints, EndOfBatch(e) PROVE TypeInv'
  BY <1>3, EngineAssumption DEF EndOfBatch, Places, EngineAssumption
<1>4. ASSUME NEW e \in Endpoints, StopCanceled(e) PROVE TypeInv'
  <2>1. CountFrom(file[e]) \in Nat
    BY EngineAssumption DEF CountFrom, EngineAssumption
  <2>. QED  BY <1>4, <2>1 DEF StopCanceled, StopBatch, Places
<1>5. ASSUME NEW e \in Endpoints, NextFile(e) PROVE TypeInv'
  <2>1. file[e] \in Files
    BY <1>5, EngineAssumption DEF NextFile, MoreFiles, Files, EngineAssumption
  <2>. QED  BY <1>5, <2>1 DEF NextFile, Places
<1>6. ASSUME NEW e \in Endpoints, Finish(e) PROVE TypeInv'
  BY <1>6, EngineAssumption DEF Finish, Disconnect, Places, Sessions, EngineAssumption
<1>7. ASSUME NEW e \in Endpoints, Attempt(e) PROVE TypeInv'
  <2>0. file[e] \in Files
    BY <1>7 DEF Attempt
  <2>1. CASE MayAttempt(e)
    BY <1>7, <2>0, <2>1 DEF Attempt, Places
  <2>2. CASE ~MayAttempt(e)
    <3>1. FileFailed(e) /\ UNCHANGED <<out, attempt, callerVars, connVars, transferVars>>
      BY <1>7, <2>2 DEF Attempt
    <3>. QED  BY <2>0, <3>1, FileFailedKeepsTypes
  <2>. QED  BY <2>1, <2>2
<1>8. ASSUME NEW e \in Endpoints, ConnectOK(e) PROVE TypeInv'
  BY <1>8, EngineAssumption DEF ConnectOK, Places, Sessions, EngineAssumption
<1>9. ASSUME NEW e \in Endpoints, ConnectCanceled(e) PROVE TypeInv'
  <2>1. file[e] \in Files
    BY <1>9 DEF ConnectCanceled
  <2>2. FileFailed(e) /\ UNCHANGED <<out, attempt, callerVars, connVars, transferVars>>
    BY <1>9 DEF ConnectCanceled
  <2>. QED  BY <2>1, <2>2, FileFailedKeepsTypes
<1>10. ASSUME NEW e \in Endpoints, Wake(e) PROVE TypeInv'
  BY <1>10, EngineAssumption DEF Wake, NextAttempt, Places, EngineAssumption
<1>11. ASSUME NEW e \in Endpoints, Retry(e) PROVE TypeInv'
  <2>1. file[e] \in Files
    BY <1>11 DEF Retry
  <2>2. SleepBeforeRetry(e)
    BY <1>11 DEF Retry
  <2>. QED  BY <1>11, <2>1, <2>2, SleepBeforeRetryTypes DEF Retry, Disconnect, Sessions
<1>12. ASSUME NEW e \in Endpoints, DeleteReturns(e) PROVE TypeInv'
  <2>1. remote' \in [Endpoints -> [Files -> Contents]]
    BY <1>12, StoreTypes DEF DeleteReturns, Contents
  <2>2. file[e] \in Files /\ CallReturns(e, "upload")
    BY <1>12 DEF DeleteReturns
  <2>. QED  BY <2>1, <2>2, CallReturnsTypes
<1>13. ASSUME NEW e \in Endpoints, UploadReturns(e) PROVE TypeInv'
  <2>1. remote' \in [Endpoints -> [Files -> Contents]]
    BY <1>13, StoreTypes DEF UploadReturns, Contents
  <2>2. file[e] \in Files /\ CallReturns(e, AfterUpload)
    BY <1>13 DEF UploadReturns
  <2>. QED  BY <2>1, <2>2, CallReturnsTypes DEF AfterUpload
<1>14. ASSUME NEW e \in Endpoints, VerifyReturns(e) PROVE TypeInv'
  <2>1. file[e] \in Files /\ CallReturns(e, "success") /\ UNCHANGED remote
    BY <1>14 DEF VerifyReturns
  <2>. QED  BY <2>1, CallReturnsTypes
<1>15. ASSUME NEW e \in Endpoints, SkipRemaining(e) PROVE TypeInv'
  <2>1. [type |-> "unreachable", skipped |-> FilesFrom(file[e])] \in Events
    BY EngineAssumption DEF Events, SkipEvents, FilesFrom, Files, EngineAssumption
  <2>2. CountFrom(file[e]) \in Nat
    BY EngineAssumption DEF CountFrom, EngineAssumption
  <2>. QED  BY <1>15, <2>1, <2>2 DEF SkipRemaining, StopBatch, Send, Places
<1>16. ASSUME NEW e \in Endpoints, Report(e) PROVE TypeInv'
  <2>1. [type |-> "done", succeeded |-> succeeded[e], failed |-> failed[e]] \in Events
    BY DEF Events, DoneEvents
  <2>. QED  BY <1>16, <2>1 DEF Report, Send, Places
<1>17. ASSUME NEW e \in Endpoints, ConnectFailed(e) PROVE TypeInv'
  <2>1. FileEvent(e, "error") \in Events
    BY <1>17, FileEventIsEvent DEF ConnectFailed
  <2>. QED  BY <1>17, <2>1 DEF ConnectFailed, Send, Places
<1>18. ASSUME NEW e \in Endpoints, AfterConnectFailed(e) PROVE TypeInv'
  <2>1. file[e] \in Files
    BY <1>18 DEF AfterConnectFailed
  <2>2. FileEvent(e, "error") \in Events
    BY <2>1, FileEventIsEvent
  <2>3. CASE CircuitOpen(e)
    <3>1. FileFailed(e)
      BY <1>18, <2>3 DEF AfterConnectFailed
    <3>2. /\ file' \in [Endpoints -> 1..(NumFiles + 1)]
          /\ failed' \in [Endpoints -> Nat]
          /\ pc' = [pc EXCEPT ![e] = "loop"]
          /\ \A d \in Endpoints \ {e} : file'[d] = file[d]
      BY <2>1, <3>1, FileFailedTypes
    <3>. QED  BY <1>18, <2>2, <2>3, <3>2 DEF AfterConnectFailed, Send, Places
  <2>4. CASE ~CircuitOpen(e)
    <3>1. SleepBeforeRetry(e)
      BY <1>18, <2>4 DEF AfterConnectFailed
    <3>. QED  BY <1>18, <2>1, <2>4, <3>1, SleepBeforeRetryTypes DEF AfterConnectFailed
  <2>. QED  BY <2>3, <2>4
<1>19. ASSUME NEW e \in Endpoints, Start(e) PROVE TypeInv'
  <2>1. FileEvent(e, "start") \in Events
    BY <1>19, FileEventIsEvent DEF Start
  <2>. QED  BY <1>19, <2>1 DEF Start, Send, FirstCall, Places
<1>20. ASSUME NEW e \in Endpoints, GiveUp(e) PROVE TypeInv'
  <2>1. [type |-> "givenup", skipped |-> FilesFrom(file[e] + 1)] \in Events
    BY EngineAssumption DEF Events, SkipEvents, FilesFrom, Files, EngineAssumption
  <2>2. 1 + CountFrom(file[e] + 1) \in Nat
    BY EngineAssumption DEF CountFrom, EngineAssumption
  <2>. QED  BY <1>20, <2>1, <2>2 DEF GiveUp, Disconnect, StopBatch, Send, Places, Sessions
<1>21. ASSUME NEW e \in Endpoints, Progress(e) PROVE TypeInv'
  <2>1. FileEvent(e, "progress") \in Events
    BY <1>21, FileEventIsEvent DEF Progress
  <2>. QED  BY <1>21, <2>1, EngineAssumption DEF Progress, Send, EngineAssumption
<1>22. ASSUME NEW e \in Endpoints, Success(e) PROVE TypeInv'
  <2>1. file[e] \in Files
    BY <1>22 DEF Success
  <2>2. FileEvent(e, "success") \in Events
    BY <2>1, FileEventIsEvent
  <2>3. file' \in [Endpoints -> 1..(NumFiles + 1)]
    BY <1>22, <2>1, EngineAssumption DEF Success, Files, EngineAssumption
  <2>. QED  BY <1>22, <2>2, <2>3 DEF Success, Send, Places
<1>23. ASSUME NEW e \in Endpoints, DeleteFails(e) PROVE TypeInv'
  <2>1. FileEvent(e, "error") \in Events
    BY <1>23, FileEventIsEvent DEF DeleteFails
  <2>2. remote' \in [Endpoints -> [Files -> Contents]]
    <3>1. remote[e][file[e]] \in Contents
      BY <1>23 DEF DeleteFails
    <3>. QED  BY <1>23, <3>1, StoreTypes DEF DeleteFails, Contents
  <2>3. \E verdict \in {"failed", "denied"} : AttemptFails(e, verdict)
    BY <1>23 DEF DeleteFails, Verdicts
  <2>4. file[e] \in Files
    BY <1>23 DEF DeleteFails
  <2>. QED  BY <2>1, <2>2, <2>3, <2>4, AttemptFailsTypes
<1>24. ASSUME NEW e \in Endpoints, OpenDenied(e) PROVE TypeInv'
  <2>1. FileEvent(e, "error") \in Events
    BY <1>24, FileEventIsEvent DEF OpenDenied
  <2>2. remote' \in [Endpoints -> [Files -> Contents]]
    BY <1>24 DEF OpenDenied
  <2>3. \E verdict \in {"failed", "denied"} : AttemptFails(e, verdict)
    BY <1>24 DEF OpenDenied, Verdicts
  <2>4. file[e] \in Files
    BY <1>24 DEF OpenDenied
  <2>. QED  BY <2>1, <2>2, <2>3, <2>4, AttemptFailsTypes
<1>25. ASSUME NEW e \in Endpoints, UploadFails(e) PROVE TypeInv'
  <2>1. FileEvent(e, "error") \in Events
    BY <1>25, FileEventIsEvent DEF UploadFails
  <2>2. remote' \in [Endpoints -> [Files -> Contents]]
    <3>1. remote[e][file[e]] \in Contents
      BY <1>25 DEF UploadFails
    <3>. QED  BY <1>25, <3>1, StoreTypes DEF UploadFails, Contents
  <2>3. \E verdict \in {"failed", "denied"} : AttemptFails(e, verdict)
    BY <1>25 DEF UploadFails, Verdicts
  <2>4. file[e] \in Files
    BY <1>25 DEF UploadFails
  <2>. QED  BY <2>1, <2>2, <2>3, <2>4, AttemptFailsTypes
<1>26. ASSUME NEW e \in Endpoints, VerifyFails(e) PROVE TypeInv'
  <2>1. FileEvent(e, "error") \in Events
    BY <1>26, FileEventIsEvent DEF VerifyFails
  <2>2. remote' \in [Endpoints -> [Files -> Contents]]
    BY <1>26 DEF VerifyFails
  <2>3. \E verdict \in {"failed", "denied"} : AttemptFails(e, verdict)
    BY <1>26 DEF VerifyFails, Verdicts
  <2>4. file[e] \in Files
    BY <1>26 DEF VerifyFails
  <2>. QED  BY <2>1, <2>2, <2>3, <2>4, AttemptFailsTypes
<1>27. ASSUME NEW e \in Endpoints, Receive(e) PROVE TypeInv'
  <2>1. out' \in [Endpoints -> Events \cup {NoEvent}]
    BY <1>27 DEF Receive
  <2>2. errors' \in [Endpoints -> [Files -> Nat]]
    BY <1>27, EventKinds DEF Receive
  <2>3. uploaded' \in [Endpoints -> SUBSET Files]
    BY <1>27, EventKinds DEF Receive
  <2>4. skipped' \in [Endpoints -> SUBSET Files]
    BY <1>27, EventKinds DEF Receive
  <2>5. done' \in [Endpoints -> DoneEvents \cup {NoEvent}]
    BY <1>27, EventKinds DEF Receive
  <2>. QED  BY <1>27, <2>1, <2>2, <2>3, <2>4, <2>5 DEF Receive
<1>28. CASE Cancel \/ Close
  BY <1>28 DEF Cancel, Close
<1>29. CASE Ended \/ UNCHANGED vars
  BY <1>29 DEF Ended, vars
<1>. HIDE DEF TypeInv
<1>. QED
  BY <1>1, <1>2, <1>3, <1>4, <1>5, <1>6, <1>7, <1>8, <1>9, <1>10, <1>11, <1>12,
     <1>13, <1>14, <1>15, <1>16, <1>17, <1>18, <1>19, <1>20, <1>21, <1>22,
     <1>23, <1>24, <1>25, <1>26, <1>27, <1>28, <1>29
  DEF Next, LocalStep, Dial, SessionCall, HangUp

\* The variables keep their types: every event names a file of the batch, and
\* a worker that deals with a file has not run past the end of the batch.
THEOREM TypeCorrect == Spec => []TypeOK
<1>1. Init => TypeInv
  BY TypeInvInit
<1>2. TypeInv /\ [Next]_vars => TypeInv'
  BY TypeInvNext
<1>3. TypeInv => TypeOK
  BY DEF TypeInv
<1>. QED  BY <1>1, <1>2, <1>3, PTL DEF Spec
-----------------------------------------------------------------------------
(***************************************************************************)
(* Connections. The connected flag and the server agree, only a worker     *)
(* about to disconnect holds a session a call has failed on, and a worker  *)
(* that deals with a file has not exhausted the breaker, except right      *)
(* after the failed connect that may have tripped it.                      *)
(***************************************************************************)
ConnInv ==
  \A e \in Endpoints :
    /\ connected[e] <=> session[e] # "none"
    /\ session[e] = "suspect" => pc[e] \in {"failed", "denied"}
    /\ pc[e] \in {"ready", "delete", "upload", "verify", "success", "failed", "denied"}
         => session[e] # "none"
    /\ pc[e] \in {"spawned", "failAll", "dial", "dialFailed", "end"}
         => session[e] = "none"
    /\ connectFailures[e] <= MaxConsecutiveConnectFailures[e]
    /\ pc[e] \in InFile \ {"dialFailed"} => ~CircuitOpen(e)

\* Every step keeps what is said of connections.
LEMMA ConnInvNext == TypeInv /\ ConnInv /\ [Next]_vars => ConnInv'
<1>. SUFFICES ASSUME TypeOK, ConnInv, [Next]_vars PROVE ConnInv'
  BY DEF TypeInv
<1>. USE EngineAssumption
     DEF TypeOK, ConnInv, InFile, CircuitOpen, Sessions, At, Goto, callerVars,
         loopVars, connVars, transferVars, EngineAssumption
<1>1. ASSUME NEW e \in Endpoints, Begin(e) PROVE ConnInv'
  BY <1>1 DEF Begin
<1>2. ASSUME NEW e \in Endpoints, FailAllFiles(e) PROVE ConnInv'
  BY <1>2 DEF FailAllFiles, Send
<1>3. ASSUME NEW e \in Endpoints, EndOfBatch(e) PROVE ConnInv'
  BY <1>3 DEF EndOfBatch
<1>4. ASSUME NEW e \in Endpoints, StopCanceled(e) PROVE ConnInv'
  BY <1>4 DEF StopCanceled, StopBatch
<1>5. ASSUME NEW e \in Endpoints, SkipRemaining(e) PROVE ConnInv'
  BY <1>5 DEF SkipRemaining, StopBatch, Send
<1>6. ASSUME NEW e \in Endpoints, NextFile(e) PROVE ConnInv'
  BY <1>6 DEF NextFile
<1>7. ASSUME NEW e \in Endpoints, Report(e) PROVE ConnInv'
  BY <1>7 DEF Report, Send
<1>8. ASSUME NEW e \in Endpoints, Finish(e) PROVE ConnInv'
  BY <1>8 DEF Finish, Disconnect
<1>9. ASSUME NEW e \in Endpoints, Attempt(e) PROVE ConnInv'
  BY <1>9 DEF Attempt, FileFailed
<1>10. ASSUME NEW e \in Endpoints, ConnectOK(e) PROVE ConnInv'
  BY <1>10 DEF ConnectOK
<1>11. ASSUME NEW e \in Endpoints, ConnectCanceled(e) PROVE ConnInv'
  BY <1>11 DEF ConnectCanceled, FileFailed
<1>12. ASSUME NEW e \in Endpoints, ConnectFailed(e) PROVE ConnInv'
  BY <1>12 DEF ConnectFailed, Send
<1>13. ASSUME NEW e \in Endpoints, AfterConnectFailed(e) PROVE ConnInv'
  BY <1>13 DEF AfterConnectFailed, FileFailed, Send, SleepBeforeRetry,
         NextAttempt
<1>14. ASSUME NEW e \in Endpoints, Wake(e) PROVE ConnInv'
  BY <1>14 DEF Wake, NextAttempt
<1>15. ASSUME NEW e \in Endpoints, Start(e) PROVE ConnInv'
  BY <1>15 DEF Start, Send, FirstCall
<1>16. ASSUME NEW e \in Endpoints, Retry(e) PROVE ConnInv'
  BY <1>16 DEF Retry, Disconnect, SleepBeforeRetry, NextAttempt
<1>17. ASSUME NEW e \in Endpoints, GiveUp(e) PROVE ConnInv'
  BY <1>17 DEF GiveUp, Disconnect, StopBatch, Send
<1>18. ASSUME NEW e \in Endpoints, Progress(e) PROVE ConnInv'
  BY <1>18 DEF Progress, Send
<1>19. ASSUME NEW e \in Endpoints, Success(e) PROVE ConnInv'
  BY <1>19 DEF Success, Send
<1>20. ASSUME NEW e \in Endpoints, DeleteReturns(e) PROVE ConnInv'
  BY <1>20 DEF DeleteReturns, CallReturns
<1>21. ASSUME NEW e \in Endpoints, DeleteFails(e) PROVE ConnInv'
  BY <1>21 DEF DeleteFails, AttemptFails, Verdicts, Send
<1>22. ASSUME NEW e \in Endpoints, UploadReturns(e) PROVE ConnInv'
  BY <1>22 DEF UploadReturns, CallReturns, AfterUpload
<1>23. ASSUME NEW e \in Endpoints, OpenDenied(e) PROVE ConnInv'
  BY <1>23 DEF OpenDenied, AttemptFails, Send
<1>24. ASSUME NEW e \in Endpoints, UploadFails(e) PROVE ConnInv'
  BY <1>24 DEF UploadFails, AttemptFails, Verdicts, Send
<1>25. ASSUME NEW e \in Endpoints, VerifyReturns(e) PROVE ConnInv'
  BY <1>25 DEF VerifyReturns, CallReturns
<1>26. ASSUME NEW e \in Endpoints, VerifyFails(e) PROVE ConnInv'
  BY <1>26 DEF VerifyFails, AttemptFails, Verdicts, Send
<1>27. ASSUME NEW e \in Endpoints, Receive(e) PROVE ConnInv'
  BY <1>27 DEF Receive
<1>28. CASE Cancel \/ Close
  BY <1>28 DEF Cancel, Close
<1>29. CASE Ended \/ UNCHANGED vars
  BY <1>29 DEF Ended, vars
<1>. HIDE DEF ConnInv
<1>. QED
  BY <1>1, <1>2, <1>3, <1>4, <1>5, <1>6, <1>7, <1>8, <1>9, <1>10, <1>11, <1>12,
     <1>13, <1>14, <1>15, <1>16, <1>17, <1>18, <1>19, <1>20, <1>21, <1>22,
     <1>23, <1>24, <1>25, <1>26, <1>27, <1>28, <1>29
  DEF Next, LocalStep, Dial, SessionCall, HangUp

\* A transfer runs only on a session no call has failed on, there is at most
\* one session per endpoint, and none is left when the worker returns.
THEOREM SessionsAreHygienic == Spec => []SessionHygiene
<1>1. Init => TypeInv /\ ConnInv
  BY TypeInvInit, EngineAssumption
  DEF Init, ConnInv, InFile, EngineAssumption
<1>2. TypeInv /\ ConnInv /\ [Next]_vars => (TypeInv /\ ConnInv)'
  BY TypeInvNext, ConnInvNext
<1>3. TypeInv /\ ConnInv => SessionHygiene
  BY DEF TypeInv, TypeOK, ConnInv, SessionHygiene, Sessions
<1>. QED  BY <1>1, <1>2, <1>3, PTL DEF Spec

\* The breaker's limit is never exceeded, and a worker at the limit neither
\* dials nor starts another attempt.
THEOREM BreakerIsHeld == Spec => []BreakerHolds
<1>1. Init => TypeInv /\ ConnInv
  BY TypeInvInit, EngineAssumption
  DEF Init, ConnInv, InFile, EngineAssumption
<1>2. TypeInv /\ ConnInv /\ [Next]_vars => (TypeInv /\ ConnInv)'
  BY TypeInvNext, ConnInvNext
<1>3. TypeInv /\ ConnInv => BreakerHolds
  BY DEF ConnInv, BreakerHolds, InFile
<1>. QED  BY <1>1, <1>2, <1>3, PTL DEF Spec
-----------------------------------------------------------------------------
(***************************************************************************)
(* The tally. Reported(e) are the successes the caller knows of or is      *)
(* being told; run's counters agree with them at every step, and together  *)
(* they account for every file the loop has left behind.                   *)
(***************************************************************************)
Reported(e) ==
  uploaded[e] \cup (IF out[e].type = "success" THEN {out[e].file} ELSE {})

Tally(e) ==
  /\ \A f \in Reported(e) : f < file[e]
  /\ succeeded[e] = Cardinality(Reported(e))
  /\ pc[e] \in InFile \cup {"spawned", "loop"}
       => succeeded[e] + failed[e] = file[e] - 1
  /\ pc[e] \in {"spawned", "failAll"} => succeeded[e] = 0
  /\ pc[e] \in {"report", "finish", "end"} => succeeded[e] + failed[e] = NumFiles

TallyInv == \A e \in Endpoints : Tally(e)

\* Successes can be counted.
LEMMA ReportedFinite ==
  ASSUME TypeOK, NEW e \in Endpoints, Reported(e) \subseteq Files
  PROVE  IsFiniteSet(Reported(e)) /\ Cardinality(Reported(e)) \in Nat
<1>1. IsFiniteSet(Files)
  BY EngineAssumption, FS_Interval DEF Files, EngineAssumption
<1>. QED  BY <1>1, FS_Subset, FS_CardinalityType

\* Successes are files of the batch.
LEMMA ReportedTypes ==
  ASSUME TypeOK, NEW e \in Endpoints
  PROVE  Reported(e) \subseteq Files
BY EventKinds DEF TypeOK, Reported

\* The numbers a tally is made of, free of the records around them.
LEMMA TallyNumbers ==
  ASSUME TypeOK, NEW e \in Endpoints
  PROVE  /\ succeeded[e] \in Nat /\ failed[e] \in Nat /\ file[e] \in Nat
         /\ file[e] >= 1 /\ file[e] <= NumFiles + 1 /\ NumFiles \in Nat
BY EngineAssumption DEF TypeOK, EngineAssumption

\* A step of worker e is no concern of the other workers' tallies.
LEMMA TallyOfOneWorker ==
  ASSUME TallyInv, NEW e \in Endpoints, Tally(e)',
         \A d \in Endpoints \ {e} :
           /\ Reported(d)' = Reported(d)
           /\ pc'[d] = pc[d] /\ file'[d] = file[d]
           /\ succeeded'[d] = succeeded[d] /\ failed'[d] = failed[d]
  PROVE  TallyInv'
BY DEF TallyInv, Tally

\* uploadFile returned false: one more failed file, one file further.
LEMMA TallyFileFailed ==
  ASSUME TypeOK, TallyInv, NEW e \in Endpoints, pc[e] \in InFile, FileFailed(e),
         UNCHANGED succeeded, \A d \in Endpoints : Reported(d)' = Reported(d)
  PROVE  TallyInv'
<1>1. /\ pc' = [pc EXCEPT ![e] = "loop"]
      /\ file' = [file EXCEPT ![e] = @ + 1]
      /\ failed' = [failed EXCEPT ![e] = @ + 1]
  BY DEF FileFailed, Goto
<1>2. pc'[e] = "loop" /\ file'[e] = file[e] + 1 /\ failed'[e] = failed[e] + 1
  BY <1>1 DEF TypeOK
<1>3. succeeded[e] + failed[e] = file[e] - 1
  BY DEF TallyInv, Tally
<1>4. \A f \in Reported(e) : f < file[e] + 1
  <2>1. \A f \in Reported(e) : f \in Nat /\ f < file[e]
    BY ReportedTypes DEF Files, TallyInv, Tally
  <2>. QED  BY <2>1, TallyNumbers
<1>5. succeeded'[e] + failed'[e] = file'[e] - 1
  BY <1>2, <1>3, TallyNumbers
<1>6. Tally(e)'
  BY <1>2, <1>4, <1>5 DEF TallyInv, Tally
<1>7. \A d \in Endpoints \ {e} :
        pc'[d] = pc[d] /\ file'[d] = file[d] /\ failed'[d] = failed[d]
  BY <1>1 DEF TypeOK
<1>. QED  BY <1>6, <1>7, TallyOfOneWorker

\* break with n more failed files: n is what is left of the batch.
LEMMA TallyStopBatch ==
  ASSUME TypeOK, TallyInv, NEW e \in Endpoints, pc[e] \in InFile \cup {"loop"},
         NEW n, n = NumFiles + 1 - file[e], StopBatch(e, n),
         UNCHANGED <<file, succeeded>>,
         \A d \in Endpoints : Reported(d)' = Reported(d)
  PROVE  TallyInv'
<1>1. /\ pc' = [pc EXCEPT ![e] = "report"]
      /\ failed' = [failed EXCEPT ![e] = @ + n]
  BY DEF StopBatch, Goto
<1>2. pc'[e] = "report" /\ failed'[e] = failed[e] + n
  BY <1>1 DEF TypeOK
<1>3. succeeded[e] + failed[e] = file[e] - 1
  BY DEF TallyInv, Tally
<1>4. succeeded[e] + (failed[e] + n) = NumFiles
  BY <1>3, TallyNumbers
<1>5. Tally(e)'
  BY <1>2, <1>4 DEF TallyInv, Tally, InFile
<1>6. \A d \in Endpoints \ {e} : pc'[d] = pc[d] /\ failed'[d] = failed[d]
  BY <1>1 DEF TypeOK
<1>. QED  BY <1>5, <1>6, TallyOfOneWorker

\* Every step keeps the tallies.
LEMMA TallyInvNext == TypeInv /\ TallyInv /\ [Next]_vars => TallyInv'
<1>. SUFFICES ASSUME TypeOK, InBatch, TallyInv, [Next]_vars PROVE TallyInv'
  BY DEF TypeInv
<1>. USE EngineAssumption
     DEF TypeOK, TallyInv, Tally, InFile, At, Goto, callerVars, loopVars,
         connVars, transferVars, EngineAssumption
<1>1. ASSUME NEW e \in Endpoints, Begin(e) PROVE TallyInv'
  <2>1. \A d \in Endpoints : Reported(d)' = Reported(d)
    BY <1>1 DEF Begin, Reported, NoEvent
  <2>. QED  BY <1>1, <2>1 DEF Begin
<1>2. ASSUME NEW e \in Endpoints, FailAllFiles(e) PROVE TallyInv'
  <2>. HIDE DEF TallyInv, Tally, TypeOK, InFile
  <2>1. \A d \in Endpoints : Reported(d)' = Reported(d)
    <3>1. \E ev : out' = [out EXCEPT ![e] = ev] /\ ev.type \in {"error", "done"}
      <4>1. CASE MoreFiles(e)
        <5>1. out' = [out EXCEPT ![e] = FileEvent(e, "error")]
          BY <1>2, <4>1 DEF FailAllFiles, Send
        <5>2. FileEvent(e, "error").type = "error"
          BY DEF FileEvent
        <5>. QED  BY <5>1, <5>2
      <4>2. CASE ~MoreFiles(e)
        <5>. DEFINE ev == [type |-> "done", succeeded |-> 0, failed |-> NumFiles]
        <5>1. out' = [out EXCEPT ![e] = ev]
          BY <1>2, <4>2 DEF FailAllFiles, Send
        <5>2. ev.type = "done"
          OBVIOUS
        <5>. HIDE DEF ev
        <5>. QED  BY <5>1, <5>2
      <4>. QED  BY <4>1, <4>2
    <3>. QED  BY <1>2, <3>1 DEF FailAllFiles, Reported, NoEvent, TypeOK
  <2>2. succeeded[e] = 0 /\ UNCHANGED succeeded
    BY <1>2 DEF FailAllFiles, TallyInv, Tally
  <2>3. CASE MoreFiles(e)
    <3>1. UNCHANGED <<pc, failed>> /\ file' = [file EXCEPT ![e] = @ + 1]
      BY <1>2, <2>3 DEF FailAllFiles
    <3>2. file'[e] = file[e] + 1
      BY <3>1 DEF TypeOK
    <3>3. \A f \in Reported(e) : f < file[e] + 1
      <4>1. \A f \in Reported(e) : f \in Nat /\ f < file[e]
        BY ReportedTypes DEF Files, TallyInv, Tally
      <4>. QED  BY <4>1, TallyNumbers
    <3>4. Tally(e)'
      BY <1>2, <2>1, <2>2, <3>1, <3>2, <3>3
      DEF FailAllFiles, TallyInv, Tally, InFile
    <3>5. \A d \in Endpoints \ {e} : file'[d] = file[d]
      BY <3>1 DEF TypeOK
    <3>. QED  BY <2>1, <2>2, <3>1, <3>4, <3>5, TallyOfOneWorker
  <2>4. CASE ~MoreFiles(e)
    <3>1. /\ pc' = [pc EXCEPT ![e] = "end"]
          /\ failed' = [failed EXCEPT ![e] = NumFiles]
          /\ UNCHANGED file
      BY <1>2, <2>4 DEF FailAllFiles
    <3>2. pc'[e] = "end" /\ failed'[e] = NumFiles
      BY <3>1 DEF TypeOK
    <3>3. Tally(e)'
      BY <2>1, <2>2, <3>1, <3>2, TallyNumbers DEF TallyInv, Tally, InFile
    <3>4. \A d \in Endpoints \ {e} : pc'[d] = pc[d] /\ failed'[d] = failed[d]
      BY <3>1 DEF TypeOK
    <3>. QED  BY <2>1, <2>2, <3>1, <3>3, <3>4, TallyOfOneWorker
  <2>. QED  BY <2>3, <2>4
<1>3. ASSUME NEW e \in Endpoints, EndOfBatch(e) PROVE TallyInv'
  <2>. HIDE DEF TallyInv, Tally, TypeOK, InFile
  <2>1. \A d \in Endpoints : Reported(d)' = Reported(d)
    BY <1>3 DEF EndOfBatch, Reported, NoEvent
  <2>2. file[e] = NumFiles + 1
    BY <1>3, TallyNumbers DEF EndOfBatch, MoreFiles
  <2>3. pc' = [pc EXCEPT ![e] = "report"] /\ UNCHANGED <<file, succeeded, failed>>
    BY <1>3 DEF EndOfBatch
  <2>4. pc'[e] = "report" /\ \A d \in Endpoints \ {e} : pc'[d] = pc[d]
    BY <2>3 DEF TypeOK
  <2>5. succeeded[e] + failed[e] = file[e] - 1
    BY <1>3 DEF EndOfBatch, TallyInv, Tally
  <2>6. succeeded[e] + failed[e] = NumFiles
    BY <2>2, <2>5, TallyNumbers
  <2>7. Tally(e)'
    BY <2>1, <2>3, <2>4, <2>6 DEF TallyInv, Tally, InFile
  <2>. QED  BY <2>1, <2>3, <2>4, <2>7, TallyOfOneWorker
<1>4. ASSUME NEW e \in Endpoints, StopCanceled(e) PROVE TallyInv'
  <2>1. \A d \in Endpoints : Reported(d)' = Reported(d)
    BY <1>4 DEF StopCanceled, StopBatch, Reported, NoEvent
  <2>. HIDE DEF TallyInv, Tally, TypeOK
  <2>2. CountFrom(file[e]) = NumFiles + 1 - file[e]
    BY DEF CountFrom
  <2>. QED  BY <1>4, <2>1, <2>2, TallyStopBatch DEF StopCanceled
<1>5. ASSUME NEW e \in Endpoints, SkipRemaining(e) PROVE TallyInv'
  <2>1. \A d \in Endpoints : Reported(d)' = Reported(d)
    BY <1>5 DEF SkipRemaining, StopBatch, Send, Reported, NoEvent
  <2>. HIDE DEF TallyInv, Tally, TypeOK
  <2>2. CountFrom(file[e]) = NumFiles + 1 - file[e]
    BY DEF CountFrom
  <2>. QED  BY <1>5, <2>1, <2>2, TallyStopBatch DEF SkipRemaining
<1>6. ASSUME NEW e \in Endpoints, NextFile(e) PROVE TallyInv'
  <2>1. \A d \in Endpoints : Reported(d)' = Reported(d)
    BY <1>6 DEF NextFile, Reported, NoEvent
  <2>. QED  BY <1>6, <2>1 DEF NextFile, MoreFiles
<1>7. ASSUME NEW e \in Endpoints, Report(e) PROVE TallyInv'
  <2>1. \A d \in Endpoints : Reported(d)' = Reported(d)
    BY <1>7 DEF Report, Send, Reported, NoEvent
  <2>. QED  BY <1>7, <2>1 DEF Report
<1>8. ASSUME NEW e \in Endpoints, Finish(e) PROVE TallyInv'
  <2>1. \A d \in Endpoints : Reported(d)' = Reported(d)
    BY <1>8 DEF Finish, Disconnect, Reported, NoEvent
  <2>. QED  BY <1>8, <2>1 DEF Finish, Disconnect
<1>9. ASSUME NEW e \in Endpoints, Attempt(e) PROVE TallyInv'
  <2>1. \A d \in Endpoints : Reported(d)' = Reported(d)
    BY <1>9 DEF Attempt, FileFailed, Reported, NoEvent
  <2>2. CASE MayAttempt(e)
    BY <1>9, <2>1, <2>2 DEF Attempt
  <2>3. CASE ~MayAttempt(e)
    <3>. HIDE DEF TallyInv, Tally, TypeOK
    <3>. QED  BY <1>9, <2>1, <2>3, TallyFileFailed DEF Attempt
  <2>. QED  BY <2>2, <2>3
<1>10. ASSUME NEW e \in Endpoints, ConnectOK(e) PROVE TallyInv'
  <2>1. \A d \in Endpoints : Reported(d)' = Reported(d)
    BY <1>10 DEF ConnectOK, Reported, NoEvent
  <2>. QED  BY <1>10, <2>1 DEF ConnectOK
<1>11. ASSUME NEW e \in Endpoints, ConnectCanceled(e) PROVE TallyInv'
  <2>1. \A d \in Endpoints : Reported(d)' = Reported(d)
    BY <1>11 DEF ConnectCanceled, FileFailed, Reported, NoEvent
  <2>. HIDE DEF TallyInv, Tally, TypeOK
  <2>. QED  BY <1>11, <2>1, TallyFileFailed DEF ConnectCanceled
<1>12. ASSUME NEW e \in Endpoints, ConnectFailed(e) PROVE TallyInv'
  <2>1. \A d \in Endpoints : Reported(d)' = Reported(d)
    BY <1>12 DEF ConnectFailed, Send, FileEvent, Reported, NoEvent
  <2>. QED  BY <1>12, <2>1 DEF ConnectFailed
<1>13. ASSUME NEW e \in Endpoints, AfterConnectFailed(e) PROVE TallyInv'
  <2>1. CASE CircuitOpen(e)
    <3>1. \A d \in Endpoints : Reported(d)' = Reported(d)
      <4>1. out' = [out EXCEPT ![e] = FileEvent(e, "error")]
        BY <1>13, <2>1 DEF AfterConnectFailed, Send
      <4>. QED  BY <1>13, <4>1 DEF AfterConnectFailed, FileEvent, Reported, NoEvent
    <3>. HIDE DEF TallyInv, Tally, TypeOK
    <3>. QED  BY <1>13, <2>1, <3>1, TallyFileFailed DEF AfterConnectFailed
  <2>2. CASE ~CircuitOpen(e)
    <3>1. SleepBeforeRetry(e) /\ UNCHANGED <<out, file, failed, succeeded, uploaded>>
      BY <1>13, <2>2 DEF AfterConnectFailed
    <3>2. \A d \in Endpoints : Reported(d)' = Reported(d)
      BY <3>1 DEF Reported
    <3>. QED  BY <1>13, <3>1, <3>2 DEF AfterConnectFailed, SleepBeforeRetry,
                NextAttempt
  <2>. QED  BY <2>1, <2>2
<1>14. ASSUME NEW e \in Endpoints, Wake(e) PROVE TallyInv'
  <2>1. \A d \in Endpoints : Reported(d)' = Reported(d)
    BY <1>14 DEF Wake, NextAttempt, Reported, NoEvent
  <2>. QED  BY <1>14, <2>1 DEF Wake, NextAttempt
<1>15. ASSUME NEW e \in Endpoints, Start(e) PROVE TallyInv'
  <2>1. \A d \in Endpoints : Reported(d)' = Reported(d)
    BY <1>15 DEF Start, Send, FirstCall, FileEvent, Reported, NoEvent
  <2>. QED  BY <1>15, <2>1 DEF Start, FirstCall
<1>16. ASSUME NEW e \in Endpoints, Retry(e) PROVE TallyInv'
  <2>1. \A d \in Endpoints : Reported(d)' = Reported(d)
    BY <1>16 DEF Retry, Disconnect, SleepBeforeRetry, NextAttempt, Reported,
           NoEvent
  <2>. QED  BY <1>16, <2>1 DEF Retry, Disconnect, SleepBeforeRetry, NextAttempt
<1>17. ASSUME NEW e \in Endpoints, GiveUp(e) PROVE TallyInv'
  <2>1. \A d \in Endpoints : Reported(d)' = Reported(d)
    <3>1. CASE file[e] = NumFiles
      BY <1>17, <3>1 DEF GiveUp, Reported
    <3>2. CASE file[e] # NumFiles
      <4>1. out' = [out EXCEPT ![e] = [type |-> "givenup",
                                       skipped |-> FilesFrom(file[e] + 1)]]
        BY <1>17, <3>2 DEF GiveUp, Send
      <4>. QED  BY <1>17, <4>1 DEF GiveUp, Reported, NoEvent
    <3>. QED  BY <3>1, <3>2
  <2>. HIDE DEF TallyInv, Tally, TypeOK
  <2>2. 1 + CountFrom(file[e] + 1) = NumFiles + 1 - file[e]
    BY TallyNumbers DEF CountFrom
  <2>. QED  BY <1>17, <2>1, <2>2, TallyStopBatch DEF GiveUp
<1>18. ASSUME NEW e \in Endpoints, Progress(e) PROVE TallyInv'
  <2>1. \A d \in Endpoints : Reported(d)' = Reported(d)
    BY <1>18 DEF Progress, Send, FileEvent, Reported, NoEvent
  <2>. QED  BY <1>18, <2>1 DEF Progress
<1>19. ASSUME NEW e \in Endpoints, Success(e) PROVE TallyInv'
  <2>. HIDE DEF TallyInv, Tally, TypeOK, InFile
  <2>0. file[e] \in Files
    BY <1>19 DEF Success, InBatch, InFile
  <2>1. /\ Reported(e) = uploaded[e]
        /\ Reported(e)' = Reported(e) \cup {file[e]}
    BY <1>19 DEF Success, Send, FileEvent, Reported, NoEvent, TypeOK
  <2>2. \A d \in Endpoints \ {e} : Reported(d)' = Reported(d)
    BY <1>19 DEF Success, Send, Reported, TypeOK
  <2>3. \A f \in Reported(e) : f \in Nat /\ f < file[e]
    BY ReportedTypes DEF Files, TallyInv, Tally
  <2>4. file[e] \notin Reported(e)
    BY <2>3, TallyNumbers
  <2>5. Reported(e) \subseteq Files
    BY ReportedTypes
  <2>6. IsFiniteSet(Reported(e))
    BY <2>5, ReportedFinite
  <2>7. Cardinality(Reported(e)') = Cardinality(Reported(e)) + 1
    BY <2>1, <2>4, <2>6, FS_AddElement
  <2>8. /\ pc' = [pc EXCEPT ![e] = "loop"] /\ UNCHANGED failed
        /\ succeeded' = [succeeded EXCEPT ![e] = @ + 1]
        /\ file' = [file EXCEPT ![e] = @ + 1]
    BY <1>19 DEF Success
  <2>9. /\ pc'[e] = "loop" /\ file'[e] = file[e] + 1
        /\ succeeded'[e] = succeeded[e] + 1
    BY <2>8 DEF TypeOK
  <2>10. succeeded[e] + failed[e] = file[e] - 1
    BY <1>19 DEF Success, TallyInv, Tally, InFile
  <2>11. succeeded'[e] + failed[e] = file'[e] - 1
    BY <2>9, <2>10, TallyNumbers
  <2>12. \A f \in Reported(e)' : f < file'[e]
    BY <2>1, <2>3, <2>9, TallyNumbers
  <2>13. succeeded'[e] = Cardinality(Reported(e)')
    BY <2>7, <2>9 DEF TallyInv, Tally
  <2>14. Tally(e)'
    BY <2>8, <2>9, <2>11, <2>12, <2>13 DEF Tally, InFile
  <2>15. \A d \in Endpoints \ {e} :
           pc'[d] = pc[d] /\ file'[d] = file[d] /\ succeeded'[d] = succeeded[d]
    BY <2>8 DEF TypeOK
  <2>. QED  BY <2>2, <2>8, <2>14, <2>15, TallyOfOneWorker
<1>20. ASSUME NEW e \in Endpoints, DeleteReturns(e) PROVE TallyInv'
  <2>1. \A d \in Endpoints : Reported(d)' = Reported(d)
    BY <1>20 DEF DeleteReturns, CallReturns, Reported, NoEvent
  <2>. QED  BY <1>20, <2>1 DEF DeleteReturns, CallReturns
<1>21. ASSUME NEW e \in Endpoints, DeleteFails(e) PROVE TallyInv'
  <2>1. \A d \in Endpoints : Reported(d)' = Reported(d)
    BY <1>21 DEF DeleteFails, AttemptFails, Verdicts, Send, FileEvent,
           Reported, NoEvent
  <2>. QED  BY <1>21, <2>1 DEF DeleteFails, AttemptFails, Verdicts
<1>22. ASSUME NEW e \in Endpoints, UploadReturns(e) PROVE TallyInv'
  <2>1. \A d \in Endpoints : Reported(d)' = Reported(d)
    BY <1>22 DEF UploadReturns, CallReturns, AfterUpload, Reported, NoEvent
  <2>. QED  BY <1>22, <2>1 DEF UploadReturns, CallReturns, AfterUpload
<1>23. ASSUME NEW e \in Endpoints, OpenDenied(e) PROVE TallyInv'
  <2>1. \A d \in Endpoints : Reported(d)' = Reported(d)
    BY <1>23 DEF OpenDenied, AttemptFails, Send, FileEvent, Reported, NoEvent
  <2>. QED  BY <1>23, <2>1 DEF OpenDenied, AttemptFails
<1>24. ASSUME NEW e \in Endpoints, UploadFails(e) PROVE TallyInv'
  <2>1. \A d \in Endpoints : Reported(d)' = Reported(d)
    BY <1>24 DEF UploadFails, AttemptFails, Verdicts, Send, FileEvent,
           Reported, NoEvent
  <2>. QED  BY <1>24, <2>1 DEF UploadFails, AttemptFails, Verdicts
<1>25. ASSUME NEW e \in Endpoints, VerifyReturns(e) PROVE TallyInv'
  <2>1. \A d \in Endpoints : Reported(d)' = Reported(d)
    BY <1>25 DEF VerifyReturns, CallReturns, Reported, NoEvent
  <2>. QED  BY <1>25, <2>1 DEF VerifyReturns, CallReturns
<1>26. ASSUME NEW e \in Endpoints, VerifyFails(e) PROVE TallyInv'
  <2>1. \A d \in Endpoints : Reported(d)' = Reported(d)
    BY <1>26 DEF VerifyFails, AttemptFails, Verdicts, Send, FileEvent,
           Reported, NoEvent
  <2>. QED  BY <1>26, <2>1 DEF VerifyFails, AttemptFails, Verdicts
<1>27. ASSUME NEW e \in Endpoints, Receive(e) PROVE TallyInv'
  <2>1. \A d \in Endpoints : Reported(d)' = Reported(d)
    BY <1>27 DEF Receive, Reported, NoEvent
  <2>. QED  BY <1>27, <2>1 DEF Receive
<1>28. ASSUME Cancel \/ Close \/ Ended \/ UNCHANGED vars PROVE TallyInv'
  <2>1. \A d \in Endpoints : Reported(d)' = Reported(d)
    BY <1>28 DEF Cancel, Close, Ended, vars, Reported
  <2>. QED  BY <1>28, <2>1 DEF Cancel, Close, Ended, vars
<1>. HIDE DEF TallyInv, Tally
<1>. QED
  BY <1>1, <1>2, <1>3, <1>4, <1>5, <1>6, <1>7, <1>8, <1>9, <1>10, <1>11, <1>12,
     <1>13, <1>14, <1>15, <1>16, <1>17, <1>18, <1>19, <1>20, <1>21, <1>22,
     <1>23, <1>24, <1>25, <1>26, <1>27, <1>28
  DEF Next, LocalStep, Dial, SessionCall, HangUp

-----------------------------------------------------------------------------
(***************************************************************************)
(* Endings. Done is sent once, with run's counts, after the last event of  *)
(* the endpoint, and the channel is closed after the last worker.          *)
(***************************************************************************)
FinalEvent(e) == [type |-> "done", succeeded |-> succeeded[e], failed |-> failed[e]]

Ending(e) ==
  /\ pc[e] \in {"finish", "end"} =>
       out[e] = FinalEvent(e) \/ (out[e] = NoEvent /\ done[e] = FinalEvent(e))
  /\ pc[e] \notin {"finish", "end"} => out[e].type # "done"
  /\ done[e] # NoEvent => pc[e] \in {"finish", "end"} /\ out[e] = NoEvent
  /\ closed => pc[e] = "end" /\ out[e] = NoEvent

EndingInv == \A e \in Endpoints : Ending(e)

\* Every step keeps what is said of the endings.
LEMMA EndingInvNext == TypeInv /\ TallyInv /\ EndingInv /\ [Next]_vars => EndingInv'
<1>. SUFFICES ASSUME TypeOK, TallyInv, EndingInv, [Next]_vars PROVE EndingInv'
  BY DEF TypeInv
<1>. USE DEF TypeOK, EndingInv, Ending, FinalEvent, NoEvent, At, Goto, Send,
             callerVars, loopVars, connVars, transferVars
<1>1. ASSUME NEW e \in Endpoints, Begin(e) PROVE EndingInv'
  BY <1>1 DEF Begin
<1>2. ASSUME NEW e \in Endpoints, FailAllFiles(e) PROVE EndingInv'
  BY <1>2 DEF FailAllFiles, FileEvent, TallyInv, Tally
<1>3. ASSUME NEW e \in Endpoints, EndOfBatch(e) PROVE EndingInv'
  BY <1>3 DEF EndOfBatch
<1>4. ASSUME NEW e \in Endpoints, StopCanceled(e) PROVE EndingInv'
  BY <1>4 DEF StopCanceled, StopBatch
<1>5. ASSUME NEW e \in Endpoints, SkipRemaining(e) PROVE EndingInv'
  BY <1>5 DEF SkipRemaining, StopBatch
<1>6. ASSUME NEW e \in Endpoints, NextFile(e) PROVE EndingInv'
  BY <1>6 DEF NextFile
<1>7. ASSUME NEW e \in Endpoints, Report(e) PROVE EndingInv'
  BY <1>7 DEF Report
<1>8. ASSUME NEW e \in Endpoints, Finish(e) PROVE EndingInv'
  BY <1>8 DEF Finish, Disconnect
<1>9. ASSUME NEW e \in Endpoints, Attempt(e) PROVE EndingInv'
  BY <1>9 DEF Attempt, FileFailed
<1>10. ASSUME NEW e \in Endpoints, ConnectOK(e) PROVE EndingInv'
  BY <1>10 DEF ConnectOK
<1>11. ASSUME NEW e \in Endpoints, ConnectCanceled(e) PROVE EndingInv'
  BY <1>11 DEF ConnectCanceled, FileFailed
<1>12. ASSUME NEW e \in Endpoints, ConnectFailed(e) PROVE EndingInv'
  BY <1>12 DEF ConnectFailed, FileEvent
<1>13. ASSUME NEW e \in Endpoints, AfterConnectFailed(e) PROVE EndingInv'
  BY <1>13 DEF AfterConnectFailed, FileFailed, FileEvent,
         SleepBeforeRetry, NextAttempt
<1>14. ASSUME NEW e \in Endpoints, Wake(e) PROVE EndingInv'
  BY <1>14 DEF Wake, NextAttempt
<1>15. ASSUME NEW e \in Endpoints, Start(e) PROVE EndingInv'
  BY <1>15 DEF Start, FirstCall, FileEvent
<1>16. ASSUME NEW e \in Endpoints, Retry(e) PROVE EndingInv'
  BY <1>16 DEF Retry, Disconnect, SleepBeforeRetry, NextAttempt
<1>17. ASSUME NEW e \in Endpoints, GiveUp(e) PROVE EndingInv'
  BY <1>17 DEF GiveUp, Disconnect, StopBatch
<1>18. ASSUME NEW e \in Endpoints, Progress(e) PROVE EndingInv'
  BY <1>18 DEF Progress, FileEvent
<1>19. ASSUME NEW e \in Endpoints, Success(e) PROVE EndingInv'
  BY <1>19 DEF Success, FileEvent
<1>20. ASSUME NEW e \in Endpoints, DeleteReturns(e) PROVE EndingInv'
  BY <1>20 DEF DeleteReturns, CallReturns
<1>21. ASSUME NEW e \in Endpoints, DeleteFails(e) PROVE EndingInv'
  BY <1>21 DEF DeleteFails, AttemptFails, Verdicts, FileEvent
<1>22. ASSUME NEW e \in Endpoints, UploadReturns(e) PROVE EndingInv'
  BY <1>22 DEF UploadReturns, CallReturns, AfterUpload
<1>23. ASSUME NEW e \in Endpoints, OpenDenied(e) PROVE EndingInv'
  BY <1>23 DEF OpenDenied, AttemptFails, FileEvent
<1>24. ASSUME NEW e \in Endpoints, UploadFails(e) PROVE EndingInv'
  BY <1>24 DEF UploadFails, AttemptFails, Verdicts, FileEvent
<1>25. ASSUME NEW e \in Endpoints, VerifyReturns(e) PROVE EndingInv'
  BY <1>25 DEF VerifyReturns, CallReturns
<1>26. ASSUME NEW e \in Endpoints, VerifyFails(e) PROVE EndingInv'
  BY <1>26 DEF VerifyFails, AttemptFails, Verdicts, FileEvent
<1>27. ASSUME NEW e \in Endpoints, Receive(e) PROVE EndingInv'
  BY <1>27 DEF Receive
<1>28. ASSUME Cancel \/ Close \/ Ended \/ UNCHANGED vars PROVE EndingInv'
  BY <1>28 DEF Cancel, Close, AllReturned, Ended, vars
<1>. HIDE DEF EndingInv, Ending
<1>. QED
  BY <1>1, <1>2, <1>3, <1>4, <1>5, <1>6, <1>7, <1>8, <1>9, <1>10, <1>11, <1>12,
     <1>13, <1>14, <1>15, <1>16, <1>17, <1>18, <1>19, <1>20, <1>21, <1>22,
     <1>23, <1>24, <1>25, <1>26, <1>27, <1>28
  DEF Next, LocalStep, Dial, SessionCall, HangUp

\* What the endings rest on, as one inductive invariant.
EngineInv == TypeInv /\ ConnInv /\ TallyInv /\ EndingInv

\* The engine starts in EngineInv.
LEMMA EngineInvInit == Init => EngineInv
<1>. SUFFICES ASSUME Init PROVE EngineInv
  OBVIOUS
<1>1. TypeInv
  BY TypeInvInit
<1>2. ConnInv
  BY EngineAssumption DEF Init, ConnInv, InFile, EngineAssumption
<1>3. TallyInv
  <2>1. ASSUME NEW e \in Endpoints PROVE Tally(e)
    <3>1. Reported(e) = {}
      BY DEF Init, Reported, NoEvent
    <3>. QED  BY <3>1, FS_EmptySet DEF Init, Tally, InFile
  <2>. QED  BY <2>1 DEF TallyInv
<1>4. EndingInv
  BY DEF Init, EndingInv, Ending, NoEvent
<1>. QED  BY <1>1, <1>2, <1>3, <1>4 DEF EngineInv

\* EngineInv holds in every reachable state.
LEMMA EngineInvHolds == Spec => []EngineInv
<1>1. EngineInv /\ [Next]_vars => EngineInv'
  BY TypeInvNext, ConnInvNext, TallyInvNext, EndingInvNext DEF EngineInv
<1>. QED  BY <1>1, EngineInvInit, PTL DEF Spec

\* The Done event's counts are exactly the successes the caller was told of
\* and the rest of the batch.
THEOREM TallyOfDone == Spec => []TallyIsExact
<1>1. ASSUME EngineInv PROVE TallyIsExact
  <2>. SUFFICES ASSUME NEW e \in Endpoints, done[e] # NoEvent
                PROVE  /\ done[e].succeeded = Cardinality(uploaded[e])
                       /\ done[e].failed = NumFiles - Cardinality(uploaded[e])
    BY DEF TallyIsExact
  <2>1. /\ pc[e] \in {"finish", "end"} /\ out[e] = NoEvent
        /\ done[e] = FinalEvent(e)
    BY <1>1 DEF EngineInv, EndingInv, Ending, FinalEvent, NoEvent
  <2>2. Reported(e) = uploaded[e]
    BY <2>1 DEF Reported, NoEvent
  <2>3. /\ succeeded[e] = Cardinality(uploaded[e])
        /\ succeeded[e] + failed[e] = NumFiles
    BY <1>1, <2>1, <2>2 DEF EngineInv, TallyInv, Tally
  <2>4. failed[e] = NumFiles - succeeded[e]
    BY <1>1, <2>3, TallyNumbers DEF EngineInv, TypeInv
  <2>. QED  BY <2>1, <2>3, <2>4 DEF FinalEvent
<1>. QED  BY <1>1, EngineInvHolds, PTL

\* The channel is closed after every Done event and every disconnect, and no
\* event of an endpoint follows its Done.
THEOREM ChannelIsDisciplined == Spec => []ChannelDiscipline
<1>1. EngineInv => ChannelDiscipline
  <2>. SUFFICES ASSUME EngineInv PROVE ChannelDiscipline
    OBVIOUS
  <2>1. ASSUME NEW e \in Endpoints, closed
        PROVE  /\ pc[e] = "end" /\ out[e] = NoEvent
               /\ done[e] # NoEvent /\ session[e] = "none"
    <3>1. FinalEvent(e).type = "done" /\ NoEvent.type = "none"
      BY DEF FinalEvent, NoEvent
    <3>2. pc[e] = "end" /\ out[e] = NoEvent
      BY <2>1 DEF EngineInv, EndingInv, Ending
    <3>3. done[e] = FinalEvent(e)
      BY <3>1, <3>2 DEF EngineInv, EndingInv, Ending
    <3>. QED  BY <3>1, <3>2, <3>3 DEF EngineInv, ConnInv
  <2>. QED  BY <2>1 DEF EngineInv, EndingInv, Ending, ChannelDiscipline
<1>. QED  BY <1>1, EngineInvHolds, PTL

-----------------------------------------------------------------------------
(***************************************************************************)
(* Stopping. A worker that started a transfer after the cancellation, or   *)
(* met a permission error, is past every place from which it could go on.  *)
(***************************************************************************)
RestIsSkipped(e) == \A f \in Files : f > file[e] => f \in skipped[e]

Stopping(e) ==
  /\ lateStarts[e] <= 1
  /\ lateStarts[e] > 0 =>
       canceled /\ pc[e] \notin {"spawned", "dial", "dialFailed", "ready"}
  /\ permanentErr[e] =>
       /\ pc[e] \in {"report", "finish", "end"}
       /\ \/ RestIsSkipped(e)
          \/ /\ pc[e] = "report" /\ out[e].type = "givenup"
             /\ out[e].skipped = FilesFrom(file[e] + 1)

StoppingInv == \A e \in Endpoints : Stopping(e)

\* The batch beyond a file: nothing after the last one, and files[i+1:].
LEMMA FilesBeyond ==
  ASSUME NEW i \in 1..(NumFiles + 1)
  PROVE  /\ \A f \in Files : f > i => f \in FilesFrom(i + 1)
         /\ i = NumFiles => \A f \in Files : ~(f > i)
<1>1. NumFiles \in Nat
  BY EngineAssumption DEF EngineAssumption
<1>. QED  BY <1>1 DEF Files, FilesFrom

\* What is skipped stays skipped.
LEMMA RestStaysSkipped ==
  ASSUME NEW e \in Endpoints, RestIsSkipped(e), UNCHANGED file,
         skipped[e] \subseteq skipped'[e]
  PROVE  RestIsSkipped(e)'
BY DEF RestIsSkipped

\* Every step keeps what is said of stopping.
LEMMA StoppingInvNext == TypeInv /\ StoppingInv /\ [Next]_vars => StoppingInv'
<1>. SUFFICES ASSUME TypeOK, StoppingInv, [Next]_vars PROVE StoppingInv'
  BY DEF TypeInv
<1>. USE DEF TypeOK, StoppingInv, Stopping, RestIsSkipped, NoEvent, At, Goto,
             Send, callerVars, loopVars, connVars, transferVars
<1>1. ASSUME NEW e \in Endpoints, Begin(e) PROVE StoppingInv'
  BY <1>1 DEF Begin
<1>2. ASSUME NEW e \in Endpoints, FailAllFiles(e) PROVE StoppingInv'
  BY <1>2 DEF FailAllFiles
<1>3. ASSUME NEW e \in Endpoints, EndOfBatch(e) PROVE StoppingInv'
  BY <1>3 DEF EndOfBatch
<1>4. ASSUME NEW e \in Endpoints, StopCanceled(e) PROVE StoppingInv'
  BY <1>4 DEF StopCanceled, StopBatch
<1>5. ASSUME NEW e \in Endpoints, SkipRemaining(e) PROVE StoppingInv'
  BY <1>5 DEF SkipRemaining, StopBatch
<1>6. ASSUME NEW e \in Endpoints, NextFile(e) PROVE StoppingInv'
  BY <1>6 DEF NextFile
<1>7. ASSUME NEW e \in Endpoints, Report(e) PROVE StoppingInv'
  BY <1>7 DEF Report
<1>8. ASSUME NEW e \in Endpoints, Finish(e) PROVE StoppingInv'
  BY <1>8 DEF Finish, Disconnect
<1>9. ASSUME NEW e \in Endpoints, Attempt(e) PROVE StoppingInv'
  BY <1>9 DEF Attempt, MayAttempt, FileFailed
<1>10. ASSUME NEW e \in Endpoints, ConnectOK(e) PROVE StoppingInv'
  BY <1>10 DEF ConnectOK
<1>11. ASSUME NEW e \in Endpoints, ConnectCanceled(e) PROVE StoppingInv'
  BY <1>11 DEF ConnectCanceled, FileFailed
<1>12. ASSUME NEW e \in Endpoints, ConnectFailed(e) PROVE StoppingInv'
  BY <1>12 DEF ConnectFailed
<1>13. ASSUME NEW e \in Endpoints, AfterConnectFailed(e) PROVE StoppingInv'
  <2>1. /\ UNCHANGED <<canceled, lateStarts, permanentErr, skipped>>
        /\ ~(lateStarts[e] > 0) /\ lateStarts[e] <= 1 /\ ~permanentErr[e]
    BY <1>13 DEF AfterConnectFailed
  <2>2. \A d \in Endpoints \ {e} :
          pc'[d] = pc[d] /\ file'[d] = file[d] /\ out'[d] = out[d]
    <3>1. CASE CircuitOpen(e)
      BY <1>13, <3>1 DEF AfterConnectFailed, FileFailed
    <3>2. CASE ~CircuitOpen(e)
      BY <1>13, <3>2 DEF AfterConnectFailed, SleepBeforeRetry, NextAttempt
    <3>. QED  BY <3>1, <3>2
  <2>3. Stopping(e)'
    BY <2>1
  <2>4. \A d \in Endpoints \ {e} : Stopping(d)'
    BY <2>1, <2>2
  <2>. QED  BY <2>3, <2>4
<1>14. ASSUME NEW e \in Endpoints, Wake(e) PROVE StoppingInv'
  BY <1>14 DEF Wake, NextAttempt
<1>15. ASSUME NEW e \in Endpoints, Start(e) PROVE StoppingInv'
  BY <1>15 DEF Start, FirstCall
<1>16. ASSUME NEW e \in Endpoints, Retry(e) PROVE StoppingInv'
  BY <1>16 DEF Retry, Disconnect, SleepBeforeRetry, NextAttempt
<1>17. ASSUME NEW e \in Endpoints, GiveUp(e) PROVE StoppingInv'
  <2>1. /\ permanentErr'[e] /\ pc'[e] = "report"
        /\ UNCHANGED <<file, skipped, lateStarts, canceled>>
        /\ \A d \in Endpoints \ {e} :
             pc'[d] = pc[d] /\ permanentErr'[d] = permanentErr[d]
    BY <1>17 DEF GiveUp, StopBatch
  <2>2. \A d \in Endpoints \ {e} : out'[d] = out[d]
    BY <1>17 DEF GiveUp
  <2>3. CASE file[e] = NumFiles
    <3>1. RestIsSkipped(e)'
      BY <2>1, <2>3, FilesBeyond
    <3>. QED  BY <1>17, <2>1, <2>2, <3>1 DEF GiveUp
  <2>4. CASE file[e] # NumFiles
    <3>1. out'[e] = [type |-> "givenup", skipped |-> FilesFrom(file[e] + 1)]
      BY <1>17, <2>4 DEF GiveUp
    <3>. QED  BY <1>17, <2>1, <2>2, <3>1 DEF GiveUp
  <2>. QED  BY <2>3, <2>4
<1>18. ASSUME NEW e \in Endpoints, Progress(e) PROVE StoppingInv'
  BY <1>18 DEF Progress
<1>19. ASSUME NEW e \in Endpoints, Success(e) PROVE StoppingInv'
  BY <1>19 DEF Success
<1>20. ASSUME NEW e \in Endpoints, DeleteReturns(e) PROVE StoppingInv'
  BY <1>20 DEF DeleteReturns, CallReturns
<1>21. ASSUME NEW e \in Endpoints, DeleteFails(e) PROVE StoppingInv'
  BY <1>21 DEF DeleteFails, AttemptFails, Verdicts
<1>22. ASSUME NEW e \in Endpoints, UploadReturns(e) PROVE StoppingInv'
  BY <1>22 DEF UploadReturns, CallReturns, AfterUpload
<1>23. ASSUME NEW e \in Endpoints, OpenDenied(e) PROVE StoppingInv'
  BY <1>23 DEF OpenDenied, AttemptFails
<1>24. ASSUME NEW e \in Endpoints, UploadFails(e) PROVE StoppingInv'
  BY <1>24 DEF UploadFails, AttemptFails, Verdicts
<1>25. ASSUME NEW e \in Endpoints, VerifyReturns(e) PROVE StoppingInv'
  BY <1>25 DEF VerifyReturns, CallReturns
<1>26. ASSUME NEW e \in Endpoints, VerifyFails(e) PROVE StoppingInv'
  BY <1>26 DEF VerifyFails, AttemptFails, Verdicts
<1>27. ASSUME NEW e \in Endpoints, Receive(e) PROVE StoppingInv'
  <2>1. \A d \in Endpoints : skipped[d] \subseteq skipped'[d]
    BY <1>27 DEF Receive
  <2>2. ASSUME NEW d \in Endpoints, permanentErr[d]
        PROVE  RestIsSkipped(d)' \/ out'[d] = out[d]
    <3>1. CASE RestIsSkipped(d)
      BY <1>27, <2>1, <3>1, RestStaysSkipped DEF Receive
    <3>2. CASE d # e
      BY <1>27, <3>2 DEF Receive
    <3>3. CASE /\ d = e /\ out[e].type = "givenup"
               /\ out[e].skipped = FilesFrom(file[e] + 1)
      <4>1. FilesFrom(file[e] + 1) \subseteq skipped'[e]
        BY <1>27, <3>3 DEF Receive
      <4>2. \A f \in Files : f > file[e] => f \in FilesFrom(file[e] + 1)
        BY FilesBeyond
      <4>. QED  BY <1>27, <3>3, <4>1, <4>2 DEF Receive
    <3>. QED  BY <2>2, <3>1, <3>2, <3>3
  <2>. QED  BY <1>27, <2>2 DEF Receive
<1>28. ASSUME Cancel \/ Close \/ Ended \/ UNCHANGED vars PROVE StoppingInv'
  BY <1>28 DEF Cancel, Close, Ended, vars
<1>. HIDE DEF StoppingInv, Stopping
<1>. QED
  BY <1>1, <1>2, <1>3, <1>4, <1>5, <1>6, <1>7, <1>8, <1>9, <1>10, <1>11, <1>12,
     <1>13, <1>14, <1>15, <1>16, <1>17, <1>18, <1>19, <1>20, <1>21, <1>22,
     <1>23, <1>24, <1>25, <1>26, <1>27, <1>28
  DEF Next, LocalStep, Dial, SessionCall, HangUp

\* StoppingInv holds in every reachable state.
LEMMA StoppingInvHolds == Spec => [](TypeInv /\ StoppingInv)
<1>1. Init => TypeInv /\ StoppingInv
  BY TypeInvInit DEF Init, StoppingInv, Stopping
<1>2. TypeInv /\ StoppingInv /\ [Next]_vars => (TypeInv /\ StoppingInv)'
  BY TypeInvNext, StoppingInvNext
<1>. QED  BY <1>1, <1>2, PTL DEF Spec

\* A cancellation is followed by at most one more transfer per endpoint.
THEOREM OneLateStart == Spec => []AtMostOneLateStart
<1>1. StoppingInv => AtMostOneLateStart
  BY DEF StoppingInv, Stopping, AtMostOneLateStart
<1>. QED  BY <1>1, StoppingInvHolds, PTL

\* A permission error ends the batch, and all that is left of it is named.
THEOREM PermanentErrorIsFinal == Spec => []PermanentErrorEndsBatch
<1>1. TypeInv /\ StoppingInv => PermanentErrorEndsBatch
  BY DEF StoppingInv, Stopping, RestIsSkipped, PermanentErrorEndsBatch
<1>. QED  BY <1>1, StoppingInvHolds, PTL

-----------------------------------------------------------------------------
(***************************************************************************)
(* One worker at a time: what a step of a worker leaves alone.             *)
(***************************************************************************)
WorkerStep(e) == LocalStep(e) \/ Dial(e) \/ SessionCall(e) \/ HangUp(e)

\* What the caller holds changes by its own receives and the close only.
LEMMA WorkersChangeNothingReceived ==
  ASSUME NEW e \in Endpoints, WorkerStep(e)
  PROVE  UNCHANGED callerVars
<1>. USE DEF At
<1>1. CASE LocalStep(e)
  BY <1>1 DEF LocalStep, Begin, FailAllFiles, EndOfBatch, StopCanceled,
     SkipRemaining, NextFile, Report, Attempt, AfterConnectFailed, Wake, Start, Success
<1>2. CASE Dial(e)
  BY <1>2 DEF Dial, ConnectOK, ConnectCanceled, ConnectFailed
<1>3. CASE SessionCall(e)
  BY <1>3 DEF SessionCall, DeleteReturns, DeleteFails, Progress, UploadReturns,
     OpenDenied, UploadFails, VerifyReturns, VerifyFails, CallReturns, AttemptFails
<1>4. CASE HangUp(e)
  <2>1. GiveUp(e) => UNCHANGED callerVars
    BY DEF GiveUp
  <2>2. Retry(e) => UNCHANGED callerVars
    BY DEF Retry
  <2>3. Finish(e) => UNCHANGED callerVars
    BY DEF Finish
  <2>. QED  BY <1>4, <2>1, <2>2, <2>3 DEF HangUp
<1>. QED  BY <1>1, <1>2, <1>3, <1>4 DEF WorkerStep

\* A worker moves only once its last event has been received.
LEMMA WorkersWaitForReceipt ==
  ASSUME NEW e \in Endpoints, WorkerStep(e)
  PROVE  out[e] = NoEvent
BY DEF WorkerStep, LocalStep, Begin, FailAllFiles, EndOfBatch, StopCanceled,
   SkipRemaining, NextFile, Report, Attempt, AfterConnectFailed, Wake, Start, Success,
   Dial, ConnectOK, ConnectCanceled, ConnectFailed,
   SessionCall, DeleteReturns, DeleteFails, Progress, UploadReturns,
   OpenDenied, UploadFails, VerifyReturns, VerifyFails, HangUp, Retry, GiveUp, Finish, At

\* Workers share nothing but the context and the channel.
LEMMA OthersUntouched ==
  ASSUME TypeOK, NEW e \in Endpoints, WorkerStep(e), NEW d \in Endpoints \ {e}
  PROVE  /\ pc'[d] = pc[d] /\ out'[d] = out[d] /\ file'[d] = file[d]
         /\ attempt'[d] = attempt[d] /\ connectFailures'[d] = connectFailures[d]
         /\ remote'[d] = remote[d]
<1>. USE DEF TypeOK, Goto, Send, callerVars, loopVars, connVars, transferVars
<1>1. CASE LocalStep(e)
  <2>1. CASE Begin(e) \/ FailAllFiles(e) \/ EndOfBatch(e) \/ NextFile(e) \/ Wake(e)
    BY <2>1 DEF Begin, FailAllFiles, EndOfBatch, NextFile, Wake, NextAttempt
  <2>2. CASE StopCanceled(e) \/ SkipRemaining(e) \/ Report(e) \/ Attempt(e)
    BY <2>2 DEF StopCanceled, SkipRemaining, Report, Attempt, StopBatch, FileFailed
  <2>3. CASE Start(e) \/ Success(e)
    BY <2>3 DEF Start, Success, FirstCall
  <2>4. CASE AfterConnectFailed(e)
    BY <2>4 DEF AfterConnectFailed, FileFailed, SleepBeforeRetry, NextAttempt
  <2>. QED  BY <1>1, <2>1, <2>2, <2>3, <2>4 DEF LocalStep
<1>2. CASE Dial(e)
  BY <1>2 DEF Dial, ConnectOK, ConnectCanceled, ConnectFailed, FileFailed
<1>3. CASE SessionCall(e)
  <2>1. CASE DeleteReturns(e) \/ UploadReturns(e) \/ VerifyReturns(e) \/ Progress(e)
    BY <2>1 DEF DeleteReturns, UploadReturns, VerifyReturns, Progress, CallReturns, Store
  <2>2. CASE DeleteFails(e) \/ OpenDenied(e) \/ UploadFails(e) \/ VerifyFails(e)
    <3>1. \E verdict : AttemptFails(e, verdict)
      BY <2>2 DEF DeleteFails, OpenDenied, UploadFails, VerifyFails
    <3>2. remote'[d] = remote[d]
      BY <2>2 DEF DeleteFails, OpenDenied, UploadFails, VerifyFails, Store
    <3>. QED  BY <3>1, <3>2 DEF AttemptFails
  <2>. QED  BY <1>3, <2>1, <2>2 DEF SessionCall
<1>4. CASE HangUp(e)
  <2>1. CASE Retry(e) \/ Finish(e)
    BY <2>1 DEF Retry, Finish, Disconnect, SleepBeforeRetry, NextAttempt
  <2>2. CASE GiveUp(e)
    BY <2>2 DEF GiveUp, Disconnect, StopBatch
  <2>. QED  BY <1>4, <2>1, <2>2 DEF HangUp
<1>. QED  BY <1>1, <1>2, <1>3, <1>4 DEF WorkerStep
=============================================================================
