------------------------ MODULE UploadEngineReports -------------------------
(***************************************************************************)
(* What the caller is told, set against what happened: every failed        *)
(* attempt is reported once, no file fails without an explanation, and a   *)
(* reported success stays true. For every instance EngineAssumption admits.*)
(***************************************************************************)
EXTENDS UploadEngineProofs

-----------------------------------------------------------------------------
(***************************************************************************)
(* What the caller knows or is being told: an event counts from its send,  *)
(* so that receiving it changes nothing (Reported is the same for          *)
(* successes).                                                             *)
(***************************************************************************)
Told(e, f) ==
  errors[e][f] + (IF out[e].type = "error" /\ out[e].file = f THEN 1 ELSE 0)

Skipped(e) ==
  skipped[e] \cup (IF out[e].type \in {"unreachable", "givenup"}
                     THEN out[e].skipped ELSE {})

\* Counts of error events are numbers.
LEMMA ToldTypes ==
  ASSUME TypeOK, NEW e \in Endpoints, NEW f \in Files
  PROVE  Told(e, f) \in Nat /\ errors[e][f] \in Nat
BY DEF TypeOK, Told

\* Nothing is sent.
LEMMA NothingSent ==
  ASSUME NEW e \in Endpoints, UNCHANGED callerVars, out'[e] = out[e]
  PROVE  /\ \A f \in Files : Told(e, f)' = Told(e, f)
         /\ Reported(e)' = Reported(e) /\ Skipped(e)' = Skipped(e)
BY DEF callerVars, Told, Reported, Skipped

\* An event about a file is sent.
LEMMA FileEventSent ==
  ASSUME TypeOK, NEW e \in Endpoints, out[e] = NoEvent, UNCHANGED callerVars,
         NEW type \in {"start", "progress", "success", "error"},
         Send(e, FileEvent(e, type))
  PROVE  /\ \A f \in Files : Told(e, f)' =
              IF type = "error" /\ f = file[e] THEN Told(e, f) + 1 ELSE Told(e, f)
         /\ Reported(e)' = IF type = "success" THEN Reported(e) \cup {file[e]}
                                               ELSE Reported(e)
         /\ Skipped(e)' = Skipped(e)
<1>1. out'[e] = [type |-> type, file |-> file[e], attempt |-> attempt[e]]
  BY DEF TypeOK, Send, FileEvent
<1>2. out'[e].type = type /\ out'[e].file = file[e]
  BY <1>1
<1>3. out[e].type = "none"
  BY DEF NoEvent
<1>4. UNCHANGED <<errors, uploaded, skipped>>
  BY DEF callerVars
<1>5. ASSUME NEW f \in Files
      PROVE  Told(e, f)' =
               IF type = "error" /\ f = file[e] THEN Told(e, f) + 1 ELSE Told(e, f)
  BY <1>2, <1>3, <1>4 DEF Told, TypeOK
<1>. QED  BY <1>2, <1>3, <1>4, <1>5 DEF Reported, Skipped

\* An Unreachable or GivenUp event is sent.
LEMMA SkipSent ==
  ASSUME TypeOK, NEW e \in Endpoints, out[e] = NoEvent, UNCHANGED callerVars,
         NEW type \in {"unreachable", "givenup"}, NEW rest,
         Send(e, [type |-> type, skipped |-> rest])
  PROVE  /\ \A f \in Files : Told(e, f)' = Told(e, f)
         /\ Reported(e)' = Reported(e)
         /\ Skipped(e)' = Skipped(e) \cup rest
<1>1. out'[e].type = type /\ out'[e].skipped = rest
  BY DEF TypeOK, Send
<1>2. out[e].type = "none"
  BY DEF NoEvent
<1>. QED  BY <1>1, <1>2 DEF callerVars, Told, Reported, Skipped

\* A Done event is sent.
LEMMA DoneSent ==
  ASSUME TypeOK, NEW e \in Endpoints, out[e] = NoEvent, UNCHANGED callerVars,
         NEW s, NEW n, Send(e, [type |-> "done", succeeded |-> s, failed |-> n])
  PROVE  /\ \A f \in Files : Told(e, f)' = Told(e, f)
         /\ Reported(e)' = Reported(e) /\ Skipped(e)' = Skipped(e)
<1>1. out'[e].type = "done"
  BY DEF TypeOK, Send
<1>2. out[e].type = "none"
  BY DEF NoEvent
<1>. QED  BY <1>1, <1>2 DEF callerVars, Told, Reported, Skipped

\* An event is received: what was being told is now known.
LEMMA ReceivedTells ==
  ASSUME TypeOK, NEW d \in Endpoints, Receive(d), NEW e \in Endpoints
  PROVE  /\ \A f \in Files : Told(e, f)' = Told(e, f)
         /\ Reported(e)' = Reported(e) /\ Skipped(e)' = Skipped(e)
<1>1. CASE d # e
  BY <1>1 DEF TypeOK, Receive, Told, Reported, Skipped
<1>2. CASE d = e
  <2>1. out'[e].type = "none"
    BY <1>2 DEF TypeOK, Receive, NoEvent
  <2>2. ASSUME NEW f \in Files PROVE Told(e, f)' = Told(e, f)
    BY <1>2, <2>1 DEF TypeOK, Receive, Told
  <2>3. Reported(e)' = Reported(e)
    BY <1>2, <2>1 DEF TypeOK, Receive, Reported
  <2>4. Skipped(e)' = Skipped(e)
    BY <1>2, <2>1 DEF TypeOK, Receive, Skipped
  <2>. QED  BY <2>2, <2>3, <2>4
<1>. QED  BY <1>1, <1>2

-----------------------------------------------------------------------------
(***************************************************************************)
(* The account of a file. Until attempt k has failed the caller knows of   *)
(* k - 1 failures, afterwards of k, and of none of the files to come.      *)
(* Only the breaker tripping inside a file adds one error, and the worker  *)
(* never dials again after that.                                           *)
(***************************************************************************)
Trying == {"attempt", "dial", "ready", "delete", "upload", "verify", "success"}
TryFailed == {"dialFailed", "failed", "denied", "sleep"}
Between == {"spawned", "failAll", "loop"}

Budget(e) == Attempts[e] + (IF CircuitOpen(e) THEN 1 ELSE 0)

Account(e) ==
  /\ attempt[e] >= 1
  /\ pc[e] \in InFile =>
       attempt[e] <= (IF pc[e] = "attempt" THEN Attempts[e] + 1 ELSE Attempts[e])
  /\ pc[e] = "failAll" => Protocol[e] = "other"
  /\ \A f \in Files :
       /\ pc[e] \in Trying /\ f = file[e] => Told(e, f) = attempt[e] - 1
       /\ pc[e] \in TryFailed /\ f = file[e] => Told(e, f) = attempt[e]
       /\ pc[e] \in InFile /\ f > file[e] => Told(e, f) = 0
       /\ pc[e] \in Between /\ f >= file[e] => Told(e, f) = 0
       /\ Protocol[e] # "other" => Told(e, f) <= Budget(e)
  /\ out[e].type \in {"start", "success"} =>
       errors[e][out[e].file] = out[e].attempt - 1

AccountInv == \A e \in Endpoints : Account(e)

(***************************************************************************)
(* The explanations. Every file the loop has left behind is a success, has *)
(* an error, or is in a skip event, unless the run was canceled or there   *)
(* are no attempts to fail.                                                *)
(***************************************************************************)
Explained(e, f) == f \in Reported(e) \/ Told(e, f) > 0 \/ f \in Skipped(e)

Behind(e) == IF pc[e] \in {"report", "finish", "end"} THEN Files
             ELSE {f \in Files : f < file[e]}

ExplainedInv ==
  \A e \in Endpoints : ~canceled /\ Attempts[e] > 0 =>
    \A f \in Behind(e) : Explained(e, f)

(***************************************************************************)
(* The store. Only a worker that has stopped skips files, none of them     *)
(* behind its position; all reported successes lie behind it (TallyInv),   *)
(* and only the file at its position is written.                           *)
(***************************************************************************)
Stored(e) ==
  /\ Skipped(e) # {} => pc[e] \in {"report", "finish", "end"}
  /\ \A f \in Skipped(e) : f >= file[e]
  /\ ~NoVerify => /\ \A f \in Reported(e) : remote[e][f] = "full"
                  /\ pc[e] = "success" => remote[e][file[e]] = "full"
  /\ pc[e] = "delete" => Overwrite[e] = "delete-first"

StoredInv == \A e \in Endpoints : Stored(e)
-----------------------------------------------------------------------------
(***************************************************************************)
(* The account is kept.                                                    *)
(***************************************************************************)

\* The numbers an account is made of.
LEMMA AccountNumbers ==
  ASSUME TypeOK, NEW e \in Endpoints
  PROVE  /\ attempt[e] \in Nat /\ Attempts[e] \in Nat /\ file[e] \in Nat
         /\ connectFailures[e] \in Nat /\ MaxConsecutiveConnectFailures[e] \in Nat
BY EngineAssumption DEF TypeOK, EngineAssumption

\* A worker that sends nothing new and stays in its attempt or takes the next.
LEMMA QuietAccount ==
  ASSUME TypeOK, NEW e \in Endpoints, Account(e), UNCHANGED callerVars,
         out'[e] = out[e], out[e] = NoEvent, file'[e] = file[e],
         pc[e] \in InFile, pc'[e] \in InFile, Budget(e)' = Budget(e),
         \/ /\ attempt'[e] = attempt[e]
            /\ pc[e] \in Trying <=> pc'[e] \in Trying
            /\ pc'[e] # "attempt" /\ (pc[e] = "attempt" => attempt[e] <= Attempts[e])
         \/ /\ attempt'[e] = attempt[e] + 1
            /\ pc[e] \in TryFailed /\ pc'[e] = "attempt"
  PROVE  Account(e)'
<1>1. /\ \A f \in Files : Told(e, f)' = Told(e, f)
  BY NothingSent
<1>2. out'[e].type = "none"
  BY DEF NoEvent
<1>3. /\ attempt[e] \in Nat /\ Attempts[e] \in Nat
  BY AccountNumbers
<1>. QED  BY <1>1, <1>2, <1>3 DEF Account, InFile, Trying, TryFailed, Between

\* uploadFile returned false after an attempt the caller knows all about.
LEMMA AccountFileFailed ==
  ASSUME TypeOK, NEW e \in Endpoints, Account(e), pc[e] \in InFile, FileFailed(e),
         \A f \in Files : f > file[e] => Told(e, f)' = Told(e, f),
         \A f \in Files : Protocol[e] # "other" => Told(e, f)' <= Budget(e),
         out'[e].type \notin {"start", "success"}, UNCHANGED <<attempt, connectFailures>>
  PROVE  Account(e)'
<1>1. pc'[e] = "loop" /\ file'[e] = file[e] + 1
  BY DEF TypeOK, FileFailed, Goto
<1>2. Budget(e)' = Budget(e)
  BY DEF Budget, CircuitOpen
<1>3. \A f \in Files : f \in Nat
  BY DEF Files
<1>. QED
  BY <1>1, <1>2, <1>3, AccountNumbers DEF Account, InFile, Trying, TryFailed, Between

\* A failing call is reported once.
LEMMA AccountAttemptFails ==
  ASSUME TypeOK, NEW e \in Endpoints, Account(e), out[e] = NoEvent,
         pc[e] \in {"delete", "upload", "verify"},
         NEW verdict \in {"failed", "denied"}, AttemptFails(e, verdict)
  PROVE  Account(e)'
<1>1. /\ pc'[e] = verdict /\ out'[e].type = "error"
      /\ UNCHANGED <<attempt, file, connectFailures, callerVars>>
  BY DEF TypeOK, AttemptFails, Goto, Send, FileEvent, loopVars
<1>2. \A f \in Files : Told(e, f)' =
        IF f = file[e] THEN Told(e, f) + 1 ELSE Told(e, f)
  BY FileEventSent DEF AttemptFails
<1>3. Budget(e)' = Budget(e)
  BY <1>1 DEF Budget, CircuitOpen
<1>4. Budget(e) >= Attempts[e] /\ Budget(e) \in Nat
  BY AccountNumbers DEF Budget
<1>5. \A f \in Files : Told(e, f) \in Nat /\ f \in Nat
  BY ToldTypes DEF Files
<1>. QED
  BY <1>1, <1>2, <1>3, <1>4, <1>5, AccountNumbers
  DEF Account, InFile, Trying, TryFailed, Between

\* Every step of a worker keeps its account.
LEMMA AccountOfWorker ==
  ASSUME TypeInv, ConnInv, NEW e \in Endpoints, Account(e), WorkerStep(e)
  PROVE  Account(e)'
<1>. USE DEF TypeInv, At, Goto
<1>a. out[e] = NoEvent /\ UNCHANGED callerVars
  BY WorkersWaitForReceipt, WorkersChangeNothingReceived
<1>b. DOMAIN pc = Endpoints /\ DOMAIN out = Endpoints /\ DOMAIN file = Endpoints
      /\ DOMAIN attempt = Endpoints /\ DOMAIN connectFailures = Endpoints
  BY DEF TypeOK
<1>c. /\ attempt[e] \in Nat /\ Attempts[e] \in Nat /\ file[e] \in Nat
      /\ \A f \in Files : f \in Nat /\ Told(e, f) \in Nat
  BY AccountNumbers, ToldTypes DEF Files
<1>d. connectFailures' = connectFailures => Budget(e)' = Budget(e)
  BY DEF Budget, CircuitOpen
<1>e. Budget(e) \in Nat /\ Budget(e) >= Attempts[e]
  BY <1>c DEF Budget
<1>f. out[e].type = "none" /\ NoEvent.type = "none"
  BY <1>a DEF NoEvent
<1>g. UNCHANGED out => \A f \in Files : Told(e, f)' = Told(e, f)
  BY <1>a, NothingSent
<1>1. CASE Begin(e)
  BY <1>1, <1>b, <1>c, <1>d, <1>f, <1>g
  DEF Begin, Account, InFile, Trying, TryFailed, Between, loopVars, connVars
<1>2. CASE FailAllFiles(e)
  <2>1. CASE MoreFiles(e)
    <3>1. /\ Send(e, FileEvent(e, "error")) /\ file'[e] = file[e] + 1
          /\ UNCHANGED <<pc, attempt, connectFailures>>
      BY <1>2, <2>1, <1>b DEF FailAllFiles, connVars
    <3>2. \A f \in Files : f # file[e] => Told(e, f)' = Told(e, f)
      BY <1>a, <3>1, FileEventSent
    <3>3. out'[e].type = "error"
      BY <3>1, <1>b DEF Send, FileEvent
    <3>. QED  BY <1>2, <1>b, <1>c, <1>d, <3>1, <3>2, <3>3
              DEF FailAllFiles, Account, InFile, Trying, TryFailed, Between
  <2>2. CASE ~MoreFiles(e)
    <3>1. /\ Send(e, [type |-> "done", succeeded |-> 0, failed |-> NumFiles])
          /\ pc'[e] = "end" /\ UNCHANGED <<file, attempt, connectFailures>>
      BY <1>2, <2>2, <1>b DEF FailAllFiles, connVars
    <3>2. \A f \in Files : Told(e, f)' = Told(e, f)
      BY <1>a, <3>1, DoneSent
    <3>3. out'[e].type = "done"
      BY <3>1, <1>b DEF Send
    <3>. QED  BY <1>2, <1>b, <1>c, <1>d, <3>1, <3>2, <3>3
              DEF Account, InFile, Trying, TryFailed, Between
  <2>. QED  BY <2>1, <2>2
<1>3. CASE EndOfBatch(e) \/ StopCanceled(e) \/ Finish(e)
  BY <1>3, <1>b, <1>c, <1>d, <1>f, <1>g
  DEF EndOfBatch, StopCanceled, Finish, StopBatch, Account, InFile, Trying,
      TryFailed, Between, loopVars, connVars
<1>4. CASE SkipRemaining(e)
  <2>1. /\ Send(e, [type |-> "unreachable", skipped |-> FilesFrom(file[e])])
        /\ pc'[e] = "report" /\ UNCHANGED <<file, attempt, connectFailures>>
    BY <1>4, <1>b DEF SkipRemaining, StopBatch, connVars
  <2>2. \A f \in Files : Told(e, f)' = Told(e, f)
    BY <1>a, <2>1, SkipSent
  <2>3. out'[e].type = "unreachable"
    BY <2>1, <1>b DEF Send
  <2>. QED  BY <1>c, <1>d, <2>1, <2>2, <2>3
            DEF Account, InFile, Trying, TryFailed, Between
<1>5. CASE NextFile(e)
  <2>1. pc[e] = "loop" /\ pc'[e] = "attempt" /\ attempt'[e] = 1
        /\ UNCHANGED <<out, file, connectFailures>>
    BY <1>5, <1>b DEF NextFile, connVars
  <2>. QED  BY <1>c, <1>d, <1>f, <1>g, <2>1
            DEF Account, InFile, Trying, TryFailed, Between
<1>6. CASE Report(e)
  <2>1. /\ Send(e, [type |-> "done", succeeded |-> succeeded[e], failed |-> failed[e]])
        /\ pc'[e] = "finish" /\ UNCHANGED <<file, attempt, connectFailures>>
    BY <1>6, <1>b DEF Report, loopVars, connVars
  <2>2. \A f \in Files : Told(e, f)' = Told(e, f)
    BY <1>a, <2>1, DoneSent
  <2>3. out'[e].type = "done"
    BY <2>1, <1>b DEF Send
  <2>. QED  BY <1>c, <1>d, <2>1, <2>2, <2>3
            DEF Account, InFile, Trying, TryFailed, Between
<1>7. CASE Attempt(e)
  <2>1. pc[e] = "attempt" /\ UNCHANGED <<out, attempt, connectFailures>>
    BY <1>7 DEF Attempt, connVars
  <2>2. CASE MayAttempt(e)
    <3>1. pc'[e] \in {"ready", "dial"} /\ UNCHANGED file
      BY <1>7, <2>2, <1>b DEF Attempt
    <3>. QED  BY <1>a, <1>d, <2>1, <2>2, <3>1, QuietAccount
              DEF MayAttempt, InFile, Trying
  <2>3. CASE ~MayAttempt(e)
    <3>1. FileFailed(e)
      BY <1>7, <2>3 DEF Attempt
    <3>. QED  BY <1>f, <1>g, <2>1, <3>1, AccountFileFailed DEF Account, InFile
  <2>. QED  BY <2>2, <2>3
<1>8. CASE ConnectOK(e)
  <2>1. pc[e] = "dial" /\ pc'[e] = "ready" /\ connectFailures'[e] = 0
        /\ UNCHANGED <<out, file, attempt>>
    BY <1>8, <1>b DEF ConnectOK, loopVars
  <2>2. ~CircuitOpen(e)
    BY <2>1 DEF ConnInv, InFile
  <2>3. ~CircuitOpen(e)'
    BY <2>1, <2>2, AccountNumbers DEF CircuitOpen
  <2>4. Budget(e)' = Budget(e)
    BY <2>2, <2>3 DEF Budget
  <2>. QED  BY <1>a, <2>1, <2>4, QuietAccount DEF InFile, Trying
<1>9. CASE ConnectCanceled(e)
  <2>1. pc[e] = "dial" /\ FileFailed(e) /\ UNCHANGED <<out, attempt, connectFailures>>
    BY <1>9 DEF ConnectCanceled, connVars
  <2>. QED  BY <1>f, <1>g, <2>1, AccountFileFailed DEF Account, InFile
<1>10. CASE ConnectFailed(e)
  <2>1. /\ pc[e] = "dial" /\ pc'[e] = "dialFailed" /\ UNCHANGED <<file, attempt>>
        /\ Send(e, FileEvent(e, "error"))
    BY <1>10, <1>b DEF ConnectFailed, loopVars
  <2>2. \A f \in Files : Told(e, f)' =
          IF f = file[e] THEN Told(e, f) + 1 ELSE Told(e, f)
    BY <1>a, <2>1, FileEventSent
  <2>3. out'[e].type = "error"
    BY <2>1, <1>b DEF Send, FileEvent
  <2>4. Budget(e) = Attempts[e]
    BY <2>1, <1>c DEF ConnInv, InFile, Budget
  <2>5. Budget(e)' >= Budget(e) /\ Budget(e)' \in Nat
    BY <2>4, <1>c DEF Budget
  <2>. QED  BY <1>c, <2>1, <2>2, <2>3, <2>4, <2>5
            DEF Account, InFile, Trying, TryFailed, Between
<1>11. CASE AfterConnectFailed(e)
  <2>1. pc[e] = "dialFailed" /\ UNCHANGED connectFailures
    BY <1>11 DEF AfterConnectFailed, connVars
  <2>2. CASE CircuitOpen(e)
    <3>1. Send(e, FileEvent(e, "error")) /\ FileFailed(e) /\ UNCHANGED attempt
      BY <1>11, <2>2 DEF AfterConnectFailed
    <3>2. \A f \in Files : Told(e, f)' =
            IF f = file[e] THEN Told(e, f) + 1 ELSE Told(e, f)
      BY <1>a, <3>1, FileEventSent
    <3>3. out'[e].type = "error"
      BY <3>1, <1>b DEF Send, FileEvent
    <3>4. Budget(e) = Attempts[e] + 1
      BY <2>2 DEF Budget
    <3>5. \A f \in Files : Protocol[e] # "other" => Told(e, f)' <= Budget(e)
      BY <1>c, <2>1, <3>2, <3>4 DEF Account, InFile, TryFailed
    <3>6. \A f \in Files : f > file[e] => Told(e, f)' = Told(e, f)
      BY <1>c, <3>2
    <3>. QED  BY <2>1, <3>1, <3>3, <3>5, <3>6, AccountFileFailed DEF InFile
  <2>3. CASE ~CircuitOpen(e)
    <3>1. SleepBeforeRetry(e) /\ UNCHANGED <<out, file>>
      BY <1>11, <2>3 DEF AfterConnectFailed
    <3>2. \/ pc'[e] = "sleep" /\ UNCHANGED attempt
          \/ pc'[e] = "attempt" /\ attempt'[e] = attempt[e] + 1
      BY <3>1, <1>b DEF SleepBeforeRetry, NextAttempt
    <3>. QED  BY <1>a, <1>d, <2>1, <3>1, <3>2, QuietAccount
              DEF InFile, Trying, TryFailed
  <2>. QED  BY <2>2, <2>3
<1>12. CASE Wake(e)
  <2>1. /\ pc[e] = "sleep" /\ pc'[e] = "attempt" /\ attempt'[e] = attempt[e] + 1
        /\ UNCHANGED <<out, file, connectFailures>>
    BY <1>12, <1>b DEF Wake, NextAttempt, connVars
  <2>. QED  BY <1>a, <1>d, <2>1, QuietAccount DEF InFile, TryFailed
<1>13. CASE Start(e)
  <2>1. /\ pc[e] = "ready" /\ pc'[e] \in {"delete", "upload"}
        /\ Send(e, FileEvent(e, "start")) /\ UNCHANGED <<file, attempt, connectFailures>>
    BY <1>13, <1>b DEF Start, FirstCall, loopVars, connVars
  <2>2. \A f \in Files : Told(e, f)' = Told(e, f)
    BY <1>a, <2>1, FileEventSent
  <2>3. out'[e].file = file[e] /\ out'[e].attempt = attempt[e]
    BY <2>1, <1>b DEF Send, FileEvent
  <2>4. file[e] \in Files
    BY <2>1 DEF InBatch, InFile
  <2>5. errors'[e][file[e]] = Told(e, file[e])
    BY <1>a, <1>f, <1>c, <2>4, ToldTypes DEF Told, callerVars
  <2>. QED  BY <1>c, <1>d, <2>1, <2>2, <2>3, <2>4, <2>5
            DEF Account, InFile, Trying, TryFailed, Between
<1>14. CASE Retry(e)
  <2>1. pc[e] = "failed" /\ SleepBeforeRetry(e) /\ UNCHANGED <<out, file, connectFailures>>
    BY <1>14 DEF Retry
  <2>2. \/ pc'[e] = "sleep" /\ UNCHANGED attempt
        \/ pc'[e] = "attempt" /\ attempt'[e] = attempt[e] + 1
    BY <2>1, <1>b DEF SleepBeforeRetry, NextAttempt
  <2>. QED  BY <1>a, <1>d, <2>1, <2>2, QuietAccount DEF InFile, Trying, TryFailed
<1>15. CASE GiveUp(e)
  <2>1. pc'[e] = "report" /\ UNCHANGED <<file, attempt, connectFailures>>
    BY <1>15, <1>b DEF GiveUp, StopBatch
  <2>2. /\ \A f \in Files : Told(e, f)' = Told(e, f)
        /\ out'[e].type \notin {"start", "success"}
    <3>1. CASE UNCHANGED out
      BY <1>f, <1>g, <3>1
    <3>2. CASE Send(e, [type |-> "givenup", skipped |-> FilesFrom(file[e] + 1)])
      BY <1>a, <1>b, <3>2, SkipSent DEF Send
    <3>. QED  BY <1>15, <3>1, <3>2 DEF GiveUp
  <2>. QED  BY <1>c, <1>d, <2>1, <2>2 DEF Account, InFile, Trying, TryFailed, Between
<1>16. CASE Progress(e)
  <2>1. /\ pc[e] = "upload" /\ Send(e, FileEvent(e, "progress"))
        /\ UNCHANGED <<pc, file, attempt, connectFailures>>
    BY <1>16 DEF Progress, loopVars, connVars
  <2>2. \A f \in Files : Told(e, f)' = Told(e, f)
    BY <1>a, <2>1, FileEventSent
  <2>3. out'[e].type = "progress"
    BY <2>1, <1>b DEF Send, FileEvent
  <2>. QED  BY <1>c, <1>d, <2>1, <2>2, <2>3
            DEF Account, InFile, Trying, TryFailed, Between
<1>17. CASE Success(e)
  <2>1. /\ pc[e] = "success" /\ pc'[e] = "loop" /\ Send(e, FileEvent(e, "success"))
        /\ file'[e] = file[e] + 1 /\ UNCHANGED <<attempt, connectFailures>>
    BY <1>17, <1>b DEF Success, connVars
  <2>2. \A f \in Files : Told(e, f)' = Told(e, f)
    BY <1>a, <2>1, FileEventSent
  <2>3. out'[e].file = file[e] /\ out'[e].attempt = attempt[e]
    BY <2>1, <1>b DEF Send, FileEvent
  <2>4. file[e] \in Files
    BY <2>1 DEF InBatch, InFile
  <2>5. errors'[e][file[e]] = Told(e, file[e])
    BY <1>a, <1>f, <1>c, <2>4, ToldTypes DEF Told, callerVars
  <2>. QED  BY <1>c, <1>d, <2>1, <2>2, <2>3, <2>4, <2>5
            DEF Account, InFile, Trying, TryFailed, Between
<1>18. CASE DeleteReturns(e) \/ UploadReturns(e) \/ VerifyReturns(e)
  <2>1. /\ pc[e] \in {"delete", "upload", "verify"}
        /\ pc'[e] \in {"upload", "verify", "success"}
        /\ UNCHANGED <<out, file, attempt, connectFailures>>
    BY <1>18, <1>b DEF DeleteReturns, UploadReturns, VerifyReturns, CallReturns,
       AfterUpload, loopVars, connVars
  <2>. QED  BY <1>a, <1>d, <2>1, QuietAccount DEF InFile, Trying
<1>19. CASE DeleteFails(e) \/ OpenDenied(e) \/ UploadFails(e) \/ VerifyFails(e)
  <2>1. pc[e] \in {"delete", "upload", "verify"}
    BY <1>19 DEF DeleteFails, OpenDenied, UploadFails, VerifyFails
  <2>2. \E verdict \in {"failed", "denied"} : AttemptFails(e, verdict)
    BY <1>19 DEF DeleteFails, OpenDenied, UploadFails, VerifyFails, Verdicts
  <2>. QED  BY <1>a, <2>1, <2>2, AccountAttemptFails
<1>. QED
  BY <1>1, <1>2, <1>3, <1>4, <1>5, <1>6, <1>7, <1>8, <1>9, <1>10, <1>11, <1>12,
     <1>13, <1>14, <1>15, <1>16, <1>17, <1>18, <1>19
  DEF WorkerStep, LocalStep, Dial, SessionCall, HangUp

\* Another worker's step keeps the account of this one.
LEMMA AccountOfOthers ==
  ASSUME TypeOK, NEW e \in Endpoints, WorkerStep(e), NEW d \in Endpoints \ {e}, Account(d)
  PROVE  Account(d)'
<1>1. /\ pc'[d] = pc[d] /\ out'[d] = out[d] /\ file'[d] = file[d]
      /\ attempt'[d] = attempt[d] /\ connectFailures'[d] = connectFailures[d]
  BY OthersUntouched
<1>2. UNCHANGED callerVars
  BY WorkersChangeNothingReceived
<1>3. \A f \in Files : Told(d, f)' = Told(d, f)
  BY <1>1, <1>2, NothingSent
<1>4. Budget(d)' = Budget(d) /\ errors' = errors
  BY <1>1, <1>2 DEF Budget, CircuitOpen, callerVars
<1>. QED  BY <1>1, <1>3, <1>4 DEF Account

\* Every step keeps the accounts.
LEMMA AccountInvNext == TypeInv /\ ConnInv /\ AccountInv /\ [Next]_vars => AccountInv'
<1>. SUFFICES ASSUME TypeInv, ConnInv, AccountInv, [Next]_vars, NEW e \in Endpoints
              PROVE  Account(e)'
  BY DEF AccountInv
<1>0. Account(e) /\ TypeOK
  BY DEF AccountInv, TypeInv
<1>1. ASSUME NEW d \in Endpoints, WorkerStep(d) PROVE Account(e)'
  BY <1>0, <1>1, AccountOfWorker, AccountOfOthers
<1>2. ASSUME NEW d \in Endpoints, Receive(d) PROVE Account(e)'
  <2>1. \A f \in Files : Told(e, f)' = Told(e, f)
    BY <1>0, <1>2, ReceivedTells
  <2>2. UNCHANGED <<pc, file, attempt, connectFailures>>
    BY <1>2 DEF Receive, loopVars, connVars
  <2>3. Budget(e)' = Budget(e)
    BY <2>2 DEF Budget, CircuitOpen
  <2>4. out'[e].type \in {"start", "success"} =>
          out'[e] = out[e] /\ errors'[e] = errors[e]
    BY <1>0, <1>2 DEF TypeOK, Receive, NoEvent
  <2>. QED  BY <1>0, <2>1, <2>2, <2>3, <2>4 DEF Account
<1>3. ASSUME Cancel \/ Close \/ Ended \/ UNCHANGED vars PROVE Account(e)'
  <2>1. UNCHANGED <<pc, out, file, attempt, connectFailures, errors>>
    BY <1>3 DEF Cancel, Close, Ended, vars, loopVars, connVars, callerVars
  <2>2. \A f \in Files : Told(e, f)' = Told(e, f)
    BY <2>1 DEF Told
  <2>3. Budget(e)' = Budget(e)
    BY <2>1 DEF Budget, CircuitOpen
  <2>. QED  BY <1>0, <2>1, <2>2, <2>3 DEF Account
<1>. QED  BY <1>1, <1>2, <1>3 DEF Next, WorkerStep

\* The accounts start empty.
LEMMA AccountInvInit == Init => AccountInv
<1>. SUFFICES ASSUME Init, NEW e \in Endpoints PROVE Account(e)
  BY DEF AccountInv
<1>1. /\ attempt[e] = 1 /\ pc[e] = "spawned" /\ out[e].type = "none"
      /\ connectFailures[e] = 0 /\ \A f \in Files : errors[e][f] = 0
  BY DEF Init, NoEvent
<1>2. \A f \in Files : Told(e, f) = 0
  BY <1>1 DEF Told
<1>3. Budget(e) >= 0
  BY EngineAssumption DEF Budget, EngineAssumption
<1>. QED  BY <1>1, <1>2, <1>3 DEF Account, InFile, Trying, TryFailed, Between

-----------------------------------------------------------------------------
(***************************************************************************)
(* The explanations are kept.                                              *)
(***************************************************************************)

\* What the caller knows or is being told is never taken back.
LEMMA KnowledgeGrows ==
  ASSUME TypeOK, NEW e \in Endpoints, WorkerStep(e), NEW f \in Files
  PROVE  /\ Told(e, f)' >= Told(e, f) /\ Told(e, f) \in Nat /\ Told(e, f)' \in Nat
         /\ Reported(e) \subseteq Reported(e)' /\ Skipped(e) \subseteq Skipped(e)'
         /\ Explained(e, f) => Explained(e, f)'
<1>1. out[e].type = "none" /\ UNCHANGED callerVars
  BY WorkersWaitForReceipt, WorkersChangeNothingReceived DEF NoEvent
<1>2. Told(e, f) = errors[e][f] /\ errors[e][f] \in Nat
  BY <1>1, ToldTypes DEF Told
<1>3. Told(e, f)' \in {errors[e][f], errors[e][f] + 1}
  BY <1>1, <1>2 DEF Told, callerVars
<1>4. Reported(e) \subseteq Reported(e)' /\ Skipped(e) \subseteq Skipped(e)'
  BY <1>1 DEF Reported, Skipped, callerVars
<1>5. Told(e, f)' >= Told(e, f) /\ Told(e, f) \in Nat /\ Told(e, f)' \in Nat
  BY <1>2, <1>3
<1>. QED  BY <1>4, <1>5 DEF Explained

\* A file the loop leaves behind is explained as it is left.
LEMMA LeftExplained ==
  ASSUME TypeInv, NEW e \in Endpoints, Account(e), WorkerStep(e),
         ~canceled, Attempts[e] > 0, NEW f \in Files,
         f \notin Behind(e), f \in Behind(e)'
  PROVE  Explained(e, f)'
<1>. USE DEF TypeInv, At, Goto
<1>a. out[e] = NoEvent /\ UNCHANGED callerVars
  BY WorkersWaitForReceipt, WorkersChangeNothingReceived
<1>b. DOMAIN pc = Endpoints /\ DOMAIN out = Endpoints /\ DOMAIN file = Endpoints
  BY DEF TypeOK
<1>c. /\ file[e] \in Nat /\ f \in Nat /\ attempt[e] \in Nat /\ Attempts[e] \in Nat
      /\ Told(e, f) \in Nat /\ Told(e, f)' \in Nat /\ Told(e, f)' >= Told(e, f)
  BY AccountNumbers, KnowledgeGrows DEF Files
<1>d. pc[e] \notin {"report", "finish", "end"} /\ f >= file[e]
  BY <1>c DEF Behind
<1>e. f = file[e] \/ pc'[e] \in {"report", "finish", "end"} \/ file'[e] # file[e] + 1
  BY <1>c, <1>d DEF Behind
<1>1. CASE FailAllFiles(e)
  <2>1. MoreFiles(e)
    BY <1>1, <1>c, <1>d, EngineAssumption DEF MoreFiles, Files, EngineAssumption
  <2>2. Send(e, FileEvent(e, "error")) /\ f = file[e]
    BY <1>1, <2>1, <1>b, <1>c, <1>d, <1>e DEF FailAllFiles
  <2>3. Told(e, f)' = Told(e, f) + 1
    BY <1>a, <2>2, FileEventSent
  <2>. QED  BY <2>3, <1>c DEF Explained
<1>2. CASE EndOfBatch(e)
  BY <1>2, <1>c, <1>d, EngineAssumption DEF EndOfBatch, MoreFiles, Files, EngineAssumption
<1>3. CASE SkipRemaining(e)
  <2>1. Send(e, [type |-> "unreachable", skipped |-> FilesFrom(file[e])])
    BY <1>3 DEF SkipRemaining
  <2>2. FilesFrom(file[e]) \subseteq Skipped(e)'
    BY <1>a, <2>1, SkipSent
  <2>3. f \in FilesFrom(file[e])
    BY <1>c, <1>d DEF FilesFrom, Files
  <2>. QED  BY <2>2, <2>3 DEF Explained
<1>4. CASE Attempt(e)
  <2>1. ~MayAttempt(e) /\ pc[e] = "attempt"
    BY <1>4, <1>b, <1>c, <1>d, <1>e DEF Attempt, Behind
  <2>2. f = file[e] /\ attempt[e] > Attempts[e]
    BY <1>4, <2>1, <1>b, <1>c, <1>e DEF Attempt, FileFailed, MayAttempt
  <2>3. Told(e, f) > 0
    BY <2>1, <2>2, <1>c DEF Account, Trying
  <2>. QED  BY <2>3, <1>c DEF Explained
<1>5. CASE AfterConnectFailed(e)
  <2>1. CircuitOpen(e)
    BY <1>5, <1>b, <1>c, <1>d, <1>e
    DEF AfterConnectFailed, SleepBeforeRetry, NextAttempt, Behind
  <2>2. Send(e, FileEvent(e, "error")) /\ f = file[e]
    BY <1>5, <2>1, <1>b, <1>c, <1>e DEF AfterConnectFailed, FileFailed
  <2>3. Told(e, f)' = Told(e, f) + 1
    BY <1>a, <2>2, FileEventSent
  <2>. QED  BY <2>3, <1>c DEF Explained
<1>6. CASE GiveUp(e)
  <2>1. pc[e] = "denied" /\ UNCHANGED file
    BY <1>6 DEF GiveUp
  <2>2. CASE f = file[e]
    <3>1. Told(e, f) > 0
      BY <2>1, <2>2, <1>c DEF Account, TryFailed
    <3>. QED  BY <3>1, <1>c DEF Explained
  <2>3. CASE f > file[e]
    <3>1. file[e] # NumFiles /\ f \in FilesFrom(file[e] + 1)
      BY <2>3, FilesBeyond DEF TypeOK
    <3>2. Send(e, [type |-> "givenup", skipped |-> FilesFrom(file[e] + 1)])
      BY <1>6, <3>1 DEF GiveUp
    <3>3. FilesFrom(file[e] + 1) \subseteq Skipped(e)'
      BY <1>a, <3>2, SkipSent
    <3>. QED  BY <3>1, <3>3 DEF Explained
  <2>. QED  BY <2>2, <2>3, <1>c, <1>d
<1>7. CASE Success(e)
  <2>1. Send(e, FileEvent(e, "success")) /\ f = file[e]
    BY <1>7, <1>b, <1>c, <1>e DEF Success
  <2>2. file[e] \in Reported(e)'
    BY <1>a, <2>1, FileEventSent
  <2>. QED  BY <2>1, <2>2 DEF Explained
<1>8. CASE Begin(e) \/ StopCanceled(e) \/ NextFile(e) \/ Report(e) \/ Finish(e)
           \/ Wake(e) \/ Start(e) \/ Retry(e) \/ Progress(e)
  BY <1>8, <1>b, <1>c, <1>d
  DEF Begin, StopCanceled, NextFile, Report, Finish, Wake, NextAttempt, Start,
      FirstCall, Retry, SleepBeforeRetry, Progress, Behind, loopVars
<1>9. CASE Dial(e)
  BY <1>9, <1>b, <1>c, <1>d
  DEF Dial, ConnectOK, ConnectCanceled, ConnectFailed, Behind, loopVars
<1>10. CASE SessionCall(e) /\ ~Progress(e)
  <2>1. CASE DeleteReturns(e) \/ UploadReturns(e) \/ VerifyReturns(e)
    BY <2>1, <1>b, <1>c, <1>d
    DEF DeleteReturns, UploadReturns, VerifyReturns, CallReturns, AfterUpload,
        Behind, loopVars
  <2>2. CASE DeleteFails(e) \/ OpenDenied(e) \/ UploadFails(e) \/ VerifyFails(e)
    <3>1. \E verdict \in {"failed", "denied"} : AttemptFails(e, verdict)
      BY <2>2 DEF DeleteFails, OpenDenied, UploadFails, VerifyFails, Verdicts
    <3>. QED  BY <3>1, <1>b, <1>c, <1>d DEF AttemptFails, Behind, loopVars
  <2>. QED  BY <1>10, <2>1, <2>2 DEF SessionCall
<1>. QED
  BY <1>1, <1>2, <1>3, <1>4, <1>5, <1>6, <1>7, <1>8, <1>9, <1>10
  DEF WorkerStep, LocalStep, SessionCall, HangUp

\* Every step keeps the explanations.
LEMMA ExplainedInvNext ==
  TypeInv /\ AccountInv /\ ExplainedInv /\ [Next]_vars => ExplainedInv'
<1>. SUFFICES ASSUME TypeInv, AccountInv, ExplainedInv, [Next]_vars,
                     NEW e \in Endpoints, ~canceled', Attempts[e] > 0,
                     NEW f \in Files, f \in Behind(e)'
              PROVE  Explained(e, f)'
  BY DEF ExplainedInv, Behind
<1>0. TypeOK
  BY DEF TypeInv
<1>1. ASSUME NEW d \in Endpoints, WorkerStep(d) PROVE Explained(e, f)'
  <2>0. ~canceled /\ UNCHANGED callerVars
    BY <1>1, WorkersChangeNothingReceived DEF callerVars
  <2>1. CASE d = e
    BY <1>0, <1>1, <2>0, <2>1, LeftExplained, KnowledgeGrows DEF AccountInv, ExplainedInv
  <2>2. CASE d # e
    <3>1. pc'[e] = pc[e] /\ out'[e] = out[e] /\ file'[e] = file[e]
      BY <1>0, <1>1, <2>2, OthersUntouched
    <3>2. Told(e, f)' = Told(e, f) /\ Reported(e)' = Reported(e)
          /\ Skipped(e)' = Skipped(e)
      BY <2>0, <3>1, NothingSent
    <3>3. f \in Behind(e)
      BY <3>1 DEF Behind
    <3>. QED  BY <2>0, <3>2, <3>3 DEF ExplainedInv, Explained
  <2>. QED  BY <2>1, <2>2
<1>2. ASSUME NEW d \in Endpoints, Receive(d) PROVE Explained(e, f)'
  <2>1. Told(e, f)' = Told(e, f) /\ Reported(e)' = Reported(e)
        /\ Skipped(e)' = Skipped(e)
    BY <1>0, <1>2, ReceivedTells
  <2>2. f \in Behind(e) /\ ~canceled
    BY <1>2 DEF Receive, Behind, loopVars
  <2>. QED  BY <2>1, <2>2 DEF ExplainedInv, Explained
<1>3. ASSUME Cancel \/ Close \/ Ended \/ UNCHANGED vars PROVE Explained(e, f)'
  <2>1. UNCHANGED <<pc, out, file, errors, uploaded, skipped>> /\ ~canceled
    BY <1>3 DEF Cancel, Close, Ended, vars, loopVars, callerVars
  <2>2. f \in Behind(e)
    BY <2>1 DEF Behind
  <2>3. Explained(e, f)
    BY <2>1, <2>2 DEF ExplainedInv
  <2>. QED  BY <2>1, <2>3 DEF Explained, Told, Reported, Skipped
<1>. QED  BY <1>1, <1>2, <1>3 DEF Next, WorkerStep

\* The explanations start with nothing to explain.
LEMMA ExplainedInvInit == Init => ExplainedInv
<1>. SUFFICES ASSUME Init, NEW e \in Endpoints PROVE Behind(e) = {}
  BY DEF ExplainedInv
<1>. QED  BY DEF Init, Behind, Files

-----------------------------------------------------------------------------
(***************************************************************************)
(* What is stored and what is skipped.                                     *)
(***************************************************************************)

\* Each kind of event is sent by one place in the code.
LEMMA SendersOfEvents ==
  ASSUME TypeOK, NEW e \in Endpoints, WorkerStep(e)
  PROVE  /\ ~Success(e) => Reported(e)' = Reported(e)
         /\ ~SkipRemaining(e) /\ ~GiveUp(e) => Skipped(e)' = Skipped(e)
<1>a. out[e] = NoEvent /\ UNCHANGED callerVars
  BY WorkersWaitForReceipt, WorkersChangeNothingReceived
<1>1. CASE UNCHANGED out
  BY <1>1, <1>a, NothingSent
<1>2. CASE \E type \in {"start", "progress", "error"} : Send(e, FileEvent(e, type))
  BY <1>2, <1>a, FileEventSent
<1>3. CASE \E s, n : Send(e, [type |-> "done", succeeded |-> s, failed |-> n])
  BY <1>3, <1>a, DoneSent
<1>4. CASE Success(e)
  BY <1>4, <1>a, FileEventSent DEF Success
<1>5. CASE SkipRemaining(e)
  BY <1>5, <1>a, SkipSent DEF SkipRemaining
<1>6. CASE GiveUp(e)
  <2>1. \/ UNCHANGED out
        \/ Send(e, [type |-> "givenup", skipped |-> FilesFrom(file[e] + 1)])
    BY <1>6 DEF GiveUp
  <2>. QED  BY <1>1, <1>6, <2>1, <1>a, SkipSent
<1>7. ASSUME Begin(e) \/ EndOfBatch(e) \/ StopCanceled(e) \/ NextFile(e) \/ Finish(e)
             \/ Attempt(e) \/ Wake(e) \/ Retry(e) \/ ConnectOK(e) \/ ConnectCanceled(e)
      PROVE  UNCHANGED out
  BY <1>7 DEF Begin, EndOfBatch, StopCanceled, NextFile, Finish, Attempt, Wake,
     Retry, ConnectOK, ConnectCanceled
<1>8. ASSUME DeleteReturns(e) \/ UploadReturns(e) \/ VerifyReturns(e)
      PROVE  UNCHANGED out
  BY <1>8 DEF DeleteReturns, UploadReturns, VerifyReturns, CallReturns
<1>9. ASSUME DeleteFails(e) \/ OpenDenied(e) \/ UploadFails(e) \/ VerifyFails(e)
             \/ ConnectFailed(e)
      PROVE  Send(e, FileEvent(e, "error"))
  BY <1>9 DEF DeleteFails, OpenDenied, UploadFails, VerifyFails, AttemptFails,
     ConnectFailed
<1>10. ASSUME AfterConnectFailed(e)
       PROVE  UNCHANGED out \/ Send(e, FileEvent(e, "error"))
  BY <1>10 DEF AfterConnectFailed
<1>11. ASSUME Start(e) \/ Progress(e)
       PROVE  \E type \in {"start", "progress", "error"} : Send(e, FileEvent(e, type))
  BY <1>11 DEF Start, Progress
<1>12. ASSUME FailAllFiles(e) \/ Report(e)
       PROVE  \/ Send(e, FileEvent(e, "error"))
              \/ \E s, n : Send(e, [type |-> "done", succeeded |-> s, failed |-> n])
  BY <1>12 DEF FailAllFiles, Report
<1>. QED
  BY <1>1, <1>2, <1>3, <1>4, <1>5, <1>6, <1>7, <1>8, <1>9, <1>10, <1>11, <1>12
  DEF WorkerStep, LocalStep, Dial, SessionCall, HangUp

\* A worker writes the file at its position only, in a delete or an upload, and
\* an upload does not remove it.
LEMMA RemoteWritten ==
  ASSUME TypeInv, NEW e \in Endpoints, WorkerStep(e), NEW f \in Files,
         remote'[e][f] # remote[e][f]
  PROVE  /\ f = file[e] /\ pc[e] \in {"delete", "upload"}
         /\ pc[e] = "upload" => remote'[e][f] # "absent"
<1>0. TypeOK
  BY DEF TypeInv
<1>1. ASSUME NEW contents, Store(e, contents)
      PROVE  f = file[e] /\ remote'[e][f] = contents
  BY <1>0, <1>1 DEF TypeOK, Store
<1>2. CASE DeleteReturns(e)
  <2>1. pc[e] = "delete" /\ \E contents : Store(e, contents)
    BY <1>2 DEF DeleteReturns, At
  <2>. QED  BY <1>1, <2>1
<1>3. CASE DeleteFails(e)
  <2>1. pc[e] = "delete" /\ \E contents : Store(e, contents)
    BY <1>3 DEF DeleteFails, At
  <2>. QED  BY <1>1, <2>1
<1>4. CASE UploadReturns(e)
  <2>1. pc[e] = "upload" /\ \E contents \in {"short", "full"} : Store(e, contents)
    BY <1>4 DEF UploadReturns, At
  <2>. QED  BY <1>1, <2>1
<1>5. CASE UploadFails(e)
  <2>1. /\ pc[e] = "upload"
        /\ \E contents \in {remote[e][file[e]], "short", "full"} : Store(e, contents)
    BY <1>5 DEF UploadFails, At
  <2>2. PICK contents \in {remote[e][file[e]], "short", "full"} : Store(e, contents)
    BY <2>1
  <2>3. f = file[e] /\ remote'[e][f] = contents
    BY <2>2, <1>1
  <2>. QED  BY <2>1, <2>3
<1>6. ASSUME LocalStep(e) \/ Dial(e) \/ HangUp(e) \/ Progress(e) \/ OpenDenied(e)
             \/ VerifyReturns(e) \/ VerifyFails(e)
      PROVE  FALSE
  <2>1. LocalStep(e) => UNCHANGED remote
    BY DEF LocalStep, Begin, FailAllFiles, EndOfBatch, StopCanceled, SkipRemaining,
       NextFile, Report, Attempt, AfterConnectFailed, Wake, Start, Success, transferVars
  <2>2. Dial(e) \/ HangUp(e) => UNCHANGED remote
    BY DEF Dial, ConnectOK, ConnectCanceled, ConnectFailed, HangUp, Retry, GiveUp,
       Finish, transferVars
  <2>3. Progress(e) \/ OpenDenied(e) \/ VerifyReturns(e) \/ VerifyFails(e)
          => UNCHANGED remote
    BY DEF Progress, OpenDenied, VerifyReturns, VerifyFails
  <2>. QED  BY <1>6, <2>1, <2>2, <2>3
<1>. QED
  BY <1>2, <1>3, <1>4, <1>5, <1>6 DEF WorkerStep, SessionCall

\* Verification is the only way to a success that is verified, and the first
\* call of an attempt the only way to a delete.
LEMMA WaysIn ==
  ASSUME TypeInv, NEW e \in Endpoints, WorkerStep(e)
  PROVE  /\ pc'[e] = "success" /\ ~NoVerify => VerifyReturns(e)
         /\ pc'[e] = "delete" => Overwrite[e] = "delete-first"
<1>. USE DEF At, Goto
<1>b. DOMAIN pc = Endpoints
  BY DEF TypeInv, TypeOK
<1>1. CASE LocalStep(e)
  <2>1. CASE Start(e)
    BY <2>1, <1>b DEF Start, FirstCall
  <2>2. CASE AfterConnectFailed(e)
    BY <2>2, <1>b DEF AfterConnectFailed, FileFailed, SleepBeforeRetry, NextAttempt
  <2>3. CASE LocalStep(e) /\ ~Start(e) /\ ~AfterConnectFailed(e)
    BY <2>3, <1>b
    DEF LocalStep, Begin, FailAllFiles, EndOfBatch, StopCanceled, SkipRemaining,
        StopBatch, NextFile, Report, Attempt, FileFailed, Wake, NextAttempt, Success
  <2>. QED  BY <1>1, <2>1, <2>2, <2>3
<1>2. CASE Dial(e)
  BY <1>2, <1>b DEF Dial, ConnectOK, ConnectCanceled, ConnectFailed, FileFailed
<1>3. CASE HangUp(e)
  BY <1>3, <1>b
  DEF HangUp, Retry, SleepBeforeRetry, NextAttempt, GiveUp, StopBatch, Finish
<1>4. CASE DeleteReturns(e) \/ UploadReturns(e) \/ Progress(e)
  BY <1>4, <1>b DEF DeleteReturns, UploadReturns, Progress, CallReturns, AfterUpload
<1>5. CASE VerifyReturns(e)
  BY <1>5, <1>b DEF VerifyReturns, CallReturns
<1>6. CASE DeleteFails(e) \/ OpenDenied(e) \/ UploadFails(e) \/ VerifyFails(e)
  <2>1. \E verdict \in {"failed", "denied"} : AttemptFails(e, verdict)
    BY <1>6 DEF DeleteFails, OpenDenied, UploadFails, VerifyFails, Verdicts
  <2>. QED  BY <2>1, <1>b DEF AttemptFails
<1>. QED  BY <1>1, <1>2, <1>3, <1>4, <1>5, <1>6 DEF WorkerStep, SessionCall

\* A worker that has stopped only reports and hangs up.
LEMMA StoppedStays ==
  ASSUME TypeInv, NEW e \in Endpoints, WorkerStep(e),
         pc[e] \in {"report", "finish", "end"}
  PROVE  pc'[e] \in {"finish", "end"} /\ UNCHANGED file
<1>. USE DEF At, Goto
<1>1. Report(e) \/ Finish(e)
  BY DEF WorkerStep, LocalStep, Begin, FailAllFiles, EndOfBatch, StopCanceled,
     SkipRemaining, NextFile, Attempt, AfterConnectFailed, Wake, Start, Success,
     Dial, ConnectOK, ConnectCanceled, ConnectFailed, SessionCall, DeleteReturns,
     DeleteFails, Progress, UploadReturns, OpenDenied, UploadFails, VerifyReturns,
     VerifyFails, HangUp, Retry, GiveUp
<1>. QED  BY <1>1 DEF TypeInv, TypeOK, Report, Finish, loopVars

\* Every step of a worker keeps what is said of its store.
LEMMA StoredOfWorker ==
  ASSUME TypeInv, NEW e \in Endpoints, Tally(e), Stored(e), WorkerStep(e)
  PROVE  Stored(e)'
<1>0. TypeOK
  BY DEF TypeInv
<1>a. out[e] = NoEvent /\ UNCHANGED callerVars
  BY WorkersWaitForReceipt, WorkersChangeNothingReceived
<1>1. /\ Skipped(e)' # {} => pc'[e] \in {"report", "finish", "end"}
      /\ \A f \in Skipped(e)' : f >= file'[e]
  <2>1. CASE SkipRemaining(e)
    <3>1. /\ pc'[e] = "report" /\ UNCHANGED file /\ pc[e] = "loop"
          /\ Send(e, [type |-> "unreachable", skipped |-> FilesFrom(file[e])])
      BY <1>0, <2>1 DEF TypeOK, SkipRemaining, StopBatch, Goto, At
    <3>2. Skipped(e)' = Skipped(e) \cup FilesFrom(file[e])
      BY <1>0, <1>a, <3>1, SkipSent
    <3>. QED  BY <3>1, <3>2, AccountNumbers, <1>0 DEF Stored, FilesFrom
  <2>2. CASE GiveUp(e)
    <3>1. pc'[e] = "report" /\ UNCHANGED file /\ pc[e] = "denied"
      BY <1>0, <2>2 DEF TypeOK, GiveUp, StopBatch, Goto, At
    <3>2. Skipped(e)' \subseteq Skipped(e) \cup FilesFrom(file[e] + 1)
      <4>1. CASE UNCHANGED out
        BY <1>a, <4>1, NothingSent
      <4>2. CASE Send(e, [type |-> "givenup", skipped |-> FilesFrom(file[e] + 1)])
        BY <1>0, <1>a, <4>2, SkipSent
      <4>. QED  BY <2>2, <4>1, <4>2 DEF GiveUp
    <3>. QED  BY <3>1, <3>2, AccountNumbers, <1>0 DEF Stored, FilesFrom
  <2>3. CASE ~SkipRemaining(e) /\ ~GiveUp(e)
    BY <1>0, <2>3, SendersOfEvents, StoppedStays DEF Stored
  <2>. QED  BY <2>1, <2>2, <2>3
<1>2. ASSUME ~NoVerify, NEW f \in Reported(e)' PROVE remote'[e][f] = "full"
  <2>0. \A g \in Reported(e) : g \in Files /\ g # file[e]
    BY <1>0, ReportedTypes, TallyNumbers DEF Tally, Files
  <2>1. CASE Success(e)
    <3>1. Send(e, FileEvent(e, "success")) /\ pc[e] = "success" /\ UNCHANGED remote
      BY <2>1 DEF Success, At
    <3>2. Reported(e)' = Reported(e) \cup {file[e]}
      BY <1>0, <1>a, <3>1, FileEventSent
    <3>. QED  BY <1>2, <3>1, <3>2 DEF Stored
  <2>2. CASE ~Success(e)
    <3>1. f \in Reported(e)
      BY <1>0, <1>2, <2>2, SendersOfEvents
    <3>2. remote'[e][f] = remote[e][f]
      BY <2>0, <3>1, RemoteWritten
    <3>. QED  BY <1>2, <3>1, <3>2 DEF Stored
  <2>. QED  BY <2>1, <2>2
<1>3. ASSUME ~NoVerify, pc'[e] = "success" PROVE remote'[e][file'[e]] = "full"
  <2>1. VerifyReturns(e)
    BY <1>3, WaysIn
  <2>. QED  BY <2>1 DEF VerifyReturns, SizeMatches, CallReturns, loopVars
<1>. QED  BY <1>1, <1>2, <1>3, WaysIn DEF Stored

\* Every step keeps what is said of the stores.
LEMMA StoredInvNext == TypeInv /\ TallyInv /\ StoredInv /\ [Next]_vars => StoredInv'
<1>. SUFFICES ASSUME TypeInv, TallyInv, StoredInv, [Next]_vars, NEW e \in Endpoints
              PROVE  Stored(e)'
  BY DEF StoredInv
<1>0. Stored(e) /\ Tally(e) /\ TypeOK
  BY DEF StoredInv, TallyInv, TypeInv
<1>1. ASSUME NEW d \in Endpoints, WorkerStep(d) PROVE Stored(e)'
  <2>1. CASE d = e
    BY <1>0, <1>1, <2>1, StoredOfWorker
  <2>2. CASE d # e
    <3>1. /\ pc'[e] = pc[e] /\ out'[e] = out[e] /\ file'[e] = file[e]
          /\ remote'[e] = remote[e]
      BY <1>0, <1>1, <2>2, OthersUntouched
    <3>2. Reported(e)' = Reported(e) /\ Skipped(e)' = Skipped(e)
      BY <1>1, <3>1, WorkersChangeNothingReceived, NothingSent
    <3>. QED  BY <1>0, <3>1, <3>2 DEF Stored
  <2>. QED  BY <2>1, <2>2
<1>2. ASSUME NEW d \in Endpoints, Receive(d) PROVE Stored(e)'
  <2>1. Reported(e)' = Reported(e) /\ Skipped(e)' = Skipped(e)
    BY <1>0, <1>2, ReceivedTells
  <2>2. UNCHANGED <<pc, file, remote>>
    BY <1>2 DEF Receive, loopVars, transferVars
  <2>. QED  BY <1>0, <2>1, <2>2 DEF Stored
<1>3. ASSUME Cancel \/ Close \/ Ended \/ UNCHANGED vars PROVE Stored(e)'
  <2>1. UNCHANGED <<pc, out, file, remote, uploaded, skipped>>
    BY <1>3 DEF Cancel, Close, Ended, vars, loopVars, transferVars, callerVars
  <2>2. Reported(e)' = Reported(e) /\ Skipped(e)' = Skipped(e)
    BY <2>1 DEF Reported, Skipped
  <2>. QED  BY <1>0, <2>1, <2>2 DEF Stored
<1>. QED  BY <1>1, <1>2, <1>3 DEF Next, WorkerStep

\* The engine starts with nothing reported or skipped.
LEMMA StoredInvInit == Init => StoredInv
<1>. SUFFICES ASSUME Init, NEW e \in Endpoints PROVE Stored(e)
  BY DEF StoredInv
<1>1. Reported(e) = {} /\ Skipped(e) = {} /\ pc[e] = "spawned"
  BY DEF Init, Reported, Skipped, NoEvent
<1>. QED  BY <1>1 DEF Stored

-----------------------------------------------------------------------------
(***************************************************************************)
(* The theorems.                                                           *)
(***************************************************************************)
ReportsInv == EngineInv /\ AccountInv /\ ExplainedInv /\ StoredInv

\* ReportsInv holds in every reachable state.
LEMMA ReportsInvHolds == Spec => []ReportsInv
<1>1. Init => ReportsInv
  BY EngineInvInit, AccountInvInit, ExplainedInvInit, StoredInvInit DEF ReportsInv
<1>2. ReportsInv /\ [Next]_vars => ReportsInv'
  BY TypeInvNext, ConnInvNext, TallyInvNext, EndingInvNext, AccountInvNext,
     ExplainedInvNext, StoredInvNext
  DEF ReportsInv, EngineInv
<1>. QED  BY <1>1, <1>2, PTL DEF Spec

\* When an attempt starts or has succeeded, the caller has been told of every
\* failed attempt before it, and of each only once (uploadFile).
THEOREM AttemptsAreReported == Spec => []EveryFailedAttemptReported
<1>1. ReportsInv => EveryFailedAttemptReported
  BY DEF ReportsInv, AccountInv, Account, EveryFailedAttemptReported
<1>. QED  BY <1>1, ReportsInvHolds, PTL

\* No file has more error events than attempts, but for the one that explains
\* that the breaker has tripped (reportGivingUp).
THEOREM BudgetIsKept == Spec => []AttemptBudget
<1>1. ReportsInv => AttemptBudget
  <2>. SUFFICES ASSUME ReportsInv, NEW e \in Endpoints, NEW f \in Files,
                       Protocol[e] # "other"
                PROVE  errors[e][f] <= Budget(e)
    BY DEF AttemptBudget, Budget
  <2>1. Told(e, f) <= Budget(e) /\ TypeOK
    BY DEF ReportsInv, AccountInv, Account, EngineInv, TypeInv
  <2>2. errors[e][f] <= Told(e, f) /\ errors[e][f] \in Nat /\ Told(e, f) \in Nat
    BY <2>1, ToldTypes DEF Told
  <2>3. Budget(e) \in Nat
    BY AccountNumbers, <2>1 DEF Budget
  <2>. QED  BY <2>1, <2>2, <2>3
<1>. QED  BY <1>1, ReportsInvHolds, PTL

\* When Done is received every file without a success has been explained, unless
\* the run was canceled or there are no attempts.
THEOREM FailuresAreExplained == Spec => []FailuresExplained
<1>1. ReportsInv => FailuresExplained
  <2>. SUFFICES ASSUME ReportsInv, NEW e \in Endpoints, done[e] # NoEvent, ~canceled,
                       Attempts[e] > 0, NEW f \in Files, f \notin uploaded[e]
                PROVE  errors[e][f] > 0 \/ f \in skipped[e]
    BY DEF FailuresExplained
  <2>1. pc[e] \in {"finish", "end"} /\ out[e].type = "none"
    BY DEF ReportsInv, EngineInv, EndingInv, Ending, NoEvent
  <2>2. Explained(e, f)
    BY <2>1 DEF ReportsInv, ExplainedInv, Behind
  <2>3. TypeOK
    BY DEF ReportsInv, EngineInv, TypeInv
  <2>. QED  BY <2>1, <2>2, <2>3, ToldTypes DEF Explained, Reported, Told, Skipped
<1>. QED  BY <1>1, ReportsInvHolds, PTL

\* The successes lie behind the worker's position and the skipped files do not.
LEMMA ReceivedApart ==
  ASSUME ReportsInv, NEW e \in Endpoints
  PROVE  /\ \A f \in uploaded[e] : f \in Files /\ f < file[e] /\ f \in Reported(e)
         /\ \A f \in skipped[e] : f \in Files /\ f >= file[e]
         /\ skipped[e] # {} => pc[e] \in {"report", "finish", "end"}
         /\ file[e] \in Nat
<1>1. TypeOK /\ Tally(e) /\ Stored(e)
  BY DEF ReportsInv, EngineInv, TypeInv, TallyInv, StoredInv
<1>2. uploaded[e] \subseteq Reported(e) /\ skipped[e] \subseteq Skipped(e)
  BY DEF Reported, Skipped
<1>. QED  BY <1>1, <1>2, TallyNumbers DEF TypeOK, Tally, Stored

\* What is reported as verified is on the server in full, for good, and is not
\* reported as skipped.
THEOREM SuccessStaysTrue == Spec => []SuccessIsStored
<1>1. ReportsInv => SuccessIsStored
  <2>. SUFFICES ASSUME ReportsInv, NEW e \in Endpoints
                PROVE  /\ uploaded[e] \cap skipped[e] = {}
                       /\ ~NoVerify => \A f \in uploaded[e] : remote[e][f] = "full"
    BY DEF SuccessIsStored
  <2>1. uploaded[e] \cap skipped[e] = {}
    <3>1. \A f \in uploaded[e] : f \in Nat /\ f < file[e]
      BY ReceivedApart DEF Files
    <3>2. \A f \in skipped[e] : f >= file[e]
      BY ReceivedApart
    <3>. QED  BY <3>1, <3>2, ReceivedApart
  <2>2. ~NoVerify => \A f \in uploaded[e] : remote[e][f] = "full"
    BY ReceivedApart DEF ReportsInv, StoredInv, Stored
  <2>. QED  BY <2>1, <2>2
<1>. QED  BY <1>1, ReportsInvHolds, PTL

\* No step changes what the server holds of a file that was reported as uploaded
\* or skipped, or removes a file an endpoint overwrites directly.
THEOREM RemoteFilesAreKept == Spec => RemoteFilesKept
<1>1. ASSUME ReportsInv, Next, NEW e \in Endpoints, NEW f \in Files,
             remote'[e][f] # remote[e][f]
      PROVE  /\ f \notin uploaded[e] \cup skipped[e]
             /\ Overwrite[e] = "direct" => remote'[e][f] # "absent"
  <2>1. TypeInv
    BY <1>1 DEF ReportsInv, EngineInv
  <2>2. WorkerStep(e)
    <3>1. ASSUME NEW d \in Endpoints, d # e, WorkerStep(d) PROVE FALSE
      BY <1>1, <2>1, <3>1, OthersUntouched DEF TypeInv
    <3>2. ASSUME \/ \E d \in Endpoints : Receive(d)
                 \/ Cancel \/ Close \/ Ended
          PROVE  FALSE
      BY <1>1, <3>2 DEF Receive, Cancel, Close, Ended, vars, transferVars
    <3>. QED  BY <1>1, <3>1, <3>2 DEF Next, WorkerStep
  <2>3. /\ f = file[e] /\ pc[e] \in {"delete", "upload"}
        /\ pc[e] = "upload" => remote'[e][f] # "absent"
    BY <1>1, <2>1, <2>2, RemoteWritten
  <2>4. f \notin uploaded[e]
    BY <1>1, <2>3, ReceivedApart
  <2>5. f \notin skipped[e]
    BY <1>1, <2>3, ReceivedApart
  <2>6. pc[e] = "delete" => Overwrite[e] = "delete-first"
    BY <1>1 DEF ReportsInv, StoredInv, Stored
  <2>. QED  BY <2>3, <2>4, <2>5, <2>6
<1>2. ReportsInv /\ [Next]_vars =>
        [\A e \in Endpoints, f \in Files :
           /\ f \in uploaded[e] \cup skipped[e] => remote'[e][f] = remote[e][f]
           /\ Overwrite[e] = "direct" /\ remote[e][f] # "absent"
                => remote'[e][f] # "absent"]_vars
  BY <1>1
<1>. QED  BY <1>2, ReportsInvHolds, PTL DEF Spec, RemoteFilesKept

=============================================================================
