---------------------------- MODULE UploadEngine ----------------------------
(***************************************************************************)
(* The upload engine of package uploadfun: Upload starts one worker        *)
(* goroutine per endpoint; every worker sends the files of the batch in    *)
(* order over one reused connection, reconnecting and retrying, and tells  *)
(* the caller what happens on one unbuffered channel, which is closed when *)
(* the last worker has returned (uploadfun.go, dispatch.go).               *)
(*                                                                         *)
(* A worker step runs from one place where the goroutine can be held up (a *)
(* network call, a channel send, a sleep, a read of the shared context) to *)
(* the next. pc[e] names the place worker e has reached and out[e] is the  *)
(* event it is blocked on sending: the worker moves on when the caller has *)
(* received it. Files are named by their position in the batch.            *)
(*                                                                         *)
(* This module is Options.DryRun = FALSE; DryRunPreflight is the other     *)
(* branch of runEndpoint.                                                  *)
(***************************************************************************)
EXTENDS Naturals, FiniteSets

CONSTANTS
  Endpoints,      \* the endpoint entries of the configuration
  NumFiles,       \* length of the files argument
  Protocol,       \* Endpoint.Protocol; "other" has no transport
  Attempts,       \* Endpoint.Attempts
  MaxConsecutiveConnectFailures,
  Overwrite,      \* Endpoint.Overwrite
  StallTimeout,   \* TRUE where Endpoint.StallTimeout > 0
  NoVerify,       \* Options.NoVerify
  LocallyDenied,  \* files the local user may not open
  Chunks          \* reads the transport makes of one local file

Files == 1..NumFiles

ASSUME EngineAssumption ==
  /\ IsFiniteSet(Endpoints)
  /\ NumFiles \in Nat
  /\ Protocol \in [Endpoints -> {"ftp", "ftps", "sftp", "other"}]
  /\ Attempts \in [Endpoints -> Nat]
  /\ MaxConsecutiveConnectFailures \in [Endpoints -> Nat]
  /\ Overwrite \in [Endpoints -> {"delete-first", "direct"}]
  /\ StallTimeout \in [Endpoints -> BOOLEAN]
  /\ NoVerify \in BOOLEAN
  /\ LocallyDenied \subseteq Files
  /\ Chunks \in Nat

VARIABLES
  canceled,         \* ctx.Err() /= nil
  closed,           \* the event channel is closed
  pc, out,          \* per worker: control point, and event being sent
  file, attempt,    \* loop variables of run and uploadFile
  connected, connectFailures, permanentErr,
  succeeded, failed,
  sent,             \* chunks of the current upload read so far
  session,          \* the server's side of the connection
  remote,           \* what the server holds under each file's name
  \* What the caller has received, kept to state properties about it.
  errors,           \* FileErrorEvents per file
  uploaded,         \* files with a FileSuccessEvent
  skipped,          \* files named by an Unreachable or GivenUp event
  done,             \* the EndpointDoneEvent
  lateStarts        \* FileStartEvents sent after the cancellation

callerVars   == <<canceled, closed, errors, uploaded, skipped, done>>
loopVars     == <<file, attempt, failed>>
connVars     == <<connected, connectFailures, session>>
transferVars == <<succeeded, permanentErr, sent, remote, lateStarts>>
vars == <<pc, out, callerVars, loopVars, connVars, transferVars>>

NoEvent == [type |-> "none"]
FileEvents ==
  [type : {"start", "progress", "success", "error"}, file : Files, attempt : Nat]
SkipEvents == [type : {"unreachable", "givenup"}, skipped : SUBSET Files]
DoneEvents == [type : {"done"}, succeeded : Nat, failed : Nat]
Events == FileEvents \cup SkipEvents \cup DoneEvents

Places == {"spawned", "failAll", "loop", "attempt", "dial", "dialFailed",
           "ready", "delete", "upload", "verify", "success", "failed",
           "denied", "sleep", "report", "finish", "end"}

\* The server's side of a connection: none open, one in use, or one on which
\* a call has failed. A remote file is missing, an older upload, cut short,
\* or of the local file's size.
Sessions == {"none", "clean", "suspect"}
Contents == {"absent", "old", "short", "full"}

TypeOK ==
  /\ canceled \in BOOLEAN
  /\ closed \in BOOLEAN
  /\ pc \in [Endpoints -> Places]
  /\ out \in [Endpoints -> Events \cup {NoEvent}]
  /\ file \in [Endpoints -> 1..(NumFiles + 1)]
  /\ attempt \in [Endpoints -> Nat]
  /\ connected \in [Endpoints -> BOOLEAN]
  /\ connectFailures \in [Endpoints -> Nat]
  /\ permanentErr \in [Endpoints -> BOOLEAN]
  /\ succeeded \in [Endpoints -> Nat]
  /\ failed \in [Endpoints -> Nat]
  /\ sent \in [Endpoints -> 0..Chunks]
  /\ session \in [Endpoints -> Sessions]
  /\ remote \in [Endpoints -> [Files -> Contents]]
  /\ errors \in [Endpoints -> [Files -> Nat]]
  /\ uploaded \in [Endpoints -> SUBSET Files]
  /\ skipped \in [Endpoints -> SUBSET Files]
  /\ done \in [Endpoints -> DoneEvents \cup {NoEvent}]
  /\ lateStarts \in [Endpoints -> Nat]

Init ==
  /\ canceled = FALSE
  /\ closed = FALSE
  /\ pc = [e \in Endpoints |-> "spawned"]
  /\ out = [e \in Endpoints |-> NoEvent]
  /\ file = [e \in Endpoints |-> 1]
  /\ attempt = [e \in Endpoints |-> 1]
  /\ connected = [e \in Endpoints |-> FALSE]
  /\ connectFailures = [e \in Endpoints |-> 0]
  /\ permanentErr = [e \in Endpoints |-> FALSE]
  /\ succeeded = [e \in Endpoints |-> 0]
  /\ failed = [e \in Endpoints |-> 0]
  /\ sent = [e \in Endpoints |-> 0]
  /\ session = [e \in Endpoints |-> "none"]
  /\ remote \in [Endpoints -> [Files -> {"absent", "old"}]]
  /\ errors = [e \in Endpoints |-> [f \in Files |-> 0]]
  /\ uploaded = [e \in Endpoints |-> {}]
  /\ skipped = [e \in Endpoints |-> {}]
  /\ done = [e \in Endpoints |-> NoEvent]
  /\ lateStarts = [e \in Endpoints |-> 0]

-----------------------------------------------------------------------------
(***************************************************************************)
(* What every worker step is built from. A definition no action uses is a  *)
(* seeded fault: a mistaken form of the one below it, which PROJECT.json   *)
(* puts in its place to see a property catch it.                           *)
(***************************************************************************)

\* Worker e is at place p and its last event has been received.
At(e, p) == pc[e] = p /\ out[e] = NoEvent

Goto(e, p) == pc' = [pc EXCEPT ![e] = p]
Send(e, event) == out' = [out EXCEPT ![e] = event]
FileEventZeroBased(e, type) ==
  [type |-> type, file |-> file[e], attempt |-> attempt[e] - 1]
FileEvent(e, type) == [type |-> type, file |-> file[e], attempt |-> attempt[e]]

\* range files, and files[i:] with its length.
MoreFilesPastTheEnd(e) == file[e] <= NumFiles + 1
MoreFiles(e) == file[e] <= NumFiles
FilesAfter(i) == (i + 1)..NumFiles
FilesFrom(i) == i..NumFiles
CountAfter(i) == NumFiles - i
CountFrom(i) == NumFiles + 1 - i

CircuitOpenLate(e) == connectFailures[e] > MaxConsecutiveConnectFailures[e]
CircuitOpen(e) == connectFailures[e] >= MaxConsecutiveConnectFailures[e]

\* The head of the attempt loop: budget left, and the context not canceled.
MayAttemptOnceMore(e) == attempt[e] <= Attempts[e] + 1 /\ ~canceled
MayAttemptCanceled(e) == attempt[e] <= Attempts[e]
MayAttempt(e) == attempt[e] <= Attempts[e] /\ ~canceled

DisconnectNothing(e) == UNCHANGED <<connected, session>>
Disconnect(e) ==
  /\ connected' = [connected EXCEPT ![e] = FALSE]
  /\ session' = [session EXCEPT ![e] = "none"]

\* break in run's loop, with n more failed files.
StopBatchWithoutReport(e, n) ==
  /\ failed' = [failed EXCEPT ![e] = @ + n]
  /\ Goto(e, "finish")
StopBatch(e, n) ==
  /\ failed' = [failed EXCEPT ![e] = @ + n]
  /\ Goto(e, "report")

\* uploadFile returns false: run counts a failed file and takes the next.
FileFailed(e) ==
  /\ failed' = [failed EXCEPT ![e] = @ + 1]
  /\ file' = [file EXCEPT ![e] = @ + 1]
  /\ Goto(e, "loop")

\* continue in the attempt loop.
SleepsForEver(e) ==
  /\ Goto(e, "sleep")
  /\ UNCHANGED attempt
NextAttempt(e) ==
  /\ attempt' = [attempt EXCEPT ![e] = @ + 1]
  /\ Goto(e, "attempt")

\* sleepBeforeRetry does not sleep after the last attempt.
SleepBeforeRetry(e) ==
  IF attempt[e] < Attempts[e]
    THEN Goto(e, "sleep") /\ UNCHANGED attempt
    ELSE NextAttempt(e)

FirstCallAlwaysDelete(e) == "delete"
FirstCall(e) == IF Overwrite[e] = "delete-first" THEN "delete" ELSE "upload"

-----------------------------------------------------------------------------
(***************************************************************************)
(* runEndpoint and the loop over the batch (run).                          *)
(***************************************************************************)

\* newUploader knows the protocols of the three transports.
Begin(e) ==
  /\ At(e, "spawned")
  /\ Goto(e, IF Protocol[e] = "other" THEN "failAll" ELSE "loop")
  /\ UNCHANGED <<out, callerVars, loopVars, connVars, transferVars>>

\* failAllFiles reports every file as an error of attempt 1, then Done.
FailAllFiles(e) ==
  /\ At(e, "failAll")
  /\ IF MoreFiles(e)
       THEN /\ Send(e, FileEvent(e, "error"))
            /\ file' = [file EXCEPT ![e] = @ + 1]
            /\ UNCHANGED <<pc, failed>>
       ELSE /\ Send(e, [type |-> "done", succeeded |-> 0, failed |-> NumFiles])
            /\ failed' = [failed EXCEPT ![e] = NumFiles]
            /\ Goto(e, "end")
            /\ UNCHANGED file
  /\ UNCHANGED <<attempt, callerVars, connVars, transferVars>>

EndOfBatch(e) ==
  /\ At(e, "loop")
  /\ ~MoreFiles(e)
  /\ Goto(e, "report")
  /\ UNCHANGED <<out, callerVars, loopVars, connVars, transferVars>>

StopCanceled(e) ==
  /\ At(e, "loop")
  /\ MoreFiles(e)
  /\ canceled
  /\ StopBatch(e, CountFrom(file[e]))
  /\ UNCHANGED <<out, file, attempt, callerVars, connVars, transferVars>>

SkipRemaining(e) ==
  /\ At(e, "loop")
  /\ MoreFiles(e)
  /\ ~canceled
  /\ CircuitOpen(e)
  /\ Send(e, [type |-> "unreachable", skipped |-> FilesFrom(file[e])])
  /\ StopBatch(e, CountFrom(file[e]))
  /\ UNCHANGED <<file, attempt, callerVars, connVars, transferVars>>

NextFile(e) ==
  /\ At(e, "loop")
  /\ MoreFiles(e)
  /\ ~canceled
  /\ ~CircuitOpen(e)
  /\ attempt' = [attempt EXCEPT ![e] = 1]
  /\ Goto(e, "attempt")
  /\ UNCHANGED <<out, file, failed, callerVars, connVars, transferVars>>

Report(e) ==
  /\ At(e, "report")
  /\ Send(e, [type |-> "done", succeeded |-> succeeded[e], failed |-> failed[e]])
  /\ Goto(e, "finish")
  /\ UNCHANGED <<callerVars, loopVars, connVars, transferVars>>

\* The deferred disconnect of run, after the Done event has been received.
Finish(e) ==
  /\ At(e, "finish")
  /\ Disconnect(e)
  /\ Goto(e, "end")
  /\ UNCHANGED <<out, connectFailures, callerVars, loopVars, transferVars>>

-----------------------------------------------------------------------------
(***************************************************************************)
(* uploadFile: the attempts at one file.                                   *)
(***************************************************************************)

Attempt(e) ==
  /\ At(e, "attempt")
  /\ IF MayAttempt(e)
       THEN /\ Goto(e, IF connected[e] THEN "ready" ELSE "dial")
            /\ UNCHANGED <<file, failed>>
       ELSE FileFailed(e)
  /\ UNCHANGED <<out, attempt, callerVars, connVars, transferVars>>

ConnectOK(e) ==
  /\ At(e, "dial")
  /\ connected' = [connected EXCEPT ![e] = TRUE]
  /\ connectFailures' = [connectFailures EXCEPT ![e] = 0]
  /\ session' = [session EXCEPT ![e] = "clean"]
  /\ Goto(e, "ready")
  /\ UNCHANGED <<out, callerVars, loopVars, transferVars>>

\* A failure under a canceled context is not counted and not reported.
ConnectCanceled(e) ==
  /\ At(e, "dial")
  /\ canceled
  /\ FileFailed(e)
  /\ UNCHANGED <<out, attempt, callerVars, connVars, transferVars>>

ConnectFailed(e) ==
  /\ At(e, "dial")
  /\ ~canceled
  /\ connectFailures' = [connectFailures EXCEPT ![e] = @ + 1]
  /\ Send(e, FileEvent(e, "error"))
  /\ Goto(e, "dialFailed")
  /\ UNCHANGED <<connected, session, callerVars, loopVars, transferVars>>

\* The breaker tripped on this failure (reportGivingUp), or the next attempt.
AfterConnectFailed(e) ==
  /\ At(e, "dialFailed")
  /\ IF CircuitOpen(e)
       THEN /\ Send(e, FileEvent(e, "error"))
            /\ FileFailed(e)
            /\ UNCHANGED attempt
       ELSE SleepBeforeRetry(e) /\ UNCHANGED <<out, file, failed>>
  /\ UNCHANGED <<callerVars, connVars, transferVars>>

\* RetryDelay has passed, or the context was canceled meanwhile.
Wake(e) ==
  /\ At(e, "sleep")
  /\ NextAttempt(e)
  /\ UNCHANGED <<out, file, failed, callerVars, connVars, transferVars>>

Start(e) ==
  /\ At(e, "ready")
  /\ Send(e, FileEvent(e, "start"))
  /\ lateStarts' = [lateStarts EXCEPT ![e] = IF canceled THEN @ + 1 ELSE @]
  /\ Goto(e, FirstCall(e))
  /\ UNCHANGED <<permanentErr, succeeded, sent, remote, callerVars, loopVars,
                 connVars>>

\* After the error event of a failed attempt: disconnect and try again.
Retry(e) ==
  /\ At(e, "failed")
  /\ Disconnect(e)
  /\ SleepBeforeRetry(e)
  /\ UNCHANGED <<out, file, connectFailures, failed, callerVars, transferVars>>

\* The same after a permission error: run gives up on the rest of the batch.
GiveUp(e) ==
  /\ At(e, "denied")
  /\ Disconnect(e)
  /\ permanentErr' = [permanentErr EXCEPT ![e] = TRUE]
  /\ StopBatch(e, 1 + CountFrom(file[e] + 1))
  /\ IF file[e] = NumFiles
       THEN UNCHANGED out
       ELSE Send(e, [type |-> "givenup", skipped |-> FilesFrom(file[e] + 1)])
  /\ UNCHANGED <<file, attempt, connectFailures, succeeded, sent, remote,
                 lateStarts, callerVars>>

-----------------------------------------------------------------------------
(***************************************************************************)
(* transfer: delete, upload and verify on the live connection. The server  *)
(* and the local disk decide how each call ends.                           *)
(***************************************************************************)

Store(e, contents) == remote' = [remote EXCEPT ![e][file[e]] = contents]

\* isPermanentErr: only SFTP clients turn a server's refusal into
\* os.ErrPermission.
Verdicts(e) == IF Protocol[e] = "sftp" THEN {"failed", "denied"} ELSE {"failed"}

\* A call of this attempt returns an error.
AttemptFails(e, verdict) ==
  /\ Send(e, FileEvent(e, "error"))
  /\ session' = [session EXCEPT ![e] = "suspect"]
  /\ sent' = [sent EXCEPT ![e] = 0]
  /\ Goto(e, verdict)
  /\ UNCHANGED <<connected, connectFailures, permanentErr, succeeded,
                 lateStarts, callerVars, loopVars>>

\* A call of this attempt returns nil; the transfer goes on at place p.
CallReturns(e, p) ==
  /\ sent' = [sent EXCEPT ![e] = 0]
  /\ Goto(e, p)
  /\ UNCHANGED <<out, permanentErr, succeeded, lateStarts, callerVars,
                 loopVars, connVars>>

\* A missing file counts as deleted, and FTP's reply 550 for a missing file
\* is also the one for a file that may not be deleted.
DeleteReturns(e) ==
  /\ At(e, "delete")
  /\ \/ Store(e, "absent")
     \/ Protocol[e] # "sftp" /\ UNCHANGED remote
  /\ CallReturns(e, "upload")

DeleteFails(e) ==
  /\ At(e, "delete")
  /\ \E verdict \in Verdicts(e) : AttemptFails(e, verdict)
  /\ \E contents \in {remote[e][file[e]], "absent"} : Store(e, contents)

\* The progress callback runs inside Upload, once per read.
Progress(e) ==
  /\ At(e, "upload")
  /\ file[e] \notin LocallyDenied
  /\ sent[e] < Chunks
  /\ sent' = [sent EXCEPT ![e] = @ + 1]
  /\ Send(e, FileEvent(e, "progress"))
  /\ UNCHANGED <<pc, permanentErr, succeeded, remote, lateStarts, callerVars,
                 loopVars, connVars>>

AfterUpload == IF NoVerify THEN "success" ELSE "verify"

\* Upload returns nil once the local file is read to its end; the server may
\* have kept less of it than it acknowledged.
UploadReturns(e) ==
  /\ At(e, "upload")
  /\ file[e] \notin LocallyDenied
  /\ sent[e] = Chunks
  /\ \E contents \in {"short", "full"} : Store(e, contents)
  /\ CallReturns(e, AfterUpload)

\* The local file cannot be opened: os.Open fails before the server is asked.
OpenDenied(e) ==
  /\ At(e, "upload")
  /\ file[e] \in LocallyDenied
  /\ AttemptFails(e, "denied")
  /\ UNCHANGED remote

\* Any other failure: nothing written, a part, or all of it with the final
\* acknowledgement lost or refused.
UploadFails(e) ==
  /\ At(e, "upload")
  /\ file[e] \notin LocallyDenied
  /\ \E verdict \in Verdicts(e) : AttemptFails(e, verdict)
  /\ \E contents \in {remote[e][file[e]], "short", "full"} : Store(e, contents)

\* verifyBySize compares sizes, the only check both transports have.
AnyFileMatches(e) == remote[e][file[e]] # "absent"
SizeMatches(e) == remote[e][file[e]] = "full"

VerifyReturns(e) ==
  /\ At(e, "verify")
  /\ SizeMatches(e)
  /\ CallReturns(e, "success")
  /\ UNCHANGED remote

\* The sizes differ, or the size cannot be had.
VerifyFails(e) ==
  /\ At(e, "verify")
  /\ \E verdict \in Verdicts(e) : AttemptFails(e, verdict)
  /\ UNCHANGED remote

\* uploadFile returns true: run counts the file and takes the next.
Success(e) ==
  /\ At(e, "success")
  /\ Send(e, FileEvent(e, "success"))
  /\ succeeded' = [succeeded EXCEPT ![e] = @ + 1]
  /\ file' = [file EXCEPT ![e] = @ + 1]
  /\ Goto(e, "loop")
  /\ UNCHANGED <<attempt, permanentErr, failed, sent, remote, lateStarts,
                 callerVars, connVars>>

-----------------------------------------------------------------------------
(***************************************************************************)
(* The caller: it receives from the channel and may cancel the context.    *)
(***************************************************************************)

Receive(e) ==
  /\ out[e] # NoEvent
  /\ out' = [out EXCEPT ![e] = NoEvent]
  /\ errors' = IF out[e].type = "error"
                 THEN [errors EXCEPT ![e][out[e].file] = @ + 1] ELSE errors
  /\ uploaded' = IF out[e].type = "success"
                   THEN [uploaded EXCEPT ![e] = @ \cup {out[e].file}]
                   ELSE uploaded
  /\ skipped' = IF out[e].type \in {"unreachable", "givenup"}
                  THEN [skipped EXCEPT ![e] = @ \cup out[e].skipped] ELSE skipped
  /\ done' = IF out[e].type = "done" THEN [done EXCEPT ![e] = out[e]] ELSE done
  /\ UNCHANGED <<canceled, closed, pc, loopVars, connVars, transferVars>>

Cancel ==
  /\ ~canceled
  /\ canceled' = TRUE
  /\ UNCHANGED <<closed, pc, out, errors, uploaded, skipped, done, loopVars,
                 connVars, transferVars>>

\* dispatch waits for every worker to return, then Upload closes the channel.
OneReturned == \E e \in Endpoints : At(e, "end")
AllReturned == \A e \in Endpoints : At(e, "end")

Close ==
  /\ ~closed
  /\ AllReturned
  /\ closed' = TRUE
  /\ UNCHANGED <<canceled, pc, out, errors, uploaded, skipped, done, loopVars,
                 connVars, transferVars>>

\* Everything is over; the caller's range loop has ended.
Ended == closed /\ UNCHANGED vars

LocalStep(e) ==
  \/ Begin(e) \/ FailAllFiles(e) \/ EndOfBatch(e) \/ StopCanceled(e)
  \/ SkipRemaining(e) \/ NextFile(e) \/ Report(e)
  \/ Attempt(e) \/ AfterConnectFailed(e) \/ Wake(e) \/ Start(e) \/ Success(e)

\* The steps that end a session, and talk to the server to do so.
HangUp(e) == Retry(e) \/ GiveUp(e) \/ Finish(e)

Dial(e) == ConnectOK(e) \/ ConnectCanceled(e) \/ ConnectFailed(e)

SessionCall(e) ==
  \/ DeleteReturns(e) \/ DeleteFails(e)
  \/ Progress(e) \/ UploadReturns(e) \/ OpenDenied(e) \/ UploadFails(e)
  \/ VerifyReturns(e) \/ VerifyFails(e)

Next ==
  \/ \E e \in Endpoints :
       LocalStep(e) \/ Dial(e) \/ SessionCall(e) \/ HangUp(e) \/ Receive(e)
  \/ Cancel
  \/ Close
  \/ Ended

Spec == Init /\ [][Next]_vars

(***************************************************************************)
(* Goroutines run, the caller keeps receiving as Upload's comment asks,    *)
(* and ConnectTimeout bounds every dial. A call on the session, its end    *)
(* included, is bounded only where StallTimeout is set. The caller need    *)
(* not ever cancel.                                                        *)
(***************************************************************************)
Fairness ==
  /\ \A e \in Endpoints : /\ WF_vars(LocalStep(e))
                          /\ WF_vars(Dial(e))
                          /\ WF_vars(Receive(e))
  /\ \A e \in {x \in Endpoints : StallTimeout[x]} :
       WF_vars(SessionCall(e)) /\ WF_vars(HangUp(e))
  /\ WF_vars(Close)

FairSpec == Spec /\ Fairness

-----------------------------------------------------------------------------
(***************************************************************************)
(* Correctness of the engine.                                              *)
(***************************************************************************)

\* The Done event's counts are what the caller was told file by file: as
\* many successes as FileSuccessEvents, and every other file failed
\* (run's tally, kept across the three ways out of its loop).
TallyIsExact ==
  \A e \in Endpoints : done[e] # NoEvent =>
    /\ done[e].succeeded = Cardinality(uploaded[e])
    /\ done[e].failed = NumFiles - Cardinality(uploaded[e])

\* When Done is received, a file without success has been explained by an
\* error or skip event, unless the context was canceled or the attempt
\* budget is zero, the two ways run counts a failure in silence.
FailuresExplained ==
  \A e \in Endpoints : done[e] # NoEvent /\ ~canceled /\ Attempts[e] > 0 =>
    \A f \in Files \ uploaded[e] : errors[e][f] > 0 \/ f \in skipped[e]

\* Once an upload is reported as verified the server holds all of it, for as
\* long as the run lasts, and the file is in no skip event: no later retry,
\* reconnect or give-up takes the report back.
SuccessIsStored ==
  \A e \in Endpoints :
    /\ uploaded[e] \cap skipped[e] = {}
    /\ ~NoVerify => \A f \in uploaded[e] : remote[e][f] = "full"

\* When attempt k starts or has succeeded the caller knows of exactly k - 1
\* failures of this file: no failed attempt goes unreported, and none is
\* reported twice while attempts continue.
EveryFailedAttemptReported ==
  \A e \in Endpoints : out[e].type \in {"start", "success"} =>
    errors[e][out[e].file] = out[e].attempt - 1

\* A file costs at most Attempts attempts; only the breaker tripping inside
\* the file adds its one explanatory error (reportGivingUp).
AttemptBudget ==
  \A e \in Endpoints, f \in Files :
    Protocol[e] # "other" =>
      errors[e][f] <= Attempts[e] + (IF CircuitOpen(e) THEN 1 ELSE 0)

\* A transfer only ever runs on a session no call has failed on, the worker
\* never opens a second session, and the connected flag is the truth about
\* the server's side (reuse, then reconnect fresh after any failure).
SessionHygiene ==
  \A e \in Endpoints :
    /\ connected[e] <=> session[e] # "none"
    /\ pc[e] \in {"ready", "delete", "upload", "verify", "success"}
         => session[e] = "clean"
    /\ pc[e] \in {"dial", "end"} => session[e] = "none"

\* The breaker counts failures across files: never above its limit, and
\* no dial or retry once it is reached.
BreakerHolds ==
  \A e \in Endpoints :
    /\ connectFailures[e] <= MaxConsecutiveConnectFailures[e]
    /\ pc[e] \in {"attempt", "dial", "sleep", "ready"} => ~CircuitOpen(e)

\* After a permission error the worker only reports and hangs up: no dial,
\* no retry, and the rest of the batch is named in the GivenUp event.
PermanentErrorEndsBatch ==
  \A e \in Endpoints : permanentErr[e] =>
    /\ pc[e] \in {"report", "finish", "end"}
    /\ pc[e] # "report" => \A f \in Files : f > file[e] => f \in skipped[e]

\* A worker that passed its context check goes on to one transfer at most
\* after the cancellation.
AtMostOneLateStart == \A e \in Endpoints : lateStarts[e] <= 1

\* close(events) never meets a worker about to send, and comes after every
\* Done event and every disconnect; Done is the last event of its endpoint.
ChannelDiscipline ==
  /\ closed => \A e \in Endpoints :
       /\ pc[e] = "end" /\ out[e] = NoEvent
       /\ done[e] # NoEvent
       /\ session[e] = "none"
  /\ \A e \in Endpoints : done[e] # NoEvent =>
       out[e] = NoEvent /\ pc[e] \in {"finish", "end"}

\* What the server holds of a file the caller has been told is uploaded or
\* skipped does not change any more, and a direct overwrite never leaves the
\* server without a file it had.
RemoteFilesKept ==
  [][\A e \in Endpoints, f \in Files :
       /\ f \in uploaded[e] \cup skipped[e] => remote'[e][f] = remote[e][f]
       /\ Overwrite[e] = "direct" /\ remote[e][f] # "absent"
            => remote'[e][f] # "absent"]_vars

\* The channel is eventually closed, whatever the servers do, provided the
\* caller receives and every endpoint has a stall timeout.
Terminates == <>closed

-----------------------------------------------------------------------------
(***************************************************************************)
(* What comments in the code say of the engine, and it does not do.        *)
(***************************************************************************)

\* uploadfun.go, EndpointDoneEvent: "has finished (uploaded or given up on)
\* every file and disconnected". run sends Done before its deferred disconnect.
DoneMeansDisconnected ==
  \A e \in Endpoints : done[e] # NoEvent => session[e] = "none"

\* cmd/uploadfun/main.go, handleSignals: a canceled run starts "no new
\* transfers or retries". uploadFile does not look at the context again
\* between its check and the transfer, however long the connect took.
NoNewTransferAfterCancel == \A e \in Endpoints : lateStarts[e] = 0

\* dispatch.go, isPermanentErr: "In practice this only ever matches SFTP".
\* A local file that may not be opened matches on every protocol.
OnlySFTPGivesUp == \A e \in Endpoints : permanentErr[e] => Protocol[e] = "sftp"

-----------------------------------------------------------------------------
\* The contract's view: the events received, and a channel that is open.
FinalCounts(event) ==
  IF event = NoEvent THEN {}
  ELSE {[succeeded |-> event.succeeded, failed |-> event.failed]}

Contract == INSTANCE UploadContract WITH
  reported <- uploaded,
  tally    <- [e \in Endpoints |-> FinalCounts(done[e])],
  open     <- ~closed

\* The engine keeps the contract of UploadContract towards its caller: every
\* step of a worker is a step of the contract or invisible to the caller.
ImplementsContract == Contract!Spec

\* With fairness it also keeps the contract's promises of progress: every
\* endpoint reports, and the channel is closed.
ImplementsFairContract == Contract!FairSpec
=============================================================================
