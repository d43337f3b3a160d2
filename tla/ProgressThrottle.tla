-------------------------- MODULE ProgressThrottle --------------------------
(***************************************************************************)
(* The printer's memory of verbose progress lines (printer.go): one entry  *)
(* per endpoint and file, set afresh by every FileStartEvent, dropped by   *)
(* the FileSuccessEvent, and asked by handleProgress whether another line  *)
(* is due. The events come in the order uploadFile and progressReader send *)
(* them: the bytes of an attempt only grow, one read at a time, until a    *)
(* read finds the end of the file. The local file may grow or be cut short *)
(* meanwhile, while progress is told against the size it was opened with.  *)
(* Time is counted in ticks; products stay below 2^63.                     *)
(***************************************************************************)
EXTENDS Integers, Sequences

CONSTANTS
  Keys,          \* the pairs of an endpoint and a file (progressKey)
  Sizes,         \* the lengths each pair's local file may have
  Reads,         \* the bytes one read of the file may return
  MinInterval,   \* progressMinInterval
  MaxAttempts,   \* Endpoint.Attempts
  MaxTime        \* bound on the clock

progressPercentStep == 10

ASSUME ThrottleAssumption ==
  /\ Sizes \in [Keys -> SUBSET Nat]
  /\ {MinInterval, MaxTime} \subseteq Nat
  /\ Reads \subseteq Nat \ {0}
  /\ MaxAttempts \in Nat \ {0}

VARIABLES
  mode,          \* printer.mode
  now,           \* the clock
  progress,      \* printer.progress, NoEntry where there is none
  sending,       \* where the transfer of each pair is
  size,          \* the length its local file has now
  total,         \* progressReader.total: the length it was opened with
  attempt, sent, \* its attempt, and the bytes of it reported so far
  lines          \* progress lines of this attempt, with their time

vars == <<mode, now, progress, sending, size, total, attempt, sent, lines>>

Modes == {"default", "quiet", "verbose"}
Never == -1    \* the zero time.Time
NoEntry == [lastPercent |-> -2, lastPrinted |-> Never]
FreshEntry == [lastPercent |-> -1, lastPrinted |-> Never]

Init ==
  /\ mode \in Modes
  /\ now = 0
  /\ progress = [k \in Keys |-> NoEntry]
  /\ sending = [k \in Keys |-> "idle"]
  /\ size \in {f \in [Keys -> UNION {Sizes[k] : k \in Keys}] :
                \A k \in Keys : f[k] \in Sizes[k]}
  /\ total = [k \in Keys |-> 0]
  /\ attempt = [k \in Keys |-> 1]
  /\ sent = [k \in Keys |-> 0]
  /\ lines = [k \in Keys |-> <<>>]

-----------------------------------------------------------------------------
(***************************************************************************)
(* handleProgress. A definition no action uses is a seeded fault, a        *)
(* mistaken form of the one below it.                                      *)
(***************************************************************************)

Percent(k, bytes) == IF total[k] > 0 THEN (bytes * 100) \div total[k] ELSE 100
BucketOfOnePercent(k, bytes) == Percent(k, bytes)
Bucket(k, bytes) == Percent(k, bytes) - (Percent(k, bytes) % progressPercentStep)
Final(k, bytes) == bytes >= total[k]

Entry(k) == IF progress[k] = NoEntry THEN FreshEntry ELSE progress[k]

TooSoonToo(k, bytes) ==
  /\ Entry(k).lastPrinted # Never
  /\ now - Entry(k).lastPrinted < MinInterval
TooSoon(k, bytes) ==
  /\ Entry(k).lastPrinted # Never
  /\ now - Entry(k).lastPrinted < MinInterval
  /\ ~Final(k, bytes)

Due(k, bytes) ==
  /\ Bucket(k, bytes) # 0 \/ Final(k, bytes)
  /\ Bucket(k, bytes) # Entry(k).lastPercent
  /\ ~TooSoon(k, bytes)

HandleProgress(k, bytes) ==
  IF Due(k, bytes)
    THEN /\ progress' = [progress EXCEPT ![k] = [lastPercent |-> Bucket(k, bytes),
                                                 lastPrinted |-> now]]
         /\ lines' = [lines EXCEPT ![k] =
              Append(@, [percent |-> Percent(k, bytes), time |-> now,
                         final |-> Final(k, bytes)])]
    ELSE /\ progress' = [progress EXCEPT ![k] = Entry(k)]
         /\ UNCHANGED lines

\* FileStartEvent and FileSuccessEvent in handle.
RememberKeeps(k) == progress' = [progress EXCEPT ![k] = Entry(k)]
RememberStart(k) == progress' = [progress EXCEPT ![k] = FreshEntry]
Forget(k) == progress' = [progress EXCEPT ![k] = NoEntry]

-----------------------------------------------------------------------------
(***************************************************************************)
(* The events of one pair, and the handling of each.                       *)
(***************************************************************************)

\* Somebody else writes to the local file or cuts it short; after the transfer
\* its length matters to nothing here.
Resize(k) ==
  /\ sending[k] \in {"idle", "upload"}
  /\ \E length \in Sizes[k] \ {size[k]} : size' = [size EXCEPT ![k] = length]
  /\ UNCHANGED <<mode, now, progress, sending, total, attempt, sent, lines>>

\* The event, and Upload opening the file: nothing is printed between them.
FileStart(k) ==
  /\ sending[k] = "idle"
  /\ sending' = [sending EXCEPT ![k] = "upload"]
  /\ sent' = [sent EXCEPT ![k] = 0]
  /\ lines' = [lines EXCEPT ![k] = <<>>]
  /\ total' = [total EXCEPT ![k] = size[k]]
  /\ IF mode = "verbose" THEN RememberStart(k) ELSE UNCHANGED progress
  /\ UNCHANGED <<mode, now, size, attempt>>

Progress(k) ==
  /\ sending[k] = "upload"
  /\ \E bytes \in {sent[k] + n : n \in Reads} :
       /\ bytes <= size[k]
       /\ sent' = [sent EXCEPT ![k] = bytes]
       /\ IF mode = "verbose" THEN HandleProgress(k, bytes)
                              ELSE UNCHANGED <<progress, lines>>
  /\ UNCHANGED <<mode, now, sending, size, total, attempt>>

\* An attempt can fail without having started: the connect failed. A retry is
\* the next attempt.
FileError(k) ==
  /\ sending[k] \in {"idle", "upload"}
  /\ attempt[k] < MaxAttempts
  /\ attempt' = [attempt EXCEPT ![k] = @ + 1]
  /\ sending' = [sending EXCEPT ![k] = "idle"]
  /\ UNCHANGED <<mode, now, progress, size, total, sent, lines>>

FileFails(k) ==
  /\ sending[k] \in {"idle", "upload"}
  /\ attempt[k] = MaxAttempts
  /\ sending' = [sending EXCEPT ![k] = "failed"]
  /\ UNCHANGED <<mode, now, progress, size, total, attempt, sent, lines>>

\* A read has found the end of the file as it is now, be that short of the size
\* it was opened with, and the verification, if any, compared with that.
FileSuccess(k) ==
  /\ sending[k] = "upload"
  /\ sent[k] >= size[k]
  /\ sending' = [sending EXCEPT ![k] = "uploaded"]
  /\ Forget(k)
  /\ UNCHANGED <<mode, now, size, total, attempt, sent, lines>>

Tick ==
  /\ now < MaxTime
  /\ now' = now + 1
  /\ UNCHANGED <<mode, progress, sending, size, total, attempt, sent, lines>>

Ended ==
  /\ now = MaxTime /\ \A k \in Keys : sending[k] \in {"uploaded", "failed"}
  /\ UNCHANGED vars

Next ==
  \/ \E k \in Keys :
       \/ FileStart(k) \/ Progress(k) \/ FileError(k) \/ FileFails(k) \/ FileSuccess(k)
       \/ Resize(k)
  \/ Tick
  \/ Ended

Spec == Init /\ [][Next]_vars

-----------------------------------------------------------------------------
\* The entry says what was printed for the attempt under way: a retry starts
\* with none, nothing is kept of an uploaded file, and outside verbose mode
\* nothing is kept at all (handle).
EntryIsOfThisAttempt ==
  /\ mode # "verbose" => \A k \in Keys : progress[k] = NoEntry /\ lines[k] = <<>>
  /\ mode = "verbose" => \A k \in Keys :
       /\ sending[k] = "uploaded" => progress[k] = NoEntry
       /\ sending[k] = "upload" => progress[k] =
            IF lines[k] = <<>> THEN FreshEntry
            ELSE LET last == lines[k][Len(lines[k])] IN
                   [lastPercent |-> last.percent - (last.percent % progressPercentStep),
                    lastPrinted |-> last.time]

\* The lines of an attempt are a step of ten percent and MinInterval apart, and
\* none is below ten percent; only once all of the size the file was opened with
\* is sent may they come sooner (progressPercentStep, progressMinInterval).
LinesAreApart ==
  \A k \in Keys : \A i \in DOMAIN lines[k] :
    LET line == lines[k][i] IN
      /\ line.percent >= progressPercentStep
      /\ i > 1 => LET before == lines[k][i - 1] IN
           /\ line.percent \div progressPercentStep > before.percent \div progressPercentStep
           /\ line.final \/ line.time - before.time >= MinInterval

\* A line of a hundred percent says that all of the size the file was opened with
\* has been read, and that is never left without one, whatever was held back. So
\* a file that is empty when it is read, or is cut short meanwhile, is reported
\* as uploaded without such a line (handleProgress, progressReader).
HundredMeansWhole ==
  mode = "verbose" => \A k \in Keys : sending[k] \in {"upload", "uploaded"} =>
    (sent[k] > 0 /\ sent[k] >= total[k]
       <=> lines[k] # <<>> /\ lines[k][Len(lines[k])].percent >= 100)
=============================================================================
