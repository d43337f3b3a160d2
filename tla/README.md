# Verification of uploadfun

TLA+ models of `uploadfun`, a Go library and command line program that sends a
batch of local files to several FTP, FTPS and SFTP endpoints at once, with the
TLC configurations that check them and TLAPS proofs of all of the safety
properties. Everything here is translated from the Go source; line numbers
below are those of the modelled commit, and `PROJECT.json` ties every
definition to the lines it stands for.

## The system

| Component | State it keeps | Operations | Hard parts | Module |
|---|---|---|---|---|
| Upload engine, one `endpointWorker` per endpoint (`dispatch.go`) | the reused connection, consecutive connect failures, a permanent error, position in the batch, attempt, the tally | `run`, `uploadFile`, `connect`, `transfer`, `disconnect`, the breaker, `failAllFiles` | three ways out of the batch loop, five out of the attempt loop, cancellation at any point | `UploadEngine` |
| Event channel and fan-out (`uploadfun.go`, `dispatch.go`) | one unbuffered channel, a wait group | `Upload`, `dispatch` | close against send, a caller that does not receive | `UploadEngine`, `UploadContract` |
| Dry-run preflight (`dispatch.go`) | one connection, a local and a remote probe file | `runDryRun`, `probeWritable`, `newProbeFile` | clean-up on every way out | `DryRunPreflight` |
| Command line run (`cmd/uploadfun/main.go`, `printer.go`) | the signal channel, whether anything failed | `main`, `handleSignals`, `run`, `processEvents` | signals that outrun the handler, the exit code | `UploadCli`, `DryRunPreflight`, `CommandSetup` |
| Transport adapter and clients (`transports.go`, `internal/transport`) | one protocol session | Connect, Delete, Upload, Verify, Disconnect | what an error leaves on the server, ambiguous replies | `UploadEngine`, `DryRunPreflight` |
| Stall guard and deadlines (`internal/transport`: `conn.go`, the dials of `ftp.go`, `sftp.go`) | one flag, the connection's deadlines | arm, clear, `markEstablished`, guarded Read and Write | a read already pending when the guard is switched | `StallGuard` |
| Configuration (`config.go`) | the global policy, names seen, errors so far | layering, validation, interpolation | unset against zero, what a bad value leaves behind | `ConfigFile`, `CommandSetup` |
| Arguments and paths (`cmd/uploadfun/main.go`) | the arguments left, flags, paths, files | `parseArgs`, `parseInterleaved`, `expandPaths`, collisions | order, `--`, base names | `CommandLine`, `CommandSetup` |
| Printer (`cmd/uploadfun/printer.go`) | last printed percentage and time per file | `handle`, `handleProgress` | throttling at the edges | `ProgressThrottle` |

Workers share nothing but the context and the channel. A worker blocks on every
event until the caller has received it; the progress callback runs inside the
upload call, so an unread progress event holds the transfer up. The caller's
view is the sequence of events, and the program's is its exit code. What can go
wrong in each component is listed as hazards in `PROJECT.json`, each with the
properties that cover it or the reason none does.

## Modules

* **`UploadEngine`** models the worker and the channel with `Options.DryRun`
  off. `pc[e]` is the place worker `e` has reached: a step runs from one place
  where the goroutine can be held up (network call, send, sleep, look at the
  context) to the next, and `out[e]` is the event being sent, which blocks the
  worker until `Receive`. `file`, `attempt`, `failed` and `succeeded` are the
  loop variables of `run` and `uploadFile`; `connected`, `connectFailures` and
  `permanentErr` the fields of `endpointWorker`. `session` and `remote` are the
  server's side. `errors`, `uploaded`, `skipped`, `done` and `lateStarts`
  remember what the caller was told. One action stands for one stretch of the
  handler, with every call it makes: `GiveUp`, for example, is the disconnect
  after a permission error, the assignment of `permanentErr`, the failed file,
  the `EndpointGivenUpEvent` for the rest if there is one, and the `break`.
* **`UploadContract`** is the abstract specification, told from the caller's
  side: successes in batch order, one Done whose counts add up, then the close.
  The engine's `Contract` maps its variables: `reported` is `uploaded`, `tally`
  the counts of the Done event received, `open` the channel not being closed.
* **`DryRunPreflight`** is the other branch of `runEndpoint`, up to the exit code
  of a run with `--dry-run`. `MayHang(e)` names the calls nothing bounds.
* **`UploadCli`** extends the engine with the signal goroutine, `processEvents`
  and the exit code, so signals meet the real worker steps.
* **`StallGuard`** is one session from the dial to the close, against a server
  that may fall silent at any time. A stream is a direction of a connection; an
  operation on it is `pending` while it is blocked; `armed` and `left` are the
  deadlines. FTP runs its operations from the caller's goroutine, on the control
  and a data connection; under SFTP the SSH client's own goroutine reads all the
  time, and a call waits until that reader has the answer (`owed`, `heard`).
* **`CommandLine`** is `parseArgs` and `expandPaths`, one action per argument,
  path and directory entry; **`ConfigFile`** is `LoadConfig`, one action for the top level and
  one per endpoint; **`CommandSetup`** composes them as `run` does, and ends
  where `UploadCli` begins. The reference definitions its properties use say
  what the arguments and the file mean from the whole of them at once, where the
  code goes through them piece by piece.
* **`ProgressThrottle`** is the printer's memory of progress lines, fed with the
  events of transfers that fail, restart and succeed while the clock ticks.
  `Resize` is somebody else writing to the local file or cutting it short;
  `total` is the length it was opened with, which the percentages refer to, and
  an upload ends where a read finds the end of the file as it then is.
* **`MCUploadEngine`**, **`MCUploadCli`**, **`MCDryRunPreflight`**,
  **`MCCommandSetup`**, **`MCProgressThrottle`** give the constants their values.
* **`UploadEngineProofs`**, **`UploadEngineReports`** and
  **`UploadEngineRefinement`** hold the theorems about the engine,
  **`UploadCliProofs`**, **`DryRunProofs`**, **`StallGuardProofs`**,
  **`CommandSetupProofs`** and **`ProgressThrottleProofs`** those about the module
  each is named after.

Data is abstracted to what the code tells apart. A file is its position in the
batch, with base names that differ (`EndpointsRunnable` shows that the program
sees to that); a remote file is absent, older, cut short or of the right size,
because `verifyBySize` compares sizes; an error is ordinary or a permission
error, because `isPermanentErr` asks nothing else; a session is sound or has had
a failed call. Every remote call is free to end in every way its client lets it
end, whatever went before: a lost acknowledgement is an upload that fails with
the whole file on the server, a lossy server one that succeeds with less. FTP's
reply 550 to a delete may leave the file in place. An argument is `--`, a flag or
a word; a string of the configuration is a literal or one `${VAR}`; a policy
field is unset, a number, a reference, or other text, and of these the code
accepts numbers only.

A few definitions no action uses are seeded faults, each standing right above
the definition it is a mistaken form of. `PROJECT.json` lists, for every
property of every passing run, a fault that breaks it.

## Runs

| Run | Instance | Question |
|---|---|---|
| `EngineDeep` | one SFTP endpoint, 3 files, 2 attempts, breaker limit 3, delete-first, verification on | does a worker behave through every mix of failures across files? Implements `UploadContract`. |
| `EngineEdges` | FTP (3 attempts, limit 2, direct) next to an unknown protocol, 2 files, the second unreadable, no verification, fairness | does what the caller is told add up when the breaker trips inside a file and endpoints end differently, and does every endpoint report and the channel close? |
| `Cli` | FTP and SFTP endpoints that may hang, 1 file, up to 3 signals | exit codes, and what one and two signals do |
| `DryRun` | one endpoint of each kind, with and without a stall timeout, fairness | one verdict each, nothing left open, the exit code, and what can hold up the end? |
| `StallGuard` | FTP and SFTP, connect timeouts 1 and 2, stall timeouts 0, 1 and 3, two operations per call, fairness | which waits are bounded, and by what? |
| `Setup` | all command lines of up to 4 arguments out of 10, and those of `--config c` and up to 3 more out of 14; some 3700 configuration files with two endpoints, in 4 environments | is what is uploaded where what was written, and does the exit code say why not? |
| `Progress` | a file whose length moves between 0, 5 and 12 bytes while it is read, and one of 1 byte, reads of 1 and 5 bytes, 2 attempts, 4 instants, interval 2 | which progress lines come out? |

The bounds let the interesting cases happen. Three files give a first, a middle
and a last one, so a breaker or a permission error can stop the batch before, at
and after a success; a limit above the attempts makes the breaker trip across
files and one below makes it trip inside a file (`reportGivingUp`); one read per
upload puts a progress event between the start and the end of a call. Workers
do not read each other's state, so two are enough for the context and the close.
Three signals exceed what `sigCh` and the handler can take. In `StallGuard` the
connect timeout is shorter and longer than the stall timeout, and two operations
are one before and one after a silence; its theorems have no such bounds. Four
arguments hold a flag, its value, a `--` and a path in every order; the files
depart from a good one in one field of each endpoint at once, or in the top
level and one endpoint, which is as far as the rules look at two places
together. In `Progress` a read can pass several steps of ten percent and less
than one, two lines can fall within the interval, at it and after it, and the
file can be empty, grow, and be cut short before, at and after what was read; the
clock, `MaxTime`, and the lengths are the only bounds the code does not have.
Nothing else is bounded: the attempt budget, the batch and the arguments make
the state spaces finite. Deadlock checking is on everywhere; the end of a run is
an explicit stuttering step (`Ended`, `Exited`, `Settled`).

### Properties

Engine: the Done counts are exactly what was reported file by file
(`TallyIsExact`); no file fails without an explanation unless the run was
canceled or there are no attempts (`FailuresExplained`); a verified success
stays true (`SuccessIsStored`, `RemoteFilesKept`); every failed attempt is
reported once and the budget holds (`EveryFailedAttemptReported`,
`AttemptBudget`); transfers run on sound sessions only (`SessionHygiene`); the
breaker is never overrun (`BreakerHolds`); a permission error is final
(`PermanentErrorEndsBatch`); at most one transfer per endpoint starts after a
cancellation (`AtMostOneLateStart`); the close comes last (`ChannelDiscipline`)
and comes (`Terminates`). `ImplementsContract` and `ImplementsFairContract` are
the refinement, without and with the contract's promises of progress.

Deadlines: a connect ends (`ConnectEnds`), within twice `ConnectTimeout`
(`ConnectWithinTwice`); on an established session a timeout means that one
operation was idle for `StallTimeout` (`TimeoutMeansIdle`); one read, and only
that one, may have no deadline (`OneUnguardedRead`), and apart from it every call
ends (`CallsEnd`).

Setup: flags, configuration path and files are what the arguments mean, in any
order (`ArgumentsAsMeant`); the exit code says why the run stopped
(`ExitCodeSaysWhy`); each bad policy value, unset reference and repeated name is
reported at its place and none without a cause (`ErrorsMatchFaults`, where bad is
what the code takes for bad, a reference in a duration included); the innermost layer that
sets a value wins, a zero included (`PolicyIsLayered`); and what the engine takes
for granted holds once `Upload` is called (`EndpointsRunnable`): this is what
justifies the engine's assumptions of distinct base names, known protocols and
positive limits for the program, while a library caller is on its own.

Dry run, signals, printer: see the comments of `OneEventEach`,
`NothingLeftOpen`, `SFTPLeftoverReported`, `ExitTellsVerdicts`;
`ExitCodeTruthful`, `FirstSignalStillReports`, `SecondSignalExits`;
`EntryIsOfThisAttempt`, `LinesAreApart`, `HundredMeansWhole`. The last one says
when a line of a hundred percent is missing: a file that is cut short while it is
read is reported as uploaded, for its verification compares the server's size
with the size the local file has by then, and its percentages stop where it did.

### Fairness

Goroutines run, so local steps are weakly fair. `Dial` is fair because a connect
ends whatever the server does, which `StallGuard` shows (`ConnectEnds`) from
timers that fire and time that passes. Calls on a session and its end
(`SessionCall`, `HangUp`) are fair only where `StallTimeout` is set; `CallsEnd`
shows this for FTP, and for SFTP once the server has answered after the login.
Therefore the one engine run that assumes it, `EngineEdges`, has no SFTP
endpoint. The dry run assumes no fairness of a call that `MayHang`: any call on a
session without a stall timeout, which 0 turns off, and an SFTP endpoint's upload
and disconnect with one. Its `Terminates` says that every endpoint has its
verdict, and the program its end, unless such a call is waited for to the last.
`Receive` is fair because the comment of `Upload` makes it the caller's duty;
without it the engine blocks by design. Cancellation is never assumed. `Cli`
assumes fairness of the signal goroutine alone: transfers there may hang.

### Where the code and its comments disagree

Five runs expect a violation, one each for a sentence in the code or README that
the code does not keep.

* `StallSFTP`: the stall timeout is said to make a stalled transfer fail. Over
  SFTP it does not if the server falls silent right after the login: the SSH
  reader is blocked in a Read that began before the guard was established, and
  `clearDeadline` (`sftp.go:68`) takes away the only deadline that Read had. The
  first call then waits for its answer for ever.
* `EngineDone`: `EndpointDoneEvent` says the endpoint has disconnected; it is
  sent before the deferred disconnect.
* `EngineLateStart`: a canceled run is said to start no new transfer; a worker
  past its check, above all one whose connect is under way, starts one.
* `EngineGivesUp`: permission errors are said to come from SFTP servers only; a
  local file that may not be opened is one too, on every protocol, and costs the
  rest of the batch.
* `DryRunProbe`: the probe is said to exist only until its delete; an FTP server
  that refuses the delete with 550 keeps it and the dry run reports success.

Two more have no run of their own:

* `connect_timeout` is said to bound "the entire connect + authenticate sequence"
  (README.md:153), while the dial and the handshake have it once each;
  `ConnectWithinTwice` is the bound the code keeps.
* `${ENV_VAR}` interpolation is said to work "in any config field" (README.md:44),
  "in any string field" (README.md:159). `protocol` (`config.go:150`) and the three
  durations (`config.go:305`) are strings that are never interpolated, so
  `retry_delay: ${D}` is refused as an invalid duration though `D` is set to `2s`,
  and a protocol given by a variable as an unknown one. `Setup` has files with
  both, and `ErrorsMatchFaults` follows the code: it counts such a value as bad.

## Proofs

Every theorem holds for all constants within the modules' assumptions: any number
of endpoints, files, attempts, signals and arguments, any sizes and timeouts, any
configuration file. The assumptions state types, and what follows, each named
where it is declared:

* a connect timeout and a read of a file are not zero (`StallAssumption`,
  `ThrottleAssumption`);
* the program uploads something somewhere (`CliAssumption`), which
  `EndpointsRunnable` shows of it;
* every argument has a base name, and is of one kind: a word is no flag, and a flag
  the program does not know is none that it has (`ArgumentsAssumption`);
* the built-in policy is one the engine can run with (`DefaultsAssumption`), as
  `defaultPolicy` is;
* the home directory is an absolute path (`HomeAssumption`): with `HOME=~` an
  expanded key path would be one to expand again;
* a run is given arguments, a directory is a list of entries, and a file that parses
  gives fields of their Go types (`InputsAssumption`).

| Theorem | Says |
|---|---|
| `TypeCorrect` | `Spec => []TypeOK` |
| `SessionsAreHygienic` | `Spec => []SessionHygiene` |
| `BreakerIsHeld` | `Spec => []BreakerHolds` |
| `TallyOfDone` | `Spec => []TallyIsExact` |
| `ChannelIsDisciplined` | `Spec => []ChannelDiscipline` |
| `OneLateStart` | `Spec => []AtMostOneLateStart` |
| `PermanentErrorIsFinal` | `Spec => []PermanentErrorEndsBatch` |
| `AttemptsAreReported` | `Spec => []EveryFailedAttemptReported` |
| `BudgetIsKept` | `Spec => []AttemptBudget` |
| `FailuresAreExplained` | `Spec => []FailuresExplained` |
| `SuccessStaysTrue` | `Spec => []SuccessIsStored` |
| `RemoteFilesAreKept` | `Spec => RemoteFilesKept`, an action property |
| `EngineImplementsContract` | `Spec => ImplementsContract`: the engine refines `UploadContract` |
| `CliRunsTheEngine` | `CliSpec => Spec`: the program's behaviours are the engine's |
| `CliTypesHold` | `CliSpec => []CliTypeOK` |
| `ExitCodeIsTruthful` | `CliSpec => []ExitCodeTruthful` |
| `OneSignalStillReports` | `CliSpec => []FirstSignalStillReports` |
| `DryRunTypesHold` | `Spec => []TypeOK` of the dry run |
| `OneVerdictEach` | `Spec => []OneEventEach` |
| `NothingStaysOpen` | `Spec => []NothingLeftOpen` |
| `LeftoverIsReported` | `Spec => []SFTPLeftoverReported` |
| `ExitCodeTellsVerdicts` | `Spec => []ExitTellsVerdicts` |
| `StallTypesHold` | `Spec => []StallTypeOK` |
| `ConnectIsBounded` | `Spec => []ConnectWithinTwice` |
| `TimeoutsAreIdle` | `Spec => []TimeoutMeansIdle` |
| `OneGapOnly` | `Spec => []OneUnguardedRead` |
| `SetupTypesHold` | `Spec => []SetupTypeOK` |
| `LayersDecide` | `Spec => []PolicyIsLayered` |
| `FaultsAreReported` | `Spec => []ErrorsMatchFaults` |
| `UploadCanRun` | `Spec => []EndpointsRunnable` |
| `ArgumentsCount` | `Spec => []ArgumentsAsMeant` |
| `ExitCodeExplains` | `Spec => []ExitCodeSaysWhy` |
| `EntryGoesWithAttempt` | `Spec => []EntryIsOfThisAttempt` |
| `LinesStayApart` | `Spec => []LinesAreApart` |
| `HundredIsTruthful` | `Spec => []HundredMeansWhole` |

### The engine

`TypeOK` is not inductive: a worker that stood on a file outside the batch would
send an event that names no file, so `TypeInv` adds that a worker dealing with a
file is inside the batch. On top of it:

* `ConnInv` adds to the two connection properties that only a worker about to
  disconnect holds a session a call has failed on, and that the breaker can be
  at its limit only right after the failed connect.
* `TallyInv` says of every step what `TallyIsExact` says of the last: the
  counters agree with the successes received or being sent, all of which lie
  behind the worker's position, and they account for every file left behind. The
  cardinality step (one more success is one more file) needs the strict order.
* `EndingInv` follows the Done event from `Report` to the caller.
* `StoppingInv` says that a late start implies the cancellation and a place from
  which no further transfer begins, and that the GivenUp event, sent or
  received, names all the rest.
* `AccountInv` ties the error events of a file, received or being sent, to the
  attempt the worker is at: one fewer than attempts while one is under way, as
  many once it has failed, none for the files ahead. The breaker is the one
  exception to the budget, because `reportGivingUp` adds an error to an attempt
  that has its own.
* `ExplainedInv` says of the files behind a worker what `FailuresExplained` says
  of all of them at the end.
* `StoredInv` says that what was reported, or is about to be, is in full on the
  server, and that only files not yet reached are named as skipped.

`EngineInv` is the conjunction of the first four; `ReportsInv` adds the last
three. Each invariant has one proof step per action. Workers do not read each
other's state, so an invariant is stated of one worker, and a lemma says that a
step of one leaves it true of the others. The settings only a library caller can
make, such as zero attempts or a breaker limit of zero, are in the theorems; no
run has them.

The refinement adds `OrderInv`: the success being sent is of a file after all
those received, which `TallyInv` gives for the file the worker is at. Worker
steps do not touch what the caller holds, so they stutter; a receive of a
success is the contract's `FileUploaded`, of Done its `EndpointDone`, where
`TallyInv` and `EndingInv` give the counts, and `Close` is its `Close`.

### The program

`CliRunsTheEngine` makes every theorem about the engine one about the program.
`CliInv` adds to the types that the loop's flag is the verdict of the Done events
received so far, that no event comes before `Upload` is called, and that the
signals queued or taken by the handler were sent. The exit code then follows
from the engine's own theorems: when the channel is closed every endpoint has
reported (`ChannelIsDisciplined`), its count of failures is exact (`TallyOfDone`), so none
means that every file is a success, and those are stored (`SuccessStaysTrue`).

### The dry run

`DryRunInv` follows one endpoint at a time: the verdict is determined from the
moment the worker turns to the disconnect, and is then either being sent or
received; the local probe and the session exist at the places the deferred
clean-ups come after; a probe on the server has a place or a verdict that accounts
for it. `Verdicts` ties the exit code to the verdicts received.

### The deadlines

`ConnectInv` is the strengthening behind `ConnectWithinTwice`: during the
handshake the age of the dial and the rest of the deadline stay within the bound
together, and a tick, which needs an operation that is pending and not expired,
moves both. It also says what the switch finds: no deadline on the connection
any more, and no pending operation but the SSH reader's. `SessionInv` starts
from there: every later operation is given the whole `StallTimeout`, and its rest
and the time the operation has been blocked add up to it.

### The configuration

`SetupInv` says what a half-read file has led to. `Built`: the endpoints so far
are the first of the file, each one made of its own entry and the top level.
`Checked` and `Said`: the errors name exactly the places looked at, and at each
place exactly what is refused there; the names seen are those of the endpoints
built; with no error so far every endpoint built is `FaultFree`. The strengthening
that matters is the place in an error: the errors of one endpoint can neither
hide nor stand for those of another, so an empty list at the end speaks for every
one of them. `RefusedIsBad` and `AcceptedPolicy` say what `resolvePolicy` does
with one field, over whichever base; used twice, for the top level and for the
endpoint, they give `PolicyIsLayered` and the range part of `ErrorsMatchFaults`,
where a duration refused at the top is one its endpoints inherit as 0, and may
report again. `SplitPointIsFirst` says where the code splits the arguments; it
rests on `MinIsLeast`, a lemma about `Min` proved from the well-founded order of
finite sets.

### The arguments

The properties speak of places in `args`: which of them are flags, values and
paths. The code has used most of them up when the properties are to hold, so
`ArgsInv` says at every moment which places are left and what the others have led
to. `Remaining` and `ParsedTo`: what the loop of `parseInterleaved` has still to
parse are the arguments from some place up to `--`, the first of them is no flag's
value, none before it is wrong, and the flags, the configuration path and the
paths are those of the places before it. So the argument at which parsing fails is
the first wrong one. `ExpandedTo` and `ReadingAt`: the paths left are those behind
some place, and the files so far those of the places up to it, within a directory
up to an entry. A list is tied to its places by `Lists`, a map that keeps the
order; `ListsMore`, `ListsFewer` and `ListsBoth` say what becomes of the places
when a list grows at its end, loses its head, or is joined to another.

That every file comes once is only true of lists the code goes on with: two paths
may stand for the same file, and then two base names collide and the run stops
before it opens the configuration. So `FilesSoFar` promises the files of the
places on the condition that no two collide yet; a list that is the beginning of
one without a collision has none, which is the step of `FilesMore`.

Which argument is the value of a `--config` is a recursive function, `IsValue`.
That it is determined at every place would be an induction, for which the
library's theorems take an operator the installed provers cannot instantiate;
`ValuesExist` has it from the least number of arguments for which there is no such
function (`MinIsLeast`).

### The printer

`ThrottleInv` says of each file that its entry is determined by the lines printed
for the attempt, that the last of them is no higher than what was sent, and that
once all of the first size was sent a line of a hundred percent was printed. The
second is needed because the code asks only if the step of ten percent is another
than the last one printed: as no line is ahead of the transfer, another step is a
higher one. It also gives the other half of `HundredMeansWhole`: what is short of
the first size is short of a hundred percent, and so is every line. A change of
the local file touches nothing of this, so the lengths it may have are any set of
natural numbers.

### Only model-checked

* Liveness, and the refinement under fairness: the prover has no rule for
  `ENABLED`. These are `Terminates`, `ImplementsFairContract`,
  `SecondSignalExits`, `ConnectEnds` and `CallsEnd`.
* The runs that expect a violation, by their nature.

## Not modelled

* Durations, message texts, JSON and layout, and the printer's other lines.
* The FTP, SSH and SFTP protocols, which third-party clients implement; the
  choice of SSH keys, known hosts and TLS settings, which decides whether a
  connect succeeds and is one nondeterministic outcome of it.
* YAML syntax (one outcome of reading the file), the spellings of a flag, several
  references within one string, and the advice about a readable configuration
  file, which only prints.
* Crashes of the program, which keeps nothing.
* Local files that change during a run, in the engine: an upload there may store
  less or fail, but the size it is compared with stays (`ProgressThrottle` lets
  files change, for the printer); two endpoint
  entries that name the same directory, which the configuration allows.
* The test harness, CI and packaging.

## Plan

Every invariant and every action property of the passing runs is a theorem. Worth
doing next, should the code change or the provers allow it: the liveness properties
above, as leads-to chains once `ENABLED` can be reasoned about; a local file that
changes before `verifyBySize` looks at it, as an action of `UploadEngine`; and
endpoint entries that share a directory, as one `remote` for several endpoints.
