----------------------------- MODULE StallGuard -----------------------------
(***************************************************************************)
(* The deadlines of one session (internal/transport: conn.go, and the dial *)
(* functions of ftp.go and sftp.go). Connecting and logging in run under a *)
(* connect deadline on the control connection. Once the session is up that *)
(* deadline is cleared, the stall guard is established, and from then on   *)
(* every Read and Write pushes its own deadline to now + StallTimeout.     *)
(*                                                                         *)
(* A direction of a connection is a stream; an operation on it is pending  *)
(* while it is blocked in the kernel. FTP calls read and write from the    *)
(* caller's goroutine, one operation at a time, and dial a data connection *)
(* for a transfer. The SSH client under SFTP keeps a goroutine reading for *)
(* the whole life of the session: a call writes a request and waits until  *)
(* that reader has received the reply.                                     *)
(*                                                                         *)
(* Time is counted in ticks, a deadline as the ticks left. Timers fire at  *)
(* once when they are due, and the program's own computing takes no time.  *)
(***************************************************************************)
EXTENDS Naturals

CONSTANTS
  ConnectTimeouts,   \* values of ConnectTimeout to consider
  StallTimeouts,     \* values of StallTimeout; 0 disables the guard
  MaxOps             \* bound on the operations of one handshake or call

\* LoadConfig accepts only a positive connect_timeout (config.go).
ASSUME StallAssumption ==
  /\ ConnectTimeouts \subseteq Nat \ {0}
  /\ StallTimeouts \subseteq Nat
  /\ MaxOps \in Nat \ {0}

VARIABLES
  opts,          \* the options the session was dialed with
  phase,         \* where the caller is
  established,   \* stallGuard.established
  dataOpen,      \* the call has a data connection
  pending,       \* streams with a blocked operation
  armed, left,   \* streams with a deadline, and the ticks left to it
  wait,          \* ticks the pending operation has been blocked, else 0
  age,           \* ticks since the dial began
  ops,           \* operations of this handshake or call
  owed,          \* SSH: the server has a request to answer
  heard          \* SSH: an answer has arrived since the guard was established

vars == <<opts, phase, established, dataOpen, pending, armed, left, wait, age,
          ops, owed, heard>>

DialOptions == [protocol : {"ftp", "sftp"},
                connectTimeout : ConnectTimeouts, stallTimeout : StallTimeouts]

CtrlRead == <<"ctrl", "read">>
CtrlWrite == <<"ctrl", "write">>
Control == {CtrlRead, CtrlWrite}
Data == {<<"data", "read">>, <<"data", "write">>}
Streams == Control \cup Data

SFTP == opts.protocol = "sftp"
Connecting == {"dial", "handshake", "clear", "mark"}
InCall == {"call", "dialData"}
Over == {"refused", "broken", "closed"}

\* The variables keep their types; a session is handed out only once its guard
\* is established, and a data connection does not outlive its call.
StallTypeOK ==
  /\ opts \in DialOptions
  /\ phase \in Connecting \cup InCall \cup Over \cup {"ready"}
  /\ established \in BOOLEAN /\ dataOpen \in BOOLEAN
  /\ pending \subseteq Streams /\ armed \subseteq Streams
  /\ left \in [Streams -> Nat] /\ wait \in [Streams -> Nat]
  /\ age \in Nat /\ ops \in 0..MaxOps
  /\ owed \in BOOLEAN /\ heard \in BOOLEAN
  /\ phase \in Connecting => ~established
  /\ phase \in InCall \cup {"ready"} => established
  /\ dataOpen => phase \in InCall \cup {"broken"}

Init ==
  /\ opts \in DialOptions
  /\ phase = "dial"
  /\ established = FALSE /\ dataOpen = FALSE
  /\ pending = {} /\ armed = {}
  /\ left = [s \in Streams |-> 0] /\ wait = [s \in Streams |-> 0]
  /\ age = 0 /\ ops = 0
  /\ owed = FALSE /\ heard = FALSE

-----------------------------------------------------------------------------
(***************************************************************************)
(* Deadlines and guarded operations. A definition no action uses is a      *)
(* seeded fault, a mistaken form of the one below it.                      *)
(***************************************************************************)

SetDeadline(streams, ticks) ==
  /\ armed' = armed \cup streams
  /\ left' = [s \in Streams |-> IF s \in streams THEN ticks ELSE left[s]]

ArmNoConnectDeadline == UNCHANGED <<armed, left>>
ArmConnectDeadline == SetDeadline(Control, opts.connectTimeout)

ClearNoDeadline == UNCHANGED <<armed, left>>
ClearConnectDeadline == armed' = armed \ Control /\ UNCHANGED left

\* guardedConn.arm: passive until established, and with a stall timeout of 0.
ArmAlways(s) ==
  IF opts.stallTimeout > 0
    THEN SetDeadline({s}, opts.stallTimeout) ELSE UNCHANGED <<armed, left>>
ArmReadsOnly(s) ==
  IF established /\ opts.stallTimeout > 0 /\ s[2] = "read"
    THEN SetDeadline({s}, opts.stallTimeout) ELSE UNCHANGED <<armed, left>>
Arm(s) ==
  IF established /\ opts.stallTimeout > 0
    THEN SetDeadline({s}, opts.stallTimeout) ELSE UNCHANGED <<armed, left>>

\* guardedConn.Read and Write. Arming and blocking are one step: what may come
\* between them only clears the deadline, as it may right after.
StartIO(s) ==
  /\ s \notin pending
  /\ pending' = pending \cup {s}
  /\ Arm(s)
  /\ UNCHANGED wait

\* A closed connection ends every operation on it.
Abandon(p) ==
  /\ phase' = p
  /\ pending' = {}
  /\ UNCHANGED <<opts, established, dataOpen, armed, left, wait, age, ops,
                 owed, heard>>

Goto(p) ==
  /\ phase' = p
  /\ UNCHANGED <<opts, pending, wait, owed, heard>>

\* The caller is not blocked, and no request of its own is unanswered.
CallerRuns == IF SFTP THEN CtrlWrite \notin pending /\ ~owed ELSE pending = {}

-----------------------------------------------------------------------------
(***************************************************************************)
(* The dial: TCP, then the handshake and login under the connect deadline. *)
(***************************************************************************)

\* net.Dialer gives up after ConnectTimeout (Tick does not pass it).
DialFails ==
  /\ phase = "dial"
  /\ Abandon("refused")

DialReturns ==
  /\ phase = "dial"
  /\ ArmConnectDeadline
  /\ Goto("handshake")
  /\ UNCHANGED <<established, dataOpen, age, ops>>

\* The login is refused, or the server speaks another protocol.
HandshakeFails ==
  /\ phase = "handshake"
  /\ CallerRuns
  /\ Abandon("refused")

HandshakeDone ==
  /\ phase = "handshake"
  /\ CallerRuns
  /\ ops > 0
  /\ Goto("clear")
  /\ ops' = 0
  /\ UNCHANGED <<established, dataOpen, armed, left, age>>

ClearDeadline ==
  /\ phase = "clear"
  /\ ClearConnectDeadline
  /\ Goto("mark")
  /\ UNCHANGED <<established, dataOpen, age, ops>>

MarkNothing == UNCHANGED established
MarkEstablished == established' = TRUE

Return ==
  /\ phase = "mark"
  /\ MarkEstablished
  /\ Goto("ready")
  /\ age' = 0
  /\ UNCHANGED <<dataOpen, armed, left, ops>>

-----------------------------------------------------------------------------
(***************************************************************************)
(* The session: calls, the reader of the SSH client, and the end.          *)
(***************************************************************************)

BeginCall ==
  /\ phase = "ready"
  /\ Goto("call")
  /\ UNCHANGED <<established, dataOpen, armed, left, age, ops>>

\* The caller's own operations: FTP's on the control connection and, in a
\* transfer, the data connection; over SSH it only writes.
CallerStreams ==
  IF SFTP THEN {CtrlWrite} ELSE Control \cup (IF dataOpen THEN Data ELSE {})

CallerIO ==
  /\ phase \in {"handshake", "call"}
  /\ CallerRuns
  /\ ops < MaxOps
  /\ ops' = ops + 1
  /\ \E s \in CallerStreams : StartIO(s)
  /\ UNCHANGED <<opts, phase, established, dataOpen, age, owed, heard>>

\* The reader goroutine lives from the handshake to the end of the session.
ReaderIO ==
  /\ SFTP
  /\ phase \notin Over \cup {"dial"}
  /\ StartIO(CtrlRead)
  /\ UNCHANGED <<opts, phase, established, dataOpen, age, ops, owed, heard>>

\* The data dial of ftpDialer has a timeout of its own and no deadline.
DialData ==
  /\ phase = "call" /\ ~SFTP /\ ~dataOpen
  /\ CallerRuns
  /\ Goto("dialData")
  /\ UNCHANGED <<established, dataOpen, armed, left, age, ops>>

DataDialed ==
  /\ phase = "dialData"
  /\ Goto("call")
  /\ dataOpen' = TRUE
  /\ age' = 0
  /\ UNCHANGED <<established, armed, left, ops>>

\* The call returns, with a result or with the server's error.
CallReturns ==
  /\ phase = "call"
  /\ CallerRuns
  /\ ops > 0
  /\ Goto("ready")
  /\ dataOpen' = FALSE /\ ops' = 0
  /\ armed' = armed \ Data
  /\ UNCHANGED <<established, left, age>>

\* A data dial that fails makes the call fail, and the worker hang up.
DataDialFails ==
  /\ phase = "dialData"
  /\ Abandon("broken")

\* FTP's QUIT and the end of SFTP's channel are calls before it.
Close ==
  /\ phase = "ready"
  /\ Abandon("closed")

-----------------------------------------------------------------------------
(***************************************************************************)
(* The kernel and the server. Nothing makes a server answer.               *)
(***************************************************************************)

\* Bytes have arrived, or gone out. Over SSH the server only speaks when it
\* has a request to answer.
IODone(s) ==
  /\ s \in pending
  /\ SFTP /\ s = CtrlRead => owed
  /\ pending' = pending \ {s}
  /\ wait' = [wait EXCEPT ![s] = 0]
  /\ owed' = (SFTP /\ s = CtrlWrite)
  /\ heard' = (heard \/ (SFTP /\ s = CtrlRead /\ established))
  /\ UNCHANGED <<opts, phase, established, dataOpen, armed, left, age, ops>>

Expired(s) == s \in pending \cap armed /\ left[s] = 0

IOTimesOut(s) ==
  /\ Expired(s)
  /\ Abandon(IF phase = "handshake" THEN "refused" ELSE "broken")

\* The clock stands still where the caller has something to do at once.
\* wait and age stop counting where it can no longer matter.
MostTicks == 2 * opts.connectTimeout + opts.stallTimeout + 1
Advance(n) == IF n < MostTicks THEN n + 1 ELSE n

Tick ==
  /\ \/ phase \in {"dial", "dialData"} /\ age < opts.connectTimeout
     \/ phase = "ready"
     \/ phase \in {"handshake", "call"} /\ pending # {}
  /\ \A s \in Streams : ~Expired(s)
  /\ left' = [s \in Streams |->
                IF s \in armed /\ left[s] > 0 THEN left[s] - 1 ELSE left[s]]
  /\ wait' = [s \in Streams |->
                IF s \in pending THEN Advance(wait[s]) ELSE wait[s]]
  /\ age' = IF phase \in {"dial", "handshake", "dialData"} THEN Advance(age) ELSE age
  /\ UNCHANGED <<opts, phase, established, dataOpen, pending, armed, ops, owed,
                 heard>>

Ended == phase \in Over /\ UNCHANGED vars

CallerStep ==
  \/ DialFails \/ DialReturns \/ HandshakeFails \/ HandshakeDone
  \/ ClearDeadline \/ Return \/ CallerIO
  \/ DialData \/ DataDialed \/ DataDialFails \/ CallReturns

Next ==
  \/ CallerStep \/ BeginCall \/ Close
  \/ ReaderIO
  \/ \E s \in Streams : IODone(s) \/ IOTimesOut(s)
  \/ Tick
  \/ Ended

Spec == Init /\ [][Next]_vars

\* Goroutines run, timers fire and time passes; that a server answers, or that
\* another call is made, is not assumed.
FairSpec ==
  /\ Spec
  /\ WF_vars(CallerStep) /\ WF_vars(ReaderIO) /\ WF_vars(Tick)
  /\ \A s \in Streams : WF_vars(IOTimesOut(s))

-----------------------------------------------------------------------------
\* A connect ends, one way or the other, within twice ConnectTimeout: once for
\* the TCP dial and once for the deadline armed after it, however slowly the
\* server answers in between (armConnectDeadline and the passive guard).
ConnectWithinTwice ==
  phase \in Connecting => age <= 2 * opts.connectTimeout

\* An operation on an established session never runs out of time while bytes
\* move: its deadline is StallTimeout after it blocked, no remainder of the
\* connect deadline, and there is none if StallTimeout is 0 (clearDeadline, arm).
TimeoutMeansIdle ==
  established => \A s \in pending \cap armed :
    opts.stallTimeout > 0 /\ left[s] + wait[s] = opts.stallTimeout

\* With a stall timeout every operation on an established session has a
\* deadline, but for one: the SSH reader's, as long as it has not received
\* anything since the guard was established.
OneUnguardedRead ==
  established /\ opts.stallTimeout > 0 =>
    pending \subseteq armed \cup (IF SFTP /\ ~heard THEN {CtrlRead} ELSE {})

\* Every connect ends, whatever the server does.
ConnectEnds == <>(phase \notin Connecting)

\* With a stall timeout a call on a session ends whatever the server does, over
\* SSH once one answer has arrived: what UploadEngine's fairness takes from here.
GuardedCall ==
  phase \in InCall /\ opts.stallTimeout > 0 /\ (SFTP => heard)

CallsEnd == GuardedCall ~> phase \notin InCall

-----------------------------------------------------------------------------
(***************************************************************************)
(* What comments say of the stall timeout, and the code does not do.       *)
(***************************************************************************)

\* conn.go, guardedConn: every Read/Write pushes the deadline "so a stalled
\* transfer fails instead of blocking forever". DialSFTP clears the deadline
\* under a read of the SSH client that is already pending.
StalledCallFails ==
  phase \in InCall /\ opts.stallTimeout > 0 ~> phase \notin InCall
=============================================================================
