-------------------------- MODULE StallGuardProofs --------------------------
(***************************************************************************)
(* Theorems about StallGuard: what bounds the waits of a session, for      *)
(* every connect timeout, every stall timeout and calls of any length.     *)
(***************************************************************************)
EXTENDS StallGuard, TLAPS

\* The four streams, free of the tuples that name them.
LEMMA StreamFacts ==
  /\ Control = {CtrlRead, CtrlWrite} /\ CtrlRead # CtrlWrite
  /\ Streams = Control \cup Data
  /\ CtrlRead \notin Data /\ CtrlWrite \notin Data
BY DEF Control, CtrlRead, CtrlWrite, Streams, Data

\* The timeouts are numbers.
LEMMA OptionTypes ==
  ASSUME opts \in DialOptions
  PROVE  /\ opts.connectTimeout \in Nat /\ opts.stallTimeout \in Nat
         /\ opts.connectTimeout > 0
<1>1. opts.connectTimeout \in ConnectTimeouts /\ opts.stallTimeout \in StallTimeouts
  BY DEF DialOptions
<1>2. opts.connectTimeout \in Nat \ {0} /\ opts.stallTimeout \in Nat
  BY <1>1, StallAssumption DEF StallAssumption
<1>. QED  BY <1>2

\* One tick more, or as many.
LEMMA AdvanceTypes ==
  ASSUME opts \in DialOptions, NEW n \in Nat
  PROVE  /\ Advance(n) \in Nat /\ Advance(n) <= n + 1
         /\ n < 2 * opts.connectTimeout + opts.stallTimeout + 1 => Advance(n) = n + 1
BY OptionTypes DEF Advance, MostTicks

-----------------------------------------------------------------------------
(***************************************************************************)
(* Types.                                                                  *)
(***************************************************************************)

\* Setting a deadline keeps the deadlines well typed.
LEMMA ArmTypes ==
  ASSUME StallTypeOK, NEW s \in Streams, Arm(s)
  PROVE  armed' \subseteq Streams /\ left' \in [Streams -> Nat]
BY OptionTypes DEF StallTypeOK, Arm, SetDeadline

\* Every step keeps the types.
LEMMA TypesNext == StallTypeOK /\ [Next]_vars => StallTypeOK'
<1>. SUFFICES ASSUME StallTypeOK, [Next]_vars PROVE StallTypeOK'
  OBVIOUS
<1>. USE StallAssumption
     DEF StallTypeOK, Connecting, InCall, Over, Goto, Abandon, StallAssumption
<1>1. CASE DialFails \/ HandshakeFails \/ DataDialFails \/ Close
  BY <1>1 DEF DialFails, HandshakeFails, DataDialFails, Close
<1>2. CASE DialReturns
  BY <1>2, OptionTypes, StreamFacts
  DEF DialReturns, ArmConnectDeadline, SetDeadline
<1>3. CASE HandshakeDone
  BY <1>3 DEF HandshakeDone
<1>4. CASE ClearDeadline
  BY <1>4 DEF ClearDeadline, ClearConnectDeadline
<1>5. CASE Return
  BY <1>5 DEF Return, MarkEstablished
<1>6. CASE BeginCall \/ DialData
  BY <1>6 DEF BeginCall, DialData
<1>13. CASE DataDialed
  BY <1>13 DEF DataDialed
<1>14. CASE CallReturns
  <2>1. /\ phase = "call" /\ phase' = "ready" /\ dataOpen' = FALSE /\ ops' = 0
        /\ armed' \subseteq Streams
        /\ UNCHANGED <<opts, established, pending, left, wait, age, owed, heard>>
    BY <1>14 DEF CallReturns
  <2>2. established /\ 0 \in 0..MaxOps
    BY <2>1
  <2>. QED  BY <2>1, <2>2
<1>7. CASE CallerIO
  <2>1. PICK s \in CallerStreams : StartIO(s)
    BY <1>7 DEF CallerIO
  <2>2. s \in Streams
    BY <2>1, StreamFacts DEF CallerStreams
  <2>3. armed' \subseteq Streams /\ left' \in [Streams -> Nat]
    BY <2>1, <2>2, ArmTypes DEF StartIO
  <2>. QED  BY <1>7, <2>1, <2>2, <2>3 DEF CallerIO, StartIO
<1>8. CASE ReaderIO
  <2>1. CtrlRead \in Streams
    BY StreamFacts
  <2>2. armed' \subseteq Streams /\ left' \in [Streams -> Nat]
    BY <1>8, <2>1, ArmTypes DEF ReaderIO, StartIO
  <2>. QED  BY <1>8, <2>1, <2>2 DEF ReaderIO, StartIO
<1>9. ASSUME NEW s \in Streams, IODone(s) PROVE StallTypeOK'
  BY <1>9 DEF IODone
<1>10. ASSUME NEW s \in Streams, IOTimesOut(s) PROVE StallTypeOK'
  BY <1>10 DEF IOTimesOut
<1>11. CASE Tick
  <2>1. left' \in [Streams -> Nat]
    BY <1>11 DEF Tick
  <2>2. wait' \in [Streams -> Nat] /\ age' \in Nat
    BY <1>11, AdvanceTypes DEF Tick
  <2>. QED  BY <1>11, <2>1, <2>2 DEF Tick
<1>12. CASE Ended \/ UNCHANGED vars
  BY <1>12 DEF Ended, vars
<1>. QED
  BY <1>1, <1>2, <1>3, <1>4, <1>5, <1>6, <1>7, <1>8, <1>9, <1>10, <1>11, <1>12,
     <1>13, <1>14
  DEF Next, CallerStep

\* A session starts well typed.
LEMMA TypesInit == Init => StallTypeOK
<1>. SUFFICES ASSUME Init PROVE StallTypeOK
  OBVIOUS
<1>1. 0 \in 0..MaxOps
  BY StallAssumption DEF StallAssumption
<1>2. /\ left \in [Streams -> Nat] /\ wait \in [Streams -> Nat]
      /\ pending \subseteq Streams /\ armed \subseteq Streams
  BY DEF Init
<1>. QED
  BY <1>1, <1>2 DEF Init, StallTypeOK, Connecting, InCall, Over

\* The variables keep their types, and a session is handed out only once its
\* guard is established.
THEOREM StallTypesHold == Spec => []StallTypeOK
BY TypesInit, TypesNext, PTL DEF Spec

-----------------------------------------------------------------------------
(***************************************************************************)
(* Connecting. While the handshake runs, the age of the dial and what is   *)
(* left of the deadline armed after it stay within the bound together; one *)
(* tick moves both, as an operation is pending and none has expired.       *)
(***************************************************************************)
Limit == 2 * opts.connectTimeout

ConnectInv ==
  /\ phase = "dial" =>
       age <= opts.connectTimeout /\ pending = {} /\ armed = {}
  /\ phase = "handshake" =>
       /\ pending \subseteq Control /\ armed = Control
       /\ left[CtrlRead] = left[CtrlWrite]
       /\ age + left[CtrlRead] <= Limit
  /\ phase \in {"clear", "mark"} =>
       age <= Limit /\ pending \subseteq (IF SFTP THEN {CtrlRead} ELSE {})
  /\ phase = "clear" => armed = Control
  /\ phase = "mark" => armed = {}
  /\ phase \in Connecting => ~heard

\* Before the guard is established an operation does not touch a deadline.
LEMMA PassiveArm ==
  ASSUME ~established, NEW s \in Streams, StartIO(s)
  PROVE  /\ UNCHANGED <<armed, left, wait>>
         /\ pending' = pending \cup {s}
BY DEF StartIO, Arm

\* A tick of the handshake takes one from what is left of the deadline.
LEMMA HandshakeTick ==
  ASSUME StallTypeOK, ConnectInv, phase = "handshake", Tick
  PROVE  /\ left'[CtrlRead] = left'[CtrlWrite]
         /\ age' + left'[CtrlRead] <= Limit
<1>1. PICK s \in Control : s \in pending
  BY DEF Tick, ConnectInv
<1>2. left[s] > 0
  BY <1>1, StreamFacts DEF Tick, Expired, ConnectInv, StallTypeOK
<1>3. left[CtrlRead] = left[CtrlWrite] /\ left[CtrlRead] > 0
  BY <1>1, <1>2, StreamFacts DEF ConnectInv
<1>4. /\ left'[CtrlRead] = left[CtrlRead] - 1
      /\ left'[CtrlWrite] = left[CtrlWrite] - 1
  BY <1>3, StreamFacts DEF Tick, ConnectInv
<1>5. age' <= age + 1 /\ age' \in Nat /\ age \in Nat
  BY AdvanceTypes DEF Tick, StallTypeOK
<1>6. left[CtrlRead] \in Nat /\ Limit \in Nat
  BY StreamFacts, OptionTypes DEF StallTypeOK, Limit
<1>7. age + left[CtrlRead] <= Limit
  BY DEF ConnectInv
<1>. QED  BY <1>3, <1>4, <1>5, <1>6, <1>7

\* Every step keeps the bound.
LEMMA ConnectInvNext == StallTypeOK /\ ConnectInv /\ [Next]_vars => ConnectInv'
<1>. SUFFICES ASSUME StallTypeOK, ConnectInv, [Next]_vars PROVE ConnectInv'
  OBVIOUS
<1>1. ASSUME phase' \in Over \cup InCall \cup {"ready"} PROVE ConnectInv'
  BY <1>1 DEF ConnectInv, Over, InCall, Connecting
<1>2. CASE DialFails \/ HandshakeFails \/ DataDialFails \/ Close \/ Return
           \/ BeginCall \/ DialData \/ DataDialed \/ CallReturns
  BY <1>1, <1>2
  DEF DialFails, HandshakeFails, DataDialFails, Close, Return, BeginCall, DialData,
      DataDialed, CallReturns, Abandon, Goto, Over, InCall
<1>3. CASE DialReturns
  <2>1. /\ phase = "dial" /\ phase' = "handshake"
        /\ armed' = armed \cup Control /\ pending' = pending
        /\ left'[CtrlRead] = opts.connectTimeout
        /\ left'[CtrlWrite] = opts.connectTimeout
        /\ UNCHANGED <<opts, age, heard>>
    BY <1>3, StreamFacts DEF DialReturns, ArmConnectDeadline, SetDeadline, Goto
  <2>2. age \in Nat /\ opts.connectTimeout \in Nat
    BY OptionTypes DEF StallTypeOK
  <2>3. age <= opts.connectTimeout
    BY <2>1 DEF ConnectInv
  <2>4. age + opts.connectTimeout <= Limit
    BY <2>2, <2>3 DEF Limit
  <2>. QED  BY <2>1, <2>4 DEF ConnectInv, Limit, Connecting
<1>4. CASE HandshakeDone
  <2>1. /\ phase = "handshake" /\ phase' = "clear" /\ CallerRuns
        /\ UNCHANGED <<opts, pending, armed, age, heard>>
    BY <1>4 DEF HandshakeDone, Goto
  <2>2. pending \subseteq (IF SFTP THEN {CtrlRead} ELSE {})
    BY <2>1, StreamFacts DEF CallerRuns, ConnectInv
  <2>3. age <= Limit
    BY <2>1, StreamFacts, OptionTypes DEF ConnectInv, StallTypeOK, Limit
  <2>. QED  BY <2>1, <2>2, <2>3 DEF ConnectInv, Limit, Connecting, SFTP
<1>5. CASE ClearDeadline
  <2>1. /\ phase = "clear" /\ phase' = "mark" /\ armed' = armed \ Control
        /\ UNCHANGED <<opts, pending, age, heard>>
    BY <1>5 DEF ClearDeadline, ClearConnectDeadline, Goto
  <2>2. armed' = {}
    BY <2>1 DEF ConnectInv
  <2>. QED  BY <2>1, <2>2 DEF ConnectInv, Limit, Connecting, SFTP
<1>6. CASE CallerIO
  <2>1. phase \in {"handshake", "call"} /\ UNCHANGED <<opts, phase, age, heard>>
    BY <1>6 DEF CallerIO
  <2>2. CASE phase = "call"
    BY <1>1, <2>1, <2>2 DEF InCall
  <2>3. CASE phase = "handshake"
    <3>1. ~established /\ ~dataOpen
      BY <2>3 DEF StallTypeOK, Connecting, InCall
    <3>2. PICK s \in Control : StartIO(s)
      BY <1>6, <3>1, StreamFacts DEF CallerIO, CallerStreams
    <3>3. UNCHANGED <<armed, left>> /\ pending' = pending \cup {s}
      BY <3>1, <3>2, StreamFacts, PassiveArm
    <3>. QED  BY <2>1, <2>3, <3>2, <3>3 DEF ConnectInv, Limit, Connecting, SFTP
  <2>. QED  BY <2>1, <2>2, <2>3
<1>7. CASE ReaderIO
  <2>1. /\ SFTP /\ phase # "dial" /\ StartIO(CtrlRead)
        /\ UNCHANGED <<opts, phase, established, age, heard>>
    BY <1>7 DEF ReaderIO
  <2>2. CASE phase \notin Connecting
    BY <2>1, <2>2 DEF ConnectInv, Connecting
  <2>3. CASE phase \in Connecting
    <3>1. ~established
      BY <2>3 DEF StallTypeOK
    <3>2. UNCHANGED <<armed, left>> /\ pending' = pending \cup {CtrlRead}
      BY <2>1, <3>1, StreamFacts, PassiveArm
    <3>. QED  BY <2>1, <3>2, StreamFacts DEF ConnectInv, Limit, Connecting, SFTP
  <2>. QED  BY <2>2, <2>3
<1>8. ASSUME NEW s \in Streams, IODone(s) PROVE ConnectInv'
  <2>1. /\ s \in pending /\ pending' = pending \ {s}
        /\ heard' = (heard \/ (SFTP /\ s = CtrlRead /\ established))
        /\ UNCHANGED <<opts, phase, armed, left, age>>
    BY <1>8 DEF IODone
  <2>2. phase \in Connecting => ~heard'
    BY <2>1 DEF StallTypeOK, ConnectInv
  <2>. QED  BY <2>1, <2>2 DEF ConnectInv, Limit, Connecting, SFTP
<1>9. ASSUME NEW s \in Streams, IOTimesOut(s) PROVE ConnectInv'
  BY <1>1, <1>9 DEF IOTimesOut, Abandon, Over
<1>10. CASE Tick
  <2>1. /\ phase \notin {"clear", "mark"}
        /\ UNCHANGED <<opts, phase, pending, armed, heard>>
    BY <1>10 DEF Tick
  <2>2. CASE phase = "dial"
    <3>1. age < opts.connectTimeout /\ age' = Advance(age)
      BY <1>10, <2>2 DEF Tick
    <3>2. age' <= age + 1 /\ age' \in Nat /\ age \in Nat /\ opts.connectTimeout \in Nat
      BY <3>1, AdvanceTypes, OptionTypes DEF StallTypeOK
    <3>3. age' <= opts.connectTimeout
      BY <3>1, <3>2
    <3>. QED  BY <2>1, <2>2, <3>3 DEF ConnectInv
  <2>3. CASE phase = "handshake"
    <3>1. left'[CtrlRead] = left'[CtrlWrite] /\ age' + left'[CtrlRead] <= Limit
      BY <1>10, <2>3, HandshakeTick
    <3>. QED  BY <2>1, <2>3, <3>1 DEF ConnectInv, Limit
  <2>4. CASE phase \notin Connecting
    BY <2>1, <2>4 DEF ConnectInv, Connecting
  <2>. QED  BY <2>1, <2>2, <2>3, <2>4 DEF Connecting
<1>11. CASE Ended \/ UNCHANGED vars
  BY <1>11 DEF Ended, vars, ConnectInv, Limit, SFTP
<1>. QED
  BY <1>2, <1>3, <1>4, <1>5, <1>6, <1>7, <1>8, <1>9, <1>10, <1>11
  DEF Next, CallerStep

\* A dial starts within the bound.
LEMMA ConnectInvInit == Init => ConnectInv
<1>. SUFFICES ASSUME Init PROVE ConnectInv
  OBVIOUS
<1>1. 0 <= opts.connectTimeout
  BY OptionTypes DEF Init
<1>. QED  BY <1>1 DEF Init, ConnectInv

\* A connect takes at most twice ConnectTimeout, however slowly the server
\* answers: the dialer's timeout bounds the TCP dial, and the deadline armed after it is
\* not pushed by the bytes of the handshake.
THEOREM ConnectIsBounded == Spec => []ConnectWithinTwice
<1>1. StallTypeOK /\ ConnectInv => ConnectWithinTwice
  <2>. SUFFICES ASSUME StallTypeOK, ConnectInv, phase \in Connecting
                PROVE  age <= 2 * opts.connectTimeout
    BY DEF ConnectWithinTwice
  <2>1. /\ opts.connectTimeout \in Nat /\ age \in Nat
        /\ left[CtrlRead] \in Nat
    BY OptionTypes, StreamFacts DEF StallTypeOK
  <2>2. CASE phase = "dial"
    BY <2>1, <2>2 DEF ConnectInv
  <2>3. CASE phase = "handshake"
    BY <2>1, <2>3 DEF ConnectInv, Limit
  <2>4. CASE phase \in {"clear", "mark"}
    BY <2>4 DEF ConnectInv, Limit
  <2>. QED  BY <2>2, <2>3, <2>4 DEF Connecting
<1>. QED
  BY <1>1, TypesInit, TypesNext, ConnectInvInit, ConnectInvNext, PTL DEF Spec

-----------------------------------------------------------------------------
(***************************************************************************)
(* The session. From the moment the guard is established every operation   *)
(* that begins is given the whole StallTimeout; the read that was pending  *)
(* by then has no deadline, as there is none left when the guard takes     *)
(* over (ConnectInv).                                                      *)
(***************************************************************************)
SessionInv ==
  /\ phase \notin Over => \A s \in Streams \ pending : wait[s] = 0
  /\ SFTP => pending \subseteq Control
  /\ established /\ opts.stallTimeout = 0 => armed = {}
  /\ TimeoutMeansIdle
  /\ OneUnguardedRead

\* An operation on an established session gets the whole StallTimeout.
LEMMA ActiveArm ==
  ASSUME StallTypeOK, SessionInv, established, phase \notin Over,
         NEW s \in Streams, SFTP => s \in Control, StartIO(s),
         UNCHANGED <<opts, phase, established, heard>>
  PROVE  SessionInv'
<1>1. /\ s \notin pending /\ pending' = pending \cup {s}
      /\ UNCHANGED wait /\ wait[s] = 0
  BY DEF StartIO, SessionInv
<1>2. opts.stallTimeout \in Nat
  BY OptionTypes DEF StallTypeOK
<1>3. CASE opts.stallTimeout = 0
  <2>1. armed' = {} /\ opts'.stallTimeout = 0
    BY <1>2, <1>3 DEF StartIO, Arm, SessionInv
  <2>2. SFTP' => pending' \subseteq Control
    BY <1>1 DEF SessionInv, SFTP
  <2>3. phase' \notin Over => \A t \in Streams \ pending' : wait'[t] = 0
    BY <1>1 DEF SessionInv
  <2>. QED  BY <2>1, <2>2, <2>3 DEF SessionInv, TimeoutMeansIdle, OneUnguardedRead
<1>4. CASE opts.stallTimeout > 0
  <2>1. /\ armed' = armed \cup {s}
        /\ \A t \in Streams : left'[t] = IF t = s THEN opts.stallTimeout ELSE left[t]
    BY <1>4 DEF StartIO, Arm, SetDeadline
  <2>2. \A t \in pending' \cap armed' : left'[t] + wait'[t] = opts.stallTimeout
    <3>. SUFFICES ASSUME NEW t \in pending' \cap armed'
                  PROVE  left'[t] + wait'[t] = opts.stallTimeout
      OBVIOUS
    <3>1. CASE t = s
      BY <1>1, <1>2, <2>1, <3>1
    <3>2. CASE t # s
      <4>1. t \in pending \cap armed /\ t \in Streams
        BY <1>1, <2>1, <3>2 DEF StallTypeOK
      <4>. QED  BY <1>1, <2>1, <3>2, <4>1 DEF SessionInv, TimeoutMeansIdle
    <3>. QED  BY <3>1, <3>2
  <2>3. pending' \subseteq armed' \cup (IF SFTP /\ ~heard THEN {CtrlRead} ELSE {})
    BY <1>1, <1>4, <2>1 DEF SessionInv, OneUnguardedRead
  <2>4. SFTP' => pending' \subseteq Control
    BY <1>1 DEF SessionInv, SFTP
  <2>5. phase' \notin Over => \A t \in Streams \ pending' : wait'[t] = 0
    BY <1>1 DEF SessionInv
  <2>. QED
    BY <1>2, <1>4, <2>2, <2>3, <2>4, <2>5
    DEF SessionInv, TimeoutMeansIdle, OneUnguardedRead, SFTP
<1>. QED  BY <1>2, <1>3, <1>4

\* While connecting only the first two parts say anything.
LEMMA NotYetEstablished ==
  ASSUME ~established', (SFTP => pending \subseteq Control)',
         (phase \notin Over => \A s \in Streams \ pending : wait[s] = 0)'
  PROVE  SessionInv'
BY DEF SessionInv, TimeoutMeansIdle, OneUnguardedRead

\* A tick moves a deadline and the time its operation has been blocked alike.
LEMMA SessionTick ==
  ASSUME StallTypeOK, SessionInv, established, Tick
  PROVE  TimeoutMeansIdle'
<1>1. opts.stallTimeout \in Nat /\ opts.connectTimeout \in Nat
  BY OptionTypes DEF StallTypeOK
<1>2. UNCHANGED <<opts, pending, armed, established>>
  BY DEF Tick
<1>. SUFFICES ASSUME NEW s \in pending \cap armed
              PROVE  /\ opts.stallTimeout > 0
                     /\ left'[s] + wait'[s] = opts.stallTimeout
  BY <1>2 DEF TimeoutMeansIdle
<1>3. /\ opts.stallTimeout > 0 /\ left[s] + wait[s] = opts.stallTimeout
      /\ s \in Streams /\ left[s] \in Nat /\ wait[s] \in Nat
  BY DEF SessionInv, TimeoutMeansIdle, StallTypeOK
<1>4. left[s] > 0
  BY <1>3 DEF Tick, Expired
<1>5. left'[s] = left[s] - 1 /\ wait'[s] = Advance(wait[s])
  BY <1>3, <1>4 DEF Tick
<1>6. wait[s] < 2 * opts.connectTimeout + opts.stallTimeout + 1
  BY <1>1, <1>3
<1>7. wait'[s] = wait[s] + 1
  BY <1>3, <1>5, <1>6, AdvanceTypes DEF StallTypeOK
<1>. QED  BY <1>3, <1>5, <1>7

\* Every step keeps what is said of the session.
LEMMA SessionInvNext ==
  StallTypeOK /\ ConnectInv /\ SessionInv /\ [Next]_vars => SessionInv'
<1>. SUFFICES ASSUME StallTypeOK, ConnectInv, SessionInv, [Next]_vars
              PROVE  SessionInv'
  OBVIOUS
<1>1. ASSUME NEW p \in Over, Abandon(p) PROVE SessionInv'
  BY <1>1 DEF Abandon, SessionInv, TimeoutMeansIdle, OneUnguardedRead, SFTP
<1>2. CASE DialFails \/ HandshakeFails \/ DataDialFails \/ Close
  BY <1>1, <1>2 DEF DialFails, HandshakeFails, DataDialFails, Close, Over
<1>3. CASE DialReturns \/ HandshakeDone \/ ClearDeadline
  <2>1. /\ phase \in Connecting /\ phase' \in Connecting
        /\ UNCHANGED <<opts, pending, wait, established>>
    BY <1>3 DEF DialReturns, HandshakeDone, ClearDeadline, Goto, Connecting
  <2>2. ~established'
    BY <2>1 DEF StallTypeOK
  <2>3. phase \notin Over
    BY <2>1 DEF Connecting, Over
  <2>. QED  BY <2>1, <2>2, <2>3, NotYetEstablished DEF SessionInv, SFTP
<1>4. CASE Return
  <2>1. /\ phase = "mark" /\ phase' = "ready"
        /\ UNCHANGED <<opts, pending, wait, armed, heard>>
    BY <1>4 DEF Return, Goto
  <2>2. /\ armed = {} /\ ~heard
        /\ pending \subseteq (IF SFTP THEN {CtrlRead} ELSE {})
    BY <2>1 DEF ConnectInv, Connecting
  <2>3. phase \notin Over
    BY <2>1 DEF Over
  <2>. QED
    BY <2>1, <2>2, <2>3 DEF SessionInv, TimeoutMeansIdle, OneUnguardedRead, SFTP
<1>5. CASE BeginCall \/ DialData \/ DataDialed
  <2>1. /\ phase \notin Over
        /\ UNCHANGED <<opts, pending, wait, armed, left, heard, established>>
    BY <1>5 DEF BeginCall, DialData, DataDialed, Goto, Over
  <2>. QED  BY <2>1 DEF SessionInv, TimeoutMeansIdle, OneUnguardedRead, SFTP
<1>6. CASE CallReturns
  <2>1. /\ phase = "call" /\ CallerRuns /\ armed' = armed \ Data
        /\ UNCHANGED <<opts, pending, wait, left, heard, established>>
    BY <1>6 DEF CallReturns, Goto
  <2>2. pending \cap Data = {}
    BY <2>1, StreamFacts DEF CallerRuns, SessionInv
  <2>3. phase \notin Over
    BY <2>1 DEF Over
  <2>. QED
    BY <2>1, <2>2, <2>3 DEF SessionInv, TimeoutMeansIdle, OneUnguardedRead, SFTP
<1>7. CASE CallerIO
  <2>1. PICK s \in CallerStreams : StartIO(s)
    BY <1>7 DEF CallerIO
  <2>2. /\ phase \in {"handshake", "call"}
        /\ UNCHANGED <<opts, phase, established, heard>>
    BY <1>7 DEF CallerIO
  <2>3. s \in Streams /\ (SFTP => s \in Control) /\ phase \notin Over
    BY <2>1, <2>2, StreamFacts DEF CallerStreams, Over
  <2>4. CASE established
    BY <2>1, <2>2, <2>3, <2>4, ActiveArm
  <2>5. CASE ~established
    <3>1. UNCHANGED wait /\ pending' = pending \cup {s}
      BY <2>1, <2>3, <2>5, PassiveArm
    <3>. QED  BY <2>2, <2>3, <2>5, <3>1, NotYetEstablished DEF SessionInv, SFTP
  <2>. QED  BY <2>4, <2>5
<1>8. CASE ReaderIO
  <2>1. /\ phase \notin Over /\ StartIO(CtrlRead)
        /\ UNCHANGED <<opts, phase, established, heard>>
    BY <1>8 DEF ReaderIO
  <2>2. CtrlRead \in Streams /\ CtrlRead \in Control
    BY StreamFacts
  <2>3. CASE established
    BY <2>1, <2>2, <2>3, ActiveArm
  <2>4. CASE ~established
    <3>1. UNCHANGED wait /\ pending' = pending \cup {CtrlRead}
      BY <2>1, <2>2, <2>4, PassiveArm
    <3>. QED  BY <2>1, <2>2, <2>4, <3>1, NotYetEstablished DEF SessionInv, SFTP
  <2>. QED  BY <2>3, <2>4
<1>9. ASSUME NEW s \in Streams, IODone(s) PROVE SessionInv'
  <2>1. /\ s \in pending /\ pending' = pending \ {s}
        /\ wait' = [wait EXCEPT ![s] = 0]
        /\ heard' = (heard \/ (SFTP /\ s = CtrlRead /\ established))
        /\ UNCHANGED <<opts, phase, established, armed, left>>
    BY <1>9 DEF IODone
  <2>2. \A t \in Streams : wait'[t] = IF t = s THEN 0 ELSE wait[t]
    BY <2>1 DEF StallTypeOK
  <2>3. phase' \notin Over => \A t \in Streams \ pending' : wait'[t] = 0
    BY <2>1, <2>2 DEF SessionInv
  <2>4. TimeoutMeansIdle'
    BY <2>1, <2>2 DEF SessionInv, TimeoutMeansIdle, StallTypeOK
  <2>5. OneUnguardedRead'
    BY <2>1 DEF SessionInv, OneUnguardedRead, SFTP
  <2>. QED  BY <2>1, <2>3, <2>4, <2>5 DEF SessionInv, SFTP
<1>10. ASSUME NEW s \in Streams, IOTimesOut(s) PROVE SessionInv'
  BY <1>1, <1>10 DEF IOTimesOut, Over
<1>11. CASE Tick
  <2>1. UNCHANGED <<opts, phase, pending, armed, established, heard>>
    BY <1>11 DEF Tick
  <2>2. phase' \notin Over => \A s \in Streams \ pending' : wait'[s] = 0
    BY <1>11, <2>1 DEF Tick, SessionInv
  <2>3. CASE established
    <3>1. TimeoutMeansIdle'
      BY <1>11, <2>3, SessionTick
    <3>. QED  BY <2>1, <2>2, <3>1 DEF SessionInv, OneUnguardedRead, SFTP
  <2>4. CASE ~established
    BY <2>1, <2>2, <2>4, NotYetEstablished DEF SessionInv, SFTP
  <2>. QED  BY <2>3, <2>4
<1>12. CASE Ended \/ UNCHANGED vars
  BY <1>12 DEF Ended, vars, SessionInv, TimeoutMeansIdle, OneUnguardedRead, SFTP
<1>. QED
  BY <1>2, <1>3, <1>4, <1>5, <1>6, <1>7, <1>8, <1>9, <1>10, <1>11, <1>12
  DEF Next, CallerStep

\* No session is established at the start.
LEMMA SessionInvInit == Init => SessionInv
BY DEF Init, SessionInv, TimeoutMeansIdle, OneUnguardedRead

\* SessionInv holds in every reachable state.
LEMMA SessionInvHolds == Spec => []SessionInv
BY TypesInit, TypesNext, ConnectInvInit, ConnectInvNext, SessionInvInit,
   SessionInvNext, PTL DEF Spec

\* No operation on an established session runs out of time while bytes move:
\* its deadline is StallTimeout after it blocked, and no rest of the connect
\* deadline is left on the connection.
THEOREM TimeoutsAreIdle == Spec => []TimeoutMeansIdle
<1>1. SessionInv => TimeoutMeansIdle
  BY DEF SessionInv
<1>. QED  BY <1>1, SessionInvHolds, PTL

\* With a stall timeout the only operation on an established session without a
\* deadline is the SSH reader's, until it has received an answer: the gap
\* DialSFTP leaves is the only one.
THEOREM OneGapOnly == Spec => []OneUnguardedRead
<1>1. SessionInv => OneUnguardedRead
  BY DEF SessionInv
<1>. QED  BY <1>1, SessionInvHolds, PTL
=============================================================================
