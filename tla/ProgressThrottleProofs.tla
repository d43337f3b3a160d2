----------------------- MODULE ProgressThrottleProofs -----------------------
(***************************************************************************)
(* Theorems about the printer's throttle of progress lines                 *)
(* (ProgressThrottle), for files of any size, read in portions of any      *)
(* size, with any interval and any number of attempts.                     *)
(***************************************************************************)
EXTENDS ProgressThrottle, TLAPS

-----------------------------------------------------------------------------
(***************************************************************************)
(* Percentages and their tens (handleProgress).                            *)
(***************************************************************************)

\* The bytes sent of a file are never a smaller share of it than fewer bytes,
\* and just the whole of it, or more, is a hundred percent or more.
LEMMA Shares ==
  ASSUME NEW whole \in Nat, whole > 0, NEW a \in Nat, NEW b \in Nat, a <= b
  PROVE  /\ (a * 100) \div whole \in Nat
         /\ (a * 100) \div whole <= (b * 100) \div whole
         /\ b >= whole <=> (b * 100) \div whole >= 100
OBVIOUS

\* Percent is a natural number, does not fall as bytes are sent, and is a hundred
\* from the last byte of the size the file was opened with.
LEMMA PercentGrows ==
  ASSUME NEW k \in Keys, total[k] \in Nat, NEW a \in Nat, NEW b \in Nat, a <= b
  PROVE  /\ Percent(k, b) \in Nat
         /\ Percent(k, a) <= Percent(k, b)
         /\ Final(k, b) <=> Percent(k, b) >= 100
<1>1. CASE total[k] > 0
  <2>1. /\ (a * 100) \div total[k] <= (b * 100) \div total[k]
        /\ b >= total[k] <=> (b * 100) \div total[k] >= 100
    BY <1>1, Shares
  <2>2. (b * 100) \div total[k] \in Nat
    BY <1>1, Shares
  <2>3. /\ Percent(k, a) = (a * 100) \div total[k]
        /\ Percent(k, b) = (b * 100) \div total[k]
    BY <1>1, Zenon DEF Percent
  <2>. QED  BY <2>1, <2>2, <2>3 DEF Final
<1>2. CASE ~(total[k] > 0)
  BY <1>2 DEF Percent, Final
<1>. QED  BY <1>1, <1>2

\* A percentage rounded down to a multiple of ten: the bucket of a line.
Rounded(percent) == percent - (percent % progressPercentStep)

\* Rounding down keeps the order, and what it tells apart is ten percent apart.
LEMMA Rounding ==
  ASSUME NEW p \in Nat, NEW q \in Nat, p <= q
  PROVE  /\ Rounded(p) \in Nat /\ Rounded(q) \in Nat
         /\ Rounded(p) # Rounded(q) => p \div progressPercentStep < q \div progressPercentStep
         /\ Rounded(p) # 0 => p >= progressPercentStep
         /\ p >= 100 => Rounded(p) >= 100
         /\ Rounded(p) >= 100 => p >= 100
BY DEF Rounded, progressPercentStep

-----------------------------------------------------------------------------
(***************************************************************************)
(* Sequences of lines.                                                     *)
(***************************************************************************)
Line == [percent : Nat, time : Nat, final : BOOLEAN]

Last(s) == s[Len(s)]

\* What LinesAreApart says of one file's lines.
Apart(s) ==
  \A i \in DOMAIN s :
    /\ s[i].percent >= progressPercentStep
    /\ i > 1 =>
         /\ s[i].percent \div progressPercentStep
              > s[i - 1].percent \div progressPercentStep
         /\ s[i].final \/ s[i].time - s[i - 1].time >= MinInterval

\* The last of some lines is a line.
LEMMA LastIsLine ==
  ASSUME NEW s \in Seq(Line), s # <<>>
  PROVE  Last(s) \in Line
<1>1. Len(s) \in 1..Len(s)
  OBVIOUS
<1>. QED  BY <1>1 DEF Last

\* A line far enough from the last one keeps the lines apart.
LEMMA ApartAppended ==
  ASSUME NEW s \in Seq(Line), Apart(s), NEW line \in Line,
         line.percent >= progressPercentStep,
         s # <<>> => /\ line.percent \div progressPercentStep
                          > Last(s).percent \div progressPercentStep
                     /\ line.final \/ line.time - Last(s).time >= MinInterval
  PROVE  /\ Apart(Append(s, line)) /\ Append(s, line) \in Seq(Line)
         /\ Append(s, line) # <<>> /\ Last(Append(s, line)) = line
<1>. DEFINE t == Append(s, line)
<1>1. /\ t \in Seq(Line) /\ Len(t) = Len(s) + 1 /\ Len(s) \in Nat
      /\ t[Len(s) + 1] = line
      /\ DOMAIN t = 1..(Len(s) + 1) /\ DOMAIN s = 1..Len(s)
      /\ \A i \in 1..Len(s) : t[i] = s[i]
  OBVIOUS
<1>2. t # <<>> /\ Last(t) = line
  BY <1>1 DEF Last
<1>. HIDE DEF t
<1>3. ASSUME NEW i \in DOMAIN t
      PROVE  /\ t[i].percent >= progressPercentStep
             /\ i > 1 =>
                  /\ t[i].percent \div progressPercentStep
                       > t[i - 1].percent \div progressPercentStep
                  /\ t[i].final \/ t[i].time - t[i - 1].time >= MinInterval
  <2>1. CASE i \in 1..Len(s)
    <3>1. t[i] = s[i] /\ (i > 1 => t[i - 1] = s[i - 1])
      BY <1>1, <2>1
    <3>2. i \in DOMAIN s
      BY <1>1, <2>1
    <3>. QED  BY <3>1, <3>2 DEF Apart
  <2>2. CASE i = Len(s) + 1
    <3>1. t[i] = line
      BY <1>1, <2>2
    <3>2. ASSUME i > 1 PROVE s # <<>> /\ t[i - 1] = Last(s)
      BY <1>1, <2>2, <3>2 DEF Last
    <3>. QED  BY <3>1, <3>2
  <2>. QED  BY <1>1, <2>1, <2>2
<1>. QED  BY <1>1, <1>2, <1>3 DEF Apart, t

-----------------------------------------------------------------------------
(***************************************************************************)
(* The inductive invariant of one pair of an endpoint and a file.          *)
(***************************************************************************)
ThrottleTypes ==
  /\ mode \in Modes
  /\ now \in Nat
  /\ progress \in [Keys -> [lastPercent : Int, lastPrinted : Int]]
  /\ sending \in [Keys -> {"idle", "upload", "uploaded", "failed"}]
  /\ size \in [Keys -> Nat] /\ total \in [Keys -> Nat]
  /\ sent \in [Keys -> Nat]
  /\ lines \in [Keys -> Seq(Line)]

\* The entry the lines of an attempt leave behind.
EntryAfter(s) ==
  IF s = <<>> THEN FreshEntry
  ELSE [lastPercent |-> Rounded(Last(s).percent), lastPrinted |-> Last(s).time]

\* An attempt that has sent something, and all of the size it opened the file
\* with.
AllSent(k) == sent[k] > 0 /\ Final(k, sent[k])

Printed(k) == lines[k] # <<>> /\ Last(lines[k]).percent >= 100

\* In verbose mode, during and after an attempt: the entry goes with the lines,
\* there is none without bytes or ahead of them, and the last byte has had its
\* line.
Throttled(k) ==
  /\ sending[k] = "upload" => progress[k] = EntryAfter(lines[k])
  /\ sending[k] = "uploaded" => progress[k] = NoEntry
  /\ sending[k] \in {"upload", "uploaded"} =>
       /\ lines[k] # <<>> => /\ sent[k] > 0
                             /\ Last(lines[k]).percent <= Percent(k, sent[k])
       /\ AllSent(k) => Printed(k)

PairInv(k) ==
  /\ Apart(lines[k])
  /\ mode # "verbose" => progress[k] = NoEntry /\ lines[k] = <<>>
  /\ mode = "verbose" => Throttled(k)

ThrottleInv == ThrottleTypes /\ \A k \in Keys : PairInv(k)

\* No entry the printer makes is the one that stands for no entry.
LEMMA EntryOfLines ==
  ASSUME ThrottleTypes, NEW k \in Keys, progress[k] = EntryAfter(lines[k])
  PROVE  /\ Entry(k) = EntryAfter(lines[k])
         /\ lines[k] = <<>> => Entry(k).lastPercent = -1 /\ Entry(k).lastPrinted = -1
         /\ lines[k] # <<>> =>
              /\ Last(lines[k]) \in Line
              /\ Entry(k).lastPercent = Rounded(Last(lines[k]).percent)
              /\ Entry(k).lastPrinted = Last(lines[k]).time
<1>0. lines[k] \in Seq(Line)
  BY DEF ThrottleTypes
<1>1. CASE lines[k] = <<>>
  BY <1>1 DEF Entry, EntryAfter, FreshEntry, NoEntry, Never
<1>2. CASE lines[k] # <<>>
  <2>1. Last(lines[k]) \in Line
    BY <1>0, <1>2, LastIsLine
  <2>2. Last(lines[k]).percent \in Nat
    BY <2>1 DEF Line
  <2>3. Rounded(Last(lines[k]).percent) \in Nat
    BY <2>2, Rounding
  <2>4. /\ progress[k].lastPercent = Rounded(Last(lines[k]).percent)
        /\ progress[k].lastPrinted = Last(lines[k]).time
    BY <1>2 DEF EntryAfter
  <2>5. progress[k] # NoEntry
    BY <2>3, <2>4 DEF NoEntry
  <2>. QED  BY <1>2, <2>1, <2>4, <2>5 DEF Entry
<1>. QED  BY <1>1, <1>2

-----------------------------------------------------------------------------
(***************************************************************************)
(* One progress event (handleProgress).                                    *)
(***************************************************************************)

\* A line that is due is far enough from the one before it.
LEMMA DueIsFar ==
  ASSUME ThrottleTypes, NEW k \in Keys, PairInv(k), mode = "verbose",
         sending[k] = "upload", NEW bytes \in Nat, sent[k] <= bytes, Due(k, bytes)
  PROVE  /\ Percent(k, bytes) >= progressPercentStep
         /\ lines[k] # <<>> =>
              /\ Percent(k, bytes) \div progressPercentStep
                   > Last(lines[k]).percent \div progressPercentStep
              /\ Final(k, bytes) \/ now - Last(lines[k]).time >= MinInterval
<1>1. /\ progress[k] = EntryAfter(lines[k])
      /\ lines[k] # <<>> => Last(lines[k]).percent <= Percent(k, sent[k])
  BY DEF PairInv, Throttled
<1>2. sent[k] \in Nat /\ now \in Nat /\ MinInterval \in Nat /\ total[k] \in Nat
  BY ThrottleAssumption DEF ThrottleTypes, ThrottleAssumption
<1>3. /\ Percent(k, bytes) \in Nat /\ Percent(k, sent[k]) \in Nat
      /\ Percent(k, sent[k]) <= Percent(k, bytes)
      /\ Final(k, bytes) => Percent(k, bytes) >= 100
  BY <1>2, PercentGrows
<1>4. Bucket(k, bytes) = Rounded(Percent(k, bytes))
  BY DEF Bucket, Rounded
<1>5. Percent(k, bytes) >= progressPercentStep
  <2>1. CASE Bucket(k, bytes) # 0
    BY <1>3, <1>4, <2>1, Rounding
  <2>2. CASE Final(k, bytes)
    BY <1>3, <2>2 DEF progressPercentStep
  <2>. QED  BY <2>1, <2>2 DEF Due
<1>6. ASSUME lines[k] # <<>>
      PROVE  /\ Percent(k, bytes) \div progressPercentStep
                  > Last(lines[k]).percent \div progressPercentStep
             /\ Final(k, bytes) \/ now - Last(lines[k]).time >= MinInterval
  <2>1. /\ Last(lines[k]) \in Line
        /\ Entry(k).lastPercent = Rounded(Last(lines[k]).percent)
        /\ Entry(k).lastPrinted = Last(lines[k]).time
    BY <1>1, <1>6, EntryOfLines
  <2>2. Last(lines[k]).percent \in Nat /\ Last(lines[k]).time \in Nat
    BY <2>1 DEF Line
  <2>3. Rounded(Percent(k, bytes)) # Rounded(Last(lines[k]).percent)
    BY <1>4, <2>1 DEF Due
  <2>4. Last(lines[k]).percent <= Percent(k, bytes)
    BY <1>1, <1>3, <1>6, <2>2
  <2>5. Percent(k, bytes) \div progressPercentStep
          > Last(lines[k]).percent \div progressPercentStep
    <3>1. Last(lines[k]).percent \div progressPercentStep
            < Percent(k, bytes) \div progressPercentStep
      BY <1>3, <2>2, <2>3, <2>4, Rounding
    <3>. QED  BY <1>3, <2>2, <3>1 DEF progressPercentStep
  <2>6. Entry(k).lastPrinted # Never
    BY <2>1, <2>2 DEF Never
  <2>7. ~(now - Entry(k).lastPrinted < MinInterval) \/ Final(k, bytes)
    BY <2>6 DEF Due, TooSoon
  <2>. QED  BY <1>2, <2>1, <2>2, <2>5, <2>7
<1>. QED  BY <1>5, <1>6

\* A final read whose line is not due has had its line before.
LEMMA FinalIsPrinted ==
  ASSUME ThrottleTypes, NEW k \in Keys, PairInv(k), mode = "verbose",
         sending[k] = "upload", NEW bytes \in Nat, Final(k, bytes), ~Due(k, bytes)
  PROVE  Printed(k)
<1>1. Percent(k, bytes) \in Nat /\ Percent(k, bytes) >= 100
  BY PercentGrows DEF ThrottleTypes
<1>2. Bucket(k, bytes) = Rounded(Percent(k, bytes)) /\ Bucket(k, bytes) >= 100
  BY <1>1, Rounding DEF Bucket, Rounded
<1>3. Entry(k).lastPercent = Bucket(k, bytes)
  BY DEF Due, TooSoon
<1>4. /\ lines[k] # <<>> /\ Last(lines[k]) \in Line
      /\ Entry(k).lastPercent = Rounded(Last(lines[k]).percent)
  <2>1. progress[k] = EntryAfter(lines[k])
    BY DEF PairInv, Throttled
  <2>. QED  BY <2>1, <1>2, <1>3, EntryOfLines
<1>5. Last(lines[k]).percent \in Nat
  BY <1>4 DEF Line
<1>. QED  BY <1>2, <1>3, <1>4, <1>5, Rounding DEF Printed

\* Whatever handleProgress decides, it keeps what is said of the pair.
LEMMA ProgressHandled ==
  ASSUME ThrottleTypes, NEW k \in Keys, PairInv(k), mode = "verbose",
         sending[k] = "upload", NEW bytes \in Nat, sent[k] <= bytes,
         HandleProgress(k, bytes)
  PROVE  /\ progress' \in [Keys -> [lastPercent : Int, lastPrinted : Int]]
         /\ lines' \in [Keys -> Seq(Line)]
         /\ \A j \in Keys : j # k => progress'[j] = progress[j] /\ lines'[j] = lines[j]
         /\ Apart(lines'[k]) /\ progress'[k] = EntryAfter(lines'[k])
         /\ lines'[k] # <<>> => Last(lines'[k]).percent <= Percent(k, bytes)
         /\ Final(k, bytes) => lines'[k] # <<>> /\ Last(lines'[k]).percent >= 100
<1>1. /\ progress[k] = EntryAfter(lines[k]) /\ Apart(lines[k])
      /\ lines[k] # <<>> => Last(lines[k]).percent <= Percent(k, sent[k])
  BY DEF PairInv, Throttled
<1>2. sent[k] \in Nat /\ now \in Nat /\ lines[k] \in Seq(Line)
      /\ DOMAIN lines = Keys /\ DOMAIN progress = Keys
  BY DEF ThrottleTypes
<1>3. /\ Percent(k, bytes) \in Nat /\ Percent(k, sent[k]) \in Nat
      /\ Percent(k, sent[k]) <= Percent(k, bytes)
      /\ Final(k, bytes) => Percent(k, bytes) >= 100
  <2>1. sent[k] \in Nat /\ total[k] \in Nat
    BY DEF ThrottleTypes
  <2>. QED  BY <2>1, PercentGrows
<1>4. CASE Due(k, bytes)
  <2>. DEFINE line == [percent |-> Percent(k, bytes), time |-> now,
                       final |-> Final(k, bytes)]
  <2>1. line \in Line
    <3>1. Final(k, bytes) \in BOOLEAN
      BY SMT DEF Final, ThrottleTypes
    <3>. QED  BY <1>2, <1>3, <3>1 DEF Line
  <2>2. /\ progress' = [progress EXCEPT ![k] = [lastPercent |-> Bucket(k, bytes),
                                               lastPrinted |-> now]]
        /\ lines' = [lines EXCEPT ![k] = Append(@, line)]
    BY <1>4 DEF HandleProgress
  <2>3. /\ lines'[k] = Append(lines[k], line)
        /\ progress'[k] = [lastPercent |-> Bucket(k, bytes), lastPrinted |-> now]
        /\ \A j \in Keys : j # k => progress'[j] = progress[j] /\ lines'[j] = lines[j]
    BY <1>2, <2>2
  <2>4. line.percent = Percent(k, bytes) /\ line.time = now
        /\ (Final(k, bytes) => line.final)
    OBVIOUS
  <2>. HIDE DEF line
  <2>5. /\ Apart(lines'[k]) /\ lines'[k] \in Seq(Line)
        /\ lines'[k] # <<>> /\ Last(lines'[k]) = line
    <3>1. /\ line.percent >= progressPercentStep
          /\ lines[k] # <<>> =>
               /\ line.percent \div progressPercentStep
                    > Last(lines[k]).percent \div progressPercentStep
               /\ line.final \/ line.time - Last(lines[k]).time >= MinInterval
      BY <1>4, <2>4, DueIsFar
    <3>. QED  BY <1>1, <1>2, <2>1, <2>3, <3>1, ApartAppended
  <2>6. lines' \in [Keys -> Seq(Line)]
    BY <2>2, <2>3, <2>5 DEF ThrottleTypes
  <2>7. Bucket(k, bytes) = Rounded(Percent(k, bytes)) /\ Bucket(k, bytes) \in Nat
    BY <1>3, Rounding DEF Bucket, Rounded
  <2>8. progress' \in [Keys -> [lastPercent : Int, lastPrinted : Int]]
    BY <1>2, <2>2, <2>7 DEF ThrottleTypes
  <2>9. progress'[k] = EntryAfter(lines'[k])
    BY <2>3, <2>4, <2>5, <2>7 DEF EntryAfter
  <2>. QED  BY <1>3, <2>3, <2>4, <2>5, <2>6, <2>8, <2>9
<1>5. CASE ~Due(k, bytes)
  <2>1. progress' = [progress EXCEPT ![k] = Entry(k)] /\ lines' = lines
    BY <1>5 DEF HandleProgress
  <2>2. Entry(k) = progress[k]
    BY <1>1, EntryOfLines
  <2>3. progress' = progress
    BY <2>1, <2>2 DEF ThrottleTypes
  <2>4. Final(k, bytes) => lines[k] # <<>> /\ Last(lines[k]).percent >= 100
    BY <1>5, FinalIsPrinted DEF Printed
  <2>5. lines[k] # <<>> => Last(lines[k]).percent <= Percent(k, bytes)
    <3>1. ASSUME lines[k] # <<>> PROVE Last(lines[k]).percent \in Nat
      BY <1>2, <3>1, LastIsLine DEF Line
    <3>. QED  BY <1>1, <1>3, <3>1
  <2>. QED  BY <1>1, <2>1, <2>3, <2>4, <2>5 DEF ThrottleTypes
<1>. QED  BY <1>4, <1>5

-----------------------------------------------------------------------------
(***************************************************************************)
(* Every step keeps the invariant.                                         *)
(***************************************************************************)

\* The printer starts with no entries and no lines.
LEMMA ThrottleInvInit == Init => ThrottleInv
<1>. SUFFICES ASSUME Init PROVE ThrottleInv
  OBVIOUS
<1>1. ThrottleTypes
  <2>1. <<>> \in Seq(Line)
    OBVIOUS
  <2>2. size \in [Keys -> Nat] /\ total \in [Keys -> Nat]
    BY ThrottleAssumption DEF Init, ThrottleAssumption
  <2>. QED  BY <2>1, <2>2 DEF Init, ThrottleTypes, NoEntry, Never
<1>2. ASSUME NEW k \in Keys PROVE PairInv(k)
  <2>1. lines[k] = <<>> /\ progress[k] = NoEntry /\ sending[k] = "idle"
    BY DEF Init
  <2>. QED  BY <2>1 DEF PairInv, Throttled, AllSent, Apart
<1>. QED  BY <1>1, <1>2 DEF ThrottleInv

\* What is said of a pair only looks at the pair.
LEMMA PairUntouched ==
  ASSUME NEW k \in Keys, PairInv(k), UNCHANGED mode,
         progress'[k] = progress[k], sending'[k] = sending[k], sent'[k] = sent[k],
         lines'[k] = lines[k], total'[k] = total[k]
  PROVE  PairInv(k)'
BY DEF PairInv, Throttled, AllSent, Printed, Final, Percent

\* The printer does not see the length of a local file.
LEMMA ResizeKeeps ==
  ASSUME ThrottleInv, NEW k \in Keys, Resize(k)
  PROVE  ThrottleInv'
<1>1. PICK length \in Sizes[k] : size' = [size EXCEPT ![k] = length]
  BY DEF Resize
<1>2. UNCHANGED <<mode, now, progress, sending, total, sent, lines>>
  BY DEF Resize
<1>3. length \in Nat
  BY ThrottleAssumption DEF ThrottleAssumption
<1>4. ThrottleTypes'
  BY <1>1, <1>2, <1>3 DEF ThrottleInv, ThrottleTypes
<1>5. \A j \in Keys : PairInv(j)'
  BY <1>2, PairUntouched DEF ThrottleInv
<1>. QED  BY <1>4, <1>5 DEF ThrottleInv

\* A FileStartEvent forgets the attempt before it.
LEMMA FileStartKeeps ==
  ASSUME ThrottleInv, NEW k \in Keys, FileStart(k)
  PROVE  ThrottleInv'
<1>. USE DEF ThrottleInv, ThrottleTypes, FileStart
<1>1. /\ <<>> \in Seq(Line)
      /\ FreshEntry \in [lastPercent : Int, lastPrinted : Int]
  BY DEF FreshEntry, Never
<1>2. ThrottleTypes'
  <2>1. progress' \in [Keys -> [lastPercent : Int, lastPrinted : Int]]
    BY <1>1 DEF RememberStart
  <2>2. lines' \in [Keys -> Seq(Line)]
    BY <1>1
  <2>. QED  BY <2>1, <2>2
<1>3. PairInv(k)'
  <2>1. lines'[k] = <<>> /\ sent'[k] = 0 /\ sending'[k] = "upload" /\ UNCHANGED mode
    OBVIOUS
  <2>2. progress'[k] = IF mode = "verbose" THEN FreshEntry ELSE progress[k]
    BY DEF RememberStart
  <2>. QED  BY <2>1, <2>2 DEF PairInv, Throttled, Apart, EntryAfter, AllSent
<1>4. ASSUME NEW j \in Keys, j # k PROVE PairInv(j)'
  <2>1. /\ progress'[j] = progress[j] /\ sending'[j] = sending[j] /\ UNCHANGED mode
        /\ sent'[j] = sent[j] /\ lines'[j] = lines[j] /\ total'[j] = total[j]
    BY <1>4 DEF RememberStart
  <2>. QED  BY <2>1, PairUntouched
<1>. QED  BY <1>2, <1>3, <1>4

\* A progress event is handled as ProgressHandled says.
LEMMA ProgressKeeps ==
  ASSUME ThrottleInv, NEW k \in Keys, Progress(k)
  PROVE  ThrottleInv'
<1>1. ThrottleTypes /\ PairInv(k) /\ (\A j \in Keys : PairInv(j))
  BY DEF ThrottleInv
<1>2. PICK n \in Reads :
        /\ sent' = [sent EXCEPT ![k] = sent[k] + n]
        /\ IF mode = "verbose" THEN HandleProgress(k, sent[k] + n)
                               ELSE UNCHANGED <<progress, lines>>
  BY DEF Progress
<1>3. sending[k] = "upload" /\ UNCHANGED <<mode, now, sending, size, total>>
  BY DEF Progress
<1>4. sent[k] \in Nat /\ n \in Nat /\ sent[k] + n \in Nat /\ sent[k] <= sent[k] + n
      /\ sent[k] + n > 0
  BY <1>1, ThrottleAssumption DEF ThrottleTypes, ThrottleAssumption
<1>5. sent' \in [Keys -> Nat] /\ sent'[k] = sent[k] + n
      /\ \A j \in Keys : j # k => sent'[j] = sent[j]
  BY <1>1, <1>2, <1>4 DEF ThrottleTypes
<1>6. CASE mode = "verbose"
  <2>1. HandleProgress(k, sent[k] + n)
    BY <1>2, <1>6
  <2>2. /\ progress' \in [Keys -> [lastPercent : Int, lastPrinted : Int]]
        /\ lines' \in [Keys -> Seq(Line)]
        /\ \A j \in Keys : j # k => progress'[j] = progress[j] /\ lines'[j] = lines[j]
        /\ Apart(lines'[k]) /\ progress'[k] = EntryAfter(lines'[k])
        /\ lines'[k] # <<>> => Last(lines'[k]).percent <= Percent(k, sent[k] + n)
        /\ Final(k, sent[k] + n) => lines'[k] # <<>> /\ Last(lines'[k]).percent >= 100
    BY <1>1, <1>3, <1>4, <1>6, <2>1, ProgressHandled
  <2>3. ThrottleTypes'
    BY <1>1, <1>3, <1>5, <2>2 DEF ThrottleTypes
  <2>4. PairInv(k)'
    <3>1. Percent(k, sent[k])' = Percent(k, sent[k] + n)
      BY <1>3, <1>5 DEF Percent
    <3>2. Final(k, sent[k])' <=> Final(k, sent[k] + n)
      BY <1>3, <1>5 DEF Final
    <3>. QED
      BY <1>3, <1>4, <1>5, <1>6, <2>2, <3>1, <3>2 DEF PairInv, Throttled, AllSent, Printed
  <2>5. ASSUME NEW j \in Keys, j # k PROVE PairInv(j)'
    BY <1>1, <1>3, <1>5, <2>2, <2>5, PairUntouched
  <2>. QED  BY <2>3, <2>4, <2>5 DEF ThrottleInv
<1>7. CASE mode # "verbose"
  <2>1. UNCHANGED <<progress, lines>>
    BY <1>2, <1>7
  <2>2. ThrottleTypes'
    BY <1>1, <1>3, <1>5, <2>1 DEF ThrottleTypes
  <2>3. ASSUME NEW j \in Keys PROVE PairInv(j)'
    BY <1>1, <1>3, <1>7, <2>1 DEF PairInv
  <2>. QED  BY <2>2, <2>3 DEF ThrottleInv
<1>. QED  BY <1>6, <1>7

\* A FileErrorEvent leaves an attempt's lines and entry behind, for the next
\* FileStartEvent to drop.
LEMMA FileErrorKeeps ==
  ASSUME ThrottleInv, NEW k \in Keys, FileError(k) \/ FileFails(k)
  PROVE  ThrottleInv'
<1>1. PICK place \in {"idle", "failed"} : sending' = [sending EXCEPT ![k] = place]
  BY DEF FileError, FileFails
<1>2. UNCHANGED <<mode, now, progress, size, total, sent, lines>>
  BY DEF FileError, FileFails
<1>3. ThrottleTypes'
  BY <1>1, <1>2 DEF ThrottleInv, ThrottleTypes
<1>4. ASSUME NEW j \in Keys PROVE PairInv(j)'
  <2>1. CASE j # k
    BY <1>1, <1>2, <2>1, PairUntouched DEF ThrottleInv, ThrottleTypes
  <2>2. CASE j = k
    <3>1. sending'[j] \in {"idle", "failed"} /\ PairInv(j)
      BY <1>1, <2>2 DEF ThrottleInv, ThrottleTypes
    <3>. QED  BY <1>2, <3>1 DEF PairInv, Throttled, AllSent
  <2>. QED  BY <2>1, <2>2
<1>. QED  BY <1>3, <1>4 DEF ThrottleInv

\* A FileSuccessEvent drops the entry.
LEMMA FileSuccessKeeps ==
  ASSUME ThrottleInv, NEW k \in Keys, FileSuccess(k)
  PROVE  ThrottleInv'
<1>1. /\ sending[k] = "upload" /\ sending' = [sending EXCEPT ![k] = "uploaded"]
      /\ progress' = [progress EXCEPT ![k] = NoEntry]
      /\ UNCHANGED <<mode, now, size, total, sent, lines>>
  BY DEF FileSuccess, Forget
<1>2. ThrottleTypes'
  BY <1>1 DEF ThrottleInv, ThrottleTypes, NoEntry, Never
<1>3. ASSUME NEW j \in Keys PROVE PairInv(j)'
  <2>1. CASE j # k
    BY <1>1, <2>1, PairUntouched DEF ThrottleInv, ThrottleTypes
  <2>2. CASE j = k
    <3>1. sending'[j] = "uploaded" /\ progress'[j] = NoEntry /\ PairInv(j)
      BY <1>1, <2>2 DEF ThrottleInv, ThrottleTypes
    <3>. QED
      BY <1>1, <2>2, <3>1 DEF PairInv, Throttled, AllSent, Printed, Final, Percent
  <2>. QED  BY <2>1, <2>2
<1>. QED  BY <1>2, <1>3 DEF ThrottleInv

\* Every step keeps ThrottleInv; the clock goes on without the printer.
LEMMA ThrottleInvNext == ThrottleInv /\ [Next]_vars => ThrottleInv'
<1>. SUFFICES ASSUME ThrottleInv, [Next]_vars PROVE ThrottleInv'
  OBVIOUS
<1>1. CASE Tick \/ Ended \/ UNCHANGED vars
  <2>1. UNCHANGED <<mode, progress, sending, size, total, sent, lines>> /\ now' \in {now, now + 1}
    BY <1>1 DEF Tick, Ended, vars
  <2>2. ThrottleTypes'
    BY <2>1 DEF ThrottleInv, ThrottleTypes
  <2>3. \A k \in Keys : PairInv(k)'
    BY <2>1, PairUntouched DEF ThrottleInv
  <2>. QED  BY <2>2, <2>3 DEF ThrottleInv
<1>. QED
  BY <1>1, ResizeKeeps, FileStartKeeps, ProgressKeeps, FileErrorKeeps, FileSuccessKeeps
  DEF Next

\* ThrottleInv holds in every reachable state.
LEMMA ThrottleInvHolds == Spec => []ThrottleInv
BY ThrottleInvInit, ThrottleInvNext, PTL DEF Spec

-----------------------------------------------------------------------------
(***************************************************************************)
(* The theorems.                                                           *)
(***************************************************************************)

\* The printer's entry goes with the lines of the attempt under way.
THEOREM EntryGoesWithAttempt == Spec => []EntryIsOfThisAttempt
<1>1. ASSUME ThrottleInv PROVE EntryIsOfThisAttempt
  <2>1. \A k \in Keys : PairInv(k)
    BY <1>1 DEF ThrottleInv
  <2>. QED
    BY <2>1
    DEF EntryIsOfThisAttempt, PairInv, Throttled, EntryAfter, Rounded, Last
<1>. QED  BY <1>1, ThrottleInvHolds, PTL

\* An attempt's lines are ten percent and MinInterval apart, except at the end.
THEOREM LinesStayApart == Spec => []LinesAreApart
<1>1. ThrottleInv => LinesAreApart
  BY DEF ThrottleInv, PairInv, Apart, LinesAreApart
<1>. QED  BY <1>1, ThrottleInvHolds, PTL

\* A line of a hundred percent is printed just when all was sent.
THEOREM HundredIsTruthful == Spec => []HundredMeansWhole
<1>1. ASSUME ThrottleInv PROVE HundredMeansWhole
  <2>. SUFFICES ASSUME mode = "verbose", NEW k \in Keys,
                       sending[k] \in {"upload", "uploaded"}
                PROVE  AllSent(k) <=> Printed(k)
    BY DEF HundredMeansWhole, AllSent, Final, Printed, Last
  <2>1. Throttled(k) /\ sent[k] \in Nat /\ total[k] \in Nat /\ lines[k] \in Seq(Line)
    BY <1>1 DEF ThrottleInv, ThrottleTypes, PairInv
  <2>2. ASSUME Printed(k) PROVE AllSent(k)
    <3>1. /\ sent[k] > 0 /\ Last(lines[k]).percent <= Percent(k, sent[k])
          /\ Last(lines[k]).percent >= 100
      BY <2>1, <2>2 DEF Throttled, Printed
    <3>2. Last(lines[k]).percent \in Nat
      BY <2>1, <2>2, LastIsLine DEF Printed, Line
    <3>3. Percent(k, sent[k]) \in Nat /\ (Final(k, sent[k]) <=> Percent(k, sent[k]) >= 100)
      BY <2>1, PercentGrows
    <3>. QED  BY <3>1, <3>2, <3>3 DEF AllSent
  <2>. QED  BY <2>1, <2>2 DEF Throttled
<1>. QED  BY <1>1, ThrottleInvHolds, PTL

=============================================================================
