------------------------- MODULE CommandSetupProofs -------------------------
(***************************************************************************)
(* Theorems about the way from the command line to the call of Upload      *)
(* (CommandSetup), for any number of arguments and directory entries, and  *)
(* for configuration files with any number of endpoints and any values in  *)
(* them. SetupInv is about the configuration, ArgsInv about the arguments. *)
(***************************************************************************)
EXTENDS CommandSetup, TLAPS, FiniteSetTheorems, SequenceTheorems

-----------------------------------------------------------------------------
(***************************************************************************)
(* Sequences taken apart and put together.                                 *)
(***************************************************************************)

\* A sequence without its first element.
LEMMA ShortTail ==
  ASSUME NEW S, NEW s \in Seq(S), s # <<>>
  PROVE  /\ Len(s) \in Nat \ {0} /\ DOMAIN s = 1..Len(s)
         /\ Head(s) = s[1] /\ s[1] \in S
         /\ Tail(s) \in Seq(S) /\ Len(Tail(s)) = Len(s) - 1
         /\ DOMAIN Tail(s) = 1..(Len(s) - 1)
         /\ \A n \in 1..(Len(s) - 1) : Tail(s)[n] = s[n + 1]
<1>1. Tail(s) \in Seq(S) /\ Len(Tail(s)) = Len(s) - 1
  BY HeadTailProperties
<1>2. \A n \in 1..(Len(s) - 1) : Tail(s)[n] = s[n + 1]
  BY <1>1, HeadTailProperties
<1>3. Len(s) \in Nat \ {0} /\ DOMAIN s = 1..Len(s)
  BY EmptySeq, LenProperties
<1>4. DOMAIN Tail(s) = 1..(Len(s) - 1)
  BY <1>1, LenProperties
<1>5. Head(s) = s[1] /\ s[1] \in S
  BY <1>3, ElementOfSeq
<1>. QED  BY <1>1, <1>2, <1>3, <1>4, <1>5

\* And without its first two.
LEMMA LongTail ==
  ASSUME NEW S, NEW s \in Seq(S), Len(s) > 1
  PROVE  /\ Len(s) \in Nat /\ DOMAIN s = 1..Len(s) /\ s # <<>> /\ Head(s) = s[1]
         /\ Tail(Tail(s)) \in Seq(S) /\ Len(Tail(Tail(s))) = Len(s) - 2
         /\ DOMAIN Tail(Tail(s)) = 1..(Len(s) - 2)
         /\ \A n \in 1..(Len(s) - 2) : Tail(Tail(s))[n] = s[n + 2]
<1>1. s # <<>>
  BY EmptySeq
<1>2. PICK t \in Seq(S) : t = Tail(s)
  BY <1>1, ShortTail
<1>3. /\ Len(s) \in Nat /\ DOMAIN s = 1..Len(s) /\ Head(s) = s[1]
      /\ Len(t) = Len(s) - 1 /\ \A n \in 1..(Len(s) - 1) : t[n] = s[n + 1]
  BY <1>1, <1>2, ShortTail
<1>4. t # <<>>
  <2>1. Len(t) # 0
    BY <1>3
  <2>. QED  BY <2>1, EmptySeq
<1>5. /\ Tail(t) \in Seq(S) /\ Len(Tail(t)) = Len(t) - 1
      /\ DOMAIN Tail(t) = 1..(Len(t) - 1)
      /\ \A n \in 1..(Len(t) - 1) : Tail(t)[n] = t[n + 1]
  BY <1>4, ShortTail
<1>. HIDE <1>2
<1>6. \A n \in 1..(Len(s) - 2) : Tail(t)[n] = s[n + 2]
  <2>1. ASSUME NEW n \in 1..(Len(s) - 2) PROVE Tail(t)[n] = s[n + 2]
    <3>1. n \in 1..(Len(t) - 1) /\ n + 1 \in 1..(Len(s) - 1) /\ (n + 1) + 1 = n + 2
      BY <1>3
    <3>2. Tail(t)[n] = t[n + 1] /\ t[n + 1] = s[(n + 1) + 1]
      BY <1>3, <1>5, <3>1
    <3>. QED  BY <3>1, <3>2
  <2>. QED  BY <2>1
<1>7. Len(t) - 1 = Len(s) - 2
  BY <1>3
<1>. QED  BY <1>1, <1>2, <1>3, <1>5, <1>6, <1>7

\* A sequence with one element more.
LEMMA LongerByOne ==
  ASSUME NEW S, NEW s \in Seq(S), NEW x \in S
  PROVE  /\ Append(s, x) \in Seq(S) /\ Len(s) \in Nat /\ DOMAIN s = 1..Len(s)
         /\ Len(Append(s, x)) = Len(s) + 1
         /\ DOMAIN Append(s, x) = 1..(Len(s) + 1)
         /\ Append(s, x)[Len(s) + 1] = x
         /\ \A n \in 1..Len(s) : Append(s, x)[n] = s[n]
<1>1. Len(s) \in Nat /\ DOMAIN s = 1..Len(s)
  BY LenProperties
<1>. QED  BY <1>1

-----------------------------------------------------------------------------
(***************************************************************************)
(* The arguments (parseInterleaved).                                       *)
(***************************************************************************)

\* A set of natural numbers that is not empty has a least member, and Min is it.
\* Of the intervals from 0 to a member, one has no other inside it.
LEMMA MinIsLeast ==
  ASSUME NEW S \in SUBSET Nat, S # {}
  PROVE  Min(S) \in S /\ \A n \in S : Min(S) <= n
<1>. DEFINE T == {0..n : n \in S}
<1>1. T \subseteq FiniteSubsetsOf(Nat)
  <2>1. \A n \in S : IsFiniteSet(0..n)
    BY FS_Interval
  <2>. QED  BY <2>1 DEF FiniteSubsetsOf
<1>2. T # {}
  OBVIOUS
<1>. HIDE DEF T
<1>3. \E x \in T : \A y \in T : <<y, x>> \notin StrictSubsetOrdering(Nat)
  BY <1>1, <1>2, FS_StrictSubsetOrderingWellFounded, WFMin
<1>. USE DEF T
<1>4. PICK m \in S : \A n \in S : <<0..n, 0..m>> \notin StrictSubsetOrdering(Nat)
  BY <1>3
<1>5. ASSUME NEW n \in S PROVE m <= n
  <2>1. SUFFICES ASSUME n < m PROVE FALSE
    OBVIOUS
  <2>2. 0..n \subseteq 0..m /\ m \in 0..m /\ m \notin 0..n
    BY <2>1
  <2>3. <<0..n, 0..m>> \in StrictSubsetOrdering(Nat)
    <3>1. 0..n \in SUBSET Nat /\ 0..m \in SUBSET Nat /\ 0..n # 0..m
      BY <2>2
    <3>. QED  BY <2>2, <3>1 DEF StrictSubsetOrdering
  <2>. QED  BY <1>4, <2>3
<1>. QED  BY <1>5 DEF Min

\* SplitPoint is where the first "--" stands, 0 if there is none.
LEMMA SplitPointIsFirst ==
  ASSUME NEW a \in Seq(Arguments)
  PROVE  IF \E i \in DOMAIN a : a[i] = "--"
           THEN /\ SplitPoint(a) \in DOMAIN a /\ a[SplitPoint(a)] = "--"
                /\ \A i \in 1..(SplitPoint(a) - 1) : a[i] # "--"
           ELSE SplitPoint(a) = 0
<1>. DEFINE I == {i \in 1..Len(a) : a[i] = "--"}
<1>1. SplitPoint(a) = IF I # {} THEN Min(I) ELSE 0
  BY DEF SplitPoint, SelectInSeq
<1>2. I # {} => Min(I) \in I /\ \A n \in I : Min(I) <= n
  <2>1. I \in SUBSET Nat
    OBVIOUS
  <2>. HIDE DEF I
  <2>. QED  BY <2>1, MinIsLeast
<1>3. Len(a) \in Nat /\ DOMAIN a = 1..Len(a)
  OBVIOUS
<1>4. CASE I = {}
  BY <1>1, <1>3, <1>4
<1>5. CASE I # {}
  <2>1. SplitPoint(a) = Min(I)
    BY <1>1, <1>5
  <2>2. SplitPoint(a) \in I /\ \A n \in I : SplitPoint(a) <= n
    BY <1>2, <1>5, <2>1
  <2>. QED  BY <1>3, <1>5, <2>2
<1>. QED  BY <1>4, <1>5

-----------------------------------------------------------------------------
(***************************************************************************)
(* Policies (resolvePolicy).                                               *)
(***************************************************************************)

\* A field of a policy as written, and what is given over a base.
LEMMA PolicyNumbers ==
  ASSUME NEW raw \in RawPolicies, NEW base \in [PolicyFields -> Int],
         NEW f \in PolicyFields
  PROVE  /\ base[f] \in Int /\ Least[f] \in {0, 1}
         /\ raw[f] # Unset => raw[f][1] \in Forms /\ raw[f][2] \in Int
         /\ Given(f, raw, base)[1] \in Forms /\ Given(f, raw, base)[2] \in Int
         /\ raw[f] = Unset => Given(f, raw, base) = <<"number", base[f]>>
         /\ raw[f] # Unset => Given(f, raw, base) = raw[f]
<1>1. base[f] \in Int /\ Least[f] \in {0, 1}
  BY DEF PolicyFields, Counts, Durations, Least
<1>2. raw[f] \in {Unset} \cup (Forms \X Int)
  BY DEF RawPolicies
<1>3. "number" \in Forms
  BY DEF Forms
<1>. QED  BY <1>1, <1>2, <1>3 DEF Given

\* A resolved policy is one of numbers.
LEMMA ResolvedTypes ==
  ASSUME NEW raw \in RawPolicies, NEW base \in [PolicyFields -> Int]
  PROVE  ResolvePolicy(raw, base) \in [PolicyFields -> Int]
<1>1. ASSUME NEW f \in PolicyFields PROVE Resolved(f, raw, base) \in Int
  <2>1. Given(f, raw, base)[2] \in Int
    BY PolicyNumbers
  <2>. QED  BY <2>1 DEF Resolved
<1>. QED  BY <1>1 DEF ResolvePolicy

\* What is refused is a value written in the file that no rule accepts, or a
\* duration the layer below could not make sense of either.
LEMMA RefusedIsBad ==
  ASSUME NEW raw \in RawPolicies, NEW base \in [PolicyFields -> Int],
         NEW f \in PolicyFields
  PROVE  /\ raw[f] # Unset => (Refused(f, raw, base) <=> Bad(f, raw[f]))
         /\ raw[f] = Unset => ~Bad(f, raw[f])
         /\ raw[f] = Unset =>
              (Refused(f, raw, base) <=> f \in Durations /\ base[f] < Least[f])
<1>1. CASE raw[f] # Unset
  <2>1. Given(f, raw, base) = raw[f]
    BY <1>1, PolicyNumbers
  <2>. QED  BY <1>1, <2>1 DEF Refused, Bad
<1>2. CASE raw[f] = Unset
  <2>1. Given(f, raw, base) = <<"number", base[f]>>
    BY <1>2, PolicyNumbers
  <2>2. Given(f, raw, base)[1] = "number" /\ Given(f, raw, base)[2] = base[f]
    BY <2>1
  <2>3. f \in Durations <=> f \notin Counts
    BY DEF PolicyFields, Counts, Durations
  <2>. QED  BY <1>2, <2>2, <2>3 DEF Refused, Bad
<1>. QED  BY <1>1, <1>2

\* A policy nothing in which is refused has the written values, and the base's
\* where nothing is written, each of them at least the least there may be.
LEMMA AcceptedPolicy ==
  ASSUME NEW raw \in RawPolicies, NEW base \in [PolicyFields -> Int],
         NEW f \in PolicyFields, ~Refused(f, raw, base)
  PROVE  /\ ResolvePolicy(raw, base)[f] = IF raw[f] = Unset THEN base[f] ELSE raw[f][2]
         /\ base[f] >= Least[f] => ResolvePolicy(raw, base)[f] >= Least[f]
<1>1. ResolvePolicy(raw, base)[f] = Given(f, raw, base)[2]
  BY DEF ResolvePolicy, Resolved
<1>2. CASE raw[f] = Unset
  <2>1. Given(f, raw, base) = <<"number", base[f]>>
    BY <1>2, PolicyNumbers
  <2>. QED  BY <1>1, <1>2, <2>1
<1>3. CASE raw[f] # Unset
  <2>1. /\ Given(f, raw, base) = raw[f] /\ raw[f][2] \in Int
        /\ Least[f] \in {0, 1}
    BY <1>3, PolicyNumbers
  <2>2. ~(raw[f][2] < Least[f])
    BY <1>3, <2>1 DEF Refused
  <2>. QED  BY <1>1, <1>3, <2>1, <2>2
<1>. QED  BY <1>2, <1>3

\* The built-in policy is one of numbers the engine can work with.
LEMMA DefaultsAreNumbers ==
  /\ Defaults \in [PolicyFields -> Int]
  /\ \A f \in PolicyFields : Defaults[f] >= Least[f]
BY DefaultsAssumption DEF DefaultsAssumption

-----------------------------------------------------------------------------
(***************************************************************************)
(* Endpoints (buildEndpoint).                                              *)
(***************************************************************************)

\* The interpolated fields of an endpoint.
LEMMA FieldsOf ==
  ASSUME NEW re
  PROVE  /\ \A g \in Interpolated : Fields(re)[g] = Interpolate(re[g])
         /\ Fields(re).name = Interpolate(re.name)
         /\ Fields(re).host = Interpolate(re.host)
         /\ Fields(re).username = Interpolate(re.username)
         /\ Fields(re).password = Interpolate(re.password)
         /\ Fields(re).privateKey = Interpolate(re.privateKey)
BY DEF Fields, Interpolated

\* A condition gives its fault just when it holds.
LEMMA OnlyWhen ==
  ASSUME NEW condition, NEW fault, NEW x, x \in When(condition, fault)
  PROVE  condition /\ x = fault
BY DEF When

\* A member of many sets together is a member of one of them.
LEMMA OneOfTen ==
  ASSUME NEW A, NEW B, NEW C, NEW D, NEW E, NEW F, NEW G, NEW H, NEW I, NEW J, NEW x
  PROVE  x \in A \cup B \cup C \cup D \cup E \cup F \cup G \cup H \cup I \cup J <=>
           \/ x \in A \/ x \in B \/ x \in C \/ x \in D \/ x \in E
           \/ x \in F \/ x \in G \/ x \in H \/ x \in I \/ x \in J
BY Zenon

\* The checks buildEndpoint makes itself.
HostFaults(re) == When(Fields(re).host = "", <<"host", "required">>)
PortFaults(re) == When(re.port < 0 \/ re.port > 65535, <<"port", "range">>)
UserFaults(re) == When(Fields(re).username = "", <<"username", "required">>)
TLSFaults(re) ==
  When(re.insecureSkipVerify /\ re.protocol # "ftps",
       <<"insecureSkipVerify", "unsupported">>)

\* The checks an endpoint's faults come from.
LEMMA FaultsBySource ==
  ASSUME NEW re, NEW x
  PROVE  x \in EndpointFaults(re) <=>
           \/ x \in UndefinedReferences(re)
           \/ x \in NameFaults(Fields(re).name)
           \/ x \in ProtocolFaults(re.protocol)
           \/ x \in HostFaults(re) \/ x \in PortFaults(re) \/ x \in UserFaults(re)
           \/ x \in AuthFaults(re.protocol, Fields(re))
           \/ x \in TLSFaults(re)
           \/ x \in OverwriteFaults(Fields(re).overwrite)
           \/ x \in KeyFaults(Fields(re).privateKey)
<1>1. EndpointFaults(re) =
        UndefinedReferences(re) \cup NameFaults(Fields(re).name)
          \cup ProtocolFaults(re.protocol) \cup HostFaults(re) \cup PortFaults(re)
          \cup UserFaults(re) \cup AuthFaults(re.protocol, Fields(re)) \cup TLSFaults(re)
          \cup OverwriteFaults(Fields(re).overwrite) \cup KeyFaults(Fields(re).privateKey)
  BY DEF EndpointFaults, HostFaults, PortFaults, UserFaults, TLSFaults
<1>. QED  BY <1>1, OneOfTen, Zenon

\* The other checks are of a field's text: none is about a policy's field, a
\* reference or a name.
LEMMA FaultKinds ==
  ASSUME NEW re, NEW x,
         \/ x \in ProtocolFaults(re.protocol)
         \/ x \in HostFaults(re) \/ x \in PortFaults(re) \/ x \in UserFaults(re)
         \/ x \in AuthFaults(re.protocol, Fields(re))
         \/ x \in TLSFaults(re)
         \/ x \in OverwriteFaults(Fields(re).overwrite)
         \/ x \in KeyFaults(Fields(re).privateKey)
  PROVE  /\ x[2] \in {"required", "unknown", "unsupported", "home"}
              \/ x = <<"port", "range">>
         /\ x[1] # "name" /\ x = <<x[1], x[2]>>
<1>. DEFINE Elsewhere ==
       /\ x[2] \in {"required", "unknown", "unsupported", "home"}
            \/ x = <<"port", "range">>
       /\ x[1] # "name" /\ x = <<x[1], x[2]>>
<1>1. ASSUME x \in ProtocolFaults(re.protocol) PROVE Elsewhere
  <2>1. x = <<"protocol", "required">> \/ x = <<"protocol", "unknown">>
    <3>1. x \in When(re.protocol = "", <<"protocol", "required">>)
            => x = <<"protocol", "required">>
      BY OnlyWhen, Zenon
    <3>2. x \in When(re.protocol \notin Protocols \cup {""}, <<"protocol", "unknown">>)
            => x = <<"protocol", "unknown">>
      BY OnlyWhen, Zenon
    <3>. QED  BY <1>1, <3>1, <3>2, Zenon DEF ProtocolFaults
  <2>. QED  BY <2>1
<1>2. ASSUME x \in HostFaults(re) \/ x \in PortFaults(re) \/ x \in UserFaults(re)
      PROVE  Elsewhere
  <2>1. \/ x = <<"host", "required">> \/ x = <<"port", "range">>
        \/ x = <<"username", "required">>
    <3>1. x \in HostFaults(re) => x = <<"host", "required">>
      BY OnlyWhen, Zenon DEF HostFaults
    <3>2. x \in PortFaults(re) => x = <<"port", "range">>
      BY OnlyWhen DEF PortFaults
    <3>3. x \in UserFaults(re) => x = <<"username", "required">>
      BY OnlyWhen, Zenon DEF UserFaults
    <3>. QED  BY <1>2, <3>1, <3>2, <3>3, Zenon
  <2>. QED  BY <2>1
<1>3. ASSUME x \in AuthFaults(re.protocol, Fields(re)) PROVE Elsewhere
  <2>1. x = <<"privateKey", "unsupported">> \/ x = <<"password", "required">>
    BY <1>3, OnlyWhen, Zenon DEF AuthFaults
  <2>. QED  BY <2>1
<1>4. ASSUME x \in TLSFaults(re) PROVE Elsewhere
  <2>1. x = <<"insecureSkipVerify", "unsupported">>
    BY <1>4, OnlyWhen, Zenon DEF TLSFaults
  <2>. QED  BY <2>1
<1>5. ASSUME x \in OverwriteFaults(Fields(re).overwrite) PROVE Elsewhere
  <2>1. x = <<"overwrite", "unknown">>
    BY <1>5, OnlyWhen, Zenon DEF OverwriteFaults
  <2>. QED  BY <2>1
<1>6. ASSUME x \in KeyFaults(Fields(re).privateKey) PROVE Elsewhere
  <2>1. x = <<"privateKey", "home">>
    BY <1>6, OnlyWhen, Zenon DEF KeyFaults
  <2>. QED  BY <2>1
<1>. HIDE DEF Elsewhere
<1>7. Elsewhere
  BY <1>1, <1>2, <1>3, <1>4, <1>5, <1>6
<1>. QED  BY <1>7 DEF Elsewhere

\* The faults found of an endpoint, by the ones the properties ask about.
LEMMA FaultsFound ==
  ASSUME NEW re
  PROVE  /\ \A f \in PolicyFields : <<f, "range">> \notin EndpointFaults(re)
         /\ \A g \in Interpolated :
              <<g, "undefined">> \in EndpointFaults(re) <=> Undefined(re[g])
         /\ <<"name", "duplicate">> \in EndpointFaults(re)
              <=> Fields(re).name \in seenNames
<1>. DEFINE Elsewhere(x) ==
       \/ x \in ProtocolFaults(re.protocol)
       \/ x \in HostFaults(re) \/ x \in PortFaults(re) \/ x \in UserFaults(re)
       \/ x \in AuthFaults(re.protocol, Fields(re))
       \/ x \in TLSFaults(re)
       \/ x \in OverwriteFaults(Fields(re).overwrite)
       \/ x \in KeyFaults(Fields(re).privateKey)
<1>1. ASSUME NEW x, Elsewhere(x)
      PROVE  /\ x[2] \in {"required", "unknown", "unsupported", "home"}
                  \/ x = <<"port", "range">>
             /\ x[1] # "name"
  BY <1>1, FaultKinds
<1>2. ASSUME NEW x
      PROVE  x \in EndpointFaults(re) <=>
               \/ x \in UndefinedReferences(re)
               \/ x \in NameFaults(Fields(re).name)
               \/ Elsewhere(x)
  BY FaultsBySource, Zenon
<1>. HIDE DEF Elsewhere
<1>3. ASSUME NEW f \in PolicyFields PROVE <<f, "range">> \notin EndpointFaults(re)
  <2>1. ~Elsewhere(<<f, "range">>)
    BY <1>1 DEF PolicyFields, Counts, Durations
  <2>2. <<f, "range">> \notin UndefinedReferences(re)
    BY DEF UndefinedReferences
  <2>3. <<f, "range">> \notin NameFaults(Fields(re).name)
    BY DEF NameFaults, When
  <2>. QED  BY <1>2, <2>1, <2>2, <2>3
<1>4. ASSUME NEW g \in Interpolated
      PROVE  <<g, "undefined">> \in EndpointFaults(re) <=> Undefined(re[g])
  <2>1. ~Elsewhere(<<g, "undefined">>)
    BY <1>1
  <2>2. <<g, "undefined">> \in UndefinedReferences(re) <=> Undefined(re[g])
    BY DEF UndefinedReferences
  <2>3. <<g, "undefined">> \notin NameFaults(Fields(re).name)
    BY DEF NameFaults, When
  <2>. QED  BY <1>2, <2>1, <2>2, <2>3
<1>5. <<"name", "duplicate">> \in EndpointFaults(re) <=> Fields(re).name \in seenNames
  <2>1. ~Elsewhere(<<"name", "duplicate">>)
    BY <1>1
  <2>2. <<"name", "duplicate">> \notin UndefinedReferences(re)
    BY DEF UndefinedReferences
  <2>3. <<"name", "duplicate">> \in NameFaults(Fields(re).name)
          <=> Fields(re).name \in seenNames
    BY DEF NameFaults, When
  <2>. QED  BY <1>2, <2>1, <2>2, <2>3
<1>. QED  BY <1>3, <1>4, <1>5

\* What an endpoint without a fault is like.
FaultFree(re) ==
  /\ \A g \in Interpolated : ~Undefined(re[g])
  /\ "" \notin {Fields(re).name, Fields(re).host, Fields(re).username}
  /\ re.protocol \in Protocols
  /\ IF re.protocol = "sftp"
       THEN Fields(re).password # "" \/ Fields(re).privateKey # ""
       ELSE Fields(re).password # "" /\ Fields(re).privateKey = ""
  /\ Fields(re).privateKey \in DOMAIN Home => env.home

\* No check lets an endpoint pass that is not like that.
LEMMA NoFaultMissed ==
  ASSUME NEW re, EndpointFaults(re) = {}
  PROVE  FaultFree(re)
<1>1. /\ UndefinedReferences(re) = {} /\ NameFaults(Fields(re).name) = {}
      /\ ProtocolFaults(re.protocol) = {} /\ HostFaults(re) = {} /\ UserFaults(re) = {}
      /\ AuthFaults(re.protocol, Fields(re)) = {} /\ KeyFaults(Fields(re).privateKey) = {}
  BY FaultsBySource, Zenon
<1>2. \A g \in Interpolated : ~Undefined(re[g])
  BY <1>1 DEF UndefinedReferences
<1>3. "" \notin {Fields(re).name, Fields(re).host, Fields(re).username}
  BY <1>1 DEF NameFaults, HostFaults, UserFaults, When
<1>4. re.protocol \in Protocols
  BY <1>1 DEF ProtocolFaults, When
<1>5. IF re.protocol = "sftp"
        THEN Fields(re).password # "" \/ Fields(re).privateKey # ""
        ELSE Fields(re).password # "" /\ Fields(re).privateKey = ""
  BY <1>1, <1>4 DEF AuthFaults, When, Protocols
<1>6. Fields(re).privateKey \in DOMAIN Home => env.home
  BY <1>1 DEF KeyFaults, When
<1>. QED  BY <1>2, <1>3, <1>4, <1>5, <1>6 DEF FaultFree

-----------------------------------------------------------------------------
(***************************************************************************)
(* The inductive invariant.                                                *)
(***************************************************************************)

\* The command line, and the files that came of it (checkBasenameCollisions).
LineInv ==
  /\ args \in Seq(Arguments) /\ rest \in Seq(Arguments \ {"--"})
  /\ given \subseteq BoolFlags
  /\ at \in {"args", "flags", "paths", "dir", "config", "stopped", "upload"}
  /\ exit \in {Running, exitOK, exitConfigError, exitUsageError}
  /\ (exit = Running) <=> (at # "stopped")
  /\ at \in {"config", "upload"} => files # <<>> /\ ~Collide(files)

ConfigTypes ==
  /\ config.raw \in [endpoints : Seq(RawEndpoints), policy : RawPolicies]
  /\ loading \in Steps
  /\ globals \in [PolicyFields -> Int]

\* The endpoints built so far are the first ones of the file.
Built ==
  /\ endpoints \in Seq({Endpoint(Raw[i]) : i \in DOMAIN Raw})
  /\ Len(endpoints) <= Len(Raw)
  /\ \A i \in DOMAIN endpoints : endpoints[i] = Endpoint(Raw[i])

\* What the errors collected say of endpoint i.
Said(i) ==
  /\ \A f \in PolicyFields :
       <<i, f, "range">> \in errors <=> Refused(f, Raw[i].policy, globals)
  /\ \A g \in Interpolated : <<i, g, "undefined">> \in errors <=> Undefined(Raw[i][g])
  /\ <<i, "name", "duplicate">> \in errors <=>
       NameOf(i) # "" /\ \E j \in 1..(i - 1) : NameOf(j) = NameOf(i)
  /\ errors = {} => FaultFree(Raw[i])

\* What they say of the file, its first endpoints having been built.
Checked ==
  /\ globals = ResolvePolicy(config.raw.policy, Defaults)
  /\ \A f \in PolicyFields :
       <<0, f, "range">> \in errors <=> Refused(f, config.raw.policy, Defaults)
  /\ errors = {} => Raw # <<>>
  /\ \A error \in errors : error[1] \in 0..Len(endpoints)
  /\ seenNames = {NameOf(j) : j \in 1..Len(endpoints)} \ {""}
  /\ \A i \in 1..Len(endpoints) : Said(i)

LoadInv ==
  /\ loading \in {"idle", "read", "globals"} =>
       endpoints = <<>> /\ errors = {} /\ seenNames = {}
  /\ loading \in {"globals", "endpoints", "loaded"} => config.state = "ok"
  /\ loading = "endpoints" => Checked
  /\ loading \in {"failed", "loaded"} /\ config.state = "ok" =>
       Checked /\ Len(endpoints) = Len(Raw)
  /\ loading = "loaded" => errors = {}
  /\ loading = "failed" /\ config.state = "ok" => errors # {}

\* The configuration is read after the command line, and before the upload; a
\* usage error comes before it.
Order ==
  /\ loading # "idle" => at \in {"config", "stopped", "upload"}
  /\ at = "upload" => loading = "loaded"
  /\ loading \in {"read", "globals", "endpoints"} => at = "config"
  /\ exit = exitUsageError => loading = "idle"

SetupInv == LineInv /\ ConfigTypes /\ Built /\ LoadInv /\ Order

\* A run starts in SetupInv.
LEMMA SetupInvInit == Init => SetupInv
<1>. SUFFICES ASSUME Init PROVE SetupInv
  OBVIOUS
<1>1. PICK in \in Inputs : args = in.args /\ config = in.config
  BY DEF Init
<1>2. /\ args \in Seq(Arguments)
      /\ config.raw \in [endpoints : Seq(RawEndpoints), policy : RawPolicies]
  BY <1>1, InputsAssumption DEF InputsAssumption
<1>3. <<>> \in Seq(Arguments \ {"--"})
  OBVIOUS
<1>4. LineInv
  BY <1>2, <1>3 DEF Init, LineInit, LineInv, Running
<1>5. ConfigTypes
  BY <1>2, DefaultsAreNumbers DEF Init, ConfigInit, ConfigTypes, Steps
<1>6. Built
  <2>1. endpoints = <<>> /\ Len(<<>>) = 0 /\ DOMAIN <<>> = {}
    BY DEF Init, ConfigInit
  <2>2. Len(Raw) \in Nat
    BY <1>2 DEF Raw
  <2>3. <<>> \in Seq({Endpoint(Raw[i]) : i \in DOMAIN Raw})
    OBVIOUS
  <2>. QED  BY <2>1, <2>2, <2>3 DEF Built
<1>. QED
  BY <1>4, <1>5, <1>6
  DEF Init, LineInit, ConfigInit, SetupInv, LoadInv, Order, Running, exitUsageError

\* A raw endpoint means the same as long as the environment stays as it is.
LEMMA MeaningKept ==
  ASSUME UNCHANGED env, NEW re
  PROVE  /\ Fields(re)' = Fields(re) /\ FaultFree(re)' = FaultFree(re)
         /\ \A g \in Interpolated : Undefined(re[g])' <=> Undefined(re[g])
         /\ UNCHANGED globals => Endpoint(re)' = Endpoint(re)
<1>1. \A text : Interpolate(text)' = Interpolate(text)
  BY DEF Interpolate
<1>2. Fields(re)' = Fields(re)
  BY <1>1 DEF Fields
<1>3. \A g \in Interpolated : Undefined(re[g])' <=> Undefined(re[g])
  BY DEF Undefined
<1>4. FaultFree(re)' = FaultFree(re)
  BY <1>2, <1>3 DEF FaultFree
<1>5. ASSUME UNCHANGED globals PROVE Endpoint(re)' = Endpoint(re)
  <2>1. ExpandHome(Fields(re).privateKey)' = ExpandHome(Fields(re).privateKey)
    BY <1>2 DEF ExpandHome
  <2>. QED  BY <1>2, <1>5, <2>1 DEF Endpoint
<1>. QED  BY <1>2, <1>3, <1>4, <1>5

\* So does what the errors say of it.
LEMMA CheckedKept ==
  ASSUME Checked, UNCHANGED <<env, config, globals, seenNames, endpoints, errors>>
  PROVE  Checked'
<1>1. Raw' = Raw
  BY DEF Raw
<1>2. \A i : NameOf(i)' = NameOf(i)
  BY <1>1 DEF NameOf, Interpolate
<1>3. ASSUME NEW i, Said(i) PROVE Said(i)'
  <2>1. FaultFree(Raw[i])' = FaultFree(Raw[i])
    BY <1>1, MeaningKept
  <2>2. \A g \in Interpolated : Undefined(Raw[i][g])' <=> Undefined(Raw[i][g])
    BY <1>1 DEF Undefined
  <2>3. \A f \in PolicyFields :
          Refused(f, Raw[i].policy, globals)' <=> Refused(f, Raw[i].policy, globals)
    BY <1>1
  <2>. QED  BY <1>2, <1>3, <2>1, <2>2, <2>3 DEF Said
<1>. QED  BY <1>1, <1>2, <1>3 DEF Checked

\* The configuration's part of the invariant only looks at its own variables.
LEMMA ConfigUntouched ==
  ASSUME ConfigTypes, Built, LoadInv, UNCHANGED configVars
  PROVE  ConfigTypes' /\ Built' /\ LoadInv'
<1>. USE DEF configVars
<1>1. ConfigTypes'
  BY DEF ConfigTypes
<1>2. Built'
  <2>1. Raw' = Raw
    BY DEF Raw
  <2>2. \A i : Endpoint(Raw[i])' = Endpoint(Raw[i])
    BY <2>1, MeaningKept
  <2>. QED  BY <2>1, <2>2 DEF Built
<1>3. Checked => Checked'
  BY CheckedKept
<1>4. LoadInv'
  BY <1>3 DEF LoadInv, Raw
<1>. QED  BY <1>1, <1>2, <1>4

-----------------------------------------------------------------------------
(***************************************************************************)
(* The steps keep it: first those of the command line.                     *)
(***************************************************************************)

\* Parsing the arguments keeps LineInv.
LEMMA ParseArgsStep ==
  ASSUME LineInv, ParseArgs
  PROVE  LineInv' /\ at \in {"args", "flags"} /\ at' # "config" /\ at' # "upload"
<1>. USE DEF LineInv, Stop, Goto, Running, exitOK, exitConfigError, exitUsageError
<1>. DEFINE S == Arguments \ {"--"}
<1>1. CASE SplitArgs
  <2>. DEFINE n == SplitPoint(args)
  <2>1. args \in Seq(Arguments) /\ Len(args) \in Nat /\ DOMAIN args = 1..Len(args)
    OBVIOUS
  <2>2. CASE n = 0
    <3>1. \A i \in 1..Len(args) : args[i] \in S
      <4>1. \A i \in DOMAIN args : args[i] # "--"
        BY <2>1, <2>2, SplitPointIsFirst
      <4>. QED  BY <2>1, <4>1
    <3>2. args \in Seq(S)
      BY <2>1, <3>1
    <3>3. rest' = args
      BY <1>1, <2>2 DEF SplitArgs
    <3>. HIDE DEF S
    <3>. QED  BY <1>1, <3>2, <3>3 DEF SplitArgs, S
  <2>3. CASE n # 0
    <3>1. n \in 1..Len(args) /\ \A i \in 1..(n - 1) : args[i] # "--"
      BY <2>1, <2>3, SplitPointIsFirst
    <3>2. /\ SubSeq(args, 1, n - 1) \in Seq(Arguments)
          /\ Len(SubSeq(args, 1, n - 1)) = n - 1
          /\ \A i \in 1..(n - 1) : SubSeq(args, 1, n - 1)[i] = args[i]
      <4>. HIDE DEF n
      <4>. QED  BY <2>1, <3>1
    <3>3. rest' = SubSeq(args, 1, n - 1)
      BY <1>1, <2>3 DEF SplitArgs
    <3>. HIDE DEF n
    <3>4. \A i \in 1..Len(rest') : rest'[i] \in S
      <4>1. \A i \in 1..(n - 1) : args[i] \in Arguments
        BY <2>1, <3>1
      <4>. QED  BY <3>1, <3>2, <3>3, <4>1
    <3>5. rest' \in Seq(S)
      BY <3>2, <3>3, <3>4
    <3>. QED  BY <1>1, <3>5 DEF SplitArgs, S
  <2>. QED  BY <2>2, <2>3
<1>2. CASE SetFlag
  BY <1>2 DEF SetFlag, Parsing
<1>3. CASE SetConfig
  <2>1. rest \in Seq(S) /\ Len(rest) > 1
    BY <1>3 DEF SetConfig
  <2>. HIDE DEF S
  <2>2. Tail(Tail(rest)) \in Seq(S)
    BY <2>1, LongTail
  <2>. QED  BY <1>3, <2>2 DEF SetConfig, Parsing, S
<1>4. CASE Positional
  BY <1>4 DEF Positional, Parsing
<1>5. CASE ParseFails
  BY <1>5 DEF ParseFails, Parsing
<1>6. CASE ArgsParsed
  BY <1>6 DEF ArgsParsed, Outcome
<1>. QED  BY <1>1, <1>2, <1>3, <1>4, <1>5, <1>6 DEF ParseArgs

\* So does expanding the paths, which goes on to the configuration only with
\* files whose names do not collide.
LEMMA ExpandPathsStep ==
  ASSUME LineInv, ExpandPaths
  PROVE  LineInv' /\ at \in {"paths", "dir"} /\ at' # "upload"
<1>. USE DEF LineInv, Stop, Goto, Running, exitOK, exitConfigError, exitUsageError
<1>1. CASE ExpandFile
  BY <1>1 DEF ExpandFile, Expanding
<1>2. CASE ReadDir \/ NextEntry \/ EndDir
  BY <1>2 DEF ReadDir, NextEntry, EndDir, Expanding
<1>3. CASE ExpandFails
  BY <1>3 DEF ExpandFails, Expanding
<1>4. CASE FilesChecked
  <2>1. Collide(files)' = Collide(files)
    BY <1>4 DEF FilesChecked, Collide
  <2>2. CASE Collide(files) \/ files = <<>>
    BY <1>4, <2>2 DEF FilesChecked
  <2>3. CASE ~(Collide(files) \/ files = <<>>)
    BY <1>4, <2>1, <2>3 DEF FilesChecked
  <2>. QED  BY <2>2, <2>3
<1>. QED  BY <1>1, <1>2, <1>3, <1>4 DEF ExpandPaths

\* The command line's part of the invariant only looks at its own variables.
LEMMA LineUntouched ==
  ASSUME LineInv, UNCHANGED lineVars
  PROVE  LineInv'
<1>1. Collide(files)' = Collide(files)
  BY DEF lineVars, Collide
<1>. QED  BY <1>1 DEF LineInv, lineVars

\* A step of the command line keeps SetupInv.
LEMMA LineStep ==
  ASSUME SetupInv, ParseArgs \/ ExpandPaths, UNCHANGED configVars
  PROVE  SetupInv'
<1>1. LineInv' /\ at \in {"args", "flags", "paths", "dir"} /\ at' # "upload"
  BY ParseArgsStep, ExpandPathsStep DEF SetupInv
<1>2. ConfigTypes' /\ Built' /\ LoadInv'
  BY ConfigUntouched DEF SetupInv
<1>3. Order'
  BY <1>1 DEF SetupInv, Order, configVars
<1>. QED  BY <1>1, <1>2, <1>3 DEF SetupInv

-----------------------------------------------------------------------------
(***************************************************************************)
(* Then those of LoadConfig.                                               *)
(***************************************************************************)

\* Reading the file, and resolving its policy.
LEMMA ReadConfigStep ==
  ASSUME ConfigTypes, Built, LoadInv, ReadConfig
  PROVE  ConfigTypes' /\ Built' /\ LoadInv'
<1>1. ConfigTypes'
  BY DEF ReadConfig, ConfigTypes, Steps
<1>2. Built'
  <2>1. Raw' = Raw
    BY DEF ReadConfig, Raw
  <2>2. \A i : Endpoint(Raw[i])' = Endpoint(Raw[i])
    BY <2>1, MeaningKept DEF ReadConfig
  <2>. QED  BY <2>1, <2>2 DEF Built, ReadConfig
<1>3. LoadInv'
  BY DEF ReadConfig, LoadInv
<1>. QED  BY <1>1, <1>2, <1>3

LEMMA ResolveGlobalsStep ==
  ASSUME ConfigTypes, Built, LoadInv, ResolveGlobals
  PROVE  ConfigTypes' /\ Built' /\ LoadInv'
<1>. DEFINE raw == config.raw.policy
<1>1. /\ raw \in RawPolicies /\ Raw \in Seq(RawEndpoints)
      /\ Defaults \in [PolicyFields -> Int]
  BY DefaultsAreNumbers DEF ConfigTypes, Raw
<1>2. /\ endpoints = <<>> /\ endpoints' = <<>> /\ seenNames' = {}
      /\ config.state = "ok" /\ UNCHANGED config /\ UNCHANGED seenNames
  BY DEF ResolveGlobals, LoadInv
<1>3. globals' = ResolvePolicy(raw, Defaults)
  BY DEF ResolveGlobals
<1>4. ConfigTypes'
  <2>1. ResolvePolicy(raw, Defaults) \in [PolicyFields -> Int]
    BY <1>1, ResolvedTypes
  <2>. QED  BY <1>3, <2>1 DEF ResolveGlobals, ConfigTypes, Steps
<1>5. Built'
  <2>1. Len(<<>>) = 0 /\ DOMAIN <<>> = {} /\ Len(Raw) \in Nat /\ Raw' = Raw
    BY <1>1, <1>2 DEF Raw
  <2>2. <<>> \in Seq({Endpoint(Raw[i]) : i \in DOMAIN Raw}')
    OBVIOUS
  <2>. QED  BY <1>2, <2>1, <2>2 DEF Built
<1>6. /\ \A f \in PolicyFields : <<0, f, "range">> \in errors' <=> Refused(f, raw, Defaults)
      /\ \A error \in errors' : error[1] = 0
      /\ errors' = {} => Raw # <<>>
  <2>1. errors' = PolicyErrors(raw, Defaults, 0)
                    \cup When(Raw = <<>>, <<0, "endpoints", "required">>)
    BY DEF ResolveGlobals
  <2>2. \A f \in PolicyFields :
          /\ <<0, f, "range">> \in PolicyErrors(raw, Defaults, 0) <=> Refused(f, raw, Defaults)
          /\ <<0, f, "range">> \notin When(Raw = <<>>, <<0, "endpoints", "required">>)
    BY DEF PolicyErrors, When
  <2>3. \A error \in PolicyErrors(raw, Defaults, 0) : error[1] = 0
    BY DEF PolicyErrors
  <2>4. \A error \in When(Raw = <<>>, <<0, "endpoints", "required">>) : error[1] = 0
    BY DEF When
  <2>5. errors' = {} => Raw # <<>>
    BY <2>1 DEF When
  <2>. QED  BY <2>1, <2>2, <2>3, <2>4, <2>5
<1>7. Checked'
  <2>1. Len(endpoints') = 0 /\ 1..0 = {} /\ Raw' = Raw
    BY <1>2 DEF Raw
  <2>. HIDE DEF raw
  <2>2. raw' = raw
    BY <1>2 DEF raw
  <2>3. \A f \in PolicyFields : Refused(f, raw, Defaults)' <=> Refused(f, raw, Defaults)
    BY <2>2 DEF Refused, Given
  <2>4. ResolvePolicy(raw, Defaults)' = ResolvePolicy(raw, Defaults)
    BY <2>2
  <2>. QED  BY <1>2, <1>3, <1>6, <2>1, <2>2, <2>3, <2>4 DEF Checked, raw
<1>8. LoadInv'
  BY <1>2, <1>7 DEF LoadInv, ResolveGlobals
<1>. QED  BY <1>4, <1>5, <1>8

\* What building the next endpoint adds to the errors: nothing about the places
\* before it, and at its own all that is wrong with it.
LEMMA ErrorsAdded ==
  ASSUME ConfigTypes, Built, Checked, BuildEndpoint
  PROVE  /\ Place \in 1..Len(Raw) /\ Raw[Place] \in RawEndpoints
         /\ \A i \in 0..Len(endpoints) : \A f, fault :
              <<i, f, fault>> \in errors' <=> <<i, f, fault>> \in errors
         /\ \A f, fault :
              <<Place, f, fault>> \in errors' <=>
                \/ <<Place, f, fault>> \in PolicyErrors(Raw[Place].policy, globals, Place)
                \/ <<f, fault>> \in EndpointFaults(Raw[Place])
         /\ \A error \in errors' : error[1] \in 0..Place
         /\ errors' = {} =>
              errors = {} /\ EndpointFaults(Raw[Place]) = {}
<1>. DEFINE p == Place
            Policy == PolicyErrors(Raw[p].policy, globals, p)
            Found == {<<p, fault[1], fault[2]>> : fault \in EndpointFaults(Raw[p])}
<1>1. /\ Raw \in Seq(RawEndpoints) /\ Len(endpoints) \in Nat
      /\ p = Len(endpoints) + 1 /\ p <= Len(Raw)
  BY DEF ConfigTypes, Built, Raw, BuildEndpoint, Place
<1>2. p \in 1..Len(Raw) /\ Raw[p] \in RawEndpoints
  <2>. HIDE DEF p
  <2>1. Len(Raw) \in Nat /\ \A i \in 1..Len(Raw) : Raw[i] \in RawEndpoints
    BY <1>1
  <2>. QED  BY <1>1, <2>1
<1>3. errors' = errors \cup Policy \cup Found
  BY DEF BuildEndpoint
<1>4. \A error \in errors : error[1] \in 0..Len(endpoints)
  BY DEF Checked
<1>5. /\ \A error \in Policy : error[1] = p
      /\ \A error \in Found : error[1] = p
  BY DEF PolicyErrors
<1>6. \A x \in EndpointFaults(Raw[p]) : x = <<x[1], x[2]>>
  <2>1. ASSUME NEW x \in EndpointFaults(Raw[p]) PROVE x = <<x[1], x[2]>>
    <3>. DEFINE Pair == x = <<x[1], x[2]>>
                Elsewhere ==
                  \/ x \in ProtocolFaults(Raw[p].protocol)
                  \/ x \in HostFaults(Raw[p]) \/ x \in PortFaults(Raw[p])
                  \/ x \in UserFaults(Raw[p])
                  \/ x \in AuthFaults(Raw[p].protocol, Fields(Raw[p]))
                  \/ x \in TLSFaults(Raw[p])
                  \/ x \in OverwriteFaults(Fields(Raw[p]).overwrite)
                  \/ x \in KeyFaults(Fields(Raw[p]).privateKey)
    <3>1. x \in UndefinedReferences(Raw[p]) => Pair
      BY DEF UndefinedReferences
    <3>2. ASSUME x \in NameFaults(Fields(Raw[p]).name) PROVE Pair
      <4>1. x = <<"name", "required">> \/ x = <<"name", "duplicate">>
        <5>1. \A name : x \in When(name = "", <<"name", "required">>)
                => x = <<"name", "required">>
          BY OnlyWhen, Zenon
        <5>2. \A name : x \in When(name \in seenNames, <<"name", "duplicate">>)
                => x = <<"name", "duplicate">>
          BY OnlyWhen, Zenon
        <5>. QED  BY <3>2, <5>1, <5>2, Zenon DEF NameFaults
      <4>. QED  BY <4>1
    <3>3. Elsewhere => Pair
      BY FaultKinds
    <3>. HIDE DEF Pair
    <3>4. \/ x \in UndefinedReferences(Raw[p])
          \/ x \in NameFaults(Fields(Raw[p]).name)
          \/ Elsewhere
      BY FaultsBySource, Zenon
    <3>5. Pair
      BY <3>1, <3>2, <3>3, <3>4
    <3>. QED  BY <3>5 DEF Pair
  <2>. QED  BY <2>1
<1>7. \A f, fault : <<p, f, fault>> \in Found <=> <<f, fault>> \in EndpointFaults(Raw[p])
  BY <1>6
<1>. HIDE DEF Policy, Found, p
<1>8. \A i \in 0..Len(endpoints) : i # p
  BY <1>1
<1>9. \A i \in 0..Len(endpoints) : \A f, fault :
        <<i, f, fault>> \in errors' <=> <<i, f, fault>> \in errors
  BY <1>3, <1>5, <1>8
<1>10. \A f, fault : <<p, f, fault>> \in errors' <=>
         <<p, f, fault>> \in Policy \/ <<f, fault>> \in EndpointFaults(Raw[p])
  BY <1>3, <1>4, <1>7, <1>8
<1>11. \A error \in errors' : error[1] \in 0..p
  BY <1>1, <1>3, <1>4, <1>5
<1>12. errors' = {} => errors = {} /\ EndpointFaults(Raw[p]) = {}
  BY <1>3 DEF Found
<1>. QED  BY <1>2, <1>9, <1>10, <1>11, <1>12 DEF p, Policy

\* What was said of a place stays as it is when the errors there do.
LEMMA SaidKept ==
  ASSUME NEW i \in Nat, UNCHANGED <<env, config, globals>>, errors' = {} => errors = {},
         \A f, fault : <<i, f, fault>> \in errors' <=> <<i, f, fault>> \in errors,
         Said(i)
  PROVE  Said(i)'
<1>1. Raw' = Raw
  BY DEF Raw
<1>2. \A j : NameOf(j)' = NameOf(j)
  BY <1>1 DEF NameOf, Interpolate
<1>3. FaultFree(Raw[i])' = FaultFree(Raw[i])
  BY <1>1, MeaningKept
<1>4. \A g \in Interpolated : Undefined(Raw[i][g])' <=> Undefined(Raw[i][g])
  BY <1>1 DEF Undefined
<1>5. \A f \in PolicyFields :
        Refused(f, Raw[i].policy, globals)' <=> Refused(f, Raw[i].policy, globals)
  BY <1>1
<1>6. errors' = {} => FaultFree(Raw[i])'
  BY <1>3 DEF Said
<1>. QED  BY <1>1, <1>2, <1>4, <1>5, <1>6 DEF Said

\* Building an endpoint says of it all there is to say.
LEMMA EndpointSaid ==
  ASSUME ConfigTypes, Built, Checked, BuildEndpoint, NEW p, p = Place
  PROVE  Said(p)'
<1>. PICK re : re = Raw[p]
  OBVIOUS
<1>1. /\ \A f, fault :
           <<p, f, fault>> \in errors' <=>
              <<p, f, fault>> \in PolicyErrors(re.policy, globals, p)
                \/ <<f, fault>> \in EndpointFaults(re)
      /\ errors' = {} => EndpointFaults(re) = {}
  BY ErrorsAdded
<1>2. /\ UNCHANGED env /\ UNCHANGED config /\ UNCHANGED globals /\ Raw' = Raw
  BY DEF BuildEndpoint, Raw
<1>3. /\ \A f \in PolicyFields : <<f, "range">> \notin EndpointFaults(re)
      /\ \A g \in Interpolated : <<g, "undefined">> \in EndpointFaults(re) <=> Undefined(re[g])
      /\ <<"name", "duplicate">> \in EndpointFaults(re) <=> Fields(re).name \in seenNames
  BY FaultsFound
<1>4. \A f, fault :
        <<p, f, fault>> \in PolicyErrors(re.policy, globals, p)
          <=> fault = "range" /\ f \in PolicyFields /\ Refused(f, re.policy, globals)
  BY DEF PolicyErrors
<1>5. Len(endpoints) \in Nat /\ p = Len(endpoints) + 1
  BY DEF Built, Place
<1>6. \A f \in PolicyFields :
        <<p, f, "range">> \in errors' <=> Refused(f, re.policy, globals)
  BY <1>1, <1>3, <1>4
<1>7. \A g \in Interpolated : <<p, g, "undefined">> \in errors' <=> Undefined(re[g])
  <2>1. "undefined" # "range"
    OBVIOUS
  <2>. QED  BY <2>1, <1>1, <1>3, <1>4
<1>8. <<p, "name", "duplicate">> \in errors' <=>
        NameOf(p) # "" /\ \E j \in 1..(p - 1) : NameOf(j) = NameOf(p)
  <2>1. NameOf(p) = Fields(re).name
    BY FieldsOf DEF NameOf
  <2>2. <<p, "name", "duplicate">> \in errors' <=> NameOf(p) \in seenNames
    <3>1. "duplicate" # "range"
      OBVIOUS
    <3>. QED  BY <1>1, <1>3, <1>4, <2>1, <3>1
  <2>3. NameOf(p) \in seenNames <=>
          NameOf(p) # "" /\ \E j \in 1..Len(endpoints) : NameOf(j) = NameOf(p)
    BY DEF Checked
  <2>4. p - 1 = Len(endpoints)
    BY <1>5
  <2>. QED  BY <2>2, <2>3, <2>4
<1>9. errors' = {} => FaultFree(re)
  BY <1>1, NoFaultMissed
<1>10. /\ \A g \in Interpolated : Undefined(re[g])' <=> Undefined(re[g])
       /\ FaultFree(re)' = FaultFree(re)
       /\ \A j : NameOf(j)' = NameOf(j)
  <2>1. \A j : NameOf(j)' = NameOf(j)
    BY <1>2 DEF NameOf, Interpolate
  <2>. QED  BY <1>2, <2>1, MeaningKept
<1>11. Raw'[p] = re /\ globals' = globals
  BY <1>2
<1>12. \A f \in PolicyFields :
         Refused(f, Raw[p].policy, globals)' <=> Refused(f, re.policy, globals)
  BY <1>11
<1>. QED  BY <1>6, <1>7, <1>8, <1>9, <1>10, <1>11, <1>12 DEF Said

LEMMA BuildEndpointStep ==
  ASSUME ConfigTypes, Built, LoadInv, BuildEndpoint
  PROVE  ConfigTypes' /\ Built' /\ LoadInv'
<1>1. PICK p : p = Place
  OBVIOUS
<1>2. Checked /\ loading = "endpoints"
  BY DEF LoadInv, BuildEndpoint
<1>3. /\ Len(endpoints) \in Nat /\ p = Len(endpoints) + 1
      /\ DOMAIN endpoints = 1..Len(endpoints)
  BY <1>1 DEF Built, Place
<1>4. /\ p \in 1..Len(Raw)
      /\ \A i \in 0..Len(endpoints) : \A f, fault :
           <<i, f, fault>> \in errors' <=> <<i, f, fault>> \in errors
      /\ \A error \in errors' : error[1] \in 0..p
      /\ errors' = {} => errors = {}
  BY <1>1, <1>2, ErrorsAdded
<1>5. /\ UNCHANGED <<env, config, loading, globals>> /\ Raw' = Raw
      /\ endpoints' = Append(endpoints, Endpoint(Raw[p]))
      /\ seenNames' = Remember(Fields(Raw[p]).name)
  BY <1>1 DEF BuildEndpoint, Raw
<1>6. /\ Len(endpoints') = p /\ DOMAIN endpoints' = 1..p
      /\ endpoints'[p] = Endpoint(Raw[p])
      /\ \A i \in 1..Len(endpoints) : endpoints'[i] = endpoints[i]
  <2>1. endpoints \in Seq({Endpoint(Raw[i]) : i \in DOMAIN Raw})
    BY DEF Built
  <2>. QED  BY <1>3, <1>5, <2>1
<1>7. \A i : i \in 1..p => i = p \/ i \in 1..Len(endpoints)
  BY <1>3
<1>8. ConfigTypes'
  BY <1>5 DEF ConfigTypes
<1>9. Built'
  <2>1. \A i : Endpoint(Raw[i])' = Endpoint(Raw[i])
    BY <1>5, MeaningKept
  <2>2. Raw \in Seq(RawEndpoints) /\ DOMAIN Raw = 1..Len(Raw)
    BY DEF ConfigTypes, Raw
  <2>3. \A i \in 1..p : endpoints'[i] = Endpoint(Raw[i])
    BY <1>3, <1>6, <1>7 DEF Built
  <2>4. endpoints' \in Seq({Endpoint(Raw[i]) : i \in DOMAIN Raw})
    <3>1. Endpoint(Raw[p]) \in {Endpoint(Raw[i]) : i \in DOMAIN Raw}
      BY <1>4, <2>2
    <3>. QED  BY <1>5, <3>1 DEF Built
  <2>5. Len(endpoints') <= Len(Raw)
    BY <1>4, <1>6, <2>2
  <2>. QED  BY <1>5, <1>6, <2>1, <2>3, <2>4, <2>5 DEF Built
<1>10. \A i \in 1..p : Said(i)'
  <2>1. Said(p)'
    BY <1>1, <1>2, EndpointSaid
  <2>2. ASSUME NEW i \in 1..Len(endpoints) PROVE Said(i)'
    <3>1. Said(i)
      BY <1>2, Zenon DEF Checked
    <3>2. i \in Nat /\ i \in 0..Len(endpoints)
      BY <1>3
    <3>. QED  BY <1>4, <1>5, <3>1, <3>2, SaidKept
  <2>. QED  BY <1>7, <2>1, <2>2
<1>11. seenNames' = {NameOf(j)' : j \in 1..p} \ {""}
  <2>1. Fields(Raw[p]).name = NameOf(p) /\ \A j : NameOf(j)' = NameOf(j)
    <3>1. Fields(Raw[p]).name = NameOf(p)
      BY FieldsOf DEF NameOf
    <3>. QED  BY <1>5, <3>1 DEF NameOf, Interpolate
  <2>2. seenNames = {NameOf(j) : j \in 1..Len(endpoints)} \ {""}
    BY <1>2 DEF Checked
  <2>3. seenNames' = seenNames \cup ({NameOf(p)} \ {""})
    BY <1>5, <2>1 DEF Remember
  <2>4. p \in 1..p /\ \A j \in 1..Len(endpoints) : j \in 1..p
    BY <1>3
  <2>5. {NameOf(j)' : j \in 1..p} = {NameOf(j) : j \in 1..Len(endpoints)} \cup {NameOf(p)}
    BY <1>7, <2>1, <2>4
  <2>. QED  BY <2>2, <2>3, <2>5
<1>12. Checked'
  <2>1. \A f \in PolicyFields : <<0, f, "range">> \in errors' <=> <<0, f, "range">> \in errors
    BY <1>3, <1>4
  <2>2. \A f \in PolicyFields :
          Refused(f, config.raw.policy, Defaults)' <=> Refused(f, config.raw.policy, Defaults)
    BY <1>5
  <2>3. ResolvePolicy(config.raw.policy, Defaults)' = ResolvePolicy(config.raw.policy, Defaults)
    BY <1>5
  <2>. QED  BY <1>2, <1>4, <1>5, <1>6, <1>10, <1>11, <2>1, <2>2, <2>3 DEF Checked
<1>13. LoadInv'
  BY <1>2, <1>5, <1>12 DEF LoadInv
<1>. QED  BY <1>8, <1>9, <1>13

\* At the end of the file the errors decide.
LEMMA FinishLoadingStep ==
  ASSUME ConfigTypes, Built, LoadInv, FinishLoading
  PROVE  ConfigTypes' /\ Built' /\ LoadInv'
<1>1. /\ Checked /\ loading = "endpoints" /\ config.state = "ok"
      /\ UNCHANGED <<env, config, globals, seenNames, endpoints, errors>>
  BY DEF LoadInv, FinishLoading
<1>2. ConfigTypes'
  BY <1>1 DEF ConfigTypes, FinishLoading, Steps
<1>3. Raw' = Raw /\ Len(endpoints) = Len(Raw)
  <2>1. Len(Raw) \in Nat /\ Len(endpoints) \in Nat
    BY DEF ConfigTypes, Built, Raw
  <2>. QED  BY <1>1, <2>1 DEF Raw, Built, FinishLoading, Place
<1>4. Built'
  <2>1. \A i : Endpoint(Raw[i])' = Endpoint(Raw[i])
    BY <1>1, <1>3, MeaningKept
  <2>. QED  BY <1>1, <1>3, <2>1 DEF Built
<1>5. Checked'
  BY <1>1, CheckedKept
<1>6. LoadInv'
  BY <1>1, <1>3, <1>5 DEF LoadInv, FinishLoading
<1>. QED  BY <1>2, <1>4, <1>6

-----------------------------------------------------------------------------
(***************************************************************************)
(* Every step keeps it.                                                    *)
(***************************************************************************)

\* Opening the configuration, and what becomes of it.
LEMMA OpenConfigStep ==
  ASSUME SetupInv, OpenConfig
  PROVE  SetupInv'
<1>1. UNCHANGED <<lineVars, env, config, globals, seenNames, endpoints, errors>>
  BY DEF OpenConfig
<1>2. LineInv'
  BY <1>1, LineUntouched DEF SetupInv
<1>3. ConfigTypes'
  BY DEF SetupInv, ConfigTypes, OpenConfig, Steps
<1>4. Built'
  <2>1. Raw' = Raw
    BY <1>1 DEF Raw
  <2>2. \A i : Endpoint(Raw[i])' = Endpoint(Raw[i])
    BY <1>1, <2>1, MeaningKept
  <2>. QED  BY <1>1, <2>1, <2>2 DEF Built, SetupInv
<1>5. LoadInv'
  BY <1>1 DEF SetupInv, LoadInv, OpenConfig
<1>6. Order'
  BY <1>1 DEF SetupInv, LineInv, Order, OpenConfig, lineVars, Running, exitUsageError
<1>. QED  BY <1>2, <1>3, <1>4, <1>5, <1>6 DEF SetupInv

LEMMA ConfigDoneStep ==
  ASSUME SetupInv, ConfigDone
  PROVE  SetupInv'
<1>1. UNCHANGED configVars /\ UNCHANGED <<args, rest, given, files>> /\ at = "config"
  BY DEF ConfigDone
<1>2. LineInv'
  <2>1. Collide(files)' = Collide(files)
    BY <1>1 DEF Collide
  <2>. QED
    BY <1>1, <2>1 DEF SetupInv, LineInv, ConfigDone, Stop, Goto, Running, exitOK,
       exitConfigError, exitUsageError
<1>3. ConfigTypes' /\ Built' /\ LoadInv'
  BY <1>1, ConfigUntouched DEF SetupInv
<1>4. Order'
  BY <1>1 DEF SetupInv, LineInv, Order, ConfigDone, Stop, Goto, configVars, Running,
     exitUsageError, exitConfigError
<1>. QED  BY <1>2, <1>3, <1>4 DEF SetupInv

\* A step of LoadConfig.
LEMMA LoadStep ==
  ASSUME SetupInv, LoadConfig, UNCHANGED lineVars
  PROVE  SetupInv'
<1>1. LineInv'
  BY LineUntouched DEF SetupInv
<1>2. ConfigTypes' /\ Built' /\ LoadInv'
  BY ReadConfigStep, ResolveGlobalsStep, BuildEndpointStep, FinishLoadingStep
     DEF SetupInv, LoadConfig
<1>3. loading \notin {"idle", "loaded", "failed"}
  BY DEF LoadConfig, ReadConfig, ResolveGlobals, BuildEndpoint, FinishLoading
<1>4. at = "config"
  BY <1>3 DEF SetupInv, ConfigTypes, Steps, Order
<1>5. Order'
  BY <1>4 DEF SetupInv, LineInv, Running, exitUsageError, Order, LoadConfig, ReadConfig, ResolveGlobals, BuildEndpoint, FinishLoading,
     lineVars
<1>. QED  BY <1>1, <1>2, <1>5 DEF SetupInv

LEMMA SetupInvNext == SetupInv /\ [Next]_vars => SetupInv'
<1>. SUFFICES ASSUME SetupInv, [Next]_vars PROVE SetupInv'
  OBVIOUS
<1>1. CASE (ParseArgs \/ ExpandPaths) /\ UNCHANGED configVars
  BY <1>1, LineStep
<1>2. CASE OpenConfig
  BY <1>2, OpenConfigStep
<1>3. CASE LoadConfig /\ UNCHANGED lineVars
  BY <1>3, LoadStep
<1>4. CASE ConfigDone
  BY <1>4, ConfigDoneStep
<1>5. CASE UNCHANGED vars
  <2>1. UNCHANGED lineVars /\ UNCHANGED configVars
    BY <1>5 DEF vars
  <2>2. LineInv' /\ ConfigTypes' /\ Built' /\ LoadInv'
    BY <2>1, LineUntouched, ConfigUntouched DEF SetupInv
  <2>3. Order'
    BY <2>1 DEF SetupInv, Order, lineVars, configVars
  <2>. QED  BY <2>2, <2>3 DEF SetupInv
<1>. QED  BY <1>1, <1>2, <1>3, <1>4, <1>5 DEF Next, Settled

LEMMA SetupInvHolds == Spec => []SetupInv
BY SetupInvInit, SetupInvNext, PTL DEF Spec

-----------------------------------------------------------------------------
(***************************************************************************)
(* What follows from it.                                                   *)
(***************************************************************************)

\* The values of the top level that were not refused, and those that were.
LEMMA TopLevel ==
  ASSUME SetupInv, Checked, NEW f \in PolicyFields
  PROVE  /\ <<0, f, "range">> \in errors <=> Bad(f, config.raw.policy[f])
         /\ <<0, f, "range">> \notin errors =>
              /\ globals[f] = IF config.raw.policy[f] = Unset THEN Defaults[f]
                                                              ELSE config.raw.policy[f][2]
              /\ globals[f] >= Least[f]
<1>. DEFINE raw == config.raw.policy
<1>1. /\ raw \in RawPolicies /\ Defaults \in [PolicyFields -> Int]
      /\ Defaults[f] >= Least[f]
  BY DefaultsAreNumbers DEF SetupInv, ConfigTypes
<1>2. /\ <<0, f, "range">> \in errors <=> Refused(f, raw, Defaults)
      /\ globals = ResolvePolicy(raw, Defaults)
  BY DEF Checked
<1>. HIDE DEF raw
<1>3. Refused(f, raw, Defaults) <=> Bad(f, raw[f])
  <2>1. /\ raw[f] # Unset => (Refused(f, raw, Defaults) <=> Bad(f, raw[f]))
        /\ raw[f] = Unset => ~Bad(f, raw[f])
        /\ raw[f] = Unset =>
             (Refused(f, raw, Defaults) <=> f \in Durations /\ Defaults[f] < Least[f])
    BY <1>1, RefusedIsBad
  <2>2. ~(Defaults[f] < Least[f])
    <3>1. Defaults[f] \in Int /\ Least[f] \in {0, 1}
      BY <1>1, PolicyNumbers
    <3>. QED  BY <1>1, <3>1
  <2>. QED  BY <2>1, <2>2
<1>4. ~Refused(f, raw, Defaults) =>
        /\ globals[f] = IF raw[f] = Unset THEN Defaults[f] ELSE raw[f][2]
        /\ globals[f] >= Least[f]
  BY <1>1, <1>2, AcceptedPolicy
<1>. QED  BY <1>2, <1>3, <1>4 DEF raw

\* The variables keep their types, and only a run that stopped has an exit code
\* (run): SetupTypeOK.
THEOREM SetupTypesHold == Spec => []SetupTypeOK
<1>1. SetupInv => SetupTypeOK
  <2>. SUFFICES ASSUME SetupInv PROVE SetupTypeOK
    OBVIOUS
  <2>1. Range(rest) \subseteq Arguments \ {"--"}
    <3>. DEFINE S == Arguments \ {"--"}
    <3>1. rest \in Seq(S)
      BY DEF SetupInv, LineInv
    <3>. HIDE DEF S
    <3>2. Range(rest) \subseteq S
      BY <3>1 DEF Range
    <3>. QED  BY <3>2 DEF S
  <2>. QED
    BY <2>1 DEF SetupInv, LineInv, ConfigTypes, Order, SetupTypeOK
<1>. QED  BY <1>1, SetupInvHolds, PTL

\* With an accepted file every endpoint runs with the value the innermost layer
\* sets, a zero included (resolvePolicy): PolicyIsLayered.
THEOREM LayersDecide == Spec => []PolicyIsLayered
<1>1. SetupInv => PolicyIsLayered
  <2>. SUFFICES ASSUME SetupInv, loading = "loaded",
                       NEW i \in DOMAIN Raw, NEW f \in PolicyFields
                PROVE  endpoints[i].policy[f] = Layered(f, i)
    BY DEF PolicyIsLayered
  <2>. DEFINE own == Raw[i].policy
              top == config.raw.policy
  <2>1. /\ Checked /\ errors = {} /\ Len(endpoints) = Len(Raw)
        /\ globals \in [PolicyFields -> Int]
    BY DEF SetupInv, LoadInv, ConfigTypes
  <2>2. Raw \in Seq(RawEndpoints) /\ i \in 1..Len(Raw) /\ own \in RawPolicies
    <3>1. Raw \in Seq(RawEndpoints)
      BY DEF SetupInv, ConfigTypes, Raw
    <3>2. i \in 1..Len(Raw) /\ Raw[i] \in RawEndpoints
      BY <3>1
    <3>. QED  BY <3>1, <3>2 DEF RawEndpoints
  <2>3. endpoints[i].policy = ResolvePolicy(own, globals)
    <3>1. endpoints[i] = Endpoint(Raw[i])
      BY <2>1, <2>2 DEF SetupInv, Built
    <3>. QED  BY <3>1 DEF Endpoint
  <2>4. ~Refused(f, own, globals)
    <3>1. Said(i)
      BY <2>1, <2>2 DEF Checked
    <3>. QED  BY <2>1, <3>1 DEF Said
  <2>5. globals[f] = IF top[f] = Unset THEN Defaults[f] ELSE top[f][2]
    BY <2>1, TopLevel
  <2>6. endpoints[i].policy[f] = IF own[f] = Unset THEN globals[f] ELSE own[f][2]
    BY <2>1, <2>2, <2>3, <2>4, AcceptedPolicy
  <2>7. <<"number", Defaults[f]>> # Unset
    BY DEF Unset
  <2>8. Layered(f, i) = IF own[f] # Unset THEN own[f][2]
                        ELSE IF top[f] # Unset THEN top[f][2] ELSE Defaults[f]
    <3>. DEFINE L == Layers(f, i)
                set == {n \in 1..3 : L[n] # Unset}
                innermost == CHOOSE n \in set : \A m \in set : n <= m
    <3>1. /\ L[1] = own[f] /\ L[2] = top[f] /\ L[3] = <<"number", Defaults[f]>>
          /\ L[3][2] = Defaults[f]
      BY DEF Layers
    <3>2. Layered(f, i) = L[innermost][2]
      BY DEF Layered
    <3>. HIDE DEF L, own, top
    <3>3. /\ \A n \in set : n \in {1, 2, 3} /\ L[n] # Unset
          /\ \A n \in {1, 2, 3} : L[n] # Unset => n \in set
      OBVIOUS
    <3>4. 3 \in set
      BY <2>7, <3>1, <3>3
    <3>. HIDE DEF set
    <3>5. \E n \in set : \A m \in set : n <= m
      BY <3>3, <3>4
    <3>6. innermost \in set /\ \A m \in set : innermost <= m
      BY <3>5
    <3>. HIDE DEF innermost
    <3>7. CASE own[f] # Unset
      BY <3>1, <3>2, <3>3, <3>6, <3>7
    <3>8. CASE own[f] = Unset /\ top[f] # Unset
      BY <3>1, <3>2, <3>3, <3>6, <3>8
    <3>9. CASE own[f] = Unset /\ top[f] = Unset
      BY <3>1, <3>2, <3>3, <3>6, <3>9
    <3>. QED  BY <3>7, <3>8, <3>9
  <2>. QED  BY <2>5, <2>6, <2>8
<1>. QED  BY <1>1, SetupInvHolds, PTL

\* Every fault is reported at its place, and nothing without a cause
\* (LoadConfig): ErrorsMatchFaults.
THEOREM FaultsAreReported == Spec => []ErrorsMatchFaults
<1>1. SetupInv => ErrorsMatchFaults
  <2>. SUFFICES ASSUME SetupInv, loading \in {"failed", "loaded"}, config.state = "ok"
                PROVE  ErrorsMatchFaults
    BY DEF ErrorsMatchFaults
  <2>1. /\ Checked /\ Len(endpoints) = Len(Raw) /\ globals \in [PolicyFields -> Int]
        /\ Raw \in Seq(RawEndpoints)
    BY DEF SetupInv, LoadInv, ConfigTypes, Raw
  <2>2. ASSUME NEW i \in DOMAIN Raw
        PROVE  i \in 1..Len(Raw) /\ i # 0 /\ Said(i) /\ Raw[i].policy \in RawPolicies
    <3>1. i \in 1..Len(Raw) /\ Raw[i] \in RawEndpoints
      BY <2>1
    <3>2. Said(i)
      BY <2>1, <3>1 DEF Checked
    <3>. QED  BY <3>1, <3>2 DEF RawEndpoints
  <2>3. ASSUME NEW f \in PolicyFields
        PROVE  <<0, f, "range">> \in errors <=> BadAt(0, f)
    BY <2>1, TopLevel DEF BadAt
  <2>4. ASSUME NEW i \in DOMAIN Raw, NEW f \in PolicyFields
        PROVE  /\ BadAt(i, f) => <<i, f, "range">> \in errors
               /\ <<i, f, "range">> \in errors =>
                    BadAt(i, f) \/ (Raw[i].policy[f] = Unset /\ BadAt(0, f))
    <3>. DEFINE own == Raw[i].policy
    <3>1. <<i, f, "range">> \in errors <=> Refused(f, own, globals)
      BY <2>2 DEF Said
    <3>2. BadAt(i, f) <=> Bad(f, own[f])
      BY <2>2 DEF BadAt
    <3>3. /\ own[f] # Unset => (Refused(f, own, globals) <=> Bad(f, own[f]))
          /\ own[f] = Unset => ~Bad(f, own[f])
          /\ own[f] = Unset =>
               (Refused(f, own, globals) <=> f \in Durations /\ globals[f] < Least[f])
      BY <2>1, <2>2, RefusedIsBad
    <3>. HIDE DEF own
    <3>4. globals[f] < Least[f] => BadAt(0, f)
      <4>1. globals[f] \in Int /\ Least[f] \in {0, 1}
        BY <2>1 DEF PolicyFields, Counts, Durations, Least
      <4>2. <<0, f, "range">> \notin errors => globals[f] >= Least[f]
        BY <2>1, TopLevel
      <4>. QED  BY <2>3, <4>1, <4>2
    <3>5. /\ BadAt(i, f) => <<i, f, "range">> \in errors
          /\ <<i, f, "range">> \in errors => BadAt(i, f) \/ (own[f] = Unset /\ BadAt(0, f))
      BY <3>1, <3>2, <3>3, <3>4
    <3>. QED  BY <3>5 DEF own
  <2>5. ASSUME NEW i \in DOMAIN Raw
        PROVE  /\ \A g \in Interpolated :
                    <<i, g, "undefined">> \in errors <=> Undefined(Raw[i][g])
               /\ <<i, "name", "duplicate">> \in errors <=>
                    NameOf(i) # "" /\ \E j \in 1..(i - 1) : NameOf(j) = NameOf(i)
    BY <2>2 DEF Said
  <2>6. ASSUME NEW fault \in FaultsWritten
        PROVE  \/ /\ fault[3] = "range" /\ fault[2] \in PolicyFields
                  /\ fault = <<fault[1], fault[2], "range">>
                  /\ fault[1] = 0 \/ fault[1] \in DOMAIN Raw
               \/ /\ fault[3] = "undefined" /\ fault[2] \in Interpolated
                  /\ fault = <<fault[1], fault[2], "undefined">> /\ fault[1] \in DOMAIN Raw
               \/ /\ fault[3] = "duplicate" /\ fault = <<fault[1], "name", "duplicate">>
                  /\ fault[1] \in DOMAIN Raw
    BY DEF FaultsWritten
  <2>. QED  BY <2>3, <2>4, <2>5, <2>6 DEF ErrorsMatchFaults
<1>. QED  BY <1>1, SetupInvHolds, PTL

\* What a string of the file becomes that refers to no unset variable.
LEMMA NoReferenceLeft ==
  ASSUME NEW s, ~Undefined(s), Interpolate(s) \in References
  PROVE  Interpolate(s) \in Range(env.vars)
<1>1. s \in DOMAIN env.vars
  BY DEF Undefined, Interpolate
<1>. QED  BY <1>1 DEF Interpolate, Range

\* What the key path becomes where there is a home directory if it needs one.
LEMMA KeyExpanded ==
  ASSUME NEW key, key \in DOMAIN Home => env.home
  PROVE  /\ ExpandHome(key) \notin DOMAIN Home
         /\ ExpandHome(key) = "" <=> key = ""
         /\ ExpandHome(key) = key \/ ExpandHome(key) \in Range(Home)
<1>1. CASE key \in DOMAIN Home
  <2>1. ExpandHome(key) = Home[key] /\ Home[key] \in Range(Home)
    BY <1>1 DEF ExpandHome, Range
  <2>2. Home[key] \notin DOMAIN Home \cup {""} /\ key # ""
    BY <1>1, HomeAssumption DEF HomeAssumption
  <2>. QED  BY <2>1, <2>2
<1>2. CASE key \notin DOMAIN Home
  BY <1>2 DEF ExpandHome
<1>. QED  BY <1>1, <1>2

\* An endpoint without a fault is one the engine can use.
LEMMA FaultFreeIsUsable ==
  ASSUME NEW re, FaultFree(re), NEW e, e = Endpoint(re)
  PROVE  /\ e.protocol \in Protocols
         /\ "" \notin {e.name, e.host, e.username}
         /\ \A text \in {e.name, e.host, e.username, e.password, e.privateKey} :
              text \in References => text \in Range(env.vars) \cup Range(Home)
         /\ IF e.protocol = "sftp" THEN {e.password, e.privateKey} # {""}
                                   ELSE e.password # "" /\ e.privateKey = ""
         /\ e.privateKey \notin DOMAIN Home
<1>1. /\ e.name = Interpolate(re.name) /\ e.host = Interpolate(re.host)
      /\ e.username = Interpolate(re.username) /\ e.password = Interpolate(re.password)
      /\ e.privateKey = ExpandHome(Interpolate(re.privateKey))
      /\ e.protocol = re.protocol
  BY FieldsOf DEF Endpoint
<1>2. /\ ~Undefined(re.name) /\ ~Undefined(re.host) /\ ~Undefined(re.username)
      /\ ~Undefined(re.password) /\ ~Undefined(re.privateKey)
  <2>1. \A g \in Interpolated : ~Undefined(re[g])
    BY DEF FaultFree
  <2>. QED  BY <2>1 DEF Interpolated
<1>3. /\ "" \notin {e.name, e.host, e.username} /\ e.protocol \in Protocols
      /\ IF e.protocol = "sftp"
           THEN e.password # "" \/ Interpolate(re.privateKey) # ""
           ELSE e.password # "" /\ Interpolate(re.privateKey) = ""
      /\ Interpolate(re.privateKey) \in DOMAIN Home => env.home
  BY <1>1, FieldsOf DEF FaultFree
<1>4. PICK key : key = Interpolate(re.privateKey)
  OBVIOUS
<1>5. /\ ExpandHome(key) \notin DOMAIN Home
      /\ ExpandHome(key) = "" <=> key = ""
      /\ ExpandHome(key) = key \/ ExpandHome(key) \in Range(Home)
  BY <1>3, <1>4, KeyExpanded
<1>6. ASSUME NEW text \in {e.name, e.host, e.username, e.password, e.privateKey},
             text \in References
      PROVE  text \in Range(env.vars) \cup Range(Home)
  <2>1. CASE text \in {e.name, e.host, e.username, e.password}
    BY <1>1, <1>2, <1>6, <2>1, NoReferenceLeft
  <2>2. CASE text = e.privateKey
    BY <1>1, <1>2, <1>4, <1>5, <1>6, <2>2, NoReferenceLeft
  <2>. QED  BY <2>1, <2>2
<1>. QED  BY <1>1, <1>3, <1>4, <1>5, <1>6

\* What the engine takes for granted once Upload is called (LoadConfig,
\* checkBasenameCollisions): EndpointsRunnable.
THEOREM UploadCanRun == Spec => []EndpointsRunnable
<1>1. SetupInv => EndpointsRunnable
  <2>. SUFFICES ASSUME SetupInv, at = "upload" PROVE EndpointsRunnable
    BY DEF EndpointsRunnable
  <2>1. files # <<>> /\ IsInjective([i \in DOMAIN files |-> files[i].base])
    BY DEF SetupInv, LineInv, Collide, IsInjective
  <2>2. /\ Checked /\ errors = {} /\ Len(endpoints) = Len(Raw)
        /\ globals \in [PolicyFields -> Int] /\ Raw \in Seq(RawEndpoints)
    BY DEF SetupInv, Order, LoadInv, ConfigTypes, Raw
  <2>3. DOMAIN endpoints = 1..Len(Raw) /\ Len(Raw) \in Nat
    BY <2>2 DEF SetupInv, Built
  <2>4. endpoints # <<>>
    <3>1. Raw # <<>>
      BY <2>2 DEF Checked
    <3>2. Len(Raw) # 0
      BY <2>2, <3>1
    <3>. QED  BY <2>2, <3>2
  <2>5. ASSUME NEW i \in DOMAIN endpoints
        PROVE  /\ Said(i) /\ FaultFree(Raw[i]) /\ Raw[i].policy \in RawPolicies
               /\ endpoints[i] = Endpoint(Raw[i]) /\ i \in 1..Len(Raw)
    <3>1. i \in 1..Len(Raw) /\ Raw[i] \in RawEndpoints
      BY <2>2, <2>3
    <3>2. Said(i)
      BY <2>2, <3>1 DEF Checked
    <3>3. FaultFree(Raw[i])
      BY <2>2, <3>2 DEF Said
    <3>4. endpoints[i] = Endpoint(Raw[i])
      BY DEF SetupInv, Built
    <3>. QED  BY <3>1, <3>2, <3>3, <3>4 DEF RawEndpoints
  <2>6. ASSUME NEW i \in DOMAIN endpoints
        PROVE  endpoints[i].name = NameOf(i) /\ NameOf(i) # ""
    <3>1. endpoints[i].name = Fields(Raw[i]).name
      BY <2>5 DEF Endpoint
    <3>2. Fields(Raw[i]).name = NameOf(i)
      BY FieldsOf DEF NameOf
    <3>. QED  BY <2>5, <3>1, <3>2 DEF FaultFree
  <2>7. ASSUME NEW i \in DOMAIN endpoints, NEW j \in DOMAIN endpoints, j < i
        PROVE  endpoints[i].name # endpoints[j].name
    <3>1. <<i, "name", "duplicate">> \notin errors
      BY <2>2
    <3>2. ~\E k \in 1..(i - 1) : NameOf(k) = NameOf(i)
      BY <2>5, <2>6, <3>1 DEF Said
    <3>3. j \in 1..(i - 1)
      BY <2>3, <2>7
    <3>. QED  BY <2>6, <3>2, <3>3
  <2>8. \A i, j \in DOMAIN endpoints : i # j => endpoints[i].name # endpoints[j].name
    <3>1. \A i, j \in DOMAIN endpoints : i # j => i < j \/ j < i
      BY <2>3
    <3>. QED  BY <2>7, <3>1
  <2>9. ASSUME NEW i \in DOMAIN endpoints, NEW f \in PolicyFields
        PROVE  endpoints[i].policy[f] >= Least[f]
    <3>1. endpoints[i].policy = ResolvePolicy(Raw[i].policy, globals)
      BY <2>5 DEF Endpoint
    <3>2. ~Refused(f, Raw[i].policy, globals)
      BY <2>2, <2>5 DEF Said
    <3>3. globals[f] >= Least[f]
      BY <2>2, TopLevel
    <3>. QED  BY <2>2, <2>5, <3>1, <3>2, <3>3, AcceptedPolicy
  <2>10. ASSUME NEW i \in DOMAIN endpoints, NEW e, e = endpoints[i]
         PROVE  /\ e.protocol \in Protocols
                /\ "" \notin {e.name, e.host, e.username}
                /\ \A text \in {e.name, e.host, e.username, e.password, e.privateKey} :
                     text \in References => text \in Range(env.vars) \cup Range(Home)
                /\ IF e.protocol = "sftp" THEN {e.password, e.privateKey} # {""}
                                          ELSE e.password # "" /\ e.privateKey = ""
                /\ e.privateKey \notin DOMAIN Home
    BY <2>5, <2>10, FaultFreeIsUsable
  <2>. QED  BY <2>1, <2>4, <2>8, <2>9, <2>10, Zenon DEF EndpointsRunnable
<1>. QED  BY <1>1, SetupInvHolds, PTL

-----------------------------------------------------------------------------
(***************************************************************************)
(* What the arguments mean.                                                *)
(***************************************************************************)

\* The function f says of the arguments up to place n which are a flag's value.
ValuesUpTo(f, n) ==
  /\ f = [i \in 0..n |-> f[i]]
  /\ \A i \in 0..n : f[i] = (i > 1 /\ args[i - 1] = "--config" /\ ~f[i - 1])

\* There is such a function for every number of arguments: there is no least
\* number without one.
LEMMA ValuesExist ==
  ASSUME NEW n \in Nat
  PROVE  \E f : ValuesUpTo(f, n)
<1>. DEFINE None == {m \in Nat : ~\E f : ValuesUpTo(f, m)}
<1>1. SUFFICES None = {}
  OBVIOUS
<1>2. SUFFICES ASSUME None # {} PROVE FALSE
  OBVIOUS
<1>3. PICK m \in Nat : m \in None /\ \A k \in None : m <= k
  <2>1. None \in SUBSET Nat
    OBVIOUS
  <2>. HIDE DEF None
  <2>. QED  BY <1>2, <2>1, MinIsLeast
<1>4. CASE m = 0
  <2>. DEFINE f == [i \in 0..m |-> FALSE]
  <2>1. f = [i \in 0..m |-> f[i]] /\ \A i \in 0..m : i = 0 /\ f[i] = FALSE
    BY <1>4
  <2>. HIDE DEF f
  <2>2. ASSUME NEW i \in 0..m
        PROVE  f[i] = (i > 1 /\ args[i - 1] = "--config" /\ ~f[i - 1])
    <3>1. ~(i > 1)
      BY <2>1
    <3>. QED  BY <2>1, <3>1
  <2>3. ValuesUpTo(f, m)
    BY <2>1, <2>2 DEF ValuesUpTo
  <2>. QED  BY <1>3, <2>3
<1>5. CASE m # 0
  <2>1. m - 1 \in Nat /\ m - 1 \notin None
    BY <1>3, <1>5
  <2>2. PICK f : ValuesUpTo(f, m - 1)
    BY <2>1
  <2>. DEFINE last == m > 1 /\ args[m - 1] = "--config" /\ ~f[m - 1]
              g == [i \in 0..m |-> IF i = m THEN last ELSE f[i]]
  <2>3. \A i \in 0..m : i = m \/ i \in 0..(m - 1)
    OBVIOUS
  <2>4. g[m] = last /\ \A i \in 0..(m - 1) : g[i] = f[i]
    OBVIOUS
  <2>5. \A i \in 0..(m - 1) : f[i] = (i > 1 /\ args[i - 1] = "--config" /\ ~f[i - 1])
    BY <2>2 DEF ValuesUpTo
  <2>6. g = [i \in 0..m |-> g[i]]
    OBVIOUS
  <2>. HIDE DEF g
  <2>7. ASSUME NEW i \in 0..m
        PROVE  g[i] = (i > 1 /\ args[i - 1] = "--config" /\ ~g[i - 1])
    <3>1. i > 1 => i - 1 \in 0..(m - 1)
      OBVIOUS
    <3>2. CASE i = m
      <4>1. i > 1 => g[i - 1] = f[m - 1]
        BY <2>4, <3>1, <3>2
      <4>. QED  BY <2>4, <3>2, <4>1
    <3>3. CASE i \in 0..(m - 1)
      <4>1. i > 1 => g[i - 1] = f[i - 1]
        BY <2>4, <3>1
      <4>2. g[i] = f[i]
        BY <2>4, <3>3
      <4>. QED  BY <2>5, <3>3, <4>1, <4>2
    <3>. QED  BY <2>3, <3>2, <3>3
  <2>8. ValuesUpTo(g, m)
    BY <2>6, <2>7 DEF ValuesUpTo
  <2>. QED  BY <1>3, <2>8
<1>. QED  BY <1>4, <1>5

\* An argument is a value when a --config stands before it that is none.
LEMMA ValueAfterConfig ==
  ASSUME args \in Seq(Arguments), NEW i \in 1..Len(args)
  PROVE  IsValue[i] <=> i > 1 /\ args[i - 1] = "--config" /\ ~IsValue[i - 1]
<1>1. Len(args) \in Nat
  BY LenProperties
<1>2. PICK f : ValuesUpTo(f, Len(args))
  BY <1>1, ValuesExist
<1>3. f = [j \in 0..Len(args) |-> (j > 1 /\ args[j - 1] = "--config" /\ ~f[j - 1])]
  BY <1>2 DEF ValuesUpTo
<1>4. IsValue =
        [j \in 0..Len(args) |-> (j > 1 /\ args[j - 1] = "--config" /\ ~IsValue[j - 1])]
  BY <1>3 DEF IsValue
<1>5. i \in 0..Len(args)
  BY <1>1
<1>. HIDE DEF IsValue
<1>. QED  BY <1>4, <1>5

\* The place of the first "--", or the one after the last argument.
Split == IF SplitPoint(args) = 0 THEN Len(args) + 1 ELSE SplitPoint(args)

\* The options are what stands before it, and what stands after it is a path.
LEMMA OptionsFirst ==
  ASSUME args \in Seq(Arguments)
  PROVE  /\ Len(args) \in Nat /\ DOMAIN args = 1..Len(args)
         /\ Split \in 1..(Len(args) + 1) /\ Options = 1..(Split - 1)
         /\ \A i \in Options : i \in DOMAIN args /\ args[i] \in Arguments \ {"--"}
         /\ \A i \in DOMAIN args : (\E d \in DashDashes : i > d) <=> i > Split
<1>1. Len(args) \in Nat /\ DOMAIN args = 1..Len(args)
      /\ \A i \in 1..Len(args) : args[i] \in Arguments
  BY LenProperties, ElementOfSeq
<1>2. IF \E i \in DOMAIN args : args[i] = "--"
        THEN /\ SplitPoint(args) \in DOMAIN args /\ args[SplitPoint(args)] = "--"
             /\ \A i \in 1..(SplitPoint(args) - 1) : args[i] # "--"
        ELSE SplitPoint(args) = 0
  BY SplitPointIsFirst
<1>3. CASE SplitPoint(args) = 0
  <2>1. DashDashes = {}
    BY <1>1, <1>2, <1>3 DEF DashDashes
  <2>2. Split = Len(args) + 1
    BY <1>3 DEF Split
  <2>. QED  BY <1>1, <2>1, <2>2 DEF Options, DashDashes
<1>4. CASE SplitPoint(args) # 0
  <2>1. Split = SplitPoint(args)
    BY <1>4 DEF Split
  <2>2. /\ Split \in 1..Len(args) /\ args[Split] = "--"
        /\ \A i \in 1..(Split - 1) : args[i] # "--"
    BY <1>1, <1>2, <1>4, <2>1
  <2>. HIDE DEF Split
  <2>3. Split \in DashDashes /\ \A d \in DashDashes : d \in 1..Len(args) /\ Split <= d
    BY <1>1, <2>2 DEF DashDashes
  <2>4. Options = 1..(Split - 1)
    BY <1>1, <2>2, <2>3 DEF Options
  <2>5. \A i \in DOMAIN args : (\E d \in DashDashes : i > d) <=> i > Split
    BY <1>1, <2>2, <2>3
  <2>. QED  BY <1>1, <2>2, <2>4, <2>5
<1>. QED  BY <1>3, <1>4

\* All this only depends on the arguments and the file system.
LEMMA MeaningStands ==
  ASSUME args' = args, tree' = tree
  PROVE  /\ Split' = Split /\ Options' = Options /\ IsValue' = IsValue /\ Meant' = Meant
         /\ \A i : Wrong(i)' <=> Wrong(i)
         /\ FirstWrong' = FirstWrong /\ MeantFlags' = MeantFlags
         /\ MeantConfig' = MeantConfig /\ PathPlaces' = PathPlaces
         /\ \A p : Kind(p)' = Kind(p)
         /\ Sources' = Sources /\ \A s : FileOf(s)' = FileOf(s)
<1>1. Split' = Split /\ Options' = Options /\ DashDashes' = DashDashes
  BY DEF Split, Options, DashDashes
<1>2. IsValue' = IsValue
  BY DEF IsValue
<1>3. Meant' = Meant /\ \A i : Wrong(i)' <=> Wrong(i)
  BY <1>1, <1>2 DEF Meant, Wrong
<1>4. FirstWrong' = FirstWrong
  BY <1>3 DEF FirstWrong
<1>5. MeantFlags' = MeantFlags
  BY <1>3 DEF MeantFlags
<1>6. MeantConfig' = MeantConfig
  BY <1>1, <1>2 DEF MeantConfig
<1>7. PathPlaces' = PathPlaces
  BY <1>1, <1>3 DEF PathPlaces, MeantPath
<1>8. \A p : Kind(p)' = Kind(p)
  BY DEF Kind
<1>9. \A i : EntriesAt(i)' = EntriesAt(i)
  BY <1>8 DEF EntriesAt
<1>10. Sources' = Sources
  BY <1>7, <1>9 DEF Sources
<1>11. \A s : FileOf(s)' = FileOf(s)
  BY DEF FileOf, DirectFile, EntryFile
<1>. QED  BY <1>1, <1>2, <1>3, <1>4, <1>5, <1>6, <1>7, <1>8, <1>10, <1>11

\* What the sources of files are.
LEMMA SourceMembers ==
  /\ \A s \in Sources : /\ s = <<s[1], s[2]>>
                        /\ s[1] \in PathPlaces /\ s[2] \in EntriesAt(s[1])
  /\ \A i \in PathPlaces : \A n \in EntriesAt(i) : <<i, n>> \in Sources
BY DEF Sources

-----------------------------------------------------------------------------
(***************************************************************************)
(* Lists of arguments, by their places.                                    *)
(***************************************************************************)

\* The list has the elements of a at the places P, in their order.
Lists(list, a, P) ==
  \E place \in [DOMAIN list -> P] :
    /\ \A n \in DOMAIN list : list[n] = a[place[n]]
    /\ \A m, n \in DOMAIN list : m < n => place[m] < place[n]
    /\ \A i \in P : \E n \in DOMAIN list : place[n] = i

\* Such places make a list.
LEMMA ListsIntro ==
  ASSUME NEW list, NEW a, NEW P, NEW place, place \in [DOMAIN list -> P],
         /\ \A n \in DOMAIN list : list[n] = a[place[n]]
         /\ \A m, n \in DOMAIN list : m < n => place[m] < place[n]
         /\ \A i \in P : \E n \in DOMAIN list : place[n] = i
  PROVE  Lists(list, a, P)
BY Zenon DEF Lists

\* The empty list has those at no place.
LEMMA ListsNone ==
  ASSUME NEW a
  PROVE  /\ Lists(<<>>, a, {})
         /\ \A P : Lists(<<>>, a, P) => P = {}
<1>1. DOMAIN <<>> = {}
  OBVIOUS
<1>2. <<>> \in [{} -> {}]
  OBVIOUS
<1>. QED  BY <1>1, <1>2 DEF Lists

\* A list goes on with an element behind all the others.
LEMMA ListsMore ==
  ASSUME NEW S, NEW list \in Seq(S), NEW a, NEW P \in SUBSET Int, Lists(list, a, P),
         NEW i \in Int, \A j \in P : j < i, a[i] \in S
  PROVE  Lists(Append(list, a[i]), a, P \cup {i})
<1>1. PICK place \in [DOMAIN list -> P] :
        /\ \A n \in DOMAIN list : list[n] = a[place[n]]
        /\ \A m, n \in DOMAIN list : m < n => place[m] < place[n]
        /\ \A j \in P : \E n \in DOMAIN list : place[n] = j
  BY DEF Lists
<1>. DEFINE longer == Append(list, a[i])
            k == Len(list) + 1
            at2 == [n \in 1..k |-> IF n = k THEN i ELSE place[n]]
<1>2. /\ DOMAIN longer = 1..k /\ Len(list) \in Nat /\ DOMAIN list = 1..Len(list)
      /\ longer[k] = a[i] /\ \A n \in 1..Len(list) : longer[n] = list[n]
  BY LongerByOne
<1>3. \A n \in 1..k : n = k \/ n \in 1..Len(list)
  BY <1>2
<1>4. /\ at2 \in [1..k -> P \cup {i}] /\ at2[k] = i
      /\ \A n \in 1..Len(list) : n \in 1..k /\ n < k /\ at2[n] = place[n] /\ place[n] \in P
  BY <1>2, <1>3
<1>5. k \in 1..k
  BY <1>2
<1>. HIDE DEF longer, at2, k
<1>6. \A n \in 1..k : longer[n] = a[at2[n]]
  BY <1>1, <1>2, <1>3, <1>4
<1>7. ASSUME NEW m \in 1..k, NEW n \in 1..k, m < n PROVE at2[m] < at2[n]
  <2>1. m \in 1..Len(list)
    BY <1>2, <1>3, <1>7 DEF k
  <2>2. CASE n = k
    BY <1>4, <2>1, <2>2
  <2>3. CASE n \in 1..Len(list)
    BY <1>1, <1>2, <1>4, <1>7, <2>1, <2>3
  <2>. QED  BY <1>3, <2>2, <2>3
<1>8. \A j \in P \cup {i} : \E n \in 1..k : at2[n] = j
  BY <1>1, <1>2, <1>4, <1>5
<1>9. Lists(longer, a, P \cup {i})
  <2>1. at2 \in [DOMAIN longer -> P \cup {i}]
    BY <1>2, <1>4
  <2>2. /\ \A n \in DOMAIN longer : longer[n] = a[at2[n]]
        /\ \A m, n \in DOMAIN longer : m < n => at2[m] < at2[n]
        /\ \A j \in P \cup {i} : \E n \in DOMAIN longer : at2[n] = j
    BY <1>2, <1>6, <1>7, <1>8
  <2>. QED  BY <2>1, <2>2, ListsIntro, Zenon
<1>. QED  BY <1>9 DEF longer

\* A list begins with the element at the first of its places.
LEMMA ListsFewer ==
  ASSUME NEW S, NEW list \in Seq(S), list # <<>>, NEW a, NEW P \in SUBSET Int,
         Lists(list, a, P)
  PROVE  \E i \in P : /\ Head(list) = a[i] /\ \A j \in P : i <= j
                      /\ Lists(Tail(list), a, {j \in P : j > i})
<1>1. PICK place \in [DOMAIN list -> P] :
        /\ \A n \in DOMAIN list : list[n] = a[place[n]]
        /\ \A m, n \in DOMAIN list : m < n => place[m] < place[n]
        /\ \A j \in P : \E n \in DOMAIN list : place[n] = j
  BY DEF Lists
<1>. DEFINE k == Len(list) - 1
            tail == Tail(list)
            after == {j \in P : j > place[1]}
            at2 == [n \in 1..k |-> place[n + 1]]
<1>2. /\ Len(list) \in Nat \ {0} /\ DOMAIN list = 1..Len(list) /\ Head(list) = list[1]
      /\ DOMAIN tail = 1..k /\ \A n \in 1..k : tail[n] = list[n + 1]
  BY ShortTail
<1>3. /\ \A n \in 1..k : n + 1 \in 1..Len(list) /\ 1 < n + 1
      /\ 1 \in 1..Len(list)
      /\ \A n \in 1..Len(list) : n = 1 \/ (n - 1 \in 1..k /\ (n - 1) + 1 = n)
  BY <1>2
<1>4. /\ \A n \in 1..Len(list) : place[n] \in P /\ place[n] \in Int
      /\ \A n \in 1..k : place[n + 1] \in after
  BY <1>1, <1>2, <1>3
<1>5. at2 \in [1..k -> after] /\ \A n \in 1..k : at2[n] = place[n + 1]
  BY <1>4
<1>. HIDE DEF k, tail, at2
<1>6. \A n \in 1..k : tail[n] = a[at2[n]]
  BY <1>1, <1>2, <1>3, <1>5
<1>7. ASSUME NEW m \in 1..k, NEW n \in 1..k, m < n PROVE at2[m] < at2[n]
  <2>1. m + 1 < n + 1
    BY <1>7
  <2>2. m + 1 \in DOMAIN list /\ n + 1 \in DOMAIN list
    BY <1>2, <1>3
  <2>3. place[m + 1] < place[n + 1]
    BY <1>1, <2>1, <2>2
  <2>. QED  BY <1>5, <2>3
<1>8. ASSUME NEW j \in after PROVE \E n \in 1..k : at2[n] = j
  <2>1. PICK n \in 1..Len(list) : place[n] = j
    BY <1>1, <1>2
  <2>2. n # 1
    BY <1>4, <2>1
  <2>. QED  BY <1>3, <1>5, <2>1, <2>2
<1>. HIDE DEF after
<1>9. Lists(tail, a, after)
  <2>1. /\ DOMAIN tail = 1..k /\ at2 \in [1..k -> after]
        /\ \A m, n \in 1..k : m < n => at2[m] < at2[n]
        /\ \A i \in after : \E n \in 1..k : at2[n] = i
    BY <1>2, <1>5, <1>7, <1>8
  <2>2. at2 \in [DOMAIN tail -> after]
    BY <2>1
  <2>3. /\ \A n \in DOMAIN tail : tail[n] = a[at2[n]]
        /\ \A m, n \in DOMAIN tail : m < n => at2[m] < at2[n]
        /\ \A i \in after : \E n \in DOMAIN tail : at2[n] = i
    BY <1>6, <2>1
  <2>. QED  BY <2>2, <2>3, ListsIntro, Zenon
<1>10. \A j \in P : place[1] <= j
  <2>1. ASSUME NEW j \in P PROVE place[1] <= j
    <3>1. PICK n \in 1..Len(list) : place[n] = j
      BY <1>1, <1>2
    <3>2. CASE n = 1
      BY <1>3, <1>4, <3>1, <3>2
    <3>3. CASE n # 1
      <4>1. 1 < n
        BY <3>3
      <4>2. place[1] < place[n]
        BY <1>1, <1>2, <1>3, <4>1
      <4>. QED  BY <1>3, <1>4, <3>1, <4>2
    <3>. QED  BY <3>2, <3>3
  <2>. QED  BY <2>1
<1>11. Head(list) = a[place[1]] /\ place[1] \in P
  BY <1>1, <1>2, <1>3, <1>4
<1>. QED  BY <1>9, <1>10, <1>11 DEF tail, after

\* Two lists make one when the places of the second come after.
LEMMA ListsBoth ==
  ASSUME NEW S, NEW first \in Seq(S), NEW second \in Seq(S), NEW a,
         NEW P \in SUBSET Int, NEW Q \in SUBSET Int, Lists(first, a, P),
         Lists(second, a, Q), \A i \in P : \A j \in Q : i < j
  PROVE  Lists(first \o second, a, P \cup Q)
<1>1. PICK at1 \in [DOMAIN first -> P] :
        /\ \A n \in DOMAIN first : first[n] = a[at1[n]]
        /\ \A m, n \in DOMAIN first : m < n => at1[m] < at1[n]
        /\ \A j \in P : \E n \in DOMAIN first : at1[n] = j
  BY DEF Lists
<1>2. PICK at2 \in [DOMAIN second -> Q] :
        /\ \A n \in DOMAIN second : second[n] = a[at2[n]]
        /\ \A m, n \in DOMAIN second : m < n => at2[m] < at2[n]
        /\ \A j \in Q : \E n \in DOMAIN second : at2[n] = j
  BY DEF Lists
<1>. DEFINE k == Len(first)
            l == Len(second)
            both == first \o second
            at3 == [n \in 1..(k + l) |-> IF n <= k THEN at1[n] ELSE at2[n - k]]
<1>3. k \in Nat /\ l \in Nat /\ DOMAIN first = 1..k /\ DOMAIN second = 1..l
  BY LenProperties
<1>4. both \in Seq(S) /\ Len(both) = k + l
      /\ \A n \in 1..(k + l) : both[n] = IF n <= k THEN first[n] ELSE second[n - k]
  BY ConcatProperties
<1>5. DOMAIN both = 1..(k + l)
  BY <1>4, LenProperties
<1>. HIDE DEF k, l, both
<1>6. \A n \in 1..(k + l) :
        \/ n <= k /\ n \in 1..k /\ at3[n] = at1[n]
        \/ ~(n <= k) /\ n - k \in 1..l /\ at3[n] = at2[n - k]
  BY <1>3
<1>7. /\ \A n \in 1..k : n \in 1..(k + l) /\ n <= k
      /\ \A n \in 1..l : n + k \in 1..(k + l) /\ ~(n + k <= k) /\ (n + k) - k = n
  BY <1>3
<1>. HIDE DEF at3
<1>8. at3 \in [1..(k + l) -> P \cup Q]
  <2>1. at3 = [n \in 1..(k + l) |-> at3[n]]
    BY DEF at3
  <2>2. \A n \in 1..(k + l) : at3[n] \in P \cup Q
    BY <1>3, <1>6
  <2>. QED  BY <2>1, <2>2
<1>9. \A n \in 1..(k + l) : both[n] = a[at3[n]]
  <2>1. ASSUME NEW n \in 1..(k + l) PROVE both[n] = a[at3[n]]
    <3>1. CASE n <= k /\ n \in 1..k /\ at3[n] = at1[n]
      BY <1>1, <1>3, <1>4, <3>1
    <3>2. CASE ~(n <= k) /\ n - k \in 1..l /\ at3[n] = at2[n - k]
      BY <1>2, <1>3, <1>4, <3>2
    <3>. QED  BY <1>6, <3>1, <3>2
  <2>. QED  BY <2>1
<1>10. ASSUME NEW m \in 1..(k + l), NEW n \in 1..(k + l), m < n
       PROVE  at3[m] < at3[n]
  <2>1. CASE n <= k /\ n \in 1..k /\ at3[n] = at1[n]
    <3>1. m \in 1..k /\ at3[m] = at1[m]
      BY <1>3, <1>6, <1>10, <2>1
    <3>. QED  BY <1>1, <1>3, <1>10, <2>1, <3>1
  <2>2. CASE ~(n <= k) /\ n - k \in 1..l /\ at3[n] = at2[n - k]
    <3>1. CASE m <= k /\ m \in 1..k /\ at3[m] = at1[m]
      BY <1>1, <1>2, <1>3, <2>2, <3>1
    <3>2. CASE ~(m <= k) /\ m - k \in 1..l /\ at3[m] = at2[m - k]
      <4>1. m - k < n - k
        BY <1>3, <1>10
      <4>. QED  BY <1>2, <1>3, <2>2, <3>2, <4>1
    <3>. QED  BY <1>6, <3>1, <3>2
  <2>. QED  BY <1>6, <2>1, <2>2
<1>11. \A j \in P \cup Q : \E n \in 1..(k + l) : at3[n] = j
  <2>1. ASSUME NEW j \in P PROVE \E n \in 1..(k + l) : at3[n] = j
    <3>1. PICK n \in 1..k : at1[n] = j
      BY <1>1, <1>3
    <3>2. n \in 1..(k + l) /\ at3[n] = at1[n]
      BY <1>6, <1>7, <3>1
    <3>. QED  BY <3>1, <3>2
  <2>2. ASSUME NEW j \in Q PROVE \E n \in 1..(k + l) : at3[n] = j
    <3>1. PICK n \in 1..l : at2[n] = j
      BY <1>2, <1>3
    <3>2. n + k \in 1..(k + l) /\ ~(n + k <= k) /\ (n + k) - k = n
      BY <1>7, <3>1
    <3>3. at3[n + k] = at2[n]
      BY <1>6, <3>2
    <3>. QED  BY <3>1, <3>2, <3>3
  <2>. QED  BY <2>1, <2>2
<1>12. Lists(both, a, P \cup Q)
  <2>1. \A m, n \in 1..(k + l) : m < n => at3[m] < at3[n]
    BY <1>10
  <2>2. at3 \in [DOMAIN both -> P \cup Q]
    BY <1>5, <1>8
  <2>3. /\ \A n \in DOMAIN both : both[n] = a[at3[n]]
        /\ \A m, n \in DOMAIN both : m < n => at3[m] < at3[n]
        /\ \A i \in P \cup Q : \E n \in DOMAIN both : at3[n] = i
    BY <1>5, <1>9, <1>11, <2>1
  <2>. QED  BY <2>2, <2>3, ListsIntro, Zenon
<1>. QED  BY <1>12 DEF both

-----------------------------------------------------------------------------
(***************************************************************************)
(* The files found so far.                                                 *)
(***************************************************************************)

\* Files that collide are refused in the end, whatever they are.
FilesSoFar(S) == ~Collide(files) => FilesAre(S)

\* The file of a source behind all the others is one more. If one of the others
\* had the same file, the two would collide.
LEMMA FilesMore ==
  ASSUME NEW T, files \in Seq(T), NEW S, FilesSoFar(S),
         NEW new, FileOf(new) \in T, \A s \in S \cup {new} : s[1] \in Int /\ s[2] \in Int,
         \A s \in S : Before(s, new),
         args' = args, tree' = tree, files' = Append(files, FileOf(new))
  PROVE  FilesSoFar(S \cup {new})'
<1>1. PICK more \in Seq(T) : more = files'
  BY LongerByOne
<1>. DEFINE k == Len(files) + 1
<1>2. /\ Len(files) \in Nat /\ DOMAIN files = 1..Len(files) /\ DOMAIN more = 1..k
      /\ more[k] = FileOf(new) /\ \A n \in 1..Len(files) : more[n] = files[n]
  BY <1>1, LongerByOne
<1>3. /\ k \in 1..k /\ \A n \in 1..k : n = k \/ n \in 1..Len(files)
      /\ \A n \in 1..Len(files) : n \in 1..k /\ n < k /\ ~(k < n) /\ n # k
  BY <1>2
<1>. HIDE DEF k
<1>4. \A s : FileOf(s)' = FileOf(s)
  BY MeaningStands
<1>5. SUFFICES ASSUME ~Collide(more)
               PROVE  /\ Range(more) = {FileOf(s) : s \in S \cup {new}}
                      /\ \A m, n \in DOMAIN more, s, t \in S \cup {new} :
                           more[m] = FileOf(s) /\ more[n] = FileOf(t)
                             => (m < n <=> Before(s, t))
  <2>1. Collide(files)' <=> Collide(more)
    BY <1>1 DEF Collide
  <2>. QED  BY <1>1, <1>4, <2>1 DEF FilesSoFar, FilesAre, Before
<1>6. ~Collide(files)
  <2>1. \A i \in DOMAIN files : i \in DOMAIN more /\ more[i] = files[i]
    BY <1>2, <1>3
  <2>. QED  BY <1>5, <2>1 DEF Collide
<1>7. /\ Range(files) = {FileOf(s) : s \in S}
      /\ \A m, n \in DOMAIN files, s, t \in S :
           files[m] = FileOf(s) /\ files[n] = FileOf(t) => (m < n <=> Before(s, t))
  BY <1>6 DEF FilesSoFar, FilesAre
<1>8. \A n \in 1..Len(files) : files[n] # FileOf(new)
  <2>1. \A n \in 1..Len(files) : more[n] # more[k]
    BY <1>2, <1>3, <1>5 DEF Collide
  <2>. QED  BY <1>2, <2>1
<1>9. \A s \in S : FileOf(s) # FileOf(new)
  <2>1. \A s \in S : FileOf(s) \in Range(files)
    BY <1>7
  <2>. QED  BY <1>2, <1>8, <2>1 DEF Range
<1>10. Range(more) = Range(files) \cup {FileOf(new)}
  BY <1>2, <1>3 DEF Range
<1>11. \A n \in 1..k, s \in S \cup {new} : more[n] = FileOf(s) =>
            \/ n = k /\ s = new
            \/ n \in 1..Len(files) /\ s \in S /\ files[n] = FileOf(s)
  BY <1>2, <1>3, <1>8, <1>9
<1>12. ASSUME NEW m \in 1..k, NEW n \in 1..k, NEW s \in S \cup {new}, NEW t \in S \cup {new},
              more[m] = FileOf(s), more[n] = FileOf(t)
       PROVE  m < n <=> Before(s, t)
  <2>1. /\ \/ m = k /\ s = new
           \/ m \in 1..Len(files) /\ s \in S /\ files[m] = FileOf(s)
        /\ \/ n = k /\ t = new
           \/ n \in 1..Len(files) /\ t \in S /\ files[n] = FileOf(t)
    BY <1>11, <1>12
  <2>2. CASE m = k /\ s = new /\ n = k /\ t = new
    BY <1>2, <2>2 DEF Before, k
  <2>3. CASE m = k /\ s = new /\ n \in 1..Len(files) /\ t \in S
    <3>1. Before(t, new) /\ ~Before(new, t)
      BY <2>3 DEF Before
    <3>. QED  BY <1>3, <2>3, <3>1
  <2>4. CASE m \in 1..Len(files) /\ s \in S /\ n = k /\ t = new
    BY <1>3, <2>4
  <2>5. CASE /\ m \in 1..Len(files) /\ s \in S /\ files[m] = FileOf(s)
             /\ n \in 1..Len(files) /\ t \in S /\ files[n] = FileOf(t)
    BY <1>2, <1>7, <2>5
  <2>. QED  BY <2>1, <2>2, <2>3, <2>4, <2>5
<1>13. {FileOf(s) : s \in S \cup {new}} = {FileOf(s) : s \in S} \cup {FileOf(new)}
  OBVIOUS
<1>. QED  BY <1>2, <1>7, <1>10, <1>12, <1>13

-----------------------------------------------------------------------------
(***************************************************************************)
(* The inductive invariant of the arguments.                               *)
(***************************************************************************)

PathsAre(P) == Lists(paths, args, P)

\* The value of the last --config before place k, if there is one.
ConfigBefore(k) ==
  \/ configPath = "" /\ \A i \in Options : i < k => ~IsValue[i]
  \/ \E i \in Options :
       /\ i < k /\ IsValue[i] /\ configPath = args[i]
       /\ \A j \in Options : j < k /\ IsValue[j] => j <= i

\* The arguments from place k to "--" are left, and those after it.
Remaining(k) ==
  /\ Len(rest) = Split - k
  /\ \A n \in DOMAIN rest : rest[n] = args[k + n - 1]
  /\ DOMAIN trailing = 1..(Len(args) - Split)
  /\ \A n \in DOMAIN trailing : trailing[n] = args[Split + n]

\* The loop of parseInterleaved has dealt with the arguments before place k, and
\* stands at none that is the value of a flag.
ParsedTo(k) ==
  /\ k < Split => ~IsValue[k]
  /\ \A i \in Meant : i < k => ~Wrong(i)
  /\ given = {args[i] : i \in {j \in Meant : j < k}} \cap BoolFlags
  /\ ConfigBefore(k)
  /\ PathsAre({i \in Meant : i < k /\ args[i] \in Words})

\* A command line that goes on to its paths.
Faultless ==
  /\ FirstWrong = {}
  /\ given = MeantFlags /\ "--version" \notin given
  /\ {configPath} = MeantConfig

\* The paths up to place i are expanded, or that one is being read.
ExpandedTo(i) ==
  /\ PathsAre({j \in PathPlaces : j > i})
  /\ FilesSoFar({s \in Sources : s[1] <= i})
ReadingAt(i) ==
  LET dir == tree[args[i]].entries
      n == Len(dir) - Len(entries)
  IN /\ Kind(args[i]) = "dir" /\ n \in Nat
     /\ \A m \in DOMAIN entries : entries[m] = dir[n + m]
     /\ PathsAre({j \in PathPlaces : j >= i})
     /\ FilesSoFar({s \in Sources : s[1] < i \/ (s[1] = i /\ s[2] <= n)})

DirEntries == Seq([name : STRING, kind : STRING])
SeqTypes ==
  /\ entries \in DirEntries /\ \A p \in DOMAIN tree : tree[p].entries \in DirEntries
  /\ trailing \in Seq(Arguments) /\ paths \in Seq(Arguments)
  /\ files \in Seq({FileOf(s) : s \in Sources})

\* What the command line has to do with an exit code.
StopSaysWhy ==
  at = "stopped" =>
    /\ exit = exitOK <=> IF FirstWrong = {} THEN "--version" \in MeantFlags
                         ELSE \A i \in FirstWrong : args[i] = "--help"
    /\ exit = exitConfigError =>
         /\ FirstWrong = {} /\ FilesAre(Sources) /\ files # <<>>
         /\ config.state = "ok" => errors # {}

ArgsInv ==
  /\ SeqTypes
  /\ at = "args" => given = {} /\ configPath = "" /\ paths = <<>>
  /\ at \in {"args", "flags"} => files = <<>>
  /\ at = "flags" => \E k \in 1..Split : Remaining(k) /\ ParsedTo(k)
  /\ at \in {"paths", "dir", "config", "upload"} => Faultless
  /\ at = "paths" => \E i \in 0..Len(args) : ExpandedTo(i)
  /\ at = "dir" => \E i \in PathPlaces : ReadingAt(i)
  /\ at \in {"config", "upload"} => FilesAre(Sources)
  /\ StopSaysWhy

\* It holds of a run's first state.
LEMMA ArgsInvInit == Init => ArgsInv
<1>. SUFFICES ASSUME Init PROVE ArgsInv
  OBVIOUS
<1>1. PICK in \in Inputs : args = in.args /\ tree = in.tree
  BY DEF Init
<1>2. \A p \in DOMAIN tree : tree[p].entries \in DirEntries
  BY <1>1, InputsAssumption DEF InputsAssumption, DirEntries
<1>3. \A S : <<>> \in Seq(S)
  OBVIOUS
<1>4. SeqTypes
  BY <1>2, <1>3 DEF Init, LineInit, SeqTypes, DirEntries
<1>. QED  BY <1>4 DEF Init, LineInit, ArgsInv, StopSaysWhy

\* The types of the sequences stay when none of them changes.
LEMMA SeqTypesStand ==
  ASSUME SeqTypes, args' = args, tree' = tree, entries' \in DirEntries,
         trailing' \in Seq(Arguments), paths' \in Seq(Arguments),
         files' \in Seq({FileOf(s) : s \in Sources})
  PROVE  SeqTypes'
BY MeaningStands DEF SeqTypes, DirEntries

\* The parts that hold of the arguments only, and of the places they name.
LEMMA PartsStand ==
  ASSUME args' = args, tree' = tree
  PROVE  /\ UNCHANGED <<given, configPath>> => Faultless' = Faultless
         /\ UNCHANGED configPath => \A k : ConfigBefore(k)' = ConfigBefore(k)
         /\ UNCHANGED paths => \A P : PathsAre(P)' = PathsAre(P)
         /\ UNCHANGED files => \A S : /\ FilesAre(S)' = FilesAre(S)
                                      /\ FilesSoFar(S)' = FilesSoFar(S)
<1>. USE MeaningStands
<1>1. UNCHANGED <<given, configPath>> => Faultless' = Faultless
  BY DEF Faultless
<1>2. UNCHANGED configPath => \A k : ConfigBefore(k)' = ConfigBefore(k)
  BY DEF ConfigBefore
<1>3. UNCHANGED paths => \A P : PathsAre(P)' = PathsAre(P)
  BY DEF PathsAre, Lists
<1>4. UNCHANGED files => \A S : FilesAre(S)' = FilesAre(S)
  BY DEF FilesAre
<1>5. UNCHANGED files => (Collide(files)' <=> Collide(files))
  BY DEF Collide
<1>6. UNCHANGED files => \A S : FilesSoFar(S)' = FilesSoFar(S)
  BY <1>4, <1>5 DEF FilesSoFar
<1>. QED  BY <1>1, <1>2, <1>3, <1>4, <1>6

-----------------------------------------------------------------------------
(***************************************************************************)
(* Parsing the arguments keeps it.                                         *)
(***************************************************************************)

\* The argument the loop stands at is not the value of a flag.
LEMMA NextArgument ==
  ASSUME LineInv, rest # <<>>, NEW k \in 1..Split, Remaining(k), ParsedTo(k)
  PROVE  /\ k \in Int /\ Split \in Int /\ k < Split /\ k + 1 \in 1..Split
         /\ k \in Meant /\ k \in DOMAIN args /\ ~IsValue[k]
         /\ Head(rest) = args[k] /\ args[k] \in Arguments \ {"--"}
         /\ Meant \in SUBSET Int /\ Options \in SUBSET Int
         /\ \A i \in Meant : i < k + 1 <=> i < k \/ i = k
<1>1. rest \in Seq(Arguments \ {"--"}) /\ args \in Seq(Arguments)
  BY DEF LineInv
<1>2. Len(rest) \in Nat \ {0} /\ Head(rest) = rest[1] /\ DOMAIN rest = 1..Len(rest)
  BY <1>1, ShortTail
<1>3. /\ Split \in 1..(Len(args) + 1) /\ Options = 1..(Split - 1) /\ Len(args) \in Nat
      /\ \A i \in Options : i \in DOMAIN args /\ args[i] \in Arguments \ {"--"}
  BY <1>1, OptionsFirst
<1>4. /\ Len(rest) = Split - k
      /\ \A n \in DOMAIN rest : rest[n] = args[k + n - 1]
  BY DEF Remaining
<1>5. k \in Int /\ Split \in Int /\ k < Split /\ k + 1 \in 1..Split /\ k \in Options
  BY <1>2, <1>3, <1>4
<1>6. Head(rest) = args[k]
  <2>1. 1 \in DOMAIN rest /\ k + 1 - 1 = k
    BY <1>2, <1>5
  <2>. QED  BY <1>2, <1>4, <2>1
<1>7. ~IsValue[k]
  BY <1>5 DEF ParsedTo
<1>8. Meant \in SUBSET Int /\ Options \in SUBSET Int /\ k \in Meant
  BY <1>3, <1>5, <1>7 DEF Meant
<1>. QED  BY <1>3, <1>5, <1>6, <1>7, <1>8

\* The loop goes on to the next one.
LEMMA OneParsed ==
  ASSUME LineInv, rest # <<>>, NEW k \in 1..Split, Remaining(k), ParsedTo(k),
         rest' = Tail(rest), args' = args, tree' = tree, trailing' = trailing
  PROVE  Remaining(k + 1)'
<1>1. /\ Len(rest) \in Nat \ {0} /\ Len(Tail(rest)) = Len(rest) - 1
      /\ DOMAIN Tail(rest) = 1..(Len(rest) - 1) /\ DOMAIN rest = 1..Len(rest)
      /\ \A n \in 1..(Len(rest) - 1) : Tail(rest)[n] = rest[n + 1]
  BY ShortTail DEF LineInv
<1>2. k \in Int /\ Split \in Int /\ Split' = Split
  BY NextArgument, MeaningStands
<1>3. /\ Len(rest) = Split - k
      /\ \A n \in DOMAIN rest : rest[n] = args[k + n - 1]
      /\ DOMAIN trailing = 1..(Len(args) - Split)
      /\ \A n \in DOMAIN trailing : trailing[n] = args[Split + n]
  BY DEF Remaining
<1>4. Len(Tail(rest)) = Split - (k + 1)
  BY <1>1, <1>2, <1>3
<1>5. ASSUME NEW n \in 1..(Len(rest) - 1) PROVE Tail(rest)[n] = args[(k + 1) + n - 1]
  <2>1. n + 1 \in DOMAIN rest /\ k + (n + 1) - 1 = (k + 1) + n - 1
    BY <1>1, <1>2
  <2>. QED  BY <1>1, <1>3, <2>1
<1>. QED  BY <1>1, <1>2, <1>3, <1>4, <1>5 DEF Remaining

\* A flag no value of which follows, or a word, is no value and none comes after.
LEMMA OnePast ==
  ASSUME LineInv, rest # <<>>, NEW k \in 1..Split, Remaining(k), ParsedTo(k),
         args' = args, tree' = tree, configPath' = configPath,
         args[k] \in BoolFlags \cup Words
  PROVE  /\ k + 1 < Split => ~IsValue[k + 1]
         /\ \A i \in Meant : i < k + 1 => ~Wrong(i)
         /\ ConfigBefore(k + 1)'
<1>1. /\ k \in Int /\ Split \in Int /\ k < Split /\ k \in Meant /\ ~IsValue[k]
      /\ Options \in SUBSET Int /\ \A i \in Meant : i < k + 1 <=> i < k \/ i = k
  BY NextArgument
<1>2. args[k] \notin UnknownFlags \cup {"--help", "--config"}
  BY ArgumentsAssumption DEF ArgumentsAssumption, BoolFlags
<1>3. k + 1 < Split => ~IsValue[k + 1]
  <2>1. args \in Seq(Arguments) /\ Split \in 1..(Len(args) + 1) /\ Len(args) \in Nat
    BY OptionsFirst DEF LineInv
  <2>2. k + 1 < Split => k + 1 \in 1..Len(args) /\ (k + 1) - 1 = k
    BY <1>1, <2>1
  <2>. QED  BY <1>2, <2>1, <2>2, ValueAfterConfig
<1>4. ~Wrong(k)
  BY <1>2 DEF Wrong
<1>5. ConfigBefore(k + 1)
  <2>1. \A i \in Options : i < k + 1 => i < k \/ i = k
    BY <1>1
  <2>2. \A i \in Options : i < k => i < k + 1
    BY <1>1
  <2>. QED  BY <1>1, <2>1, <2>2 DEF ParsedTo, ConfigBefore
<1>6. ConfigBefore(k + 1)'
  BY <1>5, PartsStand
<1>. QED  BY <1>1, <1>3, <1>4, <1>6 DEF ParsedTo

\* A boolean flag.
LEMMA SetFlagStep ==
  ASSUME LineInv, ArgsInv, SetFlag
  PROVE  ArgsInv'
<1>1. /\ at = "flags" /\ at' = "flags" /\ rest # <<>> /\ Head(rest) \in BoolFlags
      /\ given' = given \cup {Head(rest)} /\ rest' = Tail(rest)
      /\ UNCHANGED <<args, tree, trailing, configPath, paths, entries, files>>
  BY DEF SetFlag, Parsing
<1>2. PICK k \in 1..Split : Remaining(k) /\ ParsedTo(k)
  BY <1>1 DEF ArgsInv
<1>3. /\ k + 1 \in 1..Split /\ Head(rest) = args[k] /\ k \in Meant
      /\ \A i \in Meant : i < k + 1 <=> i < k \/ i = k
  BY <1>1, <1>2, NextArgument
<1>4. Remaining(k + 1)'
  BY <1>1, <1>2, OneParsed
<1>5. /\ k + 1 < Split => ~IsValue[k + 1]
      /\ \A i \in Meant : i < k + 1 => ~Wrong(i)
      /\ ConfigBefore(k + 1)'
  BY <1>1, <1>2, <1>3, OnePast
<1>6. given' = {args[i] : i \in {j \in Meant : j < k + 1}} \cap BoolFlags
  <2>1. given = {args[i] : i \in {j \in Meant : j < k}} \cap BoolFlags
    BY <1>2 DEF ParsedTo
  <2>2. {j \in Meant : j < k + 1} = {j \in Meant : j < k} \cup {k}
    BY <1>3
  <2>. QED  BY <1>1, <1>3, <2>1, <2>2
<1>7. PathsAre({i \in Meant : i < k + 1 /\ args[i] \in Words})'
  <2>1. args[k] \notin Words
    BY <1>1, <1>3, ArgumentsAssumption DEF ArgumentsAssumption
  <2>2. {i \in Meant : i < k + 1 /\ args[i] \in Words}
          = {i \in Meant : i < k /\ args[i] \in Words}
    BY <1>3, <2>1
  <2>3. PathsAre({i \in Meant : i < k + 1 /\ args[i] \in Words})
    BY <1>2, <2>2 DEF ParsedTo
  <2>4. PICK P : P = {i \in Meant : i < k + 1 /\ args[i] \in Words}
    OBVIOUS
  <2>5. PathsAre(P)' /\ P = {i \in Meant : i < k + 1 /\ args[i] \in Words}'
    BY <1>1, <2>3, <2>4, PartsStand, MeaningStands
  <2>. QED  BY <2>5 DEF PathsAre
<1>8. ParsedTo(k + 1)'
  BY <1>1, <1>5, <1>6, <1>7, MeaningStands DEF ParsedTo
<1>9. SeqTypes'
  BY <1>1, SeqTypesStand DEF ArgsInv, SeqTypes
<1>10. Split' = Split
  BY <1>1, MeaningStands
<1>. QED  BY <1>1, <1>3, <1>4, <1>8, <1>9, <1>10 DEF ArgsInv, StopSaysWhy

\* A word is one path more.
LEMMA PositionalStep ==
  ASSUME LineInv, ArgsInv, Positional
  PROVE  ArgsInv'
<1>1. /\ at = "flags" /\ at' = "flags" /\ rest # <<>> /\ Head(rest) \in Words
      /\ paths' = Append(paths, Head(rest)) /\ rest' = Tail(rest)
      /\ UNCHANGED <<args, tree, trailing, given, configPath, entries, files>>
  BY DEF Positional, Parsing
<1>2. PICK k \in 1..Split : Remaining(k) /\ ParsedTo(k)
  BY <1>1 DEF ArgsInv
<1>3. /\ k + 1 \in 1..Split /\ Head(rest) = args[k] /\ k \in Meant /\ k \in Int
      /\ args[k] \in Arguments /\ Meant \in SUBSET Int
      /\ \A i \in Meant : i < k + 1 <=> i < k \/ i = k
  BY <1>1, <1>2, NextArgument
<1>4. Remaining(k + 1)'
  BY <1>1, <1>2, OneParsed
<1>5. /\ k + 1 < Split => ~IsValue[k + 1]
      /\ \A i \in Meant : i < k + 1 => ~Wrong(i)
      /\ ConfigBefore(k + 1)'
  BY <1>1, <1>2, <1>3, OnePast
<1>6. given = {args[i] : i \in {j \in Meant : j < k + 1}} \cap BoolFlags
  <2>1. given = {args[i] : i \in {j \in Meant : j < k}} \cap BoolFlags
    BY <1>2 DEF ParsedTo
  <2>2. {j \in Meant : j < k + 1} = {j \in Meant : j < k} \cup {k}
    BY <1>3
  <2>3. args[k] \notin BoolFlags
    BY <1>1, <1>3, ArgumentsAssumption DEF ArgumentsAssumption
  <2>. QED  BY <2>1, <2>2, <2>3
<1>7. paths \in Seq(Arguments) /\ paths' \in Seq(Arguments)
  BY <1>1, <1>3, LongerByOne DEF ArgsInv, SeqTypes
<1>8. PathsAre({i \in Meant : i < k + 1 /\ args[i] \in Words})'
  <2>. DEFINE P == {i \in Meant : i < k /\ args[i] \in Words}
  <2>1. {i \in Meant : i < k + 1 /\ args[i] \in Words} = P \cup {k}
    BY <1>1, <1>3
  <2>2. P \in SUBSET Int /\ \A j \in P : j < k
    BY <1>3
  <2>3. Lists(paths, args, P)
    BY <1>2 DEF ParsedTo, PathsAre
  <2>. HIDE DEF P
  <2>4. Lists(Append(paths, args[k]), args, P \cup {k})
    BY <1>3, <1>7, <2>2, <2>3, ListsMore
  <2>5. {i \in Meant : i < k + 1 /\ args[i] \in Words}'
          = {i \in Meant : i < k + 1 /\ args[i] \in Words}
    BY <1>1, MeaningStands
  <2>. QED  BY <1>1, <1>3, <2>1, <2>4, <2>5 DEF PathsAre
<1>9. ParsedTo(k + 1)'
  BY <1>1, <1>5, <1>6, <1>8, MeaningStands DEF ParsedTo
<1>10. SeqTypes'
  BY <1>1, <1>7, SeqTypesStand DEF ArgsInv, SeqTypes
<1>11. Split' = Split
  BY <1>1, MeaningStands
<1>. QED  BY <1>1, <1>3, <1>4, <1>9, <1>10, <1>11 DEF ArgsInv, StopSaysWhy

\* --config takes the next argument, which is its value.
LEMMA SetConfigStep ==
  ASSUME LineInv, ArgsInv, SetConfig
  PROVE  ArgsInv'
<1>1. /\ at = "flags" /\ at' = "flags" /\ Head(rest) = "--config" /\ Len(rest) > 1
      /\ rest # <<>> /\ configPath' = rest[2] /\ rest' = Tail(Tail(rest))
      /\ UNCHANGED <<args, tree, trailing, given, paths, entries, files>>
  BY DEF SetConfig, Parsing
<1>2. PICK k \in 1..Split : Remaining(k) /\ ParsedTo(k)
  BY <1>1 DEF ArgsInv
<1>3. /\ k \in Meant /\ k \in Int /\ Split \in Int /\ args[k] = "--config" /\ ~IsValue[k]
      /\ Meant \in SUBSET Int /\ Options \in SUBSET Int
  BY <1>1, <1>2, NextArgument
<1>4. /\ Len(rest) \in Nat /\ DOMAIN rest = 1..Len(rest)
      /\ Len(Tail(Tail(rest))) = Len(rest) - 2
      /\ DOMAIN Tail(Tail(rest)) = 1..(Len(rest) - 2)
      /\ \A n \in 1..(Len(rest) - 2) : Tail(Tail(rest))[n] = rest[n + 2]
  BY <1>1, LongTail DEF LineInv
<1>5. /\ Len(rest) = Split - k
      /\ \A n \in DOMAIN rest : rest[n] = args[k + n - 1]
      /\ DOMAIN trailing = 1..(Len(args) - Split)
      /\ \A n \in DOMAIN trailing : trailing[n] = args[Split + n]
  BY <1>2 DEF Remaining
<1>6. /\ args \in Seq(Arguments) /\ Len(args) \in Nat /\ Split \in 1..(Len(args) + 1)
      /\ Options = 1..(Split - 1)
  BY OptionsFirst DEF LineInv
<1>7. /\ k + 2 \in 1..Split /\ k + 1 \in Options /\ k + 1 \in 1..Len(args)
      /\ (k + 1) - 1 = k /\ k + 1 > 1
  BY <1>1, <1>3, <1>4, <1>5, <1>6
<1>8. IsValue[k + 1]
  BY <1>3, <1>6, <1>7, ValueAfterConfig
<1>9. k + 2 < Split => ~IsValue[k + 2]
  <2>1. k + 2 < Split => k + 2 \in 1..Len(args) /\ (k + 2) - 1 = k + 1
    BY <1>3, <1>6, <1>7
  <2>. QED  BY <1>6, <1>8, <2>1, ValueAfterConfig
<1>10. \A i \in Meant : i < k + 2 <=> i < k \/ i = k
  <2>1. k + 1 \notin Meant
    BY <1>8 DEF Meant
  <2>. QED  BY <1>3, <2>1
<1>11. Remaining(k + 2)'
  <2>1. Split' = Split
    BY <1>1, MeaningStands
  <2>2. Len(Tail(Tail(rest))) = Split - (k + 2)
    BY <1>3, <1>4, <1>5
  <2>3. ASSUME NEW n \in 1..(Len(rest) - 2) PROVE Tail(Tail(rest))[n] = args[(k + 2) + n - 1]
    <3>1. n + 2 \in DOMAIN rest /\ k + (n + 2) - 1 = (k + 2) + n - 1
      BY <1>3, <1>4
    <3>. QED  BY <1>4, <1>5, <3>1
  <2>. QED  BY <1>1, <1>4, <1>5, <2>1, <2>2, <2>3 DEF Remaining
<1>12. \A i \in Meant : i < k + 2 => ~Wrong(i)
  <2>1. ~Wrong(k)
    BY <1>3, <1>7, ArgumentsAssumption DEF Wrong, ArgumentsAssumption
  <2>. QED  BY <1>2, <1>10, <2>1 DEF ParsedTo
<1>13. given = {args[i] : i \in {j \in Meant : j < k + 2}} \cap BoolFlags
  <2>1. given = {args[i] : i \in {j \in Meant : j < k}} \cap BoolFlags
    BY <1>2 DEF ParsedTo
  <2>2. {j \in Meant : j < k + 2} = {j \in Meant : j < k} \cup {k}
    BY <1>3, <1>10
  <2>3. args[k] \notin BoolFlags
    BY <1>3 DEF BoolFlags
  <2>. QED  BY <2>1, <2>2, <2>3
<1>14. ConfigBefore(k + 2)'
  <2>1. configPath' = args[k + 1]
    <3>1. 2 \in DOMAIN rest /\ k + 2 - 1 = k + 1
      BY <1>1, <1>3, <1>4
    <3>. QED  BY <1>1, <1>5, <3>1
  <2>2. k + 1 < k + 2 /\ \A j \in Options : j < k + 2 => j <= k + 1
    BY <1>3
  <2>3. Options' = Options /\ IsValue' = IsValue
    BY <1>1, MeaningStands
  <2>4. \E i \in Options :
          /\ i < k + 2 /\ IsValue[i] /\ configPath' = args[i]
          /\ \A j \in Options : j < k + 2 /\ IsValue[j] => j <= i
    BY <1>7, <1>8, <2>1, <2>2
  <2>. QED  BY <1>1, <2>3, <2>4 DEF ConfigBefore
<1>15. PathsAre({i \in Meant : i < k + 2 /\ args[i] \in Words})'
  <2>1. args[k] \notin Words
    BY <1>3, ArgumentsAssumption DEF ArgumentsAssumption
  <2>2. {i \in Meant : i < k + 2 /\ args[i] \in Words}
          = {i \in Meant : i < k /\ args[i] \in Words}
    BY <1>10, <2>1
  <2>3. PathsAre({i \in Meant : i < k + 2 /\ args[i] \in Words})
    BY <1>2, <2>2 DEF ParsedTo
  <2>4. PICK P : P = {i \in Meant : i < k + 2 /\ args[i] \in Words}
    OBVIOUS
  <2>5. PathsAre(P)' /\ P = {i \in Meant : i < k + 2 /\ args[i] \in Words}'
    BY <1>1, <2>3, <2>4, PartsStand, MeaningStands
  <2>. QED  BY <2>5 DEF PathsAre
<1>16. ParsedTo(k + 2)'
  BY <1>1, <1>9, <1>12, <1>13, <1>14, <1>15, MeaningStands DEF ParsedTo
<1>17. SeqTypes'
  BY <1>1, SeqTypesStand DEF ArgsInv, SeqTypes
<1>18. Split' = Split
  BY <1>1, MeaningStands
<1>. QED  BY <1>1, <1>7, <1>11, <1>16, <1>17, <1>18 DEF ArgsInv, StopSaysWhy

\* Cutting the arguments at the first "--".
LEMMA SplitArgsStep ==
  ASSUME LineInv, ArgsInv, SplitArgs
  PROVE  ArgsInv'
<1>. DEFINE n == SplitPoint(args)
<1>1. /\ at = "args" /\ at' = "flags"
      /\ rest' = IF n = 0 THEN args ELSE SubSeq(args, 1, n - 1)
      /\ trailing' = IF n = 0 THEN <<>> ELSE SubSeq(args, n + 1, Len(args))
      /\ UNCHANGED <<args, tree, given, configPath, paths, entries, files>>
  BY DEF SplitArgs, Goto
<1>2. /\ args \in Seq(Arguments) /\ Len(args) \in Nat /\ DOMAIN args = 1..Len(args)
      /\ Split \in 1..(Len(args) + 1) /\ Options = 1..(Split - 1)
      /\ \A i \in 1..Len(args) : args[i] \in Arguments
  BY OptionsFirst, ElementOfSeq DEF LineInv
<1>3. /\ n = 0 => Split = Len(args) + 1
      /\ n # 0 => Split = n
  BY DEF Split
<1>. HIDE DEF n
<1>4. /\ Len(rest') = Split - 1 /\ DOMAIN rest' = 1..(Split - 1)
      /\ \A i \in 1..(Split - 1) : rest'[i] = args[1 + i - 1]
      /\ trailing' \in Seq(Arguments) /\ DOMAIN trailing' = 1..(Len(args) - Split)
      /\ \A i \in 1..(Len(args) - Split) : trailing'[i] = args[Split + i]
  <2>1. CASE n = 0
    <3>1. rest' = args /\ trailing' = <<>> /\ 1..(Len(args) - Split) = {}
          /\ Split - 1 = Len(args)
      BY <1>1, <1>2, <1>3, <2>1
    <3>2. DOMAIN <<>> = {} /\ <<>> \in Seq(Arguments)
      OBVIOUS
    <3>. QED  BY <1>2, <3>1, <3>2
  <2>2. CASE n # 0
    <3>1. Split = n /\ n \in 1..Len(args)
      <4>1. SplitPoint(args) \in DOMAIN args
        BY <1>2, <2>2, SplitPointIsFirst DEF n
      <4>. QED  BY <1>2, <1>3, <2>2, <4>1 DEF n
    <3>2. /\ SubSeq(args, 1, n - 1) \in Seq(Arguments)
          /\ Len(SubSeq(args, 1, n - 1)) = n - 1
          /\ \A i \in 1..(n - 1) : SubSeq(args, 1, n - 1)[i] = args[1 + i - 1]
      <4>1. /\ \A i \in 1..(n - 1) : args[i] \in Arguments
            /\ 1 \in Int /\ n - 1 \in Int /\ (n - 1) - 1 + 1 = n - 1
            /\ (IF 1 <= n - 1 THEN (n - 1) - 1 + 1 ELSE 0) = n - 1
        BY <1>2, <3>1
      <4>. QED  BY <4>1, SubSeqProperties
    <3>3. /\ SubSeq(args, n + 1, Len(args)) \in Seq(Arguments)
          /\ Len(SubSeq(args, n + 1, Len(args))) = Len(args) - n
          /\ \A i \in 1..(Len(args) - n) : SubSeq(args, n + 1, Len(args))[i] = args[n + i]
      <4>1. PICK m : m = Len(args) /\ m \in Nat /\ n \in 1..m
        BY <1>2, <3>1
      <4>2. /\ \A i \in (n + 1)..m : i \in 1..m
            /\ n + 1 \in Int /\ m \in Int /\ m - (n + 1) + 1 = m - n
            /\ (IF n + 1 <= m THEN m - (n + 1) + 1 ELSE 0) = m - n
            /\ \A i \in 1..(m - n) : (n + 1) + i - 1 = n + i
        <5>. HIDE <4>1
        <5>1. m \in Nat /\ n \in 1..m
          BY <4>1
        <5>. QED  BY <5>1
      <4>3. \A i \in (n + 1)..m : args[i] \in Arguments
        BY <1>2, <4>1, <4>2
      <4>. QED  BY <4>1, <4>2, <4>3, SubSeqProperties
    <3>4. rest' = SubSeq(args, 1, n - 1) /\ trailing' = SubSeq(args, n + 1, Len(args))
      BY <1>1, <2>2
    <3>5. DOMAIN rest' = 1..(n - 1) /\ DOMAIN trailing' = 1..(Len(args) - n)
      BY <3>2, <3>3, <3>4, LenProperties
    <3>. QED  BY <3>1, <3>2, <3>3, <3>4, <3>5
  <2>. QED  BY <2>1, <2>2
<1>5. Split' = Split /\ Options' = Options /\ Meant' = Meant /\ IsValue' = IsValue
  BY <1>1, MeaningStands
<1>6. Remaining(1)'
  BY <1>1, <1>4, <1>5 DEF Remaining
<1>7. Options \in SUBSET Int /\ Meant \in SUBSET Options /\ \A i \in Options : ~(i < 1)
  BY <1>2 DEF Meant
<1>8. 1 < Split => ~IsValue[1]
  <2>1. 1 < Split => 1 \in 1..Len(args)
    BY <1>2
  <2>. QED  BY <1>2, <2>1, ValueAfterConfig
<1>9. given = {} /\ configPath = "" /\ paths = <<>>
  BY <1>1 DEF ArgsInv
<1>10. ParsedTo(1)'
  <2>1. /\ {i \in Meant : i < 1 /\ args[i] \in Words} = {}
        /\ {i \in Meant : i < 1} = {} /\ {args[i] : i \in {}} \cap BoolFlags = {}
    BY <1>7
  <2>2. PathsAre({i \in Meant : i < 1 /\ args[i] \in Words})'
    BY <1>1, <1>5, <1>9, <2>1, ListsNone DEF PathsAre
  <2>3. ConfigBefore(1)'
    BY <1>1, <1>5, <1>7, <1>9 DEF ConfigBefore
  <2>. QED  BY <1>1, <1>5, <1>7, <1>8, <1>9, <2>1, <2>2, <2>3 DEF ParsedTo
<1>11. SeqTypes'
  BY <1>1, <1>4, SeqTypesStand DEF ArgsInv, SeqTypes
<1>12. 1 \in 1..Split
  BY <1>2
<1>. QED  BY <1>1, <1>5, <1>6, <1>10, <1>11, <1>12 DEF ArgsInv, StopSaysWhy

\* Nothing wrong, or the first of what is.
LEMMA FirstWrongIs ==
  ASSUME Meant \in SUBSET Int
  PROVE  /\ (\A i \in Meant : ~Wrong(i)) => FirstWrong = {}
         /\ \A k \in Meant : Wrong(k) /\ (\A i \in Meant : i < k => ~Wrong(i))
              => FirstWrong = {k}
<1>1. (\A i \in Meant : ~Wrong(i)) => FirstWrong = {}
  BY DEF FirstWrong
<1>2. ASSUME NEW k \in Meant, Wrong(k), \A i \in Meant : i < k => ~Wrong(i)
      PROVE  FirstWrong = {k}
  <2>1. \A i \in Meant : Wrong(i) => k <= i
    BY <1>2
  <2>2. \A i \in FirstWrong : i \in Int /\ k \in Int /\ i <= k /\ k <= i
    BY <1>2, <2>1 DEF FirstWrong
  <2>3. \A i \in FirstWrong : i = k
    BY <2>2
  <2>4. k \in FirstWrong
    BY <1>2, <2>1 DEF FirstWrong
  <2>. QED  BY <2>3, <2>4
<1>. QED  BY <1>1, <1>2

\* A run that stops at an argument, which is the first wrong one.
LEMMA ParseFailsStep ==
  ASSUME LineInv, ArgsInv, ParseFails
  PROVE  ArgsInv'
<1>1. /\ at = "flags" /\ at' = "stopped" /\ rest # <<>>
      /\ \/ Head(rest) = "--help" /\ exit' = exitOK
         \/ Head(rest) \in UnknownFlags /\ exit' = exitUsageError
         \/ Head(rest) = "--config" /\ Len(rest) = 1 /\ exit' = exitUsageError
      /\ UNCHANGED <<args, tree, rest, trailing, given, configPath, paths, entries, files>>
  BY DEF ParseFails, Parsing, Stop
<1>2. PICK k \in 1..Split : Remaining(k) /\ ParsedTo(k)
  BY <1>1 DEF ArgsInv
<1>3. /\ k \in Meant /\ Head(rest) = args[k] /\ k \in Int /\ Split \in Int
      /\ Meant \in SUBSET Int
  BY <1>1, <1>2, NextArgument
<1>4. Wrong(k)
  <2>1. CASE args[k] \in UnknownFlags \cup {"--help"}
    BY <2>1 DEF Wrong
  <2>2. CASE args[k] = "--config" /\ Len(rest) = 1
    <3>1. Len(rest) = Split - k
      BY <1>2 DEF Remaining
    <3>2. Options = 1..(Split - 1)
      BY OptionsFirst DEF LineInv
    <3>3. k + 1 = Split
      <4>1. Split - k = 1
        BY <2>2, <3>1
      <4>. QED  BY <1>3, <4>1
    <3>4. k + 1 \notin Options
      BY <1>3, <3>2, <3>3
    <3>. QED  BY <2>2, <3>4 DEF Wrong
  <2>. QED  BY <1>1, <1>3, <2>1, <2>2
<1>5. FirstWrong = {k}
  BY <1>2, <1>3, <1>4, FirstWrongIs DEF ParsedTo
<1>6. exit' = exitOK <=> args[k] = "--help"
  <2>1. "--help" \notin UnknownFlags
    BY ArgumentsAssumption DEF ArgumentsAssumption
  <2>2. exitOK # exitUsageError
    BY DEF exitOK, exitUsageError
  <2>. QED  BY <1>1, <1>3, <2>1, <2>2
<1>7. exit' # exitConfigError
  BY <1>1 DEF exitOK, exitUsageError, exitConfigError
<1>8. FirstWrong' = {k}
  BY <1>1, <1>5, MeaningStands
<1>9. StopSaysWhy'
  BY <1>1, <1>6, <1>7, <1>8 DEF StopSaysWhy, exitOK, exitConfigError
<1>10. SeqTypes'
  BY <1>1, SeqTypesStand DEF ArgsInv, SeqTypes
<1>. QED  BY <1>1, <1>9, <1>10 DEF ArgsInv

\* When the loop has dealt with the arguments before "--", nothing is wrong, and
\* the flags and the configuration are the ones that are meant.
LEMMA AllParsed ==
  ASSUME LineInv, ParsedTo(Split)
  PROVE  /\ FirstWrong = {} /\ given = MeantFlags
         /\ configPath # "" => {configPath} = MeantConfig
         /\ PathsAre({i \in Meant : args[i] \in Words})
<1>1. /\ Split \in Int /\ Options \in SUBSET Int /\ \A i \in Options : i < Split
  BY OptionsFirst DEF LineInv
<1>2. Meant \in SUBSET Int /\ \A i \in Meant : i < Split
  BY <1>1 DEF Meant
<1>3. FirstWrong = {}
  BY <1>2, FirstWrongIs DEF ParsedTo
<1>4. given = MeantFlags
  <2>1. {j \in Meant : j < Split} = Meant
    BY <1>2
  <2>. QED  BY <2>1 DEF ParsedTo, MeantFlags
<1>5. ASSUME configPath # "" PROVE {configPath} = MeantConfig
  <2>1. PICK i \in Options :
          /\ IsValue[i] /\ configPath = args[i]
          /\ \A j \in Options : IsValue[j] => j <= i
    BY <1>1, <1>5 DEF ParsedTo, ConfigBefore
  <2>2. \A j \in Options : IsValue[j] /\ (\A m \in Options : IsValue[m] => m <= j) => j = i
    <3>1. ASSUME NEW j \in Options, IsValue[j], \A m \in Options : IsValue[m] => m <= j
          PROVE  j = i
      <4>1. j <= i /\ i <= j
        BY <2>1, <3>1
      <4>. QED  BY <1>1, <4>1
    <3>. QED  BY <3>1
  <2>3. {j \in Options : IsValue[j] /\ \A m \in Options : IsValue[m] => m <= j} = {i}
    BY <2>1, <2>2
  <2>4. {args[n] : n \in {i}} = {args[i]}
    OBVIOUS
  <2>. QED  BY <2>1, <2>3, <2>4, Zenon DEF MeantConfig
<1>6. {i \in Meant : i < Split /\ args[i] \in Words} = {i \in Meant : args[i] \in Words}
  BY <1>2
<1>. QED  BY <1>3, <1>4, <1>5, <1>6 DEF ParsedTo

\* What comes after "--" is a path, whatever it looks like.
LEMMA TrailingPaths ==
  ASSUME LineInv, trailing \in Seq(Arguments), paths \in Seq(Arguments),
         NEW k, Remaining(k), PathsAre({i \in Meant : args[i] \in Words})
  PROVE  Lists(paths \o trailing, args, PathPlaces)
<1>. DEFINE P == {i \in Meant : args[i] \in Words}
            Q == {i \in DOMAIN args : i > Split}
<1>1. /\ Len(args) \in Nat /\ DOMAIN args = 1..Len(args)
      /\ Split \in 1..(Len(args) + 1) /\ Options = 1..(Split - 1)
      /\ \A i \in DOMAIN args : (\E d \in DashDashes : i > d) <=> i > Split
  BY OptionsFirst DEF LineInv
<1>2. /\ DOMAIN trailing = 1..(Len(args) - Split)
      /\ \A n \in DOMAIN trailing : trailing[n] = args[Split + n]
  BY DEF Remaining
<1>3. P \in SUBSET Options
  BY DEF Meant
<1>4. PathPlaces = P \cup Q
  <2>1. \A i \in DOMAIN args : MeantPath(i) <=> i \in P \/ i > Split
    BY <1>1 DEF MeantPath
  <2>2. P \in SUBSET (DOMAIN args)
    BY <1>1, <1>3
  <2>. HIDE DEF P
  <2>. QED  BY <2>1, <2>2 DEF PathPlaces
<1>5. Lists(trailing, args, Q)
  <2>. DEFINE place == [n \in DOMAIN trailing |-> Split + n]
  <2>1. \A n \in DOMAIN trailing : Split + n \in Q
    BY <1>1, <1>2
  <2>2. place \in [DOMAIN trailing -> Q]
    BY <2>1
  <2>3. /\ \A n \in DOMAIN trailing : trailing[n] = args[place[n]]
        /\ \A m, n \in DOMAIN trailing : m < n => place[m] < place[n]
    BY <1>1, <1>2
  <2>4. \A i \in Q : \E n \in DOMAIN trailing : place[n] = i
    <3>1. ASSUME NEW i \in Q PROVE \E n \in DOMAIN trailing : place[n] = i
      <4>1. i - Split \in DOMAIN trailing /\ Split + (i - Split) = i
        BY <1>1, <1>2
      <4>2. place[i - Split] = i
        BY <4>1
      <4>. QED  BY <4>1, <4>2
    <3>. QED  BY <3>1
  <2>. HIDE DEF place
  <2>. QED  BY <2>2, <2>3, <2>4, ListsIntro, Zenon
<1>6. P \in SUBSET Int /\ Q \in SUBSET Int /\ \A i \in P : \A j \in Q : i < j
  BY <1>1, <1>3
<1>7. Lists(paths, args, P)
  BY DEF PathsAre
<1>. HIDE DEF P, Q
<1>8. Lists(paths \o trailing, args, P \cup Q)
  BY <1>5, <1>6, <1>7, ListsBoth
<1>. QED  BY <1>4, <1>8

\* The outcome of parseArgs.
LEMMA ArgsParsedStep ==
  ASSUME LineInv, ArgsInv, ArgsParsed
  PROVE  ArgsInv'
<1>1. /\ at = "flags" /\ rest = <<>> /\ paths' = paths \o trailing
      /\ UNCHANGED <<args, tree, rest, trailing, given, configPath, entries, files>>
      /\ Outcome
  BY DEF ArgsParsed
<1>2. PICK k \in 1..Split : Remaining(k) /\ ParsedTo(k)
  BY <1>1 DEF ArgsInv
<1>3. k = Split
  <2>1. Split \in 1..(Len(args) + 1) /\ Len(args) \in Nat
    BY OptionsFirst DEF LineInv
  <2>2. Split - k = 0
    <3>1. Len(<<>>) = 0 /\ Len(rest) = Split - k
      BY <1>2 DEF Remaining
    <3>. QED  BY <1>1, <3>1
  <2>. QED  BY <1>2, <2>1, <2>2
<1>4. /\ FirstWrong = {} /\ given = MeantFlags
      /\ configPath # "" => {configPath} = MeantConfig
      /\ PathsAre({i \in Meant : args[i] \in Words})
  BY <1>2, <1>3, AllParsed
<1>5. trailing \in Seq(Arguments) /\ paths \in Seq(Arguments) /\ files = <<>>
  BY <1>1 DEF ArgsInv, SeqTypes
<1>6. Lists(paths \o trailing, args, PathPlaces)
  BY <1>2, <1>4, <1>5, TrailingPaths
<1>7. SeqTypes'
  <2>1. paths' \in Seq(Arguments)
    BY <1>1, <1>5, ConcatProperties
  <2>. QED  BY <1>1, <2>1, SeqTypesStand DEF ArgsInv, SeqTypes
<1>8. FirstWrong' = {} /\ MeantFlags' = given
  BY <1>1, <1>4, MeaningStands
<1>9. CASE "--version" \in given
  <2>1. at' = "stopped" /\ exit' = exitOK
    BY <1>1, <1>9 DEF Outcome, Stop
  <2>2. "--version" \in MeantFlags' /\ exit' # exitConfigError
    BY <1>8, <1>9, <2>1 DEF exitOK, exitConfigError
  <2>3. StopSaysWhy'
    BY <1>8, <2>1, <2>2 DEF StopSaysWhy
  <2>. QED  BY <1>7, <2>1, <2>3 DEF ArgsInv
<1>10. CASE "--version" \notin given /\ UsageError
  <2>1. at' = "stopped" /\ exit' = exitUsageError
    BY <1>1, <1>10 DEF Outcome, Stop
  <2>2. "--version" \notin MeantFlags' /\ exit' # exitConfigError /\ exit' # exitOK
    BY <1>8, <1>10, <2>1 DEF exitOK, exitUsageError, exitConfigError
  <2>3. StopSaysWhy'
    BY <1>8, <2>1, <2>2 DEF StopSaysWhy
  <2>. QED  BY <1>7, <2>1, <2>3 DEF ArgsInv
<1>11. CASE "--version" \notin given /\ ~UsageError
  <2>1. at' = "paths"
    BY <1>1, <1>11 DEF Outcome, Goto
  <2>2. Faultless'
    <3>1. Faultless
      BY <1>4, <1>11 DEF Faultless, UsageError
    <3>. QED  BY <1>1, <3>1, PartsStand
  <2>3. ExpandedTo(0)'
    <3>1. DOMAIN args = 1..Len(args) /\ Len(args) \in Nat
      BY OptionsFirst DEF LineInv
    <3>2. \A j \in PathPlaces : j \in Nat /\ j > 0
      BY <3>1 DEF PathPlaces
    <3>3. {j \in PathPlaces : j > 0} = PathPlaces /\ {s \in Sources : s[1] <= 0} = {}
      <4>1. \A s \in Sources : s[1] \in PathPlaces
        BY SourceMembers
      <4>. QED  BY <3>2, <4>1
    <3>4. PathPlaces' = PathPlaces /\ Sources' = Sources
      BY <1>1, MeaningStands
    <3>5. PathsAre({j \in PathPlaces : j > 0})'
      BY <1>1, <1>6, <3>3, <3>4 DEF PathsAre
    <3>6. FilesSoFar({s \in Sources : s[1] <= 0})'
      <4>1. DOMAIN <<>> = {}
        OBVIOUS
      <4>2. PICK none : none = {s \in Sources : s[1] <= 0} /\ none = {}
        BY <3>3
      <4>3. FilesAre(none)
        BY <1>5, <4>1, <4>2 DEF FilesAre, Range
      <4>4. FilesSoFar(none)'
        <5>1. FilesSoFar(none)
          BY <4>3 DEF FilesSoFar
        <5>. QED  BY <1>1, <5>1, PartsStand
      <4>5. none = {s \in Sources : s[1] <= 0}'
        BY <3>4, <4>2
      <4>. QED  BY <4>4, <4>5 DEF FilesSoFar, FilesAre
    <3>. QED  BY <3>5, <3>6 DEF ExpandedTo
  <2>4. 0 \in 0..Len(args)'
    BY <1>1, OptionsFirst DEF LineInv
  <2>. QED  BY <1>7, <2>1, <2>2, <2>3, <2>4 DEF ArgsInv, StopSaysWhy
<1>. QED  BY <1>9, <1>10, <1>11

-----------------------------------------------------------------------------
(***************************************************************************)
(* So does expanding the paths.                                            *)
(***************************************************************************)

\* A run of a faultless command line that stops for another reason.
LEMMA StopsForPaths ==
  ASSUME ArgsInv, Faultless, at' = "stopped", exit' = exitUsageError,
         UNCHANGED <<args, tree, rest, trailing, given, configPath, paths, entries, files>>
  PROVE  ArgsInv'
<1>1. SeqTypes'
  BY SeqTypesStand DEF ArgsInv, SeqTypes
<1>2. Faultless'
  BY PartsStand
<1>3. StopSaysWhy'
  BY <1>2 DEF Faultless, StopSaysWhy, exitOK, exitUsageError, exitConfigError
<1>. QED  BY <1>1, <1>3 DEF ArgsInv

\* The next path is at the first of the places that are left.
LEMMA NextPath ==
  ASSUME LineInv, SeqTypes, paths # <<>>, NEW P, P \in SUBSET PathPlaces, PathsAre(P)
  PROVE  /\ Tail(paths) \in Seq(Arguments)
         /\ \E i \in P : /\ Head(paths) = args[i] /\ \A j \in P : i <= j
                         /\ Lists(Tail(paths), args, {j \in P : j > i})
<1>1. paths \in Seq(Arguments)
  BY DEF SeqTypes
<1>2. P \in SUBSET Int
  <2>1. DOMAIN args = 1..Len(args) /\ Len(args) \in Nat
    BY OptionsFirst DEF LineInv
  <2>. QED  BY <2>1 DEF PathPlaces
<1>3. Lists(paths, args, P)
  BY DEF PathsAre
<1>4. Tail(paths) \in Seq(Arguments)
  BY <1>1, ShortTail
<1>. QED  BY <1>1, <1>2, <1>3, <1>4, ListsFewer

\* The places of the arguments and of the entries are numbers.
LEMMA PlacesAreNumbers ==
  ASSUME LineInv, SeqTypes
  PROVE  /\ Len(args) \in Nat
         /\ \A i \in PathPlaces : i \in Nat /\ i > 0 /\ i <= Len(args)
         /\ \A s \in Sources : s[1] \in Int /\ s[2] \in Int /\ s[2] >= 0
<1>1. DOMAIN args = 1..Len(args) /\ Len(args) \in Nat
  BY OptionsFirst DEF LineInv
<1>2. \A i \in PathPlaces : i \in Nat /\ i > 0 /\ i <= Len(args)
  BY <1>1 DEF PathPlaces
<1>3. ASSUME NEW i, NEW n \in EntriesAt(i) PROVE n \in Int /\ n >= 0
  <2>1. CASE Kind(args[i]) # "dir"
    BY <1>3, <2>1 DEF EntriesAt
  <2>2. CASE Kind(args[i]) = "dir"
    <3>1. args[i] \in DOMAIN tree
      BY <2>2 DEF Kind
    <3>2. tree[args[i]].entries \in DirEntries
      BY <3>1 DEF SeqTypes
    <3>3. DOMAIN tree[args[i]].entries = 1..Len(tree[args[i]].entries)
          /\ Len(tree[args[i]].entries) \in Nat
      BY <3>2, LenProperties DEF DirEntries
    <3>. QED  BY <1>3, <2>2, <3>3 DEF EntriesAt
  <2>. QED  BY <2>1, <2>2
<1>4. \A s \in Sources : s[1] \in PathPlaces /\ s[2] \in EntriesAt(s[1])
  BY SourceMembers
<1>. QED  BY <1>1, <1>2, <1>3, <1>4

\* Where the paths up to place i0 are expanded, the next one is at the first place
\* after it, and all files of the places between are there.
LEMMA NextPlace ==
  ASSUME LineInv, SeqTypes, paths # <<>>, NEW i0 \in 0..Len(args), ExpandedTo(i0)
  PROVE  /\ Tail(paths) \in Seq(Arguments)
         /\ \E i \in PathPlaces :
              /\ i \in Nat /\ i > 0 /\ i <= Len(args) /\ i0 < i /\ Head(paths) = args[i]
              /\ {j \in PathPlaces : j > i0} = {j \in PathPlaces : j >= i}
              /\ Lists(Tail(paths), args, {j \in PathPlaces : j > i})
              /\ {s \in Sources : s[1] <= i0} = {s \in Sources : s[1] < i}
<1>. DEFINE P == {j \in PathPlaces : j > i0}
<1>1. /\ Len(args) \in Nat
      /\ \A i \in PathPlaces : i \in Nat /\ i > 0 /\ i <= Len(args)
      /\ \A s \in Sources : s[1] \in PathPlaces
  BY PlacesAreNumbers, SourceMembers
<1>2. P \in SUBSET PathPlaces /\ PathsAre(P)
  BY DEF ExpandedTo
<1>3. PICK i \in P : /\ Head(paths) = args[i] /\ \A j \in P : i <= j
                     /\ Lists(Tail(paths), args, {j \in P : j > i})
  <2>. HIDE DEF P
  <2>. QED  BY <1>2, NextPath
<1>4. Tail(paths) \in Seq(Arguments)
  <2>. HIDE DEF P
  <2>. QED  BY <1>2, NextPath
<1>5. i0 \in Int /\ i \in PathPlaces /\ i \in Nat /\ i > 0 /\ i <= Len(args) /\ i0 < i
  BY <1>1
<1>6. \A j \in PathPlaces : j \in Int /\ (j > i0 <=> j >= i)
  <2>1. \A j \in PathPlaces : j \in Int /\ (j > i0 => i <= j)
    BY <1>1, <1>3
  <2>. QED  BY <1>5, <2>1
<1>7. {j \in PathPlaces : j > i0} = {j \in PathPlaces : j >= i}
  BY <1>6
<1>8. {j \in P : j > i} = {j \in PathPlaces : j > i}
  <2>1. \A j \in PathPlaces : j > i => j > i0
    BY <1>5, <1>6
  <2>. QED  BY <2>1
<1>9. {s \in Sources : s[1] <= i0} = {s \in Sources : s[1] < i}
  <2>1. \A j \in PathPlaces : j <= i0 <=> j < i
    BY <1>5, <1>6
  <2>. QED  BY <1>1, <2>1
<1>. QED  BY <1>3, <1>4, <1>5, <1>7, <1>8, <1>9

\* A file, or a link to one, is one more.
LEMMA ExpandFileStep ==
  ASSUME LineInv, ArgsInv, ExpandFile
  PROVE  ArgsInv'
<1>1. /\ at = "paths" /\ at' = "paths" /\ paths # <<>>
      /\ Kind(Head(paths)) \in {"file", "link"}
      /\ files' = Append(files, DirectFile(Head(paths))) /\ paths' = Tail(paths)
      /\ UNCHANGED <<args, tree, rest, trailing, given, configPath, entries>>
  BY DEF ExpandFile, Expanding
<1>2. PICK i0 \in 0..Len(args) : ExpandedTo(i0)
  BY <1>1 DEF ArgsInv
<1>3. SeqTypes /\ Faultless
  BY <1>1 DEF ArgsInv
<1>4. PICK i \in PathPlaces :
        /\ i \in Nat /\ i > 0 /\ i <= Len(args) /\ i0 < i /\ Head(paths) = args[i]
        /\ Lists(Tail(paths), args, {j \in PathPlaces : j > i})
        /\ {s \in Sources : s[1] <= i0} = {s \in Sources : s[1] < i}
  BY <1>1, <1>2, <1>3, NextPlace
<1>5. Tail(paths) \in Seq(Arguments)
  BY <1>1, <1>2, <1>3, NextPlace
<1>6. PICK new : new = <<i, 0>>
  OBVIOUS
<1>7. new \in Sources /\ FileOf(new) = DirectFile(Head(paths)) /\ new[1] = i
  <2>1. 0 \in EntriesAt(i)
    BY <1>1, <1>4 DEF EntriesAt
  <2>. QED  BY <1>4, <1>6, <2>1, SourceMembers DEF FileOf
<1>8. PICK S : S = {s \in Sources : s[1] < i}
  OBVIOUS
<1>9. /\ \A s \in Sources : s[1] \in Int /\ s[2] \in Int
      /\ S \in SUBSET Sources /\ \A s \in S : Before(s, new)
  BY <1>7, <1>8, PlacesAreNumbers, <1>3 DEF Before
<1>10. {s \in Sources : s[1] <= i} = S \cup {new}
  <2>1. \A s \in Sources : s[1] = i => s = new
    <3>1. EntriesAt(i) = {0}
      BY <1>1, <1>4 DEF EntriesAt
    <3>2. \A s \in Sources : s = <<s[1], s[2]>> /\ s[2] \in EntriesAt(s[1])
      BY SourceMembers
    <3>. QED  BY <1>6, <3>1, <3>2
  <2>2. \A s \in Sources : s[1] <= i <=> s[1] < i \/ s[1] = i
    BY <1>4, <1>9
  <2>. QED  BY <1>7, <1>8, <2>1, <2>2
<1>11. files \in Seq({FileOf(s) : s \in Sources}) /\ FilesSoFar(S)
  BY <1>2, <1>3, <1>4, <1>8 DEF SeqTypes, ExpandedTo
<1>12. FilesSoFar(S \cup {new})'
  <2>1. \A s \in S \cup {new} : s[1] \in Int /\ s[2] \in Int
    BY <1>7, <1>9
  <2>2. FileOf(new) \in {FileOf(s) : s \in Sources}
    BY <1>7
  <2>. QED  BY <1>1, <1>7, <1>9, <1>11, <2>1, <2>2, FilesMore
<1>13. PathPlaces' = PathPlaces /\ Sources' = Sources
  BY <1>1, MeaningStands
<1>14. ExpandedTo(i)'
  <2>1. PathsAre({j \in PathPlaces : j > i})'
    BY <1>1, <1>4, <1>13 DEF PathsAre
  <2>2. FilesSoFar({s \in Sources : s[1] <= i})'
    BY <1>10, <1>12, <1>13 DEF FilesSoFar, FilesAre
  <2>. QED  BY <2>1, <2>2 DEF ExpandedTo
<1>15. SeqTypes'
  <2>1. files' \in Seq({FileOf(s) : s \in Sources})
    BY <1>1, <1>7, <1>11, LongerByOne
  <2>. QED  BY <1>1, <1>3, <1>5, <2>1, SeqTypesStand DEF SeqTypes
<1>16. Faultless'
  BY <1>1, <1>3, PartsStand
<1>17. i \in (0..Len(args))'
  <2>1. Len(args) \in Nat
    BY OptionsFirst DEF LineInv
  <2>. QED  BY <1>1, <1>4, <2>1
<1>. QED  BY <1>1, <1>14, <1>15, <1>16, <1>17 DEF ArgsInv, StopSaysWhy

\* A directory is read, at first none of its entries.
LEMMA ReadDirStep ==
  ASSUME LineInv, ArgsInv, ReadDir
  PROVE  ArgsInv'
<1>1. /\ at = "paths" /\ at' = "dir" /\ paths # <<>> /\ Kind(Head(paths)) = "dir"
      /\ entries' = tree[Head(paths)].entries
      /\ UNCHANGED <<args, tree, rest, trailing, given, configPath, paths, files>>
  BY DEF ReadDir, Expanding, Goto
<1>2. PICK i0 \in 0..Len(args) : ExpandedTo(i0)
  BY <1>1 DEF ArgsInv
<1>3. SeqTypes /\ Faultless
  BY <1>1 DEF ArgsInv
<1>4. PICK i \in PathPlaces :
        /\ i \in Nat /\ Head(paths) = args[i]
        /\ {j \in PathPlaces : j > i0} = {j \in PathPlaces : j >= i}
        /\ {s \in Sources : s[1] <= i0} = {s \in Sources : s[1] < i}
  BY <1>1, <1>2, <1>3, NextPlace
<1>5. PICK dir : dir = tree[args[i]].entries
  OBVIOUS
<1>6. dir \in DirEntries /\ Len(dir) \in Nat /\ DOMAIN dir = 1..Len(dir)
  <2>1. args[i] \in DOMAIN tree
    BY <1>1, <1>4 DEF Kind
  <2>2. dir \in DirEntries
    BY <1>3, <1>5, <2>1 DEF SeqTypes
  <2>. QED  BY <2>2, LenProperties DEF DirEntries
<1>7. PathPlaces' = PathPlaces /\ Sources' = Sources /\ \A p : Kind(p)' = Kind(p)
  BY <1>1, MeaningStands
<1>8. {s \in Sources : s[1] < i \/ (s[1] = i /\ s[2] <= 0)} = {s \in Sources : s[1] < i}
  <2>1. \A s \in Sources : s[1] = i => s[2] > 0 /\ s[2] \in Int
    <3>1. \A n \in EntriesAt(i) : n \in 1..Len(dir)
      BY <1>1, <1>4, <1>5, <1>6 DEF EntriesAt
    <3>2. \A s \in Sources : s[2] \in EntriesAt(s[1])
      BY SourceMembers
    <3>3. \A n \in 1..Len(dir) : n > 0 /\ n \in Int
      BY <1>6
    <3>. QED  BY <3>1, <3>2, <3>3
  <2>2. \A s \in Sources : ~(s[1] = i /\ s[2] <= 0)
    BY <2>1
  <2>. QED  BY <2>2
<1>9. ReadingAt(i)'
  <2>1. entries' = dir /\ Len(dir) - Len(dir) = 0 /\ \A m \in DOMAIN dir : 0 + m = m
    BY <1>1, <1>4, <1>5, <1>6
  <2>2. PICK P : P = {j \in PathPlaces : j >= i}
    OBVIOUS
  <2>3. PICK S : S = {s \in Sources : s[1] < i}
    OBVIOUS
  <2>4. PathsAre(P)' /\ FilesSoFar(S)'
    <3>1. PathsAre(P) /\ FilesSoFar(S)
      BY <1>2, <1>4, <2>2, <2>3 DEF ExpandedTo
    <3>. QED  BY <1>1, <3>1, PartsStand
  <2>5. PathsAre({j \in PathPlaces : j >= i})'
    BY <1>7, <2>2, <2>4 DEF PathsAre
  <2>6. FilesSoFar({s \in Sources : s[1] < i \/ (s[1] = i /\ s[2] <= 0)})'
    BY <1>7, <1>8, <2>3, <2>4 DEF FilesSoFar, FilesAre
  <2>7. Kind(args[i])' = "dir" /\ tree'[args'[i]].entries = dir
    BY <1>1, <1>4, <1>5, <1>7
  <2>. QED  BY <2>1, <2>5, <2>6, <2>7 DEF ReadingAt
<1>10. SeqTypes'
  BY <1>1, <1>3, <1>4, <1>5, <1>6, SeqTypesStand DEF SeqTypes
<1>11. Faultless'
  BY <1>1, <1>3, PartsStand
<1>. QED  BY <1>1, <1>7, <1>9, <1>10, <1>11 DEF ArgsInv, StopSaysWhy

\* An entry of a directory is left out, or one file more.
LEMMA NextEntryStep ==
  ASSUME LineInv, ArgsInv, NextEntry
  PROVE  ArgsInv'
<1>1. /\ at = "dir" /\ at' = "dir" /\ entries # <<>> /\ entries' = Tail(entries)
      /\ files' = IF LooksAt(Head(entries)) /\ Head(entries).kind = "file"
                    THEN Append(files, EntryFile(Head(paths), Head(entries))) ELSE files
      /\ UNCHANGED <<args, tree, rest, trailing, given, configPath, paths>>
  BY DEF NextEntry
<1>2. SeqTypes /\ Faultless
  BY <1>1 DEF ArgsInv
<1>3. PICK i \in PathPlaces : ReadingAt(i)
  BY <1>1 DEF ArgsInv
<1>4. PICK dir : dir = tree[args[i]].entries
  OBVIOUS
<1>5. PICK n : n = Len(dir) - Len(entries)
  OBVIOUS
<1>6. PICK P : P = {j \in PathPlaces : j >= i}
  OBVIOUS
<1>7. PICK S : S = {s \in Sources : s[1] < i \/ (s[1] = i /\ s[2] <= n)}
  OBVIOUS
<1>8. /\ Kind(args[i]) = "dir" /\ n \in Nat
      /\ \A m \in DOMAIN entries : entries[m] = dir[n + m]
      /\ PathsAre(P) /\ FilesSoFar(S)
  BY <1>3, <1>4, <1>5, <1>6, <1>7 DEF ReadingAt
<1>9. /\ Len(args) \in Nat /\ i \in Nat
      /\ \A j \in PathPlaces : j \in Nat
      /\ \A s \in Sources : s[1] \in Int /\ s[2] \in Int /\ s[2] >= 0
  BY <1>2, PlacesAreNumbers
<1>10. /\ dir \in DirEntries /\ Len(dir) \in Nat /\ DOMAIN dir = 1..Len(dir)
  <2>1. args[i] \in DOMAIN tree
    BY <1>8 DEF Kind
  <2>2. dir \in DirEntries
    BY <1>2, <1>4, <2>1 DEF SeqTypes
  <2>. QED  BY <2>2, LenProperties DEF DirEntries
<1>11. /\ Len(entries) \in Nat \ {0} /\ DOMAIN entries = 1..Len(entries)
       /\ Head(entries) = entries[1] /\ Tail(entries) \in DirEntries
       /\ Len(Tail(entries)) = Len(entries) - 1
       /\ DOMAIN Tail(entries) = 1..(Len(entries) - 1)
       /\ \A m \in 1..(Len(entries) - 1) : Tail(entries)[m] = entries[m + 1]
  <2>1. entries \in Seq([name : STRING, kind : STRING])
    BY <1>2 DEF SeqTypes, DirEntries
  <2>. QED  BY <1>1, <2>1, ShortTail DEF DirEntries
<1>12. /\ n + 1 \in 1..Len(dir) /\ n + 1 \in Nat /\ n + 1 > 0
       /\ Len(dir) - Len(Tail(entries)) = n + 1
  BY <1>5, <1>8, <1>10, <1>11
<1>13. Head(entries) = dir[n + 1]
  BY <1>8, <1>11
<1>14. \A m \in DOMAIN Tail(entries) : Tail(entries)[m] = dir[(n + 1) + m]
  <2>1. ASSUME NEW m \in 1..(Len(entries) - 1) PROVE Tail(entries)[m] = dir[(n + 1) + m]
    <3>1. m + 1 \in 1..Len(entries) /\ n + (m + 1) = (n + 1) + m
      BY <1>8, <1>11
    <3>. QED  BY <1>8, <1>11, <3>1
  <2>. QED  BY <1>11, <2>1
<1>15. Head(paths) = args[i]
  <2>1. paths # <<>>
    <3>1. Lists(paths, args, P)
      BY <1>8 DEF PathsAre
    <3>2. i \in P
      BY <1>6, <1>9
    <3>. QED  BY <3>1, <3>2, ListsNone
  <2>2. PICK i1 \in P : Head(paths) = args[i1] /\ \A j \in P : i1 <= j
    <3>1. P \in SUBSET PathPlaces
      BY <1>6
    <3>. QED  BY <1>2, <1>8, <2>1, <3>1, NextPath
  <2>3. i \in P /\ i1 \in Nat /\ i1 >= i
    BY <1>6, <1>9
  <2>4. i1 = i
    BY <1>9, <2>2, <2>3
  <2>. QED  BY <2>2, <2>4
<1>16. PICK new : new = <<i, n + 1>>
  OBVIOUS
<1>17. /\ new[1] = i /\ new[2] = n + 1
       /\ FileOf(new) = EntryFile(Head(paths), Head(entries))
  <2>1. new[1] = i /\ new[2] = n + 1 /\ n + 1 # 0
    BY <1>12, <1>16
  <2>. QED  BY <1>4, <1>13, <1>15, <2>1 DEF FileOf
<1>18. /\ new \in Sources <=> LooksAt(Head(entries)) /\ Head(entries).kind = "file"
       /\ \A s \in Sources : s[1] = i /\ s[2] = n + 1 => s = new
  <2>1. n + 1 \in EntriesAt(i) <=> LooksAt(Head(entries)) /\ Head(entries).kind = "file"
    BY <1>4, <1>8, <1>10, <1>12, <1>13 DEF EntriesAt, LooksAt
  <2>2. \A s \in Sources : s = <<s[1], s[2]>> /\ s[2] \in EntriesAt(s[1])
    BY SourceMembers
  <2>3. n + 1 \in EntriesAt(i) => new \in Sources
    BY <1>16, SourceMembers
  <2>4. new \in Sources => n + 1 \in EntriesAt(i)
    BY <1>17, <2>2
  <2>. QED  BY <1>16, <2>1, <2>2, <2>3, <2>4
<1>19. PICK T : T = {s \in Sources : s[1] < i \/ (s[1] = i /\ s[2] <= n + 1)}
  OBVIOUS
<1>20. T = IF new \in Sources THEN S \cup {new} ELSE S
  <2>1. \A s \in Sources : s[2] <= n + 1 <=> s[2] <= n \/ s[2] = n + 1
    BY <1>8, <1>9
  <2>2. \A s \in Sources : s \in T <=> s \in S \/ (s[1] = i /\ s[2] = n + 1)
    BY <1>7, <1>19, <2>1
  <2>3. \A s \in Sources : s \in T <=> s \in S \/ s = new
    BY <1>17, <1>18, <2>2
  <2>. QED  BY <1>7, <1>19, <2>3
<1>21. files \in Seq({FileOf(s) : s \in Sources})
  BY <1>2 DEF SeqTypes
<1>22. FilesSoFar(T)' /\ files' \in Seq({FileOf(s) : s \in Sources})
  <2>1. CASE new \in Sources
    <3>1. files' = Append(files, FileOf(new)) /\ T = S \cup {new}
      BY <1>1, <1>17, <1>18, <1>20, <2>1
    <3>2. FileOf(new) \in {FileOf(s) : s \in Sources}
      BY <2>1
    <3>3. \A s \in S \cup {new} : s[1] \in Int /\ s[2] \in Int
      BY <1>7, <1>9, <2>1
    <3>4. \A s \in S : Before(s, new)
      <4>1. \A s \in S : s[1] < i \/ (s[1] = i /\ s[2] < n + 1)
        BY <1>7, <1>8, <1>9
      <4>. QED  BY <1>17, <4>1 DEF Before
    <3>5. FilesSoFar(S \cup {new})'
      BY <1>1, <1>8, <1>21, <3>1, <3>2, <3>3, <3>4, FilesMore
    <3>. QED  BY <1>21, <3>1, <3>2, <3>5, LongerByOne
  <2>2. CASE new \notin Sources
    <3>1. files' = files /\ T = S
      BY <1>1, <1>18, <1>20, <2>2
    <3>. QED  BY <1>1, <1>8, <1>21, <3>1, PartsStand
  <2>. QED  BY <2>1, <2>2
<1>23. PathPlaces' = PathPlaces /\ Sources' = Sources /\ \A p : Kind(p)' = Kind(p)
  BY <1>1, MeaningStands
<1>24. ReadingAt(i)'
  <2>1. Kind(args[i])' = "dir" /\ tree'[args'[i]].entries = dir
    BY <1>1, <1>4, <1>8, <1>23
  <2>2. entries' = Tail(entries)
    BY <1>1
  <2>3. PathsAre({j \in PathPlaces : j >= i})'
    <3>1. PathsAre(P)'
      BY <1>1, <1>8, PartsStand
    <3>. QED  BY <1>6, <1>23, <3>1 DEF PathsAre
  <2>4. FilesSoFar({s \in Sources : s[1] < i \/ (s[1] = i /\ s[2] <= n + 1)})'
    BY <1>19, <1>22, <1>23 DEF FilesSoFar, FilesAre
  <2>. QED  BY <1>12, <1>14, <2>1, <2>2, <2>3, <2>4 DEF ReadingAt
<1>25. SeqTypes'
  BY <1>1, <1>2, <1>11, <1>22, SeqTypesStand DEF SeqTypes
<1>26. Faultless'
  BY <1>1, <1>2, PartsStand
<1>. QED  BY <1>1, <1>23, <1>24, <1>25, <1>26 DEF ArgsInv, StopSaysWhy

\* At the end of a directory the paths up to it are expanded.
LEMMA EndDirStep ==
  ASSUME LineInv, ArgsInv, EndDir
  PROVE  ArgsInv'
<1>1. /\ at = "dir" /\ at' = "paths" /\ entries = <<>> /\ paths' = Tail(paths)
      /\ UNCHANGED <<args, tree, rest, trailing, given, configPath, entries, files>>
  BY DEF EndDir, Goto
<1>2. SeqTypes /\ Faultless
  BY <1>1 DEF ArgsInv
<1>3. PICK i \in PathPlaces : ReadingAt(i)
  BY <1>1 DEF ArgsInv
<1>4. PICK dir : dir = tree[args[i]].entries
  OBVIOUS
<1>5. PICK P : P = {j \in PathPlaces : j >= i}
  OBVIOUS
<1>6. PICK S : S = {s \in Sources : s[1] < i \/ (s[1] = i /\ s[2] <= Len(dir) - Len(entries))}
  OBVIOUS
<1>7. Kind(args[i]) = "dir" /\ PathsAre(P) /\ FilesSoFar(S)
  BY <1>3, <1>4, <1>5, <1>6 DEF ReadingAt
<1>8. /\ Len(args) \in Nat /\ i \in Nat /\ i <= Len(args)
      /\ \A j \in PathPlaces : j \in Nat
      /\ \A s \in Sources : s[1] \in Int /\ s[2] \in Int
  BY <1>2, PlacesAreNumbers
<1>9. dir \in DirEntries /\ Len(dir) \in Nat /\ DOMAIN dir = 1..Len(dir)
  <2>1. args[i] \in DOMAIN tree
    BY <1>7 DEF Kind
  <2>2. dir \in DirEntries
    BY <1>2, <1>4, <2>1 DEF SeqTypes
  <2>. QED  BY <2>2, LenProperties DEF DirEntries
<1>10. Len(dir) - Len(entries) = Len(dir)
  BY <1>1, <1>9
<1>11. S = {s \in Sources : s[1] <= i}
  <2>1. \A s \in Sources : s[1] = i => s[2] <= Len(dir)
    <3>1. \A n \in EntriesAt(i) : n \in 1..Len(dir)
      BY <1>4, <1>7, <1>9 DEF EntriesAt
    <3>2. \A s \in Sources : s[2] \in EntriesAt(s[1])
      BY SourceMembers
    <3>3. \A n \in 1..Len(dir) : n <= Len(dir)
      BY <1>9
    <3>. QED  BY <3>1, <3>2, <3>3
  <2>2. \A s \in Sources : s[1] <= i <=> s[1] < i \/ s[1] = i
    BY <1>8
  <2>. QED  BY <1>6, <1>10, <2>1, <2>2
<1>12. paths # <<>> /\ P \in SUBSET PathPlaces /\ i \in P
  <2>1. Lists(paths, args, P)
    BY <1>7 DEF PathsAre
  <2>2. i \in P
    BY <1>5, <1>8
  <2>. QED  BY <1>5, <2>1, <2>2, ListsNone
<1>13. Tail(paths) \in Seq(Arguments)
  BY <1>2, <1>7, <1>12, NextPath
<1>14. Lists(Tail(paths), args, {j \in PathPlaces : j > i})
  <2>1. PICK i1 \in P : /\ \A j \in P : i1 <= j
                        /\ Lists(Tail(paths), args, {j \in P : j > i1})
    BY <1>2, <1>7, <1>12, NextPath
  <2>2. i1 \in Nat /\ i1 >= i
    BY <1>5, <1>8
  <2>3. i1 = i
    BY <1>8, <1>12, <2>1, <2>2
  <2>4. {j \in P : j > i} = {j \in PathPlaces : j > i}
    <3>1. \A j \in PathPlaces : j > i => j >= i
      BY <1>8
    <3>. QED  BY <1>5, <3>1
  <2>. QED  BY <2>1, <2>3, <2>4
<1>15. PathPlaces' = PathPlaces /\ Sources' = Sources
  BY <1>1, MeaningStands
<1>16. ExpandedTo(i)'
  <2>1. PathsAre({j \in PathPlaces : j > i})'
    BY <1>1, <1>14, <1>15 DEF PathsAre
  <2>2. FilesSoFar({s \in Sources : s[1] <= i})'
    <3>1. FilesSoFar(S)'
      BY <1>1, <1>7, PartsStand
    <3>. QED  BY <1>11, <1>15, <3>1 DEF FilesSoFar, FilesAre
  <2>. QED  BY <2>1, <2>2 DEF ExpandedTo
<1>17. SeqTypes'
  BY <1>1, <1>2, <1>13, SeqTypesStand DEF SeqTypes
<1>18. Faultless'
  BY <1>1, <1>2, PartsStand
<1>19. i \in (0..Len(args))'
  BY <1>1, <1>8
<1>. QED  BY <1>1, <1>16, <1>17, <1>18, <1>19 DEF ArgsInv, StopSaysWhy

\* A path that cannot be expanded stops the run.
LEMMA ExpandFailsStep ==
  ASSUME ArgsInv, ExpandFails
  PROVE  ArgsInv'
<1>1. /\ at \in {"paths", "dir"} /\ at' = "stopped" /\ exit' = exitUsageError
      /\ UNCHANGED <<args, tree, rest, trailing, given, configPath, paths, entries, files>>
  BY DEF ExpandFails, Expanding, Stop
<1>. QED  BY <1>1, StopsForPaths DEF ArgsInv

\* When all paths are expanded and no two files collide, they are the ones meant.
LEMMA FilesCheckedStep ==
  ASSUME LineInv, ArgsInv, FilesChecked
  PROVE  ArgsInv'
<1>1. /\ at = "paths" /\ paths = <<>>
      /\ IF Collide(files) \/ files = <<>> THEN at' = "stopped" /\ exit' = exitUsageError
                                           ELSE at' = "config"
      /\ UNCHANGED <<args, tree, rest, trailing, given, configPath, paths, entries, files>>
  BY DEF FilesChecked, Stop, Goto
<1>2. SeqTypes /\ Faultless
  BY <1>1 DEF ArgsInv
<1>3. CASE Collide(files) \/ files = <<>>
  BY <1>1, <1>2, <1>3, StopsForPaths
<1>4. CASE ~(Collide(files) \/ files = <<>>)
  <2>1. PICK i \in 0..Len(args) : ExpandedTo(i)
    BY <1>1 DEF ArgsInv
  <2>2. /\ Len(args) \in Nat /\ \A j \in PathPlaces : j \in Nat
        /\ \A s \in Sources : s[1] \in PathPlaces
    BY <1>2, PlacesAreNumbers, SourceMembers
  <2>3. {j \in PathPlaces : j > i} = {}
    <3>1. PICK P : P = {j \in PathPlaces : j > i}
      OBVIOUS
    <3>2. Lists(paths, args, P)
      BY <2>1, <3>1 DEF ExpandedTo, PathsAre
    <3>. QED  BY <1>1, <3>1, <3>2, ListsNone
  <2>4. {s \in Sources : s[1] <= i} = Sources
    <3>1. \A j \in PathPlaces : ~(j > i) /\ j \in Nat /\ i \in Int
      BY <2>2, <2>3
    <3>2. \A j \in PathPlaces : j <= i
      BY <3>1
    <3>. QED  BY <2>2, <3>2
  <2>5. FilesAre(Sources)
    BY <1>4, <2>1, <2>4 DEF ExpandedTo, FilesSoFar
  <2>6. FilesAre(Sources)'
    <3>1. PICK S : S = Sources
      OBVIOUS
    <3>2. FilesAre(S)'
      BY <1>1, <2>5, <3>1, PartsStand
    <3>3. S = Sources'
      BY <1>1, <3>1, MeaningStands
    <3>. QED  BY <3>2, <3>3 DEF FilesAre
  <2>7. SeqTypes'
    BY <1>1, <1>2, SeqTypesStand DEF SeqTypes
  <2>8. Faultless'
    BY <1>1, <1>2, PartsStand
  <2>. QED  BY <1>1, <1>4, <2>6, <2>7, <2>8 DEF ArgsInv, StopSaysWhy
<1>. QED  BY <1>3, <1>4

-----------------------------------------------------------------------------
(***************************************************************************)
(* And so does every step.                                                 *)
(***************************************************************************)

\* It only looks at the variables of the command line, except when the run has
\* stopped, and then at the errors.
LEMMA ArgsUntouched ==
  ASSUME ArgsInv, UNCHANGED lineVars, at = "stopped" => UNCHANGED <<config, errors>>
  PROVE  ArgsInv'
<1>1. UNCHANGED <<args, tree, at, rest, trailing, given, configPath, paths, entries, files,
                  exit>>
  BY DEF lineVars
<1>2. SeqTypes'
  BY <1>1, SeqTypesStand DEF ArgsInv, SeqTypes
<1>3. Faultless' = Faultless
  BY <1>1, PartsStand
<1>4. /\ Split' = Split /\ Options' = Options /\ IsValue' = IsValue /\ Meant' = Meant
      /\ FirstWrong' = FirstWrong /\ MeantFlags' = MeantFlags /\ PathPlaces' = PathPlaces
      /\ Sources' = Sources
      /\ \A i : Wrong(i)' <=> Wrong(i)
      /\ \A p : Kind(p)' = Kind(p)
  BY <1>1, MeaningStands
<1>5. \A S : FilesAre(S)' = FilesAre(S) /\ FilesSoFar(S)' = FilesSoFar(S)
  BY <1>1, PartsStand
<1>6. FilesAre(Sources)' = FilesAre(Sources)
  <2>1. PICK S : S = Sources
    OBVIOUS
  <2>2. FilesAre(S)' = FilesAre(S) /\ S = Sources'
    BY <1>4, <1>5, <2>1
  <2>. QED  BY <2>1, <2>2 DEF FilesAre
<1>7. ASSUME NEW k PROVE /\ Remaining(k)' = Remaining(k) /\ ParsedTo(k)' = ParsedTo(k)
  <2>1. Remaining(k)' = Remaining(k)
    BY <1>1, <1>4 DEF Remaining
  <2>2. ConfigBefore(k)' = ConfigBefore(k)
    BY <1>1, PartsStand
  <2>3. PathsAre({i \in Meant : i < k /\ args[i] \in Words})'
          = PathsAre({i \in Meant : i < k /\ args[i] \in Words})
    BY <1>1, <1>4 DEF PathsAre, Lists
  <2>. QED  BY <1>1, <1>4, <2>1, <2>2, <2>3 DEF ParsedTo
<1>8. ASSUME NEW i PROVE ExpandedTo(i)' = ExpandedTo(i)
  <2>1. PathsAre({j \in PathPlaces : j > i})' = PathsAre({j \in PathPlaces : j > i})
    BY <1>1, <1>4 DEF PathsAre, Lists
  <2>2. FilesSoFar({s \in Sources : s[1] <= i})' = FilesSoFar({s \in Sources : s[1] <= i})
    <3>1. PICK S : S = {s \in Sources : s[1] <= i}
      OBVIOUS
    <3>2. FilesSoFar(S)' = FilesSoFar(S) /\ S = {s \in Sources : s[1] <= i}'
      BY <1>4, <1>5, <3>1
    <3>. QED  BY <3>1, <3>2 DEF FilesSoFar, FilesAre
  <2>. QED  BY <2>1, <2>2 DEF ExpandedTo
<1>9. ASSUME NEW i PROVE ReadingAt(i)' = ReadingAt(i)
  <2>. DEFINE n == Len(tree[args[i]].entries) - Len(entries)
  <2>1. PathsAre({j \in PathPlaces : j >= i})' = PathsAre({j \in PathPlaces : j >= i})
    BY <1>1, <1>4 DEF PathsAre, Lists
  <2>2. FilesSoFar({s \in Sources : s[1] < i \/ (s[1] = i /\ s[2] <= n)})'
          = FilesSoFar({s \in Sources : s[1] < i \/ (s[1] = i /\ s[2] <= n)})
    <3>1. PICK S : S = {s \in Sources : s[1] < i \/ (s[1] = i /\ s[2] <= n)}
      OBVIOUS
    <3>2. /\ FilesSoFar(S)' = FilesSoFar(S)
          /\ S = {s \in Sources : s[1] < i \/ (s[1] = i /\ s[2] <= n)}'
      BY <1>1, <1>4, <1>5, <3>1
    <3>. QED  BY <3>1, <3>2 DEF FilesSoFar, FilesAre
  <2>. QED  BY <1>1, <1>4, <2>1, <2>2 DEF ReadingAt
<1>10. StopSaysWhy'
  BY <1>1, <1>4, <1>6 DEF ArgsInv, StopSaysWhy
<1>11. at = "flags" => (\E k \in 1..Split : Remaining(k) /\ ParsedTo(k))'
  BY <1>4, <1>7 DEF ArgsInv
<1>12. at = "paths" => (\E i \in 0..Len(args) : ExpandedTo(i))'
  BY <1>1, <1>8 DEF ArgsInv
<1>13. at = "dir" => (\E i \in PathPlaces : ReadingAt(i))'
  BY <1>4, <1>9 DEF ArgsInv
<1>. QED  BY <1>1, <1>2, <1>3, <1>6, <1>10, <1>11, <1>12, <1>13 DEF ArgsInv

\* A run that ends with the configuration's exit code had something to upload, and
\* the configuration was refused for an error if it could be read at all.
LEMMA ConfigDoneArgs ==
  ASSUME SetupInv, ArgsInv, ConfigDone
  PROVE  ArgsInv'
<1>1. /\ at = "config"
      /\ \/ loading = "failed" /\ at' = "stopped" /\ exit' = exitConfigError
         \/ at' = "upload"
      /\ UNCHANGED <<args, tree, rest, trailing, given, configPath, paths, entries, files>>
      /\ UNCHANGED <<config, errors>>
  BY DEF ConfigDone, Stop, Goto, configVars
<1>2. SeqTypes /\ Faultless /\ FilesAre(Sources)
  BY <1>1 DEF ArgsInv
<1>3. files # <<>> /\ (loading = "failed" /\ config.state = "ok" => errors # {})
  BY <1>1 DEF SetupInv, LineInv, LoadInv
<1>4. SeqTypes'
  BY <1>1, <1>2, SeqTypesStand DEF SeqTypes
<1>5. Faultless'
  BY <1>1, <1>2, PartsStand
<1>6. FilesAre(Sources)'
  <2>1. PICK S : S = Sources
    OBVIOUS
  <2>2. FilesAre(S)' /\ S = Sources'
    BY <1>1, <1>2, <2>1, PartsStand, MeaningStands
  <2>. QED  BY <2>2 DEF FilesAre
<1>7. ASSUME at' = "stopped" PROVE StopSaysWhy'
  <2>1. loading = "failed" /\ exit' = exitConfigError /\ exitConfigError # exitOK
    BY <1>1, <1>7 DEF exitConfigError, exitOK
  <2>2. FirstWrong' = {} /\ "--version" \notin MeantFlags'
    BY <1>5 DEF Faultless
  <2>. QED  BY <1>1, <1>3, <1>6, <2>1, <2>2 DEF StopSaysWhy
<1>8. at' # "stopped" => StopSaysWhy'
  BY DEF StopSaysWhy
<1>. QED  BY <1>1, <1>4, <1>5, <1>6, <1>7, <1>8 DEF ArgsInv

\* Opening and reading the configuration leaves the command line alone.
LEMMA LoadArgs ==
  ASSUME SetupInv, ArgsInv, OpenConfig \/ (LoadConfig /\ UNCHANGED lineVars)
  PROVE  ArgsInv'
<1>1. UNCHANGED lineVars
  BY DEF OpenConfig
<1>2. at = "config"
  <2>1. CASE OpenConfig
    BY <2>1 DEF OpenConfig
  <2>2. CASE LoadConfig
    <3>1. loading \notin {"idle", "loaded", "failed"}
      BY <2>2 DEF LoadConfig, ReadConfig, ResolveGlobals, BuildEndpoint, FinishLoading
    <3>. QED  BY <3>1 DEF SetupInv, ConfigTypes, Steps, Order
  <2>. QED  BY <2>1, <2>2
<1>. QED  BY <1>1, <1>2, ArgsUntouched

LEMMA ArgsInvNext == SetupInv /\ ArgsInv /\ [Next]_vars => ArgsInv'
<1>. SUFFICES ASSUME SetupInv, ArgsInv, [Next]_vars PROVE ArgsInv'
  OBVIOUS
<1>1. LineInv
  BY DEF SetupInv
<1>2. CASE ParseArgs
  BY <1>1, <1>2, SplitArgsStep, SetFlagStep, SetConfigStep, PositionalStep, ParseFailsStep,
     ArgsParsedStep DEF ParseArgs
<1>3. CASE ExpandPaths
  BY <1>1, <1>3, ExpandFileStep, ReadDirStep, NextEntryStep, EndDirStep, ExpandFailsStep,
     FilesCheckedStep DEF ExpandPaths
<1>4. CASE OpenConfig \/ (LoadConfig /\ UNCHANGED lineVars)
  BY <1>4, LoadArgs
<1>5. CASE ConfigDone
  BY <1>5, ConfigDoneArgs
<1>6. CASE UNCHANGED vars
  BY <1>6, ArgsUntouched DEF vars, configVars
<1>. QED  BY <1>2, <1>3, <1>4, <1>5, <1>6 DEF Next, Settled

LEMMA ArgsInvHolds == Spec => []ArgsInv
BY SetupInvHolds, ArgsInvInit, ArgsInvNext, PTL DEF Spec

\* Flags and paths mean the same in any order (parseInterleaved, expandPaths), with
\* any number of them, and of entries in a directory: when the configuration is
\* opened, the flags, the value of --config and the files are those the arguments
\* mean, in their order: ArgumentsAsMeant.
THEOREM ArgumentsCount == Spec => []ArgumentsAsMeant
<1>1. ArgsInv => ArgumentsAsMeant
  BY DEF ArgsInv, Faultless, ArgumentsAsMeant
<1>. QED  BY <1>1, ArgsInvHolds, PTL

\* A run that stops says why (run, parseArgs): 0 only if --help came before any
\* mistake, or --version was given without one; 2 only for the configuration, after
\* a faultless command line; 3 for the rest, before the configuration is opened:
\* ExitCodeSaysWhy.
THEOREM ExitCodeExplains == Spec => []ExitCodeSaysWhy
<1>1. SetupInv /\ ArgsInv => ExitCodeSaysWhy
  BY DEF SetupInv, Order, ArgsInv, StopSaysWhy, ExitCodeSaysWhy
<1>. QED  BY <1>1, SetupInvHolds, ArgsInvHolds, PTL

=============================================================================
