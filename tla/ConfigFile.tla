----------------------------- MODULE ConfigFile -----------------------------
(***************************************************************************)
(* LoadConfig (config.go): reads the YAML file once, resolves the policy   *)
(* at the top level over the built-in one, and then every endpoint over    *)
(* that, collecting every error on the way.                                *)
(*                                                                         *)
(* A string field holds one literal or one ${VAR} reference. A policy      *)
(* field is Unset (a nil pointer) or <<form, n>>: a "number" n, counting   *)
(* ticks for a duration; a "reference" to a variable that is set to the    *)
(* text of n; or "other" text that is no duration. References are resolved *)
(* in the fields of Interpolated alone, not in the protocol and not in a   *)
(* duration, where time.ParseDuration refuses one like other text. An      *)
(* error is <<place, field, fault>>; place 0 is the top level.             *)
(***************************************************************************)
EXTENDS Integers, Sequences

CONSTANTS
  References,    \* the strings with a ${VAR} in them
  Home,          \* what expandHome makes of each path that begins with "~"
  Defaults       \* defaultPolicy

Protocols == {"ftp", "ftps", "sftp"}
OverwriteModes == {"delete-first", "direct"}
Interpolated == {"name", "host", "username", "password", "privateKey", "overwrite"}

Counts == {"attempts", "maxConsecutiveConnectFailures"}
Durations == {"retryDelay", "connectTimeout", "stallTimeout"}
PolicyFields == Counts \cup Durations

\* The least value each field may have.
Least == [attempts |-> 1, maxConsecutiveConnectFailures |-> 1,
          connectTimeout |-> 1, retryDelay |-> 0, stallTimeout |-> 0]

\* The built-in policy is one the engine can run with (uploadfun.go).
ASSUME DefaultsAssumption ==
  /\ Defaults \in [PolicyFields -> Nat]
  /\ \A f \in PolicyFields : Defaults[f] >= Least[f]

\* The paths that begin with "~" are not empty, and the home directory is an
\* absolute path.
ASSUME HomeAssumption ==
  /\ "" \notin DOMAIN Home
  /\ \A p \in DOMAIN Home : Home[p] \notin DOMAIN Home \cup {""}

VARIABLES
  env,           \* the variables that are set, and if there is a home directory
  config,        \* the file: readable, well-formed, and what it says
  loading,       \* where LoadConfig is
  globals,       \* the policy of the top level
  seenNames,
  endpoints,     \* built so far
  errors         \* collected so far

configVars == <<env, config, loading, globals, seenNames, endpoints, errors>>

Steps == {"idle", "read", "globals", "endpoints", "failed", "loaded"}

ConfigInit ==
  /\ loading = "idle"
  /\ globals = Defaults
  /\ seenNames = {}
  /\ endpoints = <<>>
  /\ errors = {}

Place == Len(endpoints) + 1
Raw == config.raw.endpoints

-----------------------------------------------------------------------------
(***************************************************************************)
(* Policies. A definition no action uses is a seeded fault, a mistaken     *)
(* form of the one below it.                                               *)
(***************************************************************************)

Unset == <<>>
Forms == {"number", "reference", "other"}
RawPolicies == [PolicyFields -> {Unset} \cup (Forms \X Int)]
RawEndpoints ==
  [name : STRING, protocol : STRING, host : STRING, port : Int, username : STRING,
   password : STRING, privateKey : STRING, overwrite : STRING,
   insecureSkipVerify : BOOLEAN, policy : RawPolicies]

Given(f, raw, base) == IF raw[f] = Unset THEN <<"number", base[f]>> ELSE raw[f]

\* A count is looked at where it is set; a duration wherever it comes from.
Refused(f, raw, base) ==
  /\ f \in Counts => raw[f] # Unset
  /\ Given(f, raw, base)[1] # "number" \/ Given(f, raw, base)[2] < Least[f]

\* A count that is out of range is kept, a duration becomes 0.
ResolvedZeroIsUnset(f, raw, base) ==
  IF raw[f] # Unset /\ raw[f][2] = 0 THEN base[f] ELSE Given(f, raw, base)[2]
Resolved(f, raw, base) ==
  IF f \in Durations /\ Refused(f, raw, base) THEN 0 ELSE Given(f, raw, base)[2]

PolicyErrors(raw, base, place) ==
  {<<place, f, "range">> : f \in {g \in PolicyFields : Refused(g, raw, base)}}
ResolvePolicy(raw, base) == [f \in PolicyFields |-> Resolved(f, raw, base)]

-----------------------------------------------------------------------------
(***************************************************************************)
(* Endpoints.                                                              *)
(***************************************************************************)

Interpolate(s) == IF s \in DOMAIN env.vars THEN env.vars[s] ELSE s
Undefined(s) == s \in References \ DOMAIN env.vars
Fields(re) == [f \in Interpolated |-> Interpolate(re[f])]

When(condition, fault) == IF condition THEN {fault} ELSE {}

UndefinedReferences(re) ==
  {<<f, "undefined">> : f \in {g \in Interpolated : Undefined(re[g])}}

NameFaults(name) ==
  When(name = "", <<"name", "required">>)
    \cup When(name \in seenNames, <<"name", "duplicate">>)
RememberNothing(name) == seenNames
Remember(name) == IF name = "" THEN seenNames ELSE seenNames \cup {name}

ProtocolFaults(p) ==
  When(p = "", <<"protocol", "required">>)
    \cup When(p \notin Protocols \cup {""}, <<"protocol", "unknown">>)

AuthFaultsFTPOnly(p, f) ==
  When(p \in {"ftp", "ftps"} /\ f.privateKey # "", <<"privateKey", "unsupported">>)
    \cup When(p \in {"ftp", "ftps"} /\ f.password = "", <<"password", "required">>)
AuthFaults(p, f) ==
  When(p \in {"ftp", "ftps"} /\ f.privateKey # "", <<"privateKey", "unsupported">>)
    \cup When(p \in {"ftp", "ftps"} /\ f.password = "", <<"password", "required">>)
    \cup When(p = "sftp" /\ f.password = "" /\ f.privateKey = "", <<"password", "required">>)

OverwriteFaults(o) ==
  When(o \notin OverwriteModes \cup {""}, <<"overwrite", "unknown">>)
ResolveOverwrite(o) == IF o \in OverwriteModes THEN o ELSE "delete-first"

KeyFaults(key) == When(key \in DOMAIN Home /\ ~env.home, <<"privateKey", "home">>)
ExpandHome(key) ==
  IF key \notin DOMAIN Home THEN key ELSE IF env.home THEN Home[key] ELSE ""

EndpointFaults(re) ==
  LET f == Fields(re) IN
    UndefinedReferences(re)
      \cup NameFaults(f.name)
      \cup ProtocolFaults(re.protocol)
      \cup When(f.host = "", <<"host", "required">>)
      \cup When(re.port < 0 \/ re.port > 65535, <<"port", "range">>)
      \cup When(f.username = "", <<"username", "required">>)
      \cup AuthFaults(re.protocol, f)
      \cup When(re.insecureSkipVerify /\ re.protocol # "ftps",
                <<"insecureSkipVerify", "unsupported">>)
      \cup OverwriteFaults(f.overwrite)
      \cup KeyFaults(f.privateKey)

Endpoint(re) ==
  LET f == Fields(re) IN
    [name |-> f.name, protocol |-> re.protocol, host |-> f.host, port |-> re.port,
     username |-> f.username, password |-> f.password,
     privateKey |-> ExpandHome(f.privateKey),
     overwrite |-> ResolveOverwrite(f.overwrite),
     insecureSkipVerify |-> re.insecureSkipVerify,
     policy |-> ResolvePolicy(re.policy, globals)]

-----------------------------------------------------------------------------
(***************************************************************************)
(* LoadConfig.                                                             *)
(***************************************************************************)

ReadConfig ==
  /\ loading = "read"
  /\ loading' = IF config.state = "ok" THEN "globals" ELSE "failed"
  /\ UNCHANGED <<env, config, globals, seenNames, endpoints, errors>>

ResolveGlobals ==
  /\ loading = "globals"
  /\ loading' = "endpoints"
  /\ globals' = ResolvePolicy(config.raw.policy, Defaults)
  /\ errors' = PolicyErrors(config.raw.policy, Defaults, 0)
                 \cup When(Raw = <<>>, <<0, "endpoints", "required">>)
  /\ UNCHANGED <<env, config, seenNames, endpoints>>

BuildEndpoint ==
  /\ loading = "endpoints"
  /\ Place <= Len(Raw)
  /\ LET re == Raw[Place] IN
       /\ errors' = errors \cup PolicyErrors(re.policy, globals, Place)
                      \cup {<<Place, fault[1], fault[2]>> : fault \in EndpointFaults(re)}
       /\ endpoints' = Append(endpoints, Endpoint(re))
       /\ seenNames' = Remember(Fields(re).name)
  /\ UNCHANGED <<env, config, loading, globals>>

FinishLoading ==
  /\ loading = "endpoints"
  /\ Place > Len(Raw)
  /\ loading' = IF errors = {} THEN "loaded" ELSE "failed"
  /\ UNCHANGED <<env, config, globals, seenNames, endpoints, errors>>

LoadConfig == ReadConfig \/ ResolveGlobals \/ BuildEndpoint \/ FinishLoading
=============================================================================
