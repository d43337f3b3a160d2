---------------------------- MODULE CommandSetup ----------------------------
(***************************************************************************)
(* cmd/uploadfun's run up to the call of Upload: the command line          *)
(* (CommandLine), then the configuration (ConfigFile), then either the     *)
(* upload or an exit code. UploadCli takes over at "upload".               *)
(***************************************************************************)
EXTENDS CommandLine, ConfigFile

CONSTANT Inputs    \* what a run may find: [args, tree, env, config]

ASSUME InputsAssumption ==
  \A in \in Inputs :
    /\ in.args \in Seq(Arguments)
    /\ \A p \in DOMAIN in.tree :
         in.tree[p].entries \in Seq([name : STRING, kind : STRING])
    /\ in.config.raw \in [endpoints : Seq(RawEndpoints), policy : RawPolicies]

vars == <<lineVars, configVars>>

Init ==
  /\ \E in \in Inputs :
       args = in.args /\ tree = in.tree /\ env = in.env /\ config = in.config
  /\ LineInit
  /\ ConfigInit

\* The config file named by --config is read after the paths were expanded.
OpenConfig ==
  /\ at = "config"
  /\ loading = "idle"
  /\ loading' = "read"
  /\ UNCHANGED <<lineVars, env, config, globals, seenNames, endpoints, errors>>

ConfigDone ==
  /\ at = "config"
  /\ \/ loading = "failed" /\ Stop(exitConfigError)
     \/ loading = "loaded" /\ Goto("upload")
  /\ UNCHANGED <<args, tree, rest, trailing, given, configPath, paths, entries, files, configVars>>

Settled == at \in {"stopped", "upload"} /\ UNCHANGED vars

Next ==
  \/ (ParseArgs \/ ExpandPaths) /\ UNCHANGED configVars
  \/ OpenConfig
  \/ LoadConfig /\ UNCHANGED lineVars
  \/ ConfigDone
  \/ Settled

Spec == Init /\ [][Next]_vars

-----------------------------------------------------------------------------
(***************************************************************************)
(* Reference definitions: what the arguments and the file mean, told from  *)
(* the whole of them at once.                                              *)
(***************************************************************************)

\* The arguments before the first "--", and which of them are a flag's value.
DashDashes == {i \in DOMAIN args : args[i] = "--"}
Options == {i \in DOMAIN args : \A d \in DashDashes : i < d}
IsValue[i \in 0..Len(args)] == i > 1 /\ args[i - 1] = "--config" /\ ~IsValue[i - 1]
Meant == {i \in Options : ~IsValue[i]}

Wrong(i) ==
  \/ args[i] \in UnknownFlags \cup {"--help"}
  \/ args[i] = "--config" /\ i + 1 \notin Options
FirstWrong == {i \in Meant : Wrong(i) /\ \A j \in Meant : Wrong(j) => i <= j}

MeantFlags == {args[i] : i \in Meant} \cap BoolFlags
MeantConfig == {args[i] : i \in {j \in Options : IsValue[j] /\
                   \A k \in Options : IsValue[k] => k <= j}}
MeantPath(i) == (i \in Meant /\ args[i] \in Words) \/ (\E d \in DashDashes : i > d)
PathPlaces == {i \in DOMAIN args : MeantPath(i)}

\* The files a path stands for: itself, as entry 0, or the plain files of a
\* directory that are not hidden.
EntriesAt(i) ==
  IF Kind(args[i]) # "dir" THEN {0}
  ELSE LET dir == tree[args[i]].entries
       IN {n \in DOMAIN dir : dir[n].kind = "file" /\ dir[n].name \notin Hidden}
Sources == UNION {{<<i, n>> : n \in EntriesAt(i)} : i \in PathPlaces}
FileOf(s) ==
  IF s[2] = 0 THEN DirectFile(args[s[1]])
  ELSE EntryFile(args[s[1]], tree[args[s[1]]].entries[s[2]])
Before(s, t) == s[1] < t[1] \/ (s[1] = t[1] /\ s[2] < t[2])

\* The files are those of S, each of them once, and in the order of the arguments.
FilesAre(S) ==
  /\ Range(files) = {FileOf(s) : s \in S}
  /\ \A m, n \in DOMAIN files, s, t \in S :
       files[m] = FileOf(s) /\ files[n] = FileOf(t) => (m < n <=> Before(s, t))

\* A value written in the file that is no number there, or too small a one.
Bad(f, v) == v # Unset /\ (v[1] # "number" \/ v[2] < Least[f])
BadAt(place, f) ==
  Bad(f, (IF place = 0 THEN config.raw ELSE Raw[place]).policy[f])
NameOf(i) == Interpolate(Raw[i].name)

FaultsWritten ==
  {<<i, f, "range">> : i \in {0} \cup DOMAIN Raw, f \in PolicyFields} \cup
  {<<i, f, "undefined">> : i \in DOMAIN Raw, f \in Interpolated} \cup
  {<<i, "name", "duplicate">> : i \in DOMAIN Raw}

\* The value the layers give: the endpoint's, else the file's, else the default.
Layers(f, i) == <<Raw[i].policy[f], config.raw.policy[f], <<"number", Defaults[f]>>>>
Layered(f, i) ==
  LET set == {n \in 1..3 : Layers(f, i)[n] # Unset}
      innermost == CHOOSE n \in set : \A m \in set : n <= m
  IN Layers(f, i)[innermost][2]

-----------------------------------------------------------------------------
\* The variables keep their types, and a run has an exit code once it stopped.
SetupTypeOK ==
  /\ at \in {"args", "flags", "paths", "dir", "config", "stopped", "upload"}
  /\ exit \in {Running, exitOK, exitConfigError, exitUsageError}
  /\ (exit = Running) <=> (at # "stopped")
  /\ Range(rest) \subseteq Arguments \ {"--"}
  /\ given \subseteq BoolFlags
  /\ loading \in Steps
  /\ loading # "idle" => at \in {"config", "stopped", "upload"}
  /\ globals \in [PolicyFields -> Int]

\* Flags and paths mean the same in any order (parseInterleaved, expandPaths):
\* when the configuration is opened, the flags are those before "--" that are no
\* flag's value, the last --config counts, and the files are those of all other
\* arguments in order, without hidden files and what a directory only links to.
ArgumentsAsMeant ==
  at = "config" =>
    /\ FirstWrong = {}
    /\ given = MeantFlags
    /\ {configPath} = MeantConfig
    /\ FilesAre(Sources)

\* A run that stops says why (run, parseArgs): 0 only if --help came before any
\* mistake, or --version was given without one; 2 only for the configuration,
\* after a faultless command line; 3 for the rest, before the configuration is
\* opened.
ExitCodeSaysWhy ==
  at = "stopped" =>
    /\ exit = exitOK <=> IF FirstWrong = {} THEN "--version" \in MeantFlags
                         ELSE \A i \in FirstWrong : args[i] = "--help"
    /\ exit = exitConfigError =>
         /\ FirstWrong = {} /\ FilesAre(Sources) /\ files # <<>>
         /\ config.state = "ok" => errors # {}
    /\ exit = exitUsageError => loading = "idle"

\* Every fault is reported at its place, whatever else is wrong with the file, and
\* no value without a cause (LoadConfig): a bad policy value, a reference to an
\* unset variable in a field that is interpolated, a name an earlier endpoint has.
\* Bad is what the code takes for bad: a duration given as a reference is, whatever
\* its variable holds (parseDuration), although README.md:159 says of references
\* that they work "in any string field". A bad value at the top level may be
\* reported again by the endpoints that inherit it.
ErrorsMatchFaults ==
  loading \in {"failed", "loaded"} /\ config.state = "ok" =>
    \A fault \in FaultsWritten :
      LET i == fault[1]
          f == fault[2]
      IN CASE fault[3] = "range" ->
                /\ BadAt(i, f) => fault \in errors
                /\ fault \in errors => BadAt(i, f) \/ (Raw[i].policy[f] = Unset /\ BadAt(0, f))
           [] fault[3] = "undefined" -> fault \in errors <=> Undefined(Raw[i][f])
           [] fault[3] = "duplicate" ->
                fault \in errors <=> NameOf(i) # "" /\ \E j \in 1..(i - 1) : NameOf(j) = NameOf(i)

\* With an accepted file every endpoint runs with the value the innermost layer
\* sets, a zero included (resolvePolicy).
PolicyIsLayered ==
  loading = "loaded" =>
    \A i \in DOMAIN Raw, f \in PolicyFields : endpoints[i].policy[f] = Layered(f, i)

\* What the engine takes for granted once Upload is called: something to upload,
\* no two files with one remote name, and endpoints that can be told apart, have
\* a transport, credentials it can use and limits it can work with; a reference
\* is only left where a variable or the home directory has that text.
EndpointsRunnable ==
  at = "upload" =>
    /\ files # <<>>
    /\ IsInjective([i \in DOMAIN files |-> files[i].base])
    /\ endpoints # <<>>
    /\ \A i, j \in DOMAIN endpoints : i # j => endpoints[i].name # endpoints[j].name
    /\ \A i \in DOMAIN endpoints : LET e == endpoints[i] IN
         /\ e.protocol \in Protocols
         /\ "" \notin {e.name, e.host, e.username}
         /\ \A text \in {e.name, e.host, e.username, e.password, e.privateKey} :
              text \in References => text \in Range(env.vars) \cup Range(Home)
         /\ IF e.protocol = "sftp" THEN {e.password, e.privateKey} # {""}
                                   ELSE e.password # "" /\ e.privateKey = ""
         /\ e.privateKey \notin DOMAIN Home
         /\ \A f \in PolicyFields : e.policy[f] >= Least[f]
=============================================================================
