---------------------------- MODULE CommandLine -----------------------------
(***************************************************************************)
(* What cmd/uploadfun does with its arguments before it reads the          *)
(* configuration: parseArgs with parseInterleaved, then expandPaths with   *)
(* checkBasenameCollisions, in the order of run.                           *)
(*                                                                         *)
(* An argument is "--", a flag by its name, or a word; the spellings of a  *)
(* flag ("-quiet", "--quiet=true") are one. A flag the program does not    *)
(* have stands for every other argument that begins with "-".              *)
(***************************************************************************)
EXTENDS Integers, Sequences, SequencesExt

CONSTANTS
  UnknownFlags,    \* arguments that begin with "-" and are no flag
  Words,           \* arguments that do not
  Base,            \* filepath.Base of every argument, as all may be a path
  Hidden           \* base names that begin with "."

BoolFlags == {"--quiet", "--verbose", "--json", "--dry-run", "--no-verify", "--version"}
Arguments == BoolFlags \cup {"--config", "--help", "--"} \cup UnknownFlags \cup Words

ASSUME ArgumentsAssumption ==
  /\ DOMAIN Base = Arguments
  /\ Words \cap UnknownFlags = {}
  /\ (Words \cup UnknownFlags) \cap (BoolFlags \cup {"--config", "--help", "--", ""}) = {}

exitOK == 0
exitConfigError == 2
exitUsageError == 3
Running == -1

VARIABLES
  args,            \* os.Args[1:]
  tree,            \* what os.Stat and os.ReadDir find at a path, if anything
  at,              \* where run is
  rest, trailing,  \* arguments not parsed yet, and those after "--"
  given,           \* the boolean flags that are set
  configPath,      \* the value of --config, "" if there is none
  paths,           \* positional arguments, those expanded already dropped
  entries,         \* what is left of the directory being expanded
  files,           \* the files to upload so far
  exit             \* the exit code, Running before

lineVars == <<args, tree, at, rest, trailing, given, configPath, paths, entries, files, exit>>

Stop(code) == at' = "stopped" /\ exit' = code
Goto(p) == at' = p /\ UNCHANGED exit

LineInit ==
  /\ at = "args" /\ exit = Running
  /\ rest = <<>> /\ trailing = <<>>
  /\ given = {} /\ configPath = ""
  /\ paths = <<>> /\ entries = <<>> /\ files = <<>>

-----------------------------------------------------------------------------
(***************************************************************************)
(* parseArgs. A definition no action uses is a seeded fault, a mistaken    *)
(* form of the one below it.                                               *)
(***************************************************************************)

SplitPointLast(a) == SelectLastInSeq(a, LAMBDA x : x = "--")
SplitPoint(a) == SelectInSeq(a, LAMBDA x : x = "--")

\* The first "--" is taken out, wherever it stands.
SplitArgs ==
  /\ at = "args"
  /\ LET i == SplitPoint(args) IN
       /\ rest' = IF i = 0 THEN args ELSE SubSeq(args, 1, i - 1)
       /\ trailing' = IF i = 0 THEN <<>> ELSE SubSeq(args, i + 1, Len(args))
  /\ Goto("flags")
  /\ UNCHANGED <<args, tree, given, configPath, paths, entries, files>>

Parsing == at = "flags" /\ rest # <<>>

SetFlag ==
  /\ Parsing
  /\ Head(rest) \in BoolFlags
  /\ given' = given \cup {Head(rest)}
  /\ rest' = Tail(rest)
  /\ UNCHANGED <<args, tree, at, trailing, configPath, paths, entries, files, exit>>

\* The value of --config is the next argument, whatever it looks like.
SetConfig ==
  /\ Parsing
  /\ Head(rest) = "--config" /\ Len(rest) > 1
  /\ configPath' = rest[2]
  /\ rest' = Tail(Tail(rest))
  /\ UNCHANGED <<args, tree, at, trailing, given, paths, entries, files, exit>>

Positional ==
  /\ Parsing
  /\ Head(rest) \in Words
  /\ paths' = Append(paths, Head(rest))
  /\ rest' = Tail(rest)
  /\ UNCHANGED <<args, tree, at, trailing, given, configPath, entries, files, exit>>

ParseFails ==
  /\ Parsing
  /\ \/ Head(rest) = "--help" /\ Stop(exitOK)
     \/ Head(rest) \in UnknownFlags /\ Stop(exitUsageError)
     \/ Head(rest) = "--config" /\ Len(rest) = 1 /\ Stop(exitUsageError)
  /\ UNCHANGED <<args, tree, rest, trailing, given, configPath, paths, entries, files>>

UsageError ==
  \/ {"--quiet", "--verbose"} \subseteq given
  \/ configPath = ""
  \/ paths \o trailing = <<>>

OutcomeUsageFirst ==
  IF UsageError THEN Stop(exitUsageError)
  ELSE IF "--version" \in given THEN Stop(exitOK) ELSE Goto("paths")
Outcome ==
  IF "--version" \in given THEN Stop(exitOK)
  ELSE IF UsageError THEN Stop(exitUsageError) ELSE Goto("paths")

ArgsParsed ==
  /\ at = "flags" /\ rest = <<>>
  /\ paths' = paths \o trailing
  /\ Outcome
  /\ UNCHANGED <<args, tree, rest, trailing, given, configPath, entries, files>>

-----------------------------------------------------------------------------
(***************************************************************************)
(* expandPaths: os.Stat follows a link, the entries of a directory are     *)
(* looked at as they are.                                                  *)
(***************************************************************************)

Kind(p) == IF p \in DOMAIN tree THEN tree[p].kind ELSE "missing"

DirectFile(p) == [path |-> <<p>>, base |-> Base[p]]
EntryFile(p, e) == [path |-> <<p, e.name>>, base |-> e.name]

LooksAtAll(e) == e.kind # "dir"
LooksAt(e) == e.kind # "dir" /\ e.name \notin Hidden

Expanding == at = "paths" /\ paths # <<>>

ExpandFile ==
  /\ Expanding
  /\ Kind(Head(paths)) \in {"file", "link"}
  /\ files' = Append(files, DirectFile(Head(paths)))
  /\ paths' = Tail(paths)
  /\ UNCHANGED <<args, tree, at, rest, trailing, given, configPath, entries, exit>>

ReadDir ==
  /\ Expanding
  /\ Kind(Head(paths)) = "dir"
  /\ entries' = tree[Head(paths)].entries
  /\ Goto("dir")
  /\ UNCHANGED <<args, tree, rest, trailing, given, configPath, paths, files>>

NextEntry ==
  /\ at = "dir" /\ entries # <<>>
  /\ LET e == Head(entries) IN
       files' = IF LooksAt(e) /\ e.kind = "file"
                  THEN Append(files, EntryFile(Head(paths), e)) ELSE files
  /\ entries' = Tail(entries)
  /\ UNCHANGED <<args, tree, at, rest, trailing, given, configPath, paths, exit>>

EndDir ==
  /\ at = "dir" /\ entries = <<>>
  /\ paths' = Tail(paths)
  /\ Goto("paths")
  /\ UNCHANGED <<args, tree, rest, trailing, given, configPath, entries, files>>

\* os.Stat or os.ReadDir fails, or the path is no regular file; an entry the loop
\* looks at is gone when its Info is read.
ExpandFails ==
  /\ \/ Expanding /\ Kind(Head(paths)) \in {"missing", "other", "lockedDir"}
     \/ at = "dir" /\ entries # <<>> /\ LooksAt(Head(entries))
  /\ Stop(exitUsageError)
  /\ UNCHANGED <<args, tree, rest, trailing, given, configPath, paths, entries, files>>

Collide(f) == \E i, j \in DOMAIN f : i # j /\ f[i].base = f[j].base

FilesChecked ==
  /\ at = "paths" /\ paths = <<>>
  /\ IF Collide(files) \/ files = <<>> THEN Stop(exitUsageError) ELSE Goto("config")
  /\ UNCHANGED <<args, tree, rest, trailing, given, configPath, paths, entries, files>>

ParseArgs == SplitArgs \/ SetFlag \/ SetConfig \/ Positional \/ ParseFails \/ ArgsParsed
ExpandPaths == ExpandFile \/ ReadDir \/ NextEntry \/ EndDir \/ ExpandFails \/ FilesChecked
=============================================================================
