--------------------------- MODULE MCCommandSetup ---------------------------
(***************************************************************************)
(* The inputs of the model-checked runs of CommandSetup: every short       *)
(* command line against one good file, and every file that departs from a  *)
(* good one in a few places under one good command line.                   *)
(***************************************************************************)
EXTENDS CommandSetup

MCReferences == {"${PASS}", "${TYPO}", "${PROTO}"}
MCHome == [p \in {"~/key"} |-> "/home/u/key"]
MCDefaults == [attempts |-> 3, maxConsecutiveConnectFailures |-> 3,
               connectTimeout |-> 5, retryDelay |-> 2, stallTimeout |-> 9]

\* Base names: two words collide, and a directory has a file of the same name.
MCBase == [w \in Arguments |-> IF w = "d/a" THEN "a" ELSE w]

File(n) == [name |-> n, kind |-> "file"]
MCTree ==
  LET node(k) == [kind |-> k, entries |-> <<>>] IN
  [p \in {"a", "-x", "--quiet", "d/a", "d", "f", "l", "lo"} |->
     CASE p \in {"a", "-x", "--quiet", "d/a"} -> node("file")
       [] p = "d" -> [kind |-> "dir", entries |->
            <<File(".h"), File("b"), [name |-> "s", kind |-> "dir"],
              [name |-> "k", kind |-> "link"], File("c")>>]
       [] p = "l" -> node("link")
       [] p = "lo" -> node("lockedDir")
       [] p = "f" -> node("other")]

Plain == [f \in PolicyFields |-> Unset]
Good == [name |-> "n", protocol |-> "sftp", host |-> "h", port |-> 0,
         username |-> "u", password |-> "${PASS}", privateKey |-> "",
         overwrite |-> "", insecureSkipVerify |-> FALSE, policy |-> Plain]
Other == [Good EXCEPT !.name = "o", !.protocol = "ftps"]

\* What an endpoint or the top level may say of one field instead.
Texts == {"", "n", "${PASS}", "${TYPO}", "~/key"}
Policies ==
  {[Plain EXCEPT ![f] = v] : f \in PolicyFields,
     v \in {Unset, <<"number", -1>>, <<"number", 0>>, <<"number", 1>>}}
    \cup {[Plain EXCEPT ![f] = <<form, 1>>] : f \in Durations, form \in {"reference", "other"}}
Variants(e) ==
  {[e EXCEPT ![f] = t] : f \in Interpolated, t \in Texts}
    \cup {[e EXCEPT !.protocol = p] : p \in {"", "ftp", "ftps", "gopher", "${PROTO}"}}
    \cup {[e EXCEPT !.policy = p] : p \in Policies}
    \cup {[e EXCEPT !.overwrite = "direct"], [e EXCEPT !.port = 65536],
          [e EXCEPT !.insecureSkipVerify = TRUE],
          [e EXCEPT !.privateKey = "~/key", !.password = ""]}

RawFiles ==
  [endpoints : {<<>>} \cup {<<e, f>> : e \in Variants(Good), f \in Variants(Other)},
   policy : {Plain}]
  \cup [endpoints : {<<e, Other>> : e \in {[Good EXCEPT !.policy = p] : p \in Policies}},
        policy : Policies]
ConfigFiles ==
  [state : {"ok"}, raw : RawFiles]
    \cup [state : {"unreadable", "unparsable"}, raw : {[endpoints |-> <<>>, policy |-> Plain]}]
GoodFile == [state |-> "ok", raw |-> [endpoints |-> <<Good, Other>>, policy |-> Plain]]

Env(pass, home) ==
  [vars |-> [v \in {"${PASS}", "${PROTO}"} |-> IF v = "${PASS}" THEN pass ELSE "sftp"],
   home |-> home]
Envs == {Env(pass, home) : pass \in {"p", ""}, home \in BOOLEAN}
GoodEnv == Env("p", TRUE)

CONSTANT MaxArgs
Tokens == {"--quiet", "--verbose", "--version", "--help", "--config", "--", "-x",
           "a", "d", "d/a"}
GoodArgs == <<"a", "--config", "c">>
MCInputs ==
  [args : UNION {[1..n -> Tokens] : n \in 0..MaxArgs}
            \cup {<<"--config", "c">> \o t : t \in UNION {[1..n -> Tokens \cup {"l", "lo", "f", "m"}] : n \in 0..3}},
   tree : {MCTree}, env : {GoodEnv}, config : {GoodFile}]
  \cup [args : {GoodArgs}, tree : {MCTree}, env : Envs, config : ConfigFiles]
=============================================================================
