--------------------------- MODULE MCUploadEngine ---------------------------
(***************************************************************************)
(* Instances of UploadEngine for TLC. A configuration picks the endpoints  *)
(* among the model values below; each stands for one way to configure an   *)
(* endpoint.                                                               *)
(***************************************************************************)
EXTENDS UploadEngine, TLC

CONSTANTS
  patient,    \* SFTP, the breaker's limit above the attempts: it trips across files
  hasty,      \* FTP, direct overwrite, the breaker trips inside a file
  unknown     \* a protocol without a transport

Deep == {patient}
Edges == {hasty, unknown}

ProtocolOf == [e \in Endpoints |->
  CASE e = patient -> "sftp" [] e = hasty -> "ftp" [] OTHER -> "other"]
AttemptsOf == [e \in Endpoints |-> IF e = hasty THEN 3 ELSE 2]
LimitOf == [e \in Endpoints |-> IF e = patient THEN 3 ELSE 2]
OverwriteOf == [e \in Endpoints |-> IF e = hasty THEN "direct" ELSE "delete-first"]
AllGuarded == [e \in Endpoints |-> TRUE]
Nothing == {}
Second == {2}
=============================================================================
