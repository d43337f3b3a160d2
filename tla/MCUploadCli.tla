---------------------------- MODULE MCUploadCli -----------------------------
(***************************************************************************)
(* UploadCli for TLC: an FTP endpoint with one attempt and no stall        *)
(* timeout, and an SFTP endpoint with two.                                 *)
(***************************************************************************)
EXTENDS UploadCli

CONSTANTS once, twice

Both == {once, twice}
ProtocolOf == [e \in Endpoints |-> IF e = once THEN "ftp" ELSE "sftp"]
AttemptsOf == [e \in Endpoints |-> IF e = once THEN 1 ELSE 2]
LimitOf == [e \in Endpoints |-> 3]
OverwriteOf == [e \in Endpoints |-> IF e = once THEN "direct" ELSE "delete-first"]
Unguarded == [e \in Endpoints |-> FALSE]
Nothing == {}
=============================================================================
