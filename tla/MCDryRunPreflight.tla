------------------------- MODULE MCDryRunPreflight --------------------------
(* DryRunPreflight for TLC: an endpoint of each kind of transport, each of *)
(* them with and without a stall timeout, and one that has no transport.   *)
EXTENDS DryRunPreflight

CONSTANTS plain, secure, unknown

All == {plain, secure, unknown}
OnlyFTP == {plain}
ProtocolOf == [e \in Endpoints |->
  CASE e = plain -> "ftp" [] e = secure -> "sftp" [] OTHER -> "other"]
WithAndWithout == {[e \in Endpoints |-> e \notin unset] : unset \in SUBSET {plain, secure}}
=============================================================================
