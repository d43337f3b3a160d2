--------------------------- MODULE UploadContract ---------------------------
(***************************************************************************)
(* What Upload promises whoever ranges over its channel, whatever happens  *)
(* on the network: each endpoint reports successes in the order of the     *)
(* batch, then its tally once and for all, which agrees with the successes *)
(* reported and adds up to the batch; then the channel is closed (doc      *)
(* comments of Upload, FileSuccessEvent and EndpointDoneEvent).            *)
(***************************************************************************)
EXTENDS Naturals, FiniteSets

CONSTANTS Endpoints, NumFiles

VARIABLES
  reported,   \* the files each endpoint has reported as uploaded
  tally,      \* each endpoint's final counts, the empty set before
  open        \* more events may come

vars == <<reported, tally, open>>

Counts(n) == [succeeded |-> n, failed |-> NumFiles - n]

Init ==
  /\ reported = [e \in Endpoints |-> {}]
  /\ tally = [e \in Endpoints |-> {}]
  /\ open = TRUE

FileUploaded(e, f) ==
  /\ tally[e] = {}
  /\ \A g \in reported[e] : g < f
  /\ reported' = [reported EXCEPT ![e] = @ \cup {f}]
  /\ UNCHANGED <<tally, open>>

EndpointDone(e) ==
  /\ tally[e] = {}
  /\ tally' = [tally EXCEPT ![e] = {Counts(Cardinality(reported[e]))}]
  /\ UNCHANGED <<reported, open>>

Close ==
  /\ open
  /\ \A e \in Endpoints : tally[e] # {}
  /\ open' = FALSE
  /\ UNCHANGED <<reported, tally>>

Next ==
  \/ \E e \in Endpoints :
       EndpointDone(e) \/ \E f \in 1..NumFiles : FileUploaded(e, f)
  \/ Close

Spec == Init /\ [][Next]_vars

\* Every endpoint reports, and the channel does not stay open for ever.
FairSpec ==
  /\ Spec
  /\ \A e \in Endpoints : WF_vars(EndpointDone(e))
  /\ WF_vars(Close)
=============================================================================
