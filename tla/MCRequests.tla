----------------------------- MODULE MCRequests -----------------------------
(***************************************************************************)
(* What web requests do themselves, one part in each behaviour: the claims *)
(* of short requests, and an ISO upload, whose requests rely on them to be *)
(* alone with the upload's session.                                        *)
(***************************************************************************)
EXTENDS MCClaims, MCUpload, FiniteSets

VARIABLE requests   \* "claims" or "upload"

RequestsInit ==
  /\ ClaimsInit /\ Init
  /\ requests \in {"claims", "upload"}
  /\ requests = "claims" => setup = CHOOSE s \in Setups : TRUE

\* Bound: two of the processes run after or beside each other, or one beside the job.
TwoParties ==
  Cardinality(up' \cup ended') + Cardinality({j \in Jobs : jobState'[j] = "active"}) <= 2

RequestsNext ==
  /\ UNCHANGED requests
  /\ \/ requests = "claims" /\ ClaimsNext /\ TwoParties /\ UNCHANGED vars
     \/ requests = "upload" /\ Next /\ Bounded /\ UNCHANGED claimsVars

\* Fairness of Upload, where the upload runs.
UploadFairness ==
  /\ \A a \in Actors : WF_vars(requests = "upload" /\ Step(a))
  /\ WF_vars(requests = "upload" /\ ExpireArrives)
  /\ WF_vars(requests = "upload" /\ SessionEnds)
  /\ WF_vars(requests = "upload" /\ TurnIdle)

RequestsSpec == RequestsInit /\ [][RequestsNext]_<<requests, vars, claimsVars>> /\ UploadFairness
=============================================================================
