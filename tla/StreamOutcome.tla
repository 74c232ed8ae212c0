---------------------------- MODULE StreamOutcome ----------------------------
(***************************************************************************)
(* What one perf stream promises, whatever the pacing and the buffering:  *)
(* the request (the upload, or the download request) is delivered to the  *)
(* server or cut off; then the server's response is delivered or cut off; *)
(* and the stream is finalised once, with a latency sample exactly when   *)
(* both were delivered in full.  PerfStream implements it.                 *)
(***************************************************************************)
VARIABLES
  request,    \* "pending", "delivered", "cut"
  response,   \* "pending", "delivered", "cut"
  outcome     \* "none", "sample", "nosample"

vars == <<request, response, outcome>>

Phases == {"pending", "delivered", "cut"}

Init ==
  /\ request = "pending"
  /\ response = "pending"
  /\ outcome = "none"

DeliverRequest ==
  /\ request = "pending"
  /\ request' = "delivered"
  /\ UNCHANGED <<response, outcome>>

(* A reset of the whole stream cuts the response off with the request.    *)
CutRequest ==
  /\ request = "pending"
  /\ request' = "cut"
  /\ response' \in {response, "cut"}
  /\ UNCHANGED outcome

(* The server answers only a request it has received whole.               *)
DeliverResponse ==
  /\ request = "delivered"
  /\ response = "pending"
  /\ response' = "delivered"
  /\ UNCHANGED <<request, outcome>>

CutResponse ==
  /\ response = "pending"
  /\ response' = "cut"
  /\ UNCHANGED <<request, outcome>>

Finish ==
  /\ request /= "pending" /\ response /= "pending"
  /\ outcome = "none"
  /\ outcome' = IF request = "delivered" /\ response = "delivered"
                  THEN "sample" ELSE "nosample"
  /\ UNCHANGED <<request, response>>

Next ==
  \/ DeliverRequest \/ CutRequest
  \/ DeliverResponse \/ CutResponse
  \/ Finish

(* Each direction is eventually settled one way or the other, and a       *)
(* settled stream is finalised.                                            *)
Spec ==
  /\ Init /\ [][Next]_vars
  /\ WF_vars(DeliverRequest \/ CutRequest)
  /\ WF_vars(DeliverResponse \/ CutResponse)
  /\ WF_vars(Finish)

TypeOK ==
  /\ request \in Phases /\ response \in Phases
  /\ outcome \in {"none", "sample", "nosample"}
=============================================================================
