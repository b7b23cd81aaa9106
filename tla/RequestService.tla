---------------------------- MODULE RequestService ----------------------------
(***************************************************************************)
(* What a bridge connection promises to the tasks that use it: a request   *)
(* is received by the server at most once, it is answered only after the   *)
(* server received it, and its outcome is final.  Failing is always        *)
(* possible, of any number of requests at once, and does not recall a      *)
(* message: a failed request may still reach the server.                   *)
(***************************************************************************)
CONSTANT Requests

VARIABLES
  outcome,    (* what the waiter of a request can observe *)
  received    (* the requests the server has read         *)

serviceVars == <<outcome, received>>

Outcomes == {"none", "open", "answered", "failed"}

Init ==
  /\ outcome = [r \in Requests |-> "none"]
  /\ received = {}

Issue(r) ==
  /\ outcome[r] = "none"
  /\ outcome' = [outcome EXCEPT ![r] = "open"]
  /\ UNCHANGED received

Receive(r) ==
  /\ outcome[r] # "none" /\ r \notin received
  /\ received' = received \cup {r}
  /\ UNCHANGED outcome

Answer(r) ==
  /\ outcome[r] = "open" /\ r \in received
  /\ outcome' = [outcome EXCEPT ![r] = "answered"]
  /\ UNCHANGED received

Fail(S) ==
  /\ \A r \in S : outcome[r] = "open"
  /\ outcome' = [r \in Requests |-> IF r \in S THEN "failed" ELSE outcome[r]]
  /\ UNCHANGED received

Next ==
  \/ \E r \in Requests : Issue(r) \/ Receive(r) \/ Answer(r)
  \/ \E S \in SUBSET Requests : Fail(S)

Spec == Init /\ [][Next]_serviceVars
=============================================================================
