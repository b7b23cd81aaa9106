--------------------------- MODULE ResponseRouter ---------------------------
(***************************************************************************)
(* The router of one connection (bridge/actor/response_router.rs): the     *)
(* requests a server still owes an answer, and the two maps that translate *)
(* a client's request id into the id used with the server so that a        *)
(* $/cancelRequest can be forwarded.  All of its state is behind one mutex, *)
(* so each operation is one step; callers on any task may call them in any *)
(* order, which is what RouterNext says.                                   *)
(***************************************************************************)
EXTENDS FiniteSets

CONSTANTS
  Ids,        (* request ids used with the downstream server (RequestId) *)
  Upstreams,  (* request ids of the client (UpstreamId)                  *)
  None        (* the Option::None of either                              *)

ASSUME RouterAssumption == None \notin Ids /\ None \notin Upstreams

VARIABLES
  pending,                 (* ids whose oneshot sender the router holds           *)
  upstream_to_downstream,  (* id a cancel of the client's request is sent to      *)
  downstream_to_upstream,  (* the reverse map, used to clean the first            *)
  waiter                   (* what the oneshot receiver of an id observes         *)

routerVars ==
  <<pending, upstream_to_downstream, downstream_to_upstream, waiter>>

(* A receiver sees an empty channel until its sender is used or dropped. *)
Answers == {"response", "error", "dropped"}
WaiterStates == {"unregistered", "waiting"} \cup Answers

RouterTypeOK ==
  /\ pending \subseteq Ids
  /\ upstream_to_downstream \in [Upstreams -> Ids \cup {None}]
  /\ downstream_to_upstream \in [Ids -> Upstreams \cup {None}]
  /\ waiter \in [Ids -> WaiterStates]
-----------------------------------------------------------------------------
(* A router whose ids in S are registered without an upstream id. *)
RouterInit(S) ==
  /\ pending = S
  /\ upstream_to_downstream = [u \in Upstreams |-> None]
  /\ downstream_to_upstream = [d \in Ids |-> None]
  /\ waiter = [d \in Ids |-> IF d \in S THEN "waiting" ELSE "unregistered"]

(* remove_cancel_mapping_inner: the forward entry removed is the one of the *)
(* upstream id, whatever downstream id it holds by now.                     *)
RemoveCancelMapping(d) ==
  /\ downstream_to_upstream' = [downstream_to_upstream EXCEPT ![d] = None]
  /\ upstream_to_downstream' =
       [u \in Upstreams |-> IF u = downstream_to_upstream[d]
                            THEN None ELSE upstream_to_downstream[u]]

(* The sender of d, if the router still holds it, is used up with a. *)
Settle(d, a) ==
  /\ pending' = pending \ {d}
  /\ waiter' = [waiter EXCEPT ![d] = IF d \in pending THEN a ELSE @]
  /\ RemoveCancelMapping(d)

RegisterWithUpstream(d, u) ==
  /\ d \notin pending
  /\ pending' = pending \cup {d}
  /\ waiter' = [waiter EXCEPT ![d] = "waiting"]
  /\ IF u = None
     THEN UNCHANGED <<upstream_to_downstream, downstream_to_upstream>>
     ELSE /\ upstream_to_downstream' = [upstream_to_downstream EXCEPT ![u] = d]
          /\ downstream_to_upstream' = [downstream_to_upstream EXCEPT ![d] = u]

(* Mutant: an answer does not clean the maps. *)
RouteKeepsMapping(d) ==
  /\ pending' = pending \ {d}
  /\ waiter' = [waiter EXCEPT ![d] = IF d \in pending THEN "response" ELSE @]
  /\ UNCHANGED <<upstream_to_downstream, downstream_to_upstream>>

(* An answer of the server: a late or unknown one finds no sender. *)
Route(d) == Settle(d, "response")

(* The writer could not write the request. *)
FailRequest(d) == Settle(d, "error")

(* FailRequest of each id of S in turn. *)
FailRequests(S) ==
  /\ pending' = pending \ S
  /\ waiter' = [d \in Ids |-> IF d \in S \cap pending THEN "error"
                              ELSE waiter[d]]
  /\ downstream_to_upstream' =
       [d \in Ids |-> IF d \in S THEN None ELSE downstream_to_upstream[d]]
  /\ upstream_to_downstream' =
       [u \in Upstreams |->
          IF \E d \in S : downstream_to_upstream[d] = u
          THEN None ELSE upstream_to_downstream[u]]

(* The caller gives up: the maps are cleaned only if d was pending. *)
Remove(d) ==
  IF d \in pending THEN Settle(d, "dropped") ELSE UNCHANGED routerVars

(* Mutant: the waiters are failed but their entries stay. *)
FailAllKeepsPending ==
  /\ UNCHANGED pending
  /\ waiter' = [d \in Ids |-> IF d \in pending THEN "error" ELSE waiter[d]]
  /\ upstream_to_downstream' = [u \in Upstreams |-> None]
  /\ downstream_to_upstream' = [d \in Ids |-> None]

FailAll ==
  /\ pending' = {}
  /\ waiter' = [d \in Ids |-> IF d \in pending THEN "error" ELSE waiter[d]]
  /\ upstream_to_downstream' = [u \in Upstreams |-> None]
  /\ downstream_to_upstream' = [d \in Ids |-> None]

LookupDownstreamId(u) == upstream_to_downstream[u]
-----------------------------------------------------------------------------
RouterNext ==
  \/ \E d \in Ids, u \in Upstreams \cup {None} : RegisterWithUpstream(d, u)
  \/ \E d \in Ids : Route(d) \/ FailRequest(d) \/ Remove(d)
  \/ \E S \in SUBSET Ids : FailRequests(S)
  \/ FailAll

RouterSpec == RouterInit({}) /\ [][RouterNext]_routerVars
-----------------------------------------------------------------------------
(* A task that awaits an answer has its sender in the router: whatever     *)
(* takes an id out of pending (route, remove, fail_request, fail_all) also *)
(* wakes its waiter, so no task is left to its 30 second timeout.          *)
NoWaiterForgotten == pending = {d \in Ids : waiter[d] = "waiting"}

(* A cancel is only ever forwarded for a request that is still unanswered, *)
(* and for one that the client knows by the id it cancels: the forward map *)
(* points at pending requests only, in spite of upstream ids that several  *)
(* requests share and of the clean-up each completion makes.               *)
CancelTargetsPending ==
  \A u \in Upstreams :
     upstream_to_downstream[u] # None =>
        /\ upstream_to_downstream[u] \in pending
        /\ downstream_to_upstream[upstream_to_downstream[u]] = u

(* The reverse map holds no entry of an answered request (it would leak,   *)
(* and its clean-up would later erase the mapping of another request).     *)
ReverseMapOfPending ==
  \A d \in Ids : downstream_to_upstream[d] # None => d \in pending

(* What a cancel relies on: the two maps speak of requests that are open,  *)
(* and of the client that cancels.                                         *)
CancelMapsSound == CancelTargetsPending /\ ReverseMapOfPending

(* Completions race (an answer, a write error, a timeout, the reader's     *)
(* end): whichever comes second changes nothing that a waiter sees until   *)
(* the id is registered again.                                             *)
SettledOnce ==
  [][\A d \in Ids :
        waiter[d] \in Answers => waiter'[d] \in {waiter[d], "waiting"}]_routerVars
=============================================================================
