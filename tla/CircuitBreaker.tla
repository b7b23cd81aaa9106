--------------------------- MODULE CircuitBreaker ---------------------------
(***************************************************************************)
(* What the pool promises about the starts of its servers: one start of a  *)
(* server at a time, and none by a caller that had found too many panics   *)
(* in a row counted when it asked.  A panic is counted after the start has *)
(* ended, so another may be let through meanwhile.  A panic or a success   *)
(* that nobody waited for may go uncounted.                                *)
(***************************************************************************)
EXTENDS Naturals

CONSTANTS Servers, MaxPanics

VARIABLES
  starting,   (* the servers that are being started              *)
  asking,     (* those that may be started by the one who asked  *)
  uncounted,  (* the panics that have yet to be counted, of each *)
  count       (* the panics counted of each                      *)

breakerVars == <<starting, asking, uncounted, count>>

Init ==
  /\ starting = {} /\ asking = {}
  /\ uncounted = [s \in Servers |-> 0] /\ count = [s \in Servers |-> 0]

(* One asks at a time, and may give up.                                    *)
Ask(s) ==
  /\ asking = {} /\ count[s] < MaxPanics
  /\ asking' = {s}
  /\ UNCHANGED <<starting, uncounted, count>>

GiveUp ==
  /\ asking' = {}
  /\ UNCHANGED <<starting, uncounted, count>>

Start(s) ==
  /\ s \in asking /\ s \notin starting
  /\ asking' = {} /\ starting' = starting \cup {s}
  /\ UNCHANGED <<uncounted, count>>

(* A start has succeeded or failed.                                        *)
End(s) ==
  /\ s \in starting /\ starting' = starting \ {s}
  /\ UNCHANGED <<asking, uncounted, count>>

(* A panic ends one start and is counted once.                             *)
Panic(s) ==
  /\ s \in starting /\ starting' = starting \ {s}
  /\ uncounted' = [uncounted EXCEPT ![s] = @ + 1]
  /\ UNCHANGED <<asking, count>>

Count(s) ==
  /\ uncounted[s] > 0
  /\ uncounted' = [uncounted EXCEPT ![s] = @ - 1]
  /\ count' = [count EXCEPT ![s] = @ + 1]
  /\ UNCHANGED <<starting, asking>>

(* A caller learns of a success, which may be some time ago.               *)
Reset(s) ==
  /\ count' = [count EXCEPT ![s] = 0]
  /\ UNCHANGED <<starting, asking, uncounted>>

Next ==
  \/ GiveUp
  \/ \E s \in Servers :
       Ask(s) \/ Start(s) \/ End(s) \/ Panic(s) \/ Count(s) \/ Reset(s)

Spec == Init /\ [][Next]_breakerVars
=============================================================================
