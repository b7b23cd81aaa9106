------------------------- MODULE MCBridgeConnection -------------------------
(* Instances of BridgeConnection for TLC: the requests are those of the    *)
(* regions of one document and carry the id u1 of one client request;      *)
(* another id of Upstreams is that of a client request answered without    *)
(* the server.  The requests are interchangeable.                          *)
EXTENDS BridgeConnection, TLC

CONSTANT u1

SharedUpstream == [r \in Requests |-> u1]

Symmetry == Permutations(Requests)
=============================================================================
