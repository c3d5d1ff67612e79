------------------------------ MODULE MCPeers ------------------------------
(* Two peers: p, a bootstrap peer that may have two connections, one of     *)
(* them from before the callbacks; q, which can be found but not reached.   *)
EXTENDS Peers

CONSTANTS p, q, p1, p2

Ends == [c \in Conns |-> p]
=============================================================================
