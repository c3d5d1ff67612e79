----------------------------- MODULE MCNodeLife -----------------------------
(* One message, one connection with one peer, which the DHT loop may find: *)
(* one sender for each of the channels that Stop closes.                   *)
EXTENDS NodeLife

CONSTANTS p, p1

Ends == [c \in Conns |-> p]
OneMessage == {[id |-> 1, topic |-> "broadcast", for |-> "us", handler |-> "manager"]}
=============================================================================
