----------------------------- MODULE MCP2PHost -----------------------------
(* One message of the coordinator and one of a session on the broadcast    *)
(* topic, next to one for another node, and a heartbeat.                   *)
EXTENDS P2PHost

Msg(id, topic, for, handler) == [id |-> id, topic |-> topic, for |-> for, handler |-> handler]

BothTopics == {"broadcast", "heartbeat"}
FourMessages ==
    {Msg(1, "broadcast", "us", "coordinator"), Msg(2, "broadcast", "us", "manager"),
     Msg(3, "broadcast", "other", "manager"), Msg(4, "heartbeat", "us", "manager")}
=============================================================================
