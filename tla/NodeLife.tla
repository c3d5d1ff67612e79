------------------------------ MODULE NodeLife ------------------------------
(***************************************************************************)
(* One node from its start to its stop: the message path of P2PHost and    *)
(* the connections of Peers, which share the main goroutine and the        *)
(* process.  P2PHost.Stop (host.go:230) cancels the context once for both  *)
(* and then closes, in this order, peerChan, incomingChan, eventChan,      *)
(* msgChan and the libp2p host.                                            *)
(***************************************************************************)
EXTENDS Naturals

CONSTANTS Topics, Messages, IncomingCap, MsgChanCap
CONSTANTS Remote, Conns, PeerOf, Early, Bootstrap, Finders, PeerChanCap, EventChanCap

VARIABLES
    path,     \* where main stands as P2PHost sees it
    links,    \* where main stands as Peers sees it
    pathCrash, linksCrash,   \* what killed the process, if anything, in either part
    sub, reader, incoming, pump, msgChan, ended, arrived, handled,
    boot, conn, told, table, found, finder, dialling, queued, events, consumer

Path == INSTANCE P2PHost WITH main <- path, crash <- pathCrash
Links == INSTANCE Peers WITH main <- links, crash <- linksCrash

pathVars == <<path, pathCrash, sub, reader, incoming, pump, msgChan, ended, arrived, handled>>
linksVars == <<links, linksCrash, boot, conn, told, table, found, finder, dialling,
               queued, events, consumer>>
vars == <<pathVars, linksVars>>

Init == Path!Init /\ Links!Init

\* One process: a panic in either part ends both.
Alive == pathCrash = "none" /\ linksCrash = "none"

\* The message path runs from P2PHost.Start on.
MessageStep ==
    /\ ~Links!Starting
    /\ \/ Path!Next /\ path' = path
       \/ Path!RegisterHandlers
    /\ UNCHANGED linksVars

LinkStep ==
    /\ \/ Links!Next /\ links' = links
       \/ Links!Start
    /\ UNCHANGED pathVars

Shutdown == Path!Shutdown /\ Links!Shutdown

\* Discovery.Stop, PubSubManager.Stop, NodeManager.Stop, close(msgChan), host.Close.
Stop ==
    \/ /\ \/ links = "cancelled"
          \/ links = "undiscovered" /\ path = "unsubscribed"
          \/ links = "unmanaged" /\ path = "closed"
       /\ Links!Stop
       /\ UNCHANGED pathVars
    \/ /\ \/ path = "cancelled" /\ links = "undiscovered"
          \/ path = "unsubscribed" /\ links = "unmanaged"
       /\ Path!Stop
       /\ UNCHANGED linksVars

Next == Alive /\ (MessageStep \/ LinkStep \/ Shutdown \/ Stop)

Spec == Init /\ [][Next]_vars

-----------------------------------------------------------------------------
(* Properties.                                                             *)

\* host.go:229 "stops the P2P service": stopping does not kill the process, whose
\* deferred calls have yet to close the database.
StopDoesNotPanic == Links!CtxDone => Alive

\* main goes through both parts in the order of host.go:191-250: the message path begins when
\* the connections have been set up, and the channels are closed in turn.
StagesAgree ==
    /\ path = "p2p" => links \in {"create", "start", "serving"}
    /\ path \in {"manager", "serving"} => links = "serving"
    /\ path = "cancelled" => links \in {"cancelled", "undiscovered"}
    /\ path = "unsubscribed" => links \in {"undiscovered", "unmanaged"}
    /\ path = "closed" => links \in {"unmanaged", "closed"}

\* Whatever kills the process has its time: the map while handlers are being registered,
\* a channel once Stop has closed it, and with it those that Stop closes before.
DeathHasCause ==
    /\ pathCrash = "map" => path \in {"p2p", "manager"}
    /\ linksCrash = "peerChan" => ~Links!PeerChanOpen
    /\ pathCrash = "incomingChan" => ~Path!IncomingOpen /\ ~Links!PeerChanOpen
    /\ linksCrash = "eventChan" => ~Links!EventChanOpen /\ ~Path!IncomingOpen
    /\ pathCrash = "msgChan" => ~Path!MsgChanOpen /\ ~Links!EventChanOpen

\* A node that has registered its handlers and has not been told to stop is not
\* killed, neither by its messages nor by its connections.
ServingNodeLives == path = "serving" => Alive
=============================================================================
