------------------------------- MODULE Peers -------------------------------
(***************************************************************************)
(* The connections of one node and what the node knows of them: discovery  *)
(* (mDNS callbacks and the DHT loop) dials the peers it finds, libp2p tells *)
(* two subscribers of every connection that opens or closes, P2PHost keeps *)
(* a table of connected peers from that, NodeManager a channel of events.  *)
(* Stopping the node closes both channels while all this goes on.          *)
(*                                                                         *)
(* Source: src/internal/p2p/discovery.go, node.go and the connection part  *)
(* of host.go.  The registry of NodeManager (RegisterNode, announcements,  *)
(* heartbeats) has no caller: its table is empty.                          *)
(***************************************************************************)
EXTENDS Naturals

CONSTANTS
    Remote,       \* the other peers
    Conns,        \* the connections that may come to be
    PeerOf,       \* PeerOf[c]: the peer at the other end of connection c
    Early,        \* connections that may come before the callbacks are registered
    Bootstrap,    \* the configured bootstrap peers
    Finders,      \* the goroutines that find peers: "dht" and the mDNS callbacks
    PeerChanCap,  \* capacity of peerChan (100 in discovery.go)
    EventChanCap  \* capacity of eventChan (100 in node.go)

ASSUME ConnsAssumption == PeerOf \in [Conns -> Remote] /\ Early \subseteq Conns
ASSUME BootstrapAssumption == Bootstrap \subseteq Remote
ASSUME CapAssumption == PeerChanCap \in Nat /\ EventChanCap \in Nat
ASSUME FindersAssumption == Remote \cap {"idle", "ended"} = {}

VARIABLES
    main,      \* the stage of the main goroutine, see Stages
    boot,      \* bootstrap peers that the present stage has yet to dial
    conn,      \* conn[c]: connection c
    told,      \* told[s][c]: what the callbacks of subscriber s were told of c
    table,     \* P2PHost.peers
    found,     \* Discovery.foundPeers
    finder,    \* finder[f]: the new peer that f has entered and is about to dial and announce
    dialling,  \* peers that a goroutine of addPeer is connecting to
    queued,    \* how many peers lie in peerChan
    events,    \* how many events lie in eventChan, which nobody reads
    consumer,  \* the goroutine of handleDiscoveredPeers is at work
    crash      \* the closed channel on which a send has killed the process

netVars == <<conn, told, table, events>>
findVars == <<found, finder, dialling, queued>>
vars == <<main, boot, netVars, findVars, consumer, crash>>

\* NewDiscovery dials the bootstrap peers, P2PHost.Start does so again; the context
\* is cancelled; peerChan, then eventChan, then the libp2p host are closed.
Stages == {"create", "start", "serving", "cancelled", "undiscovered", "unmanaged", "closed"}
Subscribers == {"host", "nodes"}

TypeOK ==
    /\ main \in Stages
    /\ boot \in SUBSET Bootstrap
    /\ conn \in [Conns -> {"none", "open", "closed"}]
    /\ told \in [Subscribers -> [Conns -> {"none", "missed", "up", "down"}]]
    /\ table \in SUBSET Remote
    /\ found \in SUBSET Remote
    /\ finder \in [Finders -> {"idle", "ended"} \cup Remote]
    /\ dialling \in SUBSET Remote
    /\ queued \in 0..PeerChanCap
    /\ events \in 0..EventChanCap
    /\ consumer \in BOOLEAN
    /\ crash \in {"none", "peerChan", "eventChan"}

\* libp2p accepts connections as soon as libp2p.New returns; the callbacks are
\* registered later and are not told of those.
Init ==
    /\ main = "create" /\ boot = Bootstrap
    /\ \E early \in SUBSET Early :
          /\ conn = [c \in Conns |-> IF c \in early THEN "open" ELSE "none"]
          /\ told = [s \in Subscribers |->
                       [c \in Conns |-> IF c \in early THEN "missed" ELSE "none"]]
    /\ table = {} /\ found = {}
    /\ finder = [f \in Finders |-> "idle"]
    /\ dialling = {}
    /\ queued = 0 /\ events = 0
    /\ consumer = TRUE /\ crash = "none"

Alive == crash = "none"
Starting == main \in {"create", "start"}
CtxDone == main \in {"cancelled", "undiscovered", "unmanaged", "closed"}
PeerChanOpen == main \notin {"undiscovered", "unmanaged", "closed"}
EventChanOpen == main \notin {"unmanaged", "closed"}

-----------------------------------------------------------------------------
(* Connections.                                                            *)

Open(c) == conn[c] = "none" /\ conn' = [conn EXCEPT ![c] = "open"]

\* External: host.Connect does nothing when there is a connection already, and may
\* fail, always so when the context is done.
Connect(p) ==
    \/ UNCHANGED conn
    \/ /\ ~CtxDone
       /\ \A c \in Conns : PeerOf[c] = p => conn[c] # "open"
       /\ \E c \in Conns : PeerOf[c] = p /\ Open(c)

\* External: the other side opens a connection, or either side closes one.
Inbound(c) ==
    /\ Alive /\ main # "closed"
    /\ Open(c)
    /\ UNCHANGED <<main, boot, told, table, events, findVars, consumer, crash>>

Lost(c) ==
    /\ Alive /\ conn[c] = "open"
    /\ conn' = [conn EXCEPT ![c] = "closed"]
    /\ UNCHANGED <<main, boot, told, table, events, findVars, consumer, crash>>

\* External: libp2p tells the subscribers of one connection one after the other,
\* and of its end only when all know of its beginning.  Different connections
\* have no order.
Tell(s, c, news) ==
    /\ Alive
    /\ \/ news = "up" /\ conn[c] # "none" /\ told[s][c] = "none"
       \/ /\ news = "down" /\ conn[c] = "closed" /\ told[s][c] \in {"up", "missed"}
          /\ \A t \in Subscribers : told[t][c] # "none"
    /\ told' = [told EXCEPT ![s][c] = news]

-----------------------------------------------------------------------------
(* The callbacks of P2PHost and of NodeManager.                            *)

onPeerConnected(c) ==
    /\ Tell("host", c, "up")
    /\ table' = table \cup {PeerOf[c]}
    /\ UNCHANGED <<main, boot, conn, events, findVars, consumer, crash>>

\* Mutant: the table is left alone, as in NodeManager's callback.
onPeerDisconnectedKeeps(c) ==
    /\ Tell("host", c, "down")
    /\ UNCHANGED <<main, boot, conn, table, events, findVars, consumer, crash>>

\* The peer leaves the table whether or not it has another connection.
onPeerDisconnected(c) ==
    /\ Tell("host", c, "down")
    /\ table' = table \ {PeerOf[c]}
    /\ UNCHANGED <<main, boot, conn, events, findVars, consumer, crash>>

\* Mutant: the callback waits for room in eventChan.
sendEventWaiting(c, news) ==
    /\ Tell("nodes", c, news)
    /\ EventChanOpen /\ events < EventChanCap
    /\ events' = events + 1
    /\ UNCHANGED <<main, boot, conn, table, findVars, consumer, crash>>

\* The callbacks of NodeManager: an event that does not fit is dropped; a send on
\* the closed channel panics, full or not.
sendEvent(c, news) ==
    /\ Tell("nodes", c, news)
    /\ \/ EventChanOpen /\ events < EventChanCap /\ events' = events + 1 /\ UNCHANGED crash
       \/ EventChanOpen /\ events = EventChanCap /\ UNCHANGED <<events, crash>>
       \/ ~EventChanOpen /\ crash' = "eventChan" /\ UNCHANGED events
    /\ UNCHANGED <<main, boot, conn, table, findVars, consumer>>

Callback(c) ==
    \/ onPeerConnected(c) \/ onPeerDisconnected(c)
    \/ \E news \in {"up", "down"} : sendEvent(c, news)

-----------------------------------------------------------------------------
(* Discovery: HandlePeerFound and discoverPeers end in addPeer.            *)

\* mDNS runs from NewDiscovery on, the DHT loop from Discovery.Start.
Searching(f) == main # "create" /\ (f = "dht" => ~Starting)

\* Under the lock; one that is known already only has its addresses replaced.
addPeer(f, p) ==
    /\ Alive /\ Searching(f) /\ finder[f] = "idle" /\ p \notin found
    /\ found' = found \cup {p}
    /\ finder' = [finder EXCEPT ![f] = p]
    /\ UNCHANGED <<main, boot, netVars, dialling, queued, consumer, crash>>

\* Mutant: the announcement waits for room in peerChan.
announceWaiting(f) ==
    /\ Alive /\ finder[f] \in Remote
    /\ dialling' = dialling \cup {finder[f]}
    /\ PeerChanOpen /\ queued < PeerChanCap /\ queued' = queued + 1
    /\ finder' = [finder EXCEPT ![f] = "idle"]
    /\ UNCHANGED <<main, boot, netVars, found, consumer, crash>>

\* The rest of addPeer, without the lock: a goroutine of its own is to dial the peer, and
\* the peer is announced (one step: neither shows in the other); an announcement that does
\* not fit is dropped.
announce(f) ==
    /\ Alive /\ finder[f] \in Remote
    /\ dialling' = dialling \cup {finder[f]}
    /\ \/ /\ PeerChanOpen
          /\ \/ queued < PeerChanCap /\ queued' = queued + 1
             \/ queued = PeerChanCap /\ UNCHANGED queued
          /\ finder' = [finder EXCEPT ![f] = "idle"]
          /\ UNCHANGED crash
       \/ ~PeerChanOpen /\ crash' = "peerChan" /\ UNCHANGED <<queued, finder>>
    /\ UNCHANGED <<main, boot, netVars, found, consumer>>

\* mDNS has been closed, the DHT loop sees the context done.
FinderEnds(f) ==
    /\ Alive /\ CtxDone /\ finder[f] = "idle"
    /\ finder' = [finder EXCEPT ![f] = "ended"]
    /\ UNCHANGED <<main, boot, netVars, found, dialling, queued, consumer, crash>>

Dial(p) ==
    /\ Alive /\ p \in dialling
    /\ dialling' = dialling \ {p}
    /\ Connect(p)
    /\ UNCHANGED <<main, boot, told, table, events, found, finder, queued, consumer, crash>>

-----------------------------------------------------------------------------
(* The goroutine of P2PHost.Start, and main.                               *)

\* Mutant: the closed channel is taken for one more peer.
handleDiscoveredPeersAfterClose ==
    /\ Alive /\ ~Starting /\ consumer
    /\ \/ (queued > 0 \/ ~PeerChanOpen) /\ queued' = queued - 1 /\ UNCHANGED consumer
       \/ CtxDone /\ consumer' = FALSE /\ UNCHANGED queued
    /\ UNCHANGED <<main, boot, netVars, found, finder, dialling, crash>>

\* What it receives is only logged.
handleDiscoveredPeers ==
    /\ Alive /\ ~Starting /\ consumer
    /\ \/ queued > 0 /\ queued' = queued - 1 /\ UNCHANGED consumer
       \/ CtxDone /\ consumer' = FALSE /\ UNCHANGED queued
    /\ UNCHANGED <<main, boot, netVars, found, finder, dialling, crash>>

\* initDHT and then Start: each dials every bootstrap peer once.
ConnectToPeer(p) ==
    /\ Alive /\ Starting /\ p \in boot
    /\ boot' = boot \ {p}
    /\ Connect(p)
    /\ UNCHANGED <<main, told, table, events, findVars, consumer, crash>>

Start ==
    /\ Alive /\ Starting /\ boot = {}
    /\ \/ main = "create" /\ main' = "start" /\ boot' = Bootstrap
       \/ main = "start" /\ main' = "serving" /\ UNCHANGED boot
    /\ UNCHANGED <<netVars, findVars, consumer, crash>>

\* After the signal main cancels the context, and P2PHost.Stop goes through
\* Discovery.Stop, NodeManager.Stop and the libp2p host, which closes every
\* connection.
Shutdown ==
    /\ Alive /\ main = "serving"
    /\ main' = "cancelled"
    /\ UNCHANGED <<boot, netVars, findVars, consumer, crash>>

Stop ==
    /\ Alive
    /\ \/ main = "cancelled" /\ main' = "undiscovered" /\ UNCHANGED conn
       \/ main = "undiscovered" /\ main' = "unmanaged" /\ UNCHANGED conn
       \/ /\ main = "unmanaged" /\ main' = "closed"
          /\ conn' = [c \in Conns |-> IF conn[c] = "open" THEN "closed" ELSE conn[c]]
    /\ UNCHANGED <<boot, told, table, events, findVars, consumer, crash>>

-----------------------------------------------------------------------------

Next ==
    \/ \E c \in Conns : Inbound(c) \/ Lost(c) \/ Callback(c)
    \/ \E f \in Finders : (\E p \in Remote : addPeer(f, p)) \/ announce(f) \/ FinderEnds(f)
    \/ \E p \in Remote : Dial(p) \/ ConnectToPeer(p)
    \/ handleDiscoveredPeers \/ Start \/ Shutdown \/ Stop

Spec == Init /\ [][Next]_vars

\* Every goroutine gets the processor and libp2p calls its callbacks; no peer has
\* to be found, no connection to come or go, and no signal to be sent.
Fairness ==
    /\ \A c \in Conns : WF_vars(Callback(c))
    /\ \A f \in Finders : WF_vars(announce(f) \/ FinderEnds(f))
    /\ \A p \in Remote : WF_vars(Dial(p)) /\ WF_vars(ConnectToPeer(p))
    /\ WF_vars(handleDiscoveredPeers) /\ WF_vars(Start) /\ WF_vars(Stop)

FairSpec == Spec /\ Fairness

-----------------------------------------------------------------------------
(* Properties.                                                             *)

\* What P2PHost knows of connection c: it is open.
Known(c) == told["host"][c] = "up"

\* GetConnectedPeers (host.go:340, GET /api/v1/node/peers) lists nobody of whose
\* connections none is left: every peer in the table has one that P2PHost was
\* told of and has not been told the end of, however the callbacks are ordered.
ListedIsConnected == \A p \in table : \E c \in Conns : PeerOf[c] = p /\ Known(c)

\* It misses a peer it knows to be connected only when another connection to that
\* peer has ended before (host.go:510 deletes the peer, not the connection): with
\* one connection per peer the table is exact.
MissedOnlyAfterClose ==
    \A c \in Conns :
        Known(c) /\ PeerOf[c] \notin table =>
            \E d \in Conns \ {c} : PeerOf[d] = PeerOf[c] /\ told["host"][d] = "down"

PeerTableInv == ListedIsConnected /\ MissedOnlyAfterClose

\* No callback blocks although nobody reads eventChan: both subscribers learn of
\* the end of every connection (node.go:256, 281).
CallbacksReturn ==
    \A c \in Conns :
        conn[c] = "closed" ~> (\A s \in Subscribers : told[s][c] = "down") \/ ~Alive

\* Stopping ends the goroutines of discovery, of the peer table and of the node
\* manager, or the process dies on a closed channel; none stays blocked.
StopEndsGoroutines ==
    main = "cancelled" ~>
        \/ ~Alive
        \/ /\ ~consumer /\ dialling = {}
           /\ \A f \in Finders : finder[f] = "ended"
=============================================================================
