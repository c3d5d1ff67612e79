---------------------------- MODULE PeersProofs ----------------------------
(* Theorems about Peers, for any peers, connections, finders and capacities *)
(* that satisfy the module's assumptions.                                   *)
EXTENDS Peers, TLAPS

USE DEF netVars, findVars

-----------------------------------------------------------------------------
(* Types.                                                                  *)

\* An entry of a table of two levels is replaced by a value of its type.
LEMMA EntryReplaced ==
    ASSUME NEW S, NEW T, NEW V, NEW f \in [S -> [T -> V]], NEW s \in S, NEW t \in T, NEW v \in V
    PROVE  [f EXCEPT ![s][t] = v] \in [S -> [T -> V]]
OBVIOUS

LEMMA TellTypes ==
    ASSUME TypeOK, NEW s \in Subscribers, NEW c \in Conns, NEW news \in {"up", "down"},
           Tell(s, c, news)
    PROVE  told' \in [Subscribers -> [Conns -> {"none", "missed", "up", "down"}]]
<1> DEFINE V == {"none", "missed", "up", "down"}
<1>1. told \in [Subscribers -> [Conns -> V]] /\ news \in V
    BY DEF TypeOK
<1>2. [told EXCEPT ![s][c] = news] \in [Subscribers -> [Conns -> V]]
    <2> HIDE DEF V
    <2> QED BY <1>1, EntryReplaced
<1> QED
    BY <1>2 DEF Tell

LEMMA ConnectTypes ==
    ASSUME TypeOK, NEW p \in Remote, Connect(p)
    PROVE  conn' \in [Conns -> {"none", "open", "closed"}]
BY DEF TypeOK, Connect, Open

\* Every reachable state is well typed: no channel exceeds its capacity, and the
\* counter of peerChan never falls below zero.
THEOREM PeersTypeCorrect == Spec => []TypeOK
<1>1. Init => TypeOK
    <2> SUFFICES ASSUME Init PROVE TypeOK
        OBVIOUS
    <2>1. PICK early \in SUBSET Early :
              /\ conn = [c \in Conns |-> IF c \in early THEN "open" ELSE "none"]
              /\ told = [s \in Subscribers |->
                           [c \in Conns |-> IF c \in early THEN "missed" ELSE "none"]]
        BY DEF Init
    <2>2. conn \in [Conns -> {"none", "open", "closed"}]
        BY <2>1
    <2>3. told \in [Subscribers -> [Conns -> {"none", "missed", "up", "down"}]]
        BY <2>1
    <2> QED
        BY <2>2, <2>3, CapAssumption DEF Init, TypeOK, Stages
<1>2. TypeOK /\ [Next]_vars => TypeOK'
    <2> SUFFICES ASSUME TypeOK, [Next]_vars PROVE TypeOK'
        OBVIOUS
    <2>1. ASSUME NEW c \in Conns, Inbound(c) PROVE TypeOK'
        BY <2>1 DEF TypeOK, Inbound, Open
    <2>2. ASSUME NEW c \in Conns, Lost(c) PROVE TypeOK'
        BY <2>2 DEF TypeOK, Lost
    <2>3. ASSUME NEW c \in Conns, onPeerConnected(c) PROVE TypeOK'
        <3>1. Tell("host", c, "up")
            BY <2>3 DEF onPeerConnected
        <3>2. told' \in [Subscribers -> [Conns -> {"none", "missed", "up", "down"}]]
            BY <3>1, TellTypes DEF Subscribers
        <3> QED
            BY <2>3, <3>2, ConnsAssumption DEF TypeOK, onPeerConnected
    <2>4. ASSUME NEW c \in Conns, onPeerDisconnected(c) PROVE TypeOK'
        <3>1. Tell("host", c, "down")
            BY <2>4 DEF onPeerDisconnected
        <3>2. told' \in [Subscribers -> [Conns -> {"none", "missed", "up", "down"}]]
            BY <3>1, TellTypes DEF Subscribers
        <3> QED
            BY <2>4, <3>2 DEF TypeOK, onPeerDisconnected
    <2>5. ASSUME NEW c \in Conns, NEW news \in {"up", "down"}, sendEvent(c, news) PROVE TypeOK'
        <3>1. Tell("nodes", c, news)
            BY <2>5 DEF sendEvent
        <3>2. told' \in [Subscribers -> [Conns -> {"none", "missed", "up", "down"}]]
            BY <3>1, TellTypes DEF Subscribers
        <3>3. events' \in 0..EventChanCap
            BY <2>5, CapAssumption DEF TypeOK, sendEvent
        <3> QED
            BY <2>5, <3>2, <3>3 DEF TypeOK, sendEvent
    <2>6. ASSUME NEW f \in Finders, NEW p \in Remote, addPeer(f, p) PROVE TypeOK'
        BY <2>6 DEF TypeOK, addPeer
    <2>7. ASSUME NEW f \in Finders, announce(f) PROVE TypeOK'
        BY <2>7, CapAssumption DEF TypeOK, announce
    <2>8. ASSUME NEW f \in Finders, FinderEnds(f) PROVE TypeOK'
        BY <2>8 DEF TypeOK, FinderEnds
    <2>9. ASSUME NEW p \in Remote, Dial(p) PROVE TypeOK'
        <3>1. conn' \in [Conns -> {"none", "open", "closed"}]
            BY <2>9, ConnectTypes DEF Dial
        <3> QED
            BY <2>9, <3>1 DEF TypeOK, Dial
    <2>10. ASSUME NEW p \in Remote, ConnectToPeer(p) PROVE TypeOK'
        <3>1. conn' \in [Conns -> {"none", "open", "closed"}]
            BY <2>10, ConnectTypes DEF ConnectToPeer
        <3> QED
            BY <2>10, <3>1 DEF TypeOK, ConnectToPeer
    <2>11. CASE handleDiscoveredPeers
        <3>0. /\ queued \in 0..PeerChanCap
              /\ (queued' = queued) \/ (queued > 0 /\ queued' = queued - 1)
            <4>1. CASE queued > 0 /\ queued' = queued - 1
                BY <4>1 DEF TypeOK
            <4>2. CASE UNCHANGED queued
                BY <4>2 DEF TypeOK
            <4> QED
                BY <2>11, <4>1, <4>2 DEF handleDiscoveredPeers
        <3>1. queued' \in 0..PeerChanCap
            BY <3>0, CapAssumption
        <3>2. consumer' \in BOOLEAN
            BY <2>11 DEF TypeOK, handleDiscoveredPeers
        <3> QED
            BY <2>11, <3>1, <3>2 DEF TypeOK, handleDiscoveredPeers
    <2>12. CASE Start
        BY <2>12 DEF TypeOK, Start, Stages
    <2>13. CASE Shutdown
        BY <2>13 DEF TypeOK, Shutdown, Stages
    <2>14. CASE Stop
        BY <2>14 DEF TypeOK, Stop, Stages
    <2>15. CASE UNCHANGED vars
        BY <2>15 DEF TypeOK, vars
    <2> QED
        BY <2>1, <2>2, <2>3, <2>4, <2>5, <2>6, <2>7, <2>8, <2>9, <2>10, <2>11, <2>12, <2>13,
           <2>14, <2>15, <2>7 DEF Next, Callback
<1> QED
    BY <1>1, <1>2, PTL DEF Spec

-----------------------------------------------------------------------------
(* The table of peers.                                                     *)

\* What is told to NodeManager is nothing to P2PHost.
LEMMA OtherSubscriber ==
    ASSUME TypeOK, NEW c \in Conns, NEW news \in {"up", "down"}, Tell("nodes", c, news)
    PROVE  told'["host"] = told["host"]
BY DEF TypeOK, Tell, Subscribers

\* What P2PHost is told of one connection changes nothing about the others.
LEMMA HostTold ==
    ASSUME TypeOK, NEW c \in Conns, NEW news \in {"up", "down"}, Tell("host", c, news)
    PROVE  /\ told'["host"][c] = news
           /\ \A d \in Conns \ {c} : told'["host"][d] = told["host"][d]
BY DEF TypeOK, Tell, Subscribers

\* A step that changes neither the table nor what P2PHost was told is harmless.
LEMMA TableUntouched ==
    ASSUME PeerTableInv, UNCHANGED table, told'["host"] = told["host"]
    PROVE  PeerTableInv'
BY DEF PeerTableInv, ListedIsConnected, MissedOnlyAfterClose, Known

LEMMA ConnectedKeepsTable ==
    ASSUME TypeOK, PeerTableInv, NEW c \in Conns, onPeerConnected(c)
    PROVE  PeerTableInv'
<1>1. Tell("host", c, "up") /\ table' = table \cup {PeerOf[c]}
    BY DEF onPeerConnected
<1>2. /\ told'["host"][c] = "up" /\ told["host"][c] = "none"
      /\ \A d \in Conns \ {c} : told'["host"][d] = told["host"][d]
    BY <1>1, HostTold DEF Tell
<1>3. ListedIsConnected'
    BY <1>1, <1>2 DEF PeerTableInv, ListedIsConnected, Known
<1>4. MissedOnlyAfterClose'
    BY <1>1, <1>2 DEF PeerTableInv, MissedOnlyAfterClose, Known
<1> QED
    BY <1>3, <1>4 DEF PeerTableInv

LEMMA DisconnectedKeepsTable ==
    ASSUME TypeOK, PeerTableInv, NEW c \in Conns, onPeerDisconnected(c)
    PROVE  PeerTableInv'
<1>1. Tell("host", c, "down") /\ table' = table \ {PeerOf[c]}
    BY DEF onPeerDisconnected
<1>2. /\ told'["host"][c] = "down" /\ told["host"][c] \in {"up", "missed"}
      /\ \A d \in Conns \ {c} : told'["host"][d] = told["host"][d]
    BY <1>1, HostTold DEF Tell
<1>3. ListedIsConnected'
    BY <1>1, <1>2 DEF PeerTableInv, ListedIsConnected, Known
<1>4. ASSUME NEW d \in Conns, Known(d)', PeerOf[d] \notin table'
      PROVE  \E e \in Conns \ {d} : PeerOf[e] = PeerOf[d] /\ told'["host"][e] = "down"
    <2>1. d # c /\ Known(d)
        BY <1>2, <1>4 DEF Known
    <2>2. CASE PeerOf[d] = PeerOf[c]
        BY <1>2, <2>1, <2>2
    <2>3. CASE PeerOf[d] # PeerOf[c]
        <3>1. PICK e \in Conns \ {d} : PeerOf[e] = PeerOf[d] /\ told["host"][e] = "down"
            BY <1>1, <1>4, <2>1, <2>3 DEF PeerTableInv, MissedOnlyAfterClose
        <3> QED
            BY <1>2, <2>3, <3>1
    <2> QED
        BY <2>2, <2>3
<1>5. MissedOnlyAfterClose'
    BY <1>4 DEF MissedOnlyAfterClose
<1> QED
    BY <1>3, <1>5 DEF PeerTableInv

\* The table of connected peers (host.go:491-520) lists nobody who has no known
\* connection, and misses a peer only when another connection to it ended.
THEOREM PeerTableHolds == Spec => []PeerTableInv
<1>1. Init => PeerTableInv
    BY DEF Init, PeerTableInv, ListedIsConnected, MissedOnlyAfterClose, Known, Subscribers
<1>2. TypeOK /\ PeerTableInv /\ [Next]_vars => PeerTableInv'
    <2> SUFFICES ASSUME TypeOK, PeerTableInv, [Next]_vars PROVE PeerTableInv'
        OBVIOUS
    <2>1. ASSUME NEW c \in Conns, Inbound(c) \/ Lost(c) PROVE PeerTableInv'
        BY <2>1, TableUntouched DEF Inbound, Lost
    <2>2. ASSUME NEW c \in Conns, Callback(c) PROVE PeerTableInv'
        <3>1. ASSUME NEW news \in {"up", "down"}, sendEvent(c, news) PROVE PeerTableInv'
            BY <3>1, OtherSubscriber, TableUntouched DEF sendEvent
        <3> QED
            BY <2>2, <3>1, ConnectedKeepsTable, DisconnectedKeepsTable DEF Callback
    <2>3. ASSUME NEW f \in Finders, (\E p \in Remote : addPeer(f, p)) \/ announce(f) \/ FinderEnds(f)
          PROVE PeerTableInv'
        BY <2>3, TableUntouched DEF addPeer, announce, FinderEnds
    <2>4. ASSUME NEW p \in Remote, Dial(p) \/ ConnectToPeer(p) PROVE PeerTableInv'
        BY <2>4, TableUntouched DEF Dial, ConnectToPeer
    <2>5. CASE handleDiscoveredPeers \/ Start \/ Shutdown \/ Stop
        BY <2>5, TableUntouched DEF handleDiscoveredPeers, Start, Shutdown, Stop
    <2>6. CASE UNCHANGED vars
        BY <2>6, TableUntouched DEF vars
    <2> QED
        BY <2>1, <2>2, <2>3, <2>4, <2>5, <2>6 DEF Next
<1> QED
    BY <1>1, <1>2, PeersTypeCorrect, PTL DEF Spec

=============================================================================
