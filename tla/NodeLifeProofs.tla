--------------------------- MODULE NodeLifeProofs ---------------------------
(* A node runs each of its parts as the part's own specification says, so  *)
(* that what is proved of P2PHost and of Peers holds of the node; and what *)
(* can kill the process at which time.                                     *)
EXTENDS NodeLife, TLAPS

\* Every step of the node is a step of the message path or leaves it alone.
LEMMA PathStep == Next => [Path!Next]_(Path!vars)
<1> SUFFICES ASSUME Next PROVE [Path!Next]_(Path!vars)
    OBVIOUS
<1>1. CASE MessageStep
    BY <1>1 DEF MessageStep, Path!Next
<1>2. CASE LinkStep
    BY <1>2 DEF LinkStep, pathVars, Path!vars, Path!chanVars
<1>3. CASE Shutdown
    BY <1>3 DEF Shutdown, Path!Next
<1>4. CASE Stop
    BY <1>4 DEF Stop, pathVars, Path!vars, Path!chanVars, Path!Next
<1> QED
    BY <1>1, <1>2, <1>3, <1>4 DEF Next

\* Every step of the node is a step of the connections or leaves them alone.
LEMMA LinksStep == Next => [Links!Next]_(Links!vars)
<1> SUFFICES ASSUME Next PROVE [Links!Next]_(Links!vars)
    OBVIOUS
<1>1. CASE MessageStep
    BY <1>1 DEF MessageStep, linksVars, Links!vars, Links!netVars, Links!findVars
<1>2. CASE LinkStep
    BY <1>2 DEF LinkStep, Links!Next
<1>3. CASE Shutdown
    BY <1>3 DEF Shutdown, Links!Next
<1>4. CASE Stop
    BY <1>4 DEF Stop, linksVars, Links!vars, Links!netVars, Links!findVars, Links!Next
<1> QED
    BY <1>1, <1>2, <1>3, <1>4 DEF Next

\* A node moves its messages as P2PHost does (host.go:197-226, pubsub.go), whatever
\* its connections do meanwhile.
THEOREM NodeRunsMessagePath == Spec => Path!Spec
<1>1. Init => Path!Init
    BY DEF Init
<1>2. [Next]_vars => [Path!Next]_(Path!vars)
    BY PathStep DEF vars, pathVars, Path!vars, Path!chanVars
<1> QED
    BY <1>1, <1>2, PTL DEF Spec, Path!Spec

\* A node keeps its connections as Peers does (discovery.go, node.go), whatever its
\* messages do meanwhile.
THEOREM NodeRunsLinks == Spec => Links!Spec
<1>1. Init => Links!Init
    BY DEF Init
<1>2. [Next]_vars => [Links!Next]_(Links!vars)
    BY LinksStep DEF vars, linksVars, Links!vars, Links!netVars, Links!findVars
<1> QED
    BY <1>1, <1>2, PTL DEF Spec, Links!Spec

-----------------------------------------------------------------------------
(* What can kill the process.                                              *)

\* What may stand in the variables that the proof looks at.
Types ==
    /\ path \in Path!Stages /\ links \in Links!Stages
    /\ pathCrash \in Path!Causes /\ linksCrash \in {"none", "peerChan", "eventChan"}

LifeInv == Types /\ StagesAgree /\ DeathHasCause

\* The message path dies of the map while it is being filled, or of a closed channel.
LEMMA PathDies ==
    ASSUME Path!Next, path' = path
    PROVE  \/ pathCrash' = pathCrash
           \/ pathCrash' = "map" /\ path \in {"p2p", "manager"}
           \/ pathCrash' = "incomingChan" /\ ~Path!IncomingOpen
           \/ pathCrash' = "msgChan" /\ ~Path!MsgChanOpen
<1>1. ASSUME NEW m \in Messages, Path!Arrive(m) PROVE pathCrash' = pathCrash
    BY <1>1 DEF Path!Arrive
<1>2. ASSUME NEW t \in Topics, Path!readLoop(t)
      PROVE  pathCrash' = pathCrash \/ (pathCrash' = "incomingChan" /\ ~Path!IncomingOpen)
    BY <1>2 DEF Path!readLoop, Path!NextMessage, Path!Offer
<1>3. CASE Path!handlePubSubMessages
    BY <1>3 DEF Path!handlePubSubMessages, Path!Take, Path!Put
<1>4. CASE Path!handleMessages
    BY <1>4 DEF Path!handleMessages
<1>5. CASE Path!RegisterHandlers \/ Path!Shutdown \/ Path!Stop
    BY <1>5 DEF Path!RegisterHandlers, Path!Shutdown, Path!Stop, Path!MainStep
<1> QED
    BY <1>1, <1>2, <1>3, <1>4, <1>5 DEF Path!Next

\* The connections die of a closed channel only.
LEMMA LinksDie ==
    ASSUME Links!Next
    PROVE  \/ linksCrash' = linksCrash
           \/ linksCrash' = "peerChan" /\ ~Links!PeerChanOpen
           \/ linksCrash' = "eventChan" /\ ~Links!EventChanOpen
<1>1. ASSUME NEW c \in Conns, Links!Inbound(c) \/ Links!Lost(c) PROVE linksCrash' = linksCrash
    BY <1>1 DEF Links!Inbound, Links!Lost
<1>2. ASSUME NEW c \in Conns, Links!Callback(c)
      PROVE  linksCrash' = linksCrash \/ (linksCrash' = "eventChan" /\ ~Links!EventChanOpen)
    BY <1>2 DEF Links!Callback, Links!onPeerConnected, Links!onPeerDisconnected, Links!sendEvent
<1>3. ASSUME NEW f \in Finders,
             (\E p \in Remote : Links!addPeer(f, p)) \/ Links!announce(f) \/ Links!FinderEnds(f)
      PROVE  linksCrash' = linksCrash \/ (linksCrash' = "peerChan" /\ ~Links!PeerChanOpen)
    BY <1>3 DEF Links!addPeer, Links!announce, Links!FinderEnds
<1>4. ASSUME NEW p \in Remote, Links!Dial(p) \/ Links!ConnectToPeer(p)
      PROVE  linksCrash' = linksCrash
    BY <1>4 DEF Links!Dial, Links!ConnectToPeer
<1>5. CASE Links!handleDiscoveredPeers \/ Links!Start \/ Links!Shutdown \/ Links!Stop
    BY <1>5 DEF Links!handleDiscoveredPeers, Links!Start, Links!Shutdown, Links!Stop
<1> QED
    BY <1>1, <1>2, <1>3, <1>4, <1>5 DEF Links!Next

\* A step of one part alone.
LEMMA MessageStepLives ==
    ASSUME LifeInv, Alive, MessageStep PROVE LifeInv'
<1>1. /\ UNCHANGED <<links, linksCrash>> /\ ~Links!Starting
      /\ (Path!Next /\ path' = path) \/ Path!RegisterHandlers
    BY DEF MessageStep, linksVars
<1>2. CASE Path!Next /\ path' = path
    BY <1>1, <1>2, PathDies DEF LifeInv, Types, StagesAgree, DeathHasCause, Alive, Path!Stages, Path!Causes,
       Path!IncomingOpen, Path!MsgChanOpen, Links!PeerChanOpen, Links!EventChanOpen, Links!Stages
<1>3. CASE Path!RegisterHandlers
    BY <1>1, <1>3 DEF Path!RegisterHandlers, Path!MainStep, LifeInv, Types, StagesAgree, DeathHasCause,
       Alive, Path!Stages, Links!Starting
<1> QED
    BY <1>1, <1>2, <1>3

LEMMA LinkStepLives ==
    ASSUME LifeInv, Alive, LinkStep PROVE LifeInv'
<1>1. /\ UNCHANGED <<path, pathCrash>>
      /\ (Links!Next /\ links' = links) \/ Links!Start
    BY DEF LinkStep, pathVars
<1>2. CASE Links!Next /\ links' = links
    BY <1>1, <1>2, LinksDie DEF LifeInv, Types, StagesAgree, DeathHasCause, Alive, Path!Stages,
       Path!IncomingOpen, Path!MsgChanOpen, Links!PeerChanOpen, Links!EventChanOpen, Links!Stages
<1>3. CASE Links!Start
    BY <1>1, <1>3 DEF Links!Start, Links!Starting, Links!findVars, LifeInv, Types, StagesAgree, DeathHasCause,
       Alive, Path!Stages, Links!Stages
<1> QED
    BY <1>1, <1>2, <1>3

\* A stage of main, which no channel survives that an earlier one has closed.
LEMMA StagesLive ==
    ASSUME LifeInv, Alive, Shutdown \/ Stop PROVE LifeInv'
<1>1. CASE Shutdown
    BY <1>1 DEF Shutdown, Path!Shutdown, Path!MainStep, Links!Shutdown, LifeInv, Types, StagesAgree,
       DeathHasCause, Alive, Path!Stages, Links!Stages
<1>2. CASE Stop
    <2>1. /\ UNCHANGED <<pathCrash, linksCrash>>
          /\ \/ links = "cancelled" /\ links' = "undiscovered" /\ path' = path
             \/ path = "cancelled" /\ links = "undiscovered" /\ path' = "unsubscribed" /\ links' = links
             \/ path = "unsubscribed" /\ links = "undiscovered" /\ links' = "unmanaged" /\ path' = path
             \/ path = "unsubscribed" /\ links = "unmanaged" /\ path' = "closed" /\ links' = links
             \/ path = "closed" /\ links = "unmanaged" /\ links' = "closed" /\ path' = path
        BY <1>2 DEF Stop, Path!Stop, Path!MainStep, Links!Stop, pathVars, linksVars
    <2> QED
        BY <2>1 DEF LifeInv, Types, StagesAgree, DeathHasCause, Alive, Path!Stages, Links!Stages
<1> QED
    BY <1>1, <1>2

\* The two parts' stages and the causes of death, together, are inductive.
LEMMA LifeHolds == Spec => []LifeInv
<1>1. Init => LifeInv
    BY DEF Init, Path!Init, Links!Init, LifeInv, Types, StagesAgree, DeathHasCause, Path!Stages, Path!Causes,
       Links!Stages
<1>2. LifeInv /\ [Next]_vars => LifeInv'
    <2> SUFFICES ASSUME LifeInv, [Next]_vars PROVE LifeInv'
        OBVIOUS
    <2>1. CASE Next
        BY <2>1, MessageStepLives, LinkStepLives, StagesLive DEF Next
    <2>2. CASE UNCHANGED vars
        <3>1. UNCHANGED <<path, links, pathCrash, linksCrash>>
            BY <2>2 DEF vars, pathVars, linksVars
        <3> QED
            BY <3>1 DEF LifeInv, Types, StagesAgree, DeathHasCause, Path!IncomingOpen, Path!MsgChanOpen,
               Links!PeerChanOpen, Links!EventChanOpen
    <2> QED
        BY <2>1, <2>2
<1> QED
    BY <1>1, <1>2, PTL DEF Spec

\* Nothing else kills the process than the map while it is being filled and, in the
\* order in which Stop (host.go:230) closes them, the four channels.
THEOREM NodeDiesOfKnownCauses == Spec => [](StagesAgree /\ DeathHasCause)
<1>1. LifeInv => StagesAgree /\ DeathHasCause
    BY DEF LifeInv
<1> QED
    BY <1>1, LifeHolds, PTL

\* While the node serves, neither a message (pubsub.go, host.go) nor a connection
\* (node.go, discovery.go) kills it: the panics of StopDoesNotPanic are Stop's own.
THEOREM ServingNodeIsSafe == Spec => []ServingNodeLives
<1>1. LifeInv => ServingNodeLives
    BY DEF LifeInv, Types, StagesAgree, DeathHasCause, ServingNodeLives, Alive, Path!Causes,
       Path!IncomingOpen, Path!MsgChanOpen, Links!PeerChanOpen, Links!EventChanOpen
<1> QED
    BY <1>1, LifeHolds, PTL
=============================================================================
