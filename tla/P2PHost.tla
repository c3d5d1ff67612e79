------------------------------ MODULE P2PHost ------------------------------
(***************************************************************************)
(* How a published message reaches its handler inside one node, from the   *)
(* start of the node to its stop: one readLoop per gossip topic, the       *)
(* channel incomingChan of the PubSubManager, handlePubSubMessages, the    *)
(* channel msgChan of the P2PHost and handleMessages, which looks up the   *)
(* handler and runs it.  Meanwhile main registers the handlers and, after  *)
(* a signal, stops the node by cancelling the context and closing both     *)
(* channels.                                                               *)
(*                                                                         *)
(* Source: src/internal/p2p/host.go, pubsub.go and src/cmd/node/main.go.   *)
(* Nothing in src/ opens a direct stream, so handleStream gets none.       *)
(***************************************************************************)
EXTENDS Naturals, Sequences

CONSTANTS
    Topics,        \* the subscribed topics
    Messages,      \* the messages published to this node
    IncomingCap,   \* capacity of incomingChan (1000 in pubsub.go)
    MsgChanCap     \* capacity of msgChan (1000 in host.go)

ASSUME CapAssumption == IncomingCap \in Nat \ {0} /\ MsgChanCap \in Nat \ {0}
ASSUME MessagesAssumption ==
    \A m \in Messages :
        /\ m.topic \in Topics
        /\ m.for \in {"us", "other"}          \* To is empty or this node; or it is another
        /\ m.handler \in {"manager", "coordinator", "none"}   \* who registers its type

VARIABLES
    main,      \* the stage of the main goroutine, see Stages
    sub,       \* sub[t]: the subscription's messages that readLoop has not taken
    reader,    \* reader[t]: the message readLoop of topic t holds, if any
    incoming,  \* incomingChan
    pump,      \* the message handlePubSubMessages holds, if any
    msgChan,   \* msgChan
    ended,     \* the goroutines that have returned
    crash,     \* why the process has died: a send on a closed channel, or a map in use
    arrived,   \* history: the messages that were published
    handled    \* history: the messages handed to a handler

chanVars == <<sub, reader, incoming, pump, msgChan>>
vars == <<main, chanVars, ended, crash, arrived, handled>>

\* P2PHost.Start has run; NewMessageManager and Coordinator.Start have registered
\* their handlers; the context is cancelled; PubSubManager.Stop and P2PHost.Stop
\* have closed their channels.
Stages == {"p2p", "manager", "serving", "cancelled", "unsubscribed", "closed"}
Causes == {"none", "map", "incomingChan", "msgChan"}

AtMost(n, seqs) == {s \in seqs : Len(s) <= n}

TypeOK ==
    /\ main \in Stages
    /\ sub \in [Topics -> Seq(Messages)]
    /\ reader \in [Topics -> AtMost(1, Seq(Messages))]
    /\ incoming \in AtMost(IncomingCap, Seq(Messages))
    /\ pump \in AtMost(1, Seq(Messages))
    /\ msgChan \in AtMost(MsgChanCap, Seq(Messages))
    /\ ended \in SUBSET (Topics \cup {"pump", "server"})
    /\ crash \in Causes
    /\ arrived \in SUBSET Messages
    /\ handled \in Seq(Messages)

Init ==
    /\ main = "p2p"
    /\ sub = [t \in Topics |-> <<>>]
    /\ reader = [t \in Topics |-> <<>>]
    /\ incoming = <<>> /\ pump = <<>> /\ msgChan = <<>>
    /\ ended = {} /\ crash = "none"
    /\ arrived = {} /\ handled = <<>>

CtxDone == main \in {"cancelled", "unsubscribed", "closed"}
IncomingOpen == main \notin {"unsubscribed", "closed"}
MsgChanOpen == main # "closed"

Runs(goroutine) == crash = "none" /\ goroutine \notin ended
Returns(goroutine) == ended' = ended \cup {goroutine}

\* External: gossipsub queues a message for the subscription of its topic.
Arrive(m) ==
    /\ crash = "none" /\ ~CtxDone
    /\ m \notin arrived
    /\ arrived' = arrived \cup {m}
    /\ sub' = [sub EXCEPT ![m.topic] = Append(@, m)]
    /\ UNCHANGED <<main, reader, incoming, pump, msgChan, ended, crash, handled>>

-----------------------------------------------------------------------------
(* readLoop of a topic.                                                    *)

\* Mutant: the addressee is not looked at.
NextForAnybody(t) ==
    /\ Runs(t) /\ reader[t] = <<>>
    /\ \/ /\ sub[t] # <<>>
          /\ sub' = [sub EXCEPT ![t] = Tail(@)]
          /\ reader' = [reader EXCEPT ![t] = <<Head(sub[t])>>]
          /\ UNCHANGED ended
       \/ CtxDone /\ Returns(t) /\ UNCHANGED <<sub, reader>>
    /\ UNCHANGED <<main, incoming, pump, msgChan, crash, arrived, handled>>

\* sub.Next, and the check whether the message is for this node.
NextMessage(t) ==
    /\ Runs(t) /\ reader[t] = <<>>
    /\ \/ /\ sub[t] # <<>>
          /\ sub' = [sub EXCEPT ![t] = Tail(@)]
          /\ reader' = [reader EXCEPT ![t] =
                           IF Head(sub[t]).for = "us" THEN <<Head(sub[t])>> ELSE <<>>]
          /\ UNCHANGED ended
       \/ CtxDone /\ Returns(t) /\ UNCHANGED <<sub, reader>>
    /\ UNCHANGED <<main, incoming, pump, msgChan, crash, arrived, handled>>

\* Mutant: the channel has no bound.
OfferUnbounded(t) ==
    /\ Runs(t) /\ reader[t] # <<>>
    /\ reader' = [reader EXCEPT ![t] = <<>>]
    /\ \/ IncomingOpen /\ incoming' = incoming \o reader[t] /\ UNCHANGED ended
       \/ CtxDone /\ Returns(t) /\ UNCHANGED incoming
    /\ UNCHANGED <<main, sub, pump, msgChan, crash, arrived, handled>>

\* The select: send, return when the context is done, or drop the message when
\* neither is possible.  A send on the closed channel panics.
Offer(t) ==
    /\ Runs(t) /\ reader[t] # <<>>
    /\ \/ /\ \/ /\ IncomingOpen /\ Len(incoming) < IncomingCap
                /\ incoming' = incoming \o reader[t]
                /\ UNCHANGED ended
             \/ CtxDone /\ Returns(t) /\ UNCHANGED incoming
             \/ ~CtxDone /\ Len(incoming) = IncomingCap /\ UNCHANGED <<incoming, ended>>
          /\ reader' = [reader EXCEPT ![t] = <<>>]
          /\ UNCHANGED crash
       \/ ~IncomingOpen /\ crash' = "incomingChan" /\ UNCHANGED <<incoming, ended, reader>>
    /\ UNCHANGED <<main, sub, pump, msgChan, arrived, handled>>

readLoop(t) == NextMessage(t) \/ Offer(t)

-----------------------------------------------------------------------------
(* handlePubSubMessages.  From a closed and empty incomingChan it receives *)
(* nil and goes round its loop.                                            *)

Take ==
    /\ Runs("pump") /\ pump = <<>>
    /\ \/ /\ incoming # <<>>
          /\ incoming' = Tail(incoming) /\ pump' = <<Head(incoming)>>
          /\ UNCHANGED ended
       \/ CtxDone /\ Returns("pump") /\ UNCHANGED <<incoming, pump>>
    /\ UNCHANGED <<main, sub, reader, msgChan, crash, arrived, handled>>

\* Mutant: a full msgChan drops the message, as readLoop's channel does.
PutOrDrop ==
    /\ Runs("pump") /\ pump # <<>>
    /\ pump' = <<>>
    /\ \/ /\ MsgChanOpen
          /\ msgChan' = IF Len(msgChan) < MsgChanCap THEN msgChan \o pump ELSE msgChan
          /\ UNCHANGED ended
       \/ CtxDone /\ Returns("pump") /\ UNCHANGED msgChan
    /\ UNCHANGED <<main, sub, reader, incoming, crash, arrived, handled>>

Put ==
    /\ Runs("pump") /\ pump # <<>>
    /\ \/ /\ \/ /\ MsgChanOpen /\ Len(msgChan) < MsgChanCap
                /\ msgChan' = msgChan \o pump
                /\ UNCHANGED ended
             \/ CtxDone /\ Returns("pump") /\ UNCHANGED msgChan
          /\ pump' = <<>>
          /\ UNCHANGED crash
       \/ ~MsgChanOpen /\ crash' = "msgChan" /\ UNCHANGED <<msgChan, ended, pump>>
    /\ UNCHANGED <<main, sub, reader, incoming, arrived, handled>>

handlePubSubMessages == Take \/ Put

-----------------------------------------------------------------------------
(* handleMessages, and who fills the map it looks into.                    *)

Registered(m) ==
    \/ m.handler = "manager" /\ main # "p2p"
    \/ m.handler = "coordinator" /\ main \notin {"p2p", "manager"}

\* Mutant: a nil message from the closed channel is skipped like any other.
handleMessagesForever ==
    /\ Runs("server") /\ msgChan # <<>>
    /\ msgChan' = Tail(msgChan)
    /\ handled' = IF Registered(Head(msgChan)) THEN Append(handled, Head(msgChan)) ELSE handled
    /\ UNCHANGED <<main, sub, reader, incoming, pump, ended, crash, arrived>>

\* A message without a handler is dropped.  While the handlers are still being
\* registered, the unsynchronised lookup may hit a write and kill the process.
\* The loop ends when msgChan is closed and empty.
handleMessages ==
    /\ Runs("server")
    /\ \/ /\ msgChan # <<>>
          /\ msgChan' = Tail(msgChan)
          /\ \/ /\ Registered(Head(msgChan))
                /\ handled' = Append(handled, Head(msgChan))
                /\ UNCHANGED crash
             \/ ~Registered(Head(msgChan)) /\ UNCHANGED <<handled, crash>>
             \/ main \in {"p2p", "manager"} /\ crash' = "map" /\ UNCHANGED handled
          /\ UNCHANGED ended
       \/ /\ ~MsgChanOpen /\ msgChan = <<>>
          /\ Returns("server")
          /\ UNCHANGED <<msgChan, handled, crash>>
    /\ UNCHANGED <<main, sub, reader, incoming, pump, arrived>>

\* main: NewMessageManager, Coordinator.Start, and after the signal the cancelled
\* context, PubSubManager.Stop and the rest of P2PHost.Stop.
MainStep(from, to) ==
    /\ crash = "none" /\ main = from
    /\ main' = to
    /\ UNCHANGED <<chanVars, ended, crash, arrived, handled>>

RegisterHandlers == MainStep("p2p", "manager") \/ MainStep("manager", "serving")
Shutdown == MainStep("serving", "cancelled")
Stop == MainStep("cancelled", "unsubscribed") \/ MainStep("unsubscribed", "closed")

-----------------------------------------------------------------------------

Next ==
    \/ \E m \in Messages : Arrive(m)
    \/ \E t \in Topics : readLoop(t)
    \/ handlePubSubMessages \/ handleMessages
    \/ RegisterHandlers \/ Shutdown \/ Stop

Spec == Init /\ [][Next]_vars

\* Every goroutine gets the processor; no message has to arrive and no signal to
\* be sent.
Fairness ==
    /\ \A t \in Topics : WF_vars(readLoop(t))
    /\ WF_vars(handlePubSubMessages) /\ WF_vars(handleMessages)
    /\ WF_vars(RegisterHandlers) /\ WF_vars(Stop)

FairSpec == Spec /\ Fairness

-----------------------------------------------------------------------------
(* Properties.                                                             *)

Elements(s) == {s[i] : i \in DOMAIN s}

\* The messages on their way to the handlers.
Pending ==
    {m \in Messages :
        \/ \E t \in Topics : m \in Elements(sub[t]) \cup Elements(reader[t])
        \/ m \in Elements(incoming) \cup Elements(pump) \cup Elements(msgChan)}

\* Those that readLoop has put into incomingChan.
Accepted == Elements(incoming) \cup Elements(pump) \cup Elements(msgChan)

\* A message for a registered handler is lost only in front of an incomingChan that is
\* full of others, never behind it, or when the node stops.
LostOnlyUnderBacklog ==
    [][\A m \in Pending \ Pending' :
          \/ m \in Elements(handled')
          \/ m.for = "other" \/ ~Registered(m)
          \/ m \notin Accepted /\ Len(incoming) = IncomingCap
          \/ CtxDone
          \/ crash' # "none"]_vars

\* The messages of s that are on topic t, in their order.
OfTopic(t, s) ==
    LET upTo[i \in 0..Len(s)] ==
            IF i = 0 THEN <<>>
            ELSE IF s[i].topic = t THEN Append(upTo[i - 1], s[i]) ELSE upTo[i - 1]
    IN  upTo[Len(s)]

\* The queue of a topic, from the message next to be handled to the last arrived.
Queue == [t \in Topics |-> OfTopic(t, msgChan \o pump \o incoming) \o reader[t] \o sub[t]]

Delivery == INSTANCE OrderedDelivery WITH queue <- Queue

\* The goroutines and channels together hand over messages in order, once, and
\* only those for this node.
ImplementsDelivery == Delivery!Spec

\* A message that readLoop could put into incomingChan is never dropped later on:
\* it is handled, unless the node stops.
AcceptedGetsHandled ==
    \A m \in Messages :
        (main = "serving" /\ m \in Elements(incoming) /\ m.handler # "none")
            ~> (m \in Elements(handled) \/ main # "serving")

\* Stop ends every goroutine of the message path: none stays blocked on a channel.
StopEndsGoroutines ==
    main = "cancelled" ~> (ended = Topics \cup {"pump", "server"} \/ crash # "none")
=============================================================================
