-------------------------- MODULE OrderedDelivery --------------------------
(***************************************************************************)
(* What the P2P layer of a node promises to the handlers of messages:      *)
(* every message is handled at most once, messages of one topic in the     *)
(* order in which they arrived, and only those meant for this node.  Any   *)
(* message may be lost on the way.                                         *)
(***************************************************************************)
EXTENDS Naturals, SequencesExt

CONSTANTS Topics, Messages   \* a message names its topic and whom it is "for"

VARIABLES
    arrived,   \* the messages that have reached the node
    queue,     \* queue[t]: those of topic t that are neither handled nor lost
    handled    \* the messages handed to a handler, in this order

vars == <<arrived, queue, handled>>

Init == arrived = {} /\ queue = [t \in Topics |-> <<>>] /\ handled = <<>>

Arrive(m) ==
    /\ m \notin arrived
    /\ arrived' = arrived \cup {m}
    /\ queue' = [queue EXCEPT ![m.topic] = Append(@, m)]
    /\ UNCHANGED handled

Lose(t) ==
    /\ \E i \in DOMAIN queue[t] : queue' = [queue EXCEPT ![t] = RemoveAt(@, i)]
    /\ UNCHANGED <<arrived, handled>>

Deliver(t) ==
    /\ queue[t] # <<>>
    /\ Head(queue[t]).for = "us"
    /\ handled' = Append(handled, Head(queue[t]))
    /\ queue' = [queue EXCEPT ![t] = Tail(@)]
    /\ UNCHANGED arrived

Next == (\E m \in Messages : Arrive(m)) \/ (\E t \in Topics : Lose(t) \/ Deliver(t))

Spec == Init /\ [][Next]_vars
=============================================================================
