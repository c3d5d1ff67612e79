---------------------------- MODULE MCCoordinator ----------------------------
(* Values for the constants of Coordinator.                                *)
EXTENDS Coordinator

CONSTANTS a, b, c, d

Keygen(init, members, count) ==
    [kind |-> "keygen", initiator |-> init, parties |-> members, count |-> count,
     threshold |-> 2, total |-> Cardinality(members), holders |-> {}]

Sign(init, members, having) ==
    [kind |-> "sign", initiator |-> init, parties |-> members,
     count |-> Cardinality(members), threshold |-> 2, total |-> 3, holders |-> having]

Keygen3 == {Keygen(a, {a, b, c}, 3)}
Keygen2 == {Keygen(a, {a, b}, 2)}
Sign2 == {Sign(a, {a, b}, {a, b})}

\* What a party sends: in a keygen; in one, two rounds of a smaller protocol.
KeygenSends == <<{"cast"}, {"p2p", "cast"}, {"cast"}>>
TwoKinds == <<{"p2p"}, {"cast"}>>
BothThenCast == <<{"p2p", "cast"}, {"cast"}>>
OneCast == <<{"cast"}>>
=============================================================================
