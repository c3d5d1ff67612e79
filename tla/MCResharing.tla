---------------------------- MODULE MCResharing ----------------------------
(* Three requests of one wallet, whose holders are a and b: b hands the place of *)
(* a to the new node c; a and b refresh the shares they have.                    *)
EXTENDS Resharing, TLC

Request(node, new) ==
    [node |-> node, old |-> {"a", "b"}, new |-> new, oldThreshold |-> 2,
     newThreshold |-> 2, oldCount |-> 2, newCount |-> 2]

MCReq == [c \in Calls |->
            CASE c = "change" -> Request("b", {"b", "c"})
              [] c = "first"  -> Request("a", {"a", "b"})
              [] c = "second" -> Request("b", {"a", "b"})]
=============================================================================
