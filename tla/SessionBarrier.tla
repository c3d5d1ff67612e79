---------------------------- MODULE SessionBarrier ----------------------------
(***************************************************************************)
(* What the coordinator promises about a session, without messages, timers *)
(* or callers: a node prepares its part of the session, and nobody begins  *)
(* the TSS rounds before every party has prepared ("broadcast by the       *)
(* initiator once all nodes are ready", coordinator.go:65).  A part that   *)
(* has begun ends once, as completed or failed, and stays so; only the     *)
(* death of its process takes it away.                                     *)
(***************************************************************************)
CONSTANTS Nodes, Requests   \* a request names the parties of its session

VARIABLE phase              \* phase[n][r]: how far node n is with session r

Phases == {"none", "pending", "running", "completed", "failed", "killed"}

PhaseOK == phase \in [Nodes -> [Requests -> Phases]]

Init == phase = [n \in Nodes |-> [r \in Requests |-> "none"]]

MovesTo(n, r, p) == phase' = [phase EXCEPT ![n][r] = p]

\* A process that died and came back may be asked to prepare again.
Prepare(n, r) ==
    /\ n \in r.parties
    /\ phase[n][r] \in {"none", "killed"}
    /\ MovesTo(n, r, "pending")

Begin(n, r) ==
    /\ phase[n][r] = "pending"
    /\ \A p \in r.parties : phase[p][r] # "none"
    /\ MovesTo(n, r, "running")

Complete(n, r) == phase[n][r] = "running" /\ MovesTo(n, r, "completed")

Fail(n, r) == phase[n][r] \in {"pending", "running"} /\ MovesTo(n, r, "failed")

Die(n) ==
    phase' = [phase EXCEPT ![n] = [r \in Requests |-> IF @[r] = "none" THEN "none" ELSE "killed"]]

Next ==
    \/ \E n \in Nodes, r \in Requests :
          Prepare(n, r) \/ Begin(n, r) \/ Complete(n, r) \/ Fail(n, r)
    \/ \E n \in Nodes : Die(n)

Spec == Init /\ [][Next]_phase
=============================================================================
