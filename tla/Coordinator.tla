----------------------------- MODULE Coordinator -----------------------------
(***************************************************************************)
(* The session protocol of the MPC node: how one node (the initiator, in   *)
(* an HTTP handler goroutine) and the other parties (in the message        *)
(* goroutine of their P2P host) prepare a keygen or signing session, pass  *)
(* the ready/start barrier, run the TSS rounds and settle the session.     *)
(*                                                                         *)
(* Source: src/internal/tss/coordinator.go, keygen.go, signing.go, the     *)
(* routing part of src/internal/p2p/message.go and the session record of   *)
(* src/internal/storage/session_repo.go.  The TSS party is the external    *)
(* tss-lib; it is modelled from how keygen.go and signing.go use it.       *)
(*                                                                         *)
(* Session ids are fresh UUIDs in every path of the program (InitiateKeygen*)
(* and the RequestID of SignMessage/SignTransaction), so a session is      *)
(* identified with the request that opened it.                             *)
(***************************************************************************)
EXTENDS Naturals, FiniteSets

CONSTANTS
    Nodes,      \* the running MPC nodes
    Requests,   \* the keygen and sign requests the wallet manager hands to the coordinator
    Rounds,     \* message rounds of the TSS protocol
    Sends,      \* Sends[k]: the kinds of messages a party sends in round k, see Kinds
    MsgCap,     \* capacity of a session's MsgChan (100 in message.go)
    Faults      \* which faults this instance admits, see FaultKinds

\* "loss": a published message does not reach one receiver; "dup": a message
\* is delivered again; "send": a publish returns an error; "save": SaveSession
\* returns an error; "result": no public key can be recovered from a keygen's
\* result; "timeout": any of the timers fires; "cancel": the HTTP
\* client goes away; "tss": party.Start returns an error; "crash": a node dies
\* and may come back.
FaultKinds == {"loss", "dup", "send", "save", "result", "timeout", "cancel", "tss", "crash"}

\* A round's messages are point to point, one to each other party, or a broadcast
\* to all of them, or both (keygen: cast, both, cast; signing: both, p2p, then cast).
Kinds == {"p2p", "cast"}

ASSUME NodesAssumption == IsFiniteSet(Nodes)
ASSUME RoundsAssumption == Rounds \in Nat \ {0}
ASSUME SendsAssumption == Sends \in [1..Rounds -> (SUBSET Kinds) \ {{}}]
ASSUME MsgCapAssumption == MsgCap \in Nat
ASSUME FaultsAssumption == Faults \subseteq FaultKinds
ASSUME RequestsAssumption ==
    \A r \in Requests :
        /\ r.kind \in {"keygen", "sign"}
        /\ r.initiator \in Nodes
        /\ r.parties \in SUBSET Nodes   \* the distinct entries of PartyIDs
        /\ r.count \in Nat              \* len(PartyIDs), repetitions included
        /\ r.threshold \in Nat          \* requested (keygen) or of the wallet (sign)
        /\ r.total \in Nat              \* TotalParts
        /\ r.holders \in SUBSET Nodes   \* nodes with the wallet and a key share

VARIABLES
    up,       \* up[n]: the process of node n is "up", "down" or "back" after a restart
    call,     \* call[r]: where the initiator's goroutine stands in InitiateKeygen/InitiateSign
    gone,     \* requests whose HTTP client went away (the request context is cancelled)
    known,    \* known[n]: sessions with an entry in Coordinator.pendingSessions
    ready,    \* ready[n][r]: the ReadyNodes of that entry
    status,   \* status[n][r]: KeygenSession.status / SigningSession.status
    startSig, \* startSig[n][r]: startChan holds a signal
    inbox,    \* inbox[n][r]: contents of MsgChan
    got,      \* got[n][r]: messages the TSS party has stored
    round,    \* round[n][r]: round of the TSS party; Rounds + 1 when endChan is filled
    sent,     \* sent[n][r]: messages of the party that left outChan
    record,   \* record[n][r]: the persisted SessionState.Status
    net       \* published messages, one per receiver that has not handled it yet

callerVars  == <<call, gone>>
pendingVars == <<known, ready>>
partyVars   == <<got, round, sent>>
sessionVars == <<status, startSig, inbox, record, partyVars>>
vars == <<up, callerVars, pendingVars, sessionVars, net>>

CallStates == {"idle", "init", "prepare", "mark", "waiting", "start", "launch",
               "await", "ok", "error", "killed"}
Statuses == {"none", "pending", "running", "completed", "failed", "killed"}
\* "stale": the goroutine's one update has failed, or was never tried; on disk the
\* session is pending.
Records == {"none", "pending", "completed", "failed", "stale"}
\* A stored or waiting message: sender, round, kind.
RoundMsgs == Nodes \X (1..Rounds) \X Kinds
\* A message in outChan: round, kind, receiver (the sender itself if it is to all).
OutMsgs == (1..Rounds) \X Kinds \X Nodes
Signals == [type : {"init", "ready", "start"}, req : Requests, from : Nodes, to : Nodes]
RoundMessages == [type : {"round"}, req : Requests, from : Nodes, to : Nodes,
                  round : 1..Rounds, kind : Kinds]
Messages == Signals \cup RoundMessages

TypeOK ==
    /\ up \in [Nodes -> {"up", "down", "back"}]
    /\ call \in [Requests -> CallStates]
    /\ gone \in SUBSET Requests
    /\ known \in [Nodes -> SUBSET Requests]
    /\ ready \in [Nodes -> [Requests -> SUBSET Nodes]]
    /\ status \in [Nodes -> [Requests -> Statuses]]
    /\ startSig \in [Nodes -> [Requests -> BOOLEAN]]
    /\ inbox \in [Nodes -> [Requests -> SUBSET RoundMsgs]]
    /\ got \in [Nodes -> [Requests -> SUBSET RoundMsgs]]
    /\ round \in [Nodes -> [Requests -> 0..Rounds + 1]]
    /\ sent \in [Nodes -> [Requests -> SUBSET OutMsgs]]
    /\ record \in [Nodes -> [Requests -> Records]]
    /\ net \in SUBSET Messages

Each(x) == [n \in Nodes |-> [r \in Requests |-> x]]

Init ==
    /\ up = [n \in Nodes |-> "up"]
    /\ call = [r \in Requests |-> "idle"]
    /\ gone = {}
    /\ known = [n \in Nodes |-> {}]
    /\ ready = Each({})
    /\ status = Each("none")
    /\ startSig = Each(FALSE)
    /\ inbox = Each({})
    /\ got = Each({})
    /\ round = Each(0)
    /\ sent = Each({})
    /\ record = Each("none")
    /\ net = {}

-----------------------------------------------------------------------------
(* What the operations share.                                              *)

Alive(n) == up[n] # "down"

\* A signal goes to the one broadcast topic, so to every other node.
Broadcast(type, r, n) ==
    {[type |-> type, req |-> r, from |-> n, to |-> m] : m \in Nodes \ {n}}

\* A round message x of n: a broadcast reaches every other node; one addressed to a
\* party goes to the same topic, and the readLoop of everybody else drops it.
Receivers(n, x) == IF x[2] = "p2p" THEN {x[3]} ELSE Nodes \ {n}
Publish(r, n, x) ==
    {[type |-> "round", req |-> r, from |-> n, to |-> m, round |-> x[1], kind |-> x[2]] :
        m \in Receivers(n, x)}

\* External: what the party of n puts into outChan in round k.
Outgoing(n, r, k) ==
    ({k} \X (Sends[k] \cap {"p2p"}) \X (r.parties \ {n}))
        \cup ({k} \X (Sends[k] \cap {"cast"}) \X {n})

\* All that it has made so far, and what of it still waits in outChan.
Made(n, r) == UNION {Outgoing(n, r, k) : k \in 1..round[n][r] \ {Rounds + 1}}
outChan(n, r) == Made(n, r) \ sent[n][r]

\* The sessions map of the keygen or signing manager holds an entry.
HasSession(n, r) == status[n][r] \in {"pending", "running", "completed", "failed"}

\* The checks of PrepareKeygen on the request and the local node.
PrepareKeygenOK(n, r) ==
    /\ r.threshold >= 2
    /\ r.total >= r.threshold
    /\ r.count = r.total
    /\ n \in r.parties

\* The checks of PrepareSigning: wallet record, signer count, membership, share.
PrepareSigningOK(n, r) ==
    /\ n \in r.holders
    /\ r.count >= r.threshold
    /\ n \in r.parties

Prepared(n, r) == IF r.kind = "keygen" THEN PrepareKeygenOK(n, r) ELSE PrepareSigningOK(n, r)

\* The session is created: its channels, its message handler, its "pending"
\* record and its goroutine.
CreateSession(n, r) ==
    /\ status' = [status EXCEPT ![n][r] = "pending"]
    /\ startSig' = [startSig EXCEPT ![n][r] = FALSE]
    /\ inbox' = [inbox EXCEPT ![n][r] = {}]
    /\ got' = [got EXCEPT ![n][r] = {}]
    /\ round' = [round EXCEPT ![n][r] = 0]
    /\ sent' = [sent EXCEPT ![n][r] = {}]
    /\ record' = [record EXCEPT ![n][r] = "pending"]

\* A new entry of pendingSessions replaces an old one.
RegisterPending(n, r) ==
    /\ known' = [known EXCEPT ![n] = @ \cup {r}]
    /\ ready' = [ready EXCEPT ![n][r] = {}]

\* session.Start(): a signal that does not fit into startChan is discarded.
Start(n, r) == startSig' = [startSig EXCEPT ![n][r] = TRUE]

CallReturns(r, outcome) == call' = [call EXCEPT ![r] = outcome]

-----------------------------------------------------------------------------
(* The initiator: Manager.CreateWallet / SignMessage / SignTransaction and *)
(* the coordinator's InitiateKeygen / InitiateSign, in the goroutine of    *)
(* the HTTP request.                                                       *)

\* The pending entry is registered before anything is published.
Register(r) ==
    /\ call[r] = "idle"
    /\ Alive(r.initiator)
    /\ call' = [call EXCEPT ![r] = "init"]
    /\ RegisterPending(r.initiator, r)
    /\ UNCHANGED <<up, gone, sessionVars, net>>

BroadcastInit(r) ==
    /\ call[r] = "init"
    /\ \/ /\ call' = [call EXCEPT ![r] = "prepare"]
          /\ net' = net \cup Broadcast("init", r, r.initiator)
       \/ /\ "send" \in Faults
          /\ CallReturns(r, "error")
          /\ UNCHANGED net
    /\ UNCHANGED <<up, gone, pendingVars, sessionVars>>

\* PrepareKeygen / PrepareSigning with the request's context.  The Init message
\* is out by now: an error here leaves the other parties prepared.
PrepareLocal(r) ==
    /\ call[r] = "prepare"
    /\ \/ /\ Prepared(r.initiator, r)
          /\ call' = [call EXCEPT ![r] = "mark"]
          /\ CreateSession(r.initiator, r)
       \/ /\ ~Prepared(r.initiator, r) \/ "save" \in Faults
          /\ CallReturns(r, "error")
          /\ UNCHANGED sessionVars
    /\ UNCHANGED <<up, gone, pendingVars, net>>

\* Mutant: the local session is started at once, as StartKeygen does.
MarkSelfReadyAndStart(r) ==
    /\ call[r] = "mark"
    /\ call' = [call EXCEPT ![r] = "waiting"]
    /\ ready' = [ready EXCEPT ![r.initiator][r] = @ \cup {r.initiator}]
    /\ Start(r.initiator, r)
    /\ UNCHANGED <<up, gone, known, status, inbox, record, partyVars, net>>

\* Mutant: the pending entry is created after the Init has gone out.
MarkSelfReadyFresh(r) ==
    /\ call[r] = "mark"
    /\ call' = [call EXCEPT ![r] = "waiting"]
    /\ ready' = [ready EXCEPT ![r.initiator][r] = {r.initiator}]
    /\ UNCHANGED <<up, gone, known, sessionVars, net>>

MarkSelfReady(r) ==
    /\ call[r] = "mark"
    /\ call' = [call EXCEPT ![r] = "waiting"]
    /\ ready' = [ready EXCEPT ![r.initiator][r] = @ \cup {r.initiator}]
    /\ UNCHANGED <<up, gone, known, sessionVars, net>>

\* Mutant: a threshold of ready parties is taken for all of them.
waitForReadyThreshold(r) ==
    /\ call[r] = "waiting"
    /\ Cardinality(ready[r.initiator][r]) >= r.threshold
    /\ call' = [call EXCEPT ![r] = "start"]
    /\ UNCHANGED <<up, gone, pendingVars, sessionVars, net>>

\* Mutant: the timeout ends the wait but not the call.
waitForReadyGoesOn(r) ==
    /\ call[r] = "waiting"
    /\ r.parties \subseteq ready[r.initiator][r] \/ "timeout" \in Faults
    /\ call' = [call EXCEPT ![r] = "start"]
    /\ UNCHANGED <<up, gone, pendingVars, sessionVars, net>>

\* Mutant: there is no timeout and no look at the context.
waitForReadyForever(r) ==
    /\ call[r] = "waiting"
    /\ r.parties \subseteq ready[r.initiator][r]
    /\ call' = [call EXCEPT ![r] = "start"]
    /\ UNCHANGED <<up, gone, pendingVars, sessionVars, net>>

\* One tick that finds every party ready, or one of the two ways to give up.
waitForReady(r) ==
    /\ call[r] = "waiting"
    /\ \/ /\ r.parties \subseteq ready[r.initiator][r]
          /\ call' = [call EXCEPT ![r] = "start"]
       \/ /\ "timeout" \in Faults \/ r \in gone
          /\ CallReturns(r, "error")
    /\ UNCHANGED <<up, gone, pendingVars, sessionVars, net>>

BroadcastStart(r) ==
    /\ call[r] = "start"
    /\ \/ /\ call' = [call EXCEPT ![r] = "launch"]
          /\ net' = net \cup Broadcast("start", r, r.initiator)
       \/ /\ "send" \in Faults
          /\ CallReturns(r, "error")
          /\ UNCHANGED net
    /\ UNCHANGED <<up, gone, pendingVars, sessionVars>>

StartLocal(r) ==
    /\ call[r] = "launch"
    /\ call' = [call EXCEPT ![r] = "await"]
    /\ Start(r.initiator, r)
    /\ UNCHANGED <<up, gone, pendingVars, status, inbox, record, partyVars, net>>

\* Mutant: at the deadline any session that has not failed counts as done.
WaitForCompletionOrDeadline(r) ==
    /\ call[r] = "await"
    /\ \/ status[r.initiator][r] = "completed" /\ CallReturns(r, "ok")
       \/ status[r.initiator][r] = "failed" /\ CallReturns(r, "error")
       \/ "timeout" \in Faults /\ CallReturns(r, "ok")
    /\ UNCHANGED <<up, gone, pendingVars, sessionVars, net>>

\* The wallet manager polls the session until it is settled or its own deadline
\* passes.
WaitForCompletion(r) ==
    /\ call[r] = "await"
    /\ \/ status[r.initiator][r] = "completed" /\ CallReturns(r, "ok")
       \/ status[r.initiator][r] = "failed" /\ CallReturns(r, "error")
       \/ "timeout" \in Faults /\ CallReturns(r, "error")
    /\ UNCHANGED <<up, gone, pendingVars, sessionVars, net>>

Pursue(r) ==
    \/ BroadcastInit(r) \/ PrepareLocal(r) \/ MarkSelfReady(r) \/ waitForReady(r)
    \/ BroadcastStart(r) \/ StartLocal(r) \/ WaitForCompletion(r)

InitiateKeygen(r) == r.kind = "keygen" /\ (Register(r) \/ Pursue(r))
InitiateSign(r) == r.kind = "sign" /\ (Register(r) \/ Pursue(r))

\* The HTTP client disconnects while its request is being served.
ClientGone(r) ==
    /\ "cancel" \in Faults
    /\ call[r] \notin {"idle", "ok", "error", "killed"}
    /\ gone' = gone \cup {r}
    /\ UNCHANGED <<up, call, pendingVars, sessionVars, net>>

-----------------------------------------------------------------------------
(* The message goroutine of a node: handlers run one at a time.            *)

\* Taking message m from the net and publishing the answer; with "dup" the
\* message may come again.
Receive(m, published) ==
    /\ m \in net
    /\ Alive(m.to)
    /\ \/ net' = (net \ {m}) \cup published
       \/ "dup" \in Faults /\ net' = net \cup published

\* A party replaces its pending entry, prepares unless the session exists, and
\* answers Ready; an error before the answer ends the handler.
PrepareAndAnswer(m) ==
    LET n == m.to  r == m.req IN
    /\ RegisterPending(n, r)
    /\ \/ /\ HasSession(n, r) \/ Prepared(n, r)
          /\ IF HasSession(n, r) THEN UNCHANGED sessionVars ELSE CreateSession(n, r)
          /\ \/ Receive(m, Broadcast("ready", r, n))
             \/ "send" \in Faults /\ Receive(m, {})
       \/ /\ ~HasSession(n, r)
          /\ ~Prepared(n, r) \/ "save" \in Faults
          /\ Receive(m, {})
          /\ UNCHANGED sessionVars

\* A node that is no party ignores the Init.
HandleInit(m) ==
    /\ m.type = "init"
    /\ IF m.to \in m.req.parties
       THEN PrepareAndAnswer(m)
       ELSE Receive(m, {}) /\ UNCHANGED <<pendingVars, sessionVars>>
    /\ UNCHANGED <<up, callerVars>>

\* A Ready for a session without a pending entry is dropped.
HandleReady(m) ==
    LET n == m.to  r == m.req IN
    /\ m.type = "ready"
    /\ Receive(m, {})
    /\ ready' = IF r \in known[n] THEN [ready EXCEPT ![n][r] = @ \cup {m.from}] ELSE ready
    /\ UNCHANGED <<up, callerVars, known, sessionVars>>

\* A Start for a session that is not in the sessions map is dropped.
HandleStart(m) ==
    LET n == m.to  r == m.req IN
    /\ m.type = "start"
    /\ Receive(m, {})
    /\ IF HasSession(n, r) THEN Start(n, r) ELSE UNCHANGED startSig
    /\ UNCHANGED <<up, callerVars, pendingVars, status, inbox, record, partyVars>>

handleKeygenInit(m) == m.req.kind = "keygen" /\ HandleInit(m)
handleSignInit(m) == m.req.kind = "sign" /\ HandleInit(m)
handleKeygenReady(m) == m.req.kind = "keygen" /\ HandleReady(m)
handleSignReady(m) == m.req.kind = "sign" /\ HandleReady(m)
handleKeygenStart(m) == m.req.kind = "keygen" /\ HandleStart(m)
handleSignStart(m) == m.req.kind = "sign" /\ HandleStart(m)

\* A round message as its receiver stores it.
Entry(m) == <<m.from, m.round, m.kind>>

\* SendToSession: a round message goes into MsgChan of its session; it is
\* dropped when there is no such session or the channel is full.
routeToSession(m) ==
    LET n == m.to  r == m.req IN
    /\ m.type = "round"
    /\ Receive(m, {})
    /\ inbox' = IF HasSession(n, r) /\ Cardinality(inbox[n][r]) < MsgCap
                THEN [inbox EXCEPT ![n][r] = @ \cup {Entry(m)}]
                ELSE inbox
    /\ UNCHANGED <<up, callerVars, pendingVars, status, startSig, record, partyVars>>

\* A published message never reaches this receiver (gossip loss, or its
\* incoming channel is full).
Lose(m) ==
    /\ "loss" \in Faults
    /\ m \in net
    /\ net' = net \ {m}
    /\ UNCHANGED <<up, callerVars, pendingVars, sessionVars>>

Handle(m) ==
    \/ handleKeygenInit(m) \/ handleSignInit(m) \/ handleKeygenReady(m) \/ handleSignReady(m)
    \/ handleKeygenStart(m) \/ handleSignStart(m) \/ routeToSession(m)
-----------------------------------------------------------------------------
(* The session goroutine, KeygenSession.run and SigningSession.run, with   *)
(* the TSS party it drives.                                                *)

\* The context of the initiator's own session is that of the HTTP request: it
\* is cancelled when the client goes away or the request has been answered.
CtxDone(n, r) == n = r.initiator /\ (r \in gone \/ call[r] \in {"ok", "error"})

\* Mutant: the start signal is taken in any state of the session.
BeginRoundsAgain(n, r) ==
    /\ HasSession(n, r)
    /\ startSig[n][r]
    /\ startSig' = [startSig EXCEPT ![n][r] = FALSE]
    /\ status' = [status EXCEPT ![n][r] = "running"]
    /\ round' = [round EXCEPT ![n][r] = 1]
    /\ UNCHANGED <<up, callerVars, pendingVars, inbox, got, sent, record, net>>

\* The start signal arrives: the party is created and started, its first
\* message is in outChan.
BeginRounds(n, r) ==
    /\ status[n][r] = "pending"
    /\ startSig[n][r]
    /\ startSig' = [startSig EXCEPT ![n][r] = FALSE]
    /\ status' = [status EXCEPT ![n][r] = "running"]
    /\ round' = [round EXCEPT ![n][r] = 1]
    /\ UNCHANGED <<up, callerVars, pendingVars, inbox, got, sent, record, net>>

\* outChan is first in, first out: by rounds, and within one the messages to single
\* parties come first.
Before(x, y) == x[1] < y[1] \/ (x[1] = y[1] /\ x[2] = "p2p" /\ y[2] = "cast")
Foremost(n, r) == {x \in outChan(n, r) : \A y \in outChan(n, r) : ~Before(y, x)}

\* Mutant: the message is published under the party's present round, not its own.
sendMessageOfRound(n, r) ==
    /\ status[n][r] = "running"
    /\ \E x \in Foremost(n, r) :
          /\ sent' = [sent EXCEPT ![n][r] = @ \cup {x}]
          /\ net' = net \cup Publish(r, n, [x EXCEPT ![1] = round[n][r]])
    /\ UNCHANGED <<up, callerVars, pendingVars, status, startSig, inbox, got, round, record>>

\* The next message of outChan is published; an error is only logged.
sendMessage(n, r) ==
    /\ status[n][r] = "running"
    /\ \E x \in Foremost(n, r) :
          /\ sent' = [sent EXCEPT ![n][r] = @ \cup {x}]
          /\ \/ net' = net \cup Publish(r, n, x)
             \/ "send" \in Faults /\ UNCHANGED net
    /\ UNCHANGED <<up, callerVars, pendingVars, status, startSig, inbox, got, round, record>>

\* Mutant: a party waits for the initiator's message only.
RoundOfInitiator(n, r, k) == ({r.initiator} \ {n}) \X {k} \X Sends[k]

\* External: every other party's messages of round k, all kinds of them.
RoundOf(n, r, k) == (r.parties \ {n}) \X {k} \X Sends[k]

\* External: party.Update stores a message and moves the party through every
\* round whose messages are all there; past the last round it fills endChan.
PartyUpdate(n, r, x) ==
    LET stored == got[n][r] \cup {x} IN
    /\ got' = [got EXCEPT ![n][r] = stored]
    /\ \E k \in round[n][r]..Rounds + 1 :
          /\ \A j \in round[n][r]..k - 1 : RoundOf(n, r, j) \subseteq stored
          /\ k <= Rounds => ~(RoundOf(n, r, k) \subseteq stored)
          /\ round' = [round EXCEPT ![n][r] = k]

handleMessage(n, r) ==
    /\ status[n][r] = "running"
    /\ \E x \in inbox[n][r] :
          /\ inbox' = [inbox EXCEPT ![n][r] = @ \ {x}]
          /\ PartyUpdate(n, r, x)
    /\ UNCHANGED <<up, callerVars, pendingVars, status, startSig, sent, record, net>>

\* Mutant: the session is reported complete in its last round.
handleSuccessEarly(n, r) ==
    /\ status[n][r] = "running"
    /\ round[n][r] >= Rounds
    /\ status' = [status EXCEPT ![n][r] = "completed"]
    /\ UNCHANGED <<up, callerVars, pendingVars, startSig, inbox, record, partyVars, net>>

\* endChan is chosen by the select; what outChan still holds stays there.
handleSuccess(n, r) ==
    /\ status[n][r] = "running"
    /\ round[n][r] = Rounds + 1
    /\ status' = [status EXCEPT ![n][r] = "completed"]
    /\ UNCHANGED <<up, callerVars, pendingVars, startSig, inbox, record, partyVars, net>>

\* Mutant: no timer runs before the start signal.
handleErrorRunning(n, r) ==
    /\ status[n][r] = "running"
    /\ "timeout" \in Faults \/ CtxDone(n, r) \/ "tss" \in Faults
    /\ status' = [status EXCEPT ![n][r] = "failed"]
    /\ UNCHANGED <<up, callerVars, pendingVars, startSig, inbox, record, partyVars, net>>

\* The session's deadline, its context or an error of party.Start ends it.
handleError(n, r) ==
    /\ \/ status[n][r] \in {"pending", "running"} /\ ("timeout" \in Faults \/ CtxDone(n, r))
       \/ status[n][r] = "running" /\ "tss" \in Faults
    /\ status' = [status EXCEPT ![n][r] = "failed"]
    /\ UNCHANGED <<up, callerVars, pendingVars, startSig, inbox, record, partyVars, net>>

\* Mutant: the record is written as soon as the party has its result.
UpdateSessionEarly(n, r) ==
    /\ record[n][r] = "pending"
    /\ \/ /\ status[n][r] \in {"completed", "failed"}
          /\ record' = [record EXCEPT ![n][r] = status[n][r]]
       \/ /\ status[n][r] = "running" /\ round[n][r] = Rounds + 1
          /\ record' = [record EXCEPT ![n][r] = "completed"]
    /\ UNCHANGED <<up, callerVars, pendingVars, status, startSig, inbox, partyVars, net>>

\* UpdateSessionStatus / UpdateSessionError: the goroutine's last step.  That it fails
\* is only logged, and nobody tries again; a keygen without a public key returns
\* before it (keygen.go:405).
UpdateSession(n, r) ==
    /\ status[n][r] \in {"completed", "failed"}
    /\ record[n][r] = "pending"
    /\ \/ record' = [record EXCEPT ![n][r] = status[n][r]]
       \/ /\ \/ "save" \in Faults
             \/ "result" \in Faults /\ r.kind = "keygen" /\ status[n][r] = "completed"
          /\ record' = [record EXCEPT ![n][r] = "stale"]
    /\ UNCHANGED <<up, callerVars, pendingVars, status, startSig, inbox, partyVars, net>>

RunSteps(n, r) ==
    \/ BeginRounds(n, r) \/ sendMessage(n, r) \/ handleMessage(n, r)
    \/ handleSuccess(n, r) \/ handleError(n, r) \/ UpdateSession(n, r)

KeygenRun(n, r) == r.kind = "keygen" /\ RunSteps(n, r)
SigningRun(n, r) == r.kind = "sign" /\ RunSteps(n, r)

-----------------------------------------------------------------------------
(* A node dies once at most: pendingSessions, the sessions maps and the    *)
(* goroutines are gone, the persisted records stay.  It may come back.     *)

Crash(n) ==
    /\ "crash" \in Faults
    /\ up[n] = "up"
    /\ up' = [up EXCEPT ![n] = "down"]
    /\ call' = [r \in Requests |->
                  IF r.initiator = n /\ call[r] \notin {"idle", "ok", "error"}
                  THEN "killed" ELSE call[r]]
    /\ known' = [known EXCEPT ![n] = {}]
    /\ ready' = [ready EXCEPT ![n] = [r \in Requests |-> {}]]
    /\ status' = [status EXCEPT ![n] =
                    [r \in Requests |-> IF @[r] = "none" THEN "none" ELSE "killed"]]
    /\ startSig' = [startSig EXCEPT ![n] = [r \in Requests |-> FALSE]]
    /\ inbox' = [inbox EXCEPT ![n] = [r \in Requests |-> {}]]
    /\ UNCHANGED <<gone, record, partyVars, net>>

Restart(n) ==
    /\ up[n] = "down"
    /\ up' = [up EXCEPT ![n] = "back"]
    /\ UNCHANGED <<callerVars, pendingVars, sessionVars, net>>

-----------------------------------------------------------------------------

Next ==
    \/ \E r \in Requests : InitiateKeygen(r) \/ InitiateSign(r) \/ ClientGone(r)
    \/ \E m \in net : Handle(m) \/ Lose(m)
    \/ \E n \in Nodes, r \in Requests : KeygenRun(n, r) \/ SigningRun(n, r)
    \/ \E n \in Nodes : Crash(n) \/ Restart(n)

Spec == Init /\ [][Next]_vars

\* The goroutines of a live node get the processor, the message goroutine of a
\* node goes through its queue, and a timer that runs fires.  A select with
\* several ready cases picks any of them, so each way to leave it is fair on
\* its own.  No request has to be made, and of the faults only a timeout has to
\* happen.
Fairness ==
    /\ \A r \in Requests : WF_vars(Pursue(r))
    /\ \A n \in Nodes : WF_vars(\E m \in net : m.to = n /\ Handle(m))
    /\ \A n \in Nodes, r \in Requests :
          /\ WF_vars(BeginRounds(n, r))
          /\ WF_vars(sendMessage(n, r))
          /\ WF_vars(handleMessage(n, r))
          /\ WF_vars(handleSuccess(n, r))
          /\ WF_vars(handleError(n, r))
          /\ WF_vars(UpdateSession(n, r))

FairSpec == Spec /\ Fairness

-----------------------------------------------------------------------------
(* Properties.                                                             *)

\* A party has prepared the session, whatever became of it since.
EverPrepared(n, r) == status[n][r] # "none"
AllPrepared(r) == \A p \in r.parties : EverPrepared(p, r)

\* The barrier: a party has begun the TSS rounds only if every party of the
\* session had prepared it, so that no round message can come too early
\* (coordinator.go:65, keygen.go:254, signing.go:267).
StartOnlyAfterAllPrepared ==
    \A n \in Nodes, r \in Requests :
        status[n][r] \in {"running", "completed"} => AllPrepared(r)

\* Why the barrier holds, as an inductive invariant: everything that stands for
\* "p is ready" was caused by p's preparation, everything that stands for "start"
\* by that of all parties, and preparation is never undone.
ReadyMeansPrepared ==
    \A n \in Nodes, r \in Requests : \A p \in ready[n][r] : EverPrepared(p, r)
\* A Ready under way was sent by a party that had prepared, a Start or a round
\* message only after all had; an Init never comes back to the initiator.
MessagesMean ==
    \A m \in net :
        /\ m.type = "ready" => EverPrepared(m.from, m.req)
        /\ m.type \in {"start", "round"} => AllPrepared(m.req)
        /\ m.type = "init" => m.to # m.req.initiator
\* The initiator prepares in its "prepare" step, not before, and leaves the wait
\* for the Start only when all parties have prepared.
CallMeans ==
    \A r \in Requests :
        /\ call[r] \in {"idle", "init", "prepare"} => ~EverPrepared(r.initiator, r)
        /\ call[r] = "mark" => EverPrepared(r.initiator, r)
        /\ call[r] \in {"start", "launch"} => AllPrepared(r)
\* A start signal lies in startChan only when all parties have prepared.
SignalMeansAllPrepared == \A n \in Nodes, r \in Requests : startSig[n][r] => AllPrepared(r)
\* Only a process that died once has lost sessions.
KilledMeansDied == \A n \in Nodes, r \in Requests : status[n][r] = "killed" => up[n] # "up"

\* The inductive invariant: all of the above, and the barrier itself.
BarrierInv ==
    /\ ReadyMeansPrepared
    /\ MessagesMean
    /\ CallMeans
    /\ SignalMeansAllPrepared
    /\ KilledMeansDied
    /\ StartOnlyAfterAllPrepared

\* While no node has died, every round message under way to a party finds that
\* party's session and its message channel (coordinator.go:418, "the session is
\* created so that the TSS messages that follow can be received").
RoundMessageFindsSession ==
    \A m \in net :
        (m.type = "round" /\ m.to \in m.req.parties /\ \A n \in Nodes : up[n] = "up")
            => HasSession(m.to, m.req)

\* What p owes to n in round k, and that it is out: published, or p has died since.
Share(p, n, k) == {<<k, kind, IF kind = "p2p" THEN n ELSE p>> : kind \in Sends[k]}
Contributed(p, r, x) == x \in sent[p][r] \/ up[p] # "up"
\* The same message where its receiver n has it: from its sender, of a round, of a kind.
Origin(n, x) == <<x[2], x[3], IF x[3] = "p2p" THEN n ELSE x[1]>>

\* Why a success is everybody's, as an inductive invariant: wherever a round message
\* lies, its sender has published it.
RoundMessagesWereSent ==
    /\ \A m \in net : m.type = "round" =>
          Contributed(m.from, m.req, Origin(m.to, Entry(m)))
    /\ \A n \in Nodes, r \in Requests : \A x \in inbox[n][r] \cup got[n][r] :
          Contributed(x[1], r, Origin(n, x))
\* A party past a round has stored all messages of it; it makes none before it runs and
\* publishes none that it has not made.
RoundsMean ==
    \A n \in Nodes, r \in Requests :
        /\ \A k \in 1..round[n][r] - 1 : RoundOf(n, r, k) \subseteq got[n][r]
        /\ sent[n][r] \subseteq Made(n, r)
        /\ status[n][r] \in {"none", "pending"} => round[n][r] = 0
        /\ status[n][r] = "completed" => round[n][r] = Rounds + 1
\* Everything all others owe to n in round k is out.
JointRound(n, r, k) ==
    \A p \in r.parties \ {n} : \A x \in Share(p, n, k) : Contributed(p, r, x)
OkMeans ==
    \A r \in Requests : call[r] = "ok" => JointRound(r.initiator, r, Rounds)

ContributionInv ==
    /\ RoundMessagesWereSent
    /\ RoundsMean
    /\ OkMeans

\* A party that completed has the contribution of every other party to every
\* round: each of them published all its messages for it (unless it died since).
CompletionNeedsEveryone ==
    \A n \in Nodes, r \in Requests :
        status[n][r] = "completed" => \A k \in 1..Rounds : JointRound(n, r, k)

\* The caller is told of success only if its own session completed and every
\* other party took part in all rounds: no HTTP success for a session that some
\* party never ran.
CallerSuccessIsJoint ==
    \A r \in Requests :
        call[r] = "ok" =>
            \A p \in r.parties \ {r.initiator} : round[p][r] >= Rounds \/ up[p] # "up"

\* How many messages one party gets from another in round k.
PerRound(k) == IF k \in 1..Rounds THEN Cardinality(Sends[k]) ELSE 0

\* MsgChan never holds more than the messages of some two successive rounds, one of each
\* kind and other party: nobody is more than a round ahead of a party that still waits.
\* Keygen and signing have three such kinds at most (signing.go:183, message.go:145).
MsgChanNeverFull ==
    \A n \in Nodes, r \in Requests : \E k \in 0..Rounds + 1 :
        Cardinality(inbox[n][r])
            <= (PerRound(k) + PerRound(k + 1)) * Cardinality(r.parties \ {n})

\* outChan never holds more than what its party sends in some two successive rounds.  The
\* goroutine that empties it also fills it, inside party.Update: were there no place left
\* (keygen.go:168 and signing.go:183 make 100), it would wait for itself for ever.
OutChanNeverFull ==
    \A n \in Nodes, r \in Requests : r.parties # {n} =>
        \E k \in 0..Rounds + 1 :
            outChan(n, r) \subseteq UNION {Outgoing(n, r, j) : j \in {k, k + 1} \cap (1..Rounds)}

\* The stored record never claims more than the session did: "completed" is on
\* disk only for a session that completed in this process or died afterwards.
RecordFollowsSession ==
    \A n \in Nodes, r \in Requests :
        record[n][r] \in {"completed", "failed"} => status[n][r] \in {record[n][r], "killed"}

\* The sessions implement the abstract barrier.
Barrier == INSTANCE SessionBarrier WITH phase <- status
ImplementsBarrier == Barrier!Spec

\* A settled session stays settled: a Start, Init or round message that comes
\* late (or twice) does not run it again while its process lives.
SettledStaysSettled ==
    [][\A n \in Nodes, r \in Requests :
          status[n][r] \in {"completed", "failed"} /\ up'[n] = up[n]
              => status'[n][r] = status[n][r]]_vars

\* Every prepared session ends, also those whose initiator gave up: parties are released
\* by their own timers.  Its record then says how, unless the one update of it failed.
PreparedSessionsSettle ==
    \A n \in Nodes, r \in Requests :
        status[n][r] = "pending" ~>
            status[n][r] \in {"completed", "failed"} /\ record[n][r] \in {status[n][r], "stale"}

\* Every HTTP call is answered.
CallsReturn ==
    \A r \in Requests : call[r] = "init" ~> call[r] \in {"ok", "error"}

\* Without faults the barrier opens and somebody finishes.
StartedCompletes ==
    \A r \in Requests :
        (call[r] = "init" /\ \A p \in r.parties : Prepared(p, r))
            ~> \E n \in r.parties : status[n][r] = "completed"

\* keygen.go:421 "all participating nodes save the wallet": once one party has
\* completed, every party does, if no fault occurs.
AllPartiesComplete ==
    \A r \in Requests :
        (\E n \in r.parties : status[n][r] = "completed")
            ~> \A n \in r.parties : status[n][r] = "completed"

=============================================================================
