----------------------------- MODULE Resharing -----------------------------
(***************************************************************************)
(* Resharing the key of one wallet: Manager.ReshareWallet in the goroutine *)
(* of an HTTP request, the session that StartResharing opens on its node,  *)
(* the sessions that JoinResharing would open on the others, and what      *)
(* handleSuccess writes.  There is no ready/start barrier: a session runs  *)
(* its rounds as soon as it exists.                                        *)
(*                                                                         *)
(* Source: src/internal/tss/resharing.go, ReshareWallet and                *)
(* RefreshKeyShares of src/internal/wallet/manager.go.  A session id is a  *)
(* fresh UUID, so a session is identified with the call that opened it.    *)
(***************************************************************************)
EXTENDS Naturals

CONSTANTS
    Nodes,      \* the running MPC nodes
    Calls,      \* the reshare and refresh requests made to the nodes
    Req,        \* Req[c]: the request of call c and the node it is made to
    Threshold,  \* the wallet's threshold before any resharing
    Holders,    \* the nodes that hold the wallet and a share of its key
    Rounds,     \* message rounds of the resharing protocol
    Joining,    \* whether anything calls JoinResharing (nothing in src/ does)
    Fragile,    \* the nodes whose process may die and whose writes may fail
    Faults      \* which other faults this instance admits

\* "save": SaveSession returns an error when a session is opened; "result": the result
\* holds no public key; "timeout": a deadline passes, the caller goes away or the TSS
\* party gives up.
ASSUME RoundsAssumption == Rounds \in Nat \ {0}
ASSUME FaultsAssumption == Faults \subseteq {"save", "result", "timeout"}
ASSUME HoldersAssumption == Holders \subseteq Nodes
ASSUME FragileAssumption == Fragile \subseteq Nodes
ASSUME JoiningAssumption == Joining \in BOOLEAN
ASSUME CallsAssumption ==
    /\ \A c \in Calls : c \notin {"none", "torn", "old"}
    /\ \A c \in Calls :
          /\ Req[c].node \in Nodes
          /\ Req[c].old \in SUBSET Nodes /\ Req[c].new \in SUBSET Nodes
          /\ Req[c].oldThreshold \in Nat /\ Req[c].newThreshold \in Nat
          /\ Req[c].oldCount \in Nat /\ Req[c].newCount \in Nat   \* lengths of the lists

VARIABLES
    up,       \* up[n]: the process of node n is "up", "down" or "back" after a restart
    call,     \* call[c]: where ReshareWallet stands
    status,   \* status[n][c]: ResharingSession.status
    round,    \* round[n][c]: round of the TSS party; Rounds + 1 when endChan is filled
    sent,     \* sent[n][c]: rounds whose messages the session has published
    got,      \* got[n][c]: messages in MsgChan or in the party
    saving,   \* saving[n][c]: the next write of handleSuccess or handleError
    share,    \* share[n]: the key share file of node n: of which resharing it is
    wallet,   \* wallet[n]: the wallet record of node n: which resharing's threshold and parties
    record,   \* record[n][c]: the persisted SessionState.Status
    net,      \* published messages that a receiver has not handled yet
    last,     \* history: last[n]: the resharing that last began its writes on node n
    spoiled   \* history: <<n, c>> when a write of c on n returned an error, or c began its
              \* writes while another resharing was in the middle of its own on n

partyVars == <<round, sent, got>>
history == <<last, spoiled>>
storeVars == <<share, wallet, record, history>>
vars == <<up, call, status, partyVars, saving, storeVars, net>>

RoundMsgs == Nodes \X (1..Rounds)
Statuses == {"none", "pending", "running", "completed", "failed", "killed"}
\* "lost": the process died before its writes were done.
Steps == {"idle", "share", "fill", "wallet", "record", "done", "lost"}

TypeOK ==
    /\ up \in [Nodes -> {"up", "down", "back"}]
    /\ call \in [Calls -> {"idle", "await", "ok", "error", "killed"}]
    /\ status \in [Nodes -> [Calls -> Statuses]]
    /\ round \in [Nodes -> [Calls -> 0..Rounds + 1]]
    /\ sent \in [Nodes -> [Calls -> 0..Rounds]]
    /\ got \in [Nodes -> [Calls -> SUBSET RoundMsgs]]
    /\ saving \in [Nodes -> [Calls -> Steps]]
    /\ share \in [Nodes -> {"none", "torn", "old"} \cup Calls]
    /\ wallet \in [Nodes -> {"none", "old"} \cup Calls]
    /\ record \in [Nodes -> [Calls -> {"none", "pending", "completed", "failed"}]]
    /\ net \in SUBSET [call : Calls, from : Nodes, to : Nodes, round : 1..Rounds]
    /\ last \in [Nodes -> {"old"} \cup Calls]
    /\ spoiled \in SUBSET (Nodes \X Calls)

Each(x) == [n \in Nodes |-> [c \in Calls |-> x]]
Held(x) == [n \in Nodes |-> IF n \in Holders THEN x ELSE "none"]

Init ==
    /\ up = [n \in Nodes |-> "up"]
    /\ call = [c \in Calls |-> "idle"]
    /\ status = Each("none") /\ round = Each(0) /\ sent = Each(0) /\ got = Each({})
    /\ saving = Each("idle") /\ record = Each("none")
    /\ share = Held("old") /\ wallet = Held("old")
    /\ net = {} /\ last = [n \in Nodes |-> "old"] /\ spoiled = {}

Alive(n) == up[n] # "down"

Parties(c) == Req[c].old \cup Req[c].new

-----------------------------------------------------------------------------
(* Opening a session.                                                      *)

ThresholdOf(n) == IF wallet[n] = "old" THEN Threshold ELSE Req[wallet[n]].newThreshold

\* validateResharingRequest.
Valid(c) ==
    /\ Req[c].oldThreshold >= 2 /\ Req[c].newThreshold >= 2
    /\ Req[c].oldCount >= Req[c].oldThreshold /\ Req[c].newCount >= Req[c].newThreshold

\* The node has a role, and an old member a share that can be read.
CanTakePart(n, c) ==
    /\ n \in Parties(c)
    /\ n \in Req[c].old => share[n] \notin {"none", "torn"}

CreateSession(n, c) ==
    /\ status' = [status EXCEPT ![n][c] = "pending"]
    /\ record' = [record EXCEPT ![n][c] = "pending"]

\* ReshareWallet up to the running session.
StartResharing(c) ==
    LET n == Req[c].node
        ok == wallet[n] # "none" /\ ThresholdOf(n) = Req[c].oldThreshold
                 /\ Valid(c) /\ CanTakePart(n, c)
    IN
    /\ call[c] = "idle" /\ Alive(n)
    /\ \/ ok /\ CreateSession(n, c) /\ call' = [call EXCEPT ![c] = "await"]
       \/ /\ ~ok \/ "save" \in Faults
          /\ call' = [call EXCEPT ![c] = "error"]
          /\ UNCHANGED <<status, record>>
    /\ UNCHANGED <<up, partyVars, saving, share, wallet, history, net>>

\* A node joins a session once at most.
JoinResharing(n, c) ==
    /\ Joining /\ Alive(n)
    /\ status[Req[c].node][c] # "none" /\ status[n][c] = "none"
    /\ CanTakePart(n, c)
    /\ CreateSession(n, c)
    /\ UNCHANGED <<up, call, partyVars, saving, share, wallet, history, net>>

WaitForCompletion(c) ==
    /\ call[c] = "await"
    /\ \/ status[Req[c].node][c] = "completed" /\ call' = [call EXCEPT ![c] = "ok"]
       \/ /\ status[Req[c].node][c] = "failed" \/ "timeout" \in Faults
          /\ call' = [call EXCEPT ![c] = "error"]
    /\ UNCHANGED <<up, status, partyVars, saving, storeVars, net>>

ReshareWallet(c) == StartResharing(c) \/ WaitForCompletion(c)

-----------------------------------------------------------------------------
(* The session goroutine.                                                  *)

BeginRun(n, c) ==
    /\ status[n][c] = "pending"
    /\ status' = [status EXCEPT ![n][c] = "running"]
    /\ round' = [round EXCEPT ![n][c] = 1]
    /\ UNCHANGED <<up, call, sent, got, saving, storeVars, net>>

\* Mutant: a round is published that the protocol does not have.
sendMessageBeyond(n, c) ==
    /\ status[n][c] = "running"
    /\ sent[n][c] < round[n][c]
    /\ sent' = [sent EXCEPT ![n][c] = @ + 1]
    /\ net' = net \cup {[call |-> c, from |-> n, to |-> m, round |-> sent[n][c] + 1] :
                           m \in Parties(c) \ {n}}
    /\ UNCHANGED <<up, call, status, round, got, saving, storeVars>>

sendMessage(n, c) ==
    /\ status[n][c] = "running"
    /\ sent[n][c] < round[n][c] /\ sent[n][c] < Rounds
    /\ sent' = [sent EXCEPT ![n][c] = @ + 1]
    /\ net' = net \cup {[call |-> c, from |-> n, to |-> m, round |-> sent[n][c] + 1] :
                           m \in Parties(c) \ {n}}
    /\ UNCHANGED <<up, call, status, round, got, saving, storeVars>>

\* routeToSession: a message without a session is dropped, and nobody repeats it.
routeToSession(m) ==
    /\ m \in net
    /\ net' = net \ {m}
    /\ got' = IF ~Alive(m.to) \/ status[m.to][m.call] \in {"none", "killed"} THEN got
              ELSE [got EXCEPT ![m.to][m.call] = @ \cup {<<m.from, m.round>>}]
    /\ UNCHANGED <<up, call, status, round, sent, saving, storeVars>>

\* Mutant: the party does not wait for the last round's messages.
handleMessageLastRound(n, c) ==
    /\ status[n][c] = "running" /\ round[n][c] <= Rounds
    /\ (Parties(c) \ {n}) \X {round[n][c]} \subseteq got[n][c] \/ round[n][c] = Rounds
    /\ round' = [round EXCEPT ![n][c] = @ + 1]
    /\ UNCHANGED <<up, call, status, sent, got, saving, storeVars, net>>

\* The party has the messages of its round from everybody else.
handleMessage(n, c) ==
    /\ status[n][c] = "running" /\ round[n][c] <= Rounds
    /\ (Parties(c) \ {n}) \X {round[n][c]} \subseteq got[n][c]
    /\ round' = [round EXCEPT ![n][c] = @ + 1]
    /\ UNCHANGED <<up, call, status, sent, got, saving, storeVars, net>>

Saves(n, c, step) == saving' = [saving EXCEPT ![n][c] = step]

Writing(n, c) == saving[n][c] \in {"share", "fill", "wallet"}

BeginsWrites(n, c) ==
    /\ Saves(n, c, "share")
    /\ last' = [last EXCEPT ![n] = c]
    /\ spoiled' = IF \E d \in Calls : Writing(n, d) THEN spoiled \cup {<<n, c>>} ELSE spoiled

\* Mutant: a member of both groups keeps its old share.
handleSuccessKeepsOld(n, c) ==
    /\ status[n][c] = "running" /\ round[n][c] = Rounds + 1
    /\ status' = [status EXCEPT ![n][c] = "completed"]
    /\ \/ n \in Req[c].new \ Req[c].old /\ BeginsWrites(n, c)
       \/ n \notin Req[c].new \ Req[c].old /\ Saves(n, c, "record") /\ UNCHANGED history
    /\ UNCHANGED <<up, call, partyVars, share, wallet, record, net>>

\* Only a new member saves anything but the session record.
handleSuccess(n, c) ==
    /\ status[n][c] = "running" /\ round[n][c] = Rounds + 1
    /\ status' = [status EXCEPT ![n][c] = "completed"]
    /\ \/ n \in Req[c].new /\ BeginsWrites(n, c)
       \/ n \in Req[c].new /\ "result" \in Faults /\ Saves(n, c, "done") /\ UNCHANGED history
       \/ n \notin Req[c].new /\ Saves(n, c, "record") /\ UNCHANGED history
    /\ UNCHANGED <<up, call, partyVars, share, wallet, record, net>>

\* Mutant: a session without a deadline.
handleErrorNoDeadline(n, c) ==
    /\ status[n][c] \in {"pending", "running"}
    /\ n = Req[c].node /\ call[c] \in {"ok", "error"}
    /\ status' = [status EXCEPT ![n][c] = "failed"]
    /\ Saves(n, c, "record")
    /\ UNCHANGED <<up, call, partyVars, storeVars, net>>

\* Mutant: a session that fails goes on to the writes of one that succeeds.
handleErrorSaves(n, c) ==
    /\ status[n][c] \in {"pending", "running"}
    /\ "timeout" \in Faults \/ (n = Req[c].node /\ call[c] \in {"ok", "error"})
    /\ status' = [status EXCEPT ![n][c] = "failed"]
    /\ Saves(n, c, "share")
    /\ UNCHANGED <<up, call, partyVars, storeVars, net>>

\* The deadline, or the end of the HTTP request whose context the session has.
handleError(n, c) ==
    /\ status[n][c] \in {"pending", "running"}
    /\ "timeout" \in Faults \/ (n = Req[c].node /\ call[c] \in {"ok", "error"})
    /\ status' = [status EXCEPT ![n][c] = "failed"]
    /\ Saves(n, c, "record")
    /\ UNCHANGED <<up, call, partyVars, storeVars, net>>

\* A failing write is logged, and the goroutine goes on with its step "next".
WriteFails(n, c, next) ==
    /\ n \in Fragile
    /\ spoiled' = spoiled \cup {<<n, c>>}
    /\ Saves(n, c, next)

\* SaveKeyShare overwrites the share file of the old key in place ...
OpenShare(n, c) ==
    /\ saving[n][c] = "share"
    /\ \/ share' = [share EXCEPT ![n] = "torn"] /\ Saves(n, c, "fill") /\ UNCHANGED spoiled
       \/ WriteFails(n, c, "wallet") /\ UNCHANGED share
    /\ UNCHANGED <<up, call, status, partyVars, wallet, record, last, net>>

\* Mutant: a torn share is left for the wallet record's sake.
FillShareSkipped(n, c) ==
    /\ saving[n][c] = "fill"
    /\ Saves(n, c, "wallet")
    /\ UNCHANGED <<up, call, status, partyVars, storeVars, net>>

\* ... and writes the new one.
FillShare(n, c) ==
    /\ saving[n][c] = "fill"
    /\ \/ share' = [share EXCEPT ![n] = c] /\ Saves(n, c, "wallet") /\ UNCHANGED spoiled
       \/ WriteFails(n, c, "wallet") /\ UNCHANGED share
    /\ UNCHANGED <<up, call, status, partyVars, wallet, record, last, net>>

\* Mutant: the wallet record is updated before the share is written.
SaveWalletFirst(n, c) ==
    /\ saving[n][c] = "share" /\ wallet[n] \notin {"none", c}
    /\ wallet' = [wallet EXCEPT ![n] = c]
    /\ UNCHANGED <<up, call, status, partyVars, saving, share, record, history, net>>

\* A new member that has no wallet record gets none.
SaveWallet(n, c) ==
    /\ saving[n][c] = "wallet"
    /\ \/ /\ wallet' = IF wallet[n] = "none" THEN wallet ELSE [wallet EXCEPT ![n] = c]
          /\ Saves(n, c, "record")
          /\ UNCHANGED spoiled
       \/ WriteFails(n, c, "record") /\ UNCHANGED wallet
    /\ UNCHANGED <<up, call, status, partyVars, share, record, last, net>>

UpdateSession(n, c) ==
    /\ saving[n][c] = "record"
    /\ Saves(n, c, "done")
    /\ \/ record' = [record EXCEPT ![n][c] = status[n][c]]
       \/ n \in Fragile /\ UNCHANGED record
    /\ UNCHANGED <<up, call, status, partyVars, share, wallet, history, net>>

run(n, c) ==
    /\ Alive(n)
    /\ \/ BeginRun(n, c) \/ sendMessage(n, c) \/ handleMessage(n, c) \/ handleSuccess(n, c)
       \/ handleError(n, c) \/ OpenShare(n, c) \/ FillShare(n, c) \/ SaveWallet(n, c)
       \/ UpdateSession(n, c)

\* A process dies once at most: its sessions and what they had still to write are gone,
\* what it stored stays.
Crash(n) ==
    /\ n \in Fragile /\ up[n] = "up"
    /\ up' = [up EXCEPT ![n] = "down"]
    /\ call' = [c \in Calls |-> IF Req[c].node = n /\ call[c] = "await" THEN "killed" ELSE call[c]]
    /\ status' = [status EXCEPT ![n] = [c \in Calls |->
                    IF @[c] \in {"pending", "running"} THEN "killed" ELSE @[c]]]
    /\ saving' = [saving EXCEPT ![n] = [c \in Calls |->
                    IF Writing(n, c) THEN "lost" ELSE IF @[c] = "record" THEN "done" ELSE @[c]]]
    /\ UNCHANGED <<partyVars, storeVars, net>>

Restart(n) ==
    /\ up[n] = "down"
    /\ up' = [up EXCEPT ![n] = "back"]
    /\ UNCHANGED <<call, status, partyVars, saving, storeVars, net>>

-----------------------------------------------------------------------------

Next ==
    \/ \E c \in Calls : ReshareWallet(c)
    \/ \E n \in Nodes, c \in Calls : JoinResharing(n, c) \/ run(n, c)
    \/ \E m \in net : routeToSession(m)
    \/ \E n \in Nodes : Crash(n) \/ Restart(n)

Spec == Init /\ [][Next]_vars

\* The goroutines of a live node get the processor, published messages arrive and
\* a timer that runs fires; nobody has to make a request or to join.
Fairness ==
    /\ \A c \in Calls : WF_vars(WaitForCompletion(c))
    /\ \A n \in Nodes, c \in Calls : WF_vars(run(n, c))
    /\ WF_vars(\E m \in net : routeToSession(m))

FairSpec == Spec /\ Fairness

-----------------------------------------------------------------------------
(* Properties.                                                             *)

Lost(n, c) == c \in Calls /\ saving[n][c] = "lost"

\* What handleSuccess leaves behind on a node.  Whatever befell earlier resharings of the
\* wallet there (a death between two writes, a failed write, writes that overlapped), the
\* last to come to its writes, if it has them to itself, never leaves a wallet record of
\* its own beside a share of another key; and unless its process died on the way, record
\* and share are of one resharing again when nobody writes.
WalletMatchesShare ==
    \A n \in Nodes :
        <<n, last[n]>> \notin spoiled =>
            /\ wallet[n] = last[n] => share[n] = last[n]
            /\ Lost(n, last[n]) \/ (\E c \in Calls : Writing(n, c)) \/ wallet[n] \in {"none", share[n]}

\* Node n has completed resharing c as a member of the new group.
Renewed(n, c) == status[n][c] = "completed" /\ n \in Req[c].new

\* A resharing that fails on a node, or that leaves the node out of the new group,
\* leaves its share and its wallet as they were; what replaces them is of a
\* resharing that has completed on this node.
OnlyCompletionReplaces ==
    \A n \in Nodes :
        /\ \A c \in Calls : c \in {share[n], wallet[n]} => Renewed(n, c)
        /\ (\A c \in Calls : ~Renewed(n, c)) =>
              share[n] = Held("old")[n] /\ wallet[n] = Held("old")[n]

\* Why both hold, as an inductive invariant.  A session writes only after it has
\* completed on a new member, its record only after it has ended, and a call that
\* was not made has no session.
WritersCompleted ==
    /\ \A n \in Nodes, c \in Calls :
          /\ Writing(n, c) => Renewed(n, c)
          /\ saving[n][c] = "record" => status[n][c] \in {"completed", "failed"}
    /\ \A c \in Calls : call[c] = "idle" => status[Req[c].node][c] = "none"
\* Who came last to its writes has completed; before anybody did, the node has what it
\* began with.
LastCompleted ==
    \A n \in Nodes :
        IF last[n] \in Calls THEN Renewed(n, last[n])
        ELSE (\A c \in Calls : ~Writing(n, c)) /\ share[n] = Held("old")[n] /\ wallet[n] = Held("old")[n]
\* Unless it is spoiled, the last one writes alone; it comes to the wallet record with its
\* own share on disk, and the record is not its own before.
LastAlone ==
    \A n \in Nodes : <<n, last[n]>> \notin spoiled =>
        \A c \in Calls :
            /\ Writing(n, c) => c = last[n] /\ wallet[n] # c
            /\ saving[n][c] = "wallet" => share[n] = c
WritesInv ==
    /\ WritersCompleted
    /\ LastCompleted
    /\ LastAlone
    /\ WalletMatchesShare
    /\ OnlyCompletionReplaces

\* The caller is told of success only if every other party, of the old and of the
\* new group, has published all its messages of this resharing.
SuccessIsJoint ==
    \A c \in Calls :
        call[c] = "ok" => \A p \in Parties(c) \ {Req[c].node} : sent[p][c] = Rounds

\* Why, as an inductive invariant: a round message, under way or stored, has been
\* published by its sender; a party past a round has everybody's message of it.
JointInv ==
    /\ \A m \in net : sent[m.from][m.call] >= m.round
    /\ \A n \in Nodes, c \in Calls :
          /\ \A x \in got[n][c] : sent[x[1]][c] >= x[2]
          /\ \A k \in 1..round[n][c] - 1 : (Parties(c) \ {n}) \X {k} \subseteq got[n][c]
          /\ status[n][c] = "completed" => round[n][c] = Rounds + 1
    /\ SuccessIsJoint

\* WaitForCompletion answers as soon as the status says "completed", before the new
\* share is written; the goroutine still writes it, unless the result has no key, a
\* write fails or the process dies.
SuccessGetsStored ==
    \A c \in Calls :
        LET n == Req[c].node IN
        call[c] = "ok" /\ n \in Req[c].new ~>
            share[n] = c \/ <<n, c>> \in spoiled \/ Lost(n, c) \/ (saving[n][c] = "done" /\ record[n][c] = "pending")

\* Every session ends, whoever joins or not, unless its process dies.
SessionsSettle ==
    \A n \in Nodes, c \in Calls :
        status[n][c] = "pending" ~> status[n][c] \in {"completed", "failed", "killed"}

\* README.md "reshare the key (change parties or threshold)": without any fault a
\* resharing that has started comes to its end.
ReshareCompletes ==
    \A c \in Calls : call[c] = "await" ~> status[Req[c].node][c] = "completed"
=============================================================================
