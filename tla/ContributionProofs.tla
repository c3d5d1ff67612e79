------------------------- MODULE ContributionProofs -------------------------
(***************************************************************************)
(* Who contributed to a success, and how many messages a party can have    *)
(* waiting for it: proofs about the round messages of Coordinator, for any *)
(* nodes, requests, rounds and faults.                                     *)
(***************************************************************************)
EXTENDS CoordinatorProofs, FiniteSetTheorems, FunctionTheorems

USE DEF callerVars, pendingVars, partyVars, sessionVars, EverPrepared, AllPrepared,
        CallMeans, KilledMeansDied

\* A step that leaves the sessions as far as their rounds go as they are.
Quiet == UNCHANGED <<up, status, inbox, got, round, sent>>

\* A session that is new to its process.
Opens(n, r) == CreateSession(n, r) /\ status[n][r] \in {"none", "killed"} /\ UNCHANGED up

\* Nothing new is under way but Init, Ready and Start.
NoNewRounds == \A m \in net' : m.type = "round" => m \in net

\* Success is told only of a session that has completed.
OkFromCompleted ==
    \A r \in Requests :
        call'[r] = "ok" => call[r] = "ok" \/ status[r.initiator][r] = "completed"

LEMMA SignalsAreNoRounds ==
    ASSUME NEW t \in {"init", "ready", "start"}, NEW r, NEW n, NEW S,
           S \subseteq net \cup Broadcast(t, r, n), net' = S
    PROVE  NoNewRounds
BY DEF NoNewRounds, Broadcast

LEMMA CallerKinds ==
    ASSUME TypeOK, BarrierInv, NEW r \in Requests, Register(r) \/ Pursue(r) \/ ClientGone(r)
    PROVE  /\ NoNewRounds
           /\ OkFromCompleted
           /\ Quiet \/ Opens(r.initiator, r)
<1>1. OkFromCompleted
  BY DEF OkFromCompleted, TypeOK, Register, Pursue, BroadcastInit, PrepareLocal, MarkSelfReady,
         waitForReady, BroadcastStart, StartLocal, WaitForCompletion, ClientGone, CallReturns
<1>2. NoNewRounds
  <2>1. CASE UNCHANGED net
    BY <2>1 DEF NoNewRounds
  <2>2. CASE net' = net \cup Broadcast("init", r, r.initiator)
    BY <2>2, SignalsAreNoRounds
  <2>3. CASE net' = net \cup Broadcast("start", r, r.initiator)
    BY <2>3, SignalsAreNoRounds
  <2> QED
    BY <2>1, <2>2, <2>3
    DEF Register, Pursue, BroadcastInit, PrepareLocal, MarkSelfReady,
        waitForReady, BroadcastStart, StartLocal, WaitForCompletion, ClientGone
<1>3. Quiet \/ Opens(r.initiator, r)
  <2>1. CASE PrepareLocal(r) /\ CreateSession(r.initiator, r)
    <3>1. call[r] = "prepare" /\ UNCHANGED up
      BY <2>1 DEF PrepareLocal
    <3>2. status[r.initiator][r] = "none"
      BY <3>1 DEF BarrierInv
    <3> QED BY <2>1, <3>1, <3>2 DEF Opens
  <2>2. CASE UNCHANGED up /\ (UNCHANGED sessionVars \/ UNCHANGED <<status, inbox, record, partyVars>>)
    BY <2>2 DEF Quiet
  <2> QED
    BY <2>1, <2>2
    DEF Register, Pursue, BroadcastInit, PrepareLocal, MarkSelfReady,
        waitForReady, BroadcastStart, StartLocal, WaitForCompletion, ClientGone
<1> QED BY <1>1, <1>2, <1>3

LEMMA HandlerKinds ==
    ASSUME TypeOK, BarrierInv, NEW m \in net, Handle(m) \/ Lose(m)
    PROVE  \/ routeToSession(m)
           \/ NoNewRounds /\ OkFromCompleted /\ (Quiet \/ Opens(m.to, m.req))
<1>0. m.req \in Requests /\ m.from \in Nodes /\ m.to \in Nodes
  BY MessageFields DEF TypeOK
<1>1. CASE HandleInit(m)
  <2>1. OkFromCompleted
    BY <1>1 DEF HandleInit, PrepareAndAnswer, OkFromCompleted
  <2>2. NoNewRounds
    <3>1. net' \subseteq net \cup Broadcast("ready", m.req, m.to)
      BY <1>1 DEF HandleInit, PrepareAndAnswer, Receive
    <3> QED BY <3>1, SignalsAreNoRounds
  <2>3. Quiet \/ Opens(m.to, m.req)
    <3>1. CASE UNCHANGED sessionVars
      BY <1>1, <3>1 DEF HandleInit, PrepareAndAnswer, Quiet
    <3>2. CASE CreateSession(m.to, m.req) /\ ~HasSession(m.to, m.req)
      <4>1. status[m.to][m.req] \in {"none", "killed"}
        BY <1>0, <3>2 DEF TypeOK, Statuses, HasSession
      <4> QED BY <1>1, <3>2, <4>1 DEF HandleInit, PrepareAndAnswer, Opens
    <3> QED BY <1>1, <3>1, <3>2 DEF HandleInit, PrepareAndAnswer
  <2> QED BY <2>1, <2>2, <2>3
<1>2. CASE HandleReady(m) \/ HandleStart(m) \/ Lose(m)
  <2>1. Quiet /\ UNCHANGED call /\ net' \subseteq net
    BY <1>2 DEF HandleReady, HandleStart, Lose, Receive, Quiet
  <2> QED BY <2>1 DEF NoNewRounds, OkFromCompleted
<1> QED
  BY <1>1, <1>2
  DEF Handle, handleKeygenInit, handleSignInit, handleKeygenReady, handleSignReady,
      handleKeygenStart, handleSignStart

\* The steps of the protocol as far as round messages are concerned.
LEMMA StepKinds ==
    ASSUME TypeOK, BarrierInv, [Next]_vars
    PROVE  \/ NoNewRounds /\ OkFromCompleted /\ Quiet
           \/ /\ NoNewRounds /\ OkFromCompleted
              /\ \E n \in Nodes, r \in Requests : Opens(n, r)
           \/ \E m \in net : routeToSession(m)
           \/ \E n \in Nodes, r \in Requests : RunSteps(n, r)
           \/ \E n \in Nodes : Crash(n) \/ Restart(n)
<1>1. ASSUME NEW r \in Requests, InitiateKeygen(r) \/ InitiateSign(r) \/ ClientGone(r)
      PROVE  NoNewRounds /\ OkFromCompleted /\ (Quiet \/ Opens(r.initiator, r))
  BY <1>1, CallerKinds DEF InitiateKeygen, InitiateSign
<1>2. ASSUME NEW m \in net, Handle(m) \/ Lose(m)
      PROVE  \/ routeToSession(m)
             \/ NoNewRounds /\ OkFromCompleted /\ (Quiet \/ Opens(m.to, m.req))
  BY <1>2, HandlerKinds
<1>3. \A r \in Requests : r.initiator \in Nodes
  BY RequestFields
<1>4. \A m \in net : m.to \in Nodes /\ m.req \in Requests
  BY MessageFields DEF TypeOK
<1>5. CASE UNCHANGED vars
  BY <1>5 DEF vars, Quiet, NoNewRounds, OkFromCompleted
<1>6. CASE \E n \in Nodes, r \in Requests : KeygenRun(n, r) \/ SigningRun(n, r)
  BY <1>6 DEF KeygenRun, SigningRun
<1> QED BY <1>1, <1>2, <1>3, <1>4, <1>5, <1>6 DEF Next

-----------------------------------------------------------------------------
(* Messages where they are made and where they arrive.                     *)

\* What a party has made is of one of its rounds so far, and of a kind of that round.
LEMMA MadeShape ==
    ASSUME TypeOK, NEW n \in Nodes, NEW r \in Requests, NEW x \in Made(n, r)
    PROVE  /\ x \in OutMsgs /\ x = <<x[1], x[2], x[3]>>
           /\ x[1] \in 1..Rounds /\ x[1] <= round[n][r] /\ x[2] \in Sends[x[1]]
           /\ x[2] = "p2p" => x[3] \in r.parties \ {n}
           /\ x[2] # "p2p" => x[3] = n
<1>1. PICK k \in 1..round[n][r] \ {Rounds + 1} : x \in Outgoing(n, r, k)
  BY DEF Made
<1>2. /\ x = <<x[1], x[2], x[3]>> /\ x[1] = k /\ x[2] \in Sends[k]
      /\ x[2] = "p2p" => x[3] \in r.parties \ {n}
      /\ x[2] # "p2p" => x[3] = n
  <2>1. CASE x \in {k} \X (Sends[k] \cap {"p2p"}) \X (r.parties \ {n})
    BY <2>1
  <2>2. CASE x \in {k} \X (Sends[k] \cap {"cast"}) \X {n}
    BY <2>2
  <2> QED BY <1>1, <2>1, <2>2 DEF Outgoing
<1>3. x \in OutMsgs
  BY MadeType
<1>4. k \in 1..Rounds /\ k <= round[n][r]
  BY <1>1, <1>2, <1>3 DEF OutMsgs, TypeOK
<1> QED BY <1>2, <1>3, <1>4

\* Every kind of message of a round that a party has reached.
LEMMA MadeAll ==
    ASSUME TypeOK, NEW n \in Nodes, NEW r \in Requests, NEW x \in OutMsgs,
           x[1] <= round[n][r], x[2] \in Sends[x[1]],
           x[2] = "p2p" => x[3] \in r.parties \ {n},
           x[2] # "p2p" => x[3] = n
    PROVE  x \in Made(n, r)
<1>1. x = <<x[1], x[2], x[3]>> /\ x[1] \in 1..Rounds /\ x[2] \in Kinds
  BY DEF OutMsgs
<1>2. x[1] \in 1..round[n][r] \ {Rounds + 1}
  BY <1>1, RoundsAssumption DEF TypeOK
<1>3. x \in Outgoing(n, r, x[1])
  BY <1>1 DEF Outgoing, Kinds
<1> QED BY <1>2, <1>3 DEF Made

\* In a later round a party has made all that it had made, and more.
LEMMA MadeGrows ==
    ASSUME TypeOK, TypeOK', NEW n \in Nodes, NEW r \in Requests,
           round[n][r] <= round'[n][r]
    PROVE  Made(n, r) \subseteq Made(n, r)'
<1> SUFFICES ASSUME NEW x \in Made(n, r)
             PROVE  x \in Made(n, r)'
  OBVIOUS
<1>1. PICK k \in 1..round[n][r] \ {Rounds + 1} : x \in Outgoing(n, r, k)
  BY DEF Made
<1>2. round[n][r] \in Nat /\ round'[n][r] \in Nat
  BY RoundsAssumption DEF TypeOK
<1>3. k \in 1..round'[n][r] \ {Rounds + 1}
  BY <1>2
<1>4. (x \in Outgoing(n, r, k))'
  BY <1>1 DEF Outgoing
<1> QED BY <1>3, <1>4 DEF Made

LEMMA OriginType ==
    ASSUME NEW n \in Nodes, NEW x \in RoundMsgs
    PROVE  /\ Origin(n, x) \in OutMsgs
           /\ x = <<x[1], x[2], x[3]>> /\ x[1] \in Nodes /\ x[2] \in 1..Rounds /\ x[3] \in Kinds
BY DEF Origin, OutMsgs, RoundMsgs

-----------------------------------------------------------------------------
(* What a party has published stays published while its process lives.     *)

\* An opened session: its counters are reset, nothing of it was published by this
\* process.
LEMMA OpenedRows ==
    ASSUME TypeOK, NEW n \in Nodes, NEW r \in Requests, CreateSession(n, r)
    PROVE  \A p \in Nodes, q \in Requests :
              IF p = n /\ q = r
              THEN /\ status'[p][q] = "pending" /\ round'[p][q] = 0 /\ sent'[p][q] = {}
                   /\ inbox'[p][q] = {} /\ got'[p][q] = {} /\ record'[p][q] = "pending"
              ELSE /\ status'[p][q] = status[p][q] /\ round'[p][q] = round[p][q]
                   /\ sent'[p][q] = sent[p][q] /\ inbox'[p][q] = inbox[p][q]
                   /\ got'[p][q] = got[p][q] /\ record'[p][q] = record[p][q]
<1> USE DEF TypeOK, CreateSession
<1>1. \A p \in Nodes, q \in Requests :
         /\ status'[p][q] = IF p = n /\ q = r THEN "pending" ELSE status[p][q]
         /\ record'[p][q] = IF p = n /\ q = r THEN "pending" ELSE record[p][q]
  OBVIOUS
<1>2. \A p \in Nodes, q \in Requests :
         /\ round'[p][q] = IF p = n /\ q = r THEN 0 ELSE round[p][q]
         /\ sent'[p][q] = IF p = n /\ q = r THEN {} ELSE sent[p][q]
  OBVIOUS
<1>3. \A p \in Nodes, q \in Requests :
         /\ inbox'[p][q] = IF p = n /\ q = r THEN {} ELSE inbox[p][q]
         /\ got'[p][q] = IF p = n /\ q = r THEN {} ELSE got[p][q]
  OBVIOUS
<1> QED BY <1>1, <1>2, <1>3

LEMMA PublishedRow ==
    ASSUME TypeOK, NEW n \in Nodes, NEW r \in Requests, sendMessage(n, r)
    PROVE  /\ \E x \in outChan(n, r) :
                 /\ \A p \in Nodes, q \in Requests :
                       sent'[p][q] = IF p = n /\ q = r THEN sent[n][r] \cup {x} ELSE sent[p][q]
                 /\ net' \subseteq net \cup Publish(r, n, x)
           /\ UNCHANGED <<up, call, status, inbox, got, round, record>>
           /\ status[n][r] = "running"
<1>1. PICK x \in Foremost(n, r) :
         /\ sent' = [sent EXCEPT ![n][r] = sent[n][r] \cup {x}]
         /\ net' \subseteq net \cup Publish(r, n, x)
  <2>1. PICK x \in Foremost(n, r) :
           /\ sent' = [sent EXCEPT ![n][r] = @ \cup {x}]
           /\ \/ net' = net \cup Publish(r, n, x)
              \/ UNCHANGED net
    BY DEF sendMessage
  <2> QED BY <2>1 DEF TypeOK
<1>2. x \in outChan(n, r)
  BY DEF Foremost
<1>3. \A p \in Nodes, q \in Requests :
         sent'[p][q] = IF p = n /\ q = r THEN sent[n][r] \cup {x} ELSE sent[p][q]
  BY <1>1, EntryReplaced DEF TypeOK
<1>4. UNCHANGED <<up, call, status, inbox, got, round, record>> /\ status[n][r] = "running"
  BY DEF sendMessage
<1> QED BY <1>1, <1>2, <1>3, <1>4

LEMMA SentGrows ==
    ASSUME TypeOK, NEW n \in Nodes, NEW r \in Requests, sendMessage(n, r)
    PROVE  \A p \in Nodes, q \in Requests :
              /\ sent[p][q] \subseteq sent'[p][q]
              /\ ~(p = n /\ q = r) => sent'[p][q] = sent[p][q]
<1>1. PICK x \in Foremost(n, r) : sent' = [sent EXCEPT ![n][r] = @ \cup {x}]
  BY DEF sendMessage
<1>2. \A p \in Nodes, q \in Requests :
         sent'[p][q] = IF p = n /\ q = r THEN sent[n][r] \cup {x} ELSE sent[p][q]
  BY <1>1, EntryReplaced DEF TypeOK
<1> QED BY <1>2

\* Only sendMessage and CreateSession change what counts as published.
LEMMA RunKeepsSent ==
    ASSUME NEW n \in Nodes, NEW r \in Requests, RunSteps(n, r), ~sendMessage(n, r)
    PROVE  UNCHANGED <<sent, up, net, call>>
BY DEF RunSteps, BeginRounds, handleMessage, handleSuccess, handleError, UpdateSession

LEMMA ContributedStays ==
    ASSUME TypeOK, BarrierInv, RoundsMean, [Next]_vars,
           NEW p \in Nodes, NEW q \in Requests, NEW x, Contributed(p, q, x)
    PROVE  Contributed(p, q, x)'
<1> USE DEF Contributed
<1>1. CASE UNCHANGED <<sent, up>>
  BY <1>1
<1>2. ASSUME NEW n \in Nodes, NEW r \in Requests, Opens(n, r)
      PROVE  Contributed(p, q, x)'
  <2>1. UNCHANGED up /\ status[n][r] \in {"none", "killed"} /\ CreateSession(n, r)
    BY <1>2 DEF Opens
  <2>2. CASE p = n /\ q = r /\ status[n][r] = "none"
    <3>1. round[p][q] = 0 /\ sent[p][q] \subseteq Made(p, q)
      BY <2>2 DEF RoundsMean
    <3>2. sent[p][q] = {}
      BY <3>1 DEF Made
    <3> QED BY <2>1, <3>2
  <2>3. CASE p = n /\ q = r /\ status[n][r] = "killed"
    BY <2>1, <2>3 DEF BarrierInv
  <2>4. CASE ~(p = n /\ q = r)
    BY <2>1, <2>4, OpenedRows
  <2> QED BY <2>1, <2>2, <2>3, <2>4
<1>3. ASSUME NEW n \in Nodes, NEW r \in Requests, sendMessage(n, r)
      PROVE  Contributed(p, q, x)'
  <2>1. sent[p][q] \subseteq sent'[p][q]
    BY <1>3, SentGrows
  <2>2. UNCHANGED up
    BY <1>3, PublishedRow
  <2> QED BY <2>1, <2>2
<1>4. ASSUME NEW n \in Nodes, Crash(n) \/ Restart(n)
      PROVE  Contributed(p, q, x)'
  <2>1. UNCHANGED sent
    BY <1>4 DEF Crash, Restart
  <2>2. up'[p] = up[p] \/ up'[p] \in {"down", "back"}
    BY <1>4 DEF Crash, Restart, TypeOK
  <2> QED BY <2>1, <2>2
<1>5. ASSUME NEW m \in net, routeToSession(m)
      PROVE  UNCHANGED <<sent, up>>
  BY <1>5 DEF routeToSession
<1>6. ASSUME NEW n \in Nodes, NEW r \in Requests, RunSteps(n, r)
      PROVE  Contributed(p, q, x)'
  BY <1>1, <1>3, <1>6, RunKeepsSent
<1>7. Quiet => UNCHANGED <<sent, up>>
  BY DEF Quiet
<1> QED BY <1>1, <1>2, <1>4, <1>5, <1>6, <1>7, StepKinds
-----------------------------------------------------------------------------
(* Everybody's contribution.                                               *)

\* A party with its result has all messages that every other party owes to it.
LEMMA CompletedHasAll ==
    ASSUME TypeOK, RoundMessagesWereSent, RoundsMean, NEW n \in Nodes, NEW r \in Requests,
           status[n][r] = "completed", NEW k \in 1..Rounds
    PROVE  JointRound(n, r, k)
<1>1. k \in 1..round[n][r] - 1
  BY RoundsAssumption DEF RoundsMean
<1>2. RoundOf(n, r, k) \subseteq got[n][r]
  BY <1>1 DEF RoundsMean
<1>3. \A x \in got[n][r] : Contributed(x[1], r, Origin(n, x))
  BY DEF RoundMessagesWereSent
<1>4. ASSUME NEW p \in r.parties \ {n}, NEW kind \in Sends[k]
      PROVE  Contributed(p, r, <<k, kind, IF kind = "p2p" THEN n ELSE p>>)
  <2>1. <<p, k, kind>> \in got[n][r]
    BY <1>2 DEF RoundOf
  <2>2. Contributed(<<p, k, kind>>[1], r, Origin(n, <<p, k, kind>>))
    BY <1>3, <2>1
  <2> QED BY <2>2 DEF Origin
<1> QED BY <1>4 DEF JointRound, Share

\* It has been published by this very step.
JustSent(m) == m \in Messages /\ Origin(m.to, Entry(m)) \in sent'[m.from][m.req]

\* A message that goes out is found again in what its receiver stores.
LEMMA PublishedOrigin ==
    ASSUME TypeOK, NEW n \in Nodes, NEW r \in Requests, NEW x \in Made(n, r),
           NEW m \in Publish(r, n, x)
    PROVE  /\ m \in RoundMessages /\ m.type = "round" /\ m.from = n /\ m.req = r /\ m.to # n
           /\ m.to \in Nodes /\ Entry(m) = <<n, x[1], x[2]>> /\ Origin(m.to, Entry(m)) = x
           /\ x[2] = "p2p" => m.to \in r.parties
<1>1. /\ x \in OutMsgs /\ x = <<x[1], x[2], x[3]>>
      /\ x[2] = "p2p" => x[3] \in r.parties \ {n}
      /\ x[2] # "p2p" => x[3] = n
  BY MadeShape
<1>2. m \in RoundMessages
  BY <1>1, PublishRound
<1>3. PICK to \in Receivers(n, x) :
         m = [type |-> "round", req |-> r, from |-> n, to |-> to, round |-> x[1], kind |-> x[2]]
  BY DEF Publish
<1>4. /\ m.type = "round" /\ m.from = n /\ m.req = r /\ m.to = to
      /\ m.round = x[1] /\ m.kind = x[2]
  BY <1>3
<1>5. IF x[2] = "p2p" THEN to = x[3] ELSE to \in Nodes \ {n}
  BY <1>3 DEF Receivers
<1>6. Entry(m) = <<n, x[1], x[2]>>
  BY <1>4 DEF Entry
<1>7. Origin(m.to, Entry(m)) = x
  BY <1>1, <1>4, <1>5, <1>6 DEF Origin
<1>8. m.to \in Nodes
  BY <1>2 DEF RoundMessages
<1> QED BY <1>1, <1>2, <1>4, <1>5, <1>6, <1>7, <1>8

\* Every round message that a step leaves behind lay somewhere before the step, or
\* has just been published.
LEMMA RoundMessagesCome ==
    ASSUME TypeOK, BarrierInv, [Next]_vars
    PROVE  /\ \A m \in net' : m.type = "round" => m \in net \/ JustSent(m)
           /\ \A n \in Nodes, r \in Requests : \A x \in inbox'[n][r] \cup got'[n][r] :
                 \/ x \in inbox[n][r] \cup got[n][r]
                 \/ \E m \in net : m.type = "round" /\ m.to = n /\ m.req = r /\ x = Entry(m)
<1> DEFINE Under == \A m \in net' : m.type = "round" => m \in net \/ JustSent(m)
           Arrived == \A n \in Nodes, r \in Requests : \A x \in inbox'[n][r] \cup got'[n][r] :
                         \/ x \in inbox[n][r] \cup got[n][r]
                         \/ \E m \in net : m.type = "round" /\ m.to = n /\ m.req = r /\ x = Entry(m)
<1>1. CASE NoNewRounds /\ Quiet
  BY <1>1 DEF NoNewRounds, Quiet
<1>2. ASSUME NoNewRounds, NEW n \in Nodes, NEW r \in Requests, Opens(n, r)
      PROVE  Under /\ Arrived
  <2>1. Arrived
    BY <1>2, OpenedRows DEF Opens
  <2> QED BY <1>2, <2>1 DEF NoNewRounds
<1>3. ASSUME NEW m \in net, routeToSession(m)
      PROVE  Under /\ Arrived
  <2>1. m.to \in Nodes /\ m.req \in Requests /\ m.type = "round"
    BY <1>3, MessageFields DEF TypeOK, routeToSession
  <2>2. net' \subseteq net /\ UNCHANGED got
    BY <1>3 DEF routeToSession, Receive
  <2>3. \A n \in Nodes, r \in Requests : \A x \in inbox'[n][r] :
           \/ x \in inbox[n][r]
           \/ n = m.to /\ r = m.req /\ x = Entry(m)
    <3>1. CASE inbox' = [inbox EXCEPT ![m.to][m.req] = inbox[m.to][m.req] \cup {Entry(m)}]
      BY <2>1, <3>1, EntryReplaced DEF TypeOK
    <3> QED BY <1>3, <3>1 DEF routeToSession
  <2>4. Arrived
    BY <2>1, <2>2, <2>3
  <2> QED BY <2>2, <2>4
<1>4. ASSUME NEW n \in Nodes, NEW r \in Requests, sendMessage(n, r)
      PROVE  Under /\ Arrived
  <2>1. PICK x \in outChan(n, r) :
            sent'[n][r] = sent[n][r] \cup {x} /\ net' \subseteq net \cup Publish(r, n, x)
    BY <1>4, PublishedRow
  <2>2. x \in Made(n, r)
    BY DEF outChan
  <2>3. \A m \in Publish(r, n, x) : JustSent(m)
    BY <2>1, <2>2, PublishedOrigin DEF JustSent, Messages
  <2>4. Under
    BY <2>1, <2>3
  <2>5. Arrived
    BY <1>4, PublishedRow
  <2> QED BY <2>4, <2>5
<1>5. ASSUME NEW n \in Nodes, NEW r \in Requests, handleMessage(n, r)
      PROVE  Under /\ Arrived
  <2>1. PICK x \in inbox[n][r] :
            /\ inbox' = [inbox EXCEPT ![n][r] = inbox[n][r] \ {x}]
            /\ got' = [got EXCEPT ![n][r] = got[n][r] \cup {x}]
    BY <1>5 DEF handleMessage, PartyUpdate
  <2>2. \A p \in Nodes, q \in Requests :
           /\ inbox'[p][q] \subseteq inbox[p][q]
           /\ got'[p][q] \subseteq got[p][q] \cup inbox[p][q]
    <3>1. \A p \in Nodes, q \in Requests : inbox'[p][q] \subseteq inbox[p][q]
      BY <2>1, EntryReplaced DEF TypeOK
    <3>2. \A p \in Nodes, q \in Requests : got'[p][q] \subseteq got[p][q] \cup inbox[p][q]
      BY <2>1, EntryReplaced DEF TypeOK
    <3> QED BY <3>1, <3>2
  <2>3. Arrived
    BY <2>2
  <2> QED BY <1>5, <2>3 DEF handleMessage
<1>6. ASSUME NEW n \in Nodes, NEW r \in Requests, RunSteps(n, r),
             ~sendMessage(n, r), ~handleMessage(n, r)
      PROVE  Under /\ Arrived
  <2>1. UNCHANGED <<net, inbox, got>>
    BY <1>6 DEF RunSteps, BeginRounds, handleSuccess, handleError, UpdateSession
  <2> QED BY <2>1
<1>7. ASSUME NEW n \in Nodes, Crash(n) \/ Restart(n)
      PROVE  Under /\ Arrived
  <2>1. UNCHANGED <<net, got>>
    BY <1>7 DEF Crash, Restart
  <2>2. \A p \in Nodes : inbox'[p] = inbox[p] \/ inbox'[p] = [r \in Requests |-> {}]
    BY <1>7 DEF Crash, Restart, TypeOK
  <2>3. \A p \in Nodes, q \in Requests : inbox'[p][q] \subseteq inbox[p][q]
    BY <2>2
  <2> QED BY <2>1, <2>3
<1> QED BY <1>1, <1>2, <1>3, <1>4, <1>5, <1>6, <1>7, StepKinds

LEMMA SentStep ==
    ASSUME TypeOK, BarrierInv, ContributionInv, [Next]_vars
    PROVE  RoundMessagesWereSent'
<1>0. TypeOK' /\ RoundMessagesWereSent /\ RoundsMean
  BY TypeStep DEF ContributionInv
<1>1. ASSUME NEW m \in net', m.type = "round"
      PROVE  Contributed(m.from, m.req, Origin(m.to, Entry(m)))'
  <2>1. m \in Messages
    BY <1>0, <1>1 DEF TypeOK
  <2>2. m.from \in Nodes /\ m.req \in Requests
    BY <1>1, <2>1, MessageFields
  <2>3. CASE m \in net
    <3>1. Contributed(m.from, m.req, Origin(m.to, Entry(m)))
      BY <1>0, <1>1, <2>3 DEF RoundMessagesWereSent
    <3> QED BY <1>0, <2>2, <3>1, ContributedStays
  <2>4. CASE JustSent(m)
    BY <2>4 DEF Contributed, JustSent
  <2> QED BY <1>1, <2>3, <2>4, RoundMessagesCome
<1>2. ASSUME NEW n \in Nodes, NEW r \in Requests, NEW x \in inbox'[n][r] \cup got'[n][r]
      PROVE  Contributed(x[1], r, Origin(n, x))'
  <2>1. CASE x \in inbox[n][r] \cup got[n][r]
    <3>1. x[1] \in Nodes
      BY <2>1 DEF TypeOK, RoundMsgs
    <3>2. Contributed(x[1], r, Origin(n, x))
      BY <1>0, <2>1 DEF RoundMessagesWereSent
    <3> QED BY <1>0, <3>1, <3>2, ContributedStays
  <2>2. ASSUME NEW m \in net, m.type = "round", m.to = n, m.req = r, x = Entry(m)
        PROVE  Contributed(x[1], r, Origin(n, x))'
    <3>1. m.from \in Nodes /\ m.req \in Requests
      BY <2>2, MessageFields DEF TypeOK
    <3>2. Contributed(m.from, m.req, Origin(m.to, Entry(m)))
      BY <1>0, <2>2 DEF RoundMessagesWereSent
    <3>3. Contributed(m.from, m.req, Origin(m.to, Entry(m)))'
      BY <1>0, <3>1, <3>2, ContributedStays
    <3>4. x[1] = m.from
      BY <2>2 DEF Entry
    <3> QED BY <2>2, <3>3, <3>4
  <2> QED BY <1>2, <2>1, <2>2, RoundMessagesCome
<1> QED BY <1>1, <1>2 DEF RoundMessagesWereSent

\* What a step makes of one party's session.
RowMeans(n, r) ==
    /\ \A k \in 1..round[n][r] - 1 : RoundOf(n, r, k) \subseteq got[n][r]
    /\ sent[n][r] \subseteq Made(n, r)
    /\ status[n][r] \in {"none", "pending"} => round[n][r] = 0
    /\ status[n][r] = "completed" => round[n][r] = Rounds + 1

LEMMA RowSame ==
    ASSUME NEW n \in Nodes, NEW r \in Requests, RowMeans(n, r),
           round'[n][r] = round[n][r], got'[n][r] = got[n][r], sent'[n][r] = sent[n][r],
           \/ status'[n][r] = status[n][r]
           \/ status'[n][r] \in {"failed", "killed"}
           \/ status'[n][r] = "completed" /\ round[n][r] = Rounds + 1
    PROVE  RowMeans(n, r)'
BY DEF RowMeans, RoundOf, Made, Outgoing

LEMMA RowRun ==
    ASSUME TypeOK, TypeOK', NEW n \in Nodes, NEW r \in Requests, RowMeans(n, r), RunSteps(n, r)
    PROVE  RowMeans(n, r)'
<1> USE RoundsAssumption
<1>1. CASE BeginRounds(n, r)
  <2>1. /\ round'[n][r] = 1 /\ status'[n][r] = "running"
        /\ sent'[n][r] = sent[n][r] /\ got'[n][r] = got[n][r]
    BY <1>1 DEF BeginRounds, TypeOK
  <2>2. sent'[n][r] \subseteq Made(n, r)'
    <3>1. round[n][r] = 0
      BY <1>1 DEF BeginRounds, RowMeans
    <3> QED BY <2>1, <3>1, MadeGrows DEF RowMeans
  <2>3. \A k \in 1..round'[n][r] - 1 : FALSE
    BY <2>1
  <2> QED BY <2>1, <2>2, <2>3 DEF RowMeans
<1>2. CASE sendMessage(n, r)
  <2>1. PICK x \in outChan(n, r) : sent'[n][r] = sent[n][r] \cup {x}
    BY <1>2, PublishedRow
  <2>2. UNCHANGED <<status, round, got>> /\ status[n][r] = "running"
    BY <1>2, PublishedRow
  <2>3. sent'[n][r] \subseteq Made(n, r)
    BY <2>1 DEF RowMeans, outChan
  <2>4. Made(n, r) \subseteq Made(n, r)'
    <3>1. round[n][r] \in Nat /\ round'[n][r] = round[n][r]
      BY <2>2, RoundsAssumption DEF TypeOK
    <3> QED BY <3>1, MadeGrows
  <2>5. \A k \in 1..round'[n][r] - 1 : RoundOf(n, r, k) \subseteq got'[n][r]
    BY <2>2 DEF RowMeans
  <2> QED BY <2>2, <2>3, <2>4, <2>5 DEF RowMeans, RoundOf
<1>3. CASE handleMessage(n, r)
  <2>1. PICK x \in inbox[n][r] : PartyUpdate(n, r, x)
    BY <1>3 DEF handleMessage
  <2>2. got'[n][r] = got[n][r] \cup {x}
    BY <2>1 DEF PartyUpdate, TypeOK
  <2>3. PICK k \in round[n][r]..Rounds + 1 :
            /\ \A j \in round[n][r]..k - 1 : RoundOf(n, r, j) \subseteq got[n][r] \cup {x}
            /\ round' = [round EXCEPT ![n][r] = k]
    BY <2>1 DEF PartyUpdate
  <2>4. /\ round'[n][r] = k /\ round[n][r] \in Nat /\ k \in Nat
        /\ UNCHANGED <<status, sent>> /\ status[n][r] = "running"
    BY <1>3, <2>3 DEF TypeOK, handleMessage
  <2>5. ASSUME NEW j \in 1..k - 1
        PROVE  RoundOf(n, r, j) \subseteq got'[n][r]
    <3>1. CASE j \in 1..round[n][r] - 1
      BY <2>2, <3>1 DEF RowMeans
    <3>2. CASE j \in round[n][r]..k - 1
      BY <2>2, <2>3, <3>2
    <3> QED BY <2>4, <3>1, <3>2
  <2>6. sent'[n][r] \subseteq Made(n, r)'
    <3>1. round[n][r] <= round'[n][r]
      BY <2>3, <2>4
    <3> QED BY <2>4, <3>1, MadeGrows DEF RowMeans
  <2>7. \A j \in 1..round'[n][r] - 1 : RoundOf(n, r, j) \subseteq got'[n][r]
    BY <2>4, <2>5
  <2>8. status'[n][r] = "running"
    BY <2>4
  <2> QED BY <2>6, <2>7, <2>8 DEF RowMeans, RoundOf
<1>4. CASE handleSuccess(n, r)
  <2>1. status'[n][r] = "completed" /\ round[n][r] = Rounds + 1 /\ UNCHANGED partyVars
    BY <1>4 DEF handleSuccess, TypeOK
  <2> QED BY <2>1, RowSame
<1>5. CASE handleError(n, r)
  <2>1. status'[n][r] = "failed" /\ UNCHANGED partyVars
    BY <1>5 DEF handleError, TypeOK
  <2> QED BY <2>1, RowSame
<1>6. CASE UpdateSession(n, r)
  BY <1>6, RowSame DEF UpdateSession
<1> QED BY <1>1, <1>2, <1>3, <1>4, <1>5, <1>6 DEF RunSteps

LEMMA RunElsewhere ==
    ASSUME TypeOK, NEW n \in Nodes, NEW r \in Requests, RunSteps(n, r),
           NEW p \in Nodes, NEW q \in Requests, ~(p = n /\ q = r)
    PROVE  /\ round'[p][q] = round[p][q] /\ got'[p][q] = got[p][q]
           /\ sent'[p][q] = sent[p][q] /\ status'[p][q] = status[p][q]
           /\ inbox'[p][q] = inbox[p][q] /\ record'[p][q] = record[p][q]
<1> USE DEF TypeOK
<1>1. CASE BeginRounds(n, r)
  BY <1>1 DEF BeginRounds
<1>2. CASE sendMessage(n, r)
  <2>1. sent'[p][q] = sent[p][q]
    BY <1>2, SentGrows
  <2>2. UNCHANGED <<status, inbox, got, round, record>>
    BY <1>2, PublishedRow
  <2> QED BY <2>1, <2>2
<1>3. CASE handleMessage(n, r)
  BY <1>3 DEF handleMessage, PartyUpdate
<1>4. CASE handleSuccess(n, r) \/ handleError(n, r) \/ UpdateSession(n, r)
  BY <1>4 DEF handleSuccess, handleError, UpdateSession
<1> QED BY <1>1, <1>2, <1>3, <1>4 DEF RunSteps

LEMMA RoundsStep ==
    ASSUME TypeOK, BarrierInv, RoundsMean, [Next]_vars
    PROVE  RoundsMean'
<1>t. TypeOK'
  BY TypeStep
<1> SUFFICES ASSUME NEW p \in Nodes, NEW q \in Requests
             PROVE  RowMeans(p, q)'
  BY DEF RoundsMean, RowMeans
<1>0. RowMeans(p, q)
  BY DEF RoundsMean, RowMeans
<1>1. CASE Quiet
  BY <1>0, <1>1, RowSame DEF Quiet
<1>2. ASSUME NEW n \in Nodes, NEW r \in Requests, Opens(n, r)
      PROVE  RowMeans(p, q)'
  <2>1. CASE p = n /\ q = r
    <3>1. round'[p][q] = 0 /\ sent'[p][q] = {} /\ status'[p][q] = "pending"
      BY <1>2, <2>1, OpenedRows DEF Opens
    <3>2. \A k \in 1..round'[p][q] - 1 : FALSE
      BY <3>1
    <3> QED BY <3>1, <3>2 DEF RowMeans
  <2>2. CASE ~(p = n /\ q = r)
    BY <1>0, <1>2, <2>2, OpenedRows, RowSame DEF Opens
  <2> QED BY <2>1, <2>2
<1>3. ASSUME NEW m \in net, routeToSession(m)
      PROVE  RowMeans(p, q)'
  BY <1>0, <1>3, RowSame DEF routeToSession
<1>4. ASSUME NEW n \in Nodes, NEW r \in Requests, RunSteps(n, r)
      PROVE  RowMeans(p, q)'
  <2>1. CASE p = n /\ q = r
    BY <1>t, <1>0, <1>4, <2>1, RowRun
  <2>2. CASE ~(p = n /\ q = r)
    BY <1>0, <1>4, <2>2, RunElsewhere, RowSame
  <2> QED BY <2>1, <2>2
<1>5. ASSUME NEW n \in Nodes, Crash(n) \/ Restart(n)
      PROVE  RowMeans(p, q)'
  <2>1. UNCHANGED partyVars
    BY <1>5 DEF Crash, Restart
  <2>2. status'[p][q] = status[p][q] \/ status'[p][q] = "killed"
    BY <1>5, CrashRows DEF Restart
  <2> QED BY <1>0, <2>1, <2>2, RowSame
<1> QED BY <1>1, <1>2, <1>3, <1>4, <1>5, StepKinds

LEMMA OkStep ==
    ASSUME TypeOK, BarrierInv, ContributionInv, [Next]_vars
    PROVE  OkMeans'
<1>0. RoundMessagesWereSent /\ RoundsMean /\ OkMeans
  BY DEF ContributionInv
<1>1. OkFromCompleted
  <2>1. ASSUME NEW m \in net, routeToSession(m) PROVE UNCHANGED call
    BY <2>1 DEF routeToSession
  <2>2. ASSUME NEW n \in Nodes, NEW r \in Requests, RunSteps(n, r) PROVE UNCHANGED call
    BY <2>2, RunKeepsSent, PublishedRow
  <2>3. ASSUME NEW n \in Nodes, Crash(n) \/ Restart(n)
        PROVE  \A q \in Requests : call'[q] = "ok" => call[q] = "ok"
    BY <2>3 DEF Crash, Restart
  <2> QED BY <2>1, <2>2, <2>3, StepKinds DEF OkFromCompleted
<1> SUFFICES ASSUME NEW r \in Requests, call'[r] = "ok", NEW p \in r.parties \ {r.initiator},
                    NEW x \in Share(p, r.initiator, Rounds)
             PROVE  Contributed(p, r, x)'
  BY DEF OkMeans, JointRound, Share
<1>2. p \in Nodes /\ r.initiator \in Nodes /\ Rounds \in 1..Rounds
  BY RequestFields, RoundsAssumption
<1>3. JointRound(r.initiator, r, Rounds)
  BY <1>0, <1>1, <1>2, CompletedHasAll DEF OkMeans, OkFromCompleted
<1>4. Contributed(p, r, x)
  BY <1>3 DEF JointRound
<1> QED BY <1>0, <1>2, <1>4, ContributedStays

LEMMA ContributionInit == Init => ContributionInv
<1> SUFFICES ASSUME Init PROVE ContributionInv
  OBVIOUS
<1>1. RoundMessagesWereSent /\ OkMeans
  BY DEF Init, Each, RoundMessagesWereSent, OkMeans
<1>2. ASSUME NEW n \in Nodes, NEW r \in Requests
      PROVE  round[n][r] = 0 /\ sent[n][r] = {} /\ status[n][r] = "none"
  BY DEF Init, Each
<1>3. RoundsMean
  <2>1. ASSUME NEW n \in Nodes, NEW r \in Requests
        PROVE  \A k \in 1..round[n][r] - 1 : FALSE
    BY <1>2
  <2> QED BY <1>2, <2>1 DEF RoundsMean
<1> QED BY <1>1, <1>3 DEF ContributionInv

\* Every round message, wherever it lies, was published by its sender, and every
\* party past a round has everybody's message of it, with any fault.
THEOREM ContributionHolds == Spec => []ContributionInv
<1>1. TypeOK /\ BarrierInv /\ ContributionInv /\ [Next]_vars => ContributionInv'
  BY SentStep, RoundsStep, OkStep DEF ContributionInv
<1> QED BY <1>1, ContributionInit, TypeCorrect, BarrierHolds, PTL DEF Spec

\* A party that completed has all messages of every other party, of every round.
THEOREM CompletionIsJoint == Spec => []CompletionNeedsEveryone
<1>1. TypeOK /\ ContributionInv => CompletionNeedsEveryone
  BY CompletedHasAll DEF CompletionNeedsEveryone, ContributionInv
<1> QED BY <1>1, TypeCorrect, ContributionHolds, PTL

\* The HTTP caller is told of success only if every other party took part in all
\* rounds.
THEOREM CallerSuccessHolds == Spec => []CallerSuccessIsJoint
<1>1. TypeOK /\ ContributionInv => CallerSuccessIsJoint
  <2> SUFFICES ASSUME TypeOK, ContributionInv, NEW r \in Requests, call[r] = "ok",
                      NEW p \in r.parties \ {r.initiator}
               PROVE  round[p][r] >= Rounds \/ up[p] # "up"
    BY DEF CallerSuccessIsJoint
  <2>1. p \in Nodes
    BY RequestFields
  <2>2. Rounds \in 1..Rounds /\ r.initiator \in Nodes
    BY RequestFields, RoundsAssumption
  <2>3. PICK kind \in Sends[Rounds] : TRUE
    BY <2>2, SendsAssumption
  <2> DEFINE x == <<Rounds, kind, IF kind = "p2p" THEN r.initiator ELSE p>>
  <2>4. x \in Share(p, r.initiator, Rounds) /\ x[1] = Rounds
    BY DEF Share
  <2>5. Contributed(p, r, x)
    BY <2>4 DEF ContributionInv, OkMeans, JointRound
  <2>6. sent[p][r] \subseteq Made(p, r)
    BY <2>1 DEF ContributionInv, RoundsMean
  <2>7. ASSUME x \in sent[p][r]
        PROVE  Rounds <= round[p][r]
    <3>1. x \in Made(p, r)
      BY <2>6, <2>7
    <3>2. x[1] <= round[p][r]
      BY <2>1, <3>1, MadeShape
    <3> QED BY <2>4, <3>2
  <2>8. round[p][r] \in Nat /\ Rounds \in Nat
    BY <2>1, RoundsAssumption DEF TypeOK
  <2> QED BY <2>5, <2>7, <2>8 DEF Contributed
<1> QED BY <1>1, TypeCorrect, ContributionHolds, PTL
-----------------------------------------------------------------------------
(* The session record.                                                     *)

LEMMA RecordInit == Init => RecordFollowsSession
BY DEF Init, Each, RecordFollowsSession

LEMMA RecordStep ==
    ASSUME TypeOK, BarrierInv, RecordFollowsSession, [Next]_vars
    PROVE  RecordFollowsSession'
<1> SUFFICES ASSUME NEW p \in Nodes, NEW q \in Requests, record'[p][q] \in {"completed", "failed"}
             PROVE  status'[p][q] \in {record'[p][q], "killed"}
  BY DEF RecordFollowsSession
<1>0. record[p][q] \in {"completed", "failed"} => status[p][q] \in {record[p][q], "killed"}
  BY DEF RecordFollowsSession
<1>1. CASE UNCHANGED <<status, record>>
  BY <1>0, <1>1
<1>2. ASSUME NEW n \in Nodes, NEW r \in Requests, CreateSession(n, r)
      PROVE  status'[p][q] \in {record'[p][q], "killed"}
  BY <1>0, <1>2, OpenedRows
<1>3. ASSUME NEW r \in Requests, InitiateKeygen(r) \/ InitiateSign(r) \/ ClientGone(r)
      PROVE  status'[p][q] \in {record'[p][q], "killed"}
  <2>1. UNCHANGED <<status, record>> \/ CreateSession(r.initiator, r)
    BY <1>3 DEF InitiateKeygen, InitiateSign, Register, Pursue, BroadcastInit, PrepareLocal,
                MarkSelfReady, waitForReady, BroadcastStart, StartLocal, WaitForCompletion,
                ClientGone
  <2> QED BY <1>1, <1>2, <2>1, RequestFields
<1>4. ASSUME NEW m \in net, Handle(m) \/ Lose(m)
      PROVE  status'[p][q] \in {record'[p][q], "killed"}
  <2>1. m.to \in Nodes /\ m.req \in Requests
    BY MessageFields DEF TypeOK
  <2>2. UNCHANGED <<status, record>> \/ CreateSession(m.to, m.req)
    BY <1>4 DEF Handle, handleKeygenInit, handleSignInit, handleKeygenReady, handleSignReady,
                handleKeygenStart, handleSignStart, HandleInit, PrepareAndAnswer,
                HandleReady, HandleStart, routeToSession, Lose
  <2> QED BY <1>1, <1>2, <2>1, <2>2
<1>5. ASSUME NEW n \in Nodes, NEW r \in Requests, RunSteps(n, r)
      PROVE  status'[p][q] \in {record'[p][q], "killed"}
  <2>1. CASE ~(p = n /\ q = r)
    BY <1>0, <1>5, <2>1, RunElsewhere
  <2>2. CASE p = n /\ q = r
    <3>1. CASE UpdateSession(n, r)
      <4>1. /\ \E x \in {status[n][r], "stale"} : record' = [record EXCEPT ![n][r] = x]
            /\ UNCHANGED status
        BY <3>1 DEF UpdateSession
      <4>2. record'[n][r] \in {status[n][r], "stale"}
        BY <4>1 DEF TypeOK
      <4> QED BY <2>2, <4>1, <4>2
    <3>2. CASE sendMessage(n, r) \/ handleMessage(n, r)
      BY <1>1, <3>2 DEF sendMessage, handleMessage
    <3>3. CASE BeginRounds(n, r) \/ handleSuccess(n, r) \/ handleError(n, r)
      <4>1. UNCHANGED record /\ status[n][r] \in {"pending", "running"}
        BY <3>3 DEF BeginRounds, handleSuccess, handleError
      <4> QED BY <1>0, <2>2, <4>1
    <3> QED BY <1>5, <3>1, <3>2, <3>3 DEF RunSteps
  <2> QED BY <2>1, <2>2
<1>6. ASSUME NEW n \in Nodes, Crash(n) \/ Restart(n)
      PROVE  status'[p][q] \in {record'[p][q], "killed"}
  <2>1. UNCHANGED record
    BY <1>6 DEF Crash, Restart
  <2>2. status'[p][q] = status[p][q] \/ (status'[p][q] = "killed" /\ Crash(n))
    BY <1>6, CrashRows DEF Restart
  <2> QED BY <1>0, <2>1, <2>2
<1>7. CASE UNCHANGED vars
  BY <1>1, <1>7 DEF vars
<1> QED BY <1>3, <1>4, <1>5, <1>6, <1>7 DEF Next, KeygenRun, SigningRun

\* The stored record claims no more than the session did: "completed" or "failed"
\* stands on disk only for a session that ended so, in this process or before it died.
THEOREM RecordHolds == Spec => []RecordFollowsSession
BY RecordInit, RecordStep, TypeCorrect, BarrierHolds, PTL DEF Spec

-----------------------------------------------------------------------------
(* How full MsgChan and outChan get, where no node dies (a party that      *)
(* comes back would publish its rounds again) and, for MsgChan, no message *)
(* is delivered twice.                                                     *)

\* Nobody has died, and who has a session is a party.
Steady ==
    /\ \A n \in Nodes : up[n] = "up"
    /\ \A n \in Nodes, r \in Requests : status[n][r] # "none" => n \in r.parties

\* Each message of a round comes once: it is under way, or waits, or is stored.
EachOnce ==
    /\ \A m \in net : m.type = "round" =>
          /\ m.from \in m.req.parties \ {m.to}
          /\ Entry(m) \notin inbox[m.to][m.req] \cup got[m.to][m.req]
    /\ \A n \in Nodes, r \in Requests : \A x \in inbox[n][r] :
          x[1] \in r.parties \ {n} /\ n \in r.parties /\ x \notin got[n][r]

LEMMA OnceInit == Init => Steady /\ EachOnce
BY DEF Init, Each, Steady, EachOnce

\* A session is opened for a party of the request only.
LEMMA OpensForParty ==
    ASSUME TypeOK, BarrierInv, [Next]_vars
    PROVE  \A p \in Nodes, q \in Requests :
              status'[p][q] # "none" => status[p][q] # "none" \/ p \in q.parties
<1>1. CASE UNCHANGED status
  BY <1>1
<1>2. ASSUME NEW n \in Nodes, NEW r \in Requests,
             Barrier!Prepare(n, r) \/ Barrier!Begin(n, r) \/ Barrier!Complete(n, r) \/ Barrier!Fail(n, r)
      PROVE  \A p \in Nodes, q \in Requests :
                status'[p][q] # "none" => status[p][q] # "none" \/ p \in q.parties
  <2>1. CASE Barrier!Prepare(n, r)
    <3>1. n \in r.parties /\ status' = [status EXCEPT ![n][r] = "pending"]
      BY <2>1 DEF Barrier!Prepare, Barrier!MovesTo
    <3> QED BY <3>1, StatusUpdate
  <2>2. CASE Barrier!Begin(n, r) \/ Barrier!Complete(n, r) \/ Barrier!Fail(n, r)
    <3>1. /\ status[n][r] # "none"
          /\ \E x \in {"running", "completed", "failed"} : status' = [status EXCEPT ![n][r] = x]
      BY <2>2 DEF Barrier!Begin, Barrier!Complete, Barrier!Fail, Barrier!MovesTo
    <3> QED BY <3>1, StatusUpdate
  <2> QED BY <1>2, <2>1, <2>2
<1>3. ASSUME NEW n \in Nodes, Crash(n)
      PROVE  \A p \in Nodes, q \in Requests :
                status'[p][q] # "none" => status[p][q] # "none" \/ p \in q.parties
  BY <1>3, CrashRows
<1> QED BY <1>1, <1>2, <1>3, SessionSteps

LEMMA SteadyStep ==
    ASSUME "crash" \notin Faults, TypeOK, BarrierInv, Steady, [Next]_vars
    PROVE  Steady' /\ UNCHANGED up
<1>1. ASSUME NEW n \in Nodes, Crash(n) \/ Restart(n) PROVE FALSE
  BY <1>1 DEF Crash, Restart, Steady
<1>2. ASSUME NEW m \in net, routeToSession(m) PROVE UNCHANGED up
  BY <1>2 DEF routeToSession
<1>3. ASSUME NEW n \in Nodes, NEW r \in Requests, RunSteps(n, r) PROVE UNCHANGED up
  BY <1>3, RunKeepsSent, PublishedRow
<1>4. UNCHANGED up
  BY <1>1, <1>2, <1>3, StepKinds DEF Quiet, Opens
<1> QED BY <1>4, OpensForParty DEF Steady

LEMMA OnceStep ==
    ASSUME Faults \cap {"dup", "crash"} = {}, TypeOK, BarrierInv, ContributionInv,
           Steady, EachOnce, [Next]_vars
    PROVE  EachOnce'
<1>0. /\ RoundMessagesWereSent /\ RoundsMean
      /\ \A m \in net : m.to \in Nodes /\ m.from \in Nodes /\ m.req \in Requests
  BY MessageFields DEF ContributionInv, TypeOK
<1> DEFINE Fresh == \A m \in net : m.type = "round" =>
                       /\ m.from \in m.req.parties \ {m.to}
                       /\ Entry(m) \notin inbox[m.to][m.req] \cup got[m.to][m.req]
           Waiting == \A n \in Nodes, r \in Requests :
                         \A x \in inbox[n][r] :
                            x[1] \in r.parties \ {n} /\ n \in r.parties /\ x \notin got[n][r]
<1> SUFFICES Fresh' /\ Waiting'
  BY DEF EachOnce
<1>s. Fresh /\ Waiting
  BY DEF EachOnce
<1>1. CASE NoNewRounds /\ Quiet
  BY <1>s, <1>1 DEF NoNewRounds, Quiet
<1>2. ASSUME NoNewRounds, NEW n \in Nodes, NEW r \in Requests, Opens(n, r)
      PROVE  Fresh' /\ Waiting'
  <2>1. \A p \in Nodes, q \in Requests :
           inbox'[p][q] \subseteq inbox[p][q] /\ got'[p][q] \subseteq got[p][q]
    BY <1>2, OpenedRows DEF Opens
  <2>2. ASSUME NEW m \in net', m.type = "round"
        PROVE  /\ m.from \in m.req.parties \ {m.to}
               /\ Entry(m) \notin inbox'[m.to][m.req] \cup got'[m.to][m.req]
    <3>1. m \in net /\ m.to \in Nodes /\ m.req \in Requests
      BY <1>0, <1>2, <2>2 DEF NoNewRounds
    <3> QED BY <1>s, <2>1, <2>2, <3>1
  <2> QED BY <1>s, <2>1, <2>2
<1>3. ASSUME NEW m \in net, routeToSession(m)
      PROVE  Fresh' /\ Waiting'
  <2>1. /\ net' = net \ {m} /\ m.type = "round" /\ m \in Messages /\ UNCHANGED got
        /\ m.to \in Nodes /\ m.req \in Requests
    BY <1>0, <1>3 DEF routeToSession, Receive, TypeOK
  <2>2. \A p \in Nodes, q \in Requests :
           \/ inbox'[p][q] = inbox[p][q]
           \/ /\ p = m.to /\ q = m.req /\ HasSession(p, q)
              /\ inbox'[p][q] = inbox[p][q] \cup {Entry(m)}
    <3>1. CASE /\ HasSession(m.to, m.req)
               /\ inbox' = [inbox EXCEPT ![m.to][m.req] = inbox[m.to][m.req] \cup {Entry(m)}]
      BY <2>1, <3>1, EntryReplaced DEF TypeOK
    <3>2. CASE UNCHANGED inbox
      BY <3>2
    <3> QED BY <1>3, <3>1, <3>2 DEF routeToSession
  <2>3. Waiting'
    BY <1>s, <2>1, <2>2 DEF HasSession, Steady, Entry
  <2>4. ASSUME NEW x \in net', x.type = "round", x.to = m.to, x.req = m.req
        PROVE  Entry(x) # Entry(m)
    <3>1. x \in RoundMessages /\ m \in RoundMessages
      BY <2>1, <2>4 DEF TypeOK, Messages, Signals
    <3>2. x # m
      BY <2>1
    <3> QED BY <2>1, <2>4, <3>1, <3>2 DEF RoundMessages, Entry
  <2>5. ASSUME NEW x \in net', x.type = "round"
        PROVE  /\ x.from \in x.req.parties \ {x.to}
               /\ Entry(x) \notin inbox'[x.to][x.req] \cup got'[x.to][x.req]
    <3>1. x \in net /\ x.to \in Nodes /\ x.req \in Requests
      BY <1>0, <2>1
    <3>2. /\ x.from \in x.req.parties \ {x.to}
          /\ Entry(x) \notin inbox[x.to][x.req] \cup got[x.to][x.req]
      BY <1>s, <2>5, <3>1
    <3> QED BY <2>1, <2>2, <2>4, <2>5, <3>1, <3>2
  <2> QED BY <2>3, <2>5
<1>4. ASSUME NEW n \in Nodes, NEW r \in Requests, sendMessage(n, r)
      PROVE  Fresh' /\ Waiting'
  <2>1. n \in r.parties /\ UNCHANGED <<inbox, got>>
    BY <1>4, PublishedRow DEF Steady
  <2>2. PICK y \in outChan(n, r) : net' \subseteq net \cup Publish(r, n, y)
    BY <1>4, PublishedRow
  <2>3. y \in Made(n, r) /\ y \notin sent[n][r]
    BY DEF outChan
  <2>4. ASSUME NEW x \in Publish(r, n, y)
        PROVE  /\ x.from \in x.req.parties \ {x.to}
               /\ Entry(x) \notin inbox[x.to][x.req] \cup got[x.to][x.req]
    <3>1. /\ x.from = n /\ x.req = r /\ x.to # n /\ x.to \in Nodes
          /\ Entry(x)[1] = n /\ Origin(x.to, Entry(x)) = y
      BY <2>3, PublishedOrigin
    <3>2. ASSUME Entry(x) \in inbox[x.to][r] \cup got[x.to][r]
          PROVE  FALSE
      <4>1. Contributed(Entry(x)[1], r, Origin(x.to, Entry(x)))
        BY <1>0, <3>1, <3>2 DEF RoundMessagesWereSent
      <4> QED BY <2>3, <3>1, <4>1 DEF Contributed, Steady
    <3> QED BY <2>1, <3>1, <3>2
  <2>5. ASSUME NEW x \in net', x.type = "round"
        PROVE  /\ x.from \in x.req.parties \ {x.to}
               /\ Entry(x) \notin inbox'[x.to][x.req] \cup got'[x.to][x.req]
    <3>1. CASE x \in net
      BY <1>s, <2>1, <2>5, <3>1
    <3>2. CASE x \in Publish(r, n, y)
      BY <2>1, <2>4, <3>2
    <3> QED BY <2>2, <3>1, <3>2
  <2> QED BY <1>s, <2>1, <2>5
<1>5. ASSUME NEW n \in Nodes, NEW r \in Requests, handleMessage(n, r)
      PROVE  Fresh' /\ Waiting'
  <2>1. PICK x \in inbox[n][r] :
            /\ inbox' = [inbox EXCEPT ![n][r] = inbox[n][r] \ {x}]
            /\ got' = [got EXCEPT ![n][r] = got[n][r] \cup {x}]
            /\ UNCHANGED net
    BY <1>5 DEF handleMessage, PartyUpdate
  <2>2. \A p \in Nodes, q \in Requests :
           IF p = n /\ q = r
           THEN inbox'[p][q] = inbox[p][q] \ {x} /\ got'[p][q] = got[p][q] \cup {x}
           ELSE inbox'[p][q] = inbox[p][q] /\ got'[p][q] = got[p][q]
    <3>1. \A p \in Nodes, q \in Requests :
             inbox'[p][q] = IF p = n /\ q = r THEN inbox[n][r] \ {x} ELSE inbox[p][q]
      BY <2>1, EntryReplaced DEF TypeOK
    <3>2. \A p \in Nodes, q \in Requests :
             got'[p][q] = IF p = n /\ q = r THEN got[n][r] \cup {x} ELSE got[p][q]
      BY <2>1, EntryReplaced DEF TypeOK
    <3> QED BY <3>1, <3>2
  <2>3. \A p \in Nodes, q \in Requests :
           inbox'[p][q] \cup got'[p][q] = inbox[p][q] \cup got[p][q]
    BY <2>2
  <2>4. Fresh'
    BY <1>0, <1>s, <2>1, <2>3
  <2>5. Waiting'
    BY <1>s, <2>2
  <2> QED BY <2>4, <2>5
<1>6. ASSUME NEW n \in Nodes, NEW r \in Requests, RunSteps(n, r),
             ~sendMessage(n, r), ~handleMessage(n, r)
      PROVE  Fresh' /\ Waiting'
  <2>1. UNCHANGED <<net, inbox, got>>
    BY <1>6 DEF RunSteps, BeginRounds, handleSuccess, handleError, UpdateSession
  <2> QED BY <1>s, <2>1
<1>7. ASSUME NEW n \in Nodes, Crash(n) \/ Restart(n)
      PROVE  Fresh' /\ Waiting'
  BY <1>7 DEF Crash, Restart, Steady
<1> QED BY <1>1, <1>2, <1>3, <1>4, <1>5, <1>6, <1>7, StepKinds

\* The message that n has of p in round i shows that p has reached round i.
LEMMA StoredMeansReached ==
    ASSUME TypeOK, ContributionInv, Steady, NEW n \in Nodes, NEW r \in Requests,
           NEW x \in inbox[n][r] \cup got[n][r]
    PROVE  /\ x \in RoundMsgs /\ x[1] \in Nodes
           /\ Origin(n, x) \in sent[x[1]][r]
           /\ x[2] <= round[x[1]][r] /\ x[3] \in Sends[x[2]]
<1>1. x \in RoundMsgs
  BY DEF TypeOK
<1>2. x[1] \in Nodes
  BY <1>1, OriginType
<1>3. Contributed(x[1], r, Origin(n, x))
  BY DEF ContributionInv, RoundMessagesWereSent
<1>4. Origin(n, x) \in sent[x[1]][r]
  BY <1>2, <1>3 DEF Contributed, Steady
<1>5. Origin(n, x) \in Made(x[1], r)
  BY <1>2, <1>4 DEF ContributionInv, RoundsMean
<1>6. Origin(n, x)[1] <= round[x[1]][r] /\ Origin(n, x)[2] \in Sends[Origin(n, x)[1]]
  BY <1>2, <1>5, MadeShape
<1>7. Origin(n, x)[1] = x[2] /\ Origin(n, x)[2] = x[3]
  BY DEF Origin
<1> QED BY <1>1, <1>2, <1>4, <1>6, <1>7

\* A party past round i has every other party's messages of it: they have all reached
\* round i.
LEMMA PastMeansReached ==
    ASSUME TypeOK, ContributionInv, Steady, NEW n \in Nodes, NEW r \in Requests,
           NEW i \in 1..round[n][r] - 1, NEW p \in r.parties \ {n}
    PROVE  i <= round[p][r]
<1>1. RoundOf(n, r, i) \subseteq got[n][r]
  BY DEF ContributionInv, RoundsMean
<1>2. i \in 1..Rounds
  BY RoundsAssumption DEF TypeOK
<1>3. PICK kind \in Sends[i] : TRUE
  BY <1>2, SendsAssumption
<1>4. <<p, i, kind>> \in got[n][r]
  BY <1>1 DEF RoundOf
<1>5. <<p, i, kind>>[2] <= round[<<p, i, kind>>[1]][r]
  BY <1>4, StoredMeansReached
<1> QED BY <1>5

\* The kinds of a round, none outside the protocol.
KindsOf(k) == IF k \in 1..Rounds THEN Sends[k] ELSE {}

\* What waits for a party is of its own round or of the next one.
LEMMA WaitingRounds ==
    ASSUME TypeOK, ContributionInv, Steady, EachOnce, NEW n \in Nodes, NEW r \in Requests
    PROVE  inbox[n][r] \subseteq
              ((r.parties \ {n}) \X {round[n][r]} \X KindsOf(round[n][r]))
                \cup ((r.parties \ {n}) \X {round[n][r] + 1} \X KindsOf(round[n][r] + 1))
<1> SUFFICES ASSUME NEW x \in inbox[n][r]
             PROVE  \/ x \in (r.parties \ {n}) \X {round[n][r]} \X KindsOf(round[n][r])
                    \/ x \in (r.parties \ {n}) \X {round[n][r] + 1} \X KindsOf(round[n][r] + 1)
  OBVIOUS
<1> DEFINE p == x[1]
           j == x[2]
           R == round[n][r]
<1>1. x = <<p, j, x[3]>> /\ p \in Nodes /\ j \in 1..Rounds
  BY OriginType DEF TypeOK
<1>2. p \in r.parties \ {n} /\ n \in r.parties /\ x \notin got[n][r]
  BY DEF EachOnce
<1>3. round[p][r] \in Nat /\ R \in Nat
  BY <1>1, RoundsAssumption DEF TypeOK
<1>4. j <= round[p][r] /\ x[3] \in Sends[j]
  BY StoredMeansReached
<1>5. j >= R
  <2> SUFFICES ASSUME j \in 1..R - 1 PROVE FALSE
    BY <1>1, <1>3
  <2>1. RoundOf(n, r, j) \subseteq got[n][r]
    BY DEF ContributionInv, RoundsMean
  <2> QED BY <1>1, <1>2, <1>4, <2>1 DEF RoundOf
<1>6. round[p][r] <= R + 1
  <2> SUFFICES ASSUME round[p][r] - 1 \in 1..round[p][r] - 1, round[p][r] - 1 > R
               PROVE  FALSE
    BY <1>3
  <2> QED BY <1>1, <1>2, <1>3, PastMeansReached
<1>7. j = R \/ j = R + 1
  BY <1>1, <1>3, <1>4, <1>5, <1>6
<1>8. KindsOf(j) = Sends[j]
  BY <1>1 DEF KindsOf
<1>9. x \in (r.parties \ {n}) \X {j} \X KindsOf(j)
  BY <1>1, <1>2, <1>4, <1>8
<1> QED BY <1>7, <1>9

\* The kinds are finitely many.
LEMMA KindsFinite ==
    ASSUME NEW k \in Nat
    PROVE  /\ IsFiniteSet(KindsOf(k)) /\ PerRound(k) \in Nat
           /\ Cardinality(KindsOf(k)) = PerRound(k)
<1>1. IsFiniteSet(Kinds)
  <2>1. IsFiniteSet({"p2p"})
    BY FS_Singleton
  <2>2. IsFiniteSet({"p2p"} \cup {"cast"})
    BY <2>1, FS_AddElement
  <2>3. {"p2p"} \cup {"cast"} = Kinds
    BY DEF Kinds
  <2> QED BY <2>2, <2>3
<1>2. KindsOf(k) \in SUBSET Kinds
  BY SendsAssumption DEF KindsOf
<1>3. IsFiniteSet(KindsOf(k)) /\ Cardinality(KindsOf(k)) \in Nat
  BY <1>1, <1>2, FS_Subset, FS_CardinalityType
<1>4. Cardinality(KindsOf(k)) = PerRound(k)
  <2>1. Cardinality({}) = 0
    BY FS_EmptySet
  <2> QED BY <2>1 DEF KindsOf, PerRound
<1> QED BY <1>3, <1>4

\* One entry per party and kind of a round.
LEMMA RoundSize ==
    ASSUME NEW P, IsFiniteSet(P), NEW k \in Nat
    PROVE  /\ IsFiniteSet(P \X {k} \X KindsOf(k))
           /\ Cardinality(P \X {k} \X KindsOf(k)) = PerRound(k) * Cardinality(P)
<1> DEFINE Q == P \X KindsOf(k)
           T == P \X {k} \X KindsOf(k)
           f == [q \in Q |-> <<q[1], k, q[2]>>]
<1>1. /\ IsFiniteSet(KindsOf(k)) /\ PerRound(k) \in Nat
      /\ Cardinality(KindsOf(k)) = PerRound(k) /\ Cardinality(P) \in Nat
  BY KindsFinite, FS_CardinalityType
<1>2. IsFiniteSet(Q) /\ Cardinality(Q) = Cardinality(P) * Cardinality(KindsOf(k))
  BY <1>1, FS_Product
<1>3. ExistsBijection(Q, T)
  <2>1. f \in [Q -> T]
    OBVIOUS
  <2>2. \A s, t \in Q : f[s] = f[t] => s = t
    OBVIOUS
  <2>3. \A t \in T : \E q \in Q : f[q] = t
    <3> SUFFICES ASSUME NEW t \in T PROVE \E q \in Q : f[q] = t
      OBVIOUS
    <3>1. <<t[1], t[3]>> \in Q /\ f[<<t[1], t[3]>>] = t
      OBVIOUS
    <3> QED BY <3>1
  <2>4. f \in Bijection(Q, T)
    BY <2>1, <2>2, <2>3, Fun_IsBij
  <2> QED BY <2>4 DEF ExistsBijection
<1>4. IsFiniteSet(T) /\ Cardinality(T) = Cardinality(Q)
  BY <1>2, <1>3, FS_Bijection
<1>5. \A c, d \in Nat : c * d = d * c
  OBVIOUS
<1> QED BY <1>1, <1>2, <1>4, <1>5

\* MsgChan never holds more than one message of each kind and other party of a party's
\* own round, and of the next.  That is three per other party in keygen and in signing,
\* so that its 100 places (message.go) are enough for 34 parties.
THEOREM MsgChanSuffices ==
    ASSUME Faults \cap {"dup", "crash"} = {}
    PROVE  Spec => []MsgChanNeverFull
<1>1. TypeOK /\ ContributionInv /\ Steady /\ EachOnce => MsgChanNeverFull
  <2> SUFFICES ASSUME TypeOK, ContributionInv, Steady, EachOnce, NEW n \in Nodes, NEW r \in Requests
               PROVE  Cardinality(inbox[n][r])
                         <= (PerRound(round[n][r]) + PerRound(round[n][r] + 1))
                              * Cardinality(r.parties \ {n})
    BY DEF MsgChanNeverFull, TypeOK
  <2> DEFINE P == r.parties \ {n}
             k == round[n][r]
             T(i) == P \X {i} \X KindsOf(i)
  <2>1. IsFiniteSet(P) /\ Cardinality(P) \in Nat
    <3>1. P \in SUBSET Nodes
      BY RequestFields
    <3> QED BY <3>1, FS_Subset, FS_CardinalityType, NodesAssumption
  <2>2. k \in Nat /\ k + 1 \in Nat
    BY RoundsAssumption DEF TypeOK
  <2>3. /\ IsFiniteSet(T(k)) /\ Cardinality(T(k)) = PerRound(k) * Cardinality(P)
        /\ IsFiniteSet(T(k + 1)) /\ Cardinality(T(k + 1)) = PerRound(k + 1) * Cardinality(P)
        /\ PerRound(k) \in Nat /\ PerRound(k + 1) \in Nat
    BY <2>1, <2>2, RoundSize, KindsFinite
  <2>4. T(k) \cap T(k + 1) = {}
    BY <2>2
  <2>5. IsFiniteSet(T(k) \cup T(k + 1))
        /\ Cardinality(T(k) \cup T(k + 1)) = Cardinality(T(k)) + Cardinality(T(k + 1))
    <3> HIDE DEF T
    <3>1. Cardinality(T(k) \cap T(k + 1)) = 0
      BY <2>4, FS_EmptySet
    <3>2. Cardinality(T(k)) \in Nat /\ Cardinality(T(k + 1)) \in Nat
      BY <2>3, FS_CardinalityType
    <3>3. \A a, b, c \in Nat : c = 0 => a + b - c = a + b
      OBVIOUS
    <3> QED BY <2>3, <3>1, <3>2, <3>3, FS_Union
  <2>6. inbox[n][r] \in SUBSET (T(k) \cup T(k + 1))
    BY WaitingRounds
  <2>7. Cardinality(inbox[n][r]) <= Cardinality(T(k) \cup T(k + 1))
    <3> HIDE DEF T
    <3> QED BY <2>5, <2>6, FS_Subset
  <2>8. \A a, b, c \in Nat : a * c + b * c = (a + b) * c
    OBVIOUS
  <2> QED
    <3> HIDE DEF T, P, k
    <3>1. Cardinality(inbox[n][r]) <= PerRound(k) * Cardinality(P) + PerRound(k + 1) * Cardinality(P)
      BY <2>3, <2>5, <2>7
    <3>2. PerRound(k) * Cardinality(P) + PerRound(k + 1) * Cardinality(P)
             = (PerRound(k) + PerRound(k + 1)) * Cardinality(P)
      BY <2>1, <2>3, <2>8
    <3>3. Cardinality(inbox[n][r]) <= (PerRound(k) + PerRound(k + 1)) * Cardinality(P)
      BY <3>1, <3>2
    <3> QED BY <3>3 DEF k, P
<1>2. TypeOK /\ BarrierInv /\ ContributionInv /\ Steady /\ EachOnce /\ [Next]_vars
         => Steady' /\ EachOnce'
  BY OnceStep, SteadyStep
<1> QED BY <1>1, <1>2, OnceInit, TypeCorrect, BarrierHolds, ContributionHolds, PTL DEF Spec

\* A party in round k has published all its messages up to round k - 2: another party
\* answered those of round k - 1, so it had all of round k - 2.
LEMMA LeftBehind ==
    ASSUME TypeOK, ContributionInv, Steady, NEW n \in Nodes, NEW r \in Requests,
           r.parties # {n}, NEW x \in outChan(n, r)
    PROVE  x[1] >= round[n][r] - 1
<1> DEFINE j == x[1]
           R == round[n][r]
<1>1. x \in Made(n, r) /\ x \notin sent[n][r]
  BY DEF outChan
<1>2. /\ x \in OutMsgs /\ x = <<j, x[2], x[3]>>
      /\ j \in 1..Rounds /\ j <= R /\ x[2] \in Sends[j]
      /\ x[2] = "p2p" => x[3] \in r.parties \ {n}
      /\ x[2] # "p2p" => x[3] = n
  BY <1>1, MadeShape
<1>3. R \in Nat
  BY RoundsAssumption DEF TypeOK
<1> SUFFICES ASSUME j < R - 1 PROVE FALSE
  BY <1>2, <1>3
<1>4. n \in r.parties
  <2>1. R # 0
    BY <1>2
  <2>2. status[n][r] # "none"
    BY <2>1 DEF ContributionInv, RoundsMean
  <2> QED BY <2>2 DEF Steady
<1>5. PICK p \in r.parties \ {n} : x[2] = "p2p" => p = x[3]
  BY <1>2, <1>4
<1>6. p \in Nodes /\ round[p][r] \in Nat
  BY RequestFields, RoundsAssumption DEF TypeOK
<1>7. R - 1 <= round[p][r]
  <2>1. R - 1 \in 1..R - 1
    BY <1>2, <1>3
  <2> QED BY <2>1, PastMeansReached
<1>8. j \in 1..round[p][r] - 1
  BY <1>2, <1>3, <1>6, <1>7
<1>9. <<n, j, x[2]>> \in got[p][r]
  <2>1. RoundOf(p, r, j) \subseteq got[p][r]
    BY <1>6, <1>8 DEF ContributionInv, RoundsMean
  <2> QED BY <1>2, <1>4, <2>1 DEF RoundOf
<1>10. Origin(p, <<n, j, x[2]>>) \in sent[<<n, j, x[2]>>[1]][r]
  BY <1>6, <1>9, StoredMeansReached
<1>11. Origin(p, <<n, j, x[2]>>) = x
  BY <1>2, <1>5 DEF Origin
<1> QED BY <1>1, <1>10, <1>11

\* outChan holds at most what its party sends in its own round and the one before: in
\* signing one message per other party and one to all, and then one per other party.
\* The 100 places (keygen.go, signing.go) are enough for 50 parties, so that the
\* goroutine which fills and empties it never waits for itself.
THEOREM OutChanSuffices ==
    ASSUME "crash" \notin Faults
    PROVE  Spec => []OutChanNeverFull
<1>1. TypeOK /\ ContributionInv /\ Steady => OutChanNeverFull
  <2> SUFFICES ASSUME TypeOK, ContributionInv, Steady, NEW n \in Nodes, NEW r \in Requests,
                      r.parties # {n}
               PROVE  \E k \in 0..Rounds + 1 :
                         outChan(n, r)
                            \subseteq UNION {Outgoing(n, r, j) : j \in {k, k + 1} \cap (1..Rounds)}
    BY DEF OutChanNeverFull
  <2> DEFINE k == IF round[n][r] = 0 THEN 0 ELSE round[n][r] - 1
  <2>1. round[n][r] \in Nat /\ k \in 0..Rounds + 1
    BY RoundsAssumption DEF TypeOK
  <2>2. ASSUME NEW x \in outChan(n, r)
        PROVE  x \in UNION {Outgoing(n, r, j) : j \in {k, k + 1} \cap (1..Rounds)}
    <3>1. x \in Made(n, r)
      BY DEF outChan
    <3>2. /\ x = <<x[1], x[2], x[3]>>
          /\ x[1] \in 1..Rounds /\ x[1] <= round[n][r]
      BY <3>1, MadeShape
    <3>3. x[1] >= round[n][r] - 1
      BY <2>2, LeftBehind
    <3>4. x[1] \in {k, k + 1} \cap (1..Rounds)
      BY <2>1, <3>2, <3>3
    <3>5. PICK i \in 1..round[n][r] \ {Rounds + 1} : x \in Outgoing(n, r, i)
      BY <3>1 DEF Made
    <3>6. x[1] = i
      BY <3>5 DEF Outgoing
    <3> QED BY <3>4, <3>5, <3>6
  <2> QED BY <2>1, <2>2
<1>2. TypeOK /\ BarrierInv /\ Steady /\ [Next]_vars => Steady'
  BY SteadyStep
<1> QED BY <1>1, <1>2, OnceInit, TypeCorrect, BarrierHolds, ContributionHolds, PTL DEF Spec
=============================================================================
