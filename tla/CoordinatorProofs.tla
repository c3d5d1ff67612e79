-------------------------- MODULE CoordinatorProofs --------------------------
(***************************************************************************)
(* Proofs about Coordinator for any nodes, requests, number of rounds,     *)
(* channel capacity and set of admitted faults.                            *)
(***************************************************************************)
EXTENDS Coordinator, TLAPS

USE DEF callerVars, pendingVars, partyVars, sessionVars

\* What is published by one call has the right shape.
LEMMA BroadcastSignal ==
    ASSUME NEW t \in {"init", "ready", "start"}, NEW r \in Requests, NEW n \in Nodes
    PROVE  Broadcast(t, r, n) \subseteq Signals
BY DEF Broadcast, Signals

LEMMA PublishRound ==
    ASSUME NEW r \in Requests, NEW n \in Nodes, NEW x \in OutMsgs
    PROVE  Publish(r, n, x) \subseteq RoundMessages
<1>1. x[1] \in 1..Rounds /\ x[2] \in Kinds /\ x[3] \in Nodes
  BY DEF OutMsgs
<1>2. Receivers(n, x) \subseteq Nodes
  BY <1>1 DEF Receivers
<1> QED BY <1>1, <1>2 DEF Publish, RoundMessages

\* A message carries a request and the names of nodes.
LEMMA MessageFields ==
    ASSUME NEW m \in Messages
    PROVE  /\ m.req \in Requests /\ m.from \in Nodes /\ m.to \in Nodes
           /\ m.type = "round" => m.round \in 1..Rounds /\ m.kind \in Kinds
BY DEF Messages, Signals, RoundMessages

\* The set of parties of a request is a set of nodes, its initiator is a node.
LEMMA RequestFields ==
    ASSUME NEW r \in Requests
    PROVE  r.initiator \in Nodes /\ r.parties \subseteq Nodes
BY RequestsAssumption

\* What a party sends in a round, and what it has made, are messages of outChan.
LEMMA OutgoingType ==
    ASSUME NEW n \in Nodes, NEW r \in Requests, NEW k \in 1..Rounds
    PROVE  Outgoing(n, r, k) \subseteq OutMsgs
BY RequestFields, SendsAssumption DEF Outgoing, OutMsgs, Kinds

LEMMA MadeType ==
    ASSUME TypeOK, NEW n \in Nodes, NEW r \in Requests
    PROVE  Made(n, r) \subseteq OutMsgs
<1>1. 1..round[n][r] \ {Rounds + 1} \subseteq 1..Rounds
  <2>1. round[n][r] \in 0..Rounds + 1
    BY DEF TypeOK
  <2>2. \A i \in 0..Rounds + 1 : \A k \in 1..i : k # Rounds + 1 => k \in 1..Rounds
    BY RoundsAssumption
  <2> QED BY <2>1, <2>2
<1>2. \A k \in 1..round[n][r] \ {Rounds + 1} : Outgoing(n, r, k) \subseteq OutMsgs
  BY <1>1, OutgoingType
<1>3. ASSUME NEW x \in Made(n, r)
      PROVE  x \in OutMsgs
  <2>1. PICK k \in 1..round[n][r] \ {Rounds + 1} : x \in Outgoing(n, r, k)
    BY <1>3 DEF Made
  <2> QED BY <1>2, <2>1
<1> QED BY <1>3

\* Type correctness, as an inductive invariant of its own.
THEOREM TypeInit == Init => TypeOK
BY RoundsAssumption DEF Init, TypeOK, Each, CallStates, Statuses, Records

\* Creating a session keeps the session variables typed.
LEMMA CreateSessionType ==
    ASSUME TypeOK, NEW n \in Nodes, NEW r \in Requests, CreateSession(n, r)
    PROVE  /\ status' \in [Nodes -> [Requests -> Statuses]]
           /\ startSig' \in [Nodes -> [Requests -> BOOLEAN]]
           /\ inbox' \in [Nodes -> [Requests -> SUBSET RoundMsgs]]
           /\ got' \in [Nodes -> [Requests -> SUBSET RoundMsgs]]
           /\ round' \in [Nodes -> [Requests -> 0..Rounds + 1]]
           /\ sent' \in [Nodes -> [Requests -> SUBSET OutMsgs]]
           /\ record' \in [Nodes -> [Requests -> Records]]
<1> USE DEF TypeOK, CreateSession
<1>1. status' \in [Nodes -> [Requests -> Statuses]]
  BY DEF Statuses
<1>2. startSig' \in [Nodes -> [Requests -> BOOLEAN]]
  OBVIOUS
<1>3. inbox' \in [Nodes -> [Requests -> SUBSET RoundMsgs]]
  OBVIOUS
<1>4. got' \in [Nodes -> [Requests -> SUBSET RoundMsgs]]
  OBVIOUS
<1>5. round' \in [Nodes -> [Requests -> 0..Rounds + 1]]
  BY RoundsAssumption
<1>6. sent' \in [Nodes -> [Requests -> SUBSET OutMsgs]]
  OBVIOUS
<1>7. record' \in [Nodes -> [Requests -> Records]]
  BY DEF Records
<1> QED BY <1>1, <1>2, <1>3, <1>4, <1>5, <1>6, <1>7

LEMMA TypeCaller ==
    ASSUME TypeOK, NEW r \in Requests, Register(r) \/ Pursue(r) \/ ClientGone(r)
    PROVE  TypeOK'
<1> USE RequestFields DEF TypeOK, CallStates, CallReturns
<1>1. CASE Register(r)
  BY <1>1 DEF Register, RegisterPending
<1>2. CASE BroadcastInit(r)
  BY <1>2, BroadcastSignal DEF BroadcastInit, Messages
<1>3. CASE PrepareLocal(r)
  <2>1. CASE CreateSession(r.initiator, r)
    BY <1>3, <2>1, CreateSessionType DEF PrepareLocal
  <2>2. CASE UNCHANGED sessionVars
    BY <1>3, <2>2 DEF PrepareLocal
  <2> QED BY <1>3, <2>1, <2>2 DEF PrepareLocal
<1>4. CASE MarkSelfReady(r)
  BY <1>4 DEF MarkSelfReady
<1>5. CASE waitForReady(r)
  BY <1>5 DEF waitForReady
<1>6. CASE BroadcastStart(r)
  BY <1>6, BroadcastSignal DEF BroadcastStart, Messages
<1>7. CASE StartLocal(r)
  BY <1>7 DEF StartLocal, Start
<1>8. CASE WaitForCompletion(r)
  BY <1>8 DEF WaitForCompletion
<1>9. CASE ClientGone(r)
  BY <1>9 DEF ClientGone
<1> QED BY <1>1, <1>2, <1>3, <1>4, <1>5, <1>6, <1>7, <1>8, <1>9 DEF Pursue

\* A change of one entry of ReadyNodes keeps ready typed.
LEMMA ReadyType ==
    ASSUME TypeOK, NEW n \in Nodes, NEW r \in Requests, NEW S \in SUBSET Nodes
    PROVE  [ready EXCEPT ![n][r] = S] \in [Nodes -> [Requests -> SUBSET Nodes]]
BY DEF TypeOK

LEMMA TypeHandle ==
    ASSUME TypeOK, NEW m \in net, Handle(m) \/ Lose(m)
    PROVE  TypeOK'
<1>0. /\ m \in Messages
      /\ m.req \in Requests /\ m.from \in Nodes /\ m.to \in Nodes
      /\ m.type = "round" => m.round \in 1..Rounds /\ m.kind \in Kinds
  BY MessageFields DEF TypeOK
<1> USE DEF TypeOK, Receive
<1>1. CASE HandleInit(m)
  <2>1. Broadcast("ready", m.req, m.to) \subseteq Messages
    BY <1>0, BroadcastSignal DEF Messages
  <2>2. net' \in SUBSET Messages
    BY <1>1, <2>1 DEF HandleInit, PrepareAndAnswer
  <2>3. known' \in [Nodes -> SUBSET Requests] /\ ready' \in [Nodes -> [Requests -> SUBSET Nodes]]
    <3>1. CASE UNCHANGED pendingVars
      BY <3>1
    <3>2. CASE RegisterPending(m.to, m.req)
      <4>1. known' \in [Nodes -> SUBSET Requests]
        BY <1>0, <3>2 DEF RegisterPending
      <4>2. ready' \in [Nodes -> [Requests -> SUBSET Nodes]]
        BY <1>0, <3>2, ReadyType DEF RegisterPending
      <4> QED BY <4>1, <4>2
    <3> QED BY <1>1, <3>1, <3>2 DEF HandleInit, PrepareAndAnswer
  <2>4. CASE UNCHANGED sessionVars
    BY <1>1, <2>2, <2>3, <2>4 DEF HandleInit, PrepareAndAnswer
  <2>5. CASE CreateSession(m.to, m.req)
    <3>1. UNCHANGED <<up, callerVars>>
      BY <1>1 DEF HandleInit, PrepareAndAnswer
    <3> QED BY <1>0, <2>2, <2>3, <2>5, <3>1, CreateSessionType
  <2> QED BY <1>1, <2>4, <2>5 DEF HandleInit, PrepareAndAnswer
<1>2. CASE HandleReady(m)
  <2>1. ready[m.to][m.req] \cup {m.from} \in SUBSET Nodes
    BY <1>0
  <2>2. ready' \in [Nodes -> [Requests -> SUBSET Nodes]]
    BY <1>0, <1>2, <2>1, ReadyType DEF HandleReady
  <2> QED BY <1>2, <2>2 DEF HandleReady
<1>3. CASE HandleStart(m)
  <2>1. startSig' \in [Nodes -> [Requests -> BOOLEAN]]
    <3>1. CASE Start(m.to, m.req)
      BY <1>0, <3>1 DEF Start
    <3>2. CASE UNCHANGED startSig
      BY <3>2
    <3> QED BY <1>3, <3>1, <3>2 DEF HandleStart
  <2> QED BY <1>3, <2>1 DEF HandleStart
<1>4. CASE routeToSession(m)
  BY <1>0, <1>4 DEF routeToSession, RoundMsgs, Entry
<1>5. CASE Lose(m)
  BY <1>5 DEF Lose
<1> QED
  BY <1>1, <1>2, <1>3, <1>4, <1>5
  DEF Handle, handleKeygenInit, handleSignInit, handleKeygenReady, handleSignReady,
      handleKeygenStart, handleSignStart

LEMMA TypeRun ==
    ASSUME TypeOK, NEW n \in Nodes, NEW r \in Requests, RunSteps(n, r)
    PROVE  TypeOK'
<1> USE RoundsAssumption DEF TypeOK
<1>1. CASE BeginRounds(n, r)
  BY <1>1 DEF BeginRounds, Statuses
<1>2. CASE sendMessage(n, r)
  <2>1. PICK x \in outChan(n, r) :
            /\ sent' = [sent EXCEPT ![n][r] = @ \cup {x}]
            /\ net' \subseteq net \cup Publish(r, n, x)
    BY <1>2 DEF sendMessage, Foremost
  <2>2. x \in OutMsgs
    BY <2>1, MadeType DEF outChan
  <2>3. Publish(r, n, x) \subseteq Messages
    BY <2>2, PublishRound DEF Messages
  <2>4. sent' \in [Nodes -> [Requests -> SUBSET OutMsgs]]
    BY <2>1, <2>2
  <2> QED BY <1>2, <2>1, <2>3, <2>4 DEF sendMessage
<1>3. CASE handleMessage(n, r)
  <2>1. PICK x \in inbox[n][r] :
            /\ inbox' = [inbox EXCEPT ![n][r] = @ \ {x}]
            /\ PartyUpdate(n, r, x)
    BY <1>3 DEF handleMessage
  <2>2. x \in RoundMsgs
    OBVIOUS
  <2>3. got' \in [Nodes -> [Requests -> SUBSET RoundMsgs]]
    BY <2>1, <2>2 DEF PartyUpdate
  <2>4. PICK k \in round[n][r]..Rounds + 1 : round' = [round EXCEPT ![n][r] = k]
    BY <2>1 DEF PartyUpdate
  <2>5. round' \in [Nodes -> [Requests -> 0..Rounds + 1]]
    BY <2>4
  <2>6. inbox' \in [Nodes -> [Requests -> SUBSET RoundMsgs]]
    BY <2>1
  <2> QED BY <1>3, <2>3, <2>5, <2>6 DEF handleMessage
<1>4. CASE handleSuccess(n, r)
  BY <1>4 DEF handleSuccess, Statuses
<1>5. CASE handleError(n, r)
  BY <1>5 DEF handleError, Statuses
<1>6. CASE UpdateSession(n, r)
  <2>1. PICK v \in Records : record' = [record EXCEPT ![n][r] = v]
    BY <1>6 DEF UpdateSession, Records
  <2>2. record' \in [Nodes -> [Requests -> Records]]
    BY <2>1
  <2> QED BY <1>6, <2>2 DEF UpdateSession
<1> QED BY <1>1, <1>2, <1>3, <1>4, <1>5, <1>6 DEF RunSteps

LEMMA TypeProcess ==
    ASSUME TypeOK, NEW n \in Nodes, Crash(n) \/ Restart(n)
    PROVE  TypeOK'
<1>1. CASE Crash(n)
  <2>1. call' \in [Requests -> CallStates]
    BY <1>1 DEF TypeOK, Crash, CallStates
  <2>2. status' \in [Nodes -> [Requests -> Statuses]]
    BY <1>1 DEF TypeOK, Crash, Statuses
  <2>3. /\ startSig' \in [Nodes -> [Requests -> BOOLEAN]]
        /\ inbox' \in [Nodes -> [Requests -> SUBSET RoundMsgs]]
        /\ ready' \in [Nodes -> [Requests -> SUBSET Nodes]]
    BY <1>1 DEF TypeOK, Crash
  <2> QED BY <1>1, <2>1, <2>2, <2>3 DEF TypeOK, Crash
<1>2. CASE Restart(n)
  BY <1>2 DEF TypeOK, Restart
<1> QED BY <1>1, <1>2

LEMMA TypeStep == TypeOK /\ [Next]_vars => TypeOK'
<1> SUFFICES ASSUME TypeOK, [Next]_vars PROVE TypeOK'
  OBVIOUS
<1>1. CASE UNCHANGED vars
  BY <1>1 DEF TypeOK, vars
<1>2. ASSUME NEW r \in Requests, InitiateKeygen(r) \/ InitiateSign(r) \/ ClientGone(r)
      PROVE  TypeOK'
  BY <1>2, TypeCaller DEF InitiateKeygen, InitiateSign
<1>3. ASSUME NEW m \in net, Handle(m) \/ Lose(m)
      PROVE  TypeOK'
  BY <1>3, TypeHandle
<1>4. ASSUME NEW n \in Nodes, NEW r \in Requests, KeygenRun(n, r) \/ SigningRun(n, r)
      PROVE  TypeOK'
  BY <1>4, TypeRun DEF KeygenRun, SigningRun
<1>5. ASSUME NEW n \in Nodes, Crash(n) \/ Restart(n)
      PROVE  TypeOK'
  BY <1>5, TypeProcess
<1> QED BY <1>1, <1>2, <1>3, <1>4, <1>5 DEF Next

\* Every variable keeps its type in every behaviour of the session protocol.
THEOREM TypeCorrect == Spec => []TypeOK
BY TypeInit, TypeStep, PTL DEF Spec

-----------------------------------------------------------------------------
(* The barrier.                                                            *)

USE DEF EverPrepared, AllPrepared, ReadyMeansPrepared, MessagesMean, CallMeans,
        SignalMeansAllPrepared, KilledMeansDied, StartOnlyAfterAllPrepared

\* One entry of a table of the sessions, replaced.
LEMMA EntryReplaced ==
    ASSUME NEW S, NEW F \in [Nodes -> [Requests -> S]], NEW n \in Nodes, NEW r \in Requests, NEW v
    PROVE  \A p \in Nodes, q \in Requests :
              [F EXCEPT ![n][r] = v][p][q] = IF p = n /\ q = r THEN v ELSE F[p][q]
OBVIOUS

\* A session variable row, updated at one place.
LEMMA StatusUpdate ==
    ASSUME TypeOK, NEW n \in Nodes, NEW r \in Requests, NEW x, x # "none",
           status' = [status EXCEPT ![n][r] = x]
    PROVE  /\ \A p \in Nodes, q \in Requests :
                 status'[p][q] = IF p = n /\ q = r THEN x ELSE status[p][q]
           /\ \A p \in Nodes, q \in Requests : EverPrepared(p, q) => EverPrepared(p, q)'
           /\ \A p \in Nodes, q \in Requests :
                 EverPrepared(p, q)' => EverPrepared(p, q) \/ (p = n /\ q = r)
BY DEF TypeOK, EverPrepared

\* What a crash leaves of the sessions of a node.
LEMMA CrashRows ==
    ASSUME TypeOK, NEW n \in Nodes, Crash(n)
    PROVE  /\ \A p \in Nodes, q \in Requests :
                 status'[p][q] = IF p = n /\ status[p][q] # "none" THEN "killed" ELSE status[p][q]
           /\ \A p \in Nodes, q \in Requests : startSig'[p][q] => startSig[p][q]
           /\ \A p \in Nodes, q \in Requests : ready'[p][q] \subseteq ready[p][q]
           /\ \A p \in Nodes : up'[p] = IF p = n THEN "down" ELSE up[p]
<1> USE DEF Crash, TypeOK
<1>1. ASSUME NEW p \in Nodes, NEW q \in Requests
      PROVE  status'[p][q] = IF p = n /\ status[p][q] # "none" THEN "killed" ELSE status[p][q]
  <2>1. CASE p = n
    <3>1. status'[n] = [r \in Requests |-> IF status[n][r] = "none" THEN "none" ELSE "killed"]
      OBVIOUS
    <3> QED BY <2>1, <3>1
  <2>2. CASE p # n
    BY <2>2
  <2> QED BY <2>1, <2>2
<1>2. ASSUME NEW p \in Nodes, NEW q \in Requests
      PROVE  startSig'[p][q] => startSig[p][q]
  <2>1. startSig'[p] = IF p = n THEN [r \in Requests |-> FALSE] ELSE startSig[p]
    OBVIOUS
  <2> QED BY <2>1
<1>3. ASSUME NEW p \in Nodes, NEW q \in Requests
      PROVE  ready'[p][q] \subseteq ready[p][q]
  <2>1. ready'[p] = IF p = n THEN [r \in Requests |-> {}] ELSE ready[p]
    OBVIOUS
  <2> QED BY <2>1
<1> QED BY <1>1, <1>2, <1>3

\* Preparation is never undone: the fact the whole barrier rests on.
LEMMA PreparationStays ==
    ASSUME TypeOK, [Next]_vars
    PROVE  \A p \in Nodes, q \in Requests : EverPrepared(p, q) => EverPrepared(p, q)'
<1>1. CASE UNCHANGED status
  BY <1>1 DEF EverPrepared
<1>2. ASSUME NEW n \in Nodes, NEW r \in Requests, CreateSession(n, r)
      PROVE  \A p \in Nodes, q \in Requests : EverPrepared(p, q) => EverPrepared(p, q)'
  BY <1>2, StatusUpdate DEF CreateSession
<1>3. ASSUME NEW r \in Requests, InitiateKeygen(r) \/ InitiateSign(r) \/ ClientGone(r)
      PROVE  \A p \in Nodes, q \in Requests : EverPrepared(p, q) => EverPrepared(p, q)'
  <2>1. UNCHANGED status \/ CreateSession(r.initiator, r)
    BY <1>3 DEF InitiateKeygen, InitiateSign, Register, Pursue, BroadcastInit, PrepareLocal,
                MarkSelfReady, waitForReady, BroadcastStart, StartLocal, WaitForCompletion,
                ClientGone
  <2> QED BY <1>1, <1>2, <2>1, RequestFields
<1>4. ASSUME NEW m \in net, Handle(m) \/ Lose(m)
      PROVE  \A p \in Nodes, q \in Requests : EverPrepared(p, q) => EverPrepared(p, q)'
  <2>1. m.to \in Nodes /\ m.req \in Requests
    BY MessageFields DEF TypeOK
  <2>2. UNCHANGED status \/ CreateSession(m.to, m.req)
    BY <1>4 DEF Handle, handleKeygenInit, handleSignInit, handleKeygenReady, handleSignReady,
                handleKeygenStart, handleSignStart, HandleInit, PrepareAndAnswer, HandleReady, HandleStart,
                routeToSession, Lose
  <2> QED BY <1>1, <1>2, <2>1, <2>2
<1>5. ASSUME NEW n \in Nodes, NEW r \in Requests, KeygenRun(n, r) \/ SigningRun(n, r)
      PROVE  \A p \in Nodes, q \in Requests : EverPrepared(p, q) => EverPrepared(p, q)'
  <2>1. \/ UNCHANGED status
        \/ \E x \in {"running", "completed", "failed"} : status' = [status EXCEPT ![n][r] = x]
    BY <1>5 DEF KeygenRun, SigningRun, RunSteps, BeginRounds, sendMessage, handleMessage,
                handleSuccess, handleError, UpdateSession
  <2> QED BY <1>1, <2>1, StatusUpdate
<1>6. ASSUME NEW n \in Nodes, Crash(n) \/ Restart(n)
      PROVE  \A p \in Nodes, q \in Requests : EverPrepared(p, q) => EverPrepared(p, q)'
  BY <1>1, <1>6, CrashRows DEF Restart, EverPrepared
<1>7. CASE UNCHANGED vars
  BY <1>1, <1>7 DEF vars
<1> QED BY <1>3, <1>4, <1>5, <1>6, <1>7 DEF Next

LEMMA BarrierInit == Init => BarrierInv
BY RequestFields DEF Init, BarrierInv, Each

LEMMA AllPreparedStays ==
    ASSUME TypeOK, [Next]_vars
    PROVE  \A r \in Requests : AllPrepared(r) => AllPrepared(r)'
BY PreparationStays, RequestFields DEF AllPrepared

\* A call moves on while the sessions stay as they are.
LEMMA CallMoves ==
    ASSUME TypeOK, CallMeans, UNCHANGED status, NEW r \in Requests, NEW x,
           call' = [call EXCEPT ![r] = x],
           \/ x \in {"ok", "error", "await", "waiting"}
           \/ x = "prepare" /\ call[r] = "init"
           \/ x = "launch" /\ call[r] = "start"
    PROVE  CallMeans'
<1>1. /\ \A q \in Requests : q # r => call'[q] = call[q]
      /\ call'[r] = x
  BY DEF TypeOK
<1>2. ASSUME NEW q \in Requests
      PROVE  /\ call'[q] \in {"idle", "init", "prepare"} => ~EverPrepared(q.initiator, q)
             /\ call'[q] = "mark" => EverPrepared(q.initiator, q)
             /\ call'[q] \in {"start", "launch"} => AllPrepared(q)
  BY <1>1
<1> QED BY <1>2

LEMMA NextCaller ==
    ASSUME NEW r \in Requests, Register(r) \/ Pursue(r) \/ ClientGone(r)
    PROVE  [Next]_vars
BY RequestsAssumption DEF Next, InitiateKeygen, InitiateSign

LEMMA BarrierCaller ==
    ASSUME TypeOK, BarrierInv, NEW r \in Requests, Register(r) \/ Pursue(r) \/ ClientGone(r)
    PROVE  BarrierInv'
<1>0. /\ [Next]_vars
      /\ r.initiator \in Nodes /\ r.parties \subseteq Nodes
      /\ \A p \in Nodes, q \in Requests : EverPrepared(p, q) => EverPrepared(p, q)'
      /\ \A q \in Requests : AllPrepared(q) => AllPrepared(q)'
      /\ \A q \in Requests : q.initiator \in Nodes
      /\ \A m \in net : m.from \in Nodes /\ m.to \in Nodes /\ m.req \in Requests
  BY NextCaller, RequestFields, PreparationStays, AllPreparedStays, MessageFields DEF TypeOK
<1>s. ASSUME UNCHANGED status PROVE \A p \in Nodes, q \in Requests : EverPrepared(p, q)' <=> EverPrepared(p, q)
  BY <1>s DEF EverPrepared
<1> USE DEF BarrierInv, CallReturns
<1>1. CASE Register(r)
  BY <1>0, <1>1, <1>s DEF Register, RegisterPending, TypeOK
<1>2. CASE BroadcastInit(r)
  <2>1. UNCHANGED <<up, status, ready, startSig>>
    BY <1>2 DEF BroadcastInit
  <2>2. CallMeans'
    BY <1>2, <2>1, CallMoves DEF BroadcastInit
  <2>3. MessagesMean'
    BY <1>0, <1>2, <2>1 DEF BroadcastInit, Broadcast
  <2> QED BY <1>0, <2>1, <2>2, <2>3
<1>3. CASE PrepareLocal(r)
  <2>1. CASE CreateSession(r.initiator, r)
    <3>1. /\ status' = [status EXCEPT ![r.initiator][r] = "pending"]
          /\ startSig' = [startSig EXCEPT ![r.initiator][r] = FALSE]
          /\ UNCHANGED <<ready, net, up>>
      BY <1>3, <2>1 DEF PrepareLocal, CreateSession
    <3>2. /\ call[r] = "prepare"
          /\ \A q \in Requests : q # r => call'[q] = call[q]
          /\ call'[r] \in {"mark", "error"}
      BY <1>3 DEF PrepareLocal, TypeOK
    <3>3. /\ EverPrepared(r.initiator, r)'
          /\ \A p \in Nodes, q \in Requests : q # r => (EverPrepared(p, q)' <=> EverPrepared(p, q))
          /\ \A p \in Nodes, q \in Requests :
                status'[p][q] = status[p][q] \/ status'[p][q] = "pending"
      <4>1. \A p \in Nodes, q \in Requests :
               status'[p][q] = IF p = r.initiator /\ q = r THEN "pending" ELSE status[p][q]
        BY <1>0, <3>1, EntryReplaced DEF TypeOK
      <4> QED BY <1>0, <4>1
    <3>4. \A p \in Nodes, q \in Requests : startSig'[p][q] => startSig[p][q]
      BY <1>0, <3>1, EntryReplaced DEF TypeOK
    <3>5. \A q \in Requests :
             /\ call'[q] \in {"idle", "init", "prepare"} => ~EverPrepared(q.initiator, q)'
             /\ call'[q] = "mark" => EverPrepared(q.initiator, q)'
             /\ call'[q] \in {"start", "launch"} => AllPrepared(q)'
      BY <1>0, <3>2, <3>3
    <3> QED BY <1>0, <3>1, <3>3, <3>4, <3>5
  <2>2. CASE UNCHANGED sessionVars
    <3>1. UNCHANGED <<up, status, ready, startSig, net>>
      BY <1>3, <2>2 DEF PrepareLocal
    <3>2. CallMeans'
      <4>1. CASE call' = [call EXCEPT ![r] = "error"]
        BY <3>1, <4>1, CallMoves
      <4>2. CASE CreateSession(r.initiator, r)
        <5>1. status' = status /\ status' = [status EXCEPT ![r.initiator][r] = "pending"]
          BY <3>1, <4>2 DEF CreateSession
        <5>2. status[r.initiator][r] = "pending"
          BY <1>0, <5>1 DEF TypeOK
        <5>3. call[r] = "prepare"
          BY <1>3 DEF PrepareLocal
        <5> QED BY <5>2, <5>3
      <4> QED BY <1>3, <4>1, <4>2 DEF PrepareLocal
    <3> QED BY <1>0, <3>1, <3>2
  <2> QED BY <1>3, <2>1, <2>2 DEF PrepareLocal
<1>4. CASE MarkSelfReady(r)
  BY <1>0, <1>4, <1>s DEF MarkSelfReady, TypeOK
<1>5. CASE waitForReady(r)
  <2>1. /\ \A q \in Requests : q # r => call'[q] = call[q]
        /\ \/ call'[r] = "error"
           \/ call'[r] = "start" /\ r.parties \subseteq ready[r.initiator][r]
        /\ UNCHANGED <<ready, net, up, status, startSig>>
    BY <1>5 DEF waitForReady, TypeOK
  <2>2. call'[r] = "start" => AllPrepared(r)
    BY <1>0, <2>1 DEF AllPrepared
  <2>3. \A q \in Requests :
           /\ call'[q] \in {"idle", "init", "prepare"} => ~EverPrepared(q.initiator, q)'
           /\ call'[q] = "mark" => EverPrepared(q.initiator, q)'
           /\ call'[q] \in {"start", "launch"} => AllPrepared(q)'
    BY <1>0, <1>s, <2>1, <2>2
  <2> QED BY <1>0, <1>s, <2>1, <2>3
<1>6. CASE BroadcastStart(r)
  <2>1. UNCHANGED <<up, status, ready, startSig>>
    BY <1>6 DEF BroadcastStart
  <2>2. CallMeans'
    BY <1>6, <2>1, CallMoves DEF BroadcastStart
  <2>3. MessagesMean'
    BY <1>0, <1>6, <2>1 DEF BroadcastStart, Broadcast
  <2> QED BY <1>0, <2>1, <2>2, <2>3
<1>7. CASE StartLocal(r)
  BY <1>0, <1>7, <1>s DEF StartLocal, Start, TypeOK
<1>8. CASE WaitForCompletion(r)
  <2>1. UNCHANGED <<up, status, ready, startSig, net>>
    BY <1>8 DEF WaitForCompletion
  <2>2. CallMeans'
    BY <1>8, <2>1, CallMoves DEF WaitForCompletion
  <2> QED BY <1>0, <2>1, <2>2
<1>9. CASE ClientGone(r)
  BY <1>0, <1>9, <1>s DEF ClientGone, TypeOK
<1> QED BY <1>1, <1>2, <1>3, <1>4, <1>5, <1>6, <1>7, <1>8, <1>9 DEF Pursue

LEMMA BarrierHandle ==
    ASSUME TypeOK, BarrierInv, NEW m \in net, Handle(m) \/ Lose(m)
    PROVE  BarrierInv'
<1>0. /\ [Next]_vars
      /\ m.from \in Nodes /\ m.to \in Nodes /\ m.req \in Requests
      /\ \A p \in Nodes, q \in Requests : EverPrepared(p, q) => EverPrepared(p, q)'
      /\ \A q \in Requests : AllPrepared(q) => AllPrepared(q)'
      /\ \A q \in Requests : q.initiator \in Nodes
      /\ \A x \in net : x.from \in Nodes /\ x.to \in Nodes /\ x.req \in Requests
  <2>1. [Next]_vars
    BY DEF Next
  <2> QED BY <2>1, RequestFields, PreparationStays, AllPreparedStays, MessageFields DEF TypeOK
<1>s. ASSUME UNCHANGED status
      PROVE  \A p \in Nodes, q \in Requests : EverPrepared(p, q)' <=> EverPrepared(p, q)
  BY <1>s DEF EverPrepared
<1> USE DEF BarrierInv
<1>1. CASE HandleInit(m)
  <2>1. /\ m.to # m.req.initiator
        /\ UNCHANGED <<call, up>>
        /\ \/ net' \subseteq net
           \/ /\ net' \subseteq net \cup Broadcast("ready", m.req, m.to)
              /\ m.to \in m.req.parties /\ HasSession(m.to, m.req)'
    <3>1. m.to # m.req.initiator /\ UNCHANGED <<call, up>>
      BY <1>1 DEF HandleInit, PrepareAndAnswer
    <3>2. CreateSession(m.to, m.req) => HasSession(m.to, m.req)'
      BY <1>0 DEF CreateSession, HasSession, TypeOK
    <3>3. HasSession(m.to, m.req) /\ UNCHANGED sessionVars => HasSession(m.to, m.req)'
      BY DEF HasSession
    <3> QED BY <1>1, <3>1, <3>2, <3>3 DEF HandleInit, PrepareAndAnswer, Receive
  <2>2. \A p \in Nodes, q \in Requests : ready'[p][q] \subseteq ready[p][q]
    <3>1. CASE UNCHANGED pendingVars
      BY <3>1
    <3>2. CASE RegisterPending(m.to, m.req)
      BY <1>0, <3>2, EntryReplaced DEF RegisterPending, TypeOK
    <3> QED BY <1>1, <3>1, <3>2 DEF HandleInit, PrepareAndAnswer
  <2>3. HasSession(m.to, m.req)' => EverPrepared(m.to, m.req)'
    BY DEF HasSession, EverPrepared
  <2>4. \A x \in net' :
          /\ x.type = "ready" => EverPrepared(x.from, x.req)'
          /\ x.type \in {"start", "round"} => AllPrepared(x.req)'
          /\ x.type = "init" => x.to # x.req.initiator
    BY <1>0, <2>1, <2>3 DEF Broadcast
  <2>5. CASE UNCHANGED sessionVars
    BY <1>0, <1>s, <2>1, <2>2, <2>4, <2>5
  <2>6. CASE CreateSession(m.to, m.req)
    <3>1. /\ status' = [status EXCEPT ![m.to][m.req] = "pending"]
          /\ startSig' = [startSig EXCEPT ![m.to][m.req] = FALSE]
      BY <2>6 DEF CreateSession
    <3>2. /\ \A p \in Nodes, q \in Requests :
                status'[p][q] = status[p][q] \/ status'[p][q] = "pending"
          /\ \A q \in Requests : EverPrepared(q.initiator, q)' <=> EverPrepared(q.initiator, q)
      BY <1>0, <2>1, <3>1, StatusUpdate
    <3>3. \A p \in Nodes, q \in Requests : startSig'[p][q] => startSig[p][q]
      BY <1>0, <3>1, EntryReplaced DEF TypeOK
    <3>4. ReadyMeansPrepared'
      <4>1. ASSUME NEW p \in Nodes, NEW q \in Requests, NEW x \in ready'[p][q]
            PROVE  EverPrepared(x, q)'
        <5>1. x \in ready[p][q] /\ x \in Nodes
          BY <2>2, <4>1 DEF TypeOK
        <5> QED BY <1>0, <5>1
      <4> QED BY <4>1
    <3>7. MessagesMean'
      BY <2>4
    <3>6. CallMeans'
      BY <1>0, <2>1, <3>2
    <3>5. SignalMeansAllPrepared' /\ KilledMeansDied' /\ StartOnlyAfterAllPrepared'
      BY <1>0, <2>1, <3>2, <3>3
    <3> QED BY <3>4, <3>5, <3>6, <3>7
  <2> QED BY <1>1, <2>5, <2>6 DEF HandleInit, PrepareAndAnswer
<1>2. CASE HandleReady(m)
  <2>1. /\ EverPrepared(m.from, m.req)
        /\ net' \subseteq net
        /\ UNCHANGED <<call, up, status, startSig>>
    BY <1>2 DEF HandleReady, Receive
  <2>2. \A p \in Nodes, q \in Requests :
           ready'[p][q] \subseteq ready[p][q] \cup (IF q = m.req THEN {m.from} ELSE {})
    BY <1>0, <1>2 DEF HandleReady, TypeOK
  <2> QED BY <1>0, <1>s, <2>1, <2>2
<1>3. CASE HandleStart(m)
  <2>1. /\ AllPrepared(m.req)
        /\ net' \subseteq net
        /\ UNCHANGED <<call, up, status, ready>>
    BY <1>3 DEF HandleStart, Receive
  <2>2. \A p \in Nodes, q \in Requests : startSig'[p][q] => startSig[p][q] \/ q = m.req
    <3>1. CASE UNCHANGED startSig
      BY <3>1
    <3>2. CASE Start(m.to, m.req)
      BY <1>0, <3>2, EntryReplaced DEF Start, TypeOK
    <3> QED BY <1>3, <3>1, <3>2 DEF HandleStart
  <2> QED BY <1>0, <1>s, <2>1, <2>2
<1>4. CASE routeToSession(m)
  BY <1>0, <1>4, <1>s DEF routeToSession, Receive
<1>5. CASE Lose(m)
  BY <1>0, <1>5, <1>s DEF Lose
<1> QED
  BY <1>1, <1>2, <1>3, <1>4, <1>5
  DEF Handle, handleKeygenInit, handleSignInit, handleKeygenReady, handleSignReady,
      handleKeygenStart, handleSignStart

LEMMA BarrierRun ==
    ASSUME TypeOK, BarrierInv, NEW n \in Nodes, NEW r \in Requests, RunSteps(n, r)
    PROVE  BarrierInv'
<1>0. /\ [Next]_vars
      /\ \A p \in Nodes, q \in Requests : EverPrepared(p, q) => EverPrepared(p, q)'
      /\ \A q \in Requests : AllPrepared(q) => AllPrepared(q)'
      /\ \A q \in Requests : q.initiator \in Nodes
      /\ \A x \in net : x.from \in Nodes /\ x.to \in Nodes /\ x.req \in Requests
  <2>1. [Next]_vars
    BY RequestsAssumption DEF Next, KeygenRun, SigningRun
  <2> QED BY <2>1, RequestFields, PreparationStays, AllPreparedStays, MessageFields DEF TypeOK
<1>1. ASSUME NEW x \in {"running", "completed", "failed"},
             HasSession(n, r),
             x \in {"running", "completed"} => AllPrepared(r),
             status' = [status EXCEPT ![n][r] = x],
             \A p \in Nodes, q \in Requests : startSig'[p][q] => startSig[p][q],
             UNCHANGED <<up, call, ready, net>>
      PROVE  BarrierInv'
  <2>1. \A p \in Nodes, q \in Requests :
           /\ EverPrepared(p, q)' <=> EverPrepared(p, q)
           /\ status'[p][q] = IF p = n /\ q = r THEN x ELSE status[p][q]
    <3>1. \A p \in Nodes, q \in Requests :
             status'[p][q] = IF p = n /\ q = r THEN x ELSE status[p][q]
      BY <1>1, EntryReplaced DEF TypeOK
    <3> QED BY <1>1, <3>1 DEF HasSession
  <2> QED BY <1>0, <1>1, <2>1 DEF BarrierInv
<1>s. ASSUME UNCHANGED status
      PROVE  \A p \in Nodes, q \in Requests : EverPrepared(p, q)' <=> EverPrepared(p, q)
  BY <1>s DEF EverPrepared
<1>2. CASE BeginRounds(n, r)
  <2>1. AllPrepared(r) /\ HasSession(n, r)
    BY <1>2 DEF BeginRounds, BarrierInv, HasSession
  <2>2. \A p \in Nodes, q \in Requests : startSig'[p][q] => startSig[p][q]
    BY <1>2 DEF BeginRounds, TypeOK
  <2> QED BY <1>1, <1>2, <2>1, <2>2 DEF BeginRounds
<1>3. CASE sendMessage(n, r)
  <2>1. AllPrepared(r)
    BY <1>3 DEF sendMessage, BarrierInv
  <2>2. /\ UNCHANGED <<up, call, ready, status, startSig>>
        /\ \E x : net' \subseteq net \cup Publish(r, n, x)
    BY <1>3 DEF sendMessage
  <2>3. \A x \in net' :
          /\ x.type = "ready" => EverPrepared(x.from, x.req)
          /\ x.type \in {"start", "round"} => AllPrepared(x.req)
          /\ x.type = "init" => x.to # x.req.initiator
          /\ x.from \in Nodes /\ x.req \in Requests
    BY <1>0, <2>1, <2>2 DEF BarrierInv, Publish
  <2> QED BY <1>0, <1>s, <2>2, <2>3 DEF BarrierInv
<1>4. CASE handleMessage(n, r)
  BY <1>0, <1>4, <1>s DEF handleMessage, BarrierInv
<1>5. CASE handleSuccess(n, r)
  <2>1. AllPrepared(r) /\ HasSession(n, r)
    BY <1>5 DEF handleSuccess, BarrierInv, HasSession
  <2> QED BY <1>1, <1>5, <2>1 DEF handleSuccess
<1>6. CASE handleError(n, r)
  BY <1>1, <1>6 DEF handleError, HasSession
<1>7. CASE UpdateSession(n, r)
  BY <1>0, <1>7, <1>s DEF UpdateSession, BarrierInv
<1> QED BY <1>2, <1>3, <1>4, <1>5, <1>6, <1>7 DEF RunSteps

LEMMA BarrierProcess ==
    ASSUME TypeOK, BarrierInv, NEW n \in Nodes, Crash(n) \/ Restart(n)
    PROVE  BarrierInv'
<1>0. /\ [Next]_vars
      /\ \A p \in Nodes, q \in Requests : EverPrepared(p, q) => EverPrepared(p, q)'
      /\ \A q \in Requests : AllPrepared(q) => AllPrepared(q)'
      /\ \A q \in Requests : q.initiator \in Nodes
      /\ \A x \in net : x.from \in Nodes /\ x.to \in Nodes /\ x.req \in Requests
  <2>1. [Next]_vars
    BY DEF Next
  <2> QED BY <2>1, RequestFields, PreparationStays, AllPreparedStays, MessageFields DEF TypeOK
<1>1. CASE Crash(n)
  <2>1. \A p \in Nodes, q \in Requests : EverPrepared(p, q)' <=> EverPrepared(p, q)
    BY <1>1, CrashRows DEF EverPrepared
  <2>2. \A q \in Requests : call'[q] = call[q] \/ call'[q] = "killed"
    BY <1>1 DEF Crash
  <2>3. UNCHANGED net
    BY <1>1 DEF Crash
  <2>4. ReadyMeansPrepared'
    <3>1. ASSUME NEW p \in Nodes, NEW q \in Requests, NEW x \in ready'[p][q]
          PROVE  EverPrepared(x, q)'
      <4>1. x \in ready[p][q] /\ x \in Nodes
        BY <1>1, <3>1, CrashRows DEF TypeOK
      <4> QED BY <1>0, <4>1 DEF BarrierInv
    <3> QED BY <3>1
  <2>8. MessagesMean'
    BY <1>0, <2>3 DEF BarrierInv
  <2>7. CallMeans'
    BY <1>0, <2>1, <2>2 DEF BarrierInv
  <2>5. KilledMeansDied'
    BY <1>0, <1>1, CrashRows DEF BarrierInv
  <2>6. SignalMeansAllPrepared' /\ StartOnlyAfterAllPrepared'
    BY <1>0, <1>1, CrashRows DEF BarrierInv
  <2> QED BY <2>4, <2>5, <2>6, <2>7, <2>8 DEF BarrierInv
<1>2. CASE Restart(n)
  <2>1. \A p \in Nodes, q \in Requests : EverPrepared(p, q)' <=> EverPrepared(p, q)
    BY <1>2 DEF Restart, EverPrepared
  <2>2. \A p \in Nodes : up'[p] = "up" => up[p] = "up"
    BY <1>2 DEF Restart, TypeOK
  <2> QED BY <1>0, <1>2, <2>1, <2>2 DEF Restart, BarrierInv
<1> QED BY <1>1, <1>2

LEMMA BarrierStep == TypeOK /\ BarrierInv /\ [Next]_vars => BarrierInv'
<1> SUFFICES ASSUME TypeOK, BarrierInv, [Next]_vars PROVE BarrierInv'
  OBVIOUS
<1>1. CASE UNCHANGED vars
  BY <1>1 DEF BarrierInv, vars
<1>2. ASSUME NEW r \in Requests, InitiateKeygen(r) \/ InitiateSign(r) \/ ClientGone(r)
      PROVE  BarrierInv'
  BY <1>2, BarrierCaller DEF InitiateKeygen, InitiateSign
<1>3. ASSUME NEW m \in net, Handle(m) \/ Lose(m)
      PROVE  BarrierInv'
  BY <1>3, BarrierHandle
<1>4. ASSUME NEW n \in Nodes, NEW r \in Requests, KeygenRun(n, r) \/ SigningRun(n, r)
      PROVE  BarrierInv'
  BY <1>4, BarrierRun DEF KeygenRun, SigningRun
<1>5. ASSUME NEW n \in Nodes, Crash(n) \/ Restart(n)
      PROVE  BarrierInv'
  BY <1>5, BarrierProcess
<1> QED BY <1>1, <1>2, <1>3, <1>4, <1>5 DEF Next

\* The barrier's inductive invariant holds whatever messages are lost, repeated or
\* reordered, whichever timer fires and whichever node dies (coordinator.go:65).
THEOREM BarrierHolds == Spec => []BarrierInv
<1>1. Spec => []TypeOK
  BY TypeCorrect
<1> QED BY <1>1, BarrierInit, BarrierStep, PTL DEF Spec

\* No party begins the TSS rounds before every party has prepared its session.
THEOREM StartAfterAllPrepared == Spec => []StartOnlyAfterAllPrepared
<1>1. BarrierInv => StartOnlyAfterAllPrepared
  BY DEF BarrierInv
<1> QED BY <1>1, BarrierHolds, PTL

\* While all nodes live, a round message under way to a party finds its session.
THEOREM RoundMessagesFindSessions == Spec => []RoundMessageFindsSession
<1>1. TypeOK /\ BarrierInv => RoundMessageFindsSession
  <2> SUFFICES ASSUME TypeOK, BarrierInv, NEW m \in net,
                      m.type = "round", m.to \in m.req.parties, \A n \in Nodes : up[n] = "up"
               PROVE  HasSession(m.to, m.req)
    BY DEF RoundMessageFindsSession
  <2>1. m.to \in Nodes /\ m.req \in Requests
    BY MessageFields DEF TypeOK
  <2>2. status[m.to][m.req] # "none" /\ status[m.to][m.req] # "killed"
    BY <2>1 DEF BarrierInv, AllPrepared, EverPrepared
  <2> QED BY <2>1, <2>2 DEF TypeOK, Statuses, HasSession
<1> QED BY <1>1, TypeCorrect, BarrierHolds, PTL
-----------------------------------------------------------------------------
(* The abstract barrier.                                                   *)

\* What any step does to the sessions is a step of the abstract barrier, or
\* nothing; only a crash takes sessions away.
LEMMA SessionSteps ==
    ASSUME TypeOK, BarrierInv, [Next]_vars
    PROVE  \/ UNCHANGED status
           \/ \E n \in Nodes, r \in Requests :
                 \/ Barrier!Prepare(n, r) \/ Barrier!Begin(n, r)
                 \/ Barrier!Complete(n, r) \/ Barrier!Fail(n, r)
           \/ \E n \in Nodes : Crash(n) /\ Barrier!Die(n)
<1> DEFINE Goal ==
           \/ UNCHANGED status
           \/ \E n \in Nodes, r \in Requests :
                 \/ Barrier!Prepare(n, r) \/ Barrier!Begin(n, r)
                 \/ Barrier!Complete(n, r) \/ Barrier!Fail(n, r)
           \/ \E n \in Nodes : Crash(n) /\ Barrier!Die(n)
<1> USE DEF Barrier!MovesTo
<1>1. ASSUME NEW n \in Nodes, NEW r \in Requests, CreateSession(n, r),
             n \in r.parties, ~HasSession(n, r)
      PROVE  Barrier!Prepare(n, r)
  <2>1. status[n][r] \in {"none", "killed"}
    BY <1>1 DEF TypeOK, Statuses, HasSession
  <2> QED BY <1>1, <2>1 DEF CreateSession, Barrier!Prepare
<1>2. ASSUME NEW r \in Requests, InitiateKeygen(r) \/ InitiateSign(r) \/ ClientGone(r)
      PROVE  Goal
  <2>1. CASE UNCHANGED status
    BY <2>1
  <2>2. CASE /\ call[r] = "prepare" /\ Prepared(r.initiator, r)
             /\ CreateSession(r.initiator, r)
    <3>1. r.initiator \in Nodes /\ r.initiator \in r.parties
      BY <2>2, RequestFields DEF Prepared, PrepareKeygenOK, PrepareSigningOK
    <3>2. ~HasSession(r.initiator, r)
      BY <2>2, <3>1 DEF BarrierInv, HasSession
    <3>3. Barrier!Prepare(r.initiator, r)
      BY <1>1, <2>2, <3>1, <3>2
    <3> QED BY <3>1, <3>3
  <2> QED
    BY <1>2, <2>1, <2>2
    DEF InitiateKeygen, InitiateSign, Register, Pursue, BroadcastInit, PrepareLocal,
        MarkSelfReady, waitForReady, BroadcastStart, StartLocal, WaitForCompletion, ClientGone
<1>3. ASSUME NEW m \in net, Handle(m) \/ Lose(m)
      PROVE  Goal
  <2>1. m.to \in Nodes /\ m.req \in Requests
    BY MessageFields DEF TypeOK
  <2>2. CASE UNCHANGED status
    BY <2>2
  <2>3. CASE /\ m.to \in m.req.parties /\ ~HasSession(m.to, m.req)
             /\ CreateSession(m.to, m.req)
    <3>1. Barrier!Prepare(m.to, m.req)
      BY <1>1, <2>1, <2>3
    <3> QED BY <2>1, <3>1
  <2> QED
    BY <1>3, <2>2, <2>3
    DEF Handle, handleKeygenInit, handleSignInit, handleKeygenReady, handleSignReady,
        handleKeygenStart, handleSignStart, HandleInit, PrepareAndAnswer, HandleReady, HandleStart,
        routeToSession, Lose
<1>4. ASSUME NEW n \in Nodes, NEW r \in Requests, KeygenRun(n, r) \/ SigningRun(n, r)
      PROVE  Goal
  <2>1. CASE UNCHANGED status
    BY <2>1
  <2>2. CASE BeginRounds(n, r)
    <3>1. Barrier!Begin(n, r)
      BY <2>2 DEF BeginRounds, BarrierInv, Barrier!Begin
    <3> QED BY <3>1
  <2>3. CASE handleSuccess(n, r)
    <3>1. Barrier!Complete(n, r)
      BY <2>3 DEF handleSuccess, Barrier!Complete
    <3> QED BY <3>1
  <2>4. CASE handleError(n, r)
    <3>1. Barrier!Fail(n, r)
      BY <2>4 DEF handleError, Barrier!Fail
    <3> QED BY <3>1
  <2> QED
    BY <1>4, <2>1, <2>2, <2>3, <2>4
    DEF KeygenRun, SigningRun, RunSteps, sendMessage, handleMessage, UpdateSession
<1>5. ASSUME NEW n \in Nodes, Crash(n) \/ Restart(n)
      PROVE  Goal
  <2>1. CASE Crash(n)
    <3>1. Barrier!Die(n)
      BY <2>1 DEF Crash, Barrier!Die
    <3> QED BY <2>1, <3>1
  <2> QED BY <1>5, <2>1 DEF Restart
<1>6. CASE UNCHANGED vars
  BY <1>6 DEF vars
<1> QED BY <1>2, <1>3, <1>4, <1>5, <1>6 DEF Next

\* The sessions of the coordinator and its peers implement the abstract barrier:
\* its guards hold of every preparation, start and end of a session.
THEOREM Implementation == Spec => ImplementsBarrier
<1>1. Init => Barrier!Init
  BY DEF Init, Barrier!Init, Each
<1>2. TypeOK /\ BarrierInv /\ [Next]_vars => [Barrier!Next]_status
  BY SessionSteps DEF Barrier!Next
<1> QED BY <1>1, <1>2, TypeCorrect, BarrierHolds, PTL DEF Spec, ImplementsBarrier, Barrier!Spec

\* A session that has completed or failed is not run again by a late or repeated
\* Init, Start or round message, as long as its process lives.
THEOREM SettledSessionsStay == Spec => SettledStaysSettled
<1> DEFINE Stays == \A n \in Nodes, r \in Requests :
                       status[n][r] \in {"completed", "failed"} /\ up'[n] = up[n]
                           => status'[n][r] = status[n][r]
<1>1. ASSUME TypeOK, BarrierInv, [Next]_vars
      PROVE  Stays
  <2> SUFFICES ASSUME NEW n \in Nodes, NEW r \in Requests,
                      status[n][r] \in {"completed", "failed"}, up'[n] = up[n]
               PROVE  status'[n][r] = status[n][r]
    OBVIOUS
  <2>1. CASE UNCHANGED status
    BY <2>1
  <2>2. ASSUME NEW p \in Nodes, NEW q \in Requests,
               \/ Barrier!Prepare(p, q) \/ Barrier!Begin(p, q)
               \/ Barrier!Complete(p, q) \/ Barrier!Fail(p, q)
        PROVE  status'[n][r] = status[n][r]
    <3>1. /\ status[p][q] \notin {"completed", "failed"}
          /\ \E x : status' = [status EXCEPT ![p][q] = x]
      BY <2>2 DEF Barrier!Prepare, Barrier!Begin, Barrier!Complete, Barrier!Fail, Barrier!MovesTo
    <3>2. ~(p = n /\ q = r)
      BY <3>1
    <3> QED BY <3>1, <3>2 DEF TypeOK
  <2>3. ASSUME NEW p \in Nodes, Crash(p)
        PROVE  status'[n][r] = status[n][r]
    <3>1. up[p] = "up" /\ up'[p] = "down"
      BY <1>1, <2>3 DEF Crash, TypeOK
    <3>2. p # n
      BY <3>1
    <3> QED BY <1>1, <2>3, <3>2, CrashRows
  <2> QED BY <1>1, <2>1, <2>2, <2>3, SessionSteps
<1>2. TypeOK /\ BarrierInv /\ [Next]_vars => [Stays]_vars
  BY <1>1
<1> QED BY <1>2, TypeCorrect, BarrierHolds, PTL DEF Spec, SettledStaysSettled
=============================================================================
