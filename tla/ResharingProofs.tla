-------------------------- MODULE ResharingProofs --------------------------
(***************************************************************************)
(* What holds of every resharing, whatever the nodes, the requests, the    *)
(* rounds and the faults: types, and the relation between the session's    *)
(* status, its share file and the wallet record.                           *)
(***************************************************************************)
EXTENDS Resharing, TLAPS

\* Replacing one entry of a table of sessions.
LEMMA EntryReplaced ==
    ASSUME NEW S, NEW F \in [Nodes -> [Calls -> S]], NEW n \in Nodes, NEW c \in Calls, NEW v \in S
    PROVE  /\ [F EXCEPT ![n][c] = v] \in [Nodes -> [Calls -> S]]
           /\ \A p \in Nodes, q \in Calls :
                 [F EXCEPT ![n][c] = v][p][q] = IF p = n /\ q = c THEN v ELSE F[p][q]
OBVIOUS

LEMMA RequestNode ==
    ASSUME NEW c \in Calls
    PROVE  Req[c].node \in Nodes
BY CallsAssumption

LEMMA CreateSessionType ==
    ASSUME TypeOK, NEW n \in Nodes, NEW c \in Calls, CreateSession(n, c)
    PROVE  /\ status' \in [Nodes -> [Calls -> Statuses]]
           /\ record' \in [Nodes -> [Calls -> {"none", "pending", "completed", "failed"}]]
BY DEF CreateSession, TypeOK, Statuses

LEMMA SavesType ==
    ASSUME TypeOK, NEW n \in Nodes, NEW c \in Calls, NEW step \in Steps, Saves(n, c, step)
    PROVE  saving' \in [Nodes -> [Calls -> Steps]]
BY DEF Saves, TypeOK, Steps

\* A write that fails.
LEMMA WriteFailsType ==
    ASSUME TypeOK, NEW n \in Nodes, NEW c \in Calls, NEW step \in Steps, WriteFails(n, c, step)
    PROVE  saving' \in [Nodes -> [Calls -> Steps]] /\ spoiled' \in SUBSET (Nodes \X Calls)
BY SavesType DEF WriteFails, TypeOK

LEMMA TypeInit == Init => TypeOK
BY RoundsAssumption DEF Init, TypeOK, Each, Held, Statuses, Steps

\* Each step replaces entries of the tables by typed ones.
LEMMA TypeCall ==
    ASSUME TypeOK, NEW c \in Calls, ReshareWallet(c)
    PROVE  TypeOK'
<1> DEFINE n == Req[c].node
<1>1. n \in Nodes
  BY RequestNode
<1>2. CASE StartResharing(c)
  <2>1. /\ UNCHANGED <<up, partyVars, saving, share, wallet, history, net>>
        /\ call' \in [Calls -> {"idle", "await", "ok", "error", "killed"}]
    BY <1>2 DEF StartResharing, TypeOK
  <2>2. CreateSession(n, c) \/ UNCHANGED <<status, record>>
    BY <1>2 DEF StartResharing
  <2>3. /\ status' \in [Nodes -> [Calls -> Statuses]]
        /\ record' \in [Nodes -> [Calls -> {"none", "pending", "completed", "failed"}]]
    BY <1>1, <2>2, CreateSessionType DEF TypeOK
  <2> QED BY <2>1, <2>3 DEF TypeOK, partyVars, history
<1>3. CASE WaitForCompletion(c)
  BY <1>3 DEF WaitForCompletion, TypeOK, partyVars, storeVars, history
<1> QED BY <1>2, <1>3 DEF ReshareWallet

LEMMA TypeJoin ==
    ASSUME TypeOK, NEW n \in Nodes, NEW c \in Calls, JoinResharing(n, c)
    PROVE  TypeOK'
BY DEF JoinResharing, CreateSession, TypeOK, partyVars, history, Statuses

LEMMA TypeRun ==
    ASSUME TypeOK, WritersCompleted, NEW n \in Nodes, NEW c \in Calls, run(n, c)
    PROVE  TypeOK'
<1> USE RoundsAssumption DEF TypeOK, partyVars, storeVars, history, Statuses, Steps
<1>1. CASE BeginRun(n, c)
  BY <1>1 DEF BeginRun
<1>2. CASE sendMessage(n, c)
  <2>1. sent[n][c] \in 0..Rounds /\ sent[n][c] + 1 \in 1..Rounds
    BY <1>2 DEF sendMessage
  <2>2. sent' \in [Nodes -> [Calls -> 0..Rounds]]
    BY <1>2, <2>1 DEF sendMessage
  <2>3. Parties(c) \subseteq Nodes
    BY CallsAssumption DEF Parties
  <2>4. net' \in SUBSET [call : Calls, from : Nodes, to : Nodes, round : 1..Rounds]
    BY <1>2, <2>1, <2>3 DEF sendMessage
  <2> QED BY <1>2, <2>2, <2>4 DEF sendMessage
<1>3. CASE handleMessage(n, c)
  <2>1. round[n][c] + 1 \in 0..Rounds + 1
    BY <1>3 DEF handleMessage
  <2> QED BY <1>3, <2>1 DEF handleMessage
<1>4. CASE handleSuccess(n, c)
  <2>1. BeginsWrites(n, c) \/ UNCHANGED <<last, spoiled>>
    BY <1>4 DEF handleSuccess
  <2>2. last' \in [Nodes -> {"old"} \cup Calls] /\ spoiled' \in SUBSET (Nodes \X Calls)
    <3>1. CASE BeginsWrites(n, c)
      <4>1. last' = [last EXCEPT ![n] = c]
        BY <3>1 DEF BeginsWrites
      <4>2. spoiled' \subseteq spoiled \cup {<<n, c>>}
        BY <3>1 DEF BeginsWrites
      <4>3. last' \in [Nodes -> {"old"} \cup Calls]
        BY <4>1
      <4>4. spoiled \in SUBSET (Nodes \X Calls) /\ <<n, c>> \in Nodes \X Calls
        OBVIOUS
      <4> HIDE DEF TypeOK
      <4>5. spoiled' \in SUBSET (Nodes \X Calls)
        BY <4>2, <4>4
      <4> QED BY <4>3, <4>5
    <3>2. CASE UNCHANGED <<last, spoiled>>
      BY <3>2
    <3> QED BY <2>1, <3>1, <3>2
  <2>3. \E step \in Steps : Saves(n, c, step)
    BY <1>4 DEF handleSuccess, BeginsWrites
  <2>4. saving' \in [Nodes -> [Calls -> Steps]]
    BY <2>3, SavesType
  <2> QED BY <1>4, <2>2, <2>4 DEF handleSuccess
<1>5. CASE handleError(n, c)
  BY <1>5 DEF handleError, Saves
<1>6. CASE OpenShare(n, c)
  <2>1. \/ /\ share' = [share EXCEPT ![n] = "torn"]
           /\ Saves(n, c, "fill") /\ UNCHANGED spoiled
        \/ WriteFails(n, c, "wallet") /\ UNCHANGED share
    BY <1>6 DEF OpenShare
  <2>2. share' \in [Nodes -> {"none", "torn", "old"} \cup Calls]
    BY <2>1
  <2>3. saving' \in [Nodes -> [Calls -> Steps]] /\ spoiled' \in SUBSET (Nodes \X Calls)
    BY <2>1, SavesType, WriteFailsType DEF Steps
  <2> QED BY <1>6, <2>2, <2>3 DEF OpenShare, Steps
<1>7. CASE FillShare(n, c)
  <2>1. \/ /\ share' = [share EXCEPT ![n] = c]
           /\ Saves(n, c, "wallet") /\ UNCHANGED spoiled
        \/ WriteFails(n, c, "wallet") /\ UNCHANGED share
    BY <1>7 DEF FillShare
  <2>2. share' \in [Nodes -> {"none", "torn", "old"} \cup Calls]
    BY <2>1
  <2>3. saving' \in [Nodes -> [Calls -> Steps]] /\ spoiled' \in SUBSET (Nodes \X Calls)
    BY <2>1, SavesType, WriteFailsType DEF Steps
  <2> QED BY <1>7, <2>2, <2>3 DEF FillShare, Steps
<1>8. CASE SaveWallet(n, c)
  <2>1. \/ /\ wallet' \in {wallet, [wallet EXCEPT ![n] = c]}
           /\ Saves(n, c, "record") /\ UNCHANGED spoiled
        \/ WriteFails(n, c, "record") /\ UNCHANGED wallet
    BY <1>8 DEF SaveWallet
  <2>2. wallet' \in [Nodes -> {"none", "old"} \cup Calls]
    BY <2>1
  <2>3. saving' \in [Nodes -> [Calls -> Steps]] /\ spoiled' \in SUBSET (Nodes \X Calls)
    BY <2>1, SavesType, WriteFailsType DEF Steps
  <2> QED BY <1>8, <2>2, <2>3 DEF SaveWallet, Steps
<1>9. CASE UpdateSession(n, c)
  <2>1. status[n][c] \in {"completed", "failed"}
    BY <1>9 DEF UpdateSession, WritersCompleted
  <2>2. record' = [record EXCEPT ![n][c] = status[n][c]] \/ UNCHANGED record
    BY <1>9 DEF UpdateSession
  <2>3. record' \in [Nodes -> [Calls -> {"none", "pending", "completed", "failed"}]]
    <3>1. CASE record' = [record EXCEPT ![n][c] = status[n][c]]
      <4>1. status[n][c] \in {"none", "pending", "completed", "failed"}
        BY <2>1
      <4> QED BY <3>1, <4>1, EntryReplaced
    <3> QED BY <2>2, <3>1
  <2>4. saving' \in [Nodes -> [Calls -> Steps]]
    BY <1>9, SavesType DEF UpdateSession
  <2> QED BY <1>9, <2>3, <2>4 DEF UpdateSession
<1> QED BY <1>1, <1>2, <1>3, <1>4, <1>5, <1>6, <1>7, <1>8, <1>9 DEF run

LEMMA TypeStep == TypeOK /\ WritersCompleted /\ [Next]_vars => TypeOK'
<1> SUFFICES ASSUME TypeOK, WritersCompleted, [Next]_vars PROVE TypeOK'
  OBVIOUS
<1>1. ASSUME NEW c \in Calls, ReshareWallet(c) PROVE TypeOK'
  BY <1>1, TypeCall
<1>2. ASSUME NEW n \in Nodes, NEW c \in Calls, JoinResharing(n, c) \/ run(n, c) PROVE TypeOK'
  BY <1>2, TypeJoin, TypeRun
<1>3. ASSUME NEW m \in net, routeToSession(m) PROVE TypeOK'
  <2>1. m.to \in Nodes /\ m.call \in Calls /\ <<m.from, m.round>> \in RoundMsgs
    BY DEF TypeOK, RoundMsgs
  <2>2. got[m.to][m.call] \cup {<<m.from, m.round>>} \in SUBSET RoundMsgs
    <3>1. got[m.to][m.call] \in SUBSET RoundMsgs
      BY <2>1 DEF TypeOK
    <3>2. \A S \in SUBSET RoundMsgs, x \in RoundMsgs : S \cup {x} \in SUBSET RoundMsgs
      OBVIOUS
    <3> QED BY <2>1, <3>1, <3>2
  <2>3. got' \in [Nodes -> [Calls -> SUBSET RoundMsgs]]
    <3>1. CASE got' = [got EXCEPT ![m.to][m.call] = got[m.to][m.call] \cup {<<m.from, m.round>>}]
      BY <2>1, <2>2, <3>1, EntryReplaced DEF TypeOK
    <3> QED BY <1>3, <3>1 DEF routeToSession, TypeOK
  <2>4. net' \subseteq net
    BY <1>3 DEF routeToSession
  <2> QED BY <1>3, <2>3, <2>4 DEF routeToSession, TypeOK, storeVars, history
<1>4. ASSUME NEW n \in Nodes, Crash(n) PROVE TypeOK'
  <2>1. UNCHANGED <<partyVars, storeVars, net>> /\ up' = [up EXCEPT ![n] = "down"]
    BY <1>4 DEF Crash
  <2>2. call' \in [Calls -> {"idle", "await", "ok", "error", "killed"}]
    BY <1>4 DEF Crash, TypeOK
  <2>3. status' \in [Nodes -> [Calls -> Statuses]]
    <3>1. [c \in Calls |-> IF status[n][c] \in {"pending", "running"} THEN "killed" ELSE status[n][c]]
             \in [Calls -> Statuses]
      BY DEF TypeOK, Statuses
    <3> QED BY <1>4, <3>1 DEF Crash, TypeOK
  <2>4. saving' \in [Nodes -> [Calls -> Steps]]
    <3>1. [c \in Calls |-> IF Writing(n, c) THEN "lost"
                           ELSE IF saving[n][c] = "record" THEN "done" ELSE saving[n][c]]
             \in [Calls -> Steps]
      BY DEF TypeOK, Steps
    <3> QED BY <1>4, <3>1 DEF Crash, TypeOK
  <2> QED BY <2>1, <2>2, <2>3, <2>4 DEF TypeOK, partyVars, storeVars, history
<1>5. ASSUME NEW n \in Nodes, Restart(n) PROVE TypeOK'
  BY <1>5 DEF Restart, TypeOK, partyVars, storeVars, history
<1>6. CASE UNCHANGED vars
  BY <1>6 DEF vars, partyVars, storeVars, history, TypeOK
<1> QED BY <1>1, <1>2, <1>3, <1>4, <1>5, <1>6 DEF Next

-----------------------------------------------------------------------------
(* The invariant of the writes.                                            *)

LEMMA WritesInit == Init => WritesInv
<1> SUFFICES ASSUME Init PROVE WritesInv
  OBVIOUS
<1>1. \A n \in Nodes, c \in Calls : saving[n][c] = "idle" /\ status[n][c] = "none"
  BY DEF Init, Each
<1>2. \A n \in Nodes : last[n] = "old" /\ "old" \notin Calls
  BY CallsAssumption DEF Init
<1>3. WritersCompleted
  BY <1>1, RequestNode DEF WritersCompleted, Writing
<1>4. LastCompleted
  BY <1>1, <1>2 DEF LastCompleted, Writing, Init, Held
<1>5. LastAlone
  BY <1>1 DEF LastAlone, Writing
<1>6. \A n \in Nodes : share[n] = Held("old")[n] /\ wallet[n] = Held("old")[n] /\ wallet[n] \in {"none", share[n]}
  BY DEF Init, Held
<1>7. WalletMatchesShare
  BY <1>2, <1>6 DEF WalletMatchesShare, Held
<1>8. OnlyCompletionReplaces
  BY <1>6, CallsAssumption DEF OnlyCompletionReplaces, Renewed, Held
<1> QED BY <1>3, <1>4, <1>5, <1>7, <1>8 DEF WritesInv

\* A step that writes nothing and completes no session.
LEMMA QuietStep ==
    ASSUME WritesInv, UNCHANGED <<saving, share, wallet, last, spoiled>>,
           \A n \in Nodes, c \in Calls :
              /\ status'[n][c] = "completed" <=> status[n][c] = "completed"
              /\ status[n][c] = "failed" => status'[n][c] = "failed",
           \A c \in Calls : call'[c] = "idle" => status'[Req[c].node][c] = "none"
    PROVE  WritesInv'
<1>1. \A n \in Nodes, c \in Calls :
         /\ Writing(n, c)' = Writing(n, c)
         /\ Renewed(n, c)' = Renewed(n, c)
  BY DEF Writing, Renewed
<1>2. WritersCompleted'
  BY <1>1 DEF WritesInv, WritersCompleted
<1>3. LastCompleted'
  BY <1>1 DEF WritesInv, LastCompleted, Held
<1>4. LastAlone'
  BY <1>1 DEF WritesInv, LastAlone
<1>5. WalletMatchesShare'
  BY <1>1 DEF WritesInv, WalletMatchesShare, Lost
<1>6. OnlyCompletionReplaces'
  BY <1>1 DEF WritesInv, OnlyCompletionReplaces, Held
<1> QED BY <1>2, <1>3, <1>4, <1>5, <1>6 DEF WritesInv

\* Sessions are created where there were none.
LEMMA QuietCreate ==
    ASSUME TypeOK, WritesInv, NEW n \in Nodes, NEW c \in Calls, status[n][c] = "none",
           CreateSession(n, c), UNCHANGED <<saving, share, wallet, last, spoiled>>,
           \A d \in Calls : call'[d] = "idle" => call[d] = "idle" /\ (d # c \/ n # Req[d].node)
    PROVE  WritesInv'
<1>1. \A p \in Nodes, d \in Calls :
         status'[p][d] = IF p = n /\ d = c THEN "pending" ELSE status[p][d]
  BY DEF CreateSession, TypeOK
<1>2. \A d \in Calls : call'[d] = "idle" => status'[Req[d].node][d] = "none"
  BY <1>1, RequestNode DEF WritesInv, WritersCompleted, Renewed
<1> QED BY <1>1, <1>2, QuietStep

LEMMA WritesCall ==
    ASSUME TypeOK, WritesInv, NEW c \in Calls, ReshareWallet(c)
    PROVE  WritesInv'
<1>1. \A d \in Calls : call'[d] = "idle" => call[d] = "idle" /\ d # c
  BY DEF ReshareWallet, StartResharing, WaitForCompletion, TypeOK
<1>2. UNCHANGED <<saving, share, wallet, last, spoiled>>
  BY DEF ReshareWallet, StartResharing, WaitForCompletion, storeVars, history
<1>3. CASE CreateSession(Req[c].node, c) /\ call[c] = "idle"
  <2>1. Req[c].node \in Nodes /\ status[Req[c].node][c] = "none"
    BY <1>3, RequestNode DEF WritesInv, WritersCompleted, Renewed
  <2> QED BY <1>1, <1>2, <1>3, <2>1, QuietCreate
<1>4. CASE UNCHANGED status
  <2>1. \A d \in Calls : call'[d] = "idle" => status'[Req[d].node][d] = "none"
    BY <1>1, <1>4 DEF WritesInv, WritersCompleted, Renewed
  <2> QED BY <1>2, <1>4, <2>1, QuietStep
<1> QED BY <1>3, <1>4 DEF ReshareWallet, StartResharing, WaitForCompletion

LEMMA WritesJoin ==
    ASSUME TypeOK, WritesInv, NEW n \in Nodes, NEW c \in Calls, JoinResharing(n, c)
    PROVE  WritesInv'
BY QuietCreate DEF JoinResharing, history

LEMMA SavesEntry ==
    ASSUME TypeOK, NEW n \in Nodes, NEW c \in Calls, NEW step \in Steps, Saves(n, c, step)
    PROVE  \A p \in Nodes, d \in Calls :
              saving'[p][d] = IF p = n /\ d = c THEN step ELSE saving[p][d]
BY EntryReplaced DEF Saves, TypeOK

\* A session ends with nothing to write but its record.
LEMMA WritesEnd ==
    ASSUME TypeOK, WritesInv, NEW n \in Nodes, NEW c \in Calls, NEW step \in {"record", "done"},
           NEW result \in {"completed", "failed"},
           status[n][c] \in {"pending", "running"},
           status' = [status EXCEPT ![n][c] = result],
           Saves(n, c, step), UNCHANGED <<call, share, wallet, last, spoiled>>
    PROVE  WritesInv'
<1>1. \A p \in Nodes, d \in Calls :
         /\ saving'[p][d] = IF p = n /\ d = c THEN step ELSE saving[p][d]
         /\ status'[p][d] = IF p = n /\ d = c THEN result ELSE status[p][d]
  <2>1. step \in Steps
    BY DEF Steps
  <2>2. \A p \in Nodes, d \in Calls : saving'[p][d] = IF p = n /\ d = c THEN step ELSE saving[p][d]
    BY <2>1, SavesEntry
  <2>3. \A p \in Nodes, d \in Calls : status'[p][d] = IF p = n /\ d = c THEN result ELSE status[p][d]
    BY DEF TypeOK
  <2> QED BY <2>2, <2>3
<1>2. ~Writing(n, c) /\ ~Renewed(n, c)
  BY DEF WritesInv, WritersCompleted, Renewed
<1>3. \A p \in Nodes, d \in Calls :
         /\ Writing(p, d)' <=> Writing(p, d)
         /\ Renewed(p, d) => Renewed(p, d)'
  BY <1>1, <1>2 DEF Writing, Renewed
<1>4. \A p \in Nodes : last[p] \in Calls => ~(p = n /\ last[p] = c)
  BY <1>2 DEF WritesInv, LastCompleted
<1>5. WritersCompleted'
  <2>1. \A p \in Nodes, d \in Calls : Writing(p, d)' => Renewed(p, d)'
    BY <1>3 DEF WritesInv, WritersCompleted
  <2>2. \A p \in Nodes, d \in Calls : saving'[p][d] = "record" => status'[p][d] \in {"completed", "failed"}
    BY <1>1 DEF WritesInv, WritersCompleted
  <2>3. \A d \in Calls : call'[d] = "idle" => status'[Req[d].node][d] = "none"
    BY <1>1, RequestNode DEF WritesInv, WritersCompleted
  <2> QED BY <2>1, <2>2, <2>3 DEF WritersCompleted
<1>6. LastCompleted'
  BY <1>3 DEF WritesInv, LastCompleted, Held
<1>7. LastAlone'
  BY <1>1, <1>3 DEF WritesInv, LastAlone
<1>8. WalletMatchesShare'
  <2>1. \A p \in Nodes : Lost(p, last[p])' <=> Lost(p, last[p])
    BY <1>1, <1>4 DEF Lost
  <2> QED BY <1>3, <2>1 DEF WritesInv, WalletMatchesShare
<1>9. OnlyCompletionReplaces'
  BY <1>3 DEF WritesInv, OnlyCompletionReplaces, Held
<1> QED BY <1>5, <1>6, <1>7, <1>8, <1>9 DEF WritesInv

\* A session completes and comes to its writes: nothing of it is stored yet, so its
\* wallet record is not there, and it has the node to itself or is spoiled.
LEMMA WritesBegin ==
    ASSUME TypeOK, WritesInv, NEW n \in Nodes, NEW c \in Calls, n \in Req[c].new,
           status[n][c] = "running", status' = [status EXCEPT ![n][c] = "completed"],
           BeginsWrites(n, c), UNCHANGED <<call, share, wallet>>
    PROVE  WritesInv'
<1>1. \A p \in Nodes, d \in Calls :
         /\ saving'[p][d] = IF p = n /\ d = c THEN "share" ELSE saving[p][d]
         /\ status'[p][d] = IF p = n /\ d = c THEN "completed" ELSE status[p][d]
  <2>1. "share" \in Steps /\ Saves(n, c, "share")
    BY DEF BeginsWrites, Steps
  <2>2. \A p \in Nodes, d \in Calls : saving'[p][d] = IF p = n /\ d = c THEN "share" ELSE saving[p][d]
    BY <2>1, SavesEntry
  <2>3. \A p \in Nodes, d \in Calls : status'[p][d] = IF p = n /\ d = c THEN "completed" ELSE status[p][d]
    BY DEF TypeOK
  <2> QED BY <2>2, <2>3
<1>2. \A p \in Nodes : last'[p] = IF p = n THEN c ELSE last[p]
  BY DEF BeginsWrites, TypeOK
<1>3. /\ \A p \in Nodes, d \in Calls : p # n => (<<p, d>> \in spoiled' <=> <<p, d>> \in spoiled)
      /\ \A p \in Nodes : p # n => (<<p, last[p]>> \in spoiled' <=> <<p, last[p]>> \in spoiled)
      /\ <<n, c>> \notin spoiled' => \A d \in Calls : ~Writing(n, d)
  BY DEF BeginsWrites
<1>4. ~Renewed(n, c) /\ c \notin {share[n], wallet[n]}
  BY DEF WritesInv, OnlyCompletionReplaces, Renewed
<1>5. \A p \in Nodes, d \in Calls :
         /\ Writing(p, d)' <=> (Writing(p, d) \/ (p = n /\ d = c))
         /\ Renewed(p, d)' <=> (Renewed(p, d) \/ (p = n /\ d = c))
  BY <1>1, <1>4 DEF Writing, Renewed, WritesInv, WritersCompleted
<1>6. WritersCompleted'
  <2>1. \A p \in Nodes, d \in Calls : Writing(p, d)' => Renewed(p, d)'
    BY <1>5 DEF WritesInv, WritersCompleted
  <2>2. \A p \in Nodes, d \in Calls : saving'[p][d] = "record" => status'[p][d] \in {"completed", "failed"}
    BY <1>1 DEF WritesInv, WritersCompleted
  <2>3. \A d \in Calls : call'[d] = "idle" => status'[Req[d].node][d] = "none"
    BY <1>1, RequestNode DEF WritesInv, WritersCompleted
  <2> QED BY <2>1, <2>2, <2>3 DEF WritersCompleted
<1>7. LastCompleted'
  BY <1>2, <1>5 DEF WritesInv, LastCompleted, Held
<1>8. LastAlone'
  <2> SUFFICES ASSUME NEW p \in Nodes, <<p, last'[p]>> \notin spoiled', NEW d \in Calls
               PROVE  /\ Writing(p, d)' => d = last'[p] /\ wallet[p] # d
                      /\ saving'[p][d] = "wallet" => share[p] = d
    BY DEF LastAlone
  <2>1. CASE p = n
    BY <1>1, <1>2, <1>3, <1>4, <1>5, <2>1 DEF Writing
  <2>2. CASE p # n
    BY <1>1, <1>2, <1>3, <1>5, <2>2 DEF WritesInv, LastAlone
  <2> QED BY <2>1, <2>2
<1>9. WalletMatchesShare'
  <2> SUFFICES ASSUME NEW p \in Nodes, <<p, last'[p]>> \notin spoiled'
               PROVE  /\ wallet[p] = last'[p] => share[p] = last'[p]
                      /\ \/ Lost(p, last[p])'
                         \/ \E d \in Calls : Writing(p, d)'
                         \/ wallet[p] \in {"none", share[p]}
    BY DEF WalletMatchesShare
  <2>1. CASE p = n
    BY <1>2, <1>4, <1>5, <2>1
  <2>2. CASE p # n
    <3>1. Lost(p, last[p])' <=> Lost(p, last[p])
      BY <1>1, <1>2, <2>2 DEF Lost
    <3> QED BY <1>2, <1>3, <1>5, <2>2, <3>1 DEF WritesInv, WalletMatchesShare
  <2> QED BY <2>1, <2>2
<1>10. OnlyCompletionReplaces'
  BY <1>5 DEF WritesInv, OnlyCompletionReplaces, Held
<1> QED BY <1>6, <1>7, <1>8, <1>9, <1>10 DEF WritesInv

\* A step of a goroutine whose session has ended: who completed stays, and only what its
\* node stores may change.
LEMMA WritersStay ==
    ASSUME TypeOK, WritesInv, NEW n \in Nodes, NEW c \in Calls, NEW step \in Steps \ {"share"},
           status[n][c] \in {"completed", "failed"}, Saves(n, c, step),
           \/ Writing(n, c) /\ step \in {"fill", "wallet", "record"}
           \/ saving[n][c] = "record" /\ step = "done" /\ UNCHANGED <<share, wallet>>,
           UNCHANGED <<call, status, last>>,
           \A p \in Nodes : p # n => share'[p] = share[p] /\ wallet'[p] = wallet[p],
           share'[n] \in {share[n], "torn", c}, wallet'[n] \in {wallet[n], c}
    PROVE  /\ WritersCompleted' /\ LastCompleted' /\ OnlyCompletionReplaces'
           /\ \A p \in Nodes, d \in Calls :
                 saving'[p][d] = IF p = n /\ d = c THEN step ELSE saving[p][d]
           /\ \A p \in Nodes, d \in Calls : Writing(p, d)' => Writing(p, d)
           /\ \A p \in Nodes, d \in Calls : p # n => (Writing(p, d)' <=> Writing(p, d))
           /\ \A p \in Nodes : Lost(p, last[p])' <=> Lost(p, last[p])
<1>1. \A p \in Nodes, d \in Calls :
         saving'[p][d] = IF p = n /\ d = c THEN step ELSE saving[p][d]
  BY SavesEntry
<1>2. \A p \in Nodes, d \in Calls : Writing(p, d)' => Writing(p, d)
  BY <1>1 DEF Writing
<1>3. \A p \in Nodes, d \in Calls : p # n => (Writing(p, d)' <=> Writing(p, d))
  BY <1>1 DEF Writing
<1>4. \A p \in Nodes, d \in Calls : Renewed(p, d)' <=> Renewed(p, d)
  BY DEF Renewed
<1>5. Renewed(n, c) \/ UNCHANGED <<share, wallet>>
  BY DEF WritesInv, WritersCompleted
<1>6. WritersCompleted'
  BY <1>1, <1>2, <1>4 DEF WritesInv, WritersCompleted
<1>7. LastCompleted'
  BY <1>2, <1>4 DEF WritesInv, LastCompleted, Held
<1>8. OnlyCompletionReplaces'
  <2>1. \A p \in Nodes, d \in Calls :
           d \in {share'[p], wallet'[p]} => d \in {share[p], wallet[p]} \/ (p = n /\ d = c /\ Renewed(n, c))
    BY <1>5, CallsAssumption
  <2>2. \A p \in Nodes : (\A d \in Calls : ~Renewed(p, d)) => share'[p] = share[p] /\ wallet'[p] = wallet[p]
    BY <1>5
  <2>3. \A p \in Nodes, d \in Calls : d \in {share'[p], wallet'[p]} => Renewed(p, d)
    BY <2>1 DEF WritesInv, OnlyCompletionReplaces
  <2> QED BY <1>4, <2>2, <2>3 DEF WritesInv, OnlyCompletionReplaces, Held
<1>9. \A p \in Nodes : Lost(p, last[p])' <=> Lost(p, last[p])
  BY <1>1 DEF Lost, Writing, Steps
<1> QED BY <1>1, <1>2, <1>3, <1>6, <1>7, <1>8, <1>9

\* A write that fails spoils its session, which was the last one, or the last one was
\* spoiled before.
LEMMA WritesFail ==
    ASSUME TypeOK, WritesInv, NEW n \in Nodes, NEW c \in Calls, NEW step \in {"wallet", "record"},
           Writing(n, c), WriteFails(n, c, step), UNCHANGED <<call, status, share, wallet, last>>
    PROVE  WritesInv'
<1>1. spoiled' = spoiled \cup {<<n, c>>} /\ Saves(n, c, step)
  BY DEF WriteFails
<1>2. status[n][c] = "completed" /\ step \in Steps \ {"share"}
  BY DEF WritesInv, WritersCompleted, Renewed, Steps
<1>3. /\ WritersCompleted' /\ LastCompleted' /\ OnlyCompletionReplaces'
      /\ \A p \in Nodes, d \in Calls :
            saving'[p][d] = IF p = n /\ d = c THEN step ELSE saving[p][d]
      /\ \A p \in Nodes, d \in Calls : p # n => (Writing(p, d)' <=> Writing(p, d))
      /\ \A p \in Nodes : Lost(p, last[p])' <=> Lost(p, last[p])
  BY <1>1, <1>2, WritersStay
<1>4. \A p \in Nodes : <<p, last[p]>> \notin spoiled' => p # n /\ <<p, last[p]>> \notin spoiled
  BY <1>1 DEF WritesInv, LastAlone
<1>5. LastAlone'
  BY <1>3, <1>4 DEF WritesInv, LastAlone
<1>6. WalletMatchesShare'
  BY <1>3, <1>4 DEF WritesInv, WalletMatchesShare
<1> QED BY <1>3, <1>5, <1>6 DEF WritesInv

LEMMA WritesOpen ==
    ASSUME TypeOK, WritesInv, NEW n \in Nodes, NEW c \in Calls, OpenShare(n, c)
    PROVE  WritesInv'
<1>1. /\ Writing(n, c) /\ saving[n][c] = "share" /\ status[n][c] = "completed"
      /\ UNCHANGED <<call, status, wallet, last>>
  BY DEF OpenShare, WritesInv, WritersCompleted, Renewed, Writing
<1>2. CASE WriteFails(n, c, "wallet") /\ UNCHANGED share
  BY <1>1, <1>2, WritesFail
<1>3. CASE share' = [share EXCEPT ![n] = "torn"] /\ Saves(n, c, "fill") /\ UNCHANGED spoiled
  <2>1. \A p \in Nodes : share'[p] = IF p = n THEN "torn" ELSE share[p]
    BY <1>3 DEF TypeOK
  <2>2. /\ WritersCompleted' /\ LastCompleted' /\ OnlyCompletionReplaces'
        /\ \A p \in Nodes, d \in Calls :
              saving'[p][d] = IF p = n /\ d = c THEN "fill" ELSE saving[p][d]
        /\ \A p \in Nodes, d \in Calls : Writing(p, d)' => Writing(p, d)
        /\ \A p \in Nodes, d \in Calls : p # n => (Writing(p, d)' <=> Writing(p, d))
        /\ \A p \in Nodes : Lost(p, last[p])' <=> Lost(p, last[p])
    BY <1>1, <1>3, <2>1, WritersStay DEF Steps
  <2>3. <<n, last[n]>> \notin spoiled =>
           last[n] = c /\ wallet[n] # c /\ \A d \in Calls : saving'[n][d] # "wallet"
    BY <1>1, <2>2 DEF WritesInv, LastAlone, Writing
  <2>4. Writing(n, c)'
    BY <2>2 DEF Writing
  <2>5. LastAlone'
    BY <1>1, <1>3, <2>1, <2>2, <2>3 DEF WritesInv, LastAlone
  <2>6. WalletMatchesShare'
    BY <1>1, <1>3, <2>1, <2>2, <2>3, <2>4 DEF WritesInv, WalletMatchesShare
  <2> QED BY <2>2, <2>5, <2>6 DEF WritesInv
<1> QED BY <1>2, <1>3 DEF OpenShare

LEMMA WritesFill ==
    ASSUME TypeOK, WritesInv, NEW n \in Nodes, NEW c \in Calls, FillShare(n, c)
    PROVE  WritesInv'
<1>1. /\ Writing(n, c) /\ saving[n][c] = "fill" /\ status[n][c] = "completed"
      /\ UNCHANGED <<call, status, wallet, last>>
  BY DEF FillShare, WritesInv, WritersCompleted, Renewed, Writing
<1>2. CASE WriteFails(n, c, "wallet") /\ UNCHANGED share
  BY <1>1, <1>2, WritesFail
<1>3. CASE share' = [share EXCEPT ![n] = c] /\ Saves(n, c, "wallet") /\ UNCHANGED spoiled
  <2>1. \A p \in Nodes : share'[p] = IF p = n THEN c ELSE share[p]
    BY <1>3 DEF TypeOK
  <2>2. /\ WritersCompleted' /\ LastCompleted' /\ OnlyCompletionReplaces'
        /\ \A p \in Nodes, d \in Calls :
              saving'[p][d] = IF p = n /\ d = c THEN "wallet" ELSE saving[p][d]
        /\ \A p \in Nodes, d \in Calls : Writing(p, d)' => Writing(p, d)
        /\ \A p \in Nodes, d \in Calls : p # n => (Writing(p, d)' <=> Writing(p, d))
        /\ \A p \in Nodes : Lost(p, last[p])' <=> Lost(p, last[p])
    BY <1>1, <1>3, <2>1, WritersStay DEF Steps
  <2>3. <<n, last[n]>> \notin spoiled =>
           last[n] = c /\ wallet[n] # c /\ \A d \in Calls : saving'[n][d] = "wallet" => d = c
    BY <1>1, <2>2 DEF WritesInv, LastAlone, Writing
  <2>4. Writing(n, c)'
    BY <2>2 DEF Writing
  <2>5. LastAlone'
    BY <1>1, <1>3, <2>1, <2>2, <2>3 DEF WritesInv, LastAlone
  <2>6. WalletMatchesShare'
    BY <1>1, <1>3, <2>1, <2>2, <2>3, <2>4 DEF WritesInv, WalletMatchesShare
  <2> QED BY <2>2, <2>5, <2>6 DEF WritesInv
<1> QED BY <1>2, <1>3 DEF FillShare

LEMMA WritesWallet ==
    ASSUME TypeOK, WritesInv, NEW n \in Nodes, NEW c \in Calls, SaveWallet(n, c)
    PROVE  WritesInv'
<1>1. /\ Writing(n, c) /\ saving[n][c] = "wallet" /\ status[n][c] = "completed"
      /\ UNCHANGED <<call, status, share, last>>
  BY DEF SaveWallet, WritesInv, WritersCompleted, Renewed, Writing
<1>2. CASE WriteFails(n, c, "record") /\ UNCHANGED wallet
  BY <1>1, <1>2, WritesFail
<1>3. CASE /\ wallet' = IF wallet[n] = "none" THEN wallet ELSE [wallet EXCEPT ![n] = c]
           /\ Saves(n, c, "record") /\ UNCHANGED spoiled
  <2>1. /\ \A p \in Nodes : p # n => wallet'[p] = wallet[p]
        /\ wallet'[n] = IF wallet[n] = "none" THEN "none" ELSE c
    BY <1>3 DEF TypeOK
  <2>2. /\ WritersCompleted' /\ LastCompleted' /\ OnlyCompletionReplaces'
        /\ \A p \in Nodes, d \in Calls :
              saving'[p][d] = IF p = n /\ d = c THEN "record" ELSE saving[p][d]
        /\ \A p \in Nodes, d \in Calls : Writing(p, d)' => Writing(p, d)
        /\ \A p \in Nodes, d \in Calls : p # n => (Writing(p, d)' <=> Writing(p, d))
        /\ \A p \in Nodes : Lost(p, last[p])' <=> Lost(p, last[p])
    BY <1>1, <1>3, <2>1, WritersStay DEF Steps
  <2>3. <<n, last[n]>> \notin spoiled =>
           last[n] = c /\ share[n] = c /\ \A d \in Calls : ~Writing(n, d)'
    <3>1. ~Writing(n, c)'
      BY <2>2 DEF Writing
    <3> QED BY <1>1, <2>2, <3>1 DEF WritesInv, LastAlone
  <2>4. LastAlone'
    <3> SUFFICES ASSUME NEW p \in Nodes, <<p, last[p]>> \notin spoiled, NEW d \in Calls
                 PROVE  /\ Writing(p, d)' => d = last[p] /\ wallet'[p] # d
                        /\ saving'[p][d] = "wallet" => share[p] = d
      BY <1>1, <1>3 DEF LastAlone
    <3>1. CASE p = n
      BY <2>3, <3>1 DEF Writing
    <3>2. CASE p # n
      BY <2>1, <2>2, <3>2 DEF WritesInv, LastAlone
    <3> QED BY <3>1, <3>2
  <2>5. WalletMatchesShare'
    BY <1>1, <1>3, <2>1, <2>2, <2>3 DEF WritesInv, WalletMatchesShare
  <2> QED BY <2>2, <2>4, <2>5 DEF WritesInv
<1> QED BY <1>2, <1>3 DEF SaveWallet

LEMMA WritesRecord ==
    ASSUME TypeOK, WritesInv, NEW n \in Nodes, NEW c \in Calls, UpdateSession(n, c)
    PROVE  WritesInv'
<1>1. /\ status[n][c] \in {"completed", "failed"} /\ saving[n][c] = "record" /\ Saves(n, c, "done")
      /\ UNCHANGED <<call, status, share, wallet, last, spoiled>>
  BY DEF UpdateSession, WritesInv, WritersCompleted, history
<1>2. /\ WritersCompleted' /\ LastCompleted' /\ OnlyCompletionReplaces'
      /\ \A p \in Nodes, d \in Calls :
            saving'[p][d] = IF p = n /\ d = c THEN "done" ELSE saving[p][d]
      /\ \A p \in Nodes : Lost(p, last[p])' <=> Lost(p, last[p])
  BY <1>1, WritersStay DEF Steps
<1>3. \A p \in Nodes, d \in Calls : Writing(p, d)' <=> Writing(p, d)
  BY <1>1, <1>2 DEF Writing
<1>4. LastAlone'
  BY <1>1, <1>2, <1>3 DEF WritesInv, LastAlone
<1>5. WalletMatchesShare'
  BY <1>1, <1>2, <1>3 DEF WritesInv, WalletMatchesShare
<1> QED BY <1>2, <1>4, <1>5 DEF WritesInv

LEMMA WritesRun ==
    ASSUME TypeOK, WritesInv, NEW n \in Nodes, NEW c \in Calls, run(n, c)
    PROVE  WritesInv'
<1>1. CASE BeginRun(n, c) \/ sendMessage(n, c) \/ handleMessage(n, c)
  <2>1. /\ UNCHANGED <<call, saving, share, wallet, last, spoiled>>
        /\ \/ UNCHANGED status
           \/ status[n][c] = "pending" /\ status' = [status EXCEPT ![n][c] = "running"]
    BY <1>1 DEF BeginRun, sendMessage, handleMessage, storeVars, history
  <2>2. \A p \in Nodes, d \in Calls :
           \/ status'[p][d] = status[p][d]
           \/ status[p][d] = "pending" /\ status'[p][d] = "running"
    <3>1. CASE status[n][c] = "pending" /\ status' = [status EXCEPT ![n][c] = "running"]
      <4>1. \A p \in Nodes, d \in Calls :
               status'[p][d] = IF p = n /\ d = c THEN "running" ELSE status[p][d]
        BY <3>1 DEF TypeOK
      <4> QED BY <3>1, <4>1
    <3> QED BY <2>1, <3>1
  <2>3. \A d \in Calls : call'[d] = "idle" => status'[Req[d].node][d] = "none"
    BY <2>1, <2>2, RequestNode DEF WritesInv, WritersCompleted, Renewed
  <2> QED BY <2>1, <2>2, <2>3, QuietStep
<1>2. CASE handleSuccess(n, c)
  <2>1. /\ status[n][c] = "running" /\ status' = [status EXCEPT ![n][c] = "completed"]
        /\ UNCHANGED <<call, share, wallet>>
        /\ \/ n \in Req[c].new /\ BeginsWrites(n, c)
           \/ (Saves(n, c, "done") \/ Saves(n, c, "record")) /\ UNCHANGED <<last, spoiled>>
    BY <1>2 DEF handleSuccess, history
  <2>2. CASE n \in Req[c].new /\ BeginsWrites(n, c)
    BY <2>1, <2>2, WritesBegin
  <2>3. CASE (Saves(n, c, "done") \/ Saves(n, c, "record")) /\ UNCHANGED <<last, spoiled>>
    BY <2>1, <2>3, WritesEnd
  <2> QED BY <2>1, <2>2, <2>3
<1>3. CASE handleError(n, c)
  <2>1. /\ status[n][c] \in {"pending", "running"}
        /\ status' = [status EXCEPT ![n][c] = "failed"]
        /\ Saves(n, c, "record")
        /\ UNCHANGED <<call, share, wallet, last, spoiled>>
    BY <1>3 DEF handleError, storeVars, history
  <2> QED BY <2>1, WritesEnd
<1>4. CASE OpenShare(n, c) \/ FillShare(n, c) \/ SaveWallet(n, c) \/ UpdateSession(n, c)
  BY <1>4, WritesOpen, WritesFill, WritesWallet, WritesRecord
<1> QED BY <1>1, <1>2, <1>3, <1>4 DEF run

\* A process that dies leaves on disk what its goroutines had written: whoever was
\* writing is lost, and an unspoiled one of them was the last to begin.
LEMMA WritesCrash ==
    ASSUME TypeOK, WritesInv, NEW n \in Nodes, Crash(n)
    PROVE  WritesInv'
<1>1. /\ UNCHANGED <<share, wallet, last, spoiled>>
      /\ status' = [status EXCEPT ![n] = [c \in Calls |->
           IF status[n][c] \in {"pending", "running"} THEN "killed" ELSE status[n][c]]]
      /\ saving' = [saving EXCEPT ![n] = [c \in Calls |->
           IF Writing(n, c) THEN "lost" ELSE IF saving[n][c] = "record" THEN "done" ELSE saving[n][c]]]
      /\ call' = [d \in Calls |-> IF Req[d].node = n /\ call[d] = "await" THEN "killed" ELSE call[d]]
  BY DEF Crash, storeVars, history
<1>2. \A p \in Nodes, d \in Calls :
         status'[p][d] = IF p = n /\ status[p][d] \in {"pending", "running"} THEN "killed" ELSE status[p][d]
  BY <1>1 DEF TypeOK
<1>3. \A p \in Nodes, d \in Calls :
         saving'[p][d] = IF p # n THEN saving[p][d]
                         ELSE IF Writing(n, d) THEN "lost"
                         ELSE IF saving[n][d] = "record" THEN "done" ELSE saving[n][d]
  BY <1>1 DEF TypeOK
<1>4. \A p \in Nodes, d \in Calls :
         /\ Writing(p, d)' <=> Writing(p, d) /\ p # n
         /\ Renewed(p, d)' <=> Renewed(p, d)
  BY <1>2, <1>3 DEF Writing, Renewed
<1>5. WritersCompleted'
  <2>1. \A p \in Nodes, d \in Calls : Writing(p, d)' => Renewed(p, d)'
    BY <1>4 DEF WritesInv, WritersCompleted
  <2>2. \A p \in Nodes, d \in Calls : saving'[p][d] = "record" => status'[p][d] \in {"completed", "failed"}
    BY <1>2, <1>3 DEF WritesInv, WritersCompleted
  <2>3. \A d \in Calls : call'[d] = "idle" => call[d] = "idle"
    BY <1>1
  <2>4. \A d \in Calls : call'[d] = "idle" => status'[Req[d].node][d] = "none"
    BY <1>2, <2>3, RequestNode DEF WritesInv, WritersCompleted
  <2> QED BY <2>1, <2>2, <2>4 DEF WritersCompleted
<1>6. LastCompleted'
  BY <1>1, <1>4 DEF WritesInv, LastCompleted, Held
<1>7. LastAlone'
  <2>1. \A p \in Nodes, d \in Calls : saving'[p][d] = "wallet" => saving[p][d] = "wallet"
    BY <1>3
  <2> QED BY <1>1, <1>4, <2>1 DEF WritesInv, LastAlone
<1>8. WalletMatchesShare'
  <2>1. \A p \in Nodes : Lost(p, last[p]) => Lost(p, last[p])'
    BY <1>1, <1>3 DEF Lost, Writing
  <2>2. \A p \in Nodes, d \in Calls :
           <<p, last[p]>> \notin spoiled /\ Writing(p, d) => Writing(p, d)' \/ Lost(p, last[p])'
    BY <1>1, <1>3, <1>4 DEF Lost, WritesInv, LastAlone
  <2> QED BY <1>1, <2>1, <2>2 DEF WritesInv, WalletMatchesShare
<1>9. OnlyCompletionReplaces'
  BY <1>1, <1>4 DEF WritesInv, OnlyCompletionReplaces, Held
<1> QED BY <1>5, <1>6, <1>7, <1>8, <1>9 DEF WritesInv

\* A delivery or a restart changes no session and no store, and neither makes a call idle.
LEMMA WritesElsewhere ==
    ASSUME TypeOK, WritesInv,
           \/ \E m \in net : routeToSession(m)
           \/ \E n \in Nodes : Restart(n)
           \/ UNCHANGED vars
    PROVE  WritesInv'
<1>1. UNCHANGED <<call, status, saving, share, wallet, last, spoiled>>
  BY DEF routeToSession, Restart, vars, storeVars, history
<1>2. \A d \in Calls : call'[d] = "idle" => status'[Req[d].node][d] = "none"
  BY <1>1 DEF WritesInv, WritersCompleted
<1> QED BY <1>1, <1>2, QuietStep

LEMMA WritesStep == TypeOK /\ WritesInv /\ [Next]_vars => WritesInv'
BY WritesCall, WritesJoin, WritesRun, WritesCrash, WritesElsewhere DEF Next

\* Every reachable state is well typed; the record's type needs the invariant,
\* which says that only an ended session comes to its record.  No step of
\* resharing.go writes a status a record does not have.
THEOREM ReshareInvariant == Spec => [](TypeOK /\ WritesInv)
<1>1. Init => TypeOK /\ WritesInv
  BY TypeInit, WritesInit
<1>2. TypeOK /\ WritesInv /\ [Next]_vars => (TypeOK /\ WritesInv)'
  BY TypeStep, WritesStep DEF WritesInv
<1> QED BY <1>1, <1>2, PTL DEF Spec

\* The variables of a resharing keep their types.
THEOREM ReshareTypeCorrect == Spec => []TypeOK
BY ReshareInvariant, PTL

\* The invariant of the writes of handleSuccess.
THEOREM ReshareHolds == Spec => []WritesInv
BY ReshareInvariant, PTL

\* However earlier resharings ended on a node (a death between two writes, a failed write,
\* writes that overlapped): the last one to come to its writes, when it has them to itself,
\* never leaves its wallet record beside another share, and leaves record and share of one
\* resharing unless its own process died on the way.
THEOREM RecordAndShareAgree == Spec => []WalletMatchesShare
<1>1. WritesInv => WalletMatchesShare
  BY DEF WritesInv
<1> QED BY <1>1, ReshareHolds, PTL

\* Where no resharing has completed, share and wallet are the old ones.
THEOREM FailureReplacesNothing == Spec => []OnlyCompletionReplaces
<1>1. WritesInv => OnlyCompletionReplaces
  BY DEF WritesInv
<1> QED BY <1>1, ReshareHolds, PTL
-----------------------------------------------------------------------------
(* Whose messages a success stands for.                                    *)

LEMMA JointInit == Init => JointInv
<1> SUFFICES ASSUME Init PROVE JointInv
  OBVIOUS
<1>1. \A n \in Nodes, c \in Calls : round[n][c] = 0 /\ got[n][c] = {} /\ status[n][c] = "none"
  BY DEF Init, Each
<1>2. \A n \in Nodes, c \in Calls : \A k \in 1..round[n][c] - 1 : FALSE
  BY <1>1
<1> QED BY <1>1, <1>2 DEF Init, JointInv, SuccessIsJoint

\* What JointInv says of one session.
RowMeans(n, c) ==
    /\ \A k \in 1..round[n][c] - 1 : (Parties(c) \ {n}) \X {k} \subseteq got[n][c]
    /\ status[n][c] = "completed" => round[n][c] = Rounds + 1

\* A step that publishes nothing and takes nothing from the network: it may end or
\* open sessions and answer calls.
LEMMA JointQuiet ==
    ASSUME TypeOK, JointInv, UNCHANGED <<sent, got, net>>,
           \A n \in Nodes, c \in Calls : RowMeans(n, c)',
           \A c \in Calls : call'[c] = "ok" =>
              call[c] = "ok" \/ status[Req[c].node][c] = "completed"
    PROVE  JointInv'
<1>1. ASSUME NEW c \in Calls, call'[c] = "ok", NEW p \in Parties(c) \ {Req[c].node}
      PROVE  sent[p][c] = Rounds
  <2>1. CASE call[c] = "ok"
    BY <1>1, <2>1 DEF JointInv, SuccessIsJoint
  <2>2. CASE status[Req[c].node][c] = "completed"
    <3>1. Req[c].node \in Nodes /\ p \in Nodes
      BY CallsAssumption DEF Parties
    <3>2. Rounds \in 1..round[Req[c].node][c] - 1
      BY <2>2, <3>1, RoundsAssumption DEF JointInv
    <3>3. <<p, Rounds>> \in got[Req[c].node][c]
      BY <3>1, <3>2 DEF JointInv
    <3>4. \A x \in got[Req[c].node][c] : sent[x[1]][c] >= x[2]
      BY <3>1 DEF JointInv
    <3>5. sent[<<p, Rounds>>[1]][c] >= <<p, Rounds>>[2]
      BY <3>3, <3>4
    <3>6. sent[p][c] \in 0..Rounds
      BY <3>1 DEF TypeOK
    <3> QED BY <3>5, <3>6, RoundsAssumption
  <2> QED BY <1>1, <2>1, <2>2
<1> QED BY <1>1 DEF JointInv, SuccessIsJoint, RowMeans

LEMMA RowSame ==
    ASSUME NEW n \in Nodes, NEW c \in Calls, RowMeans(n, c),
           round'[n][c] = round[n][c], got[n][c] \subseteq got'[n][c],
           \/ status'[n][c] = "completed" => status[n][c] = "completed"
           \/ round[n][c] = Rounds + 1
    PROVE  RowMeans(n, c)'
BY DEF RowMeans

LEMMA JointCall ==
    ASSUME TypeOK, JointInv, NEW c \in Calls, ReshareWallet(c)
    PROVE  JointInv'
<1>1. UNCHANGED partyVars /\ UNCHANGED net
  BY DEF ReshareWallet, StartResharing, WaitForCompletion
<1>2. \A d \in Calls : call'[d] = "ok" => call[d] = "ok" \/ status[Req[d].node][d] = "completed"
  BY DEF ReshareWallet, StartResharing, WaitForCompletion, TypeOK
<1>3. ASSUME NEW p \in Nodes, NEW d \in Calls
      PROVE  RowMeans(p, d)'
  <2>1. status'[p][d] = "completed" => status[p][d] = "completed"
    <3>1. \/ UNCHANGED status
          \/ status' = [status EXCEPT ![Req[c].node][c] = "pending"]
      BY DEF ReshareWallet, StartResharing, WaitForCompletion, CreateSession
    <3>2. CASE status' = [status EXCEPT ![Req[c].node][c] = "pending"]
      <4>1. Req[c].node \in Nodes
        BY RequestNode
      <4>2. status'[p][d] = IF p = Req[c].node /\ d = c THEN "pending" ELSE status[p][d]
        BY <3>2, <4>1 DEF TypeOK
      <4> QED BY <4>2
    <3> QED BY <3>1, <3>2
  <2>2. RowMeans(p, d)
    BY DEF JointInv, RowMeans
  <2> QED BY <1>1, <2>1, <2>2, RowSame DEF partyVars
<1> QED BY <1>1, <1>2, <1>3, JointQuiet DEF partyVars

LEMMA JointJoin ==
    ASSUME TypeOK, JointInv, NEW n \in Nodes, NEW c \in Calls, JoinResharing(n, c)
    PROVE  JointInv'
<1>1. UNCHANGED partyVars /\ UNCHANGED <<net, call>>
  BY DEF JoinResharing
<1>3. ASSUME NEW p \in Nodes, NEW d \in Calls
      PROVE  RowMeans(p, d)'
  <2>1. status'[p][d] = "completed" => status[p][d] = "completed"
    BY DEF JoinResharing, CreateSession, TypeOK
  <2>2. RowMeans(p, d)
    BY DEF JointInv, RowMeans
  <2> QED BY <1>1, <2>1, <2>2, RowSame DEF partyVars
<1> QED BY <1>1, <1>3, JointQuiet DEF partyVars

LEMMA JointRun ==
    ASSUME TypeOK, JointInv, NEW n \in Nodes, NEW c \in Calls, run(n, c)
    PROVE  JointInv'
<1>0. \A p \in Nodes, d \in Calls : RowMeans(p, d)
  BY DEF JointInv, RowMeans
<1>1. CASE BeginRun(n, c)
  <2>1. UNCHANGED <<sent, got, net, call>>
    BY <1>1 DEF BeginRun
  <2>2. ASSUME NEW p \in Nodes, NEW d \in Calls
        PROVE  RowMeans(p, d)'
    <3>1. CASE p = n /\ d = c
      <4>1. round'[p][d] = 1 /\ status'[p][d] = "running"
        BY <1>1, <3>1 DEF BeginRun, TypeOK
      <4>2. \A k \in 1..round'[p][d] - 1 : FALSE
        BY <4>1
      <4> QED BY <4>1, <4>2 DEF RowMeans
    <3>2. CASE ~(p = n /\ d = c)
      <4>1. round'[p][d] = round[p][d] /\ status'[p][d] = status[p][d]
        BY <1>1, <3>2 DEF BeginRun, TypeOK
      <4> QED BY <1>0, <2>1, <4>1, RowSame
    <3> QED BY <3>1, <3>2
  <2> QED BY <2>1, <2>2, JointQuiet
<1>2. CASE sendMessage(n, c)
  <2>1. /\ UNCHANGED <<call, status, round, got>>
        /\ sent[n][c] < Rounds
        /\ net' = net \cup {[call |-> c, from |-> n, to |-> m, round |-> sent[n][c] + 1] :
                              m \in Parties(c) \ {n}}
    BY <1>2 DEF sendMessage
  <2>2. \A p \in Nodes, d \in Calls :
           sent'[p][d] = IF p = n /\ d = c THEN sent[n][c] + 1 ELSE sent[p][d]
    <3>1. sent' = [sent EXCEPT ![n][c] = sent[n][c] + 1]
      BY <1>2 DEF sendMessage, TypeOK
    <3> QED BY <3>1 DEF TypeOK
  <2>3. \A p \in Nodes, d \in Calls : sent[p][d] \in 0..Rounds /\ sent'[p][d] >= sent[p][d]
    <3>1. \A p \in Nodes, d \in Calls : sent[p][d] \in 0..Rounds
      BY DEF TypeOK
    <3> QED BY <2>2, <3>1, RoundsAssumption
  <2>4. ASSUME NEW m \in net'
        PROVE  sent'[m.from][m.call] >= m.round
    <3>1. CASE m \in net
      <4>1. m.from \in Nodes /\ m.call \in Calls /\ m.round \in 1..Rounds
        BY <3>1 DEF TypeOK
      <4>2. sent[m.from][m.call] >= m.round
        BY <3>1 DEF JointInv
      <4>3. sent'[m.from][m.call] >= sent[m.from][m.call] /\ sent[m.from][m.call] \in 0..Rounds
        BY <2>3, <4>1
      <4>4. sent'[m.from][m.call] \in Nat
        BY <2>2, <2>3, <4>1
      <4> QED BY <4>1, <4>2, <4>3, <4>4, RoundsAssumption
    <3>2. CASE m \notin net
      <4>1. m.from = n /\ m.call = c /\ m.round = sent[n][c] + 1
        BY <2>1, <3>2
      <4>2. sent'[n][c] = sent[n][c] + 1 /\ sent[n][c] + 1 \in Nat
        BY <2>2, <2>3, RoundsAssumption
      <4> QED BY <4>1, <4>2
    <3> QED BY <3>1, <3>2
  <2>5. ASSUME NEW p \in Nodes, NEW d \in Calls, NEW x \in got[p][d]
        PROVE  sent'[x[1]][d] >= x[2]
    <3>1. x[1] \in Nodes /\ x[2] \in 1..Rounds
      BY DEF TypeOK, RoundMsgs
    <3>2. sent[x[1]][d] >= x[2]
      BY DEF JointInv
    <3>3. sent'[x[1]][d] >= sent[x[1]][d] /\ sent[x[1]][d] \in 0..Rounds
      BY <2>3, <3>1
    <3>4. sent'[x[1]][d] \in Nat
      BY <2>2, <2>3, <3>1
    <3> QED BY <3>1, <3>2, <3>3, <3>4, RoundsAssumption
  <2>6. SuccessIsJoint'
    <3> SUFFICES ASSUME NEW d \in Calls, call[d] = "ok", NEW p \in Parties(d) \ {Req[d].node}
                 PROVE  sent'[p][d] = Rounds
      BY <2>1 DEF SuccessIsJoint, Parties
    <3>1. sent[p][d] = Rounds /\ p \in Nodes
      BY CallsAssumption DEF JointInv, SuccessIsJoint, Parties
    <3>2. ~(p = n /\ d = c)
      BY <2>1, <3>1, RoundsAssumption
    <3> QED BY <2>2, <3>1, <3>2
  <2>7. \A p \in Nodes, d \in Calls : RowMeans(p, d)'
    BY <1>0, <2>1, RowSame
  <2> QED BY <2>1, <2>4, <2>5, <2>6, <2>7 DEF JointInv, RowMeans
<1>3. CASE handleMessage(n, c)
  <2>1. /\ UNCHANGED <<sent, got, net, call, status>>
        /\ (Parties(c) \ {n}) \X {round[n][c]} \subseteq got[n][c]
        /\ status[n][c] = "running"
    BY <1>3 DEF handleMessage
  <2>2. ASSUME NEW p \in Nodes, NEW d \in Calls
        PROVE  RowMeans(p, d)'
    <3>1. CASE p = n /\ d = c
      <4>1. round'[n][c] = round[n][c] + 1 /\ round[n][c] \in Nat
        BY <1>3, RoundsAssumption DEF handleMessage, TypeOK
      <4>2. ASSUME NEW k \in 1..round'[n][c] - 1
            PROVE  (Parties(c) \ {n}) \X {k} \subseteq got[n][c]
        <5>1. k = round[n][c] \/ k \in 1..round[n][c] - 1
          BY <4>1
        <5> QED BY <1>0, <2>1, <5>1 DEF RowMeans
      <4> QED BY <2>1, <3>1, <4>2 DEF RowMeans
    <3>2. CASE ~(p = n /\ d = c)
      <4>1. round'[p][d] = round[p][d]
        BY <1>3, <3>2 DEF handleMessage, TypeOK
      <4> QED BY <1>0, <2>1, <4>1, RowSame
    <3> QED BY <3>1, <3>2
  <2> QED BY <2>1, <2>2, JointQuiet
<1>4. CASE handleSuccess(n, c) \/ handleError(n, c)
  <2>1. /\ UNCHANGED <<sent, got, net, call, round>>
        /\ \/ status' = [status EXCEPT ![n][c] = "failed"]
           \/ status' = [status EXCEPT ![n][c] = "completed"] /\ round[n][c] = Rounds + 1
    BY <1>4 DEF handleSuccess, handleError, partyVars
  <2>2. ASSUME NEW p \in Nodes, NEW d \in Calls
        PROVE  RowMeans(p, d)'
    <3>1. \/ status'[p][d] = "completed" => status[p][d] = "completed"
          \/ round[p][d] = Rounds + 1
      <4>1. CASE status' = [status EXCEPT ![n][c] = "failed"]
        BY <4>1 DEF TypeOK
      <4>2. CASE status' = [status EXCEPT ![n][c] = "completed"] /\ round[n][c] = Rounds + 1
        BY <4>2 DEF TypeOK
      <4> QED BY <2>1, <4>1, <4>2
    <3> QED BY <1>0, <2>1, <3>1, RowSame
  <2> QED BY <2>1, <2>2, JointQuiet
<1>5. CASE OpenShare(n, c) \/ FillShare(n, c) \/ SaveWallet(n, c) \/ UpdateSession(n, c)
  <2>1. UNCHANGED <<sent, got, net, call, round, status>>
    BY <1>5 DEF OpenShare, FillShare, SaveWallet, UpdateSession, partyVars
  <2>2. \A p \in Nodes, d \in Calls : RowMeans(p, d)'
    BY <1>0, <2>1, RowSame
  <2> QED BY <2>1, <2>2, JointQuiet
<1> QED BY <1>1, <1>2, <1>3, <1>4, <1>5 DEF run

LEMMA JointRoute ==
    ASSUME TypeOK, JointInv, NEW m \in net, routeToSession(m)
    PROVE  JointInv'
<1>1. /\ net' \subseteq net /\ UNCHANGED <<call, status, round, sent>>
      /\ m.to \in Nodes /\ m.call \in Calls /\ m.from \in Nodes
  BY DEF routeToSession, TypeOK
<1>2. \A p \in Nodes, d \in Calls :
         \/ got'[p][d] = got[p][d]
         \/ d = m.call /\ got'[p][d] = got[p][d] \cup {<<m.from, m.round>>}
  <2>1. CASE got' = [got EXCEPT ![m.to][m.call] = got[m.to][m.call] \cup {<<m.from, m.round>>}]
    BY <1>1, <2>1 DEF TypeOK
  <2> QED BY <2>1 DEF routeToSession
<1>3. ASSUME NEW p \in Nodes, NEW d \in Calls, NEW x \in got'[p][d]
      PROVE  sent[x[1]][d] >= x[2]
  <2>1. CASE x \in got[p][d]
    BY <2>1 DEF JointInv
  <2>2. CASE d = m.call /\ x = <<m.from, m.round>>
    BY <2>2 DEF JointInv
  <2> QED BY <1>2, <2>1, <2>2
<1>4. ASSUME NEW p \in Nodes, NEW d \in Calls
      PROVE  RowMeans(p, d)'
  <2>1. got[p][d] \subseteq got'[p][d] /\ RowMeans(p, d)
    BY <1>2 DEF JointInv, RowMeans
  <2> QED BY <1>1, <2>1, RowSame
<1>5. SuccessIsJoint'
  BY <1>1 DEF JointInv, SuccessIsJoint, Parties
<1> QED BY <1>1, <1>3, <1>4, <1>5 DEF JointInv, RowMeans

LEMMA JointElsewhere ==
    ASSUME TypeOK, JointInv, UNCHANGED vars \/ \E n \in Nodes : Crash(n) \/ Restart(n)
    PROVE  JointInv'
<1>1. UNCHANGED <<sent, got, net, round>>
  BY DEF vars, Crash, Restart, partyVars
<1>2. \A d \in Calls : call'[d] = "ok" => call[d] = "ok"
  BY DEF vars, Crash, Restart
<1>3. \A p \in Nodes, d \in Calls : status'[p][d] = "completed" => status[p][d] = "completed"
  <2>1. CASE \E n \in Nodes : Crash(n)
    <3>1. PICK n \in Nodes : Crash(n)
      BY <2>1
    <3>2. status' = [status EXCEPT ![n] = [c \in Calls |->
             IF status[n][c] \in {"pending", "running"} THEN "killed" ELSE status[n][c]]]
      BY <3>1 DEF Crash
    <3> QED BY <3>2 DEF TypeOK
  <2>2. CASE UNCHANGED status
    BY <2>2
  <2> QED BY <2>1, <2>2 DEF vars, Restart
<1>4. \A p \in Nodes, d \in Calls : RowMeans(p, d)'
  BY <1>1, <1>3, RowSame DEF JointInv, RowMeans
<1> QED BY <1>1, <1>2, <1>4, JointQuiet

LEMMA JointStep == TypeOK /\ JointInv /\ [Next]_vars => JointInv'
BY JointCall, JointJoin, JointRun, JointRoute, JointElsewhere DEF Next

\* The caller of ReshareWallet is told of success only if every other old and new
\* party has published all its messages.
THEOREM JointSuccess == Spec => []SuccessIsJoint
<1>1. JointInv => SuccessIsJoint
  BY DEF JointInv
<1> QED BY <1>1, JointInit, JointStep, ReshareTypeCorrect, PTL DEF Spec
=============================================================================
