--------------------------- MODULE P2PHostProofs ---------------------------
(***************************************************************************)
(* Theorems about the message path of a node, for any topics, messages and *)
(* channel capacities: types, what can be lost and when, and that the path *)
(* implements OrderedDelivery.                                             *)
(***************************************************************************)
EXTENDS P2PHost, SequenceTheorems, WellFoundedInduction, TLAPS

\* What a goroutine takes from a channel, and what it puts into one with room,
\* leaves both within their bounds.
LEMMA EmptyTyped == <<>> \in AtMost(1, Seq(Messages))
  BY DEF AtMost

LEMMA Received ==
    ASSUME NEW n \in Nat, NEW s \in AtMost(n, Seq(Messages)), s # <<>>
    PROVE  /\ Tail(s) \in AtMost(n, Seq(Messages))
           /\ Head(s) \in Messages /\ <<Head(s)>> \in AtMost(1, Seq(Messages))
<1>1. s \in Seq(Messages) /\ Len(s) <= n
  BY DEF AtMost
<1>2. Tail(s) \in Seq(Messages) /\ Len(Tail(s)) = Len(s) - 1 /\ Head(s) \in Messages
  BY <1>1
<1>3. Len(s) \in Nat
  BY <1>1
<1> QED BY <1>1, <1>2, <1>3 DEF AtMost

LEMMA Sent ==
    ASSUME NEW n \in Nat, NEW s \in AtMost(n, Seq(Messages)), Len(s) < n,
           NEW h \in AtMost(1, Seq(Messages))
    PROVE  s \o h \in AtMost(n, Seq(Messages))
<1>1. s \in Seq(Messages) /\ h \in Seq(Messages) /\ Len(h) <= 1
  BY DEF AtMost
<1>2. s \o h \in Seq(Messages) /\ Len(s \o h) = Len(s) + Len(h)
  BY <1>1
<1>3. Len(s) \in Nat /\ Len(h) \in Nat
  BY <1>1
<1> QED BY <1>1, <1>2, <1>3 DEF AtMost

LEMMA Appended ==
    ASSUME NEW s \in Seq(Messages), NEW m \in Messages
    PROVE  Append(s, m) \in Seq(Messages)
OBVIOUS

\* Every step of the message path keeps the types.
LEMMA HostTypeStep == TypeOK /\ [Next]_vars => TypeOK'
<1> SUFFICES ASSUME TypeOK, [Next]_vars PROVE TypeOK'
  OBVIOUS
<1> USE CapAssumption, MessagesAssumption
<1>1. ASSUME NEW m \in Messages, Arrive(m) PROVE TypeOK'
  BY <1>1 DEF TypeOK, Arrive
<1>2. ASSUME NEW t \in Topics, NextMessage(t) PROVE TypeOK'
  <2>1. CASE sub[t] # <<>> /\ ended' = ended
             /\ sub' = [sub EXCEPT ![t] = Tail(@)]
             /\ reader' = [reader EXCEPT ![t] =
                              IF Head(sub[t]).for = "us" THEN <<Head(sub[t])>> ELSE <<>>]
    <3>1. sub[t] \in Seq(Messages)
      BY DEF TypeOK
    <3>2. Tail(sub[t]) \in Seq(Messages) /\ <<Head(sub[t])>> \in AtMost(1, Seq(Messages))
      BY <2>1, <3>1 DEF AtMost
    <3> QED BY <1>2, <2>1, <3>2, EmptyTyped DEF TypeOK, NextMessage
  <2>2. CASE Returns(t) /\ UNCHANGED <<sub, reader>>
    BY <1>2, <2>2 DEF TypeOK, NextMessage, Returns
  <2> QED BY <1>2, <2>1, <2>2 DEF NextMessage
<1>3. ASSUME NEW t \in Topics, Offer(t) PROVE TypeOK'
  <2>1. incoming' \in AtMost(IncomingCap, Seq(Messages))
    <3>1. CASE Len(incoming) < IncomingCap /\ incoming' = incoming \o reader[t]
      BY <3>1, Sent DEF TypeOK
    <3>2. CASE incoming' = incoming
      BY <3>2 DEF TypeOK
    <3> QED BY <1>3, <3>1, <3>2 DEF Offer
  <2>2. reader' \in [Topics -> AtMost(1, Seq(Messages))]
    <3>1. CASE reader' = [reader EXCEPT ![t] = <<>>]
      BY <3>1, EmptyTyped DEF TypeOK
    <3>2. CASE reader' = reader
      BY <3>2 DEF TypeOK
    <3> QED BY <1>3, <3>1, <3>2 DEF Offer
  <2>3. ended' \in SUBSET (Topics \cup {"pump", "server"})
    <3>1. ended' = ended \/ ended' = ended \cup {t}
      BY <1>3 DEF Offer, Returns
    <3> QED BY <3>1 DEF TypeOK
  <2>4. crash' \in Causes
    <3>1. crash' = crash \/ crash' = "incomingChan"
      BY <1>3 DEF Offer
    <3> QED BY <3>1 DEF TypeOK, Causes
  <2> QED BY <1>3, <2>1, <2>2, <2>3, <2>4 DEF TypeOK, Offer
<1>4. ASSUME Take PROVE TypeOK'
  <2>1. CASE incoming # <<>> /\ ended' = ended
             /\ incoming' = Tail(incoming) /\ pump' = <<Head(incoming)>>
    BY <1>4, <2>1, Received DEF TypeOK, Take
  <2>2. CASE Returns("pump") /\ UNCHANGED <<incoming, pump>>
    BY <1>4, <2>2 DEF TypeOK, Take, Returns
  <2> QED BY <1>4, <2>1, <2>2 DEF Take
<1>5. ASSUME Put PROVE TypeOK'
  <2>1. msgChan' \in AtMost(MsgChanCap, Seq(Messages))
    <3>1. CASE Len(msgChan) < MsgChanCap /\ msgChan' = msgChan \o pump
      BY <3>1, Sent DEF TypeOK
    <3>2. CASE msgChan' = msgChan
      BY <3>2 DEF TypeOK
    <3> QED BY <1>5, <3>1, <3>2 DEF Put
  <2>2. pump' \in AtMost(1, Seq(Messages))
    <3>1. pump' = <<>> \/ pump' = pump
      BY <1>5 DEF Put
    <3> QED BY <3>1, EmptyTyped DEF TypeOK
  <2>3. ended' \in SUBSET (Topics \cup {"pump", "server"}) /\ crash' \in Causes
    <3>1. (ended' = ended \/ ended' = ended \cup {"pump"})
          /\ (crash' = crash \/ crash' = "msgChan")
      BY <1>5 DEF Put, Returns
    <3> QED BY <3>1 DEF TypeOK, Causes
  <2> QED BY <1>5, <2>1, <2>2, <2>3 DEF TypeOK, Put
<1>6. ASSUME handleMessages PROVE TypeOK'
  <2>1. CASE msgChan # <<>> /\ msgChan' = Tail(msgChan) /\ ended' = ended
    <3>1. msgChan' \in AtMost(MsgChanCap, Seq(Messages)) /\ Head(msgChan) \in Messages
      BY <2>1, Received DEF TypeOK
    <3>2. handled' = handled \/ handled' = Append(handled, Head(msgChan))
      BY <1>6, <2>1 DEF handleMessages
    <3>3. handled' \in Seq(Messages)
      <4>1. handled \in Seq(Messages)
        BY DEF TypeOK
      <4>2. Append(handled, Head(msgChan)) \in Seq(Messages)
        BY <3>1, <4>1, Appended
      <4> QED BY <3>2, <4>1, <4>2
    <3>4. crash' \in Causes
      BY <1>6, <2>1 DEF TypeOK, handleMessages, Causes
    <3> QED BY <1>6, <2>1, <3>1, <3>3, <3>4 DEF TypeOK, handleMessages
  <2>2. CASE Returns("server") /\ UNCHANGED <<msgChan, handled, crash>>
    BY <1>6, <2>2 DEF TypeOK, handleMessages, Returns
  <2> QED BY <1>6, <2>1, <2>2 DEF handleMessages
<1>7. ASSUME RegisterHandlers \/ Shutdown \/ Stop PROVE TypeOK'
  BY <1>7 DEF TypeOK, RegisterHandlers, Shutdown, Stop, MainStep, Stages, chanVars
<1>8. CASE UNCHANGED vars
  BY <1>8 DEF TypeOK, vars, chanVars
<1> QED BY <1>1, <1>2, <1>3, <1>4, <1>5, <1>6, <1>7, <1>8
       DEF Next, readLoop, handlePubSubMessages

\* Type correctness: in particular no channel ever holds more than its capacity,
\* and the two receiving goroutines hold one message at most.
THEOREM HostTypeCorrect == Spec => []TypeOK
<1>1. Init => TypeOK
  BY CapAssumption DEF Init, TypeOK, AtMost, Stages, Causes
<1> QED BY <1>1, HostTypeStep, PTL DEF Spec

-----------------------------------------------------------------------------
(* A message leaves the path to the handlers only where it is handled or   *)
(* where the path is full.                                                 *)

LEMMA ElementsTail ==
    ASSUME NEW s \in Seq(Messages), s # <<>>
    PROVE  Elements(s) \subseteq {Head(s)} \cup Elements(Tail(s))
<1>1. Tail(s) \in Seq(Messages) /\ Len(Tail(s)) = Len(s) - 1
  OBVIOUS
<1>2. DOMAIN s = 1..Len(s) /\ DOMAIN Tail(s) = 1..Len(Tail(s)) /\ Len(s) \in Nat
  BY <1>1
<1>3. ASSUME NEW i \in 1..Len(s), i # 1
      PROVE  i - 1 \in 1..Len(Tail(s)) /\ Tail(s)[i - 1] = s[i]
  <2>1. i - 1 \in 1..Len(s) - 1 /\ i - 1 \in 1..Len(Tail(s))
    BY <1>1, <1>2, <1>3
  <2>2. \A j \in 1..Len(s) - 1 : Tail(s)[j] = s[j + 1]
    OBVIOUS
  <2>3. Tail(s)[i - 1] = s[(i - 1) + 1] /\ (i - 1) + 1 = i
    BY <2>1, <2>2
  <2> QED BY <2>1, <2>3
<1>4. Head(s) = s[1]
  OBVIOUS
<1> QED BY <1>2, <1>3, <1>4 DEF Elements

LEMMA ElementsConcat ==
    ASSUME NEW s \in Seq(Messages), NEW h \in Seq(Messages)
    PROVE  Elements(s) \cup Elements(h) \subseteq Elements(s \o h)
<1>1. ASSUME NEW i \in 1..Len(s) PROVE i \in 1..Len(s \o h) /\ (s \o h)[i] = s[i]
  OBVIOUS
<1>2. ASSUME NEW i \in 1..Len(h)
      PROVE  Len(s) + i \in 1..Len(s \o h) /\ (s \o h)[Len(s) + i] = h[i]
  OBVIOUS
<1>3. DOMAIN s = 1..Len(s) /\ DOMAIN h = 1..Len(h) /\ DOMAIN (s \o h) = 1..Len(s \o h)
  OBVIOUS
<1> QED BY <1>1, <1>2, <1>3 DEF Elements

LEMMA ElementsAppend ==
    ASSUME NEW s \in Seq(Messages), NEW m \in Messages
    PROVE  Elements(s) \subseteq Elements(Append(s, m)) /\ m \in Elements(Append(s, m))
<1>1. ASSUME NEW i \in 1..Len(s) PROVE i \in 1..Len(Append(s, m)) /\ Append(s, m)[i] = s[i]
  OBVIOUS
<1>2. Len(s) + 1 \in 1..Len(Append(s, m)) /\ Append(s, m)[Len(s) + 1] = m
  OBVIOUS
<1> QED BY <1>1, <1>2 DEF Elements

LEMMA ElementsOne == \A m : Elements(<<m>>) = {m}
  BY DEF Elements

LEMMA ElementsEmpty == Elements(<<>>) = {}
  BY DEF Elements

\* Every message on the way stays there, is handled, or is lost for a reason.
LEMMA LossStep ==
    ASSUME TypeOK, Next, NEW m \in Pending, m \notin Pending'
    PROVE  \/ m \in Elements(handled')
           \/ m.for = "other" \/ ~Registered(m)
           \/ m \notin Accepted /\ Len(incoming) = IncomingCap
           \/ CtxDone
           \/ crash' # "none"
<1>1. /\ incoming \in Seq(Messages) /\ pump \in Seq(Messages) /\ msgChan \in Seq(Messages)
      /\ handled \in Seq(Messages)
      /\ \A t \in Topics : sub[t] \in Seq(Messages) /\ reader[t] \in Seq(Messages)
  BY DEF TypeOK, AtMost
<1>2. \/ \E t \in Topics : m \in Elements(sub[t]) \/ m \in Elements(reader[t])
      \/ m \in Elements(incoming) \/ m \in Elements(pump) \/ m \in Elements(msgChan)
  BY DEF Pending
<1>3. /\ \A t \in Topics : m \notin Elements(sub'[t]) /\ m \notin Elements(reader'[t])
      /\ m \notin Elements(incoming') /\ m \notin Elements(pump') /\ m \notin Elements(msgChan')
  <2>1. m \in Messages
    BY DEF Pending
  <2> QED BY <2>1 DEF Pending
<1>4. ASSUME NEW n \in Messages, Arrive(n) PROVE FALSE
  <2>1. \A t \in Topics : Elements(sub[t]) \subseteq Elements(sub'[t])
    BY <1>1, <1>4, ElementsAppend DEF Arrive, TypeOK
  <2> QED BY <1>2, <1>3, <1>4, <2>1 DEF Arrive
<1>5. ASSUME NEW t \in Topics, NextMessage(t) PROVE m.for = "other" \/ CtxDone
  <2>1. CASE sub[t] # <<>>
             /\ sub' = [sub EXCEPT ![t] = Tail(@)]
             /\ reader' = [reader EXCEPT ![t] =
                              IF Head(sub[t]).for = "us" THEN <<Head(sub[t])>> ELSE <<>>]
    <3>1. Elements(sub[t]) \subseteq {Head(sub[t])} \cup Elements(sub'[t])
      BY <1>1, <2>1, ElementsTail DEF TypeOK
    <3>2. \A x \in Topics \ {t} : sub'[x] = sub[x] /\ reader'[x] = reader[x]
      BY <2>1 DEF TypeOK
    <3>3. m = Head(sub[t])
      BY <1>2, <1>3, <1>5, <3>1, <3>2, ElementsEmpty DEF NextMessage
    <3>4. m \in Messages /\ m.for # "us"
      <4>1. m \in Messages
        BY <1>1, <2>1, <3>3
      <4>2. m.for = "us" => reader'[t] = <<m>>
        BY <2>1, <3>3 DEF TypeOK
      <4> QED BY <1>3, <4>1, <4>2, ElementsOne
    <3> QED BY <3>4, MessagesAssumption
  <2>2. CASE UNCHANGED <<sub, reader>>
    BY <1>2, <1>3, <1>5, <2>2 DEF NextMessage
  <2> QED BY <1>5, <2>1, <2>2 DEF NextMessage
<1>6. ASSUME NEW t \in Topics, Offer(t)
      PROVE  (m \notin Accepted /\ Len(incoming) = IncomingCap) \/ CtxDone
  <2>1. CASE incoming' = incoming \o reader[t] /\ reader' = [reader EXCEPT ![t] = <<>>]
    <3>1. Elements(incoming) \cup Elements(reader[t]) \subseteq Elements(incoming')
      BY <1>1, <2>1, ElementsConcat
    <3>2. \A x \in Topics \ {t} : reader'[x] = reader[x]
      BY <2>1 DEF TypeOK
    <3> QED BY <1>2, <1>3, <1>6, <3>1, <3>2 DEF Offer
  <2>2. CASE UNCHANGED incoming /\ ~CtxDone /\ Len(incoming) = IncomingCap
    <3>1. UNCHANGED <<incoming, pump, msgChan>>
      BY <1>6, <2>2 DEF Offer
    <3>2. m \notin Accepted
      BY <1>3, <3>1 DEF Accepted
    <3> QED BY <2>2, <3>2
  <2>3. CASE UNCHANGED <<incoming, reader>>
    BY <1>2, <1>3, <1>6, <2>3 DEF Offer
  <2> QED BY <1>6, <2>1, <2>2, <2>3 DEF Offer
<1>7. ASSUME Take PROVE FALSE
  <2>1. CASE pump = <<>> /\ incoming # <<>>
             /\ incoming' = Tail(incoming) /\ pump' = <<Head(incoming)>>
    <3>1. Elements(incoming) \subseteq {Head(incoming)} \cup Elements(incoming')
      BY <1>1, <2>1, ElementsTail
    <3>2. Elements(pump') = {Head(incoming)} /\ Elements(pump) = {}
      BY <2>1, ElementsOne, ElementsEmpty
    <3> QED BY <1>2, <1>3, <1>7, <3>1, <3>2 DEF Take
  <2>2. CASE UNCHANGED <<incoming, pump>>
    BY <1>2, <1>3, <1>7, <2>2 DEF Take
  <2> QED BY <1>7, <2>1, <2>2 DEF Take
<1>8. ASSUME Put PROVE CtxDone
  <2>1. CASE msgChan' = msgChan \o pump
    <3>1. Elements(msgChan) \cup Elements(pump) \subseteq Elements(msgChan')
      BY <1>1, <2>1, ElementsConcat
    <3> QED BY <1>2, <1>3, <1>8, <3>1 DEF Put
  <2>2. CASE UNCHANGED <<msgChan, pump>>
    BY <1>2, <1>3, <1>8, <2>2 DEF Put
  <2> QED BY <1>8, <2>1, <2>2 DEF Put
<1>9. ASSUME handleMessages PROVE m \in Elements(handled') \/ ~Registered(m) \/ crash' # "none"
  <2>1. CASE msgChan # <<>> /\ msgChan' = Tail(msgChan)
    <3>1. Elements(msgChan) \subseteq {Head(msgChan)} \cup Elements(msgChan')
      BY <1>1, <2>1, ElementsTail
    <3>2. m = Head(msgChan)
      BY <1>2, <1>3, <1>9, <3>1 DEF handleMessages
    <3>3. CASE handled' = Append(handled, m)
      <4>1. m \in Messages
        BY <1>1, <2>1, <3>2
      <4> QED BY <1>1, <3>3, <4>1, ElementsAppend
    <3>4. CASE ~Registered(m)
      BY <3>4
    <3>5. CASE crash' = "map"
      BY <3>5
    <3> QED BY <1>9, <2>1, <3>2, <3>3, <3>4, <3>5 DEF handleMessages
  <2>2. CASE UNCHANGED msgChan
    BY <1>2, <1>3, <1>9, <2>2 DEF handleMessages
  <2> QED BY <1>9, <2>1, <2>2 DEF handleMessages
<1>10. ASSUME RegisterHandlers \/ Shutdown \/ Stop PROVE FALSE
  BY <1>2, <1>3, <1>10 DEF RegisterHandlers, Shutdown, Stop, MainStep, chanVars
<1> QED BY <1>4, <1>5, <1>6, <1>7, <1>8, <1>9, <1>10
       DEF Next, readLoop, handlePubSubMessages

\* While the node serves, no message for a registered handler is lost unless it comes
\* to an incomingChan that is full: neither of the two hand-overs behind it drops anything.
THEOREM LossNeedsBacklog == Spec => LostOnlyUnderBacklog
<1>1. TypeOK /\ [Next]_vars =>
         [\A m \in Pending \ Pending' :
             \/ m \in Elements(handled')
             \/ m.for = "other" \/ ~Registered(m)
             \/ m \notin Accepted /\ Len(incoming) = IncomingCap
             \/ CtxDone
             \/ crash' # "none"]_vars
  BY LossStep
<1> QED BY <1>1, HostTypeCorrect, PTL DEF Spec, LostOnlyUnderBacklog



-----------------------------------------------------------------------------
(* Induction.  The theorem WFMin of the library speaks of sets, so an       *)
(* induction is stated here for the set of the numbers, or of the          *)
(* sequences, that have the property.                                      *)

Below == OpToRel(<, Nat)

\* Induction on the naturals, for a set of numbers: its complement has no least element.
LEMMA SetInduction ==
    ASSUME NEW S, 0 \in S, \A n \in Nat : n \in S => n + 1 \in S
    PROVE  Nat \subseteq S
<1> DEFINE T == Nat \ S
<1>1. SUFFICES ASSUME T # {} PROVE FALSE
  OBVIOUS
<1>2. T \subseteq Nat
  OBVIOUS
<1> HIDE DEF T
<1>3. IsWellFoundedOn(Below, Nat)
  BY NatLessThanWellFounded DEF Below
<1>4. PICK x \in T : \A y \in T : ~ (<<y, x>> \in Below)
  BY <1>1, <1>2, <1>3, WFMin
<1>5. \A y \in T : ~ (y < x)
  BY <1>2, <1>4 DEF Below, OpToRel
<1>6. x \in Nat /\ x # 0
  BY <1>4 DEF T
<1>7. x - 1 \in Nat /\ x - 1 \notin T
  BY <1>5, <1>6
<1> QED
  BY <1>4, <1>6, <1>7 DEF T

\* Induction on the length of a sequence.
LEMMA SeqInduction ==
    ASSUME NEW D, NEW S, <<>> \in S,
           \A s \in Seq(D), e \in D : s \in S => Append(s, e) \in S
    PROVE  Seq(D) \subseteq S
<1> DEFINE L == {n \in Nat : \A s \in Seq(D) : Len(s) = n => s \in S}
<1>1. 0 \in L
  <2>1. \A s \in Seq(D) : Len(s) = 0 => s = <<>>
    BY EmptySeq
  <2> QED BY <2>1
<1>2. ASSUME NEW n \in Nat, n \in L PROVE n + 1 \in L
  <2> SUFFICES ASSUME NEW s \in Seq(D), Len(s) = n + 1 PROVE s \in S
    OBVIOUS
  <2>1. s # <<>>
    BY <1>2
  <2>2. PICK r \in Seq(D), e \in D : s = Append(r, e)
    BY <2>1, SequenceEmptyOrAppend
  <2>3. Len(r) = n
    BY <2>2
  <2> QED BY <1>2, <2>2, <2>3
<1>3. Nat \subseteq L
  <2> HIDE DEF L
  <2> QED BY <1>1, <1>2, SetInduction
<1> QED BY <1>3, LenProperties

-----------------------------------------------------------------------------
(* OfTopic: the recursive function of its definition exists, and so it     *)
(* selects from an empty sequence, an appended element and a concatenation *)
(* what it should.                                                         *)

\* The function that OfTopic builds, on 0..n.
Builds(f, t, s, n) ==
    f = [i \in 0..n |-> IF i = 0 THEN <<>>
                        ELSE IF s[i].topic = t THEN Append(f[i - 1], s[i]) ELSE f[i - 1]]

LEMMA BuildsExists == \A t, s : \A n \in Nat : \E f : Builds(f, t, s, n)
<1> SUFFICES ASSUME NEW t, NEW s PROVE \A n \in Nat : \E f : Builds(f, t, s, n)
  OBVIOUS
<1> DEFINE S == {n \in Nat : \E f : Builds(f, t, s, n)}
<1>1. 0 \in S
  <2>1. Builds([i \in 0..0 |-> <<>>], t, s, 0)
    BY DEF Builds
  <2> QED BY <2>1
<1>2. ASSUME NEW n \in Nat, n \in S PROVE n + 1 \in S
  <2>1. PICK f : Builds(f, t, s, n)
    BY <1>2
  <2> DEFINE next == IF s[n + 1].topic = t THEN Append(f[n], s[n + 1]) ELSE f[n]
             g == [i \in 0..n + 1 |-> IF i = n + 1 THEN next ELSE f[i]]
  <2>2. \A i \in 0..n : g[i] = f[i]
    OBVIOUS
  <2>3. g[n + 1] = next
    OBVIOUS
  <2>4. \A i \in 0..n : f[i] = IF i = 0 THEN <<>>
                        ELSE IF s[i].topic = t THEN Append(f[i - 1], s[i]) ELSE f[i - 1]
    <3> HIDE DEF g
    <3> QED BY <2>1 DEF Builds
  <2>5. \A i \in 0..n + 1 : g[i] = IF i = 0 THEN <<>>
                        ELSE IF s[i].topic = t THEN Append(g[i - 1], s[i]) ELSE g[i - 1]
    <3> SUFFICES ASSUME NEW i \in 0..n + 1 
        PROVE g[i] = IF i = 0 THEN <<>>
                        ELSE IF s[i].topic = t THEN Append(g[i - 1], s[i]) ELSE g[i - 1]
      OBVIOUS
    <3> HIDE DEF g
    <3>1. CASE i = n + 1
      BY <2>2, <2>3, <3>1
    <3>2. CASE i \in 0..n
      <4>1. i = 0 \/ i - 1 \in 0..n
        BY <3>2
      <4> QED BY <2>2, <2>4, <3>2, <4>1
    <3> QED BY <3>1, <3>2
  <2>6. Builds(g, t, s, n + 1)
    BY <2>5 DEF Builds
  <2> QED BY <2>6
<1> HIDE DEF S
<1>3. Nat \subseteq S
  BY <1>1, <1>2, SetInduction
<1> QED BY <1>3 DEF S

LEMMA BuildsOfTopic ==
    \A t : \A s \in Seq(Messages) :
        \E f : Builds(f, t, s, Len(s)) /\ OfTopic(t, s) = f[Len(s)]
<1> SUFFICES ASSUME NEW t, NEW s \in Seq(Messages)
             PROVE  \E f : Builds(f, t, s, Len(s)) /\ OfTopic(t, s) = f[Len(s)]
  OBVIOUS
<1> DEFINE F == CHOOSE f : Builds(f, t, s, Len(s))
<1>1. Builds(F, t, s, Len(s))
  BY BuildsExists
<1>2. OfTopic(t, s) = F[Len(s)]
  BY DEF OfTopic, Builds
<1> QED BY <1>1, <1>2

LEMMA BuildsStep ==
    ASSUME NEW t, NEW s, NEW n \in Nat, NEW f, Builds(f, t, s, n)
    PROVE  \A i \in 0..n : f[i] = IF i = 0 THEN <<>>
                             ELSE IF s[i].topic = t THEN Append(f[i - 1], s[i]) ELSE f[i - 1]
  BY DEF Builds

\* What OfTopic builds up to i depends only on the first i entries.
LEMMA BuildsAgree ==
    ASSUME NEW t, NEW s, NEW r, NEW n \in Nat, NEW k \in Nat, n <= k,
           NEW f, Builds(f, t, s, n), NEW g, Builds(g, t, r, k),
           \A i \in 1..n : r[i] = s[i]
    PROVE  \A i \in 0..n : f[i] = g[i]
<1> DEFINE S == {i \in Nat : i <= n => f[i] = g[i]}
<1>1. \A i \in 0..n : f[i] = IF i = 0 THEN <<>>
                             ELSE IF s[i].topic = t THEN Append(f[i - 1], s[i]) ELSE f[i - 1]
  BY DEF Builds
<1>2. \A i \in 0..k : g[i] = IF i = 0 THEN <<>>
                             ELSE IF r[i].topic = t THEN Append(g[i - 1], r[i]) ELSE g[i - 1]
  BY DEF Builds
<1>3. 0 \in S
  BY <1>1, <1>2
<1>4. ASSUME NEW i \in Nat, i \in S PROVE i + 1 \in S
  <2> SUFFICES ASSUME i + 1 <= n PROVE f[i + 1] = g[i + 1]
    OBVIOUS
  <2>1. i + 1 \in 1..n /\ i + 1 \in 0..k /\ (i + 1) - 1 = i /\ i + 1 # 0 /\ i + 1 \in 0..n
    OBVIOUS
  <2>2. f[i] = g[i] /\ r[i + 1] = s[i + 1]
    BY <1>4, <2>1
  <2> HIDE DEF S
  <2>3. f[i + 1] = IF s[i + 1].topic = t THEN Append(f[i], s[i + 1]) ELSE f[i]
    BY <1>1, <2>1
  <2>4. g[i + 1] = IF r[i + 1].topic = t THEN Append(g[i], r[i + 1]) ELSE g[i]
    BY <1>2, <2>1
  <2> QED BY <2>2, <2>3, <2>4
<1> HIDE DEF S
<1>5. Nat \subseteq S
  BY <1>3, <1>4, SetInduction
<1> QED BY <1>5 DEF S

\* Nothing is selected from nothing.
LEMMA SelectEmpty == \A t : OfTopic(t, <<>>) = <<>>
<1> SUFFICES ASSUME NEW t PROVE OfTopic(t, <<>>) = <<>>
  OBVIOUS
<1>1. <<>> \in Seq(Messages) /\ Len(<<>>) = 0
  BY EmptySeq
<1>2. PICK f : Builds(f, t, <<>>, 0) /\ OfTopic(t, <<>>) = f[0]
  BY <1>1, BuildsOfTopic
<1> QED BY <1>2 DEF Builds

\* An appended message is selected when it is on the topic.
LEMMA SelectAppend ==
    ASSUME NEW t, NEW s \in Seq(Messages), NEW m \in Messages
    PROVE  /\ m.topic = t => OfTopic(t, Append(s, m)) = Append(OfTopic(t, s), m)
           /\ m.topic # t => OfTopic(t, Append(s, m)) = OfTopic(t, s)
<1> DEFINE n == Len(s)
           r == Append(s, m)
<1>1. n \in Nat /\ r \in Seq(Messages) /\ Len(r) = n + 1 /\ r[n + 1] = m /\ \A i \in 1..n : r[i] = s[i]
  BY AppendProperties, LenProperties
<1>2. PICK f : Builds(f, t, s, n) /\ OfTopic(t, s) = f[n]
  BY BuildsOfTopic
<1>3. PICK g : Builds(g, t, r, n + 1) /\ OfTopic(t, r) = g[n + 1]
  BY <1>1, BuildsOfTopic
<1> HIDE DEF n, r
<1>4. f[n] = g[n]
  <2>1. \A i \in 0..n : f[i] = g[i]
    BY <1>1, <1>2, <1>3, BuildsAgree
  <2> QED BY <1>1, <2>1
<1>5. g[n + 1] = IF r[n + 1].topic = t THEN Append(g[n], r[n + 1]) ELSE g[n]
  <2>1. n + 1 \in 0..n + 1 /\ n + 1 # 0 /\ (n + 1) - 1 = n /\ n + 1 \in Nat
    BY <1>1
  <2> QED BY <1>3, <2>1, BuildsStep
<1> QED BY <1>1, <1>2, <1>3, <1>4, <1>5 DEF n, r

LEMMA SelectType ==
    \A t : \A s \in Seq(Messages) : OfTopic(t, s) \in Seq(Messages)
<1> SUFFICES ASSUME NEW t PROVE \A s \in Seq(Messages) : OfTopic(t, s) \in Seq(Messages)
  OBVIOUS
<1> DEFINE S == {r \in Seq(Messages) : OfTopic(t, r) \in Seq(Messages)}
<1>1. <<>> \in S
  BY SelectEmpty, EmptySeq
<1>2. ASSUME NEW r \in Seq(Messages), NEW m \in Messages, r \in S PROVE Append(r, m) \in S
  <2>1. Append(r, m) \in Seq(Messages) /\ Append(OfTopic(t, r), m) \in Seq(Messages)
    BY <1>2, AppendProperties
  <2>2. OfTopic(t, Append(r, m)) \in {Append(OfTopic(t, r), m), OfTopic(t, r)}
    BY SelectAppend
  <2> QED BY <1>2, <2>1, <2>2
<1> HIDE DEF S
<1>3. Seq(Messages) \subseteq S
  BY <1>1, <1>2, SeqInduction
<1> QED BY <1>3 DEF S

LEMMA ConcatAppend ==
    \A u, v \in Seq(Messages), m \in Messages : Append(u \o v, m) = u \o Append(v, m)
<1> SUFFICES ASSUME NEW u \in Seq(Messages), NEW v \in Seq(Messages), NEW m \in Messages
             PROVE  Append(u \o v, m) = u \o Append(v, m)
  OBVIOUS
<1>1. <<m>> \in Seq(Messages)
  OBVIOUS
<1>2. Append(u \o v, m) = (u \o v) \o <<m>> /\ Append(v, m) = v \o <<m>>
  BY AppendIsConcat, ConcatProperties
<1> QED BY <1>1, <1>2, ConcatAssociative

\* Selecting from a concatenation is selecting from its two parts.
LEMMA SelectConcat ==
    ASSUME NEW t, NEW u \in Seq(Messages)
    PROVE  \A v \in Seq(Messages) : OfTopic(t, u \o v) = OfTopic(t, u) \o OfTopic(t, v)
<1> DEFINE S == {w \in Seq(Messages) : OfTopic(t, u \o w) = OfTopic(t, u) \o OfTopic(t, w)}
<1>1. <<>> \in S
  BY SelectEmpty, SelectType, ConcatEmptySeq, EmptySeq
<1>2. ASSUME NEW w \in Seq(Messages), NEW m \in Messages, w \in S PROVE Append(w, m) \in S
  <2> DEFINE U == OfTopic(t, u)
             W == OfTopic(t, w)
             uw == u \o w
             wm == Append(w, m)
  <2>1. OfTopic(t, uw) = U \o W
    BY <1>2
  <2>2. uw \in Seq(Messages) /\ wm \in Seq(Messages)
    BY ConcatProperties, AppendProperties
  <2>3. u \o wm = Append(uw, m)
    BY ConcatAppend
  <2>4. U \in Seq(Messages) /\ W \in Seq(Messages)
    BY SelectType
  <2>5. /\ m.topic = t => OfTopic(t, wm) = Append(W, m)
        /\ m.topic # t => OfTopic(t, wm) = W
    BY SelectAppend
  <2>6. Append(U \o W, m) = U \o Append(W, m)
    BY <2>4, ConcatAppend, Zenon
  <2>9. S = {x \in Seq(Messages) : OfTopic(t, u \o x) = U \o OfTopic(t, x)}
    OBVIOUS
  <2> HIDE DEF U, W, uw, wm, S
  <2>7. /\ m.topic = t => OfTopic(t, Append(uw, m)) = Append(OfTopic(t, uw), m)
        /\ m.topic # t => OfTopic(t, Append(uw, m)) = OfTopic(t, uw)
    BY <2>2, SelectAppend
  <2>8. OfTopic(t, u \o wm) = U \o OfTopic(t, wm)
    BY <2>1, <2>3, <2>5, <2>6, <2>7, Zenon
  <2> QED BY <2>2, <2>8, <2>9 DEF wm
<1> HIDE DEF S
<1>3. Seq(Messages) \subseteq S
  BY <1>1, <1>2, SeqInduction
<1> QED BY <1>3 DEF S

LEMMA SelectOne ==
    ASSUME NEW t, NEW m \in Messages
    PROVE  /\ m.topic = t => OfTopic(t, <<m>>) = <<m>>
           /\ m.topic # t => OfTopic(t, <<m>>) = <<>>
<1> DEFINE e == <<>>
<1>1. e \in Seq(Messages) /\ Append(e, m) = <<m>> /\ OfTopic(t, e) = e
  BY SelectEmpty
<1> HIDE DEF e
<1>2. /\ m.topic = t => OfTopic(t, Append(e, m)) = Append(OfTopic(t, e), m)
      /\ m.topic # t => OfTopic(t, Append(e, m)) = OfTopic(t, e)
  BY <1>1, SelectAppend
<1>3. /\ m.topic = t => OfTopic(t, <<m>>) = <<m>>
      /\ m.topic # t => OfTopic(t, <<m>>) = e
  BY <1>1, <1>2, Zenon
<1> QED BY <1>3 DEF e

\* Concatenation, as an operator that stays folded in the proofs below.
Cat(u, v) == u \o v

LEMMA CatAssociates ==
    /\ \A u, v \in Seq(Messages) : Cat(u, v) \in Seq(Messages)
    /\ \A u, v, w \in Seq(Messages) : Cat(Cat(u, v), w) = Cat(u, Cat(v, w))
<1>1. ASSUME NEW u \in Seq(Messages), NEW v \in Seq(Messages) PROVE Cat(u, v) \in Seq(Messages)
  BY ConcatProperties DEF Cat
<1>2. ASSUME NEW u \in Seq(Messages), NEW v \in Seq(Messages), NEW w \in Seq(Messages)
      PROVE  Cat(Cat(u, v), w) = Cat(u, Cat(v, w))
  <2>1. (u \o v) \o w = u \o (v \o w)
    BY ConcatAssociative
  <2> QED BY <2>1 DEF Cat
<1> QED BY <1>1, <1>2

LEMMA CatEmpty == \A u \in Seq(Messages) : Cat(u, <<>>) = u /\ Cat(<<>>, u) = u
  BY ConcatEmptySeq DEF Cat

LEMMA HeadTail ==
    \A s \in Seq(Messages) : s # <<>> =>
        s = <<Head(s)>> \o Tail(s) /\ Head(s) \in Messages /\ Tail(s) \in Seq(Messages)
  OBVIOUS

LEMMA RemoveMiddle ==
    \A a, b \in Seq(Messages), m \in Messages :
       /\ Len(a) + 1 \in DOMAIN (a \o (<<m>> \o b))
       /\ Delivery!RemoveAt(a \o (<<m>> \o b), Len(a) + 1) = a \o b
<1> SUFFICES ASSUME NEW a \in Seq(Messages), NEW b \in Seq(Messages), NEW m \in Messages
             PROVE  /\ Len(a) + 1 \in DOMAIN (a \o (<<m>> \o b))
                    /\ Delivery!RemoveAt(a \o (<<m>> \o b), Len(a) + 1) = a \o b
  OBVIOUS
<1> DEFINE s == a \o (<<m>> \o b)
           n == Len(a)
           k == Len(b)
<1>1. /\ s \in Seq(Messages) /\ Len(s) = n + 1 + k /\ DOMAIN s = 1..n + 1 + k
      /\ n \in Nat /\ k \in Nat /\ a \o b \in Seq(Messages) /\ Len(a \o b) = n + k
      /\ DOMAIN a = 1..n /\ DOMAIN b = 1..k
  OBVIOUS
<1>2. /\ \A i \in 1..n : s[i] = a[i]
      /\ \A i \in 1..k : s[n + 1 + i] = b[i]
  OBVIOUS
<1>3. /\ \A i \in 1..n : (a \o b)[i] = a[i]
      /\ \A i \in 1..k : (a \o b)[n + i] = b[i]
  OBVIOUS
<1>4. SubSeq(s, 1, n) = a
  <2>1. SubSeq(s, 1, n) = [i \in 1..n |-> s[i]]
    <3> HIDE DEF s
    <3> QED BY <1>1
  <2>2. a = [i \in 1..n |-> a[i]]
    OBVIOUS
  <2> HIDE DEF s
  <2> QED BY <1>2, <2>1, <2>2
<1>5. SubSeq(s, n + 2, Len(s)) = b
  <2>1. SubSeq(s, n + 2, n + 1 + k) = [i \in 1..k |-> s[n + 1 + i]]
    <3> HIDE DEF s, n, k
    <3> QED BY <1>1
  <2>2. b = [i \in 1..k |-> b[i]]
    OBVIOUS
  <2> HIDE DEF s
  <2> QED BY <1>1, <1>2, <2>1, <2>2
<1> HIDE DEF s, n, k
<1>6. (n + 1) - 1 = n /\ (n + 1) + 1 = n + 2 /\ n + 1 \in 1..n + 1 + k
  BY <1>1
<1>7. Delivery!RemoveAt(s, n + 1) = a \o b
  BY <1>4, <1>5, <1>6 DEF Delivery!RemoveAt
<1> QED BY <1>1, <1>6, <1>7 DEF s, n


-----------------------------------------------------------------------------
(* The line: msgChan, what handlePubSubMessages holds, and incomingChan.   *)

\* What is in the two channels and in the hands of handlePubSubMessages, as one line.
Line(c, p, i) == Cat(Cat(c, p), i)

LEMMA LineTyped == \A c, p, i \in Seq(Messages) : Line(c, p, i) \in Seq(Messages)
  BY CatAssociates DEF Line

\* A message that goes from one place of the line to the next stays in its place.
LEMMA LineMoves ==
    ASSUME NEW c \in Seq(Messages), NEW p \in Seq(Messages), NEW i \in Seq(Messages)
    PROVE  /\ i # <<>> => Line(c, <<Head(i)>>, Tail(i)) = Line(c, <<>>, i)
           /\ Line(Cat(c, p), <<>>, i) = Line(c, p, i)
           /\ c # <<>> => Line(c, p, i) = Cat(<<Head(c)>>, Line(Tail(c), p, i))
           /\ Line(c, p, i) = Cat(c, Cat(p, i))
           /\ Line(c, <<>>, i) = Cat(c, i)
<1>1. i # <<>> => Line(c, <<Head(i)>>, Tail(i)) = Line(c, <<>>, i)
  <2> SUFFICES ASSUME i # <<>> PROVE Line(c, <<Head(i)>>, Tail(i)) = Line(c, <<>>, i)
    OBVIOUS
  <2> DEFINE h == <<Head(i)>>
             l == Tail(i)
  <2>1. i = Cat(h, l) /\ h \in Seq(Messages) /\ l \in Seq(Messages)
    BY HeadTail DEF Cat
  <2> HIDE DEF h, l
  <2>2. Cat(Cat(c, h), l) = Cat(c, i)
    BY <2>1, CatAssociates
  <2> QED BY <2>2, CatEmpty DEF Line, h, l
<1>2. Line(Cat(c, p), <<>>, i) = Line(c, p, i)
  BY CatAssociates, CatEmpty DEF Line
<1>3. c # <<>> => Line(c, p, i) = Cat(<<Head(c)>>, Line(Tail(c), p, i))
  <2> SUFFICES ASSUME c # <<>> PROVE Line(c, p, i) = Cat(<<Head(c)>>, Line(Tail(c), p, i))
    OBVIOUS
  <2> DEFINE h == <<Head(c)>>
             l == Tail(c)
  <2>1. c = Cat(h, l) /\ h \in Seq(Messages) /\ l \in Seq(Messages)
    BY HeadTail DEF Cat
  <2> HIDE DEF h, l
  <2>2. Cat(c, p) = Cat(h, Cat(l, p)) /\ Cat(l, p) \in Seq(Messages)
    BY <2>1, CatAssociates
  <2>3. Cat(Cat(h, Cat(l, p)), i) = Cat(h, Cat(Cat(l, p), i))
    BY <2>1, <2>2, CatAssociates
  <2> QED BY <2>2, <2>3 DEF Line, h, l
<1>4. Line(c, p, i) = Cat(c, Cat(p, i))
  BY CatAssociates DEF Line
<1>5. Line(c, <<>>, i) = Cat(c, i)
  BY CatEmpty DEF Line
<1> QED BY <1>1, <1>2, <1>3, <1>4, <1>5

\* The queue of topic t, of which the messages l are in the line and r and s are not.
Queued(t, l, r, s) == Cat(Cat(OfTopic(t, l), r), s)

\* One that leaves the line leaves the queue of its topic and no other.
LEMMA QueuedGone ==
    ASSUME NEW a \in Seq(Messages), NEW b \in Seq(Messages), NEW m \in Messages,
           NEW r \in Seq(Messages), NEW s \in Seq(Messages), NEW t
    PROVE  /\ m.topic # t => Queued(t, Cat(a, Cat(<<m>>, b)), r, s) = Queued(t, Cat(a, b), r, s)
           /\ m.topic = t =>
                /\ Queued(t, Cat(a, Cat(<<m>>, b)), r, s) = Cat(OfTopic(t, a), Cat(<<m>>, Queued(t, b, r, s)))
                /\ Queued(t, Cat(a, b), r, s) = Cat(OfTopic(t, a), Queued(t, b, r, s))
<1> DEFINE A == OfTopic(t, a)
           B == OfTopic(t, b)
           h == <<m>>
<1>1. A \in Seq(Messages) /\ B \in Seq(Messages) /\ h \in Seq(Messages)
  BY SelectType
<1>2. OfTopic(t, Cat(a, b)) = Cat(A, B)
  BY SelectConcat DEF Cat
<1>3. OfTopic(t, Cat(a, Cat(h, b))) = Cat(A, OfTopic(t, Cat(h, b)))
  <2>1. Cat(h, b) \in Seq(Messages)
    BY <1>1, CatAssociates
  <2> QED BY <2>1, SelectConcat DEF Cat
<1>4. OfTopic(t, Cat(h, b)) = Cat(OfTopic(t, h), B)
  BY <1>1, SelectConcat DEF Cat
<1>5. ASSUME m.topic # t
      PROVE  Queued(t, Cat(a, Cat(h, b)), r, s) = Queued(t, Cat(a, b), r, s)
  <2>1. OfTopic(t, h) = <<>>
    BY <1>5, SelectOne
  <2>2. Cat(OfTopic(t, h), B) = B
    BY <1>1, <2>1, CatEmpty
  <2> QED BY <1>2, <1>3, <1>4, <2>2 DEF Queued
<1>6. ASSUME m.topic = t
      PROVE  /\ Queued(t, Cat(a, Cat(h, b)), r, s) = Cat(A, Cat(h, Queued(t, b, r, s)))
             /\ Queued(t, Cat(a, b), r, s) = Cat(A, Queued(t, b, r, s))
  <2>1. OfTopic(t, h) = h
    BY <1>6, SelectOne
  <2> HIDE DEF A, B, h
  <2>2. OfTopic(t, Cat(a, Cat(h, b))) = Cat(A, Cat(h, B))
    BY <1>3, <1>4, <2>1
  <2>3. /\ Cat(h, B) \in Seq(Messages) /\ Cat(B, r) \in Seq(Messages)
        /\ Cat(Cat(h, B), r) \in Seq(Messages)
    BY <1>1, CatAssociates
  <2>4. Cat(Cat(Cat(A, B), r), s) = Cat(A, Cat(Cat(B, r), s))
    BY <1>1, <2>3, CatAssociates
  <2>5. Cat(Cat(Cat(A, Cat(h, B)), r), s) = Cat(A, Cat(Cat(Cat(h, B), r), s))
    BY <1>1, <2>3, CatAssociates
  <2>6. Cat(Cat(Cat(h, B), r), s) = Cat(h, Cat(Cat(B, r), s))
    BY <1>1, <2>3, CatAssociates
  <2> QED BY <1>2, <2>2, <2>4, <2>5, <2>6 DEF Queued, B
<1> QED BY <1>5, <1>6

LEMMA QueuedParts ==
    /\ \A t, l : l \in Seq(Messages) => OfTopic(t, l) \in Seq(Messages)
    /\ \A t, m, l : l \in Seq(Messages) /\ m \in Messages =>
           OfTopic(t, Cat(l, <<m>>)) = IF m.topic = t THEN Cat(OfTopic(t, l), <<m>>) ELSE OfTopic(t, l)
<1>1. \A t, l : l \in Seq(Messages) => OfTopic(t, l) \in Seq(Messages)
  BY SelectType
<1>2. ASSUME NEW t, NEW m \in Messages, NEW l \in Seq(Messages)
      PROVE  OfTopic(t, Cat(l, <<m>>)) = IF m.topic = t THEN Cat(OfTopic(t, l), <<m>>) ELSE OfTopic(t, l)
  <2>1. <<m>> \in Seq(Messages)
    OBVIOUS
  <2>2. OfTopic(t, Cat(l, <<m>>)) = Cat(OfTopic(t, l), OfTopic(t, <<m>>))
    BY <2>1, SelectConcat DEF Cat
  <2>3. CASE m.topic = t
    BY <2>2, <2>3, SelectOne
  <2>4. CASE m.topic # t
    <3>1. OfTopic(t, <<m>>) = <<>>
      BY <2>4, SelectOne
    <3> QED BY <1>1, <2>2, <2>4, <3>1, CatEmpty
  <2> QED BY <2>3, <2>4
<1> QED BY <1>1, <1>2

LEMMA QueuedSent ==
    \A t, m, l, s : m \in Messages /\ l \in Seq(Messages) /\ s \in Seq(Messages) /\ m.topic = t =>
        Queued(t, Cat(l, <<m>>), <<>>, s) = Queued(t, l, <<m>>, s)
<1> SUFFICES ASSUME NEW t, NEW m \in Messages, NEW l \in Seq(Messages), NEW s \in Seq(Messages), m.topic = t
             PROVE  Queued(t, Cat(l, <<m>>), <<>>, s) = Queued(t, l, <<m>>, s)
  OBVIOUS
<1> DEFINE L == OfTopic(t, l)
           h == <<m>>
<1>1. L \in Seq(Messages) /\ h \in Seq(Messages) /\ OfTopic(t, Cat(l, h)) = Cat(L, h)
  BY QueuedParts
<1> HIDE DEF L, h
<1>2. Cat(L, h) \in Seq(Messages)
  BY <1>1, CatAssociates
<1> QED BY <1>1, <1>2, CatEmpty DEF Queued, L, h

LEMMA QueuedElsewhere ==
    \A t, m, l, r, s : m \in Messages /\ l \in Seq(Messages) /\ m.topic # t =>
        Queued(t, Cat(l, <<m>>), r, s) = Queued(t, l, r, s)
  BY QueuedParts DEF Queued

LEMMA QueuedHeld ==
    \A t, m, l, s : m \in Messages /\ l \in Seq(Messages) /\ s \in Seq(Messages) =>
        Queued(t, l, <<m>>, s) = Cat(OfTopic(t, l), Cat(<<m>>, s))
<1> SUFFICES ASSUME NEW t, NEW m \in Messages, NEW l \in Seq(Messages), NEW s \in Seq(Messages)
             PROVE  Queued(t, l, <<m>>, s) = Cat(OfTopic(t, l), Cat(<<m>>, s))
  OBVIOUS
<1> DEFINE L == OfTopic(t, l)
           h == <<m>>
<1>1. L \in Seq(Messages) /\ h \in Seq(Messages)
  BY QueuedParts
<1> HIDE DEF L, h
<1> QED BY <1>1, CatAssociates DEF Queued, L, h

LEMMA QueuedFree ==
    \A t, l, s : l \in Seq(Messages) => Queued(t, l, <<>>, s) = Cat(OfTopic(t, l), s)
  BY QueuedParts, CatEmpty DEF Queued

LEMMA QueuedArrives ==
    \A t, m, l, r, s : m \in Messages /\ l \in Seq(Messages) /\ r \in Seq(Messages) /\ s \in Seq(Messages) =>
        Queued(t, l, r, Append(s, m)) = Append(Queued(t, l, r, s), m)
<1> SUFFICES ASSUME NEW t, NEW m \in Messages, NEW l \in Seq(Messages), NEW r \in Seq(Messages),
                    NEW s \in Seq(Messages)
             PROVE  Queued(t, l, r, Append(s, m)) = Append(Queued(t, l, r, s), m)
  OBVIOUS
<1> DEFINE L == OfTopic(t, l)
<1>1. L \in Seq(Messages)
  BY QueuedParts
<1> HIDE DEF L
<1>2. Cat(L, r) \in Seq(Messages)
  BY <1>1, CatAssociates
<1>3. Append(Cat(Cat(L, r), s), m) = Cat(Cat(L, r), Append(s, m))
  BY <1>2, ConcatAppend DEF Cat
<1> QED BY <1>3 DEF Queued, L

LEMMA LineSent ==
    \A c, p, i, r : c \in Seq(Messages) /\ p \in Seq(Messages) /\ i \in Seq(Messages) /\ r \in Seq(Messages) =>
        Line(c, p, Cat(i, r)) = Cat(Line(c, p, i), r)
  BY CatAssociates DEF Line


-----------------------------------------------------------------------------
(* Where messages can be: readLoop of a topic holds messages of that topic *)
(* and passes on only those for this node.                                 *)

Ours == {m \in Messages : m.for = "us"}
On(t) == {m \in Messages : m.topic = t}

Placed ==
    /\ \A t \in Topics : sub[t] \in Seq(On(t)) /\ reader[t] \in Seq(On(t) \cap Ours)
    /\ incoming \in Seq(Ours) /\ pump \in Seq(Ours) /\ msgChan \in Seq(Ours)

LEMMA SeqMoves ==
    ASSUME NEW D, NEW s \in Seq(D)
    PROVE  /\ s # <<>> => Head(s) \in D /\ Tail(s) \in Seq(D) /\ <<Head(s)>> \in Seq(D)
           /\ \A r \in Seq(D) : s \o r \in Seq(D)
           /\ \A d \in D : Append(s, d) \in Seq(D)
  OBVIOUS

LEMMA SeqWider ==
    ASSUME NEW D, NEW E, D \subseteq E PROVE Seq(D) \subseteq Seq(E)
  OBVIOUS

LEMMA EmptyIsSeq == \A D : <<>> \in Seq(D)
  OBVIOUS

LEMMA PlacedStep == TypeOK /\ Placed /\ [Next]_vars => Placed'
<1> SUFFICES ASSUME TypeOK, Placed, [Next]_vars PROVE Placed'
  OBVIOUS
<1>0. Ours' = Ours /\ \A t : On(t)' = On(t)
  BY DEF Ours, On
<1>e. \A t : <<>> \in Seq(On(t) \cap Ours) /\ <<>> \in Seq(Ours)
  BY EmptyIsSeq
<1>1. ASSUME NEW m \in Messages, Arrive(m) PROVE Placed'
  <2>1. \A t \in Topics : sub'[t] \in Seq(On(t))
    <3> SUFFICES ASSUME NEW t \in Topics PROVE sub'[t] \in Seq(On(t))
      OBVIOUS
    <3>1. CASE m.topic = t
      <4>1. m \in On(t) /\ sub[t] \in Seq(On(t)) /\ sub'[t] = Append(sub[t], m)
        BY <1>1, <3>1 DEF Arrive, TypeOK, Placed, On
      <4> QED BY <4>1, SeqMoves
    <3>2. CASE m.topic # t
      BY <1>1, <3>2 DEF Arrive, TypeOK, Placed
    <3> QED BY <3>1, <3>2
  <2> QED BY <1>1, <2>1 DEF Arrive, Placed, On, Ours
<1>2. ASSUME NEW t \in Topics, NextMessage(t) PROVE Placed'
  <2>1. CASE sub[t] # <<>>
             /\ sub' = [sub EXCEPT ![t] = Tail(@)]
             /\ reader' = [reader EXCEPT ![t] =
                              IF Head(sub[t]).for = "us" THEN <<Head(sub[t])>> ELSE <<>>]
    <3> DEFINE h == Head(sub[t])
    <3>1. h \in On(t) /\ Tail(sub[t]) \in Seq(On(t))
      <4>1. sub[t] \in Seq(On(t))
        BY DEF Placed
      <4> QED BY <2>1, <4>1, SeqMoves
    <3>2. \A x \in Topics : sub'[x] \in Seq(On(x))
      <4>1. sub'[t] = Tail(sub[t]) /\ \A x \in Topics \ {t} : sub'[x] = sub[x]
        BY <2>1 DEF TypeOK
      <4> QED BY <3>1, <4>1 DEF Placed
    <3>3. h.for = "us" => h \in On(t) \cap Ours
      BY <3>1 DEF On, Ours
    <3>4. \A D : h \in D => <<h>> \in Seq(D)
      OBVIOUS
    <3> HIDE DEF h
    <3>5. reader'[t] \in Seq(On(t) \cap Ours)
      <4>1. reader'[t] = IF h.for = "us" THEN <<h>> ELSE <<>>
        BY <2>1 DEF TypeOK, h
      <4>2. CASE h.for = "us"
        BY <3>3, <3>4, <4>1, <4>2
      <4>3. CASE h.for # "us"
        BY <1>e, <4>1, <4>3
      <4> QED BY <4>2, <4>3
    <3>6. \A x \in Topics \ {t} : reader'[x] = reader[x]
      BY <2>1 DEF TypeOK
    <3>7. \A x \in Topics : reader'[x] \in Seq(On(x) \cap Ours)
      BY <3>5, <3>6 DEF Placed
    <3> QED BY <1>2, <3>2, <3>7 DEF Placed, NextMessage, On, Ours
  <2>2. CASE UNCHANGED <<sub, reader>>
    BY <1>2, <2>2 DEF Placed, NextMessage, On, Ours
  <2> QED BY <1>2, <2>1, <2>2 DEF NextMessage
<1>3. ASSUME NEW t \in Topics, Offer(t) PROVE Placed'
  <2>1. incoming' \in Seq(Ours)
    <3>1. reader[t] \in Seq(Ours)
      <4>1. reader[t] \in Seq(On(t) \cap Ours)
        BY DEF Placed
      <4> QED BY <4>1, SeqWider
    <3>2. incoming' = incoming \/ incoming' = incoming \o reader[t]
      BY <1>3 DEF Offer
    <3>3. incoming \in Seq(Ours)
      BY DEF Placed
    <3> QED BY <3>1, <3>2, <3>3, SeqMoves
  <2>2. \A x \in Topics : reader'[x] = reader[x] \/ reader'[x] = <<>>
    BY <1>3 DEF Offer, TypeOK
  <2>3. \A x \in Topics : reader'[x] \in Seq(On(x) \cap Ours)
    BY <1>e, <2>2 DEF Placed
  <2> QED BY <1>3, <2>1, <2>3 DEF Offer, Placed, On, Ours
<1>4. ASSUME Take PROVE Placed'
  <2>1. incoming' \in Seq(Ours) /\ pump' \in Seq(Ours)
    <3>1. incoming \in Seq(Ours) /\ pump \in Seq(Ours)
      BY DEF Placed
    <3>2. \/ incoming # <<>> /\ incoming' = Tail(incoming) /\ pump' = <<Head(incoming)>>
          \/ incoming' = incoming /\ pump' = pump
      BY <1>4 DEF Take
    <3> QED BY <3>1, <3>2, SeqMoves
  <2> QED BY <1>4, <2>1 DEF Take, Placed, On, Ours
<1>5. ASSUME Put PROVE Placed'
  <2>1. msgChan' \in Seq(Ours) /\ pump' \in Seq(Ours)
    <3>1. msgChan \in Seq(Ours) /\ pump \in Seq(Ours)
      BY DEF Placed
    <3>2. /\ msgChan' = msgChan \/ msgChan' = msgChan \o pump
          /\ pump' = <<>> \/ pump' = pump
      BY <1>5 DEF Put
    <3> QED BY <1>e, <3>1, <3>2, SeqMoves
  <2> QED BY <1>5, <2>1 DEF Put, Placed, On, Ours
<1>6. ASSUME handleMessages PROVE Placed'
  <2>1. msgChan' \in Seq(Ours)
    <3>1. msgChan \in Seq(Ours)
      BY DEF Placed
    <3>2. (msgChan # <<>> /\ msgChan' = Tail(msgChan)) \/ msgChan' = msgChan
      BY <1>6 DEF handleMessages
    <3> QED BY <3>1, <3>2, SeqMoves
  <2> QED BY <1>6, <2>1 DEF handleMessages, Placed, On, Ours
<1>7. ASSUME RegisterHandlers \/ Shutdown \/ Stop PROVE Placed'
  BY <1>7 DEF RegisterHandlers, Shutdown, Stop, MainStep, chanVars, Placed, On, Ours
<1>8. CASE UNCHANGED vars
  BY <1>8 DEF vars, chanVars, Placed, On, Ours
<1> QED BY <1>1, <1>2, <1>3, <1>4, <1>5, <1>6, <1>7, <1>8
       DEF Next, readLoop, handlePubSubMessages


-----------------------------------------------------------------------------
(* The refinement: what each step does to the queue of the abstract        *)
(* specification.                                                          *)

LineNow == Line(msgChan, pump, incoming)

LEMMA QueueAt ==
    \A t \in Topics : Queue[t] = Queued(t, LineNow, reader[t], sub[t])
  BY DEF Queue, LineNow, Queued, Line, Cat

LEMMA QueueNextAt ==
    \A t \in Topics : Queue'[t] = Queued(t, LineNow', reader'[t], sub'[t])
  BY DEF Queue, LineNow, Queued, Line, Cat, OfTopic

LEMMA QueueEqual == 
    ASSUME \A t \in Topics : Queue'[t] = Queue[t] PROVE Queue' = Queue
  BY DEF Queue

LEMMA QueueUpdate ==
    ASSUME NEW x \in Topics, NEW new, Queue'[x] = new,
           \A t \in Topics \ {x} : Queue'[t] = Queue[t]
    PROVE  Queue' = [Queue EXCEPT ![x] = new]
  BY DEF Queue

\* A message that leaves the middle of a queue is lost.
LEMMA Loses ==
    ASSUME NEW x \in Topics, NEW a \in Seq(Messages), NEW b \in Seq(Messages), NEW m \in Messages,
           Queue[x] = Cat(a, Cat(<<m>>, b)), Queue'[x] = Cat(a, b),
           \A t \in Topics \ {x} : Queue'[t] = Queue[t],
           UNCHANGED <<arrived, handled>>
    PROVE  Delivery!Lose(x)
<1>1. Queue[x] = a \o (<<m>> \o b) /\ Queue'[x] = a \o b
  BY DEF Cat
<1>2. /\ Len(a) + 1 \in DOMAIN Queue[x]
      /\ Queue'[x] = Delivery!RemoveAt(Queue[x], Len(a) + 1)
  BY <1>1, RemoveMiddle
<1>3. Queue' = [Queue EXCEPT ![x] = Delivery!RemoveAt(Queue[x], Len(a) + 1)]
  BY <1>2, QueueUpdate
<1>4. \E i \in DOMAIN Queue[x] : Queue' = [Queue EXCEPT ![x] = Delivery!RemoveAt(@, i)]
  BY <1>2, <1>3
<1> QED BY <1>4 DEF Delivery!Lose

\* One that leaves its front and is handled has been delivered.
LEMMA Delivers ==
    ASSUME NEW x \in Topics, NEW b \in Seq(Messages), NEW m \in Messages, m.for = "us",
           Queue[x] = Cat(<<m>>, b), Queue'[x] = b,
           \A t \in Topics \ {x} : Queue'[t] = Queue[t],
           handled' = Append(handled, m), arrived' = arrived
    PROVE  Delivery!Deliver(x)
<1>1. Queue[x] # <<>> /\ Head(Queue[x]) = m /\ Tail(Queue[x]) = b
  <2>1. Queue[x] = <<m>> \o b
    BY DEF Cat
  <2>2. <<m>> \o b # <<>> /\ Head(<<m>> \o b) = m /\ Tail(<<m>> \o b) = b
    OBVIOUS
  <2> QED BY <2>1, <2>2
<1>2. Queue' = [Queue EXCEPT ![x] = Tail(Queue[x])]
  BY <1>1, QueueUpdate
<1> QED BY <1>1, <1>2 DEF Delivery!Deliver

LEMMA Stutters ==
    ASSUME \A t \in Topics : Queue'[t] = Queue[t], UNCHANGED <<arrived, handled>>
    PROVE  UNCHANGED Delivery!vars
<1>1. Queue' = Queue
  BY QueueEqual
<1> QED BY <1>1 DEF Delivery!vars


LEMMA PlacesTyped ==
    ASSUME TypeOK, Placed
    PROVE  /\ msgChan \in Seq(Messages) /\ pump \in Seq(Messages) /\ incoming \in Seq(Messages)
           /\ LineNow \in Seq(Messages)
           /\ \A t \in Topics : /\ sub[t] \in Seq(Messages) /\ reader[t] \in Seq(Messages)
                                /\ Len(reader[t]) <= 1
           /\ Len(pump) <= 1
<1>1. /\ msgChan \in Seq(Messages) /\ pump \in Seq(Messages) /\ incoming \in Seq(Messages)
      /\ \A t \in Topics : /\ sub[t] \in Seq(Messages) /\ reader[t] \in Seq(Messages)
                           /\ Len(reader[t]) <= 1
      /\ Len(pump) <= 1
  BY DEF TypeOK, AtMost
<1>2. LineNow \in Seq(Messages)
  BY <1>1, LineTyped DEF LineNow
<1> QED BY <1>1, <1>2

LEMMA OneMessage ==
    ASSUME NEW D, NEW h \in Seq(D), h # <<>>, Len(h) <= 1
    PROVE  \E m \in D : h = <<m>>
<1>1. Len(h) = 1
  <2>1. Len(h) \in Nat
    OBVIOUS
  <2>2. Len(h) # 0
    BY EmptySeq
  <2> QED BY <2>1, <2>2
<1>2. h[1] \in D
  BY <1>1, ElementOfSeq
<1>3. \A x \in D : <<x>> \in Seq(D) /\ Len(<<x>>) = 1 /\ <<x>>[1] = x
  OBVIOUS
<1>4. h = <<h[1]>>
  BY <1>1, <1>2, <1>3, SeqEqual
<1> QED BY <1>2, <1>4

\* A message that arrives goes to the end of the queue of its topic.
LEMMA ArriveArrives ==
    ASSUME TypeOK, Placed, NEW m \in Messages, Arrive(m) PROVE Delivery!Arrive(m)
<1>1. m.topic \in Topics
  BY MessagesAssumption
<1> DEFINE t == m.topic
<1>2. LineNow' = LineNow
  BY DEF Arrive, LineNow, Line
<1>3. /\ sub'[t] = Append(sub[t], m) /\ reader'[t] = reader[t]
      /\ \A x \in Topics \ {t} : sub'[x] = sub[x] /\ reader'[x] = reader[x]
  BY <1>1 DEF Arrive, TypeOK
<1> HIDE DEF t
<1>4. Queue'[t] = Append(Queue[t], m)
  <2>1. Queue'[t] = Queued(t, LineNow, reader[t], Append(sub[t], m))
    BY <1>1, <1>2, <1>3, QueueNextAt DEF t
  <2>2. Queued(t, LineNow, reader[t], Append(sub[t], m)) = Append(Queued(t, LineNow, reader[t], sub[t]), m)
    <3>1. LineNow \in Seq(Messages) /\ reader[t] \in Seq(Messages) /\ sub[t] \in Seq(Messages)
      BY <1>1, PlacesTyped DEF t
    <3> QED BY <3>1, QueuedArrives
  <2> QED BY <1>1, <2>1, <2>2, QueueAt DEF t
<1>5. \A x \in Topics \ {t} : Queue'[x] = Queue[x]
  BY <1>2, <1>3, QueueAt, QueueNextAt
<1>6. Queue' = [Queue EXCEPT ![t] = Append(Queue[t], m)]
  BY <1>1, <1>4, <1>5, QueueUpdate DEF t
<1> QED BY <1>6 DEF Arrive, Delivery!Arrive, Queue, t

\* readLoop takes a message for this node without changing the queue, and loses
\* one for another node.
LEMMA NextMessageLoses ==
    ASSUME TypeOK, Placed, NEW t \in Topics, NextMessage(t)
    PROVE  Delivery!Lose(t) \/ UNCHANGED Delivery!vars
<1>1. /\ LineNow' = LineNow /\ UNCHANGED <<arrived, handled>> /\ reader[t] = <<>>
  BY DEF NextMessage, LineNow, Line
<1>2. LineNow \in Seq(Messages) /\ sub[t] \in Seq(Messages)
  BY PlacesTyped
<1>3. CASE UNCHANGED <<sub, reader>>
  BY <1>1, <1>3, QueueAt, QueueNextAt, Stutters
<1>4. CASE /\ sub[t] # <<>>
           /\ sub' = [sub EXCEPT ![t] = Tail(@)]
           /\ reader' = [reader EXCEPT ![t] =
                            IF Head(sub[t]).for = "us" THEN <<Head(sub[t])>> ELSE <<>>]
  <2> DEFINE m == Head(sub[t])
             s == Tail(sub[t])
             L == OfTopic(t, LineNow)
  <2>1. m \in Messages /\ s \in Seq(Messages) /\ sub[t] = Cat(<<m>>, s) /\ L \in Seq(Messages)
    BY <1>2, <1>4, HeadTail, SelectType DEF Cat
  <2>2. /\ sub'[t] = s
        /\ m.for = "us" => reader'[t] = <<m>>
        /\ m.for # "us" => reader'[t] = <<>>
        /\ \A x \in Topics \ {t} : sub'[x] = sub[x] /\ reader'[x] = reader[x]
    BY <1>4 DEF TypeOK
  <2>3. \A x \in Topics \ {t} : Queue'[x] = Queue[x]
    BY <1>1, <2>2, QueueAt, QueueNextAt
  <2> HIDE DEF m, s
  <2>4. Queue[t] = Cat(L, Cat(<<m>>, s))
    <3>1. Queue[t] = Queued(t, LineNow, <<>>, sub[t])
      BY <1>1, QueueAt
    <3>2. Queued(t, LineNow, <<>>, sub[t]) = Cat(L, sub[t])
      BY <1>2, QueuedFree
    <3> QED BY <2>1, <3>1, <3>2
  <2>5. CASE m.for = "us"
    <3>1. Queue'[t] = Queued(t, LineNow, <<m>>, s)
      BY <1>1, <2>2, <2>5, QueueNextAt
    <3>2. Queued(t, LineNow, <<m>>, s) = Cat(L, Cat(<<m>>, s))
      BY <1>2, <2>1, QueuedHeld
    <3> QED BY <1>1, <2>3, <2>4, <3>1, <3>2, Stutters
  <2>6. CASE m.for # "us"
    <3>1. Queue'[t] = Queued(t, LineNow, <<>>, s)
      BY <1>1, <2>2, <2>6, QueueNextAt
    <3>2. Queued(t, LineNow, <<>>, s) = Cat(L, s)
      BY <1>2, QueuedFree
    <3> HIDE DEF L
    <3> QED BY <1>1, <2>1, <2>3, <2>4, <3>1, <3>2, Loses
  <2> QED BY <2>5, <2>6
<1> QED BY <1>3, <1>4 DEF NextMessage

\* The select moves the message from the end of one place to the end of the next,
\* or loses it.
LEMMA OfferLoses ==
    ASSUME TypeOK, Placed, NEW t \in Topics, Offer(t)
    PROVE  Delivery!Lose(t) \/ UNCHANGED Delivery!vars
<1>1. UNCHANGED <<sub, arrived, handled, msgChan, pump>>
  BY DEF Offer
<1>2. LineNow \in Seq(Messages) /\ sub[t] \in Seq(Messages)
  BY PlacesTyped
<1>3. PICK m \in On(t) \cap Ours : reader[t] = <<m>>
  <2>1. reader[t] \in Seq(On(t) \cap Ours) /\ reader[t] # <<>> /\ Len(reader[t]) <= 1
    BY PlacesTyped DEF Placed, Offer
  <2> QED BY <2>1, OneMessage
<1>4. m \in Messages /\ m.topic = t
  BY <1>3 DEF On
<1> DEFINE L == OfTopic(t, LineNow)
<1>5. Queue[t] = Cat(L, Cat(<<m>>, sub[t]))
  <2>1. Queue[t] = Queued(t, LineNow, <<m>>, sub[t])
    BY <1>3, QueueAt
  <2> QED BY <1>2, <1>4, <2>1, QueuedHeld
<1>6. CASE incoming' = incoming \o reader[t] /\ reader' = [reader EXCEPT ![t] = <<>>]
  <2>1. LineNow' = Cat(LineNow, <<m>>)
    <3> DEFINE h == <<m>>
    <3>1. /\ h \in Seq(Messages)
          /\ msgChan \in Seq(Messages) /\ pump \in Seq(Messages) /\ incoming \in Seq(Messages)
      BY <1>4, PlacesTyped
    <3>2. incoming' = Cat(incoming, h)
      BY <1>3, <1>6 DEF Cat
    <3>3. LineNow' = Line(msgChan, pump, incoming')
      BY <1>1 DEF LineNow, Line
    <3> HIDE DEF h
    <3>4. Line(msgChan, pump, Cat(incoming, h)) = Cat(Line(msgChan, pump, incoming), h)
      BY <3>1, LineSent
    <3> QED BY <3>2, <3>3, <3>4 DEF LineNow, h
  <2>2. reader'[t] = <<>> /\ \A x \in Topics \ {t} : reader'[x] = reader[x]
    BY <1>6 DEF TypeOK
  <2>3. Queue'[t] = Queue[t]
    <3>1. Queue'[t] = Queued(t, Cat(LineNow, <<m>>), <<>>, sub[t])
      BY <1>1, <2>1, <2>2, QueueNextAt
    <3>2. Queue[t] = Queued(t, LineNow, <<m>>, sub[t])
      BY <1>3, QueueAt
    <3> QED BY <1>2, <1>4, <3>1, <3>2, QueuedSent
  <2>4. ASSUME NEW x \in Topics \ {t} PROVE Queue'[x] = Queue[x]
    <3>1. Queue'[x] = Queued(x, Cat(LineNow, <<m>>), reader[x], sub[x])
      BY <1>1, <2>1, <2>2, QueueNextAt
    <3>2. reader[x] \in Seq(Messages) /\ sub[x] \in Seq(Messages) /\ m.topic # x
      BY <1>4, PlacesTyped
    <3>3. Queued(x, Cat(LineNow, <<m>>), reader[x], sub[x]) = Queued(x, LineNow, reader[x], sub[x])
      BY <1>2, <1>4, <3>2, QueuedElsewhere
    <3> QED BY <3>1, <3>3, QueueAt
  <2> QED BY <1>1, <2>3, <2>4, Stutters
<1>7. CASE incoming' = incoming /\ reader' = [reader EXCEPT ![t] = <<>>]
  <2>1. LineNow' = LineNow
    BY <1>1, <1>7 DEF LineNow, Line
  <2>2. reader'[t] = <<>> /\ \A x \in Topics \ {t} : reader'[x] = reader[x]
    BY <1>7 DEF TypeOK
  <2>3. Queue'[t] = Cat(L, sub[t])
    <3>1. Queue'[t] = Queued(t, LineNow, <<>>, sub[t])
      BY <1>1, <2>1, <2>2, QueueNextAt
    <3> QED BY <1>2, <3>1, QueuedFree
  <2>4. \A x \in Topics \ {t} : Queue'[x] = Queue[x]
    BY <1>1, <2>1, <2>2, QueueAt, QueueNextAt
  <2>5. L \in Seq(Messages)
    BY <1>2, SelectType
  <2> HIDE DEF L
  <2> QED BY <1>1, <1>2, <1>4, <1>5, <2>3, <2>4, <2>5, Loses
<1>8. CASE UNCHANGED <<incoming, reader>>
  <2>1. LineNow' = LineNow
    BY <1>1, <1>8 DEF LineNow, Line
  <2> QED BY <1>1, <1>8, <2>1, QueueAt, QueueNextAt, Stutters
<1> QED BY <1>6, <1>7, <1>8 DEF Offer

\* handlePubSubMessages takes a message without changing any queue.
LEMMA TakeMoves ==
    ASSUME TypeOK, Placed, Take PROVE UNCHANGED Delivery!vars
<1>1. UNCHANGED <<sub, reader, msgChan, arrived, handled>>
  BY DEF Take
<1>2. LineNow' = LineNow
  <2>1. /\ msgChan \in Seq(Messages) /\ pump \in Seq(Messages) /\ incoming \in Seq(Messages)
    BY PlacesTyped
  <2>2. LineNow' = Line(msgChan, pump', incoming')
    BY <1>1 DEF LineNow, Line
  <2>3. CASE pump = <<>> /\ incoming # <<>> /\ incoming' = Tail(incoming) /\ pump' = <<Head(incoming)>>
    <3>1. Line(msgChan, <<Head(incoming)>>, Tail(incoming)) = Line(msgChan, <<>>, incoming)
      BY <2>1, <2>3, LineMoves
    <3>2. LineNow = Line(msgChan, <<>>, incoming)
      BY <2>3 DEF LineNow
    <3> QED BY <2>2, <2>3, <3>1, <3>2
  <2>4. CASE incoming' = incoming /\ pump' = pump
    BY <2>2, <2>4 DEF LineNow
  <2> QED BY <2>3, <2>4 DEF Take
<1> QED BY <1>1, <1>2, QueueAt, QueueNextAt, Stutters

\* What leaves the line for good leaves one queue and no other.
LEMMA LeavesOneQueue ==
    ASSUME TypeOK, Placed, NEW a \in Seq(Messages), NEW b \in Seq(Messages), NEW m \in Messages,
           LineNow = Cat(a, Cat(<<m>>, b)), LineNow' = Cat(a, b), UNCHANGED <<sub, reader>>
    PROVE  /\ \A t \in Topics \ {m.topic} : Queue'[t] = Queue[t]
           /\ \E rest \in Seq(Messages) :
                  /\ Queue[m.topic] = Cat(OfTopic(m.topic, a), Cat(<<m>>, rest))
                  /\ Queue'[m.topic] = Cat(OfTopic(m.topic, a), rest)
<1> DEFINE x == m.topic
<1>1. x \in Topics
  BY MessagesAssumption
<1>2. \A t \in Topics : sub[t] \in Seq(Messages) /\ reader[t] \in Seq(Messages)
  BY PlacesTyped
<1>3. ASSUME NEW t \in Topics
      PROVE  /\ Queue[t] = Queued(t, Cat(a, Cat(<<m>>, b)), reader[t], sub[t])
             /\ Queue'[t] = Queued(t, Cat(a, b), reader[t], sub[t])
  BY QueueAt, QueueNextAt
<1>4. ASSUME NEW t \in Topics \ {x} PROVE Queue'[t] = Queue[t]
  BY <1>2, <1>3, QueuedGone
<1>5. Queued(x, b, reader[x], sub[x]) \in Seq(Messages)
  BY <1>1, <1>2, CatAssociates, QueuedParts DEF Queued
<1>6. /\ Queue[x] = Cat(OfTopic(x, a), Cat(<<m>>, Queued(x, b, reader[x], sub[x])))
      /\ Queue'[x] = Cat(OfTopic(x, a), Queued(x, b, reader[x], sub[x]))
  BY <1>1, <1>2, <1>3, QueuedGone
<1> QED BY <1>4, <1>5, <1>6

\* It passes the message on, or loses it when it returns.
LEMMA PutLoses ==
    ASSUME TypeOK, Placed, Put
    PROVE  (\E t \in Topics : Delivery!Lose(t)) \/ UNCHANGED Delivery!vars
<1>1. UNCHANGED <<sub, reader, incoming, arrived, handled>>
  BY DEF Put
<1>2. /\ msgChan \in Seq(Messages) /\ pump \in Seq(Messages) /\ incoming \in Seq(Messages)
  BY PlacesTyped
<1>3. LineNow' = Line(msgChan', pump', incoming)
  BY <1>1 DEF LineNow, Line
<1>4. CASE UNCHANGED <<msgChan, pump>>
  <2>1. LineNow' = LineNow
    BY <1>3, <1>4 DEF LineNow
  <2> QED BY <1>1, <2>1, QueueAt, QueueNextAt, Stutters
<1>5. CASE msgChan' = msgChan \o pump /\ pump' = <<>>
  <2>1. LineNow' = Line(Cat(msgChan, pump), <<>>, incoming)
    BY <1>3, <1>5 DEF Cat
  <2>2. LineNow' = LineNow
    BY <1>2, <2>1, LineMoves DEF LineNow
  <2> QED BY <1>1, <2>2, QueueAt, QueueNextAt, Stutters
<1>6. CASE msgChan' = msgChan /\ pump' = <<>>
  <2>1. PICK m \in Messages : pump = <<m>>
    <3>1. pump # <<>> /\ Len(pump) <= 1
      BY PlacesTyped DEF Put
    <3> QED BY <1>2, <3>1, OneMessage
  <2>2. LineNow = Cat(msgChan, Cat(<<m>>, incoming)) /\ LineNow' = Cat(msgChan, incoming)
    BY <1>2, <1>3, <1>6, <2>1, LineMoves DEF LineNow
  <2>3. m.topic \in Topics /\ OfTopic(m.topic, msgChan) \in Seq(Messages)
    BY <1>2, MessagesAssumption, QueuedParts
  <2>4. /\ \A t \in Topics \ {m.topic} : Queue'[t] = Queue[t]
        /\ \E rest \in Seq(Messages) :
               /\ Queue[m.topic] = Cat(OfTopic(m.topic, msgChan), Cat(<<m>>, rest))
               /\ Queue'[m.topic] = Cat(OfTopic(m.topic, msgChan), rest)
    BY <1>1, <1>2, <2>2, LeavesOneQueue
  <2>5. Delivery!Lose(m.topic)
    BY <1>1, <2>3, <2>4, Loses
  <2> QED BY <2>3, <2>5
<1> QED BY <1>4, <1>5, <1>6 DEF Put

\* handleMessages takes the first message of a queue and hands it to its handler, or
\* loses it.
LEMMA HandleDelivers ==
    ASSUME TypeOK, Placed, handleMessages
    PROVE  (\E t \in Topics : Delivery!Lose(t) \/ Delivery!Deliver(t)) \/ UNCHANGED Delivery!vars
<1>1. UNCHANGED <<sub, reader, incoming, pump, arrived>>
  BY DEF handleMessages
<1>2. /\ msgChan \in Seq(Messages) /\ pump \in Seq(Messages) /\ incoming \in Seq(Messages)
  BY PlacesTyped
<1>3. LineNow' = Line(msgChan', pump, incoming)
  BY <1>1 DEF LineNow, Line
<1>4. CASE UNCHANGED <<msgChan, handled>>
  <2>1. LineNow' = LineNow
    BY <1>3, <1>4 DEF LineNow
  <2> QED BY <1>1, <1>4, <2>1, QueueAt, QueueNextAt, Stutters
<1>5. CASE msgChan # <<>> /\ msgChan' = Tail(msgChan)
  <2>1. PICK m \in Ours : m = Head(msgChan)
    <3>1. msgChan \in Seq(Ours)
      BY DEF Placed
    <3> QED BY <1>5, <3>1, SeqMoves
  <2>2. m \in Messages /\ m.for = "us" /\ m.topic \in Topics
    BY MessagesAssumption DEF Ours
  <2>3. PICK b \in Seq(Messages) : b = Line(Tail(msgChan), pump, incoming)
    <3>1. Tail(msgChan) \in Seq(Messages)
      BY <1>2, <1>5, HeadTail
    <3> QED BY <1>2, <3>1, LineTyped
  <2>4. LineNow = Cat(<<m>>, b) /\ LineNow' = b
    <3>1. Line(msgChan, pump, incoming) = Cat(<<Head(msgChan)>>, Line(Tail(msgChan), pump, incoming))
      BY <1>2, <1>5, LineMoves
    <3>2. LineNow = Cat(<<m>>, b)
      BY <2>1, <2>3, <3>1 DEF LineNow
    <3> QED BY <1>3, <1>5, <2>3, <3>2
  <2>5. \A s \in Seq(Messages) : Cat(<<m>>, s) \in Seq(Messages)
    <3>1. <<m>> \in Seq(Messages)
      BY <2>2
    <3> QED BY <3>1, CatAssociates
  <2> DEFINE none == <<>>
  <2>6. /\ none \in Seq(Messages) /\ OfTopic(m.topic, none) = none
        /\ \A s \in Seq(Messages) : Cat(none, s) = s
    BY CatEmpty, EmptyIsSeq, SelectEmpty
  <2> HIDE DEF none
  <2>7. LineNow = Cat(none, Cat(<<m>>, b)) /\ LineNow' = Cat(none, b)
    BY <2>4, <2>5, <2>6
  <2>8. /\ \A t \in Topics \ {m.topic} : Queue'[t] = Queue[t]
        /\ \E rest \in Seq(Messages) : /\ Queue[m.topic] = Cat(none, Cat(<<m>>, rest))
                                       /\ Queue'[m.topic] = Cat(none, rest)
    BY <1>1, <2>2, <2>6, <2>7, LeavesOneQueue
  <2>9. PICK rest \in Seq(Messages) : /\ Queue[m.topic] = Cat(none, Cat(<<m>>, rest))
                                      /\ Queue'[m.topic] = Cat(none, rest)
    BY <2>8
  <2>10. CASE handled' = Append(handled, Head(msgChan))
    <3>1. Queue[m.topic] = Cat(<<m>>, rest) /\ Queue'[m.topic] = rest
      BY <2>5, <2>6, <2>9
    <3>2. Delivery!Deliver(m.topic)
      BY <1>1, <2>1, <2>2, <2>8, <2>10, <3>1, Delivers
    <3> QED BY <2>2, <3>2
  <2>11. CASE handled' = handled
    <3>1. Delivery!Lose(m.topic)
      BY <1>1, <2>2, <2>6, <2>8, <2>9, <2>11, Loses
    <3> QED BY <2>2, <3>1
  <2> QED BY <1>5, <2>10, <2>11 DEF handleMessages
<1> QED BY <1>4, <1>5 DEF handleMessages

LEMMA DeliveryStep ==
    TypeOK /\ Placed /\ [Next]_vars => [Delivery!Next]_(Delivery!vars)
<1> SUFFICES ASSUME TypeOK, Placed, [Next]_vars PROVE Delivery!Next \/ UNCHANGED Delivery!vars
  BY DEF Delivery!Next
<1>1. ASSUME NEW m \in Messages, Arrive(m) PROVE Delivery!Next
  BY <1>1, ArriveArrives DEF Delivery!Next
<1>2. ASSUME NEW t \in Topics, NextMessage(t) PROVE Delivery!Next \/ UNCHANGED Delivery!vars
  BY <1>2, NextMessageLoses DEF Delivery!Next
<1>3. ASSUME NEW t \in Topics, Offer(t) PROVE Delivery!Next \/ UNCHANGED Delivery!vars
  BY <1>3, OfferLoses DEF Delivery!Next
<1>4. ASSUME Take PROVE UNCHANGED Delivery!vars
  BY <1>4, TakeMoves
<1>5. ASSUME Put PROVE Delivery!Next \/ UNCHANGED Delivery!vars
  BY <1>5, PutLoses DEF Delivery!Next
<1>6. ASSUME handleMessages PROVE Delivery!Next \/ UNCHANGED Delivery!vars
  BY <1>6, HandleDelivers DEF Delivery!Next
<1>7. ASSUME RegisterHandlers \/ Shutdown \/ Stop \/ UNCHANGED vars PROVE UNCHANGED Delivery!vars
  <2>1. UNCHANGED <<sub, reader, incoming, pump, msgChan, arrived, handled>>
    BY <1>7 DEF RegisterHandlers, Shutdown, Stop, MainStep, vars, chanVars
  <2>2. LineNow' = LineNow
    BY <2>1 DEF LineNow, Line
  <2> QED BY <2>1, <2>2, QueueAt, QueueNextAt, Stutters
<1> QED BY <1>1, <1>2, <1>3, <1>4, <1>5, <1>6, <1>7
       DEF Next, readLoop, handlePubSubMessages

LEMMA DeliveryInit == Init => Placed /\ Delivery!Init
<1> SUFFICES ASSUME Init PROVE Placed /\ Delivery!Init
  OBVIOUS
<1>1. Placed
  BY EmptyIsSeq DEF Init, Placed
<1>2. \A t \in Topics : Queue[t] = <<>>
  <2>1. LineNow = <<>>
    BY EmptyIsSeq, CatEmpty DEF Init, LineNow, Line
  <2>2. \A t \in Topics : Queue[t] = Queued(t, <<>>, <<>>, <<>>)
    BY <2>1, QueueAt DEF Init
  <2>3. \A t : Queued(t, <<>>, <<>>, <<>>) = <<>>
    BY EmptyIsSeq, SelectEmpty, CatEmpty DEF Queued
  <2> QED BY <2>2, <2>3
<1>3. Queue = [t \in Topics |-> <<>>]
  BY <1>2 DEF Queue
<1> QED BY <1>1, <1>3 DEF Init, Delivery!Init

\* The message path implements OrderedDelivery: whatever the two receiving
\* goroutines, the handler loop and the shutdown do in which order, the handlers see
\* the messages of a topic in the order in which they arrived, only those for this
\* node, and none that was lost or handled before.
THEOREM DeliveryImplemented == Spec => ImplementsDelivery
<1>1. Init => Placed /\ Delivery!Init
  BY DeliveryInit
<1>2. TypeOK /\ Placed /\ [Next]_vars => Placed'
  BY PlacedStep
<1>3. TypeOK /\ Placed /\ [Next]_vars => [Delivery!Next]_(Delivery!vars)
  BY DeliveryStep
<1> QED BY <1>1, <1>2, <1>3, HostTypeCorrect, PTL DEF Spec, ImplementsDelivery, Delivery!Spec

-----------------------------------------------------------------------------
(* What the abstract specification gives: nothing is handled twice.        *)

\* The messages of a queue are on its topic, all different, and not yet handled.
QueueOnce(q, t) ==
    \A i \in 1..Len(q) :
        /\ q[i].topic = t /\ q[i] \in arrived
        /\ \A j \in 1..Len(q) : q[i] = q[j] => i = j
        /\ \A j \in 1..Len(handled) : handled[j] # q[i]

Once ==
    /\ \A t \in Topics : QueueOnce(Queue[t], t)
    /\ \A i \in 1..Len(handled) : handled[i] \in arrived /\ handled[i].for = "us"
    /\ \A i, j \in 1..Len(handled) : handled[i] = handled[j] => i = j

\* No message reaches a handler twice, and none that is for another node.
HandledOnce ==
    /\ \A i \in 1..Len(handled) : handled[i].for = "us"
    /\ \A i, j \in 1..Len(handled) : handled[i] = handled[j] => i = j

\* What RemoveAt leaves.
LEMMA Removed ==
    ASSUME NEW s \in Seq(Messages), NEW i \in 1..Len(s)
    PROVE  /\ Delivery!RemoveAt(s, i) \in Seq(Messages)
           /\ Len(Delivery!RemoveAt(s, i)) = Len(s) - 1
           /\ \A k \in 1..Len(s) - 1 :
                  Delivery!RemoveAt(s, i)[k] = IF k < i THEN s[k] ELSE s[k + 1]
<1> DEFINE a == SubSeq(s, 1, i - 1)
           b == SubSeq(s, i + 1, Len(s))
           n == Len(s)
<1>1. n \in Nat /\ i \in Nat /\ i >= 1 /\ i <= n
  OBVIOUS
<1>2. /\ a \in Seq(Messages) /\ Len(a) = i - 1
      /\ \A k \in 1..i - 1 : a[k] = s[k]
  <2>1. i - 1 \in 0..n
    BY <1>1
  <2> QED BY <1>1, <2>1, SubSeqProperties
<1>3. /\ b \in Seq(Messages) /\ Len(b) = n - i
      /\ \A k \in 1..n - i : b[k] = s[i + k]
  <2>1. CASE i = n
    <3>1. b = <<>>
      BY <1>1, <2>1, SubSeqProperties
    <3> QED BY <1>1, <2>1, <3>1
  <2>2. CASE i < n
    BY <1>1, <2>2, SubSeqProperties
  <2> QED BY <1>1, <2>1, <2>2
<1>4. Delivery!RemoveAt(s, i) = a \o b
  BY DEF Delivery!RemoveAt
<1> HIDE DEF a, b, n
<1>5. /\ a \o b \in Seq(Messages) /\ Len(a \o b) = (i - 1) + (n - i)
      /\ \A k \in 1..i - 1 : (a \o b)[k] = a[k]
      /\ \A k \in 1..n - i : (a \o b)[(i - 1) + k] = b[k]
  <2>1. \A u, v \in Seq(Messages) :
           /\ u \o v \in Seq(Messages) /\ Len(u \o v) = Len(u) + Len(v)
           /\ \A k \in 1..Len(u) : (u \o v)[k] = u[k]
           /\ \A k \in 1..Len(v) : (u \o v)[Len(u) + k] = v[k]
    BY ConcatProperties
  <2>2. a \o b \in Seq(Messages) /\ Len(a \o b) = Len(a) + Len(b)
    BY <1>2, <1>3, <2>1
  <2>3. /\ \A k \in 1..Len(a) : (a \o b)[k] = a[k]
        /\ \A k \in 1..Len(b) : (a \o b)[Len(a) + k] = b[k]
    BY <1>2, <1>3, <2>1
  <2> QED BY <1>2, <1>3, <2>2, <2>3
<1>6. ASSUME NEW k \in 1..n - 1
      PROVE  (a \o b)[k] = IF k < i THEN s[k] ELSE s[k + 1]
  <2>1. CASE k < i
    BY <1>1, <1>2, <1>5, <2>1
  <2>2. CASE ~(k < i)
    <3>1. k - (i - 1) \in 1..n - i /\ (i - 1) + (k - (i - 1)) = k /\ i + (k - (i - 1)) = k + 1
      BY <1>1, <2>2
    <3>2. (a \o b)[k] = b[k - (i - 1)] /\ b[k - (i - 1)] = s[k + 1]
      BY <1>3, <1>5, <3>1
    <3> QED BY <2>2, <3>2
  <2> QED BY <2>1, <2>2
<1>7. Len(a \o b) = n - 1
  BY <1>1, <1>5
<1>8. /\ a \o b \in Seq(Messages) /\ Len(a \o b) = n - 1
      /\ \A k \in 1..n - 1 : (a \o b)[k] = IF k < i THEN s[k] ELSE s[k + 1]
  BY <1>5, <1>6, <1>7
<1> QED BY <1>4, <1>8, Zenon DEF n

LEMMA QueueTyped == TypeOK /\ Placed => Queue \in [Topics -> Seq(Messages)]
<1> SUFFICES ASSUME TypeOK, Placed, NEW t \in Topics PROVE Queue[t] \in Seq(Messages)
  BY DEF Queue
<1>1. Queue[t] = Queued(t, LineNow, reader[t], sub[t])
  BY QueueAt
<1>2. LineNow \in Seq(Messages) /\ reader[t] \in Seq(Messages) /\ sub[t] \in Seq(Messages)
  BY PlacesTyped
<1>3. \A l, r, s \in Seq(Messages) : Queued(t, l, r, s) \in Seq(Messages)
  BY CatAssociates, QueuedParts DEF Queued
<1> QED BY <1>1, <1>2, <1>3

\* Every step of the abstract specification keeps it.
LEMMA OnceStep ==
    ASSUME Queue \in [Topics -> Seq(Messages)], handled \in Seq(Messages), Once,
           [Delivery!Next]_(Delivery!vars)
    PROVE  Once'
<1>1. ASSUME NEW m \in Messages, Delivery!Arrive(m) PROVE Once'
  <2> DEFINE t == m.topic
  <2>1. t \in Topics
    BY MessagesAssumption
  <2>2. /\ Queue'[t] = Append(Queue[t], m) /\ \A x \in Topics \ {t} : Queue'[x] = Queue[x]
        /\ m \notin arrived /\ arrived' = arrived \cup {m} /\ handled' = handled
    BY <1>1, <2>1 DEF Delivery!Arrive
  <2>3. /\ Len(Queue'[t]) = Len(Queue[t]) + 1 /\ Queue'[t][Len(Queue[t]) + 1] = m
        /\ \A i \in 1..Len(Queue[t]) : Queue'[t][i] = Queue[t][i]
        /\ Len(Queue[t]) \in Nat
    BY <2>1, <2>2, AppendProperties
  <2>4. \A i \in 1..Len(Queue[t]) : Queue[t][i] # m /\ Queue[t][i] \in arrived /\ Queue[t][i].topic = t
    <3>1. QueueOnce(Queue[t], t)
      BY <2>1 DEF Once
    <3>2. \A i \in 1..Len(Queue[t]) : Queue[t][i] \in arrived /\ Queue[t][i].topic = t
      BY <3>1 DEF QueueOnce
    <3> QED BY <2>2, <3>2
  <2>5. \A j \in 1..Len(handled) : handled[j] # m
    BY <2>2 DEF Once, QueueOnce
  <2>6. \A i \in 1..Len(Queue'[t]) : i \in 1..Len(Queue[t]) \/ i = Len(Queue[t]) + 1
    BY <2>3
  <2> HIDE DEF t
  <2>7. m.topic = t
    BY DEF t
  <2>8. \A i \in 1..Len(Queue'[t]) :
           /\ Queue'[t][i].topic = t /\ Queue'[t][i] \in arrived'
           /\ \A j \in 1..Len(Queue'[t]) : Queue'[t][i] = Queue'[t][j] => i = j
           /\ \A j \in 1..Len(handled) : handled[j] # Queue'[t][i]
    <3>1. \A i \in 1..Len(Queue'[t]) :
           /\ Queue'[t][i].topic = t /\ Queue'[t][i] \in arrived'
           /\ \A j \in 1..Len(handled) : handled[j] # Queue'[t][i]
      BY <2>1, <2>2, <2>3, <2>4, <2>5, <2>6, <2>7 DEF Once, QueueOnce
    <3>2. \A i, j \in 1..Len(Queue'[t]) : Queue'[t][i] = Queue'[t][j] => i = j
      BY <2>1, <2>3, <2>4, <2>6 DEF Once, QueueOnce
    <3> QED BY <3>1, <3>2
  <2>9. \A x \in Topics \ {t} : \A i \in 1..Len(Queue'[x]) :
           /\ Queue'[x][i].topic = x /\ Queue'[x][i] \in arrived'
           /\ \A j \in 1..Len(Queue'[x]) : Queue'[x][i] = Queue'[x][j] => i = j
           /\ \A j \in 1..Len(handled) : handled[j] # Queue'[x][i]
    BY <2>2 DEF Once, QueueOnce
  <2>10. \A x \in Topics : QueueOnce(Queue[x], x)'
    <3>1. QueueOnce(Queue[t], t)'
      BY <2>2, <2>8 DEF QueueOnce
    <3>2. \A x \in Topics \ {t} : QueueOnce(Queue[x], x)'
      BY <2>2, <2>9 DEF QueueOnce
    <3> QED BY <3>1, <3>2
  <2>11. /\ \A i \in 1..Len(handled') : handled'[i] \in arrived' /\ handled'[i].for = "us"
         /\ \A i, j \in 1..Len(handled') : handled'[i] = handled'[j] => i = j
    BY <2>2 DEF Once, QueueOnce
  <2> QED BY <2>10, <2>11 DEF Once
<1>2. ASSUME NEW t \in Topics, Delivery!Lose(t) PROVE Once'
  <2>1. PICK d \in 1..Len(Queue[t]) : Queue' = [Queue EXCEPT ![t] = Delivery!RemoveAt(@, d)]
    <3>1. PICK d \in DOMAIN Queue[t] : Queue' = [Queue EXCEPT ![t] = Delivery!RemoveAt(@, d)]
      BY <1>2 DEF Delivery!Lose
    <3>2. DOMAIN Queue[t] = 1..Len(Queue[t])
      <4>1. Queue[t] \in Seq(Messages)
        OBVIOUS
      <4> QED BY <4>1
    <3> QED BY <3>1, <3>2
  <2>2. arrived' = arrived /\ handled' = handled
    BY <1>2 DEF Delivery!Lose
  <2>3. \A x \in Topics \ {t} : Queue'[x] = Queue[x]
    BY <2>1
  <2>4. Queue'[t] = Delivery!RemoveAt(Queue[t], d) /\ Queue[t] \in Seq(Messages)
    BY <2>1
  <2> DEFINE at(k) == IF k < d THEN k ELSE k + 1
             n == Len(Queue[t])
  <2>5. /\ n \in Nat /\ Len(Queue'[t]) = n - 1
        /\ \A k \in 1..n - 1 : at(k) \in 1..n /\ Queue'[t][k] = Queue[t][at(k)]
    BY <2>4, Removed
  <2>6. \A k, l \in 1..n - 1 : at(k) = at(l) => k = l
    BY <2>5
  <2> HIDE DEF at
  <2>7. \A i \in 1..Len(Queue'[t]) :
           /\ Queue'[t][i].topic = t /\ Queue'[t][i] \in arrived
           /\ \A j \in 1..Len(Queue'[t]) : Queue'[t][i] = Queue'[t][j] => i = j
           /\ \A j \in 1..Len(handled) : handled[j] # Queue'[t][i]
    <3>1. \A i \in 1..n :
             /\ Queue[t][i].topic = t /\ Queue[t][i] \in arrived
             /\ \A j \in 1..n : Queue[t][i] = Queue[t][j] => i = j
             /\ \A j \in 1..Len(handled) : handled[j] # Queue[t][i]
      BY DEF Once, QueueOnce
    <3> HIDE DEF n
    <3>2. \A i \in 1..n - 1 :
             /\ Queue'[t][i].topic = t /\ Queue'[t][i] \in arrived
             /\ \A j \in 1..Len(handled) : handled[j] # Queue'[t][i]
      BY <2>5, <3>1
    <3>3. ASSUME NEW i \in 1..n - 1, NEW j \in 1..n - 1, Queue'[t][i] = Queue'[t][j] PROVE i = j
      <4>1. Queue[t][at(i)] = Queue[t][at(j)] /\ at(i) \in 1..n /\ at(j) \in 1..n
        BY <2>5, <3>3
      <4>2. at(i) = at(j)
        BY <3>1, <4>1
      <4> QED BY <2>6, <4>2
    <3> QED BY <2>5, <3>2, <3>3
  <2> HIDE DEF n
  <2> QED BY <2>2, <2>3, <2>7 DEF Once, QueueOnce
<1>3. ASSUME NEW t \in Topics, Delivery!Deliver(t) PROVE Once'
  <2> DEFINE n == Len(Queue[t])
             k == Len(handled)
  <2>1. PICK m \in Messages : m = Head(Queue[t])
    BY <1>3 DEF Delivery!Deliver
  <2>2. /\ Queue[t] \in Seq(Messages) /\ Queue[t] # <<>> /\ m.for = "us"
        /\ Queue'[t] = Tail(Queue[t]) /\ \A x \in Topics \ {t} : Queue'[x] = Queue[x]
        /\ handled' = Append(handled, m) /\ arrived' = arrived
    BY <1>3, <2>1 DEF Delivery!Deliver
  <2>3. /\ n \in Nat /\ n >= 1 /\ m = Queue[t][1] /\ Len(Queue'[t]) = n - 1
        /\ \A i \in 1..n - 1 : Queue'[t][i] = Queue[t][i + 1] /\ i + 1 \in 1..n /\ i + 1 # 1
    <3>1. \A s \in Seq(Messages) : s # <<>> =>
              /\ Len(s) \in Nat /\ Len(s) >= 1 /\ Head(s) = s[1] /\ Len(Tail(s)) = Len(s) - 1
              /\ \A i \in 1..Len(s) - 1 : Tail(s)[i] = s[i + 1] /\ i + 1 \in 1..Len(s)
      OBVIOUS
    <3> QED BY <2>1, <2>2, <3>1
  <2>4. /\ k \in Nat /\ Len(handled') = k + 1 /\ handled'[k + 1] = m
        /\ \A i \in 1..k : handled'[i] = handled[i]
        /\ \A i \in 1..k + 1 : i \in 1..k \/ i = k + 1
    BY <2>2, AppendProperties
  <2>5. /\ m.topic = t /\ m \in arrived
        /\ \A j \in 1..k : handled[j] # m
        /\ \A i \in 2..n : Queue[t][i] # m
    BY <2>3 DEF Once, QueueOnce
  <2> HIDE DEF n, k
  <2>6. /\ \A i \in 1..k + 1 : handled'[i] \in arrived /\ handled'[i].for = "us"
        /\ \A i, j \in 1..k + 1 : handled'[i] = handled'[j] => i = j
    <3>1. /\ \A i \in 1..k : handled[i] \in arrived /\ handled[i].for = "us"
          /\ \A i, j \in 1..k : handled[i] = handled[j] => i = j
      BY DEF Once, QueueOnce, k
    <3>2. \A i \in 1..k + 1 : handled'[i] \in arrived /\ handled'[i].for = "us"
      BY <2>2, <2>4, <2>5, <3>1
    <3>3. ASSUME NEW i \in 1..k + 1, NEW j \in 1..k + 1, handled'[i] = handled'[j] PROVE i = j
      BY <2>4, <2>5, <3>1, <3>3
    <3> QED BY <3>2, <3>3
  <2>7. \A i \in 1..n - 1 :
           /\ Queue'[t][i].topic = t /\ Queue'[t][i] \in arrived
           /\ \A j \in 1..n - 1 : Queue'[t][i] = Queue'[t][j] => i = j
           /\ \A j \in 1..k + 1 : handled'[j] # Queue'[t][i]
    <3> SUFFICES ASSUME NEW i \in 1..n - 1
                 PROVE  /\ Queue'[t][i].topic = t /\ Queue'[t][i] \in arrived
                        /\ \A j \in 1..n - 1 : Queue'[t][i] = Queue'[t][j] => i = j
                        /\ \A j \in 1..k + 1 : handled'[j] # Queue'[t][i]
      OBVIOUS
    <3>1. Queue'[t][i] = Queue[t][i + 1] /\ i + 1 \in 1..n /\ i + 1 \in 2..n
      BY <2>3
    <3>2. Queue[t][i + 1].topic = t /\ Queue[t][i + 1] \in arrived
      BY <3>1 DEF Once, QueueOnce, n
    <3>3. \A j \in 1..n - 1 : Queue[t][i + 1] = Queue[t][j + 1] => i + 1 = j + 1
      BY <2>3, <3>1 DEF Once, QueueOnce, n
    <3>4. \A j \in 1..k : handled[j] # Queue[t][i + 1]
      BY <3>1 DEF Once, QueueOnce, n, k
    <3> QED BY <2>3, <2>4, <2>5, <3>1, <3>2, <3>3, <3>4
  <2>8. ASSUME NEW x \in Topics \ {t}, NEW i \in 1..Len(Queue'[x])
        PROVE  /\ Queue'[x][i].topic = x /\ Queue'[x][i] \in arrived
               /\ \A j \in 1..Len(Queue'[x]) : Queue'[x][i] = Queue'[x][j] => i = j
               /\ \A j \in 1..k + 1 : handled'[j] # Queue'[x][i]
    <3>1. Queue[x][i].topic = x
      BY <2>2 DEF Once, QueueOnce
    <3>2. Queue[x][i] # m
      BY <2>5, <3>1
    <3> QED BY <2>2, <2>4, <3>1, <3>2 DEF Once, QueueOnce, k
  <2>9. \A x \in Topics : QueueOnce(Queue[x], x)'
    <3>1. QueueOnce(Queue[t], t)'
      BY <2>2, <2>3, <2>4, <2>7 DEF QueueOnce
    <3>2. \A x \in Topics \ {t} : QueueOnce(Queue[x], x)'
      BY <2>2, <2>4, <2>8 DEF QueueOnce
    <3> QED BY <3>1, <3>2
  <2> QED BY <2>2, <2>4, <2>6, <2>9 DEF Once
<1>4. ASSUME UNCHANGED Delivery!vars PROVE Once'
  BY <1>4 DEF Once, QueueOnce, Delivery!vars
<1> QED BY <1>1, <1>2, <1>3, <1>4 DEF Delivery!Next

\* handleMessages never gives a handler the same message twice, although a message
\* passes two channels and three goroutines, and never one addressed to another node.
THEOREM NoMessageHandledTwice == Spec => []HandledOnce
<1>1. Init => Placed /\ Once
  <2>1. Init => Queue = [t \in Topics |-> <<>>] /\ handled = <<>>
    BY DeliveryInit DEF Delivery!Init
  <2> QED BY <2>1, DeliveryInit DEF Once, QueueOnce
<1>2. TypeOK /\ Placed /\ Once /\ [Next]_vars => Placed' /\ Once'
  <2>1. TypeOK => handled \in Seq(Messages)
    BY DEF TypeOK
  <2> QED BY <2>1, PlacedStep, DeliveryStep, QueueTyped, OnceStep
<1>3. Once => HandledOnce
  BY DEF Once, QueueOnce, HandledOnce
<1> QED BY <1>1, <1>2, <1>3, HostTypeCorrect, PTL DEF Spec
=============================================================================
