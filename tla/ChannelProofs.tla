---------------------------- MODULE ChannelProofs ----------------------------
(***************************************************************************)
(* Proofs about the users of a broadcast channel, for any capacity, any    *)
(* receivers and any number of signals, sessions and texts: what the bus   *)
(* broadcasts is in order and complete but for what Redis lost, what the   *)
(* chat says of its sessions is true, and a client that has not lagged     *)
(* misses nothing.                                                         *)
(***************************************************************************)
EXTENDS MCChannels, TLAPS, SequenceTheorems

USE BroadcastAssumption, EventBusAssumption, ChatAssumption

-----------------------------------------------------------------------------
(* Sequences of signals.                                                   *)

Below(A, B) == \A x \in A, y \in B : x < y

\* Two sequences make an increasing one when each is, and the second goes on
\* where the first ends.
LEMMA Joins ==
    ASSUME NEW s \in Seq(Nat), NEW q \in Seq(Nat)
    PROVE  /\ ToSet(s \o q) = ToSet(s) \cup ToSet(q)
           /\ Increasing(s) /\ Increasing(q) /\ Below(ToSet(s), ToSet(q)) => Increasing(s \o q)
<1> DEFINE c == s \o q
<1>1. /\ Len(s) \in Nat /\ Len(q) \in Nat /\ DOMAIN s = 1..Len(s) /\ DOMAIN q = 1..Len(q)
      /\ DOMAIN c = 1..(Len(s) + Len(q))
      /\ \A i \in 1..Len(s) : s[i] \in Nat /\ c[i] = s[i]
      /\ \A i \in 1..Len(q) : q[i] \in Nat
      /\ \A i \in DOMAIN c : i > Len(s) => i - Len(s) \in 1..Len(q) /\ c[i] = q[i - Len(s)]
  OBVIOUS
<1>2. \A i \in 1..Len(q) : Len(s) + i \in DOMAIN c /\ c[Len(s) + i] = q[i]
  <2>1. SUFFICES ASSUME NEW i \in 1..Len(q)
                 PROVE  Len(s) + i \in DOMAIN c /\ c[Len(s) + i] = q[i]
    OBVIOUS
  <2>2. Len(s) + i \in DOMAIN c /\ Len(s) + i > Len(s) /\ (Len(s) + i) - Len(s) = i
    BY <1>1
  <2>3. QED
    BY <1>1, <2>2
<1>3. \A i \in 1..Len(s) : i \in DOMAIN c
  BY <1>1
<1> HIDE DEF c
<1>4. ToSet(c) \subseteq ToSet(s) \cup ToSet(q)
  <2>1. SUFFICES ASSUME NEW i \in DOMAIN c
                 PROVE  c[i] \in ToSet(s) \cup ToSet(q)
    BY DEF ToSet
  <2>2. CASE i > Len(s)
    BY <1>1, <2>2 DEF ToSet
  <2>3. CASE ~(i > Len(s))
    <3>1. i \in 1..Len(s)
      BY <1>1, <2>3
    <3>2. QED
      BY <1>1, <3>1 DEF ToSet
  <2>4. QED
    BY <2>2, <2>3
<1>5. ToSet(s) \cup ToSet(q) \subseteq ToSet(c)
  <2>1. ASSUME NEW i \in DOMAIN s
        PROVE  s[i] \in ToSet(c)
    <3>1. i \in DOMAIN c /\ c[i] = s[i]
      BY <1>1, <1>3
    <3>2. QED
      BY <3>1 DEF ToSet
  <2>2. ASSUME NEW i \in DOMAIN q
        PROVE  q[i] \in ToSet(c)
    <3>1. Len(s) + i \in DOMAIN c /\ c[Len(s) + i] = q[i]
      BY <1>1, <1>2
    <3>2. QED
      BY <3>1 DEF ToSet
  <2>3. QED
    BY <2>1, <2>2 DEF ToSet
<1>6. ASSUME Increasing(s), Increasing(q), Below(ToSet(s), ToSet(q))
      PROVE  Increasing(c)
  <2>1. SUFFICES ASSUME NEW i \in DOMAIN c, NEW j \in DOMAIN c, i < j
                 PROVE  c[i] < c[j]
    BY DEF Increasing
  <2>2. CASE j <= Len(s)
    <3>1. i \in 1..Len(s) /\ j \in 1..Len(s)
      BY <1>1, <2>1, <2>2
    <3>2. s[i] < s[j]
      BY <1>1, <1>6, <2>1, <3>1 DEF Increasing
    <3>3. QED
      BY <1>1, <3>1, <3>2
  <2>3. CASE i <= Len(s) /\ j > Len(s)
    <3>1. i \in 1..Len(s) /\ j - Len(s) \in 1..Len(q) /\ c[j] = q[j - Len(s)]
      BY <1>1, <2>3
    <3>2. s[i] \in ToSet(s) /\ q[j - Len(s)] \in ToSet(q)
      BY <1>1, <3>1 DEF ToSet
    <3>3. QED
      BY <1>1, <1>6, <3>1, <3>2 DEF Below
  <2>4. CASE i > Len(s)
    <3>1. j > Len(s) /\ i - Len(s) < j - Len(s)
      BY <1>1, <2>1, <2>4
    <3>2. /\ i - Len(s) \in 1..Len(q) /\ c[i] = q[i - Len(s)]
          /\ j - Len(s) \in 1..Len(q) /\ c[j] = q[j - Len(s)]
      BY <1>1, <2>4, <3>1
    <3>3. q[i - Len(s)] < q[j - Len(s)]
      BY <1>1, <1>6, <3>1, <3>2 DEF Increasing
    <3>4. QED
      BY <3>2, <3>3
  <2>5. QED
    BY <1>1, <2>2, <2>3, <2>4
<1>7. QED
  BY <1>4, <1>5, <1>6 DEF c

\* A larger number at the end.
LEMMA Appends ==
    ASSUME NEW s \in Seq(Nat), NEW x \in Nat
    PROVE  /\ Append(s, x) \in Seq(Nat) /\ ToSet(Append(s, x)) = ToSet(s) \cup {x}
           /\ Len(s) \in Nat /\ Len(Append(s, x)) = Len(s) + 1
           /\ Increasing(s) /\ Below(ToSet(s), {x}) => Increasing(Append(s, x))
<1> DEFINE q == <<x>>
<1>1. q \in Seq(Nat) /\ DOMAIN q = {1} /\ q[1] = x /\ Append(s, x) = s \o q
  BY AppendIsConcat
<1>2. Append(s, x) \in Seq(Nat) /\ Len(Append(s, x)) = Len(s) + 1
  OBVIOUS
<1> HIDE DEF q
<1>3. ToSet(q) = {x} /\ Increasing(q)
  BY <1>1 DEF ToSet, Increasing
<1>4. ToSet(Append(s, x)) = ToSet(s) \cup {x}
  BY <1>1, <1>3, Joins
<1>5. Increasing(s) /\ Below(ToSet(s), {x}) => Increasing(Append(s, x))
  <2>1. Increasing(s) /\ Below(ToSet(s), ToSet(q)) => Increasing(s \o q)
    BY <1>1, <1>3, Joins
  <2>2. QED
    BY <1>1, <1>3, <2>1
<1>6. QED
  BY <1>2, <1>4, <1>5

\* The first of a sequence, and what is left of it.
LEMMA TakesFirst ==
    ASSUME NEW q \in Seq(Nat), q # <<>>
    PROVE  /\ Head(q) \in Nat /\ Tail(q) \in Seq(Nat) /\ Len(q) \in Nat
           /\ Len(Tail(q)) = Len(q) - 1
           /\ ToSet(q) = {Head(q)} \cup ToSet(Tail(q))
           /\ Increasing(q) => Increasing(Tail(q)) /\ Below({Head(q)}, ToSet(Tail(q)))
<1>1. /\ Len(q) \in Nat /\ Len(q) >= 1 /\ DOMAIN q = 1..Len(q) /\ Head(q) = q[1]
      /\ Tail(q) \in Seq(Nat) /\ Len(Tail(q)) = Len(q) - 1 /\ DOMAIN Tail(q) = 1..(Len(q) - 1)
      /\ \A i \in 1..(Len(q) - 1) : Tail(q)[i] = q[i + 1] /\ i + 1 \in DOMAIN q
      /\ \A i \in 1..Len(q) : q[i] \in Nat
  <2>1. /\ Tail(q) \in Seq(Nat) /\ Len(Tail(q)) = Len(q) - 1
        /\ \A i \in 1..Len(Tail(q)) : Tail(q)[i] = q[i + 1]
    BY HeadTailProperties
  <2>2. QED
    BY <2>1
<1>2. ToSet(q) = {Head(q)} \cup ToSet(Tail(q))
  <2>1. ASSUME NEW i \in DOMAIN q, i # 1
        PROVE  q[i] \in ToSet(Tail(q))
    <3>1. i - 1 \in DOMAIN Tail(q) /\ Tail(q)[i - 1] = q[i]
      <4>1. i - 1 \in 1..(Len(q) - 1) /\ (i - 1) + 1 = i
        BY <1>1, <2>1
      <4>2. QED
        BY <1>1, <4>1
    <3>2. QED
      BY <3>1 DEF ToSet
  <2>2. 1 \in DOMAIN q
    BY <1>1
  <2>3. QED
    BY <1>1, <2>1, <2>2 DEF ToSet
<1>3. ASSUME Increasing(q)
      PROVE  Increasing(Tail(q)) /\ Below({Head(q)}, ToSet(Tail(q)))
  <2>1. ASSUME NEW i \in DOMAIN Tail(q), NEW j \in DOMAIN Tail(q), i < j
        PROVE  Tail(q)[i] < Tail(q)[j]
    <3>1. i + 1 \in DOMAIN q /\ j + 1 \in DOMAIN q /\ i + 1 < j + 1
      BY <1>1, <2>1
    <3>2. q[i + 1] < q[j + 1]
      BY <1>3, <3>1 DEF Increasing
    <3>3. QED
      BY <1>1, <3>2
  <2>2. ASSUME NEW i \in DOMAIN Tail(q)
        PROVE  Head(q) < Tail(q)[i]
    <3>1. 1 \in DOMAIN q /\ i + 1 \in DOMAIN q /\ 1 < i + 1
      BY <1>1
    <3>2. q[1] < q[i + 1]
      BY <1>3, <3>1 DEF Increasing
    <3>3. QED
      BY <1>1, <3>2
  <2>3. QED
    BY <2>1, <2>2 DEF Increasing, Below, ToSet
<1>4. QED
  BY <1>1, <1>2, <1>3

-----------------------------------------------------------------------------
(* The bus.                                                                *)

\* The fields that only the bus changes; when it does not run they are as they
\* were at the start.
BusType ==
    /\ app \in {"bus", "chat"} /\ reactor \in {"memory", "redis"}
    /\ emitted \in 0..MaxSignals /\ lost \subseteq 1..emitted
    /\ queue \in Seq(Nat)
    /\ reactor = "memory" => ~listening /\ lost = {} /\ Len(queue) <= QueueCapacity
    /\ app = "chat" => queue = <<>>

\* What was broadcast and what is on its way, one after the other.
BusLine ==
    /\ sent \in Seq(Nat)
    /\ Increasing(sent) /\ Increasing(queue) /\ Below(ToSet(sent), ToSet(queue))
    /\ ToSet(sent) \cup ToSet(queue) = (1..emitted) \ lost
    /\ Len(sent) + Len(queue) <= emitted

BusInv == BusType /\ (app = "bus" => BusLine)

LEMMA InitBusInv == Init => BusInv
<1>1. SUFFICES ASSUME Init
               PROVE  BusInv
  OBVIOUS
<1>2. sent = <<>> /\ queue = <<>> /\ emitted = 0 /\ lost = {} /\ ~listening /\ app \in {"bus", "chat"}
      /\ reactor \in {"memory", "redis"}
  BY <1>1 DEF Init, BroadcastInit, BusInit
<1>3. ToSet(<<>>) = {} /\ Increasing(<<>>) /\ <<>> \in Seq(Nat) /\ Len(<<>>) = 0
  BY DEF ToSet, Increasing
<1>4. BusType
  BY <1>2, <1>3 DEF BusType
<1>5. BusLine
  BY <1>2, <1>3 DEF BusLine, Below
<1>6. QED
  BY <1>4, <1>5 DEF BusInv

\* A signal takes the next number and its place at the end.
LEMMA EmitsLast ==
    ASSUME BusType, BusLine, sent' = sent, queue' = Append(queue, emitted + 1),
           emitted' = emitted + 1, lost' = lost
    PROVE  BusLine' /\ queue' \in Seq(Nat) /\ Len(queue') = Len(queue) + 1
<1> DEFINE x == emitted + 1
<1>1. emitted \in Nat /\ x \in Nat /\ queue \in Seq(Nat) /\ lost \subseteq 1..emitted
  BY DEF BusType
<1>2. \A y \in ToSet(sent) \cup ToSet(queue) : y < x
  BY <1>1 DEF BusLine
<1>3. /\ queue' \in Seq(Nat) /\ ToSet(queue)' = ToSet(queue) \cup {x}
      /\ Len(queue) \in Nat /\ Len(queue') = Len(queue) + 1
      /\ Increasing(queue) /\ Below(ToSet(queue), {x}) => Increasing(queue)'
  BY <1>1, Appends DEF ToSet, Increasing
<1>4. (1..x) \ lost = ((1..emitted) \ lost) \cup {x}
  BY <1>1
<1> HIDE DEF x
<1>5. Increasing(queue)' /\ Below(ToSet(sent), ToSet(queue)')
  BY <1>2, <1>3 DEF Below, BusLine
<1>6. Len(sent) \in Nat
  BY DEF BusLine
<1>7. Len(sent') + Len(queue') <= emitted'
  BY <1>1, <1>3, <1>6 DEF BusLine
<1>8. ToSet(sent') \cup ToSet(queue)' = (1..emitted') \ lost'
  BY <1>3, <1>4 DEF BusLine, x
<1>9. sent' \in Seq(Nat) /\ Increasing(sent')
  BY DEF BusLine
<1>10. Increasing(queue') /\ Below(ToSet(sent'), ToSet(queue'))
  BY <1>5 DEF ToSet, Increasing
<1>11. ToSet(sent') \cup ToSet(queue') = (1..emitted') \ lost'
  BY <1>8 DEF ToSet
<1>12. BusLine'
  BY <1>7, <1>9, <1>10, <1>11 DEF BusLine, Below, ToSet, Increasing
<1>13. QED
  BY <1>3, <1>12

\* The first on its way is broadcast.
LEMMA Broadcasts ==
    ASSUME BusType, BusLine, queue # <<>>, Send(Head(queue)), queue' = Tail(queue),
           UNCHANGED <<emitted, lost>>
    PROVE  BusLine' /\ queue' \in Seq(Nat) /\ Len(queue') = Len(queue) - 1
<1>1. queue \in Seq(Nat) /\ sent \in Seq(Nat) /\ sent' = Append(sent, Head(queue))
  BY DEF BusType, BusLine, Send
<1>2. /\ Head(queue) \in Nat /\ queue' \in Seq(Nat) /\ Len(queue) \in Nat
      /\ Len(queue') = Len(queue) - 1
      /\ ToSet(queue) = {Head(queue)} \cup ToSet(queue')
      /\ Increasing(queue') /\ Below({Head(queue)}, ToSet(queue'))
  BY <1>1, TakesFirst DEF BusLine
<1>3. Below(ToSet(sent), {Head(queue)})
  BY <1>2 DEF BusLine, Below
<1>4. /\ sent' \in Seq(Nat) /\ ToSet(sent') = ToSet(sent) \cup {Head(queue)}
      /\ Len(sent) \in Nat /\ Len(sent') = Len(sent) + 1 /\ Increasing(sent')
  BY <1>1, <1>2, <1>3, Appends DEF BusLine
<1>5. Below(ToSet(sent'), ToSet(queue'))
  BY <1>2, <1>4 DEF BusLine, Below
<1>6. ToSet(sent') \cup ToSet(queue') = (1..emitted') \ lost'
  BY <1>2, <1>4 DEF BusLine
<1>7. Len(sent') + Len(queue') <= emitted'
  BY <1>2, <1>4 DEF BusLine
<1>8. QED
  BY <1>2, <1>4, <1>5, <1>6, <1>7 DEF BusLine, Below, ToSet, Increasing

LEMMA BusStepKeeps ==
    ASSUME BusInv, BusStep
    PROVE  BusInv'
<1>1. BusType /\ BusLine /\ app = "bus" /\ app' = app
  BY DEF BusInv, BusStep
<1>2. emitted \in Nat /\ Len(queue) \in Nat
  BY <1>1 DEF BusType
<1>3. CASE Emit
  <2>1. BusLine' /\ queue' \in Seq(Nat) /\ Len(queue') = Len(queue) + 1
    BY <1>1, <1>3, EmitsLast DEF Emit, Emission, channelVars
  <2>2. BusType'
    BY <1>1, <1>2, <1>3, <2>1 DEF BusType, Emit, Emission
  <2>3. QED
    BY <2>1, <2>2 DEF BusInv
<1>4. CASE Publish
  <2>1. CASE listening /\ queue' = Append(queue, emitted + 1) /\ UNCHANGED lost
    <3>1. BusLine' /\ queue' \in Seq(Nat) /\ Len(queue') = Len(queue) + 1
      BY <1>1, <1>4, <2>1, EmitsLast DEF Publish, Emission, channelVars
    <3>2. BusType'
      BY <1>1, <1>2, <1>4, <2>1, <3>1 DEF BusType, Publish, Emission
    <3>3. QED
      BY <3>1, <3>2 DEF BusInv
  <2>2. CASE lost' = lost \cup {emitted + 1} /\ UNCHANGED queue
    <3>1. /\ emitted' = emitted + 1 /\ emitted < MaxSignals /\ sent' = sent
          /\ reactor' = reactor /\ reactor = "redis" /\ listening' = listening
      BY <1>4 DEF Publish, Emission, channelVars
    <3>2. BusType'
      BY <1>1, <1>2, <2>2, <3>1 DEF BusType
    <3>3. (1..(emitted + 1)) \ (lost \cup {emitted + 1}) = (1..emitted) \ lost
      BY <1>2
    <3>4. BusLine'
      BY <1>1, <1>2, <2>2, <3>1, <3>3 DEF BusLine, Below, ToSet, Increasing
    <3>5. QED
      BY <3>2, <3>4 DEF BusInv
  <2>3. QED
    BY <1>4, <2>1, <2>2 DEF Publish
<1>5. ASSUME queue # <<>>, Send(Head(queue)), queue' = Tail(queue),
             UNCHANGED <<reactor, listening, emitted, lost>>
      PROVE  BusInv'
  <2>1. BusLine' /\ queue' \in Seq(Nat) /\ Len(queue') = Len(queue) - 1
    BY <1>1, <1>5, Broadcasts
  <2>2. BusType'
    BY <1>1, <1>2, <1>5, <2>1 DEF BusType
  <2>3. QED
    BY <2>1, <2>2 DEF BusInv
<1>6. CASE Disconnect
  <2>1. /\ lost' = lost \cup ToSet(queue) /\ queue' = <<>> /\ sent' = sent /\ emitted' = emitted
        /\ reactor' = reactor /\ reactor = "redis"
    BY <1>1, <1>6 DEF Disconnect, channelVars, BusType
  <2>2. /\ ToSet(<<>>) = {} /\ Increasing(<<>>) /\ <<>> \in Seq(Nat) /\ Len(<<>>) = 0
    BY DEF ToSet, Increasing
  <2>3. ToSet(queue) \subseteq 1..emitted
    BY <1>1 DEF BusLine
  <2>4. BusType'
    BY <1>1, <2>1, <2>2, <2>3 DEF BusType
  <2>5. ToSet(sent) \cap ToSet(queue) = {}
    <3>1. \A x \in ToSet(sent) : x \in Nat
      BY <1>1 DEF BusLine
    <3>2. QED
      BY <1>1, <3>1 DEF BusLine, Below
  <2>6. ToSet(sent) = (1..emitted) \ (lost \cup ToSet(queue))
    BY <1>1, <2>5 DEF BusLine
  <2>7. Len(sent) \in Nat /\ Len(sent) <= emitted
    BY <1>1, <1>2 DEF BusLine
  <2>8. BusLine'
    BY <1>1, <2>1, <2>2, <2>6, <2>7 DEF BusLine, Below, ToSet, Increasing
  <2>9. QED
    BY <2>4, <2>8 DEF BusInv
<1>7. ASSUME UNCHANGED <<sent, reactor, queue, emitted, lost>>,
             listening' => listening \/ reactor = "redis"
      PROVE  BusInv'
  <2>1. BusType'
    BY <1>1, <1>7 DEF BusType
  <2>2. BusLine'
    BY <1>1, <1>7 DEF BusLine, Below, ToSet, Increasing
  <2>3. QED
    BY <2>1, <2>2 DEF BusInv
<1>8. CASE Tick \/ Listen \/ Log
  BY <1>7, <1>8 DEF Tick, Listen, Log, channelVars, Advance, Skip
<1>9. CASE Drain
  <2>1. CASE queue # <<>> /\ Send(Head(queue)) /\ queue' = Tail(queue)
    BY <1>5, <1>9, <2>1 DEF Drain
  <2>2. CASE UNCHANGED <<channelVars, queue>>
    BY <1>7, <1>9, <2>2 DEF Drain, channelVars
  <2>3. QED
    BY <1>9, <2>1, <2>2 DEF Drain
<1>10. CASE Hear
  BY <1>5, <1>10 DEF Hear
<1>11. QED
  BY <1>3, <1>4, <1>6, <1>8, <1>9, <1>10 DEF BusStep, BusNext

LEMMA NextBusInv == BusInv /\ [Next]_vars => BusInv'
<1>1. SUFFICES ASSUME BusInv, [Next]_vars
               PROVE  BusInv'
  OBVIOUS
<1>2. CASE ChatStep
  <2>1. app = "chat" /\ app' = app /\ UNCHANGED busVars
    BY <1>2 DEF ChatStep
  <2>2. QED
    BY <1>1, <2>1 DEF BusInv, BusType, busVars
<1>3. CASE UNCHANGED vars
  BY <1>1, <1>3 DEF vars, channelVars, busVars, BusInv, BusType, BusLine, Below, ToSet, Increasing
<1>4. QED
  BY <1>1, <1>2, <1>3, BusStepKeeps DEF Next

\* Signals are broadcast in the order of their emission, each once, and only
\* Redis loses any (pulse/memory.rs:38).
THEOREM SignalsArriveInOrder == Spec => []BusInOrder
<1>1. BusInv => BusInOrder
  <2>1. SUFFICES ASSUME BusInv, app = "bus"
                 PROVE  SignalsInOrder
    BY DEF BusInOrder
  <2>2. sent \in Seq(Nat) /\ queue \in Seq(Nat)
    BY <2>1 DEF BusInv, BusType, BusLine
  <2>3. QED
    BY <2>1, <2>2, Joins DEF BusInv, BusType, BusLine, SignalsInOrder
<1>2. QED
  BY <1>1, InitBusInv, NextBusInv, PTL DEF Spec


-----------------------------------------------------------------------------
(* The sessions.                                                           *)

Messages == [kind : {"joined", "chat", "left"}, from : Sessions]
Here == {"in", "leaving", "gone"}

ChatType ==
    /\ sent \in Seq(Messages)
    /\ cursor \in [Receivers -> Nat]
    /\ \A s \in Sessions : cursor[s] <= Len(sent)
    /\ status = [s \in Sessions |-> status[s]]
    /\ shown \in [Sessions -> Seq(Messages)]

\* Who spoke has joined.
Heralded == \A i \in DOMAIN sent : status[sent[i].from] \in Here

\* From j on, what the channel says and the last that the client was shown are
\* the same, message by message.
Trails(s, j) ==
    \A k \in j..cursor[s] :
        /\ Len(shown[s]) - cursor[s] + k \in DOMAIN shown[s]
        /\ sent[k] = shown[s][Len(shown[s]) - cursor[s] + k]
Follows == \A s \in Sessions \ lagged : \A j \in Said("joined", s) : status[s] = "in" => Trails(s, j)

Hall == ChatType /\ Heralded /\ PresenceHonest /\ Follows
ChatInv == app = "chat" => Hall

LEMMA InitChatInv == Init => ChatInv
<1>1. SUFFICES ASSUME Init
               PROVE  Hall
  BY DEF ChatInv
<1>2. /\ sent = <<>> /\ cursor = [r \in Receivers |-> 0]
      /\ status = [s \in Sessions |-> "out"] /\ shown = [s \in Sessions |-> <<>>]
  BY <1>1 DEF Init, BroadcastInit, ChatInit
<1>3. DOMAIN sent = {} /\ Len(sent) = 0
  BY <1>2
<1>4. ChatType
  BY <1>2, <1>3 DEF ChatType
<1>5. Heralded /\ Follows
  BY <1>3 DEF Heralded, Follows, Said
<1>6. PresenceHonest
  BY <1>2, <1>3 DEF PresenceHonest, Said
<1>7. QED
  BY <1>4, <1>5, <1>6 DEF Hall

LEMMA Ranges ==
    ASSUME ChatType
    PROVE  /\ Len(sent) \in Nat /\ DOMAIN sent = 1..Len(sent)
           /\ \A s \in Sessions : s \in Receivers /\ cursor[s] \in Nat /\ cursor[s] <= Len(sent)
           /\ \A k, s : \A j \in Said(k, s) : j \in Nat \ {0} /\ j \in DOMAIN sent
<1>1. sent \in Seq(Messages)
  BY DEF ChatType
<1>2. Len(sent) \in Nat /\ DOMAIN sent = 1..Len(sent)
  BY <1>1
<1>3. \A s \in Sessions : s \in Receivers /\ cursor[s] \in Nat /\ cursor[s] <= Len(sent)
  BY DEF ChatType
<1>4. \A k, s : \A j \in Said(k, s) : j \in Nat \ {0} /\ j \in DOMAIN sent
  BY <1>2 DEF Said
<1>5. QED
  BY <1>2, <1>3, <1>4

\* A receiver's cursor moves, the others stay.
LEMMA CursorMoves ==
    ASSUME ChatType, NEW s \in Sessions, NEW c \in Nat, c <= Len(sent),
           cursor' = [cursor EXCEPT ![s] = c], sent' = sent
    PROVE  /\ cursor' \in [Receivers -> Nat] /\ cursor'[s] = c
           /\ \A u \in Sessions : cursor'[u] \in Nat /\ cursor'[u] <= Len(sent')
           /\ \A u \in Sessions : u # s => cursor'[u] = cursor[u]
<1>1. cursor \in [Receivers -> Nat] /\ s \in Receivers
  BY DEF ChatType
<1>2. /\ cursor' \in [Receivers -> Nat] /\ cursor'[s] = c
      /\ \A u \in Sessions : u # s => cursor'[u] = cursor[u]
  BY <1>1
<1>3. QED
  BY <1>2, Ranges

\* A status changes within its side of joining and leaving, and nobody speaks.
LEMMA SilentKeeps ==
    ASSUME Hall, NEW s \in Sessions, NEW st, status' = [status EXCEPT ![s] = st], sent' = sent,
           st \in Here <=> status[s] \in Here, st = "gone" <=> status[s] = "gone"
    PROVE  Heralded' /\ PresenceHonest' /\ status' = [u \in Sessions |-> status'[u]]
           /\ \A u \in Sessions : u # s => status'[u] = status[u]
           /\ status'[s] = st
<1>1. /\ status' = [u \in Sessions |-> status'[u]] /\ status'[s] = st
      /\ \A u \in Sessions : u # s => status'[u] = status[u]
  BY DEF Hall, ChatType
<1>2. \A u \in Sessions : (status'[u] \in Here <=> status[u] \in Here)
                          /\ (status'[u] = "gone" <=> status[u] = "gone")
  BY <1>1
<1>3. \A i \in DOMAIN sent : sent[i].from \in Sessions
  <2>1. \A i \in DOMAIN sent : sent[i] \in Messages
    BY DEF Hall, ChatType
  <2>2. QED
    BY <2>1 DEF Messages
<1>4. Heralded'
  BY <1>2, <1>3 DEF Hall, Heralded
<1>5. \A k, u : Said(k, u)' = Said(k, u)
  BY DEF Said
<1>6. PresenceHonest'
  BY <1>2, <1>5 DEF Hall, PresenceHonest, Here
<1>7. QED
  BY <1>1, <1>4, <1>6

\* A message is the last one, and nobody's earlier one.
LEMMA Speaking ==
    ASSUME ChatType, NEW s \in Sessions, NEW kind \in {"joined", "chat", "left"},
           sent' = Append(sent, Message(kind, s))
    PROVE  /\ sent' \in Seq(Messages) /\ Len(sent) \in Nat /\ Len(sent') = Len(sent) + 1
           /\ DOMAIN sent = 1..Len(sent) /\ DOMAIN sent' = 1..(Len(sent) + 1)
           /\ \A i \in DOMAIN sent : i \in DOMAIN sent' /\ sent'[i] = sent[i]
           /\ sent'[Len(sent) + 1] = Message(kind, s)
           /\ \A k, u : Said(k, u) \subseteq Said(k, u)'
           /\ \A k, u : \A i \in Said(k, u)' :
                 i \in Said(k, u) \/ (i = Len(sent) + 1 /\ k = kind /\ u = s)
<1>1. sent \in Seq(Messages) /\ Message(kind, s) \in Messages
  BY DEF ChatType, Message, Messages
<1>2. /\ sent' \in Seq(Messages) /\ Len(sent) \in Nat /\ Len(sent') = Len(sent) + 1
      /\ DOMAIN sent = 1..Len(sent) /\ DOMAIN sent' = 1..(Len(sent) + 1)
      /\ \A i \in DOMAIN sent : i \in DOMAIN sent' /\ sent'[i] = sent[i]
      /\ sent'[Len(sent) + 1] = Message(kind, s)
  BY <1>1
<1>3. \A k, u : Said(k, u) \subseteq Said(k, u)'
  BY <1>2 DEF Said
<1>4. ASSUME NEW k, NEW u, NEW i \in Said(k, u)'
      PROVE  i \in Said(k, u) \/ (i = Len(sent) + 1 /\ k = kind /\ u = s)
  <2>1. i \in DOMAIN sent' /\ sent'[i] = Message(k, u)
    BY DEF Said
  <2>2. CASE i \in DOMAIN sent
    BY <1>2, <2>1, <2>2 DEF Said
  <2>3. CASE i = Len(sent) + 1
    <3>1. Message(k, u) = Message(kind, s)
      BY <1>2, <2>1, <2>3
    <3>2. Message(k, u).kind = Message(kind, s).kind /\ Message(k, u).from = Message(kind, s).from
      BY <3>1
    <3>3. QED
      BY <2>3, <3>2 DEF Message
  <2>4. QED
    BY <1>2, <2>1, <2>2, <2>3
<1>5. QED
  BY <1>2, <1>3, <1>4

\* A session says what its status allows.
LEMMA SpokenKeeps ==
    ASSUME Hall, NEW s \in Sessions, NEW kind, NEW st,
           \/ kind = "joined" /\ status[s] = "subscribed" /\ st = "in"
           \/ kind = "chat" /\ status[s] = "in" /\ st = "in"
           \/ kind = "left" /\ status[s] = "leaving" /\ st = "gone",
           sent' = Append(sent, Message(kind, s)), status' = [status EXCEPT ![s] = st]
    PROVE  Heralded' /\ PresenceHonest'
<1> DEFINE n == Len(sent) + 1
<1>1. kind \in {"joined", "chat", "left"} /\ ChatType
  BY DEF Hall
<1>2. /\ Len(sent) \in Nat
      /\ DOMAIN sent = 1..Len(sent) /\ DOMAIN sent' = 1..n
      /\ \A i \in DOMAIN sent : sent'[i] = sent[i]
      /\ sent'[n] = Message(kind, s)
      /\ \A k, u : Said(k, u) \subseteq Said(k, u)'
      /\ \A k, u : \A i \in Said(k, u)' : i \in Said(k, u) \/ (i = n /\ k = kind /\ u = s)
  BY <1>1, Speaking
<1>3. n \in DOMAIN sent' /\ n \notin DOMAIN sent
      /\ (\A i \in DOMAIN sent' : i \in DOMAIN sent \/ i = n)
      /\ \A i \in DOMAIN sent : i \in Nat /\ i < n
  BY <1>2
<1> HIDE DEF n
<1>4. status'[s] = st /\ \A u \in Sessions : u # s => status'[u] = status[u]
  BY <1>1 DEF ChatType
<1>5. Message(kind, s).kind = kind /\ Message(kind, s).from = s
  BY DEF Message
<1>6. \A i \in DOMAIN sent : sent[i].from \in Sessions
  <2>1. \A i \in DOMAIN sent : sent[i] \in Messages
    BY <1>1 DEF ChatType
  <2>2. QED
    BY <2>1 DEF Messages
<1>7. Heralded'
  <2>1. SUFFICES ASSUME NEW i \in DOMAIN sent'
                 PROVE  status'[sent'[i].from] \in Here
    BY DEF Heralded
  <2>2. CASE i = n
    BY <1>2, <1>4, <1>5, <2>2 DEF Here
  <2>3. CASE i \in DOMAIN sent
    <3>1. sent'[i].from = sent[i].from /\ status[sent[i].from] \in Here
      BY <1>2, <2>3 DEF Hall, Heralded
    <3>2. QED
      BY <1>4, <1>6, <2>3, <3>1 DEF Here
  <2>4. QED
    BY <1>3, <2>2, <2>3
<1>8. n \in Said(kind, s)'
  BY <1>2, <1>3 DEF Said
<1>9. ASSUME NEW u \in Sessions
      PROVE  /\ (Said("joined", u)' # {}) <=> status'[u] \in Here
             /\ (Said("left", u)' # {}) <=> status'[u] = "gone"
  <2>1. /\ (Said("joined", u) # {}) <=> status[u] \in Here
        /\ (Said("left", u) # {}) <=> status[u] = "gone"
    BY DEF Hall, PresenceHonest, Here
  <2>2. CASE u # s
    <3>1. \A k : Said(k, u)' = Said(k, u)
      <4>1. ASSUME NEW k
            PROVE  Said(k, u)' = Said(k, u)
        <5>1. Said(k, u)' \subseteq Said(k, u) /\ Said(k, u) \subseteq Said(k, u)'
          BY <1>2, <2>2
        <5>2. QED
          BY <5>1
      <4>2. QED
        BY <4>1
    <3>2. QED
      BY <1>4, <2>1, <2>2, <3>1
  <2>3. CASE u = s
    <3>1. st = "gone" <=> kind = "left"
      OBVIOUS
    <3>2. status'[u] \in Here /\ (status'[u] = "gone" <=> kind = "left")
      BY <1>4, <2>3, <3>1 DEF Here
    <3>3. Said("joined", u)' # {}
      <4>1. CASE kind = "joined"
        BY <1>8, <2>3, <4>1
      <4>2. CASE kind # "joined"
        BY <1>2, <2>1, <2>3, <4>2 DEF Here
      <4>3. QED
        BY <4>1, <4>2
    <3>4. kind = "left" => Said("left", u)' # {}
      BY <1>8, <2>3
    <3>5. kind # "left" => Said("left", u)' = {}
      <4>1. ASSUME kind # "left"
            PROVE  Said("left", u) = {}
        BY <2>1, <2>3, <4>1
      <4>2. QED
        BY <1>2, <4>1
    <3>6. QED
      BY <3>2, <3>3, <3>4, <3>5
  <2>4. QED
    BY <2>2, <2>3
<1>10. ASSUME NEW i \in DOMAIN sent', NEW j \in DOMAIN sent', i < j, sent'[i].from = sent'[j].from
       PROVE  sent'[i].kind # "left" /\ sent'[j].kind # "joined"
  <2>1. CASE j \in DOMAIN sent
    <3>1. i \in DOMAIN sent
      BY <1>2, <1>3, <1>10, <2>1
    <3>2. QED
      BY <1>2, <1>10, <2>1, <3>1 DEF Hall, PresenceHonest
  <2>2. CASE j = n
    <3>1. i \in DOMAIN sent /\ sent'[i] = sent[i] /\ sent[i].from = s
      BY <1>2, <1>3, <1>5, <1>10, <2>2
    <3>2. status[s] \in Here
      BY <3>1 DEF Hall, Heralded
    <3>3. kind # "joined" /\ status[s] # "gone"
      BY <3>2 DEF Here
    <3>4. Said("left", s) = {}
      BY <3>3 DEF Hall, PresenceHonest
    <3>5. sent[i].kind # "left"
      <4>1. sent[i] \in Messages
        BY <1>1, <3>1 DEF ChatType
      <4>2. sent[i].kind = "left" => sent[i] = Message("left", s)
        BY <3>1, <4>1 DEF Messages, Message
      <4>3. QED
        BY <3>1, <3>4, <4>2 DEF Said
    <3>6. QED
      BY <1>2, <1>5, <2>2, <3>1, <3>3, <3>5
  <2>3. QED
    BY <1>3, <2>1, <2>2
<1>11. PresenceHonest'
  BY <1>9, <1>10 DEF PresenceHonest, Here
<1>12. QED
  BY <1>7, <1>11


\* Who follows goes on following when others' messages come after what it has
\* read.
LEMMA StillFollows ==
    ASSUME ChatType, NEW s \in Sessions, NEW j \in Nat \ {0}, Trails(s, j),
           cursor'[s] = cursor[s], shown' = shown,
           \A i \in DOMAIN sent : sent'[i] = sent[i]
    PROVE  Trails(s, j)'
<1>1. \A k \in j..cursor[s] : k \in DOMAIN sent /\ sent'[k] = sent[k]
  <2>1. \A k \in j..cursor[s] : k \in 1..Len(sent)
    BY Ranges
  <2>2. QED
    BY <2>1, Ranges
<1>2. QED
  BY <1>1 DEF Trails

\* What is not yet read is not followed.
LEMMA AheadFollows ==
    ASSUME NEW s, NEW j \in Nat, cursor'[s] \in Nat, cursor'[s] < j
    PROVE  Trails(s, j)'
BY DEF Trails

LEMMA SpeakFollows ==
    ASSUME Hall, NEW s \in Sessions, NEW kind, NEW st,
           \/ kind = "joined" /\ status[s] = "subscribed" /\ st = "in"
           \/ kind = "chat" /\ status[s] = "in" /\ st = "in"
           \/ kind = "left" /\ status[s] = "leaving" /\ st = "gone",
           Send(Message(kind, s)), Become(s, st), UNCHANGED <<shown, lagged>>
    PROVE  Hall'
<1>1. /\ kind \in {"joined", "chat", "left"} /\ ChatType
      /\ sent' = Append(sent, Message(kind, s)) /\ cursor' = cursor
      /\ status' = [status EXCEPT ![s] = st]
  BY DEF Hall, Send, Become
<1>2. Heralded' /\ PresenceHonest'
  BY <1>1, SpokenKeeps
<1>3. /\ sent' \in Seq(Messages) /\ Len(sent) \in Nat /\ Len(sent') = Len(sent) + 1
      /\ DOMAIN sent = 1..Len(sent)
      /\ \A i \in DOMAIN sent : sent'[i] = sent[i]
      /\ \A k, u : \A i \in Said(k, u)' :
            i \in Said(k, u) \/ (i = Len(sent) + 1 /\ k = kind /\ u = s)
  BY <1>1, Speaking
<1>4. /\ status' = [u \in Sessions |-> status'[u]] /\ status'[s] = st
      /\ \A u \in Sessions : u # s => status'[u] = status[u]
  BY <1>1 DEF ChatType
<1>5. ChatType'
  <2>1. \A u \in Sessions : cursor[u] <= Len(sent')
    BY <1>1, <1>3, Ranges
  <2>2. QED
    BY <1>1, <1>3, <1>4, <2>1 DEF ChatType
<1>6. ASSUME NEW u \in Sessions \ lagged', NEW j \in Said("joined", u)', status'[u] = "in"
      PROVE  Trails(u, j)'
  <2>1. CASE j = Len(sent) + 1
    <3>1. cursor'[u] \in Nat /\ cursor'[u] < j /\ j \in Nat
      BY <1>1, <1>3, <2>1, Ranges
    <3>2. QED
      BY <3>1, AheadFollows
  <2>2. CASE j \in Said("joined", u)
    <3>1. j \in Nat \ {0}
      BY <1>3, <2>2 DEF Said
    <3>2. status[u] = "in"
      <4>1. CASE u # s
        BY <1>4, <1>6, <4>1
      <4>2. CASE u = s
        <5>1. status[u] \in Here
          BY <2>2 DEF Hall, PresenceHonest, Here
        <5>2. kind # "joined" /\ kind # "left"
          BY <1>4, <1>6, <4>2, <5>1 DEF Here
        <5>3. QED
          BY <4>2, <5>2
      <4>3. QED
        BY <4>1, <4>2
    <3>3. Trails(u, j)
      BY <1>6, <2>2, <3>2 DEF Hall, Follows
    <3>4. QED
      BY <1>1, <1>3, <3>1, <3>3, StillFollows
  <2>3. QED
    BY <1>3, <1>6, <2>1, <2>2
<1>7. Follows'
  BY <1>6 DEF Follows
<1>8. QED
  BY <1>2, <1>5, <1>7 DEF Hall

\* A session that subscribes has not spoken.
LEMMA EnterKeeps ==
    ASSUME Hall, NEW s \in Sessions, Enter(s)
    PROVE  Hall'
<1>1. /\ status[s] = "out" /\ status' = [status EXCEPT ![s] = "subscribed"]
      /\ sent' = sent /\ cursor' = [cursor EXCEPT ![s] = Len(sent)]
      /\ shown' = shown /\ lagged' = lagged
  BY DEF Enter, Subscribe, Become
<1>2. ("subscribed" \in Here <=> status[s] \in Here) /\ ("subscribed" = "gone" <=> status[s] = "gone")
  BY <1>1 DEF Here
<1>3. /\ Heralded' /\ PresenceHonest' /\ status' = [u \in Sessions |-> status'[u]]
      /\ \A u \in Sessions : u # s => status'[u] = status[u]
      /\ status'[s] = "subscribed"
  BY <1>1, <1>2, SilentKeeps
<1>4. /\ cursor' \in [Receivers -> Nat] /\ \A u \in Sessions : cursor'[u] <= Len(sent')
      /\ \A u \in Sessions : u # s => cursor'[u] = cursor[u]
  <2>1. ChatType /\ Len(sent) \in Nat /\ Len(sent) <= Len(sent)
    BY Ranges DEF Hall
  <2>2. QED
    BY <1>1, <2>1, CursorMoves
<1>5. ChatType'
  BY <1>1, <1>3, <1>4 DEF Hall, ChatType
<1>6. ASSUME NEW u \in Sessions \ lagged', NEW j \in Said("joined", u)', status'[u] = "in"
      PROVE  Trails(u, j)'
  <2>1. u # s /\ status[u] = "in" /\ j \in Said("joined", u)
    BY <1>1, <1>3, <1>6 DEF Said
  <2>2. Trails(u, j) /\ j \in Nat \ {0} /\ ChatType
    BY <1>1, <1>6, <2>1, Ranges DEF Hall, Follows
  <2>3. QED
    BY <1>1, <1>4, <2>1, <2>2, StillFollows
<1>7. QED
  BY <1>3, <1>5, <1>6 DEF Hall, Follows

\* The loop ends, with a message read that the client is not sent, or with none.
LEMMA LeaveKeeps ==
    ASSUME Hall, NEW s \in Sessions, Close(s) \/ RelayFails(s)
    PROVE  Hall'
<1>1. /\ status[s] = "in" /\ status' = [status EXCEPT ![s] = "leaving"]
      /\ sent' = sent /\ shown' = shown /\ lagged' = lagged
      /\ cursor' = cursor \/ (Ready(s) /\ cursor' = [cursor EXCEPT ![s] = @ + 1])
  BY DEF Close, RelayFails, Advance, Become, channelVars
<1>2. ("leaving" \in Here <=> status[s] \in Here) /\ ("leaving" = "gone" <=> status[s] = "gone")
  BY <1>1 DEF Here
<1>3. /\ Heralded' /\ PresenceHonest' /\ status' = [u \in Sessions |-> status'[u]]
      /\ \A u \in Sessions : u # s => status'[u] = status[u]
      /\ status'[s] = "leaving"
  BY <1>1, <1>2, SilentKeeps
<1>4. /\ cursor' \in [Receivers -> Nat] /\ \A u \in Sessions : cursor'[u] <= Len(sent')
      /\ \A u \in Sessions : u # s => cursor'[u] = cursor[u]
  <2>1. CASE cursor' = cursor
    BY <1>1, <2>1 DEF Hall, ChatType
  <2>2. CASE Ready(s) /\ cursor' = [cursor EXCEPT ![s] = @ + 1]
    <3>1. cursor[s] + 1 \in Nat /\ cursor[s] + 1 <= Len(sent)
      BY <2>2, Ranges DEF Hall, Ready
    <3>2. cursor' = [cursor EXCEPT ![s] = cursor[s] + 1]
      BY <2>2
    <3>3. QED
      BY <1>1, <3>1, <3>2, CursorMoves DEF Hall
  <2>3. QED
    BY <1>1, <2>1, <2>2
<1>5. ChatType'
  BY <1>1, <1>3, <1>4 DEF Hall, ChatType
<1>6. ASSUME NEW u \in Sessions \ lagged', NEW j \in Said("joined", u)', status'[u] = "in"
      PROVE  Trails(u, j)'
  <2>1. u # s /\ status[u] = "in" /\ j \in Said("joined", u)
    BY <1>1, <1>3, <1>6 DEF Said
  <2>2. Trails(u, j) /\ j \in Nat \ {0} /\ ChatType
    BY <1>1, <1>6, <2>1, Ranges DEF Hall, Follows
  <2>3. QED
    BY <1>1, <1>4, <2>1, <2>2, StillFollows
<1>7. QED
  BY <1>3, <1>5, <1>6 DEF Hall, Follows

\* A client is sent the message it has come to, or is told that it lags.
LEMMA RelayKeeps ==
    ASSUME Hall, NEW s \in Sessions, Relay(s)
    PROVE  Hall'
<1>1. status[s] = "in" /\ sent' = sent /\ status' = status /\ ChatType /\ s \in Receivers
  BY DEF Relay, Advance, Skip, Hall
<1>2. Heralded' /\ PresenceHonest'
  BY <1>1 DEF Hall, Heralded, PresenceHonest, Said
<1>3. ASSUME /\ cursor' = [cursor EXCEPT ![s] = cursor'[s]]
             /\ cursor'[s] \in Nat /\ cursor'[s] <= Len(sent)
             /\ shown' \in [Sessions -> Seq(Messages)]
             /\ \A u \in Sessions : u # s => shown'[u] = shown[u]
             /\ lagged \subseteq lagged',
             \A j \in Said("joined", s) : s \notin lagged' => Trails(s, j)'
      PROVE  Hall'
  <2>1. \A u \in Sessions : u # s => cursor'[u] = cursor[u]
    BY <1>1, <1>3, CursorMoves
  <2>2. cursor' \in [Receivers -> Nat] /\ \A u \in Sessions : cursor'[u] <= Len(sent')
    BY <1>1, <1>3, CursorMoves
  <2>3. ChatType'
    BY <1>1, <1>3, <2>1, <2>2 DEF ChatType
  <2>4. ASSUME NEW u \in Sessions \ lagged', NEW j \in Said("joined", u)', status'[u] = "in"
        PROVE  Trails(u, j)'
    <3>1. j \in Said("joined", u)
      BY <1>1 DEF Said
    <3>2. CASE u = s
      BY <1>3, <2>4, <3>1, <3>2
    <3>3. CASE u # s
      <4>1. Trails(u, j)
        BY <1>1, <1>3, <2>4, <3>1 DEF Hall, Follows
      <4>2. QED
        BY <1>1, <1>3, <2>1, <3>3, <4>1 DEF Trails
    <3>4. QED
      BY <3>2, <3>3
  <2>5. QED
    BY <1>2, <2>3, <2>4 DEF Hall, Follows
<1>4. CASE Ready(s) /\ Advance(s) /\ shown' = [shown EXCEPT ![s] = Append(@, Wanted(s))] /\ UNCHANGED lagged
  <2> DEFINE c == cursor[s]
             d == Len(shown[s])
  <2>1. /\ c \in Nat /\ c + 1 <= Len(sent) /\ Len(sent) \in Nat /\ cursor' = [cursor EXCEPT ![s] = c + 1]
        /\ cursor'[s] = c + 1
    <3>1. c \in Nat /\ c <= Len(sent) /\ Len(sent) \in Nat /\ c < Len(sent)
      BY <1>1, <1>4, Ranges DEF Ready
    <3>2. cursor' = [cursor EXCEPT ![s] = c + 1] /\ c + 1 \in Nat /\ c + 1 <= Len(sent)
      BY <1>4, <3>1 DEF Advance
    <3>3. QED
      BY <1>1, <3>1, <3>2, CursorMoves
  <2>2. sent[c + 1] \in Messages /\ shown[s] \in Seq(Messages) /\ d \in Nat
    BY <1>1, <2>1 DEF ChatType
  <2>3. /\ shown' \in [Sessions -> Seq(Messages)] /\ shown'[s] = Append(shown[s], sent[c + 1])
        /\ \A u \in Sessions : u # s => shown'[u] = shown[u]
    BY <1>1, <1>4, <2>2 DEF ChatType, Wanted
  <2>4. /\ Len(shown'[s]) = d + 1 /\ DOMAIN shown'[s] = 1..(d + 1) /\ DOMAIN shown[s] = 1..d
        /\ shown'[s][d + 1] = sent[c + 1] /\ \A i \in 1..d : shown'[s][i] = shown[s][i]
    BY <2>2, <2>3
  <2>5. ASSUME NEW j \in Said("joined", s), s \notin lagged'
        PROVE  Trails(s, j)'
    <3>1. Trails(s, j) /\ j \in Nat
      BY <1>1, <1>4, <2>5 DEF Hall, Follows, Said, ChatType
    <3>2. SUFFICES ASSUME NEW k \in j..(c + 1)
                   PROVE  /\ (d + 1) - (c + 1) + k \in 1..(d + 1)
                          /\ sent[k] = shown'[s][(d + 1) - (c + 1) + k]
      BY <1>1, <2>1, <2>4 DEF Trails
    <3>3. CASE k = c + 1
      <4>1. (d + 1) - (c + 1) + k = d + 1
        BY <2>1, <2>2, <3>3
      <4>2. QED
        BY <2>2, <2>4, <3>3, <4>1
    <3>4. CASE k # c + 1
      <4>1. k \in j..c /\ (d + 1) - (c + 1) + k = d - c + k
        BY <2>1, <2>2, <3>1, <3>4
      <4>2. d - c + k \in 1..d /\ sent[k] = shown[s][d - c + k]
        BY <2>4, <3>1, <4>1 DEF Trails
      <4>3. d - c + k \in 1..(d + 1)
        BY <2>2, <4>2
      <4>4. QED
        BY <2>4, <4>1, <4>2, <4>3
    <3>5. QED
      BY <3>3, <3>4
  <2>6. cursor' = [cursor EXCEPT ![s] = cursor'[s]] /\ cursor'[s] \in Nat /\ cursor'[s] <= Len(sent)
    <3>1. c + 1 \in Nat
      BY <2>1
    <3> HIDE DEF c
    <3>2. QED
      BY <2>1, <3>1
  <2> HIDE DEF c, d
  <2>7. QED
    BY <1>3, <1>4, <2>3, <2>5, <2>6
<1>5. CASE Lags(s) /\ Skip(s) /\ lagged' = lagged \cup {s} /\ UNCHANGED shown
  <2>1. /\ cursor' = [cursor EXCEPT ![s] = Oldest] /\ cursor'[s] = Oldest
        /\ Oldest \in Nat /\ Oldest <= Len(sent)
    BY <1>1, <1>5 DEF ChatType, Skip, Oldest
  <2>2. QED
    BY <1>1, <1>3, <1>5, <2>1 DEF ChatType
<1>6. QED
  BY <1>4, <1>5 DEF Relay

LEMMA NextChatInv == ChatInv /\ [Next]_vars => ChatInv'
<1>1. SUFFICES ASSUME ChatInv, [Next]_vars, app' = "chat"
               PROVE  Hall'
  BY DEF ChatInv
<1>2. Hall
  BY <1>1 DEF ChatInv, Next, BusStep, ChatStep, vars
<1>3. CASE UNCHANGED vars
  <2>1. sent' = sent /\ cursor' = cursor /\ status' = status /\ shown' = shown /\ lagged' = lagged
    BY <1>3 DEF vars, channelVars, chatVars
  <2>2. ChatType' /\ Heralded'
    BY <1>2, <2>1 DEF Hall, ChatType, Heralded
  <2>3. PresenceHonest'
    BY <1>2, <2>1 DEF Hall, PresenceHonest, Said
  <2>4. Follows'
    BY <1>2, <2>1 DEF Hall, Follows, Trails, Said
  <2>5. QED
    BY <2>2, <2>3, <2>4 DEF Hall
<1>4. ASSUME NEW s \in Sessions, Joined(s) \/ Say(s) \/ Left(s)
      PROVE  Hall'
  <2>1. CASE Joined(s)
    BY <1>2, <2>1, SpeakFollows DEF Joined
  <2>2. CASE Say(s)
    <3>1. status' = [status EXCEPT ![s] = "in"]
      BY <1>2, <2>2 DEF Say, Hall, ChatType
    <3>2. QED
      BY <1>2, <2>2, <3>1, SpeakFollows DEF Say, Become
  <2>3. CASE Left(s)
    BY <1>2, <2>3, SpeakFollows DEF Left
  <2>4. QED
    BY <1>4, <2>1, <2>2, <2>3
<1>5. ASSUME NEW s \in Sessions, Enter(s) \/ Relay(s) \/ RelayFails(s) \/ Close(s)
      PROVE  Hall'
  BY <1>2, <1>5, EnterKeeps, RelayKeeps, LeaveKeeps
<1>6. QED
  BY <1>1, <1>3, <1>4, <1>5 DEF Next, BusStep, ChatStep, ChatNext, Running

\* Who the channel says is here is who is, however a session ends
\* (examples/chat/src/main.rs:139).
THEOREM PresenceIsHonest == Spec => []ChatPresence
<1>1. ChatInv => ChatPresence
  BY DEF ChatInv, Hall, ChatPresence
<1>2. QED
  BY <1>1, InitChatInv, NextChatInv, PTL DEF Spec

\* A sequence is a suffix of another when it agrees with its end.
LEMMA AgreesAtTheEnd ==
    ASSUME NEW S, NEW a \in Seq(S), NEW b \in Seq(S), Len(a) <= Len(b),
           \A i \in 1..Len(a) : a[i] = b[Len(b) - Len(a) + i]
    PROVE  IsSuffix(a, b)
<1> DEFINE p == Reverse(a)
           r == Reverse(b)
<1>1. Len(a) \in Nat /\ Len(b) \in Nat
  OBVIOUS
<1>2. /\ p \in Seq(S) /\ Len(p) = Len(a) /\ \A i \in 1..Len(a) : p[i] = a[Len(a) - i + 1]
      /\ r \in Seq(S) /\ Len(r) = Len(b) /\ \A i \in 1..Len(b) : r[i] = b[Len(b) - i + 1]
  <2>1. \A i \in 1..Len(a) : Len(a) - i + 1 \in 1..Len(a)
    BY <1>1
  <2>2. \A i \in 1..Len(b) : Len(b) - i + 1 \in 1..Len(b)
    BY <1>1
  <2>3. (\A i \in 1..Len(a) : a[i] \in S) /\ (\A i \in 1..Len(b) : b[i] \in S)
    OBVIOUS
  <2>4. p \in [1..Len(a) -> S] /\ r \in [1..Len(b) -> S]
    BY <2>1, <2>2, <2>3 DEF Reverse
  <2>5. QED
    BY <1>1, <2>4 DEF Reverse
<1> HIDE DEF p, r
<1>3. ASSUME NEW i \in 1..Len(a)
      PROVE  p[i] = r[i]
  <2>1. /\ Len(a) - i + 1 \in 1..Len(a) /\ i \in 1..Len(b)
        /\ Len(b) - Len(a) + (Len(a) - i + 1) = Len(b) - i + 1
    BY <1>1
  <2>2. a[Len(a) - i + 1] = b[Len(b) - Len(a) + (Len(a) - i + 1)]
    BY <2>1
  <2>3. QED
    BY <1>2, <2>1, <2>2
<1>4. SubSeq(p, 1, Len(p)) = SubSeq(r, 1, Len(p))
  BY <1>1, <1>2, <1>3
<1>5. QED
  BY <1>1, <1>2, <1>4 DEF IsSuffix, IsPrefix, p, r

\* A client that has not lagged was shown everything from its own "joined" on
\* (examples/chat/src/main.rs:106).
THEOREM NothingMissed == Spec => []ChatShown
<1>1. ChatInv => ChatShown
  <2>1. SUFFICES ASSUME Hall, NEW s \in Sessions \ lagged, NEW j \in Said("joined", s),
                        status[s] = "in"
                 PROVE  IsSuffix(SubSeq(sent, j, cursor[s]), shown[s])
    BY DEF ChatInv, ChatShown, ShownSinceJoined
  <2> DEFINE c == cursor[s]
             b == shown[s]
             a == SubSeq(sent, j, c)
  <2>2. /\ sent \in Seq(Messages) /\ c \in Nat /\ c <= Len(sent) /\ b \in Seq(Messages)
        /\ j \in Nat /\ j >= 1 /\ Trails(s, j)
    <3>1. ChatType /\ Trails(s, j)
      BY <2>1 DEF Hall, Follows
    <3>2. QED
      BY <2>1, <3>1, Ranges DEF ChatType
  <2>3. \A i \in j..c : sent[i] \in Messages
    BY <2>2
  <2>4. /\ a \in Seq(Messages) /\ Len(a) = (IF j <= c THEN c - j + 1 ELSE 0)
        /\ \A i \in 1..(c - j + 1) : a[i] = sent[j + i - 1]
    BY <2>2, <2>3, SubSeqProperties
  <2> HIDE DEF a
  <2>5. Len(a) <= Len(b)
    <3>1. CASE j <= c
      <4>1. Len(b) - c + j \in DOMAIN b
        BY <2>2, <3>1 DEF Trails
      <4>2. QED
        BY <2>2, <2>4, <3>1, <4>1
    <3>2. CASE ~(j <= c)
      BY <2>2, <2>4, <3>2
    <3>3. QED
      BY <3>1, <3>2
  <2>6. ASSUME NEW i \in 1..Len(a)
        PROVE  a[i] = b[Len(b) - Len(a) + i]
    <3>1. j <= c /\ Len(a) = c - j + 1
      BY <2>4, <2>6
    <3>2. i \in 1..(c - j + 1) /\ j + i - 1 \in j..c
      BY <2>2, <3>1
    <3>3. sent[j + i - 1] = b[Len(b) - c + (j + i - 1)]
      BY <2>2, <3>2 DEF Trails
    <3>4. Len(b) - c + (j + i - 1) = Len(b) - Len(a) + i
      <4>1. Len(b) \in Nat /\ c \in Nat /\ j \in Nat /\ i \in Nat
        BY <2>2, <3>2
      <4> HIDE DEF b, c
      <4>2. QED
        BY <3>1, <4>1
    <3>5. QED
      BY <2>4, <3>2, <3>3, <3>4
  <2>7. QED
    <3> HIDE DEF b, c
    <3>1. IsSuffix(a, b)
      BY <2>2, <2>4, <2>5, <2>6, AgreesAtTheEnd
    <3>2. QED
      BY <3>1 DEF a, b, c
<1>2. QED
  BY <1>1, InitChatInv, NextChatInv, PTL DEF Spec


-----------------------------------------------------------------------------
(* Types.                                                                  *)

Statuses == {"out", "subscribed", "in", "leaving", "gone"}

\* Cursors are inside the channel, whoever uses it.
Inside ==
    /\ cursor \in [Receivers -> 0..Len(sent)]
    /\ status \in [Sessions -> Statuses]
    /\ lagged \subseteq Sessions /\ texts \in 0..MaxTexts

LEMMA CursorsInside ==
    ASSUME cursor \in [Receivers -> 0..Len(sent)], NEW S, sent \in Seq(S),
           \/ \E v : Send(v)
           \/ \E r \in Receivers : Subscribe(r) \/ (Ready(r) /\ Advance(r)) \/ Skip(r)
           \/ UNCHANGED channelVars
    PROVE  cursor' \in [Receivers -> 0..Len(sent')]
<1>1. Len(sent) \in Nat /\ \A r \in Receivers : cursor[r] \in 0..Len(sent)
  OBVIOUS
<1>2. ASSUME NEW v, Send(v)
      PROVE  cursor' \in [Receivers -> 0..Len(sent')]
  <2>1. Len(sent') = Len(sent) + 1 /\ cursor' = cursor
    BY <1>2 DEF Send
  <2>2. 0..Len(sent) \subseteq 0..Len(sent')
    BY <1>1, <2>1
  <2>3. QED
    BY <2>1, <2>2
<1>3. ASSUME NEW r \in Receivers, NEW c \in 0..Len(sent), cursor' = [cursor EXCEPT ![r] = c], sent' = sent
      PROVE  cursor' \in [Receivers -> 0..Len(sent')]
  BY <1>3
<1>4. ASSUME NEW r \in Receivers, Subscribe(r) \/ (Ready(r) /\ Advance(r)) \/ Skip(r)
      PROVE  cursor' \in [Receivers -> 0..Len(sent')]
  <2>1. CASE Subscribe(r)
    BY <1>1, <1>3, <2>1 DEF Subscribe
  <2>2. CASE Ready(r) /\ Advance(r)
    <3>1. cursor[r] + 1 \in 0..Len(sent)
      BY <1>1, <2>2 DEF Ready
    <3>2. QED
      BY <1>3, <2>2, <3>1 DEF Advance
  <2>3. CASE Skip(r)
    <3>1. Oldest \in 0..Len(sent)
      BY <1>1 DEF Oldest
    <3>2. QED
      BY <1>3, <2>3, <3>1 DEF Skip
  <2>4. QED
    BY <1>4, <2>1, <2>2, <2>3
<1>5. QED
  BY <1>2, <1>4 DEF channelVars

LEMMA NextInside == Inside /\ BusInv /\ ChatInv /\ [Next]_vars => Inside'
<1>1. SUFFICES ASSUME Inside, BusInv, ChatInv, [Next]_vars
               PROVE  Inside'
  OBVIOUS
<1>2. CASE BusStep
  <2>1. sent \in Seq(Nat) /\ UNCHANGED chatVars
    BY <1>1, <1>2 DEF BusInv, BusLine, BusStep
  <2>2. \/ \E v : Send(v)
        \/ \E r \in Receivers : Subscribe(r) \/ (Ready(r) /\ Advance(r)) \/ Skip(r)
        \/ UNCHANGED channelVars
    BY <1>2 DEF BusStep, BusNext, Emit, Tick, Drain, Publish, Listen, Hear, Disconnect, Log
  <2>3. cursor' \in [Receivers -> 0..Len(sent')]
    BY <1>1, <2>1, <2>2, CursorsInside DEF Inside
  <2>4. QED
    BY <1>1, <2>1, <2>3 DEF Inside, chatVars
<1>3. CASE ChatStep
  <2>1. sent \in Seq(Messages)
    BY <1>1, <1>3 DEF ChatInv, Hall, ChatType, ChatStep
  <2>2. PICK s \in Sessions : Enter(s) \/ Running(s) \/ Say(s) \/ RelayFails(s) \/ Close(s)
    BY <1>3 DEF ChatStep, ChatNext
  <2>3. \/ \E v : Send(v)
        \/ \E r \in Receivers : Subscribe(r) \/ (Ready(r) /\ Advance(r)) \/ Skip(r)
        \/ UNCHANGED channelVars
    <3>1. s \in Receivers
      OBVIOUS
    <3>2. QED
      BY <2>2, <3>1 DEF Enter, Running, Joined, Relay, Left, Say, RelayFails, Close
  <2>4. cursor' \in [Receivers -> 0..Len(sent')]
    BY <1>1, <2>1, <2>3, CursorsInside DEF Inside
  <2>5. status' \in [Sessions -> Statuses]
    BY <1>1, <2>2 DEF Inside, Statuses, Enter, Running, Joined, Relay, Left, Say, RelayFails,
                      Close, Become
  <2>6. lagged' \subseteq Sessions
    BY <1>1, <2>2 DEF Inside, Enter, Running, Joined, Relay, Left, Say, RelayFails, Close
  <2>7. texts' \in 0..MaxTexts
    <3>1. texts' = texts \/ (texts < MaxTexts /\ texts' = texts + 1)
      BY <2>2 DEF Enter, Running, Joined, Relay, Left, Say, RelayFails, Close
    <3>2. QED
      BY <1>1, <3>1 DEF Inside
  <2>8. QED
    BY <2>4, <2>5, <2>6, <2>7 DEF Inside
<1>4. CASE UNCHANGED vars
  BY <1>1, <1>4 DEF vars, channelVars, chatVars, Inside
<1>5. QED
  BY <1>1, <1>2, <1>3, <1>4 DEF Next

\* Every variable keeps its type: a cursor stays inside the channel, the mpsc
\* channel inside its capacity (pulse/memory.rs:38).
THEOREM TypeCorrect == Spec => []TypeOK
<1>1. Init => Inside
  <2>1. SUFFICES ASSUME Init
                 PROVE  Inside
    OBVIOUS
  <2>2. /\ sent = <<>> /\ cursor = [r \in Receivers |-> 0] /\ texts = 0 /\ lagged = {}
        /\ status = [s \in Sessions |-> "out"]
    BY <2>1 DEF Init, BroadcastInit, ChatInit
  <2>3. Len(sent) = 0
    BY <2>2
  <2>4. QED
    BY <2>2, <2>3 DEF Inside, Statuses
<1>2. Inside /\ BusInv => TypeOK
  <2>1. SUFFICES ASSUME Inside, BusInv
                 PROVE  TypeOK
    OBVIOUS
  <2>2. Len(queue) <= (IF reactor = "memory" THEN QueueCapacity ELSE MaxSignals)
    <3>1. Len(queue) \in Nat /\ emitted \in Nat /\ emitted <= MaxSignals
      BY <2>1 DEF BusInv, BusType
    <3>2. CASE app = "bus"
      <4>1. Len(sent) \in Nat /\ Len(sent) + Len(queue) <= emitted
        BY <2>1, <3>2 DEF BusInv, BusLine
      <4>2. QED
        BY <2>1, <3>1, <4>1 DEF BusInv, BusType
    <3>3. CASE app = "chat"
      <4>1. Len(queue) = 0
        BY <2>1, <3>3 DEF BusInv, BusType
      <4>2. QED
        BY <4>1
    <3>4. QED
      BY <2>1, <3>2, <3>3 DEF BusInv, BusType
  <2>3. QED
    BY <2>1, <2>2 DEF BusInv, BusType, Inside, Statuses, TypeOK
<1>3. QED
  BY <1>1, <1>2, InitBusInv, NextBusInv, InitChatInv, NextChatInv, NextInside, PTL DEF Spec

=============================================================================
