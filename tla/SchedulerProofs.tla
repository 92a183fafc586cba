--------------------------- MODULE SchedulerProofs ---------------------------
(***************************************************************************)
(* Proofs about Scheduler, for any nodes, tasks, TTL, batch size and       *)
(* number of failures: no task is lost and none is early, and one task     *)
(* becomes one job while nothing fails and no cycle outlives its lock, and *)
(* otherwise at most one per node and one more per failure.  The invariant *)
(* behind them is about the batch a node works through: what it lists is   *)
(* due, and what it removes was enqueued.                                  *)
(***************************************************************************)
EXTENDS Scheduler, TLAPS, FiniteSetTheorems, SequenceTheorems

USE SchedulerAssumption

-----------------------------------------------------------------------------
(* Sequences of distinct tasks.                                            *)

LEMMA Least ==
    ASSUME NEW S \in SUBSET Nat, S # {}
    PROVE  \E m \in S : \A k \in S : m <= k
<1> DEFINE R == {ss \in Nat \X Nat : ss[1] < ss[2]}
<1>1. IsWellFoundedOn(R, Nat)
  BY NatLessThanWellFounded DEF OpToRel
<1>2. PICK m \in S : \A k \in S : ~(<<k, m>> \in R)
  <2> HIDE DEF R
  <2>1. QED
    BY <1>1, WFMin
<1>3. \A k \in S : ~(k < m)
  <2>1. ASSUME NEW k \in S, k < m
        PROVE  <<k, m>> \in R
    BY <2>1
  <2>2. QED
    BY <1>2, <2>1
<1>4. QED
  BY <1>3

Once(q) == \A i, j \in DOMAIN q : q[i] = q[j] => i = j
Within(q, r) == \A i \in DOMAIN q : \E j \in DOMAIN r : q[i] = r[j]

\* Taking an entry out leaves the others, once each.
LEMMA RemoveOne ==
    ASSUME NEW r \in Seq(Tasks), NEW i \in DOMAIN r
    PROVE  /\ RemoveAt(r, i) \in Seq(Tasks)
           /\ Within(RemoveAt(r, i), r)
           /\ Once(r) => /\ Once(RemoveAt(r, i))
                         /\ \A k \in DOMAIN RemoveAt(r, i) : RemoveAt(r, i)[k] # r[i]
<1> DEFINE q == RemoveAt(r, i)
<1>1. i \in 1..Len(r) /\ Len(r) \in Nat /\ DOMAIN r = 1..Len(r)
  OBVIOUS
<1> DEFINE u == SubSeq(r, 1, i - 1)
           v == SubSeq(r, i + 1, Len(r))
<1>2. u \in Seq(Tasks) /\ Len(u) = i - 1 /\ \A k \in 1..(i - 1) : u[k] = r[k]
  <2>1. \A k \in 1..(i - 1) : r[k] \in Tasks
    BY <1>1
  <2>2. 1 \in Int /\ i - 1 \in Int
    BY <1>1
  <2>3. QED
    BY <1>1, <2>1, <2>2, SubSeqProperties
<1>3. v \in Seq(Tasks) /\ Len(v) = Len(r) - i /\ \A k \in 1..(Len(r) - i) : v[k] = r[i + k]
  <2>1. \A k \in (i + 1)..Len(r) : r[k] \in Tasks
    BY <1>1
  <2>2. i + 1 \in Int /\ Len(r) \in Int
    BY <1>1
  <2>3. /\ v \in Seq(Tasks) /\ Len(v) = IF i + 1 <= Len(r) THEN Len(r) - (i + 1) + 1 ELSE 0
        /\ \A k \in 1..(Len(r) - (i + 1) + 1) : v[k] = r[(i + 1) + k - 1]
    BY <2>1, <2>2, SubSeqProperties
  <2> HIDE DEF v
  <2>4. Len(v) = Len(r) - i
    BY <1>1, <2>3
  <2>5. \A k \in 1..(Len(r) - i) : v[k] = r[i + k]
    <3>1. ASSUME NEW k \in 1..(Len(r) - i)
          PROVE  k \in 1..(Len(r) - (i + 1) + 1) /\ (i + 1) + k - 1 = i + k
      BY <1>1
    <3>2. QED
      BY <2>3, <3>1
  <2>6. QED
    BY <2>3, <2>4, <2>5
<1> HIDE DEF u, v
<1>4. /\ q \in Seq(Tasks) /\ DOMAIN q = 1..(Len(r) - 1)
      /\ \A k \in 1..(Len(r) - 1) : q[k] = IF k < i THEN r[k] ELSE r[k + 1]
  <2>1. q = u \o v
    BY DEF RemoveAt, u, v
  <2>2. /\ q \in Seq(Tasks) /\ Len(q) = Len(u) + Len(v)
        /\ \A k \in 1..(Len(u) + Len(v)) : q[k] = IF k <= Len(u) THEN u[k] ELSE v[k - Len(u)]
    BY <1>2, <1>3, <2>1, ConcatProperties
  <2> HIDE DEF q
  <2>3. Len(u) + Len(v) = Len(r) - 1
    BY <1>1, <1>2, <1>3
  <2>4. ASSUME NEW k \in 1..(Len(r) - 1)
        PROVE  q[k] = IF k < i THEN r[k] ELSE r[k + 1]
    <3>1. CASE k < i
      BY <1>1, <1>2, <2>2, <2>3, <3>1
    <3>2. CASE ~(k < i)
      <4>1. q[k] = v[k - (i - 1)]
        BY <1>1, <1>2, <2>2, <2>3, <3>2
      <4>2. k - (i - 1) \in 1..(Len(r) - i) /\ i + (k - (i - 1)) = k + 1
        BY <1>1, <3>2
      <4>3. QED
        BY <1>3, <3>2, <4>1, <4>2
    <3>3. QED
      BY <3>1, <3>2
  <2>5. QED
    BY <2>2, <2>3, <2>4
<1> HIDE DEF q
<1>5. \A k \in DOMAIN q : \E j \in DOMAIN r : q[k] = r[j]
  BY <1>1, <1>4
<1> DEFINE at(k) == IF k < i THEN k ELSE k + 1
<1>6. \A k \in DOMAIN q : at(k) \in DOMAIN r /\ at(k) # i /\ q[k] = r[at(k)]
  BY <1>1, <1>4
<1>7. \A k, l \in DOMAIN q : at(k) = at(l) => k = l
  BY <1>1, <1>4
<1> HIDE DEF at
<1>8. ASSUME Once(r)
      PROVE  Once(q) /\ \A k \in DOMAIN q : q[k] # r[i]
  BY <1>6, <1>7, <1>8 DEF Once
<1>9. QED
  BY <1>4, <1>5, <1>8 DEF q, Within

LEMMA TakeFirst ==
    ASSUME NEW r \in Seq(Tasks), r # <<>>
    PROVE  /\ Tail(r) \in Seq(Tasks) /\ Head(r) \in Tasks /\ Head(r) = r[1] /\ 1 \in DOMAIN r
           /\ Within(Tail(r), r)
           /\ Once(r) => Once(Tail(r)) /\ \A i \in DOMAIN Tail(r) : Tail(r)[i] # Head(r)
<1>1. /\ Len(r) \in Nat \ {0} /\ DOMAIN r = 1..Len(r)
      /\ Tail(r) \in Seq(Tasks) /\ DOMAIN Tail(r) = 1..(Len(r) - 1)
      /\ \A k \in 1..(Len(r) - 1) : Tail(r)[k] = r[k + 1]
      /\ Head(r) = r[1]
  OBVIOUS
<1>2. Within(Tail(r), r)
  BY <1>1 DEF Within
<1>3. ASSUME Once(r)
      PROVE  Once(Tail(r)) /\ \A i \in DOMAIN Tail(r) : Tail(r)[i] # Head(r)
  BY <1>1, <1>3 DEF Once
<1>4. QED
  BY <1>1, <1>2, <1>3

\* What is listed is due, and each task once.
LEMMA Listed ==
    ASSUME TypeOK, NEW q \in DueLists
    PROVE  q \in Seq(Tasks) /\ Once(q) /\ \A i \in DOMAIN q : q[i] \in schedule /\ due[q[i]] = 0
<1>1. DueTasks \subseteq Tasks /\ IsFiniteSet(DueTasks)
  BY FS_Subset DEF TypeOK, DueTasks
<1>2. Cardinality(DueTasks) \in Nat
  BY <1>1, FS_CardinalityType
<1>3. PICK len \in Nat : q \in [1..len -> DueTasks] /\ IsInjective(q)
  BY <1>2 DEF DueLists
<1>4. q \in Seq(Tasks)
  BY <1>1, <1>3
<1>5. QED
  BY <1>3, <1>4 DEF Once, IsInjective, DueTasks

-----------------------------------------------------------------------------
(* The batches.                                                            *)

\* What may still be enqueued, or was: due, and schedule_at was called.
Ripe(t) == due[t] = 0 /\ call[t] # "none"

\* Where the loop of a node stands, and its batch.
Cyc(l, b) ==
    /\ l \in PcStates /\ b \in Seq(Tasks) /\ Once(b)
    /\ l \in {"sleep", "get", "extend", "list", "down"} => b = <<>>
    /\ l \in {"enqueue", "ack"} => b # <<>>
    /\ \A i \in DOMAIN b : Ripe(b[i])
    /\ l = "ack" => copies[Head(b)] > 0

Known ==
    /\ \A t \in schedule : call[t] # "none"
    /\ \A t \in Tasks : copies[t] > 0 => Ripe(t)

SInv == TypeOK /\ (\A n \in Nodes : Cyc(pc[n], batch[n])) /\ Known /\ ScheduledNotLost

LEMMA InitSInv == Init => SInv
<1>1. SUFFICES ASSUME Init
               PROVE  SInv
  OBVIOUS
<1>2. <<>> \in Seq(Tasks) /\ Once(<<>>) /\ \A i \in DOMAIN <<>> : Ripe(<<>>[i])
  BY DEF Once
<1>3. "sleep" \in PcStates
  BY DEF PcStates
<1>4. \A n \in Nodes : Cyc(pc[n], batch[n])
  BY <1>1, <1>2, <1>3 DEF Init, Cyc
<1>5. TypeOK
  <2>1. 0 \in 0..LeaderTTL /\ 0 \in 0..MaxDelay
    OBVIOUS
  <2>2. Corrupt \subseteq Tasks /\ copies \in [Tasks -> Nat] /\ due \in [Tasks -> 0..MaxDelay]
    BY <1>1, <2>1 DEF Init
  <2>3. call \in [Tasks -> {"none", "ok", "failed"}]
    BY <1>1 DEF Init
  <2>4. pc \in [Nodes -> PcStates] /\ batch \in [Nodes -> Seq(Tasks)]
    BY <1>1, <1>2, <1>3 DEF Init
  <2>5. QED
    BY <1>1, <2>1, <2>2, <2>3, <2>4 DEF Init, TypeOK
<1>6. Known /\ ScheduledNotLost
  BY <1>1 DEF Init, Known, ScheduledNotLost, Ripe
<1>7. QED
  BY <1>4, <1>5, <1>6 DEF SInv

\* What is ripe stays so, and copies are never taken back.
Ripens ==
    /\ \A t \in Tasks : Ripe(t) => Ripe(t)'
    /\ \A t \in Tasks : copies[t] > 0 => copies'[t] > 0

LEMMA CycKept ==
    ASSUME NEW l, NEW b, Cyc(l, b), Ripens
    PROVE  Cyc(l, b)'
<1>1. \A i \in DOMAIN b : b[i] \in Tasks
  BY DEF Cyc
<1>2. l = "ack" => Head(b) \in Tasks
  BY DEF Cyc
<1>3. QED
  BY <1>1, <1>2 DEF Cyc, Ripens

\* A step of one node: the others' cycles stay as they are.
LEMMA NodeStep ==
    ASSUME SInv, NEW n \in Nodes, NEW l, NEW b, Cyc(l, b)', Ripens,
           pc' = [pc EXCEPT ![n] = l], batch' = [batch EXCEPT ![n] = b],
           leader' \in Nodes \cup {Free, Gone}, ttl' \in 0..LeaderTTL, schedule' \subseteq Tasks,
           due' = due, call' = call, copies' \in [Tasks -> Nat],
           overlapped' \in BOOLEAN, failures' \in Nat
    PROVE  TypeOK' /\ \A m \in Nodes : Cyc(pc[m], batch[m])'
<1>1. /\ pc'[n] = l /\ batch'[n] = b
      /\ \A m \in Nodes : m # n => pc'[m] = pc[m] /\ batch'[m] = batch[m]
  BY DEF SInv, TypeOK
<1>2. ASSUME NEW m \in Nodes
      PROVE  Cyc(pc[m], batch[m])'
  <2>1. CASE m = n
    BY <1>1, <2>1
  <2>2. CASE m # n
    <3>1. PICK c, a : c = pc[m] /\ a = batch[m] /\ c = pc'[m] /\ a = batch'[m]
      BY <1>1, <2>2
    <3>2. Cyc(c, a)'
      BY <3>1, CycKept DEF SInv
    <3>3. QED
      BY <3>1, <3>2
  <2>3. QED
    BY <2>1, <2>2
<1>3. l \in PcStates /\ b \in Seq(Tasks)
  BY DEF Cyc
<1>4. TypeOK'
  BY <1>3 DEF SInv, TypeOK
<1>5. QED
  BY <1>2, <1>4

\* The loop went on, or its command's reply was lost.
LEMMA Turns ==
    ASSUME TypeOK, NEW n \in Nodes, NEW l, NEW b, Continue(n, l, b) \/ Proceed(n, l, b)
    PROVE  \E k, a : /\ pc' = [pc EXCEPT ![n] = k] /\ batch' = [batch EXCEPT ![n] = a]
                     /\ failures' \in Nat
                     /\ \/ k = l /\ a = b /\ failures' = failures
                        \/ k = "sleep" /\ a = <<>> /\ failures' # 0
<1>1. failures \in Nat
  BY DEF TypeOK
<1> DEFINE On == pc' = [pc EXCEPT ![n] = l] /\ batch' = [batch EXCEPT ![n] = b] /\ failures' = failures
           Off == /\ pc' = [pc EXCEPT ![n] = "sleep"] /\ batch' = [batch EXCEPT ![n] = <<>>]
                  /\ failures' = failures + 1
<1>2. On \/ Off
  BY DEF Continue, Proceed, Fault, NoFault
<1>3. CASE On
  BY <1>1, <1>3
<1>4. CASE Off
  <2>1. failures' \in Nat /\ failures' # 0
    BY <1>1, <1>4
  <2>2. pc' = [pc EXCEPT ![n] = "sleep"] /\ batch' = [batch EXCEPT ![n] = <<>>]
    BY <1>4
  <2>3. QED
    BY <2>1, <2>2, Zenon
<1>5. QED
  BY <1>2, <1>3, <1>4

LEMMA Asleep == Cyc("sleep", <<>>) /\ Cyc("down", <<>>) /\ Cyc("sleep", <<>>)' /\ Cyc("down", <<>>)'
<1>1. <<>> \in Seq(Tasks) /\ Once(<<>>) /\ DOMAIN <<>> = {}
  BY DEF Once
<1>2. "sleep" \in PcStates /\ "down" \in PcStates
  BY DEF PcStates
<1>3. QED
  BY <1>1, <1>2 DEF Cyc

\* A turn of a node that does not add to the schedule, and takes out only what
\* is corrupt or was enqueued.
LEMMA TurnKeeps ==
    ASSUME SInv, NEW n \in Nodes, NEW l, NEW b, Continue(n, l, b) \/ Proceed(n, l, b),
           Cyc(l, b)', due' = due, call' = call, copies' \in [Tasks -> Nat],
           \A t \in Tasks : copies[t] > 0 => copies'[t] > 0,
           \A t \in Tasks : copies'[t] > 0 => Ripe(t),
           leader' \in Nodes \cup {Free, Gone}, ttl' \in 0..LeaderTTL, overlapped' \in BOOLEAN,
           schedule' \subseteq schedule,
           \A t \in schedule \ schedule' : t \in Corrupt \/ copies'[t] > 0
    PROVE  SInv'
<1>1. PICK k, a : /\ pc' = [pc EXCEPT ![n] = k] /\ batch' = [batch EXCEPT ![n] = a]
                  /\ failures' \in Nat
                  /\ \/ k = l /\ a = b /\ failures' = failures
                     \/ k = "sleep" /\ a = <<>> /\ failures' # 0
  BY Turns DEF SInv
<1>2. Cyc(k, a)'
  BY <1>1, Asleep
<1>3. Ripens
  BY DEF Ripens, Ripe
<1>4. TypeOK' /\ \A m \in Nodes : Cyc(pc[m], batch[m])'
  <2>1. schedule' \subseteq Tasks
    BY DEF SInv, TypeOK
  <2>2. QED
    BY <1>1, <1>2, <1>3, <2>1, NodeStep
<1>5. Known'
  BY DEF SInv, Known, Ripe
<1>6. ScheduledNotLost'
  BY DEF SInv, ScheduledNotLost, TypeOK
<1>7. QED
  BY <1>4, <1>5, <1>6 DEF SInv

\* A turn that leaves the schedule and the copies alone.
LEMMA QuietTurn ==
    ASSUME SInv, NEW n \in Nodes, NEW l, NEW b, Continue(n, l, b) \/ Proceed(n, l, b),
           Cyc(l, b), UNCHANGED <<taskVars, copies>>,
           leader' \in Nodes \cup {Free, Gone}, ttl' \in 0..LeaderTTL, overlapped' \in BOOLEAN
    PROVE  SInv'
<1>1. schedule' = schedule /\ due' = due /\ call' = call /\ copies' = copies
  BY DEF taskVars
<1>2. Ripens
  BY <1>1 DEF Ripens, Ripe
<1>3. Cyc(l, b)'
  BY <1>2, CycKept
<1>4. copies' \in [Tasks -> Nat] /\ \A t \in Tasks : copies'[t] > 0 => Ripe(t)
  BY <1>1 DEF SInv, TypeOK, Known
<1>5. QED
  BY <1>1, <1>3, <1>4, TurnKeeps

\* The lock keeps its type.
LEMMA LockType ==
    ASSUME SInv, UNCHANGED lockVars \/ Expire
    PROVE  leader' \in Nodes \cup {Free, Gone} /\ ttl' \in 0..LeaderTTL
BY DEF SInv, TypeOK, lockVars, Expire

LEMMA EmptyBatch == \A l \in {"sleep", "get", "extend", "list"} : Cyc(l, <<>>)
<1>1. <<>> \in Seq(Tasks) /\ Once(<<>>) /\ DOMAIN <<>> = {}
  BY DEF Once
<1>2. QED
  BY <1>1 DEF Cyc, PcStates

LEMMA WatchType == (Watch \/ overlapped' = overlapped) /\ TypeOK => overlapped' \in BOOLEAN
<1>1. CASE overlapped' = overlapped
  BY <1>1 DEF TypeOK
<1>2. CASE Watch
  BY <1>2 DEF Watch
<1>3. QED
  BY <1>1, <1>2

LEMMA LockStepKeeps ==
    ASSUME SInv, NEW n \in Nodes, SetNx(n) \/ GetLeader(n) \/ Extend(n) \/ Restart(n)
    PROVE  SInv'
<1>1. PICK l \in {"sleep", "get", "extend", "list"} : Continue(n, l, <<>>) \/ Proceed(n, l, <<>>)
  BY DEF SetNx, GetLeader, Extend, Restart
<1>2. Cyc(l, <<>>)
  BY EmptyBatch
<1>3. UNCHANGED <<taskVars, copies>> /\ overlapped' \in BOOLEAN
  BY WatchType DEF SetNx, GetLeader, Extend, Restart, SInv
<1>4. leader' \in Nodes \cup {Free, Gone} /\ ttl' \in 0..LeaderTTL
  <2>1. CASE SetNx(n) /\ leader = Free
    <3>1. leader' = n /\ ttl' = LeaderTTL
      BY <2>1 DEF SetNx
    <3>2. QED
      BY <3>1
  <2>2. CASE ~(SetNx(n) /\ leader = Free)
    BY <2>2, LockType DEF SetNx, GetLeader, Extend, Restart
  <2>3. QED
    BY <2>1, <2>2
<1>5. QED
  BY <1>1, <1>2, <1>3, <1>4, QuietTurn

LEMMA ListKeeps ==
    ASSUME SInv, NEW n \in Nodes, List(n)
    PROVE  SInv'
<1>1. PICK q \in DueLists : Proceed(n, "parse", q)
  BY DEF List
<1>2. q \in Seq(Tasks) /\ Once(q) /\ \A i \in DOMAIN q : q[i] \in schedule /\ due[q[i]] = 0
  BY Listed DEF SInv
<1>3. Cyc("parse", q)
  BY <1>2 DEF Cyc, PcStates, Ripe, SInv, Known
<1>4. UNCHANGED <<taskVars, copies>> /\ overlapped' \in BOOLEAN /\ UNCHANGED lockVars
  BY DEF List, SInv, TypeOK
<1>5. QED
  BY <1>1, <1>3, <1>4, QuietTurn, LockType

\* The batch of a cycle goes on to a step that is not "ack".
LEMMA SameBatch ==
    ASSUME SInv, NEW n \in Nodes, NEW l \in {"parse", "sleep", "enqueue", "renewGet", "renewExpire"},
           l = "sleep" => batch[n] = <<>>, l = "enqueue" => batch[n] # <<>>
    PROVE  Cyc(l, batch[n])
BY DEF SInv, Cyc, PcStates

LEMMA RenewKeeps ==
    ASSUME SInv, NEW n \in Nodes, RenewGet(n) \/ RenewExpire(n)
    PROVE  SInv'
<1>1. PICK l \in {"sleep", "enqueue", "renewExpire"} :
         /\ Continue(n, l, batch[n]) \/ Proceed(n, l, batch[n])
         /\ l = "sleep" => batch[n] = <<>>
         /\ l = "enqueue" => batch[n] # <<>>
  BY DEF RenewGet, RenewExpire, NextTask
<1>2. Cyc(l, batch[n])
  BY <1>1, SameBatch
<1>3. UNCHANGED <<taskVars, copies>> /\ overlapped' \in BOOLEAN
  BY DEF RenewGet, RenewExpire, SInv, TypeOK
<1>4. UNCHANGED lockVars \/ Expire
  BY DEF RenewGet, RenewExpire
<1>5. QED
  BY <1>1, <1>2, <1>3, <1>4, QuietTurn, LockType

\* The first corrupt entry of a batch.
Junk(n) == {i \in DOMAIN batch[n] : batch[n][i] \in Corrupt}
FirstJunk(n) == CHOOSE i \in Junk(n) : \A k \in Junk(n) : i <= k

LEMMA FirstJunkIs ==
    ASSUME SInv, NEW n \in Nodes, Junk(n) # {}
    PROVE  FirstJunk(n) \in DOMAIN batch[n] /\ batch[n][FirstJunk(n)] \in Corrupt
<1>1. Junk(n) \subseteq Nat
  BY DEF Junk, SInv, TypeOK
<1>2. \E i \in Junk(n) : \A k \in Junk(n) : i <= k
  BY <1>1, Least
<1>3. FirstJunk(n) \in Junk(n)
  BY <1>2 DEF FirstJunk
<1>4. QED
  BY <1>3 DEF Junk

LEMMA ParseKeeps ==
    ASSUME SInv, NEW n \in Nodes, Parse(n)
    PROVE  SInv'
<1>1. /\ due' = due /\ call' = call /\ copies' = copies /\ overlapped' = overlapped
      /\ UNCHANGED lockVars
  BY DEF Parse
<1>2. batch[n] \in Seq(Tasks) /\ Cyc(pc[n], batch[n]) /\ pc[n] = "parse"
  BY DEF SInv, TypeOK, Parse
<1>3. CASE Junk(n) = {}
  <2>1. /\ Proceed(n, IF batch[n] = <<>> THEN "sleep" ELSE "enqueue", batch[n])
        /\ UNCHANGED <<taskVars, copies>>
    BY <1>1, <1>3 DEF Parse, Junk, taskVars
  <2>2. PICK l \in {"sleep", "enqueue"} :
           /\ Proceed(n, l, batch[n])
           /\ l = "sleep" => batch[n] = <<>>
           /\ l = "enqueue" => batch[n] # <<>>
    BY <2>1
  <2>3. Cyc(l, batch[n])
    BY <2>2, SameBatch
  <2>4. QED
    BY <1>1, <2>1, <2>2, <2>3, QuietTurn, LockType DEF SInv, TypeOK
<1>4. CASE Junk(n) # {}
  <2>1. PICK i, q : i = FirstJunk(n) /\ q = RemoveAt(batch[n], i)
    OBVIOUS
  <2>2. schedule' = schedule \ {batch[n][i]} /\ Continue(n, "parse", q)
    BY <1>4, <2>1 DEF Parse, Junk, FirstJunk
  <2>3. i \in DOMAIN batch[n] /\ batch[n][i] \in Corrupt
    BY <1>4, <2>1, FirstJunkIs
  <2>4. /\ q \in Seq(Tasks) /\ Within(q, batch[n]) /\ Once(q)
    BY <1>2, <2>1, <2>3, RemoveOne DEF Cyc
  <2>5. \A k \in DOMAIN q : Ripe(q[k])
    BY <1>2, <2>4 DEF Within, Cyc
  <2>6. Cyc("parse", q)
    BY <2>4, <2>5 DEF Cyc, PcStates
  <2>7. Ripens
    BY <1>1 DEF Ripens, Ripe
  <2>8. Cyc("parse", q)'
    BY <2>6, <2>7, CycKept
  <2>9. copies' \in [Tasks -> Nat] /\ \A t \in Tasks : copies'[t] > 0 => Ripe(t)
    BY <1>1 DEF SInv, TypeOK, Known
  <2>10. leader' \in Nodes \cup {Free, Gone} /\ ttl' \in 0..LeaderTTL /\ overlapped' \in BOOLEAN
    BY <1>1, LockType DEF SInv, TypeOK
  <2>11. schedule' \subseteq schedule /\ \A t \in schedule \ schedule' : t \in Corrupt
    BY <2>2, <2>3
  <2>12. QED
    BY <1>1, <2>2, <2>8, <2>9, <2>10, <2>11, TurnKeeps
<1>5. QED
  BY <1>3, <1>4

\* The task at the head of the batch is ripe; it becomes a job.
LEMMA EnqueueKeeps ==
    ASSUME SInv, NEW n \in Nodes, Enqueue(n)
    PROVE  SInv'
<1>1. Cyc("enqueue", batch[n])
  BY DEF SInv, Enqueue
<1>2. PICK b, h : b = batch[n] /\ h = Head(batch[n])
  OBVIOUS
<1>3. b \in Seq(Tasks) /\ b # <<>> /\ h \in Tasks /\ h = b[1] /\ 1 \in DOMAIN b /\ Ripe(h)
  BY <1>1, <1>2, TakeFirst DEF Cyc
<1>4. /\ copies' = [copies EXCEPT ![h] = copies[h] + 1] /\ Continue(n, "ack", b)
      /\ UNCHANGED <<lockVars, taskVars, overlapped>>
  BY <1>2 DEF Enqueue
<1>5. /\ copies \in [Tasks -> Nat] /\ copies' \in [Tasks -> Nat]
      /\ \A t \in Tasks : copies'[t] = IF t = h THEN copies[h] + 1 ELSE copies[t]
  BY <1>3, <1>4 DEF SInv, TypeOK
<1>6. copies'[h] > 0 /\ \A t \in Tasks : copies[t] > 0 => copies'[t] > 0
  BY <1>3, <1>5
<1>7. schedule' = schedule /\ due' = due /\ call' = call
  BY <1>4 DEF taskVars
<1>8. \A t \in Tasks : copies'[t] > 0 => Ripe(t)
  BY <1>3, <1>5 DEF SInv, Known
<1>9. Cyc("ack", b)'
  BY <1>1, <1>2, <1>6, <1>7 DEF Cyc, PcStates, Ripe
<1>10. QED
  BY <1>4, <1>5, <1>6, <1>7, <1>8, <1>9, TurnKeeps, LockType DEF SInv, TypeOK

\* What is taken out of the schedule was enqueued.
LEMMA AckKeeps ==
    ASSUME SInv, NEW n \in Nodes, AckScheduled(n)
    PROVE  SInv'
<1>1. Cyc("ack", batch[n])
  BY DEF SInv, AckScheduled
<1>2. PICK b, h : b = batch[n] /\ h = Head(batch[n])
  OBVIOUS
<1>3. /\ b \in Seq(Tasks) /\ b # <<>> /\ Tail(b) \in Seq(Tasks) /\ Within(Tail(b), b)
      /\ Once(Tail(b)) /\ copies[h] > 0
  BY <1>1, <1>2, TakeFirst DEF Cyc
<1>4. /\ schedule' = schedule \ {h} /\ Continue(n, "renewGet", Tail(b))
      /\ UNCHANGED <<lockVars, due, call, copies, overlapped>>
  BY <1>2 DEF AckScheduled
<1>5. Cyc("renewGet", Tail(b))
  BY <1>1, <1>2, <1>3 DEF Cyc, PcStates, Within
<1>6. Ripens
  BY <1>4 DEF Ripens, Ripe
<1>7. Cyc("renewGet", Tail(b))'
  BY <1>5, <1>6, CycKept
<1>8. copies' \in [Tasks -> Nat] /\ \A t \in Tasks : copies'[t] > 0 => Ripe(t)
  BY <1>4 DEF SInv, TypeOK, Known
<1>9. QED
  BY <1>3, <1>4, <1>7, <1>8, TurnKeeps, LockType DEF SInv, TypeOK

LEMMA ScheduleAtKeeps ==
    ASSUME SInv, NEW t \in Tasks, ScheduleAt(t)
    PROVE  SInv'
<1>1. /\ UNCHANGED <<leader, ttl, pc, batch, copies, overlapped>> /\ call[t] = "none"
  BY DEF ScheduleAt, lockVars
<1>2. /\ \E c \in {"ok", "failed"} : call' = [call EXCEPT ![t] = c]
      /\ schedule' = schedule \cup {t} \/ schedule' = schedule
      /\ call'[t] = "ok" => t \in schedule'
  BY DEF ScheduleAt, SInv, TypeOK
<1>3. due' = due \/ \E d \in 0..MaxDelay : due' = [due EXCEPT ![t] = d]
  BY DEF ScheduleAt
<1>4. failures' \in Nat
  BY DEF ScheduleAt, Fault, NoFault, SInv, TypeOK
<1>5. /\ \A u \in Tasks : u # t => due'[u] = due[u] /\ call'[u] = call[u]
      /\ call'[t] \in {"ok", "failed"}
      /\ call' \in [Tasks -> {"none", "ok", "failed"}] /\ due' \in [Tasks -> 0..MaxDelay]
  BY <1>2, <1>3 DEF SInv, TypeOK
<1>6. \A u \in Tasks : Ripe(u) => u # t
  BY <1>1 DEF Ripe
<1>7. Ripens
  BY <1>1, <1>5, <1>6 DEF Ripens, Ripe
<1>8. \A n \in Nodes : Cyc(pc[n], batch[n])'
  <2>1. SUFFICES ASSUME NEW n \in Nodes
                 PROVE  Cyc(pc[n], batch[n])'
    OBVIOUS
  <2>2. PICK c, a : c = pc[n] /\ a = batch[n] /\ c = pc'[n] /\ a = batch'[n]
    BY <1>1
  <2>3. Cyc(c, a)'
    BY <1>7, <2>2, CycKept DEF SInv
  <2>4. QED
    BY <2>2, <2>3
<1>9. TypeOK'
  BY <1>1, <1>2, <1>4, <1>5 DEF SInv, TypeOK
<1>10. Known'
  BY <1>1, <1>2, <1>5, <1>6 DEF SInv, Known, Ripe, TypeOK
<1>11. ScheduledNotLost'
  BY <1>1, <1>2, <1>5 DEF SInv, ScheduledNotLost
<1>12. QED
  BY <1>8, <1>9, <1>10, <1>11 DEF SInv

\* A node that stops, or whose command fails before it runs.
LEMMA StopKeeps ==
    ASSUME SInv, NEW n \in Nodes, CommandFails(n) \/ Crash(n)
    PROVE  SInv'
<1>1. PICK l \in {"sleep", "down"} : pc' = [pc EXCEPT ![n] = l]
  BY DEF CommandFails, Crash
<1>2. /\ batch' = [batch EXCEPT ![n] = <<>>]
      /\ UNCHANGED <<ttl, schedule, due, call, copies, overlapped>>
      /\ leader' \in Nodes \cup {Free, Gone} /\ failures' \in Nat
  BY DEF CommandFails, Crash, lockVars, taskVars, Fault, SInv, TypeOK
<1>3. Ripens
  BY <1>2 DEF Ripens, Ripe
<1>4. Cyc(l, <<>>)'
  BY Asleep
<1>5. TypeOK' /\ \A m \in Nodes : Cyc(pc[m], batch[m])'
  <2>1. /\ ttl' \in 0..LeaderTTL /\ schedule' \subseteq Tasks /\ copies' \in [Tasks -> Nat]
        /\ overlapped' \in BOOLEAN
    BY <1>2 DEF SInv, TypeOK
  <2>2. QED
    BY <1>1, <1>2, <1>3, <1>4, <2>1, NodeStep
<1>6. Known' /\ ScheduledNotLost'
  BY <1>2 DEF SInv, Known, Ripe, ScheduledNotLost
<1>7. QED
  BY <1>5, <1>6 DEF SInv

LEMMA TickKeeps ==
    ASSUME SInv, Tick
    PROVE  SInv'
<1>1. /\ UNCHANGED <<schedule, call, pc, batch, copies, failures>>
      /\ ttl' = Less(ttl) /\ leader' = (IF ttl <= 1 THEN Free ELSE leader)
      /\ due' = [t \in Tasks |-> Less(due[t])]
  BY DEF Tick, NoFault
<1>2. /\ due' \in [Tasks -> 0..MaxDelay] /\ \A t \in Tasks : due[t] = 0 => due'[t] = 0
  BY <1>1 DEF Less, SInv, TypeOK
<1>3. ttl' \in 0..LeaderTTL /\ leader' \in Nodes \cup {Free, Gone}
  BY <1>1 DEF Less, SInv, TypeOK
<1>4. overlapped' \in BOOLEAN
  BY WatchType DEF Tick, SInv
<1>5. Ripens
  BY <1>1, <1>2 DEF Ripens, Ripe
<1>6. TypeOK'
  BY <1>1, <1>2, <1>3, <1>4 DEF SInv, TypeOK
<1>7. \A n \in Nodes : Cyc(pc[n], batch[n])'
  <2>1. SUFFICES ASSUME NEW n \in Nodes
                 PROVE  Cyc(pc[n], batch[n])'
    OBVIOUS
  <2>2. PICK c, a : c = pc[n] /\ a = batch[n] /\ c = pc'[n] /\ a = batch'[n]
    BY <1>1
  <2>3. Cyc(c, a)'
    BY <1>5, <2>2, CycKept DEF SInv
  <2>4. QED
    BY <2>2, <2>3
<1>8. Known' /\ ScheduledNotLost'
  BY <1>1, <1>2 DEF SInv, Known, Ripe, ScheduledNotLost
<1>9. QED
  BY <1>6, <1>7, <1>8 DEF SInv

LEMMA StutterKeeps ==
    ASSUME SInv, UNCHANGED vars
    PROVE  SInv'
BY DEF SInv, vars, TypeOK, Cyc, Once, Ripe, Known, ScheduledNotLost, PcStates

LEMMA NextSInv == SInv /\ [Next]_vars => SInv'
<1>1. SUFFICES ASSUME SInv, [Next]_vars
               PROVE  SInv'
  OBVIOUS
<1>2. ASSUME NEW t \in Tasks, ScheduleAt(t)
      PROVE  SInv'
  BY <1>1, <1>2, ScheduleAtKeeps
<1>3. ASSUME NEW n \in Nodes, Cycle(n)
      PROVE  SInv'
  BY <1>1, <1>3, LockStepKeeps, ListKeeps, ParseKeeps, EnqueueKeeps, AckKeeps, RenewKeeps DEF Cycle
<1>4. ASSUME NEW n \in Nodes, CommandFails(n) \/ Crash(n)
      PROVE  SInv'
  BY <1>1, <1>4, StopKeeps
<1>5. CASE Tick
  BY <1>1, <1>5, TickKeeps
<1>6. CASE UNCHANGED vars
  BY <1>1, <1>6, StutterKeeps
<1>7. QED
  BY <1>1, <1>2, <1>3, <1>4, <1>5, <1>6 DEF Next

\* The keys of core/orchestrator/redis.rs and the local variables of the loop
\* keep their types.
THEOREM TypeCorrect == Spec => []TypeOK
<1>1. SInv => TypeOK
  BY DEF SInv
<1>2. QED
  BY <1>1, InitSInv, NextSInv, PTL DEF Spec

\* A task whose schedule_at succeeded stays scheduled until a job was enqueued
\* for it (process_schedule: the job is enqueued first and only then is the
\* task confirmed), over failed commands, lost replies and crashes.
THEOREM TasksAreNotLost == Spec => []ScheduledNotLost
<1>1. SInv => ScheduledNotLost
  BY DEF SInv
<1>2. QED
  BY <1>1, InitSInv, NextSInv, PTL DEF Spec

\* No task is enqueued before it is due, also by a node that lost the lock
\* after it had listed the task.
THEOREM TasksAreNotEarly == Spec => []NeverEarly
<1>1. SInv => NeverEarly
  BY DEF SInv, Known, Ripe, NeverEarly
<1>2. QED
  BY <1>1, InitSInv, NextSInv, PTL DEF Spec

-----------------------------------------------------------------------------
(* Duplicates.  As long as nothing failed and no cycle outlived its lock,  *)
(* the cycle that goes on is the leader's, what is scheduled is not yet a  *)
(* job, and the task between its job and its ZREM is the leader's current. *)

Calm == failures = 0 /\ ~overlapped

\* n is between the job it enqueued for t and the ZREM of t.
Confirms(n, t) == pc[n] = "ack" /\ batch[n][1] = t

Alone == \A n \in Nodes : Drains(n) => leader = n
Single == \A t \in Tasks : copies[t] <= 1
Unmoved == \A t \in schedule : copies[t] = 0 \/ \E n \in Nodes : Confirms(n, t)
Listing(n) ==
    \A i \in DOMAIN batch[n] :
        batch[n][i] \in schedule /\ (copies[batch[n][i]] = 0 \/ (pc[n] = "ack" /\ i = 1))

Order == Alone /\ Single /\ Unmoved /\ \A n \in Nodes : Listing(n)
CalmInv == Calm => Order

\* The calm before a calm step.
LEMMA WasCalm == TypeOK /\ [Next]_vars /\ Calm' => Calm
<1>1. SUFFICES ASSUME TypeOK, [Next]_vars, Calm'
               PROVE  Calm
  OBVIOUS
<1>2. failures' = failures \/ failures' = failures + 1
  <2>1. CASE \E t \in Tasks : ScheduleAt(t)
    BY <2>1 DEF ScheduleAt, Fault, NoFault
  <2>2. CASE \E n \in Nodes : Cycle(n)
    BY <2>2 DEF Cycle, SetNx, GetLeader, Extend, List, Parse, Enqueue, AckScheduled, RenewGet,
                RenewExpire, Restart, Continue, Proceed, Fault, NoFault
  <2>3. CASE \E n \in Nodes : CommandFails(n) \/ Crash(n)
    BY <2>3 DEF CommandFails, Crash, Fault
  <2>4. CASE Tick \/ UNCHANGED vars
    BY <2>4 DEF Tick, NoFault, vars
  <2>5. QED
    BY <1>1, <2>1, <2>2, <2>3, <2>4 DEF Next
<1>3. failures = 0
  BY <1>1, <1>2 DEF Calm, TypeOK
<1>4. overlapped' = overlapped \/ Watch
  BY <1>1 DEF Next, ScheduleAt, Cycle, SetNx, GetLeader, Extend, List, Parse, Enqueue, AckScheduled,
              RenewGet, RenewExpire, Restart, CommandFails, Crash, Tick, vars
<1>5. ~overlapped
  BY <1>1, <1>4 DEF Calm, Watch
<1>6. QED
  BY <1>3, <1>5 DEF Calm

\* While a cycle goes on the other nodes hold nothing.
LEMMA OthersIdle ==
    ASSUME SInv, Alone, NEW n \in Nodes, Drains(n), NEW m \in Nodes, m # n
    PROVE  ~Drains(m) /\ batch[m] = <<>>
<1>1. ~Drains(m)
  BY DEF Alone
<1>2. pc[m] \in PcStates
  BY DEF SInv, Cyc
<1>3. QED
  BY <1>1, <1>2 DEF Drains, PcStates, SInv, Cyc

\* A cycle that is not at a ZREM finds nothing moved in the schedule.
LEMMA NoneMoved ==
    ASSUME SInv, Order, NEW n \in Nodes, Drains(n), pc[n] # "ack"
    PROVE  \A t \in schedule : copies[t] = 0
<1>1. ASSUME NEW t \in schedule, NEW m \in Nodes, Confirms(m, t)
      PROVE  FALSE
  <2>1. Drains(m) /\ m # n
    BY <1>1 DEF Confirms, Drains
  <2>2. QED
    BY <2>1, OthersIdle DEF Order
<1>2. QED
  BY <1>1 DEF Order, Unmoved

\* What a turn leaves, if it did not fail.
LEMMA CalmTurn ==
    ASSUME SInv, Calm', NEW n \in Nodes, NEW l, NEW b, Continue(n, l, b) \/ Proceed(n, l, b)
    PROVE  /\ pc'[n] = l /\ batch'[n] = b
           /\ \A m \in Nodes : m # n => pc'[m] = pc[m] /\ batch'[m] = batch[m]
<1>1. PICK k, a : /\ pc' = [pc EXCEPT ![n] = k] /\ batch' = [batch EXCEPT ![n] = a]
                  /\ failures' \in Nat
                  /\ \/ k = l /\ a = b /\ failures' = failures
                     \/ k = "sleep" /\ a = <<>> /\ failures' # 0
  BY Turns DEF SInv
<1>2. k = l /\ a = b
  BY <1>1 DEF Calm
<1>3. QED
  BY <1>1, <1>2 DEF SInv, TypeOK

\* A turn that moves nothing: the node was not at a ZREM, and is not now.
LEMMA QuietCalm ==
    ASSUME SInv, Calm', Order, NEW n \in Nodes, NEW l, NEW b, Continue(n, l, b) \/ Proceed(n, l, b),
           pc[n] # "ack", l # "ack", UNCHANGED <<schedule, copies>>,
           \A i \in DOMAIN b : b[i] \in schedule /\ copies[b[i]] = 0, Alone'
    PROVE  Order'
<1>1. /\ pc'[n] = l /\ batch'[n] = b
      /\ \A m \in Nodes : m # n => pc'[m] = pc[m] /\ batch'[m] = batch[m]
  BY CalmTurn
<1>2. Single'
  BY DEF Order, Single
<1>3. Unmoved'
  <2>1. ASSUME NEW t \in schedule, copies[t] # 0
        PROVE  \E m \in Nodes : Confirms(m, t)'
    <3>1. PICK m \in Nodes : Confirms(m, t)
      BY <2>1 DEF Order, Unmoved
    <3>2. m # n
      BY <3>1 DEF Confirms
    <3>3. QED
      BY <1>1, <3>1, <3>2 DEF Confirms
  <2>2. QED
    BY <2>1 DEF Unmoved
<1>4. ASSUME NEW m \in Nodes
      PROVE  Listing(m)'
  <2>1. CASE m = n
    BY <1>1, <2>1 DEF Listing
  <2>2. CASE m # n
    BY <1>1, <2>2 DEF Order, Listing
  <2>3. QED
    BY <2>1, <2>2
<1>5. QED
  BY <1>2, <1>3, <1>4 DEF Order

LEMMA LockStepCalm ==
    ASSUME SInv, Calm', Order, NEW n \in Nodes, SetNx(n) \/ GetLeader(n) \/ Extend(n) \/ Restart(n)
    PROVE  Order'
<1>1. PICK l \in {"sleep", "get", "extend", "list"} :
         /\ Continue(n, l, <<>>) \/ Proceed(n, l, <<>>)
         /\ l = "list" => (SetNx(n) /\ leader = Free) \/ Extend(n)
  BY DEF SetNx, GetLeader, Extend, Restart
<1>2. /\ pc'[n] = l
      /\ \A m \in Nodes : m # n => pc'[m] = pc[m]
  BY <1>1, CalmTurn
<1>3. /\ UNCHANGED <<schedule, copies>> /\ pc[n] # "ack"
  BY DEF SetNx, GetLeader, Extend, Restart, taskVars
<1>4. ASSUME NEW m \in Nodes, Drains(m)'
      PROVE  leader' = m
  <2>1. CASE Extend(n)
    BY <1>4, <2>1 DEF Extend, Watch, Calm
  <2>2. CASE SetNx(n) /\ leader = Free
    <3>1. leader' = n
      BY <2>2 DEF SetNx
    <3>2. ASSUME m # n
          PROVE  FALSE
      BY <1>2, <1>4, <2>2, <3>2 DEF Order, Alone, Drains
    <3>3. QED
      BY <3>1, <3>2
  <2>3. CASE ~Extend(n) /\ ~(SetNx(n) /\ leader = Free)
    <3>1. leader' = leader
      BY <2>3 DEF SetNx, GetLeader, Restart, lockVars
    <3>2. m # n
      BY <1>1, <1>2, <1>4, <2>3 DEF Drains
    <3>3. QED
      BY <1>2, <1>4, <3>1, <3>2 DEF Order, Alone, Drains
  <2>4. QED
    BY <2>1, <2>2, <2>3
<1>5. Alone'
  BY <1>4 DEF Alone
<1>6. QED
  BY <1>1, <1>3, <1>5, QuietCalm

\* A cycle that holds the lock goes on, and the lock stays.
LEMMA StillAlone ==
    ASSUME SInv, Calm', Order, NEW n \in Nodes, NEW l, NEW b, Continue(n, l, b) \/ Proceed(n, l, b),
           Drains(n), leader' = leader
    PROVE  Alone'
<1>1. /\ pc'[n] = l
      /\ \A m \in Nodes : m # n => pc'[m] = pc[m]
  BY CalmTurn
<1>2. ASSUME NEW m \in Nodes, Drains(m)'
      PROVE  leader' = m
  BY <1>1, <1>2 DEF Order, Alone, Drains
<1>3. QED
  BY <1>2 DEF Alone

LEMMA ListCalm ==
    ASSUME SInv, Calm', Order, NEW n \in Nodes, List(n)
    PROVE  Order'
<1>1. PICK q \in DueLists : Proceed(n, "parse", q)
  BY DEF List
<1>2. \A i \in DOMAIN q : q[i] \in schedule
  BY Listed DEF SInv
<1>3. pc[n] = "list" /\ Drains(n) /\ UNCHANGED <<schedule, copies, leader>>
  BY DEF List, Drains, taskVars, lockVars
<1>4. \A i \in DOMAIN q : copies[q[i]] = 0
  BY <1>2, <1>3, NoneMoved
<1>5. Alone'
  BY <1>1, <1>3, StillAlone
<1>6. QED
  BY <1>1, <1>2, <1>3, <1>4, <1>5, QuietCalm

\* The batch of a cycle that goes on and moves nothing.
LEMMA OnCalm ==
    ASSUME SInv, Calm', Order, NEW n \in Nodes, NEW l,
           Continue(n, l, batch[n]) \/ Proceed(n, l, batch[n]),
           Drains(n), pc[n] # "ack", l # "ack", UNCHANGED <<schedule, copies, leader>>
    PROVE  Order'
<1>1. \A i \in DOMAIN batch[n] : batch[n][i] \in schedule /\ copies[batch[n][i]] = 0
  BY DEF Order, Listing
<1>2. Alone'
  BY StillAlone
<1>3. QED
  BY <1>1, <1>2, QuietCalm

LEMMA RenewCalm ==
    ASSUME SInv, Calm', Order, NEW n \in Nodes, RenewGet(n) \/ RenewExpire(n)
    PROVE  Order'
<1>1. PICK l \in {"sleep", "enqueue", "renewExpire"} :
         Continue(n, l, batch[n]) \/ Proceed(n, l, batch[n])
  BY DEF RenewGet, RenewExpire, NextTask
<1>2. /\ pc[n] \in {"renewGet", "renewExpire"} /\ Drains(n)
      /\ UNCHANGED <<schedule, copies, leader>>
  BY DEF RenewGet, RenewExpire, Drains, Expire, lockVars, taskVars
<1>3. QED
  BY <1>1, <1>2, OnCalm

LEMMA ParseCalm ==
    ASSUME SInv, Calm', Order, NEW n \in Nodes, Parse(n)
    PROVE  Order'
<1>1. pc[n] = "parse" /\ Drains(n) /\ UNCHANGED <<copies, leader>> /\ Cyc("parse", batch[n])
  BY DEF Parse, Drains, lockVars, SInv
<1>2. CASE Junk(n) = {}
  <2>1. schedule' = schedule /\ \E l \in {"sleep", "enqueue"} : Proceed(n, l, batch[n])
    BY <1>2 DEF Parse, Junk
  <2>2. QED
    BY <1>1, <2>1, OnCalm
<1>3. CASE Junk(n) # {}
  <2>1. PICK i, q : i = FirstJunk(n) /\ q = RemoveAt(batch[n], i)
    OBVIOUS
  <2>2. schedule' = schedule \ {batch[n][i]} /\ Continue(n, "parse", q)
    BY <1>3, <2>1 DEF Parse, Junk, FirstJunk
  <2>3. i \in DOMAIN batch[n]
    BY <1>3, <2>1, FirstJunkIs
  <2>4. /\ q \in Seq(Tasks) /\ Within(q, batch[n])
        /\ \A k \in DOMAIN q : q[k] # batch[n][i]
    BY <1>1, <2>1, <2>3, RemoveOne DEF Cyc
  <2>5. \A k \in DOMAIN q : q[k] \in schedule' /\ copies[q[k]] = 0
    BY <1>1, <2>2, <2>4 DEF Order, Listing, Within
  <2>6. /\ pc'[n] = "parse" /\ batch'[n] = q
        /\ \A m \in Nodes : m # n => pc'[m] = pc[m] /\ batch'[m] = batch[m]
    BY <2>2, CalmTurn
  <2>7. Alone'
    BY <1>1, <2>2, StillAlone
  <2>8. Single'
    BY <1>1 DEF Order, Single
  <2>9. Unmoved'
    <3>1. \A t \in schedule : copies[t] = 0
      BY <1>1, NoneMoved
    <3>2. QED
      BY <1>1, <2>2, <3>1 DEF Unmoved
  <2>10. ASSUME NEW m \in Nodes
         PROVE  Listing(m)'
    <3>1. CASE m = n
      BY <1>1, <2>5, <2>6, <3>1 DEF Listing
    <3>2. CASE m # n
      <4>1. batch'[m] = <<>>
        BY <1>1, <2>6, <3>2, OthersIdle DEF Order
      <4>2. QED
        BY <4>1 DEF Listing
    <3>3. QED
      BY <3>1, <3>2
  <2>11. QED
    BY <2>7, <2>8, <2>9, <2>10 DEF Order
<1>4. QED
  BY <1>2, <1>3

LEMMA EnqueueCalm ==
    ASSUME SInv, Calm', Order, NEW n \in Nodes, Enqueue(n)
    PROVE  Order'
<1>1. pc[n] = "enqueue" /\ Drains(n) /\ UNCHANGED <<schedule, leader>> /\ Cyc("enqueue", batch[n])
  BY DEF Enqueue, Drains, lockVars, taskVars, SInv
<1>2. PICK b, h : b = batch[n] /\ h = Head(batch[n])
  OBVIOUS
<1>3. b \in Seq(Tasks) /\ b # <<>> /\ h \in Tasks /\ h = b[1] /\ 1 \in DOMAIN b /\ Once(b)
  BY <1>1, <1>2, TakeFirst DEF Cyc
<1>4. copies' = [copies EXCEPT ![h] = copies[h] + 1] /\ Continue(n, "ack", b)
  BY <1>2 DEF Enqueue
<1>5. \A t \in Tasks : copies'[t] = IF t = h THEN copies[h] + 1 ELSE copies[t]
  BY <1>3, <1>4 DEF SInv, TypeOK
<1>6. \A i \in DOMAIN b : b[i] \in schedule /\ copies[b[i]] = 0
  BY <1>1, <1>2 DEF Order, Listing
<1>7. copies[h] = 0 /\ copies'[h] = 1
  BY <1>3, <1>5, <1>6
<1>8. /\ pc'[n] = "ack" /\ batch'[n] = b
      /\ \A m \in Nodes : m # n => pc'[m] = pc[m] /\ batch'[m] = batch[m]
  BY <1>4, CalmTurn
<1>9. Alone'
  BY <1>1, <1>4, StillAlone
<1>10. Single'
  BY <1>5, <1>7 DEF Order, Single
<1>11. Unmoved'
  <2>1. \A t \in schedule : copies[t] = 0 /\ t \in Tasks
    BY <1>1, NoneMoved DEF SInv, TypeOK
  <2>2. Confirms(n, h)'
    BY <1>3, <1>8 DEF Confirms
  <2>3. QED
    BY <1>1, <1>5, <2>1, <2>2 DEF Unmoved
<1>12. ASSUME NEW m \in Nodes
       PROVE  Listing(m)'
  <2>1. CASE m = n
    <3>1. ASSUME NEW i \in DOMAIN b
          PROVE  copies'[b[i]] = 0 \/ i = 1
      BY <1>3, <1>5, <1>6 DEF Once
    <3>2. QED
      BY <1>1, <1>6, <1>8, <2>1, <3>1 DEF Listing
  <2>2. CASE m # n
    <3>1. batch'[m] = <<>>
      BY <1>1, <1>8, <2>2, OthersIdle DEF Order
    <3>2. QED
      BY <3>1 DEF Listing
  <2>3. QED
    BY <2>1, <2>2
<1>13. QED
  BY <1>9, <1>10, <1>11, <1>12 DEF Order

LEMMA AckCalm ==
    ASSUME SInv, Calm', Order, NEW n \in Nodes, AckScheduled(n)
    PROVE  Order'
<1>1. pc[n] = "ack" /\ Drains(n) /\ UNCHANGED <<copies, leader>> /\ Cyc("ack", batch[n])
  BY DEF AckScheduled, Drains, lockVars, SInv
<1>2. PICK b, h : b = batch[n] /\ h = Head(batch[n])
  OBVIOUS
<1>3. /\ b \in Seq(Tasks) /\ b # <<>> /\ h = b[1] /\ Once(b)
      /\ Tail(b) \in Seq(Tasks) /\ \A i \in DOMAIN Tail(b) : Tail(b)[i] # h
  BY <1>1, <1>2, TakeFirst DEF Cyc
<1>4. schedule' = schedule \ {h} /\ Continue(n, "renewGet", Tail(b))
  BY <1>2 DEF AckScheduled
<1>5. \A i \in DOMAIN Tail(b) : Tail(b)[i] \in schedule' /\ copies[Tail(b)[i]] = 0
  <2>1. ASSUME NEW i \in DOMAIN Tail(b)
        PROVE  i + 1 \in DOMAIN b /\ i + 1 # 1 /\ Tail(b)[i] = b[i + 1]
    BY <1>3
  <2>2. QED
    BY <1>2, <1>3, <1>4, <2>1 DEF Order, Listing
<1>6. /\ pc'[n] = "renewGet" /\ batch'[n] = Tail(b)
      /\ \A m \in Nodes : m # n => pc'[m] = pc[m] /\ batch'[m] = batch[m]
  BY <1>4, CalmTurn
<1>7. Alone'
  BY <1>1, <1>4, StillAlone
<1>8. Single'
  BY <1>1 DEF Order, Single
<1>9. Unmoved'
  <2>1. ASSUME NEW t \in schedule', NEW m \in Nodes, Confirms(m, t)
        PROVE  FALSE
    <3>1. m # n
      BY <1>2, <1>3, <1>4, <2>1 DEF Confirms
    <3>2. QED
      BY <1>1, <2>1, <3>1, OthersIdle DEF Order, Confirms, Drains
  <2>2. \A t \in schedule' : copies[t] = 0
    BY <1>4, <2>1 DEF Order, Unmoved
  <2>3. QED
    BY <1>1, <2>2 DEF Unmoved
<1>10. ASSUME NEW m \in Nodes
       PROVE  Listing(m)'
  <2>1. CASE m = n
    BY <1>1, <1>5, <1>6, <2>1 DEF Listing
  <2>2. CASE m # n
    <3>1. batch'[m] = <<>>
      BY <1>1, <1>6, <2>2, OthersIdle DEF Order
    <3>2. QED
      BY <3>1 DEF Listing
  <2>3. QED
    BY <2>1, <2>2
<1>11. QED
  BY <1>7, <1>8, <1>9, <1>10 DEF Order

\* A task that is scheduled now is not a job yet.
LEMMA ScheduleAtCalm ==
    ASSUME SInv, Calm', Order, NEW t \in Tasks, ScheduleAt(t)
    PROVE  Order'
<1>1. /\ UNCHANGED <<leader, pc, batch, copies>> /\ call[t] = "none"
      /\ schedule' \in {schedule, schedule \cup {t}}
  BY DEF ScheduleAt, lockVars
<1>2. copies[t] = 0
  BY <1>1 DEF SInv, Known, Ripe, TypeOK
<1>3. Alone' /\ Single' /\ \A n \in Nodes : Listing(n)'
  BY <1>1 DEF Order, Alone, Single, Listing, Drains
<1>4. Unmoved'
  BY <1>1, <1>2 DEF Order, Unmoved, Confirms
<1>5. QED
  BY <1>3, <1>4 DEF Order

LEMMA TickCalm ==
    ASSUME SInv, Calm', Order, Tick
    PROVE  Order'
<1>1. UNCHANGED <<schedule, pc, batch, copies>> /\ Watch
  BY DEF Tick
<1>2. Alone'
  BY <1>1 DEF Watch, Calm, Alone
<1>3. Single' /\ Unmoved' /\ \A n \in Nodes : Listing(n)'
  BY <1>1 DEF Order, Single, Unmoved, Listing, Confirms
<1>4. QED
  BY <1>2, <1>3 DEF Order

LEMMA NextCalm == SInv /\ CalmInv /\ [Next]_vars => CalmInv'
<1>1. SUFFICES ASSUME SInv, CalmInv, [Next]_vars, Calm'
               PROVE  Order'
  BY DEF CalmInv
<1>2. Calm /\ Order
  BY <1>1, WasCalm DEF CalmInv, SInv
<1>3. ASSUME NEW t \in Tasks, ScheduleAt(t)
      PROVE  Order'
  BY <1>1, <1>2, <1>3, ScheduleAtCalm
<1>4. ASSUME NEW n \in Nodes, Cycle(n)
      PROVE  Order'
  BY <1>1, <1>2, <1>4, LockStepCalm, ListCalm, ParseCalm, EnqueueCalm, AckCalm, RenewCalm DEF Cycle
<1>5. ASSUME NEW n \in Nodes, CommandFails(n) \/ Crash(n)
      PROVE  FALSE
  BY <1>1, <1>5 DEF CommandFails, Crash, Fault, Calm, SInv, TypeOK
<1>6. CASE Tick
  BY <1>1, <1>2, <1>6, TickCalm
<1>7. CASE UNCHANGED vars
  BY <1>1, <1>2, <1>7 DEF vars, Order, Alone, Single, Unmoved, Listing, Confirms, Drains
<1>8. QED
  BY <1>1, <1>3, <1>4, <1>5, <1>6, <1>7 DEF Next

\* The leader lock (try_acquire_leadership, renew_leadership) lets one node at
\* a time move tasks: one becomes two jobs only after a failed command, a
\* crash, or a cycle that outlived its lock.
THEOREM DuplicatesHaveACause == Spec => []DuplicateNeedsAFailure
<1>1. Init => CalmInv
  <2>1. SUFFICES ASSUME Init
                 PROVE  Order
    BY DEF CalmInv
  <2>2. Alone /\ Single /\ Unmoved
    BY <2>1 DEF Init, Alone, Single, Unmoved, Drains
  <2>3. \A n \in Nodes : Listing(n)
    BY <2>1 DEF Init, Listing
  <2>4. QED
    BY <2>2, <2>3 DEF Order
<1>2. SInv /\ CalmInv => DuplicateNeedsAFailure
  <2>1. ASSUME SInv, CalmInv, NEW t \in Tasks, copies[t] > 1
        PROVE  failures > 0 \/ overlapped
    <3>1. ~Calm
      BY <2>1 DEF CalmInv, Order, Single, SInv, TypeOK
    <3>2. QED
      BY <2>1, <3>1 DEF Calm, SInv, TypeOK
  <2>2. QED
    BY <2>1 DEF DuplicateNeedsAFailure
<1>3. QED
  BY <1>1, <1>2, InitSInv, NextSInv, NextCalm, PTL DEF Spec

-----------------------------------------------------------------------------
(* How many.  While a task is scheduled, each of its jobs is owed to a     *)
(* failure or to a node that is about to confirm it; after that only the   *)
(* nodes that had listed it can still make it a job, once each.            *)

At(t) == {n \in Nodes : Confirms(n, t)}
Pending(t) == {n \in Nodes : ~Confirms(n, t) /\ \E i \in DOMAIN batch[n] : batch[n][i] = t}

Bound(t) ==
    IF t \in schedule
    THEN copies[t] <= failures + Cardinality(At(t))
    ELSE copies[t] + Cardinality(Pending(t)) <= failures + Cardinality(Nodes)

BoundInv == \A t \in Tasks : Bound(t)

LEMMA Counts ==
    ASSUME NEW S \in SUBSET Nodes
    PROVE  /\ Cardinality(S) \in Nat /\ Cardinality(S) <= Cardinality(Nodes)
           /\ \A T \in SUBSET S : Cardinality(T) <= Cardinality(S)
           /\ \A n \in Nodes : /\ Cardinality(S) <= Cardinality(S \ {n}) + 1
                               /\ n \in S => Cardinality(S) = Cardinality(S \ {n}) + 1
                               /\ n \notin S => Cardinality(S \cup {n}) = Cardinality(S) + 1
           /\ \A T \in SUBSET Nodes :
                 S \cap T = {} => Cardinality(S) + Cardinality(T) <= Cardinality(Nodes)
<1>1. IsFiniteSet(S) /\ Cardinality(S) <= Cardinality(Nodes)
  BY FS_Subset
<1>2. Cardinality(S) \in Nat
  BY <1>1, FS_CardinalityType
<1>3. \A T \in SUBSET S : Cardinality(T) <= Cardinality(S)
  BY <1>1, FS_Subset
<1>4. ASSUME NEW n \in Nodes
      PROVE  /\ Cardinality(S) <= Cardinality(S \ {n}) + 1
             /\ n \in S => Cardinality(S) = Cardinality(S \ {n}) + 1
             /\ n \notin S => Cardinality(S \cup {n}) = Cardinality(S) + 1
  <2>1. Cardinality(S \ {n}) = IF n \in S THEN Cardinality(S) - 1 ELSE Cardinality(S)
    BY <1>1, FS_RemoveElement
  <2>2. Cardinality(S \cup {n}) = IF n \in S THEN Cardinality(S) ELSE Cardinality(S) + 1
    BY <1>1, FS_AddElement
  <2>3. QED
    BY <1>2, <2>1, <2>2
<1>5. ASSUME NEW T \in SUBSET Nodes, S \cap T = {}
      PROVE  Cardinality(S) + Cardinality(T) <= Cardinality(Nodes)
  <2>1. IsFiniteSet(T) /\ S \cup T \in SUBSET Nodes
    BY FS_Subset
  <2>2. Cardinality(T) \in Nat
    BY <2>1, FS_CardinalityType
  <2>3. Cardinality(S \cup T) = Cardinality(S) + Cardinality(T) - Cardinality(S \cap T)
    BY <1>1, <2>1, FS_Union
  <2>4. Cardinality(S \cap T) = 0
    BY <1>5, FS_EmptySet
  <2>5. Cardinality(S \cup T) <= Cardinality(Nodes)
    BY <2>1, FS_Subset
  <2>6. QED
    BY <1>2, <2>2, <2>3, <2>4, <2>5
<1>6. QED
  BY <1>1, <1>2, <1>3, <1>4, <1>5

\* A step that makes no job of t, where nobody who was about to confirm t
\* stops and nobody lists it anew.
LEMMA Shrinks ==
    ASSUME SInv, NEW t \in Tasks, Bound(t), t \in schedule' => t \in schedule, copies'[t] = copies[t],
           failures' \in Nat, failures <= failures',
           t \in schedule' => At(t) \subseteq At(t)', t \notin schedule' => Pending(t)' \subseteq Pending(t)
    PROVE  Bound(t)'
<1>1. /\ At(t) \in SUBSET Nodes /\ Pending(t) \in SUBSET Nodes /\ At(t) \cap Pending(t) = {}
      /\ At(t)' \in SUBSET Nodes /\ Pending(t)' \in SUBSET Nodes
  BY DEF At, Pending
<1>2. failures \in Nat /\ copies[t] \in Nat
  BY DEF SInv, TypeOK
<1>3. CASE t \in schedule'
  <2>1. Cardinality(At(t)) <= Cardinality(At(t)')
    BY <1>1, <1>3, Counts
  <2>2. Cardinality(At(t)) \in Nat /\ Cardinality(At(t)') \in Nat
    BY <1>1, Counts
  <2>3. copies[t] <= failures + Cardinality(At(t))
    BY <1>3 DEF Bound
  <2>4. copies'[t] <= failures' + Cardinality(At(t)')
    BY <1>2, <2>1, <2>2, <2>3
  <2>5. QED
    BY <1>3, <2>4 DEF Bound
<1>4. CASE t \notin schedule'
  <2>1. Cardinality(Pending(t)') <= Cardinality(Pending(t))
    BY <1>1, <1>4, Counts
  <2>2. /\ Cardinality(At(t)) \in Nat /\ Cardinality(Pending(t)) \in Nat
        /\ Cardinality(Pending(t)') \in Nat /\ Cardinality(Nodes) \in Nat
        /\ Cardinality(At(t)) + Cardinality(Pending(t)) <= Cardinality(Nodes)
    BY <1>1, Counts
  <2>3. copies[t] + Cardinality(Pending(t)) <= failures + Cardinality(Nodes)
    BY <1>2, <2>2 DEF Bound
  <2>4. copies'[t] + Cardinality(Pending(t)') <= failures' + Cardinality(Nodes)
    BY <1>2, <2>1, <2>2, <2>3
  <2>5. QED
    BY <1>4, <2>4 DEF Bound
<1>5. QED
  BY <1>3, <1>4

\* The step of one node, seen from t.
LEMMA Roles ==
    ASSUME NEW n \in Nodes, NEW t \in Tasks,
           \A m \in Nodes : m # n => pc'[m] = pc[m] /\ batch'[m] = batch[m]
    PROVE  /\ At(t) \ {n} \subseteq At(t)' /\ At(t)' \ {n} \subseteq At(t)
           /\ Pending(t) \ {n} \subseteq Pending(t)' /\ Pending(t)' \ {n} \subseteq Pending(t)
BY DEF At, Pending, Confirms

\* A turn that makes no job: its batch only shrinks, or lists the schedule.
LEMMA QuietBound ==
    ASSUME SInv, NEW n \in Nodes, NEW l, NEW b, Continue(n, l, b) \/ Proceed(n, l, b),
           NEW t \in Tasks, Bound(t), copies'[t] = copies[t], schedule' \subseteq schedule,
           t \in schedule' => n \notin At(t),
           \A i \in DOMAIN b : b[i] = t => t \in schedule' \/ n \in Pending(t)
    PROVE  Bound(t)'
<1>1. PICK k, a : /\ pc' = [pc EXCEPT ![n] = k] /\ batch' = [batch EXCEPT ![n] = a]
                  /\ failures' \in Nat
                  /\ \/ k = l /\ a = b /\ failures' = failures
                     \/ k = "sleep" /\ a = <<>> /\ failures' # 0
  BY Turns DEF SInv
<1>2. /\ batch'[n] = a
      /\ \A m \in Nodes : m # n => pc'[m] = pc[m] /\ batch'[m] = batch[m]
  BY <1>1 DEF SInv, TypeOK
<1>3. failures' \in Nat /\ failures <= failures'
  BY DEF Continue, Proceed, Fault, NoFault, SInv, TypeOK
<1>4. t \in schedule' => At(t) \subseteq At(t)'
  BY <1>2, Roles
<1>5. ASSUME t \notin schedule', n \in Pending(t)'
      PROVE  n \in Pending(t)
  <2>1. PICK i \in DOMAIN a : a[i] = t
    BY <1>2, <1>5 DEF Pending
  <2>2. a = b
    BY <1>1, <2>1
  <2>3. QED
    BY <1>5, <2>1, <2>2
<1>6. t \notin schedule' => Pending(t)' \subseteq Pending(t)
  BY <1>2, <1>5, Roles
<1>7. QED
  BY <1>3, <1>4, <1>6, Shrinks

LEMMA LockStepBound ==
    ASSUME SInv, NEW t \in Tasks, Bound(t),
           NEW n \in Nodes, SetNx(n) \/ GetLeader(n) \/ Extend(n) \/ Restart(n)
    PROVE  Bound(t)'
<1>1. \E l : Continue(n, l, <<>>) \/ Proceed(n, l, <<>>)
  BY DEF SetNx, GetLeader, Extend, Restart
<1>2. /\ UNCHANGED <<schedule, copies>> /\ pc[n] # "ack"
  BY DEF SetNx, GetLeader, Extend, Restart, taskVars
<1>3. n \notin At(t)
  BY <1>2 DEF At, Confirms
<1>4. QED
  BY <1>1, <1>2, <1>3, QuietBound

LEMMA ListBound ==
    ASSUME SInv, NEW t \in Tasks, Bound(t), NEW n \in Nodes, List(n)
    PROVE  Bound(t)'
<1>1. PICK q \in DueLists : Proceed(n, "parse", q)
  BY DEF List
<1>2. \A i \in DOMAIN q : q[i] \in schedule
  BY Listed DEF SInv
<1>3. /\ UNCHANGED <<schedule, copies>> /\ n \notin At(t)
  BY DEF List, taskVars, At, Confirms
<1>4. QED
  BY <1>1, <1>2, <1>3, QuietBound

\* Whoever has t in its batch and is not at its ZREM is pending.
LEMMA IsPending ==
    ASSUME NEW n \in Nodes, NEW t, pc[n] # "ack", NEW i \in DOMAIN batch[n], batch[n][i] = t
    PROVE  n \in Pending(t) /\ n \notin At(t)
BY DEF Pending, At, Confirms

LEMMA ParseBound ==
    ASSUME SInv, NEW t \in Tasks, Bound(t), NEW n \in Nodes, Parse(n)
    PROVE  Bound(t)'
<1>1. copies' = copies /\ pc[n] = "parse" /\ n \notin At(t)
  BY DEF Parse, At, Confirms
<1>2. CASE Junk(n) = {}
  <2>1. schedule' = schedule /\ \E l : Proceed(n, l, batch[n])
    BY <1>2 DEF Parse, Junk
  <2>2. QED
    BY <1>1, <2>1, IsPending, QuietBound
<1>3. CASE Junk(n) # {}
  <2>1. PICK i, q : i = FirstJunk(n) /\ q = RemoveAt(batch[n], i)
    OBVIOUS
  <2>2. schedule' \subseteq schedule /\ Continue(n, "parse", q)
    BY <1>3, <2>1 DEF Parse, Junk, FirstJunk
  <2>3. i \in DOMAIN batch[n] /\ batch[n] \in Seq(Tasks)
    BY <1>3, <2>1, FirstJunkIs DEF SInv, TypeOK
  <2>4. Within(q, batch[n])
    BY <2>1, <2>3, RemoveOne
  <2>5. \A k \in DOMAIN q : q[k] = t => n \in Pending(t)
    BY <1>1, <2>4, IsPending DEF Within
  <2>6. QED
    BY <1>1, <2>2, <2>5, QuietBound
<1>4. QED
  BY <1>2, <1>3

LEMMA RenewBound ==
    ASSUME SInv, NEW t \in Tasks, Bound(t), NEW n \in Nodes, RenewGet(n) \/ RenewExpire(n)
    PROVE  Bound(t)'
<1>1. \E l : Continue(n, l, batch[n]) \/ Proceed(n, l, batch[n])
  BY DEF RenewGet, RenewExpire
<1>2. UNCHANGED <<schedule, copies>> /\ pc[n] # "ack" /\ n \notin At(t)
  BY DEF RenewGet, RenewExpire, taskVars, At, Confirms
<1>3. QED
  BY <1>1, <1>2, IsPending, QuietBound

\* A job more: the node is about to confirm it, or its command has failed.
LEMMA EnqueueBound ==
    ASSUME SInv, NEW t \in Tasks, Bound(t), NEW n \in Nodes, Enqueue(n)
    PROVE  Bound(t)'
<1>1. pc[n] = "enqueue" /\ schedule' = schedule /\ Cyc("enqueue", batch[n]) /\ n \notin At(t)
  BY DEF Enqueue, taskVars, SInv, At, Confirms
<1>2. PICK b, h : b = batch[n] /\ h = Head(batch[n])
  OBVIOUS
<1>3. b \in Seq(Tasks) /\ b # <<>> /\ h \in Tasks /\ h = b[1] /\ 1 \in DOMAIN b
  BY <1>1, <1>2, TakeFirst DEF Cyc
<1>4. copies' = [copies EXCEPT ![h] = copies[h] + 1] /\ Continue(n, "ack", b)
  BY <1>2 DEF Enqueue
<1>5. \A u \in Tasks : copies'[u] = IF u = h THEN copies[h] + 1 ELSE copies[u]
  BY <1>3, <1>4 DEF SInv, TypeOK
<1>6. CASE t # h
  <2>1. copies'[t] = copies[t]
    BY <1>5, <1>6
  <2>2. QED
    BY <1>1, <1>2, <1>4, <2>1, IsPending, QuietBound
<1>7. CASE t = h
  <2>1. /\ At(t) \in SUBSET Nodes /\ Pending(t) \in SUBSET Nodes
        /\ At(t)' \in SUBSET Nodes /\ Pending(t)' \in SUBSET Nodes
        /\ n \in Pending(t) /\ n \notin At(t)
    BY <1>1, <1>2, <1>3, <1>7, IsPending DEF At, Pending
  <2>2. failures \in Nat /\ copies[t] \in Nat /\ copies'[t] = copies[t] + 1
    BY <1>5, <1>7 DEF SInv, TypeOK
  <2>3. /\ Cardinality(At(t)) \in Nat /\ Cardinality(At(t)') \in Nat
        /\ Cardinality(Pending(t)) \in Nat /\ Cardinality(Pending(t)') \in Nat
        /\ Cardinality(Nodes) \in Nat
    BY <2>1, Counts
  <2>4. PICK k, a : /\ pc' = [pc EXCEPT ![n] = k] /\ batch' = [batch EXCEPT ![n] = a]
                    /\ \/ k = "ack" /\ a = b /\ failures' = failures
                       \/ k = "sleep" /\ a = <<>> /\ failures' = failures + 1
    BY <1>4 DEF Continue, Fault, NoFault
  <2>5. /\ pc'[n] = k /\ batch'[n] = a
        /\ \A m \in Nodes : m # n => pc'[m] = pc[m] /\ batch'[m] = batch[m]
    BY <2>4 DEF SInv, TypeOK
  <2>6. n \notin Pending(t)'
    <3>1. CASE k = "ack" /\ a = b
      BY <1>3, <1>7, <2>5, <3>1 DEF Pending, Confirms
    <3>2. CASE a = <<>>
      BY <2>5, <3>2 DEF Pending
    <3>3. QED
      BY <2>4, <3>1, <3>2
  <2>7. Pending(t)' \in SUBSET (Pending(t) \ {n})
    BY <2>5, <2>6, Roles
  <2>8. Cardinality(Pending(t)') + 1 <= Cardinality(Pending(t))
    <3>1. Pending(t) \ {n} \in SUBSET Nodes
      BY <2>1
    <3>2. Cardinality(Pending(t)') <= Cardinality(Pending(t) \ {n})
      BY <2>7, <3>1, Counts
    <3>3. Cardinality(Pending(t)) = Cardinality(Pending(t) \ {n}) + 1
      BY <2>1, Counts
    <3>4. Cardinality(Pending(t) \ {n}) \in Nat
      BY <3>1, Counts
    <3>5. QED
      BY <2>3, <3>2, <3>3, <3>4
  <2>9. failures + Cardinality(At(t)) + 1 <= failures' + Cardinality(At(t)')
    <3>1. At(t) \subseteq At(t)'
      BY <2>1, <2>5, Roles
    <3>2. CASE k = "ack" /\ a = b /\ failures' = failures
      <4>1. n \in At(t)'
        BY <1>3, <1>7, <2>5, <3>2 DEF At, Confirms
      <4>2. At(t) \cup {n} \in SUBSET At(t)'
        BY <3>1, <4>1
      <4>3. Cardinality(At(t) \cup {n}) <= Cardinality(At(t)')
        BY <2>1, <4>2, Counts
      <4>4. Cardinality(At(t) \cup {n}) = Cardinality(At(t)) + 1
        BY <2>1, Counts
      <4>5. QED
        BY <2>2, <2>3, <3>2, <4>3, <4>4
    <3>3. CASE failures' = failures + 1
      <4>1. Cardinality(At(t)) <= Cardinality(At(t)')
        BY <2>1, <3>1, Counts
      <4>2. QED
        BY <2>2, <2>3, <3>3, <4>1
    <3>4. QED
      BY <2>4, <3>2, <3>3
  <2>10. failures' \in Nat /\ failures <= failures'
    BY <2>2, <2>4
  <2>11. CASE t \in schedule
    <3>1. copies[t] <= failures + Cardinality(At(t))
      BY <2>11 DEF Bound
    <3>2. copies'[t] <= failures' + Cardinality(At(t)')
      BY <2>2, <2>3, <2>9, <2>10, <3>1
    <3>3. QED
      BY <1>1, <2>11, <3>2 DEF Bound
  <2>12. CASE t \notin schedule
    <3>1. copies[t] + Cardinality(Pending(t)) <= failures + Cardinality(Nodes)
      BY <2>12 DEF Bound
    <3>2. copies'[t] + Cardinality(Pending(t)') <= failures' + Cardinality(Nodes)
      BY <2>2, <2>3, <2>8, <2>10, <3>1
    <3>3. QED
      BY <1>1, <2>12, <3>2 DEF Bound
  <2>13. QED
    BY <2>11, <2>12
<1>8. QED
  BY <1>6, <1>7

\* Once confirmed a task is not listed again.
LEMMA AckBound ==
    ASSUME SInv, NEW t \in Tasks, Bound(t), NEW n \in Nodes, AckScheduled(n)
    PROVE  Bound(t)'
<1>1. pc[n] = "ack" /\ copies' = copies /\ Cyc("ack", batch[n])
  BY DEF AckScheduled, SInv
<1>2. PICK b, h : b = batch[n] /\ h = Head(batch[n])
  OBVIOUS
<1>3. /\ b \in Seq(Tasks) /\ b # <<>> /\ h = b[1] /\ 1 \in DOMAIN b /\ Once(b)
      /\ Tail(b) \in Seq(Tasks) /\ Within(Tail(b), b)
      /\ \A i \in DOMAIN Tail(b) : Tail(b)[i] # h
  BY <1>1, <1>2, TakeFirst DEF Cyc
<1>4. schedule' = schedule \ {h} /\ Continue(n, "renewGet", Tail(b))
  BY <1>2 DEF AckScheduled
<1>5. t \in schedule' => n \notin At(t)
  BY <1>2, <1>3, <1>4 DEF At, Confirms
<1>6. \A i \in DOMAIN Tail(b) : Tail(b)[i] = t => n \in Pending(t)
  BY <1>2, <1>3 DEF Pending, Confirms, Within
<1>7. QED
  BY <1>1, <1>4, <1>5, <1>6, QuietBound

\* A failure takes at most one node away from the ZREM of t.
LEMMA StopBound ==
    ASSUME SInv, NEW t \in Tasks, Bound(t), NEW n \in Nodes, CommandFails(n) \/ Crash(n)
    PROVE  Bound(t)'
<1>1. /\ \E l : pc' = [pc EXCEPT ![n] = l]
      /\ batch' = [batch EXCEPT ![n] = <<>>]
      /\ UNCHANGED <<schedule, copies>> /\ failures' = failures + 1
  BY DEF CommandFails, Crash, taskVars, Fault
<1>2. /\ batch'[n] = <<>>
      /\ \A m \in Nodes : m # n => pc'[m] = pc[m] /\ batch'[m] = batch[m]
  BY <1>1 DEF SInv, TypeOK
<1>3. /\ At(t) \in SUBSET Nodes /\ Pending(t) \in SUBSET Nodes
      /\ At(t)' \in SUBSET Nodes /\ At(t) \ {n} \in SUBSET At(t)'
      /\ Pending(t)' \in SUBSET Pending(t)
  BY <1>2, Roles DEF At, Pending
<1>4. /\ Cardinality(At(t)) <= Cardinality(At(t)') + 1
      /\ Cardinality(At(t)) \in Nat /\ Cardinality(At(t)') \in Nat
  <2>1. Cardinality(At(t) \ {n}) <= Cardinality(At(t)')
    BY <1>3, Counts
  <2>2. At(t) \ {n} \in SUBSET Nodes
    BY <1>3
  <2>3. /\ Cardinality(At(t)) \in Nat /\ Cardinality(At(t)') \in Nat
        /\ Cardinality(At(t) \ {n}) \in Nat
        /\ Cardinality(At(t)) <= Cardinality(At(t) \ {n}) + 1
    BY <1>3, <2>2, Counts
  <2>4. QED
    BY <2>1, <2>3
<1>5. failures \in Nat /\ copies[t] \in Nat
  BY DEF SInv, TypeOK
<1>6. CASE t \in schedule
  <2>1. copies[t] <= failures + Cardinality(At(t))
    BY <1>6 DEF Bound
  <2>2. copies[t] <= failures' + Cardinality(At(t)')
    BY <1>1, <1>4, <1>5, <2>1
  <2>3. QED
    BY <1>1, <1>6, <2>2 DEF Bound
<1>7. CASE t \notin schedule
  BY <1>1, <1>3, <1>5, <1>7, Shrinks
<1>8. QED
  BY <1>6, <1>7

LEMMA ScheduleAtBound ==
    ASSUME SInv, NEW t \in Tasks, Bound(t), NEW u \in Tasks, ScheduleAt(u)
    PROVE  Bound(t)'
<1>1. /\ UNCHANGED <<pc, batch, copies>> /\ call[u] = "none"
      /\ schedule' \in {schedule, schedule \cup {u}}
      /\ failures' \in Nat /\ failures <= failures'
  BY DEF ScheduleAt, Fault, NoFault, SInv, TypeOK
<1>2. At(t)' = At(t) /\ Pending(t)' = Pending(t)
  BY <1>1 DEF At, Pending, Confirms
<1>3. CASE t \in schedule' => t \in schedule
  BY <1>1, <1>2, <1>3, Shrinks
<1>4. CASE t \in schedule' /\ t \notin schedule
  <2>1. t = u /\ copies[t] = 0
    BY <1>1, <1>4 DEF SInv, Known, Ripe, TypeOK
  <2>2. Cardinality(At(t)') \in Nat
    BY Counts DEF At
  <2>3. copies'[t] <= failures' + Cardinality(At(t)')
    BY <1>1, <2>1, <2>2
  <2>4. QED
    BY <1>4, <2>3 DEF Bound
<1>5. QED
  BY <1>3, <1>4

LEMMA NextBound == SInv /\ BoundInv /\ [Next]_vars => BoundInv'
<1>1. SUFFICES ASSUME SInv, [Next]_vars, NEW t \in Tasks, Bound(t)
               PROVE  Bound(t)'
  BY DEF BoundInv
<1>2. ASSUME NEW u \in Tasks, ScheduleAt(u)
      PROVE  Bound(t)'
  BY <1>1, <1>2, ScheduleAtBound
<1>3. ASSUME NEW n \in Nodes, Cycle(n)
      PROVE  Bound(t)'
  BY <1>1, <1>3, LockStepBound, ListBound, ParseBound, EnqueueBound, AckBound, RenewBound DEF Cycle
<1>4. ASSUME NEW n \in Nodes, CommandFails(n) \/ Crash(n)
      PROVE  Bound(t)'
  BY <1>1, <1>4, StopBound
<1>5. CASE Tick \/ UNCHANGED vars
  <2>1. UNCHANGED <<schedule, pc, batch, copies, failures>>
    BY <1>5 DEF Tick, NoFault, vars
  <2>2. QED
    BY <1>1, <2>1 DEF Bound, At, Pending, Confirms
<1>6. QED
  BY <1>1, <1>2, <1>3, <1>4, <1>5 DEF Next

\* However leadership overlaps (a renewal that is not fenced, a lock that
\* expires under its leader), a task becomes at most one job per node and one
\* more for every failed command and every crash.
THEOREM DuplicatesAreBounded == Spec => []BoundedDuplicates
<1>1. Init => BoundInv
  <2>1. SUFFICES ASSUME Init, NEW t \in Tasks
                 PROVE  Bound(t)
    BY DEF BoundInv
  <2>2. At(t) \in SUBSET Nodes /\ Pending(t) \in SUBSET Nodes /\ copies[t] = 0 /\ failures = 0
    BY <2>1 DEF At, Pending, Init
  <2>3. /\ Cardinality(At(t)) \in Nat /\ Cardinality(Pending(t)) \in Nat
        /\ Cardinality(Nodes) \in Nat /\ Cardinality(Pending(t)) <= Cardinality(Nodes)
    BY <2>2, Counts
  <2>4. QED
    BY <2>2, <2>3 DEF Bound
<1>2. ASSUME SInv, BoundInv
      PROVE  BoundedDuplicates
  <2>1. SUFFICES ASSUME NEW t \in Tasks
                 PROVE  copies[t] <= Cardinality(Nodes) + failures
    BY DEF BoundedDuplicates
  <2>2. At(t) \in SUBSET Nodes /\ Pending(t) \in SUBSET Nodes
    BY DEF At, Pending
  <2>3. /\ Cardinality(At(t)) \in Nat /\ Cardinality(Pending(t)) \in Nat
        /\ Cardinality(Nodes) \in Nat /\ Cardinality(At(t)) <= Cardinality(Nodes)
    BY <2>2, Counts
  <2>4. failures \in Nat /\ copies[t] \in Nat
    BY <1>2 DEF SInv, TypeOK
  <2>5. QED
    BY <1>2, <2>3, <2>4 DEF BoundInv, Bound
<1>3. QED
  BY <1>1, <1>2, InitSInv, NextSInv, NextBound, PTL DEF Spec
=============================================================================
