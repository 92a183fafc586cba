--------------------------- MODULE JobWorkerProofs ---------------------------
(***************************************************************************)
(* Proofs about JobWorker, for every value of its constants: its types,    *)
(* that no published job is lost, and that a lease that has not run out is *)
(* exclusive.  Both follow from the inductive invariant IInv of JobWorker. *)
(* Then that a stopping worker takes at most one more job, that JobWorker  *)
(* implements TaskQueue, and that jobs are first handed out in the order   *)
(* in which they were published.                                           *)
(***************************************************************************)
EXTENDS JobWorker, TLAPS, FiniteSetTheorems

USE QueueAssumption, WorkerAssumption

-----------------------------------------------------------------------------
(* What the commands of RedisQueue do to the set of ids in the list. *)

\* LPUSH adds the id and keeps what is there.
LEMMA LpushEffect ==
    ASSUME ready \in Seq(Jobs), NEW j \in Jobs, LpushJob(j)
    PROVE  /\ ready' \in Seq(Jobs)
           /\ \A k \in Jobs : InReady(k)' <=> InReady(k) \/ k = j
           /\ (\A i, k \in DOMAIN ready : ready[i] = ready[k] => i = k) /\ ~InReady(j)
                => \A i, k \in DOMAIN ready' : ready'[i] = ready'[k] => i = k
<1>1. /\ ready' \in Seq(Jobs)
      /\ DOMAIN ready = 1..Len(ready) /\ DOMAIN ready' = 1..(Len(ready) + 1)
      /\ \A i \in 1..Len(ready) : ready'[i] = ready[i]
      /\ ready'[Len(ready) + 1] = j
      /\ Len(ready) \in Nat
  BY DEF LpushJob
<1>2. \A k \in Jobs : InReady(k)' <=> InReady(k) \/ k = j
  BY <1>1 DEF InReady
<1>3. (\A i, k \in DOMAIN ready : ready[i] = ready[k] => i = k) /\ ~InReady(j)
        => \A i, k \in DOMAIN ready' : ready'[i] = ready'[k] => i = k
  BY <1>1 DEF InReady
<1>4. QED
  BY <1>1, <1>2, <1>3

\* RPOP takes one occurrence of the first id away.
LEMMA PopEffect ==
    ASSUME ready \in Seq(Jobs), ready # <<>>, ready' = Tail(ready),
           \A i, k \in DOMAIN ready : ready[i] = ready[k] => i = k
    PROVE  /\ ready' \in Seq(Jobs)
           /\ Head(ready) \in Jobs /\ InReady(Head(ready))
           /\ \A k \in Jobs : InReady(k)' <=> InReady(k) /\ k # Head(ready)
           /\ \A i, k \in DOMAIN ready' : ready'[i] = ready'[k] => i = k
<1>1. /\ ready' \in Seq(Jobs)
      /\ Len(ready) \in Nat \ {0} /\ Head(ready) = ready[1] /\ Head(ready) \in Jobs
      /\ DOMAIN ready = 1..Len(ready) /\ DOMAIN ready' = 1..(Len(ready) - 1)
      /\ \A i \in 1..(Len(ready) - 1) : ready'[i] = ready[i + 1]
  OBVIOUS
<1>2. InReady(Head(ready))
  BY <1>1 DEF InReady
<1>3. ASSUME NEW k \in Jobs
      PROVE  InReady(k)' <=> InReady(k) /\ k # Head(ready)
  <2>1. InReady(k)' => InReady(k) /\ k # Head(ready)
    <3>1. SUFFICES ASSUME NEW i \in DOMAIN ready', ready'[i] = k
                   PROVE  InReady(k) /\ k # Head(ready)
      BY DEF InReady
    <3>2. i + 1 \in DOMAIN ready /\ ready[i + 1] = k /\ i + 1 # 1
      BY <1>1, <3>1
    <3>3. QED
      BY <1>1, <3>2 DEF InReady
  <2>2. InReady(k) /\ k # Head(ready) => InReady(k)'
    <3>1. SUFFICES ASSUME NEW i \in DOMAIN ready, ready[i] = k, k # Head(ready)
                   PROVE  InReady(k)'
      BY DEF InReady
    <3>2. i - 1 \in DOMAIN ready' /\ ready'[i - 1] = k
      BY <1>1, <3>1
    <3>3. QED
      BY <3>2 DEF InReady
  <2>3. QED
    BY <2>1, <2>2
<1>4. \A i, k \in DOMAIN ready' : ready'[i] = ready'[k] => i = k
  <2>1. SUFFICES ASSUME NEW i \in DOMAIN ready', NEW k \in DOMAIN ready', ready'[i] = ready'[k]
                 PROVE  i = k
    OBVIOUS
  <2>2. /\ i + 1 \in DOMAIN ready /\ k + 1 \in DOMAIN ready
        /\ ready[i + 1] = ready[k + 1]
    BY <1>1, <2>1
  <2>3. QED
    BY <1>1, <2>2
<1>5. QED
  BY <1>1, <1>2, <1>3, <1>4

\* A function on 1..n is a sequence of length n.
LEMMA FunctionIsSeq ==
    ASSUME NEW S, NEW n \in Nat, NEW f \in [1..n -> S]
    PROVE  f \in Seq(S) /\ Len(f) = n /\ DOMAIN f = 1..n
OBVIOUS

\* recover_stale appends the expired ids, each once.
LEMMA ReclaimEffect ==
    ASSUME ready \in Seq(Jobs), NEW s \in Nat, ReclaimExpired(s), inflight \subseteq Jobs,
           lease \in [Jobs -> Nat]
    PROVE  /\ ready' \in Seq(Jobs)
           /\ \A k \in Jobs : InReady(k)' <=> InReady(k) \/ k \in Expired(s)
           /\ (\A i, k \in DOMAIN ready : ready[i] = ready[k] => i = k)
              /\ (\A k \in Jobs : InReady(k) => k \notin inflight)
                => \A i, k \in DOMAIN ready' : ready'[i] = ready'[k] => i = k
<1>1. PICK q \in ByScore(Expired(s)) : ready' = ready \o q
  BY DEF ReclaimExpired
<1>2. Expired(s) \subseteq inflight /\ Expired(s) \subseteq Jobs
  BY DEF Expired
<1> DEFINE c == Cardinality(Expired(s))
<1>3. /\ q \in [1..c -> Expired(s)]
      /\ \A j \in Expired(s) : \E i \in DOMAIN q : q[i] = j
      /\ \A i, k \in DOMAIN q : i < k => q[i] # q[k]
  BY <1>1 DEF ByScore
<1>4. /\ q \in Seq(Jobs) /\ Len(q) \in Nat /\ DOMAIN q = 1..Len(q)
      /\ \A i \in DOMAIN q : q[i] \in Expired(s)
  <2>1. c \in Nat
    BY <1>2, FS_Subset, FS_CardinalityType DEF QueueAssumption
  <2>2. q \in Seq(Expired(s)) /\ Len(q) = c /\ DOMAIN q = 1..c
    BY <2>1, <1>3, FunctionIsSeq
  <2>3. \A i \in DOMAIN q : q[i] \in Expired(s)
    BY <1>3
  <2>4. q \in Seq(Jobs)
    BY <2>2, <1>2
  <2>5. QED
    BY <2>1, <2>2, <2>3, <2>4
<1>5. /\ ready' \in Seq(Jobs)
      /\ DOMAIN ready = 1..Len(ready) /\ Len(ready) \in Nat
      /\ DOMAIN ready' = 1..(Len(ready) + Len(q))
      /\ \A i \in 1..Len(ready) : ready'[i] = ready[i]
      /\ \A i \in 1..Len(q) : ready'[Len(ready) + i] = q[i]
  BY <1>1, <1>4
<1>6. ASSUME NEW i \in DOMAIN ready'
      PROVE  \/ i \in DOMAIN ready /\ ready'[i] = ready[i]
             \/ \E m \in DOMAIN q : i = Len(ready) + m /\ ready'[i] = q[m]
  <2>1. CASE i \in 1..Len(ready)
    BY <2>1, <1>5
  <2>2. CASE i \notin 1..Len(ready)
    <3>1. i - Len(ready) \in DOMAIN q /\ i = Len(ready) + (i - Len(ready))
      BY <2>2, <1>4, <1>5
    <3>2. QED
      BY <3>1, <1>4, <1>5
  <2>3. QED
    BY <2>1, <2>2
<1>7. ASSUME NEW k \in Jobs
      PROVE  InReady(k)' <=> InReady(k) \/ k \in Expired(s)
  <2>1. InReady(k)' => InReady(k) \/ k \in Expired(s)
    BY <1>4, <1>6 DEF InReady
  <2>2. InReady(k) => InReady(k)'
    BY <1>4, <1>5 DEF InReady
  <2>3. k \in Expired(s) => InReady(k)'
    <3>1. SUFFICES ASSUME NEW m \in DOMAIN q, q[m] = k
                   PROVE  InReady(k)'
      BY <1>3
    <3>2. Len(ready) + m \in DOMAIN ready' /\ ready'[Len(ready) + m] = k
      BY <3>1, <1>4, <1>5
    <3>3. QED
      BY <3>2 DEF InReady
  <2>4. QED
    BY <2>1, <2>2, <2>3
<1>8. ASSUME \A i, k \in DOMAIN ready : ready[i] = ready[k] => i = k,
             \A k \in Jobs : InReady(k) => k \notin inflight,
             NEW i \in DOMAIN ready', NEW k \in DOMAIN ready', ready'[i] = ready'[k]
      PROVE  i = k
  <2>1. \A m, l \in DOMAIN q : q[m] = q[l] => m = l
    BY <1>3, <1>4
  <2>2. \A m \in DOMAIN ready : ready[m] \notin inflight
    BY <1>8 DEF InReady
  <2>3. \A m \in DOMAIN ready, l \in DOMAIN q : ready[m] # q[l]
    BY <2>2, <1>2, <1>4
  <2>4. QED
    BY <1>6, <1>8, <2>1, <2>3
<1>9. QED
  BY <1>5, <1>7, <1>8

-----------------------------------------------------------------------------
(* Types. *)

\* PopJob keeps the types of the keys.
LEMMA PopTypes ==
    ASSUME QueueTypeOK, NEW t \in 0..Visibility, PopJob(t)
    PROVE  QueueTypeOK' /\ Head(ready) \in Jobs
<1>1. ready' \in Seq(Jobs) /\ Head(ready) \in Jobs
  BY DEF PopJob, QueueTypeOK
<1>2. QED
  BY <1>1 DEF PopJob, QueueTypeOK

\* So does ReclaimExpired.
LEMMA ReclaimTypes ==
    ASSUME QueueTypeOK, NEW s \in Nat, ReclaimExpired(s)
    PROVE  QueueTypeOK'
<1>1. ready' \in Seq(Jobs)
  <2>1. lease \in [Jobs -> Nat]
    BY DEF QueueTypeOK, QueueAssumption
  <2>2. QED
    BY <2>1, ReclaimEffect DEF QueueTypeOK
<1>2. QED
  BY <1>1 DEF ReclaimExpired, QueueTypeOK, QueueAssumption

\* So does AckJob, whatever it is asked to acknowledge.
LEMMA AckTypes ==
    ASSUME QueueTypeOK, NEW j, AckJob(j)
    PROVE  QueueTypeOK'
<1>1. \A k \in Jobs : lease'[k] \in 0..Visibility
  BY DEF AckJob, QueueTypeOK, QueueAssumption
<1>2. lease' \in [Jobs -> 0..Visibility]
  BY <1>1 DEF AckJob, QueueTypeOK
<1>3. QED
  BY <1>2 DEF AckJob, QueueTypeOK

\* A report adds to the fate of one job.
LEMMA ReportTypes ==
    ASSUME TypeOK, NEW n \in Nodes, NEW outcome \in SUBSET Fates,
           NEW l \in PcStates, Report(n, outcome, l)
    PROVE  fate' \in [Jobs -> SUBSET Fates] /\ pc' \in [Nodes -> PcStates]
<1>1. \A k \in Jobs : fate'[k] = IF k = job[n] THEN fate[k] \cup outcome ELSE fate[k]
  BY DEF Report, TypeOK
<1>2. \A k \in Jobs : fate'[k] \in SUBSET Fates
  BY <1>1 DEF TypeOK
<1>3. fate' \in [Jobs -> SUBSET Fates]
  BY <1>2 DEF Report, TypeOK
<1>4. QED
  BY <1>3 DEF Report, Goto, TypeOK

\* Every step of the system keeps every variable in its type.
LEMMA TypeStep == TypeOK /\ [Next]_vars => TypeOK'
<1> USE DEF TypeOK, EnqStates, PcStates, Fates, procVars, histVars, bounds, queueVars
<1> SUFFICES ASSUME TypeOK, [Next]_vars
             PROVE  TypeOK'
  OBVIOUS
<1>1. ASSUME NEW j \in Jobs, Producer(j)
      PROVE  TypeOK'
  <2>1. CASE Hset(j)
    BY <2>1 DEF Hset, HsetJob, QueueTypeOK
  <2>2. CASE HsetFails(j)
    BY <2>2 DEF HsetFails, HsetJob, Fault, QueueTypeOK
  <2>3. CASE Lpush(j)
    BY <2>3 DEF Lpush, LpushJob, QueueTypeOK
  <2>4. CASE LpushFails(j)
    <3>1. ready' \in Seq(Jobs) /\ published' \in Seq(Jobs)
      <4>1. CASE LpushJob(j) /\ published' = Append(published, j)
        BY <4>1 DEF LpushJob, QueueTypeOK
      <4>2. CASE UNCHANGED queueVars /\ UNCHANGED published
        BY <4>2 DEF QueueTypeOK
      <4>3. QED
        BY <2>4, <4>1, <4>2 DEF LpushFails
    <3>2. store' = store /\ inflight' = inflight /\ lease' = lease
      BY <2>4 DEF LpushFails, LpushJob
    <3>3. QED
      BY <2>4, <3>1, <3>2 DEF LpushFails, Fault, QueueTypeOK
  <2>5. QED
    BY <1>1, <2>1, <2>2, <2>3, <2>4 DEF Producer
<1>2. ASSUME NEW n \in Nodes, WorkerStep(n)
      PROVE  TypeOK'
  <2>1. CASE Poll(n)
    BY <2>1 DEF Poll, Goto, QueueTypeOK, QueueAssumption
  <2>2. CASE Stop(n) \/ Wake(n)
    BY <2>2 DEF Stop, Wake, Goto, QueueTypeOK
  <2>3. CASE Dequeue(n)
    <3>1. QueueTypeOK' /\ Head(ready) \in Jobs
      BY <2>3, PopTypes DEF Dequeue
    <3>2. QED
      BY <2>3, <3>1 DEF Dequeue, Goto
  <2>4. CASE DequeueNone(n)
    <3>1. QueueTypeOK'
      BY <2>4, PopTypes DEF DequeueNone, QueueTypeOK
    <3>2. QED
      BY <2>4, <3>1 DEF DequeueNone, Goto, QueueAssumption
  <2>5. CASE HandleOk(n) \/ HandleErr(n) \/ NoHandler(n) \/ Capture(n)
    <3>1. PICK outcome \in SUBSET Fates, l \in PcStates : Report(n, outcome, l)
      BY <2>5 DEF HandleOk, HandleErr, NoHandler, Capture
    <3>2. fate' \in [Jobs -> SUBSET Fates] /\ pc' \in [Nodes -> PcStates]
      BY <3>1, ReportTypes
    <3>3. UNCHANGED bounds
      BY <2>5 DEF HandleOk, HandleErr, NoHandler, Capture
    <3>4. QED
      BY <3>1, <3>2, <3>3 DEF Report, QueueTypeOK
  <2>6. CASE Ack(n)
    <3>1. QueueTypeOK'
      BY <2>6, AckTypes DEF Ack
    <3>2. QED
      BY <2>6, <3>1 DEF Ack, Goto, QueueAssumption
  <2>7. QED
    BY <1>2, <2>1, <2>2, <2>3, <2>4, <2>5, <2>6 DEF WorkerStep
<1>3. ASSUME NEW n \in Nodes, NodeFailure(n)
      PROVE  TypeOK'
  <2>1. CASE DequeueFails(n)
    <3>1. QueueTypeOK'
      BY <2>1, PopTypes DEF DequeueFails, QueueTypeOK
    <3>2. delivered' \subseteq Jobs
      BY <2>1, PopTypes DEF DequeueFails
    <3>3. QED
      BY <2>1, <3>1, <3>2 DEF DequeueFails, Fault, Goto, QueueAssumption
  <2>2. CASE CaptureFails(n)
    <3>1. Report(n, {"unrecorded"}, "ack")
      BY <2>2 DEF CaptureFails
    <3>2. fate' \in [Jobs -> SUBSET Fates] /\ pc' \in [Nodes -> PcStates]
      BY <3>1, ReportTypes
    <3>3. QED
      BY <2>2, <3>1, <3>2 DEF CaptureFails, Fault, Report, QueueTypeOK
  <2>3. CASE AckFails(n)
    <3>1. QueueTypeOK'
      BY <2>3, AckTypes DEF AckFails, QueueTypeOK
    <3>2. QED
      BY <2>3, <3>1 DEF AckFails, Fault, Goto, QueueAssumption
  <2>4. CASE BootFails(n)
    BY <2>4 DEF BootFails, Fault, Goto, QueueTypeOK
  <2>5. CASE Crash(n)
    BY <2>5 DEF Crash, Leave, Fault, Goto, QueueTypeOK, QueueAssumption
  <2>6. QED
    BY <1>3, <2>1, <2>2, <2>3, <2>4, <2>5 DEF NodeFailure
<1>4. ASSUME NEW n \in Nodes, Lifecycle(n)
      PROVE  TypeOK'
  <2>1. CASE Boot(n)
    <3>1. QueueTypeOK'
      BY <2>1, ReclaimTypes DEF Boot, QueueAssumption
    <3>2. QED
      BY <2>1, <3>1 DEF Boot, Goto
  <2>2. CASE Exit(n)
    BY <2>2 DEF Exit, Leave, Goto, QueueTypeOK, QueueAssumption
  <2>3. CASE Restart(n)
    BY <2>3 DEF Restart, Goto, QueueTypeOK
  <2>4. QED
    BY <1>4, <2>1, <2>2, <2>3 DEF Lifecycle
<1>5. ASSUME NEW n \in Nodes, Reap(n)
      PROVE  TypeOK'
  <2>1. QueueTypeOK'
    BY <1>5, ReclaimTypes DEF Reap, QueueAssumption
  <2>2. QED
    BY <1>5, <2>1 DEF Reap
<1>6. ASSUME NEW n \in Nodes, Shutdown(n)
      PROVE  TypeOK'
  BY <1>6 DEF Shutdown, QueueTypeOK
<1>7. CASE Tick
  BY <1>7 DEF Tick, AgeLeases, Less, QueueTypeOK, QueueAssumption
<1>8. CASE UNCHANGED vars
  BY <1>8 DEF vars, QueueTypeOK
<1>9. QED
  BY <1>1, <1>2, <1>3, <1>4, <1>5, <1>6, <1>7, <1>8 DEF Next

\* Type correctness of the keys of core/queue/redis.rs and of the loops of
\* web/mod.rs that use them.
THEOREM TypeCorrect == Spec => []TypeOK
<1>1. Init => TypeOK
  BY DEF Init, QueueInit, TypeOK, QueueTypeOK, EnqStates, PcStates, Fates, QueueAssumption
<1>2. QED
  BY <1>1, TypeStep, PTL DEF Spec

-----------------------------------------------------------------------------
(* The inductive invariant. *)

\* The step gives no worker a new job: who holds one held it before, with the
\* same deadline, and does not acknowledge it without an outcome.
HoldersKept ==
    \A n \in Nodes : pc'[n] \in Holding =>
        /\ pc[n] \in Holding /\ job'[n] = job[n] /\ left'[n] = left[n]
        /\ pc'[n] = "ack" => fate'[job[n]] # {}

\* Every part of IInv but those about the holders.
QueueInv == ReadyInv /\ KeysInv /\ EnqueueInv /\ NotLost

\* What such a step means for the holders, if it takes no lease or payload
\* away that they rely on.
LEMMA HoldersStep ==
    ASSUME IInv, HoldersKept,
           \A j \in Jobs : IsPublished(j) => IsPublished(j)',
           \A j \in Jobs : j \in inflight /\ lease[j] > MaxSkew /\ j \in store' =>
               j \in inflight' /\ lease'[j] = lease[j],
           \A j \in Jobs : IsPublished(j) /\ j \in store' => j \in store
    PROVE  HolderInv' /\ LeaseInv' /\ ExclusiveLease'
<1> USE DEF IInv
<1>1. HolderInv'
  <2>1. ASSUME NEW n \in Nodes, pc'[n] \in Holding
        PROVE  /\ job'[n] \in Jobs
               /\ \E i \in DOMAIN published' : published'[i] = job'[n]
               /\ pc'[n] = "ack" => fate'[job'[n]] # {}
    <3>1. job'[n] = job[n] /\ job[n] \in Jobs /\ IsPublished(job[n])
      BY <2>1 DEF HoldersKept, HolderInv
    <3>2. \E i \in DOMAIN published' : published'[i] = job[n]
      BY <3>1 DEF IsPublished
    <3>3. QED
      BY <2>1, <3>1, <3>2 DEF HoldersKept
  <2>2. "ack" \in Holding
    BY DEF Holding
  <2>3. QED
    BY <2>1, <2>2 DEF HolderInv, IsPublished
<1>2. ASSUME NEW n \in Nodes, NEW j \in Jobs, Holds(n, j)'
      PROVE  Holds(n, j) /\ left'[n] = left[n] /\ IsPublished(j)
  BY <1>2 DEF Holds, HoldersKept, HolderInv
<1>3. LeaseInv'
  <2>1. SUFFICES ASSUME NEW n \in Nodes, NEW j \in Jobs,
                        Holds(n, j)', left'[n] > MaxSkew, j \in store'
                 PROVE  j \in inflight' /\ lease'[j] = left'[n]
    BY DEF LeaseInv
  <2>2. Holds(n, j) /\ left'[n] = left[n] /\ j \in store
    BY <1>2, <2>1
  <2>3. j \in inflight /\ lease[j] = left[n]
    BY <2>1, <2>2 DEF LeaseInv
  <2>4. QED
    BY <2>1, <2>2, <2>3
<1>4. ExclusiveLease'
  BY <1>2 DEF ExclusiveLease
<1>5. QED
  BY <1>1, <1>3, <1>4

\* Steps that leave the keys alone.
LEMMA QuietStep ==
    ASSUME IInv, TypeOK', UNCHANGED <<queueVars, published>>, HoldersKept,
           \A j \in Jobs : fate[j] \subseteq fate'[j],
           \A j \in Jobs : enq'[j] \in {enq[j], "failed"}
    PROVE  IInv'
<1> USE DEF IInv, queueVars
<1>1. \A j \in Jobs : (InReady(j)' <=> InReady(j)) /\ (IsPublished(j)' <=> IsPublished(j))
  BY DEF InReady, IsPublished
<1>2. ReadyInv'
  BY <1>1 DEF ReadyInv
<1>3. KeysInv'
  BY <1>1 DEF KeysInv, TypeOK, QueueTypeOK
<1>4. EnqueueInv'
  BY <1>1 DEF EnqueueInv
<1>5. NotLost'
  BY <1>1 DEF NotLost
<1>6. HolderInv' /\ LeaseInv' /\ ExclusiveLease'
  BY <1>1, HoldersStep
<1>7. QED
  BY <1>2, <1>3, <1>4, <1>5, <1>6

\* HSET writes the payload of a job that nobody has heard of.
LEMMA HsetStep ==
    ASSUME IInv, TypeOK', NEW j \in Jobs, enq[j] = "none", HsetJob(j),
           NEW e \in {"stored", "failed"}, enq' = [enq EXCEPT ![j] = e],
           UNCHANGED <<fate, published, procVars>>
    PROVE  IInv'
<1> USE DEF IInv, HsetJob, procVars
<1>1. \A k \in Jobs : (InReady(k)' <=> InReady(k)) /\ (IsPublished(k)' <=> IsPublished(k))
  BY DEF InReady, IsPublished
<1>2. ~IsPublished(j)
  BY DEF EnqueueInv
<1>3. ReadyInv'
  BY <1>1 DEF ReadyInv
<1>4. KeysInv'
  BY <1>1 DEF KeysInv, TypeOK, QueueTypeOK
<1>5. EnqueueInv'
  BY <1>1, <1>2 DEF EnqueueInv, TypeOK
<1>6. NotLost'
  BY <1>1, <1>2 DEF NotLost
<1>7. HolderInv' /\ LeaseInv' /\ ExclusiveLease'
  <2>1. HoldersKept
    BY DEF HoldersKept, HolderInv
  <2>2. \A k \in Jobs : IsPublished(k) /\ k \in store' => k \in store
    BY <1>2
  <2>3. QED
    BY <1>1, <2>1, <2>2, HoldersStep
<1>8. QED
  BY <1>3, <1>4, <1>5, <1>6, <1>7

\* LPUSH publishes a job whose payload is stored.
LEMMA LpushStep ==
    ASSUME IInv, TypeOK', NEW j \in Jobs, enq[j] = "stored", LpushJob(j),
           published' = Append(published, j),
           NEW e \in {"ok", "failed"}, enq' = [enq EXCEPT ![j] = e],
           UNCHANGED <<fate, procVars>>
    PROVE  IInv'
<1> USE DEF IInv, procVars
<1>1. /\ ~IsPublished(j) /\ j \in store
      /\ ~InReady(j) /\ j \notin inflight
  BY DEF EnqueueInv, KeysInv
<1>2. \A k \in Jobs : IsPublished(k)' <=> IsPublished(k) \/ k = j
  <2>1. /\ published \in Seq(Jobs) /\ Len(published) \in Nat
        /\ DOMAIN published = 1..Len(published)
        /\ DOMAIN published' = 1..(Len(published) + 1)
        /\ \A i \in 1..Len(published) : published'[i] = published[i]
        /\ published'[Len(published) + 1] = j
    BY DEF TypeOK
  <2>2. QED
    BY <2>1 DEF IsPublished
<1>3. \A k \in Jobs : InReady(k)' <=> InReady(k) \/ k = j
  BY LpushEffect DEF TypeOK, QueueTypeOK
<1>4. store' = store /\ inflight' = inflight /\ lease' = lease
  BY DEF LpushJob
<1>5. ReadyInv'
  <2>1. \A i, k \in DOMAIN ready' : ready'[i] = ready'[k] => i = k
    BY <1>1, LpushEffect DEF ReadyInv, TypeOK, QueueTypeOK
  <2>2. QED
    BY <2>1, <1>1, <1>3, <1>4 DEF ReadyInv
<1>6. KeysInv'
  BY <1>2, <1>3, <1>4 DEF KeysInv, TypeOK, QueueTypeOK
<1>7. EnqueueInv'
  BY <1>1, <1>2, <1>4 DEF EnqueueInv, TypeOK
<1>8. NotLost'
  BY <1>1, <1>2, <1>3, <1>4 DEF NotLost
<1>9. HolderInv' /\ LeaseInv' /\ ExclusiveLease'
  <2>1. HoldersKept
    BY DEF HoldersKept, HolderInv
  <2>2. QED
    BY <1>2, <1>4, <2>1, HoldersStep
<1>10. QED
  BY <1>5, <1>6, <1>7, <1>8, <1>9

\* dequeue's script moves the first id from the list to a lease.
LEMMA PopKeys ==
    ASSUME IInv, NEW t \in 0..Visibility, PopJob(t), UNCHANGED <<enq, fate, published>>
    PROVE  /\ QueueInv'
           /\ Head(ready) \in Jobs /\ Head(ready) \notin inflight
           /\ IsPublished(Head(ready))
<1> USE DEF IInv
<1> DEFINE h == Head(ready)
<1>1. /\ h \in Jobs /\ InReady(h)
      /\ \A k \in Jobs : InReady(k)' <=> InReady(k) /\ k # h
      /\ \A i, k \in DOMAIN ready' : ready'[i] = ready'[k] => i = k
  BY PopEffect DEF PopJob, TypeOK, QueueTypeOK, ReadyInv
<1>2. h \notin inflight /\ IsPublished(h)
  BY <1>1 DEF ReadyInv, KeysInv
<1>3. /\ store' = store
      /\ inflight' = IF h \in store THEN inflight \cup {h} ELSE inflight
  BY DEF PopJob
<1>4. \A k \in Jobs : IsPublished(k)' <=> IsPublished(k)
  BY DEF IsPublished
<1> HIDE DEF h
<1>5. ReadyInv'
  BY <1>1, <1>3 DEF ReadyInv
<1>6. KeysInv'
  BY <1>1, <1>2, <1>3, <1>4 DEF KeysInv, TypeOK, QueueTypeOK
<1>7. EnqueueInv'
  BY <1>3, <1>4 DEF EnqueueInv
<1>8. NotLost'
  BY <1>1, <1>3, <1>4 DEF NotLost
<1>9. QED
  BY <1>1, <1>2, <1>5, <1>6, <1>7, <1>8 DEF h, QueueInv

\* A dequeue whose job no worker gets: its reply is lost, or it is None.
LEMMA PopStep ==
    ASSUME IInv, TypeOK', NEW t \in 0..Visibility, PopJob(t), HoldersKept,
           UNCHANGED <<enq, fate, published>>
    PROVE  IInv'
<1>1. QueueInv' /\ Head(ready) \in Jobs /\ Head(ready) \notin inflight
  BY PopKeys
<1>2. \A j \in Jobs : IsPublished(j) => IsPublished(j)'
  BY DEF IsPublished
<1>3. \A j \in Jobs : j \in inflight => j \in inflight' /\ lease'[j] = lease[j]
  BY <1>1 DEF PopJob, IInv, TypeOK, QueueTypeOK
<1>4. store' = store
  BY DEF PopJob
<1>5. HolderInv' /\ LeaseInv' /\ ExclusiveLease'
  BY <1>2, <1>3, <1>4, HoldersStep
<1>6. QED
  BY <1>1, <1>5 DEF QueueInv, IInv

\* A worker is given a job with a fresh lease.  Any other holder of the job
\* has outlived its own lease, or the job would not have been in the list.
LEMMA DequeueStep ==
    ASSUME IInv, TypeOK', NEW n \in Nodes, Dequeue(n)
    PROVE  IInv'
<1> USE DEF IInv
<1> DEFINE h == Head(ready)
<1>1. left[n] \in 0..Visibility /\ pc \in [Nodes -> PcStates] /\ n \in DOMAIN job
  BY DEF TypeOK
<1>2. /\ QueueInv'
      /\ h \in Jobs /\ h \notin inflight /\ IsPublished(h)
  BY <1>1, PopKeys DEF Dequeue
<1>3. /\ store' = store /\ h \in store
      /\ inflight' = inflight \cup {h} /\ lease' = [lease EXCEPT ![h] = left[n]]
      /\ left' = left /\ fate' = fate
      /\ pc' = [pc EXCEPT ![n] = "handle"] /\ job' = [job EXCEPT ![n] = h]
  BY DEF Dequeue, PopJob, Goto
<1>4. \A k \in Jobs : IsPublished(k)' <=> IsPublished(k)
  BY DEF Dequeue, IsPublished
<1> HIDE DEF h
<1>5. ASSUME NEW m \in Nodes
      PROVE  /\ m # n => pc'[m] = pc[m] /\ job'[m] = job[m]
             /\ m = n => pc'[m] = "handle" /\ job'[m] = h
  BY <1>1, <1>3 DEF TypeOK
<1>6. HolderInv'
  <2>1. ASSUME NEW m \in Nodes, pc'[m] \in Holding
        PROVE  /\ job'[m] \in Jobs
               /\ \E i \in DOMAIN published' : published'[i] = job'[m]
               /\ pc'[m] = "ack" => fate'[job'[m]] # {}
    <3>1. CASE m = n
      BY <3>1, <1>2, <1>5 DEF Dequeue, IsPublished
    <3>2. CASE m # n
      BY <2>1, <3>2, <1>3, <1>5 DEF Dequeue, HolderInv, IsPublished
    <3>3. QED
      BY <3>1, <3>2
  <2>2. "ack" \in Holding
    BY DEF Holding
  <2>3. QED
    BY <2>1, <2>2 DEF HolderInv, IsPublished
<1>7. ASSUME NEW m \in Nodes, NEW j \in Jobs, Holds(m, j)'
      PROVE  (m # n /\ Holds(m, j)) \/ (m = n /\ j = h)
  BY <1>5, <1>7 DEF Holds
<1>8. ASSUME NEW m \in Nodes, Holds(m, h)
      PROVE  left[m] <= MaxSkew
  <2>1. left[m] \in Nat
    BY DEF TypeOK
  <2>2. ~(left[m] > MaxSkew)
    BY <1>2, <1>3, <1>8 DEF LeaseInv
  <2>3. QED
    BY <2>1, <2>2
<1>9. LeaseInv'
  <2>1. SUFFICES ASSUME NEW m \in Nodes, NEW j \in Jobs,
                        Holds(m, j)', left'[m] > MaxSkew, j \in store'
                 PROVE  j \in inflight' /\ lease'[j] = left'[m]
    BY DEF LeaseInv
  <2>2. CASE m = n /\ j = h
    BY <2>2, <1>3 DEF TypeOK, QueueTypeOK
  <2>3. CASE m # n /\ Holds(m, j)
    <3>1. j \in inflight /\ lease[j] = left[m]
      BY <2>1, <2>3, <1>3 DEF LeaseInv
    <3>2. j # h
      BY <3>1, <1>2
    <3>3. QED
      BY <3>1, <3>2, <1>3 DEF TypeOK, QueueTypeOK
  <2>4. QED
    BY <2>1, <2>2, <2>3, <1>7
<1>10. ExclusiveLease'
  <2>1. SUFFICES ASSUME NEW l \in Nodes, NEW m \in Nodes, NEW j \in Jobs,
                        l # m, Holds(l, j)', Holds(m, j)'
                 PROVE  left'[l] <= MaxSkew \/ left'[m] <= MaxSkew
    BY DEF ExclusiveLease
  <2>2. CASE l # n /\ m # n
    BY <2>1, <2>2, <1>3, <1>7 DEF ExclusiveLease
  <2>3. CASE l = n \/ m = n
    BY <2>1, <2>3, <1>3, <1>7, <1>8
  <2>4. QED
    BY <2>2, <2>3
<1>11. QED
  BY <1>2, <1>6, <1>9, <1>10 DEF QueueInv

\* acknowledge's script removes a job that has an outcome, for whoever calls
\* it and wherever the job is.
LEMMA AckStep ==
    ASSUME IInv, TypeOK', NEW j \in Jobs, AckJob(j), IsPublished(j), fate[j] # {},
           HoldersKept, UNCHANGED <<enq, fate, published>>
    PROVE  IInv'
<1> USE DEF IInv
<1>1. /\ ready' = ready /\ store' = store \ {j} /\ inflight' = inflight \ {j}
      /\ \A k \in Jobs : k # j => lease'[k] = lease[k]
  BY DEF AckJob, TypeOK, QueueTypeOK
<1>2. \A k \in Jobs : (InReady(k)' <=> InReady(k)) /\ (IsPublished(k)' <=> IsPublished(k))
  BY <1>1 DEF InReady, IsPublished
<1>3. ReadyInv'
  BY <1>1, <1>2 DEF ReadyInv
<1>4. KeysInv'
  BY <1>1, <1>2 DEF KeysInv, TypeOK, QueueTypeOK
<1>5. EnqueueInv'
  BY <1>1, <1>2 DEF EnqueueInv
<1>6. NotLost'
  BY <1>1, <1>2 DEF NotLost
<1>7. HolderInv' /\ LeaseInv' /\ ExclusiveLease'
  BY <1>1, <1>2, HoldersStep
<1>8. QED
  BY <1>3, <1>4, <1>5, <1>6, <1>7

\* recover_stale's script puts expired jobs back, and no other.
LEMMA ReclaimStep ==
    ASSUME IInv, TypeOK', NEW s \in 0..MaxSkew, ReclaimExpired(s),
           HoldersKept, UNCHANGED <<enq, fate, published>>
    PROVE  IInv'
<1> USE DEF IInv
<1>1. s \in Nat /\ s <= MaxSkew
  OBVIOUS
<1>2. inflight \subseteq Jobs /\ lease \in [Jobs -> Nat] /\ ready \in Seq(Jobs)
  BY DEF TypeOK, QueueTypeOK
<1>3. /\ \A k \in Jobs : InReady(k)' <=> InReady(k) \/ k \in Expired(s)
      /\ \A i, k \in DOMAIN ready' : ready'[i] = ready'[k] => i = k
  BY <1>1, <1>2, ReclaimEffect DEF ReadyInv
<1>4. /\ store' = store /\ inflight' = inflight \ Expired(s)
      /\ \A k \in Jobs : k \notin Expired(s) => lease'[k] = lease[k]
      /\ Expired(s) \subseteq inflight
      /\ \A k \in Expired(s) : lease[k] <= MaxSkew
  BY <1>1, <1>2 DEF ReclaimExpired, Expired
<1>5. \A k \in Jobs : IsPublished(k)' <=> IsPublished(k)
  BY DEF IsPublished
<1>6. ReadyInv'
  BY <1>3, <1>4 DEF ReadyInv
<1>7. KeysInv'
  BY <1>2, <1>3, <1>4, <1>5 DEF KeysInv
<1>8. EnqueueInv'
  BY <1>4, <1>5 DEF EnqueueInv
<1>9. NotLost'
  BY <1>3, <1>4, <1>5 DEF NotLost
<1>10. HolderInv' /\ LeaseInv' /\ ExclusiveLease'
  <2>1. \A j \in Jobs : j \in inflight /\ lease[j] > MaxSkew =>
            j \in inflight' /\ lease'[j] = lease[j]
    BY <1>2, <1>4
  <2>2. QED
    BY <2>1, <1>4, <1>5, HoldersStep
<1>11. QED
  BY <1>6, <1>7, <1>8, <1>9, <1>10

\* Time passes at the same pace for a lease and for its holder's deadline.
LEMMA TickStep ==
    ASSUME IInv, TypeOK', Tick
    PROVE  IInv'
<1> USE DEF IInv
<1>1. /\ ready' = ready /\ store' = store /\ inflight' = inflight
      /\ enq' = enq /\ pc' = pc /\ job' = job /\ fate' = fate /\ published' = published
      /\ \A j \in Jobs : lease[j] \in Nat /\ lease'[j] = Less(lease[j])
      /\ \A n \in Nodes : left[n] \in Nat /\ left'[n] = Less(left[n])
  BY DEF Tick, AgeLeases, procVars, histVars, TypeOK, QueueTypeOK
<1>2. \A k \in Jobs : (InReady(k)' <=> InReady(k)) /\ (IsPublished(k)' <=> IsPublished(k))
  BY <1>1 DEF InReady, IsPublished
<1>3. \A n \in Nodes, j \in Jobs : Holds(n, j)' <=> Holds(n, j)
  BY <1>1 DEF Holds
<1>4. \A n \in Nodes : left'[n] > MaxSkew => left[n] > MaxSkew
  BY <1>1 DEF Less
<1>5. ReadyInv'
  BY <1>1, <1>2 DEF ReadyInv
<1>6. KeysInv'
  BY <1>1, <1>2 DEF KeysInv, TypeOK, QueueTypeOK
<1>7. EnqueueInv'
  BY <1>1, <1>2 DEF EnqueueInv
<1>8. NotLost'
  BY <1>1, <1>2 DEF NotLost
<1>9. HolderInv'
  BY <1>1 DEF HolderInv, IsPublished
<1>10. LeaseInv'
  BY <1>1, <1>3, <1>4 DEF LeaseInv
<1>11. ExclusiveLease'
  <2>1. \A n \in Nodes : left[n] <= MaxSkew => left'[n] <= MaxSkew
    BY <1>1 DEF Less
  <2>2. QED
    BY <2>1, <1>3 DEF ExclusiveLease
<1>12. QED
  BY <1>5, <1>6, <1>7, <1>8, <1>9, <1>10, <1>11

\* A worker that goes where it holds nothing leaves the other holders alone.
LEMMA LeaveKeepsHolders ==
    ASSUME IInv, NEW n \in Nodes, NEW l, l \notin Holding, Goto(n, l),
           \A m \in Nodes \ {n} : job'[m] = job[m] /\ left'[m] = left[m],
           UNCHANGED fate
    PROVE  HoldersKept
<1>1. \A m \in Nodes : pc'[m] = IF m = n THEN l ELSE pc[m]
  BY DEF Goto, IInv, TypeOK
<1>2. QED
  BY <1>1 DEF HoldersKept, IInv, HolderInv

\* What a worker reports of its job changes nothing else; it goes on to
\* acknowledge the job only with an outcome.
LEMMA ReportStep ==
    ASSUME IInv, TypeOK', NEW n \in Nodes, pc[n] \in Holding,
           NEW outcome, NEW l, Report(n, outcome, l), l = "ack" => outcome # {}
    PROVE  IInv'
<1>1. \A m \in Nodes : pc'[m] = IF m = n THEN l ELSE pc[m]
  BY DEF Report, Goto, IInv, TypeOK
<1>2. \A k \in Jobs : fate'[k] = IF k = job[n] THEN fate[k] \cup outcome ELSE fate[k]
  BY DEF Report, IInv, TypeOK
<1>3. job[n] \in Jobs
  BY DEF IInv, HolderInv
<1>4. HoldersKept
  <2>1. SUFFICES ASSUME NEW m \in Nodes, pc'[m] \in Holding
                 PROVE  /\ pc[m] \in Holding /\ job'[m] = job[m] /\ left'[m] = left[m]
                        /\ pc'[m] = "ack" => fate'[job[m]] # {}
    BY DEF HoldersKept
  <2>2. pc[m] \in Holding /\ job'[m] = job[m] /\ left'[m] = left[m]
    BY <1>1, <2>1 DEF Report
  <2>3. job[m] \in Jobs /\ (pc[m] = "ack" => fate[job[m]] # {})
    BY <2>2 DEF IInv, HolderInv
  <2>4. QED
    BY <1>1, <1>2, <2>2, <2>3
<1>5. QED
  BY <1>2, <1>4, QuietStep DEF Report

\* Every step keeps the inductive invariant.
LEMMA InvStep == IInv /\ [Next]_vars => IInv'
<1> SUFFICES ASSUME IInv, [Next]_vars
             PROVE  IInv'
  OBVIOUS
<1> USE DEF procVars, histVars
<1>1. TypeOK /\ TypeOK'
  BY TypeStep DEF IInv
<1>2. ASSUME NEW j \in Jobs, Producer(j)
      PROVE  IInv'
  <2>1. CASE Hset(j)
    BY <1>1, <2>1, HsetStep DEF Hset
  <2>2. CASE HsetFails(j) /\ HsetJob(j)
    BY <1>1, <2>2, HsetStep DEF HsetFails
  <2>3. CASE Lpush(j)
    BY <1>1, <2>3, LpushStep DEF Lpush
  <2>4. CASE LpushFails(j) /\ LpushJob(j) /\ published' = Append(published, j)
    BY <1>1, <2>4, LpushStep DEF LpushFails
  <2>5. CASE /\ HsetFails(j) \/ LpushFails(j)
             /\ UNCHANGED <<queueVars, published>>
    <3>1. HoldersKept
      BY <2>5 DEF HsetFails, LpushFails, HoldersKept, IInv, HolderInv
    <3>2. fate' = fate /\ \A k \in Jobs : enq'[k] \in {enq[k], "failed"}
      BY <1>1, <2>5 DEF HsetFails, LpushFails, TypeOK
    <3>3. QED
      BY <1>1, <2>5, <3>1, <3>2, QuietStep
  <2>6. QED
    BY <1>2, <2>1, <2>2, <2>3, <2>4, <2>5 DEF Producer, HsetFails, LpushFails
<1>3. ASSUME NEW n \in Nodes,
             \/ Poll(n) \/ Stop(n) \/ Wake(n) \/ BootFails(n) \/ Exit(n) \/ Crash(n) \/ Restart(n)
             \/ DequeueNone(n) /\ UNCHANGED queueVars
             \/ DequeueFails(n) /\ UNCHANGED queueVars
             \/ AckFails(n) /\ UNCHANGED queueVars
      PROVE  IInv'
  <2>1. /\ \E l \in PcStates \ Holding : Goto(n, l)
        /\ \A m \in Nodes \ {n} : job'[m] = job[m] /\ left'[m] = left[m]
        /\ UNCHANGED <<queueVars, published, fate, enq>>
    BY <1>1, <1>3 DEF Poll, Stop, Wake, BootFails, Exit, Crash, Leave, Restart, DequeueNone,
       DequeueFails, AckFails, PcStates, Holding, TypeOK
  <2>2. HoldersKept
    BY <2>1, LeaveKeepsHolders
  <2>3. QED
    BY <1>1, <2>1, <2>2, QuietStep
<1>4. ASSUME NEW n \in Nodes, DequeueNone(n) \/ DequeueFails(n), PopJob(left[n])
      PROVE  IInv'
  <2>1. /\ Goto(n, "idle") /\ "idle" \notin Holding
        /\ \A m \in Nodes \ {n} : job'[m] = job[m] /\ left'[m] = left[m]
        /\ UNCHANGED <<enq, fate, published>>
    BY <1>1, <1>4 DEF DequeueNone, DequeueFails, Holding, TypeOK
  <2>2. HoldersKept
    BY <2>1, LeaveKeepsHolders
  <2>3. left[n] \in 0..Visibility
    BY <1>1 DEF TypeOK
  <2>4. QED
    BY <1>1, <1>4, <2>1, <2>2, <2>3, PopStep
<1>5. ASSUME NEW n \in Nodes, Ack(n) \/ AckFails(n), AckJob(job[n])
      PROVE  IInv'
  <2>1. /\ Goto(n, "poll") /\ "poll" \notin Holding
        /\ \A m \in Nodes \ {n} : job'[m] = job[m] /\ left'[m] = left[m]
        /\ UNCHANGED <<enq, fate, published>>
    BY <1>1, <1>5 DEF Ack, AckFails, Holding, TypeOK
  <2>2. HoldersKept
    BY <2>1, LeaveKeepsHolders
  <2>3. job[n] \in Jobs /\ IsPublished(job[n]) /\ fate[job[n]] # {}
    BY <1>5 DEF Ack, AckFails, IInv, HolderInv, Holding
  <2>4. QED
    BY <1>1, <1>5, <2>1, <2>2, <2>3, AckStep
<1>6. ASSUME NEW n \in Nodes,
             HandleOk(n) \/ HandleErr(n) \/ NoHandler(n) \/ Capture(n) \/ CaptureFails(n)
      PROVE  IInv'
  <2>1. PICK outcome \in SUBSET Fates, l \in PcStates :
            Report(n, outcome, l) /\ (l = "ack" => outcome # {})
    BY <1>6 DEF HandleOk, HandleErr, NoHandler, Capture, CaptureFails, Fates, PcStates
  <2>2. pc[n] \in Holding
    BY <1>6 DEF HandleOk, HandleErr, NoHandler, Capture, CaptureFails, Holding
  <2>3. QED
    BY <1>1, <2>1, <2>2, ReportStep
<1>7. ASSUME NEW n \in Nodes, Reap(n)
      PROVE  IInv'
  <2>1. HoldersKept
    BY <1>7 DEF Reap, HoldersKept, IInv, HolderInv
  <2>2. QED
    BY <1>1, <1>7, <2>1, ReclaimStep DEF Reap
<1>8. ASSUME NEW n \in Nodes, Boot(n)
      PROVE  IInv'
  <2>1. HoldersKept
    BY <1>8, LeaveKeepsHolders DEF Boot, Holding
  <2>2. QED
    BY <1>1, <1>8, <2>1, ReclaimStep DEF Boot
<1>9. ASSUME NEW n \in Nodes, Shutdown(n)
      PROVE  IInv'
  <2>1. HoldersKept
    BY <1>9 DEF Shutdown, HoldersKept, IInv, HolderInv
  <2>2. QED
    BY <1>1, <1>9, <2>1, QuietStep DEF Shutdown
<1>10. ASSUME NEW n \in Nodes, WorkerStep(n) \/ NodeFailure(n) \/ Lifecycle(n)
       PROVE  IInv'
  <2>1. DequeueNone(n) => UNCHANGED queueVars \/ PopJob(left[n])
    BY DEF DequeueNone
  <2>2. DequeueFails(n) => UNCHANGED queueVars \/ PopJob(left[n])
    BY DEF DequeueFails
  <2>3. Ack(n) => AckJob(job[n])
    BY DEF Ack
  <2>4. AckFails(n) => UNCHANGED queueVars \/ AckJob(job[n])
    BY DEF AckFails
  <2>5. Dequeue(n) => IInv'
    BY <1>1, DequeueStep
  <2>6. QED
    BY <1>3, <1>4, <1>5, <1>6, <1>8, <1>10, <2>1, <2>2, <2>3, <2>4, <2>5
       DEF WorkerStep, NodeFailure, Lifecycle
<1>11. CASE Tick
  BY <1>1, <1>11, TickStep
<1>12. CASE UNCHANGED vars
  <2>1. HoldersKept
    BY <1>12 DEF vars, HoldersKept, IInv, HolderInv
  <2>2. QED
    BY <1>1, <1>12, <2>1, QuietStep DEF vars, queueVars
<1>13. QED
  BY <1>2, <1>7, <1>9, <1>10, <1>11, <1>12 DEF Next

\* It holds of the initial states.
LEMMA InitInv == Init => IInv
<1> SUFFICES ASSUME Init
             PROVE  IInv
  OBVIOUS
<1>1. TypeOK
  BY DEF Init, QueueInit, TypeOK, QueueTypeOK, EnqStates, PcStates, Fates
<1>2. ReadyInv /\ KeysInv /\ EnqueueInv /\ NotLost
  BY DEF Init, QueueInit, ReadyInv, KeysInv, EnqueueInv, NotLost, InReady, IsPublished
<1>3. HolderInv /\ LeaseInv /\ ExclusiveLease
  BY DEF Init, HolderInv, LeaseInv, ExclusiveLease, Holds, Holding
<1>4. QED
  BY <1>1, <1>2, <1>3 DEF IInv

\* The invariant behind the theorems below.
THEOREM Invariance == Spec => []IInv
BY InitInv, InvStep, PTL DEF Spec

\* However many jobs, nodes, failures and crashes: a published job whose
\* payload is stored is in the list or under lease, and a job whose payload is
\* gone had an outcome (core/queue/redis.rs under the loops of web/mod.rs).
THEOREM NothingLost == Spec => []NotLost
<1>1. IInv => NotLost
  BY DEF IInv
<1>2. QED
  BY <1>1, Invariance, PTL

\* For any visibility timeout and clock skew: two workers hold the same job
\* only when one of them has outlived its lease (dequeue, recover_stale).
THEOREM LeaseIsExclusive == Spec => []ExclusiveLease
<1>1. IInv => ExclusiveLease
  BY DEF IInv
<1>2. QED
  BY <1>1, Invariance, PTL

-----------------------------------------------------------------------------
(* Shutdown. *)

\* A worker that has taken a job since it was told to stop does not come back
\* to dequeue.
StopInv == \A n \in Nodes : late[n] \in {0, 1} /\ (late[n] = 1 => stopping[n] /\ pc[n] # "fetch")

\* Only a dequeue that was under way when the flag was set still takes a job.
LEMMA StopStep == TypeOK /\ StopInv /\ [Next]_vars => StopInv'
<1> SUFFICES ASSUME TypeOK, StopInv, [Next]_vars
             PROVE  StopInv'
  OBVIOUS
<1> USE DEF TypeOK, StopInv, procVars, histVars, Goto
<1>1. CASE \E j \in Jobs : Producer(j)
  BY <1>1 DEF Producer, Hset, HsetFails, Lpush, LpushFails
<1>2. ASSUME NEW n \in Nodes, WorkerStep(n)
      PROVE  StopInv'
  <2>1. CASE Poll(n)
    BY <2>1 DEF Poll
  <2>2. CASE Dequeue(n)
    BY <2>2 DEF Dequeue
  <2>3. CASE Stop(n) \/ DequeueNone(n) \/ Wake(n) \/ Ack(n)
    BY <2>3 DEF Stop, DequeueNone, Wake, Ack
  <2>4. CASE HandleOk(n) \/ HandleErr(n) \/ NoHandler(n) \/ Capture(n)
    BY <2>4 DEF HandleOk, HandleErr, NoHandler, Capture, Report
  <2>5. QED
    BY <1>2, <2>1, <2>2, <2>3, <2>4 DEF WorkerStep
<1>3. ASSUME NEW n \in Nodes, NodeFailure(n)
      PROVE  StopInv'
  BY <1>3 DEF NodeFailure, DequeueFails, CaptureFails, Report, AckFails, BootFails, Crash, Leave
<1>4. ASSUME NEW n \in Nodes, Lifecycle(n)
      PROVE  StopInv'
  BY <1>4 DEF Lifecycle, Boot, Exit, Leave, Restart
<1>5. ASSUME NEW n \in Nodes, Reap(n) \/ Shutdown(n)
      PROVE  StopInv'
  BY <1>5 DEF Reap, Shutdown
<1>6. CASE Tick
  BY <1>6 DEF Tick
<1>7. CASE UNCHANGED vars
  BY <1>7 DEF vars
<1>8. QED
  BY <1>1, <1>2, <1>3, <1>4, <1>5, <1>6, <1>7 DEF Next

\* Whatever happens to the node, the worker loop of web/mod.rs takes at most
\* one job after shutdown_tx.send(true).
THEOREM StopsPromptly == Spec => []AtMostOneAfterShutdown
<1>1. Init => StopInv
  BY DEF Init, StopInv
<1>2. StopInv => AtMostOneAfterShutdown
  BY DEF StopInv, AtMostOneAfterShutdown
<1>3. QED
  BY <1>1, <1>2, StopStep, TypeCorrect, PTL DEF Spec

-----------------------------------------------------------------------------
(* The contract. *)

\* Whatever is under lease or in a worker's hands was delivered, and what was
\* delivered had been published.
DeliveredInv ==
    /\ delivered \subseteq {j \in Jobs : IsPublished(j)}
    /\ inflight \subseteq delivered
    /\ \A n \in Nodes : pc[n] \in Holding => job[n] \in delivered

CInv == IInv /\ DeliveredInv

\* The commands of RedisQueue keep DeliveredInv, if what the pop takes is
\* noted as delivered and no worker gets a job that is not.
LEMMA DeliveredKept ==
    ASSUME CInv, delivered \subseteq delivered', delivered' \subseteq Jobs,
           \A j \in Jobs : IsPublished(j) => IsPublished(j)',
           \A j \in delivered' : j \in delivered \/ IsPublished(j),
           inflight' \subseteq inflight \cup delivered',
           \A n \in Nodes : pc'[n] \in Holding =>
               \/ pc[n] \in Holding /\ job'[n] = job[n]
               \/ job'[n] \in delivered'
    PROVE  DeliveredInv'
<1>1. /\ \A j \in delivered' : j \in Jobs /\ IsPublished(j)'
      /\ inflight' \subseteq delivered'
      /\ \A n \in Nodes : pc'[n] \in Holding => job'[n] \in delivered'
  BY DEF CInv, DeliveredInv
<1>2. QED
  BY <1>1 DEF DeliveredInv, IsPublished

\* Every step keeps DeliveredInv.
LEMMA DeliveredStep == CInv /\ [Next]_vars => DeliveredInv'
<1> SUFFICES ASSUME CInv, [Next]_vars
             PROVE  DeliveredInv'
  OBVIOUS
<1> USE DEF procVars, histVars, Goto
<1>1. TypeOK /\ delivered \subseteq Jobs /\ \A j \in delivered : IsPublished(j)
  BY DEF CInv, IInv, TypeOK, DeliveredInv
<1>2. published' = published => \A j \in Jobs : IsPublished(j) => IsPublished(j)'
  BY DEF IsPublished
<1>3. ASSUME NEW j \in Jobs, Producer(j)
      PROVE  DeliveredInv'
  <2>1. \A k \in Jobs : IsPublished(k) => IsPublished(k)'
    <3>1. published' = published \/ published' = Append(published, j)
      BY <1>3 DEF Producer, Hset, HsetFails, Lpush, LpushFails
    <3>2. CASE published' = Append(published, j)
      <4>1. /\ DOMAIN published \subseteq DOMAIN published'
            /\ \A i \in DOMAIN published : published'[i] = published[i]
        BY <1>1, <3>2 DEF TypeOK
      <4>2. QED
        BY <4>1 DEF IsPublished
    <3>3. QED
      BY <1>2, <3>1, <3>2
  <2>2. delivered' = delivered /\ inflight' = inflight /\ pc' = pc /\ job' = job
    BY <1>3 DEF Producer, Hset, HsetFails, Lpush, LpushFails, HsetJob, LpushJob, queueVars
  <2>3. QED
    BY <1>1, <2>1, <2>2, DeliveredKept
<1>4. ASSUME NEW n \in Nodes, DequeueNone(n) \/ DequeueFails(n) \/ Dequeue(n)
      PROVE  DeliveredInv'
  <2>1. CASE UNCHANGED <<queueVars, delivered>>
    <3>1. \A m \in Nodes : pc'[m] \in Holding => pc[m] \in Holding /\ job'[m] = job[m]
      BY <1>1, <1>4, <2>1 DEF DequeueNone, DequeueFails, Dequeue, PopJob, queueVars, TypeOK, Holding
    <3>2. published' = published
      BY <1>4 DEF DequeueNone, DequeueFails, Dequeue
    <3>3. QED
      BY <1>1, <1>2, <2>1, <3>1, <3>2, DeliveredKept DEF queueVars
  <2>2. CASE PopJob(left[n])
    <3>1. Head(ready) \in Jobs /\ IsPublished(Head(ready))
      <4>1. left[n] \in 0..Visibility /\ IInv /\ UNCHANGED <<enq, fate, published>>
        BY <1>1, <1>4 DEF CInv, TypeOK, DequeueNone, DequeueFails, Dequeue
      <4>2. QED
        BY <2>2, <4>1, PopKeys
    <3>2. /\ delivered' = delivered \cup ({Head(ready)} \cap store)
          /\ inflight' \subseteq inflight \cup ({Head(ready)} \cap store)
          /\ published' = published
      BY <1>4, <2>2 DEF DequeueNone, DequeueFails, Dequeue, PopJob, queueVars
    <3>3. \A m \in Nodes : pc'[m] \in Holding =>
              \/ pc[m] \in Holding /\ job'[m] = job[m]
              \/ job'[m] \in delivered'
      BY <1>1, <1>4, <3>2 DEF DequeueNone, DequeueFails, Dequeue, TypeOK, Holding
    <3>4. QED
      BY <1>1, <1>2, <3>1, <3>2, <3>3, DeliveredKept
  <2>3. QED
    BY <1>4, <2>1, <2>2 DEF DequeueNone, DequeueFails, Dequeue
<1>5. ASSUME NEW n \in Nodes,
             \/ HandleOk(n) \/ HandleErr(n) \/ NoHandler(n) \/ Capture(n) \/ CaptureFails(n)
             \/ Poll(n) \/ Stop(n) \/ Wake(n) \/ Ack(n) \/ AckFails(n)
             \/ Lifecycle(n) \/ BootFails(n) \/ Crash(n) \/ Reap(n) \/ Shutdown(n)
      PROVE  DeliveredInv'
  <2>1. /\ delivered' = delivered /\ published' = published
        /\ \A m \in Nodes : pc'[m] \in Holding => pc[m] \in Holding /\ job'[m] = job[m]
    BY <1>1, <1>5 DEF HandleOk, HandleErr, NoHandler, Capture, CaptureFails, Report, Poll, Stop,
       Wake, Ack, AckFails, Lifecycle, Boot, Exit, Restart, BootFails, Crash, Leave, Reap,
       Shutdown, TypeOK, Holding
  <2>2. inflight' \subseteq inflight
    BY <1>5 DEF HandleOk, HandleErr, NoHandler, Capture, CaptureFails, Report, Poll, Stop,
       Wake, Ack, AckFails, AckJob, Lifecycle, Boot, Exit, Restart, BootFails, Crash, Leave, Reap,
       Shutdown, ReclaimExpired, queueVars
  <2>3. QED
    BY <1>1, <1>2, <2>1, <2>2, DeliveredKept
<1>6. CASE Tick \/ UNCHANGED vars
  <2>1. /\ delivered' = delivered /\ published' = published /\ inflight' = inflight
        /\ pc' = pc /\ job' = job
    BY <1>6 DEF Tick, AgeLeases, vars
  <2>2. QED
    BY <1>1, <1>2, <2>1, DeliveredKept
<1>7. QED
  BY <1>3, <1>4, <1>5, <1>6 DEF Next, WorkerStep, NodeFailure

\* A step that touches neither leases nor payloads nor deliveries, nor
\* publishes, changes no status.
LEMMA StatusKept ==
    ASSUME \A j \in Jobs : IsPublished(j)' <=> IsPublished(j),
           \A j \in Jobs : IsPublished(j) => /\ j \in inflight' <=> j \in inflight
                                             /\ j \in store' <=> j \in store
                                             /\ j \in delivered' <=> j \in delivered
    PROVE  UNCHANGED QueueStatus
BY DEF QueueStatus

\* A step that changes the status of one job from one value to another.
LEMMA StatusSet ==
    ASSUME NEW j \in Jobs, NEW x, QueueStatus'[j] = x,
           \A k \in Jobs \ {j} : QueueStatus'[k] = QueueStatus[k]
    PROVE  QueueStatus' = [QueueStatus EXCEPT ![j] = x]
BY DEF QueueStatus

\* Publishing is Submit.
LEMMA LpushSubmits ==
    ASSUME CInv, NEW j \in Jobs, enq[j] = "stored", LpushJob(j),
           published' = Append(published, j), UNCHANGED delivered
    PROVE  [Trait!Next]_QueueStatus
<1> USE DEF CInv, IInv
<1>1. ~IsPublished(j) /\ j \in store /\ j \notin inflight /\ j \notin delivered
  BY DEF EnqueueInv, KeysInv, DeliveredInv
<1>2. \A k \in Jobs : IsPublished(k)' <=> IsPublished(k) \/ k = j
  <2>1. /\ published \in Seq(Jobs) /\ Len(published) \in Nat
        /\ DOMAIN published = 1..Len(published)
        /\ DOMAIN published' = 1..(Len(published) + 1)
        /\ \A i \in 1..Len(published) : published'[i] = published[i]
        /\ published'[Len(published) + 1] = j
    BY DEF TypeOK
  <2>2. QED
    BY <2>1 DEF IsPublished
<1>3. store' = store /\ inflight' = inflight
  BY DEF LpushJob
<1>4. QueueStatus[j] = "absent" /\ QueueStatus'[j] = "fresh"
  BY <1>1, <1>2, <1>3 DEF QueueStatus
<1>5. \A k \in Jobs \ {j} : QueueStatus'[k] = QueueStatus[k]
  BY <1>2, <1>3 DEF QueueStatus
<1>6. Trait!Submit(j)
  BY <1>4, <1>5, StatusSet DEF Trait!Submit
<1>7. QED
  BY <1>6 DEF Trait!Next

\* dequeue's script is Deliver, or drops an id that was settled.
LEMMA PopDelivers ==
    ASSUME CInv, NEW t \in 0..Visibility, PopJob(t), UNCHANGED <<enq, fate, published>>,
           delivered' = delivered \cup ({Head(ready)} \cap store)
    PROVE  [Trait!Next]_QueueStatus
<1> DEFINE h == Head(ready)
<1>1. h \in Jobs /\ h \notin inflight /\ IsPublished(h)
  BY PopKeys DEF CInv
<1>2. \A k \in Jobs : IsPublished(k)' <=> IsPublished(k)
  BY DEF IsPublished
<1>3. store' = store /\ inflight' = IF h \in store THEN inflight \cup {h} ELSE inflight
  BY DEF PopJob
<1> HIDE DEF h
<1>4. CASE h \in store
  <2>1. QueueStatus[h] \in {"fresh", "returned"} /\ QueueStatus'[h] = "leased"
    BY <1>1, <1>2, <1>3, <1>4 DEF QueueStatus
  <2>2. \A k \in Jobs \ {h} : QueueStatus'[k] = QueueStatus[k]
    BY <1>2, <1>3 DEF QueueStatus, h
  <2>3. Trait!Deliver(h)
    BY <1>1, <2>1, <2>2, StatusSet DEF Trait!Deliver
  <2>4. QED
    BY <1>1, <2>3 DEF Trait!Next
<1>5. CASE h \notin store
  BY <1>2, <1>3, <1>5, StatusKept DEF h
<1>6. QED
  BY <1>4, <1>5

\* acknowledge's script is Settle, also when the lease is not the caller's, or
\* changes nothing.
LEMMA AckSettles ==
    ASSUME CInv, NEW j \in delivered, AckJob(j), UNCHANGED <<published, delivered>>
    PROVE  [Trait!Next]_QueueStatus
<1> USE DEF CInv, IInv
<1>1. j \in Jobs /\ IsPublished(j)
  BY DEF DeliveredInv
<1>2. \A k \in Jobs : IsPublished(k)' <=> IsPublished(k)
  BY DEF IsPublished
<1>3. store' = store \ {j} /\ inflight' = inflight \ {j}
  BY DEF AckJob
<1>4. CASE j \in store
  <2>1. QueueStatus[j] \in {"leased", "returned"} /\ QueueStatus'[j] = "settled"
    BY <1>1, <1>2, <1>3, <1>4 DEF QueueStatus
  <2>2. \A k \in Jobs \ {j} : QueueStatus'[k] = QueueStatus[k]
    BY <1>2, <1>3 DEF QueueStatus
  <2>3. Trait!Settle(j)
    BY <1>1, <2>1, <2>2, StatusSet DEF Trait!Settle
  <2>4. QED
    BY <1>1, <2>3 DEF Trait!Next
<1>5. CASE j \notin store
  <2>1. j \notin inflight
    BY <1>5 DEF KeysInv
  <2>2. QED
    BY <1>2, <1>3, <1>5, <2>1, StatusKept
<1>6. QED
  BY <1>4, <1>5

\* recover_stale's script is Return, or finds nothing.
LEMMA ReclaimReturns ==
    ASSUME CInv, NEW s, ReclaimExpired(s), UNCHANGED <<published, delivered>>
    PROVE  [Trait!Next]_QueueStatus
<1> USE DEF CInv, IInv
<1> DEFINE S == Expired(s)
<1>1. S \subseteq inflight /\ store' = store /\ inflight' = inflight \ S
  BY DEF ReclaimExpired, Expired
<1>2. \A k \in Jobs : IsPublished(k)' <=> IsPublished(k)
  BY DEF IsPublished
<1>3. inflight \subseteq Jobs /\ \A j \in inflight : IsPublished(j) /\ j \in store /\ j \in delivered
  BY DEF KeysInv, DeliveredInv, TypeOK, QueueTypeOK
<1> HIDE DEF S
<1>4. CASE S = {}
  BY <1>1, <1>2, <1>4, StatusKept
<1>5. CASE S # {}
  <2>1. S \in SUBSET {j \in Jobs : QueueStatus[j] = "leased"}
    BY <1>1, <1>3 DEF QueueStatus
  <2>2. QueueStatus' = [j \in Jobs |-> IF j \in S THEN "returned" ELSE QueueStatus[j]]
    BY <1>1, <1>2, <1>3 DEF QueueStatus
  <2>3. QED
    BY <1>5, <2>1, <2>2 DEF Trait!Next, Trait!Return
<1>6. QED
  BY <1>4, <1>5

\* Every step of the detailed specification is a step of the contract, or
\* changes nothing that the contract speaks of.
LEMMA ContractStep == CInv /\ [Next]_vars => [Trait!Next]_QueueStatus
<1> SUFFICES ASSUME CInv, [Next]_vars
             PROVE  [Trait!Next]_QueueStatus
  OBVIOUS
<1> USE DEF procVars, histVars
<1>1. TypeOK
  BY DEF CInv, IInv
<1>2. published' = published => \A j \in Jobs : IsPublished(j)' <=> IsPublished(j)
  BY DEF IsPublished
<1>3. CASE UNCHANGED <<store, inflight, published, delivered>>
  BY <1>2, <1>3, StatusKept
<1>4. ASSUME NEW j \in Jobs, Producer(j)
      PROVE  [Trait!Next]_QueueStatus
  <2>1. CASE Hset(j) \/ HsetFails(j)
    <3>1. ~IsPublished(j)
      BY <2>1 DEF Hset, HsetFails, CInv, IInv, EnqueueInv
    <3>2. /\ published' = published /\ delivered' = delivered /\ inflight' = inflight
          /\ store' = store \cup {j} \/ store' = store
      BY <2>1 DEF Hset, HsetFails, HsetJob, queueVars
    <3>3. QED
      BY <1>2, <3>1, <3>2, StatusKept
  <2>2. CASE \/ Lpush(j)
             \/ LpushFails(j) /\ LpushJob(j) /\ published' = Append(published, j)
    BY <2>2, LpushSubmits DEF Lpush, LpushFails
  <2>3. CASE LpushFails(j) /\ UNCHANGED <<queueVars, published>>
    BY <1>3, <2>3 DEF LpushFails, queueVars
  <2>4. QED
    BY <1>4, <2>1, <2>2, <2>3 DEF Producer, LpushFails
<1>5. ASSUME NEW n \in Nodes, DequeueNone(n) \/ DequeueFails(n) \/ Dequeue(n)
      PROVE  [Trait!Next]_QueueStatus
  <2>1. CASE UNCHANGED <<queueVars, delivered>>
    BY <1>3, <1>5, <2>1 DEF DequeueNone, DequeueFails, Dequeue, queueVars
  <2>2. CASE PopJob(left[n])
    <3>1. left[n] \in 0..Visibility
      BY <1>1 DEF TypeOK
    <3>2. UNCHANGED <<enq, fate, published>>
      BY <1>5 DEF DequeueNone, DequeueFails, Dequeue
    <3>3. delivered' = delivered \cup ({Head(ready)} \cap store)
      BY <1>5, <2>2 DEF DequeueNone, DequeueFails, Dequeue, PopJob, queueVars
    <3>4. QED
      BY <2>2, <3>1, <3>2, <3>3, PopDelivers
  <2>3. QED
    BY <1>5, <2>1, <2>2 DEF DequeueNone, DequeueFails, Dequeue
<1>6. ASSUME NEW n \in Nodes, Ack(n) \/ AckFails(n)
      PROVE  [Trait!Next]_QueueStatus
  <2>1. CASE UNCHANGED queueVars
    BY <1>3, <1>6, <2>1 DEF Ack, AckFails, queueVars
  <2>2. CASE AckJob(job[n])
    <3>1. job[n] \in delivered
      BY <1>6 DEF Ack, AckFails, CInv, DeliveredInv, Holding
    <3>2. QED
      BY <1>6, <2>2, <3>1, AckSettles DEF Ack, AckFails
  <2>3. QED
    BY <1>6, <2>1, <2>2 DEF Ack, AckFails
<1>7. ASSUME NEW n \in Nodes, Reap(n) \/ Boot(n)
      PROVE  [Trait!Next]_QueueStatus
  BY <1>7, ReclaimReturns DEF Reap, Boot
<1>8. ASSUME NEW n \in Nodes,
             \/ HandleOk(n) \/ HandleErr(n) \/ NoHandler(n) \/ Capture(n) \/ CaptureFails(n)
             \/ Poll(n) \/ Stop(n) \/ Wake(n) \/ BootFails(n) \/ Crash(n)
             \/ Exit(n) \/ Restart(n) \/ Shutdown(n)
      PROVE  [Trait!Next]_QueueStatus
  BY <1>3, <1>8 DEF HandleOk, HandleErr, NoHandler, Capture, CaptureFails, Report, Poll, Stop,
     Wake, BootFails, Crash, Leave, Exit, Restart, Shutdown, queueVars
<1>9. CASE Tick \/ UNCHANGED vars
  BY <1>3, <1>9 DEF Tick, AgeLeases, vars
<1>10. QED
  BY <1>4, <1>5, <1>6, <1>7, <1>8, <1>9 DEF Next, WorkerStep, NodeFailure, Lifecycle

\* The Redis queue with the loops of web/mod.rs implements what the TaskQueue
\* trait (core/queue/mod.rs) promises: a job is handed out until it is
\* acknowledged and never afterwards, whatever fails.
THEOREM ImplementsContract == Spec => Contract
<1>1. Init => CInv
  BY InitInv DEF Init, QueueInit, CInv, DeliveredInv, Holding
<1>2. CInv /\ [Next]_vars => CInv'
  BY InvStep, DeliveredStep DEF CInv
<1>3. Init => Trait!Init
  BY DEF Init, QueueInit, Trait!Init, QueueStatus, IsPublished
<1>4. QED
  BY <1>1, <1>2, <1>3, ContractStep, PTL DEF Spec, Contract, Trait!Spec

-----------------------------------------------------------------------------
(* The order of first deliveries. *)

\* Nothing has an outcome that was not delivered, and each id is published
\* once; the ids in the list that nobody got yet are in the order of
\* publication.
OutcomeInv == \A j \in Jobs : fate[j] # {} => j \in delivered
PublishedOnce == \A i, k \in DOMAIN published : published[i] = published[k] => i = k
ReadyOrder ==
    \A a, b \in DOMAIN ready : \A i, k \in DOMAIN published :
        (/\ a < b /\ ready[a] = published[i] /\ ready[b] = published[k]
         /\ ready[a] \notin delivered /\ ready[b] \notin delivered) => i < k

FInv == OutcomeInv /\ PublishedOnce /\ ReadyOrder /\ FifoFirstDelivery

\* What was published and not delivered waits in the list.
LEMMA Waits ==
    ASSUME CInv, OutcomeInv, NEW j \in Jobs, IsPublished(j), j \notin delivered
    PROVE  InReady(j) /\ j \in store
BY DEF CInv, IInv, NotLost, OutcomeInv, DeliveredInv

\* A step that leaves the list, what was published and what was delivered.
LEMMA OrderKept ==
    ASSUME FInv, UNCHANGED <<ready, published, delivered>>
    PROVE  PublishedOnce' /\ ReadyOrder' /\ FifoFirstDelivery'
BY DEF FInv, PublishedOnce, ReadyOrder, FifoFirstDelivery

\* A job that is published goes behind all others.
LEMMA LpushOrder ==
    ASSUME CInv, FInv, NEW j \in Jobs, enq[j] = "stored", LpushJob(j),
           published' = Append(published, j), UNCHANGED delivered
    PROVE  PublishedOnce' /\ ReadyOrder' /\ FifoFirstDelivery'
<1>1. /\ ~IsPublished(j) /\ j \notin delivered
      /\ \A k \in Jobs : InReady(k) => IsPublished(k)
  BY DEF CInv, IInv, EnqueueInv, KeysInv, DeliveredInv
<1>2. /\ ready \in Seq(Jobs) /\ published \in Seq(Jobs)
      /\ Len(ready) \in Nat /\ Len(published) \in Nat
      /\ DOMAIN ready = 1..Len(ready) /\ DOMAIN published = 1..Len(published)
  BY DEF CInv, IInv, TypeOK, QueueTypeOK
<1>3. /\ DOMAIN published' = 1..(Len(published) + 1)
      /\ \A i \in 1..Len(published) : published'[i] = published[i]
      /\ published'[Len(published) + 1] = j
  BY <1>2
<1>4. /\ DOMAIN ready' = 1..(Len(ready) + 1)
      /\ \A a \in 1..Len(ready) : ready'[a] = ready[a]
      /\ ready'[Len(ready) + 1] = j
  BY <1>2 DEF LpushJob
<1>5. \A i \in 1..Len(published) : published[i] # j
  BY <1>1, <1>2 DEF IsPublished
<1>6. \A a \in 1..Len(ready) : ready[a] # j
  BY <1>1, <1>2 DEF InReady
<1>7. PublishedOnce'
  BY <1>2, <1>3, <1>5 DEF FInv, PublishedOnce
<1>8. FifoFirstDelivery'
  BY <1>1, <1>2, <1>3 DEF FInv, FifoFirstDelivery
<1>9. ReadyOrder'
  <2>1. SUFFICES ASSUME NEW a \in DOMAIN ready', NEW b \in DOMAIN ready',
                        NEW i \in DOMAIN published', NEW k \in DOMAIN published',
                        a < b, ready'[a] = published'[i], ready'[b] = published'[k],
                        ready'[a] \notin delivered, ready'[b] \notin delivered
                 PROVE  i < k
    BY DEF ReadyOrder
  <2>2. a \in 1..Len(ready)
    BY <1>2, <1>4, <2>1
  <2>3. i \in 1..Len(published) /\ ready[a] = published[i]
    BY <1>2, <1>3, <1>4, <1>6, <2>1, <2>2
  <2>4. CASE k = Len(published) + 1
    BY <1>2, <2>3, <2>4
  <2>5. CASE k # Len(published) + 1
    <3>1. k \in 1..Len(published) /\ published'[k] = published[k]
      BY <1>2, <1>3, <2>5
    <3>2. b \in 1..Len(ready) /\ ready[b] = published[k]
      BY <1>2, <1>4, <1>5, <2>1, <3>1
    <3>3. QED
      BY <1>2, <1>4, <2>1, <2>2, <2>3, <3>1, <3>2 DEF FInv, ReadyOrder
  <2>6. QED
    BY <2>4, <2>5
<1>10. QED
  BY <1>7, <1>8, <1>9

\* The first of the list comes before everything that nobody got yet.
LEMMA PopOrder ==
    ASSUME CInv, FInv, NEW t \in 0..Visibility, PopJob(t), UNCHANGED published,
           delivered' = delivered \cup ({Head(ready)} \cap store)
    PROVE  PublishedOnce' /\ ReadyOrder' /\ FifoFirstDelivery'
<1>1. /\ ready \in Seq(Jobs) /\ ready # <<>> /\ ready' = Tail(ready)
      /\ published \in Seq(Jobs)
  BY DEF CInv, IInv, TypeOK, QueueTypeOK, PopJob
<1>2. /\ Len(ready) \in Nat \ {0} /\ DOMAIN ready = 1..Len(ready)
      /\ DOMAIN ready' = 1..(Len(ready) - 1)
      /\ \A a \in 1..(Len(ready) - 1) : ready'[a] = ready[a + 1]
      /\ Head(ready) = ready[1]
      /\ DOMAIN published \subseteq Nat /\ \A i \in DOMAIN published : published[i] \in Jobs
  BY <1>1
<1>3. PublishedOnce'
  BY DEF FInv, PublishedOnce
<1>4. ReadyOrder'
  <2>1. SUFFICES ASSUME NEW a \in DOMAIN ready', NEW b \in DOMAIN ready',
                        NEW i \in DOMAIN published, NEW k \in DOMAIN published,
                        a < b, ready'[a] = published[i], ready'[b] = published[k],
                        ready'[a] \notin delivered', ready'[b] \notin delivered'
                 PROVE  i < k
    BY DEF ReadyOrder
  <2>2. /\ a + 1 \in DOMAIN ready /\ b + 1 \in DOMAIN ready /\ a + 1 < b + 1
        /\ ready[a + 1] = published[i] /\ ready[b + 1] = published[k]
        /\ ready[a + 1] \notin delivered /\ ready[b + 1] \notin delivered
    BY <1>2, <2>1
  <2>3. QED
    BY <2>2 DEF FInv, ReadyOrder
<1>5. FifoFirstDelivery'
  <2>1. SUFFICES ASSUME NEW i \in DOMAIN published, NEW k \in DOMAIN published,
                        i < k, published[k] \in delivered', published[i] \notin delivered'
                 PROVE  FALSE
    BY DEF FifoFirstDelivery
  <2>2. published[i] \notin delivered /\ published[k] \notin delivered /\ published[k] = Head(ready)
    BY <2>1 DEF FInv, FifoFirstDelivery
  <2>3. InReady(published[i])
    <3>1. IsPublished(published[i]) /\ published[i] \in Jobs
      BY <1>2 DEF IsPublished
    <3>2. QED
      BY <2>2, <3>1, Waits DEF FInv
  <2>4. PICK a \in DOMAIN ready : ready[a] = published[i]
    BY <2>3 DEF InReady
  <2>5. published[i] # published[k]
    BY <1>2, <2>1 DEF FInv, PublishedOnce
  <2>6. 1 \in DOMAIN ready /\ 1 < a /\ ready[1] = published[k]
    BY <1>2, <2>2, <2>4, <2>5
  <2>7. k < i
    BY <2>2, <2>4, <2>6 DEF FInv, ReadyOrder
  <2>8. QED
    BY <1>2, <2>1, <2>7
<1>6. QED
  BY <1>3, <1>4, <1>5

\* recover_stale puts only jobs back that somebody got.
LEMMA ReclaimOrder ==
    ASSUME CInv, FInv, NEW s \in Nat, ReclaimExpired(s), UNCHANGED <<published, delivered>>
    PROVE  PublishedOnce' /\ ReadyOrder' /\ FifoFirstDelivery'
<1>1. PICK q \in ByScore(Expired(s)) : ready' = ready \o q
  BY DEF ReclaimExpired
<1>2. /\ Expired(s) \subseteq delivered /\ Expired(s) \subseteq Jobs /\ ready \in Seq(Jobs)
      /\ Expired(s) \subseteq inflight /\ inflight \subseteq Jobs
  BY DEF Expired, CInv, IInv, TypeOK, QueueTypeOK, DeliveredInv
<1>3. /\ q \in Seq(Jobs) /\ Len(q) \in Nat /\ DOMAIN q = 1..Len(q)
      /\ \A m \in DOMAIN q : q[m] \in delivered
  <2>1. q \in [1..Cardinality(Expired(s)) -> Expired(s)] /\ Cardinality(Expired(s)) \in Nat
    <3>1. q \in [1..Cardinality(Expired(s)) -> Expired(s)]
      BY <1>1 DEF ByScore
    <3>2. IsFiniteSet(Expired(s))
      BY <1>2, QueueAssumption, FS_Subset
    <3>3. QED
      BY <3>1, <3>2, FS_CardinalityType
  <2>2. q \in Seq(Expired(s)) /\ Len(q) = Cardinality(Expired(s)) /\ DOMAIN q = 1..Len(q)
    BY <2>1, FunctionIsSeq
  <2>3. \A m \in DOMAIN q : q[m] \in Expired(s)
    BY <2>1
  <2>4. QED
    BY <1>2, <2>1, <2>2, <2>3
<1>4. /\ Len(ready) \in Nat /\ DOMAIN ready = 1..Len(ready)
      /\ DOMAIN ready' = 1..(Len(ready) + Len(q))
      /\ \A a \in 1..Len(ready) : ready'[a] = ready[a]
      /\ \A m \in 1..Len(q) : ready'[Len(ready) + m] = q[m]
  BY <1>1, <1>2, <1>3
<1>5. ASSUME NEW a \in DOMAIN ready', ready'[a] \notin delivered
      PROVE  a \in DOMAIN ready
  <2>1. SUFFICES ASSUME a \notin DOMAIN ready
                 PROVE  FALSE
    OBVIOUS
  <2>2. a - Len(ready) \in DOMAIN q /\ Len(ready) + (a - Len(ready)) = a
    BY <1>3, <1>4, <2>1
  <2>3. QED
    BY <1>3, <1>4, <1>5, <2>2
<1>6. ReadyOrder'
  BY <1>4, <1>5 DEF FInv, ReadyOrder
<1>7. PublishedOnce' /\ FifoFirstDelivery'
  BY DEF FInv, PublishedOnce, FifoFirstDelivery
<1>8. QED
  BY <1>6, <1>7

LEMMA OutcomeStep == CInv /\ OutcomeInv /\ [Next]_vars => OutcomeInv'
<1> SUFFICES ASSUME CInv, OutcomeInv, [Next]_vars
             PROVE  OutcomeInv'
  OBVIOUS
<1> USE DEF procVars, histVars
<1>1. fate \in [Jobs -> SUBSET Fates]
  BY DEF CInv, IInv, TypeOK
<1>2. CASE fate' = fate /\ delivered \subseteq delivered'
  BY <1>2 DEF OutcomeInv
<1>3. ASSUME NEW n \in Nodes,
             HandleOk(n) \/ HandleErr(n) \/ NoHandler(n) \/ Capture(n) \/ CaptureFails(n)
      PROVE  OutcomeInv'
  <2>1. PICK o, l : Report(n, o, l)
    BY <1>3 DEF HandleOk, HandleErr, NoHandler, Capture, CaptureFails
  <2>2. job[n] \in delivered
    BY <1>3 DEF HandleOk, HandleErr, NoHandler, Capture, CaptureFails, CInv, DeliveredInv, Holding
  <2>3. \A j \in Jobs : j # job[n] => fate'[j] = fate[j]
    BY <1>1, <2>1 DEF Report
  <2>4. delivered' = delivered
    BY <2>1 DEF Report
  <2>5. QED
    BY <2>2, <2>3, <2>4 DEF OutcomeInv
<1>4. CASE \E j \in Jobs : Producer(j)
  BY <1>2, <1>4 DEF Producer, Hset, HsetFails, Lpush, LpushFails
<1>5. ASSUME NEW n \in Nodes, DequeueNone(n) \/ DequeueFails(n) \/ Dequeue(n)
      PROVE  OutcomeInv'
  BY <1>2, <1>5 DEF DequeueNone, DequeueFails, Dequeue
<1>6. ASSUME NEW n \in Nodes,
             \/ Poll(n) \/ Stop(n) \/ Wake(n) \/ Ack(n) \/ AckFails(n)
             \/ Lifecycle(n) \/ BootFails(n) \/ Crash(n) \/ Reap(n) \/ Shutdown(n)
      PROVE  OutcomeInv'
  BY <1>2, <1>6 DEF Poll, Stop, Wake, Ack, AckFails, Lifecycle, Boot, Exit, Restart, BootFails,
     Crash, Leave, Reap, Shutdown
<1>7. CASE Tick \/ UNCHANGED vars
  BY <1>2, <1>7 DEF Tick, vars
<1>8. QED
  BY <1>3, <1>4, <1>5, <1>6, <1>7 DEF Next, WorkerStep, NodeFailure

LEMMA OrderStep ==
    CInv /\ FInv /\ [Next]_vars => PublishedOnce' /\ ReadyOrder' /\ FifoFirstDelivery'
<1> DEFINE Goal == PublishedOnce' /\ ReadyOrder' /\ FifoFirstDelivery'
<1> SUFFICES ASSUME CInv, FInv, [Next]_vars
             PROVE  Goal
  OBVIOUS
<1> USE DEF procVars, histVars
<1> HIDE DEF Goal
<1>1. CASE UNCHANGED <<ready, published, delivered>>
  BY <1>1, OrderKept DEF Goal
<1>2. ASSUME NEW j \in Jobs, Producer(j)
      PROVE  Goal
  <2>1. CASE \/ Lpush(j)
             \/ LpushFails(j) /\ LpushJob(j) /\ published' = Append(published, j)
    BY <2>1, LpushOrder DEF Goal, Lpush, LpushFails
  <2>2. CASE Hset(j) \/ HsetFails(j) \/ (LpushFails(j) /\ UNCHANGED <<queueVars, published>>)
    BY <1>1, <2>2 DEF Hset, HsetFails, HsetJob, LpushFails, queueVars
  <2>3. QED
    BY <1>2, <2>1, <2>2 DEF Producer, LpushFails
<1>3. ASSUME NEW n \in Nodes, DequeueNone(n) \/ DequeueFails(n) \/ Dequeue(n)
      PROVE  Goal
  <2>1. CASE UNCHANGED <<queueVars, delivered>>
    BY <1>1, <1>3, <2>1 DEF DequeueNone, DequeueFails, Dequeue, queueVars
  <2>2. CASE PopJob(left[n])
    <3>1. left[n] \in 0..Visibility
      BY DEF CInv, IInv, TypeOK
    <3>2. published' = published
      BY <1>3 DEF DequeueNone, DequeueFails, Dequeue
    <3>3. delivered' = delivered \cup ({Head(ready)} \cap store)
      BY <1>3, <2>2 DEF DequeueNone, DequeueFails, Dequeue, PopJob, queueVars
    <3>4. QED
      BY <2>2, <3>1, <3>2, <3>3, PopOrder DEF Goal
  <2>3. QED
    BY <1>3, <2>1, <2>2 DEF DequeueNone, DequeueFails, Dequeue
<1>4. ASSUME NEW n \in Nodes, Reap(n) \/ Boot(n)
      PROVE  Goal
  <2>1. PICK s \in 0..MaxSkew : ReclaimExpired(s)
    BY <1>4 DEF Reap, Boot
  <2>2. s \in Nat /\ UNCHANGED <<published, delivered>>
    BY <1>4 DEF Reap, Boot
  <2>3. QED
    BY <2>1, <2>2, ReclaimOrder DEF Goal
<1>5. ASSUME NEW n \in Nodes,
             \/ HandleOk(n) \/ HandleErr(n) \/ NoHandler(n) \/ Capture(n) \/ CaptureFails(n)
             \/ Poll(n) \/ Stop(n) \/ Wake(n) \/ Ack(n) \/ AckFails(n) \/ BootFails(n)
             \/ Crash(n) \/ Exit(n) \/ Restart(n) \/ Shutdown(n)
      PROVE  Goal
  BY <1>1, <1>5 DEF HandleOk, HandleErr, NoHandler, Capture, CaptureFails, Report, Poll, Stop,
     Wake, Ack, AckFails, AckJob, BootFails, Crash, Leave, Exit, Restart, Shutdown, queueVars
<1>6. CASE Tick \/ UNCHANGED vars
  BY <1>1, <1>6 DEF Tick, AgeLeases, vars
<1>7. QED
  BY <1>2, <1>3, <1>4, <1>5, <1>6 DEF Next, WorkerStep, NodeFailure, Lifecycle

\* First deliveries are in the order of publication (LPUSH on the left, RPOP
\* on the right), over failed commands, crashes and jobs that recover_stale
\* puts back.
THEOREM FirstDeliveriesInOrder == Spec => []FifoFirstDelivery
<1>1. Init => CInv /\ FInv
  <2>1. SUFFICES ASSUME Init
                 PROVE  CInv /\ FInv
    OBVIOUS
  <2>2. CInv
    BY <2>1, InitInv DEF Init, QueueInit, CInv, DeliveredInv, Holding
  <2>3. FInv
    BY <2>1 DEF Init, QueueInit, FInv, OutcomeInv, PublishedOnce, ReadyOrder, FifoFirstDelivery
  <2>4. QED
    BY <2>2, <2>3
<1>2. CInv /\ FInv /\ [Next]_vars => CInv' /\ FInv'
  <2>1. CInv /\ FInv /\ [Next]_vars => CInv'
    BY InvStep, DeliveredStep DEF CInv
  <2>2. CInv /\ FInv /\ [Next]_vars => FInv'
    BY OutcomeStep, OrderStep DEF FInv
  <2>3. QED
    BY <2>1, <2>2
<1>3. FInv => FifoFirstDelivery
  BY DEF FInv
<1>4. QED
  BY <1>1, <1>2, <1>3, PTL DEF Spec
=============================================================================
