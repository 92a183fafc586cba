-------------------------- MODULE MemoryQueueProofs --------------------------
(***************************************************************************)
(* Proofs about MemoryQueue, for any set of jobs: each is taken once and   *)
(* in order, none is lost between the two mutexes, and the queue keeps the *)
(* contract of the TaskQueue trait.  The invariant says where, between the *)
(* two histories, every entry of the queue and the job in hand stand.      *)
(***************************************************************************)
EXTENDS MemoryQueue, TLAPS, FiniteSetTheorems

USE MemoryAssumption

-----------------------------------------------------------------------------
(* Sequences of jobs.                                                      *)

LEMMA AppendIs ==
    ASSUME NEW s \in Seq(Jobs), NEW j \in Jobs
    PROVE  /\ Append(s, j) \in Seq(Jobs) /\ Len(Append(s, j)) = Len(s) + 1
           /\ \A i \in 1..Len(s) : Append(s, j)[i] = s[i]
           /\ Append(s, j)[Len(s) + 1] = j
           /\ ToSet(Append(s, j)) = ToSet(s) \cup {j}
<1>1. /\ Append(s, j) \in Seq(Jobs) /\ Len(Append(s, j)) = Len(s) + 1 /\ Len(s) \in Nat
      /\ \A i \in 1..Len(s) : Append(s, j)[i] = s[i]
      /\ Append(s, j)[Len(s) + 1] = j
      /\ DOMAIN s = 1..Len(s) /\ DOMAIN Append(s, j) = 1..(Len(s) + 1)
  OBVIOUS
<1>2. ToSet(Append(s, j)) = ToSet(s) \cup {j}
  <2>1. \A i \in 1..(Len(s) + 1) : i \in 1..Len(s) \/ i = Len(s) + 1
    BY <1>1
  <2>2. \A i \in 1..Len(s) : i \in 1..(Len(s) + 1)
    BY <1>1
  <2>3. Len(s) + 1 \in 1..(Len(s) + 1)
    BY <1>1
  <2>4. QED
    BY <1>1, <2>1, <2>2, <2>3 DEF ToSet
<1>3. QED
  BY <1>1, <1>2

LEMMA TailIs ==
    ASSUME NEW s \in Seq(Jobs), s # <<>>
    PROVE  /\ Tail(s) \in Seq(Jobs) /\ Len(Tail(s)) = Len(s) - 1 /\ Len(s) > 0
           /\ Head(s) = s[1] /\ Head(s) \in Jobs
           /\ \A i \in 1..(Len(s) - 1) : Tail(s)[i] = s[i + 1]
OBVIOUS

\* Nothing to recover: only the empty sequence lists the empty set.
LEMMA NothingStale == \A q \in SetToSeqs({}) : q = <<>>
<1>1. Cardinality({}) = 0 /\ 1..0 = {}
  BY FS_EmptySet
<1>2. SUFFICES ASSUME NEW q \in SetToSeqs({})
               PROVE  q = <<>>
  OBVIOUS
<1>3. q \in [1..0 -> Jobs]
  BY <1>1, <1>2 DEF SetToSeqs
<1>4. q \in Seq(Jobs) /\ Len(q) = 0
  BY <1>3
<1>5. QED
  BY <1>4

-----------------------------------------------------------------------------
(* The inductive invariant.                                                *)

Holding == {"handle", "capture", "ack"}

\* The job between the two critical sections of dequeue.
Popped == IF pc = "popped" THEN 1 ELSE 0

\* published is taken, then the popped job, then the queue.
Order ==
    /\ Len(published) = Len(taken) + Popped + Len(queue)
    /\ \A i \in 1..Len(taken) : published[i] = taken[i]
    /\ pc = "popped" => published[Len(taken) + 1] = job
    /\ \A i \in 1..Len(queue) : published[Len(taken) + Popped + i] = queue[i]

Each == \A i, j \in 1..Len(published) : published[i] = published[j] => i = j

\* Where the worker stands and what it holds.
Hands ==
    /\ pc \in Holding => /\ job \in Jobs /\ processing = {job}
                         /\ Len(taken) > 0 /\ taken[Len(taken)] = job
    /\ pc \notin Holding => processing = {}
    /\ pc = "popped" => job \in Jobs
    /\ pc \notin Holding \cup {"popped"} => job = NoJob
    /\ pc = "boot" => published = <<>>
    /\ pc = "ack" => fate[job] # {}

Settled == \A i \in 1..Len(taken) : (taken[i] = job /\ pc \in Holding) \/ fate[taken[i]] # {}

QInv == TypeOK /\ Order /\ Each /\ Hands /\ Settled

LEMMA InitQInv == Init => QInv
<1>1. SUFFICES ASSUME Init
               PROVE  QInv
  OBVIOUS
<1>2. <<>> \in Seq(Jobs) /\ Len(<<>>) = 0
  OBVIOUS
<1>3. TypeOK
  BY <1>1, <1>2 DEF Init, TypeOK
<1>4. Order /\ Each
  BY <1>1, <1>2 DEF Init, Order, Each, Popped
<1>5. Hands /\ Settled
  BY <1>1, <1>2 DEF Init, Hands, Settled, Holding
<1>6. QED
  BY <1>3, <1>4, <1>5 DEF QInv

LEMMA EnqueueKeeps ==
    ASSUME QInv, NEW j \in Jobs, Enqueue(j)
    PROVE  QInv'
<1>1. /\ pc # "boot" /\ j \notin ToSet(published)
      /\ queue' = Append(queue, j) /\ published' = Append(published, j)
      /\ UNCHANGED <<processing, pc, job, stopping, fate, taken>>
  BY DEF Enqueue
<1>2. /\ queue \in Seq(Jobs) /\ published \in Seq(Jobs) /\ taken \in Seq(Jobs)
      /\ Len(queue) \in Nat /\ Len(published) \in Nat /\ Len(taken) \in Nat
      /\ DOMAIN published = 1..Len(published)
  BY DEF QInv, TypeOK
<1>3. /\ queue' \in Seq(Jobs) /\ Len(queue') = Len(queue) + 1
      /\ \A i \in 1..Len(queue) : queue'[i] = queue[i]
      /\ queue'[Len(queue) + 1] = j
  BY <1>1, <1>2, AppendIs
<1>4. /\ published' \in Seq(Jobs) /\ Len(published') = Len(published) + 1
      /\ \A i \in 1..Len(published) : published'[i] = published[i]
      /\ published'[Len(published) + 1] = j
  BY <1>1, <1>2, AppendIs
<1>5. TypeOK'
  BY <1>1, <1>3, <1>4 DEF QInv, TypeOK
<1>6. Order'
  <2>1. Popped' = Popped /\ Popped \in 0..1
    BY <1>1 DEF Popped
  <2>2. Len(published) = Len(taken) + Popped + Len(queue)
    BY DEF QInv, Order
  <2>3. \A i \in 1..Len(taken) : published'[i] = taken[i]
    BY <1>2, <1>4, <2>1, <2>2 DEF QInv, Order
  <2>4. pc = "popped" => published'[Len(taken) + 1] = job
    BY <1>2, <1>4, <2>1, <2>2 DEF QInv, Order, Popped
  <2>5. ASSUME NEW i \in 1..(Len(queue) + 1)
        PROVE  published'[Len(taken) + Popped + i] = queue'[i]
    <3>1. CASE i = Len(queue) + 1
      BY <1>2, <1>3, <1>4, <2>1, <2>2, <3>1
    <3>2. CASE i # Len(queue) + 1
      <4>1. i \in 1..Len(queue) /\ Len(taken) + Popped + i \in 1..Len(published)
        BY <1>2, <2>1, <2>2, <3>2
      <4>2. QED
        BY <1>3, <1>4, <4>1 DEF QInv, Order
    <3>3. QED
      BY <3>1, <3>2
  <2>6. QED
    <3>1. Len(published') = Len(taken) + Popped + Len(queue')
      BY <1>2, <1>3, <1>4, <2>1, <2>2
    <3>2. QED
      BY <1>1, <1>3, <2>1, <2>3, <2>4, <2>5, <3>1 DEF Order
<1>7. Each'
  <2>1. \A i \in 1..Len(published) : published[i] # j
    BY <1>1, <1>2 DEF ToSet
  <2>2. QED
    BY <1>2, <1>4, <2>1 DEF QInv, Each
<1>8. Hands' /\ Settled'
  BY <1>1 DEF QInv, Hands, Settled
<1>9. QED
  BY <1>5, <1>6, <1>7, <1>8 DEF QInv

LEMMA BootKeeps ==
    ASSUME QInv, Boot
    PROVE  QInv'
<1>1. /\ pc = "boot" /\ pc' = "poll" /\ processing = {} /\ processing' = {}
      /\ UNCHANGED <<job, stopping, fate, published, taken>>
  BY DEF Boot, QInv, Hands, Holding
<1>2. queue' = queue
  <2>1. queue' = queue \o <<>>
    BY <1>1, NothingStale DEF Boot
  <2>2. queue \in Seq(Jobs)
    BY DEF QInv, TypeOK
  <2>3. QED
    BY <2>1, <2>2
<1>3. TypeOK'
  BY <1>1, <1>2 DEF QInv, TypeOK
<1>4. Order' /\ Each' /\ Hands' /\ Settled'
  BY <1>1, <1>2 DEF QInv, Order, Each, Hands, Settled, Holding, Popped
<1>5. QED
  BY <1>3, <1>4 DEF QInv

\* The moves of the loop that touch neither mutex, and the shutdown flag.
LEMMA QuietKeeps ==
    ASSUME QInv, Poll \/ PopNone \/ Wake \/ Shutdown
    PROVE  QInv'
<1>1. /\ UNCHANGED <<queue, processing, job, fate, published, taken>>
      /\ pc' = pc \/ (pc \in {"poll", "fetch", "idle"} /\ pc' \in {"fetch", "stopped", "idle", "poll"})
  BY DEF Poll, PopNone, Wake, Shutdown
<1>2. TypeOK'
  BY DEF QInv, TypeOK, Poll, PopNone, Wake, Shutdown
<1>3. Popped' = Popped
  BY <1>1 DEF Popped
<1>4. Order' /\ Each'
  BY <1>1, <1>3 DEF QInv, Order, Each
<1>5. Hands' /\ Settled'
  BY <1>1 DEF QInv, Hands, Settled, Holding
<1>6. QED
  BY <1>2, <1>4, <1>5 DEF QInv

LEMMA PopFrontKeeps ==
    ASSUME QInv, PopFront
    PROVE  QInv'
<1>1. /\ pc = "fetch" /\ pc' = "popped" /\ queue # <<>>
      /\ queue' = Tail(queue) /\ job' = Head(queue)
      /\ UNCHANGED <<processing, stopping, fate, published, taken>>
  BY DEF PopFront
<1>2. /\ queue \in Seq(Jobs) /\ Len(queue) \in Nat /\ Len(taken) \in Nat
  BY DEF QInv, TypeOK
<1>3. /\ queue' \in Seq(Jobs) /\ Len(queue') = Len(queue) - 1 /\ Len(queue) > 0
      /\ job' = queue[1] /\ job' \in Jobs
      /\ \A i \in 1..(Len(queue) - 1) : queue'[i] = queue[i + 1]
  BY <1>1, <1>2, TailIs
<1>4. TypeOK'
  BY <1>1, <1>3 DEF QInv, TypeOK
<1>5. Popped = 0 /\ Popped' = 1
  BY <1>1 DEF Popped
<1>6. Order'
  <2>1. /\ Len(published) = Len(taken) + Len(queue)
        /\ \A i \in 1..Len(queue) : published[Len(taken) + i] = queue[i]
    BY <1>2, <1>5 DEF QInv, Order
  <2>2. \A i \in 1..(Len(queue) - 1) : published[Len(taken) + 1 + i] = queue'[i]
    BY <1>2, <1>3, <2>1
  <2>3. published[Len(taken) + 1] = job'
    BY <1>2, <1>3, <2>1
  <2>4. Len(published) = Len(taken) + 1 + Len(queue')
    BY <1>2, <1>3, <2>1
  <2>5. QED
    BY <1>1, <1>2, <1>3, <1>5, <2>2, <2>3, <2>4 DEF QInv, Order
<1>7. Each' /\ Hands' /\ Settled'
  BY <1>1, <1>3 DEF QInv, Each, Hands, Settled, Holding
<1>8. QED
  BY <1>4, <1>6, <1>7 DEF QInv

LEMMA MarkKeeps ==
    ASSUME QInv, MarkProcessing
    PROVE  QInv'
<1>1. /\ pc = "popped" /\ pc' = "handle"
      /\ processing' = {job} /\ job \in Jobs /\ taken' = Append(taken, job)
      /\ UNCHANGED <<queue, job, stopping, fate, published>>
  BY DEF MarkProcessing, QInv, Hands, Holding
<1>2. /\ taken \in Seq(Jobs) /\ Len(queue) \in Nat /\ Len(taken) \in Nat
  BY DEF QInv, TypeOK
<1>3. /\ taken' \in Seq(Jobs) /\ Len(taken') = Len(taken) + 1
      /\ \A i \in 1..Len(taken) : taken'[i] = taken[i]
      /\ taken'[Len(taken) + 1] = job
  BY <1>1, <1>2, AppendIs
<1>4. TypeOK'
  BY <1>1, <1>3 DEF QInv, TypeOK
<1>5. Popped = 1 /\ Popped' = 0
  BY <1>1 DEF Popped
<1>6. Order'
  <2>1. Len(published) = Len(taken') + Len(queue)
    BY <1>2, <1>3, <1>5 DEF QInv, Order
  <2>2. \A i \in 1..(Len(taken) + 1) : published[i] = taken'[i]
    BY <1>1, <1>2, <1>3 DEF QInv, Order
  <2>3. \A i \in 1..Len(queue) : published[Len(taken') + i] = queue[i]
    BY <1>2, <1>3, <1>5 DEF QInv, Order
  <2>4. QED
    BY <1>1, <1>2, <1>3, <1>5, <2>1, <2>2, <2>3 DEF Order
<1>7. Each' /\ Hands'
  BY <1>1, <1>2, <1>3 DEF QInv, Each, Hands, Holding
<1>8. Settled'
  BY <1>1, <1>2, <1>3 DEF QInv, Settled, Holding
<1>9. QED
  BY <1>4, <1>6, <1>7, <1>8 DEF QInv

LEMMA ReportKeeps ==
    ASSUME QInv, Handle \/ Capture
    PROVE  QInv'
<1>1. PICK o \in SUBSET {"done", "dropped", "recorded", "unrecorded"}, l \in {"capture", "ack"} :
         Report(o, l) /\ (l = "ack" => o # {})
  BY DEF Handle, Capture
<1>2. /\ pc \in {"handle", "capture"} /\ pc' = l
      /\ fate' = [fate EXCEPT ![job] = @ \cup o]
      /\ UNCHANGED <<queue, processing, job, stopping, published, taken>>
  BY <1>1 DEF Handle, Capture, Report
<1>3. /\ fate \in [Jobs -> SUBSET {"done", "dropped", "recorded", "unrecorded"}]
      /\ job \in Jobs /\ taken \in Seq(Jobs)
  BY <1>2 DEF QInv, TypeOK, Hands, Holding
<1>4. TypeOK'
  BY <1>2, <1>3 DEF QInv, TypeOK
<1>5. Popped' = Popped
  BY <1>2 DEF Popped
<1>6. Order' /\ Each'
  BY <1>2, <1>5 DEF QInv, Order, Each
<1>7. /\ \A j \in Jobs : fate[j] # {} => fate'[j] # {}
      /\ l = "ack" => fate'[job] # {}
  BY <1>1, <1>2, <1>3
<1>8. Hands'
  BY <1>2, <1>7 DEF QInv, Hands, Holding
<1>9. Settled'
  <2>1. \A i \in 1..Len(taken) : taken[i] \in Jobs
    BY <1>3
  <2>2. pc' \in Holding
    BY <1>2 DEF Holding
  <2>3. QED
    BY <1>2, <1>7, <2>1, <2>2 DEF QInv, Settled
<1>10. QED
  BY <1>4, <1>6, <1>8, <1>9 DEF QInv

LEMMA AckKeeps ==
    ASSUME QInv, Ack
    PROVE  QInv'
<1>1. /\ pc = "ack" /\ pc' = "poll" /\ job' = NoJob
      /\ processing = {job} /\ processing' = {} /\ fate[job] # {}
      /\ UNCHANGED <<queue, stopping, fate, published, taken>>
  BY DEF Ack, QInv, Hands, Holding
<1>2. TypeOK'
  BY <1>1 DEF QInv, TypeOK
<1>3. Order' /\ Each'
  BY <1>1 DEF QInv, Order, Each, Popped
<1>4. Hands' /\ Settled'
  BY <1>1 DEF QInv, Hands, Settled, Holding
<1>5. QED
  BY <1>2, <1>3, <1>4 DEF QInv

LEMMA NextQInv == QInv /\ [Next]_vars => QInv'
<1>1. SUFFICES ASSUME QInv, [Next]_vars
               PROVE  QInv'
  OBVIOUS
<1>2. CASE UNCHANGED vars
  <2>1. /\ queue' = queue /\ processing' = processing /\ pc' = pc /\ job' = job
        /\ stopping' = stopping /\ fate' = fate /\ published' = published /\ taken' = taken
    BY <1>2 DEF vars
  <2>2. QED
    BY <1>1, <2>1 DEF QInv, TypeOK, Order, Each, Hands, Settled, Popped
<1>3. CASE Next
  BY <1>1, <1>3, EnqueueKeeps, BootKeeps, QuietKeeps, PopFrontKeeps, MarkKeeps, ReportKeeps, AckKeeps
     DEF Next, Worker
<1>4. QED
  BY <1>1, <1>2, <1>3

LEMMA AlwaysQInv == Spec => []QInv
BY InitQInv, NextQInv, PTL DEF Spec

-----------------------------------------------------------------------------
(* What follows. *)

\* The two collections of core/queue/memory.rs and the worker's local variables
\* keep their types.
THEOREM TypeCorrect == Spec => []TypeOK
<1>1. QInv => TypeOK
  BY DEF QInv
<1>2. QED
  BY <1>1, AlwaysQInv, PTL

\* Without Redis a job is taken once, in the order of enqueue
\* (core/queue/memory.rs), whatever is enqueued while the worker dequeues.
THEOREM TakenOnceInOrder == Spec => []ExactlyOnceInOrder
<1>1. ASSUME QInv
      PROVE  ExactlyOnceInOrder
  <2>1. /\ taken \in Seq(Jobs) /\ published \in Seq(Jobs)
        /\ Len(taken) \in Nat /\ Len(published) \in Nat /\ Len(queue) \in Nat
    BY <1>1 DEF QInv, TypeOK
  <2>2. Len(taken) <= Len(published)
    BY <1>1, <2>1 DEF QInv, Order, Popped
  <2>3. SubSeq(taken, 1, Len(taken)) = [i \in 1..Len(taken) |-> taken[i]]
    BY <2>1
  <2>4. SubSeq(published, 1, Len(taken)) = [i \in 1..Len(taken) |-> published[i]]
    BY <2>1, <2>2
  <2>5. \A i \in 1..Len(taken) : published[i] = taken[i]
    BY <1>1 DEF QInv, Order
  <2>6. SubSeq(taken, 1, Len(taken)) = SubSeq(published, 1, Len(taken))
    BY <2>3, <2>4, <2>5
  <2>7. QED
    BY <2>2, <2>6 DEF ExactlyOnceInOrder, IsPrefix
<1>2. QED
  BY <1>1, AlwaysQInv, PTL

\* Where an entry of published is by now.
LEMMA Whereabouts ==
    ASSUME QInv, NEW j \in ToSet(published)
    PROVE  j \in Jobs /\ (j \in ToSet(queue) \/ (pc = "popped" /\ j = job) \/ j \in ToSet(taken))
<1>1. /\ taken \in Seq(Jobs) /\ published \in Seq(Jobs) /\ queue \in Seq(Jobs)
      /\ Len(taken) \in Nat /\ Len(published) \in Nat /\ Len(queue) \in Nat
      /\ DOMAIN taken = 1..Len(taken) /\ DOMAIN queue = 1..Len(queue)
      /\ DOMAIN published = 1..Len(published)
  BY DEF QInv, TypeOK
<1>2. PICK i \in 1..Len(published) : j = published[i]
  BY <1>1 DEF ToSet
<1>3. j \in Jobs
  BY <1>1, <1>2
<1>4. CASE i <= Len(taken)
  BY <1>1, <1>2, <1>4 DEF QInv, Order, ToSet
<1>5. CASE pc = "popped" /\ i = Len(taken) + 1
  <2>1. published[Len(taken) + 1] = job
    BY <1>5 DEF QInv, Order
  <2>2. QED
    BY <1>2, <1>3, <1>5, <2>1
<1>6. CASE i > Len(taken) /\ ~(pc = "popped" /\ i = Len(taken) + 1)
  <2>1. Popped \in 0..1 /\ i > Len(taken) + Popped
    BY <1>1, <1>6 DEF Popped
  <2> DEFINE k == i - (Len(taken) + Popped)
  <2>2. k \in 1..Len(queue) /\ Len(taken) + Popped + k = i
    BY <1>1, <2>1 DEF QInv, Order
  <2>3. j = queue[k]
    BY <1>2, <2>2 DEF QInv, Order
  <2>4. QED
    BY <1>1, <2>2, <2>3 DEF ToSet
<1>7. QED
  BY <1>1, <1>3, <1>4, <1>5, <1>6

\* No job is lost between the two critical sections of dequeue: it is queued,
\* in the worker's hands, or has an outcome.
THEOREM JobsAreAccounted == Spec => []Accounted
<1>1. ASSUME QInv
      PROVE  Accounted
  <2>1. SUFFICES ASSUME NEW j \in ToSet(published), j \notin ToSet(queue), job # j
                 PROVE  j \notin processing /\ fate[j] # {}
    BY DEF Accounted
  <2>2. j \in ToSet(taken)
    BY <1>1, <2>1, Whereabouts
  <2>3. PICK i \in 1..Len(taken) : j = taken[i]
    BY <1>1, <2>2 DEF ToSet, QInv, TypeOK
  <2>4. QED
    BY <1>1, <2>1, <2>3 DEF QInv, Settled, Hands
<1>2. QED
  BY <1>1, AlwaysQInv, PTL

-----------------------------------------------------------------------------
(* The contract of the trait. *)

\* The states of the abstract specification are those of MemoryQueue that
\* have an outcome: what is queued or popped is fresh.
LEMMA StatusOf ==
    ASSUME QInv, NEW j \in Jobs
    PROVE  /\ j \notin ToSet(published) => j \notin processing /\ j \notin ToSet(taken)
           /\ pc = "popped" => job \in ToSet(published) /\ job \notin ToSet(taken)
           /\ pc \in Holding => job \in ToSet(taken) /\ job \in ToSet(published)
<1>1. /\ taken \in Seq(Jobs) /\ published \in Seq(Jobs)
      /\ Len(taken) \in Nat /\ Len(published) \in Nat /\ Len(queue) \in Nat
      /\ DOMAIN taken = 1..Len(taken) /\ DOMAIN published = 1..Len(published)
  BY DEF QInv, TypeOK
<1>2. Len(taken) + Popped <= Len(published) /\ Popped \in 0..1
  BY <1>1 DEF QInv, Order, Popped
<1>3. ToSet(taken) \subseteq ToSet(published)
  BY <1>1, <1>2 DEF QInv, Order, ToSet
<1>4. ASSUME pc = "popped"
      PROVE  job \in ToSet(published) /\ job \notin ToSet(taken)
  <2>1. Len(taken) + 1 \in 1..Len(published) /\ published[Len(taken) + 1] = job
    BY <1>1, <1>2, <1>4 DEF QInv, Order, Popped
  <2>2. ASSUME NEW i \in 1..Len(taken)
        PROVE  taken[i] # job
    <3>1. i \in 1..Len(published) /\ published[i] = taken[i] /\ i # Len(taken) + 1
      BY <1>1, <1>2 DEF QInv, Order
    <3>2. QED
      BY <2>1, <3>1 DEF QInv, Each
  <2>3. QED
    BY <1>1, <2>1, <2>2 DEF ToSet
<1>5. ASSUME pc \in Holding
      PROVE  job \in ToSet(taken) /\ processing = {job}
  BY <1>1, <1>5 DEF QInv, Hands, ToSet
<1>6. pc \notin Holding => processing = {}
  BY DEF QInv, Hands
<1>7. QED
  BY <1>3, <1>4, <1>5, <1>6

LEMMA EnqueueSubmits ==
    ASSUME QInv, NEW j \in Jobs, Enqueue(j)
    PROVE  Trait!Submit(j)
<1>1. /\ j \notin ToSet(published) /\ UNCHANGED <<processing, taken>>
      /\ ToSet(published') = ToSet(published) \cup {j}
  BY AppendIs DEF Enqueue, QInv, TypeOK
<1>2. j \notin processing /\ j \notin ToSet(taken)
  BY <1>1, StatusOf
<1>3. QED
  BY <1>1, <1>2 DEF Trait!Submit, QueueStatus

LEMMA MarkDelivers ==
    ASSUME QInv, MarkProcessing
    PROVE  job \in Jobs /\ Trait!Deliver(job)
<1>1. /\ pc = "popped" /\ job \in Jobs /\ processing = {} /\ processing' = {job}
      /\ UNCHANGED published /\ ToSet(taken') = ToSet(taken) \cup {job}
  BY AppendIs DEF MarkProcessing, QInv, TypeOK, Hands, Holding
<1>2. job \in ToSet(published) /\ job \notin ToSet(taken)
  BY <1>1, StatusOf
<1>3. QED
  BY <1>1, <1>2 DEF Trait!Deliver, QueueStatus

LEMMA AckSettles ==
    ASSUME QInv, Ack
    PROVE  job \in Jobs /\ Trait!Settle(job)
<1>1. /\ job \in Jobs /\ processing = {job} /\ processing' = {}
      /\ UNCHANGED <<published, taken>> /\ pc \in Holding
  BY DEF Ack, QInv, Hands, Holding
<1>2. job \in ToSet(published) /\ job \in ToSet(taken)
  BY <1>1, StatusOf
<1>3. QED
  BY <1>1, <1>2 DEF Trait!Settle, QueueStatus

LEMMA OthersStutter ==
    ASSUME QInv, UNCHANGED <<processing, published, taken>>
    PROVE  UNCHANGED QueueStatus
BY DEF QueueStatus

\* The in-memory queue with its worker keeps the contract of the TaskQueue
\* trait: every step is a step of TaskQueue, or none.
THEOREM ImplementsTrait == Spec => Contract
<1>1. Init => Trait!Init
  BY DEF Init, Trait!Init, QueueStatus, ToSet
<1>2. ASSUME QInv, [Next]_vars
      PROVE  [Trait!Next]_QueueStatus
  <2>1. CASE \E j \in Jobs : Enqueue(j)
    BY <1>2, <2>1, EnqueueSubmits DEF Trait!Next
  <2>2. CASE MarkProcessing
    BY <1>2, <2>2, MarkDelivers DEF Trait!Next
  <2>3. CASE Ack
    BY <1>2, <2>3, AckSettles DEF Trait!Next
  <2>4. CASE Boot
    <3>1. UNCHANGED <<processing, published, taken>>
      BY <1>2, <2>4 DEF Boot, QInv, Hands, Holding
    <3>2. QED
      BY <1>2, <3>1, OthersStutter
  <2>5. CASE Poll \/ PopFront \/ PopNone \/ Wake \/ Handle \/ Capture \/ Shutdown \/ UNCHANGED vars
    <3>1. UNCHANGED <<processing, published, taken>>
      BY <2>5 DEF Poll, PopFront, PopNone, Wake, Handle, Capture, Report, Shutdown, vars
    <3>2. QED
      BY <1>2, <3>1, OthersStutter
  <2>6. QED
    BY <1>2, <2>1, <2>2, <2>3, <2>4, <2>5 DEF Next, Worker
<1>3. QED
  BY <1>1, <1>2, AlwaysQInv, PTL DEF Spec, Contract, Trait!Spec
=============================================================================
