------------------------------ MODULE JobWorker ------------------------------
(***************************************************************************)
(* Calls to RedisQueue::enqueue and the background loops of web/mod.rs     *)
(* that consume the queue: on every node one job worker and one reaper,    *)
(* started by bootstrap and stopped by its shutdown sequence.  Any command *)
(* sent to Redis may fail before it runs, or run and lose its reply; a     *)
(* node may crash between any two steps.                                   *)
(***************************************************************************)
EXTENDS RedisQueue

CONSTANTS
    Nodes,        \* the processes that share the Redis server
    NoJob,        \* "no job in hand"
    Unhandled,    \* the jobs whose task_type has no registered handler
    MaxFailures,  \* bound: failed commands, failed captures and crashes
    MaxStops      \* bound: shutdown signals

ASSUME WorkerAssumption ==
    /\ NoJob \notin Jobs
    /\ Unhandled \subseteq Jobs
    /\ MaxFailures \in Nat /\ MaxStops \in Nat

VARIABLES
    enq,          \* where each call to enqueue stands
    pc,           \* where each node's worker loop stands
    job,          \* the job the worker has in hand
    left,         \* ticks left of the deadline of its current dequeue
    stopping,     \* the shutdown flag the worker watches
    fate,         \* what became of the job, as far as handlers report it
    published,    \* history: the jobs LPUSHed by enqueue, in order
    delivered,    \* history: the jobs some dequeue script handed out
    late,         \* history: jobs taken by the worker since stopping was set
    failures, stops

vars == <<ready, store, inflight, lease, enq, pc, job, left, stopping, fate,
          published, delivered, late, failures, stops>>
procVars == <<pc, job, left, stopping, late>>
histVars == <<enq, fate, published, delivered>>
bounds == <<failures, stops>>

Up(n) == pc[n] \notin {"down", "boot"}
Holding == {"handle", "capture", "ack"}
Holds(n, j) == pc[n] \in Holding /\ job[n] = j
IsPublished(j) == \E i \in DOMAIN published : published[i] = j

Init ==
    /\ QueueInit
    /\ enq = [j \in Jobs |-> "none"]
    /\ pc = [n \in Nodes |-> "boot"]
    /\ job = [n \in Nodes |-> NoJob]
    /\ left = [n \in Nodes |-> 0]
    /\ stopping = [n \in Nodes |-> FALSE]
    /\ fate = [j \in Jobs |-> {}]
    /\ published = <<>>
    /\ delivered = {}
    /\ late = [n \in Nodes |-> 0]
    /\ failures = 0 /\ stops = 0

Fault == failures < MaxFailures /\ failures' = failures + 1 /\ UNCHANGED stops

Goto(n, l) == pc' = [pc EXCEPT ![n] = l]

-----------------------------------------------------------------------------
(* enqueue: HSET, then LPUSH; the first error ends the call. *)

Hset(j) ==
    /\ enq[j] = "none"
    /\ HsetJob(j)
    /\ enq' = [enq EXCEPT ![j] = "stored"]
    /\ UNCHANGED <<fate, published, delivered, procVars, bounds>>

HsetFails(j) ==
    /\ enq[j] = "none"
    /\ Fault
    /\ HsetJob(j) \/ UNCHANGED queueVars
    /\ enq' = [enq EXCEPT ![j] = "failed"]
    /\ UNCHANGED <<fate, published, delivered, procVars>>

Lpush(j) ==
    /\ enq[j] = "stored"
    /\ LpushJob(j)
    /\ published' = Append(published, j)
    /\ enq' = [enq EXCEPT ![j] = "ok"]
    /\ UNCHANGED <<fate, delivered, procVars, bounds>>

\* Also the producer that dies between its two commands.
LpushFails(j) ==
    /\ enq[j] = "stored"
    /\ Fault
    /\ \/ LpushJob(j) /\ published' = Append(published, j)
       \/ UNCHANGED queueVars /\ UNCHANGED published
    /\ enq' = [enq EXCEPT ![j] = "failed"]
    /\ UNCHANGED <<fate, delivered, procVars>>

-----------------------------------------------------------------------------
(* The worker loop. *)

\* Slip: the flag is only looked at when the queue is empty.
PollIgnoringStop(n) ==
    /\ pc[n] = "poll"
    /\ Goto(n, "fetch")
    /\ left' = [left EXCEPT ![n] = Visibility]
    /\ UNCHANGED <<queueVars, histVars, job, stopping, late, bounds>>

\* The top of the loop; dequeue then reads the clock for the new lease.
Poll(n) ==
    /\ pc[n] = "poll" /\ ~stopping[n]
    /\ Goto(n, "fetch")
    /\ left' = [left EXCEPT ![n] = Visibility]
    /\ UNCHANGED <<queueVars, histVars, job, stopping, late, bounds>>

Stop(n) ==
    /\ pc[n] = "poll" /\ stopping[n]
    /\ Goto(n, "stopped")
    /\ UNCHANGED <<queueVars, histVars, job, left, stopping, late, bounds>>

\* dequeue returns a job.
Dequeue(n) ==
    /\ pc[n] = "fetch" /\ ready # <<>> /\ Head(ready) \in store
    /\ PopJob(left[n])
    /\ Goto(n, "handle")
    /\ job' = [job EXCEPT ![n] = Head(ready)]
    /\ delivered' = delivered \cup {Head(ready)}
    /\ late' = [late EXCEPT ![n] = IF stopping[n] THEN @ + 1 ELSE @]
    /\ UNCHANGED <<enq, fate, published, left, stopping, bounds>>

\* dequeue returns None: the queue is empty, or its next id has no payload.
DequeueNone(n) ==
    /\ pc[n] = "fetch"
    /\ \/ ready = <<>> /\ UNCHANGED queueVars
       \/ ready # <<>> /\ Head(ready) \notin store /\ PopJob(left[n])
    /\ Goto(n, "idle")
    /\ left' = [left EXCEPT ![n] = 0]
    /\ UNCHANGED <<histVars, job, stopping, late, bounds>>

\* dequeue returns Err; the script may have run.
DequeueFails(n) ==
    /\ pc[n] = "fetch"
    /\ Fault
    /\ \/ UNCHANGED <<queueVars, delivered>>
       \/ /\ PopJob(left[n])
          /\ delivered' = delivered \cup ({Head(ready)} \cap store)
    /\ Goto(n, "idle")
    /\ left' = [left EXCEPT ![n] = 0]
    /\ UNCHANGED <<enq, fate, published, job, stopping, late>>

\* The select at the bottom of the loop: a second passes, or stopping is set.
Wake(n) ==
    /\ pc[n] = "idle"
    /\ Goto(n, "poll")
    /\ UNCHANGED <<queueVars, histVars, job, left, stopping, late, bounds>>

\* What a step of the handler's arm of the match says of the job in hand.
Report(n, outcome, l) ==
    /\ Goto(n, l)
    /\ fate' = [fate EXCEPT ![job[n]] = @ \cup outcome]
    /\ UNCHANGED <<queueVars, enq, published, delivered, job, left, stopping, late>>

HandleOk(n) ==
    /\ pc[n] = "handle" /\ job[n] \notin Unhandled
    /\ Report(n, {"done"}, "ack")
    /\ UNCHANGED bounds

HandleErr(n) ==
    /\ pc[n] = "handle" /\ job[n] \notin Unhandled
    /\ Report(n, {}, "capture")
    /\ UNCHANGED bounds

NoHandler(n) ==
    /\ pc[n] = "handle" /\ job[n] \in Unhandled
    /\ Report(n, {"dropped"}, "ack")
    /\ UNCHANGED bounds

\* RecoveryService::capture_failure: record in the blackbox, or log the error.
Capture(n) ==
    /\ pc[n] = "capture"
    /\ Report(n, {"recorded"}, "ack")
    /\ UNCHANGED bounds

CaptureFails(n) ==
    /\ pc[n] = "capture"
    /\ Fault
    /\ Report(n, {"unrecorded"}, "ack")

Ack(n) ==
    /\ pc[n] = "ack"
    /\ AckJob(job[n])
    /\ Goto(n, "poll")
    /\ job' = [job EXCEPT ![n] = NoJob]
    /\ left' = [left EXCEPT ![n] = 0]
    /\ UNCHANGED <<histVars, stopping, late, bounds>>

\* `let _ =`: the loop goes on whatever acknowledge returned.
AckFails(n) ==
    /\ pc[n] = "ack"
    /\ Fault
    /\ AckJob(job[n]) \/ UNCHANGED queueVars
    /\ Goto(n, "poll")
    /\ job' = [job EXCEPT ![n] = NoJob]
    /\ left' = [left EXCEPT ![n] = 0]
    /\ UNCHANGED <<histVars, stopping, late>>

-----------------------------------------------------------------------------
(* The reaper, and the node's life. *)

\* A reaper tick that finds expired leases; its clock may run ahead.
Reap(n) ==
    /\ Up(n)
    /\ \E s \in 0..MaxSkew : Expired(s) # {} /\ ReclaimExpired(s)
    /\ UNCHANGED <<histVars, procVars, bounds>>

\* bootstrap's recover_stale, before the loops start.
Boot(n) ==
    /\ pc[n] = "boot"
    /\ \E s \in 0..MaxSkew : ReclaimExpired(s)
    /\ Goto(n, "poll")
    /\ UNCHANGED <<histVars, job, left, stopping, late, bounds>>

\* Its error is logged and startup goes on.
BootFails(n) ==
    /\ pc[n] = "boot"
    /\ Fault
    /\ UNCHANGED queueVars
    /\ Goto(n, "poll")
    /\ UNCHANGED <<histVars, job, left, stopping, late>>

\* shutdown_tx.send(true), once the HTTP server has stopped.
Shutdown(n) ==
    /\ Up(n) /\ ~stopping[n]
    /\ stops < MaxStops /\ stops' = stops + 1
    /\ stopping' = [stopping EXCEPT ![n] = TRUE]
    /\ UNCHANGED <<queueVars, histVars, pc, job, left, late, failures>>

Leave(n) ==
    /\ Goto(n, "down")
    /\ job' = [job EXCEPT ![n] = NoJob]
    /\ left' = [left EXCEPT ![n] = 0]
    /\ stopping' = [stopping EXCEPT ![n] = FALSE]
    /\ late' = [late EXCEPT ![n] = 0]
    /\ UNCHANGED <<queueVars, histVars>>

\* main returns after the worker has stopped.
Exit(n) ==
    /\ pc[n] = "stopped"
    /\ Leave(n)
    /\ UNCHANGED bounds

\* A crash, a handler that panics, or the exit forced 30 s after Shutdown.
Crash(n) ==
    /\ pc[n] \notin {"down", "stopped"}
    /\ Fault
    /\ Leave(n)

Restart(n) ==
    /\ pc[n] = "down"
    /\ Goto(n, "boot")
    /\ UNCHANGED <<queueVars, histVars, job, left, stopping, late, bounds>>

\* A second passes for the leases and for the deadlines in the workers' hands.
Tick ==
    /\ \/ \E j \in Jobs : lease[j] > 0
       \/ \E n \in Nodes : left[n] > 0
    /\ AgeLeases
    /\ left' = [n \in Nodes |-> Less(left[n])]
    /\ UNCHANGED <<histVars, pc, job, stopping, late, bounds>>

-----------------------------------------------------------------------------
Producer(j) == Hset(j) \/ HsetFails(j) \/ Lpush(j) \/ LpushFails(j)

\* The loop's own steps when nothing goes wrong.
WorkerStep(n) ==
    \/ Poll(n) \/ Stop(n) \/ Dequeue(n) \/ DequeueNone(n) \/ Wake(n)
    \/ HandleOk(n) \/ HandleErr(n) \/ NoHandler(n) \/ Capture(n) \/ Ack(n)

NodeFailure(n) ==
    \/ DequeueFails(n) \/ CaptureFails(n) \/ AckFails(n) \/ BootFails(n) \/ Crash(n)

Lifecycle(n) == Boot(n) \/ Exit(n) \/ Restart(n)

Next ==
    \/ \E j \in Jobs : Producer(j)
    \/ \E n \in Nodes : \/ WorkerStep(n) \/ NodeFailure(n) \/ Lifecycle(n)
                        \/ Reap(n) \/ Shutdown(n)
    \/ Tick

Spec == Init /\ [][Next]_vars

\* tokio keeps polling the worker and reaper tasks, time passes, and the
\* operator's supervisor restarts a process that has gone.
Fairness ==
    /\ WF_vars(Tick)
    /\ \A n \in Nodes : WF_vars(WorkerStep(n)) /\ WF_vars(Lifecycle(n)) /\ WF_vars(Reap(n))

FairSpec == Spec /\ Fairness

-----------------------------------------------------------------------------
EnqStates == {"none", "stored", "ok", "failed"}
PcStates == {"down", "boot", "poll", "fetch", "idle", "handle", "capture", "ack", "stopped"}
Fates == {"done", "recorded", "dropped", "unrecorded"}

\* Every variable keeps its type: the keys of core/queue/redis.rs and the
\* local variables of the worker loop of web/mod.rs.
TypeOK ==
    /\ QueueTypeOK
    /\ enq \in [Jobs -> EnqStates]
    /\ pc \in [Nodes -> PcStates]
    /\ job \in [Nodes -> Jobs \cup {NoJob}]
    /\ left \in [Nodes -> 0..Visibility]
    /\ stopping \in [Nodes -> BOOLEAN]
    /\ fate \in [Jobs -> SUBSET Fates]
    /\ published \in Seq(Jobs)
    /\ delivered \subseteq Jobs
    /\ late \in [Nodes -> Nat]
    /\ failures \in Nat /\ stops \in Nat

\* No published job is ever lost: until some attempt at it has ended with an
\* outcome its payload is stored and its id is either waiting or under lease,
\* whatever fails, crashes or is acknowledged late by a former holder
\* (enqueue, dequeue, acknowledge and recover_stale of core/queue/redis.rs).
NotLost ==
    \A j \in Jobs :
        IsPublished(j) => IF j \in store THEN InReady(j) \/ j \in inflight
                                         ELSE fate[j] # {}

\* A job is in the hands of two workers only when the lease of one of them
\* has run out (up to the reaper's clock skew): while a lease lasts nobody
\* else is given the job (dequeue and recover_stale, "seguro en multi-nodo").
ExclusiveLease ==
    \A m, n \in Nodes : \A j \in Jobs :
        m # n /\ Holds(m, j) /\ Holds(n, j) => left[m] <= MaxSkew \/ left[n] <= MaxSkew

\* First deliveries are in the order of publication, also across jobs that
\* recover_stale puts back (LPUSH left, RPOP right).
FifoFirstDelivery ==
    \A i, k \in DOMAIN published :
        i < k /\ published[k] \in delivered => published[i] \in delivered

\* After the shutdown flag is set a worker takes at most the one job whose
\* dequeue was already under way (worker loop of web/mod.rs).
AtMostOneAfterShutdown == \A n \in Nodes : late[n] <= 1

\* What the queue owes for each job, for the contract of the trait.
QueueStatus ==
    [j \in Jobs |->
        IF ~IsPublished(j) THEN "absent"
        ELSE IF j \in inflight THEN "leased"
        ELSE IF j \notin store THEN "settled"
        ELSE IF j \in delivered THEN "returned"
        ELSE "fresh"]

Trait == INSTANCE TaskQueue WITH status <- QueueStatus

\* RedisQueue and its consumers implement the contract of the TaskQueue
\* trait: nothing is settled before it was delivered, nothing settled comes
\* back, and only a delivered job is returned.
Contract == Trait!Spec

\* Every published job is eventually settled, with an outcome, once failures
\* stop: by a worker or, after a crash, by way of an expired lease.
EveryJobSettles ==
    \A j \in Jobs : IsPublished(j) ~> j \notin store /\ fate[j] # {}

-----------------------------------------------------------------------------
(* Why NotLost and ExclusiveLease hold: the parts of an inductive invariant. *)

\* The list holds an id once, and none that is under lease.
ReadyInv ==
    /\ \A i, k \in DOMAIN ready : ready[i] = ready[k] => i = k
    /\ \A j \in Jobs : InReady(j) => j \notin inflight

\* The list and the leases hold published jobs; a lease protects a payload.
KeysInv ==
    /\ \A j \in Jobs : InReady(j) => IsPublished(j)
    /\ \A j \in inflight : IsPublished(j) /\ j \in store

\* Where a call to enqueue stands says what it has written so far.
EnqueueInv ==
    \A j \in Jobs :
        /\ enq[j] = "none" => j \notin store
        /\ enq[j] = "stored" => j \in store
        /\ IsPublished(j) => enq[j] \in {"ok", "failed"}

\* A worker's job was published, and has an outcome before it is acknowledged.
HolderInv ==
    \A n \in Nodes :
        /\ pc[n] \in Holding => job[n] \in Jobs /\ IsPublished(job[n])
        /\ pc[n] = "ack" => fate[job[n]] # {}

\* While a holder's deadline is ahead of every clock the lease it took is
\* still there, unless somebody has acknowledged the job.
LeaseInv ==
    \A n \in Nodes : \A j \in Jobs :
        Holds(n, j) /\ left[n] > MaxSkew /\ j \in store =>
            j \in inflight /\ lease[j] = left[n]

IInv ==
    /\ TypeOK /\ ReadyInv /\ KeysInv /\ EnqueueInv /\ HolderInv /\ LeaseInv
    /\ NotLost /\ ExclusiveLease

-----------------------------------------------------------------------------
(* A statement of the repository that the code does not keep. *)

\* DEPLOYMENT.md says in-flight jobs that were not completed are recovered at
\* restart: after bootstrap's recover_stale none is left without a holder.
RestartRecovers ==
    [][\A n \in Nodes : Boot(n) =>
           \A j \in inflight' : \E m \in Nodes : Holds(m, j)]_vars
=============================================================================
