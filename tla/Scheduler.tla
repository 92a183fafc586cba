------------------------------ MODULE Scheduler ------------------------------
(***************************************************************************)
(* The distributed scheduler: core/orchestrator/mod.rs, one loop per node, *)
(* over core/orchestrator/redis.rs, a leader lock with a TTL and a ZSET of *)
(* scheduled tasks.  Every command to Redis is a step of its own; it may   *)
(* fail before it runs, or run and lose its reply.                         *)
(***************************************************************************)
EXTENDS Naturals, Sequences, SequencesExt, FiniteSets

CONSTANTS
    Nodes, Tasks,
    Corrupt,      \* members of the ZSET that are not valid JSON
    Free,         \* no LEADER_KEY: it expired
    Gone,         \* LEADER_KEY holds the node_id of a process that died
    LeaderTTL,    \* LEADER_TTL_SECS, in ticks
    Batch,        \* SCHEDULE_BATCH
    MaxDelay,     \* bound: ticks between schedule_at and the due time
    MaxFailures   \* bound: failed commands and crashes

ASSUME SchedulerAssumption ==
    /\ IsFiniteSet(Nodes) /\ Free \notin Nodes /\ Gone \notin Nodes /\ Free # Gone
    /\ Corrupt \subseteq Tasks /\ IsFiniteSet(Tasks)
    /\ LeaderTTL \in Nat \ {0} /\ Batch \in Nat \ {0} /\ MaxDelay \in Nat
    /\ MaxFailures \in Nat

VARIABLES
    leader, ttl,  \* LEADER_KEY: its value and what is left of its TTL
    schedule,     \* SCHEDULE_KEY: its members
    due,          \* ticks until each task is due
    call,         \* where each call to schedule_at stands
    pc,           \* where each node's loop stands
    batch,        \* the tasks its cycle has still to move, the current one first
    copies,       \* how many jobs were enqueued for the task
    overlapped,   \* history: some cycle went on without the lock
    failures

vars == <<leader, ttl, schedule, due, call, pc, batch, copies, overlapped, failures>>

lockVars == <<leader, ttl>>
taskVars == <<schedule, due, call>>

Init ==
    /\ leader = Free /\ ttl = 0
    /\ schedule = Corrupt
    /\ due = [t \in Tasks |-> 0]
    /\ call = [t \in Tasks |-> IF t \in Corrupt THEN "ok" ELSE "none"]
    /\ pc = [n \in Nodes |-> "sleep"]
    /\ batch = [n \in Nodes |-> <<>>]
    /\ copies = [t \in Tasks |-> 0]
    /\ overlapped = FALSE
    /\ failures = 0

\* The cycle of n holds what try_acquire_leadership answered: that n leads.
Drains(n) == pc[n] \in {"list", "parse", "enqueue", "ack", "renewGet", "renewExpire"}

\* Notes a cycle that goes on while another node leads, or nobody.  Only a
\* tick and a late EXPIRE can bring that about.
Watch == overlapped' = (overlapped \/ \E n \in Nodes : Drains(n)' /\ leader' # n)

Fault == failures < MaxFailures /\ failures' = failures + 1
NoFault == UNCHANGED failures

\* After a command: the loop goes on with cycle b at l, or the reply was lost
\* and the error ends the cycle until after the next sleep.
Continue(n, l, b) ==
    \/ /\ pc' = [pc EXCEPT ![n] = l]
       /\ batch' = [batch EXCEPT ![n] = b]
       /\ NoFault
    \/ /\ pc' = [pc EXCEPT ![n] = "sleep"]
       /\ batch' = [batch EXCEPT ![n] = <<>>]
       /\ Fault

\* The loop goes on without a command having been sent.
Proceed(n, l, b) ==
    /\ pc' = [pc EXCEPT ![n] = l]
    /\ batch' = [batch EXCEPT ![n] = b]
    /\ NoFault

\* A command that fails before it runs ends the cycle.
CommandFails(n) ==
    /\ pc[n] \notin {"sleep", "down"}
    /\ Fault
    /\ pc' = [pc EXCEPT ![n] = "sleep"]
    /\ batch' = [batch EXCEPT ![n] = <<>>]
    /\ UNCHANGED <<lockVars, taskVars, copies, overlapped>>

-----------------------------------------------------------------------------
(* schedule_at: one ZADD, with a trace_id that makes the member unique. *)

ScheduleAt(t) ==
    /\ call[t] = "none"
    /\ \/ /\ schedule' = schedule \cup {t}
          /\ \E d \in 0..MaxDelay : due' = [due EXCEPT ![t] = d]
          /\ \/ call' = [call EXCEPT ![t] = "ok"] /\ NoFault
             \/ call' = [call EXCEPT ![t] = "failed"] /\ Fault
       \/ /\ call' = [call EXCEPT ![t] = "failed"] /\ Fault
          /\ UNCHANGED <<schedule, due>>
    /\ UNCHANGED <<lockVars, pc, batch, copies, overlapped>>

-----------------------------------------------------------------------------
(* try_acquire_leadership. *)

\* Slip: SET without NX.
SetAlways(n) ==
    /\ pc[n] = "sleep"
    /\ leader' = n /\ ttl' = LeaderTTL
    /\ Continue(n, "list", <<>>)
    /\ UNCHANGED <<taskVars, copies, overlapped>>

\* SET LEADER_KEY node_id NX EX LEADER_TTL_SECS.
SetNx(n) ==
    /\ pc[n] = "sleep"
    /\ IF leader = Free
       THEN /\ leader' = n /\ ttl' = LeaderTTL
            /\ Continue(n, "list", <<>>)
       ELSE UNCHANGED lockVars /\ Proceed(n, "get", <<>>)
    /\ UNCHANGED <<taskVars, copies, overlapped>>

\* GET LEADER_KEY.
GetLeader(n) ==
    /\ pc[n] = "get"
    /\ Proceed(n, IF leader = n THEN "extend" ELSE "sleep", <<>>)
    /\ UNCHANGED <<lockVars, taskVars, copies, overlapped>>

\* Slip: the renewal adds to what is left.
ExpireAdds == ttl' = (IF leader = Free THEN 0 ELSE ttl + LeaderTTL) /\ UNCHANGED leader

\* EXPIRE LEADER_KEY, whoever's the key is by now.
Expire == ttl' = (IF leader = Free THEN 0 ELSE LeaderTTL) /\ UNCHANGED leader

Extend(n) ==
    /\ pc[n] = "extend"
    /\ Expire
    /\ Continue(n, "list", <<>>)
    /\ Watch
    /\ UNCHANGED <<taskVars, copies>>

-----------------------------------------------------------------------------
(* process_schedule. *)

\* Slip: ZRANGE by rank, whatever the score.
DueTasksAll == schedule

DueTasks == {t \in schedule : due[t] = 0}

\* What ZRANGEBYSCORE -inf now LIMIT 0 Batch may list.  Scores in the past are
\* not told apart.
DueLists ==
    LET len == IF Cardinality(DueTasks) < Batch THEN Cardinality(DueTasks) ELSE Batch
    IN  {q \in [1..len -> DueTasks] : IsInjective(q)}

List(n) ==
    /\ pc[n] = "list"
    /\ \E q \in DueLists : Proceed(n, "parse", q)
    /\ UNCHANGED <<lockVars, taskVars, copies, overlapped>>

\* Slip: a corrupt entry is an error of due_tasks.
ParseFailing(n) ==
    /\ pc[n] = "parse"
    /\ Proceed(n, IF batch[n] = <<>> \/ \E i \in DOMAIN batch[n] : batch[n][i] \in Corrupt
                     THEN "sleep" ELSE "enqueue", batch[n])
    /\ UNCHANGED <<lockVars, taskVars, copies, overlapped>>

\* Slip: a corrupt entry is passed over and stays.
ParseSkipping(n) ==
    /\ pc[n] = "parse"
    /\ LET valid == SelectSeq(batch[n], LAMBDA t : t \notin Corrupt)
       IN  Proceed(n, IF valid = <<>> THEN "sleep" ELSE "enqueue", valid)
    /\ UNCHANGED <<lockVars, taskVars, copies, overlapped>>

\* The loop of due_tasks: corrupt entries are removed, the others collected.
\* Once none is corrupt the cycle moves the tasks, or ends when there is none.
Parse(n) ==
    /\ pc[n] = "parse"
    /\ LET junk == {i \in DOMAIN batch[n] : batch[n][i] \in Corrupt}
       IN  IF junk # {}
           THEN LET i == CHOOSE i \in junk : \A k \in junk : i <= k
                IN  /\ schedule' = schedule \ {batch[n][i]}
                    /\ Continue(n, "parse", RemoveAt(batch[n], i))
           ELSE /\ UNCHANGED schedule
                /\ Proceed(n, IF batch[n] = <<>> THEN "sleep" ELSE "enqueue", batch[n])
    /\ UNCHANGED <<lockVars, due, call, copies, overlapped>>

\* Slip: the error of enqueue is ignored.
EnqueueIgnoringError(n) ==
    /\ pc[n] = "enqueue"
    /\ \/ copies' = [copies EXCEPT ![Head(batch[n])] = @ + 1] /\ NoFault
       \/ UNCHANGED copies /\ Fault
    /\ pc' = [pc EXCEPT ![n] = "ack"]
    /\ UNCHANGED <<lockVars, taskVars, batch, overlapped>>

\* queue.enqueue(...).await?
Enqueue(n) ==
    /\ pc[n] = "enqueue"
    /\ copies' = [copies EXCEPT ![Head(batch[n])] = @ + 1]
    /\ Continue(n, "ack", batch[n])
    /\ UNCHANGED <<lockVars, taskVars, overlapped>>

\* Slip: the member removed is not the one that was listed.
AckNothing(n) ==
    /\ pc[n] = "ack"
    /\ Continue(n, "renewGet", Tail(batch[n]))
    /\ UNCHANGED <<lockVars, taskVars, copies, overlapped>>

\* ack_scheduled: ZREM, which succeeds whether or not the member is there.
AckScheduled(n) ==
    /\ pc[n] = "ack"
    /\ schedule' = schedule \ {Head(batch[n])}
    /\ Continue(n, "renewGet", Tail(batch[n]))
    /\ UNCHANGED <<lockVars, due, call, copies, overlapped>>

\* The next iteration of the for loop, or the end of the cycle.
NextTask(n) == IF batch[n] = <<>> THEN "sleep" ELSE "enqueue"

\* renew_leadership: GET.  Somebody else's lock is not an error, and the
\* loop goes on with the next task.
RenewGet(n) ==
    /\ pc[n] = "renewGet"
    /\ Proceed(n, IF leader = n THEN "renewExpire" ELSE NextTask(n), batch[n])
    /\ UNCHANGED <<lockVars, taskVars, copies, overlapped>>

\* renew_leadership: EXPIRE.
RenewExpire(n) ==
    /\ pc[n] = "renewExpire"
    /\ Expire
    /\ Continue(n, NextTask(n), batch[n])
    /\ UNCHANGED <<taskVars, copies, overlapped>>

-----------------------------------------------------------------------------
\* The process dies; a new one draws a new node_id.
Crash(n) ==
    /\ pc[n] # "down"
    /\ Fault
    /\ leader' = IF leader = n THEN Gone ELSE leader
    /\ pc' = [pc EXCEPT ![n] = "down"]
    /\ batch' = [batch EXCEPT ![n] = <<>>]
    /\ UNCHANGED <<ttl, taskVars, copies, overlapped>>

Restart(n) ==
    /\ pc[n] = "down"
    /\ Proceed(n, "sleep", <<>>)
    /\ UNCHANGED <<lockVars, taskVars, copies, overlapped>>

Less(x) == IF x > 0 THEN x - 1 ELSE 0

\* A tick of the clock; Redis removes the lock when its TTL is over.
Tick ==
    /\ ttl > 0 \/ \E t \in Tasks : due[t] > 0
    /\ ttl' = Less(ttl)
    /\ leader' = IF ttl <= 1 THEN Free ELSE leader
    /\ due' = [t \in Tasks |-> Less(due[t])]
    /\ UNCHANGED <<schedule, call, pc, batch, copies>> /\ NoFault
    /\ Watch

Cycle(n) ==
    \/ SetNx(n) \/ GetLeader(n) \/ Extend(n) \/ List(n) \/ Parse(n) \/ Enqueue(n)
    \/ AckScheduled(n) \/ RenewGet(n) \/ RenewExpire(n) \/ Restart(n)

Next ==
    \/ \E t \in Tasks : ScheduleAt(t)
    \/ \E n \in Nodes : Cycle(n) \/ CommandFails(n) \/ Crash(n)
    \/ Tick

Spec == Init /\ [][Next]_vars

\* tokio keeps polling each loop, time passes, and a supervisor restarts a
\* process that has gone.
Fairness ==
    /\ WF_vars(Tick)
    /\ \A n \in Nodes : WF_vars(Cycle(n))

FairSpec == Spec /\ Fairness

-----------------------------------------------------------------------------
PcStates == {"sleep", "get", "extend", "list", "parse", "enqueue", "ack",
             "renewGet", "renewExpire", "down"}

\* Every variable keeps its type: the two Redis keys of
\* core/orchestrator/redis.rs and the local variables of the loop.
TypeOK ==
    /\ leader \in Nodes \cup {Free, Gone}
    /\ ttl \in 0..LeaderTTL
    /\ schedule \subseteq Tasks
    /\ due \in [Tasks -> 0..MaxDelay]
    /\ call \in [Tasks -> {"none", "ok", "failed"}]
    /\ pc \in [Nodes -> PcStates]
    /\ batch \in [Nodes -> Seq(Tasks)]
    /\ copies \in [Tasks -> Nat]
    /\ overlapped \in BOOLEAN
    /\ failures \in Nat

\* A task whose schedule_at succeeded stays scheduled until a job was enqueued
\* for it, whoever believes to lead and whatever fails (process_schedule:
\* "Encolamos PRIMERO y solo entonces confirmamos").
ScheduledNotLost ==
    \A t \in Tasks \ Corrupt : call[t] = "ok" => t \in schedule \/ copies[t] > 0

\* No task is enqueued before it is due, also by a node that listed it while
\* leading and moves it later.
NeverEarly == \A t \in Tasks : copies[t] > 0 => due[t] = 0

\* A task becomes two jobs only if a command failed, a node crashed, or a
\* cycle outlived its lock: the lock itself lets one node move tasks at a time.
DuplicateNeedsAFailure ==
    \A t \in Tasks : copies[t] > 1 => failures > 0 \/ overlapped

\* However leadership overlaps, a task becomes at most one job per node, and
\* one more for every failed command and every crash.
BoundedDuplicates ==
    \A t \in Tasks : copies[t] <= Cardinality(Nodes) + failures

\* Every scheduled task is eventually enqueued once failures stop: whoever
\* held the lock when it died, and whatever corrupt entries are ahead of it.
EveryTaskEnqueued ==
    \A t \in Tasks \ Corrupt : call[t] = "ok" ~> copies[t] > 0

\* Corrupt entries do not jam the scheduler: they are removed.
CorruptRemoved == \A t \in Corrupt : <>[](t \notin schedule)

-----------------------------------------------------------------------------
(* A statement of the repository that the code does not keep. *)

\* mod.rs and redis.rs say that leadership is renewed only by the leader: a
\* node's renewal never prolongs the lock of another.
FencedRenewal == [][\A n \in Nodes : RenewExpire(n) => leader \in {n, Free}]_vars
=============================================================================
