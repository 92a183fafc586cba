----------------------------- MODULE RedisQueue -----------------------------
(***************************************************************************)
(* The three Redis keys of core/queue/redis.rs and the commands RedisQueue *)
(* runs on them.  A Lua script is one command: Redis runs it atomically.   *)
(* Time is kept as what is left of each lease, so that it needs no bound.  *)
(***************************************************************************)
EXTENDS Naturals, Sequences, FiniteSets

CONSTANTS
    Jobs,         \* ids of the calls to enqueue; each call makes a new Uuid
    Visibility,   \* VISIBILITY_TIMEOUT_SECS, in ticks
    MaxSkew       \* how far a reaper's clock may run ahead, in ticks

ASSUME QueueAssumption == IsFiniteSet(Jobs) /\ Visibility \in Nat /\ MaxSkew \in Nat

VARIABLES
    ready,        \* READY_KEY, its right end (RPOP) first
    store,        \* the ids whose payload is in JOBS_KEY
    inflight,     \* the members of INFLIGHT_KEY
    lease         \* their scores: ticks left, 0 for expired and for non-members

queueVars == <<ready, store, inflight, lease>>

QueueInit ==
    /\ ready = <<>>
    /\ store = {}
    /\ inflight = {}
    /\ lease = [j \in Jobs |-> 0]

InReady(j) == \E i \in DOMAIN ready : ready[i] = j

\* enqueue, first command: HSET JOBS_KEY.
HsetJob(j) ==
    /\ store' = store \cup {j}
    /\ UNCHANGED <<ready, inflight, lease>>

\* Slip: the new id goes to the end that RPOP takes from.
LpushJobAtFront(j) ==
    /\ ready' = <<j>> \o ready
    /\ UNCHANGED <<store, inflight, lease>>

\* enqueue, second command: LPUSH READY_KEY.
LpushJob(j) ==
    /\ ready' = Append(ready, j)
    /\ UNCHANGED <<store, inflight, lease>>

\* Slip: the script registers no lease.
PopJobNoLease(t) ==
    /\ ready # <<>>
    /\ ready' = Tail(ready)
    /\ UNCHANGED <<store, inflight, lease>>

\* Slip: the script does not look whether the payload is still there.
PopJobUnchecked(t) ==
    /\ ready # <<>>
    /\ ready' = Tail(ready)
    /\ inflight' = inflight \cup {Head(ready)}
    /\ lease' = [lease EXCEPT ![Head(ready)] = t]
    /\ UNCHANGED store

\* Slip: the script adds the timeout that the caller has already added.
PopJobTwiceTimed(t) ==
    /\ ready # <<>>
    /\ ready' = Tail(ready)
    /\ IF Head(ready) \in store
       THEN /\ inflight' = inflight \cup {Head(ready)}
            /\ lease' = [lease EXCEPT ![Head(ready)] = t + Visibility]
       ELSE UNCHANGED <<inflight, lease>>
    /\ UNCHANGED store

\* dequeue's script with a lease of t ticks.  An id without payload is
\* dropped, and the caller is told that there is nothing to do.
PopJob(t) ==
    /\ ready # <<>>
    /\ ready' = Tail(ready)
    /\ IF Head(ready) \in store
       THEN /\ inflight' = inflight \cup {Head(ready)}
            /\ lease' = [lease EXCEPT ![Head(ready)] = t]
       ELSE UNCHANGED <<inflight, lease>>
    /\ UNCHANGED store

\* acknowledge's script.  It does not ask who holds the lease.
AckJob(j) ==
    /\ inflight' = inflight \ {j}
    /\ lease' = [lease EXCEPT ![j] = 0]
    /\ store' = store \ {j}
    /\ UNCHANGED ready

\* Slip: every lease is reclaimed, as MemoryQueue does.
ExpiredAll(s) == inflight

\* The members whose score a clock running s ticks ahead finds in the past.
Expired(s) == {j \in inflight : lease[j] <= s}

\* The orders in which ZRANGEBYSCORE may list S: by score.  Scores that are
\* all in the past are not told apart.
ByScore(S) ==
    {q \in [1..Cardinality(S) -> S] :
        /\ \A j \in S : \E i \in DOMAIN q : q[i] = j
        /\ \A i, k \in DOMAIN q : i < k => /\ q[i] # q[k]
                                           /\ lease[q[i]] <= lease[q[k]]}

\* Slip: the leases are removed and nothing is pushed.
ReclaimWithoutPush(s) ==
    /\ inflight' = inflight \ Expired(s)
    /\ lease' = [j \in Jobs |-> IF j \in Expired(s) THEN 0 ELSE lease[j]]
    /\ UNCHANGED <<ready, store>>

\* recover_stale's script: expired jobs go to the back of the queue.
ReclaimExpired(s) ==
    /\ \E q \in ByScore(Expired(s)) : ready' = ready \o q
    /\ inflight' = inflight \ Expired(s)
    /\ lease' = [j \in Jobs |-> IF j \in Expired(s) THEN 0 ELSE lease[j]]
    /\ UNCHANGED store

Less(t) == IF t > 0 THEN t - 1 ELSE 0

\* One tick of the clock, seen by the scores.
AgeLeases ==
    /\ lease' = [j \in Jobs |-> Less(lease[j])]
    /\ UNCHANGED <<ready, store, inflight>>

QueueTypeOK ==
    /\ ready \in Seq(Jobs)
    /\ store \subseteq Jobs
    /\ inflight \subseteq Jobs
    /\ lease \in [Jobs -> 0..Visibility]
=============================================================================
