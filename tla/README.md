# A verification project for pulse-framework

TLA+ modules that model parts of pulse-framework (the Rust crate under `src/`),
TLC configurations that check them on small instances, and proofs that TLAPS
checks. Paths below are relative to the repository.

Contents: 1 the system · 2 the modules · 3 the runs · 4 fairness · 5 the proofs ·
6 where code and documents disagree · 7 what is not modelled · 8 the plan.

## 1. The system: inventory

A pulse-framework process is an actix HTTP server with background tasks. Every
infrastructure part has two backends, chosen at startup by whether `REDIS_URL`
is set: one in the process and one in Redis that many processes share.

| part | state | operations | talks to | what is hard | what makes it correct |
|---|---|---|---|---|---|
| `TaskQueue` (`core/queue/mod.rs`) | jobs owed to consumers | enqueue, dequeue, acknowledge, recover_stale | producers (API, scheduler, applications), worker | at-least-once delivery over failures | a job is delivered until acknowledged and never afterwards |
| Redis queue (`core/queue/redis.rs`) | list of ready ids, hash of payloads, ZSET of leases | HSET+LPUSH, three Lua scripts | Redis, shared by all nodes | two-command enqueue; leases that run out under a live worker; clocks that differ | nothing is lost; a lease is exclusive while it lasts; first deliveries are FIFO |
| memory queue (`core/queue/memory.rs`) | deque and in-flight map, a mutex each | the same | worker and request threads | a job is in neither collection between the two locks | exactly once, in order |
| job worker, reaper, shutdown (`web/mod.rs`) | job in hand, watch flag | dequeue loop, reap loop, startup recovery, drain | queue, blackbox | crash anywhere; `let _ = acknowledge`; forced exit after 30 s | published jobs are settled; at most one job after shutdown |
| scheduler (`core/orchestrator`) | leader lock with TTL, ZSET of tasks | acquire/renew, schedule_at, due_tasks, enqueue, ack | Redis, queue | check and act are separate commands; leadership lapses in mid-batch; corrupt entries | tasks are not lost, not early, duplicated only as failures explain, never jammed |
| blackbox (`core/blackbox`) | SQL table, rotating file | record, tail, find, rotate | worker, API, recovery | fallback between recorders, concurrent rotation, merge | a failure is recorded once somewhere and found again |
| recovery (`services/recovery_service.rs`) | none | capture_failure, replay | blackbox, user service | capture of a capture; replay of the same record twice | replay does not duplicate its effect |
| registration (`services/user_service.rs`, `web/api.rs`) | users table (UNIQUE) | pre-check, insert, list | database, blackbox | two registrations of one name | one winner, a clean refusal for the other |
| hybrid store (`store/`) | local map, Redis, pub/sub invalidation | get, set, delete, listener | Redis | fill racing an invalidation; messages lost while disconnected; capacity check then insert | at rest a copy is current, but for a race or a lost message |
| access (`core/ratelimit.rs`, `auth/`) | window counters, revoked ids | check, issue, verify, revoke | store, API | fixed-window boundary, purge of tracked keys, revocation over failures | no span of a window's length lets through more than twice the limit; a revoked token stays refused |
| event bus (`pulse/`) | broadcast channel, pub/sub | emit, subscribe, listener | Redis, chat example | lag, disconnection, a logger that stops at the first lag | in order, each once; what is missing was lost by Redis or the receiver was told it lags |
| pure rules (`core/validation.rs`, `core/query.rs`, `auth/ldap.rs`) | none | page arithmetic, role mapping, password rules | API | boundaries | total, in range |
| migrations (`migration/`) | lock on destructive commands | up, down, fresh | database | the guard on destructive commands | refused unless allowed |
| wiki and chat examples, CLI, dashboard | revisions, page cache / one subscription / none | edit, read | store, database, bus | concurrent edits, cache fill after update | revision numbers unique, cache coherent |

Interactions: the scheduler and the API produce into the queue; the worker
consumes and, on a failed handler, writes to the blackbox; the API reads the
blackbox and replays through the registration service; store, revocation, event
bus and rate limiter use the same Redis. The first two chains carry the
program's promises (at-least-once work, nothing lost at shutdown or crash).

`PROJECT.json` lists, under `hazards`, each place where this code can go wrong
in a way a test hardly reaches, with the property that covers it or a note why
none does.

## 2. The modules

| module | models | state ↔ code |
|---|---|---|
| `TaskQueue` | the abstract contract of the trait | `status[j]`: what is owed for job `j` |
| `RedisQueue` | the Redis keys and one operator per command or script | `ready`, `store`, `inflight`+`lease` = `READY_KEY`, `JOBS_KEY`, `INFLIGHT_KEY` and its scores |
| `JobWorker` (over `RedisQueue`) | calls to enqueue, worker loop, reaper, startup recovery, shutdown, crash and restart on every node | `enq` where a call stands; `pc`, `job` the loop; `left` the deadline computed by the current dequeue; `stopping` the watch flag |
| `MemoryQueue` | the in-process queue with its worker | `queue`, `processing` the two mutexes' contents |
| `Scheduler` | `Orchestrator` over `RedisCoordinator` on every node | `leader`+`ttl`, `schedule`+`due` the two keys; `pc`, `batch` the cycle |
| `HybridStore` | both layers of the store, eviction, the invalidation channel and its listener | `local` the map of every node, `remote` Redis, `inbox` messages on their way, `listening` who is subscribed |
| `Wiki` (over `HybridStore`) | reading, creating, editing, restoring and deleting pages through the store, and the seeding of every node | `pages`, `revisions`, `seeded` the tables; `req` where a handler stands and its local variables; `boot` where `ensure_schema_and_seed` stands |
| `PageHistory` | the abstract contract of the page service: a log of edits per page | `shown[k]` what a reader sees, `log[k]` the page's entries |
| `Access` | login, refresh, logout, the extractors, over both limiters, both denylists and both authenticators | `token` what still verifies, `revoked` the denylist, `limiter` the counters, `req` the handlers |
| `Blackbox` | the table and the file of the flight recorder, one operator per await | `primary` the rows; `lines` every line in the order in which it was written, each with its file; `current`, `rotated` the files the two paths name, so a file that neither names is gone; `pending` writes handed to the runtime |
| `Registration` (over `Blackbox`) | `create_user`, the failed job of the worker, capture, replay and the list of failures | `users`, `announced`; `captured` what each record is about; `req` the handlers; `list` a list of failures between its reads |
| `Broadcast` | a tokio broadcast channel (external) | `sent`, and a `cursor` per receiver |
| `EventBus` (over `Broadcast`) | both reactors and the task that logs signals | `queue` the mpsc channel or what Redis has on its way; `draining`, `listening`, `logging` the tasks |
| `Chat` (over `Broadcast`) | the session loop of the chat example | `status` where each session stands |
| `MCChannels` | composes `EventBus` and `Chat` over one `Broadcast` for TLC | `app` says which of the two a behaviour is of |
| `JobWorkerProofs`, `MemoryQueueProofs`, `SchedulerProofs`, `AccessProofs`, `RegistrationProofs`, `WikiProofs`, `WikiCacheProofs`, `ChannelProofs` | theorems, section 5 | |
| other `MC…` | instances for TLC | |

Granularity. A Redis command, or a Lua script (which Redis runs atomically), is
one step; so are a critical section of a mutex, a database transaction and every
stretch of a handler between two awaits. What lies between two awaits is folded
into the step before or after. `PopJob`, `AckJob` and `ReclaimExpired` are the
three scripts of the queue; `Hset` and `Lpush` are the two commands of enqueue,
and a producer that stops between them is `LpushFails`. A UNIQUE index is a guard
of the transaction (`Accepts`, `Updates`), not of the check that precedes it. The
list of failures (`FallbackFlightRecorder::tail`) reads the table, opens the file
and reads its lines in three steps, and captures, writes and rotations of others
happen in between; it follows one failure that somebody looks for, `sought`, and
says in `owing` which recorder still has to show it.

Failures. A command fails either before it runs or after, with the reply lost:
`HsetFails`, `LpushFails`, `DequeueFails`, `AckFails`, `PrimaryFails`,
`InsertUnanswered`, and `Continue` in `Scheduler` for every command that writes.
The file fails too: its size is not known (`MetadataFails`), it cannot be renamed,
which nobody notices (the second disjunct of `Rotate`), opened (`OpenFails`) or
written (`LoseLine`), and the list of failures cannot read the table, open the file
or read it to its end (`TailPrimaryFails`, `TailOpenFails`, `TailLinesFails`).
A process may crash between any two steps (`Crash`, `Restart` in `Access`); a
handler that panics is a crash because the release profile aborts on panic, and a
worker cut off by the 30-second limit of the shutdown sequence is one too. A
handler may also be dropped at any await because its client has gone (`Abandon`).
A crash loses the job in hand, the local map, writes on their way to the disk and
the node's identity (`Gone` in `Scheduler`: the new process draws a new node_id).
Redis and the database do not lose what they took; pub/sub messages to a listener
that is disconnected are lost (`LoseConnection`, `Disconnect`).

Time. Only differences matter, so a deadline is kept as what is left of it, and
`Tick` decrements leases, TTLs, delays, token lives and windows at the same pace.
The worker reads the clock before the script runs (`Poll` sets `left`, `Dequeue`
uses it), so a slow dequeue registers a short lease, as in the code. A reaper's
clock may be ahead of the others by up to `MaxSkew` ticks. Scores that are all in
the past are not told apart: `ByScore` and `DueLists` allow each order. `Access`
keeps the differences between the two backends: Redis drops a key when its time
is over, the maps keep theirs and compare with `>` or `>=` as the code does.

Data. A job, a key, a user, a slug is a model value. A page's title, content and
author change together and are one edit number; a signal is the number of its
emission; a blackbox record is the moment of its capture. Files are numbered
because a rename changes what a path names and not what an open handle writes to
or reads from.

History variables (`published`, `delivered`, `late`, `taken`, `copies`,
`overlapped`, `answered`, `torn`, `excused`, `crowded`, `out`, `admitted`,
`gone`, `overtaken`, `lost`, `shown`, `lagged`, and the field `owing` of `list`) are only written, never read by a
guard, except that a call to enqueue happens once per job and that a list which
owes nothing any more is not followed to its end, as it changes nothing. `fate[j]` is what
handlers reported of a job: `done`, `dropped` (no handler), `recorded` or
`unrecorded` (handler failed, capture worked or not).

## 3. The runs

| run | instance | shows |
|---|---|---|
| `worker_safety` | 2 nodes, 2 jobs, lease 2, skew 1, 2 failures, 1 shutdown; symmetry on nodes and jobs | `NotLost`, `ExclusiveLease`, `FifoFirstDelivery`, `AtMostOneAfterShutdown` |
| `worker_liveness` | 2 nodes, 2 jobs (one without handler), lease 1, 1 failure; no symmetry | `EveryJobSettles`, and `Contract`: the queue implements `TaskQueue` |
| `memory_queue` | 3 jobs, one without handler | `ExactlyOnceInOrder`, `Accounted`, `Contract`, `EveryJobSettles` |
| `scheduler` | 2 nodes, 4 tasks (two corrupt), TTL 1, batch 2, delay ≤ 1, 1 failure | `ScheduledNotLost`, `NeverEarly`, `DuplicateNeedsAFailure`, `BoundedDuplicates`, `EveryTaskEnqueued`, `CorruptRemoved` |
| `wiki` | 2 nodes, 2 slugs, room for 1 in each map, 2 handlers, 2 requests, 1 failure | `HistoryMatchesPage`, `PagesAreLogs`: `Wiki` implements `PageHistory`, `CapacityBounded`, `StaleNeedsARace`, `EveryNodeServes` |
| `access` | 1 user, 1 client, 2 handlers, 2 tokens, lives 1 and 2, leeway 1, window 2, limit 1; Redis fails at will | `LoginsBounded`, `LogoutHolds`, `LockoutEnds`, `DemotionTakesHold` |
| `registration` | 2 handlers and the worker, 2 forms with one email, 2 requests, 1 failed job, files full at 1 record, a list of 1; symmetry on handlers and names | `OneAccountEach`, `FailureLeavesATrace`, `RotationLosesOnlyOld`, `ListShowsNewest` |
| `channels` | channel of 2, mpsc of 2, 5 signals; 2 sessions, 2 texts | `BusInOrder`, `EverySignalLogged`, `ChatShown`, `ChatPresence` |
| `rotation_race`, `restart_in_flight`, `unfenced_renewal`, `denylist_grows` | that of `registration`, and smallest instances | the disagreements of section 6 |

In words, for the queue: *NotLost* – a published job whose payload exists is
ready or under lease, and a job whose payload is gone has an outcome, even if a
worker that outlived its lease acknowledges a job that is queued again or in
another worker's hands. *ExclusiveLease* – two workers hold one job only if one
has outlived its lease. *FifoFirstDelivery* – first deliveries keep the order of
publication, also across jobs put back. *DuplicateNeedsAFailure* – a scheduled
task becomes two jobs only after a failure or a cycle that outlived its lock;
*BoundedDuplicates* – and then at most one per node and one more per failure.
*ScheduledNotLost* – a task leaves the schedule only after its job is enqueued.

For the wiki: *HistoryMatchesPage* – the revisions of a page are numbered without
a gap and the last is what the page says; only a page whose seeding was cut off
has none. *PagesAreLogs* – the page service implements
`PageHistory`: a page is a log, what it shows is the last entry, and each change is
one whole edit, creation or deletion at a time, although an update reads the page
and its last number two awaits before it commits. (`NoEditLost`, an edit that was
answered stays in the history with its number, follows from the same invariant and
is proved only.)
*StaleNeedsARace* – once everything has come to rest a copy in either
layer differs from the database only if some task carried a value that an edit
overtook, or an invalidation was lost. *CapacityBounded* – a local map exceeds
its capacity only on a node where tasks inserted at a time, by one entry each.

For access: *LogoutHolds* – a request that starts after a logout was answered is
turned away, except where the denylist could not be read or written, or the token
is past its exp and within the leeway. *LoginsBounded* – no span as long as the
window sees more than twice the limit. *LockoutEnds* – nobody is locked out for
good. *DemotionTakesHold* – who loses the role for good has one day no admin
token, although refresh copies old roles.

For the blackbox: *OneAccountEach* – registrations and replays that race never
make two accounts with one name or email. *FailureLeavesATrace* – what was
captured is in the table, in one of the two files that still have a path, or on
its way there. The excuses are named: both recorders failed, the disk lost the
write or the recording was cut off (`gone`); as many later lines as fill a file
pushed it out (`PushedOut`); two writers at a time cost it (`overtaken`): one
renamed a file that was not the one it had found too large, or a line reached a
file that had been rotated after it was opened. *RotationLosesOnlyOld* – every
line in a file that has lost both paths is older than every line that is kept, and
a full file is kept; lines that two writers cost are excused by name.
*ListShowsNewest* – a list of failures leaves out one that a recorder had when the
list began only where it shows as many newer ones as it may. A recorder that
failed to answer, a file that was rotated before it was opened or whose lines are
not in the order of capture excuses what was to come from there, and nothing that
was to come from the other recorder.

For the channels: *BusInOrder* – signals arrive in order, each once, and only
Redis loses any. *EverySignalLogged* – a signal is logged unless Redis lost it or
the logging task fell behind, which ends it. *ChatShown*, *ChatPresence* – a
client that has not lagged misses nothing since its own "joined"; "joined" and
"left" say who is there however a session ends.

Bounds. Two nodes are what the hazards need: a former and a current holder, an
old and a new leader, two seeders, a writer and a node with a stale copy. A lease
of 2 with skew 1 has all three cases (running, near its end, over), and lets a
job be redelivered while its first worker is still busy; TTL 1 lets the lock
change hands at every point of a cycle. Two failures allow a crash and a lost
reply in one behaviour. Two jobs have an order; a batch of two holds both tasks,
one task and one corrupt entry, or both corrupt entries, which then fill it and
jam the scheduler if they are not removed (the mutant of `EveryTaskEnqueued`). Room for one entry makes
every second slug evict; two requests and the seeding are an edit and a racing
reader or editor. A leeway of 1 shows the time in which a token verifies that has
no denylist entry; a window of 2 has a start, a middle and an end. A file that
is full at one record lets three records rotate twice, so that one file is lost,
also by two writers that both saw the full file; a list of one must choose between
the two recorders. One list is under way at a time because lists change nothing
and do not meet. Five signals lap a channel of two. `MaxFailures`, `MaxStops`,
`MaxDelay`, `MaxRequests`, `MaxJobs`, `MaxSignals`, `MaxTexts` and the sets of
tasks and tokens are the only bounds on behaviours; all are named in the modules.
`memory_queue` switches deadlock checking off because the process ends; `wiki`,
`registration` and `channels` because requests, signals and texts are bounded and
the system comes to rest. The other systems never stop.

Each property has a mutant in `PROJECT.json`: an operator marked `Slip:` in the
module, which changes a step as a plausible mistake would (a dropped lease, an
ignored error, a missing UNIQUE, a wrong end of the list), and breaks the
property.

## 4. Fairness

Fairness is weak throughout, and of the code's own steps only: the steps of each
loop or handler taken together (tokio polls a spawned task that is ready;
commands and handlers return), tickers, listeners that resubscribe, time, and the
restart of a process that has gone (`DEPLOYMENT.md` counts on restarts; who
restarts it is left open). Nothing is assumed of failures, shutdowns, producers,
clients or emitters. Where failures are counted (queue, scheduler, wiki) liveness
is stated for executions in which they eventually stop: with failures for ever no
retry loop can promise more. In `Access` failures are unbounded and time alone
makes lockouts and tokens end. `channels` has no failure that recurs for ever to
exclude either: a signal that Redis loses is excused by name.

## 5. What is proved

Theorems hold for every value of the constants that satisfies the named `ASSUME`s
of the modules: any number of nodes, tasks, users, clients, tokens, sessions and
receivers, any lease, TTL, leeway, window, capacity, segment size, skew and bound.
`Jobs` (queue), `Nodes` and `Tasks` (scheduler) and the handlers of the wiki are
finite where a script lists or an argument counts them.

| module | theorem | states |
|---|---|---|
| `JobWorkerProofs` | `TypeCorrect` | `Spec => []TypeOK` |
| `JobWorkerProofs` | `Invariance` | `Spec => []IInv` |
| `JobWorkerProofs` | `NothingLost` | `Spec => []NotLost` |
| `JobWorkerProofs` | `LeaseIsExclusive` | `Spec => []ExclusiveLease` |
| `JobWorkerProofs` | `StopsPromptly` | `Spec => []AtMostOneAfterShutdown` |
| `JobWorkerProofs` | `ImplementsContract` | `Spec => Contract` |
| `JobWorkerProofs` | `FirstDeliveriesInOrder` | `Spec => []FifoFirstDelivery` |
| `AccessProofs` | `LogoutIsFinal` | `Spec => LogoutHolds` |
| `AccessProofs` | `EntryOutlivesToken` | `Spec => []LogoutInv` |
| `AccessProofs` | `LoginsAreBounded` | `Spec => []LoginsBounded` |
| `AccessProofs` | `LockoutRunsDown` | `Spec => [][\A c \in Clients : ~Allows(c) /\ ~Allows(c)' => limiter[c].left \in 0..Window /\ Runs(c)]_vars` |
| `AccessProofs` | `PrivilegeStaysGone` | `Spec => [][\A u \in Users : Clean(u) /\ u \notin admins' => Clean(u)']_vars` |
| `AccessProofs` | `TypeCorrect` | `Spec => []TypeOK` |
| `MemoryQueueProofs` | `TakenOnceInOrder` | `Spec => []ExactlyOnceInOrder` |
| `MemoryQueueProofs` | `JobsAreAccounted` | `Spec => []Accounted` |
| `MemoryQueueProofs` | `ImplementsTrait` | `Spec => Contract` |
| `MemoryQueueProofs` | `TypeCorrect` | `Spec => []TypeOK` |
| `SchedulerProofs` | `TasksAreNotLost` | `Spec => []ScheduledNotLost` |
| `SchedulerProofs` | `TasksAreNotEarly` | `Spec => []NeverEarly` |
| `SchedulerProofs` | `DuplicatesHaveACause` | `Spec => []DuplicateNeedsAFailure` |
| `SchedulerProofs` | `DuplicatesAreBounded` | `Spec => []BoundedDuplicates` |
| `SchedulerProofs` | `TypeCorrect` | `Spec => []TypeOK` |
| `RegistrationProofs` | `AccountsAreUnique` | `Spec => []OneAccountEach` |
| `RegistrationProofs` | `FailuresAreRecorded` | `Spec => []FailureLeavesATrace` |
| `RegistrationProofs` | `RotationKeepsTheNewest` | `Spec => []RotationLosesOnlyOld` |
| `RegistrationProofs` | `ListIsNewest` | `Spec => []ListShowsNewest` |
| `RegistrationProofs` | `TypeCorrect` | `Spec => []TypeOK` |
| `WikiProofs` | `EditsStay` | `Spec => []NoEditLost` |
| `WikiProofs` | `HistoryIsThePage` | `Spec => []HistoryMatchesPage` |
| `WikiProofs` | `ImplementsHistory` | `Spec => PagesAreLogs` |
| `WikiProofs` | `TypeCorrect` | `Spec => []TypeOK` |
| `WikiCacheProofs` | `CopiesAreCurrent` | `Spec => []StaleNeedsARace` |
| `WikiCacheProofs` | `MapIsBounded` | `Spec => []CapacityBounded` |
| `ChannelProofs` | `SignalsArriveInOrder` | `Spec => []BusInOrder` |
| `ChannelProofs` | `PresenceIsHonest` | `Spec => []ChatPresence` |
| `ChannelProofs` | `NothingMissed` | `Spec => []ChatShown` |
| `ChannelProofs` | `TypeCorrect` | `Spec => []TypeOK` |

The arguments.

*Queue over Redis.* `NotLost` is not inductive: an acknowledge could delete a
payload of a job without an outcome, and a pop could forget one of two copies of
an id. `IInv` (in `JobWorker`) adds what rules this out: `ReadyInv`, the list
holds an id once and none that is under lease; `KeysInv`, list and leases hold
published jobs and a lease protects a payload; `EnqueueInv`, what each call to
enqueue has written; `HolderInv`, a worker's job was published and has an outcome
before it is acknowledged. `ExclusiveLease` needs `LeaseInv`: while a holder's
deadline is ahead of every clock, the lease it took is still registered with the
same time left, unless the job was acknowledged. A dequeue takes an id from the
list, so the id has no lease, so by `LeaseInv` any other holder is past its
deadline. `JobWorkerProofs` has first what each script does to the set of ids in
the list (`LpushEffect`, `PopEffect`, `ReclaimEffect`), then types, then one lemma
per command. Its second half strengthens `IInv` with `DeliveredInv` (what is
leased or held was delivered) and maps each command to a step of the contract:
LPUSH to `Submit`, the pop to `Deliver` or nothing, acknowledge to `Settle` or
nothing, the reclaim to `Return` or nothing. `FInv` relates the list to the
history of publications: jobs that were never delivered stand in it in their
order, behind those that were put back, hence first deliveries are in order.

*Queue in memory.* `QInv` says where the entries of the queue stand between the
two histories: what was taken, then the job in hand, then the queue, is what was
enqueued. Order, single delivery and the refinement follow.

*Scheduler.* `SInv` is about the batch a node works through: what is left of it
was due when listed, and the head of a batch that waits for its ZREM was
enqueued. `CalmInv` covers executions without failure or overlap: only the leader
drains, a scheduled task is not yet a job but for the one between its job and its
ZREM. `BoundInv` is the counting argument behind `BoundedDuplicates`: the copies
of a task, plus the nodes that still have it ahead of them, never exceed nodes
plus failures once it is out of the schedule.

*Access.* `LogoutHolds` needs the relation between two clocks (`LogoutInv`): the
denylist entry of a token that was logged out has at least as long to live as
the token, and a request that presents such a token is known to (`late`).
`LoginsBounded` needs to know what a window has to do with the span: `RateInv`
orders the ages of the latest logins and says of a window that is open, with
count `n` and age `a`, that its `n` logins are the latest, that the login before
them is at least `a` old, and that the one `Limit` further back is a `Window` ago.
A login that opens a window can do so only when the last one is over, so whatever
was counted in it is by then the second half of the span. The map's comparison
(`>`) keeps a window one tick longer than Redis does; the invariant covers both.
Two theorems prove the safety halves of properties that TLC checks under fairness.
`LockoutRunsDown`: what is left of the window of a refused client falls with every
tick and by nothing else, and is at most `Window`; with `WF_vars(Tick)` that is
`LockoutEnds`. `PrivilegeStaysGone`: once no list, token or request says that a user
is an admin, only a list can say so again; what remains of `DemotionTakesHold` is
that requests end and tokens run out.

*Registration and blackbox.* `OneAccountEach` is inductive by the UNIQUE indexes
alone: whatever the pre-check saw plays no part. For the files, `Paths` says that
they come one after the other and the two paths name the last of them, and `Ages`
relates files to the order of the lines: a line was written before every line of a
later file (`Aged`), a file was thrown away only because the next was full
(`Spared`, `FullKept`), or the line is `overtaken`; and who is about to rename has
seen a full file (`SawFull`). So what a rename destroys is older than all of a full
file, which by `OlderThanFull` makes it `PushedOut`: `RotateKeeps` carries both
`FailureLeavesATrace` and `RotationLosesOnlyOld`, and the case of the writer that
renames another file than it saw is where `overtaken` grows. For the list, a set
*covers* a failure if it contains it or as many newer ones as the limit. `ListInv`
says that what has been read covers the failure as long as it is owed: more
records cover no less (`MoreCovers`), the newest `limit` of a set cover what the
set covers (`NewestCovers`, by the largest number that falls out), and the last
lines of a file in order cover all its records (`FileCovers`). A recorder's
records only grow while a path stays (`NextGrows`). The types need one counting
argument (`AccountInv`): accounts, plus the tasks that may still make one, are at
most the requests that were started.

*Wiki.* `TablesInv`: identities are distinct, the revisions of a page are 1 to n,
an update that reads n and commits does so on the page it read, and the last
revision says what the page says. `NoEditLost` and `HistoryMatchesPage` follow,
and the cache plays no part in either. For `PagesAreLogs` the same invariant says
what each step does to a log: the lemmas `OrderTyped`, `OrderAppends` and
`EmptyOrder` are about sets of numbered records read in their order, `AddToLog`
says that a revision whose number follows and is not taken is appended to one log
and leaves the others, and `NewPage` that a fresh identity has none. Then the
transaction of create maps to `Create`, of update to `Edit`, delete to `Delete`, the
two statements of the seeding to `Seed` and `Record`, the arrival of an update to
`Submit`, and every other step to a stutter; a seeding whose page was deleted
meanwhile writes a revision that no log shows. The types (`TypeInv`, `NumbersInv`) add what
the layers and the handlers carry, which is always the content of an edit that was
made, and a count: the highest number of a page plus the updates that are under
way is at most the edits plus the requests, because an update comes of a request
and gives up its place when it takes a number.

*Wiki cache.* `CacheInv` says of every copy that differs from the database who is
on the way to remove it: the handler before its remove, DEL or PUBLISH, or a
message in the node's inbox; and a value in a handler's hands is current, or the
slug is `excused`. When nobody is on the way, every copy is current, which is
`StaleNeedsARace`. `RoomInv` counts a task that has found room as if it had
inserted: entries and such tasks are at most `Capacity` together, or `Capacity`
plus all tasks but one once two were at it together.

*Channels.* `BusLine`: what was broadcast, then what is on its way, is increasing
and is everything emitted but `lost`. `Hall`: who spoke has joined, and from a
client's own "joined" on the channel and the end of what it was shown agree
message by message (`Trails`).

Model-checked only: liveness and everything under fairness (`EveryJobSettles`,
`EveryTaskEnqueued`, `CorruptRemoved`, `EveryNodeServes`, `LockoutEnds`,
`DemotionTakesHold`, `EverySignalLogged`), which is out of the prover's reach.
Every invariant and every safety property of the passing runs is a theorem.

## 6. Where code and documents disagree

Four runs find a statement of the repository violated (`findings` in
`PROJECT.json` quotes them): the rotation of the blackbox file is said to be by
size, but two writers that both saw the full file both rename, and the second
replaces the full segment by one that has just been started; a restart
within the lease does not recover the job that was in flight, although
`DEPLOYMENT.md` says so (the reaper does, later); `renew_leadership` is called
fencing but its GET and EXPIRE are two commands, so it can prolong another
node's lock; entries of the in-memory denylist are said to disappear when their
token has expired, but only a lookup removes one, and an expired token is refused
before the lookup.

Seen while reading, and where the models show it:

- "Only the leader drains" (`orchestrator/mod.rs`) stops being true when a batch
  outlives the lock (`overlapped`).
- `revocation.rs:98` says fail-closed; the code answers "not revoked" when Redis
  fails (`CheckBlind`). A failed write of a logout is logged and answered with 200
  (`LogoutUnwritten`).
- A token that is logged out within the leeway gets an entry of 0 seconds in
  memory and of 1 in Redis, and verifies until the leeway is over (`LogoutHolds`
  excuses `left <= 0`).
- Logout revokes the access token only; the refresh token goes on.
- `api.rs:166` says a change of roles affects new tokens; a refresh issues new
  tokens with the old roles (`Refresh`). `DemotionTakesHold` shows that this ends
  with the refresh token.
- `ratelimit.rs:23` calls the number of tracked clients a hard bound; the purge
  removes nothing while every window is open, and the insert is unconditional.
- `api.rs` documents 409 for a taken name; the loser of a race passes the
  pre-check, meets the index, gets 500 and is captured (`InsertFails`).
- `disk.rs:33` keeps one previous segment; the records that the race of two writers
  destroys are `overtaken` in `FailureLeavesATrace` and `RotationLosesOnlyOld`.
  Replay and the list do not look at the rotated segment at all.
- An enqueue that is cut off between HSET and LPUSH leaves a payload without an id.
  `redis.rs:57` speaks of the opposite case, which the order of the commands
  excludes; no command of the queue removes the payload (`HsetFails`, `LpushFails`).
- A failed job is acknowledged also when its capture failed (`fate` has
  `unrecorded`); replay knows only `create_user`, so jobs captured by the worker
  cannot be replayed, and a replayed record stays where it is.
- `store/mod.rs:58` and `wiki/src/api.rs:258` state the capacity and the coherence
  of the cache without condition; they hold as `CapacityBounded` and
  `StaleNeedsARace` state them.

## 7. What is not modelled

- The HTTP server, its configuration, health and metrics pages and the counters of
  `PulseEngine::bootstrap`: only a page reads them. (The gauge of active
  connections is not decremented when a handler is dropped.)
- `core/validation.rs`, `core/query.rs`, slugs, error codes: functions on strings
  and numbers without state. Validation comes before a modelled request starts.
- Which role a DN maps to, how a password is compared, how a token is signed: an
  attempt succeeds or not, a token verifies until its time.
- The memory backend of the store, which does nothing: what is left is the local
  layer. The copy of a user that `create_user` puts in the store: nobody reads it.
- Listing and searching pages and users: they change nothing. An update that gives
  only some fields of a page: the fields are one edit in `Wiki`, so the loss of
  another field's change is not told apart (listed as a hazard without property).
- The number of clients the limiter tracks (a hazard without property): `Access`
  has the counter of each client and not the map's size.
- Migrations: a check of the command line before a call to a library; the UNIQUE
  indexes they create are in `Registration` and `Wiki`.
- CLI and dashboard: templates, input and output.
- Partial writes of Redis (scripts are atomic there), a poisoned mutex (a panic
  aborts), wording and logging.
- Serialisation. The one place where an error of it would change the control is
  `memory.rs:62`: a payload that does not parse would leave `dequeue` between the
  two locks, and the popped job would be lost. Every entry of that queue is what
  `enqueue` serialised in the same process (`memory.rs:47`), so `MarkProcessing` has
  no such branch and `Accounted` is stated for payloads that parse. In the
  blackbox file a line that is being written while another process reads it may be
  seen in part; the reader skips it, which is as if it had read earlier.

## 8. What could come next

1. A scheduled task followed into the queue: `Scheduler` composed with `JobWorker`
   so that one liveness property spans both; at present `EveryTaskEnqueued` ends
   where `EveryJobSettles` begins.
2. Field-wise edits in `Wiki`, for the two updates of different fields.
3. The tracked clients of the limiter, with the purge as a step.
