----------------------------- MODULE MemoryQueue -----------------------------
(***************************************************************************)
(* core/queue/memory.rs, the queue of a process that runs without Redis,   *)
(* with the only consumer it then has: that process's job worker           *)
(* (web/mod.rs).  Each critical section of the two mutexes is one step.    *)
(* No reaper runs, the locks are never poisoned (a panic aborts the        *)
(* process) and a crash takes the queue with it, so none is modelled.      *)
(***************************************************************************)
EXTENDS Naturals, Sequences, SequencesExt

CONSTANTS
    Jobs,         \* the calls to enqueue
    NoJob,        \* "no job in hand"
    Unhandled     \* the jobs whose task_type has no registered handler

ASSUME MemoryAssumption == NoJob \notin Jobs /\ Unhandled \subseteq Jobs

VARIABLES
    queue,        \* queue: Mutex<VecDeque>
    processing,   \* processing: Mutex<HashMap>
    pc, job,      \* the worker loop and the job in its hands
    stopping,     \* the shutdown flag it watches
    fate,         \* what became of each job
    published,    \* history: jobs in the order enqueue pushed them
    taken         \* history: jobs in the order the worker got them

vars == <<queue, processing, pc, job, stopping, fate, published, taken>>

Init ==
    /\ queue = <<>> /\ processing = {}
    /\ pc = "boot" /\ job = NoJob /\ stopping = FALSE
    /\ fate = [j \in Jobs |-> {}]
    /\ published = <<>> /\ taken = <<>>

\* Slip: push_front.
EnqueueAtFront(j) ==
    /\ pc # "boot"
    /\ j \notin ToSet(published)
    /\ queue' = <<j>> \o queue
    /\ published' = Append(published, j)
    /\ UNCHANGED <<processing, pc, job, stopping, fate, taken>>

\* enqueue: push_back under the queue lock, by a request handler or a task of
\* the application; none runs before bootstrap has recovered the queue.
Enqueue(j) ==
    /\ pc # "boot"
    /\ j \notin ToSet(published)
    /\ queue' = Append(queue, j)
    /\ published' = Append(published, j)
    /\ UNCHANGED <<processing, pc, job, stopping, fate, taken>>

\* bootstrap calls recover_stale: everything in processing goes to the back
\* of the queue, in the order the map happens to be drained.
Boot ==
    /\ pc = "boot"
    /\ \E q \in SetToSeqs(processing) : queue' = queue \o q
    /\ processing' = {}
    /\ pc' = "poll"
    /\ UNCHANGED <<job, stopping, fate, published, taken>>

Poll ==
    /\ pc = "poll"
    /\ pc' = IF stopping THEN "stopped" ELSE "fetch"
    /\ UNCHANGED <<queue, processing, job, stopping, fate, published, taken>>

\* Slip: a shutdown cancels dequeue between its critical sections.
PopFrontCancelled ==
    /\ pc = "fetch" /\ queue # <<>>
    /\ queue' = Tail(queue)
    /\ job' = IF stopping THEN NoJob ELSE Head(queue)
    /\ pc' = IF stopping THEN "stopped" ELSE "popped"
    /\ UNCHANGED <<processing, stopping, fate, published, taken>>

\* Slip: the popped job is not kept.
PopFrontForgets ==
    /\ pc = "fetch" /\ queue # <<>>
    /\ queue' = Tail(queue)
    /\ pc' = "popped"
    /\ UNCHANGED <<processing, job, stopping, fate, published, taken>>

\* dequeue, first critical section.
PopFront ==
    /\ pc = "fetch" /\ queue # <<>>
    /\ queue' = Tail(queue)
    /\ job' = Head(queue)
    /\ pc' = "popped"
    /\ UNCHANGED <<processing, stopping, fate, published, taken>>

\* Slip: the loop ends when the queue is empty.
PopNoneEnds ==
    /\ pc = "fetch" /\ queue = <<>>
    /\ pc' = "stopped"
    /\ UNCHANGED <<queue, processing, job, stopping, fate, published, taken>>

PopNone ==
    /\ pc = "fetch" /\ queue = <<>>
    /\ pc' = "idle"
    /\ UNCHANGED <<queue, processing, job, stopping, fate, published, taken>>

\* Slip: the job is not kept in flight.
MarkNothing ==
    /\ pc = "popped"
    /\ taken' = Append(taken, job)
    /\ pc' = "handle"
    /\ UNCHANGED <<queue, processing, job, stopping, fate, published>>

\* dequeue, second critical section; it returns the job.
MarkProcessing ==
    /\ pc = "popped"
    /\ processing' = processing \cup {job}
    /\ taken' = Append(taken, job)
    /\ pc' = "handle"
    /\ UNCHANGED <<queue, job, stopping, fate, published>>

Wake ==
    /\ pc = "idle"
    /\ pc' = "poll"
    /\ UNCHANGED <<queue, processing, job, stopping, fate, published, taken>>

Report(outcome, l) ==
    /\ fate' = [fate EXCEPT ![job] = @ \cup outcome]
    /\ pc' = l
    /\ UNCHANGED <<queue, processing, job, stopping, published, taken>>

Handle ==
    /\ pc = "handle"
    /\ IF job \in Unhandled
       THEN Report({"dropped"}, "ack")
       ELSE Report({"done"}, "ack") \/ Report({}, "capture")

\* capture_failure: recorded, or an error that is only logged.
Capture == pc = "capture" /\ (Report({"recorded"}, "ack") \/ Report({"unrecorded"}, "ack"))

Ack ==
    /\ pc = "ack"
    /\ processing' = processing \ {job}
    /\ job' = NoJob
    /\ pc' = "poll"
    /\ UNCHANGED <<queue, stopping, fate, published, taken>>

\* shutdown_tx.send(true).
Shutdown ==
    /\ pc # "boot" /\ ~stopping
    /\ stopping' = TRUE
    /\ UNCHANGED <<queue, processing, pc, job, fate, published, taken>>

Worker ==
    Boot \/ Poll \/ PopFront \/ PopNone \/ MarkProcessing \/ Wake \/ Handle \/ Capture \/ Ack

Next == (\E j \in Jobs : Enqueue(j)) \/ Worker \/ Shutdown

\* tokio keeps polling the worker task.
Spec == Init /\ [][Next]_vars /\ WF_vars(Worker)

-----------------------------------------------------------------------------
\* Every variable keeps its type: the two collections of
\* core/queue/memory.rs and the worker's local variables.
TypeOK ==
    /\ queue \in Seq(Jobs) /\ published \in Seq(Jobs) /\ taken \in Seq(Jobs)
    /\ processing \subseteq Jobs
    /\ pc \in {"boot", "poll", "fetch", "popped", "idle", "handle", "capture", "ack", "stopped"}
    /\ job \in Jobs \cup {NoJob}
    /\ stopping \in BOOLEAN
    /\ fate \in [Jobs -> SUBSET {"done", "dropped", "recorded", "unrecorded"}]

\* Without Redis every job is taken exactly once and in the order in which it
\* was enqueued, although producers run while the worker dequeues.
ExactlyOnceInOrder == IsPrefix(taken, published)

\* A job that left the queue is in the worker's hands, or has an outcome:
\* between the two critical sections of dequeue it is in neither collection.
Accounted ==
    \A j \in ToSet(published) :
        j \in ToSet(queue) \/ job = j \/ (j \notin processing /\ fate[j] # {})

QueueStatus ==
    [j \in Jobs |->
        IF j \notin ToSet(published) THEN "absent"
        ELSE IF j \in processing THEN "leased"
        ELSE IF j \in ToSet(taken) THEN "settled"
        ELSE "fresh"]

Trait == INSTANCE TaskQueue WITH status <- QueueStatus

\* MemoryQueue implements the contract of the TaskQueue trait.
Contract == Trait!Spec

\* Every job is eventually settled with an outcome, unless the process is
\* told to stop first: what is then still queued goes with the process.
EveryJobSettles ==
    \A j \in Jobs : j \in ToSet(published)
        ~> (stopping \/ (j \in ToSet(taken) /\ j \notin processing /\ fate[j] # {}))
=============================================================================
