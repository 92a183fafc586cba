------------------------------ MODULE TaskQueue ------------------------------
(***************************************************************************)
(* What the TaskQueue trait (core/queue/mod.rs) promises, whatever its     *)
(* backend: a job that was accepted is handed out at least once, may be    *)
(* handed out again while nobody has acknowledged it, and is never handed  *)
(* out again once it has been acknowledged.  The backends together with    *)
(* the worker loop are shown to implement this module.                     *)
(***************************************************************************)
CONSTANT Jobs

VARIABLE status          \* what the queue owes for each job

Statuses == {"absent", "fresh", "leased", "returned", "settled"}

Init == status = [j \in Jobs |-> "absent"]

\* enqueue: the job is visible to consumers from here on.
Submit(j) ==
    /\ status[j] = "absent"
    /\ status' = [status EXCEPT ![j] = "fresh"]

\* dequeue: the job is handed to a consumer, for the first time or again.
Deliver(j) ==
    /\ status[j] \in {"fresh", "returned"}
    /\ status' = [status EXCEPT ![j] = "leased"]

\* recover_stale: some of the jobs handed out and not acknowledged come back.
Return ==
    \E S \in SUBSET {j \in Jobs : status[j] = "leased"} :
        /\ S # {}
        /\ status' = [j \in Jobs |-> IF j \in S THEN "returned" ELSE status[j]]

\* acknowledge: only a job that was handed out can be settled.
Settle(j) ==
    /\ status[j] \in {"leased", "returned"}
    /\ status' = [status EXCEPT ![j] = "settled"]

Next == Return \/ \E j \in Jobs : Submit(j) \/ Deliver(j) \/ Settle(j)

Spec == Init /\ [][Next]_status

TypeOK == status \in [Jobs -> Statuses]
=============================================================================
