---------------------------- MODULE Registration ----------------------------
(***************************************************************************)
(* POST /users, the failed job of the worker, POST /admin/replay and       *)
(* GET /admin/morgue: the ways into create_user and into the Blackbox.  A  *)
(* request is a task whose steps are the stretches between two awaits.     *)
(* The rate limiter and the validation, which change nothing here, come    *)
(* before a request starts.                                                *)
(***************************************************************************)
EXTENDS Blackbox

CONSTANTS
    Tasks,        \* HTTP handlers that run at a time
    Worker,       \* the job worker
    Forms,        \* normalised input: [username, email]
    ListLimit,    \* how many failures a list shows
    MaxRequests,  \* bound: registrations and replays
    MaxJobs       \* bound: jobs that fail

ASSUME RegistrationAssumption ==
    Worker \notin Tasks /\ ListLimit \in Nat /\ MaxRequests \in Nat /\ MaxJobs \in Nat

VARIABLES
    users,        \* the table users
    announced,    \* the accounts of which PulseSignal::UserCreated was emitted
    captured,     \* what every record is about, by the moment of its capture
    req,          \* the request of every task
    list,         \* the list of failures that is being made, one at a time
    requests, jobs,
    gone,         \* history: records no recorder took, or that were lost or given up
    overtaken     \* history: records that two writers at a time have cost

accounts == <<users, announced>>
histVars == <<gone, overtaken>>
bounds == <<requests, jobs>>
handlerVars == <<accounts, captured, req, bounds>>
vars == <<blackboxVars, handlerVars, histVars, list>>

Actors == Tasks \cup {Worker}
Idle == [pc |-> "idle"]
Job == [username |-> "job", email |-> "job"]     \* the payload of a failed job

Init ==
    /\ BlackboxInit
    /\ users = {} /\ announced = {} /\ captured = <<>>
    /\ req = [t \in Actors |-> Idle]
    /\ requests = 0 /\ jobs = 0
    /\ gone = {} /\ overtaken = {}
    /\ list = Idle

At(t, pc) == req[t].pc = pc
Finish(t) == req' = [req EXCEPT ![t] = Idle]
Go(t, pc) == req' = [req EXCEPT ![t].pc = pc]

Start(t, r) ==
    /\ At(t, "idle") /\ requests < MaxRequests
    /\ requests' = requests + 1 /\ UNCHANGED jobs
    /\ req' = [req EXCEPT ![t] = r]

-----------------------------------------------------------------------------
(* create_user.                                                            *)

Create(t, f) ==
    /\ Start(t, [pc |-> "exists", form |-> f, record |-> 0])
    /\ UNCHANGED <<blackboxVars, accounts, captured, histVars>>

Clashes(f) == \E u \in users : u.username = f.username \/ u.email = f.email

\* 409, or on to the insert, also when the database does not answer.
Exists(t) ==
    /\ At(t, "exists")
    /\ \/ Clashes(req[t].form) /\ Finish(t)
       \/ ~Clashes(req[t].form) /\ Go(t, "insert")
    /\ UNCHANGED <<blackboxVars, accounts, captured, bounds, histVars>>

ExistsFails(t) ==
    /\ At(t, "exists")
    /\ Go(t, "insert")
    /\ UNCHANGED <<blackboxVars, accounts, captured, bounds, histVars>>

Row(f) == [id |-> Cardinality(users) + 1, username |-> f.username, email |-> f.email]

\* Slip: the table has no UNIQUE indexes, the check before is enough.
AcceptsAny(f) == TRUE

\* The UNIQUE indexes of the table.
Accepts(f) == ~Clashes(f)

\* The transaction commits and its answer arrives.
Insert(t) ==
    /\ At(t, "insert") /\ Accepts(req[t].form)
    /\ users' = users \cup {Row(req[t].form)}
    /\ Go(t, "announce")
    /\ UNCHANGED <<blackboxVars, announced, captured, bounds, histVars>>

\* The copy in the store, which nobody reads, and the signal; then 201.
Announce(t) ==
    /\ At(t, "announce")
    /\ announced' = announced \cup {u \in users : u.username = req[t].form.username}
    /\ Finish(t)
    /\ UNCHANGED <<blackboxVars, users, captured, bounds, histVars>>

\* Slip: two captures at once may get one number.
CaptureFromZero(t, payload) ==
    /\ captured' = Append(captured, payload)
    /\ req' = [req EXCEPT ![t] = [pc |-> "record", form |-> payload,
                                  record |-> Len(captured)]]

\* A failure is a new record; a replay that fails is not captured again.
Capture(t, payload) ==
    /\ captured' = Append(captured, payload)
    /\ req' = [req EXCEPT ![t] = [pc |-> "record", form |-> payload,
                                  record |-> Len(captured) + 1]]

Fail(t) ==
    IF req[t].record # 0 THEN Finish(t) /\ UNCHANGED captured
    ELSE Capture(t, req[t].form)

\* An index refuses the row, or the database does not answer.
InsertFails(t) ==
    /\ At(t, "insert")
    /\ Fail(t)
    /\ UNCHANGED <<blackboxVars, accounts, bounds, histVars>>

\* The transaction commits and its answer is lost.
InsertUnanswered(t) ==
    /\ At(t, "insert") /\ Accepts(req[t].form)
    /\ users' = users \cup {Row(req[t].form)}
    /\ Fail(t)
    /\ UNCHANGED <<blackboxVars, announced, bounds, histVars>>

\* The worker's handler returns an error.
JobFails ==
    /\ At(Worker, "idle") /\ jobs < MaxJobs
    /\ jobs' = jobs + 1
    /\ Capture(Worker, Job)
    /\ UNCHANGED <<blackboxVars, accounts, requests, histVars>>

-----------------------------------------------------------------------------
(* FallbackFlightRecorder::record.                                         *)

RecordPrimary(t) ==
    /\ At(t, "record")
    /\ Save(req[t].record)
    /\ Finish(t)
    /\ UNCHANGED <<accounts, captured, bounds, histVars>>

\* Slip: an error of the primary ends the recording.
PrimaryFailsQuietly(t) ==
    /\ At(t, "record")
    /\ Finish(t)
    /\ UNCHANGED <<blackboxVars, accounts, captured, bounds, histVars>>

\* With the row written or not.
PrimaryFails(t) ==
    /\ At(t, "record")
    /\ Save(req[t].record) \/ UNCHANGED blackboxVars
    /\ Go(t, "size")
    /\ UNCHANGED <<accounts, captured, bounds, histVars>>

\* On with the same record; the file that was seen is remembered or forgotten.
Keep(t, pc) ==
    req' = [req EXCEPT ![t] = [pc |-> pc, form |-> req[t].form, record |-> req[t].record]]
Look(t, pc, f) ==
    req' = [req EXCEPT ![t] = [pc |-> pc, form |-> req[t].form, record |-> req[t].record,
                               seen |-> f]]

\* The file is too large, or it is not, or its size is not known.
CheckSize(t) ==
    /\ At(t, "size")
    /\ \/ Oversized /\ Look(t, "rename", current)
       \/ ~Oversized /\ Keep(t, "open")
    /\ UNCHANGED <<blackboxVars, accounts, captured, bounds, histVars>>

MetadataFails(t) ==
    /\ At(t, "size")
    /\ Keep(t, "open")
    /\ UNCHANGED <<blackboxVars, accounts, captured, bounds, histVars>>

\* What is thrown away is overtaken if the file was another than the one that
\* was too large.
Rename(t) ==
    /\ At(t, "rename")
    /\ Rotate
    /\ overtaken' = overtaken \cup IF current' # current /\ current # req[t].seen
                                  THEN Records(rotated) ELSE {}
    /\ Keep(t, "open")
    /\ UNCHANGED <<accounts, captured, bounds, gone>>

OpenFile(t) ==
    /\ At(t, "open")
    /\ Open
    /\ Look(t, "write", Opened)
    /\ UNCHANGED <<accounts, captured, bounds, histVars>>

\* Both recorders failed: an error in the log.
OpenFails(t) ==
    /\ At(t, "open")
    /\ gone' = gone \cup {req[t].record}
    /\ Finish(t)
    /\ UNCHANGED <<blackboxVars, accounts, captured, bounds, overtaken>>

WriteLine(t) ==
    /\ At(t, "write")
    /\ Write(req[t].seen, req[t].record)
    /\ Finish(t)
    /\ UNCHANGED <<accounts, captured, bounds, histVars>>

\* The thread that writes, out of everybody's sight, to the file that was
\* opened.
FlushLine(w) ==
    /\ Flush(w)
    /\ overtaken' = overtaken \cup IF w.file # current THEN {w.record} ELSE {}
    /\ UNCHANGED <<accounts, captured, req, bounds, gone>>

LoseLine(w) ==
    /\ LoseWrite(w)
    /\ gone' = gone \cup {w.record}
    /\ UNCHANGED <<accounts, captured, req, bounds, overtaken>>

-----------------------------------------------------------------------------
(* replay_from_disk.                                                       *)

Replay(t, n) ==
    /\ Start(t, [pc |-> "scan primary", form |-> captured[n], record |-> n])
    /\ UNCHANGED <<blackboxVars, accounts, captured, histVars>>

Found(t) == IF req[t].form = Job THEN Finish(t) ELSE Keep(t, "insert")

\* Not there, or the database does not answer: the file is next.
ScanPrimary(t) ==
    /\ At(t, "scan primary")
    /\ \/ req[t].record \in primary /\ Found(t)
       \/ Go(t, "scan disk")
    /\ UNCHANGED <<blackboxVars, accounts, captured, bounds, histVars>>

\* The rotated file is not looked at.
ScanOpen(t) ==
    /\ At(t, "scan disk")
    /\ \/ current # 0 /\ Look(t, "scan lines", current)
       \/ Finish(t)
    /\ UNCHANGED <<blackboxVars, accounts, captured, bounds, histVars>>

\* Not there, or the reading fails.
ScanLines(t) ==
    /\ At(t, "scan lines")
    /\ \/ req[t].record \in Records(req[t].seen) /\ Found(t)
       \/ Finish(t)
    /\ UNCHANGED <<blackboxVars, accounts, captured, bounds, histVars>>

-----------------------------------------------------------------------------
(* list_failures, on behalf of somebody who looks for one failure (sought)  *)
(* that a recorder has.  owing says which of them it is to come from: not a *)
(* table that does not answer, nor a file that cannot be read, is no longer *)
(* at its path or is not in the order of capture.  The list changes nothing *)
(* else, so one that owes nothing any more is not followed.                 *)

ListFailures(n) ==
    /\ list.pc = "idle"
    /\ list' = [pc |-> "primary", sought |-> n, rows |-> {}, file |-> 0, shown |-> {},
                owing |-> {r \in {"table", "file"} :
                              n \in IF r = "table" THEN primary ELSE Records(current)}]

Follow(l) == list' = IF l.owing = {} THEN Idle ELSE l

TailPrimary ==
    /\ list.pc = "primary"
    /\ list' = [list EXCEPT !.pc = "open", !.rows = Newest(primary, ListLimit)]

TailPrimaryFails ==
    /\ list.pc = "primary"
    /\ Follow([list EXCEPT !.pc = "open", !.owing = @ \ {"table"}])

TailOpen ==
    /\ list.pc = "open" /\ current # 0
    /\ Follow([list EXCEPT !.pc = "read", !.file = current,
                   !.owing = @ \ IF list.sought \in Records(current) THEN {} ELSE {"file"}])

Show(last, unseen) ==
    Follow([pc |-> "listed", sought |-> list.sought, owing |-> list.owing \ unseen,
            shown |-> Merged(list.rows, last, ListLimit)])

TailOpenFails ==
    /\ list.pc = "open"
    /\ Show({}, {"file"})

Ordered(f) == \A i, j \in In(f) : i < j => lines[i].record < lines[j].record

\* To the end of the file, wherever its path has gone.
TailLines ==
    /\ list.pc = "read"
    /\ Show(LastLines(list.file, ListLimit, Len(lines)),
            IF Ordered(list.file) THEN {} ELSE {"file"})

\* A line that cannot be read ends the reading.
TailLinesFails ==
    /\ list.pc = "read"
    /\ \E upto \in 0..Len(lines) : Show(LastLines(list.file, ListLimit, upto), {"file"})

Listing ==
    \/ \E n \in primary \cup Records(current) : ListFailures(n)
    \/ TailPrimary \/ TailPrimaryFails
    \/ TailOpen \/ TailOpenFails \/ TailLines \/ TailLinesFails

\* The list is answered, or its client is gone before.
ListEnds == list.pc # "idle" /\ list' = Idle

-----------------------------------------------------------------------------
Recording(t) == req[t].pc \in {"record", "size", "rename", "open", "write"}
Held(t) == IF Recording(t) THEN {req[t].record} ELSE {}

\* The client goes: the handler stops where it stands.
Abandon(t) ==
    /\ ~At(t, "idle")
    /\ Finish(t)
    /\ gone' = gone \cup Held(t)
    /\ UNCHANGED <<blackboxVars, accounts, captured, bounds, overtaken>>

Crash ==
    /\ req' = [t \in Actors |-> Idle] /\ list' = Idle
    /\ pending' = {}
    /\ gone' = gone \cup {w.record : w \in pending} \cup UNION {Held(t) : t \in Actors}
    /\ UNCHANGED <<primary, files, lines, current, rotated, accounts, captured, bounds, overtaken>>

Handling ==
    \/ \E t \in Tasks :
          \/ \E f \in Forms : Create(t, f)
          \/ Exists(t) \/ ExistsFails(t)
          \/ Insert(t) \/ Announce(t) \/ InsertFails(t) \/ InsertUnanswered(t)
          \/ \E n \in DOMAIN captured : Replay(t, n)
          \/ ScanPrimary(t) \/ ScanOpen(t) \/ ScanLines(t)
          \/ Abandon(t)
    \/ JobFails
    \/ \E t \in Actors :
          \/ RecordPrimary(t) \/ PrimaryFails(t)
          \/ CheckSize(t) \/ MetadataFails(t) \/ Rename(t)
          \/ OpenFile(t) \/ OpenFails(t) \/ WriteLine(t)
    \/ \E w \in pending : FlushLine(w) \/ LoseLine(w)

Next ==
    \/ Handling /\ UNCHANGED list
    \/ (Listing \/ ListEnds) /\ UNCHANGED <<blackboxVars, handlerVars, histVars>>
    \/ Crash

Spec == Init /\ [][Next]_vars

-----------------------------------------------------------------------------
Busy == {"exists", "insert", "announce", "record", "size", "rename", "open", "write",
         "scan primary", "scan disk", "scan lines"}
Written == {lines[i].record : i \in DOMAIN lines}
OnTheWay == {w.record : w \in pending} \cup UNION {Held(t) : t \in Actors}

\* The records of the recorders are captures, and the paths name files.
TypeOK ==
    /\ users \subseteq [id : 1..MaxRequests, username : {f.username : f \in Forms},
                        email : {f.email : f \in Forms}]
    /\ announced \subseteq users
    /\ captured \in Seq(Forms \cup {Job}) /\ requests \in 0..MaxRequests /\ jobs \in 0..MaxJobs
    /\ primary \cup Written \cup OnTheWay \subseteq DOMAIN captured
    /\ current \in 0..files /\ rotated \in 0..files
    /\ current = rotated => current = 0
    /\ \A t \in Actors : At(t, "idle") \/ (req[t].pc \in Busy /\ req[t].record \in 0..Len(captured))
    /\ gone \cup overtaken \subseteq DOMAIN captured
    /\ list.pc = "listed" => list.shown \subseteq DOMAIN captured

\* No two accounts share a username or an email, whichever of registration and
\* replay created them and whatever the pre-check saw (api.rs:319).
OneAccountEach ==
    \A u, v \in users :
        (u.username = v.username \/ u.email = v.email) => u = v

\* As many lines as make a file too large were written after these.
PushedOut == {lines[i].record : i \in {j \in DOMAIN lines : Len(lines) - j >= MaxSegment}}

\* A failure that was answered, or a failed job that was acknowledged, has its
\* record in the table or in one of the two files that still have a path, or
\* on its way there.  The excuses: neither recorder took it, the disk lost the
\* write or the recording was cut off (gone); later lines pushed it out of both
\* files; two writers at a time renamed or wrote a file that was no longer the
\* one they had seen (blackbox/mod.rs:56, disk.rs:33, web/mod.rs:281).
FailureLeavesATrace ==
    DOMAIN captured \subseteq
        primary \cup Reachable \cup OnTheWay \cup gone \cup PushedOut \cup overtaken

\* A rotation throws away the oldest lines: each is older than every line that
\* is kept, and a full file is kept (disk.rs:33), unless two writers at a time
\* renamed or wrote a file that was no longer the one they had seen.
KeptLines == In(current) \cup In(rotated)
RotationLosesOnlyOld ==
    \A i \in DOMAIN lines \ KeptLines :
        /\ lines[i].record \in overtaken \/ \A j \in KeptLines : i < j
        /\ overtaken = {} => Cardinality(KeptLines) >= MaxSegment

\* A list misses a failure that a recorder had when the list began only if it
\* shows as many newer ones as it may (blackbox/mod.rs:82), whatever is
\* captured, written and rotated between its reads.
ListShowsNewest ==
    list.pc = "listed" /\ list.owing # {} =>
        \/ list.sought \in list.shown
        \/ Cardinality({n \in list.shown : n > list.sought}) >= ListLimit

\* disk.rs:33 says the rotation is by size and keeps one previous file: what
\* blackbox.jsonl.1 names has reached the size.
RotatedIsFull == rotated # 0 => Cardinality(In(rotated)) >= MaxSegment
=============================================================================
