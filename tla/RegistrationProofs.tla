------------------------- MODULE RegistrationProofs -------------------------
(***************************************************************************)
(* Proofs about Registration, for any handlers, forms and bounds: accounts *)
(* are unique, a captured failure leaves a record that can be reached, a   *)
(* rotation throws away what is oldest, and a list of failures shows the   *)
(* newest.  The invariant behind them relates the order of the lines to    *)
(* the order of the files, and says which files were full when they were   *)
(* renamed.  The types need a count as well: accounts are numbered by the  *)
(* requests that may still make one.                                       *)
(***************************************************************************)
EXTENDS Registration, TLAPS, FiniteSetTheorems

USE BlackboxAssumption, RegistrationAssumption

-----------------------------------------------------------------------------
(* Accounts.                                                               *)

\* A row that is accepted shares nothing with those that are there.
LEMMA AcceptedIsNew ==
    ASSUME OneAccountEach, NEW f, Accepts(f), users' = users \cup {Row(f)}
    PROVE  OneAccountEach'
BY DEF OneAccountEach, Accepts, Clashes, Row

LEMMA NextOneAccountEach == OneAccountEach /\ [Next]_vars => OneAccountEach'
<1>1. SUFFICES ASSUME OneAccountEach, [Next]_vars
               PROVE  OneAccountEach'
  OBVIOUS
<1>2. ASSUME NEW t \in Tasks, Insert(t) \/ InsertUnanswered(t)
      PROVE  OneAccountEach'
  BY <1>1, <1>2, AcceptedIsNew DEF Insert, InsertUnanswered
<1>3. CASE users' = users
  BY <1>1, <1>3 DEF OneAccountEach
<1>4. ASSUME Handling
      PROVE  (\E t \in Tasks : Insert(t) \/ InsertUnanswered(t)) \/ users' = users
  BY <1>4 DEF Handling, accounts, Create, Start, Exists, ExistsFails, Announce, InsertFails,
     Replay, ScanPrimary, ScanOpen, ScanLines, Abandon, JobFails, RecordPrimary, PrimaryFails,
     CheckSize, MetadataFails, Rename, OpenFile, OpenFails, WriteLine, FlushLine, LoseLine
<1>5. Handling \/ users' = users
  BY <1>1 DEF Next, vars, handlerVars, accounts, Crash
<1>6. QED
  BY <1>2, <1>3, <1>4, <1>5

\* No two accounts share a username or an email, for any number of concurrent
\* registrations and replays and whatever the pre-check saw (api.rs:319).
THEOREM AccountsAreUnique == Spec => []OneAccountEach
<1>1. Init => OneAccountEach
  BY DEF Init, OneAccountEach
<1>2. QED
  BY <1>1, NextOneAccountEach, PTL DEF Spec

-----------------------------------------------------------------------------
(* The files, their lines and the requests.                                *)

File == 1..files
Number == 1..Len(captured)
Payload == Forms \cup {Job}
Line == [file : File, record : Number]

\* What a request holds: before it records, while it reads a file, while it
\* records, and while it records to a file it has seen.
Before == [pc : {"exists", "insert", "announce", "scan primary", "scan disk"},
           form : Payload, record : Number \cup {0}]
Reading == [pc : {"scan lines"}, form : Payload, record : Number \cup {0}, seen : File]
Waiting == [pc : {"record", "size", "open"}, form : Payload, record : Number]
Seeing == [pc : {"rename", "write"}, form : Payload, record : Number, seen : File]
Request == Before \cup Reading \cup Waiting \cup Seeing

DiskType ==
    /\ captured \in Seq(Payload)
    /\ files \in Nat
    /\ lines \in Seq(Line)
    /\ pending \subseteq Line
    /\ req \in [Actors -> {Idle} \cup Request]
    /\ primary \subseteq Number /\ gone \subseteq Number /\ overtaken \subseteq Number

\* The files come one after the other, and the paths name the latest.
Paths ==
    \/ current = 0 /\ rotated = files
    \/ current = files /\ files # 0 /\ rotated = files - 1

\* How many lines a file has.
LinesOf(ls, f) == {i \in DOMAIN ls : ls[i].file = f}
Size(ls, f) == Cardinality(LinesOf(ls, f))

\* A line was written while its file was the one at the path, so before any
\* line of a later file, or it was overtaken.
Aged ==
    \A i, j \in DOMAIN lines :
        lines[i].file < lines[j].file => lines[i].record \in overtaken \/ i < j

\* A file was thrown away because the next was full, or its lines were
\* overtaken.
Spared ==
    \A i \in DOMAIN lines :
        \/ lines[i].record \in overtaken
        \/ ~(lines[i].file < rotated)
        \/ Size(lines, lines[i].file + 1) >= MaxSegment

\* While nothing was overtaken, there is a full file once one was thrown away.
FullKept ==
    overtaken = {} =>
        \/ Size(lines, rotated) >= MaxSegment
        \/ \A i \in DOMAIN lines : ~(lines[i].file < rotated)

\* Who is about to rename has seen a full file.
SawFull == \A t \in Actors : At(t, "rename") => Size(lines, req[t].seen) >= MaxSegment

Ages == Aged /\ Spared /\ FullKept /\ SawFull

IInv == DiskType /\ Paths /\ Ages /\ FailureLeavesATrace

LEMMA InitIInv == Init => IInv
<1>1. SUFFICES ASSUME Init
               PROVE  IInv
  OBVIOUS
<1>2. /\ captured = <<>> /\ files = 0 /\ lines = <<>> /\ current = 0 /\ rotated = 0
      /\ pending = {} /\ primary = {} /\ gone = {} /\ overtaken = {}
      /\ req = [t \in Actors |-> Idle]
  BY <1>1 DEF Init, BlackboxInit
<1>3. DOMAIN lines = {} /\ DOMAIN captured = {}
  BY <1>2
<1>4. lines \in Seq(Line) /\ captured \in Seq(Payload)
  BY <1>2
<1>5. DiskType
  BY <1>2, <1>4 DEF DiskType
<1>6. Paths /\ Aged /\ Spared /\ FullKept
  BY <1>2, <1>3 DEF Paths, Aged, Spared, FullKept
<1>7. SawFull
  BY <1>2 DEF SawFull, At, Idle
<1>8. FailureLeavesATrace
  BY <1>3 DEF FailureLeavesATrace
<1>9. QED
  BY <1>5, <1>6, <1>7, <1>8 DEF IInv, Ages

\* A file has finitely many lines, and a line more adds to it.
LEMMA SizeGrows ==
    ASSUME NEW N, NEW M, NEW ls \in Seq([file : N, record : M]),
           NEW w \in [file : N, record : M], NEW f
    PROVE  /\ IsFiniteSet(LinesOf(ls, f)) /\ Size(ls, f) \in Nat
           /\ Size(Append(ls, w), f) \in Nat
           /\ Size(ls, f) <= Size(Append(ls, w), f)
<1>1. Len(ls) \in Nat /\ DOMAIN ls = 1..Len(ls)
  OBVIOUS
<1>2. /\ DOMAIN Append(ls, w) = 1..(Len(ls) + 1)
      /\ \A i \in 1..Len(ls) : Append(ls, w)[i] = ls[i]
  <2> DEFINE L == [file : N, record : M]
  <2>1. ls \in Seq(L) /\ w \in L
    OBVIOUS
  <2> HIDE DEF L
  <2>2. QED
    BY <1>1, <2>1
<1>3. LinesOf(ls, f) \subseteq 1..Len(ls) /\ LinesOf(Append(ls, w), f) \subseteq 1..(Len(ls) + 1)
  BY <1>1, <1>2 DEF LinesOf
<1>4. LinesOf(ls, f) \subseteq LinesOf(Append(ls, w), f)
  BY <1>1, <1>2 DEF LinesOf
<1>5. IsFiniteSet(1..Len(ls)) /\ IsFiniteSet(1..(Len(ls) + 1))
  BY <1>1, FS_Interval
<1>6. IsFiniteSet(LinesOf(ls, f)) /\ IsFiniteSet(LinesOf(Append(ls, w), f))
  BY <1>3, <1>5, FS_Subset
<1>7. QED
  BY <1>4, <1>6, FS_Subset, FS_CardinalityType DEF Size

-----------------------------------------------------------------------------
(* What a step does to a request.                                          *)

HeldBy(r) == IF r.pc \in {"record", "size", "rename", "open", "write"} THEN {r.record} ELSE {}

LEMMA HeldIs == \A t : Held(t) = HeldBy(req[t]) /\ Held(t)' = HeldBy(req'[t])
BY DEF Held, HeldBy, Recording

LEMMA TasksAct == Tasks \subseteq Actors /\ Worker \in Actors
BY DEF Actors

\* The step of a request says what it holds.
LEMMA Shape ==
    ASSUME DiskType, NEW t \in Actors
    PROVE  /\ At(t, "idle") => req[t] = Idle
           /\ req[t].pc \in {"exists", "insert", "announce", "scan primary", "scan disk"}
                 => req[t] \in Before
           /\ At(t, "scan lines") => req[t] \in Reading
           /\ req[t].pc \in {"record", "size", "open"} => req[t] \in Waiting
           /\ req[t].pc \in {"rename", "write"} => req[t] \in Seeing
<1>1. req[t] \in {Idle} \cup Request
  BY DEF DiskType
<1>2. req[t] \in Before =>
         req[t].pc \in {"exists", "insert", "announce", "scan primary", "scan disk"}
  BY DEF Before
<1>3. req[t] \in Reading => req[t].pc = "scan lines"
  BY DEF Reading
<1>4. req[t] \in Waiting => req[t].pc \in {"record", "size", "open"}
  BY DEF Waiting
<1>5. req[t] \in Seeing => req[t].pc \in {"rename", "write"}
  BY DEF Seeing
<1>6. req[t] = Idle => req[t].pc = "idle"
  BY DEF Idle
<1>7. \/ req[t] = Idle \/ req[t] \in Before \/ req[t] \in Reading
      \/ req[t] \in Waiting \/ req[t] \in Seeing
  BY <1>1 DEF Request
<1>8. QED
  BY <1>2, <1>3, <1>4, <1>5, <1>6, <1>7 DEF At

\* A record in the hands of a task was captured.
LEMMA HeldAreCaptured ==
    ASSUME DiskType, NEW t \in Actors
    PROVE  Held(t) \subseteq Number
<1>1. SUFFICES ASSUME Recording(t)
               PROVE  req[t].record \in Number
  BY DEF Held
<1>2. req[t] \in Waiting \/ req[t] \in Seeing
  BY <1>1, Shape DEF Recording
<1>3. QED
  BY <1>2 DEF Waiting, Seeing

\* What a request may hold only grows.
LEMMA RequestGrows ==
    ASSUME Number \subseteq Number', File \subseteq File'
    PROVE  Request \subseteq Request'
BY DEF Request, Before, Reading, Waiting, Seeing

\* One request changes, the others stay.
LEMMA Moves ==
    ASSUME DiskType, NEW t \in Actors, NEW x, req' = [req EXCEPT ![t] = x]
    PROVE  /\ req'[t] = x /\ Held(t)' = HeldBy(x)
           /\ \A u \in Actors \ {t} : req'[u] = req[u] /\ Held(u)' = Held(u)
<1>1. req'[t] = x /\ \A u \in Actors \ {t} : req'[u] = req[u]
  BY DEF DiskType
<1>2. QED
  BY <1>1, HeldIs

LEMMA MovesType ==
    ASSUME DiskType, NEW t \in Actors, NEW x, req' = [req EXCEPT ![t] = x],
           Number \subseteq Number', File \subseteq File', x \in {Idle} \cup Request'
    PROVE  req' \in [Actors -> {Idle} \cup Request']
<1>1. req \in [Actors -> {Idle} \cup Request']
  BY RequestGrows DEF DiskType
<1>2. QED
  BY <1>1

\* What stays while a file only gets lines that are younger than all others.
LEMMA FilesSame ==
    ASSUME DiskType, Ages, UNCHANGED <<lines, rotated, overtaken>>
    PROVE  Aged' /\ Spared' /\ FullKept'
BY DEF Ages, Aged, Spared, FullKept

\* Where a record that was captured may be.
Where == primary \cup Reachable \cup OnTheWay \cup gone \cup PushedOut \cup overtaken

LEMMA WhereTraces ==
    ASSUME FailureLeavesATrace, captured' = captured, Where \subseteq Where'
    PROVE  FailureLeavesATrace'
BY DEF FailureLeavesATrace, Where

LEMMA ReachableSame ==
    ASSUME UNCHANGED <<lines, current, rotated>>
    PROVE  Reachable' = Reachable /\ PushedOut' = PushedOut
BY DEF Reachable, Records, In, PushedOut

\* A step of a task that captures and writes nothing: what it held it holds
\* still, or it has recorded or lost it.
LEMMA StepKeeps ==
    ASSUME IInv, NEW t \in Actors, NEW x \in {Idle} \cup Request,
           req' = [req EXCEPT ![t] = x], UNCHANGED <<captured, diskVars, overtaken>>,
           primary \subseteq primary', primary' \subseteq primary \cup Held(t),
           gone \subseteq gone', gone' \subseteq gone \cup Held(t),
           Held(t) \subseteq HeldBy(x) \cup primary' \cup gone',
           x.pc = "rename" => Size(lines, x.seen) >= MaxSegment
    PROVE  IInv'
<1> USE DEF IInv
<1>1. /\ UNCHANGED <<captured, files, lines, current, rotated, pending>>
      /\ Number' = Number /\ File' = File /\ Line' = Line
  BY DEF Number, File, Line, diskVars
<1>2. /\ req'[t] = x /\ Held(t)' = HeldBy(x)
      /\ \A u \in Actors \ {t} : req'[u] = req[u] /\ Held(u)' = Held(u)
  BY Moves
<1>3. DiskType'
  <2>1. req' \in [Actors -> {Idle} \cup Request']
    BY <1>1, MovesType, RequestGrows
  <2>2. Held(t) \subseteq Number
    BY HeldAreCaptured
  <2>3. primary' \subseteq Number /\ gone' \subseteq Number
    BY <2>2 DEF DiskType
  <2>4. QED
    BY <1>1, <2>1, <2>3 DEF DiskType
<1>4. Paths' /\ Aged' /\ Spared' /\ FullKept'
  BY <1>1, FilesSame DEF Paths
<1>5. SawFull'
  <2>1. SUFFICES ASSUME NEW u \in Actors, req'[u].pc = "rename"
                 PROVE  Size(lines, req'[u].seen) >= MaxSegment
    BY <1>1 DEF SawFull, At
  <2>2. QED
    BY <1>2, <2>1 DEF Ages, SawFull, At
<1>6. FailureLeavesATrace'
  <2>1. Where \subseteq Where'
    BY <1>1, <1>2, ReachableSame DEF Where, OnTheWay
  <2>2. QED
    BY <1>1, <2>1, WhereTraces
<1>7. QED
  BY <1>3, <1>4, <1>5, <1>6 DEF Ages

-----------------------------------------------------------------------------
(* The steps of a request that leave the files alone.                      *)

\* The paths name files, or nothing.
LEMMA PathsName == DiskType /\ Paths => current \in File \cup {0} /\ rotated \in File \cup {0}
<1>1. SUFFICES ASSUME DiskType, Paths
               PROVE  current \in File \cup {0} /\ rotated \in File \cup {0}
  OBVIOUS
<1>2. files \in Nat
  BY <1>1 DEF DiskType
<1>3. QED
  BY <1>1, <1>2 DEF Paths, File

LEMMA CreateKeeps ==
    ASSUME IInv, NEW t \in Actors, NEW f \in Forms, Create(t, f)
    PROVE  IInv'
<1> DEFINE x == [pc |-> "exists", form |-> f, record |-> 0]
<1>1. x \in Before /\ HeldBy(x) = {} /\ x.pc # "rename"
  BY DEF Before, Payload, HeldBy
<1>2. Held(t) = {}
  BY HeldIs DEF Create, Start, At, HeldBy
<1>3. req' = [req EXCEPT ![t] = x] /\ UNCHANGED <<captured, diskVars, overtaken, primary, gone>>
  BY DEF Create, Start, blackboxVars, histVars
<1> HIDE DEF x
<1>4. QED
  BY <1>1, <1>2, <1>3, StepKeeps DEF Request

LEMMA ReplayKeeps ==
    ASSUME IInv, NEW t \in Actors, NEW n \in DOMAIN captured, Replay(t, n)
    PROVE  IInv'
<1> DEFINE x == [pc |-> "scan primary", form |-> captured[n], record |-> n]
<1>1. x \in Before /\ HeldBy(x) = {} /\ x.pc # "rename"
  BY DEF Before, HeldBy, IInv, DiskType, Number
<1>2. Held(t) = {}
  BY HeldIs DEF Replay, Start, At, HeldBy
<1>3. req' = [req EXCEPT ![t] = x] /\ UNCHANGED <<captured, diskVars, overtaken, primary, gone>>
  BY DEF Replay, Start, blackboxVars, histVars
<1> HIDE DEF x
<1>4. QED
  BY <1>1, <1>2, <1>3, StepKeeps DEF Request

\* Before a request records anything it holds nothing, and it goes on to
\* another such step or ends.
LEMMA BeforeKeeps ==
    ASSUME IInv, NEW t \in Actors, Held(t) = {},
           NEW x, req' = [req EXCEPT ![t] = x], x = Idle \/ x \in Before \/ x \in Reading,
           UNCHANGED <<captured, diskVars, overtaken, primary, gone>>
    PROVE  IInv'
<1>1. HeldBy(x) = {} /\ x.pc # "rename"
  <2>1. Idle.pc = "idle"
    BY DEF Idle
  <2>2. x \in Before =>
           x.pc \in {"exists", "insert", "announce", "scan primary", "scan disk"}
    BY DEF Before
  <2>3. x \in Reading => x.pc = "scan lines"
    BY DEF Reading
  <2>4. QED
    BY <2>1, <2>2, <2>3 DEF HeldBy
<1>2. x \in {Idle} \cup Request
  BY DEF Request
<1>3. QED
  BY <1>1, <1>2, StepKeeps

\* What a step before the recording may make of a request.
LEMMA BeforeGoes ==
    ASSUME IInv, NEW t \in Actors,
           req[t].pc \in {"exists", "insert", "announce", "scan primary", "scan disk", "scan lines"},
           \/ Finish(t) \/ Keep(t, "insert")
           \/ At(t, "scan disk") /\ current # 0 /\ Look(t, "scan lines", current)
           \/ ~At(t, "scan lines")
              /\ (Go(t, "insert") \/ Go(t, "scan disk") \/ Go(t, "announce"))
    PROVE  /\ Held(t) = {}
           /\ \E x : req' = [req EXCEPT ![t] = x] /\ (x = Idle \/ x \in Before \/ x \in Reading)
<1>1. req[t] \in Before \/ req[t] \in Reading
  BY Shape DEF IInv, At
<1>2. Held(t) = {}
  BY HeldIs DEF HeldBy
<1>3. CASE Finish(t)
  BY <1>2, <1>3 DEF Finish
<1>4. CASE Keep(t, "insert")
  <2>1. PICK x : x = [pc |-> "insert", form |-> req[t].form, record |-> req[t].record]
    OBVIOUS
  <2>2. req[t].form \in Payload /\ req[t].record \in Number \cup {0}
    BY <1>1 DEF Before, Reading
  <2>3. x \in Before
    BY <2>1, <2>2 DEF Before
  <2>4. QED
    BY <1>2, <1>4, <2>1, <2>3 DEF Keep
<1>5. CASE At(t, "scan disk") /\ current # 0 /\ Look(t, "scan lines", current)
  <2>1. PICK x : x = [pc |-> "scan lines", form |-> req[t].form, record |-> req[t].record,
                      seen |-> current]
    OBVIOUS
  <2>2. req[t].form \in Payload /\ req[t].record \in Number \cup {0}
    BY <1>1 DEF Before, Reading
  <2>3. current \in File
    BY <1>5, PathsName DEF IInv
  <2>4. x \in Reading
    BY <2>1, <2>2, <2>3 DEF Reading
  <2>5. QED
    BY <1>2, <1>5, <2>1, <2>4 DEF Look
<1>6. CASE ~At(t, "scan lines") /\ (Go(t, "insert") \/ Go(t, "scan disk") \/ Go(t, "announce"))
  <2>1. req[t] \in Before
    BY <1>6, Shape DEF IInv, At
  <2>2. PICK x : /\ req' = [req EXCEPT ![t] = x]
                 /\ x = [req[t] EXCEPT !.pc = "insert"] \/ x = [req[t] EXCEPT !.pc = "scan disk"]
                       \/ x = [req[t] EXCEPT !.pc = "announce"]
    BY <1>6 DEF Go
  <2>3. x \in Before
    BY <2>1, <2>2 DEF Before
  <2>4. QED
    BY <1>2, <2>2, <2>3
<1>7. QED
  BY <1>3, <1>4, <1>5, <1>6

\* A request that ends while it records has recorded or lost what it held.
LEMMA FinishKeeps ==
    ASSUME IInv, NEW t \in Actors, Finish(t), UNCHANGED <<captured, diskVars, overtaken>>,
           primary \subseteq primary', primary' \subseteq primary \cup Held(t),
           gone \subseteq gone', gone' \subseteq gone \cup Held(t),
           Held(t) \subseteq primary' \cup gone'
    PROVE  IInv'
<1>1. HeldBy(Idle) = {} /\ Idle.pc # "rename"
  BY DEF HeldBy, Idle
<1>2. QED
  BY <1>1, StepKeeps DEF Finish

LEMMA PrimaryFailsKeeps ==
    ASSUME IInv, NEW t \in Actors, PrimaryFails(t)
    PROVE  IInv'
<1> DEFINE x == [req[t] EXCEPT !.pc = "size"]
<1>1. req[t] \in Waiting
  BY Shape DEF IInv, PrimaryFails, At
<1>2. x \in Waiting /\ x.record = req[t].record /\ x.pc = "size"
  BY <1>1 DEF Waiting
<1>3. req' = [req EXCEPT ![t] = x]
  BY DEF PrimaryFails, Go
<1>4. HeldBy(x) = Held(t) /\ Held(t) = {req[t].record}
  BY <1>2, HeldIs DEF HeldBy, PrimaryFails, At
<1>5. /\ UNCHANGED <<captured, diskVars, overtaken, gone>>
      /\ primary \subseteq primary' /\ primary' \subseteq primary \cup {req[t].record}
  BY DEF PrimaryFails, Save, blackboxVars, histVars
<1> HIDE DEF x
<1>6. QED
  BY <1>2, <1>3, <1>4, <1>5, StepKeeps DEF Request

\* Who goes on to open the file holds what it held.
LEMMA KeepKeeps ==
    ASSUME IInv, NEW t \in Actors, req[t].pc \in {"size", "rename"}, Keep(t, "open"),
           UNCHANGED <<captured, diskVars, overtaken, primary, gone>>
    PROVE  IInv'
<1> DEFINE x == [pc |-> "open", form |-> req[t].form, record |-> req[t].record]
<1>1. req[t] \in Waiting \/ req[t] \in Seeing
  BY Shape DEF IInv
<1>2. x \in Waiting /\ x.record = req[t].record /\ x.pc = "open"
  BY <1>1 DEF Waiting, Seeing
<1>3. HeldBy(x) = Held(t)
  BY <1>2, HeldIs DEF HeldBy
<1>4. req' = [req EXCEPT ![t] = x]
  BY DEF Keep
<1> HIDE DEF x
<1>5. QED
  BY <1>2, <1>3, <1>4, StepKeeps DEF Request

\* Who finds the file too large has seen a full one.
LEMMA CheckSizeKeeps ==
    ASSUME IInv, NEW t \in Actors, CheckSize(t)
    PROVE  IInv'
<1>1. At(t, "size") /\ UNCHANGED <<captured, diskVars, overtaken, primary, gone>>
  BY DEF CheckSize, blackboxVars, histVars
<1>2. CASE Keep(t, "open")
  BY <1>1, <1>2, KeepKeeps DEF At
<1>3. CASE Oversized /\ Look(t, "rename", current)
  <2> DEFINE x == [pc |-> "rename", form |-> req[t].form, record |-> req[t].record,
                   seen |-> current]
  <2>1. req[t] \in Waiting
    BY <1>1, Shape DEF IInv, At
  <2>2. current \in File
    BY <1>3, PathsName DEF Oversized, IInv
  <2>3. x \in Seeing /\ x.record = req[t].record /\ x.pc = "rename" /\ x.seen = current
    BY <2>1, <2>2 DEF Waiting, Seeing
  <2>4. Size(lines, current) >= MaxSegment
    BY <1>3 DEF Oversized, In, Size, LinesOf
  <2>5. HeldBy(x) = Held(t)
    BY <1>1, <2>3, HeldIs DEF HeldBy, At
  <2>6. req' = [req EXCEPT ![t] = x]
    BY <1>3 DEF Look
  <2> HIDE DEF x
  <2>7. QED
    BY <1>1, <2>3, <2>4, <2>5, <2>6, StepKeeps DEF Request
<1>4. QED
  BY <1>2, <1>3 DEF CheckSize

-----------------------------------------------------------------------------
(* The rotation.                                                           *)

\* The lines of a file are finitely many, and they are records of captures.
LEMMA LinesType ==
    ASSUME DiskType
    PROVE  /\ Len(lines) \in Nat /\ DOMAIN lines = 1..Len(lines)
           /\ \A i \in DOMAIN lines : lines[i].file \in File /\ lines[i].record \in Number
           /\ \A f : In(f) = LinesOf(lines, f) /\ In(f) \subseteq 1..Len(lines)
           /\ \A f : IsFiniteSet(In(f)) /\ Size(lines, f) \in Nat
           /\ \A f : Cardinality(In(f)) = Size(lines, f)
           /\ \A f : Records(f) \subseteq Number
           /\ \A f : f \notin File => Records(f) = {}
<1>1. lines \in Seq(Line)
  BY DEF DiskType
<1>2. Len(lines) \in Nat /\ DOMAIN lines = 1..Len(lines)
  BY <1>1
<1>3. \A i \in DOMAIN lines : lines[i] \in Line
  BY <1>1, <1>2
<1>4. \A i \in DOMAIN lines : lines[i].file \in File /\ lines[i].record \in Number
  BY <1>3 DEF Line
<1>5. \A f : In(f) = LinesOf(lines, f) /\ In(f) \subseteq 1..Len(lines)
  BY <1>2 DEF In, LinesOf
<1>6. \A f : IsFiniteSet(In(f)) /\ Cardinality(In(f)) \in Nat
  <2>1. IsFiniteSet(1..Len(lines))
    BY <1>2, FS_Interval
  <2>2. QED
    BY <1>5, <2>1, FS_Subset, FS_CardinalityType
<1>7. \A f : Cardinality(In(f)) = Size(lines, f)
  BY <1>5 DEF Size
<1>8. \A f : Records(f) \subseteq Number
  BY <1>4 DEF Records, In
<1>9. \A f : f \notin File => Records(f) = {}
  BY <1>4 DEF Records, In
<1>10. QED
  BY <1>2, <1>4, <1>5, <1>6, <1>7, <1>8, <1>9

\* A line older than all of a full file was pushed out.
LEMMA OlderThanFull ==
    ASSUME DiskType, NEW f, Size(lines, f) >= MaxSegment, NEW i \in DOMAIN lines,
           \A j \in In(f) : i < j
    PROVE  lines[i].record \in PushedOut
<1>1. Len(lines) \in Nat /\ i \in 1..Len(lines) /\ In(f) \subseteq 1..Len(lines)
  BY LinesType
<1>2. PICK m \in Int : m = i + 1
  BY <1>1
<1>3. IsFiniteSet(m..Len(lines)) /\ Cardinality(m..Len(lines)) = Len(lines) - i
  <2>1. m <= Len(lines) + 1
    BY <1>1, <1>2
  <2>2. PICK l \in Int : l = Len(lines)
    BY <1>1
  <2>3. /\ IsFiniteSet(m..l)
        /\ Cardinality(m..l) = IF m > l THEN 0 ELSE l - m + 1
    BY FS_Interval
  <2>4. QED
    BY <1>1, <1>2, <2>1, <2>2, <2>3
<1>4. In(f) \subseteq m..Len(lines)
  BY <1>1, <1>2
<1>5. Cardinality(In(f)) <= Cardinality(m..Len(lines))
  BY <1>3, <1>4, FS_Subset
<1>6. Cardinality(In(f)) >= MaxSegment /\ Cardinality(In(f)) \in Nat
  BY LinesType
<1>7. Len(lines) - i >= MaxSegment
  BY <1>1, <1>3, <1>5, <1>6
<1>8. QED
  BY <1>7 DEF PushedOut

\* The file that a rename moves is the full one its task has seen, so that what
\* it overwrites is older than a full file; or the lines are overtaken.
LEMMA RotateKeeps ==
    ASSUME IInv, NEW t \in Actors, At(t, "rename"), Keep(t, "open"),
           current # 0, rotated' = current, current' = 0,
           overtaken' = overtaken \cup IF current # req[t].seen THEN Records(rotated) ELSE {},
           UNCHANGED <<primary, files, lines, pending, captured, gone>>
    PROVE  IInv'
<1> USE DEF IInv
<1>1. Number' = Number /\ File' = File /\ Line' = Line
  BY DEF Number, File, Line
<1>2. current = files /\ files \in Nat /\ rotated = files - 1 /\ current \in File
  BY DEF Paths, DiskType, File
<1>3. req[t] \in Seeing /\ Size(lines, req[t].seen) >= MaxSegment
  BY Shape DEF At, Ages, SawFull
<1>4. PICK x : x = [pc |-> "open", form |-> req[t].form, record |-> req[t].record]
  OBVIOUS
<1>5. x \in Waiting /\ x.record = req[t].record /\ x.pc = "open"
  BY <1>3, <1>4 DEF Waiting, Seeing
<1>6. req' = [req EXCEPT ![t] = x] /\ HeldBy(x) = Held(t)
  BY <1>4, <1>5, HeldIs DEF Keep, HeldBy, At
<1>7. /\ req'[t] = x /\ \A u \in Actors : Held(u)' = Held(u)
      /\ \A u \in Actors \ {t} : req'[u] = req[u]
  BY <1>6, Moves
<1>8. DiskType'
  <2>1. req' \in [Actors -> {Idle} \cup Request']
    BY <1>1, <1>5, <1>6, MovesType, RequestGrows DEF Request
  <2>2. overtaken' \subseteq Number
    BY LinesType DEF DiskType
  <2>3. QED
    BY <1>1, <2>1, <2>2 DEF DiskType
<1>9. Paths'
  BY <1>2 DEF Paths
<1>10. Aged'
  BY DEF Ages, Aged
<1>11. \A i \in DOMAIN lines : lines[i].file = rotated /\ current # req[t].seen
                                  => lines[i].record \in overtaken'
  BY DEF Records, In
<1>12. \A i \in DOMAIN lines : lines[i].file < current =>
                                  lines[i].file < rotated \/ lines[i].file = rotated
  BY <1>2, LinesType DEF File
<1>13. Spared'
  <2>1. SUFFICES ASSUME NEW i \in DOMAIN lines, lines[i].record \notin overtaken',
                        lines[i].file < current
                 PROVE  Size(lines, lines[i].file + 1) >= MaxSegment
    BY DEF Spared
  <2>2. CASE lines[i].file < rotated
    BY <2>1, <2>2 DEF Ages, Spared
  <2>3. CASE lines[i].file = rotated
    <3>1. current = req[t].seen /\ lines[i].file + 1 = current
      BY <1>2, <1>11, <2>1, <2>3
    <3>2. QED
      BY <1>3, <3>1
  <2>4. QED
    BY <1>12, <2>1, <2>2, <2>3
<1>14. FullKept'
  <2>1. SUFFICES ASSUME overtaken = {}, current # req[t].seen => Records(rotated) = {}
                 PROVE  \/ Size(lines, current) >= MaxSegment
                        \/ \A i \in DOMAIN lines : ~(lines[i].file < current)
    BY DEF FullKept
  <2>2. CASE current = req[t].seen
    BY <1>3, <2>2
  <2>3. CASE Records(rotated) = {}
    <3>1. In(rotated) = {}
      BY <2>3 DEF Records
    <3>2. Size(lines, rotated) = 0
      BY <3>1, FS_EmptySet, LinesType
    <3>3. \A i \in DOMAIN lines : ~(lines[i].file < rotated)
      BY <2>1, <3>2 DEF Ages, FullKept
    <3>4. \A i \in DOMAIN lines : lines[i].file # rotated
      BY <3>1 DEF In
    <3>5. QED
      BY <1>12, <3>3, <3>4
  <2>4. QED
    BY <2>1, <2>2, <2>3
<1>15. SawFull'
  <2>1. \A u \in Actors : At(u, "rename")' => At(u, "rename") /\ req'[u] = req[u]
    BY <1>5, <1>7 DEF At
  <2>2. QED
    BY <2>1 DEF Ages, SawFull
<1>16. FailureLeavesATrace'
  <2>1. Records(rotated) \subseteq PushedOut \cup overtaken'
    <3>1. SUFFICES ASSUME NEW i \in In(rotated)
                   PROVE  lines[i].record \in PushedOut \cup overtaken'
      BY DEF Records
    <3>2. i \in DOMAIN lines /\ lines[i].file = rotated
      BY DEF In
    <3>3. CASE current # req[t].seen \/ lines[i].record \in overtaken
      BY <1>11, <3>2, <3>3
    <3>4. CASE current = req[t].seen /\ lines[i].record \notin overtaken
      <4>1. \A j \in In(current) : i < j
        <5>1. SUFFICES ASSUME NEW j \in In(current)
                       PROVE  i < j
          OBVIOUS
        <5>2. j \in DOMAIN lines /\ lines[i].file < lines[j].file
          BY <1>2, <3>2 DEF In
        <5>3. QED
          BY <3>2, <3>4, <5>2 DEF Ages, Aged
      <4>2. Size(lines, current) >= MaxSegment
        BY <1>3, <3>4
      <4>3. QED
        BY <3>2, <4>1, <4>2, OlderThanFull
    <3>5. QED
      BY <3>3, <3>4
  <2>2. Records(rotated)' = Records(current) /\ PushedOut' = PushedOut
    BY DEF Records, In, PushedOut
  <2>3. Reachable \subseteq Reachable' \cup PushedOut' \cup overtaken'
    BY <2>1, <2>2 DEF Reachable
  <2>4. OnTheWay' = OnTheWay
    BY <1>7 DEF OnTheWay
  <2>5. Where \subseteq Where'
    BY <2>2, <2>3, <2>4 DEF Where
  <2>6. QED
    BY <2>5, WhereTraces
<1>17. QED
  BY <1>8, <1>9, <1>10, <1>13, <1>14, <1>15, <1>16 DEF Ages

LEMMA RenameKeeps ==
    ASSUME IInv, NEW t \in Actors, Rename(t)
    PROVE  IInv'
<1>1. At(t, "rename") /\ Keep(t, "open") /\ UNCHANGED <<captured, gone>> /\ Rotate
      /\ overtaken' = overtaken \cup IF current' # current /\ current # req[t].seen
                                     THEN Records(rotated) ELSE {}
  BY DEF Rename
<1>2. CASE UNCHANGED blackboxVars
  <2>1. UNCHANGED <<diskVars, primary, overtaken>>
    BY <1>1, <1>2 DEF blackboxVars, diskVars
  <2>2. QED
    BY <1>1, <2>1, KeepKeeps DEF At
<1>3. CASE current # 0 /\ rotated' = current /\ current' = 0
           /\ UNCHANGED <<primary, files, lines, pending>>
  BY <1>1, <1>3, RotateKeeps
<1>4. QED
  BY <1>1, <1>2, <1>3 DEF Rotate

-----------------------------------------------------------------------------
(* The steps that capture, open and write.                                 *)

\* What stays while no line is written and no path is moved.
LEMMA AgesStay ==
    ASSUME DiskType, Ages, UNCHANGED <<lines, rotated, overtaken>>,
           \A u \in Actors : At(u, "rename")' => At(u, "rename") /\ req'[u] = req[u]
    PROVE  Ages'
<1>1. SawFull'
  BY DEF Ages, SawFull
<1>2. QED
  BY <1>1, FilesSame DEF Ages

\* A capture is a new record, which its task holds.
LEMMA CaptureKeeps ==
    ASSUME IInv, NEW t \in Actors, NEW payload \in Payload, Capture(t, payload),
           Held(t) = {}, UNCHANGED <<blackboxVars, overtaken, gone>>
    PROVE  IInv'
<1> DEFINE n == Len(captured) + 1
           x == [pc |-> "record", form |-> payload, record |-> n]
<1>1. /\ Len(captured) \in Nat /\ Len(captured') = n
      /\ captured' \in Seq(Payload)
  BY DEF IInv, DiskType, Capture
<1>2. Number' = Number \cup {n} /\ n \notin Number
  BY <1>1 DEF Number
<1>3. UNCHANGED <<primary, files, lines, current, rotated, pending>>
  BY DEF blackboxVars, diskVars
<1>4. req' = [req EXCEPT ![t] = x]
  BY DEF Capture
<1>5. x \in Waiting' /\ HeldBy(x) = {n} /\ x.pc = "record"
  BY <1>1 DEF Waiting, HeldBy, Number
<1> HIDE DEF x
<1>6. /\ req'[t] = x /\ Held(t)' = {n}
      /\ \A u \in Actors \ {t} : req'[u] = req[u] /\ Held(u)' = Held(u)
  BY <1>4, <1>5, Moves DEF IInv
<1>7. DiskType'
  <2>1. File' = File
    BY <1>3 DEF File
  <2>2. req' \in [Actors -> {Idle} \cup Request']
    BY <1>2, <1>4, <1>5, <2>1, MovesType DEF IInv, Request
  <2>3. Line \subseteq Line'
    BY <1>2, <2>1 DEF Line
  <2>4. \A q \in Seq(Line) : q \in Seq(Line')
    <3> HIDE DEF n
    <3>1. QED
      BY <2>3
  <2>5. lines' \in Seq(Line') /\ pending' \subseteq Line' /\ files' \in Nat
    BY <1>3, <2>3, <2>4 DEF IInv, DiskType
  <2>6. primary' \subseteq Number' /\ gone' \subseteq Number' /\ overtaken' \subseteq Number'
    BY <1>2, <1>3 DEF IInv, DiskType
  <2>7. QED
    BY <1>1, <2>2, <2>5, <2>6 DEF DiskType
<1>8. Paths' /\ Ages'
  <2>1. \A u \in Actors : At(u, "rename")' => At(u, "rename") /\ req'[u] = req[u]
    BY <1>5, <1>6 DEF At
  <2>2. QED
    BY <1>3, <2>1, AgesStay DEF IInv, Paths
<1>9. FailureLeavesATrace'
  <2>1. OnTheWay \cup {n} \subseteq OnTheWay'
    BY <1>3, <1>6 DEF OnTheWay
  <2>2. Where \cup {n} \subseteq Where'
    BY <1>3, <2>1, ReachableSame DEF Where
  <2>3. DOMAIN captured = Number /\ DOMAIN captured' = Number'
    BY <1>1 DEF IInv, DiskType, Number
  <2>4. QED
    BY <1>2, <2>2, <2>3 DEF IInv, FailureLeavesATrace, Where
<1>10. QED
  BY <1>7, <1>8, <1>9 DEF IInv

\* open may make the first file, or the one after a rotation.
LEMMA OpenFileKeeps ==
    ASSUME IInv, NEW t \in Actors, OpenFile(t)
    PROVE  IInv'
<1> USE DEF IInv
<1>1. /\ At(t, "open") /\ Look(t, "write", Opened)
      /\ files' = IF current = 0 THEN files + 1 ELSE files
      /\ current' = Opened
      /\ UNCHANGED <<primary, lines, rotated, pending, captured, gone, overtaken>>
  BY DEF OpenFile, Open, histVars
<1>2. /\ files \in Nat /\ files' \in Nat /\ File \subseteq File' /\ Opened \in File'
      /\ current' = files' /\ files' # 0 /\ rotated' = files' - 1
      /\ current = 0 \/ current' = current
  <2>1. files \in Nat
    BY DEF DiskType
  <2>2. /\ current' = files' /\ files' # 0 /\ files' \in Nat /\ files <= files'
        /\ rotated' = files' - 1 /\ (current = 0 \/ current' = current)
    <3>1. Paths
      OBVIOUS
    <3>2. CASE current = 0
      BY <1>1, <2>1, <3>1, <3>2 DEF Opened, Paths
    <3>3. CASE current # 0
      BY <1>1, <2>1, <3>1, <3>3 DEF Opened, Paths
    <3>4. QED
      BY <3>2, <3>3
  <2>3. QED
    BY <1>1, <2>1, <2>2 DEF File
<1>3. Number' = Number
  BY <1>1 DEF Number
<1>4. PICK x : x = [pc |-> "write", form |-> req[t].form, record |-> req[t].record,
                    seen |-> Opened]
  OBVIOUS
<1>5. req[t] \in Waiting
  BY <1>1, Shape DEF At
<1>6. x \in Seeing' /\ x.record = req[t].record /\ x.pc = "write"
  BY <1>2, <1>3, <1>4, <1>5 DEF Waiting, Seeing
<1>7. req' = [req EXCEPT ![t] = x] /\ HeldBy(x) = Held(t)
  BY <1>1, <1>4, <1>6, HeldIs DEF Look, HeldBy, At
<1>8. /\ req'[t] = x /\ \A u \in Actors : Held(u)' = Held(u)
      /\ \A u \in Actors \ {t} : req'[u] = req[u]
  BY <1>7, Moves
<1>9. DiskType'
  <2>1. req' \in [Actors -> {Idle} \cup Request']
    BY <1>2, <1>3, <1>6, <1>7, MovesType DEF Request
  <2>2. Line \subseteq Line'
    BY <1>2, <1>3 DEF Line
  <2>3. \A q \in Seq(Line) : q \in Seq(Line')
    BY <2>2
  <2>4. lines' \in Seq(Line') /\ pending' \subseteq Line'
    BY <1>1, <2>2, <2>3 DEF DiskType
  <2>5. QED
    BY <1>1, <1>2, <1>3, <2>1, <2>4 DEF DiskType
<1>10. Paths'
  BY <1>2 DEF Paths
<1>11. Ages'
  <2>1. \A u \in Actors : At(u, "rename")' => At(u, "rename") /\ req'[u] = req[u]
    BY <1>6, <1>8 DEF At
  <2>2. QED
    BY <1>1, <2>1, AgesStay
<1>12. FailureLeavesATrace'
  <2>1. Records(0) = {}
    BY LinesType DEF File, DiskType
  <2>2. /\ Records(rotated)' = Records(rotated) /\ PushedOut' = PushedOut
        /\ Records(current) \subseteq Records(current)'
    BY <1>1, <1>2, <2>1 DEF Records, In, PushedOut
  <2>3. OnTheWay' = OnTheWay
    BY <1>1, <1>8 DEF OnTheWay
  <2>4. Where \subseteq Where'
    BY <1>1, <2>2, <2>3 DEF Where, Reachable
  <2>5. QED
    BY <1>1, <2>4, WhereTraces
<1>13. QED
  BY <1>9, <1>10, <1>11, <1>12

\* The write is handed on: the record is in a write, and the request is over.
LEMMA WriteLineKeeps ==
    ASSUME IInv, NEW t \in Actors, WriteLine(t)
    PROVE  IInv'
<1> USE DEF IInv
<1>1. PICK w : w = [file |-> req[t].seen, record |-> req[t].record]
  OBVIOUS
<1>2. /\ At(t, "write") /\ req' = [req EXCEPT ![t] = Idle] /\ pending' = pending \cup {w}
      /\ UNCHANGED <<primary, files, lines, current, rotated, captured, gone, overtaken>>
  BY <1>1 DEF WriteLine, Write, Finish, histVars
<1>3. Number' = Number /\ File' = File /\ Line' = Line
  BY <1>2 DEF Number, File, Line
<1>4. req[t] \in Seeing /\ Held(t) = {req[t].record}
  BY <1>2, Shape, HeldIs DEF At, HeldBy
<1>5. w \in Line /\ w.record = req[t].record
  BY <1>1, <1>4 DEF Seeing, Line
<1>6. HeldBy(Idle) = {} /\ Idle.pc = "idle"
  BY DEF HeldBy, Idle
<1>7. /\ req'[t] = Idle /\ Held(t)' = {}
      /\ \A u \in Actors \ {t} : req'[u] = req[u] /\ Held(u)' = Held(u)
  BY <1>2, <1>6, Moves
<1>8. DiskType'
  <2>1. req' \in [Actors -> {Idle} \cup Request']
    BY <1>2, <1>3, MovesType
  <2>2. QED
    BY <1>2, <1>3, <1>5, <2>1 DEF DiskType
<1>9. Paths' /\ Ages'
  <2>1. \A u \in Actors : At(u, "rename")' => At(u, "rename") /\ req'[u] = req[u]
    BY <1>6, <1>7 DEF At
  <2>2. QED
    BY <1>2, <2>1, AgesStay DEF Paths
<1>10. FailureLeavesATrace'
  <2>1. OnTheWay \subseteq OnTheWay'
    <3>1. ASSUME NEW u \in Actors, NEW n \in Held(u)
          PROVE  n \in OnTheWay'
      <4>1. CASE u = t
        BY <1>2, <1>4, <1>5, <3>1, <4>1 DEF OnTheWay
      <4>2. CASE u # t
        BY <1>7, <3>1, <4>2 DEF OnTheWay
      <4>3. QED
        BY <4>1, <4>2
    <3>2. {v.record : v \in pending} \subseteq OnTheWay'
      BY <1>2 DEF OnTheWay
    <3>3. QED
      BY <3>1, <3>2 DEF OnTheWay
  <2>2. Where \subseteq Where'
    BY <1>2, <2>1, ReachableSame DEF Where
  <2>3. QED
    BY <1>2, <2>2, WhereTraces
<1>11. QED
  BY <1>8, <1>9, <1>10

-----------------------------------------------------------------------------
(* The thread that writes, and the crash.                                  *)

\* The record goes from a write to its file, which is the latest one or costs
\* the record.
LEMMA FlushLineKeeps ==
    ASSUME IInv, NEW w \in pending, FlushLine(w)
    PROVE  IInv'
<1> USE DEF IInv
<1>1. /\ lines' = Append(lines, w) /\ pending' = pending \ {w}
      /\ overtaken' = overtaken \cup IF w.file # current THEN {w.record} ELSE {}
      /\ UNCHANGED <<primary, files, current, rotated, captured, req, gone>>
  BY DEF FlushLine, Flush
<1>2. Number' = Number /\ File' = File /\ Line' = Line /\ Request' = Request
  BY <1>1 DEF Number, File, Line, Request, Before, Reading, Waiting, Seeing
<1>3. w \in Line /\ w.file \in File /\ w.record \in Number /\ files \in Nat
  BY DEF DiskType, Line
<1>4. /\ lines' \in Seq(Line) /\ Len(lines) \in Nat /\ Len(lines') = Len(lines) + 1
      /\ DOMAIN lines = 1..Len(lines) /\ DOMAIN lines' = 1..(Len(lines) + 1)
      /\ \A i \in 1..Len(lines) : lines'[i] = lines[i]
      /\ lines'[Len(lines) + 1] = w
  <2>1. lines \in Seq(Line)
    BY DEF DiskType
  <2>2. QED
    BY <1>1, <1>3, <2>1
<1>5. ASSUME NEW f
      PROVE  Size(lines, f) <= Size(lines', f) /\ Size(lines, f) \in Nat /\ Size(lines', f) \in Nat
  <2>1. lines \in Seq([file : File, record : Number]) /\ w \in [file : File, record : Number]
    BY DEF DiskType, Line
  <2>2. QED
    BY <1>1, <2>1, SizeGrows
<1>6. \A i \in DOMAIN lines' : \/ i \in DOMAIN lines /\ lines'[i] = lines[i]
                               \/ i = Len(lines) + 1 /\ lines'[i] = w
  BY <1>4
<1>7. \/ w.record \in overtaken'
      \/ /\ w.file = files /\ current = files /\ current # 0
         /\ rotated < w.file /\ overtaken' = overtaken
  <2>1. CASE w.file # current
    BY <1>1, <2>1
  <2>2. CASE w.file = current
    <3>1. current # 0 /\ overtaken' = overtaken
      BY <1>1, <1>3, <2>2 DEF File
    <3>2. Paths
      OBVIOUS
    <3>3. QED
      BY <1>3, <2>2, <3>1, <3>2 DEF Paths
  <2>3. QED
    BY <2>1, <2>2
<1>8. \A i \in DOMAIN lines : lines[i].file \in File
  BY LinesType
<1>9. DiskType'
  BY <1>1, <1>2, <1>3, <1>4 DEF DiskType
<1>10. Paths'
  BY <1>1 DEF Paths
<1>11. Aged'
  <2>1. SUFFICES ASSUME NEW i \in DOMAIN lines', NEW j \in DOMAIN lines',
                        lines'[i].file < lines'[j].file, lines'[i].record \notin overtaken'
                 PROVE  i < j
    BY DEF Aged
  <2>2. CASE i \in DOMAIN lines /\ j \in DOMAIN lines
    BY <1>1, <1>4, <2>1, <2>2 DEF Ages, Aged
  <2>3. CASE i \in DOMAIN lines /\ j = Len(lines) + 1
    BY <1>4, <2>3
  <2>4. CASE i = Len(lines) + 1
    <3>1. w.file = files /\ files < lines'[j].file
      BY <1>4, <1>7, <2>1, <2>4
    <3>2. lines'[j].file \in File
      BY <1>3, <1>6, <1>8
    <3>3. QED
      BY <1>3, <3>1, <3>2 DEF File
  <2>5. QED
    BY <1>6, <2>2, <2>3, <2>4
<1>12. Spared'
  <2>1. SUFFICES ASSUME NEW i \in DOMAIN lines', lines'[i].record \notin overtaken',
                        lines'[i].file < rotated
                 PROVE  Size(lines', lines'[i].file + 1) >= MaxSegment
    BY <1>1 DEF Spared
  <2>2. CASE i \in DOMAIN lines
    <3>1. Size(lines, lines[i].file + 1) >= MaxSegment
      BY <1>1, <1>4, <2>1, <2>2 DEF Ages, Spared
    <3>2. QED
      BY <1>4, <1>5, <2>2, <3>1
  <2>3. CASE i = Len(lines) + 1
    BY <1>3, <1>4, <1>7, <2>1, <2>3 DEF Paths, File
  <2>4. QED
    BY <1>6, <2>2, <2>3
<1>13. FullKept'
  <2>1. SUFFICES ASSUME overtaken' = {}
                 PROVE  \/ Size(lines', rotated) >= MaxSegment
                        \/ \A i \in DOMAIN lines' : ~(lines'[i].file < rotated)
    BY <1>1 DEF FullKept
  <2>2. CASE Size(lines, rotated) >= MaxSegment
    BY <1>5, <2>2
  <2>3. CASE \A i \in DOMAIN lines : ~(lines[i].file < rotated)
    <3>1. ~(w.file < rotated)
      BY <1>3, <1>7, <2>1 DEF Paths, File
    <3>2. QED
      BY <1>6, <2>3, <3>1
  <2>4. overtaken = {}
    BY <1>1, <2>1
  <2>5. QED
    BY <2>2, <2>3, <2>4 DEF Ages, FullKept
<1>14. SawFull'
  BY <1>1, <1>5 DEF Ages, SawFull, At
<1>15. FailureLeavesATrace'
  <2>1. \A f : Records(f) \subseteq Records(f)'
    <3>1. \A i \in DOMAIN lines : i \in DOMAIN lines' /\ lines'[i] = lines[i]
      BY <1>4
    <3>2. QED
      BY <3>1 DEF Records, In
  <2>2. PushedOut \subseteq PushedOut'
    <3>1. \A i \in DOMAIN lines : Len(lines) - i >= MaxSegment =>
             i \in DOMAIN lines' /\ Len(lines') - i >= MaxSegment /\ lines'[i] = lines[i]
      BY <1>4
    <3>2. QED
      BY <3>1 DEF PushedOut
  <2>3. w.record \in Records(current)' \/ w.record \in overtaken'
    <3>1. CASE w.file = current
      <4>1. Len(lines) + 1 \in DOMAIN lines' /\ lines'[Len(lines) + 1].file = current'
        BY <1>1, <1>4, <3>1
      <4>2. QED
        BY <1>4, <4>1 DEF Records, In
    <3>2. CASE w.file # current
      BY <1>1, <3>2
    <3>3. QED
      BY <3>1, <3>2
  <2>4. Reachable \subseteq Reachable' /\ Records(current)' \subseteq Reachable'
    BY <1>1, <2>1 DEF Reachable
  <2>5. \A u \in Actors : Held(u)' = Held(u)
    BY <1>1, HeldIs
  <2>6. OnTheWay \subseteq OnTheWay' \cup {w.record}
    BY <1>1, <2>5 DEF OnTheWay
  <2>7. Where \subseteq Where'
    BY <1>1, <2>2, <2>3, <2>4, <2>6 DEF Where
  <2>8. QED
    BY <1>1, <2>7, WhereTraces
<1>16. QED
  BY <1>9, <1>10, <1>11, <1>12, <1>13, <1>14, <1>15 DEF Ages

LEMMA LoseLineKeeps ==
    ASSUME IInv, NEW w \in pending, LoseLine(w)
    PROVE  IInv'
<1> USE DEF IInv
<1>1. /\ UNCHANGED <<primary, files, lines, current, rotated, captured, req, overtaken>>
      /\ pending' = pending \ {w} /\ gone' = gone \cup {w.record}
  BY DEF LoseLine, LoseWrite
<1>2. Number' = Number /\ File' = File /\ Line' = Line /\ Request' = Request
  BY <1>1 DEF Number, File, Line, Request, Before, Reading, Waiting, Seeing
<1>3. w.record \in Number
  BY DEF DiskType, Line
<1>4. DiskType'
  BY <1>1, <1>2, <1>3 DEF DiskType
<1>5. Paths' /\ Ages'
  BY <1>1, AgesStay DEF Paths, At
<1>6. FailureLeavesATrace'
  <2>1. \A u \in Actors : Held(u)' = Held(u)
    BY <1>1, HeldIs
  <2>2. OnTheWay \subseteq OnTheWay' \cup {w.record}
    BY <1>1, <2>1 DEF OnTheWay
  <2>3. Where \subseteq Where'
    BY <1>1, <2>2, ReachableSame DEF Where
  <2>4. QED
    BY <1>1, <2>3, WhereTraces
<1>7. QED
  BY <1>4, <1>5, <1>6

\* What the requests held and the writes are gone.
LEMMA CrashKeeps ==
    ASSUME IInv, Crash
    PROVE  IInv'
<1> USE DEF IInv
<1>1. /\ UNCHANGED <<primary, files, lines, current, rotated, captured, overtaken>>
      /\ pending' = {} /\ req' = [t \in Actors |-> Idle]
      /\ gone' = gone \cup {w.record : w \in pending} \cup UNION {Held(t) : t \in Actors}
  BY DEF Crash
<1>2. Number' = Number /\ File' = File /\ Line' = Line
  BY <1>1 DEF Number, File, Line
<1>3. HeldBy(Idle) = {} /\ Idle.pc = "idle"
  BY DEF HeldBy, Idle
<1>4. \A u \in Actors : req'[u] = Idle /\ Held(u)' = {}
  BY <1>1, <1>3, HeldIs
<1>5. DiskType'
  <2>1. \A t \in Actors : Held(t) \subseteq Number
    BY HeldAreCaptured
  <2>2. \A w \in pending : w.record \in Number
    BY DEF DiskType, Line
  <2>3. gone' \subseteq Number
    BY <1>1, <2>1, <2>2 DEF DiskType
  <2>4. QED
    BY <1>1, <1>2, <2>3 DEF DiskType
<1>6. Paths' /\ Ages'
  BY <1>1, <1>3, <1>4, AgesStay DEF Paths, At
<1>7. FailureLeavesATrace'
  <2>1. OnTheWay \subseteq gone'
    BY <1>1 DEF OnTheWay
  <2>2. Where \subseteq Where'
    BY <1>1, <2>1, ReachableSame DEF Where
  <2>3. QED
    BY <1>1, <2>2, WhereTraces
<1>8. QED
  BY <1>5, <1>6, <1>7

\* A step of a list, and one that changes nothing.
LEMMA NothingKeeps ==
    ASSUME IInv, UNCHANGED <<blackboxVars, handlerVars, histVars>>
    PROVE  IInv'
<1> USE DEF IInv
<1>1. UNCHANGED <<primary, files, lines, current, rotated, pending, captured, req, gone, overtaken>>
  BY DEF blackboxVars, diskVars, handlerVars, histVars
<1>2. Number' = Number /\ File' = File /\ Line' = Line /\ Request' = Request
  BY <1>1 DEF Number, File, Line, Request, Before, Reading, Waiting, Seeing
<1>3. DiskType'
  BY <1>1, <1>2 DEF DiskType
<1>4. Paths' /\ Ages'
  BY <1>1, AgesStay DEF Paths, At
<1>5. FailureLeavesATrace'
  <2>1. \A u \in Actors : Held(u)' = Held(u)
    BY <1>1, HeldIs
  <2>2. Where' = Where
    BY <1>1, <2>1, ReachableSame DEF Where, OnTheWay
  <2>3. QED
    BY <1>1, <2>2, WhereTraces
<1>6. QED
  BY <1>3, <1>4, <1>5

-----------------------------------------------------------------------------
(* The insert that fails, and the theorems about what is kept.             *)

LEMMA FailKeeps ==
    ASSUME IInv, NEW t \in Actors, At(t, "insert"), Fail(t),
           UNCHANGED <<blackboxVars, histVars>>
    PROVE  IInv'
<1>1. req[t] \in Before /\ Held(t) = {}
  BY Shape, HeldIs DEF IInv, At, HeldBy
<1>2. UNCHANGED <<diskVars, primary, gone, overtaken>>
  BY DEF blackboxVars, histVars
<1>3. CASE req[t].record # 0
  BY <1>1, <1>2, <1>3, BeforeKeeps DEF Fail, Finish
<1>4. CASE req[t].record = 0
  <2>1. req[t].form \in Payload
    BY <1>1 DEF Before
  <2>2. QED
    BY <1>1, <1>2, <1>4, <2>1, CaptureKeeps DEF Fail, blackboxVars
<1>5. QED
  BY <1>3, <1>4

LEMMA NextIInv == IInv /\ [Next]_vars => IInv'
<1>1. SUFFICES ASSUME IInv, [Next]_vars
               PROVE  IInv'
  OBVIOUS
<1> USE <1>1
<1>2. ASSUME NEW t \in Tasks, NEW f \in Forms, Create(t, f)
      PROVE  IInv'
  BY <1>2, CreateKeeps, TasksAct
<1>3. ASSUME NEW t \in Tasks, Exists(t) \/ ExistsFails(t) \/ Insert(t) \/ Announce(t)
                              \/ ScanPrimary(t) \/ ScanOpen(t) \/ ScanLines(t)
      PROVE  IInv'
  <2>1. req[t].pc \in {"exists", "insert", "announce", "scan primary", "scan disk", "scan lines"}
    BY <1>3 DEF Exists, ExistsFails, Insert, Announce, ScanPrimary, ScanOpen, ScanLines, At
  <2>2. \/ Finish(t) \/ Keep(t, "insert")
        \/ At(t, "scan disk") /\ current # 0 /\ Look(t, "scan lines", current)
        \/ ~At(t, "scan lines")
           /\ (Go(t, "insert") \/ Go(t, "scan disk") \/ Go(t, "announce"))
    BY <1>3 DEF Exists, ExistsFails, Insert, Announce, ScanPrimary, ScanOpen, ScanLines, Found, At
  <2>3. UNCHANGED <<captured, diskVars, overtaken, primary, gone>>
    BY <1>3 DEF Exists, ExistsFails, Insert, Announce, ScanPrimary, ScanOpen, ScanLines,
       blackboxVars, histVars
  <2>4. t \in Actors
    BY TasksAct
  <2>5. PICK x : Held(t) = {} /\ req' = [req EXCEPT ![t] = x]
                 /\ (x = Idle \/ x \in Before \/ x \in Reading)
    BY <2>1, <2>2, <2>4, BeforeGoes
  <2>6. QED
    BY <2>3, <2>4, <2>5, BeforeKeeps
<1>4. ASSUME NEW t \in Tasks, InsertFails(t) \/ InsertUnanswered(t)
      PROVE  IInv'
  BY <1>4, FailKeeps, TasksAct DEF InsertFails, InsertUnanswered
<1>5. ASSUME NEW t \in Tasks, NEW n \in DOMAIN captured, Replay(t, n)
      PROVE  IInv'
  BY <1>5, ReplayKeeps, TasksAct
<1>6. ASSUME NEW t \in Tasks, Abandon(t)
      PROVE  IInv'
  BY <1>6, FinishKeeps, TasksAct DEF Abandon, blackboxVars
<1>7. ASSUME JobFails
      PROVE  IInv'
  <2>1. Held(Worker) = {}
    BY <1>7, HeldIs DEF JobFails, At, HeldBy
  <2>2. QED
    BY <1>7, <2>1, CaptureKeeps, TasksAct DEF JobFails, Payload, histVars
<1>8. ASSUME NEW t \in Actors, RecordPrimary(t)
      PROVE  IInv'
  <2>1. Held(t) = {req[t].record}
    BY <1>8, HeldIs DEF RecordPrimary, At, HeldBy
  <2>2. QED
    BY <1>8, <2>1, FinishKeeps DEF RecordPrimary, Save, histVars
<1>9. ASSUME NEW t \in Actors, PrimaryFails(t)
      PROVE  IInv'
  BY <1>9, PrimaryFailsKeeps
<1>10. ASSUME NEW t \in Actors, CheckSize(t) \/ MetadataFails(t)
       PROVE  IInv'
  BY <1>10, CheckSizeKeeps, KeepKeeps DEF MetadataFails, At, blackboxVars, histVars
<1>11. ASSUME NEW t \in Actors, Rename(t) \/ OpenFile(t) \/ WriteLine(t)
       PROVE  IInv'
  BY <1>11, RenameKeeps, OpenFileKeeps, WriteLineKeeps
<1>12. ASSUME NEW t \in Actors, OpenFails(t)
       PROVE  IInv'
  <2>1. Held(t) = {req[t].record}
    BY <1>12, HeldIs DEF OpenFails, At, HeldBy
  <2>2. QED
    BY <1>12, <2>1, FinishKeeps DEF OpenFails, blackboxVars
<1>13. ASSUME NEW w \in pending, FlushLine(w) \/ LoseLine(w)
       PROVE  IInv'
  BY <1>13, FlushLineKeeps, LoseLineKeeps
<1>14. CASE Crash
  BY <1>14, CrashKeeps
<1>15. CASE UNCHANGED <<blackboxVars, handlerVars, histVars>>
  BY <1>15, NothingKeeps
<1>16. CASE Handling
  BY <1>2, <1>3, <1>4, <1>5, <1>6, <1>7, <1>8, <1>9, <1>10, <1>11, <1>12, <1>13, <1>16
     DEF Handling
<1>17. QED
  BY <1>14, <1>15, <1>16 DEF Next, vars

\* A failure that was answered or acknowledged has its record in the table, in
\* one of the two files with a path or on its way there, or it was lost in one
\* of the ways that are named (blackbox/mod.rs:56, disk.rs:33, web/mod.rs:281).
THEOREM FailuresAreRecorded == Spec => []FailureLeavesATrace
<1>1. IInv => FailureLeavesATrace
  BY DEF IInv
<1>2. QED
  BY <1>1, InitIInv, NextIInv, PTL DEF Spec

\* What a rotation throws away is older than every line that is kept, and a
\* full file is kept (disk.rs:33), unless two writers at a time met.
THEOREM RotationKeepsTheNewest == Spec => []RotationLosesOnlyOld
<1>1. IInv => RotationLosesOnlyOld
  <2>1. SUFFICES ASSUME IInv, NEW i \in DOMAIN lines, i \notin KeptLines
                 PROVE  /\ lines[i].record \in overtaken \/ \A j \in KeptLines : i < j
                        /\ overtaken = {} => Cardinality(KeptLines) >= MaxSegment
    BY DEF RotationLosesOnlyOld
  <2>2. DiskType /\ Paths /\ files \in Nat
    BY <2>1 DEF IInv, DiskType
  <2>3. /\ \A j \in DOMAIN lines : lines[j].file \in 1..files
        /\ KeptLines \subseteq DOMAIN lines
        /\ \A j \in KeptLines : lines[j].file = current \/ lines[j].file = rotated
        /\ lines[i].file # current /\ lines[i].file # rotated
    BY <2>1, <2>2, LinesType DEF File, KeptLines, In
  <2>4. /\ lines[i].file < rotated
        /\ \A j \in KeptLines : lines[i].file < lines[j].file
    <3>1. /\ lines[i].file \in 1..files
          /\ \A j \in KeptLines : lines[j].file \in 1..files
      BY <2>3
    <3>2. lines[i].file < rotated
      BY <2>2, <2>3, <3>1 DEF Paths
    <3>3. \A j \in KeptLines : lines[j].file >= rotated
      BY <2>2, <2>3, <3>1 DEF Paths
    <3>4. rotated \in Nat
      BY <2>2 DEF Paths
    <3>5. QED
      BY <3>1, <3>2, <3>3, <3>4
  <2>5. lines[i].record \in overtaken \/ \A j \in KeptLines : i < j
    BY <2>1, <2>3, <2>4 DEF IInv, Ages, Aged
  <2>6. ASSUME overtaken = {}
        PROVE  Cardinality(KeptLines) >= MaxSegment
    <3>1. Size(lines, rotated) >= MaxSegment
      BY <2>1, <2>4, <2>6 DEF IInv, Ages, FullKept
    <3>2. /\ IsFiniteSet(In(current)) /\ IsFiniteSet(In(rotated))
          /\ Cardinality(In(rotated)) >= MaxSegment
      BY <2>2, <3>1, LinesType
    <3>3. IsFiniteSet(KeptLines) /\ In(rotated) \subseteq KeptLines
      BY <3>2, FS_Union DEF KeptLines
    <3>4. /\ Cardinality(In(rotated)) <= Cardinality(KeptLines)
          /\ Cardinality(In(rotated)) \in Nat /\ Cardinality(KeptLines) \in Nat
      BY <3>2, <3>3, FS_Subset, FS_CardinalityType
    <3>5. QED
      BY <3>2, <3>4
  <2>7. QED
    BY <2>5, <2>6
<1>2. QED
  BY <1>1, InitIInv, NextIInv, PTL DEF Spec

-----------------------------------------------------------------------------
(* The newest of a set, and of a file.                                     *)

\* A set of numbers has a smallest.
LEMMA Smallest ==
    ASSUME NEW S \in SUBSET Nat, S # {}
    PROVE  \E m \in S : \A k \in S : m <= k
<1> DEFINE R == {ss \in Nat \X Nat : ss[1] < ss[2]}
<1>1. IsWellFoundedOn(R, Nat)
  BY NatLessThanWellFounded DEF OpToRel
<1>2. PICK m \in S : \A k \in S : ~(<<k, m>> \in R)
  <2> HIDE DEF R
  <2>1. QED
    BY <1>1, WFMin
<1>3. \A k \in S : ~(k < m)
  <2>1. ASSUME NEW k \in S, k < m
        PROVE  <<k, m>> \in R
    BY <2>1
  <2>2. QED
    BY <1>2, <2>1
<1>4. QED
  BY <1>3

\* What is newer than n, and the two ways to answer for n with S.
Above(S, n) == {m \in S : m > n}
Covers(S, n, limit) == n \in S \/ Cardinality(Above(S, n)) >= limit

LEMMA AboveIsFinite ==
    ASSUME NEW N \in Nat, NEW S \in SUBSET (1..N), NEW n
    PROVE  IsFiniteSet(Above(S, n)) /\ Cardinality(Above(S, n)) \in Nat
<1>1. IsFiniteSet(1..N)
  BY FS_Interval
<1>2. Above(S, n) \subseteq 1..N
  BY DEF Above
<1>3. QED
  BY <1>1, <1>2, FS_Subset, FS_CardinalityType

\* A larger set answers for as much.
LEMMA MoreCovers ==
    ASSUME NEW N \in Nat, NEW T \in SUBSET (1..N), NEW S \in SUBSET T, NEW n,
           NEW limit \in Nat, Covers(S, n, limit)
    PROVE  Covers(T, n, limit)
<1>1. Above(S, n) \subseteq Above(T, n)
  BY DEF Above
<1>2. /\ IsFiniteSet(Above(T, n)) /\ Cardinality(Above(T, n)) \in Nat
      /\ Cardinality(Above(S, n)) \in Nat
  BY AboveIsFinite
<1>3. Cardinality(Above(S, n)) <= Cardinality(Above(T, n))
  BY <1>1, <1>2, FS_Subset
<1>4. CASE n \in S
  BY <1>4 DEF Covers
<1>5. CASE Cardinality(Above(S, n)) >= limit
  <2>1. Cardinality(Above(T, n)) >= limit
    BY <1>2, <1>3, <1>5
  <2>2. QED
    BY <2>1 DEF Covers
<1>6. QED
  BY <1>4, <1>5 DEF Covers

\* Cut to its newest limit, a set answers for as much: the largest that falls
\* out has limit above it that stay.
LEMMA NewestCovers ==
    ASSUME NEW N \in Nat, NEW S \in SUBSET (1..N), NEW n \in 1..N, NEW limit \in Nat,
           Covers(S, n, limit)
    PROVE  Covers(Newest(S, limit), n, limit)
<1> DEFINE K == Newest(S, limit)
           B == {m \in S : m > n /\ m \notin K}
           Caps == {c \in Nat : \A m \in B : m <= c}
<1>1. K \in SUBSET (1..N) /\ \A m \in S : m \notin K => ~(Cardinality(Above(S, m)) < limit)
  BY DEF Newest, Above
<1>2. CASE n \in K
  BY <1>2 DEF Covers
<1>3. CASE n \notin K /\ B = {}
  <2>1. Above(S, n) \subseteq Above(K, n)
    BY <1>3 DEF Above
  <2>2. Cardinality(Above(S, n)) >= limit
    <3>1. CASE n \in S
      <4>1. ~(Cardinality(Above(S, n)) < limit) /\ Cardinality(Above(S, n)) \in Nat
        BY <1>1, <1>3, <3>1, AboveIsFinite
      <4>2. QED
        BY <4>1
    <3>2. CASE n \notin S
      BY <3>2 DEF Covers
    <3>3. QED
      BY <3>1, <3>2
  <2>3. /\ IsFiniteSet(Above(K, n)) /\ Cardinality(Above(K, n)) \in Nat
        /\ Cardinality(Above(S, n)) \in Nat
    BY <1>1, AboveIsFinite
  <2>4. Cardinality(Above(S, n)) <= Cardinality(Above(K, n))
    BY <2>1, <2>3, FS_Subset
  <2>5. QED
    BY <2>2, <2>3, <2>4 DEF Covers
<1>4. CASE B # {}
  <2>1. N \in Caps
    OBVIOUS
  <2>2. PICK b \in Caps : \A c \in Caps : b <= c
    BY <2>1, Smallest
  <2>3. b \in B
    <3>1. SUFFICES ASSUME b \notin B
                   PROVE  FALSE
      OBVIOUS
    <3>2. PICK m \in B : TRUE
      BY <1>4
    <3>3. m \in 1..N /\ m <= b
      BY <2>2, <3>2
    <3>4. b - 1 \in Nat /\ \A x \in B : x <= b - 1
      <4>1. \A x \in B : x \in Nat /\ x <= b /\ x # b
        BY <2>2, <3>1
      <4>2. b \in Nat /\ b >= 1
        BY <2>2, <3>3
      <4>3. QED
        BY <4>1, <4>2
    <3>5. QED
      BY <2>2, <3>4
  <2>4. b \in Nat /\ b \in S /\ b > n /\ b \notin K
    BY <2>2, <2>3
  <2>5. Above(S, b) \subseteq Above(K, n)
    <3>1. ASSUME NEW m \in S, m > b
          PROVE  m \in K /\ m > n
      <4>1. m \in Nat /\ m \notin B
        BY <2>2, <3>1
      <4>2. QED
        BY <2>4, <3>1, <4>1
    <3>2. QED
      BY <3>1 DEF Above
  <2>6. /\ IsFiniteSet(Above(K, n)) /\ Cardinality(Above(K, n)) \in Nat
        /\ Cardinality(Above(S, b)) \in Nat
    BY <1>1, AboveIsFinite
  <2>7. Cardinality(Above(S, b)) <= Cardinality(Above(K, n))
    BY <2>5, <2>6, FS_Subset
  <2>8. ~(Cardinality(Above(S, b)) < limit)
    BY <1>1, <2>4
  <2>9. QED
    BY <2>6, <2>7, <2>8 DEF Covers
<1>5. QED
  BY <1>2, <1>3, <1>4

\* The last lines of a file in order answer for every record of the file.
LEMMA FileCovers ==
    ASSUME DiskType, NEW f, Ordered(f), NEW n \in Records(f)
    PROVE  Covers(LastLines(f, ListLimit, Len(lines)), n, ListLimit)
<1> DEFINE N == Len(lines)
           K == Newest(In(f), ListLimit)
           L == LastLines(f, ListLimit, Len(lines))
<1>1. N \in Nat /\ In(f) \in SUBSET (1..N) /\ DOMAIN lines = 1..N
  BY LinesType
<1>2. {j \in In(f) : j <= Len(lines)} = In(f)
  BY <1>1
<1>3. L = {lines[j].record : j \in K}
  BY <1>2 DEF LastLines
<1>4. PICK i \in In(f) : lines[i].record = n
  BY DEF Records
<1>5. CASE i \in K
  BY <1>3, <1>4, <1>5 DEF Covers
<1>6. CASE Cardinality(Above(K, i)) >= ListLimit
  <2> DEFINE D == Above(K, i)
             A == Above(L, n)
             g == [j \in D |-> lines[j].record]
  <2>1. K \subseteq In(f)
    BY DEF Newest
  <2>2. /\ \A j \in DOMAIN lines : lines[j].record \in Number
        /\ Len(captured) \in Nat
    BY LinesType DEF DiskType
  <2>3. L \in SUBSET (1..Len(captured))
    BY <1>1, <1>3, <2>1, <2>2 DEF Number
  <2>4. ASSUME NEW j \in D
        PROVE  lines[j].record \in A
    <3>1. j \in K /\ j \in In(f) /\ i \in In(f) /\ i < j
      BY <1>1, <1>4, <2>1 DEF Above
    <3>2. lines[i].record < lines[j].record
      BY <3>1 DEF Ordered
    <3>3. lines[i].record \in Nat /\ lines[j].record \in Nat
      BY <1>1, <2>2, <3>1 DEF Number
    <3>4. QED
      BY <1>3, <1>4, <3>1, <3>2, <3>3 DEF Above
  <2>5. ASSUME NEW j \in D, NEW k \in D, lines[j].record = lines[k].record
        PROVE  j = k
    <3>1. j \in In(f) /\ k \in In(f) /\ j \in 1..N /\ k \in 1..N
      BY <1>1, <2>1 DEF Above
    <3>2. lines[j].record \in Nat
      BY <1>1, <2>2, <3>1 DEF Number
    <3>3. ~(j < k) /\ ~(k < j)
      BY <2>5, <3>1, <3>2 DEF Ordered
    <3>4. QED
      BY <1>1, <3>1, <3>3
  <2>6. g \in Injection(D, A)
    BY <2>4, <2>5 DEF Injection, IsInjective
  <2>7. IsFiniteSet(A) /\ Cardinality(A) \in Nat
    <3> HIDE DEF L
    <3>1. QED
      BY <2>2, <2>3, AboveIsFinite
  <2>8. IsFiniteSet(D) /\ Cardinality(D) \in Nat
    <3>1. K \in SUBSET (1..N)
      BY <1>1, <2>1
    <3> HIDE DEF K, N
    <3>2. QED
      BY <1>1, <3>1, AboveIsFinite
  <2>9. Cardinality(D) <= Cardinality(A)
    <3> HIDE DEF A, D, g
    <3>1. QED
      BY <2>6, <2>7, <2>8, FS_Injection DEF ExistsInjection
  <2>10. QED
    BY <1>6, <2>7, <2>8, <2>9 DEF Covers
<1>7. Covers(K, i, ListLimit)
  <2>1. Covers(In(f), i, ListLimit)
    BY <1>4 DEF Covers
  <2>2. i \in 1..N
    BY <1>1, <1>4
  <2> HIDE DEF N
  <2>3. QED
    BY <1>1, <2>1, <2>2, NewestCovers
<1>8. QED
  BY <1>5, <1>6, <1>7 DEF Covers

-----------------------------------------------------------------------------
(* The list of failures.                                                   *)

\* The recorders forget nothing, and every file keeps its lines.
LEMMA NextGrows ==
    ASSUME IInv, [Next]_vars
    PROVE  /\ Number \subseteq Number' /\ File \subseteq File'
           /\ primary \subseteq primary' /\ \A f : Records(f) \subseteq Records(f)'
<1>1. /\ captured \in Seq(Payload) /\ Len(captured) \in Nat
      /\ lines \in Seq(Line) /\ Len(lines) \in Nat /\ files \in Nat
  BY DEF IInv, DiskType
<1>2. captured' = captured => Number \subseteq Number'
  BY DEF Number
<1>3. ASSUME NEW p, captured' = Append(captured, p)
      PROVE  Number \subseteq Number'
  <2>1. Len(captured') = Len(captured) + 1
    BY <1>1, <1>3
  <2>2. QED
    BY <1>1, <2>1 DEF Number
<1>4. lines' = lines => \A f : Records(f) \subseteq Records(f)'
  BY DEF Records, In
<1>5. files' = files => File \subseteq File'
  BY DEF File
<1>6. ASSUME NEW t \in Actors, Fail(t)
      PROVE  Number \subseteq Number'
  BY <1>2, <1>3, <1>6 DEF Fail, Capture
<1>7. CASE \E t \in Tasks :
              \/ \E f \in Forms : Create(t, f)
              \/ Exists(t) \/ ExistsFails(t) \/ Insert(t) \/ Announce(t)
              \/ \E n \in DOMAIN captured : Replay(t, n)
              \/ ScanPrimary(t) \/ ScanOpen(t) \/ ScanLines(t) \/ Abandon(t)
  <2>1. UNCHANGED <<captured, primary, lines, files>>
    BY <1>7 DEF Create, Exists, ExistsFails, Insert, Announce, Replay, ScanPrimary, ScanOpen,
                ScanLines, Abandon, blackboxVars, diskVars
  <2>2. QED
    BY <1>2, <1>4, <1>5, <2>1
<1>8. CASE \E t \in Tasks : InsertFails(t) \/ InsertUnanswered(t)
  <2>1. UNCHANGED <<primary, lines, files>>
    BY <1>8 DEF InsertFails, InsertUnanswered, blackboxVars, diskVars
  <2>2. QED
    BY <1>4, <1>5, <1>6, <1>8, <2>1, TasksAct DEF InsertFails, InsertUnanswered
<1>9. CASE JobFails
  <2>1. UNCHANGED <<primary, lines, files>>
    BY <1>9 DEF JobFails, blackboxVars, diskVars
  <2>2. QED
    BY <1>3, <1>4, <1>5, <1>9, <2>1 DEF JobFails, Capture
<1>10. CASE \E t \in Actors :
               \/ RecordPrimary(t) \/ PrimaryFails(t) \/ CheckSize(t) \/ MetadataFails(t)
               \/ Rename(t) \/ OpenFails(t) \/ WriteLine(t)
  <2>1. UNCHANGED <<captured, lines, files>> /\ primary \subseteq primary'
    BY <1>10 DEF RecordPrimary, PrimaryFails, Save, CheckSize, MetadataFails, Rename, Rotate,
                 OpenFails, WriteLine, Write, blackboxVars, diskVars
  <2>2. QED
    BY <1>2, <1>4, <1>5, <2>1
<1>11. CASE \E t \in Actors : OpenFile(t)
  <2>1. UNCHANGED <<captured, lines, primary>> /\ (files' = files \/ files' = files + 1)
    BY <1>11 DEF OpenFile, Open
  <2>2. File \subseteq File'
    BY <1>1, <2>1 DEF File
  <2>3. QED
    BY <1>2, <1>4, <2>1, <2>2
<1>12. CASE \E w \in pending : FlushLine(w)
  <2>1. PICK w \in pending : FlushLine(w)
    BY <1>12
  <2>2. /\ UNCHANGED <<captured, primary, files>> /\ lines' = Append(lines, w) /\ w \in Line
    BY <2>1 DEF FlushLine, Flush, IInv, DiskType
  <2>3. \A i \in DOMAIN lines : i \in DOMAIN lines' /\ lines'[i] = lines[i]
    BY <1>1, <2>2
  <2>4. \A f : Records(f) \subseteq Records(f)'
    BY <2>3 DEF Records, In
  <2>5. QED
    BY <1>2, <1>5, <2>2, <2>4
<1>13. CASE (\E w \in pending : LoseLine(w)) \/ Crash
            \/ UNCHANGED <<blackboxVars, handlerVars, histVars>>
  <2>1. UNCHANGED <<captured, primary, lines, files>>
    BY <1>13 DEF LoseLine, LoseWrite, Crash, handlerVars, blackboxVars, diskVars
  <2>2. QED
    BY <1>2, <1>4, <1>5, <2>1
<1>14. CASE Handling
  BY <1>7, <1>8, <1>9, <1>10, <1>11, <1>12, <1>13, <1>14 DEF Handling
<1>15. QED
  BY <1>13, <1>14 DEF Next, vars

Owed == SUBSET {"table", "file"}
Probe == [pc : {"primary", "open", "read"}, sought : Number, rows : SUBSET Number,
          file : File \cup {0}, shown : SUBSET Number, owing : Owed]
Answer == [pc : {"listed"}, sought : Number, owing : Owed, shown : SUBSET Number]

\* The table is owed while it has the failure, and when it was read, its rows
\* answer for it; the file is owed while it has the failure.
ListInv ==
    /\ list \in {Idle} \cup Probe \cup Answer
    /\ list.pc = "primary" /\ "table" \in list.owing => list.sought \in primary
    /\ list.pc \in {"open", "read"} /\ "table" \in list.owing
          => Covers(list.rows, list.sought, ListLimit)
    /\ list.pc = "read" /\ "file" \in list.owing => list.sought \in Records(list.file)
    /\ list.pc = "listed" /\ list.owing # {} => Covers(list.shown, list.sought, ListLimit)

LEMMA ListShape ==
    ASSUME ListInv
    PROVE  /\ list.pc \in {"primary", "open", "read"} => list \in Probe
           /\ list.pc = "listed" => list \in Answer
           /\ list = Idle \/ list.pc \in {"primary", "open", "read", "listed"}
<1>1. list \in Probe => list.pc \in {"primary", "open", "read"}
  BY DEF Probe
<1>2. list \in Answer => list.pc = "listed"
  BY DEF Answer
<1>3. list = Idle => list.pc = "idle"
  BY DEF Idle
<1>4. list = Idle \/ list \in Probe \/ list \in Answer
  BY DEF ListInv
<1>5. QED
  BY <1>1, <1>2, <1>3, <1>4

LEMMA IdleListInv == list' = Idle => ListInv'
<1>1. SUFFICES ASSUME list' = Idle
               PROVE  ListInv'
  OBVIOUS
<1>2. list'.pc = "idle"
  BY <1>1 DEF Idle
<1>3. QED
  BY <1>1, <1>2 DEF ListInv

\* A list that waits is not disturbed by what the others do.
LEMMA OthersListInv ==
    ASSUME IInv, ListInv, [Next]_vars, list' = list
    PROVE  ListInv'
<1>1. /\ Number \subseteq Number' /\ File \subseteq File'
      /\ primary \subseteq primary' /\ \A f : Records(f) \subseteq Records(f)'
  BY NextGrows
<1>2. Probe \subseteq Probe' /\ Answer \subseteq Answer'
  BY <1>1 DEF Probe, Answer
<1>3. QED
  BY <1>1, <1>2 DEF ListInv

LEMMA ReadsListInv ==
    ASSUME IInv, ListInv, [Next]_vars,
           (\E n \in primary \cup Records(current) : ListFailures(n))
              \/ TailPrimary \/ TailPrimaryFails \/ TailOpen
    PROVE  ListInv'
<1>1. /\ Number \subseteq Number' /\ File \subseteq File'
      /\ primary \subseteq primary' /\ \A f : Records(f) \subseteq Records(f)'
  BY NextGrows
<1>2. /\ primary \subseteq Number /\ \A f : Records(f) \subseteq Number
      /\ current \in File \cup {0} /\ Number = 1..Len(captured) /\ Len(captured) \in Nat
  BY LinesType, PathsName DEF IInv, DiskType, Number
<1>3. Probe \subseteq Probe'
  BY <1>1 DEF Probe
<1>4. ASSUME NEW n \in primary \cup Records(current), ListFailures(n)
      PROVE  ListInv'
  <2>1. PICK owing : owing = {r \in {"table", "file"} :
                                n \in IF r = "table" THEN primary ELSE Records(current)}
    OBVIOUS
  <2>2. owing \in Owed /\ ("table" \in owing => n \in primary)
    BY <2>1 DEF Owed
  <2>3. list' = [pc |-> "primary", sought |-> n, rows |-> {}, file |-> 0, shown |-> {},
                 owing |-> owing]
    BY <1>4, <2>1 DEF ListFailures
  <2>4. list' \in Probe
    BY <1>2, <2>2, <2>3 DEF Probe
  <2>5. list'.pc = "primary" /\ list'.sought = n /\ list'.owing = owing
    BY <2>3
  <2>6. QED
    BY <1>1, <1>3, <2>2, <2>4, <2>5 DEF ListInv
<1>5. CASE TailPrimary
  <2>1. list \in Probe /\ list.pc = "primary"
    BY <1>5, ListShape DEF TailPrimary
  <2>2. list' = [list EXCEPT !.pc = "open", !.rows = Newest(primary, ListLimit)]
    BY <1>5 DEF TailPrimary
  <2>3. Newest(primary, ListLimit) \subseteq Number
    BY <1>2 DEF Newest
  <2>4. /\ list' \in Probe /\ list'.pc = "open" /\ list'.sought = list.sought
        /\ list'.owing = list.owing /\ list'.rows = Newest(primary, ListLimit)
    BY <2>1, <2>2, <2>3 DEF Probe
  <2>5. ASSUME "table" \in list.owing
        PROVE  Covers(Newest(primary, ListLimit), list.sought, ListLimit)
    <3>1. list.sought \in primary /\ list.sought \in 1..Len(captured)
      BY <1>2, <2>1, <2>5 DEF ListInv
    <3>2. QED
      BY <1>2, <3>1, NewestCovers DEF Covers
  <2>6. QED
    BY <1>3, <2>4, <2>5 DEF ListInv
<1>6. CASE TailPrimaryFails
  <2>1. list \in Probe /\ list.pc = "primary"
    BY <1>6, ListShape DEF TailPrimaryFails
  <2>2. PICK l : l = [list EXCEPT !.pc = "open", !.owing = list.owing \ {"table"}]
    OBVIOUS
  <2>3. list' = Idle \/ list' = l
    BY <1>6, <2>2 DEF TailPrimaryFails, Follow
  <2>4. l \in Probe /\ l.pc = "open" /\ "table" \notin l.owing
    BY <2>1, <2>2 DEF Probe, Owed
  <2>5. QED
    BY <1>3, <2>3, <2>4, IdleListInv DEF ListInv
<1>7. CASE TailOpen
  <2>1. list \in Probe /\ list.pc = "open"
    BY <1>7, ListShape DEF TailOpen
  <2>2. PICK u : u = IF list.sought \in Records(current) THEN {} ELSE {"file"}
    OBVIOUS
  <2>3. PICK l : l = [list EXCEPT !.pc = "read", !.file = current, !.owing = list.owing \ u]
    OBVIOUS
  <2>4. list' = Idle \/ list' = l
    BY <1>7, <2>2, <2>3 DEF TailOpen, Follow
  <2>5. /\ l \in Probe /\ l.pc = "read" /\ l.rows = list.rows /\ l.sought = list.sought
        /\ l.owing = list.owing \ u /\ l.file = current
    BY <1>2, <2>1, <2>3 DEF Probe, Owed
  <2>6. "file" \in l.owing => l.sought \in Records(l.file)
    BY <2>2, <2>5
  <2>7. "table" \in l.owing => Covers(l.rows, l.sought, ListLimit)
    BY <2>1, <2>5 DEF ListInv
  <2>8. QED
    BY <1>1, <1>3, <2>4, <2>5, <2>6, <2>7, IdleListInv DEF ListInv
<1>8. QED
  BY <1>4, <1>5, <1>6, <1>7

\* What the rows and the last lines answer for, the merged list does.
LEMMA ShowListInv ==
    ASSUME IInv, ListInv, [Next]_vars, list.pc \in {"open", "read"},
           NEW last \in SUBSET Number, NEW unseen, Show(last, unseen),
           "file" \in list.owing \ unseen => Covers(last, list.sought, ListLimit)
    PROVE  ListInv'
<1>1. list \in Probe
  BY ListShape
<1>2. PICK owing : owing = list.owing \ unseen
  OBVIOUS
<1>3. PICK shown : shown = Newest(list.rows \cup last, ListLimit)
  OBVIOUS
<1>4. PICK l : l = [pc |-> "listed", sought |-> list.sought, owing |-> owing, shown |-> shown]
  OBVIOUS
<1>5. list' = Idle \/ list' = l
  BY <1>2, <1>3, <1>4 DEF Show, Follow, Merged
<1>6. /\ Number = 1..Len(captured) /\ Len(captured) \in Nat
      /\ list.sought \in Number /\ list.rows \subseteq Number /\ list.owing \in Owed
  BY <1>1 DEF Probe, IInv, DiskType, Number
<1>7. shown \subseteq Number
  BY <1>3, <1>6 DEF Newest
<1>8. l \in Answer /\ l.pc = "listed" /\ l.owing = owing /\ l.shown = shown
      /\ l.sought = list.sought
  BY <1>2, <1>4, <1>6, <1>7 DEF Answer, Owed
<1>9. ASSUME owing # {}
      PROVE  Covers(shown, list.sought, ListLimit)
  <2>1. "table" \in owing \/ "file" \in owing
    BY <1>2, <1>6, <1>9 DEF Owed
  <2>2. Covers(list.rows, list.sought, ListLimit) \/ Covers(last, list.sought, ListLimit)
    BY <1>2, <2>1 DEF ListInv
  <2>3. PICK T \in SUBSET (1..Len(captured)) : T = list.rows \cup last
    BY <1>6
  <2>4. Covers(T, list.sought, ListLimit)
    <3>1. list.rows \in SUBSET T /\ last \in SUBSET T
      BY <2>3
    <3>2. QED
      BY <1>6, <2>2, <3>1, MoreCovers
  <2>5. QED
    BY <1>3, <1>6, <2>3, <2>4, NewestCovers
<1>10. Answer \subseteq Answer'
  BY NextGrows DEF Answer
<1>11. QED
  BY <1>5, <1>8, <1>9, <1>10, IdleListInv DEF ListInv

LEMMA NextListInv == IInv /\ ListInv /\ [Next]_vars => ListInv'
<1>1. SUFFICES ASSUME IInv, ListInv, [Next]_vars
               PROVE  ListInv'
  OBVIOUS
<1>2. CASE list' = list
  BY <1>1, <1>2, OthersListInv
<1>3. CASE list' = Idle
  BY <1>3, IdleListInv
<1>4. CASE (\E n \in primary \cup Records(current) : ListFailures(n))
              \/ TailPrimary \/ TailPrimaryFails \/ TailOpen
  BY <1>1, <1>4, ReadsListInv
<1>5. ASSUME NEW upto
      PROVE  LastLines(list.file, ListLimit, upto) \subseteq Number
  <2>1. LastLines(list.file, ListLimit, upto) \subseteq Records(list.file)
    BY DEF LastLines, Newest, Records
  <2>2. QED
    BY <1>1, <2>1, LinesType DEF IInv
<1>6. CASE TailOpenFails
  BY <1>1, <1>6, ShowListInv DEF TailOpenFails
<1>7. CASE TailLines
  <2>1. PICK unseen : unseen = IF Ordered(list.file) THEN {} ELSE {"file"}
    OBVIOUS
  <2>2. PICK last : last = LastLines(list.file, ListLimit, Len(lines))
    OBVIOUS
  <2>3. list.pc = "read" /\ Show(last, unseen) /\ last \in SUBSET Number
    BY <1>5, <1>7, <2>1, <2>2 DEF TailLines
  <2>4. "file" \in list.owing \ unseen => Covers(last, list.sought, ListLimit)
    <3>1. SUFFICES ASSUME "file" \in list.owing, Ordered(list.file)
                   PROVE  Covers(last, list.sought, ListLimit)
      BY <2>1
    <3>2. list.sought \in Records(list.file)
      BY <1>1, <2>3, <3>1 DEF ListInv
    <3>3. QED
      BY <1>1, <2>2, <3>1, <3>2, FileCovers DEF IInv
  <2>5. QED
    BY <1>1, <2>3, <2>4, ShowListInv
<1>8. CASE TailLinesFails
  <2>1. PICK upto \in 0..Len(lines) :
           Show(LastLines(list.file, ListLimit, upto), {"file"})
    BY <1>8 DEF TailLinesFails
  <2>2. PICK last : last = LastLines(list.file, ListLimit, upto)
    OBVIOUS
  <2>3. list.pc = "read" /\ Show(last, {"file"}) /\ last \in SUBSET Number
    BY <1>5, <1>8, <2>1, <2>2 DEF TailLinesFails
  <2>4. QED
    BY <1>1, <2>3, ShowListInv
<1>9. list' = list \/ list' = Idle \/ Listing
  BY <1>1 DEF Next, vars, ListEnds, Crash
<1>10. QED
  BY <1>2, <1>3, <1>4, <1>6, <1>7, <1>8, <1>9 DEF Listing

LEMMA InitListInv == Init => ListInv
<1>1. SUFFICES ASSUME Init
               PROVE  ListInv
  OBVIOUS
<1>2. list = Idle /\ list.pc = "idle"
  BY <1>1 DEF Init, Idle
<1>3. QED
  BY <1>2 DEF ListInv

\* A list of failures leaves out one that a recorder had only for enough newer
\* ones, whatever happens between its reads (blackbox/mod.rs:82).
THEOREM ListIsNewest == Spec => []ListShowsNewest
<1>1. ListInv => ListShowsNewest
  BY DEF ListInv, ListShowsNewest, Covers, Above
<1>2. QED
  BY <1>1, InitIInv, NextIInv, InitListInv, NextListInv, PTL DEF Spec

-----------------------------------------------------------------------------
(* The types.  An account is numbered by the accounts there are, and each of *)
(* them took a request: so does the one a task may still insert.           *)

Undecided == {"exists", "insert", "scan primary", "scan disk", "scan lines"}
Asking == {t \in Tasks : req[t].pc \in Undecided}

Account == [id : 1..MaxRequests, username : {f.username : f \in Forms},
            email : {f.email : f \in Forms}]

AccountInv ==
    /\ IsFiniteSet(users) /\ IsFiniteSet(Asking)
    /\ requests \in 0..MaxRequests
    /\ Cardinality(users) + Cardinality(Asking) <= requests
    /\ users \subseteq Account /\ announced \subseteq users
    /\ \A t \in Tasks : req[t].pc \in {"exists", "insert"} => req[t].form \in Forms

LEMMA InitAccountInv == Init => AccountInv
<1>1. SUFFICES ASSUME Init
               PROVE  AccountInv
  OBVIOUS
<1>2. Asking = {} /\ users = {} /\ announced = {} /\ requests = 0
  BY <1>1, TasksAct DEF Init, Asking, Undecided, Idle
<1>3. \A t \in Tasks : req[t].pc = "idle"
  BY <1>1, TasksAct DEF Init, Idle
<1>4. QED
  BY <1>2, <1>3, FS_EmptySet DEF AccountInv

\* A request starts: it is one more, and one task more may insert.
LEMMA StartCounts ==
    ASSUME DiskType, AccountInv, NEW t \in Tasks, NEW r, Start(t, r), UNCHANGED accounts,
           r.pc \in Undecided, r.pc \in {"exists", "insert"} => r.form \in Forms
    PROVE  AccountInv'
<1>1. req' = [req EXCEPT ![t] = r] /\ requests' = requests + 1 /\ requests < MaxRequests
  BY DEF Start
<1>2. t \notin Asking
  BY DEF Start, At, Asking, Undecided
<1>3. req'[t] = r /\ \A u \in Tasks \ {t} : req'[u] = req[u]
  BY <1>1, TasksAct DEF DiskType
<1>4. Asking' = Asking \cup {t}
  <2>1. ASSUME NEW u \in Tasks
        PROVE  u \in Asking' <=> u \in Asking \cup {t}
    BY <1>3, <2>1 DEF Asking
  <2>2. Asking' \subseteq Tasks /\ Asking \subseteq Tasks
    BY DEF Asking
  <2>3. QED
    BY <2>1, <2>2
<1>5. IsFiniteSet(Asking') /\ Cardinality(Asking') = Cardinality(Asking) + 1
  BY <1>2, <1>4, FS_AddElement DEF AccountInv
<1>6. Cardinality(Asking) \in Nat /\ Cardinality(users) \in Nat
  BY FS_CardinalityType DEF AccountInv
<1>7. UNCHANGED <<users, announced>>
  BY DEF accounts
<1>8. requests' \in 0..MaxRequests /\ Cardinality(users') + Cardinality(Asking') <= requests'
  BY <1>1, <1>5, <1>6, <1>7 DEF AccountInv
<1>9. \A u \in Tasks : req'[u].pc \in {"exists", "insert"} => req'[u].form \in Forms
  BY <1>3 DEF AccountInv
<1>10. QED
  BY <1>5, <1>7, <1>8, <1>9 DEF AccountInv

\* The transaction commits: an account more and a task less.
LEMMA InsertCounts ==
    ASSUME DiskType, AccountInv, NEW t \in Tasks, At(t, "insert"),
           users' = users \cup {Row(req[t].form)}, UNCHANGED <<announced, requests>>,
           NEW x, req' = [req EXCEPT ![t] = x], x.pc \notin Undecided
    PROVE  AccountInv'
<1>1. req'[t] = x /\ \A u \in Tasks \ {t} : req'[u] = req[u]
  BY TasksAct DEF DiskType
<1>2. t \in Asking /\ Asking' \subseteq Asking \ {t}
  BY <1>1 DEF At, Asking, Undecided
<1>3. /\ IsFiniteSet(Asking \ {t}) /\ Cardinality(Asking \ {t}) = Cardinality(Asking) - 1
      /\ Cardinality(Asking) \in Nat /\ Cardinality(users) \in Nat
      /\ Cardinality(Asking \ {t}) \in Nat
  <2>1. IsFiniteSet(Asking) /\ IsFiniteSet(users)
    BY DEF AccountInv
  <2>2. IsFiniteSet(Asking \ {t}) /\ Cardinality(Asking \ {t}) = Cardinality(Asking) - 1
    BY <1>2, <2>1, FS_RemoveElement
  <2>3. QED
    BY <2>1, <2>2, FS_CardinalityType
<1>4. IsFiniteSet(Asking') /\ Cardinality(Asking') \in Nat
      /\ Cardinality(Asking') <= Cardinality(Asking) - 1
  BY <1>2, <1>3, FS_Subset, FS_CardinalityType
<1>5. /\ IsFiniteSet(users') /\ Cardinality(users') \in Nat
      /\ Cardinality(users') <= Cardinality(users) + 1
  <2>1. /\ IsFiniteSet(users')
        /\ Cardinality(users') = Cardinality(users) \/ Cardinality(users') = Cardinality(users) + 1
    BY FS_AddElement DEF AccountInv
  <2>2. QED
    BY <1>3, <2>1
<1>6. Cardinality(users) + Cardinality(Asking) <= requests /\ requests \in 0..MaxRequests
  BY DEF AccountInv
<1>7. Cardinality(users') + Cardinality(Asking') <= requests'
  BY <1>3, <1>4, <1>5, <1>6
<1>8. users' \subseteq Account
  <2>1. req[t].form \in Forms
    BY DEF AccountInv, At
  <2>2. Cardinality(users) + 1 \in 1..MaxRequests
    BY <1>3, <1>6
  <2>3. Row(req[t].form) \in Account
    BY <2>1, <2>2 DEF Row, Account
  <2>4. QED
    BY <2>3 DEF AccountInv
<1>9. \A u \in Tasks : req'[u].pc \in {"exists", "insert"} => req'[u].form \in Forms
  BY <1>1 DEF AccountInv, Undecided
<1>10. QED
  BY <1>4, <1>5, <1>6, <1>7, <1>8, <1>9 DEF AccountInv

\* A step that inserts nothing: nobody becomes able to insert who was not, and
\* who is at the insert has a form.
LEMMA OthersCount ==
    ASSUME AccountInv, UNCHANGED <<users, requests>>, announced' \subseteq users,
           \A t \in Tasks : \/ req'[t] = req[t]
                            \/ req'[t].pc \notin Undecided
                            \/ /\ req[t].pc \in Undecided
                               /\ req'[t].pc # "exists"
                               /\ req'[t].pc = "insert" => req'[t].form \in Forms
    PROVE  AccountInv'
<1>1. Asking' \subseteq Asking
  BY DEF Asking
<1>2. /\ IsFiniteSet(Asking') /\ Cardinality(Asking') \in Nat /\ Cardinality(Asking) \in Nat
      /\ Cardinality(Asking') <= Cardinality(Asking) /\ Cardinality(users) \in Nat
  BY <1>1, FS_Subset, FS_CardinalityType DEF AccountInv
<1>3. Cardinality(users') + Cardinality(Asking') <= requests'
  BY <1>2 DEF AccountInv
<1>4. \A t \in Tasks : req'[t].pc \in {"exists", "insert"} => req'[t].form \in Forms
  BY DEF AccountInv, Undecided
<1>5. QED
  BY <1>2, <1>3, <1>4 DEF AccountInv

\* AccountInv is inductive, given what a request holds.
LEMMA NextAccountInv == IInv /\ AccountInv /\ [Next]_vars => AccountInv'
<1>1. SUFFICES ASSUME IInv, AccountInv, [Next]_vars
               PROVE  AccountInv'
  OBVIOUS
<1>2. DiskType /\ DOMAIN req = Actors /\ announced \subseteq users
  BY <1>1 DEF IInv, DiskType, AccountInv
<1>3. ASSUME NEW t \in Tasks, NEW f \in Forms, Create(t, f)
      PROVE  AccountInv'
  BY <1>1, <1>2, <1>3, StartCounts DEF Create, Undecided
<1>4. ASSUME NEW t \in Tasks, NEW n \in DOMAIN captured, Replay(t, n)
      PROVE  AccountInv'
  BY <1>1, <1>2, <1>4, StartCounts DEF Replay, Undecided
<1>5. ASSUME NEW t \in Tasks, Insert(t)
      PROVE  AccountInv'
  <2>1. PICK x : x = [req[t] EXCEPT !.pc = "announce"]
    OBVIOUS
  <2>2. req[t] \in Before /\ x.pc = "announce"
    BY <1>2, <1>5, <2>1, Shape, TasksAct DEF Insert, At, Before
  <2>3. req' = [req EXCEPT ![t] = x] /\ UNCHANGED <<announced, requests>>
        /\ users' = users \cup {Row(req[t].form)}
    BY <1>5, <2>1 DEF Insert, Go, bounds
  <2>4. x.pc \notin Undecided
    BY <2>2 DEF Undecided
  <2>5. QED
    BY <1>1, <1>2, <1>5, <2>3, <2>4, InsertCounts DEF Insert
<1>6. ASSUME NEW t \in Tasks, Fail(t)
      PROVE  \E x : req' = [req EXCEPT ![t] = x] /\ x.pc \notin Undecided
  <2>1. CASE req[t].record # 0
    <3>1. req' = [req EXCEPT ![t] = Idle]
      BY <1>6, <2>1 DEF Fail, Finish
    <3>2. Idle.pc \notin Undecided
      BY DEF Idle, Undecided
    <3>3. QED
      BY <3>1, <3>2
  <2>2. CASE req[t].record = 0
    <3>1. PICK x : /\ x = [pc |-> "record", form |-> req[t].form, record |-> Len(captured) + 1]
                   /\ req' = [req EXCEPT ![t] = x]
      BY <1>6, <2>2 DEF Fail, Capture
    <3>2. x.pc = "record"
      BY <3>1
    <3>3. QED
      BY <3>1, <3>2 DEF Undecided
  <2>3. QED
    BY <2>1, <2>2
<1>7. ASSUME NEW t \in Tasks, InsertUnanswered(t)
      PROVE  AccountInv'
  <2>1. PICK x : req' = [req EXCEPT ![t] = x] /\ x.pc \notin Undecided
    BY <1>6, <1>7 DEF InsertUnanswered
  <2>2. QED
    BY <1>1, <1>2, <1>7, <2>1, InsertCounts DEF InsertUnanswered, bounds
<1>8. ASSUME NEW t \in Tasks,
             \/ Exists(t) \/ ExistsFails(t)
             \/ ScanPrimary(t) \/ ScanOpen(t) \/ ScanLines(t)
      PROVE  AccountInv'
  <2>1. req[t] \in Before \cup Reading /\ req[t].pc \in Undecided
    BY <1>2, <1>8, Shape, TasksAct
       DEF Exists, ExistsFails, ScanPrimary, ScanOpen, ScanLines, At, Undecided
  <2>2. UNCHANGED <<users, requests, announced>>
    BY <1>8 DEF Exists, ExistsFails, ScanPrimary, ScanOpen, ScanLines, accounts, bounds
  <2>3. /\ At(t, "exists") => req[t].form \in Forms
        /\ req[t].form # Job => req[t].form \in Forms
    BY <1>1, <2>1 DEF AccountInv, At, Before, Reading, Payload
  <2>4. PICK x : /\ req' = [req EXCEPT ![t] = x]
                 /\ x.pc \in {"idle", "insert", "scan disk", "scan lines"}
                 /\ x.pc = "insert" => x.form \in Forms
    <3>1. \/ Finish(t) \/ Go(t, "scan disk") \/ Look(t, "scan lines", current)
          \/ (Go(t, "insert") \/ Keep(t, "insert")) /\ req[t].form \in Forms
      BY <1>8, <2>3 DEF Exists, ExistsFails, ScanPrimary, ScanOpen, ScanLines, Found
    <3>2. ASSUME NEW l \in {"scan disk", "insert"}, Go(t, l), l = "insert" => req[t].form \in Forms
          PROVE  \E x : /\ req' = [req EXCEPT ![t] = x]
                        /\ x.pc \in {"idle", "insert", "scan disk", "scan lines"}
                        /\ x.pc = "insert" => x.form \in Forms
      <4>1. PICK x : x = [req[t] EXCEPT !.pc = l]
        OBVIOUS
      <4>2. x.pc = l /\ x.form = req[t].form
        BY <2>1, <4>1 DEF Before, Reading
      <4>3. req' = [req EXCEPT ![t] = x]
        BY <3>2, <4>1 DEF Go
      <4>4. QED
        BY <3>2, <4>2, <4>3
    <3>3. CASE Keep(t, "insert") /\ req[t].form \in Forms
      <4>1. PICK x : x = [pc |-> "insert", form |-> req[t].form, record |-> req[t].record]
        OBVIOUS
      <4>2. x.pc = "insert" /\ x.form = req[t].form
        BY <4>1
      <4>3. req' = [req EXCEPT ![t] = x]
        BY <3>3, <4>1 DEF Keep
      <4>4. QED
        BY <3>3, <4>2, <4>3
    <3>4. CASE Look(t, "scan lines", current)
      <4>1. PICK x : x = [pc |-> "scan lines", form |-> req[t].form,
                          record |-> req[t].record, seen |-> current]
        OBVIOUS
      <4>2. x.pc = "scan lines"
        BY <4>1
      <4>3. req' = [req EXCEPT ![t] = x]
        BY <3>4, <4>1 DEF Look
      <4>4. QED
        BY <4>2, <4>3
    <3>5. CASE Finish(t)
      <4>1. Idle.pc = "idle"
        BY DEF Idle
      <4>2. QED
        BY <3>5, <4>1 DEF Finish
    <3>6. QED
      BY <3>1, <3>2, <3>3, <3>4, <3>5
  <2>5. req'[t] = x /\ \A u \in Tasks : u # t => req'[u] = req[u]
    <3>1. t \in DOMAIN req /\ Tasks \subseteq DOMAIN req
      BY <1>2, TasksAct
    <3>2. QED
      BY <2>4, <3>1
  <2>6. x.pc \notin Undecided \/ (x.pc # "exists" /\ (x.pc = "insert" => x.form \in Forms))
    BY <2>4
  <2>7. QED
    BY <1>1, <1>2, <2>1, <2>2, <2>5, <2>6, OthersCount
<1>9. ASSUME NEW t \in Actors,
             \/ Abandon(t) \/ RecordPrimary(t) \/ PrimaryFails(t) \/ CheckSize(t)
             \/ MetadataFails(t) \/ Rename(t) \/ OpenFile(t) \/ OpenFails(t) \/ WriteLine(t)
      PROVE  AccountInv'
  <2>1. UNCHANGED <<users, requests, announced>>
    BY <1>9 DEF Abandon, RecordPrimary, PrimaryFails, CheckSize, MetadataFails, Rename, OpenFile,
                OpenFails, WriteLine, accounts, bounds
  <2>2. \A u \in Tasks : u # t => req'[u] = req[u]
    BY <1>2, <1>9, TasksAct
       DEF Abandon, RecordPrimary, PrimaryFails, CheckSize, MetadataFails, Rename, OpenFile,
           OpenFails, WriteLine, Finish, Go, Keep, Look
  <2>3. req'[t].pc \notin Undecided
    <3>1. CASE Abandon(t) \/ RecordPrimary(t) \/ OpenFails(t) \/ WriteLine(t)
      <4>1. req'[t] = Idle
        BY <1>2, <3>1 DEF Abandon, RecordPrimary, OpenFails, WriteLine, Finish
      <4>2. QED
        BY <4>1 DEF Idle, Undecided
    <3>2. CASE PrimaryFails(t)
      <4>1. req[t] \in Waiting
        BY <1>2, <3>2, Shape DEF PrimaryFails, At
      <4>2. req'[t].pc = "size"
        BY <1>2, <3>2, <4>1 DEF PrimaryFails, Go, Waiting
      <4>3. QED
        BY <4>2 DEF Undecided
    <3>3. CASE CheckSize(t) \/ MetadataFails(t) \/ Rename(t) \/ OpenFile(t)
      <4>1. req'[t].pc \in {"rename", "open", "write"}
        BY <1>2, <3>3 DEF CheckSize, MetadataFails, Rename, OpenFile, Keep, Look
      <4>2. QED
        BY <4>1 DEF Undecided
    <3>4. QED
      BY <1>9, <3>1, <3>2, <3>3
  <2>4. QED
    BY <1>1, <1>2, <2>1, <2>2, <2>3, OthersCount
<1>10. ASSUME NEW t \in Tasks, Announce(t)
       PROVE  AccountInv'
  <2>1. UNCHANGED <<users, requests>> /\ announced' \subseteq users
    BY <1>2, <1>10 DEF Announce, bounds
  <2>2. \A u \in Tasks : req'[u] = req[u] \/ req'[u].pc \notin Undecided
    BY <1>2, <1>10, TasksAct DEF Announce, Finish, Idle, Undecided
  <2>3. QED
    BY <1>1, <2>1, <2>2, OthersCount
<1>11. ASSUME NEW t \in Tasks, InsertFails(t)
       PROVE  AccountInv'
  <2>1. PICK x : req' = [req EXCEPT ![t] = x] /\ x.pc \notin Undecided
    BY <1>6, <1>11 DEF InsertFails
  <2>2. \A u \in Tasks : req'[u] = req[u] \/ req'[u].pc \notin Undecided
    BY <1>2, <2>1, TasksAct
  <2>3. UNCHANGED <<users, requests, announced>>
    BY <1>11 DEF InsertFails, accounts, bounds
  <2>4. QED
    BY <1>1, <1>2, <2>2, <2>3, OthersCount
<1>12. CASE JobFails
  <2>1. UNCHANGED <<users, requests, announced>>
    BY <1>12 DEF JobFails, accounts
  <2>2. \A u \in Tasks : req'[u] = req[u]
    BY <1>2, <1>12, TasksAct DEF JobFails, Capture
  <2>3. QED
    BY <1>1, <1>2, <2>1, <2>2, OthersCount
<1>13. CASE (\E w \in pending : FlushLine(w) \/ LoseLine(w))
            \/ UNCHANGED <<blackboxVars, handlerVars, histVars>>
  <2>1. UNCHANGED <<users, requests, announced, req>>
    BY <1>13 DEF FlushLine, LoseLine, accounts, bounds, handlerVars
  <2>2. QED
    BY <1>1, <1>2, <2>1, OthersCount
<1>14. CASE Crash
  <2>1. UNCHANGED <<users, requests, announced>> /\ \A u \in Tasks : req'[u].pc \notin Undecided
    BY <1>14, TasksAct DEF Crash, accounts, bounds, Idle, Undecided
  <2>2. QED
    BY <1>1, <1>2, <2>1, OthersCount
<1>15. CASE Handling
  BY <1>3, <1>4, <1>5, <1>7, <1>8, <1>9, <1>10, <1>11, <1>12, <1>13, <1>15, TasksAct
     DEF Handling
<1>16. QED
  BY <1>1, <1>13, <1>14, <1>15 DEF Next, vars

LEMMA NextJobs == jobs \in 0..MaxJobs /\ [Next]_vars => (jobs \in 0..MaxJobs)'
<1>1. SUFFICES ASSUME jobs \in 0..MaxJobs, [Next]_vars
               PROVE  jobs' \in 0..MaxJobs
  OBVIOUS
<1>2. Handling => jobs' = jobs \/ (jobs < MaxJobs /\ jobs' = jobs + 1)
  BY DEF Handling, bounds, Create, Start, Exists, ExistsFails, Insert, Announce,
     InsertFails, InsertUnanswered, Replay, ScanPrimary, ScanOpen, ScanLines, Abandon, JobFails,
     RecordPrimary, PrimaryFails, CheckSize, MetadataFails, Rename, OpenFile, OpenFails,
     WriteLine, FlushLine, LoseLine
<1>3. jobs' = jobs \/ (jobs < MaxJobs /\ jobs' = jobs + 1)
  BY <1>1, <1>2 DEF Next, vars, handlerVars, bounds, Crash
<1>4. QED
  BY <1>1, <1>3

\* Every table, path and counter keeps its type, and an account never has a
\* number beyond the requests, for any number of handlers.
THEOREM TypeCorrect == Spec => []TypeOK
<1>1. Init => jobs \in 0..MaxJobs
  BY DEF Init
<1>2. IInv /\ AccountInv /\ ListInv /\ jobs \in 0..MaxJobs => TypeOK
  <2>1. SUFFICES ASSUME IInv, AccountInv, ListInv, jobs \in 0..MaxJobs
                 PROVE  TypeOK
    OBVIOUS
  <2>2. /\ captured \in Seq(Payload) /\ DOMAIN captured = Number
        /\ Number \subseteq 0..Len(captured) /\ 0 \in 0..Len(captured)
    BY <2>1 DEF IInv, DiskType, Number
  <2>3. primary \cup Written \cup OnTheWay \subseteq Number
    <3>1. primary \subseteq Number /\ \A w \in pending : w.record \in Number
      BY <2>1 DEF IInv, DiskType, Line
    <3>2. \A i \in DOMAIN lines : lines[i].record \in Number
      BY <2>1, LinesType DEF IInv
    <3>3. \A t \in Actors : Held(t) \subseteq Number
      BY <2>1, HeldAreCaptured DEF IInv
    <3>4. QED
      BY <3>1, <3>2, <3>3 DEF Written, OnTheWay
  <2>4. /\ current \in 0..files /\ rotated \in 0..files
        /\ current = rotated => current = 0
    <3>1. files \in Nat /\ Paths
      BY <2>1 DEF IInv, DiskType
    <3>2. QED
      BY <3>1 DEF Paths
  <2>5. ASSUME NEW t \in Actors
        PROVE  At(t, "idle") \/ (req[t].pc \in Busy /\ req[t].record \in 0..Len(captured))
    <3>1. req[t] \in {Idle} \cup Request
      BY <2>1 DEF IInv, DiskType
    <3>2. CASE req[t] = Idle
      BY <3>2 DEF At, Idle
    <3>3. CASE req[t] \in Request
      <4>1. req[t].pc \in Busy /\ req[t].record \in Number \cup {0}
        <5>1. req[t] \in Before => req[t].pc \in Busy /\ req[t].record \in Number \cup {0}
          BY DEF Before, Busy
        <5>2. req[t] \in Reading => req[t].pc \in Busy /\ req[t].record \in Number \cup {0}
          BY DEF Reading, Busy
        <5>3. req[t] \in Waiting => req[t].pc \in Busy /\ req[t].record \in Number \cup {0}
          BY DEF Waiting, Busy
        <5>4. req[t] \in Seeing => req[t].pc \in Busy /\ req[t].record \in Number \cup {0}
          BY DEF Seeing, Busy
        <5>5. QED
          BY <3>3, <5>1, <5>2, <5>3, <5>4 DEF Request
      <4>2. QED
        BY <2>2, <4>1
    <3>4. QED
      BY <3>1, <3>2, <3>3
  <2>6. list.pc = "listed" => list.shown \subseteq Number
    BY <2>1, ListShape DEF Answer
  <2>7. gone \cup overtaken \subseteq Number
    BY <2>1 DEF IInv, DiskType
  <2>8. QED
    BY <2>1, <2>2, <2>3, <2>4, <2>5, <2>6, <2>7 DEF TypeOK, AccountInv, Account, Payload
<1>3. QED
  BY <1>1, <1>2, InitIInv, NextIInv, InitAccountInv, NextAccountInv, InitListInv, NextListInv,
     NextJobs, PTL DEF Spec
=============================================================================
