-------------------------------- MODULE Wiki --------------------------------
(***************************************************************************)
(* The example application examples/wiki: pages and their revisions in a   *)
(* database, read through the HybridStore of each node, and the seeding    *)
(* every node does when it starts.  A request is a task whose steps are    *)
(* the stretches between two awaits; a transaction is one step.  A page's  *)
(* title, content and author change together and are one edit number.      *)
(***************************************************************************)
EXTENDS HybridStore

CONSTANTS
    Tasks,        \* handlers that run at a time
    Welcome,      \* the slug that is seeded
    MaxRequests,  \* bound: requests
    MaxFailures   \* bound: failed commands, lost replies, dropped requests, crashes

ASSUME WikiAssumption ==
    /\ Welcome \in Keys /\ Absent \notin Nat \cup [id : Nat, content : Nat]
    /\ MaxRequests \in Nat /\ MaxFailures \in Nat /\ IsFiniteSet(Tasks)

VARIABLES
    seeded,       \* the row of the demo user is there
    pages,        \* the table pages: its rows by slug
    revisions,    \* the table page_revisions
    boot,         \* where ensure_schema_and_seed stands in every node
    req,          \* the request of every task
    answered,     \* history: the revisions behind an answer 200 or 201
    torn,         \* history: pages seeded by a process that went on no further
    excused,      \* history: slugs of which a copy may be stale for good
    crowded,      \* history: nodes where two tasks were inserting at a time
    edits, requests, failures

dbVars == <<seeded, pages, revisions>>
histVars == <<answered, torn, edits>>
watchVars == <<excused, crowded>>
vars == <<storeVars, dbVars, boot, req, histVars, watchVars, requests, failures>>

Idle == [pc |-> "idle"]

Init ==
    /\ StoreInit
    /\ seeded = FALSE
    /\ pages = [k \in Keys |-> Absent]
    /\ revisions = {}
    /\ boot = [n \in Nodes |-> [pc |-> "down"]]
    /\ req = [t \in Tasks |-> Idle]
    /\ answered = {} /\ torn = {} /\ excused = {} /\ crowded = {}
    /\ edits = 0 /\ requests = 0 /\ failures = 0

\* What a reader of the database sees of k.
Current(k) == IF pages[k] = Absent THEN Absent ELSE pages[k].content

Revisions(id) == {r \in revisions : r.id = id}
Numbers(id) == {r.n : r \in Revisions(id)}

\* Slip: no + 1.
NextRevisionFromZero(id) ==
    IF Numbers(id) = {} THEN 0 ELSE CHOOSE n \in Numbers(id) : \A m \in Numbers(id) : m <= n

\* next_revision.
NextRevision(id) ==
    IF Numbers(id) = {} THEN 1 ELSE 1 + CHOOSE n \in Numbers(id) : \A m \in Numbers(id) : m <= n

At(t, l) == req[t].pc = l
Booting(n, l) == boot[n].pc = l
Finish(t) == req' = [req EXCEPT ![t] = Idle]
Go(t, r) == req' = [req EXCEPT ![t] = r]
Goto(t, l) == req' = [req EXCEPT ![t].pc = l]

\* The task is about to write a value it read from the database or from Redis.
Carries(t) == req[t].pc \in {"room", "insert", "set"}

\* Notes the slugs in ks, those of which a value in hand is out of date, and
\* the nodes where two tasks insert.
Watch(ks) ==
    /\ excused' = excused \cup ks
         \cup {k \in Keys : \E t \in Tasks : Carries(t)' /\ req'[t].key = k /\ req'[t].val # Current(k)'}
    /\ crowded' = crowded
         \cup {n \in Nodes : \E t, u \in Tasks : t # u /\ Carries(t)' /\ Carries(u)'
                                                  /\ req'[t].node = n /\ req'[u].node = n}

NoFault == UNCHANGED failures
Fault == failures < MaxFailures /\ failures' = failures + 1
NewEdit == edits' = edits + 1

-----------------------------------------------------------------------------
(* get_page. *)

\* HybridStore::get up to its first await: the local layer answers, or not.
Get(t, n, k) ==
    /\ IF local[n][k] # Absent THEN UNCHANGED req
       ELSE Go(t, [pc |-> "fetch", node |-> n, key |-> k])
    /\ UNCHANGED <<storeVars, dbVars, histVars>>

\* backend.get; an error is a miss.
Fetch(t) ==
    /\ At(t, "fetch")
    /\ \/ /\ remote[req[t].key] # Absent
          /\ Go(t, [pc |-> "room", node |-> req[t].node, key |-> req[t].key,
                    val |-> remote[req[t].key], fill |-> TRUE])
          /\ NoFault
       \/ /\ Goto(t, "query")
          /\ IF remote[req[t].key] = Absent THEN NoFault ELSE Fault
    /\ UNCHANGED <<storeVars, dbVars, histVars>>
    /\ Watch({})

\* PageService::get_by_slug, and the call to store.set.
Query(t) ==
    /\ At(t, "query")
    /\ IF pages[req[t].key] = Absent THEN Finish(t)
       ELSE Go(t, [pc |-> "room", node |-> req[t].node, key |-> req[t].key,
                   val |-> Current(req[t].key), fill |-> FALSE])
    /\ UNCHANGED <<storeVars, dbVars, histVars, failures>>
    /\ Watch({})

-----------------------------------------------------------------------------
(* The rest of HybridStore::get and all of HybridStore::set and del. *)

\* Slip: evicts once, and inserts whether or not that made room.
MakeRoomOnce(t) ==
    /\ At(t, "room")
    /\ Goto(t, "insert")
    /\ UNCHANGED <<storeVars, dbVars, histVars, watchVars, failures>>

\* enforce_capacity: an iteration of the loop, or its end.
MakeRoom(t) ==
    /\ At(t, "room")
    /\ \/ Evict(req[t].node) /\ UNCHANGED req
       \/ ~Full(req[t].node) /\ Goto(t, "insert") /\ UNCHANGED storeVars
    /\ UNCHANGED <<dbVars, histVars, watchVars, failures>>

Insert(t) ==
    /\ At(t, "insert")
    /\ InsertLocal(req[t].node, req[t].key, req[t].val)
    /\ IF req[t].fill THEN Finish(t) ELSE Goto(t, "set")
    /\ UNCHANGED <<dbVars, histVars, watchVars, failures>>

Remove(t) ==
    /\ At(t, "remove")
    /\ InsertLocal(req[t].node, req[t].key, Absent)
    /\ Goto(t, "del")
    /\ UNCHANGED <<dbVars, histVars, watchVars, failures>>

\* The command to Redis of set and of del.
SetOrDel(t) ==
    /\ req[t].pc \in {"set", "del"}
    /\ WriteRemote(req[t].key, IF At(t, "set") THEN req[t].val ELSE Absent)
    /\ Goto(t, "publish")
    /\ UNCHANGED <<dbVars, histVars, watchVars, failures>>

\* A node that is not subscribed does not hear of it.
Announce(t) ==
    /\ At(t, "publish")
    /\ Publish(req[t].node, req[t].key)
    /\ Finish(t)
    /\ UNCHANGED <<dbVars, histVars, failures>>
    /\ Watch(IF listening = {n \in Nodes : Booting(n, "up")} THEN {} ELSE {req[t].key})

-----------------------------------------------------------------------------
(* create_page. *)

\* PageService::exists.
Create(t, n, k) ==
    /\ IF pages[k] # Absent THEN UNCHANGED req
       ELSE Go(t, [pc |-> "create", node |-> n, key |-> k])
    /\ UNCHANGED <<storeVars, dbVars, histVars>>

\* The transaction of PageService::create; the slug is UNIQUE.
InsertPage(t) ==
    /\ At(t, "create")
    /\ IF pages[req[t].key] # Absent
       THEN Finish(t) /\ UNCHANGED <<dbVars, histVars>>
       ELSE LET rev == [id |-> edits', n |-> 1, content |-> edits']
            IN  /\ NewEdit
                /\ pages' = [pages EXCEPT ![req[t].key] = [id |-> edits', content |-> edits']]
                /\ revisions' = revisions \cup {rev}
                /\ answered' = answered \cup {rev}
                /\ Go(t, [pc |-> "room", node |-> req[t].node, key |-> req[t].key,
                          val |-> edits', fill |-> FALSE])
                /\ UNCHANGED <<seeded, torn>>
    /\ UNCHANGED <<storeVars, failures>>
    /\ Watch({})

-----------------------------------------------------------------------------
(* update_page and restore_revision. *)

\* PageService::update up to its first await.
Update(t, n, k) ==
    /\ NewEdit
    /\ Go(t, [pc |-> "read", node |-> n, key |-> k, edit |-> edits'])
    /\ UNCHANGED <<storeVars, dbVars, answered, torn>>

\* get_by_slug, of the page whose revision is to come back.
Restore(t, n, k) ==
    /\ pages[k] # Absent
    /\ Go(t, [pc |-> "snapshot", node |-> n, key |-> k, id |-> pages[k].id])
    /\ UNCHANGED <<storeVars, dbVars, histVars>>

\* get_revision: its content becomes the edit, whatever page has the slug by
\* then; or there is none of that number.
ReadSnapshot(t) ==
    /\ At(t, "snapshot")
    /\ \/ \E r \in Revisions(req[t].id) :
             Go(t, [pc |-> "read", node |-> req[t].node, key |-> req[t].key, edit |-> r.content])
       \/ Finish(t)
    /\ UNCHANGED <<storeVars, dbVars, histVars, watchVars, failures>>

\* get_by_slug.
ReadPage(t) ==
    /\ At(t, "read")
    /\ IF pages[req[t].key] = Absent THEN Finish(t)
       ELSE Go(t, [pc |-> "next", node |-> req[t].node, key |-> req[t].key,
                   edit |-> req[t].edit, id |-> pages[req[t].key].id])
    /\ UNCHANGED <<storeVars, dbVars, histVars, watchVars, failures>>

\* next_revision.
ReadNext(t) ==
    /\ At(t, "next")
    /\ Go(t, [pc |-> "commit", node |-> req[t].node, key |-> req[t].key,
              edit |-> req[t].edit, id |-> req[t].id, n |-> NextRevision(req[t].id)])
    /\ UNCHANGED <<storeVars, dbVars, histVars, watchVars, failures>>

\* Slip: no UNIQUE (page_id, revision).
UpdatesUnchecked(t) ==
    /\ pages[req[t].key] # Absent /\ pages[req[t].key].id = req[t].id

\* The transaction of update takes: the row is still there and (page_id,
\* revision) is not taken.
Updates(t) ==
    /\ pages[req[t].key] # Absent /\ pages[req[t].key].id = req[t].id
    /\ req[t].n \notin Numbers(req[t].id)

\* Slip: the page is updated outside the transaction.
CommitPageFirst(t) ==
    /\ At(t, "commit")
    /\ pages' = IF pages[req[t].key] = Absent THEN pages
                ELSE [pages EXCEPT ![req[t].key].content = req[t].edit]
    /\ IF Updates(t)
       THEN /\ revisions' = revisions \cup {[id |-> req[t].id, n |-> req[t].n, content |-> req[t].edit]}
            /\ Go(t, [pc |-> "remove", node |-> req[t].node, key |-> req[t].key])
       ELSE Finish(t) /\ UNCHANGED revisions
    /\ UNCHANGED <<storeVars, seeded, histVars, failures>>
    /\ Watch({})

CommitUpdate(t) ==
    /\ At(t, "commit")
    /\ IF Updates(t)
       THEN LET rev == [id |-> req[t].id, n |-> req[t].n, content |-> req[t].edit]
            IN  /\ pages' = [pages EXCEPT ![req[t].key].content = req[t].edit]
                /\ revisions' = revisions \cup {rev}
                /\ answered' = answered \cup {rev}
                /\ Go(t, [pc |-> "remove", node |-> req[t].node, key |-> req[t].key])
                /\ UNCHANGED <<seeded, torn, edits>>
       ELSE Finish(t) /\ UNCHANGED <<dbVars, histVars>>
    /\ UNCHANGED <<storeVars, failures>>
    /\ Watch({})

-----------------------------------------------------------------------------
(* delete_page.  The revisions of a page stay. *)

Delete(t, n, k) ==
    /\ pages[k] # Absent
    /\ pages' = [pages EXCEPT ![k] = Absent]
    /\ Go(t, [pc |-> "remove", node |-> n, key |-> k])
    /\ UNCHANGED <<storeVars, seeded, revisions, histVars>>

-----------------------------------------------------------------------------
Start(t) ==
    /\ At(t, "idle")
    /\ requests < MaxRequests /\ requests' = requests + 1
    /\ \E n \in Nodes, k \in Keys :
          /\ boot[n].pc = "up"
          /\ \/ Get(t, n, k) \/ Create(t, n, k) \/ Update(t, n, k)
             \/ Restore(t, n, k) \/ Delete(t, n, k)
    /\ UNCHANGED <<boot, failures>>
    /\ Watch({})

\* The request ends early: a query or a command fails, or the client has gone
\* and the handler is dropped at an await.  An invalidation that was due is not
\* sent.
Abandon(t) ==
    /\ ~At(t, "idle")
    /\ Fault
    /\ Finish(t)
    /\ UNCHANGED <<storeVars, dbVars, boot, histVars, requests>>
    /\ Watch(IF req[t].pc \in {"remove", "del", "publish"} THEN {req[t].key} ELSE {})

Step(t) ==
    /\ \/ Fetch(t) \/ Query(t)
       \/ MakeRoom(t) \/ Insert(t) \/ Remove(t) \/ SetOrDel(t) \/ Announce(t)
       \/ InsertPage(t) \/ ReadSnapshot(t) \/ ReadPage(t) \/ ReadNext(t) \/ CommitUpdate(t)
    /\ UNCHANGED <<boot, requests>>

-----------------------------------------------------------------------------
(* ensure_schema_and_seed, and the process around it. *)

BootTo(n, r) == boot' = [boot EXCEPT ![n] = r]

\* exit(1), or the process is killed.
Down == [pc |-> "down"]

\* Slip: inserts without looking.
CheckUserNever(n) ==
    /\ Booting(n, "down")
    /\ BootTo(n, [pc |-> "user"])
    /\ UNCHANGED <<dbVars, histVars>>

CheckUser(n) ==
    /\ Booting(n, "down")
    /\ BootTo(n, [pc |-> IF seeded THEN "welcome" ELSE "user"])
    /\ UNCHANGED <<dbVars, histVars>>

\* users.username is UNIQUE: whoever comes second exits.
InsertUser(n) ==
    /\ Booting(n, "user")
    /\ seeded' = TRUE
    /\ BootTo(n, IF seeded THEN Down ELSE [pc |-> "welcome"])
    /\ UNCHANGED <<pages, revisions, histVars>>

CheckWelcome(n) ==
    /\ Booting(n, "welcome")
    /\ BootTo(n, [pc |-> IF pages[Welcome] = Absent THEN "page" ELSE "up"])
    /\ UNCHANGED <<dbVars, histVars>>

\* The page alone; its revision is a statement of its own.
InsertWelcome(n) ==
    /\ Booting(n, "page")
    /\ IF pages[Welcome] # Absent
       THEN BootTo(n, Down) /\ UNCHANGED <<dbVars, histVars>>
       ELSE /\ NewEdit
            /\ pages' = [pages EXCEPT ![Welcome] = [id |-> edits', content |-> edits']]
            /\ BootTo(n, [pc |-> "revision", id |-> edits'])
            /\ UNCHANGED <<seeded, revisions, answered, torn>>

InsertWelcomeRevision(n) ==
    /\ Booting(n, "revision")
    /\ LET id == boot[n].id
       IN  IF 1 \in Numbers(id)
           THEN BootTo(n, Down) /\ torn' = torn \cup {id} /\ UNCHANGED revisions
           ELSE /\ revisions' = revisions \cup {[id |-> id, n |-> 1, content |-> id]}
                /\ BootTo(n, [pc |-> "up"])
                /\ UNCHANGED torn
    /\ UNCHANGED <<seeded, pages, answered, edits>>

Seed(n) ==
    /\ \/ CheckUser(n) \/ InsertUser(n) \/ CheckWelcome(n)
       \/ InsertWelcome(n) \/ InsertWelcomeRevision(n)
    /\ UNCHANGED <<storeVars, req, requests, failures>>
    /\ Watch({})

\* The process dies with its map, its subscription and its requests.
Crash(n) ==
    /\ ~Booting(n, "down")
    /\ Fault
    /\ BootTo(n, Down)
    /\ torn' = IF Booting(n, "revision") THEN torn \cup {boot[n].id} ELSE torn
    /\ LET mine == {t \in Tasks : ~At(t, "idle") /\ req[t].node = n}
       IN  /\ req' = [t \in Tasks |-> IF t \in mine THEN Idle ELSE req[t]]
           /\ UNCHANGED <<remote, dbVars, answered, edits, requests>>
           /\ Watch({req[t].key : t \in {u \in mine : req[u].pc \in {"remove", "del", "publish"}}})
    /\ local' = [local EXCEPT ![n] = [k \in Keys |-> Absent]]
    /\ inbox' = [inbox EXCEPT ![n] = <<>>]
    /\ listening' = listening \ {n}

Listen(n) ==
    /\ Booting(n, "up")
    /\ Receive(n) \/ Resubscribe(n)
    /\ UNCHANGED <<dbVars, boot, req, histVars, watchVars, requests, failures>>

LoseConnection(n) ==
    /\ Fault
    /\ Unsubscribe(n)
    /\ UNCHANGED <<dbVars, boot, req, histVars, requests>>
    /\ Watch({inbox[n][i].key : i \in DOMAIN inbox[n]})

Next ==
    \/ \E t \in Tasks : Start(t) \/ Step(t) \/ Abandon(t)
    \/ \E n \in Nodes : Seed(n) \/ Listen(n) \/ Crash(n) \/ LoseConnection(n)

\* tokio polls every task and a supervisor starts a process that has exited.
Fairness ==
    /\ \A t \in Tasks : WF_vars(Step(t))
    /\ \A n \in Nodes : WF_vars(Seed(n)) /\ WF_vars(Listen(n))

Spec == Init /\ [][Next]_vars /\ Fairness

-----------------------------------------------------------------------------
Contents == 0..edits

\* Every variable keeps its type: the three tables, the layers of the store and
\* the local variables of the handlers.
TypeOK ==
    /\ local \in [Nodes -> [Keys -> Contents \cup {Absent}]]
    /\ remote \in [Keys -> Contents \cup {Absent}]
    /\ \A n \in Nodes : \A i \in DOMAIN inbox[n] : inbox[n][i] \in [origin : Nodes, key : Keys]
    /\ listening \subseteq Nodes
    /\ pages \in [Keys -> [id : Contents, content : Contents] \cup {Absent}]
    /\ revisions \subseteq [id : Contents, n : 1..(edits + requests), content : Contents]
    /\ \A t \in Tasks : ~At(t, "idle") => req[t].node \in Nodes /\ req[t].key \in Keys
    /\ excused \subseteq Keys /\ torn \subseteq Contents

\* The revisions of a page are numbered without a gap and the last of them is
\* what the page says, however edits, restores and deletions overlap (service.rs
\* writes both in one transaction).  Only a page whose seeding has not got as
\* far, or never will, has none.
HistoryMatchesPage ==
    \A k \in Keys : pages[k] # Absent =>
        LET id == pages[k].id
            nums == Numbers(id)
        IN  /\ nums = 1..Cardinality(nums)
            /\ Cardinality(Revisions(id)) = Cardinality(nums)
            /\ \/ \E r \in Revisions(id) : r.n = Cardinality(nums) /\ r.content = pages[k].content
               \/ nums = {} /\ (id \in torn \/ \E n \in Nodes : Booting(n, "revision") /\ boot[n].id = id)

\* The revisions of a page in their order, which is the log that they are.
Log(id) ==
    [i \in 1..Cardinality(Numbers(id)) |-> (CHOOSE r \in Revisions(id) : r.n = i).content]
Entries(k) == IF pages[k] = Absent THEN <<>> ELSE Log(pages[k].id)

Shown == [k \in Keys |-> Current(k)]
Logs == [k \in Keys |-> Entries(k)]

Service == INSTANCE PageHistory
             WITH Slugs <- Keys, Nothing <- Absent, shown <- Shown, log <- Logs, submitted <- edits

\* The handlers and the seeding implement PageHistory, however they overlap: an
\* update that read the page and its last number two awaits ago appends to the
\* log the page has now, or does nothing (service.rs:77).
PagesAreLogs == Service!Spec

\* An edit that was answered stays in the history: no later or concurrent edit
\* takes its number or its place (api.rs: "El historial nunca se reescribe").
NoEditLost ==
    /\ answered \subseteq revisions
    /\ \A a, b \in answered : a.id = b.id /\ a.n = b.n => a = b

\* The local layer exceeds its capacity only where tasks insert in parallel, and
\* then by no more than one entry each (enforce_capacity and insert are two
\* steps).
CapacityBounded ==
    \A n \in Nodes :
        Cardinality(Cached(n)) <= Capacity + (IF n \in crowded THEN Cardinality(Tasks) - 1 ELSE 0)

Quiet == (\A t \in Tasks : At(t, "idle")) /\ \A n \in Nodes : inbox[n] = <<>>

\* Once requests and messages have come to rest, neither layer of any node
\* differs from the database, unless some task carried a value that an edit had
\* overtaken, or an invalidation was lost.
StaleNeedsARace ==
    Quiet => \A k \in Keys \ excused :
                /\ remote[k] \in {Absent, Current(k)}
                /\ \A n \in Nodes : local[n][k] \in {Absent, Current(k)}

\* Every node gets through its seeding, though nodes that start together make
\* each other exit.
EveryNodeServes == \A n \in Nodes : <>[]Booting(n, "up")
=============================================================================
