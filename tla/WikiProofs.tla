----------------------------- MODULE WikiProofs -----------------------------
(***************************************************************************)
(* Proofs about Wiki, for any nodes, slugs and bounds: what an edit was    *)
(* answered with stays, and the history of a page has no gap and ends in   *)
(* what the page says.  The invariant behind them is about the revisions   *)
(* alone and about what an update carries from its reads to its commit.    *)
(* The types follow from what is put into the layers and the tables, and   *)
(* from a count of the updates that may still take a number.               *)
(* The same invariant makes every step a step of PageHistory, or none.     *)
(***************************************************************************)
EXTENDS Wiki, TLAPS, FiniteSetTheorems, FunctionTheorems, SequenceTheorems

USE HybridStoreAssumption, WikiAssumption

-----------------------------------------------------------------------------
(* The tables.                                                             *)

\* A page has an identity of its own, an edit that was made.
PagesOK ==
    /\ pages = [k \in Keys |-> pages[k]]
    /\ \A k \in Keys : pages[k] # Absent =>
          /\ pages[k] = [id |-> pages[k].id, content |-> pages[k].content]
          /\ pages[k].id \in 1..edits
    /\ \A k, l \in Keys :
          pages[k] # Absent /\ pages[l] # Absent /\ pages[k].id = pages[l].id => k = l

\* The revisions of a page are numbered 1 to some number, each number once.
Gapless == \A id : \E m \in Nat : Numbers(id) = 1..m

RevisionsOK ==
    /\ \A r \in revisions : r = [id |-> r.id, n |-> r.n, content |-> r.content] /\ r.id \in 1..edits
    /\ \A r, s \in revisions : r.id = s.id /\ r.n = s.n => r = s
    /\ Gapless
    /\ answered \subseteq revisions

\* The last revision of a page is what it says, or its seeding is not done.
Latest(id, c) == \E r \in Revisions(id) : r.content = c /\ \A s \in Revisions(id) : s.n <= r.n

Owed(id) == id \in torn \/ \E n \in Nodes : boot[n].pc = "revision" /\ boot[n].id = id
Unwritten(id, c) == Numbers(id) = {} /\ c = id /\ Owed(id)

LastOK ==
    \A k \in Keys : pages[k] # Absent =>
        \/ Latest(pages[k].id, pages[k].content)
        \/ Unwritten(pages[k].id, pages[k].content)

\* What the local variables of a handler say of the tables: the number an
\* update commits under is the first, or its predecessor is taken.
Follows(id, n) == n \in Nat \ {0} /\ (n = 1 \/ n - 1 \in Numbers(id))

Fine(r) ==
    /\ "pc" \in DOMAIN r
    /\ r.pc \in {"create", "snapshot", "read", "next", "commit"} => r.key \in Keys
    /\ r.pc = "commit" => Follows(r.id, r.n)

RequestsOK == req = [t \in Tasks |-> req[t]] /\ \A t \in Tasks : Fine(req[t])

BootOK ==
    /\ boot = [n \in Nodes |-> boot[n]]
    /\ \A n \in Nodes : boot[n].pc = "revision" => boot[n].id \in 1..edits

TablesInv == edits \in Nat /\ PagesOK /\ RevisionsOK /\ LastOK /\ RequestsOK /\ BootOK

LEMMA InitTablesInv == Init => TablesInv
<1>1. SUFFICES ASSUME Init
               PROVE  TablesInv
  OBVIOUS
<1>2. revisions = {} /\ answered = {} /\ \A id : Numbers(id) = {}
  BY <1>1 DEF Init, Numbers, Revisions
<1>3. PagesOK /\ LastOK
  BY <1>1 DEF Init, PagesOK, LastOK
<1>4. Gapless
  <2>1. 1..0 = {} /\ 0 \in Nat
    OBVIOUS
  <2>2. QED
    BY <1>2, <2>1 DEF Gapless
<1>5. RevisionsOK
  BY <1>2, <1>4 DEF RevisionsOK
<1>6. Fine(Idle)
  BY DEF Fine, Idle
<1>7. RequestsOK
  BY <1>1, <1>6 DEF Init, RequestsOK
<1>8. BootOK
  BY <1>1 DEF Init, BootOK
<1>9. QED
  BY <1>1, <1>3, <1>5, <1>7, <1>8 DEF TablesInv, Init

-----------------------------------------------------------------------------
(* A revision that is added.                                               *)

LEMMA AddRevision ==
    ASSUME NEW rev, revisions' = revisions \cup {rev}
    PROVE  /\ \A id : id # rev.id => Revisions(id)' = Revisions(id) /\ Numbers(id)' = Numbers(id)
           /\ Revisions(rev.id)' = Revisions(rev.id) \cup {rev}
           /\ Numbers(rev.id)' = Numbers(rev.id) \cup {rev.n}
<1>1. \A id : Revisions(id)' = {r \in revisions \cup {rev} : r.id = id}
  BY DEF Revisions
<1>2. \A id : Revisions(id) = {r \in revisions : r.id = id}
  BY DEF Revisions
<1>3. \A id : id # rev.id => Revisions(id)' = Revisions(id)
  BY <1>1, <1>2
<1>4. Revisions(rev.id)' = Revisions(rev.id) \cup {rev}
  BY <1>1, <1>2
<1>5. \A id : Numbers(id) = {r.n : r \in Revisions(id)} /\ Numbers(id)' = {r.n : r \in Revisions(id)'}
  BY DEF Numbers
<1>6. \A id : id # rev.id => Numbers(id)' = Numbers(id)
  BY <1>3, <1>5
<1>7. Numbers(rev.id)' = Numbers(rev.id) \cup {rev.n}
  BY <1>4, <1>5
<1>8. QED
  BY <1>3, <1>4, <1>6, <1>7

\* A number that follows and is not taken is the next: the history stays
\* gapless, and the revision is the last of its page.
LEMMA AddNext ==
    ASSUME TablesInv, NEW rev, revisions' = revisions \cup {rev},
           rev = [id |-> rev.id, n |-> rev.n, content |-> rev.content],
           rev.n \notin Numbers(rev.id), Follows(rev.id, rev.n)
    PROVE  /\ Gapless'
           /\ \A r, s \in revisions' : r.id = s.id /\ r.n = s.n => r = s
           /\ Latest(rev.id, rev.content)'
           /\ \A id, n : Follows(id, n) => Follows(id, n)'
<1>1. PICK m \in Nat : Numbers(rev.id) = 1..m
  BY DEF TablesInv, RevisionsOK, Gapless
<1>2. rev.n = m + 1
  BY <1>1 DEF Follows
<1>3. Numbers(rev.id)' = 1..(m + 1)
  <2>1. Numbers(rev.id)' = (1..m) \cup {m + 1}
    BY <1>1, <1>2, AddRevision
  <2>2. (1..m) \cup {m + 1} = 1..(m + 1)
    OBVIOUS
  <2>3. QED
    BY <2>1, <2>2
<1>4. Gapless'
  <2>1. \A id : id # rev.id => \E k \in Nat : Numbers(id)' = 1..k
    BY AddRevision DEF TablesInv, RevisionsOK, Gapless
  <2>2. m + 1 \in Nat
    OBVIOUS
  <2>3. \A id : \E k \in Nat : Numbers(id)' = 1..k
    BY <1>3, <2>1, <2>2
  <2>4. QED
    BY <2>3 DEF Gapless
<1>5. \A r \in revisions : ~(r.id = rev.id /\ r.n = rev.n)
  BY DEF Numbers, Revisions
<1>6. \A r, s \in revisions' : r.id = s.id /\ r.n = s.n => r = s
  BY <1>5 DEF TablesInv, RevisionsOK
<1>7. Latest(rev.id, rev.content)'
  <2>1. rev \in Revisions(rev.id)'
    BY AddRevision
  <2>2. \A s \in Revisions(rev.id)' : s.n <= rev.n
    <3>1. \A s \in Revisions(rev.id)' : s.n \in Numbers(rev.id)'
      BY DEF Numbers
    <3>2. QED
      BY <1>2, <1>3, <3>1
  <2>3. QED
    BY <2>1, <2>2 DEF Latest
<1>8. \A id, n : Follows(id, n) => Follows(id, n)'
  BY AddRevision DEF Follows
<1>9. QED
  BY <1>4, <1>6, <1>7, <1>8

-----------------------------------------------------------------------------
(* The steps of a request.                                                 *)

LEMMA FineKept ==
    ASSUME \A id : Numbers(id) \subseteq Numbers(id)'
    PROVE  \A r : Fine(r) => Fine(r)'
BY DEF Fine, Follows

LEMMA RequestMoves ==
    ASSUME TablesInv, NEW t \in Tasks, NEW x, req' = [req EXCEPT ![t] = x], Fine(x)',
           \A r : Fine(r) => Fine(r)'
    PROVE  RequestsOK'
BY DEF TablesInv, RequestsOK

\* A step of a request that leaves the tables alone.
LEMMA TablesKept ==
    ASSUME TablesInv, UNCHANGED <<dbVars, answered>>, edits' \in Nat, edits' >= edits,
           \A id : Owed(id) => Owed(id)', BootOK', RequestsOK'
    PROVE  TablesInv'
<1>1. pages' = pages /\ revisions' = revisions
  BY DEF dbVars
<1>2. \A id : Numbers(id)' = Numbers(id) /\ Revisions(id)' = Revisions(id)
  BY <1>1 DEF Numbers, Revisions
<1>3. \A i \in 1..edits : i \in 1..edits'
  BY DEF TablesInv
<1>4. PagesOK'
  BY <1>1, <1>3 DEF TablesInv, PagesOK
<1>5. RevisionsOK'
  BY <1>1, <1>2, <1>3 DEF TablesInv, RevisionsOK, Gapless
<1>6. LastOK'
  BY <1>1, <1>2 DEF TablesInv, LastOK, Latest, Unwritten
<1>7. QED
  BY <1>4, <1>5, <1>6 DEF TablesInv

LEMMA RequestStep ==
    ASSUME TablesInv, NEW t \in Tasks, NEW x, req' = [req EXCEPT ![t] = x], Fine(x),
           UNCHANGED <<dbVars, answered, torn, boot>>, edits' \in Nat, edits' >= edits
    PROVE  TablesInv'
<1>1. \A id : Numbers(id)' = Numbers(id)
  BY DEF Numbers, Revisions, dbVars
<1>2. RequestsOK'
  BY <1>1, FineKept, RequestMoves
<1>3. \A id : Owed(id) => Owed(id)'
  BY DEF Owed
<1>4. BootOK'
  BY DEF TablesInv, BootOK
<1>5. QED
  BY <1>2, <1>3, <1>4, TablesKept

\* What is left of a request when it is past its transaction, or over.
LEMMA Harmless ==
    ASSUME TablesInv, NEW t \in Tasks,
           NEW l, l \notin {"create", "snapshot", "read", "next", "commit"}, Finish(t) \/ Goto(t, l)
    PROVE  \E x : req' = [req EXCEPT ![t] = x] /\ Fine(x)
<1>1. Fine(Idle)
  BY DEF Fine, Idle
<1>2. DEFINE x == [req[t] EXCEPT !.pc = l]
<1>3. "pc" \in DOMAIN req[t]
  BY DEF TablesInv, RequestsOK, Fine
<1>4. x.pc = l /\ "pc" \in DOMAIN x
  BY <1>3
<1>5. Fine(x)
  BY <1>4 DEF Fine
<1>6. Goto(t, l) => req' = [req EXCEPT ![t] = x]
  BY DEF Goto
<1>7. Finish(t) => req' = [req EXCEPT ![t] = Idle]
  BY DEF Finish
<1> HIDE DEF x
<1>8. QED
  BY <1>1, <1>5, <1>6, <1>7

LEMMA HarmlessStep ==
    ASSUME TablesInv, NEW t \in Tasks,
           NEW l, l \notin {"create", "snapshot", "read", "next", "commit"},
           Finish(t) \/ Goto(t, l) \/ req' = req,
           UNCHANGED <<dbVars, histVars, boot>>
    PROVE  TablesInv'
<1>1. edits' \in Nat /\ edits' >= edits /\ UNCHANGED <<dbVars, answered, torn, boot>>
  BY DEF TablesInv, histVars
<1>2. CASE Finish(t) \/ Goto(t, l)
  <2>1. PICK x : req' = [req EXCEPT ![t] = x] /\ Fine(x)
    BY <1>2, Harmless
  <2>2. QED
    BY <1>1, <2>1, RequestStep
<1>3. CASE req' = req
  <2>1. req' = [req EXCEPT ![t] = req[t]] /\ Fine(req[t])
    BY <1>3 DEF TablesInv, RequestsOK
  <2>2. QED
    BY <1>1, <2>1, RequestStep
<1>4. QED
  BY <1>2, <1>3

\* Another step, that says what it carries.
LEMMA GoStep ==
    ASSUME TablesInv, NEW t \in Tasks, NEW x, Go(t, x), Fine(x),
           UNCHANGED <<dbVars, histVars, boot>>
    PROVE  TablesInv'
<1>1. edits' \in Nat /\ edits' >= edits /\ UNCHANGED <<dbVars, answered, torn, boot>>
  BY DEF TablesInv, histVars
<1>2. req' = [req EXCEPT ![t] = x]
  BY DEF Go
<1>3. QED
  BY <1>1, <1>2, RequestStep

LEMMA StartKeeps ==
    ASSUME TablesInv, NEW t \in Tasks, Start(t)
    PROVE  TablesInv'
<1>1. PICK n \in Nodes, k \in Keys : Get(t, n, k) \/ Create(t, n, k) \/ Update(t, n, k)
                                     \/ Restore(t, n, k) \/ Delete(t, n, k)
  BY DEF Start
<1>2. boot' = boot
  BY DEF Start
<1>3. CASE Get(t, n, k)
  <2> DEFINE x == [pc |-> "fetch", node |-> n, key |-> k]
  <2>1. Fine(x)
    BY DEF Fine
  <2>2. Go(t, x) \/ req' = req
    BY <1>3 DEF Get
  <2> HIDE DEF x
  <2>3. UNCHANGED <<dbVars, histVars, boot>>
    BY <1>2, <1>3 DEF Get
  <2>4. "idle" \notin {"create", "snapshot", "read", "next", "commit"}
    OBVIOUS
  <2>5. QED
    BY <2>1, <2>2, <2>3, <2>4, GoStep, HarmlessStep
<1>4. CASE Create(t, n, k)
  <2> DEFINE x == [pc |-> "create", node |-> n, key |-> k]
  <2>1. Fine(x)
    BY DEF Fine
  <2>2. Go(t, x) \/ req' = req
    BY <1>4 DEF Create
  <2> HIDE DEF x
  <2>3. UNCHANGED <<dbVars, histVars, boot>>
    BY <1>2, <1>4 DEF Create
  <2>4. "idle" \notin {"create", "snapshot", "read", "next", "commit"}
    OBVIOUS
  <2>5. QED
    BY <2>1, <2>2, <2>3, <2>4, GoStep, HarmlessStep
<1>5. CASE Update(t, n, k)
  <2> DEFINE x == [pc |-> "read", node |-> n, key |-> k, edit |-> edits']
  <2>1. Fine(x)
    BY DEF Fine
  <2>2. req' = [req EXCEPT ![t] = x]
    BY <1>5 DEF Update, Go
  <2> HIDE DEF x
  <2>3. UNCHANGED <<dbVars, answered, torn, boot>> /\ edits' = edits + 1
    BY <1>2, <1>5 DEF Update, NewEdit
  <2>4. edits' \in Nat /\ edits' >= edits
    BY <2>3 DEF TablesInv
  <2>5. QED
    BY <2>1, <2>2, <2>3, <2>4, RequestStep
<1>6. CASE Restore(t, n, k)
  <2> DEFINE x == [pc |-> "snapshot", node |-> n, key |-> k, id |-> pages[k].id]
  <2>1. Fine(x)
    BY DEF Fine
  <2>2. Go(t, x)
    BY <1>6 DEF Restore
  <2> HIDE DEF x
  <2>3. UNCHANGED <<dbVars, histVars, boot>>
    BY <1>2, <1>6 DEF Restore
  <2>4. QED
    BY <2>1, <2>2, <2>3, GoStep
<1>7. CASE Delete(t, n, k)
  <2> DEFINE x == [pc |-> "remove", node |-> n, key |-> k]
  <2>1. Fine(x)
    BY DEF Fine
  <2>2. req' = [req EXCEPT ![t] = x]
    BY <1>7 DEF Delete, Go
  <2> HIDE DEF x
  <2>3. /\ pages' = [pages EXCEPT ![k] = Absent] /\ revisions' = revisions
        /\ UNCHANGED <<answered, torn, edits, boot>>
    BY <1>2, <1>7 DEF Delete, histVars
  <2>4. \A i : Numbers(i)' = Numbers(i) /\ Revisions(i)' = Revisions(i)
    BY <2>3 DEF Numbers, Revisions
  <2>5. /\ pages' = [i \in Keys |-> pages'[i]]
        /\ \A i \in Keys : pages'[i] = Absent \/ pages'[i] = pages[i]
    BY <2>3 DEF TablesInv, PagesOK
  <2>6. PagesOK'
    BY <2>3, <2>5 DEF TablesInv, PagesOK
  <2>7. RevisionsOK'
    BY <2>3, <2>4 DEF TablesInv, RevisionsOK, Gapless
  <2>8. LastOK'
    BY <2>3, <2>4, <2>5 DEF TablesInv, LastOK, Latest, Unwritten, Owed
  <2>9. RequestsOK'
    BY <2>1, <2>2, <2>4, FineKept, RequestMoves
  <2>10. BootOK'
    BY <2>3 DEF TablesInv, BootOK
  <2>11. QED
    BY <2>3, <2>6, <2>7, <2>8, <2>9, <2>10 DEF TablesInv
<1>8. QED
  BY <1>1, <1>3, <1>4, <1>5, <1>6, <1>7

-----------------------------------------------------------------------------
(* The transactions.                                                       *)

LEMMA LastKept ==
    ASSUME NEW id, NEW c, Numbers(id)' = Numbers(id), Revisions(id)' = Revisions(id),
           Owed(id) => Owed(id)', Latest(id, c) \/ Unwritten(id, c)
    PROVE  Latest(id, c)' \/ Unwritten(id, c)'
BY DEF Latest, Unwritten

LEMMA InsertPageKeeps ==
    ASSUME TablesInv, NEW t \in Tasks, InsertPage(t), boot' = boot
    PROVE  TablesInv'
<1>1. CASE pages[req[t].key] # Absent
  <2>1. Finish(t) /\ UNCHANGED <<dbVars, histVars>>
    BY <1>1 DEF InsertPage
  <2>2. "idle" \notin {"create", "snapshot", "read", "next", "commit"}
    OBVIOUS
  <2>3. QED
    BY <2>1, <2>2, HarmlessStep
<1>2. CASE pages[req[t].key] = Absent
  <2>0. PICK k, e, x : /\ k = req[t].key /\ e = edits + 1
                       /\ x = [pc |-> "room", node |-> req[t].node, key |-> k, val |-> edits',
                               fill |-> FALSE]
    OBVIOUS
  <2> DEFINE rev == [id |-> e, n |-> 1, content |-> e]
  <2>1. k \in Keys /\ e \in Nat /\ e \notin 1..edits /\ 1..edits \subseteq 1..e /\ e \in 1..e
    BY <2>0 DEF InsertPage, At, TablesInv, RequestsOK, Fine
  <2>2. /\ edits' = e /\ revisions' = revisions \cup {rev} /\ answered' = answered \cup {rev}
        /\ pages' = [pages EXCEPT ![k] = [id |-> e, content |-> e]]
        /\ torn' = torn /\ req' = [req EXCEPT ![t] = x]
    BY <1>2, <2>0 DEF InsertPage, NewEdit, Go
  <2>3. rev.id = e /\ rev.n = 1 /\ rev.content = e /\ Fine(x)'
    BY <2>0 DEF Fine
  <2>4. rev = [id |-> rev.id, n |-> rev.n, content |-> rev.content]
    BY <2>3
  <2> HIDE DEF rev
  <2>5. Numbers(e) = {}
    BY <2>1 DEF Numbers, Revisions, TablesInv, RevisionsOK
  <2>6. Follows(rev.id, rev.n) /\ rev.n \notin Numbers(rev.id)
    BY <2>3, <2>5 DEF Follows
  <2>7. /\ Gapless' /\ Latest(rev.id, rev.content)'
        /\ \A r, s \in revisions' : r.id = s.id /\ r.n = s.n => r = s
        /\ \A id, n : Follows(id, n) => Follows(id, n)'
    BY <2>2, <2>4, <2>6, AddNext
  <2>8. \A id : id # e => Numbers(id)' = Numbers(id) /\ Revisions(id)' = Revisions(id)
    BY <2>2, <2>3, AddRevision
  <2> DEFINE p == [id |-> e, content |-> e]
  <2>9. /\ pages' = [i \in Keys |-> pages'[i]] /\ pages'[k] = p
        /\ \A i \in Keys : i # k => pages'[i] = pages[i]
    BY <2>1, <2>2 DEF TablesInv, PagesOK
  <2>10. p.id = e /\ p.content = e /\ p = [id |-> p.id, content |-> p.content]
    OBVIOUS
  <2> HIDE DEF p
  <2>11. PagesOK'
    BY <2>1, <2>2, <2>9, <2>10 DEF TablesInv, PagesOK
  <2>12. RevisionsOK'
    BY <2>1, <2>2, <2>3, <2>4, <2>7 DEF TablesInv, RevisionsOK
  <2>13. LastOK'
    <3>1. ASSUME NEW i \in Keys, i # k, pages'[i] # Absent
          PROVE  Latest(pages[i].id, pages[i].content)' \/ Unwritten(pages[i].id, pages[i].content)'
      <4>1. pages'[i] = pages[i] /\ pages[i].id # e
        BY <2>1, <2>9, <3>1 DEF TablesInv, PagesOK
      <4>2. Latest(pages[i].id, pages[i].content) \/ Unwritten(pages[i].id, pages[i].content)
        BY <3>1, <4>1 DEF TablesInv, LastOK
      <4>3. PICK j, d : j = pages[i].id /\ d = pages[i].content
        OBVIOUS
      <4>4. Owed(j) => Owed(j)'
        BY <2>2 DEF Owed
      <4>5. Latest(j, d)' \/ Unwritten(j, d)'
        BY <2>8, <4>1, <4>2, <4>3, <4>4, LastKept
      <4>6. QED
        BY <4>1, <4>3, <4>5
    <3>2. QED
      BY <2>3, <2>7, <2>9, <2>10, <3>1 DEF LastOK
  <2>14. RequestsOK'
    <3>1. \A r : Fine(r) => Fine(r)'
      BY <2>7 DEF Fine
    <3>2. QED
      BY <2>2, <2>3, <3>1, RequestMoves
  <2>15. BootOK'
    BY <2>1, <2>2 DEF TablesInv, BootOK
  <2>16. QED
    BY <2>1, <2>2, <2>11, <2>12, <2>13, <2>14, <2>15 DEF TablesInv
<1>3. QED
  BY <1>1, <1>2

LEMMA CommitUpdateKeeps ==
    ASSUME TablesInv, NEW t \in Tasks, CommitUpdate(t), boot' = boot
    PROVE  TablesInv'
<1>1. CASE ~Updates(t)
  <2>1. Finish(t) /\ UNCHANGED <<dbVars, histVars>>
    BY <1>1 DEF CommitUpdate
  <2>2. "idle" \notin {"create", "snapshot", "read", "next", "commit"}
    OBVIOUS
  <2>3. QED
    BY <2>1, <2>2, HarmlessStep
<1>2. CASE Updates(t)
  <2>0. PICK k, id, n, c, x : /\ k = req[t].key /\ id = req[t].id /\ n = req[t].n /\ c = req[t].edit
                              /\ x = [pc |-> "remove", node |-> req[t].node, key |-> req[t].key]
    OBVIOUS
  <2> DEFINE rev == [id |-> id, n |-> n, content |-> c]
  <2>1. /\ k \in Keys /\ pages[k] # Absent /\ pages[k].id = id /\ id \in 1..edits
        /\ Follows(id, n) /\ n \notin Numbers(id)
    BY <1>2, <2>0 DEF CommitUpdate, At, Updates, TablesInv, RequestsOK, Fine, PagesOK
  <2>2. /\ revisions' = revisions \cup {rev} /\ answered' = answered \cup {rev}
        /\ pages' = [pages EXCEPT ![k].content = c]
        /\ torn' = torn /\ edits' = edits /\ req' = [req EXCEPT ![t] = x]
    BY <1>2, <2>0 DEF CommitUpdate, Go
  <2>3. rev.id = id /\ rev.n = n /\ rev.content = c /\ Fine(x)'
    BY <2>0 DEF Fine
  <2>4. rev = [id |-> rev.id, n |-> rev.n, content |-> rev.content]
    BY <2>3
  <2> HIDE DEF rev
  <2>5. /\ Gapless' /\ Latest(rev.id, rev.content)'
        /\ \A r, s \in revisions' : r.id = s.id /\ r.n = s.n => r = s
        /\ \A i, m : Follows(i, m) => Follows(i, m)'
    BY <2>1, <2>2, <2>3, <2>4, AddNext
  <2>6. \A i : i # id => Numbers(i)' = Numbers(i) /\ Revisions(i)' = Revisions(i)
    BY <2>2, <2>3, AddRevision
  <2>7. pages[k] = [id |-> pages[k].id, content |-> pages[k].content]
    BY <2>1 DEF TablesInv, PagesOK
  <2> DEFINE p == [id |-> id, content |-> c]
  <2>8. [pages[k] EXCEPT !.content = c] = p
    BY <2>1, <2>7
  <2>9. /\ pages' = [i \in Keys |-> pages'[i]] /\ pages'[k] = p
        /\ \A i \in Keys : i # k => pages'[i] = pages[i]
    BY <2>1, <2>2, <2>8 DEF TablesInv, PagesOK
  <2>10. p.id = id /\ p.content = c /\ p = [id |-> p.id, content |-> p.content]
    OBVIOUS
  <2> HIDE DEF p
  <2>11. PagesOK'
    BY <2>1, <2>2, <2>9, <2>10 DEF TablesInv, PagesOK
  <2>12. RevisionsOK'
    BY <2>1, <2>2, <2>3, <2>4, <2>5 DEF TablesInv, RevisionsOK
  <2>13. LastOK'
    <3>1. ASSUME NEW i \in Keys, i # k, pages'[i] # Absent
          PROVE  Latest(pages[i].id, pages[i].content)' \/ Unwritten(pages[i].id, pages[i].content)'
      <4>1. pages'[i] = pages[i] /\ pages[i].id # id
        BY <2>1, <2>9, <3>1 DEF TablesInv, PagesOK
      <4>2. Latest(pages[i].id, pages[i].content) \/ Unwritten(pages[i].id, pages[i].content)
        BY <3>1, <4>1 DEF TablesInv, LastOK
      <4>3. PICK j, d : j = pages[i].id /\ d = pages[i].content
        OBVIOUS
      <4>4. Owed(j) => Owed(j)'
        BY <2>2 DEF Owed
      <4>5. Latest(j, d)' \/ Unwritten(j, d)'
        BY <2>6, <4>1, <4>2, <4>3, <4>4, LastKept
      <4>6. QED
        BY <4>1, <4>3, <4>5
    <3>2. QED
      BY <2>3, <2>5, <2>9, <2>10, <3>1 DEF LastOK
  <2>14. RequestsOK'
    <3>1. \A r : Fine(r) => Fine(r)'
      BY <2>5 DEF Fine
    <3>2. QED
      BY <2>2, <2>3, <3>1, RequestMoves
  <2>15. BootOK'
    BY <2>2 DEF TablesInv, BootOK
  <2>16. QED
    BY <2>2, <2>11, <2>12, <2>13, <2>14, <2>15 DEF TablesInv
<1>3. QED
  BY <1>1, <1>2

\* The number an update carries follows what it has read.
LEMMA ReadNextKeeps ==
    ASSUME TablesInv, NEW t \in Tasks, ReadNext(t), boot' = boot
    PROVE  TablesInv'
<1> DEFINE id == req[t].id
           n == NextRevision(id)
           x == [pc |-> "commit", node |-> req[t].node, key |-> req[t].key,
                 edit |-> req[t].edit, id |-> id, n |-> n]
<1>1. Follows(id, n)
  <2>1. PICK m \in Nat : Numbers(id) = 1..m
    BY DEF TablesInv, RevisionsOK, Gapless
  <2>2. CASE m = 0
    BY <2>1, <2>2 DEF NextRevision, Follows
  <2>3. CASE m # 0
    <3>1. m \in 1..m /\ 1..m # {} /\ \A i \in 1..m : i <= m
      BY <2>3
    <3>2. \A i \in 1..m : (\A j \in 1..m : j <= i) => i = m
      BY <3>1
    <3>3. n = m + 1
      <4> DEFINE N == Numbers(id)
                 last == CHOOSE i \in N : \A j \in N : j <= i
      <4>1. m \in N /\ (\A j \in N : j <= m) /\ \A i \in N : (\A j \in N : j <= i) => i = m
        BY <2>1, <3>1, <3>2
      <4>2. n = 1 + last
        BY <4>1 DEF NextRevision
      <4> HIDE DEF N
      <4>3. last = m
        BY <4>1
      <4> HIDE DEF last
      <4>4. QED
        BY <4>2, <4>3
    <3>4. QED
      BY <2>1, <3>1, <3>3 DEF Follows
  <2>4. QED
    BY <2>2, <2>3
<1>2. req[t].key \in Keys
  BY DEF ReadNext, At, TablesInv, RequestsOK, Fine
<1> HIDE DEF n
<1>3. Fine(x)
  BY <1>1, <1>2 DEF Fine
<1>4. Go(t, x) /\ UNCHANGED <<dbVars, histVars, boot>>
  BY DEF ReadNext, n
<1> HIDE DEF x
<1>5. QED
  BY <1>3, <1>4, GoStep

LEMMA ReadSnapshotKeeps ==
    ASSUME TablesInv, NEW t \in Tasks, ReadSnapshot(t), boot' = boot
    PROVE  TablesInv'
<1>1. UNCHANGED <<dbVars, histVars, boot>>
  BY DEF ReadSnapshot
<1>2. CASE Finish(t)
  <2>1. "idle" \notin {"create", "snapshot", "read", "next", "commit"}
    OBVIOUS
  <2>2. QED
    BY <1>1, <1>2, <2>1, HarmlessStep
<1>3. CASE ~Finish(t)
  <2>1. PICK c : Go(t, [pc |-> "read", node |-> req[t].node, key |-> req[t].key, edit |-> c])
    BY <1>3 DEF ReadSnapshot
  <2> DEFINE x == [pc |-> "read", node |-> req[t].node, key |-> req[t].key, edit |-> c]
  <2>2. Fine(x)
    BY DEF ReadSnapshot, At, TablesInv, RequestsOK, Fine
  <2>3. Go(t, x)
    BY <2>1
  <2> HIDE DEF x
  <2>4. QED
    BY <1>1, <2>2, <2>3, GoStep
<1>4. QED
  BY <1>2, <1>3

LEMMA ReadPageKeeps ==
    ASSUME TablesInv, NEW t \in Tasks, ReadPage(t), boot' = boot
    PROVE  TablesInv'
<1> DEFINE x == [pc |-> "next", node |-> req[t].node, key |-> req[t].key,
                 edit |-> req[t].edit, id |-> pages[req[t].key].id]
<1>1. Fine(x)
  BY DEF ReadPage, At, TablesInv, RequestsOK, Fine
<1>2. (Finish(t) \/ Go(t, x)) /\ UNCHANGED <<dbVars, histVars, boot>>
  BY DEF ReadPage
<1> HIDE DEF x
<1>3. "idle" \notin {"create", "snapshot", "read", "next", "commit"}
  OBVIOUS
<1>4. QED
  BY <1>1, <1>2, <1>3, GoStep, HarmlessStep

\* The steps through the store, and the end of a request.
LEMMA FillKeeps ==
    ASSUME TablesInv, NEW t \in Tasks, Fetch(t) \/ Query(t), boot' = boot
    PROVE  TablesInv'
<1> DEFINE k == req[t].key
           x == [pc |-> "room", node |-> req[t].node, key |-> k, val |-> remote[k], fill |-> TRUE]
           y == [pc |-> "room", node |-> req[t].node, key |-> k, val |-> Current(k), fill |-> FALSE]
<1>1. Fine(x) /\ Fine(y)
  BY DEF Fine
<1>2. Go(t, x) \/ Go(t, y) \/ Goto(t, "query") \/ Finish(t)
  BY DEF Fetch, Query
<1>3. UNCHANGED <<dbVars, histVars, boot>>
  BY DEF Fetch, Query
<1> HIDE DEF x, y
<1>4. "query" \notin {"create", "snapshot", "read", "next", "commit"}
  OBVIOUS
<1>5. QED
  BY <1>1, <1>2, <1>3, <1>4, GoStep, HarmlessStep

LEMMA StoreStepKeeps ==
    ASSUME TablesInv, NEW t \in Tasks, boot' = boot,
           MakeRoom(t) \/ Insert(t) \/ Remove(t) \/ SetOrDel(t) \/ Announce(t)
    PROVE  TablesInv'
<1>1. PICK l \in {"insert", "set", "del", "publish"} : Finish(t) \/ Goto(t, l) \/ req' = req
  BY DEF MakeRoom, Insert, Remove, SetOrDel, Announce
<1>2. UNCHANGED <<dbVars, histVars, boot>>
  BY DEF MakeRoom, Insert, Remove, SetOrDel, Announce
<1>3. l \notin {"create", "snapshot", "read", "next", "commit"}
  OBVIOUS
<1>4. QED
  BY <1>1, <1>2, <1>3, HarmlessStep

LEMMA AbandonKeeps ==
    ASSUME TablesInv, NEW t \in Tasks, Abandon(t)
    PROVE  TablesInv'
<1>1. Finish(t) /\ UNCHANGED <<dbVars, histVars, boot>>
  BY DEF Abandon
<1>2. "idle" \notin {"create", "snapshot", "read", "next", "commit"}
  OBVIOUS
<1>3. QED
  BY <1>1, <1>2, HarmlessStep

-----------------------------------------------------------------------------
(* The seeding, and the process.                                           *)

\* A step of the seeding that leaves the tables alone, of a node that does not
\* owe a revision.
LEMMA BootStep ==
    ASSUME TablesInv, NEW n \in Nodes, NEW x, BootTo(n, x), boot[n].pc # "revision",
           x.pc # "revision", req' = req,
           UNCHANGED <<pages, revisions, histVars>>
    PROVE  /\ PagesOK' /\ RevisionsOK' /\ LastOK' /\ RequestsOK' /\ BootOK'
           /\ edits' \in Nat
<1>1. answered' = answered /\ torn' = torn /\ edits' = edits
  BY DEF histVars
<1>2. \A id : Numbers(id)' = Numbers(id) /\ Revisions(id)' = Revisions(id)
  BY DEF Numbers, Revisions
<1>3. /\ boot' = [m \in Nodes |-> boot'[m]] /\ boot'[n] = x
      /\ \A m \in Nodes : m # n => boot'[m] = boot[m]
  BY DEF BootTo, TablesInv, BootOK
<1>4. \A id : Owed(id) => Owed(id)'
  BY <1>1, <1>3 DEF Owed
<1>5. PagesOK' /\ RevisionsOK'
  BY <1>1, <1>2 DEF TablesInv, PagesOK, RevisionsOK, Gapless
<1>6. LastOK'
  BY <1>2, <1>4 DEF TablesInv, LastOK, Latest, Unwritten
<1>7. RequestsOK'
  BY <1>2, FineKept DEF TablesInv, RequestsOK
<1>8. BootOK'
  BY <1>1, <1>3 DEF TablesInv, BootOK
<1>9. QED
  BY <1>1, <1>5, <1>6, <1>7, <1>8 DEF TablesInv

LEMMA LookKeeps ==
    ASSUME TablesInv, NEW n \in Nodes, CheckUser(n) \/ InsertUser(n) \/ CheckWelcome(n), req' = req
    PROVE  TablesInv'
<1>1. PICK x : BootTo(n, x) /\ x.pc # "revision"
  <2> DEFINE a == [pc |-> IF seeded THEN "welcome" ELSE "user"]
             b == IF seeded THEN Down ELSE [pc |-> "welcome"]
             c == [pc |-> IF pages[Welcome] = Absent THEN "page" ELSE "up"]
  <2>1. a.pc # "revision" /\ b.pc # "revision" /\ c.pc # "revision"
    BY DEF Down
  <2>2. BootTo(n, a) \/ BootTo(n, b) \/ BootTo(n, c)
    BY DEF CheckUser, InsertUser, CheckWelcome
  <2> HIDE DEF a, b, c
  <2>3. QED
    BY <2>1, <2>2
<1>2. boot[n].pc # "revision"
  BY DEF CheckUser, InsertUser, CheckWelcome, Booting
<1>3. UNCHANGED <<pages, revisions, histVars>>
  BY DEF CheckUser, InsertUser, CheckWelcome, dbVars
<1>4. QED
  BY <1>1, <1>2, <1>3, BootStep DEF TablesInv

\* The page alone: its node owes the revision now.
LEMMA InsertWelcomeKeeps ==
    ASSUME TablesInv, NEW n \in Nodes, InsertWelcome(n), req' = req
    PROVE  TablesInv'
<1>1. boot[n].pc # "revision"
  BY DEF InsertWelcome, Booting
<1>2. CASE pages[Welcome] # Absent
  <2>1. BootTo(n, Down) /\ Down.pc # "revision" /\ UNCHANGED <<pages, revisions, histVars>>
    BY <1>2 DEF InsertWelcome, Down, dbVars
  <2>2. QED
    BY <1>1, <2>1, BootStep DEF TablesInv
<1>3. CASE pages[Welcome] = Absent
  <2>1. PICK e : e = edits + 1
    OBVIOUS
  <2>2. e \in Nat /\ e \notin 1..edits /\ 1..edits \subseteq 1..e /\ e \in 1..e
    BY <2>1 DEF TablesInv
  <2> DEFINE x == [pc |-> "revision", id |-> e]
             p == [id |-> e, content |-> e]
  <2>3. /\ edits' = e /\ pages' = [pages EXCEPT ![Welcome] = p] /\ BootTo(n, x)
        /\ revisions' = revisions /\ answered' = answered /\ torn' = torn
    BY <1>3, <2>1 DEF InsertWelcome, NewEdit
  <2>4. /\ x.pc = "revision" /\ x.id = e
        /\ p.id = e /\ p.content = e /\ p = [id |-> p.id, content |-> p.content]
    OBVIOUS
  <2> HIDE DEF x, p
  <2>5. \A id : Numbers(id)' = Numbers(id) /\ Revisions(id)' = Revisions(id)
    BY <2>3 DEF Numbers, Revisions
  <2>6. /\ boot' = [m \in Nodes |-> boot'[m]] /\ boot'[n] = x
        /\ \A m \in Nodes : m # n => boot'[m] = boot[m]
    BY <2>3 DEF BootTo, TablesInv, BootOK
  <2>7. /\ pages' = [i \in Keys |-> pages'[i]] /\ pages'[Welcome] = p
        /\ \A i \in Keys : i # Welcome => pages'[i] = pages[i]
    BY <2>3 DEF TablesInv, PagesOK
  <2>8. PagesOK'
    BY <2>2, <2>3, <2>4, <2>7 DEF TablesInv, PagesOK
  <2>9. RevisionsOK'
    BY <2>2, <2>3, <2>5 DEF TablesInv, RevisionsOK, Gapless
  <2>10. \A id : Owed(id) => Owed(id)'
    BY <1>1, <2>3, <2>6 DEF Owed
  <2>11. Numbers(e) = {} /\ Owed(e)'
    BY <2>2, <2>4, <2>6 DEF Numbers, Revisions, TablesInv, RevisionsOK, Owed
  <2>12. LastOK'
    BY <2>4, <2>5, <2>7, <2>10, <2>11 DEF TablesInv, LastOK, Latest, Unwritten
  <2>13. RequestsOK'
    BY <2>5, FineKept DEF TablesInv, RequestsOK
  <2>14. BootOK'
    BY <2>2, <2>3, <2>4, <2>6 DEF TablesInv, BootOK
  <2>15. QED
    BY <2>2, <2>3, <2>8, <2>9, <2>12, <2>13, <2>14 DEF TablesInv
<1>4. QED
  BY <1>2, <1>3

\* The revision that was owed, unless an update has taken its number.
LEMMA InsertWelcomeRevisionKeeps ==
    ASSUME TablesInv, NEW n \in Nodes, InsertWelcomeRevision(n), req' = req
    PROVE  TablesInv'
<1>1. PICK e : e = boot[n].id
  OBVIOUS
<1>2. e \in 1..edits /\ boot[n].pc = "revision"
  BY <1>1 DEF InsertWelcomeRevision, Booting, TablesInv, BootOK
<1>3. pages' = pages /\ answered' = answered /\ edits' = edits
  BY DEF InsertWelcomeRevision
<1>4. PICK x : BootTo(n, x) /\ x.pc # "revision"
  <2> DEFINE b == [pc |-> "up"]
  <2>1. b.pc # "revision" /\ Down.pc # "revision"
    BY DEF Down
  <2>2. BootTo(n, b) \/ BootTo(n, Down)
    BY DEF InsertWelcomeRevision
  <2> HIDE DEF b
  <2>3. QED
    BY <2>1, <2>2
<1>5. /\ boot' = [m \in Nodes |-> boot'[m]] /\ boot'[n] = x
      /\ \A m \in Nodes : m # n => boot'[m] = boot[m]
  BY <1>4 DEF BootTo, TablesInv, BootOK
<1>6. PagesOK' /\ BootOK'
  BY <1>3, <1>4, <1>5 DEF TablesInv, PagesOK, BootOK
<1>7. CASE 1 \in Numbers(e)
  <2>1. torn' = torn \cup {e} /\ revisions' = revisions
    BY <1>1, <1>7 DEF InsertWelcomeRevision
  <2>2. \A id : Numbers(id)' = Numbers(id) /\ Revisions(id)' = Revisions(id)
    BY <2>1 DEF Numbers, Revisions
  <2>3. \A id : Owed(id) => Owed(id)'
    BY <1>1, <1>5, <2>1 DEF Owed
  <2>4. RevisionsOK'
    BY <1>3, <2>1, <2>2 DEF TablesInv, RevisionsOK, Gapless
  <2>5. LastOK'
    BY <1>3, <2>2, <2>3 DEF TablesInv, LastOK, Latest, Unwritten
  <2>6. RequestsOK'
    BY <2>2, FineKept DEF TablesInv, RequestsOK
  <2>7. QED
    BY <1>3, <1>6, <2>4, <2>5, <2>6 DEF TablesInv
<1>8. CASE 1 \notin Numbers(e)
  <2> DEFINE rev == [id |-> e, n |-> 1, content |-> e]
  <2>1. torn' = torn /\ revisions' = revisions \cup {rev}
    BY <1>1, <1>8 DEF InsertWelcomeRevision
  <2>2. rev.id = e /\ rev.n = 1 /\ rev.content = e
    OBVIOUS
  <2>3. rev = [id |-> rev.id, n |-> rev.n, content |-> rev.content]
    BY <2>2
  <2> HIDE DEF rev
  <2>4. Follows(rev.id, rev.n) /\ rev.n \notin Numbers(rev.id)
    BY <1>8, <2>2 DEF Follows
  <2>5. /\ Gapless' /\ Latest(rev.id, rev.content)'
        /\ \A r, s \in revisions' : r.id = s.id /\ r.n = s.n => r = s
        /\ \A i, m : Follows(i, m) => Follows(i, m)'
    BY <2>1, <2>3, <2>4, AddNext
  <2>6. \A i : i # e => Numbers(i)' = Numbers(i) /\ Revisions(i)' = Revisions(i)
    BY <2>1, <2>2, AddRevision
  <2>7. RevisionsOK'
    BY <1>2, <1>3, <2>1, <2>2, <2>3, <2>5 DEF TablesInv, RevisionsOK
  <2>8. Numbers(e) = {}
    <3>1. PICK m \in Nat : Numbers(e) = 1..m
      BY DEF TablesInv, RevisionsOK, Gapless
    <3>2. m = 0
      BY <1>8, <3>1
    <3>3. QED
      BY <3>1, <3>2
  <2>9. LastOK'
    <3>1. SUFFICES ASSUME NEW k \in Keys, pages[k] # Absent
                   PROVE  Latest(pages[k].id, pages[k].content)'
                          \/ Unwritten(pages[k].id, pages[k].content)'
      BY <1>3 DEF LastOK
    <3>2. PICK j, d : j = pages[k].id /\ d = pages[k].content
      OBVIOUS
    <3>3. Latest(j, d) \/ Unwritten(j, d)
      BY <3>1, <3>2 DEF TablesInv, LastOK
    <3>4. CASE j = e
      <4>1. ~Latest(j, d)
        BY <2>8, <3>4 DEF Latest, Numbers
      <4>2. d = e
        BY <3>3, <3>4, <4>1 DEF Unwritten
      <4>3. Latest(j, d)'
        BY <2>2, <2>5, <3>4, <4>2
      <4>4. QED
        BY <1>3, <3>2, <4>3
    <3>5. CASE j # e
      <4>1. Owed(j) => Owed(j)'
        BY <1>1, <1>5, <2>1, <3>5 DEF Owed
      <4>2. Latest(j, d)' \/ Unwritten(j, d)'
        BY <2>6, <3>3, <3>5, <4>1, LastKept
      <4>3. QED
        BY <1>3, <3>2, <4>2
    <3>6. QED
      BY <3>4, <3>5
  <2>10. RequestsOK'
    <3>1. \A r : Fine(r) => Fine(r)'
      BY <2>5 DEF Fine
    <3>2. QED
      BY <3>1 DEF TablesInv, RequestsOK
  <2>11. QED
    BY <1>3, <1>6, <2>7, <2>9, <2>10 DEF TablesInv
<1>9. QED
  BY <1>7, <1>8

LEMMA CrashKeeps ==
    ASSUME TablesInv, NEW n \in Nodes, Crash(n)
    PROVE  TablesInv'
<1>1. /\ UNCHANGED <<dbVars, answered, edits>>
      /\ torn' = IF Booting(n, "revision") THEN torn \cup {boot[n].id} ELSE torn
      /\ BootTo(n, Down)
  BY DEF Crash
<1>2. Down.pc # "revision"
  BY DEF Down
<1>3. /\ boot' = [m \in Nodes |-> boot'[m]] /\ boot'[n] = Down
      /\ \A m \in Nodes : m # n => boot'[m] = boot[m]
  BY <1>1 DEF BootTo, TablesInv, BootOK
<1>4. BootOK'
  BY <1>1, <1>2, <1>3 DEF TablesInv, BootOK
<1>5. \A id : Owed(id) => Owed(id)'
  BY <1>1, <1>3 DEF Owed, Booting
<1>6. \A id : Numbers(id)' = Numbers(id)
  BY <1>1 DEF Numbers, Revisions, dbVars
<1>7. RequestsOK'
  <2>1. PICK mine : req' = [t \in Tasks |-> IF t \in mine THEN Idle ELSE req[t]]
    BY DEF Crash
  <2>2. Fine(Idle)
    BY DEF Fine, Idle
  <2>3. \A r : Fine(r) => Fine(r)'
    BY <1>6, FineKept
  <2>4. \A t \in Tasks : Fine(req'[t])
    BY <2>1, <2>2 DEF TablesInv, RequestsOK
  <2>5. \A t \in Tasks : req'[t] = Idle \/ req'[t] = req[t]
    BY <2>1
  <2>6. Idle' = Idle
    BY DEF Idle
  <2>7. \A t \in Tasks : Fine(req[t])'
    BY <1>6, <2>4 DEF Fine, Follows
  <2>8. QED
    BY <2>1, <2>7 DEF RequestsOK
<1>8. QED
  BY <1>1, <1>4, <1>5, <1>7, TablesKept DEF TablesInv

\* A step that has nothing to do with the tables.
LEMMA ElsewhereKeeps ==
    ASSUME TablesInv, UNCHANGED <<dbVars, boot, req, histVars>>
    PROVE  TablesInv'
<1>1. \A id : Numbers(id)' = Numbers(id)
  BY DEF Numbers, Revisions, dbVars
<1>2. RequestsOK'
  BY <1>1, FineKept DEF TablesInv, RequestsOK
<1>3. BootOK' /\ \A id : Owed(id) => Owed(id)'
  BY DEF TablesInv, BootOK, Owed, histVars
<1>4. answered' = answered /\ edits' \in Nat /\ edits' >= edits
  BY DEF TablesInv, histVars
<1>5. QED
  BY <1>2, <1>3, <1>4, TablesKept

LEMMA NextTablesInv == TablesInv /\ [Next]_vars => TablesInv'
<1>1. SUFFICES ASSUME TablesInv, [Next]_vars
               PROVE  TablesInv'
  OBVIOUS
<1>2. ASSUME NEW t \in Tasks, Start(t) \/ Abandon(t)
      PROVE  TablesInv'
  BY <1>1, <1>2, StartKeeps, AbandonKeeps
<1>3. ASSUME NEW t \in Tasks, Step(t)
      PROVE  TablesInv'
  <2>1. boot' = boot
    BY <1>3 DEF Step
  <2>2. CASE InsertPage(t) \/ ReadSnapshot(t) \/ ReadPage(t) \/ ReadNext(t) \/ CommitUpdate(t)
    BY <1>1, <2>1, <2>2, InsertPageKeeps, ReadSnapshotKeeps, ReadPageKeeps, ReadNextKeeps,
       CommitUpdateKeeps
  <2>3. CASE Fetch(t) \/ Query(t)
    BY <1>1, <2>1, <2>3, FillKeeps
  <2>4. CASE MakeRoom(t) \/ Insert(t) \/ Remove(t) \/ SetOrDel(t) \/ Announce(t)
    BY <1>1, <2>1, <2>4, StoreStepKeeps
  <2>5. QED
    BY <1>3, <2>2, <2>3, <2>4 DEF Step
<1>4. ASSUME NEW n \in Nodes, Seed(n)
      PROVE  TablesInv'
  <2>1. req' = req
    BY <1>4 DEF Seed
  <2>2. QED
    BY <1>1, <1>4, <2>1, LookKeeps, InsertWelcomeKeeps, InsertWelcomeRevisionKeeps DEF Seed
<1>5. ASSUME NEW n \in Nodes, Crash(n)
      PROVE  TablesInv'
  BY <1>1, <1>5, CrashKeeps
<1>6. ASSUME NEW n \in Nodes, Listen(n) \/ LoseConnection(n)
      PROVE  TablesInv'
  <2>1. UNCHANGED <<dbVars, boot, req, histVars>>
    BY <1>6 DEF Listen, LoseConnection
  <2>2. QED
    BY <1>1, <2>1, ElsewhereKeeps
<1>7. CASE UNCHANGED vars
  BY <1>1, <1>7, ElsewhereKeeps DEF vars
<1>8. QED
  BY <1>1, <1>2, <1>3, <1>4, <1>5, <1>6, <1>7 DEF Next

-----------------------------------------------------------------------------
\* An edit that was answered stays in the history, whatever edits, restores,
\* deletions, crashes and dropped requests overlap with it (service.rs: the
\* UNIQUE (page_id, revision) of the transaction).
THEOREM EditsStay == Spec => []NoEditLost
<1>1. TablesInv => NoEditLost
  BY DEF TablesInv, RevisionsOK, NoEditLost
<1>2. QED
  BY <1>1, InitTablesInv, NextTablesInv, PTL DEF Spec

\* A page has as many revisions as numbers.
LEMMA OneEach ==
    ASSUME TablesInv, NEW id
    PROVE  Cardinality(Revisions(id)) = Cardinality(Numbers(id))
<1>1. PICK m \in Nat : Numbers(id) = 1..m
  BY DEF TablesInv, RevisionsOK, Gapless
<1>2. IsFiniteSet(Numbers(id))
  BY <1>1, FS_Interval
<1> DEFINE R == Revisions(id)
           N == Numbers(id)
           f == [r \in R |-> r.n]
<1>3. \A r, s \in R : r.n = s.n => r = s
  BY DEF Revisions, TablesInv, RevisionsOK
<1>4. N = {r.n : r \in R}
  BY DEF Numbers
<1> HIDE DEF R, N
<1>5. f \in Bijection(R, N)
  BY <1>3, <1>4 DEF Bijection, Injection, IsInjective, Surjection
<1>6. ExistsBijection(R, N)
  BY <1>5 DEF ExistsBijection
<1>7. ExistsBijection(N, R)
  BY <1>6, Fun_ExistsBijSymmetric
<1>8. QED
  BY <1>2, <1>7, FS_Bijection DEF R, N

\* The history of a page has no gap and ends in what the page says, however
\* edits, restores, deletions and the seeding of any number of nodes overlap.
THEOREM HistoryIsThePage == Spec => []HistoryMatchesPage
<1>1. TablesInv => HistoryMatchesPage
  <2>1. SUFFICES ASSUME TablesInv, NEW k \in Keys, pages[k] # Absent, NEW id, id = pages[k].id
                 PROVE  /\ Numbers(id) = 1..Cardinality(Numbers(id))
                        /\ Cardinality(Revisions(id)) = Cardinality(Numbers(id))
                        /\ \/ \E r \in Revisions(id) : r.n = Cardinality(Numbers(id))
                                                       /\ r.content = pages[k].content
                           \/ Numbers(id) = {}
                              /\ (id \in torn \/ \E n \in Nodes : Booting(n, "revision") /\ boot[n].id = id)
    BY DEF HistoryMatchesPage
  <2>2. PICK m \in Nat : Numbers(id) = 1..m
    BY <2>1 DEF TablesInv, RevisionsOK, Gapless
  <2>3. Cardinality(Numbers(id)) = m
    BY <2>2, FS_Interval
  <2>4. Cardinality(Revisions(id)) = Cardinality(Numbers(id))
    BY <2>1, OneEach
  <2>5. CASE Latest(id, pages[k].content)
    <3>1. PICK r \in Revisions(id) : /\ r.content = pages[k].content
                                     /\ \A s \in Revisions(id) : s.n <= r.n
      BY <2>5 DEF Latest
    <3>2. r.n \in 1..m /\ \A j \in 1..m : j <= r.n
      BY <2>2, <3>1 DEF Numbers
    <3>3. r.n = m
      BY <3>2
    <3>4. QED
      BY <2>2, <2>3, <2>4, <3>1, <3>3
  <2>6. CASE Unwritten(id, pages[k].content)
    BY <2>2, <2>3, <2>4, <2>6 DEF Unwritten, Owed, Booting
  <2>7. QED
    BY <2>1, <2>5, <2>6 DEF TablesInv, LastOK
<1>2. QED
  BY <1>1, InitTablesInv, NextTablesInv, PTL DEF Spec

-----------------------------------------------------------------------------
(* The types.                                                              *)

\* The contents of the edits that were made.
Made == 1..edits
Value == Made \cup {Absent}
Messages == [origin : Nodes, key : Keys]

StoreTyped ==
    /\ local \in [Nodes -> [Keys -> Value]]
    /\ remote \in [Keys -> Value]
    /\ inbox \in [Nodes -> Seq(Messages)]
    /\ listening \subseteq Nodes

ContentsTyped ==
    /\ \A k \in Keys : pages[k] # Absent => pages[k].content \in Made
    /\ \A r \in revisions : r.content \in Made
    /\ torn \subseteq Made

\* What the local variables of a handler hold, that its next steps use.
Typed(r) ==
    /\ r.pc # "idle" => {"node", "key"} \subseteq DOMAIN r /\ r.node \in Nodes /\ r.key \in Keys
    /\ r.pc \in {"room", "insert", "set"} => "val" \in DOMAIN r /\ r.val \in Made
    /\ r.pc \in {"read", "next", "commit"} => r.edit \in Made

TypeInv ==
    /\ StoreTyped /\ ContentsTyped
    /\ \A t \in Tasks : Typed(req[t])
    /\ excused \subseteq Keys

\* An update takes one number, and comes of a request; a page, whose first
\* revision has no update, comes of an edit.
Revising == {"snapshot", "read", "next", "commit"}
Updating == {t \in Tasks : req[t].pc \in Revising}

NumbersInv ==
    /\ requests \in Nat /\ Cardinality(Updating) <= requests
    /\ \A r \in revisions : r.n \in Nat \ {0} /\ r.n + Cardinality(Updating) <= edits + requests

LEMMA InitTypeInv == Init => TypeInv /\ NumbersInv
<1>1. SUFFICES ASSUME Init
               PROVE  TypeInv /\ NumbersInv
  OBVIOUS
<1>2. /\ local = [n \in Nodes |-> [k \in Keys |-> Absent]] /\ remote = [k \in Keys |-> Absent]
      /\ inbox = [n \in Nodes |-> <<>>] /\ listening = {}
  BY <1>1 DEF Init, StoreInit
<1>3. <<>> \in Seq(Messages)
  OBVIOUS
<1>4. Absent \in Value
  BY DEF Value
<1>5. StoreTyped
  <2>1. [k \in Keys |-> Absent] \in [Keys -> Value]
    BY <1>4
  <2>2. QED
    BY <1>2, <1>3, <2>1 DEF StoreTyped
<1>6. ContentsTyped
  BY <1>1 DEF Init, ContentsTyped
<1>7. \A t \in Tasks : req[t].pc = "idle"
  BY <1>1 DEF Init, Idle
<1>8. TypeInv
  BY <1>1, <1>5, <1>6, <1>7 DEF Init, TypeInv, Typed
<1>9. Cardinality(Updating) = 0
  <2>1. Updating = {}
    BY <1>7 DEF Updating, Revising
  <2>2. QED
    BY <2>1, FS_EmptySet
<1>10. NumbersInv
  BY <1>1, <1>9 DEF Init, NumbersInv
<1>11. QED
  BY <1>8, <1>10

\* No step takes an edit back.
LEMMA EditsGrow ==
    ASSUME TablesInv, [Next]_vars
    PROVE  /\ edits' \in Nat /\ edits' >= edits
           /\ Made \subseteq Made' /\ Value \subseteq Value'
<1>1. edits \in Nat
  BY DEF TablesInv
<1>2. edits' = edits \/ edits' = edits + 1
  <2>1. ASSUME NEW t \in Tasks, Start(t)
        PROVE  edits' = edits \/ edits' = edits + 1
    BY <2>1 DEF Start, Get, Create, Update, Restore, Delete, NewEdit, histVars
  <2>2. ASSUME NEW t \in Tasks, Step(t)
        PROVE  edits' = edits \/ edits' = edits + 1
    <3>1. CASE InsertPage(t) \/ ReadSnapshot(t) \/ ReadPage(t) \/ ReadNext(t) \/ CommitUpdate(t)
      BY <3>1 DEF InsertPage, ReadSnapshot, ReadPage, ReadNext, CommitUpdate, NewEdit, histVars
    <3>2. CASE \/ Fetch(t) \/ Query(t) \/ MakeRoom(t) \/ Insert(t)
               \/ Remove(t) \/ SetOrDel(t) \/ Announce(t)
      BY <3>2 DEF Fetch, Query, MakeRoom, Insert, Remove, SetOrDel, Announce, histVars
    <3>3. QED
      BY <2>2, <3>1, <3>2 DEF Step
  <2>3. ASSUME NEW t \in Tasks, Abandon(t)
        PROVE  edits' = edits \/ edits' = edits + 1
    BY <2>3 DEF Abandon, histVars
  <2>4. ASSUME NEW n \in Nodes, Seed(n)
        PROVE  edits' = edits \/ edits' = edits + 1
    BY <2>4 DEF Seed, CheckUser, InsertUser, CheckWelcome, InsertWelcome, InsertWelcomeRevision,
                NewEdit, histVars
  <2>5. ASSUME NEW n \in Nodes, Listen(n) \/ Crash(n) \/ LoseConnection(n)
        PROVE  edits' = edits \/ edits' = edits + 1
    BY <2>5 DEF Listen, Crash, LoseConnection, histVars
  <2>6. CASE UNCHANGED vars
    BY <2>6 DEF vars, histVars
  <2>7. QED
    BY <2>1, <2>2, <2>3, <2>4, <2>5, <2>6 DEF Next
<1>3. edits' \in Nat /\ edits' >= edits
  BY <1>1, <1>2
<1>4. Made \subseteq Made'
  BY <1>1, <1>3 DEF Made
<1>5. QED
  BY <1>3, <1>4 DEF Value

-----------------------------------------------------------------------------
(* The layers of the store.                                                *)

LEMMA Known ==
    ASSUME TablesInv, TypeInv, NEW t \in Tasks, req[t].pc # "idle"
    PROVE  req[t].node \in Nodes /\ req[t].key \in Keys
BY DEF TypeInv, Typed

LEMMA StoreSame ==
    ASSUME StoreTyped, UNCHANGED storeVars, Value \subseteq Value'
    PROVE  StoreTyped'
BY DEF StoreTyped, storeVars

LEMMA LocalTyped ==
    ASSUME StoreTyped, NEW n \in Nodes, NEW k \in Keys, NEW v \in Value,
           local' = [local EXCEPT ![n][k] = v], Value \subseteq Value'
    PROVE  local' \in [Nodes -> [Keys -> Value']]
<1>1. local[n] \in [Keys -> Value]
  BY DEF StoreTyped
<1>2. [local[n] EXCEPT ![k] = v] \in [Keys -> Value]
  BY <1>1
<1>3. local' = [local EXCEPT ![n] = [local[n] EXCEPT ![k] = v]]
  OBVIOUS
<1>4. local' \in [Nodes -> [Keys -> Value]]
  BY <1>2, <1>3 DEF StoreTyped
<1>5. QED
  BY <1>4

LEMMA RequestStore ==
    ASSUME TablesInv, TypeInv, Value \subseteq Value', NEW t \in Tasks,
           MakeRoom(t) \/ Insert(t) \/ Remove(t) \/ SetOrDel(t) \/ Announce(t)
    PROVE  StoreTyped'
<1>1. PICK n, k : n = req[t].node /\ k = req[t].key
  OBVIOUS
<1>2. req[t].pc # "idle"
  BY DEF MakeRoom, Insert, Remove, SetOrDel, Announce, At
<1>3. n \in Nodes /\ k \in Keys
  BY <1>1, <1>2, Known
<1>4. StoreTyped /\ Absent \in Value
  BY DEF TypeInv, Value
<1>5. CASE MakeRoom(t)
  <2>1. CASE UNCHANGED storeVars
    BY <1>4, <2>1, StoreSame
  <2>2. CASE Evict(n)
    <3>1. PICK j \in Keys : local' = [local EXCEPT ![n][j] = Absent]
      BY <2>2 DEF Evict, Cached
    <3>2. local' \in [Nodes -> [Keys -> Value']]
      BY <1>3, <1>4, <3>1, LocalTyped
    <3>3. remote' = remote /\ inbox' = inbox /\ listening' = listening
      BY <2>2 DEF Evict
    <3>4. QED
      BY <1>4, <3>2, <3>3 DEF StoreTyped
  <2>3. QED
    BY <1>1, <1>5, <2>1, <2>2 DEF MakeRoom
<1>6. CASE Insert(t) \/ Remove(t)
  <2>1. PICK v \in Value : InsertLocal(n, k, v)
    BY <1>1, <1>4, <1>6 DEF Insert, Remove, At, TypeInv, Typed, Value
  <2>2. local' \in [Nodes -> [Keys -> Value']]
    BY <1>3, <1>4, <2>1, LocalTyped DEF InsertLocal
  <2>3. remote' = remote /\ inbox' = inbox /\ listening' = listening
    BY <2>1 DEF InsertLocal
  <2>4. QED
    BY <1>4, <2>2, <2>3 DEF StoreTyped
<1>7. CASE SetOrDel(t)
  <2>1. PICK v \in Value : WriteRemote(k, v)
    BY <1>1, <1>4, <1>7 DEF SetOrDel, At, TypeInv, Typed, Value
  <2>2. remote' \in [Keys -> Value]
    BY <1>3, <1>4, <2>1 DEF WriteRemote, StoreTyped
  <2>3. local' = local /\ inbox' = inbox /\ listening' = listening
    BY <2>1 DEF WriteRemote
  <2>4. QED
    BY <1>4, <2>2, <2>3 DEF StoreTyped
<1>8. CASE Announce(t)
  <2>1. Publish(n, k)
    BY <1>1, <1>8 DEF Announce
  <2> DEFINE x == [origin |-> n, key |-> k]
  <2>2. inbox' = [m \in Nodes |-> IF m \in listening THEN Append(inbox[m], x) ELSE inbox[m]]
    BY <2>1 DEF Publish
  <2>3. x \in Messages
    BY <1>3 DEF Messages
  <2> HIDE DEF x
  <2>4. \A m \in Nodes : inbox[m] \in Seq(Messages)
    BY <1>4 DEF StoreTyped
  <2>5. \A m \in Nodes : Append(inbox[m], x) \in Seq(Messages)
    BY <2>3, <2>4
  <2>6. inbox' \in [Nodes -> Seq(Messages)]
    BY <2>2, <2>4, <2>5
  <2>7. local' = local /\ remote' = remote /\ listening' = listening
    BY <2>1 DEF Publish
  <2>8. QED
    BY <1>4, <2>6, <2>7 DEF StoreTyped
<1>9. QED
  BY <1>5, <1>6, <1>7, <1>8

LEMMA NodeStore ==
    ASSUME TypeInv, Value \subseteq Value', NEW n \in Nodes,
           Listen(n) \/ LoseConnection(n) \/ Crash(n)
    PROVE  StoreTyped'
<1>1. /\ local \in [Nodes -> [Keys -> Value]] /\ remote \in [Keys -> Value]
      /\ inbox \in [Nodes -> Seq(Messages)] /\ listening \subseteq Nodes
      /\ StoreTyped
  BY DEF TypeInv, StoreTyped
<1>2. <<>> \in Seq(Messages) /\ Absent \in Value
  BY DEF Value
<1>3. CASE Receive(n)
  <2>1. /\ inbox[n] # <<>> /\ remote' = remote /\ listening' = listening
        /\ inbox' = [inbox EXCEPT ![n] = Tail(inbox[n])]
    BY <1>3 DEF Receive
  <2>2. inbox[n] \in Seq(Messages)
    BY <1>1
  <2>3. Head(inbox[n]) \in Messages /\ Tail(inbox[n]) \in Seq(Messages)
    BY <2>1, <2>2, HeadTailProperties
  <2>4. PICK k \in Keys : k = Head(inbox[n]).key
    BY <2>3 DEF Messages
  <2>5. local' = local \/ local' = [local EXCEPT ![n][k] = Absent]
    BY <1>3, <2>4 DEF Receive
  <2>6. local' \in [Nodes -> [Keys -> Value']]
    BY <1>1, <1>2, <2>5, LocalTyped
  <2>7. inbox' \in [Nodes -> Seq(Messages)]
    BY <1>1, <2>1, <2>3
  <2>8. QED
    BY <1>1, <2>1, <2>6, <2>7 DEF StoreTyped
<1>4. CASE Resubscribe(n)
  BY <1>1, <1>4 DEF Resubscribe, StoreTyped
<1>5. CASE LoseConnection(n)
  <2>1. /\ inbox' = [inbox EXCEPT ![n] = <<>>] /\ listening' = listening \ {n}
        /\ local' = local /\ remote' = remote
    BY <1>5 DEF LoseConnection, Unsubscribe
  <2>2. inbox' \in [Nodes -> Seq(Messages)]
    BY <1>1, <1>2, <2>1
  <2>3. QED
    BY <1>1, <2>1, <2>2 DEF StoreTyped
<1>6. CASE Crash(n)
  <2>1. /\ local' = [local EXCEPT ![n] = [k \in Keys |-> Absent]] /\ remote' = remote
        /\ inbox' = [inbox EXCEPT ![n] = <<>>] /\ listening' = listening \ {n}
    BY <1>6 DEF Crash
  <2>2. inbox' \in [Nodes -> Seq(Messages)]
    BY <1>1, <1>2, <2>1
  <2>3. [k \in Keys |-> Absent] \in [Keys -> Value]
    BY <1>2
  <2>4. local' \in [Nodes -> [Keys -> Value]]
    BY <1>1, <2>1, <2>3
  <2>5. QED
    BY <1>1, <2>1, <2>2, <2>4 DEF StoreTyped
<1>7. QED
  BY <1>3, <1>4, <1>5, <1>6 DEF Listen

LEMMA NextStore ==
    ASSUME TablesInv, TypeInv, [Next]_vars
    PROVE  StoreTyped'
<1>1. Value \subseteq Value' /\ StoreTyped
  BY EditsGrow DEF TypeInv
<1>2. ASSUME UNCHANGED storeVars
      PROVE  StoreTyped'
  BY <1>1, <1>2, StoreSame
<1>3. ASSUME NEW t \in Tasks, Start(t) \/ Abandon(t)
      PROVE  UNCHANGED storeVars
  BY <1>3 DEF Start, Get, Create, Update, Restore, Delete, Abandon
<1>4. ASSUME NEW t \in Tasks, Step(t)
      PROVE  StoreTyped'
  <2>1. CASE MakeRoom(t) \/ Insert(t) \/ Remove(t) \/ SetOrDel(t) \/ Announce(t)
    BY <1>1, <2>1, RequestStore
  <2>2. CASE \/ Fetch(t) \/ Query(t) \/ InsertPage(t)
             \/ ReadSnapshot(t) \/ ReadPage(t) \/ ReadNext(t) \/ CommitUpdate(t)
    <3>1. UNCHANGED storeVars
      BY <2>2 DEF Fetch, Query, InsertPage, ReadSnapshot, ReadPage, ReadNext, CommitUpdate
    <3>2. QED
      BY <1>2, <3>1
  <2>3. QED
    BY <1>4, <2>1, <2>2 DEF Step
<1>5. ASSUME NEW n \in Nodes, Seed(n)
      PROVE  UNCHANGED storeVars
  BY <1>5 DEF Seed
<1>6. ASSUME NEW n \in Nodes, Listen(n) \/ LoseConnection(n) \/ Crash(n)
      PROVE  StoreTyped'
  BY <1>1, <1>6, NodeStore
<1>7. CASE UNCHANGED vars
  BY <1>2, <1>7 DEF vars
<1>8. QED
  BY <1>2, <1>3, <1>4, <1>5, <1>6, <1>7 DEF Next

-----------------------------------------------------------------------------
(* The contents in the tables.                                             *)

LEMMA ContentsSame ==
    ASSUME ContentsTyped, UNCHANGED <<pages, revisions, torn>>, Made \subseteq Made'
    PROVE  ContentsTyped'
BY DEF ContentsTyped

\* An edit writes its content into the page, and into the revision it adds.
LEMMA ContentsWritten ==
    ASSUME TablesInv, ContentsTyped, Made \subseteq Made',
           NEW k \in Keys, NEW p, NEW rev, p.content \in Made', rev.content \in Made',
           pages' = [pages EXCEPT ![k] = p],
           revisions' \subseteq revisions \cup {rev}, torn' = torn
    PROVE  ContentsTyped'
<1>1. \A i \in Keys : pages'[i] = IF i = k THEN p ELSE pages[i]
  BY DEF TablesInv, PagesOK
<1>2. \A i \in Keys : pages'[i] # Absent => pages'[i].content \in Made'
  BY <1>1 DEF ContentsTyped
<1>3. \A r \in revisions' : r.content \in Made'
  BY DEF ContentsTyped
<1>4. torn' \subseteq Made'
  BY DEF ContentsTyped
<1>5. QED
  BY <1>2, <1>3, <1>4 DEF ContentsTyped

LEMMA RequestContents ==
    ASSUME TablesInv, TypeInv, Made \subseteq Made', edits' \in Nat, NEW t \in Tasks,
           InsertPage(t) \/ CommitUpdate(t)
    PROVE  ContentsTyped'
<1>1. PICK k, c : k = req[t].key /\ c = req[t].edit
  OBVIOUS
<1>2. ContentsTyped /\ k \in Keys
  BY <1>1 DEF TypeInv, Typed, InsertPage, CommitUpdate, At
<1>3. CASE UNCHANGED <<dbVars, histVars>>
  BY <1>2, <1>3, ContentsSame DEF dbVars, histVars
<1>4. CASE InsertPage(t) /\ ~UNCHANGED <<dbVars, histVars>>
  <2> DEFINE p == [id |-> edits', content |-> edits']
             rev == [id |-> edits', n |-> 1, content |-> edits']
  <2>1. /\ pages' = [pages EXCEPT ![k] = p] /\ revisions' = revisions \cup {rev}
        /\ torn' = torn
    BY <1>1, <1>4 DEF InsertPage
  <2>2. edits' \in Made'
    BY <1>4 DEF InsertPage, NewEdit, TablesInv, Made
  <2>3. p.content \in Made' /\ rev.content \in Made'
    BY <2>2
  <2> HIDE DEF p, rev
  <2>4. QED
    BY <1>2, <2>1, <2>3, ContentsWritten
<1>5. CASE CommitUpdate(t) /\ ~UNCHANGED <<dbVars, histVars>>
  <2> DEFINE p == [pages[k] EXCEPT !.content = c]
             rev == [id |-> req[t].id, n |-> req[t].n, content |-> c]
  <2>1. /\ pages' = [pages EXCEPT ![k].content = c] /\ revisions' = revisions \cup {rev}
        /\ torn' = torn /\ Updates(t) /\ req[t].pc = "commit"
    BY <1>1, <1>5 DEF CommitUpdate, At
  <2>2. c \in Made'
    BY <1>1, <2>1 DEF TypeInv, Typed
  <2>3. pages' = [pages EXCEPT ![k] = p]
    BY <2>1
  <2>4. pages[k] # Absent
    BY <1>1, <2>1 DEF Updates
  <2>5. pages[k] = [id |-> pages[k].id, content |-> pages[k].content]
    BY <1>2, <2>4 DEF TablesInv, PagesOK
  <2>6. p.content = c
    BY <2>5
  <2>7. p.content \in Made' /\ rev.content \in Made'
    BY <2>2, <2>6
  <2> HIDE DEF p, rev
  <2>8. QED
    BY <1>2, <2>1, <2>3, <2>7, ContentsWritten
<1>6. QED
  BY <1>3, <1>4, <1>5

LEMMA SeedContents ==
    ASSUME TablesInv, TypeInv, Made \subseteq Made', edits' \in Nat, edits' >= edits,
           NEW n \in Nodes, Seed(n)
    PROVE  ContentsTyped'
<1>1. ContentsTyped /\ Welcome \in Keys
  BY DEF TypeInv
<1>2. CASE CheckUser(n) \/ InsertUser(n) \/ CheckWelcome(n)
  <2>1. UNCHANGED <<pages, revisions, torn>>
    BY <1>2 DEF CheckUser, InsertUser, CheckWelcome, dbVars, histVars
  <2>2. QED
    BY <1>1, <2>1, ContentsSame
<1>3. CASE InsertWelcome(n)
  <2>1. CASE UNCHANGED <<dbVars, histVars>>
    BY <1>1, <2>1, ContentsSame DEF dbVars, histVars
  <2>2. CASE ~UNCHANGED <<dbVars, histVars>>
    <3> DEFINE p == [id |-> edits', content |-> edits']
    <3>1. pages' = [pages EXCEPT ![Welcome] = p] /\ revisions' = revisions /\ torn' = torn
      BY <1>3, <2>2 DEF InsertWelcome
    <3>2. edits' \in Made'
      BY <1>3, <2>2 DEF InsertWelcome, NewEdit, TablesInv, Made
    <3>3. p.content \in Made'
      BY <3>2
    <3> HIDE DEF p
    <3>4. QED
      BY <1>1, <3>1, <3>3, ContentsWritten
  <2>3. QED
    BY <2>1, <2>2
<1>4. CASE InsertWelcomeRevision(n)
  <2>1. PICK id : id = boot[n].id
    OBVIOUS
  <2>2. id \in Made'
    BY <1>4, <2>1 DEF InsertWelcomeRevision, Booting, TablesInv, BootOK, Made
  <2> DEFINE rev == [id |-> id, n |-> 1, content |-> id]
  <2>3. /\ pages' = pages /\ revisions' \subseteq revisions \cup {rev}
        /\ torn' \subseteq torn \cup {id}
    BY <1>4, <2>1 DEF InsertWelcomeRevision
  <2>4. rev.content \in Made'
    BY <2>2
  <2> HIDE DEF rev
  <2>5. QED
    BY <1>1, <2>2, <2>3, <2>4 DEF ContentsTyped
<1>5. QED
  BY <1>2, <1>3, <1>4 DEF Seed

LEMMA NextContents ==
    ASSUME TablesInv, TypeInv, [Next]_vars
    PROVE  ContentsTyped'
<1>1. /\ edits' \in Nat /\ edits' >= edits /\ Made \subseteq Made'
      /\ ContentsTyped
  BY EditsGrow DEF TypeInv
<1>2. ASSUME NEW t \in Tasks, Start(t)
      PROVE  ContentsTyped'
  <2>1. revisions' = revisions /\ torn' = torn
    BY <1>2 DEF Start, Get, Create, Update, Restore, Delete, dbVars, histVars
  <2>2. PICK k \in Keys : pages' = pages \/ pages' = [pages EXCEPT ![k] = Absent]
    BY <1>2 DEF Start, Get, Create, Update, Restore, Delete, dbVars
  <2>3. \A i \in Keys : pages'[i] = pages[i] \/ pages'[i] = Absent
    BY <2>2 DEF TablesInv, PagesOK
  <2>4. QED
    BY <1>1, <2>1, <2>3 DEF ContentsTyped
<1>3. ASSUME NEW t \in Tasks, Step(t)
      PROVE  ContentsTyped'
  <2>1. CASE InsertPage(t) \/ CommitUpdate(t)
    BY <1>1, <2>1, RequestContents
  <2>2. CASE \/ Fetch(t) \/ Query(t) \/ MakeRoom(t) \/ Insert(t) \/ Remove(t) \/ SetOrDel(t)
             \/ Announce(t) \/ ReadSnapshot(t) \/ ReadPage(t) \/ ReadNext(t)
    <3>1. UNCHANGED <<pages, revisions, torn>>
      BY <2>2 DEF Fetch, Query, MakeRoom, Insert, Remove, SetOrDel, Announce, ReadSnapshot,
                  ReadPage, ReadNext, dbVars, histVars
    <3>2. QED
      BY <1>1, <3>1, ContentsSame
  <2>3. QED
    BY <1>3, <2>1, <2>2 DEF Step
<1>4. ASSUME NEW n \in Nodes, Seed(n)
      PROVE  ContentsTyped'
  BY <1>1, <1>4, SeedContents
<1>5. ASSUME NEW n \in Nodes, Crash(n)
      PROVE  ContentsTyped'
  <2>1. pages' = pages /\ revisions' = revisions
    BY <1>5 DEF Crash, dbVars
  <2>2. torn' = torn \/ (boot[n].pc = "revision" /\ torn' = torn \cup {boot[n].id})
    BY <1>5 DEF Crash, Booting
  <2>3. torn' \subseteq Made'
    <3>1. boot[n].pc = "revision" => boot[n].id \in Made
      BY DEF TablesInv, BootOK, Made
    <3>2. QED
      BY <1>1, <2>2, <3>1 DEF ContentsTyped
  <2>4. QED
    BY <1>1, <2>1, <2>3 DEF ContentsTyped
<1>6. ASSUME \/ \E t \in Tasks : Abandon(t)
             \/ \E n \in Nodes : Listen(n) \/ LoseConnection(n)
             \/ UNCHANGED vars
      PROVE  UNCHANGED <<pages, revisions, torn>>
  BY <1>6 DEF Abandon, Listen, LoseConnection, vars, dbVars, histVars
<1>7. QED
  BY <1>1, <1>2, <1>3, <1>4, <1>5, <1>6, ContentsSame DEF Next

-----------------------------------------------------------------------------
(* The requests.                                                           *)

LEMMA TypedKept ==
    ASSUME Made \subseteq Made', NEW r, Typed(r)
    PROVE  Typed(r)'
BY DEF Typed

\* A step of a request: what it goes on with is typed.
LEMMA TypedMoves ==
    ASSUME TablesInv, TypeInv, Made \subseteq Made',
           NEW t \in Tasks, NEW x, req' = [req EXCEPT ![t] = x], Typed(x)'
    PROVE  \A u \in Tasks : Typed(req[u])'
<1>1. \A u \in Tasks : req'[u] = IF u = t THEN x ELSE req[u]
  BY DEF TablesInv, RequestsOK
<1>2. \A u \in Tasks : Typed(req[u])
  BY DEF TypeInv
<1>3. ASSUME NEW u \in Tasks
      PROVE  Typed(req[u])'
  <2>1. CASE u = t
    BY <1>1, <2>1 DEF Typed
  <2>2. CASE u # t
    <3>1. req'[u] = req[u]
      BY <1>1, <2>2
    <3>2. QED
      BY <1>2, <3>1 DEF Typed
  <2>3. QED
    BY <2>1, <2>2
<1>4. QED
  BY <1>3

\* On to a label at which no more is needed than before.
LEMMA TypedGoto ==
    ASSUME TablesInv, TypeInv, NEW t \in Tasks, req[t].pc # "idle",
           NEW l, l \notin {"read", "next", "commit"},
           l \in {"room", "insert", "set"} => req[t].pc \in {"room", "insert", "set"}
    PROVE  Typed([req[t] EXCEPT !.pc = l])
<1> DEFINE x == [req[t] EXCEPT !.pc = l]
<1>1. "pc" \in DOMAIN req[t] /\ Typed(req[t])
  BY DEF TablesInv, RequestsOK, Fine, TypeInv
<1>2. x.pc = l /\ DOMAIN x = DOMAIN req[t]
  BY <1>1
<1>3. /\ {"node", "key"} \subseteq DOMAIN req[t] /\ req[t].node \in Nodes /\ req[t].key \in Keys
      /\ x.node = req[t].node /\ x.key = req[t].key
  BY <1>1 DEF Typed
<1>4. l \in {"room", "insert", "set"} => "val" \in DOMAIN req[t] /\ req[t].val \in Made /\ x.val = req[t].val
  BY <1>1 DEF Typed
<1> HIDE DEF x
<1>5. Typed(x)
  BY <1>2, <1>3, <1>4 DEF Typed
<1>6. QED
  BY <1>5 DEF x

LEMMA IdleTyped == Typed(Idle) /\ Typed(Idle)'
BY DEF Typed, Idle

LEMMA StartTyped ==
    ASSUME TablesInv, TypeInv, Made \subseteq Made', edits' \in Nat, NEW t \in Tasks, Start(t)
    PROVE  \A u \in Tasks : Typed(req[u])'
<1>1. PICK n \in Nodes, k \in Keys : Get(t, n, k) \/ Create(t, n, k) \/ Update(t, n, k)
                                     \/ Restore(t, n, k) \/ Delete(t, n, k)
  BY DEF Start
<1>2. CASE req' = req
  BY <1>2 DEF TypeInv, Typed
<1>3. ASSUME NEW l \in {"fetch", "create", "remove"},
             req' = [req EXCEPT ![t] = [pc |-> l, node |-> n, key |-> k]]
      PROVE  \A u \in Tasks : Typed(req[u])'
  <2>1. PICK x : x = [pc |-> l, node |-> n, key |-> k]
    OBVIOUS
  <2>2. Typed(x)'
    BY <2>1 DEF Typed
  <2>3. QED
    BY <1>3, <2>1, <2>2, TypedMoves
<1>4. ASSUME NEW c \in Made',
             req' = [req EXCEPT ![t] = [pc |-> "read", node |-> n, key |-> k, edit |-> c]]
      PROVE  \A u \in Tasks : Typed(req[u])'
  <2>1. PICK x : x = [pc |-> "read", node |-> n, key |-> k, edit |-> c]
    OBVIOUS
  <2>2. Typed(x)'
    BY <2>1 DEF Typed
  <2>3. QED
    BY <1>4, <2>1, <2>2, TypedMoves
<1>5. CASE Get(t, n, k) \/ Create(t, n, k) \/ Delete(t, n, k)
  BY <1>2, <1>3, <1>5 DEF Get, Create, Delete, Go
<1>6. CASE Update(t, n, k)
  <2>1. edits' \in Made'
    BY <1>6 DEF Update, NewEdit, TablesInv, Made
  <2>2. QED
    BY <1>4, <1>6, <2>1 DEF Update, Go
<1>7. CASE Restore(t, n, k)
  <2>1. PICK x : x = [pc |-> "snapshot", node |-> n, key |-> k, id |-> pages[k].id]
    OBVIOUS
  <2>2. Typed(x)' /\ req' = [req EXCEPT ![t] = x]
    BY <1>7, <2>1 DEF Restore, Go, Typed
  <2>3. QED
    BY <2>2, TypedMoves
<1>8. QED
  BY <1>1, <1>5, <1>6, <1>7

\* A page is read, from the layers or the tables, or written.
LEMMA FillTyped ==
    ASSUME TablesInv, TypeInv, Made \subseteq Made', edits' \in Nat, NEW t \in Tasks,
           Fetch(t) \/ Query(t) \/ InsertPage(t)
    PROVE  \A u \in Tasks : Typed(req[u])'
<1>1. PICK n, k : n = req[t].node /\ k = req[t].key
  OBVIOUS
<1>2. req[t].pc \in {"fetch", "query", "create"}
  BY DEF Fetch, Query, InsertPage, At
<1>3. n \in Nodes /\ k \in Keys
  BY <1>1, <1>2, Known
<1>4. ASSUME NEW v \in Made', NEW f,
             req' = [req EXCEPT ![t] = [pc |-> "room", node |-> n, key |-> k, val |-> v, fill |-> f]]
      PROVE  \A u \in Tasks : Typed(req[u])'
  <2>1. PICK x : x = [pc |-> "room", node |-> n, key |-> k, val |-> v, fill |-> f]
    OBVIOUS
  <2>2. Typed(x)'
    BY <1>3, <2>1 DEF Typed
  <2>3. QED
    BY <1>4, <2>1, <2>2, TypedMoves
<1>5. CASE Finish(t)
  BY <1>5, TypedMoves, IdleTyped DEF Finish
<1>6. CASE Goto(t, "query")
  <2>1. PICK x : x = [req[t] EXCEPT !.pc = "query"]
    OBVIOUS
  <2>2. Typed(x)
    BY <1>2, <2>1, TypedGoto
  <2>3. Typed(x)' /\ req' = [req EXCEPT ![t] = x]
    BY <1>6, <2>1, <2>2, TypedKept DEF Goto
  <2>4. QED
    BY <2>3, TypedMoves
<1>7. CASE Fetch(t)
  <2>1. CASE /\ remote[k] # Absent
             /\ Go(t, [pc |-> "room", node |-> n, key |-> k, val |-> remote[k], fill |-> TRUE])
    <3>1. remote[k] \in Made'
      BY <1>3, <2>1 DEF TypeInv, StoreTyped, Value
    <3>2. QED
      BY <1>4, <2>1, <3>1 DEF Go
  <2>2. QED
    BY <1>1, <1>6, <1>7, <2>1 DEF Fetch
<1>8. CASE Query(t) /\ ~Finish(t)
  <2>1. /\ pages[k] # Absent
        /\ Go(t, [pc |-> "room", node |-> n, key |-> k, val |-> Current(k), fill |-> FALSE])
    BY <1>1, <1>8 DEF Query
  <2>2. Current(k) \in Made'
    BY <1>3, <2>1 DEF Current, TypeInv, ContentsTyped
  <2>3. QED
    BY <1>4, <2>1, <2>2 DEF Go
<1>9. CASE InsertPage(t) /\ ~Finish(t)
  <2>1. Go(t, [pc |-> "room", node |-> n, key |-> k, val |-> edits', fill |-> FALSE])
    BY <1>1, <1>9 DEF InsertPage
  <2>2. edits' \in Made'
    BY <1>9 DEF InsertPage, NewEdit, TablesInv, Made
  <2>3. QED
    BY <1>4, <2>1, <2>2 DEF Go
<1>10. QED
  BY <1>5, <1>7, <1>8, <1>9

LEMMA SnapshotTyped ==
    ASSUME TablesInv, TypeInv, Made \subseteq Made', NEW t \in Tasks, ReadSnapshot(t)
    PROVE  \A u \in Tasks : Typed(req[u])'
<1>1. PICK n, k : n = req[t].node /\ k = req[t].key
  OBVIOUS
<1>2. n \in Nodes /\ k \in Keys
  BY <1>1 DEF ReadSnapshot, At, TypeInv, Typed
<1>3. CASE Finish(t)
  BY <1>3, TypedMoves, IdleTyped DEF Finish
<1>4. CASE ~Finish(t)
  <2>1. PICK r \in revisions : Go(t, [pc |-> "read", node |-> n, key |-> k, edit |-> r.content])
    BY <1>1, <1>4 DEF ReadSnapshot, Revisions
  <2>2. PICK x : /\ x = [pc |-> "read", node |-> n, key |-> k, edit |-> r.content]
                 /\ req' = [req EXCEPT ![t] = x]
    BY <2>1 DEF Go
  <2>3. r.content \in Made'
    BY DEF TypeInv, ContentsTyped
  <2>4. Typed(x)'
    BY <1>2, <2>2, <2>3 DEF Typed
  <2>5. QED
    BY <2>2, <2>4, TypedMoves
<1>5. QED
  BY <1>3, <1>4

LEMMA UpdateTyped ==
    ASSUME TablesInv, TypeInv, Made \subseteq Made', NEW t \in Tasks,
           ReadPage(t) \/ ReadNext(t) \/ CommitUpdate(t)
    PROVE  \A u \in Tasks : Typed(req[u])'
<1>1. PICK n, k, c : n = req[t].node /\ k = req[t].key /\ c = req[t].edit
  OBVIOUS
<1>2. req[t].pc \in {"read", "next", "commit"}
  BY DEF ReadPage, ReadNext, CommitUpdate, At
<1>3. n \in Nodes /\ k \in Keys /\ c \in Made'
  BY <1>1, <1>2 DEF TypeInv, Typed
<1>4. CASE Finish(t)
  BY <1>4, TypedMoves, IdleTyped DEF Finish
<1>5. CASE ~Finish(t)
  <2>1. PICK i, j :
          \/ Go(t, [pc |-> "next", node |-> n, key |-> k, edit |-> c, id |-> i])
          \/ Go(t, [pc |-> "commit", node |-> n, key |-> k, edit |-> c, id |-> i, n |-> j])
          \/ Go(t, [pc |-> "remove", node |-> n, key |-> k])
    BY <1>1, <1>5 DEF ReadPage, ReadNext, CommitUpdate
  <2>2. PICK x :
          /\ req' = [req EXCEPT ![t] = x]
          /\ \/ x = [pc |-> "next", node |-> n, key |-> k, edit |-> c, id |-> i]
             \/ x = [pc |-> "commit", node |-> n, key |-> k, edit |-> c, id |-> i, n |-> j]
             \/ x = [pc |-> "remove", node |-> n, key |-> k]
    BY <2>1 DEF Go
  <2>3. Typed(x)'
    BY <1>3, <2>2 DEF Typed
  <2>4. QED
    BY <2>2, <2>3, TypedMoves
<1>6. QED
  BY <1>4, <1>5

LEMMA StoreStepTyped ==
    ASSUME TablesInv, TypeInv, Made \subseteq Made', NEW t \in Tasks,
           MakeRoom(t) \/ Insert(t) \/ Remove(t) \/ SetOrDel(t) \/ Announce(t)
    PROVE  \A u \in Tasks : Typed(req[u])'
<1>1. CASE req' = req
  BY <1>1 DEF TypeInv, Typed
<1>2. CASE Finish(t)
  BY <1>2, TypedMoves, IdleTyped DEF Finish
<1>3. ASSUME NEW l \in {"insert", "set", "del", "publish"}, Goto(t, l),
             l \in {"insert", "set"} => req[t].pc \in {"room", "insert", "set"}
      PROVE  \A u \in Tasks : Typed(req[u])'
  <2>1. PICK x : x = [req[t] EXCEPT !.pc = l]
    OBVIOUS
  <2>2. req[t].pc # "idle"
    BY DEF MakeRoom, Insert, Remove, SetOrDel, Announce, At
  <2>3. Typed(x)
    BY <1>3, <2>1, <2>2, TypedGoto
  <2>4. Typed(x)' /\ req' = [req EXCEPT ![t] = x]
    BY <1>3, <2>1, <2>3, TypedKept DEF Goto
  <2>5. QED
    BY <2>4, TypedMoves
<1>4. CASE MakeRoom(t) \/ Insert(t)
  BY <1>1, <1>2, <1>3, <1>4 DEF MakeRoom, Insert, At
<1>5. CASE Remove(t) \/ SetOrDel(t) \/ Announce(t)
  BY <1>2, <1>3, <1>5 DEF Remove, SetOrDel, Announce
<1>6. QED
  BY <1>4, <1>5

LEMMA NextRequests ==
    ASSUME TablesInv, TypeInv, [Next]_vars
    PROVE  \A u \in Tasks : Typed(req[u])'
<1>1. edits' \in Nat /\ Made \subseteq Made'
  BY EditsGrow
<1>2. ASSUME NEW t \in Tasks, Start(t)
      PROVE  \A u \in Tasks : Typed(req[u])'
  BY <1>1, <1>2, StartTyped
<1>3. ASSUME NEW t \in Tasks, Step(t)
      PROVE  \A u \in Tasks : Typed(req[u])'
  BY <1>1, <1>3, FillTyped, SnapshotTyped, UpdateTyped, StoreStepTyped DEF Step
<1>4. ASSUME NEW t \in Tasks, Abandon(t)
      PROVE  \A u \in Tasks : Typed(req[u])'
  BY <1>1, <1>4, TypedMoves, IdleTyped DEF Abandon, Finish
<1>5. ASSUME NEW n \in Nodes, Crash(n)
      PROVE  \A u \in Tasks : Typed(req[u])'
  <2>1. PICK mine : req' = [t \in Tasks |-> IF t \in mine THEN Idle ELSE req[t]]
    BY <1>5 DEF Crash
  <2>2. ASSUME NEW u \in Tasks
        PROVE  Typed(req[u])'
    <3>1. req'[u] = Idle \/ req'[u] = req[u]
      BY <2>1
    <3>2. Typed(req[u])
      BY DEF TypeInv
    <3>3. QED
      BY <1>1, <3>1, <3>2, IdleTyped DEF Typed
  <2>3. QED
    BY <2>2
<1>6. ASSUME \/ \E n \in Nodes : Seed(n) \/ Listen(n) \/ LoseConnection(n)
             \/ UNCHANGED vars
      PROVE  \A u \in Tasks : Typed(req[u])'
  <2>1. req' = req
    BY <1>6 DEF Seed, Listen, LoseConnection, vars
  <2>2. QED
    BY <1>1, <2>1 DEF TypeInv, Typed
<1>7. QED
  BY <1>2, <1>3, <1>4, <1>5, <1>6 DEF Next

LEMMA WatchTyped ==
    ASSUME TypeInv, NEW ks \in SUBSET Keys, Watch(ks)
    PROVE  excused' \subseteq Keys
BY DEF TypeInv, Watch

LEMMA NextExcused ==
    ASSUME TablesInv, TypeInv, [Next]_vars
    PROVE  excused' \subseteq Keys
<1>1. CASE excused' = excused
  BY <1>1 DEF TypeInv
<1>2. CASE Watch({})
  BY <1>2, WatchTyped
<1>3. ASSUME NEW t \in Tasks, Step(t)
      PROVE  excused' \subseteq Keys
  <2>1. CASE Announce(t)
    <3>1. req[t].key \in Keys
      BY <2>1, Known DEF Announce, At
    <3>2. PICK ks \in SUBSET Keys : Watch(ks)
      BY <2>1, <3>1 DEF Announce
    <3>3. QED
      BY <3>2, WatchTyped
  <2>2. CASE Fetch(t) \/ Query(t) \/ InsertPage(t) \/ CommitUpdate(t)
    BY <1>2, <2>2 DEF Fetch, Query, InsertPage, CommitUpdate
  <2>3. CASE \/ MakeRoom(t) \/ Insert(t) \/ Remove(t) \/ SetOrDel(t)
             \/ ReadSnapshot(t) \/ ReadPage(t) \/ ReadNext(t)
    BY <1>1, <2>3 DEF MakeRoom, Insert, Remove, SetOrDel, ReadSnapshot, ReadPage, ReadNext,
                      watchVars
  <2>4. QED
    BY <1>3, <2>1, <2>2, <2>3 DEF Step
<1>4. ASSUME NEW t \in Tasks, Abandon(t)
      PROVE  excused' \subseteq Keys
  <2>1. req[t].key \in Keys
    BY <1>4, Known DEF Abandon, At
  <2>2. PICK ks \in SUBSET Keys : Watch(ks)
    BY <1>4, <2>1 DEF Abandon
  <2>3. QED
    BY <2>2, WatchTyped
<1>5. ASSUME NEW n \in Nodes, Crash(n)
      PROVE  excused' \subseteq Keys
  <2> DEFINE mine == {t \in Tasks : ~At(t, "idle") /\ req[t].node = n}
             ks == {req[t].key : t \in {u \in mine : req[u].pc \in {"remove", "del", "publish"}}}
  <2>1. Watch(ks)
    BY <1>5 DEF Crash
  <2>2. ks \in SUBSET Keys
    BY Known DEF At
  <2> HIDE DEF ks
  <2>3. QED
    BY <2>1, <2>2, WatchTyped
<1>6. ASSUME NEW n \in Nodes, LoseConnection(n)
      PROVE  excused' \subseteq Keys
  <2> DEFINE ks == {inbox[n][i].key : i \in DOMAIN inbox[n]}
  <2>1. Watch(ks)
    BY <1>6 DEF LoseConnection
  <2>2. inbox[n] \in Seq(Messages)
    BY DEF TypeInv, StoreTyped
  <2>3. \A i \in DOMAIN inbox[n] : inbox[n][i] \in Messages
    BY <2>2
  <2>4. ks \in SUBSET Keys
    BY <2>3 DEF Messages
  <2> HIDE DEF ks
  <2>5. QED
    BY <2>1, <2>4, WatchTyped
<1>7. ASSUME \/ \E t \in Tasks : Start(t)
             \/ \E n \in Nodes : Seed(n)
      PROVE  Watch({})
  BY <1>7 DEF Start, Seed
<1>8. ASSUME \/ \E n \in Nodes : Listen(n)
             \/ UNCHANGED vars
      PROVE  excused' = excused
  BY <1>8 DEF Listen, watchVars, vars
<1>9. QED
  BY <1>1, <1>2, <1>3, <1>4, <1>5, <1>6, <1>7, <1>8 DEF Next

-----------------------------------------------------------------------------
(* How far the numbers go.                                                 *)

LEMMA UpdatingFinite ==
    /\ IsFiniteSet(Updating) /\ IsFiniteSet(Updating')
    /\ Cardinality(Updating) \in Nat /\ Cardinality(Updating') \in Nat
<1>1. Updating \subseteq Tasks /\ Updating' \subseteq Tasks
  BY DEF Updating
<1>2. IsFiniteSet(Updating) /\ IsFiniteSet(Updating')
  BY <1>1, FS_Subset
<1>3. QED
  BY <1>2, FS_CardinalityType

\* A request that moves leaves the others where they are.
LEMMA UpdatingMoves ==
    ASSUME TablesInv, NEW t \in Tasks, NEW x, req' = [req EXCEPT ![t] = x]
    PROVE  /\ Cardinality(Updating') <= Cardinality(Updating) + 1
           /\ (req[t].pc \in Revising \/ x.pc \notin Revising)
              => Cardinality(Updating') <= Cardinality(Updating)
           /\ req[t].pc \in Revising /\ x.pc \notin Revising
              => Cardinality(Updating') = Cardinality(Updating) - 1
<1>1. \A u \in Tasks : req'[u] = IF u = t THEN x ELSE req[u]
  BY DEF TablesInv, RequestsOK
<1>2. Updating' \subseteq Updating \cup {t}
  BY <1>1 DEF Updating
<1>3. IsFiniteSet(Updating) /\ IsFiniteSet(Updating \cup {t})
  BY UpdatingFinite, FS_AddElement
<1>4. Cardinality(Updating') <= Cardinality(Updating \cup {t})
  BY <1>2, <1>3, FS_Subset
<1>5. Cardinality(Updating \cup {t}) \in {Cardinality(Updating), Cardinality(Updating) + 1}
  BY <1>3, FS_AddElement
<1>6. CASE req[t].pc \in Revising \/ x.pc \notin Revising
  <2>1. Updating' \subseteq Updating
    BY <1>1, <1>6 DEF Updating
  <2>2. Cardinality(Updating') <= Cardinality(Updating)
    BY <1>3, <2>1, FS_Subset
  <2>3. CASE req[t].pc \in Revising /\ x.pc \notin Revising
    <3>1. t \in Updating /\ Updating' = Updating \ {t}
      BY <1>1, <2>3 DEF Updating
    <3>2. Cardinality(Updating \ {t}) = Cardinality(Updating) - 1
      BY <1>3, <3>1, FS_RemoveElement
    <3>3. QED
      BY <2>2, <3>1, <3>2, UpdatingFinite
  <2>4. QED
    BY <2>2, <2>3, UpdatingFinite
<1>7. QED
  BY <1>4, <1>5, <1>6, UpdatingFinite

\* A step that adds no revision, and no update without a request.
LEMMA NumbersKept ==
    ASSUME TablesInv, NumbersInv, revisions' = revisions, edits' \in Nat, edits' >= edits,
           \/ requests' = requests /\ Cardinality(Updating') <= Cardinality(Updating)
           \/ requests' = requests + 1 /\ Cardinality(Updating') <= Cardinality(Updating) + 1
    PROVE  NumbersInv'
<1>1. edits \in Nat
  BY DEF TablesInv
<1>2. requests' \in Nat /\ Cardinality(Updating') <= requests'
  BY UpdatingFinite DEF NumbersInv
<1>3. ASSUME NEW r \in revisions
      PROVE  r.n \in Nat \ {0} /\ r.n + Cardinality(Updating') <= edits' + requests'
  BY <1>1, UpdatingFinite DEF NumbersInv
<1>4. QED
  BY <1>2, <1>3 DEF NumbersInv

\* A step that adds one.
LEMMA NumbersGrow ==
    ASSUME TablesInv, NumbersInv, NEW rev, revisions' \subseteq revisions \cup {rev},
           edits' \in Nat, edits' >= edits, requests' = requests,
           Cardinality(Updating') <= Cardinality(Updating),
           rev.n \in Nat \ {0}, rev.n + Cardinality(Updating') <= edits' + requests
    PROVE  NumbersInv'
<1>1. edits \in Nat
  BY DEF TablesInv
<1>2. requests' \in Nat /\ Cardinality(Updating') <= requests'
  BY UpdatingFinite DEF NumbersInv
<1>3. ASSUME NEW r \in revisions
      PROVE  r.n \in Nat \ {0} /\ r.n + Cardinality(Updating') <= edits' + requests'
  BY <1>1, UpdatingFinite DEF NumbersInv
<1>4. QED
  BY <1>2, <1>3 DEF NumbersInv

LEMMA StartNumbers ==
    ASSUME TablesInv, NumbersInv, edits' \in Nat, edits' >= edits, NEW t \in Tasks, Start(t)
    PROVE  NumbersInv'
<1>1. revisions' = revisions /\ requests' = requests + 1
  BY DEF Start, Get, Create, Update, Restore, Delete, dbVars
<1>2. PICK x : req' = [req EXCEPT ![t] = x]
  <2>1. req' = req => req' = [req EXCEPT ![t] = req[t]]
    BY DEF TablesInv, RequestsOK
  <2>2. req' = req \/ \E x : req' = [req EXCEPT ![t] = x]
    BY DEF Start, Get, Create, Update, Restore, Delete, Go
  <2>3. QED
    BY <2>1, <2>2
<1>3. Cardinality(Updating') <= Cardinality(Updating) + 1
  BY <1>2, UpdatingMoves
<1>4. QED
  BY <1>1, <1>3, NumbersKept

LEMMA InsertPageNumbers ==
    ASSUME TablesInv, NumbersInv, edits' \in Nat, edits' >= edits, requests' = requests,
           NEW t \in Tasks, InsertPage(t)
    PROVE  NumbersInv'
<1>1. PICK x : req' = [req EXCEPT ![t] = x] /\ x.pc \notin Revising
  <2> DEFINE y == [pc |-> "room", node |-> req[t].node, key |-> req[t].key, val |-> edits',
                   fill |-> FALSE]
  <2>1. Idle.pc \notin Revising /\ y.pc \notin Revising
    BY DEF Idle, Revising
  <2>2. req' = [req EXCEPT ![t] = Idle] \/ req' = [req EXCEPT ![t] = y]
    BY DEF InsertPage, Finish, Go
  <2> HIDE DEF y
  <2>3. QED
    BY <2>1, <2>2
<1>2. Cardinality(Updating') <= Cardinality(Updating)
  BY <1>1, UpdatingMoves
<1>3. CASE revisions' = revisions
  BY <1>2, <1>3, NumbersKept
<1>4. CASE revisions' # revisions
  <2>1. PICK rev : /\ revisions' = revisions \cup {rev} /\ edits' = edits + 1
                   /\ rev = [id |-> edits', n |-> 1, content |-> edits']
    BY <1>4 DEF InsertPage, NewEdit, dbVars
  <2>2. rev.n = 1 /\ Cardinality(Updating) <= requests /\ requests \in Nat /\ edits \in Nat
    BY <2>1 DEF NumbersInv, TablesInv
  <2>3. rev.n + Cardinality(Updating') <= edits' + requests
    BY <1>2, <2>1, <2>2, UpdatingFinite
  <2>4. QED
    BY <1>2, <2>1, <2>2, <2>3, NumbersGrow
<1>5. QED
  BY <1>3, <1>4

\* The update that commits makes way for the number it takes.
LEMMA CommitNumbers ==
    ASSUME TablesInv, NumbersInv, edits' \in Nat, edits' >= edits, requests' = requests,
           NEW t \in Tasks, CommitUpdate(t)
    PROVE  NumbersInv'
<1>1. req[t].pc = "commit"
  BY DEF CommitUpdate, At
<1>2. PICK x : req' = [req EXCEPT ![t] = x] /\ x.pc \notin Revising
  <2> DEFINE y == [pc |-> "remove", node |-> req[t].node, key |-> req[t].key]
  <2>1. Idle.pc \notin Revising /\ y.pc \notin Revising
    BY DEF Idle, Revising
  <2>2. req' = [req EXCEPT ![t] = Idle] \/ req' = [req EXCEPT ![t] = y]
    BY DEF CommitUpdate, Finish, Go
  <2> HIDE DEF y
  <2>3. QED
    BY <2>1, <2>2
<1>3. Cardinality(Updating') = Cardinality(Updating) - 1
  BY <1>1, <1>2, UpdatingMoves DEF Revising
<1>4. PICK rev : /\ revisions' \subseteq revisions \cup {rev}
                 /\ rev = [id |-> req[t].id, n |-> req[t].n, content |-> req[t].edit]
  BY DEF CommitUpdate, dbVars
<1>5. rev.id = req[t].id /\ rev.n = req[t].n
  BY <1>4
<1>6. Follows(rev.id, rev.n)
  BY <1>1, <1>5 DEF TablesInv, RequestsOK, Fine
<1>7. rev.n + Cardinality(Updating') <= edits' + requests
  <2>1. CASE rev.n = 1
    BY <1>3, <2>1, UpdatingFinite DEF NumbersInv, TablesInv
  <2>2. CASE rev.n - 1 \in Numbers(rev.id)
    <3>1. PICK r \in revisions : r.n = rev.n - 1
      BY <2>2 DEF Numbers, Revisions
    <3>2. r.n \in Nat /\ r.n + Cardinality(Updating) <= edits + requests
      BY DEF NumbersInv
    <3>3. QED
      BY <1>3, <1>6, <3>1, <3>2, UpdatingFinite DEF Follows, NumbersInv, TablesInv
  <2>3. QED
    BY <1>6, <2>1, <2>2 DEF Follows
<1>8. rev.n \in Nat \ {0}
  BY <1>6 DEF Follows
<1>9. Cardinality(Updating') <= Cardinality(Updating)
  BY <1>3, UpdatingFinite
<1>10. QED
  BY <1>4, <1>7, <1>8, <1>9, NumbersGrow

LEMMA StepNumbers ==
    ASSUME TablesInv, NumbersInv, edits' \in Nat, edits' >= edits, NEW t \in Tasks, Step(t)
    PROVE  NumbersInv'
<1>1. requests' = requests
  BY DEF Step
<1>2. CASE InsertPage(t) \/ CommitUpdate(t)
  BY <1>1, <1>2, InsertPageNumbers, CommitNumbers
<1>3. CASE ReadSnapshot(t) \/ ReadPage(t) \/ ReadNext(t)
  <2>1. req[t].pc \in Revising
    BY <1>3 DEF ReadSnapshot, ReadPage, ReadNext, At, Revising
  <2>2. PICK x : req' = [req EXCEPT ![t] = x]
    BY <1>3 DEF ReadSnapshot, ReadPage, ReadNext, Finish, Go
  <2>3. revisions' = revisions
    BY <1>3 DEF ReadSnapshot, ReadPage, ReadNext, dbVars
  <2>4. Cardinality(Updating') <= Cardinality(Updating)
    BY <2>1, <2>2, UpdatingMoves
  <2>5. QED
    BY <1>1, <2>3, <2>4, NumbersKept
<1>4. CASE \/ Fetch(t) \/ Query(t) \/ MakeRoom(t) \/ Insert(t) \/ Remove(t) \/ SetOrDel(t)
           \/ Announce(t)
  <2>1. revisions' = revisions
    BY <1>4 DEF Fetch, Query, MakeRoom, Insert, Remove, SetOrDel, Announce, dbVars
  <2>2. Cardinality(Updating') <= Cardinality(Updating)
    <3>1. CASE req' = req
      BY <3>1, UpdatingFinite DEF Updating
    <3>2. ASSUME NEW x, req' = [req EXCEPT ![t] = x], x.pc \notin Revising
          PROVE  Cardinality(Updating') <= Cardinality(Updating)
      BY <3>2, UpdatingMoves
    <3>3. CASE Finish(t)
      BY <3>2, <3>3 DEF Finish, Idle, Revising
    <3>4. ASSUME NEW l \in {"query", "insert", "set", "del", "publish"}, Goto(t, l)
          PROVE  Cardinality(Updating') <= Cardinality(Updating)
      <4>1. PICK x : x = [req[t] EXCEPT !.pc = l]
        OBVIOUS
      <4>2. x.pc = l
        BY <4>1 DEF TablesInv, RequestsOK, Fine
      <4>3. req' = [req EXCEPT ![t] = x]
        BY <3>4, <4>1 DEF Goto
      <4>4. QED
        BY <3>2, <4>2, <4>3 DEF Revising
    <3>5. CASE \E n, k, v, f : Go(t, [pc |-> "room", node |-> n, key |-> k, val |-> v, fill |-> f])
      BY <3>2, <3>5 DEF Go, Revising
    <3>6. CASE Fetch(t) \/ Query(t)
      BY <3>3, <3>4, <3>5, <3>6 DEF Fetch, Query
    <3>7. CASE MakeRoom(t) \/ Insert(t) \/ Remove(t) \/ SetOrDel(t) \/ Announce(t)
      BY <3>1, <3>3, <3>4, <3>7 DEF MakeRoom, Insert, Remove, SetOrDel, Announce
    <3>8. QED
      BY <1>4, <3>6, <3>7
  <2>3. QED
    BY <1>1, <2>1, <2>2, NumbersKept
<1>5. QED
  BY <1>2, <1>3, <1>4 DEF Step

LEMMA NextNumbers ==
    ASSUME TablesInv, NumbersInv, [Next]_vars
    PROVE  NumbersInv'
<1>1. edits' \in Nat /\ edits' >= edits
  BY EditsGrow
<1>2. ASSUME NEW t \in Tasks, Start(t) \/ Step(t)
      PROVE  NumbersInv'
  BY <1>1, <1>2, StartNumbers, StepNumbers
<1>3. ASSUME NEW t \in Tasks, Abandon(t)
      PROVE  NumbersInv'
  <2>1. /\ req' = [req EXCEPT ![t] = Idle] /\ Idle.pc \notin Revising
        /\ revisions' = revisions /\ requests' = requests
    BY <1>3 DEF Abandon, Finish, Idle, dbVars, Revising
  <2>2. Cardinality(Updating') <= Cardinality(Updating)
    BY <2>1, UpdatingMoves
  <2>3. QED
    BY <1>1, <2>1, <2>2, NumbersKept
<1>4. ASSUME NEW n \in Nodes, Seed(n)
      PROVE  NumbersInv'
  <2>1. requests' = requests /\ req' = req
    BY <1>4 DEF Seed
  <2>2. Updating' = Updating /\ Cardinality(Updating') <= Cardinality(Updating)
    BY <2>1, UpdatingFinite DEF Updating
  <2>3. CASE revisions' = revisions
    BY <1>1, <2>1, <2>2, <2>3, NumbersKept
  <2>4. CASE revisions' # revisions
    <3>1. /\ InsertWelcomeRevision(n)
          /\ revisions' = revisions \cup {[id |-> boot[n].id, n |-> 1, content |-> boot[n].id]}
      BY <1>4, <2>4 DEF Seed, CheckUser, InsertUser, CheckWelcome, InsertWelcome,
                        InsertWelcomeRevision, dbVars
    <3>2. PICK rev : rev = [id |-> boot[n].id, n |-> 1, content |-> boot[n].id]
      OBVIOUS
    <3>3. edits \in Nat /\ edits >= 1
      BY <3>1 DEF InsertWelcomeRevision, Booting, TablesInv, BootOK
    <3>4. rev.n = 1 /\ rev.n + Cardinality(Updating') <= edits' + requests
      BY <1>1, <2>2, <3>2, <3>3, UpdatingFinite DEF NumbersInv
    <3>5. QED
      BY <1>1, <2>1, <2>2, <3>1, <3>2, <3>4, NumbersGrow
  <2>5. QED
    BY <2>3, <2>4
<1>5. ASSUME NEW n \in Nodes, Crash(n)
      PROVE  NumbersInv'
  <2>1. revisions' = revisions /\ requests' = requests
    BY <1>5 DEF Crash, dbVars
  <2>2. PICK mine : req' = [t \in Tasks |-> IF t \in mine THEN Idle ELSE req[t]]
    BY <1>5 DEF Crash
  <2>3. Updating' \subseteq Updating
    BY <2>2 DEF Updating, Idle, Revising
  <2>4. Cardinality(Updating') <= Cardinality(Updating)
    BY <2>3, UpdatingFinite, FS_Subset
  <2>5. QED
    BY <1>1, <2>1, <2>4, NumbersKept
<1>6. ASSUME \/ \E n \in Nodes : Listen(n) \/ LoseConnection(n)
             \/ UNCHANGED vars
      PROVE  NumbersInv'
  <2>1. req' = req /\ revisions' = revisions /\ requests' = requests
    BY <1>6 DEF Listen, LoseConnection, vars, dbVars
  <2>2. Cardinality(Updating') <= Cardinality(Updating)
    BY <2>1, UpdatingFinite DEF Updating
  <2>3. QED
    BY <1>1, <2>1, <2>2, NumbersKept
<1>7. QED
  BY <1>2, <1>3, <1>4, <1>5, <1>6 DEF Next

LEMMA NextTypeInv ==
    TablesInv /\ TypeInv /\ NumbersInv /\ [Next]_vars => TypeInv' /\ NumbersInv'
BY NextStore, NextContents, NextRequests, NextExcused, NextNumbers DEF TypeInv

\* Every variable keeps its type, whatever the number of nodes, slugs and
\* requests: what the layers and the handlers carry is the content of an edit
\* that was made, and no revision has a number above the edits and restores
\* that were asked for.
THEOREM TypeCorrect == Spec => []TypeOK
<1>1. TablesInv /\ TypeInv /\ NumbersInv => TypeOK
  <2>1. SUFFICES ASSUME TablesInv, TypeInv, NumbersInv
                 PROVE  TypeOK
    OBVIOUS
  <2>2. edits \in Nat /\ requests \in Nat
    BY <2>1 DEF TablesInv, NumbersInv
  <2>3. Made \subseteq Contents /\ Value \subseteq Contents \cup {Absent}
    BY <2>2 DEF Made, Contents, Value
  <2>4. \A n \in Nodes : \A i \in DOMAIN inbox[n] : inbox[n][i] \in [origin : Nodes, key : Keys]
    <3>1. \A n \in Nodes : inbox[n] \in Seq(Messages)
      BY <2>1 DEF TypeInv, StoreTyped
    <3>2. \A n \in Nodes : \A i \in DOMAIN inbox[n] : inbox[n][i] \in Messages
      BY <3>1
    <3>3. QED
      BY <3>2 DEF Messages
  <2>5. pages \in [Keys -> [id : Contents, content : Contents] \cup {Absent}]
    <3>1. ASSUME NEW k \in Keys, pages[k] # Absent
          PROVE  pages[k] \in [id : Contents, content : Contents]
      <4>1. /\ pages[k] = [id |-> pages[k].id, content |-> pages[k].content]
            /\ pages[k].id \in 1..edits
        BY <2>1, <3>1 DEF TablesInv, PagesOK
      <4>2. pages[k].content \in Contents
        BY <2>1, <2>3, <3>1 DEF TypeInv, ContentsTyped
      <4>3. pages[k].id \in Contents
        BY <2>2, <4>1 DEF Contents
      <4>4. QED
        BY <4>1, <4>2, <4>3
    <3>2. pages = [k \in Keys |-> pages[k]]
      BY <2>1 DEF TablesInv, PagesOK
    <3>3. QED
      BY <3>1, <3>2
  <2>6. revisions \subseteq [id : Contents, n : 1..(edits + requests), content : Contents]
    <3>1. SUFFICES ASSUME NEW r \in revisions
                   PROVE  r \in [id : Contents, n : 1..(edits + requests), content : Contents]
      OBVIOUS
    <3>2. r = [id |-> r.id, n |-> r.n, content |-> r.content] /\ r.id \in 1..edits
      BY <2>1 DEF TablesInv, RevisionsOK
    <3>3. r.content \in Contents
      BY <2>1, <2>3 DEF TypeInv, ContentsTyped
    <3>4. r.id \in Contents
      BY <2>2, <3>2 DEF Contents
    <3>5. r.n \in 1..(edits + requests)
      BY <2>1, <2>2, UpdatingFinite DEF NumbersInv
    <3>6. QED
      BY <3>2, <3>3, <3>4, <3>5
  <2>7. /\ local \in [Nodes -> [Keys -> Contents \cup {Absent}]]
        /\ remote \in [Keys -> Contents \cup {Absent}]
        /\ listening \subseteq Nodes /\ excused \subseteq Keys /\ torn \subseteq Contents
    BY <2>1, <2>3 DEF TypeInv, StoreTyped, ContentsTyped
  <2>8. \A t \in Tasks : ~At(t, "idle") => req[t].node \in Nodes /\ req[t].key \in Keys
    BY <2>1 DEF TypeInv, Typed, At
  <2>9. QED
    BY <2>4, <2>5, <2>6, <2>7, <2>8 DEF TypeOK
<1>2. QED
  BY <1>1, InitTablesInv, NextTablesInv, InitTypeInv, NextTypeInv, PTL DEF Spec

-----------------------------------------------------------------------------
(* The implementation of PageHistory.                                      *)

\* What m revisions say, in the order of their numbers.
InOrder(R, m) == [i \in 1..m |-> (CHOOSE r \in R : r.n = i).content]

\* R holds m revisions, numbered from 1.
Numbered(R, m) ==
    /\ \A r \in R : r.n \in 1..m
    /\ \A i \in 1..m : \E r \in R : r.n = i
    /\ \A r, s \in R : r.n = s.n => r = s

\* Read in their order they are a sequence, with each at its number.
LEMMA OrderTyped ==
    ASSUME NEW R, NEW m \in Nat, Numbered(R, m), \A r \in R : r.content \in Nat
    PROVE  /\ InOrder(R, m) \in Seq(Nat) /\ Len(InOrder(R, m)) = m
           /\ \A r \in R : InOrder(R, m)[r.n] = r.content
<1> DEFINE c(i) == CHOOSE r \in R : r.n = i
<1>1. \A i \in 1..m : c(i) \in R /\ c(i).n = i
  <2>1. SUFFICES ASSUME NEW i \in 1..m
                 PROVE  c(i) \in R /\ c(i).n = i
    OBVIOUS
  <2>2. \E r \in R : r.n = i
    BY DEF Numbered
  <2>3. QED
    BY <2>2
<1> HIDE DEF c
<1>2. InOrder(R, m) = [i \in 1..m |-> c(i).content]
  BY DEF InOrder, c
<1>3. InOrder(R, m) \in [1..m -> Nat]
  BY <1>1, <1>2
<1>4. InOrder(R, m) \in Seq(Nat)
  BY <1>3
<1>5. Len(InOrder(R, m)) = m
  BY <1>3, <1>4
<1>6. ASSUME NEW r \in R
      PROVE  InOrder(R, m)[r.n] = r.content
  <2>1. r.n \in 1..m
    BY DEF Numbered
  <2>2. c(r.n) = r
    BY <1>1, <2>1 DEF Numbered
  <2>3. QED
    BY <1>2, <2>1, <2>2
<1>7. QED
  BY <1>4, <1>5, <1>6

\* A revision with the next number is appended.
LEMMA OrderAppends ==
    ASSUME NEW R, NEW m \in Nat, Numbered(R, m), NEW rev, rev.n = m + 1,
           \A r \in R : r.content \in Nat, rev.content \in Nat
    PROVE  InOrder(R \cup {rev}, m + 1) = Append(InOrder(R, m), rev.content)
<1>1. PICK T : T = R \cup {rev}
  OBVIOUS
<1>2. PICK k \in Nat : k = m + 1
  OBVIOUS
<1>3. PICK old : old = InOrder(R, m)
  OBVIOUS
<1>4. PICK new : new = InOrder(T, k)
  OBVIOUS
<1>5. Numbered(T, k)
  BY <1>1, <1>2 DEF Numbered
<1>6. \A r \in T : r.content \in Nat
  BY <1>1
<1>7. /\ new \in Seq(Nat) /\ Len(new) = k
      /\ \A r \in T : new[r.n] = r.content
  BY <1>4, <1>5, <1>6, OrderTyped
<1>8. /\ old \in Seq(Nat) /\ Len(old) = m
      /\ \A r \in R : old[r.n] = r.content
  BY <1>3, OrderTyped
<1>9. PICK app : app = Append(old, rev.content)
  OBVIOUS
<1>10. /\ app \in Seq(Nat) /\ Len(app) = k
       /\ \A i \in 1..m : app[i] = old[i]
       /\ app[k] = rev.content
  BY <1>2, <1>8, <1>9, AppendProperties
<1>11. \A i \in 1..k : new[i] = app[i]
  <2>1. SUFFICES ASSUME NEW i \in 1..k
                 PROVE  new[i] = app[i]
    OBVIOUS
  <2>2. CASE i = k
    BY <1>1, <1>2, <1>7, <1>10, <2>2
  <2>3. CASE i \in 1..m
    <3>1. PICK r \in R : r.n = i
      BY <2>3 DEF Numbered
    <3>2. new[i] = r.content /\ old[i] = r.content
      BY <1>1, <1>7, <1>8, <3>1
    <3>3. QED
      BY <1>10, <2>3, <3>2
  <2>4. QED
    BY <1>2, <2>2, <2>3
<1>12. new = app
  BY <1>7, <1>10, <1>11, SeqEqual
<1>13. QED
  BY <1>1, <1>2, <1>3, <1>4, <1>9, <1>12

\* A page without revisions has an empty log.
LEMMA EmptyOrder ==
    ASSUME NEW R, R = {}
    PROVE  InOrder(R, 0) = <<>>
<1>1. Numbered(R, 0) /\ \A r \in R : r.content \in Nat
  BY DEF Numbered
<1>2. InOrder(R, 0) \in Seq(Nat) /\ Len(InOrder(R, 0)) = 0
  BY <1>1, OrderTyped
<1>3. QED
  BY <1>2, EmptySeq

\* The history of every page is such a set.
LEMMA LogIsOrder ==
    ASSUME TablesInv, TypeInv, NEW id
    PROVE  \E m \in Nat : /\ Numbers(id) = 1..m /\ Numbered(Revisions(id), m)
                          /\ Log(id) = InOrder(Revisions(id), m)
                          /\ \A r \in Revisions(id) : r.content \in Nat
<1>1. PICK m \in Nat : Numbers(id) = 1..m
  BY DEF TablesInv, RevisionsOK, Gapless
<1>2. Cardinality(Numbers(id)) = m
  BY <1>1, FS_Interval
<1>3. Log(id) = InOrder(Revisions(id), m)
  BY <1>2 DEF Log, InOrder
<1>4. \A r, s \in Revisions(id) : r.n = s.n => r = s
  BY DEF Revisions, TablesInv, RevisionsOK
<1>5. Numbered(Revisions(id), m)
  <2>1. (\A r \in Revisions(id) : r.n \in 1..m) /\ \A i \in 1..m : \E r \in Revisions(id) : r.n = i
    BY <1>1 DEF Numbers
  <2>2. QED
    BY <1>4, <2>1 DEF Numbered
<1>6. \A r \in Revisions(id) : r.content \in Nat
  BY DEF Revisions, TypeInv, ContentsTyped, Made, TablesInv
<1>7. QED
  BY <1>1, <1>3, <1>5, <1>6

LEMMA LogEmpty ==
    ASSUME NEW id, Numbers(id) = {}
    PROVE  Log(id) = <<>>
<1>1. Revisions(id) = {}
  BY DEF Numbers
<1>2. Cardinality(Numbers(id)) = 0
  BY FS_EmptySet
<1>3. Log(id) = InOrder(Revisions(id), 0)
  BY <1>2 DEF Log, InOrder
<1>4. QED
  BY <1>1, <1>3, EmptyOrder

LEMMA LogSame ==
    ASSUME NEW id, Revisions(id)' = Revisions(id)
    PROVE  Log(id)' = Log(id)
BY DEF Log, Numbers

\* The revision that a transaction adds is appended to the log of its page and
\* leaves those of the others.
LEMMA AddToLog ==
    ASSUME TablesInv, TypeInv, NEW rev, revisions' = revisions \cup {rev},
           rev.n \notin Numbers(rev.id), Follows(rev.id, rev.n), rev.content \in Nat
    PROVE  /\ Log(rev.id)' = Append(Log(rev.id), rev.content)
           /\ \A id : id # rev.id => Log(id)' = Log(id)
<1>1. PICK m \in Nat : /\ Numbers(rev.id) = 1..m /\ Numbered(Revisions(rev.id), m)
                       /\ Log(rev.id) = InOrder(Revisions(rev.id), m)
                       /\ \A r \in Revisions(rev.id) : r.content \in Nat
  BY LogIsOrder
<1>2. rev.n = m + 1
  BY <1>1 DEF Follows
<1>3. PICK R : R = Revisions(rev.id)
  OBVIOUS
<1>4. Revisions(rev.id)' = R \cup {rev} /\ Numbers(rev.id)' = (1..m) \cup {m + 1}
  BY <1>1, <1>2, <1>3, AddRevision
<1>5. Cardinality(Numbers(rev.id)') = m + 1
  <2>1. PICK k \in Nat : k = m + 1
    OBVIOUS
  <2>2. (1..m) \cup {m + 1} = 1..k
    BY <2>1
  <2>3. Cardinality(1..k) = k
    BY FS_Interval
  <2>4. QED
    BY <1>4, <2>1, <2>2, <2>3
<1>6. Log(rev.id)' = InOrder(R \cup {rev}, m + 1)
  BY <1>4, <1>5 DEF Log, InOrder
<1>7. InOrder(R \cup {rev}, m + 1) = Append(InOrder(R, m), rev.content)
  <2>1. Numbered(R, m) /\ \A r \in R : r.content \in Nat
    BY <1>1, <1>3
  <2>2. QED
    BY <1>2, <2>1, OrderAppends
<1>8. \A id : id # rev.id => Log(id)' = Log(id)
  BY AddRevision, LogSame
<1>9. QED
  BY <1>1, <1>3, <1>6, <1>7, <1>8

\* A step that changes at most the page of one slug.
LEMMA OnePage ==
    ASSUME NEW k \in Keys, NEW c, NEW l, Current(k)' = c, Entries(k)' = l,
           \A j \in Keys : j # k => Current(j)' = Current(j) /\ Entries(j)' = Entries(j)
    PROVE  /\ Shown' = [Shown EXCEPT ![k] = c] /\ Logs' = [Logs EXCEPT ![k] = l]
           /\ Shown[k] = Current(k) /\ Logs[k] = Entries(k)
BY DEF Shown, Logs

LEMMA SamePages ==
    ASSUME \A j \in Keys : Current(j)' = Current(j) /\ Entries(j)' = Entries(j)
    PROVE  Shown' = Shown /\ Logs' = Logs
BY DEF Shown, Logs

\* The tables of a step that leaves them show the same pages.
LEMMA TablesSame ==
    ASSUME UNCHANGED <<pages, revisions>>
    PROVE  Shown' = Shown /\ Logs' = Logs
<1>1. \A id : Log(id)' = Log(id)
  BY LogSame DEF Revisions
<1>2. \A j \in Keys : Current(j)' = Current(j) /\ Entries(j)' = Entries(j)
  BY <1>1 DEF Current, Entries
<1>3. QED
  BY <1>2, SamePages

PageStep == [Service!Next]_<<Shown, Logs, edits>>

LEMMA Stutter ==
    ASSUME UNCHANGED <<pages, revisions, edits>>
    PROVE  PageStep
BY TablesSame DEF PageStep

\* A page that is inserted has an identity that no revision has.
LEMMA NewPage ==
    ASSUME TablesInv, NEW k \in Keys, pages[k] = Absent, NewEdit,
           NEW c, c = edits', pages' = [pages EXCEPT ![k] = [id |-> c, content |-> c]]
    PROVE  /\ Numbers(c) = {} /\ c \in Nat
           /\ Current(k) = Absent /\ Entries(k) = <<>>
           /\ Current(k)' = c /\ Entries(k)' = Log(c)'
           /\ (\A id : id # c => Log(id)' = Log(id))
                 => \A j \in Keys : j # k => Current(j)' = Current(j) /\ Entries(j)' = Entries(j)
<1>1. /\ edits \in Nat /\ c = edits + 1 /\ c \in Nat
      /\ \A r \in revisions : r.id \in 1..edits
      /\ \A j \in Keys : pages[j] # Absent => pages[j].id \in 1..edits
      /\ pages = [j \in Keys |-> pages[j]]
  BY DEF TablesInv, RevisionsOK, PagesOK, NewEdit
<1>2. Numbers(c) = {}
  <2>1. \A r \in revisions : r.id # c
    BY <1>1
  <2>2. QED
    BY <2>1 DEF Numbers, Revisions
<1>3. pages'[k] # Absent /\ pages'[k].id = c /\ pages'[k].content = c
  BY <1>1
<1>4. \A j \in Keys : j # k => pages'[j] = pages[j] /\ (pages[j] # Absent => pages[j].id # c)
  BY <1>1
<1>5. QED
  BY <1>1, <1>2, <1>3, <1>4 DEF Current, Entries

LEMMA InsertPageRefines ==
    ASSUME TablesInv, TypeInv, NEW t \in Tasks, InsertPage(t)
    PROVE  PageStep
<1>1. CASE pages[req[t].key] # Absent
  BY <1>1, Stutter DEF InsertPage, dbVars, histVars
<1>2. CASE pages[req[t].key] = Absent
  <2>1. PICK k : k = req[t].key
    OBVIOUS
  <2>2. PICK c : c = edits'
    OBVIOUS
  <2>3. PICK rev : rev = [id |-> c, n |-> 1, content |-> c]
    OBVIOUS
  <2>4. /\ k \in Keys /\ pages[k] = Absent /\ NewEdit
        /\ pages' = [pages EXCEPT ![k] = [id |-> c, content |-> c]]
        /\ revisions' = revisions \cup {rev}
    BY <1>2, <2>1, <2>2, <2>3 DEF InsertPage, At, TablesInv, RequestsOK, Fine
  <2>5. /\ Numbers(c) = {} /\ c \in Nat
        /\ Current(k) = Absent /\ Entries(k) = <<>>
        /\ Current(k)' = c /\ Entries(k)' = Log(c)'
        /\ (\A id : id # c => Log(id)' = Log(id))
              => \A j \in Keys : j # k => Current(j)' = Current(j) /\ Entries(j)' = Entries(j)
    BY <2>2, <2>4, NewPage
  <2>6. rev.id = c /\ rev.n = 1 /\ rev.content = c
    BY <2>3
  <2>7. Log(c)' = Append(Log(c), c) /\ \A id : id # c => Log(id)' = Log(id)
    <3>1. rev.n \notin Numbers(rev.id) /\ Follows(rev.id, rev.n) /\ rev.content \in Nat
      BY <2>5, <2>6 DEF Follows
    <3>2. QED
      BY <2>4, <2>6, <3>1, AddToLog
  <2>8. Log(c) = <<>>
    BY <2>5, LogEmpty
  <2>9. Entries(k)' = <<c>>
    BY <2>5, <2>7, <2>8
  <2>10. /\ Shown' = [Shown EXCEPT ![k] = c] /\ Logs' = [Logs EXCEPT ![k] = <<c>>]
         /\ Shown[k] = Absent
    BY <2>4, <2>5, <2>7, <2>9, OnePage
  <2>11. Service!Create(k)
    BY <2>2, <2>4, <2>10 DEF Service!Create, NewEdit
  <2>12. QED
    BY <2>4, <2>11 DEF PageStep, Service!Next
<1>3. QED
  BY <1>1, <1>2

LEMMA InsertWelcomeRefines ==
    ASSUME TablesInv, TypeInv, NEW n \in Nodes, InsertWelcome(n)
    PROVE  PageStep
<1>1. CASE pages[Welcome] # Absent
  BY <1>1, Stutter DEF InsertWelcome, dbVars, histVars
<1>2. CASE pages[Welcome] = Absent
  <2>1. PICK c : c = edits'
    OBVIOUS
  <2>2. /\ NewEdit /\ revisions' = revisions
        /\ pages' = [pages EXCEPT ![Welcome] = [id |-> c, content |-> c]]
    BY <1>2, <2>1 DEF InsertWelcome
  <2>3. \A id : Log(id)' = Log(id)
    BY <2>2, LogSame DEF Revisions
  <2>4. /\ Numbers(c) = {} /\ c \in Nat
        /\ Current(Welcome) = Absent /\ Entries(Welcome) = <<>>
        /\ Current(Welcome)' = c /\ Entries(Welcome)' = Log(c)
        /\ \A j \in Keys : j # Welcome => Current(j)' = Current(j) /\ Entries(j)' = Entries(j)
    BY <1>2, <2>1, <2>2, <2>3, NewPage
  <2>5. Entries(Welcome)' = Entries(Welcome)
    BY <2>4, LogEmpty
  <2>6. PICK l : l = Entries(Welcome)
    OBVIOUS
  <2>7. /\ Shown' = [Shown EXCEPT ![Welcome] = c] /\ Logs' = [Logs EXCEPT ![Welcome] = l]
        /\ Shown[Welcome] = Absent /\ Logs[Welcome] = l
    BY <2>4, <2>5, <2>6, OnePage
  <2>8. Logs' = Logs
    BY <2>7 DEF Logs
  <2>9. Service!Seed(Welcome)
    BY <2>1, <2>2, <2>7, <2>8 DEF Service!Seed, NewEdit
  <2>10. QED
    BY <2>9 DEF PageStep, Service!Next
<1>3. QED
  BY <1>1, <1>2

\* What an update appends is its own edit, on the page it read, whichever
\* commits came between.
LEMMA CommitRefines ==
    ASSUME TablesInv, TypeInv, NEW t \in Tasks, CommitUpdate(t)
    PROVE  PageStep
<1>1. CASE ~Updates(t)
  BY <1>1, Stutter DEF CommitUpdate, dbVars, histVars
<1>2. CASE Updates(t)
  <2>1. PICK k : k = req[t].key
    OBVIOUS
  <2>2. PICK c : c = req[t].edit
    OBVIOUS
  <2>3. PICK rev : rev = [id |-> req[t].id, n |-> req[t].n, content |-> c]
    OBVIOUS
  <2>4. rev.id = req[t].id /\ rev.n = req[t].n /\ rev.content = c
    BY <2>3
  <2>5. /\ pages' = [pages EXCEPT ![k].content = c] /\ revisions' = revisions \cup {rev}
        /\ edits' = edits
    BY <1>2, <2>1, <2>2, <2>3 DEF CommitUpdate
  <2>6. /\ pages[k] # Absent /\ pages[k].id = rev.id /\ rev.n \notin Numbers(rev.id)
    BY <1>2, <2>1, <2>4 DEF Updates
  <2>7. /\ k \in Keys /\ Follows(rev.id, rev.n)
    BY <2>1, <2>4 DEF CommitUpdate, At, TablesInv, RequestsOK, Fine
  <2>8. edits \in Nat /\ c \in 1..edits
    BY <2>2 DEF CommitUpdate, At, TypeInv, Typed, Made, TablesInv
  <2>9. /\ Log(rev.id)' = Append(Log(rev.id), c)
        /\ \A id : id # rev.id => Log(id)' = Log(id)
    BY <2>4, <2>5, <2>6, <2>7, <2>8, AddToLog
  <2>10. /\ pages = [j \in Keys |-> pages[j]]
         /\ pages[k] = [id |-> rev.id, content |-> pages[k].content]
         /\ rev.id \in Nat
         /\ \A j \in Keys : j # k /\ pages[j] # Absent => pages[j].id # rev.id
    BY <2>6, <2>7, <2>8 DEF TablesInv, PagesOK
  <2>11. /\ pages'[k] = [id |-> rev.id, content |-> c]
         /\ \A j \in Keys : j # k => pages'[j] = pages[j]
    BY <2>5, <2>7, <2>10
  <2>12. pages'[k] # Absent /\ pages'[k].id = rev.id /\ pages'[k].content = c
    BY <2>8, <2>10, <2>11
  <2>13. PICK l : l = Append(Log(rev.id), c)
    OBVIOUS
  <2>14. /\ Current(k)' = c /\ Entries(k)' = l /\ Entries(k) = Log(rev.id)
         /\ \A j \in Keys : j # k => Current(j)' = Current(j) /\ Entries(j)' = Entries(j)
    BY <2>6, <2>9, <2>10, <2>11, <2>12, <2>13 DEF Current, Entries
  <2>15. Current(k) # Absent
    BY <2>6, <2>7, <2>8 DEF Current, TypeInv, ContentsTyped, Made
  <2>16. /\ Shown' = [Shown EXCEPT ![k] = c] /\ Logs' = [Logs EXCEPT ![k] = l]
         /\ Shown[k] = Current(k) /\ Logs[k] = Entries(k)
    BY <2>7, <2>14, OnePage
  <2>17. Logs' = [Logs EXCEPT ![k] = Append(@, c)]
    BY <2>13, <2>14, <2>16
  <2>18. Service!Edit(k)
    BY <2>5, <2>8, <2>15, <2>16, <2>17 DEF Service!Edit
  <2>19. QED
    BY <2>7, <2>18 DEF PageStep, Service!Next
<1>3. QED
  BY <1>1, <1>2

\* The seeding writes the first entry of a page that nobody has edited yet, or
\* the page is gone.
LEMMA InsertWelcomeRevisionRefines ==
    ASSUME TablesInv, TypeInv, NEW n \in Nodes, InsertWelcomeRevision(n)
    PROVE  PageStep
<1>1. PICK id : id = boot[n].id
  OBVIOUS
<1>2. CASE 1 \in Numbers(id)
  BY <1>1, <1>2, Stutter DEF InsertWelcomeRevision
<1>3. CASE 1 \notin Numbers(id)
  <2>1. PICK rev : rev = [id |-> id, n |-> 1, content |-> id]
    OBVIOUS
  <2>2. rev.id = id /\ rev.n = 1 /\ rev.content = id
    BY <2>1
  <2>3. revisions' = revisions \cup {rev} /\ UNCHANGED <<pages, edits>>
    BY <1>1, <1>3, <2>1 DEF InsertWelcomeRevision
  <2>4. edits \in Nat /\ id \in 1..edits
    BY <1>1 DEF InsertWelcomeRevision, Booting, TablesInv, BootOK
  <2>5. Numbers(id) = {}
    <3>1. PICK m \in Nat : Numbers(id) = 1..m
      BY DEF TablesInv, RevisionsOK, Gapless
    <3>2. QED
      BY <1>3, <3>1
  <2>6. Log(id)' = Append(Log(id), id) /\ \A i : i # id => Log(i)' = Log(i)
    <3>1. rev.n \notin Numbers(rev.id) /\ Follows(rev.id, rev.n) /\ rev.content \in Nat
      BY <2>2, <2>4, <2>5 DEF Follows
    <3>2. QED
      BY <2>2, <2>3, <3>1, AddToLog
  <2>7. Log(id) = <<>>
    BY <2>5, LogEmpty
  <2>8. \A j \in Keys : Current(j)' = Current(j)
    BY <2>3 DEF Current
  <2>9. ASSUME NEW k \in Keys, pages[k] # Absent, pages[k].id = id
        PROVE  PageStep
    <3>1. ~Latest(id, pages[k].content)
      BY <2>5 DEF Latest, Numbers
    <3>2. pages[k].content = id
      BY <2>9, <3>1 DEF TablesInv, LastOK, Unwritten
    <3>3. \A j \in Keys : j # k /\ pages[j] # Absent => pages[j].id # id
      BY <2>9 DEF TablesInv, PagesOK
    <3>4. PICK l : l = <<id>>
      OBVIOUS
    <3>5. /\ Entries(k) = <<>> /\ Entries(k)' = l
          /\ \A j \in Keys : j # k => Entries(j)' = Entries(j)
      BY <2>3, <2>6, <2>7, <2>9, <3>3, <3>4 DEF Entries
    <3>6. Current(k) = id /\ Current(k) # Absent
      BY <2>4, <2>9, <3>2 DEF Current
    <3>7. /\ Logs' = [Logs EXCEPT ![k] = l] /\ Shown[k] = id /\ Logs[k] = <<>>
      BY <2>8, <3>5, <3>6, OnePage
    <3>8. Shown' = Shown
      BY <2>8 DEF Shown
    <3>9. Service!Record(k)
      BY <2>3, <3>4, <3>6, <3>7, <3>8 DEF Service!Record
    <3>10. QED
      BY <3>9 DEF PageStep, Service!Next
  <2>10. CASE \A k \in Keys : pages[k] # Absent => pages[k].id # id
    <3>1. \A j \in Keys : Entries(j)' = Entries(j)
      BY <2>3, <2>6, <2>10 DEF Entries
    <3>2. Shown' = Shown /\ Logs' = Logs
      BY <2>8, <3>1, SamePages
    <3>3. QED
      BY <2>3, <3>2 DEF PageStep
  <2>11. QED
    BY <2>9, <2>10
<1>4. QED
  BY <1>2, <1>3

LEMMA StartRefines ==
    ASSUME TablesInv, TypeInv, NEW t \in Tasks, Start(t)
    PROVE  PageStep
<1>1. PICK n \in Nodes, k \in Keys :
         Get(t, n, k) \/ Create(t, n, k) \/ Update(t, n, k) \/ Restore(t, n, k) \/ Delete(t, n, k)
  BY DEF Start
<1>2. CASE Get(t, n, k) \/ Create(t, n, k) \/ Restore(t, n, k)
  BY <1>2, Stutter DEF Get, Create, Restore, dbVars, histVars
<1>3. CASE Update(t, n, k)
  <2>1. Shown' = Shown /\ Logs' = Logs
    BY <1>3, TablesSame DEF Update, dbVars
  <2>2. Service!Submit
    BY <1>3, <2>1 DEF Update, NewEdit, Service!Submit
  <2>3. QED
    BY <2>2 DEF PageStep, Service!Next
<1>4. CASE Delete(t, n, k)
  <2>1. /\ pages[k] # Absent /\ pages' = [pages EXCEPT ![k] = Absent]
        /\ revisions' = revisions /\ edits' = edits
    BY <1>4 DEF Delete, histVars
  <2>2. pages = [j \in Keys |-> pages[j]]
    BY DEF TablesInv, PagesOK
  <2>3. \A id : Log(id)' = Log(id)
    BY <2>1, LogSame DEF Revisions
  <2>4. /\ Current(k)' = Absent /\ Entries(k)' = <<>>
        /\ \A j \in Keys : j # k => Current(j)' = Current(j) /\ Entries(j)' = Entries(j)
    BY <2>1, <2>2, <2>3 DEF Current, Entries
  <2>5. Current(k) # Absent
    BY <2>1 DEF Current, TypeInv, ContentsTyped, Made, TablesInv
  <2>6. /\ Shown' = [Shown EXCEPT ![k] = Absent] /\ Logs' = [Logs EXCEPT ![k] = <<>>]
        /\ Shown[k] = Current(k)
    BY <2>4, OnePage
  <2>7. Service!Delete(k)
    BY <2>1, <2>5, <2>6 DEF Service!Delete
  <2>8. QED
    BY <2>7 DEF PageStep, Service!Next
<1>5. QED
  BY <1>1, <1>2, <1>3, <1>4

LEMMA HistoryStep == TablesInv /\ TypeInv /\ [Next]_vars => PageStep
<1> SUFFICES ASSUME TablesInv, TypeInv, [Next]_vars
             PROVE  PageStep
  OBVIOUS
<1> USE DEF dbVars, histVars
<1>1. ASSUME NEW t \in Tasks, Step(t)
      PROVE  PageStep
  <2>1. CASE InsertPage(t) \/ CommitUpdate(t)
    BY <2>1, InsertPageRefines, CommitRefines
  <2>2. CASE \/ Fetch(t) \/ Query(t) \/ MakeRoom(t) \/ Insert(t) \/ Remove(t) \/ SetOrDel(t)
             \/ Announce(t) \/ ReadSnapshot(t) \/ ReadPage(t) \/ ReadNext(t)
    BY <2>2, Stutter DEF Fetch, Query, MakeRoom, Insert, Remove, SetOrDel, Announce,
       ReadSnapshot, ReadPage, ReadNext
  <2>3. QED
    BY <1>1, <2>1, <2>2 DEF Step
<1>2. ASSUME NEW n \in Nodes, Seed(n)
      PROVE  PageStep
  <2>1. CASE InsertWelcome(n) \/ InsertWelcomeRevision(n)
    BY <2>1, InsertWelcomeRefines, InsertWelcomeRevisionRefines
  <2>2. CASE CheckUser(n) \/ InsertUser(n) \/ CheckWelcome(n)
    BY <2>2, Stutter DEF CheckUser, InsertUser, CheckWelcome
  <2>3. QED
    BY <1>2, <2>1, <2>2 DEF Seed
<1>3. ASSUME NEW t \in Tasks, Abandon(t)
      PROVE  PageStep
  BY <1>3, Stutter DEF Abandon
<1>4. ASSUME NEW n \in Nodes, Listen(n) \/ Crash(n) \/ LoseConnection(n)
      PROVE  PageStep
  BY <1>4, Stutter DEF Listen, Crash, LoseConnection
<1>5. CASE UNCHANGED vars
  BY <1>5, Stutter DEF vars
<1>6. QED
  BY <1>1, <1>2, <1>3, <1>4, <1>5, StartRefines DEF Next

\* The page service implements the log that PageHistory describes, for any
\* number of nodes, slugs and requests: what a handler committed on a reading
\* two awaits old, what crashed, what was dropped and what several nodes seeded
\* at a time adds up to edits that happened one at a time (service.rs:77, the
\* UNIQUE (page_id, revision) of the transaction).
THEOREM ImplementsHistory == Spec => PagesAreLogs
<1>1. Init => Service!Init
  <2>1. SUFFICES ASSUME Init
                 PROVE  Service!Init
    OBVIOUS
  <2>2. \A k \in Keys : Current(k) = Absent /\ Entries(k) = <<>>
    BY <2>1 DEF Init, Current, Entries
  <2>3. QED
    BY <2>1, <2>2 DEF Init, Service!Init, Shown, Logs
<1>2. QED
  BY <1>1, InitTablesInv, NextTablesInv, InitTypeInv, NextTypeInv, HistoryStep,
     PTL DEF Spec, PagesAreLogs, Service!Spec, PageStep
=============================================================================
