--------------------------- MODULE WikiCacheProofs ---------------------------
(***************************************************************************)
(* Proofs about the page cache of Wiki, for any nodes, slugs, capacity and *)
(* bounds and any finite set of tasks: once everything has come to rest a  *)
(* copy that differs from the database is one that a race, a lost message  *)
(* or a failure explains, and the map of a node exceeds its capacity by    *)
(* less than one entry per task.  The first invariant says of every copy   *)
(* that is not current who is on the way to remove it; the second counts a *)
(* task that found room as if it had inserted.                             *)
(***************************************************************************)
EXTENDS Wiki, TLAPS, FiniteSetTheorems, SequenceTheorems

USE HybridStoreAssumption, WikiAssumption

-----------------------------------------------------------------------------
(* The copies.                                                             *)

Layers ==
    /\ local = [n \in Nodes |-> local[n]]
    /\ \A n \in Nodes : local[n] = [k \in Keys |-> local[n][k]]
    /\ remote = [k \in Keys |-> remote[k]]
    /\ inbox \in [Nodes -> Seq([origin : Nodes, key : Keys])]
    /\ pages = [k \in Keys |-> pages[k]]
    /\ boot = [n \in Nodes |-> boot[n]]

\* A handler runs on a node that is up, and knows what its steps need.
Seated(r) ==
    /\ "pc" \in DOMAIN r
    /\ r.pc # "idle" => /\ {"node", "key"} \subseteq DOMAIN r
                        /\ r.node \in Nodes /\ r.key \in Keys
                        /\ boot[r.node].pc = "up"
    /\ r.pc \in {"room", "insert", "set"} => {"val", "fill"} \subseteq DOMAIN r

Placed ==
    /\ req = [t \in Tasks |-> req[t]]
    /\ \A t \in Tasks : Seated(req[t])
    /\ \A n \in Nodes : boot[n].pc # "up" =>
          n \notin listening /\ \A k \in Keys : local[n][k] = Absent

\* A copy of k in Redis, or in the map of n, may differ from the database as
\* long as someone is on his way to remove it.
Clears(t, k) == req[t].pc \in {"remove", "del"} /\ req[t].key = k
Tells(t, n, k) ==
    /\ req[t].key = k
    /\ \/ req[t].pc = "remove"
       \/ req[t].pc \in {"del", "publish"} /\ req[t].node # n
Heard(n, k) == \E i \in DOMAIN inbox[n] : inbox[n][i].key = k /\ inbox[n][i].origin # n

RemoteOK(k) == remote[k] \in {Absent, Current(k)} \/ \E t \in Tasks : Clears(t, k)
LocalOK(n, k) ==
    \/ local[n][k] \in {Absent, Current(k)}
    \/ \E t \in Tasks : Tells(t, n, k)
    \/ Heard(n, k)
InHandOK(k) == \A t \in Tasks : Carries(t) /\ req[t].key = k => req[t].val = Current(k)

Coherent ==
    \A k \in Keys \ excused :
        RemoteOK(k) /\ InHandOK(k) /\ \A n \in Nodes : LocalOK(n, k)

CacheInv == Layers /\ Placed /\ Coherent

LEMMA InitCacheInv == Init => CacheInv
<1>1. SUFFICES ASSUME Init
               PROVE  CacheInv
  OBVIOUS
<1>2. Layers
  BY <1>1 DEF Init, StoreInit, Layers
<1>3. Placed
  BY <1>1 DEF Init, StoreInit, Placed, Seated, Idle
<1>4. Coherent
  BY <1>1 DEF Init, StoreInit, Coherent, RemoteOK, InHandOK, LocalOK, Carries, Idle
<1>5. QED
  BY <1>2, <1>3, <1>4 DEF CacheInv

-----------------------------------------------------------------------------
(* What a step is made of.                                                 *)

LEMMA Watched ==
    ASSUME NEW ks, Watch(ks)
    PROVE  excused \subseteq excused' /\ ks \subseteq excused'
           /\ \A k \in Keys \ excused' : InHandOK(k)'
BY DEF Watch, InHandOK

\* Where a handler is after a step of its own, on the same node and key.
Moved(t, l) ==
    /\ req' = [u \in Tasks |-> req'[u]]
    /\ \A u \in Tasks : u # t => req'[u] = req[u]
    /\ req'[t].pc = l /\ Seated(req'[t])
    /\ l # "idle" /\ req[t].pc # "idle" =>
          req'[t].node = req[t].node /\ req'[t].key = req[t].key

LEMMA Gotoes ==
    ASSUME CacheInv, NEW t \in Tasks, req[t].pc # "idle", NEW l, Goto(t, l), l # "idle",
           l \in {"room", "insert", "set"} => req[t].pc \in {"room", "insert", "set"}
    PROVE  /\ Moved(t, l)
           /\ l \in {"room", "insert", "set"} => req'[t].val = req[t].val /\ req'[t].fill = req[t].fill
<1>1. req' = [req EXCEPT ![t] = [req[t] EXCEPT !.pc = l]]
  BY DEF Goto, CacheInv, Placed
<1>2. Seated(req[t])
  BY DEF CacheInv, Placed
<1> DEFINE x == [req[t] EXCEPT !.pc = l]
<1>3. /\ x.pc = l /\ x.node = req[t].node /\ x.key = req[t].key /\ DOMAIN x = DOMAIN req[t]
      /\ l \in {"room", "insert", "set"} => x.val = req[t].val /\ x.fill = req[t].fill
  BY <1>2 DEF Seated
<1>4. Seated(x)
  BY <1>2, <1>3 DEF Seated
<1>5. /\ req' = [u \in Tasks |-> req'[u]] /\ req'[t] = x
      /\ \A u \in Tasks : u # t => req'[u] = req[u]
  BY <1>1 DEF CacheInv, Placed
<1> HIDE DEF x
<1>6. QED
  BY <1>3, <1>4, <1>5 DEF Moved

LEMMA Finishes ==
    ASSUME CacheInv, NEW t \in Tasks, Finish(t)
    PROVE  Moved(t, "idle")
<1>1. /\ req' = [u \in Tasks |-> req'[u]] /\ req'[t] = Idle
      /\ \A u \in Tasks : u # t => req'[u] = req[u]
  BY DEF Finish, CacheInv, Placed
<1>2. QED
  BY <1>1 DEF Moved, Idle, Seated

\* The handler of t goes to l and may find or leave behind what it will.
LEMMA StaysPlaced ==
    ASSUME CacheInv, NEW t \in Tasks, NEW l, Moved(t, l),
           boot' = boot, listening' = listening, local' = local
    PROVE  Placed'
<1>1. \A r : Seated(r) => Seated(r)'
  BY DEF Seated
<1>2. \A u \in Tasks : Seated(req'[u])
  BY DEF Moved, CacheInv, Placed
<1>3. \A u \in Tasks : Seated(req[u])'
  BY <1>2 DEF Seated
<1>4. QED
  BY <1>3 DEF Moved, CacheInv, Placed

\* Who else is on his way stays so.
LEMMA OthersTell ==
    ASSUME CacheInv, NEW t \in Tasks, NEW l, Moved(t, l), NEW k,
           req[t].pc \notin {"remove", "del", "publish"} \/ req[t].key # k
    PROVE  /\ (\E u \in Tasks : Clears(u, k)) => (\E u \in Tasks : Clears(u, k)')
           /\ \A n : (\E u \in Tasks : Tells(u, n, k)) => (\E u \in Tasks : Tells(u, n, k)')
<1>1. ASSUME NEW u \in Tasks, Clears(u, k)
      PROVE  Clears(u, k)'
  BY <1>1 DEF Clears, Moved
<1>2. ASSUME NEW u \in Tasks, NEW n, Tells(u, n, k)
      PROVE  Tells(u, n, k)'
  BY <1>2 DEF Tells, Moved
<1>3. QED
  BY <1>1, <1>2

LEMMA SameCopies ==
    ASSUME CacheInv, NEW k \in Keys \ excused, storeVars' = storeVars,
           Current(k)' = Current(k) \/ Current(k) = Absent,
           (\E u \in Tasks : Clears(u, k)) => (\E u \in Tasks : Clears(u, k)'),
           \A n : (\E u \in Tasks : Tells(u, n, k)) => (\E u \in Tasks : Tells(u, n, k)')
    PROVE  RemoteOK(k)' /\ \A n \in Nodes : LocalOK(n, k)'
<1>1. local' = local /\ remote' = remote /\ inbox' = inbox
  BY DEF storeVars
<1>2. RemoteOK(k)'
  BY <1>1 DEF CacheInv, Coherent, RemoteOK
<1>3. ASSUME NEW n \in Nodes
      PROVE  LocalOK(n, k)'
  <2>1. Heard(n, k) => Heard(n, k)'
    BY <1>1 DEF Heard
  <2>2. LocalOK(n, k)
    BY DEF CacheInv, Coherent
  <2>3. CASE local[n][k] \in {Absent, Current(k)}
    BY <1>1, <2>3 DEF LocalOK
  <2>4. CASE \E u \in Tasks : Tells(u, n, k)
    BY <2>4 DEF LocalOK
  <2>5. CASE Heard(n, k)
    BY <2>1, <2>5 DEF LocalOK
  <2>6. QED
    BY <2>2, <2>3, <2>4, <2>5 DEF LocalOK
<1>4. QED
  BY <1>2, <1>3

\* A step that puts nothing new into a handler's hands.
LEMMA InHandKept ==
    ASSUME CacheInv, NEW t \in Tasks, NEW l, Moved(t, l), pages' = pages, excused' = excused,
           l \in {"room", "insert", "set"} =>
              req[t].pc \in {"room", "insert", "set"} /\ req'[t].val = req[t].val
    PROVE  \A k \in Keys \ excused' : InHandOK(k)'
<1>1. ASSUME NEW k \in Keys \ excused', NEW u \in Tasks, Carries(u)', req'[u].key = k
      PROVE  req'[u].val = Current(k)'
  <2>1. Carries(u) /\ req[u].key = k /\ req'[u].val = req[u].val
    BY <1>1 DEF Carries, Moved
  <2>2. Current(k)' = Current(k)
    BY DEF Current
  <2>3. QED
    BY <1>1, <2>1, <2>2 DEF CacheInv, Coherent, InHandOK
<1>2. QED
  BY <1>1 DEF InHandOK

\* A step of a handler that leaves layers and tables alone.
LEMMA HandlerStep ==
    ASSUME CacheInv, NEW t \in Tasks, NEW l, Moved(t, l), excused \subseteq excused',
           \A k \in Keys \ excused' : InHandOK(k)',
           storeVars' = storeVars, pages' = pages, boot' = boot,
           req[t].pc \in {"remove", "del", "publish"} => req[t].key \in excused'
    PROVE  CacheInv'
<1>1. Layers'
  BY DEF CacheInv, Layers, storeVars
<1>2. Placed'
  BY StaysPlaced DEF storeVars
<1>3. ASSUME NEW k \in Keys \ excused'
      PROVE  RemoteOK(k)' /\ InHandOK(k)' /\ \A n \in Nodes : LocalOK(n, k)'
  <2>2. Current(k)' = Current(k)
    BY DEF Current
  <2>3. req[t].pc \notin {"remove", "del", "publish"} \/ req[t].key # k
    OBVIOUS
  <2>4. QED
    BY <2>2, <2>3, OthersTell, SameCopies
<1>4. QED
  BY <1>1, <1>2, <1>3 DEF CacheInv, Coherent

\* A handler starts, or goes on with another record.
LEMMA GoesTo ==
    ASSUME CacheInv, NEW t \in Tasks, NEW x, Go(t, x), Seated(x), x.pc # "idle",
           req[t].pc = "idle" \/ (x.node = req[t].node /\ x.key = req[t].key)
    PROVE  Moved(t, x.pc) /\ req'[t] = x
<1>1. /\ req' = [u \in Tasks |-> req'[u]] /\ req'[t] = x
      /\ \A u \in Tasks : u # t => req'[u] = req[u]
  BY DEF Go, CacheInv, Placed
<1>2. QED
  BY <1>1 DEF Moved

LEMMA FetchCoherent ==
    ASSUME CacheInv, NEW t \in Tasks, Fetch(t), boot' = boot
    PROVE  CacheInv'
<1>1. /\ req[t].pc = "fetch" /\ Watch({}) /\ storeVars' = storeVars /\ pages' = pages
      /\ Seated(req[t])
  BY DEF Fetch, At, dbVars, CacheInv, Placed
<1>2. PICK l : Moved(t, l)
  <2> DEFINE x == [pc |-> "room", node |-> req[t].node, key |-> req[t].key,
                   val |-> remote[req[t].key], fill |-> TRUE]
  <2>1. Seated(x)
    BY <1>1 DEF Seated
  <2>2. x.pc = "room" /\ x.node = req[t].node /\ x.key = req[t].key
    OBVIOUS
  <2>3. Go(t, x) \/ Goto(t, "query")
    BY DEF Fetch
  <2> HIDE DEF x
  <2>4. Go(t, x) => Moved(t, "room")
    BY <1>1, <2>1, <2>2, GoesTo
  <2>5. "query" \notin {"room", "insert", "set"} /\ "query" # "idle"
    OBVIOUS
  <2>6. Goto(t, "query") => Moved(t, "query")
    BY <1>1, <2>5, Gotoes
  <2>7. QED
    BY <2>3, <2>4, <2>6
<1>3. QED
  BY <1>1, <1>2, Watched, HandlerStep

LEMMA QueryCoherent ==
    ASSUME CacheInv, NEW t \in Tasks, Query(t), boot' = boot
    PROVE  CacheInv'
<1>1. /\ req[t].pc = "query" /\ Watch({}) /\ storeVars' = storeVars /\ pages' = pages
      /\ Seated(req[t])
  BY DEF Query, At, dbVars, CacheInv, Placed
<1>2. PICK l : Moved(t, l)
  <2> DEFINE x == [pc |-> "room", node |-> req[t].node, key |-> req[t].key,
                   val |-> Current(req[t].key), fill |-> FALSE]
  <2>1. Seated(x)
    BY <1>1 DEF Seated
  <2>2. x.pc = "room" /\ x.node = req[t].node /\ x.key = req[t].key
    OBVIOUS
  <2>3. Go(t, x) \/ Finish(t)
    BY DEF Query
  <2> HIDE DEF x
  <2>4. QED
    BY <1>1, <2>1, <2>2, <2>3, GoesTo, Finishes
<1>3. QED
  BY <1>1, <1>2, Watched, HandlerStep

LEMMA ReadCoherent ==
    ASSUME CacheInv, NEW t \in Tasks, ReadSnapshot(t) \/ ReadPage(t) \/ ReadNext(t), boot' = boot
    PROVE  CacheInv'
<1>1. /\ req[t].pc \in {"snapshot", "read", "next"} /\ excused' = excused
      /\ storeVars' = storeVars /\ pages' = pages /\ Seated(req[t])
  BY DEF ReadSnapshot, ReadPage, ReadNext, At, dbVars, watchVars, CacheInv, Placed
<1>2. PICK l \in {"read", "next", "commit", "idle"} : Moved(t, l)
  <2>0. PICK e : ReadSnapshot(t) =>
            \/ Go(t, [pc |-> "read", node |-> req[t].node, key |-> req[t].key, edit |-> e])
            \/ Finish(t)
    BY DEF ReadSnapshot
  <2> DEFINE x == [pc |-> "next", node |-> req[t].node, key |-> req[t].key,
                   edit |-> req[t].edit, id |-> pages[req[t].key].id]
             y == [pc |-> "commit", node |-> req[t].node, key |-> req[t].key,
                   edit |-> req[t].edit, id |-> req[t].id, n |-> NextRevision(req[t].id)]
             z == [pc |-> "read", node |-> req[t].node, key |-> req[t].key, edit |-> e]
  <2>1. Seated(x) /\ Seated(y) /\ Seated(z)
    BY <1>1 DEF Seated
  <2>2. /\ x.pc = "next" /\ x.node = req[t].node /\ x.key = req[t].key
        /\ y.pc = "commit" /\ y.node = req[t].node /\ y.key = req[t].key
        /\ z.pc = "read" /\ z.node = req[t].node /\ z.key = req[t].key
    OBVIOUS
  <2>3. Go(t, x) \/ Go(t, y) \/ Go(t, z) \/ Finish(t)
    BY <2>0 DEF ReadPage, ReadNext
  <2> HIDE DEF x, y, z
  <2>4. QED
    BY <1>1, <2>1, <2>2, <2>3, GoesTo, Finishes
<1>3. \A k \in Keys \ excused' : InHandOK(k)'
  BY <1>1, <1>2, InHandKept
<1>4. QED
  BY <1>1, <1>2, <1>3, HandlerStep

-----------------------------------------------------------------------------
(* The steps through the layers.                                           *)

Puts(n, k, v) == local' = [local EXCEPT ![n][k] = v]

LEMMA LocalSet ==
    ASSUME Layers, NEW n \in Nodes, NEW k \in Keys, NEW v, Puts(n, k, v)
    PROVE  /\ local' = [m \in Nodes |-> local'[m]]
           /\ \A m \in Nodes : local'[m] = [j \in Keys |-> local'[m][j]]
           /\ local'[n][k] = v
           /\ \A m \in Nodes, j \in Keys : m # n \/ j # k => local'[m][j] = local[m][j]
BY DEF Layers, Puts

LEMMA EvictCoherent ==
    ASSUME CacheInv, NEW n \in Nodes, Evict(n), UNCHANGED <<req, pages, boot, excused>>
    PROVE  CacheInv'
<1>1. PICK k \in Keys : Puts(n, k, Absent)
  BY DEF Evict, Cached, Puts
<1>2. remote' = remote /\ inbox' = inbox /\ listening' = listening
  BY DEF Evict
<1>3. /\ local' = [m \in Nodes |-> local'[m]]
      /\ \A m \in Nodes : local'[m] = [j \in Keys |-> local'[m][j]]
      /\ local'[n][k] = Absent
      /\ \A m \in Nodes, j \in Keys : m # n \/ j # k => local'[m][j] = local[m][j]
  <2>1. Layers
    BY DEF CacheInv
  <2>2. QED
    BY <1>1, <2>1, LocalSet
<1>4. Layers'
  BY <1>2, <1>3 DEF CacheInv, Layers
<1>5. Placed'
  BY <1>2, <1>3 DEF CacheInv, Placed, Seated
<1>6. ASSUME NEW j \in Keys \ excused'
      PROVE  RemoteOK(j)' /\ InHandOK(j)' /\ \A m \in Nodes : LocalOK(m, j)'
  <2>1. RemoteOK(j) /\ InHandOK(j) /\ \A m \in Nodes : LocalOK(m, j)
    BY DEF CacheInv, Coherent
  <2>2. RemoteOK(j)' /\ InHandOK(j)'
    BY <1>2, <2>1 DEF RemoteOK, InHandOK, Current, Clears, Carries
  <2>3. ASSUME NEW m \in Nodes
        PROVE  LocalOK(m, j)'
    <3>1. local'[m][j] = local[m][j] \/ local'[m][j] = Absent
      BY <1>3
    <3>2. Current(j)' = Current(j) /\ (Heard(m, j) <=> Heard(m, j)')
          /\ \A t \in Tasks : Tells(t, m, j) <=> Tells(t, m, j)'
      BY <1>2 DEF Current, Heard, Tells
    <3>3. QED
      BY <2>1, <3>1, <3>2 DEF LocalOK
  <2>4. QED
    BY <2>2, <2>3
<1>7. QED
  BY <1>4, <1>5, <1>6 DEF CacheInv, Coherent

LEMMA MakeRoomCoherent ==
    ASSUME CacheInv, NEW t \in Tasks, MakeRoom(t), boot' = boot
    PROVE  CacheInv'
<1>1. req[t].pc = "room" /\ excused' = excused /\ pages' = pages /\ req[t].node \in Nodes
  BY DEF MakeRoom, At, dbVars, watchVars, CacheInv, Placed, Seated
<1>2. CASE Evict(req[t].node) /\ UNCHANGED req
  BY <1>1, <1>2, EvictCoherent
<1>3. CASE Goto(t, "insert") /\ UNCHANGED storeVars
  <2>1. Moved(t, "insert") /\ req'[t].val = req[t].val
    BY <1>1, <1>3, Gotoes
  <2>2. \A k \in Keys \ excused' : InHandOK(k)'
    BY <1>1, <2>1, InHandKept
  <2>3. QED
    BY <1>1, <1>3, <2>1, <2>2, HandlerStep
<1>4. QED
  BY <1>2, <1>3 DEF MakeRoom

LEMMA StaysPlacedWith ==
    ASSUME CacheInv, NEW t \in Tasks, NEW l, Moved(t, l), req[t].pc # "idle",
           boot' = boot, listening' = listening,
           \A m \in Nodes, j \in Keys : m # req[t].node => local'[m][j] = local[m][j]
    PROVE  Placed'
<1>1. \A u \in Tasks : Seated(req'[u])
  BY DEF Moved, CacheInv, Placed
<1>2. \A u \in Tasks : Seated(req[u])'
  BY <1>1 DEF Seated
<1>3. boot[req[t].node].pc = "up"
  BY DEF CacheInv, Placed, Seated
<1>4. QED
  BY <1>2, <1>3 DEF Moved, CacheInv, Placed

LEMMA InsertCoherent ==
    ASSUME CacheInv, NEW t \in Tasks, Insert(t), boot' = boot
    PROVE  CacheInv'
<1> DEFINE n == req[t].node
           k == req[t].key
<1>1. /\ req[t].pc = "insert" /\ excused' = excused /\ pages' = pages
      /\ n \in Nodes /\ k \in Keys
      /\ Puts(n, k, req[t].val)
      /\ remote' = remote /\ inbox' = inbox /\ listening' = listening
  BY DEF Insert, InsertLocal, Puts, At, dbVars, watchVars, CacheInv, Placed, Seated
<1>2. PICK l \in {"idle", "set"} : Moved(t, l) /\ (l = "set" => req'[t].val = req[t].val)
  <2>1. Finish(t) \/ Goto(t, "set")
    BY DEF Insert
  <2>2. Finish(t) => Moved(t, "idle")
    BY Finishes
  <2>3. Goto(t, "set") => Moved(t, "set") /\ req'[t].val = req[t].val
    BY <1>1, Gotoes
  <2>4. QED
    BY <2>1, <2>2, <2>3
<1>3. \A j \in Keys \ excused' : InHandOK(j)'
  BY <1>1, <1>2, InHandKept
<1>4. /\ local' = [m \in Nodes |-> local'[m]]
      /\ \A m \in Nodes : local'[m] = [j \in Keys |-> local'[m][j]]
      /\ local'[n][k] = req[t].val
      /\ \A m \in Nodes, j \in Keys : m # n \/ j # k => local'[m][j] = local[m][j]
  <2>1. Layers
    BY DEF CacheInv
  <2>2. QED
    BY <1>1, <2>1, LocalSet
<1>5. Layers'
  BY <1>1, <1>4 DEF CacheInv, Layers
<1>6. Placed'
  BY <1>1, <1>2, <1>4, StaysPlacedWith
<1>7. ASSUME NEW j \in Keys \ excused'
      PROVE  RemoteOK(j)' /\ \A m \in Nodes : LocalOK(m, j)'
  <2>1. RemoteOK(j) /\ InHandOK(j) /\ \A m \in Nodes : LocalOK(m, j)
    BY <1>1 DEF CacheInv, Coherent
  <2>2. /\ (\E u \in Tasks : Clears(u, j)) => (\E u \in Tasks : Clears(u, j)')
        /\ \A m : (\E u \in Tasks : Tells(u, m, j)) => (\E u \in Tasks : Tells(u, m, j)')
    BY <1>1, <1>2, OthersTell
  <2>3. Current(j)' = Current(j) /\ \A m : Heard(m, j) <=> Heard(m, j)'
    BY <1>1 DEF Current, Heard
  <2>4. RemoteOK(j)'
    BY <1>1, <2>1, <2>2, <2>3 DEF RemoteOK
  <2>5. j = k => req[t].val = Current(j)
    BY <1>1, <2>1 DEF InHandOK, Carries
  <2>6. ASSUME NEW m \in Nodes
        PROVE  LocalOK(m, j)'
    <3>1. local'[m][j] = local[m][j] \/ local'[m][j] = Current(j)
      BY <1>4, <2>5
    <3>2. QED
      BY <2>1, <2>2, <2>3, <3>1 DEF LocalOK
  <2>7. QED
    BY <2>4, <2>6
<1>8. QED
  BY <1>3, <1>5, <1>6, <1>7 DEF CacheInv, Coherent

LEMMA RemoveCoherent ==
    ASSUME CacheInv, NEW t \in Tasks, Remove(t), boot' = boot
    PROVE  CacheInv'
<1> DEFINE n == req[t].node
           k == req[t].key
<1>1. /\ req[t].pc = "remove" /\ excused' = excused /\ pages' = pages
      /\ n \in Nodes /\ k \in Keys
      /\ Puts(n, k, Absent)
      /\ remote' = remote /\ inbox' = inbox /\ listening' = listening
  BY DEF Remove, InsertLocal, Puts, At, dbVars, watchVars, CacheInv, Placed, Seated
<1>2. Moved(t, "del")
  BY <1>1, Gotoes DEF Remove
<1>3. \A j \in Keys \ excused' : InHandOK(j)'
  BY <1>1, <1>2, InHandKept
<1>4. /\ local' = [m \in Nodes |-> local'[m]]
      /\ \A m \in Nodes : local'[m] = [j \in Keys |-> local'[m][j]]
      /\ local'[n][k] = Absent
      /\ \A m \in Nodes, j \in Keys : m # n \/ j # k => local'[m][j] = local[m][j]
  <2>1. Layers
    BY DEF CacheInv
  <2>2. QED
    BY <1>1, <2>1, LocalSet
<1>5. Layers'
  BY <1>1, <1>4 DEF CacheInv, Layers
<1>6. Placed'
  BY <1>1, <1>2, <1>4, StaysPlacedWith
<1>7. ASSUME NEW j \in Keys \ excused'
      PROVE  RemoteOK(j)' /\ \A m \in Nodes : LocalOK(m, j)'
  <2>1. RemoteOK(j) /\ \A m \in Nodes : LocalOK(m, j)
    BY <1>1 DEF CacheInv, Coherent
  <2>2. /\ \A u \in Tasks : Clears(u, j) => Clears(u, j)'
        /\ \A u \in Tasks, m \in Nodes : Tells(u, m, j) /\ (m # n \/ j # k) => Tells(u, m, j)'
    BY <1>1, <1>2 DEF Clears, Tells, Moved
  <2>3. Current(j)' = Current(j) /\ \A m : Heard(m, j) <=> Heard(m, j)'
    BY <1>1 DEF Current, Heard
  <2>4. RemoteOK(j)'
    BY <1>1, <2>1, <2>2, <2>3 DEF RemoteOK
  <2>5. ASSUME NEW m \in Nodes
        PROVE  LocalOK(m, j)'
    <3>1. CASE m = n /\ j = k
      BY <1>4, <3>1 DEF LocalOK
    <3>2. CASE m # n \/ j # k
      BY <1>4, <2>1, <2>2, <2>3, <3>2 DEF LocalOK
    <3>3. QED
      BY <3>1, <3>2
  <2>6. QED
    BY <2>4, <2>5
<1>8. QED
  BY <1>3, <1>5, <1>6, <1>7 DEF CacheInv, Coherent

LEMMA SetOrDelCoherent ==
    ASSUME CacheInv, NEW t \in Tasks, SetOrDel(t), boot' = boot
    PROVE  CacheInv'
<1> DEFINE k == req[t].key
           v == IF At(t, "set") THEN req[t].val ELSE Absent
<1>1. /\ req[t].pc \in {"set", "del"} /\ excused' = excused /\ pages' = pages
      /\ k \in Keys
      /\ remote' = [remote EXCEPT ![k] = v]
      /\ local' = local /\ inbox' = inbox /\ listening' = listening
  BY DEF SetOrDel, WriteRemote, dbVars, watchVars, CacheInv, Placed, Seated
<1>2. Moved(t, "publish")
  BY <1>1, Gotoes DEF SetOrDel
<1>3. \A j \in Keys \ excused' : InHandOK(j)'
  BY <1>1, <1>2, InHandKept
<1>4. remote'[k] = v /\ \A j \in Keys : j # k => remote'[j] = remote[j]
  BY <1>1 DEF CacheInv, Layers
<1>5. Layers'
  BY <1>1 DEF CacheInv, Layers
<1>6. Placed'
  BY <1>1, <1>2, StaysPlaced
<1>7. ASSUME NEW j \in Keys \ excused'
      PROVE  RemoteOK(j)' /\ \A m \in Nodes : LocalOK(m, j)'
  <2>1. RemoteOK(j) /\ InHandOK(j) /\ \A m \in Nodes : LocalOK(m, j)
    BY <1>1 DEF CacheInv, Coherent
  <2>2. /\ \A u \in Tasks : Clears(u, j) /\ j # k => Clears(u, j)'
        /\ \A u \in Tasks, m \in Nodes : Tells(u, m, j) => Tells(u, m, j)'
    BY <1>1, <1>2 DEF Clears, Tells, Moved
  <2>3. Current(j)' = Current(j) /\ \A m : Heard(m, j) <=> Heard(m, j)'
    BY <1>1 DEF Current, Heard
  <2>4. j = k => v \in {Absent, Current(j)}
    BY <2>1 DEF InHandOK, Carries, At
  <2>5. RemoteOK(j)'
    BY <1>4, <2>1, <2>2, <2>3, <2>4 DEF RemoteOK
  <2>6. \A m \in Nodes : LocalOK(m, j)'
    BY <1>1, <2>1, <2>2, <2>3 DEF LocalOK
  <2>7. QED
    BY <2>5, <2>6
<1>8. QED
  BY <1>3, <1>5, <1>6, <1>7 DEF CacheInv, Coherent

\* A message that was on its way is so still.
LEMMA PublishEffect ==
    ASSUME CacheInv, NEW n \in Nodes, NEW k \in Keys, Publish(n, k)
    PROVE  /\ inbox' \in [Nodes -> Seq([origin : Nodes, key : Keys])]
           /\ \A m \in Nodes, j \in Keys : Heard(m, j) => Heard(m, j)'
           /\ \A m \in listening : m \in Nodes /\ m # n => Heard(m, k)'
<1> DEFINE x == [origin |-> n, key |-> k]
<1>1. inbox' = [m \in Nodes |-> IF m \in listening THEN Append(inbox[m], x) ELSE inbox[m]]
  BY DEF Publish
<1>2. x \in [origin : Nodes, key : Keys] /\ x.origin = n /\ x.key = k
  OBVIOUS
<1> HIDE DEF x
<1>3. ASSUME NEW m \in Nodes
      PROVE  /\ inbox[m] \in Seq([origin : Nodes, key : Keys])
             /\ Append(inbox[m], x) \in Seq([origin : Nodes, key : Keys])
             /\ Len(inbox[m]) \in Nat
             /\ DOMAIN inbox[m] = 1..Len(inbox[m])
             /\ DOMAIN Append(inbox[m], x) = 1..(Len(inbox[m]) + 1)
             /\ \A i \in 1..Len(inbox[m]) : Append(inbox[m], x)[i] = inbox[m][i]
             /\ Append(inbox[m], x)[Len(inbox[m]) + 1] = x
  <2>1. inbox[m] \in Seq([origin : Nodes, key : Keys])
    BY DEF CacheInv, Layers
  <2>2. QED
    BY <1>2, <2>1
<1>4. inbox' \in [Nodes -> Seq([origin : Nodes, key : Keys])]
  BY <1>1, <1>3
<1>5. ASSUME NEW m \in Nodes, NEW j \in Keys, Heard(m, j)
      PROVE  Heard(m, j)'
  <2>1. PICK i \in 1..Len(inbox[m]) : inbox[m][i].key = j /\ inbox[m][i].origin # m
    BY <1>3, <1>5 DEF Heard
  <2>2. i \in DOMAIN inbox'[m] /\ inbox'[m][i] = inbox[m][i]
    BY <1>1, <1>3, <2>1
  <2>3. QED
    BY <2>1, <2>2 DEF Heard
<1>6. ASSUME NEW m \in Nodes, m \in listening, m # n
      PROVE  Heard(m, k)'
  <2>1. /\ Len(inbox[m]) + 1 \in DOMAIN inbox'[m]
        /\ inbox'[m][Len(inbox[m]) + 1] = x
    BY <1>1, <1>3, <1>6
  <2>2. QED
    BY <1>2, <1>6, <2>1 DEF Heard
<1>7. QED
  BY <1>4, <1>5, <1>6

LEMMA AnnounceCoherent ==
    ASSUME CacheInv, NEW t \in Tasks, Announce(t), boot' = boot,
           NEW n \in Nodes, NEW k \in Keys, n = req[t].node, k = req[t].key
    PROVE  CacheInv'
<1> DEFINE ks == IF listening = {m \in Nodes : Booting(m, "up")} THEN {} ELSE {k}
<1>1. /\ req[t].pc = "publish" /\ pages' = pages
      /\ local' = local /\ remote' = remote /\ listening' = listening
      /\ Publish(n, k) /\ Watch(ks)
  BY DEF Announce, Publish, At, dbVars
<1>2. Moved(t, "idle")
  BY Finishes DEF Announce
<1>3. /\ inbox' \in [Nodes -> Seq([origin : Nodes, key : Keys])]
      /\ \A m \in Nodes, j \in Keys : Heard(m, j) => Heard(m, j)'
      /\ \A m \in listening : m \in Nodes /\ m # n => Heard(m, k)'
  BY <1>1, PublishEffect
<1>4. /\ excused \subseteq excused' /\ ks \subseteq excused'
      /\ \A j \in Keys \ excused' : InHandOK(j)'
  <2> HIDE DEF ks
  <2>1. QED
    BY <1>1, Watched
<1>5. Layers'
  BY <1>1, <1>3 DEF CacheInv, Layers
<1>6. Placed'
  BY <1>1, <1>2, StaysPlaced
<1>7. ASSUME NEW j \in Keys \ excused'
      PROVE  RemoteOK(j)' /\ \A m \in Nodes : LocalOK(m, j)'
  <2>1. RemoteOK(j) /\ \A m \in Nodes : LocalOK(m, j)
    BY <1>4 DEF CacheInv, Coherent
  <2>2. /\ \A u \in Tasks : Clears(u, j) => Clears(u, j)'
        /\ \A u \in Tasks, m \in Nodes : Tells(u, m, j) /\ u # t => Tells(u, m, j)'
    BY <1>1, <1>2 DEF Clears, Tells, Moved
  <2>3. Current(j)' = Current(j)
    BY <1>1 DEF Current
  <2>4. RemoteOK(j)'
    BY <1>1, <2>1, <2>2, <2>3 DEF RemoteOK
  <2>5. ASSUME NEW m \in Nodes
        PROVE  LocalOK(m, j)'
    <3>1. CASE Tells(t, m, j)
      <4>1. j = k /\ m # n
        BY <1>1, <3>1 DEF Tells
      <4>2. listening = {i \in Nodes : Booting(i, "up")}
        BY <1>4, <4>1
      <4>3. CASE m \in listening
        BY <1>3, <4>1, <4>3 DEF LocalOK
      <4>4. CASE m \notin listening
        <5>1. local[m][j] = Absent
          BY <4>2, <4>4 DEF Booting, CacheInv, Placed
        <5>2. QED
          BY <1>1, <5>1 DEF LocalOK
      <4>5. QED
        BY <4>3, <4>4
    <3>2. CASE ~Tells(t, m, j)
      <4>1. (\E u \in Tasks : Tells(u, m, j)) => (\E u \in Tasks : Tells(u, m, j)')
        BY <2>2, <3>2
      <4>2. QED
        BY <1>1, <1>3, <2>1, <2>3, <4>1 DEF LocalOK
    <3>3. QED
      BY <3>1, <3>2
  <2>6. QED
    BY <2>4, <2>5
<1>8. QED
  BY <1>4, <1>5, <1>6, <1>7 DEF CacheInv, Coherent

\* A message that is taken clears what it was about, and the others are left.
LEMMA ReceiveCoherent ==
    ASSUME CacheInv, NEW n \in Nodes, Receive(n), UNCHANGED <<req, pages, boot, excused>>
    PROVE  CacheInv'
<1>1. /\ inbox[n] # <<>> /\ remote' = remote /\ listening' = listening
      /\ inbox' = [inbox EXCEPT ![n] = Tail(inbox[n])]
  BY DEF Receive
<1>2. /\ inbox[n] \in Seq([origin : Nodes, key : Keys])
      /\ inbox \in [Nodes -> Seq([origin : Nodes, key : Keys])]
  BY DEF CacheInv, Layers
<1> DEFINE M == [origin : Nodes, key : Keys]
           q == inbox[n]
<1>3. /\ Head(q) \in M /\ Tail(q) \in Seq(M) /\ Len(q) \in Nat /\ Len(Tail(q)) = Len(q) - 1
      /\ Head(q) = q[1] /\ DOMAIN Tail(q) = 1..(Len(q) - 1)
      /\ \A i \in 1..Len(Tail(q)) : Tail(q)[i] = q[i + 1]
  <2> HIDE DEF M, q
  <2>1. q \in Seq(M) /\ q # <<>>
    BY <1>1, <1>2 DEF M, q
  <2>2. QED
    BY <2>1, HeadTailProperties
<1>4. PICK k \in Keys : k = Head(inbox[n]).key
  BY <1>3
<1>5. local' = local \/ Puts(n, k, Absent)
  BY <1>4 DEF Receive, Puts
<1>6. Head(inbox[n]).origin # n => Puts(n, k, Absent)
  BY <1>4 DEF Receive, Puts
<1>7. /\ local' = [m \in Nodes |-> local'[m]]
      /\ \A m \in Nodes : local'[m] = [j \in Keys |-> local'[m][j]]
      /\ Head(inbox[n]).origin # n => local'[n][k] = Absent
      /\ \A m \in Nodes, j \in Keys : local'[m][j] = local[m][j] \/ local'[m][j] = Absent
  <2>1. Layers
    BY DEF CacheInv
  <2>2. CASE Puts(n, k, Absent)
    BY <2>1, <2>2, LocalSet
  <2>3. CASE local' = local /\ Head(inbox[n]).origin = n
    BY <2>1, <2>3 DEF Layers
  <2>4. QED
    BY <1>5, <1>6, <2>2, <2>3
<1>8. /\ inbox' \in [Nodes -> Seq([origin : Nodes, key : Keys])]
      /\ inbox'[n] = Tail(inbox[n])
      /\ \A m \in Nodes : m # n => inbox'[m] = inbox[m]
  <2>1. Tail(inbox[n]) \in Seq([origin : Nodes, key : Keys])
    BY <1>3
  <2>2. QED
    BY <1>1, <1>2, <2>1
<1>9. ASSUME NEW m \in Nodes, NEW j \in Keys, Heard(m, j), ~Heard(m, j)'
      PROVE  local'[m][j] = Absent
  <2>1. m = n
    BY <1>8, <1>9 DEF Heard
  <2>2. PICK i \in 1..Len(inbox[n]) : inbox[n][i].key = j /\ inbox[n][i].origin # n
    BY <1>2, <1>9, <2>1 DEF Heard
  <2>3. CASE i = 1
    BY <1>3, <1>4, <1>7, <2>1, <2>2, <2>3
  <2>4. CASE i # 1
    <3>1. i - 1 \in DOMAIN Tail(inbox[n]) /\ Tail(inbox[n])[i - 1] = inbox[n][i]
      <4> HIDE DEF q
      <4>1. i \in 1..Len(q)
        BY <2>2 DEF q
      <4>2. i - 1 \in 1..(Len(q) - 1) /\ (i - 1) + 1 = i
        BY <1>3, <2>4, <4>1
      <4>3. Tail(q)[i - 1] = q[i]
        BY <1>3, <4>2
      <4>4. QED
        BY <1>3, <4>2, <4>3 DEF q
    <3>2. /\ i - 1 \in DOMAIN inbox'[n]
          /\ inbox'[n][i - 1].key = j /\ inbox'[n][i - 1].origin # n
      BY <1>8, <2>2, <3>1
    <3>3. Heard(n, j)'
      BY <3>2 DEF Heard
    <3>4. QED
      BY <1>9, <2>1, <3>3
  <2>5. QED
    BY <2>3, <2>4
<1>10. Layers'
  BY <1>1, <1>7, <1>8 DEF CacheInv, Layers
<1>11. Placed'
  BY <1>1, <1>7 DEF CacheInv, Placed, Seated
<1>12. ASSUME NEW j \in Keys \ excused'
       PROVE  RemoteOK(j)' /\ InHandOK(j)' /\ \A m \in Nodes : LocalOK(m, j)'
  <2>1. RemoteOK(j) /\ InHandOK(j) /\ \A m \in Nodes : LocalOK(m, j)
    BY DEF CacheInv, Coherent
  <2>2. RemoteOK(j)' /\ InHandOK(j)'
    BY <1>1, <2>1 DEF RemoteOK, InHandOK, Current, Clears, Carries
  <2>3. ASSUME NEW m \in Nodes
        PROVE  LocalOK(m, j)'
    <3>1. Current(j)' = Current(j) /\ \A t \in Tasks : Tells(t, m, j) <=> Tells(t, m, j)'
      BY DEF Current, Tells
    <3>2. QED
      BY <1>7, <1>9, <2>1, <3>1 DEF LocalOK
  <2>4. QED
    BY <2>2, <2>3
<1>13. QED
  BY <1>10, <1>11, <1>12 DEF CacheInv, Coherent

LEMMA ResubscribeCoherent ==
    ASSUME CacheInv, NEW n \in Nodes, boot[n].pc = "up", Resubscribe(n),
           UNCHANGED <<req, pages, boot, excused>>
    PROVE  CacheInv'
<1>1. local' = local /\ remote' = remote /\ inbox' = inbox /\ listening' = listening \cup {n}
  BY DEF Resubscribe
<1>2. Layers'
  BY <1>1 DEF CacheInv, Layers
<1>3. Placed'
  BY <1>1 DEF CacheInv, Placed, Seated
<1>4. Coherent'
  BY <1>1 DEF CacheInv, Coherent, RemoteOK, LocalOK, InHandOK, Current, Clears, Tells, Heard, Carries
<1>5. QED
  BY <1>2, <1>3, <1>4 DEF CacheInv

LEMMA LoseConnectionCoherent ==
    ASSUME CacheInv, NEW n \in Nodes, LoseConnection(n)
    PROVE  CacheInv'
<1> DEFINE ks == {inbox[n][i].key : i \in DOMAIN inbox[n]}
<1>1. /\ local' = local /\ remote' = remote /\ listening' = listening \ {n}
      /\ inbox' = [inbox EXCEPT ![n] = <<>>]
      /\ req' = req /\ pages' = pages /\ boot' = boot /\ Watch(ks)
  BY DEF LoseConnection, Unsubscribe, dbVars
<1>2. /\ excused \subseteq excused' /\ ks \subseteq excused'
      /\ \A j \in Keys \ excused' : InHandOK(j)'
  <2> HIDE DEF ks
  <2>1. QED
    BY <1>1, Watched
<1>3. /\ inbox' \in [Nodes -> Seq([origin : Nodes, key : Keys])]
      /\ \A m \in Nodes : m # n => inbox'[m] = inbox[m]
  <2>1. <<>> \in Seq([origin : Nodes, key : Keys])
    OBVIOUS
  <2>2. inbox \in [Nodes -> Seq([origin : Nodes, key : Keys])]
    BY DEF CacheInv, Layers
  <2>3. QED
    BY <1>1, <2>1, <2>2
<1>4. Layers'
  BY <1>1, <1>3 DEF CacheInv, Layers
<1>5. Placed'
  BY <1>1 DEF CacheInv, Placed, Seated
<1>6. ASSUME NEW j \in Keys \ excused'
      PROVE  RemoteOK(j)' /\ \A m \in Nodes : LocalOK(m, j)'
  <2>1. RemoteOK(j) /\ \A m \in Nodes : LocalOK(m, j)
    BY <1>2 DEF CacheInv, Coherent
  <2>2. j \notin ks
    BY <1>2
  <2>3. \A m \in Nodes : Heard(m, j) => Heard(m, j)'
    BY <1>3, <2>2 DEF Heard
  <2>4. RemoteOK(j)'
    BY <1>1, <2>1 DEF RemoteOK, Current, Clears
  <2>5. \A m \in Nodes : LocalOK(m, j)'
    BY <1>1, <2>1, <2>3 DEF LocalOK, Current, Tells
  <2>6. QED
    BY <2>4, <2>5
<1>7. QED
  BY <1>2, <1>4, <1>5, <1>6 DEF CacheInv, Coherent

-----------------------------------------------------------------------------
(* The steps that change what is current.                                  *)

\* A page appears: what is left of an old one was stale before.
LEMMA InsertPageCoherent ==
    ASSUME CacheInv, NEW t \in Tasks, InsertPage(t), boot' = boot
    PROVE  CacheInv'
<1> DEFINE k == req[t].key
<1>1. /\ req[t].pc = "create" /\ Watch({}) /\ storeVars' = storeVars /\ k \in Keys
      /\ Seated(req[t])
  BY DEF InsertPage, At, CacheInv, Placed, Seated
<1>2. CASE Finish(t) /\ pages' = pages
  BY <1>1, <1>2, Finishes, Watched, HandlerStep
<1>3. CASE pages[k] = Absent /\ pages' = [pages EXCEPT ![k] = [id |-> edits', content |-> edits']]
           /\ Go(t, [pc |-> "room", node |-> req[t].node, key |-> k, val |-> edits', fill |-> FALSE])
  <2>1. Moved(t, "room")
    <3> DEFINE x == [pc |-> "room", node |-> req[t].node, key |-> k, val |-> edits', fill |-> FALSE]
    <3>1. Seated(x) /\ x.pc = "room" /\ x.node = req[t].node /\ x.key = req[t].key
      BY <1>1 DEF Seated
    <3>2. Go(t, x)
      BY <1>3
    <3> HIDE DEF x
    <3>3. /\ req' = [u \in Tasks |-> req'[u]] /\ req'[t] = x
          /\ \A u \in Tasks : u # t => req'[u] = req[u]
      BY <3>2 DEF Go, CacheInv, Placed
    <3>4. QED
      BY <3>1, <3>3 DEF Moved
  <2>2. Layers'
    BY <1>1, <1>3 DEF CacheInv, Layers, storeVars
  <2>3. Placed'
    BY <1>1, <2>1, StaysPlaced DEF storeVars
  <2>4. ASSUME NEW j \in Keys \ excused'
        PROVE  RemoteOK(j)' /\ \A n \in Nodes : LocalOK(n, j)'
    <3>1. j \notin excused
      BY <1>1, Watched
    <3>2. Current(j)' = Current(j) \/ Current(j) = Absent
      BY <1>3 DEF Current, CacheInv, Layers
    <3>3. QED
      BY <1>1, <2>1, <3>1, <3>2, OthersTell, SameCopies
  <2>5. QED
    BY <1>1, <2>2, <2>3, <2>4, Watched DEF CacheInv, Coherent
<1>4. QED
  BY <1>2, <1>3 DEF InsertPage, dbVars

\* A page changes, and its handler is the one who removes the old copies.
LEMMA Overtakes ==
    ASSUME CacheInv, NEW t \in Tasks, Moved(t, "remove"), boot' = boot, NEW ks, Watch(ks),
           req[t].pc \notin {"remove", "del", "publish"}, storeVars' = storeVars,
           pages' = [j \in Keys |-> pages'[j]],
           \A j \in Keys : j # req'[t].key => pages'[j] = pages[j]
    PROVE  CacheInv'
<1>1. Layers'
  <2>1. local' = local /\ remote' = remote /\ inbox' = inbox
    BY DEF storeVars
  <2>2. QED
    BY <2>1 DEF CacheInv, Layers
<1>2. Placed'
  BY StaysPlaced DEF storeVars
<1>3. ASSUME NEW j \in Keys \ excused'
      PROVE  RemoteOK(j)' /\ \A n \in Nodes : LocalOK(n, j)'
  <2>1. CASE j = req'[t].key
    <3>1. Clears(t, j)' /\ \A n \in Nodes : Tells(t, n, j)'
      BY <2>1 DEF Moved, Clears, Tells
    <3>2. QED
      BY <3>1 DEF RemoteOK, LocalOK
  <2>2. CASE j # req'[t].key
    <3>1. Current(j)' = Current(j)
      BY <2>2 DEF Current
    <3>2. j \notin excused
      BY Watched
    <3>3. QED
      BY <3>1, <3>2, OthersTell, SameCopies
  <2>3. QED
    BY <2>1, <2>2
<1>4. QED
  BY <1>1, <1>2, <1>3, Watched DEF CacheInv, Coherent

LEMMA CommitUpdateCoherent ==
    ASSUME CacheInv, NEW t \in Tasks, CommitUpdate(t), boot' = boot
    PROVE  CacheInv'
<1> DEFINE k == req[t].key
<1>1. /\ req[t].pc = "commit" /\ Watch({}) /\ storeVars' = storeVars /\ k \in Keys
      /\ Seated(req[t])
  BY DEF CommitUpdate, At, CacheInv, Placed, Seated
<1>2. CASE Finish(t) /\ pages' = pages
  BY <1>1, <1>2, Finishes, Watched, HandlerStep
<1>3. CASE pages' = [pages EXCEPT ![k].content = req[t].edit]
           /\ Go(t, [pc |-> "remove", node |-> req[t].node, key |-> k])
  <2> DEFINE x == [pc |-> "remove", node |-> req[t].node, key |-> k]
  <2>1. Seated(x) /\ x.pc = "remove" /\ x.node = req[t].node /\ x.key = k
    BY <1>1 DEF Seated
  <2>2. Go(t, x)
    BY <1>3
  <2> HIDE DEF x
  <2>3. Moved(t, "remove") /\ req'[t] = x
    BY <1>1, <2>1, <2>2, GoesTo
  <2>4. /\ pages' = [j \in Keys |-> pages'[j]]
        /\ \A j \in Keys : j # k => pages'[j] = pages[j]
    BY <1>3 DEF CacheInv, Layers
  <2>5. QED
    BY <1>1, <2>1, <2>3, <2>4, Overtakes
<1>4. QED
  BY <1>2, <1>3 DEF CommitUpdate, dbVars

LEMMA StartCoherent ==
    ASSUME CacheInv, NEW t \in Tasks, Start(t)
    PROVE  CacheInv'
<1>1. /\ req[t].pc = "idle" /\ Watch({}) /\ boot' = boot
      /\ excused \subseteq excused' /\ \A k \in Keys \ excused' : InHandOK(k)'
  BY Watched DEF Start, At
<1>2. PICK n \in Nodes, k \in Keys :
         /\ boot[n].pc = "up"
         /\ Get(t, n, k) \/ Create(t, n, k) \/ Update(t, n, k) \/ Restore(t, n, k) \/ Delete(t, n, k)
  BY DEF Start
<1>3. storeVars' = storeVars
  BY <1>2 DEF Get, Create, Update, Restore, Delete
<1>4. CASE req' = req /\ pages' = pages
  <2>1. Moved(t, "idle")
    BY <1>1, <1>4 DEF Moved, CacheInv, Placed
  <2>2. QED
    BY <1>1, <1>3, <1>4, <2>1, HandlerStep
<1>5. ASSUME NEW l \in {"fetch", "create", "read", "snapshot", "remove"}, NEW x, x.pc = l, Go(t, x),
             Seated(x), x.key = k, pages' = pages \/ (l = "remove" /\ Delete(t, n, k))
      PROVE  CacheInv'
  <2>1. Moved(t, l) /\ req'[t] = x
    BY <1>1, <1>5, GoesTo
  <2>2. CASE pages' = pages
    BY <1>1, <1>3, <2>1, <2>2, HandlerStep
  <2>3. CASE l = "remove" /\ Delete(t, n, k)
    <3>1. /\ pages' = [j \in Keys |-> pages'[j]]
          /\ \A j \in Keys : j # req'[t].key => pages'[j] = pages[j]
      BY <1>5, <2>1, <2>3 DEF Delete, CacheInv, Layers
    <3>2. QED
      BY <1>1, <1>3, <2>1, <2>3, <3>1, Overtakes
  <2>4. QED
    BY <1>5, <2>2, <2>3
<1>6. \A x : {"pc", "node", "key"} \subseteq DOMAIN x /\ x.node = n /\ x.key = k
               /\ x.pc \in {"fetch", "create", "read", "snapshot", "remove"} => Seated(x)
  BY <1>2 DEF Seated
<1>7. CASE Get(t, n, k)
  <2> DEFINE x == [pc |-> "fetch", node |-> n, key |-> k]
  <2>1. Seated(x) /\ x.pc = "fetch" /\ x.key = k
    BY <1>6
  <2>2. (req' = req \/ Go(t, x)) /\ pages' = pages
    BY <1>7 DEF Get, dbVars
  <2> HIDE DEF x
  <2>3. QED
    BY <1>4, <1>5, <2>1, <2>2
<1>8. CASE Create(t, n, k)
  <2> DEFINE x == [pc |-> "create", node |-> n, key |-> k]
  <2>1. Seated(x) /\ x.pc = "create" /\ x.key = k
    BY <1>6
  <2>2. (req' = req \/ Go(t, x)) /\ pages' = pages
    BY <1>8 DEF Create, dbVars
  <2> HIDE DEF x
  <2>3. QED
    BY <1>4, <1>5, <2>1, <2>2
<1>9. CASE Update(t, n, k)
  <2>1. PICK e : Go(t, [pc |-> "read", node |-> n, key |-> k, edit |-> e])
    BY <1>9 DEF Update
  <2> DEFINE x == [pc |-> "read", node |-> n, key |-> k, edit |-> e]
  <2>2. Seated(x) /\ x.pc = "read" /\ x.key = k
    BY <1>6
  <2>3. Go(t, x) /\ pages' = pages
    BY <1>9, <2>1 DEF Update, dbVars
  <2> HIDE DEF x
  <2>4. QED
    BY <1>5, <2>2, <2>3
<1>10. CASE Restore(t, n, k)
  <2> DEFINE x == [pc |-> "snapshot", node |-> n, key |-> k, id |-> pages[k].id]
  <2>1. Seated(x) /\ x.pc = "snapshot" /\ x.key = k
    BY <1>6
  <2>2. Go(t, x) /\ pages' = pages
    BY <1>10 DEF Restore, dbVars
  <2> HIDE DEF x
  <2>3. QED
    BY <1>5, <2>1, <2>2
<1>11. CASE Delete(t, n, k)
  <2> DEFINE x == [pc |-> "remove", node |-> n, key |-> k]
  <2>1. Seated(x) /\ x.pc = "remove" /\ x.key = k
    BY <1>6
  <2>2. Go(t, x)
    BY <1>11 DEF Delete
  <2> HIDE DEF x
  <2>3. QED
    BY <1>5, <1>11, <2>1, <2>2
<1>12. QED
  BY <1>2, <1>7, <1>8, <1>9, <1>10, <1>11

LEMMA AbandonCoherent ==
    ASSUME CacheInv, NEW t \in Tasks, Abandon(t)
    PROVE  CacheInv'
<1> DEFINE ks == IF req[t].pc \in {"remove", "del", "publish"} THEN {req[t].key} ELSE {}
<1>1. Watch(ks) /\ Finish(t) /\ storeVars' = storeVars /\ pages' = pages /\ boot' = boot
  BY DEF Abandon, dbVars
<1>2. req[t].pc \in {"remove", "del", "publish"} => req[t].key \in ks
  OBVIOUS
<1> HIDE DEF ks
<1>3. Moved(t, "idle")
  BY <1>1, Finishes
<1>4. /\ excused \subseteq excused' /\ ks \subseteq excused'
      /\ \A k \in Keys \ excused' : InHandOK(k)'
  BY <1>1, Watched
<1>5. QED
  BY <1>1, <1>2, <1>3, <1>4, HandlerStep

-----------------------------------------------------------------------------
(* The process.                                                            *)

LEMMA SeedCoherent ==
    ASSUME CacheInv, NEW n \in Nodes, Seed(n)
    PROVE  CacheInv'
<1>1. /\ storeVars' = storeVars /\ req' = req /\ boot[n].pc # "up"
      /\ excused \subseteq excused' /\ \A k \in Keys \ excused' : InHandOK(k)'
  BY Watched DEF Seed, CheckUser, InsertUser, CheckWelcome, InsertWelcome, InsertWelcomeRevision,
                 Booting
<1>2. boot' = [m \in Nodes |-> boot'[m]] /\ \A m \in Nodes : m # n => boot'[m] = boot[m]
  <2>1. PICK x : BootTo(n, x)
    BY DEF Seed, CheckUser, InsertUser, CheckWelcome, InsertWelcome, InsertWelcomeRevision
  <2>2. QED
    BY <2>1 DEF BootTo, CacheInv, Layers
<1>3. pages' = pages \/ (pages[Welcome] = Absent /\ \E x : pages' = [pages EXCEPT ![Welcome] = x])
  BY DEF Seed, CheckUser, InsertUser, CheckWelcome, InsertWelcome, InsertWelcomeRevision, dbVars
<1>4. /\ pages' = [k \in Keys |-> pages'[k]]
      /\ \A k \in Keys : pages'[k] = pages[k] \/ pages[k] = Absent
  BY <1>3 DEF CacheInv, Layers
<1>5. Layers'
  <2>1. local' = local /\ remote' = remote /\ inbox' = inbox
    BY <1>1 DEF storeVars
  <2>2. QED
    BY <1>2, <1>4, <2>1 DEF CacheInv, Layers
<1>6. Placed'
  <2>1. local' = local /\ listening' = listening
    BY <1>1 DEF storeVars
  <2>2. \A t \in Tasks : req[t].pc # "idle" => req[t].node # n
    BY <1>1 DEF CacheInv, Placed, Seated
  <2>3. \A t \in Tasks : Seated(req[t])'
    BY <1>1, <1>2, <2>2 DEF CacheInv, Placed, Seated
  <2>4. QED
    BY <1>1, <1>2, <2>1, <2>3 DEF CacheInv, Placed
<1>7. ASSUME NEW k \in Keys \ excused'
      PROVE  RemoteOK(k)' /\ \A m \in Nodes : LocalOK(m, k)'
  <2>1. Current(k)' = Current(k) \/ Current(k) = Absent
    BY <1>4 DEF Current
  <2>2. /\ \A u \in Tasks : Clears(u, k) <=> Clears(u, k)'
        /\ \A u \in Tasks : \A m : Tells(u, m, k) <=> Tells(u, m, k)'
    BY <1>1 DEF Clears, Tells
  <2>3. QED
    BY <1>1, <2>1, <2>2, SameCopies
<1>8. QED
  BY <1>1, <1>5, <1>6, <1>7 DEF CacheInv, Coherent

LEMMA CrashCoherent ==
    ASSUME CacheInv, NEW n \in Nodes, Crash(n)
    PROVE  CacheInv'
<1> DEFINE mine == {t \in Tasks : ~At(t, "idle") /\ req[t].node = n}
           ks == {req[t].key : t \in {u \in mine : req[u].pc \in {"remove", "del", "publish"}}}
<1>1. /\ req' = [t \in Tasks |-> IF t \in mine THEN Idle ELSE req[t]]
      /\ Watch(ks) /\ remote' = remote /\ pages' = pages
      /\ boot' = [boot EXCEPT ![n] = Down]
      /\ local' = [local EXCEPT ![n] = [k \in Keys |-> Absent]]
      /\ inbox' = [inbox EXCEPT ![n] = <<>>]
      /\ listening' = listening \ {n}
  BY DEF Crash, dbVars, BootTo
<1>2. \A t \in mine : req[t].pc \in {"remove", "del", "publish"} => req[t].key \in ks
  OBVIOUS
<1>3. \A t \in Tasks : t \in mine <=> req[t].pc # "idle" /\ req[t].node = n
  BY DEF At
<1> HIDE DEF mine, ks
<1>4. /\ excused \subseteq excused' /\ ks \subseteq excused'
      /\ \A k \in Keys \ excused' : InHandOK(k)'
  BY <1>1, Watched
<1>5. /\ local' = [m \in Nodes |-> local'[m]]
      /\ \A m \in Nodes : local'[m] = [k \in Keys |-> local'[m][k]]
      /\ \A k \in Keys : local'[n][k] = Absent
      /\ \A m \in Nodes : m # n => local'[m] = local[m]
  BY <1>1 DEF CacheInv, Layers
<1>6. /\ inbox' \in [Nodes -> Seq([origin : Nodes, key : Keys])]
      /\ \A m \in Nodes : m # n => inbox'[m] = inbox[m]
  <2>1. <<>> \in Seq([origin : Nodes, key : Keys])
    OBVIOUS
  <2>2. inbox \in [Nodes -> Seq([origin : Nodes, key : Keys])]
    BY DEF CacheInv, Layers
  <2>3. QED
    BY <1>1, <2>1, <2>2
<1>7. /\ boot' = [m \in Nodes |-> boot'[m]] /\ boot'[n].pc # "up"
      /\ \A m \in Nodes : m # n => boot'[m] = boot[m]
  BY <1>1 DEF CacheInv, Layers, Down
<1>8. Layers'
  BY <1>1, <1>5, <1>6, <1>7 DEF CacheInv, Layers
<1>9. Placed'
  <2>1. \A t \in Tasks : Seated(req[t])'
    <3>1. SUFFICES ASSUME NEW t \in Tasks
                   PROVE  Seated(req[t])'
      OBVIOUS
    <3>2. CASE t \in mine
      BY <1>1, <3>2 DEF Seated, Idle
    <3>3. CASE t \notin mine
      <4>1. req'[t] = req[t] /\ Seated(req[t]) /\ (req[t].pc # "idle" => req[t].node # n)
        BY <1>1, <1>3, <3>3 DEF CacheInv, Placed
      <4>2. QED
        BY <1>7, <4>1 DEF Seated
    <3>4. QED
      BY <3>2, <3>3
  <2>2. ASSUME NEW m \in Nodes, boot'[m].pc # "up"
        PROVE  m \notin listening' /\ \A k \in Keys : local'[m][k] = Absent
    BY <1>1, <1>5, <1>7, <2>2 DEF CacheInv, Placed
  <2>3. req' = [t \in Tasks |-> req'[t]]
    BY <1>1
  <2>4. QED
    BY <2>1, <2>2, <2>3 DEF Placed
<1>10. ASSUME NEW k \in Keys \ excused'
       PROVE  RemoteOK(k)' /\ \A m \in Nodes : LocalOK(m, k)'
  <2>1. RemoteOK(k) /\ \A m \in Nodes : LocalOK(m, k)
    BY <1>4 DEF CacheInv, Coherent
  <2>2. ASSUME NEW t \in Tasks, req[t].pc \in {"remove", "del", "publish"}, req[t].key = k
        PROVE  req'[t] = req[t]
    BY <1>1, <1>2, <1>4, <2>2
  <2>3. /\ \A t \in Tasks : Clears(t, k) => Clears(t, k)'
        /\ \A t \in Tasks, m \in Nodes : Tells(t, m, k) => Tells(t, m, k)'
    BY <2>2 DEF Clears, Tells
  <2>4. Current(k)' = Current(k) /\ \A m \in Nodes : m # n => (Heard(m, k) <=> Heard(m, k)')
    BY <1>1, <1>6 DEF Current, Heard
  <2>5. RemoteOK(k)'
    BY <1>1, <2>1, <2>3, <2>4 DEF RemoteOK
  <2>6. ASSUME NEW m \in Nodes
        PROVE  LocalOK(m, k)'
    BY <1>5, <2>1, <2>3, <2>4 DEF LocalOK
  <2>7. QED
    BY <2>5, <2>6
<1>11. QED
  BY <1>4, <1>8, <1>9, <1>10 DEF CacheInv, Coherent

LEMMA NextCacheInv == CacheInv /\ [Next]_vars => CacheInv'
<1>1. SUFFICES ASSUME CacheInv, [Next]_vars
               PROVE  CacheInv'
  OBVIOUS
<1>2. ASSUME NEW t \in Tasks, Start(t) \/ Abandon(t)
      PROVE  CacheInv'
  BY <1>1, <1>2, StartCoherent, AbandonCoherent
<1>3. ASSUME NEW t \in Tasks, Step(t)
      PROVE  CacheInv'
  <2>1. boot' = boot
    BY <1>3 DEF Step
  <2>2. CASE Announce(t)
    <3>1. req[t].node \in Nodes /\ req[t].key \in Keys
      BY <1>1, <2>2 DEF Announce, At, CacheInv, Placed, Seated
    <3>2. QED
      BY <1>1, <2>1, <2>2, <3>1, AnnounceCoherent
  <2>3. CASE Fetch(t) \/ Query(t) \/ ReadSnapshot(t) \/ ReadPage(t) \/ ReadNext(t)
    BY <1>1, <2>1, <2>3, FetchCoherent, QueryCoherent, ReadCoherent
  <2>4. CASE MakeRoom(t) \/ Insert(t) \/ Remove(t) \/ SetOrDel(t)
    BY <1>1, <2>1, <2>4, MakeRoomCoherent, InsertCoherent, RemoveCoherent, SetOrDelCoherent
  <2>5. CASE InsertPage(t) \/ CommitUpdate(t)
    BY <1>1, <2>1, <2>5, InsertPageCoherent, CommitUpdateCoherent
  <2>6. QED
    BY <1>3, <2>2, <2>3, <2>4, <2>5 DEF Step
<1>4. ASSUME NEW n \in Nodes, Seed(n) \/ Crash(n) \/ LoseConnection(n)
      PROVE  CacheInv'
  BY <1>1, <1>4, SeedCoherent, CrashCoherent, LoseConnectionCoherent
<1>5. ASSUME NEW n \in Nodes, Listen(n)
      PROVE  CacheInv'
  <2>1. boot[n].pc = "up" /\ UNCHANGED <<req, pages, boot, excused>>
    BY <1>5 DEF Listen, Booting, dbVars, watchVars
  <2>2. QED
    BY <1>1, <1>5, <2>1, ReceiveCoherent, ResubscribeCoherent DEF Listen
<1>6. CASE UNCHANGED vars
  <2>1. /\ local' = local /\ remote' = remote /\ inbox' = inbox /\ listening' = listening
        /\ pages' = pages /\ boot' = boot /\ req' = req /\ excused' = excused
    BY <1>6 DEF vars, storeVars, dbVars, watchVars
  <2>2. Layers' /\ Placed'
    BY <1>1, <2>1 DEF CacheInv, Layers, Placed, Seated
  <2>3. Coherent'
    BY <1>1, <2>1 DEF CacheInv, Coherent, RemoteOK, LocalOK, InHandOK, Current, Clears, Tells,
                      Heard, Carries
  <2>4. QED
    BY <2>2, <2>3 DEF CacheInv
<1>7. QED
  BY <1>1, <1>2, <1>3, <1>4, <1>5, <1>6 DEF Next

\* Once no handler and no invalidation is under way, a copy of a page in Redis
\* or in the map of a node says what the database says, unless a task carried a
\* value that an edit overtook or an invalidation was lost (store/mod.rs:87,
\* examples/wiki/src/api.rs:258).
THEOREM CopiesAreCurrent == Spec => []StaleNeedsARace
<1>1. CacheInv => StaleNeedsARace
  <2>1. SUFFICES ASSUME CacheInv, Quiet, NEW k \in Keys \ excused
                 PROVE  /\ remote[k] \in {Absent, Current(k)}
                        /\ \A n \in Nodes : local[n][k] \in {Absent, Current(k)}
    BY DEF StaleNeedsARace
  <2>2. \A t \in Tasks : ~Clears(t, k) /\ \A n : ~Tells(t, n, k)
    BY <2>1 DEF Quiet, At, Clears, Tells
  <2>3. \A n \in Nodes : ~Heard(n, k)
    BY <2>1 DEF Quiet, Heard
  <2>4. QED
    BY <2>1, <2>2, <2>3 DEF CacheInv, Coherent, RemoteOK, LocalOK
<1>2. QED
  BY <1>1, InitCacheInv, NextCacheInv, PTL DEF Spec

-----------------------------------------------------------------------------
(* The capacity of the map.  Every task that has found room counts as if   *)
(* it had inserted already.                                                *)

Inserting(n) == {t \in Tasks : req[t].pc = "insert" /\ req[t].node = n}
OneCarrier(n) ==
    \A t, u \in Tasks : Carries(t) /\ Carries(u) /\ req[t].node = n /\ req[u].node = n => t = u
Bound(n) == Capacity + (IF n \in crowded THEN Cardinality(Tasks) - 1 ELSE 0)

RoomInv ==
    \A n \in Nodes :
        /\ IsFiniteSet(Cached(n))
        /\ n \notin crowded => OneCarrier(n)
        /\ Cardinality(Cached(n)) + Cardinality(Inserting(n)) <= Bound(n)

LEMMA Sizes ==
    /\ Cardinality(Tasks) \in Nat /\ (Tasks # {} => Cardinality(Tasks) >= 1)
    /\ \A n : IsFiniteSet(Inserting(n)) /\ Cardinality(Inserting(n)) \in Nat
              /\ Cardinality(Inserting(n)) <= Cardinality(Tasks)
<1>1. IsFiniteSet(Tasks) /\ Cardinality(Tasks) \in Nat
  BY FS_CardinalityType
<1>2. Tasks # {} => Cardinality(Tasks) >= 1
  BY <1>1, FS_EmptySet
<1>3. \A n : Inserting(n) \subseteq Tasks
  BY DEF Inserting
<1>4. QED
  BY <1>1, <1>2, <1>3, FS_Subset, FS_CardinalityType

LEMMA InitRoomInv == Init => RoomInv
<1>1. SUFFICES ASSUME Init, NEW n \in Nodes
               PROVE  /\ IsFiniteSet(Cached(n)) /\ OneCarrier(n)
                      /\ Cardinality(Cached(n)) + Cardinality(Inserting(n)) <= Bound(n)
  BY DEF RoomInv
<1>2. Cached(n) = {} /\ Inserting(n) = {} /\ OneCarrier(n) /\ n \notin crowded
  BY <1>1 DEF Init, StoreInit, Cached, Inserting, OneCarrier, Carries, Idle
<1>3. QED
  BY <1>2, FS_EmptySet DEF Bound

LEMMA WatchCounts ==
    ASSUME NEW ks, Watch(ks)
    PROVE  /\ crowded \subseteq crowded'
           /\ \A n \in crowded' : n \notin crowded => Tasks # {}
           /\ \A n \in Nodes : n \notin crowded' => OneCarrier(n)'
BY DEF Watch, OneCarrier

\* Nobody inserts, and nobody finds room.
LEMMA RoomKept ==
    ASSUME RoomInv, crowded \subseteq crowded',
           \A n \in crowded' : n \notin crowded => Tasks # {},
           \A n \in Nodes : n \notin crowded' => OneCarrier(n)',
           \A n \in Nodes : Cached(n)' \subseteq Cached(n) /\ Inserting(n)' \subseteq Inserting(n)
    PROVE  RoomInv'
<1>1. SUFFICES ASSUME NEW n \in Nodes
               PROVE  /\ IsFiniteSet(Cached(n)')
                      /\ Cardinality(Cached(n)') + Cardinality(Inserting(n)') <= Bound(n)'
  BY DEF RoomInv
<1>2. /\ IsFiniteSet(Cached(n)') /\ Cardinality(Cached(n)') <= Cardinality(Cached(n))
      /\ Cardinality(Cached(n)') \in Nat /\ Cardinality(Cached(n)) \in Nat
  BY FS_Subset, FS_CardinalityType DEF RoomInv
<1>3. /\ Cardinality(Inserting(n)') <= Cardinality(Inserting(n))
      /\ Cardinality(Inserting(n)') \in Nat /\ Cardinality(Inserting(n)) \in Nat
  BY Sizes, FS_Subset, FS_CardinalityType
<1>4. Bound(n) <= Bound(n)' /\ Bound(n) \in Int /\ Bound(n)' \in Int
  BY Sizes DEF Bound
<1>5. Cardinality(Cached(n)) + Cardinality(Inserting(n)) <= Bound(n)
  BY DEF RoomInv
<1>6. QED
  BY <1>2, <1>3, <1>4, <1>5

LEMMA NobodyNewInserts ==
    ASSUME CacheInv, NEW t \in Tasks,
           \/ \E x : x.pc # "insert" /\ Go(t, x)
           \/ \E l : l # "insert" /\ req[t].pc # "idle" /\ Goto(t, l)
           \/ Finish(t)
           \/ req' = req
    PROVE  \A n \in Nodes : Inserting(n)' \subseteq Inserting(n)
<1>1. "pc" \in DOMAIN req[t] /\ req = [u \in Tasks |-> req[u]]
  BY DEF CacheInv, Placed, Seated
<1>2. CASE req' = req
  BY <1>2 DEF Inserting
<1>3. ASSUME req' # req
      PROVE  req'[t].pc # "insert" /\ \A u \in Tasks : u # t => req'[u] = req[u]
  BY <1>1, <1>3 DEF Go, Goto, Finish, Idle
<1>4. QED
  BY <1>2, <1>3 DEF Inserting

LEMMA RequestsMove ==
    ASSUME NEW t \in Tasks,
           \/ Start(t) \/ Abandon(t) \/ Fetch(t) \/ Query(t) \/ Insert(t) \/ Remove(t)
           \/ SetOrDel(t) \/ Announce(t) \/ InsertPage(t) \/ ReadSnapshot(t) \/ ReadPage(t)
           \/ ReadNext(t) \/ CommitUpdate(t)
    PROVE  \/ \E x : x.pc # "insert" /\ Go(t, x)
           \/ \E l : l # "insert" /\ req[t].pc # "idle" /\ Goto(t, l)
           \/ Finish(t)
           \/ req' = req
<1>1. CASE Start(t)
  <2>1. PICK n \in Nodes, k \in Keys : Get(t, n, k) \/ Create(t, n, k) \/ Update(t, n, k)
                                       \/ Restore(t, n, k) \/ Delete(t, n, k)
    BY <1>1 DEF Start
  <2>2. \A e : /\ [pc |-> "fetch", node |-> n, key |-> k].pc # "insert"
              /\ [pc |-> "create", node |-> n, key |-> k].pc # "insert"
              /\ [pc |-> "read", node |-> n, key |-> k, edit |-> e].pc # "insert"
              /\ [pc |-> "snapshot", node |-> n, key |-> k, id |-> e].pc # "insert"
              /\ [pc |-> "remove", node |-> n, key |-> k].pc # "insert"
    OBVIOUS
  <2>3. CASE Get(t, n, k)
    BY <2>2, <2>3 DEF Get
  <2>4. CASE Create(t, n, k)
    BY <2>2, <2>4 DEF Create
  <2>5. CASE Update(t, n, k)
    <3>1. PICK e : Go(t, [pc |-> "read", node |-> n, key |-> k, edit |-> e])
      BY <2>5 DEF Update
    <3>2. QED
      BY <2>2, <3>1
  <2>6. CASE Restore(t, n, k)
    <3>1. PICK e : Go(t, [pc |-> "snapshot", node |-> n, key |-> k, id |-> e])
      BY <2>6 DEF Restore
    <3>2. QED
      BY <2>2, <3>1
  <2>7. CASE Delete(t, n, k)
    BY <2>2, <2>7 DEF Delete
  <2>8. QED
    BY <2>1, <2>3, <2>4, <2>5, <2>6, <2>7
<1>2. CASE Abandon(t)
  BY <1>2 DEF Abandon
<1>3. CASE Fetch(t) \/ Query(t)
  <2> DEFINE x == [pc |-> "room", node |-> req[t].node, key |-> req[t].key,
                   val |-> remote[req[t].key], fill |-> TRUE]
             y == [pc |-> "room", node |-> req[t].node, key |-> req[t].key,
                   val |-> Current(req[t].key), fill |-> FALSE]
  <2>1. \/ Go(t, x) \/ Go(t, y) \/ Finish(t)
        \/ req[t].pc = "fetch" /\ Goto(t, "query")
    BY <1>3 DEF Fetch, Query, At
  <2>2. x.pc # "insert" /\ y.pc # "insert" /\ "query" # "insert"
    OBVIOUS
  <2> HIDE DEF x, y
  <2>3. QED
    BY <2>1, <2>2
<1>4. CASE Insert(t) \/ Remove(t) \/ SetOrDel(t) \/ Announce(t)
  BY <1>4 DEF Insert, Remove, SetOrDel, Announce, At
<1>5. CASE InsertPage(t)
  <2>1. (\E x : x.pc = "room" /\ Go(t, x)) \/ Finish(t)
    BY <1>5 DEF InsertPage
  <2>2. QED
    BY <2>1
<1>6. CASE ReadPage(t)
  <2>1. (\E x : x.pc = "next" /\ Go(t, x)) \/ Finish(t)
    BY <1>6 DEF ReadPage
  <2>2. QED
    BY <2>1
<1>7. CASE ReadNext(t)
  <2>1. \E x : x.pc = "commit" /\ Go(t, x)
    BY <1>7 DEF ReadNext
  <2>2. QED
    BY <2>1
<1>8. CASE CommitUpdate(t)
  <2>1. (\E x : x.pc = "remove" /\ Go(t, x)) \/ Finish(t)
    BY <1>8 DEF CommitUpdate
  <2>2. QED
    BY <2>1
<1>9. CASE ReadSnapshot(t)
  <2>1. (\E x : x.pc = "read" /\ Go(t, x)) \/ Finish(t)
    BY <1>9 DEF ReadSnapshot
  <2>2. QED
    BY <2>1
<1>10. QED
  BY <1>1, <1>2, <1>3, <1>4, <1>5, <1>6, <1>7, <1>8, <1>9

\* Nobody takes a value in hand.
LEMMA CarriersKept ==
    ASSUME CacheInv, RoomInv, NEW t \in Tasks, NEW l, Moved(t, l), crowded' = crowded,
           l \in {"room", "insert", "set"} => req[t].pc \in {"room", "insert", "set"}
    PROVE  \A n \in Nodes : n \notin crowded' => OneCarrier(n)'
<1>1. ASSUME NEW u \in Tasks, Carries(u)'
      PROVE  Carries(u) /\ req'[u].node = req[u].node
  BY <1>1 DEF Carries, Moved
<1>2. QED
  BY <1>1 DEF RoomInv, OneCarrier

LEMMA QuietRoom ==
    ASSUME CacheInv, RoomInv, NEW t \in Tasks,
           \/ Start(t) \/ Abandon(t) \/ Fetch(t) \/ Query(t) \/ Announce(t)
           \/ InsertPage(t) \/ CommitUpdate(t)
    PROVE  RoomInv'
<1>1. \E ks : Watch(ks)
  BY DEF Start, Abandon, Fetch, Query, Announce, InsertPage, CommitUpdate
<1>2. local' = local
  BY DEF Start, Abandon, Fetch, Query, Announce, InsertPage, CommitUpdate, Publish,
         Get, Create, Update, Restore, Delete, storeVars
<1>3. \A n \in Nodes : Inserting(n)' \subseteq Inserting(n)
  BY RequestsMove, NobodyNewInserts
<1>4. \A n \in Nodes : Cached(n)' = Cached(n)
  BY <1>2 DEF Cached
<1>5. QED
  BY <1>1, <1>3, <1>4, WatchCounts, RoomKept

LEMMA ReadRoom ==
    ASSUME CacheInv, RoomInv, NEW t \in Tasks,
           ReadSnapshot(t) \/ ReadPage(t) \/ ReadNext(t) \/ Remove(t) \/ SetOrDel(t)
    PROVE  RoomInv'
<1>1. crowded' = crowded
  BY DEF ReadSnapshot, ReadPage, ReadNext, Remove, SetOrDel, watchVars
<1>2. \A n \in Nodes : Inserting(n)' \subseteq Inserting(n)
  BY RequestsMove, NobodyNewInserts
<1>3. Seated(req[t])
  BY DEF CacheInv, Placed
<1>4. \A n \in Nodes : Cached(n)' \subseteq Cached(n)
  <2>1. CASE ReadSnapshot(t) \/ ReadPage(t) \/ ReadNext(t) \/ SetOrDel(t)
    BY <2>1 DEF ReadSnapshot, ReadPage, ReadNext, SetOrDel, WriteRemote, storeVars, Cached
  <2>2. CASE Remove(t)
    <3>1. req[t].node \in Nodes /\ req[t].key \in Keys /\ Puts(req[t].node, req[t].key, Absent)
      BY <1>3, <2>2 DEF Remove, InsertLocal, At, Seated, Puts
    <3>2. Layers
      BY DEF CacheInv
    <3>3. \A m \in Nodes, j \in Keys : local'[m][j] = local[m][j] \/ local'[m][j] = Absent
      BY <3>1, <3>2, LocalSet
    <3>4. QED
      BY <3>3 DEF Cached
  <2>3. QED
    BY <2>1, <2>2
<1>5. \A n \in Nodes : n \notin crowded' => OneCarrier(n)'
  <2>1. ASSUME NEW u \in Tasks, Carries(u)'
        PROVE  Carries(u) /\ req'[u].node = req[u].node
    <3>1. CASE u # t
      <4>1. req'[u] = req[u]
        BY <3>1 DEF ReadSnapshot, ReadPage, ReadNext, Remove, SetOrDel, Go, Goto, Finish,
                    CacheInv, Placed
      <4>2. QED
        BY <2>1, <4>1 DEF Carries
    <3>2. CASE u = t
      <4>1. req'[t].pc \in {"read", "next", "commit", "idle", "del", "publish"}
        BY <1>3 DEF ReadSnapshot, ReadPage, ReadNext, Remove, SetOrDel, Go, Goto, Finish,
                    CacheInv, Placed, Seated, Idle
      <4>2. QED
        BY <2>1, <3>2, <4>1 DEF Carries
    <3>3. QED
      BY <3>1, <3>2
  <2>2. QED
    BY <1>1, <2>1 DEF RoomInv, OneCarrier
<1>6. QED
  BY <1>1, <1>2, <1>4, <1>5, RoomKept

\* An iteration of enforce_capacity, and the step from a map with room to the
\* insertion: the task counts from here on.
LEMMA MakeRoomRoom ==
    ASSUME CacheInv, RoomInv, NEW t \in Tasks, MakeRoom(t)
    PROVE  RoomInv'
<1>1. req[t].pc = "room" /\ crowded' = crowded /\ req[t].node \in Nodes
  BY DEF MakeRoom, At, watchVars, CacheInv, Placed, Seated
<1>2. CASE Evict(req[t].node) /\ UNCHANGED req
  <2>1. PICK k \in Keys : Puts(req[t].node, k, Absent)
    BY <1>2 DEF Evict, Cached, Puts
  <2>2. Layers
    BY DEF CacheInv
  <2>3. \A m \in Nodes, j \in Keys : local'[m][j] = local[m][j] \/ local'[m][j] = Absent
    BY <1>1, <2>1, <2>2, LocalSet
  <2>4. \A n \in Nodes : Cached(n)' \subseteq Cached(n) /\ Inserting(n)' \subseteq Inserting(n)
    BY <1>2, <2>3 DEF Cached, Inserting
  <2>5. \A n \in Nodes : n \notin crowded' => OneCarrier(n)'
    BY <1>1, <1>2 DEF RoomInv, OneCarrier, Carries
  <2>6. QED
    BY <1>1, <2>4, <2>5, RoomKept
<1>3. CASE ~Full(req[t].node) /\ Goto(t, "insert") /\ UNCHANGED storeVars
  <2>1. Moved(t, "insert")
    BY <1>1, <1>3, Gotoes
  <2>2. \A n \in Nodes : n \notin crowded' => OneCarrier(n)'
    BY <1>1, <2>1, CarriersKept
  <2>3. ASSUME NEW n \in Nodes
        PROVE  /\ IsFiniteSet(Cached(n)')
               /\ Cardinality(Cached(n)') + Cardinality(Inserting(n)') <= Bound(n)'
    <3>1. Cached(n)' = Cached(n) /\ Bound(n)' = Bound(n)
      BY <1>1, <1>3 DEF Cached, Bound, storeVars
    <3>2. IsFiniteSet(Cached(n)) /\ Cardinality(Cached(n)) \in Nat
      BY FS_CardinalityType DEF RoomInv
    <3>3. CASE n # req[t].node
      <4>1. Inserting(n)' = Inserting(n)
        BY <1>1, <2>1, <3>3 DEF Inserting, Moved
      <4>2. QED
        BY <3>1, <3>2, <4>1 DEF RoomInv
    <3>4. CASE n = req[t].node
      <4>1. Cardinality(Cached(n)) < Capacity
        BY <1>3, <3>2, <3>4 DEF Full
      <4>2. Cardinality(Inserting(n)') \in Nat /\ Cardinality(Inserting(n)') <= Cardinality(Tasks)
        <5>1. IsFiniteSet(Tasks) /\ Inserting(n)' \subseteq Tasks
          BY DEF Inserting
        <5>2. QED
          BY <5>1, FS_Subset, FS_CardinalityType
      <4>3. CASE n \in crowded
        BY <3>1, <3>2, <4>1, <4>2, <4>3, Sizes DEF Bound
      <4>4. CASE n \notin crowded
        <5>1. Inserting(n)' = {t}
          <6>1. t \in Inserting(n)'
            BY <1>1, <2>1, <3>4 DEF Inserting, Moved
          <6>2. ASSUME NEW u \in Tasks, u # t
                PROVE  u \notin Inserting(n)'
            <7>1. OneCarrier(n) /\ req'[u] = req[u]
              BY <2>1, <4>4, <6>2 DEF RoomInv, Moved
            <7>2. QED
              BY <1>1, <3>4, <6>2, <7>1 DEF OneCarrier, Carries, Inserting
          <6>3. QED
            BY <6>1, <6>2 DEF Inserting
        <5>2. Cardinality(Inserting(n)') = 1
          BY <5>1, FS_Singleton
        <5>3. QED
          BY <3>1, <3>2, <4>1, <4>4, <5>2 DEF Bound
      <4>5. QED
        BY <4>3, <4>4
    <3>5. QED
      BY <3>3, <3>4
  <2>4. QED
    BY <2>2, <2>3 DEF RoomInv
<1>4. QED
  BY <1>2, <1>3 DEF MakeRoom

\* What the task was counted for is now in the map.
LEMMA InsertRoom ==
    ASSUME CacheInv, RoomInv, NEW t \in Tasks, Insert(t)
    PROVE  RoomInv'
<1>1. /\ req[t].pc = "insert" /\ crowded' = crowded
      /\ req[t].node \in Nodes /\ req[t].key \in Keys
      /\ Puts(req[t].node, req[t].key, req[t].val)
  BY DEF Insert, InsertLocal, Puts, At, watchVars, CacheInv, Placed, Seated
<1>2. PICK l \in {"idle", "set"} : Moved(t, l)
  <2>1. Finish(t) => Moved(t, "idle")
    BY Finishes
  <2>2. Goto(t, "set") => Moved(t, "set")
    BY <1>1, Gotoes
  <2>3. QED
    BY <2>1, <2>2 DEF Insert
<1>3. \A n \in Nodes : n \notin crowded' => OneCarrier(n)'
  BY <1>1, <1>2, CarriersKept
<1>4. ASSUME NEW n \in Nodes
      PROVE  /\ IsFiniteSet(Cached(n)')
             /\ Cardinality(Cached(n)') + Cardinality(Inserting(n)') <= Bound(n)'
  <2>1. Layers
    BY DEF CacheInv
  <2>2. \A m \in Nodes, j \in Keys : m # req[t].node \/ j # req[t].key => local'[m][j] = local[m][j]
    BY <1>1, <2>1, LocalSet
  <2>3. /\ IsFiniteSet(Cached(n)) /\ Cardinality(Cached(n)) \in Nat
        /\ IsFiniteSet(Inserting(n)) /\ Cardinality(Inserting(n)) \in Nat
        /\ Cardinality(Cached(n)) + Cardinality(Inserting(n)) <= Bound(n)
    BY Sizes, FS_CardinalityType DEF RoomInv
  <2>4. Bound(n)' = Bound(n) /\ Bound(n) \in Int
    BY <1>1, Sizes DEF Bound
  <2>5. CASE n # req[t].node
    <3>1. Cached(n)' = Cached(n) /\ Inserting(n)' = Inserting(n)
      BY <1>1, <1>2, <2>2, <2>5 DEF Cached, Inserting, Moved
    <3>2. QED
      BY <2>3, <2>4, <3>1
  <2>6. CASE n = req[t].node
    <3>1. Cached(n)' \subseteq Cached(n) \cup {req[t].key}
      BY <2>2, <2>6 DEF Cached
    <3>2. /\ IsFiniteSet(Cached(n) \cup {req[t].key})
          /\ Cardinality(Cached(n) \cup {req[t].key}) <= Cardinality(Cached(n)) + 1
          /\ Cardinality(Cached(n) \cup {req[t].key}) \in Nat
      <4>1. PICK k : k = req[t].key
        OBVIOUS
      <4>2. /\ IsFiniteSet(Cached(n) \cup {k})
            /\ Cardinality(Cached(n) \cup {k}) = IF k \in Cached(n) THEN Cardinality(Cached(n))
                                                 ELSE Cardinality(Cached(n)) + 1
        BY <2>3, FS_AddElement
      <4>3. QED
        BY <2>3, <4>1, <4>2
    <3>3. /\ IsFiniteSet(Cached(n)') /\ Cardinality(Cached(n)') \in Nat
          /\ Cardinality(Cached(n)') <= Cardinality(Cached(n)) + 1
      BY <2>3, <3>1, <3>2, FS_Subset, FS_CardinalityType
    <3>4. Inserting(n)' = Inserting(n) \ {t} /\ t \in Inserting(n)
      BY <1>1, <1>2, <2>6 DEF Inserting, Moved
    <3>5. Cardinality(Inserting(n)') = Cardinality(Inserting(n)) - 1
      BY <2>3, <3>4, FS_RemoveElement
    <3>6. QED
      BY <2>3, <2>4, <3>3, <3>5
  <2>7. QED
    BY <2>5, <2>6
<1>5. QED
  BY <1>3, <1>4 DEF RoomInv

LEMMA NodeRoom ==
    ASSUME CacheInv, RoomInv, NEW n \in Nodes,
           Seed(n) \/ Crash(n) \/ Listen(n) \/ LoseConnection(n)
    PROVE  RoomInv'
<1>1. \A m \in Nodes : Inserting(m)' \subseteq Inserting(m)
  <2>1. CASE Crash(n)
    <3>1. PICK mine : req' = [t \in Tasks |-> IF t \in mine THEN Idle ELSE req[t]]
      BY <2>1 DEF Crash
    <3>2. QED
      BY <3>1 DEF Inserting, Idle
  <2>2. CASE Seed(n) \/ Listen(n) \/ LoseConnection(n)
    BY <2>2 DEF Seed, Listen, LoseConnection, Inserting
  <2>3. QED
    BY <2>1, <2>2
<1>2. \A m \in Nodes : Cached(m)' \subseteq Cached(m)
  <2>1. \A m \in Nodes, k \in Keys : local'[m][k] = local[m][k] \/ local'[m][k] = Absent
    <3>1. CASE Seed(n) \/ LoseConnection(n)
      BY <3>1 DEF Seed, LoseConnection, Unsubscribe, storeVars
    <3>2. CASE Crash(n)
      BY <3>2 DEF Crash, CacheInv, Layers
    <3>3. CASE Listen(n)
      <4> DEFINE k == Head(inbox[n]).key
      <4>1. local' = local \/ local' = [local EXCEPT ![n][k] = Absent]
        BY <3>3 DEF Listen, Receive, Resubscribe
      <4> HIDE DEF k
      <4>2. \A m \in Nodes : local[m] = [j \in Keys |-> local[m][j]]
        BY DEF CacheInv, Layers
      <4>3. local = [m \in Nodes |-> local[m]]
        BY DEF CacheInv, Layers
      <4>4. CASE local' = [local EXCEPT ![n][k] = Absent]
        <5>1. \A m \in Nodes : local'[m] = IF m = n THEN [local[n] EXCEPT ![k] = Absent] ELSE local[m]
          BY <4>3, <4>4
        <5>2. QED
          BY <4>2, <5>1
      <4>5. QED
        BY <4>1, <4>4
    <3>4. QED
      BY <3>1, <3>2, <3>3
  <2>2. QED
    BY <2>1 DEF Cached
<1>3. CASE Listen(n)
  <2>1. crowded' = crowded /\ req' = req
    BY <1>3 DEF Listen, watchVars
  <2>2. \A m \in Nodes : m \notin crowded' => OneCarrier(m)'
    BY <2>1 DEF RoomInv, OneCarrier, Carries
  <2>3. QED
    BY <1>1, <1>2, <2>1, <2>2, RoomKept
<1>4. CASE Seed(n) \/ Crash(n) \/ LoseConnection(n)
  <2>1. \E ks : Watch(ks)
    BY <1>4 DEF Seed, Crash, LoseConnection
  <2>2. QED
    BY <1>1, <1>2, <2>1, WatchCounts, RoomKept
<1>5. QED
  BY <1>3, <1>4

LEMMA NextRoomInv == CacheInv /\ RoomInv /\ [Next]_vars => RoomInv'
<1>1. SUFFICES ASSUME CacheInv, RoomInv, [Next]_vars
               PROVE  RoomInv'
  OBVIOUS
<1>2. ASSUME NEW t \in Tasks, Start(t) \/ Step(t) \/ Abandon(t)
      PROVE  RoomInv'
  BY <1>1, <1>2, QuietRoom, ReadRoom, MakeRoomRoom, InsertRoom DEF Step
<1>3. ASSUME NEW n \in Nodes, Seed(n) \/ Listen(n) \/ Crash(n) \/ LoseConnection(n)
      PROVE  RoomInv'
  BY <1>1, <1>3, NodeRoom
<1>4. CASE UNCHANGED vars
  <2>1. local' = local /\ req' = req /\ crowded' = crowded
    BY <1>4 DEF vars, storeVars, watchVars
  <2>2. QED
    BY <1>1, <2>1 DEF RoomInv, Cached, Inserting, Bound, OneCarrier, Carries
<1>5. QED
  BY <1>1, <1>2, <1>3, <1>4 DEF Next

\* The map of a node exceeds its capacity only where tasks inserted at a time,
\* and by less than one entry per task (store/mod.rs:62).
THEOREM MapIsBounded == Spec => []CapacityBounded
<1>1. RoomInv => CapacityBounded
  <2>1. SUFFICES ASSUME RoomInv, NEW n \in Nodes
                 PROVE  Cardinality(Cached(n)) <= Bound(n)
    BY DEF CapacityBounded, Bound
  <2>2. /\ Cardinality(Cached(n)) + Cardinality(Inserting(n)) <= Bound(n)
        /\ Cardinality(Cached(n)) \in Nat /\ Cardinality(Inserting(n)) \in Nat
        /\ Bound(n) \in Int
    BY <2>1, Sizes, FS_CardinalityType DEF RoomInv, Bound
  <2>3. QED
    BY <2>2
<1>2. QED
  BY <1>1, InitCacheInv, NextCacheInv, InitRoomInv, NextRoomInv, PTL DEF Spec
=============================================================================
