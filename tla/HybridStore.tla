----------------------------- MODULE HybridStore -----------------------------
(***************************************************************************)
(* The two-layer store of store/mod.rs over store/redis.rs: a local map in *)
(* every node, Redis behind it, and a channel on which every write         *)
(* publishes the key for the other nodes to drop.  Each operator is what   *)
(* one synchronous stretch of code, or one command to Redis, does to the   *)
(* layers; the caller decides in which order they run.                     *)
(***************************************************************************)
EXTENDS Naturals, Sequences, FiniteSets

CONSTANTS
    Nodes, Keys,
    Absent,       \* the answer for a key that is not there
    Capacity      \* LOCAL_CACHE_CAPACITY

ASSUME HybridStoreAssumption == Capacity \in Nat \ {0}

VARIABLES
    local,        \* local_data of every node
    remote,       \* the keys of Redis
    inbox,        \* invalidations on their way to each node, oldest first
    listening     \* the nodes whose listen_loop is subscribed

storeVars == <<local, remote, inbox, listening>>

StoreInit ==
    /\ local = [n \in Nodes |-> [k \in Keys |-> Absent]]
    /\ remote = [k \in Keys |-> Absent]
    /\ inbox = [n \in Nodes |-> <<>>]
    /\ listening = {}

Cached(n) == {k \in Keys : local[n][k] # Absent}

\* The guard of the loop of enforce_capacity.
Full(n) == Cardinality(Cached(n)) >= Capacity

\* Its body: some victim goes.
Evict(n) ==
    /\ Full(n)
    /\ \E k \in Cached(n) : local' = [local EXCEPT ![n][k] = Absent]
    /\ UNCHANGED <<remote, inbox, listening>>

InsertLocal(n, k, v) ==
    /\ local' = [local EXCEPT ![n][k] = v]
    /\ UNCHANGED <<remote, inbox, listening>>

\* SET, and DEL when v is Absent.
WriteRemote(k, v) ==
    /\ remote' = [remote EXCEPT ![k] = v]
    /\ UNCHANGED <<local, inbox, listening>>

\* PUBLISH "<instance_id>|<key>", to whoever is subscribed now.
Publish(n, k) ==
    /\ inbox' = [m \in Nodes |-> IF m \in listening
                                 THEN Append(inbox[m], [origin |-> n, key |-> k])
                                 ELSE inbox[m]]
    /\ UNCHANGED <<local, remote, listening>>

\* Slip: the comparison with instance_id is the wrong way round.
ReceiveOwn(n) ==
    /\ inbox[n] # <<>>
    /\ LET m == Head(inbox[n])
       IN  local' = IF m.origin # n THEN local ELSE [local EXCEPT ![n][m.key] = Absent]
    /\ inbox' = [inbox EXCEPT ![n] = Tail(@)]
    /\ UNCHANGED <<remote, listening>>

\* An iteration of listen_loop: a node's own messages are skipped.
Receive(n) ==
    /\ inbox[n] # <<>>
    /\ LET m == Head(inbox[n])
       IN  local' = IF m.origin = n THEN local ELSE [local EXCEPT ![n][m.key] = Absent]
    /\ inbox' = [inbox EXCEPT ![n] = Tail(@)]
    /\ UNCHANGED <<remote, listening>>

\* The stream ends: what was on its way is lost, and the local map stays.
Unsubscribe(n) ==
    /\ n \in listening
    /\ listening' = listening \ {n}
    /\ inbox' = [inbox EXCEPT ![n] = <<>>]
    /\ UNCHANGED <<local, remote>>

\* The loop of subscribe_to_invalidations, five seconds later.
Resubscribe(n) ==
    /\ n \notin listening
    /\ listening' = listening \cup {n}
    /\ UNCHANGED <<local, remote, inbox>>
=============================================================================
