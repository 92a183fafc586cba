----------------------------- MODULE MCChannels -----------------------------
(* The two users of a broadcast channel for TLC: a behaviour is of one of  *)
(* them, and the variables of the other keep their initial values.         *)
EXTENDS EventBus, Chat

VARIABLE app
vars == <<channelVars, busVars, chatVars, app>>

Init ==
    /\ BroadcastInit /\ BusInit /\ ChatInit
    /\ app \in {"bus", "chat"} /\ (app = "chat" => reactor = "memory")

BusStep == app = "bus" /\ BusNext /\ UNCHANGED <<chatVars, app>>
ChatStep == app = "chat" /\ ChatNext /\ UNCHANGED <<busVars, app>>
Next == BusStep \/ ChatStep

Spec == Init /\ [][Next]_vars /\ BusFairness

\* Cursors stay inside the channel, the mpsc channel inside its capacity.
TypeOK ==
    /\ cursor \in [Receivers -> 0..Len(sent)]
    /\ app \in {"bus", "chat"}
    /\ emitted \in 0..MaxSignals /\ lost \subseteq 1..emitted
    /\ Len(queue) <= (IF reactor = "memory" THEN QueueCapacity ELSE MaxSignals)
    /\ status \in [Sessions -> {"out", "subscribed", "in", "leaving", "gone"}]
    /\ lagged \subseteq Sessions /\ texts \in 0..MaxTexts

\* The properties of each, where it is the one that runs (memory.rs:38, chat
\* main.rs:106 and main.rs:139).
BusInOrder == app = "bus" => SignalsInOrder
ChatShown == app = "chat" => ShownSinceJoined
ChatPresence == app = "chat" => PresenceHonest
=============================================================================
