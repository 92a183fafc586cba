----------------------------- MODULE Broadcast ------------------------------
(***************************************************************************)
(* A tokio::sync::broadcast channel, as pulse/memory.rs, pulse/redis.rs    *)
(* and examples/chat use it: a ring that keeps the last Capacity values,   *)
(* and receivers that each have a cursor into what was sent.               *)
(***************************************************************************)
EXTENDS Naturals, Sequences

CONSTANTS Receivers, Capacity

ASSUME BroadcastAssumption == Capacity \in Nat \ {0}

VARIABLES
    sent,      \* every value that was sent
    cursor     \* how many of them each receiver is past

channelVars == <<sent, cursor>>

BroadcastInit == sent = <<>> /\ cursor = [r \in Receivers |-> 0]

Send(v) == sent' = Append(sent, v) /\ UNCHANGED cursor

Subscribe(r) == cursor' = [cursor EXCEPT ![r] = Len(sent)] /\ UNCHANGED sent

Oldest == IF Len(sent) > Capacity THEN Len(sent) - Capacity ELSE 0

\* RecvError::Lagged: the value the receiver wants has been overwritten.
Lags(r) == cursor[r] < Oldest

Ready(r) == Oldest <= cursor[r] /\ cursor[r] < Len(sent)
Wanted(r) == sent[cursor[r] + 1]

Advance(r) == cursor' = [cursor EXCEPT ![r] = @ + 1] /\ UNCHANGED sent
Skip(r) == cursor' = [cursor EXCEPT ![r] = Oldest] /\ UNCHANGED sent
=============================================================================
