------------------------------ MODULE EventBus ------------------------------
(***************************************************************************)
(* The PulseReactor of one process: emit, the task that carries signals to *)
(* the broadcast channel, in memory by a ticker and over Redis by a        *)
(* subscription, and the task of web/mod.rs that logs them.  A signal is   *)
(* the number of its emission.                                             *)
(***************************************************************************)
EXTENDS Broadcast, SequencesExt

CONSTANTS
    Logger,          \* the receiver of the logging task
    QueueCapacity,   \* of the mpsc channel
    MaxSignals       \* bound: emissions

ASSUME EventBusAssumption ==
    Logger \in Receivers /\ QueueCapacity \in Nat \ {0} /\ MaxSignals \in Nat

VARIABLES
    reactor,     \* which of the two runs
    queue,       \* memory: the mpsc channel; redis: what is on its way here
    draining,    \* memory: the ticker has fired and the queue is not yet empty
    listening,   \* redis: listen_loop is subscribed
    logging,     \* the logging task runs
    emitted,     \* signals emitted
    lost         \* history: signals that Redis did not take or deliver

busVars == <<reactor, queue, draining, listening, logging, emitted, lost>>

BusInit ==
    /\ reactor \in {"memory", "redis"}
    /\ queue = <<>>
    /\ draining = FALSE /\ listening = FALSE /\ logging = TRUE
    /\ emitted = 0 /\ lost = {}

Emission ==
    /\ emitted < MaxSignals
    /\ emitted' = emitted + 1

\* Slip: try_send: a full channel drops the signal.
EmitTrying ==
    /\ reactor = "memory" /\ Emission
    /\ queue' = IF Len(queue) < QueueCapacity THEN Append(queue, emitted + 1) ELSE queue
    /\ UNCHANGED <<channelVars, reactor, draining, listening, logging, lost>>

\* Slip: an unbounded channel.
EmitUnbounded ==
    /\ reactor = "memory" /\ Emission
    /\ queue' = Append(queue, emitted + 1)
    /\ UNCHANGED <<channelVars, reactor, draining, listening, logging, lost>>

\* send().await: who emits waits for room.
Emit ==
    /\ reactor = "memory" /\ Emission
    /\ Len(queue) < QueueCapacity
    /\ queue' = Append(queue, emitted + 1)
    /\ UNCHANGED <<channelVars, reactor, draining, listening, logging, lost>>

\* Slip: the ticker fires once.
TickOnce ==
    /\ reactor = "memory" /\ ~draining /\ sent = <<>>
    /\ draining' = TRUE
    /\ UNCHANGED <<channelVars, reactor, queue, listening, logging, emitted, lost>>

Tick ==
    /\ reactor = "memory" /\ ~draining
    /\ draining' = TRUE
    /\ UNCHANGED <<channelVars, reactor, queue, listening, logging, emitted, lost>>

\* An iteration of the loop over try_recv, or its end.
Drain ==
    /\ draining
    /\ \/ /\ queue # <<>>
          /\ Send(Head(queue)) /\ queue' = Tail(queue)
          /\ UNCHANGED draining
       \/ /\ queue = <<>>
          /\ draining' = FALSE
          /\ UNCHANGED <<channelVars, queue>>
    /\ UNCHANGED <<reactor, listening, logging, emitted, lost>>

\* PUBLISH reaches who is subscribed; an error is dropped with the signal.
Publish ==
    /\ reactor = "redis" /\ Emission
    /\ \/ listening /\ queue' = Append(queue, emitted + 1) /\ UNCHANGED lost
       \/ lost' = lost \cup {emitted + 1} /\ UNCHANGED queue
    /\ UNCHANGED <<channelVars, reactor, draining, listening, logging>>

Listen ==
    /\ reactor = "redis" /\ ~listening
    /\ listening' = TRUE
    /\ UNCHANGED <<channelVars, reactor, queue, draining, logging, emitted, lost>>

Hear ==
    /\ listening /\ queue # <<>>
    /\ Send(Head(queue)) /\ queue' = Tail(queue)
    /\ UNCHANGED <<reactor, draining, listening, logging, emitted, lost>>

Disconnect ==
    /\ listening
    /\ listening' = FALSE
    /\ lost' = lost \cup ToSet(queue) /\ queue' = <<>>
    /\ UNCHANGED <<channelVars, reactor, draining, logging, emitted>>

\* while let Ok: the first error, a lag, ends the task.
Log ==
    /\ logging
    /\ \/ Ready(Logger) /\ Advance(Logger) /\ UNCHANGED logging
       \/ Lags(Logger) /\ Skip(Logger) /\ logging' = FALSE
    /\ UNCHANGED <<reactor, queue, draining, listening, emitted, lost>>

BusNext == Emit \/ Tick \/ Drain \/ Publish \/ Listen \/ Hear \/ Disconnect \/ Log

\* The tasks of the process run; nobody has to emit.
BusFairness ==
    WF_<<channelVars, busVars>>(Tick) /\ WF_<<channelVars, busVars>>(Drain)
    /\ WF_<<channelVars, busVars>>(Listen) /\ WF_<<channelVars, busVars>>(Hear)
    /\ WF_<<channelVars, busVars>>(Log)

-----------------------------------------------------------------------------
\* Signals are broadcast in the order of their emission, each once, and what
\* is missing is what Redis lost: in memory nothing is, however full the
\* channel (memory.rs:38).
Increasing(s) == \A i, j \in DOMAIN s : i < j => s[i] < s[j]
SignalsInOrder ==
    /\ Increasing(sent \o queue)
    /\ ToSet(sent \o queue) = (1..emitted) \ lost
    /\ reactor = "memory" => lost = {}

\* Every signal reaches the log, unless it was lost on its way or the logging
\* task has fallen behind once (web/mod.rs:307).
Logged(n) == n \in ToSet(SubSeq(sent, 1, cursor[Logger]))
EverySignalLogged ==
    \A n \in 1..MaxSignals : (n <= emitted) ~> (Logged(n) \/ n \in lost \/ ~logging)
=============================================================================
