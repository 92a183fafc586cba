-------------------------------- MODULE Chat --------------------------------
(***************************************************************************)
(* The sessions of examples/chat: tasks that share one broadcast channel.  *)
(* A session is over when its loop is; a client that returns is another.   *)
(***************************************************************************)
EXTENDS Broadcast, SequencesExt

CONSTANTS
    Sessions,
    MaxTexts     \* bound: texts

ASSUME ChatAssumption == Sessions \subseteq Receivers /\ MaxTexts \in Nat

VARIABLES
    status,      \* where session_loop stands in every session
    texts,       \* texts said
    shown,       \* history: the messages each client was sent
    lagged       \* history: sessions that were told they lag

chatVars == <<status, texts, shown, lagged>>

ChatInit ==
    /\ status = [s \in Sessions |-> "out"]
    /\ texts = 0
    /\ shown = [s \in Sessions |-> <<>>]
    /\ lagged = {}

Become(s, st) == status' = [status EXCEPT ![s] = st]
Message(kind, s) == [kind |-> kind, from |-> s]

\* The handshake takes the token, and session_loop begins.
Enter(s) ==
    /\ status[s] = "out"
    /\ Subscribe(s)
    /\ Become(s, "subscribed")
    /\ UNCHANGED <<texts, shown, lagged>>

\* Slip: the subscription comes after the message.
JoinedFirst(s) ==
    /\ status[s] = "subscribed"
    /\ sent' = Append(sent, Message("joined", s))
    /\ cursor' = [cursor EXCEPT ![s] = Len(sent) + 1]
    /\ Become(s, "in")
    /\ UNCHANGED <<texts, shown, lagged>>

Joined(s) ==
    /\ status[s] = "subscribed"
    /\ Send(Message("joined", s))
    /\ Become(s, "in")
    /\ UNCHANGED <<texts, shown, lagged>>

Say(s) ==
    /\ status[s] = "in" /\ texts < MaxTexts
    /\ Send(Message("chat", s))
    /\ texts' = texts + 1
    /\ UNCHANGED <<status, shown, lagged>>

\* A message goes to the client, or what it missed is skipped.
Relay(s) ==
    /\ status[s] = "in"
    /\ \/ /\ Ready(s) /\ Advance(s)
          /\ shown' = [shown EXCEPT ![s] = Append(@, Wanted(s))]
          /\ UNCHANGED lagged
       \/ /\ Lags(s) /\ Skip(s)
          /\ lagged' = lagged \cup {s}
          /\ UNCHANGED shown
    /\ UNCHANGED <<status, texts>>

\* Slip: a failed write ends the task.
RelayFailsQuietly(s) ==
    /\ status[s] = "in"
    /\ Ready(s) /\ Advance(s)
    /\ Become(s, "gone")
    /\ UNCHANGED <<texts, shown, lagged>>

\* session.text fails: the loop ends.
RelayFails(s) ==
    /\ status[s] = "in"
    /\ Ready(s) /\ Advance(s)
    /\ Become(s, "leaving")
    /\ UNCHANGED <<texts, shown, lagged>>

\* A close frame, an error, the end of the stream or a failed pong.
Close(s) ==
    /\ status[s] = "in"
    /\ Become(s, "leaving")
    /\ UNCHANGED <<channelVars, texts, shown, lagged>>

Left(s) ==
    /\ status[s] = "leaving"
    /\ Send(Message("left", s))
    /\ Become(s, "gone")
    /\ UNCHANGED <<texts, shown, lagged>>

Running(s) == Joined(s) \/ Relay(s) \/ Left(s)
ChatNext == \E s \in Sessions :
                Enter(s) \/ Running(s) \/ Say(s) \/ RelayFails(s) \/ Close(s)

-----------------------------------------------------------------------------
Said(kind, s) == {i \in DOMAIN sent : sent[i] = Message(kind, s)}

\* A client that has not lagged was shown everything from its own "joined" on,
\* in the order of the channel and each message once (chat main.rs:106).
ShownSinceJoined ==
    \A s \in Sessions \ lagged : \A j \in Said("joined", s) :
        status[s] = "in" => IsSuffix(SubSeq(sent, j, cursor[s]), shown[s])

\* Who the channel says is here is who is: a session says "joined" first and
\* "left" last, once each and however it ends, and speaks in between
\* (chat main.rs:139).
PresenceHonest ==
    /\ \A s \in Sessions :
          /\ (Said("joined", s) # {}) <=> status[s] \in {"in", "leaving", "gone"}
          /\ (Said("left", s) # {}) <=> status[s] = "gone"
    /\ \A i, j \in DOMAIN sent :
          (i < j /\ sent[i].from = sent[j].from) =>
              sent[i].kind # "left" /\ sent[j].kind # "joined"
=============================================================================
