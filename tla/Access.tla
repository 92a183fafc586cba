------------------------------- MODULE Access -------------------------------
(***************************************************************************)
(* Login, refresh, logout and the extractors Claims and AdminClaims of     *)
(* web/api.rs, over the token provider, the denylist, the rate limiter and *)
(* the two authenticators.  A request is a task whose steps are the        *)
(* stretches between two awaits.  Time is a Tick, and every deadline is    *)
(* kept as the ticks that are left.  A command to Redis may always fail.   *)
(***************************************************************************)
EXTENDS Integers

CONSTANTS
    Users, Clients,
    Requests,     \* handlers that run at a time
    Tokens,       \* bound: tokens that exist at a time
    AccessTTL, RefreshTTL,
    Leeway,       \* how long the decoder still takes a token after its exp
    Window, Limit \* rl_window and rl_max

ASSUME AccessAssumption ==
    /\ {AccessTTL, RefreshTTL, Window, Limit} \subseteq Nat \ {0}
    /\ Leeway \in Nat

VARIABLES
    backend,      \* where denylist and limiter live
    method,       \* the Authenticator of the application
    admins,       \* PULSE_ADMIN_USERS, or the members of a group mapped to admin
    token,        \* the tokens that still verify
    revoked,      \* the denylist: ticks left of every entry
    limiter,      \* the counter of every client and the ticks left of its window
    req,          \* the request of every task
    out,          \* history: tokens whose logout was answered and written
    admitted      \* history: ticks since the k-th latest login let through, up to Window

vars == <<backend, method, admins, token, revoked, limiter, req, out, admitted>>
config == <<backend, method>>
store == <<token, revoked, out>>
rate == <<limiter, admitted>>

None == [left |-> -1000]     \* no token, no entry
Idle == [pc |-> "idle"]

\* The latest logins of a client, one more than it may have in a span of Window.
Latest == 1..(2 * Limit + 1)
Never == [c \in Clients |-> [k \in Latest |-> Window]]

Init ==
    /\ backend \in {"memory", "redis"}
    /\ method \in {"db", "ldap"}
    /\ admins \in SUBSET Users
    /\ token = [t \in Tokens |-> None]
    /\ revoked = [t \in Tokens |-> None]
    /\ limiter = [c \in Clients |-> None]
    /\ req = [r \in Requests |-> Idle]
    /\ out = {}
    /\ admitted = Never

At(r, pc) == req[r].pc = pc
Finish(r) == req' = [req EXCEPT ![r] = Idle]
Go(r, pc) == req' = [req EXCEPT ![r].pc = pc]

-----------------------------------------------------------------------------
(* The rate limiter: a fixed window that starts with its first request.    *)

\* Redis drops the key when the window is over; the map compares with ">".
Over(e) == IF backend = "redis" THEN e.left <= 0 ELSE e.left < 0

\* Slip: an old window gets a new count and keeps its start.
CounterStale(c) ==
    IF Over(limiter[c])
    THEN [count |-> 0, left |-> IF limiter[c] = None THEN Window ELSE limiter[c].left]
    ELSE limiter[c]

\* The counter this request is counted in.
Counter(c) == IF Over(limiter[c]) THEN [count |-> 0, left |-> Window] ELSE limiter[c]

Allows(c) == Counter(c).count < Limit

\* Slip: EXPIRE on every hit.
CountSliding(c) == [count |-> IF Allows(c) THEN Counter(c).count + 1 ELSE Limit,
                    left |-> Window]

\* INCR goes on counting what it refuses, which no later request can tell.
Count(c) == [Counter(c) EXCEPT !.count = IF Allows(c) THEN @ + 1 ELSE @]

Login(r, c, u) ==
    /\ At(r, "idle")
    /\ req' = [req EXCEPT ![r] = [pc |-> "limit", client |-> c, sub |-> u,
                                  admin |-> FALSE]]
    /\ UNCHANGED <<config, admins, store, rate>>

CheckLimit(r) ==
    /\ At(r, "limit")
    /\ LET c == req[r].client
       IN  /\ limiter' = [limiter EXCEPT ![c] = Count(c)]
           /\ \/ /\ Allows(c)
                 /\ admitted' = [admitted EXCEPT ![c] =
                                   [k \in Latest |-> IF k = 1 THEN 0 ELSE admitted[c][k - 1]]]
                 /\ Go(r, "lookup")
              \/ ~Allows(c) /\ Finish(r) /\ UNCHANGED admitted
    /\ UNCHANGED <<config, admins, store>>

\* Redis fails: the request is let through and not counted.
FailOpen(r) ==
    /\ At(r, "limit") /\ backend = "redis"
    /\ Go(r, "lookup")
    /\ UNCHANGED <<config, admins, store, rate>>

-----------------------------------------------------------------------------
(* The authenticators.                                                     *)

\* The row of the user, or none; or the service bind and the search, which
\* reads the groups.
Lookup(r) ==
    /\ At(r, "lookup")
    /\ req' = [req EXCEPT ![r].pc = "verify",
                          ![r].admin = method = "ldap" /\ req[r].sub \in admins]
    /\ UNCHANGED <<config, admins, store, rate>>

\* resolve_roles runs after the password; the groups were read before it.
Roles(r) == IF method = "db" THEN req[r].sub \in admins ELSE req[r].admin

Free(t) ==
    /\ token[t] = None
    /\ \A r \in Requests : req[r].pc \in {"denylist", "handler"} => req[r].token # t

\* A jti is new: nothing is known of it.
Issue(ts, new) ==
    /\ token' = [t \in Tokens |-> IF t \in ts THEN new[t] ELSE token[t]]
    /\ revoked' = [t \in Tokens |-> IF t \in ts THEN None ELSE revoked[t]]
    /\ out' = out \ ts

Token(kind, u, admin) ==
    [kind |-> kind, sub |-> u, admin |-> admin,
     left |-> IF kind = "access" THEN AccessTTL ELSE RefreshTTL]

\* bcrypt, or the bind as the user, takes the password; then both tokens.
VerifyPassword(r) ==
    /\ At(r, "verify")
    /\ \E a, b \in Tokens :
          /\ a # b /\ Free(a) /\ Free(b)
          /\ Issue({a, b}, [t \in {a, b} |->
                Token(IF t = a THEN "access" ELSE "refresh", req[r].sub, Roles(r))])
    /\ Finish(r)
    /\ UNCHANGED <<config, admins, rate>>

-----------------------------------------------------------------------------
(* A request that carries a token.                                         *)

Ops == {"read", "admin", "logout", "refresh"}

Present(r, t, op) ==
    /\ At(r, "idle") /\ token[t] # None
    /\ token[t].kind = IF op = "refresh" THEN "refresh" ELSE "access"
    /\ req' = [req EXCEPT ![r] = [pc |-> "denylist", op |-> op, token |-> t,
                                  sub |-> token[t].sub, admin |-> token[t].admin,
                                  late |-> t \in out]]
    /\ UNCHANGED <<config, admins, store, rate>>

IsRevoked(t) == revoked[t].left > 0

\* The map forgets an entry when it is asked for it too late.
CheckDenylist(r) ==
    /\ At(r, "denylist")
    /\ LET t == req[r].token
       IN  /\ revoked' = IF revoked[t].left = 0 THEN [revoked EXCEPT ![t] = None] ELSE revoked
           /\ IF IsRevoked(t) \/ (req[r].op = "admin" /\ ~req[r].admin)
              THEN Finish(r)
              ELSE Go(r, "handler")
    /\ UNCHANGED <<config, admins, token, out, rate>>

\* Redis fails: the token counts as not revoked, and nothing is expected.
CheckBlind(r) ==
    /\ At(r, "denylist") /\ backend = "redis"
    /\ IF req[r].op = "admin" /\ ~req[r].admin
       THEN Finish(r)
       ELSE req' = [req EXCEPT ![r].pc = "handler", ![r].late = FALSE]
    /\ UNCHANGED <<config, admins, store, rate>>

Handles(r, ops) == At(r, "handler") /\ req[r].op \in ops

Serve(r) ==
    /\ Handles(r, {"read", "admin"})
    /\ Finish(r)
    /\ UNCHANGED <<config, admins, store, rate>>

\* Slip: the refresh token is issued anew with the access token.
RefreshRotating(r) ==
    /\ Handles(r, {"refresh"})
    /\ \E a \in Tokens :
          /\ Free(a)
          /\ Issue({a, req[r].token}, [t \in {a, req[r].token} |->
                Token(IF t = a THEN "access" ELSE "refresh", req[r].sub, req[r].admin)])
    /\ Finish(r)
    /\ UNCHANGED <<config, admins, rate>>

\* A new access token with the roles of the refresh token.
Refresh(r) ==
    /\ Handles(r, {"refresh"})
    /\ \E a \in Tokens :
          /\ Free(a)
          /\ Issue({a}, [t \in {a} |-> Token("access", req[r].sub, req[r].admin)])
    /\ Finish(r)
    /\ UNCHANGED <<config, admins, rate>>

\* Slip: no max(0): a token in its leeway.
RemainingSigned(t) == token[t].left

\* remaining_ttl_secs.
Remaining(t) == IF token[t].left > 0 THEN token[t].left ELSE 0

\* Slip: one second short.
EntryTtlShort(t) == IF Remaining(t) > 1 THEN Remaining(t) - 1 ELSE 0

EntryTtl(t) == IF backend = "redis" /\ Remaining(t) = 0 THEN 1 ELSE Remaining(t)

Logout(r) ==
    /\ Handles(r, {"logout"})
    /\ revoked' = [revoked EXCEPT ![req[r].token] = [left |-> EntryTtl(req[r].token)]]
    /\ out' = out \cup {req[r].token}
    /\ Finish(r)
    /\ UNCHANGED <<config, admins, token, rate>>

\* Redis fails: logged, and the answer is still 200.
LogoutUnwritten(r) ==
    /\ Handles(r, {"logout"}) /\ backend = "redis"
    /\ Finish(r)
    /\ UNCHANGED <<config, admins, store, rate>>

\* The handler ends without effect: the client goes, the user or the password
\* is not known (an empty one is not sent to a directory), a service fails.
Abandon(r) ==
    /\ ~At(r, "idle")
    /\ Finish(r)
    /\ UNCHANGED <<config, admins, store, rate>>

-----------------------------------------------------------------------------
(* Around the requests.                                                    *)

Aged(e) == IF e = None THEN None ELSE [e EXCEPT !.left = @ - 1]
Alive(e, min) == IF e.left < min THEN None ELSE e

\* Redis drops keys on time; the maps keep them.
Tick ==
    /\ token' = [t \in Tokens |-> Alive(Aged(token[t]), -Leeway)]
    /\ revoked' = [t \in Tokens |->
                     IF backend = "redis" THEN Alive(Aged(revoked[t]), 1)
                     ELSE IF revoked[t].left = 0 THEN revoked[t] ELSE Aged(revoked[t])]
    /\ limiter' = [c \in Clients |->
                     IF backend = "redis" THEN Alive(Aged(limiter[c]), 1)
                     ELSE IF limiter[c].left = -1 THEN limiter[c] ELSE Aged(limiter[c])]
    /\ admitted' = [c \in Clients |-> [k \in Latest |->
                      IF admitted[c][k] < Window THEN admitted[c][k] + 1 ELSE Window]]
    /\ UNCHANGED <<config, admins, req, out>>

\* The process restarts: what was in memory is gone, the allowlist is read anew.
Restart ==
    /\ req' = [r \in Requests |-> Idle]
    /\ admins' \in IF method = "db" THEN SUBSET Users ELSE {admins}
    /\ IF backend = "memory"
       THEN /\ revoked' = [t \in Tokens |-> None]
            /\ limiter' = [c \in Clients |-> None]
            /\ out' = {}
            /\ admitted' = Never
       ELSE UNCHANGED <<revoked, limiter, out, admitted>>
    /\ UNCHANGED <<config, token>>

\* The groups of a directory change at any time.
Regroup ==
    /\ method = "ldap"
    /\ admins' \in SUBSET Users
    /\ UNCHANGED <<config, token, revoked, limiter, req, out, admitted>>

Step(r) ==
    \/ CheckLimit(r) \/ FailOpen(r) \/ Lookup(r) \/ VerifyPassword(r)
    \/ CheckDenylist(r) \/ CheckBlind(r)
    \/ Serve(r) \/ Refresh(r) \/ Logout(r) \/ LogoutUnwritten(r)

Next ==
    \/ \E r \in Requests :
          \/ Step(r) \/ Abandon(r)
          \/ \E c \in Clients, u \in Users : Login(r, c, u)
          \/ \E t \in Tokens, op \in Ops : Present(r, t, op)
    \/ Tick \/ Restart \/ Regroup

\* Time goes on and a handler that can go on does; nobody has to ask anything.
Fairness == WF_vars(Tick) /\ \A r \in Requests : WF_vars(Step(r))

Spec == Init /\ [][Next]_vars /\ Fairness

-----------------------------------------------------------------------------
Token0 == [kind : {"access", "refresh"}, sub : Users, admin : BOOLEAN,
           left : (-Leeway)..(AccessTTL + RefreshTTL)]

\* The denylist and the limiter count down from what the code puts there and
\* never below zero, and a request holds what its step needs.
TypeOK ==
    /\ backend \in {"memory", "redis"} /\ method \in {"db", "ldap"}
    /\ admins \subseteq Users /\ out \subseteq Tokens
    /\ token \in [Tokens -> Token0 \cup {None}]
    /\ revoked \in [Tokens -> [left : 0..AccessTTL] \cup {None}]
    /\ limiter \in [Clients -> [count : 0..Limit, left : -1..Window] \cup {None}]
    /\ admitted \in [Clients -> [Latest -> 0..Window]]
    /\ \A r \in Requests :
          \/ At(r, "idle")
          \/ req[r] \in [pc : {"limit", "lookup", "verify"}, client : Clients, sub : Users,
                         admin : BOOLEAN]
          \/ req[r] \in [pc : {"denylist", "handler"}, op : Ops, token : Tokens, sub : Users,
                         admin : BOOLEAN, late : BOOLEAN]

\* A request that starts after a logout of its token was answered is turned
\* away at the denylist (revocation.rs:3), whatever is under way.  Three cases
\* are excused: the denylist could not be read or written, the process that
\* held it in memory is gone, and the token is past its exp, where the entry is
\* gone and the decoder still takes the token for Leeway.
LogoutHolds ==
    [][\A r \in Requests :
         (At(r, "denylist") /\ req'[r].pc = "handler") =>
            (req'[r].late => token[req[r].token].left <= 0)]_vars

\* The limiter admits at most 2 * Limit logins of a client in any span of
\* Window (ratelimit.rs:1), two windows being what a span can meet: the one
\* before the last 2 * Limit is a Window ago, if there was one.
LoginsBounded == \A c \in Clients : admitted[c][2 * Limit + 1] = Window

\* A client that is turned away is not turned away for good, however often it
\* asks (ratelimit.rs:105).
LockoutEnds == \A c \in Clients : []<>Allows(c)

\* A user who is an admin no more, for good, has one day no token that says so
\* (api.rs:166): a refresh carries the old roles on, but not the refresh token.
Privileged(u) == \E t \in Tokens : token[t] # None /\ token[t].sub = u /\ token[t].admin
DemotionTakesHold == \A u \in Users : <>[](u \notin admins) => <>[]~Privileged(u)

\* An entry of the denylist whose time is over disappears (revocation.rs:5).
ExpiredEntriesGo == \A t \in Tokens : (revoked[t].left = 0) ~> (revoked[t].left # 0)
=============================================================================
