---------------------------- MODULE AccessProofs ----------------------------
(***************************************************************************)
(* Proofs about Access, for every number of users, clients, requests and   *)
(* tokens, every time to live, leeway, limit and window: a logout holds,   *)
(* the limiter bounds the logins in any span of a window and what it shuts *)
(* out it lets in again, and a role that is gone stays gone.  The first    *)
(* invariant relates the life of a token that was logged out to the life   *)
(* of its entry in the denylist; the second relates the count of a window  *)
(* to how long ago the latest logins were.                                 *)
(***************************************************************************)
EXTENDS Access, TLAPS

USE AccessAssumption

\* A token that verifies.
Living == [kind : {"access", "refresh"}, sub : Users, admin : BOOLEAN, left : Int]

\* A request that carries a token.
Bearer == [pc : {"denylist", "handler"}, op : Ops, token : Tokens, sub : Users,
           admin : BOOLEAN, late : BOOLEAN]

\* A request that asks for one.
Attempt == [pc : {"limit", "lookup", "verify"}, client : Clients, sub : Users, admin : BOOLEAN]

\* The time left of a token, of an entry, and of the ones that are none.
Shape ==
    /\ token \in [Tokens -> Living \cup {None}]
    /\ revoked \in [Tokens -> [left : Int]]
    /\ req \in [Requests -> {Idle} \cup Attempt \cup Bearer]

\* An entry of the denylist outlives its token, as far as the token's exp.
Covered(t) == token[t].left <= 0 \/ token[t].left <= revoked[t].left

\* A request that came after a logout presents a token that is still in out.
LogoutInv ==
    /\ Shape
    /\ out \subseteq Tokens
    /\ \A t \in out : Covered(t)
    /\ \A r \in Requests : At(r, "denylist") /\ req[r].late => req[r].token \in out

-----------------------------------------------------------------------------
(* Init and the steps, one by one.                                         *)

LEMMA InitLogoutInv == Init => LogoutInv
BY DEF Init, LogoutInv, Shape, None, Idle, At, Covered

\* Who is at the denylist or in a handler came with a token.
LEMMA CarriesToken ==
    ASSUME LogoutInv, NEW r \in Requests, req[r].pc \in {"denylist", "handler"}
    PROVE  req[r] \in Bearer /\ req[r].token \in Tokens
BY DEF LogoutInv, Shape, Idle, Attempt, Bearer

\* New tokens: none of them is in out, and no request holds one.
LEMMA IssueKeeps ==
    ASSUME LogoutInv, NEW ts \in SUBSET Tokens, NEW new,
           \A t \in ts : Free(t),
           \A t \in ts : new[t] \in Living,
           Issue(ts, new),
           NEW s \in Requests, req' = [req EXCEPT ![s] = Idle]
    PROVE  LogoutInv'
<1>1. Shape'
  <2>1. token' \in [Tokens -> Living \cup {None}] /\ revoked' \in [Tokens -> [left : Int]]
    BY DEF LogoutInv, Shape, Issue, None
  <2>2. QED
    BY <2>1 DEF LogoutInv, Shape, Idle
<1>2. out' \subseteq Tokens /\ \A t \in out' : Covered(t)'
  BY DEF LogoutInv, Shape, Issue, Covered
<1>3. \A r \in Requests : At(r, "denylist")' /\ req'[r].late => req'[r].token \in out'
  BY DEF LogoutInv, Shape, Issue, Free, At, Idle
<1>4. QED
  BY <1>1, <1>2, <1>3 DEF LogoutInv

\* A tick takes one from what is left, or takes the token away.
LEMMA TokenTick ==
    ASSUME LogoutInv, Tick, NEW t \in Tokens
    PROVE  /\ token'[t] \in Living \cup {None}
           /\ token'[t].left = token[t].left - 1 \/ token'[t].left <= 0
<1>1. token'[t] = Alive(Aged(token[t]), -Leeway)
  BY DEF Tick
<1>2. CASE token[t] = None
  BY <1>1, <1>2 DEF Aged, Alive, None
<1>3. CASE token[t] # None
  <2>1. PICK e : e = [token[t] EXCEPT !.left = @ - 1]
    OBVIOUS
  <2>2. /\ e \in Living
        /\ e.left = token[t].left - 1
    BY <1>3, <2>1 DEF LogoutInv, Shape, Living
  <2>3. token'[t] = e \/ token'[t] = None
    BY <1>1, <1>3, <2>1 DEF Aged, Alive
  <2>4. QED
    BY <2>2, <2>3 DEF None
<1>4. QED
  BY <1>2, <1>3

\* An entry that still counts after the tick has lost one, and no other counted
\* for more than one.
LEMMA EntryTick ==
    ASSUME LogoutInv, Tick, NEW t \in Tokens
    PROVE  /\ revoked'[t] \in [left : Int]
           /\ revoked[t].left > 1 => revoked'[t].left = revoked[t].left - 1
<1>1. revoked[t] \in [left : Int]
  BY DEF LogoutInv, Shape
<1>2. Aged(revoked[t]) \in [left : Int]
      /\ (revoked[t].left > 1 => Aged(revoked[t]).left = revoked[t].left - 1)
  BY <1>1 DEF Aged, None
<1>3. revoked'[t] \in {revoked[t], Aged(revoked[t]), None}
      /\ (revoked[t].left > 1 => revoked'[t] = Aged(revoked[t]))
  BY <1>1, <1>2 DEF Tick, Alive
<1>4. QED
  BY <1>1, <1>2, <1>3 DEF None

\* Time: a token and its entry age by the same tick.
LEMMA TickKeeps ==
    ASSUME LogoutInv, Tick
    PROVE  LogoutInv'
<1>1. Shape'
  BY TokenTick, EntryTick DEF LogoutInv, Shape, Tick
<1>2. ASSUME NEW t \in out
      PROVE  Covered(t)'
  <2>1. t \in Tokens /\ token[t].left \in Int /\ revoked[t].left \in Int
    BY DEF LogoutInv, Shape, Living, None
  <2>2. Covered(t)
    BY DEF LogoutInv
  <2>3. QED
    BY <2>1, <2>2, TokenTick, EntryTick DEF Covered
<1>3. QED
  BY <1>1, <1>2 DEF LogoutInv, Tick, At

\* The entry that logout writes lasts as long as the token.
LEMMA LogoutKeeps ==
    ASSUME LogoutInv, NEW r \in Requests, Logout(r)
    PROVE  LogoutInv'
<1>1. req[r].token \in Tokens /\ token[req[r].token].left \in Int
  BY CarriesToken DEF LogoutInv, Shape, Logout, Handles, At, Living, None
<1>2. /\ EntryTtl(req[r].token) \in Int
      /\ token[req[r].token].left <= EntryTtl(req[r].token)
  BY <1>1 DEF EntryTtl, Remaining
<1>3. Shape'
  BY <1>1, <1>2 DEF LogoutInv, Shape, Logout, Finish, Idle
<1>4. \A t \in out' : Covered(t)'
  BY <1>1, <1>2 DEF LogoutInv, Shape, Logout, Covered
<1>5. QED
  BY <1>1, <1>3, <1>4 DEF LogoutInv, Logout, Finish, Idle, At

\* The denylist lets go of an entry only when its time is over.
LEMMA CheckKeeps ==
    ASSUME LogoutInv, NEW r \in Requests, CheckDenylist(r)
    PROVE  LogoutInv'
<1>1. req[r] \in Bearer /\ req[r].token \in Tokens
  BY CarriesToken DEF CheckDenylist, At
<1>2. /\ revoked' = revoked \/ (revoked[req[r].token].left = 0
                                   /\ revoked' = [revoked EXCEPT ![req[r].token] = None])
      /\ token' = token /\ out' = out
      /\ req' = [req EXCEPT ![r] = Idle] \/ req' = [req EXCEPT ![r].pc = "handler"]
  BY DEF CheckDenylist, Finish, Go
<1>3. revoked' \in [Tokens -> [left : Int]]
  BY <1>1, <1>2 DEF LogoutInv, Shape, None
<1>4. req' \in [Requests -> {Idle} \cup Attempt \cup Bearer]
  BY <1>1, <1>2 DEF LogoutInv, Shape, Bearer
<1>5. \A t \in out' : Covered(t)'
  BY <1>1, <1>2 DEF LogoutInv, Shape, Covered, None
<1>6. \A s \in Requests : At(s, "denylist")' /\ req'[s].late => req'[s].token \in out'
  BY <1>1, <1>2 DEF LogoutInv, Shape, Idle, At, Bearer
<1>7. QED
  BY <1>2, <1>3, <1>4, <1>5, <1>6 DEF LogoutInv, Shape

\* A new request, and one that knows whether its token was logged out.
LEMMA PresentKeeps ==
    ASSUME LogoutInv, NEW r \in Requests, NEW t \in Tokens, NEW op \in Ops, Present(r, t, op)
    PROVE  LogoutInv'
<1>1. Shape'
  <2>1. token[t] \in Living
    BY DEF LogoutInv, Shape, Present
  <2>2. req'[r] \in Bearer
    BY <2>1 DEF LogoutInv, Shape, Present, Bearer, Living
  <2>3. QED
    BY <2>2 DEF LogoutInv, Shape, Present, store
<1>2. QED
  BY <1>1 DEF LogoutInv, Shape, Present, store, At, Covered

\* Steps that only move a request on.
LEMMA OthersKeep ==
    ASSUME LogoutInv, UNCHANGED store,
           NEW r \in Requests, NEW x, req' = [req EXCEPT ![r] = x],
           x \in {Idle} \cup Attempt \cup Bearer, x.pc # "denylist"
    PROVE  LogoutInv'
<1>1. Shape'
  BY DEF LogoutInv, Shape, store
<1>2. QED
  BY <1>1 DEF LogoutInv, Shape, store, At, Covered

-----------------------------------------------------------------------------
(* Every step.                                                             *)

LEMMA StepKeeps ==
    ASSUME LogoutInv, NEW r \in Requests, Step(r)
    PROVE  LogoutInv'
<1>1. req[r] \in {Idle} \cup Attempt \cup Bearer
  BY DEF LogoutInv, Shape
<1>2. CASE CheckLimit(r) \/ FailOpen(r) \/ Lookup(r)
  <2>1. UNCHANGED store /\ req[r] \in Attempt
    BY <1>1, <1>2 DEF CheckLimit, FailOpen, Lookup, At, Idle, Bearer
  <2>2. \/ req' = [req EXCEPT ![r] = Idle]
        \/ req' = [req EXCEPT ![r].pc = "lookup"]
        \/ req' = [req EXCEPT ![r].pc = "verify",
                              ![r].admin = method = "ldap" /\ req[r].sub \in admins]
    BY <1>2 DEF CheckLimit, FailOpen, Lookup, Go, Finish
  <2>3. PICK x \in {Idle} \cup Attempt : req' = [req EXCEPT ![r] = x]
    <3>1. \/ req' = [req EXCEPT ![r] = Idle]
          \/ req' = [req EXCEPT ![r] = [req[r] EXCEPT !.pc = "lookup"]]
          \/ req' = [req EXCEPT ![r] = [req[r] EXCEPT !.pc = "verify",
                              !.admin = method = "ldap" /\ req[r].sub \in admins]]
      BY <2>1, <2>2 DEF LogoutInv, Shape
    <3>2. (method = "ldap" /\ req[r].sub \in admins) \in BOOLEAN
      OBVIOUS
    <3>3. QED
      BY <2>1, <3>1, <3>2 DEF Attempt
  <2>4. x.pc # "denylist"
    BY DEF Idle, Attempt
  <2>5. QED
    BY <2>1, <2>3, <2>4, OthersKeep
<1>3. CASE VerifyPassword(r)
  <2>1. PICK a \in Tokens, b \in Tokens :
           /\ Free(a) /\ Free(b)
           /\ Issue({a, b}, [t \in {a, b} |->
                 Token(IF t = a THEN "access" ELSE "refresh", req[r].sub, Roles(r))])
    BY <1>3 DEF VerifyPassword
  <2>2. req[r] \in Attempt
    BY <1>1, <1>3 DEF VerifyPassword, At, Idle, Bearer
  <2>3. Roles(r) \in BOOLEAN /\ req[r].sub \in Users
    <3>1. req[r].sub \in Users /\ req[r].admin \in BOOLEAN
      BY <2>2 DEF Attempt
    <3>2. (req[r].sub \in admins) \in BOOLEAN
      OBVIOUS
    <3>3. Roles(r) = (req[r].sub \in admins) \/ Roles(r) = req[r].admin
      BY DEF Roles
    <3>4. QED
      BY <3>1, <3>2, <3>3, Zenon
  <2>4. \A k \in {"access", "refresh"} : Token(k, req[r].sub, Roles(r)) \in Living
    BY <2>3 DEF Token, Living
  <2>5. req' = [req EXCEPT ![r] = Idle]
    BY <1>3 DEF VerifyPassword, Finish
  <2>6. QED
    BY <2>1, <2>4, <2>5, IssueKeeps
<1>4. CASE CheckDenylist(r)
  BY <1>4, CheckKeeps
<1>5. CASE CheckBlind(r)
  <2>1. UNCHANGED store /\ req[r] \in Bearer
    BY <1>1, <1>5 DEF CheckBlind, At, Idle, Attempt
  <2>2. \/ req' = [req EXCEPT ![r] = Idle]
        \/ req' = [req EXCEPT ![r].pc = "handler", ![r].late = FALSE]
    BY <1>5 DEF CheckBlind, Finish
  <2>3. PICK x \in {Idle} \cup Bearer : req' = [req EXCEPT ![r] = x] /\ x.pc # "denylist"
    BY <2>1, <2>2 DEF Bearer, LogoutInv, Shape, Idle
  <2>4. QED
    BY <2>1, <2>3, OthersKeep
<1>6. CASE Serve(r) \/ LogoutUnwritten(r)
  <2>1. UNCHANGED store /\ req' = [req EXCEPT ![r] = Idle]
    BY <1>6 DEF Serve, LogoutUnwritten, Finish
  <2>2. Idle.pc # "denylist"
    BY DEF Idle
  <2>3. QED
    BY <2>1, <2>2, OthersKeep
<1>7. CASE Refresh(r)
  <2>1. PICK a \in Tokens :
           /\ Free(a)
           /\ Issue({a}, [t \in {a} |-> Token("access", req[r].sub, req[r].admin)])
    BY <1>7 DEF Refresh
  <2>2. req[r] \in Bearer
    BY <1>7, CarriesToken DEF Refresh, Handles, At
  <2>3. Token("access", req[r].sub, req[r].admin) \in Living
    BY <2>2 DEF Token, Living, Bearer
  <2>4. req' = [req EXCEPT ![r] = Idle]
    BY <1>7 DEF Refresh, Finish
  <2>5. QED
    BY <2>1, <2>3, <2>4, IssueKeeps
<1>8. CASE Logout(r)
  BY <1>8, LogoutKeeps
<1>9. QED
  BY <1>2, <1>3, <1>4, <1>5, <1>6, <1>7, <1>8 DEF Step

\* LogoutInv is inductive.
LEMMA NextLogoutInv == LogoutInv /\ [Next]_vars => LogoutInv'
<1>1. SUFFICES ASSUME LogoutInv, [Next]_vars
               PROVE  LogoutInv'
  OBVIOUS
<1>2. ASSUME NEW r \in Requests, Step(r)
      PROVE  LogoutInv'
  BY <1>1, <1>2, StepKeeps
<1>3. ASSUME NEW r \in Requests, Abandon(r)
      PROVE  LogoutInv'
  <2>1. UNCHANGED store /\ req' = [req EXCEPT ![r] = Idle]
    BY <1>3 DEF Abandon, Finish
  <2>2. Idle.pc # "denylist"
    BY DEF Idle
  <2>3. QED
    BY <1>1, <2>1, <2>2, OthersKeep
<1>4. ASSUME NEW r \in Requests, NEW c \in Clients, NEW u \in Users, Login(r, c, u)
      PROVE  LogoutInv'
  <2>1. PICK x \in Attempt : req' = [req EXCEPT ![r] = x]
    BY <1>4 DEF Login, Attempt
  <2>2. UNCHANGED store /\ x.pc # "denylist"
    BY <1>4 DEF Login, Attempt
  <2>3. QED
    BY <1>1, <2>1, <2>2, OthersKeep
<1>5. ASSUME NEW r \in Requests, NEW t \in Tokens, NEW op \in Ops, Present(r, t, op)
      PROVE  LogoutInv'
  BY <1>1, <1>5, PresentKeeps
<1>6. CASE Tick
  BY <1>1, <1>6, TickKeeps
<1>7. CASE Restart
  <2>1. Shape'
    BY <1>1, <1>7 DEF LogoutInv, Shape, Restart, None
  <2>2. out' = {} \/ UNCHANGED <<revoked, out>>
    BY <1>7 DEF Restart
  <2>3. \A r \in Requests : ~At(r, "denylist")'
    BY <1>7 DEF Restart, At, Idle
  <2>4. QED
    BY <1>1, <1>7, <2>1, <2>2, <2>3 DEF LogoutInv, Covered, Restart
<1>8. CASE Regroup \/ UNCHANGED vars
  BY <1>1, <1>8 DEF Regroup, vars, LogoutInv, Shape, Covered, At
<1>9. QED
  BY <1>1, <1>2, <1>3, <1>4, <1>5, <1>6, <1>7, <1>8 DEF Next

\* The invariant behind the logout: of a token whose logout was written, the
\* entry in the denylist lasts as long as the token (revocation.rs:80).
THEOREM EntryOutlivesToken == Spec => []LogoutInv
<1>1. QED
  BY InitLogoutInv, NextLogoutInv, PTL DEF Spec

-----------------------------------------------------------------------------
(* The property.                                                           *)

\* A request gets past the denylist only when its token is not in it, or when
\* the denylist could not be read and nothing is expected of it.
LEMMA PassesClean ==
    ASSUME LogoutInv, [Next]_vars, NEW r \in Requests,
           At(r, "denylist"), req'[r].pc = "handler", req'[r].late
    PROVE  token[req[r].token].left <= 0
<1>1. req[r] \in Bearer /\ req[r].token \in Tokens
  BY CarriesToken DEF At
<1>2. CASE CheckDenylist(r)
  <2>1. ~(revoked[req[r].token].left > 0)
    BY <1>2 DEF CheckDenylist, IsRevoked, Finish, Idle, LogoutInv, Shape
  <2>2. req[r].late
    BY <1>1, <1>2 DEF CheckDenylist, Finish, Go, Idle, LogoutInv, Shape, Bearer
  <2>3. Covered(req[r].token)
    BY <2>2 DEF LogoutInv
  <2>4. revoked[req[r].token].left \in Int /\ token[req[r].token].left \in Int
    BY <1>1 DEF LogoutInv, Shape, Living, None
  <2>5. QED
    BY <2>1, <2>3, <2>4 DEF Covered
<1>3. CASE CheckBlind(r)
  BY <1>1, <1>3 DEF CheckBlind, Finish, Idle, LogoutInv, Shape, Bearer
<1>4. CASE req'[r] = req[r] \/ req'[r] = Idle
  BY <1>4 DEF At, Idle
<1>5. CheckDenylist(r) \/ CheckBlind(r) \/ req'[r] = req[r] \/ req'[r] = Idle
  <2>1. DOMAIN req = Requests
    BY DEF LogoutInv, Shape
  <2>2. CASE \E s \in Requests : Step(s) \/ Abandon(s)
    <3>1. PICK s \in Requests : Step(s) \/ Abandon(s)
      BY <2>2
    <3>2. CASE s = r
      <4>1. ~At(r, "limit") /\ ~At(r, "lookup") /\ ~At(r, "verify") /\ ~At(r, "handler")
        BY DEF At
      <4>2. QED
        BY <2>1, <3>1, <3>2, <4>1
           DEF Step, CheckLimit, FailOpen, Lookup, VerifyPassword, Serve, Refresh, Logout,
               LogoutUnwritten, Handles, Abandon, Finish
    <3>3. CASE s # r
      BY <3>1, <3>3, <2>1
         DEF Step, CheckLimit, FailOpen, Lookup, VerifyPassword, CheckDenylist, CheckBlind,
             Serve, Refresh, Logout, LogoutUnwritten, Abandon, Finish, Go
    <3>4. QED
      BY <3>2, <3>3
  <2>3. CASE \E s \in Requests :
               \/ \E c \in Clients, u \in Users : Login(s, c, u)
               \/ \E t \in Tokens, op \in Ops : Present(s, t, op)
    BY <2>1, <2>3 DEF Login, Present, At
  <2>4. CASE Tick \/ Restart \/ Regroup \/ UNCHANGED vars
    BY <2>4 DEF Tick, Restart, Regroup, vars
  <2>5. QED
    BY <2>2, <2>3, <2>4 DEF Next
<1>6. QED
  BY <1>2, <1>3, <1>4, <1>5

\* A request that starts after a logout was answered is turned away, for every
\* time to live, leeway, backend and interleaving.
THEOREM LogoutIsFinal == Spec => LogoutHolds
<1>1. LogoutInv /\ [Next]_vars =>
        [\A r \in Requests :
           (At(r, "denylist") /\ req'[r].pc = "handler") =>
              (req'[r].late => token[req[r].token].left <= 0)]_vars
  BY PassesClean
<1>2. QED
  BY <1>1, EntryOutlivesToken, PTL DEF Spec, LogoutHolds

-----------------------------------------------------------------------------
(* The rate limiter.                                                       *)

RateType ==
    /\ limiter \in [Clients -> [count : 0..Limit, left : -1..Window] \cup {None}]
    /\ admitted \in [Clients -> [Latest -> 0..Window]]

\* The further back a login, the longer ago.
Sorted(a) == \A j, k \in Latest : j <= k => a[j] <= a[k]

\* The logins that e has counted are the latest.  The one before them is as old
\* as the window of e, and Limit further on they are all a Window ago.
WithinWindows(e, a) ==
    IF Over(e) THEN a[Limit + 1] = Window
    ELSE /\ a[e.count + 1] >= Window - e.left
         /\ a[e.count + Limit + 1] = Window

RateInv ==
    /\ RateType
    /\ \A c \in Clients : Sorted(admitted[c]) /\ WithinWindows(limiter[c], admitted[c])

LEMMA Limits == Limit \in Nat /\ Limit >= 1 /\ Window \in Nat /\ Window >= 1
OBVIOUS

LEMMA InitRateInv == Init => RateInv
<1>1. ASSUME Init, NEW c \in Clients
      PROVE  Sorted(admitted[c]) /\ WithinWindows(limiter[c], admitted[c])
  BY <1>1 DEF Init, Never, Latest, Sorted, WithinWindows, Over, None
<1>2. Init => RateType
  BY DEF Init, Never, Latest, RateType
<1>3. QED
  BY <1>1, <1>2 DEF RateInv

\* A login that is let through is the latest of its window, or the first of a
\* new one.
LEMMA CountKeeps ==
    ASSUME RateInv, NEW r \in Requests, CheckLimit(r), NEW c \in Clients, c = req[r].client
    PROVE  RateInv'
<1> USE Limits
<1>0. /\ limiter[c] \in [count : 0..Limit, left : -1..Window] \cup {None}
      /\ admitted[c] \in [Latest -> 0..Window] /\ Sorted(admitted[c])
      /\ WithinWindows(limiter[c], admitted[c])
  BY DEF RateInv, RateType
<1>1. PICK e \in [count : 0..Limit, left : -1..Window] :
         /\ e = Counter(c) /\ ~Over(e)
         /\ e = limiter[c] \/ (Over(limiter[c]) /\ e = [count |-> 0, left |-> Window])
  <2>1. CASE Over(limiter[c])
    <3>1. Counter(c) = [count |-> 0, left |-> Window] /\ ~Over(Counter(c))
      BY <2>1 DEF Counter, Over
    <3>2. Counter(c) \in [count : 0..Limit, left : -1..Window]
      BY <3>1
    <3>3. QED
      BY <2>1, <3>1, <3>2
  <2>2. CASE ~Over(limiter[c])
    BY <1>0, <2>2 DEF Counter, Over, None
  <2>3. QED
    BY <2>1, <2>2
<1>2. /\ admitted[c] \in [Latest -> 0..Window] /\ Sorted(admitted[c])
      /\ admitted[c][e.count + 1] >= Window - e.left
      /\ admitted[c][e.count + Limit + 1] = Window
  <2>1. CASE e = limiter[c]
    BY <1>0, <1>1, <2>1 DEF WithinWindows
  <2>2. CASE Over(limiter[c]) /\ e = [count |-> 0, left |-> Window]
    BY <1>0, <2>2 DEF WithinWindows, Latest
  <2>3. QED
    BY <1>0, <1>1, <2>1, <2>2
<1>3. CASE ~Allows(c)
  <2>1. limiter' = [limiter EXCEPT ![c] = e] /\ UNCHANGED admitted
    BY <1>1, <1>3 DEF CheckLimit, Count, Allows
  <2>2. WithinWindows(e, admitted[c])' /\ UNCHANGED backend
    BY <1>1, <1>2, <2>1 DEF WithinWindows, Over, CheckLimit, config
  <2>3. QED
    BY <2>1, <2>2 DEF RateInv, RateType, WithinWindows, Over
<1>4. CASE Allows(c)
  <2>1. PICK a : a = [k \in Latest |-> IF k = 1 THEN 0 ELSE admitted[c][k - 1]]
    OBVIOUS
  <2>2. PICK f : f = [e EXCEPT !.count = @ + 1]
    OBVIOUS
  <2>3. /\ limiter' = [limiter EXCEPT ![c] = f] /\ admitted' = [admitted EXCEPT ![c] = a]
        /\ UNCHANGED backend /\ e.count < Limit
    BY <1>1, <1>4, <2>1, <2>2 DEF CheckLimit, Count, Allows, config
  <2>4. /\ f \in [count : 0..Limit, left : -1..Window] /\ ~Over(f)
        /\ f.count = e.count + 1 /\ f.left = e.left
    BY <1>1, <2>2, <2>3 DEF Over
  <2>5. a \in [Latest -> 0..Window] /\ Sorted(a)
    <3>1. \A k \in Latest : k # 1 => k - 1 \in Latest
      BY DEF Latest
    <3>2. \A k \in Latest : admitted[c][k] \in 0..Window
      BY <1>2
    <3>3. a \in [Latest -> 0..Window]
      BY <2>1, <3>1, <3>2
    <3>4. ASSUME NEW j \in Latest, NEW k \in Latest, j <= k
          PROVE  a[j] <= a[k]
      <4>1. CASE j = 1
        BY <2>1, <3>3, <4>1
      <4>2. CASE j # 1
        <5>1. k # 1 /\ j - 1 <= k - 1
          BY <3>4, <4>2 DEF Latest
        <5>2. QED
          BY <1>2, <2>1, <3>1, <4>2, <5>1 DEF Sorted
      <4>3. QED
        BY <4>1, <4>2
    <3>5. QED
      BY <3>3, <3>4 DEF Sorted
  <2>6. /\ a[f.count + 1] = admitted[c][e.count + 1]
        /\ a[f.count + Limit + 1] = admitted[c][e.count + Limit + 1]
    <3>1. /\ f.count + 1 \in Latest /\ f.count + 1 # 1 /\ (f.count + 1) - 1 = e.count + 1
          /\ f.count + Limit + 1 \in Latest /\ f.count + Limit + 1 # 1
          /\ (f.count + Limit + 1) - 1 = e.count + Limit + 1
      BY <1>1, <2>3, <2>4 DEF Latest
    <3>2. \A k \in Latest : k # 1 => a[k] = admitted[c][k - 1]
      BY <2>1
    <3>3. QED
      BY <3>1, <3>2, Zenon
  <2>7. WithinWindows(f, a)
    BY <1>2, <2>4, <2>6 DEF WithinWindows
  <2>8. QED
    BY <2>3, <2>4, <2>5, <2>7 DEF RateInv, RateType, WithinWindows, Over
<1>5. QED
  BY <1>3, <1>4

\* Time: the window and the logins in it age by the same tick.
LEMMA RateTick ==
    ASSUME RateInv, Tick
    PROVE  RateInv'
<1> USE Limits
<1>1. ASSUME NEW c \in Clients
      PROVE  /\ limiter'[c] \in [count : 0..Limit, left : -1..Window] \cup {None}
             /\ admitted'[c] \in [Latest -> 0..Window]
             /\ Sorted(admitted'[c]) /\ WithinWindows(limiter[c], admitted[c])'
  <2>1. PICK e, a : e = limiter[c] /\ a = admitted[c]
    OBVIOUS
  <2>2. /\ e \in [count : 0..Limit, left : -1..Window] \cup {None}
        /\ a \in [Latest -> 0..Window] /\ Sorted(a) /\ WithinWindows(e, a)
    BY <2>1 DEF RateInv, RateType
  <2>3. PICK b : b = admitted'[c]
    OBVIOUS
  <2>4. /\ b \in [Latest -> 0..Window] /\ Sorted(b)
        /\ \A k \in Latest : /\ b[k] >= a[k]
                             /\ b[k] >= a[k] + 1 \/ b[k] = Window
    <3>1. b = [k \in Latest |-> IF a[k] < Window THEN a[k] + 1 ELSE Window]
      BY <2>1, <2>3 DEF Tick
    <3>2. \A k \in Latest : a[k] \in 0..Window
      BY <2>2
    <3>3. QED
      BY <2>2, <3>1, <3>2 DEF Sorted
  <2>5. PICK f : f = limiter'[c] /\ UNCHANGED backend
    BY DEF Tick, config
  <2>6. \/ f = e /\ Over(e)
        \/ f = None
        \/ /\ f \in [count : 0..Limit, left : -1..Window] /\ e \in [count : 0..Limit, left : -1..Window]
           /\ f.count = e.count /\ f.left = e.left - 1
    BY <2>1, <2>2, <2>5 DEF Tick, Aged, Alive, Over, None
  <2>7. f = None => e = None \/ Over(e) \/ (e \in [count : 0..Limit, left : -1..Window] /\ e.left <= 1)
    BY <2>1, <2>2, <2>5 DEF Tick, Aged, Alive, Over, None
  <2>8. WithinWindows(f, b)
    <3>1. CASE Over(e)
      <4>1. b[Limit + 1] = Window
        BY <2>2, <2>4, <3>1 DEF WithinWindows, Latest
      <4>2. Over(f)
        BY <2>6, <3>1 DEF Over, None
      <4>3. QED
        BY <4>1, <4>2 DEF WithinWindows
    <3>2. CASE ~Over(e)
      <4>1. e \in [count : 0..Limit, left : -1..Window]
        BY <2>2, <3>2 DEF Over, None
      <4>2. /\ a[e.count + 1] >= Window - e.left /\ a[e.count + Limit + 1] = Window
            /\ e.count + 1 \in Latest /\ e.count + Limit + 1 \in Latest /\ Limit + 1 \in Latest
        <5>1. e.count \in 0..Limit
          BY <4>1
        <5>2. e.count + 1 \in Latest /\ e.count + Limit + 1 \in Latest /\ Limit + 1 \in Latest
          BY <5>1 DEF Latest
        <5>3. QED
          BY <2>2, <3>2, <5>2 DEF WithinWindows
      <4>3. b[e.count + Limit + 1] = Window
        BY <2>2, <2>4, <4>2
      <4>4. b[e.count + 1] >= Window - e.left + 1 \/ b[e.count + 1] = Window
        BY <2>2, <2>4, <4>1, <4>2
      <4>5. CASE ~Over(f)
        <5>1. f.count = e.count /\ f.left = e.left - 1 /\ f.left >= 0 /\ e.left \in Int
          BY <2>6, <3>2, <4>1, <4>5 DEF Over, None
        <5>2. QED
          BY <4>3, <4>4, <4>5, <5>1 DEF WithinWindows
      <4>6. CASE Over(f)
        <5>1. b[e.count + 1] = Window
          <6>1. e.left <= 1 /\ b[e.count + 1] \in 0..Window
            BY <2>4, <2>6, <2>7, <3>2, <4>1, <4>2, <4>6 DEF Over, None
          <6>2. backend # "redis" => e.left <= 0
            BY <2>6, <3>2, <4>1, <4>6, <2>1, <2>5 DEF Over, None, Tick, Aged, Alive
          <6>3. QED
            BY <4>1, <4>4, <6>1, <6>2
        <5>2. b[Limit + 1] = Window
          BY <2>4, <4>1, <4>2, <5>1 DEF Sorted
        <5>3. QED
          BY <4>6, <5>2 DEF WithinWindows
      <4>7. QED
        BY <4>5, <4>6
    <3>3. QED
      BY <3>1, <3>2
  <2>9. WithinWindows(limiter[c], admitted[c])'
    BY <2>3, <2>5, <2>8 DEF WithinWindows, Over
  <2>10. QED
    BY <2>2, <2>3, <2>4, <2>5, <2>6, <2>9, <2>1
<1>2. /\ limiter' \in [Clients -> [count : 0..Limit, left : -1..Window] \cup {None}]
      /\ admitted' \in [Clients -> [Latest -> 0..Window]]
  <2>1. limiter' = [c \in Clients |-> limiter'[c]] /\ admitted' = [c \in Clients |-> admitted'[c]]
    BY DEF Tick
  <2>2. QED
    BY <1>1, <2>1
<1>3. QED
  BY <1>1, <1>2 DEF RateInv, RateType

\* RateInv is inductive, given the requests.
LEMMA NextRateInv == LogoutInv /\ RateInv /\ [Next]_vars => RateInv'
<1>1. SUFFICES ASSUME LogoutInv, RateInv, [Next]_vars
               PROVE  RateInv'
  OBVIOUS
<1>2. CASE UNCHANGED rate /\ UNCHANGED backend
  BY <1>1, <1>2 DEF rate, RateInv, RateType, WithinWindows, Over
<1>3. ASSUME NEW r \in Requests, CheckLimit(r)
      PROVE  RateInv'
  <2>1. req[r] \in Attempt
    BY <1>1, <1>3 DEF LogoutInv, Shape, CheckLimit, At, Idle, Bearer
  <2>2. QED
    BY <1>1, <1>3, <2>1, CountKeeps DEF Attempt
<1>4. CASE Tick
  BY <1>1, <1>4, RateTick
<1>5. CASE Restart
  <2>1. CASE UNCHANGED <<limiter, admitted, backend>>
    BY <1>2, <2>1 DEF rate
  <2>2. CASE limiter' = [c \in Clients |-> None] /\ admitted' = Never
    BY <2>2 DEF RateInv, RateType, Never, Latest, Sorted, WithinWindows, Over, None
  <2>3. QED
    BY <1>5, <2>1, <2>2 DEF Restart, config
<1>6. CASE Regroup \/ UNCHANGED vars
  BY <1>2, <1>6 DEF Regroup, vars, config, rate
<1>7. ASSUME NEW r \in Requests, Step(r) \/ Abandon(r)
      PROVE  RateInv'
  BY <1>2, <1>3, <1>7
     DEF Step, FailOpen, Lookup, VerifyPassword, CheckDenylist, CheckBlind, Serve, Refresh,
         Logout, LogoutUnwritten, Abandon, config
<1>8. ASSUME NEW r \in Requests,
             \/ \E c \in Clients, u \in Users : Login(r, c, u)
             \/ \E t \in Tokens, op \in Ops : Present(r, t, op)
      PROVE  RateInv'
  BY <1>2, <1>8 DEF Login, Present, config
<1>9. QED
  BY <1>1, <1>4, <1>5, <1>6, <1>7, <1>8 DEF Next

\* Two windows of Limit logins are what any span of Window can meet, for every
\* limit and length, in Redis and in memory.
THEOREM LoginsAreBounded == Spec => []LoginsBounded
<1>1. RateInv => LoginsBounded
  <2>1. ASSUME RateInv, NEW c \in Clients
        PROVE  admitted[c][2 * Limit + 1] = Window
    <3>1. PICK k \in Latest : admitted[c][k] = Window
      <4>1. /\ limiter[c] \in [count : 0..Limit, left : -1..Window] \cup {None}
            /\ WithinWindows(limiter[c], admitted[c])
        BY <2>1 DEF RateInv, RateType
      <4>2. CASE Over(limiter[c])
        BY <4>1, <4>2, Limits DEF WithinWindows, Latest
      <4>3. CASE ~Over(limiter[c])
        <5>1. limiter[c].count \in 0..Limit
          BY <4>1, <4>3 DEF Over, None
        <5>2. limiter[c].count + Limit + 1 \in Latest
          BY <5>1, Limits DEF Latest
        <5>3. QED
          BY <4>1, <4>3, <5>2 DEF WithinWindows
      <4>4. QED
        BY <4>2, <4>3
    <3>2. 2 * Limit + 1 \in Latest /\ k <= 2 * Limit + 1
      BY Limits DEF Latest
    <3>3. admitted[c][2 * Limit + 1] \in 0..Window
      BY <2>1, <3>2 DEF RateInv, RateType
    <3>4. QED
      BY <2>1, <3>1, <3>2, <3>3 DEF RateInv, Sorted
  <2>2. QED
    BY <2>1 DEF LoginsBounded
<1>2. QED
  BY <1>1, InitRateInv, NextRateInv, EntryOutlivesToken, PTL DEF Spec

-----------------------------------------------------------------------------
(* The types, and the bounds of what counts down.                          *)

Entry == [left : 0..AccessTTL]

\* An access token never has more than AccessTTL left, and a logout under way
\* came with an access token: its entry cannot last longer either.
TypeInv ==
    /\ backend \in {"memory", "redis"} /\ method \in {"db", "ldap"}
    /\ admins \subseteq Users
    /\ token \in [Tokens -> Token0 \cup {None}]
    /\ revoked \in [Tokens -> Entry \cup {None}]
    /\ \A t \in Tokens : token[t] # None /\ token[t].kind = "access" => token[t].left <= AccessTTL
    /\ \A r \in Requests :
          /\ At(r, "denylist") \/ At(r, "handler")
          /\ req[r].op = "logout" /\ token[req[r].token] # None
          => token[req[r].token].kind = "access"

LEMMA Lives == AccessTTL \in Nat /\ AccessTTL >= 1 /\ RefreshTTL \in Nat /\ Leeway \in Nat
OBVIOUS

LEMMA InitTypeInv == Init => TypeInv
BY DEF Init, TypeInv, At, Idle

\* A new token has its whole life before it.
LEMMA NewToken ==
    ASSUME NEW kind \in {"access", "refresh"}, NEW u \in Users, NEW admin \in BOOLEAN
    PROVE  /\ Token(kind, u, admin) \in Token0
           /\ kind = "access" => Token(kind, u, admin).left <= AccessTTL
BY Lives DEF Token, Token0

LEMMA IssueTypes ==
    ASSUME TypeInv, NEW ts \in SUBSET Tokens, NEW new,
           \A t \in ts : Free(t),
           \A t \in ts : /\ new[t] \in Token0
                         /\ new[t].kind = "access" => new[t].left <= AccessTTL,
           Issue(ts, new), UNCHANGED <<config, admins>>,
           NEW s \in Requests, req' = [req EXCEPT ![s] = Idle], DOMAIN req = Requests,
           \A r \in Requests : req[r].pc \in {"denylist", "handler"} => req[r].token \in Tokens
    PROVE  TypeInv'
<1>1. /\ token' \in [Tokens -> Token0 \cup {None}]
      /\ revoked' \in [Tokens -> Entry \cup {None}]
      /\ \A t \in Tokens : token'[t] # None /\ token'[t].kind = "access" => token'[t].left <= AccessTTL
  BY DEF TypeInv, Issue
<1>2. ASSUME NEW r \in Requests, At(r, "denylist")' \/ At(r, "handler")'
      PROVE  req'[r].op = "logout" /\ token'[req'[r].token] # None => token'[req'[r].token].kind = "access"
  <2>1. req'[r] = req[r]
    BY <1>2 DEF At, Idle
  <2>2. req[r].token \in Tokens /\ req[r].token \notin ts
    BY <1>2, <2>1 DEF At, Free
  <2>3. token'[req[r].token] = token[req[r].token]
    BY <2>2 DEF Issue
  <2>4. QED
    BY <1>2, <2>1, <2>3 DEF TypeInv, At
<1>3. QED
  BY <1>1, <1>2 DEF TypeInv, config

\* What is left of a token or of an entry gets less, down to where it ends.
LEMMA TickTypes ==
    ASSUME LogoutInv, TypeInv, Tick
    PROVE  TypeInv'
<1>1. ASSUME NEW t \in Tokens
      PROVE  /\ token'[t] \in Token0 \cup {None}
             /\ token'[t] # None => /\ token[t] # None /\ token'[t].kind = token[t].kind
                                    /\ token'[t].left <= token[t].left
  <2>1. token'[t] = Alive(Aged(token[t]), -Leeway)
    BY DEF Tick
  <2>2. CASE token[t] = None
    BY <2>1, <2>2 DEF Aged, Alive
  <2>3. CASE token[t] # None
    <3>1. PICK e : e = [token[t] EXCEPT !.left = @ - 1]
      OBVIOUS
    <3>2. token[t] \in Token0
      BY <2>3 DEF TypeInv
    <3>3. /\ e \in [kind : {"access", "refresh"}, sub : Users, admin : BOOLEAN, left : Int]
          /\ e.left = token[t].left - 1 /\ e.kind = token[t].kind
          /\ token[t].left \in Int /\ token[t].left <= AccessTTL + RefreshTTL
      BY <3>1, <3>2, Lives DEF Token0
    <3>4. token'[t] = None \/ (token'[t] = e /\ e.left >= -Leeway)
      BY <2>1, <2>3, <3>1, <3>3, Lives DEF Aged, Alive
    <3>5. e.left >= -Leeway => e \in Token0
      BY <3>3, Lives DEF Token0
    <3>6. QED
      BY <2>3, <3>3, <3>4, <3>5
  <2>4. QED
    BY <2>2, <2>3
<1>2. ASSUME NEW t \in Tokens
      PROVE  revoked'[t] \in Entry \cup {None}
  <2>1. revoked[t] \in Entry \cup {None}
    BY DEF TypeInv
  <2>2. CASE revoked[t] = None
    BY <2>2 DEF Tick, Aged, Alive, None
  <2>3. CASE revoked[t] # None
    <3>1. revoked[t].left \in 0..AccessTTL
      BY <2>1, <2>3 DEF Entry
    <3>2. PICK e : e = [revoked[t] EXCEPT !.left = @ - 1]
      OBVIOUS
    <3>3. /\ e = Aged(revoked[t]) /\ e.left = revoked[t].left - 1
          /\ revoked[t].left # 0 => e \in Entry
      BY <2>1, <2>3, <3>1, <3>2, Lives DEF Aged, Entry
    <3>4. \/ revoked'[t] \in {None, revoked[t]}
          \/ revoked'[t] = e /\ revoked[t].left # 0
      BY <3>1, <3>3, Lives DEF Tick, Alive
    <3>5. QED
      BY <2>1, <3>3, <3>4
  <2>4. QED
    BY <2>2, <2>3
<1>3. /\ token' \in [Tokens -> Token0 \cup {None}] /\ revoked' \in [Tokens -> Entry \cup {None}]
  <2>1. token' = [t \in Tokens |-> token'[t]] /\ revoked' = [t \in Tokens |-> revoked'[t]]
    BY DEF Tick
  <2>2. QED
    BY <1>1, <1>2, <2>1
<1>4. \A t \in Tokens : token'[t] # None /\ token'[t].kind = "access" => token'[t].left <= AccessTTL
  <2>1. ASSUME NEW t \in Tokens, token'[t] # None, token'[t].kind = "access"
        PROVE  token'[t].left <= AccessTTL
    <3>1. token'[t].left <= token[t].left /\ token[t].left <= AccessTTL
      BY <1>1, <2>1 DEF TypeInv
    <3>2. token'[t].left \in Int /\ token[t].left \in Int
      BY <1>1, <2>1, Lives DEF TypeInv, Token0
    <3>3. QED
      BY <3>1, <3>2, Lives
  <2>2. QED
    BY <2>1
<1>5. ASSUME NEW r \in Requests, At(r, "denylist")' \/ At(r, "handler")'
      PROVE  req'[r].op = "logout" /\ token'[req'[r].token] # None => token'[req'[r].token].kind = "access"
  <2>1. req' = req
    BY DEF Tick
  <2>2. req[r].token \in Tokens
    BY <1>5, <2>1, CarriesToken DEF At
  <2>3. QED
    BY <1>1, <1>5, <2>1, <2>2 DEF TypeInv, At
<1>6. QED
  BY <1>3, <1>4, <1>5 DEF TypeInv, Tick, config

\* Steps that leave the tokens and the denylist as they are.
LEMMA OthersTypes ==
    ASSUME TypeInv, UNCHANGED <<backend, method, token, revoked>>, admins' \subseteq Users,
           \A s \in Requests : \/ req'[s] = req[s]
                               \/ req'[s].pc \notin {"denylist", "handler"}
                               \/ req'[s].op # "logout"
                               \/ /\ req[s].pc \in {"denylist", "handler"}
                                  /\ req'[s].op = req[s].op /\ req'[s].token = req[s].token
    PROVE  TypeInv'
<1>1. ASSUME NEW s \in Requests, At(s, "denylist")' \/ At(s, "handler")'
      PROVE  req'[s].op = "logout" /\ token'[req'[s].token] # None => token'[req'[s].token].kind = "access"
  BY <1>1 DEF TypeInv, At
<1>2. QED
  BY <1>1 DEF TypeInv

\* The entry of a logout lasts as long as an access token may.
LEMMA LogoutTypes ==
    ASSUME LogoutInv, TypeInv, NEW r \in Requests, Logout(r)
    PROVE  TypeInv'
<1>1. req[r] \in Bearer /\ req[r].token \in Tokens
  BY CarriesToken DEF Logout, Handles, At
<1>2. PICK t \in Tokens : t = req[r].token
  BY <1>1
<1>3. token[t] = None \/ (token[t] \in Token0 /\ token[t].left <= AccessTTL)
  BY <1>1, <1>2 DEF TypeInv, Logout, Handles, At
<1>4. Remaining(t) \in 0..AccessTTL
  <2>1. token[t].left \in Int /\ token[t].left <= AccessTTL
    BY <1>3, Lives DEF Token0, None
  <2>2. QED
    BY <2>1, Lives DEF Remaining
<1>5. EntryTtl(t) \in 0..AccessTTL
  BY <1>4, Lives DEF EntryTtl
<1>6. revoked' \in [Tokens -> Entry \cup {None}]
  BY <1>2, <1>5 DEF Logout, TypeInv, Entry
<1>7. ASSUME NEW s \in Requests, At(s, "denylist")' \/ At(s, "handler")'
      PROVE  req'[s].op = "logout" /\ token'[req'[s].token] # None => token'[req'[s].token].kind = "access"
  <2>1. req'[s] = req[s] /\ token' = token
    BY <1>7 DEF Logout, Finish, At, Idle, LogoutInv, Shape
  <2>2. QED
    BY <1>7, <2>1 DEF TypeInv, At
<1>8. QED
  BY <1>6, <1>7 DEF TypeInv, Logout, config

LEMMA CheckTypes ==
    ASSUME LogoutInv, TypeInv, NEW r \in Requests, CheckDenylist(r)
    PROVE  TypeInv'
<1>1. req[r] \in Bearer /\ req[r].token \in Tokens
  BY CarriesToken DEF CheckDenylist, At
<1>2. revoked' \in [Tokens -> Entry \cup {None}]
  BY <1>1 DEF CheckDenylist, TypeInv
<1>3. UNCHANGED <<backend, method, admins, token>>
  BY DEF CheckDenylist, config
<1>4. ASSUME NEW s \in Requests, At(s, "denylist")' \/ At(s, "handler")'
      PROVE  /\ At(s, "denylist") \/ At(s, "handler")
             /\ req'[s].op = req[s].op /\ req'[s].token = req[s].token
  <2>1. DOMAIN req = Requests /\ At(r, "denylist")
        /\ (req' = [req EXCEPT ![r] = Idle] \/ req' = [req EXCEPT ![r].pc = "handler"])
    BY DEF CheckDenylist, Finish, Go, LogoutInv, Shape
  <2>2. QED
    BY <1>1, <1>4, <2>1 DEF At, Idle, Bearer
<1>5. QED
  BY <1>2, <1>3, <1>4 DEF TypeInv, At

LEMMA StepTypes ==
    ASSUME LogoutInv, TypeInv, NEW r \in Requests, Step(r)
    PROVE  TypeInv'
<1>1. req[r] \in {Idle} \cup Attempt \cup Bearer /\ DOMAIN req = Requests
  BY DEF LogoutInv, Shape
<1>2. \A s \in Requests : req[s].pc \in {"denylist", "handler"} => req[s].token \in Tokens
  BY CarriesToken
<1>3. CASE CheckLimit(r) \/ FailOpen(r) \/ Lookup(r)
  <2>1. UNCHANGED <<backend, method, token, revoked, admins>> /\ req[r] \in Attempt
    BY <1>1, <1>3 DEF CheckLimit, FailOpen, Lookup, At, Idle, Bearer, config, store
  <2>2. \A s \in Requests : req'[s] = req[s] \/ req'[s].pc \notin {"denylist", "handler"}
    BY <1>1, <1>3, <2>1 DEF CheckLimit, FailOpen, Lookup, Go, Finish, Idle, Attempt
  <2>3. QED
    BY <2>1, <2>2, OthersTypes DEF TypeInv
<1>4. CASE VerifyPassword(r)
  <2>1. PICK a \in Tokens, b \in Tokens :
           /\ Free(a) /\ Free(b)
           /\ Issue({a, b}, [t \in {a, b} |->
                 Token(IF t = a THEN "access" ELSE "refresh", req[r].sub, Roles(r))])
    BY <1>4 DEF VerifyPassword
  <2>2. req[r] \in Attempt
    BY <1>1, <1>4 DEF VerifyPassword, At, Idle, Bearer
  <2>3. Roles(r) \in BOOLEAN /\ req[r].sub \in Users
    <3>1. req[r].sub \in Users /\ req[r].admin \in BOOLEAN
      BY <2>2 DEF Attempt
    <3>2. (req[r].sub \in admins) \in BOOLEAN
      OBVIOUS
    <3>3. Roles(r) = (req[r].sub \in admins) \/ Roles(r) = req[r].admin
      BY DEF Roles
    <3>4. QED
      BY <3>1, <3>2, <3>3, Zenon
  <2>4. PICK new : new = [t \in {a, b} |->
                 Token(IF t = a THEN "access" ELSE "refresh", req[r].sub, Roles(r))]
    OBVIOUS
  <2>5. \A t \in {a, b} : new[t] \in Token0 /\ (new[t].kind = "access" => new[t].left <= AccessTTL)
    <3>1. \A t \in {a, b} : \/ new[t] = Token("access", req[r].sub, Roles(r))
                            \/ new[t] = Token("refresh", req[r].sub, Roles(r))
      BY <2>4
    <3>2. Token("refresh", req[r].sub, Roles(r)).kind # "access"
      BY DEF Token
    <3>3. QED
      BY <2>3, <3>1, <3>2, NewToken
  <2>6. UNCHANGED <<config, admins>> /\ req' = [req EXCEPT ![r] = Idle]
    BY <1>4 DEF VerifyPassword, Finish
  <2>7. QED
    BY <1>1, <1>2, <2>1, <2>4, <2>5, <2>6, IssueTypes
<1>5. CASE CheckDenylist(r)
  BY <1>5, CheckTypes
<1>6. CASE CheckBlind(r)
  <2>1. UNCHANGED <<backend, method, token, revoked, admins>> /\ req[r] \in Bearer
    BY <1>1, <1>6 DEF CheckBlind, At, Idle, Attempt, config, store
  <2>2. ASSUME NEW s \in Requests
        PROVE  \/ req'[s] = req[s]
               \/ req'[s].pc \notin {"denylist", "handler"}
               \/ /\ req[s].pc \in {"denylist", "handler"}
                  /\ req'[s].op = req[s].op /\ req'[s].token = req[s].token
    BY <1>1, <1>6, <2>1 DEF CheckBlind, Finish, Idle, At, Bearer
  <2>3. QED
    BY <2>1, <2>2, OthersTypes DEF TypeInv
<1>7. CASE Serve(r) \/ LogoutUnwritten(r)
  <2>1. UNCHANGED <<backend, method, token, revoked, admins>>
    BY <1>7 DEF Serve, LogoutUnwritten, config, store
  <2>2. \A s \in Requests : req'[s] = req[s] \/ req'[s].pc \notin {"denylist", "handler"}
    BY <1>1, <1>7 DEF Serve, LogoutUnwritten, Finish, Idle
  <2>3. QED
    BY <2>1, <2>2, OthersTypes DEF TypeInv
<1>8. CASE Refresh(r)
  <2>1. PICK a \in Tokens :
           /\ Free(a)
           /\ Issue({a}, [t \in {a} |-> Token("access", req[r].sub, req[r].admin)])
    BY <1>8 DEF Refresh
  <2>2. req[r] \in Bearer
    BY <1>8, CarriesToken DEF Refresh, Handles, At
  <2>3. PICK new : new = [t \in {a} |-> Token("access", req[r].sub, req[r].admin)]
    OBVIOUS
  <2>4. \A t \in {a} : new[t] \in Token0 /\ (new[t].kind = "access" => new[t].left <= AccessTTL)
    BY <2>2, <2>3, NewToken DEF Bearer
  <2>5. UNCHANGED <<config, admins>> /\ req' = [req EXCEPT ![r] = Idle]
    BY <1>8 DEF Refresh, Finish
  <2>6. QED
    BY <1>1, <1>2, <2>1, <2>3, <2>4, <2>5, IssueTypes
<1>9. CASE Logout(r)
  BY <1>9, LogoutTypes
<1>10. QED
  BY <1>3, <1>4, <1>5, <1>6, <1>7, <1>8, <1>9 DEF Step

\* TypeInv is inductive, given LogoutInv.
LEMMA NextTypeInv == LogoutInv /\ TypeInv /\ [Next]_vars => TypeInv'
<1>1. SUFFICES ASSUME LogoutInv, TypeInv, [Next]_vars
               PROVE  TypeInv'
  OBVIOUS
<1>2. DOMAIN req = Requests
  BY <1>1 DEF LogoutInv, Shape
<1>3. ASSUME NEW r \in Requests, Step(r)
      PROVE  TypeInv'
  BY <1>1, <1>3, StepTypes
<1>4. ASSUME NEW r \in Requests,
             Abandon(r) \/ \E c \in Clients, u \in Users : Login(r, c, u)
      PROVE  TypeInv'
  <2>1. \A s \in Requests : req'[s] = req[s] \/ req'[s].pc \notin {"denylist", "handler"}
    BY <1>2, <1>4 DEF Abandon, Login, Finish, Idle
  <2>2. UNCHANGED <<backend, method, token, revoked, admins>>
    BY <1>4 DEF Abandon, Login, config, store
  <2>3. QED
    BY <1>1, <2>1, <2>2, OthersTypes DEF TypeInv
<1>5. ASSUME NEW r \in Requests, NEW t \in Tokens, NEW op \in Ops, Present(r, t, op)
      PROVE  TypeInv'
  <2>1. /\ req'[r].token = t /\ req'[r].op = op
        /\ op = "logout" => token[t].kind = "access"
        /\ \A s \in Requests : s # r => req'[s] = req[s]
    BY <1>2, <1>5 DEF Present
  <2>2. UNCHANGED <<backend, method, token, revoked, admins>>
    BY <1>5 DEF Present, config, store
  <2>3. QED
    BY <1>1, <2>1, <2>2 DEF TypeInv, At
<1>6. CASE Tick
  BY <1>1, <1>6, TickTypes
<1>7. CASE Restart
  <2>1. /\ UNCHANGED <<backend, method, token>> /\ admins' \subseteq Users
        /\ revoked' = revoked \/ revoked' = [t \in Tokens |-> None]
        /\ \A r \in Requests : req'[r].pc = "idle"
    BY <1>1, <1>7 DEF Restart, config, Idle, TypeInv
  <2>2. QED
    BY <1>1, <2>1 DEF TypeInv, At
<1>8. CASE Regroup
  BY <1>1, <1>8, OthersTypes DEF Regroup, config
<1>9. CASE UNCHANGED vars
  BY <1>1, <1>9, OthersTypes DEF vars, TypeInv
<1>10. QED
  BY <1>1, <1>3, <1>4, <1>5, <1>6, <1>7, <1>8, <1>9 DEF Next

\* The denylist and the limiter count down from what the code puts there and
\* stop at their end, and a request holds what its step needs.
THEOREM TypeCorrect == Spec => []TypeOK
<1>1. LogoutInv /\ RateInv /\ TypeInv => TypeOK
  <2>1. ASSUME LogoutInv, NEW r \in Requests
        PROVE  At(r, "idle") \/ req[r] \in Attempt \/ req[r] \in Bearer
    BY <2>1 DEF LogoutInv, Shape, At, Idle
  <2>2. QED
    BY <2>1 DEF TypeOK, LogoutInv, RateInv, RateType, TypeInv, Entry, Attempt, Bearer
<1>2. QED
  BY <1>1, InitTypeInv, NextTypeInv, InitRateInv, NextRateInv, EntryOutlivesToken, PTL DEF Spec

-----------------------------------------------------------------------------
(* A lockout.                                                              *)

\* Who is refused has a window that is open and full.
LEMMA RefusedIsFull ==
    ASSUME RateInv, NEW c \in Clients, ~Allows(c)
    PROVE  /\ limiter[c] \in [count : 0..Limit, left : -1..Window] /\ ~Over(limiter[c])
           /\ limiter[c].left \in 0..Window /\ Counter(c) = limiter[c]
<1> USE Limits
<1>1. limiter[c] \in [count : 0..Limit, left : -1..Window] \cup {None}
  BY DEF RateInv, RateType
<1>2. ~Over(limiter[c])
  BY DEF Allows, Counter
<1>3. limiter[c] # None
  BY <1>2 DEF Over, None
<1>4. limiter[c].left \in 0..Window
  BY <1>1, <1>2, <1>3 DEF Over
<1>5. QED
  BY <1>1, <1>2, <1>3, <1>4 DEF Counter

\* The window of a client that is refused before and after a step.
Runs(c) == limiter'[c].left = limiter[c].left - IF Tick THEN 1 ELSE 0

LEMMA RefusedTick ==
    ASSUME RateInv, NEW c \in Clients, ~Allows(c), ~Allows(c)', Tick
    PROVE  Runs(c)
<1> USE Limits
<1>1. PICK e \in [count : 0..Limit, left : -1..Window] :
         e = limiter[c] /\ e.left \in 0..Window
  BY RefusedIsFull
<1>2. PICK f : f = [e EXCEPT !.left = @ - 1]
  OBVIOUS
<1>3. f.left = e.left - 1 /\ e # None /\ Aged(e) = f
  BY <1>1, <1>2 DEF Aged, None
<1>4. Over(None)' /\ limiter'[c] # None
  <2>1. Over(None)'
    BY DEF Over, None
  <2>2. QED
    BY <2>1 DEF Allows, Counter
<1>5. limiter'[c] = f
  <2>1. limiter'[c] = IF backend = "redis" THEN Alive(Aged(e), 1)
                      ELSE IF e.left = -1 THEN e ELSE Aged(e)
    BY <1>1 DEF Tick
  <2>2. QED
    BY <1>1, <1>3, <1>4, <2>1 DEF Alive
<1>6. QED
  BY <1>1, <1>3, <1>5 DEF Runs

LEMMA RefusedCheck ==
    ASSUME RateInv, NEW c \in Clients, ~Allows(c), NEW r \in Requests, CheckLimit(r)
    PROVE  limiter'[c] = limiter[c]
<1>1. limiter' = [limiter EXCEPT ![req[r].client] = Count(req[r].client)]
  BY DEF CheckLimit
<1>2. CASE req[r].client # c
  BY <1>1, <1>2 DEF RateInv, RateType
<1>3. CASE req[r].client = c
  <2>1. PICK e \in [count : 0..Limit, left : -1..Window] : e = limiter[c] /\ Counter(c) = e
    BY RefusedIsFull
  <2>2. Count(c) = [e EXCEPT !.count = @]
    BY <2>1 DEF Count
  <2>3. Count(c) = e
    BY <2>2
  <2>4. QED
    BY <1>1, <1>3, <2>1, <2>3 DEF RateInv, RateType
<1>4. QED
  BY <1>2, <1>3

\* A lockout runs down: every tick takes one from what is left of a full window,
\* at most Window to begin with, and nothing, in particular no refused attempt,
\* puts it up again (ratelimit.rs:105).
THEOREM LockoutRunsDown ==
    Spec => [][\A c \in Clients :
                  ~Allows(c) /\ ~Allows(c)' => limiter[c].left \in 0..Window /\ Runs(c)]_vars
<1> DEFINE Goal == \A c \in Clients :
                      ~Allows(c) /\ ~Allows(c)' => limiter[c].left \in 0..Window /\ Runs(c)
<1>1. ASSUME RateInv, [Next]_vars, NEW c \in Clients, ~Allows(c), ~Allows(c)'
      PROVE  limiter[c].left \in 0..Window /\ Runs(c)
  <2>1. limiter[c].left \in 0..Window
    BY <1>1, RefusedIsFull
  <2>2. CASE Tick
    BY <1>1, <2>1, <2>2, RefusedTick
  <2>3. CASE ~Tick
    <3>1. limiter'[c] = limiter[c]
      <4>1. CASE limiter' = limiter
        BY <4>1
      <4>2. ASSUME NEW r \in Requests, CheckLimit(r)
            PROVE  limiter'[c] = limiter[c]
        BY <1>1, <4>2, RefusedCheck
      <4>3. CASE Restart
        <5>1. limiter' # [d \in Clients |-> None]
          <6>1. Limit >= 1 /\ (limiter'[c] = None => Over(limiter[c])')
            BY Limits DEF Over, None
          <6>2. limiter'[c] # None
            BY <1>1, <6>1 DEF Allows, Counter
          <6>3. QED
            BY <6>2
        <5>2. QED
          BY <4>3, <5>1 DEF Restart
      <4>4. CASE Regroup \/ UNCHANGED vars
        BY <4>4 DEF Regroup, vars
      <4>5. ASSUME NEW r \in Requests,
                   \/ Step(r) \/ Abandon(r)
                   \/ \E d \in Clients, u \in Users : Login(r, d, u)
                   \/ \E t \in Tokens, op \in Ops : Present(r, t, op)
            PROVE  limiter'[c] = limiter[c]
        BY <4>2, <4>5 DEF Step, FailOpen, Lookup, VerifyPassword, CheckDenylist, CheckBlind,
           Serve, Refresh, Logout, LogoutUnwritten, Abandon, Login, Present, rate
      <4>6. QED
        BY <1>1, <2>3, <4>3, <4>4, <4>5 DEF Next
    <3>2. QED
      BY <2>1, <2>3, <3>1 DEF Runs
  <2>4. QED
    BY <2>1, <2>2, <2>3
<1>2. RateInv /\ [Next]_vars => [Goal]_vars
  BY <1>1
<1>3. QED
  BY <1>2, InitRateInv, NextRateInv, EntryOutlivesToken, PTL DEF Spec

-----------------------------------------------------------------------------
(* The role that a demoted user loses.                                     *)

\* Nothing says that u is an admin: no list, no token, no request on its way.
Carries(r, u) == req[r].pc # "idle" /\ req[r].sub = u /\ req[r].admin
Clean(u) == u \notin admins /\ ~Privileged(u) /\ \A r \in Requests : ~Carries(r, u)

\* The tokens of a step that are new belong to others or do not say admin.
LEMMA TokensClean ==
    ASSUME NEW u, Clean(u),
           \A t \in Tokens :
              \/ token'[t] = None
              \/ token[t] # None /\ token'[t].sub = token[t].sub /\ token'[t].admin = token[t].admin
              \/ token'[t].sub = u => ~token'[t].admin
    PROVE  ~Privileged(u)'
BY DEF Clean, Privileged

LEMMA RequestsClean ==
    ASSUME NEW u, Clean(u),
           \A r \in Requests :
              \/ req'[r].pc = "idle"
              \/ /\ req[r].pc # "idle"
                 /\ req'[r].sub = req[r].sub /\ req'[r].admin = req[r].admin
              \/ req'[r].sub = u => ~req'[r].admin
    PROVE  \A r \in Requests : ~Carries(r, u)'
BY DEF Clean, Carries

\* The steps that issue no token.
LEMMA SameTokens ==
    ASSUME NEW u, Clean(u), u \notin admins', token' = token,
           \A r \in Requests : ~Carries(r, u)'
    PROVE  Clean(u)'
BY TokensClean DEF Clean, Privileged

LEMMA IssueClean ==
    ASSUME LogoutInv, NEW u, Clean(u), u \notin admins', NEW r \in Requests, Finish(r),
           NEW ts \in SUBSET Tokens, NEW new, Issue(ts, new),
           \A t \in ts : new[t].sub = u => ~new[t].admin
    PROVE  Clean(u)'
<1>1. \A t \in Tokens : token'[t] = token[t] \/ (token'[t].sub = u => ~token'[t].admin)
  BY DEF Issue
<1>2. ~Privileged(u)'
  BY <1>1 DEF Clean, Privileged
<1>3. \A s \in Requests : req'[s] = req[s] \/ req'[s].pc = "idle"
  BY DEF Finish, Idle, LogoutInv, Shape
<1>4. \A s \in Requests : ~Carries(s, u)'
  BY <1>3 DEF Clean, Carries
<1>5. QED
  BY <1>2, <1>4 DEF Clean

LEMMA CleanStep ==
    ASSUME LogoutInv, NEW u \in Users, Clean(u), u \notin admins', NEW r \in Requests, Step(r)
    PROVE  Clean(u)'
<1>1. req \in [Requests -> {Idle} \cup Attempt \cup Bearer]
  BY DEF LogoutInv, Shape
<1>2. CASE \/ CheckLimit(r) \/ FailOpen(r) \/ CheckDenylist(r) \/ CheckBlind(r)
           \/ Serve(r) \/ Logout(r) \/ LogoutUnwritten(r)
  <2>1. token' = token
    BY <1>2 DEF CheckLimit, FailOpen, CheckDenylist, CheckBlind, Serve, Logout, LogoutUnwritten,
       store
  <2>2. /\ \A s \in Requests : s # r => req'[s] = req[s]
        /\ \/ req'[r].pc = "idle"
           \/ /\ req[r].pc # "idle"
              /\ req'[r].sub = req[r].sub /\ req'[r].admin = req[r].admin
    <3>1. CASE CheckLimit(r) \/ FailOpen(r)
      <4>1. req[r] \in Attempt
        BY <1>1, <3>1 DEF CheckLimit, FailOpen, At, Idle, Bearer
      <4>2. QED
        BY <1>1, <3>1, <4>1 DEF CheckLimit, FailOpen, At, Go, Finish, Idle, Attempt
    <3>2. CASE CheckDenylist(r) \/ CheckBlind(r)
      <4>1. req[r] \in Bearer
        BY <1>1, <3>2 DEF CheckDenylist, CheckBlind, At, Idle, Attempt
      <4>2. QED
        BY <1>1, <3>2, <4>1 DEF CheckDenylist, CheckBlind, At, Go, Finish, Idle, Bearer
    <3>3. CASE Serve(r) \/ Logout(r) \/ LogoutUnwritten(r)
      BY <1>1, <3>3 DEF Serve, Logout, LogoutUnwritten, Finish, Idle
    <3>4. QED
      BY <1>2, <3>1, <3>2, <3>3
  <2>3. \A s \in Requests : ~Carries(s, u)'
    BY <2>2 DEF Clean, Carries
  <2>4. QED
    BY <2>1, <2>3, SameTokens
<1>3. CASE Lookup(r)
  <2>1. req[r] \in Attempt
    BY <1>1, <1>3 DEF Lookup, At, Idle, Bearer
  <2>2. /\ \A s \in Requests : s # r => req'[s] = req[s]
        /\ req'[r].sub = req[r].sub
        /\ req'[r].admin = (method = "ldap" /\ req[r].sub \in admins)
    BY <1>1, <1>3, <2>1 DEF Lookup, Attempt
  <2>3. \A s \in Requests : ~Carries(s, u)'
    BY <2>2 DEF Clean, Carries
  <2>4. QED
    BY <1>3, <2>3, SameTokens DEF Lookup, store
<1>4. CASE VerifyPassword(r)
  <2>1. PICK a \in Tokens, b \in Tokens :
           Issue({a, b}, [t \in {a, b} |->
                   Token(IF t = a THEN "access" ELSE "refresh", req[r].sub, Roles(r))])
    BY <1>4 DEF VerifyPassword
  <2>2. PICK ts : ts = {a, b}
    OBVIOUS
  <2>3. PICK new : new = [t \in ts |-> Token(IF t = a THEN "access" ELSE "refresh", req[r].sub, Roles(r))]
    OBVIOUS
  <2>4. req[r].sub = u => ~Roles(r)
    BY <1>4 DEF VerifyPassword, At, Clean, Carries, Roles
  <2>5. \A t \in ts : new[t].sub = u => ~new[t].admin
    BY <2>3, <2>4 DEF Token
  <2>6. Issue(ts, new) /\ Finish(r) /\ ts \in SUBSET Tokens
    BY <1>4, <2>1, <2>2, <2>3 DEF VerifyPassword
  <2>7. QED
    BY <2>5, <2>6, IssueClean
<1>5. CASE Refresh(r)
  <2>1. PICK a \in Tokens :
           Issue({a}, [t \in {a} |-> Token("access", req[r].sub, req[r].admin)])
    BY <1>5 DEF Refresh
  <2>2. PICK ts : ts = {a}
    OBVIOUS
  <2>3. PICK new : new = [t \in ts |-> Token("access", req[r].sub, req[r].admin)]
    OBVIOUS
  <2>4. req[r].sub = u => ~req[r].admin
    BY <1>5 DEF Refresh, Handles, At, Clean, Carries
  <2>5. \A t \in ts : new[t].sub = u => ~new[t].admin
    BY <2>3, <2>4 DEF Token
  <2>6. Issue(ts, new) /\ Finish(r) /\ ts \in SUBSET Tokens
    BY <1>5, <2>1, <2>2, <2>3 DEF Refresh
  <2>7. QED
    BY <2>5, <2>6, IssueClean
<1>6. QED
  BY <1>2, <1>3, <1>4, <1>5 DEF Step

LEMMA NextClean ==
    LogoutInv /\ [Next]_vars => \A u \in Users : Clean(u) /\ u \notin admins' => Clean(u)'
<1>1. SUFFICES ASSUME LogoutInv, [Next]_vars, NEW u \in Users, Clean(u), u \notin admins'
               PROVE  Clean(u)'
  OBVIOUS
<1>2. req \in [Requests -> {Idle} \cup Attempt \cup Bearer]
  BY <1>1 DEF LogoutInv, Shape
<1>3. ASSUME NEW r \in Requests, Step(r)
      PROVE  Clean(u)'
  BY <1>1, <1>3, CleanStep
<1>4. ASSUME NEW r \in Requests, Abandon(r) \/ \E c \in Clients, v \in Users : Login(r, c, v)
      PROVE  Clean(u)'
  <2>1. /\ \A s \in Requests : s # r => req'[s] = req[s]
        /\ req'[r].pc = "idle" \/ ~req'[r].admin
    BY <1>2, <1>4 DEF Abandon, Login, Finish, Idle
  <2>2. \A s \in Requests : ~Carries(s, u)'
    BY <1>1, <2>1 DEF Clean, Carries
  <2>3. token' = token
    BY <1>4 DEF Abandon, Login, store
  <2>4. QED
    BY <1>1, <2>2, <2>3, SameTokens
<1>5. ASSUME NEW r \in Requests, NEW t \in Tokens, NEW op \in Ops, Present(r, t, op)
      PROVE  Clean(u)'
  <2>1. /\ \A s \in Requests : s # r => req'[s] = req[s]
        /\ token[t] # None /\ req'[r].sub = token[t].sub /\ req'[r].admin = token[t].admin
    BY <1>2, <1>5 DEF Present
  <2>2. \A s \in Requests : ~Carries(s, u)'
    BY <1>1, <2>1 DEF Clean, Carries, Privileged
  <2>3. token' = token
    BY <1>5 DEF Present, store
  <2>4. QED
    BY <1>1, <2>2, <2>3, SameTokens
<1>6. CASE Tick
  <2>1. ASSUME NEW t \in Tokens
        PROVE  \/ token'[t] = None
               \/ /\ token[t] # None
                  /\ token'[t].sub = token[t].sub /\ token'[t].admin = token[t].admin
    <3>1. token'[t] = Alive(Aged(token[t]), -Leeway) /\ token[t] \in Living \cup {None}
      BY <1>1, <1>6 DEF Tick, LogoutInv, Shape
    <3>2. CASE token[t] = None
      BY <3>1, <3>2 DEF Aged, Alive
    <3>3. CASE token[t] # None
      BY <3>1, <3>3 DEF Aged, Alive, Living
    <3>4. QED
      BY <3>2, <3>3
  <2>2. ~Privileged(u)'
    BY <1>1, <2>1, TokensClean
  <2>3. QED
    BY <1>1, <1>6, <2>2 DEF Tick, Clean, Carries
<1>7. CASE Restart
  BY <1>1, <1>7 DEF Restart, Idle, Clean, Carries, Privileged
<1>8. CASE Regroup \/ UNCHANGED vars
  BY <1>1, <1>8 DEF Regroup, vars, Clean, Carries, Privileged
<1>9. QED
  BY <1>1, <1>3, <1>4, <1>5, <1>6, <1>7, <1>8 DEF Next

\* A demotion is final once the old tokens are gone: when no list, token or
\* request says any more that a user is an admin, none will, unless the user is
\* made one again.  Refreshing (api.rs:253), restarts and changing groups bring
\* nothing back.
THEOREM PrivilegeStaysGone ==
    Spec => [][\A u \in Users : Clean(u) /\ u \notin admins' => Clean(u)']_vars
<1>1. LogoutInv /\ [Next]_vars =>
         [\A u \in Users : Clean(u) /\ u \notin admins' => Clean(u)']_vars
  BY NextClean
<1>2. QED
  BY <1>1, EntryOutlivesToken, PTL DEF Spec
=============================================================================
