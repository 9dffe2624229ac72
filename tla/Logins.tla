-------------------------------- MODULE Logins --------------------------------
(***************************************************************************)
(* Signing in and rate limiting: internal/ratelimit, the handlers that     *)
(* count their callers before they serve them, and Register and Login of   *)
(* internal/auth behind them.                                              *)
(*                                                                         *)
(* Each handler runs its steps while others run theirs: one script per     *)
(* counter, the service, and after a login one DEL per counter.  Redis may *)
(* fail any of them, with or without having run it, and may lose its keys. *)
(* A counter above its limit is kept as one above it, which the script     *)
(* cannot tell from any larger count.                                      *)
(***************************************************************************)
EXTENDS Integers, Sequences, FiniteSetsExt

CONSTANTS
    Requests,           \* requests in flight at once
    Addresses,          \* what ClientIP may return
    Accounts,           \* login names
    RouteCallers,       \* who calls the rate-limited routes: an account, else an address
    LoginMaxIP,         \* config.Auth.LoginMaxIP
    LoginMaxAccount,    \* config.Auth.LoginMaxAccount
    RouteLimit,         \* config.Auth.ReadsPerWindow and MovesPerWindow
    Window,             \* config.Auth.LoginWindow and RateWindow
    Watched,            \* the counters that a history is kept of
    MaxCleared          \* bound: how often a watched counter is cleared within a window

ASSUME LoginsAssumption ==
    /\ {LoginMaxIP, LoginMaxAccount, RouteLimit, Window} \subseteq Nat \ {0}
    /\ RouteCallers \subseteq Addresses \cup Accounts
    /\ MaxCleared \in Nat

Key(class, x) == <<class, x>>
Keys == ({"login-ip", "register-ip"} \X Addresses)
            \cup ({"login-account"} \X Accounts) \cup ({"route"} \X RouteCallers)

ASSUME WatchedAssumption == Watched \subseteq Keys

VARIABLES
    count,      \* the counters, 0 when there is no key
    ttl,        \* PTTL of their keys, 0 when there is no key
    users,      \* the users table: names that are taken
    req,        \* req[r]: where a request is in its handler
    admitted,   \* history: <<i, a>> \in admitted[k]: the script let an i-th request through
                \* a ticks ago, less than a window
    cleared     \* history: <<i, a>> \in cleared[k]: k was there and an i-th DEL, or the loss
                \* of Redis's keys, removed it a ticks ago, less than a window

vars == <<count, ttl, users, req, admitted, cleared>>

Limit(k) == CASE k[1] \in {"login-ip", "register-ip"} -> LoginMaxIP
              [] k[1] = "login-account" -> LoginMaxAccount
              [] OTHER -> RouteLimit

Ages == 0 .. Window - 1
Idle == [step |-> "idle", kind |-> "none", who |-> "none", keys |-> << >>, n |-> 1]

(* TypeOK: counters and requests are well formed, and every counter has an  *)
(* expiry: none can lock a caller out for good (fixed_window.lua).          *)
TypeOK ==
    /\ \A k \in Keys : count[k] \in 0 .. Limit(k) + 1 /\ ttl[k] \in 0 .. Window
    /\ \A k \in Keys : (count[k] = 0) <=> (ttl[k] = 0)
    /\ users \subseteq Accounts
    /\ \A r \in Requests : /\ req[r].step \in {"idle", "enforce", "serve", "reset"}
                           /\ req[r].kind \in {"none", "login", "register", "route"}
                           /\ req[r].keys \in Seq(Keys) /\ req[r].n \in 1 .. 2
    /\ \A k \in Watched : admitted[k] \subseteq Nat \X Ages /\ cleared[k] \subseteq Nat \X Ages

Init ==
    /\ count = [k \in Keys |-> 0]
    /\ ttl = [k \in Keys |-> 0]
    /\ users = {}
    /\ req = [r \in Requests |-> Idle]
    /\ admitted = [k \in Watched |-> {}]
    /\ cleared = [k \in Watched |-> {}]

-----------------------------------------------------------------------------

Enforce(r, kind, who, keys) ==
    /\ req[r] = Idle
    /\ req' = [req EXCEPT ![r] = 
            [step |-> "enforce", kind |-> kind, who |-> who, keys |-> keys, n |-> 1]]
    /\ UNCHANGED <<count, ttl, users, admitted, cleared>>

(* handleLogin, handleRegister, and the middleware in front of a route,     *)
(* which counts the account when it knows it and the address otherwise.     *)
LoginArrives(r, ip, who) == Enforce(r, "login", who, <<Key("login-ip", ip), Key("login-account", who)>>)
RegisterArrives(r, ip, who) == Enforce(r, "register", who, <<Key("register-ip", ip)>>)
RouteArrives(r, x) == Enforce(r, "route", x, <<Key("route", x)>>)

(* Mutant: every attempt sets the expiry again.                             *)
ScriptSlides(k) ==
    /\ count' = [count EXCEPT ![k] = Min({@, Limit(k)}) + 1]
    /\ ttl' = [ttl EXCEPT ![k] = Window]

(* Mutant: the PEXPIRE is left out.                                         *)
ScriptNoExpiry(k) ==
    /\ count' = [count EXCEPT ![k] = Min({@, Limit(k)}) + 1]
    /\ ttl' = ttl

(* fixed_window.lua: INCR, and PEXPIRE on a counter that has no expiry.     *)
Script(k) ==
    /\ count' = [count EXCEPT ![k] = Min({@, Limit(k)}) + 1]
    /\ ttl' = [ttl EXCEPT ![k] = IF @ = 0 THEN Window ELSE @]

(* The counter a request has reached; the one after it, or what follows.    *)
At(r) == req[r].keys[req[r].n]
Past(q, next) == IF q.n < Len(q.keys) THEN [q EXCEPT !.n = @ + 1] ELSE next
Passed(q) == Past(q, IF q.kind = "route" THEN Idle ELSE [q EXCEPT !.step = "serve", !.n = 1])

(* The events of a history that are no older than a ticks; the history with *)
(* one more event, of this tick.                                            *)
Young(A, a) == {e \in A : e[2] =< a}
Note(A) == A \cup {<<Cardinality(Young(A, 0)), 0>>}

(* Mutant: the caller at the limit is let through once more.                *)
AllowOneMore(r) ==
    LET k == At(r)
        allowed == count[k] =< Limit(k)
    IN  /\ req[r].step = "enforce"
        /\ Script(k)
        /\ req' = [req EXCEPT ![r] = IF allowed THEN Passed(@) ELSE Idle]
        /\ admitted' = IF allowed THEN [admitted EXCEPT ![k] = Note(@)] ELSE admitted
        /\ UNCHANGED <<users, cleared>>

(* enforceLimit: past the limit the answer is 429.                          *)
Allow(r) ==
    LET k == At(r)
        allowed == count[k] < Limit(k)
    IN  /\ req[r].step = "enforce"
        /\ Script(k)
        /\ req' = [req EXCEPT ![r] = IF allowed THEN Passed(@) ELSE Idle]
        /\ admitted' = IF allowed THEN [admitted EXCEPT ![k] = Note(@)] ELSE admitted
        /\ UNCHANGED <<users, cleared>>

(* enforceLimit, with Redis in trouble: the request goes through.  The      *)
(* script may have run all the same.                                        *)
AllowFails(r) ==
    /\ req[r].step = "enforce"
    /\ Script(At(r)) \/ UNCHANGED <<count, ttl>>
    /\ req' = [req EXCEPT ![r] = Passed(@)]
    /\ UNCHANGED <<users, admitted, cleared>>

(* Register: the unique indexes take one of two; the token pair, a second   *)
(* statement, may still fail.                                               *)
Register(r) ==
    /\ req[r].step = "serve" /\ req[r].kind = "register"
    /\ users' = users \cup {req[r].who}
    /\ req' = [req EXCEPT ![r] = Idle]
    /\ UNCHANGED <<count, ttl, admitted, cleared>>

(* Login, with the right password of an account; the hash it may rewrite    *)
(* at today's cost is of the same password.                                *)
Login(r) ==
    /\ req[r].step = "serve" /\ req[r].kind = "login" /\ req[r].who \in users
    /\ req' = [req EXCEPT ![r].step = "reset"]
    /\ UNCHANGED <<count, ttl, users, admitted, cleared>>

(* The watched counters of K that are there, and go.                        *)
Present(K) == {k \in K \cap Watched : count[k] # 0}
Clear(K) ==
    /\ \A k \in Present(K) : Cardinality(cleared[k]) < MaxCleared
    /\ count' = [k \in Keys |-> IF k \in K THEN 0 ELSE count[k]]
    /\ ttl' = [k \in Keys |-> IF k \in K THEN 0 ELSE ttl[k]]
    /\ cleared' = [k \in Watched |-> IF k \in Present(K) THEN Note(cleared[k]) ELSE cleared[k]]

(* reset: DEL one counter after the other; an error is only logged.         *)
Reset(r) ==
    /\ req[r].step = "reset"
    /\ Clear({At(r)})
    /\ req' = [req EXCEPT ![r] = Past(@, Idle)]
    /\ UNCHANGED <<users, admitted>>

ResetFails(r) ==
    /\ req[r].step = "reset"
    /\ req' = [req EXCEPT ![r] = Past(@, Idle)]
    /\ UNCHANGED <<count, ttl, users, admitted, cleared>>

(* Anything else ends the request: no such account, a wrong password, a     *)
(* name that is taken, a served route, an error, or a caller that leaves.   *)
Answer(r) ==
    /\ req[r].step # "idle"
    /\ req' = [req EXCEPT ![r] = Idle]
    /\ UNCHANGED <<count, ttl, users, admitted, cleared>>

-----------------------------------------------------------------------------

Older(A) == {<<e[1], e[2] + 1>> : e \in {d \in A : d[2] + 1 \in Ages}}

(* Time passes, and Redis removes the counters whose time is up.            *)
Tick ==
    /\ ttl' = [k \in Keys |-> Max({ttl[k] - 1, 0})]
    /\ count' = [k \in Keys |-> IF ttl[k] = 1 THEN 0 ELSE count[k]]
    /\ admitted' = [k \in Watched |-> Older(admitted[k])]
    /\ cleared' = [k \in Watched |-> Older(cleared[k])]
    /\ UNCHANGED <<users, req>>

(* Redis loses its keys.                                                    *)
Lose == Clear(Keys) /\ UNCHANGED <<users, req, admitted>>

Arrives(r) ==
    \/ \E ip \in Addresses, who \in Accounts : LoginArrives(r, ip, who) \/ RegisterArrives(r, ip, who)
    \/ \E x \in RouteCallers : RouteArrives(r, x)

Handler(r) == \/ Allow(r) \/ AllowFails(r) \/ Register(r) \/ Login(r)
              \/ Reset(r) \/ ResetFails(r) \/ Answer(r)

Next == Tick \/ Lose \/ \E r \in Requests : Arrives(r) \/ Handler(r)

(* Only time is sure to go on.                                              *)
FairSpec == Init /\ [][Next]_vars /\ WF_vars(Tick)

-----------------------------------------------------------------------------

(* Those of the window that is running.                                     *)
Running(A, left) == Young(A, Window - left)

(* LimitHolds: however requests, resets, losses and expiries interleave, of *)
(* the requests that Redis answered for a caller no more than twice the     *)
(* limit were let through in any span as long as the window ("up to 2x the  *)
(* limit across a window boundary"), and no more than the limit in the      *)
(* window that is running; but for one more limit for every time in that    *)
(* span that a successful login, or the loss of Redis's keys, cleared the   *)
(* counter (Limiter.Reset "can forgive earlier failures").                  *)
LimitHolds ==
    \A k \in Watched :
        /\ Cardinality(admitted[k]) =< (2 + Cardinality(cleared[k])) * Limit(k)
        /\ ttl[k] > 0 => Cardinality(Running(admitted[k], ttl[k]))
                            =< (1 + Cardinality(Running(cleared[k], ttl[k]))) * Limit(k)

(* LockoutEnds: a caller past its limit is let in again once the window is  *)
(* over, although it goes on trying: refused attempts do not prolong it.    *)
LockoutEnds == \A k \in Watched : count[k] > Limit(k) ~> count[k] = 0

=============================================================================
