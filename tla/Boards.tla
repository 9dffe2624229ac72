-------------------------------- MODULE Boards --------------------------------
(***************************************************************************)
(* The sorted sets of internal/leaderboard: one per scope (a game, or the  *)
(* cross-game total) and per window of each period, and what the Lua       *)
(* script submit.lua does to all of them when one score is recorded.       *)
(*                                                                         *)
(* A sorted set is a function from users to points, NoScore standing for   *)
(* an absent member; a key exists exactly when it has a member, as in      *)
(* Redis.  The window a key is named after is identified by the instant it *)
(* starts at, so board[s][p][w][u] is the entry of user u in the key of    *)
(* scope s, period p and the window starting at w.                         *)
(***************************************************************************)
EXTENDS Integers

CONSTANTS
    Users,          \* the players
    Periods,        \* the ranking periods (keys.go: Periods)
    AllTime,        \* the one period whose window never closes
    MaxTime,        \* bound on the clock
    MaxPoints,      \* the largest score (10 000 in the CHECK of score_events)
    Ttl,            \* seconds a period's keys are kept, 0 meaning for ever
    WindowStart     \* WindowStart[p][t]: start of p's window that t falls in

Time == 0 .. MaxTime

ASSUME TimeAssumption == MaxTime \in Nat /\ MaxPoints \in Nat

ASSUME PeriodsAssumption ==
    /\ AllTime \in Periods
    /\ Ttl \in [Periods -> Nat]
    /\ Ttl[AllTime] = 0

(* A window is the half-open interval that begins at WindowStart.          *)
ASSUME WindowAssumption ==
    /\ WindowStart \in [Periods -> [Time -> Time]]
    /\ \A p \in Periods, t \in Time : WindowStart[p][t] =< t
    /\ \A t \in Time : WindowStart[AllTime][t] = 0

(* The TTL outlives the window: the current window's keys never expire     *)
(* while the window is still open.                                         *)
ASSUME TtlAssumption ==
    \A p \in Periods \ {AllTime}, t \in Time : t < WindowStart[p][t] + Ttl[p]

-----------------------------------------------------------------------------

(* The registry of internal/games, in full: the cross-game total is a sum  *)
(* over exactly these five.                                                *)
Games == {"reaction", "number-guess", "memory", "math-sprint", "word-scramble"}
Global == "global"
Scopes == Games \cup {Global}

Points == 0 .. MaxPoints
NoScore == -1
NoExpiry == -1

(* A row of score_events, without the columns no board depends on.         *)
Event == [user : Users, game : Games, points : Points, at : Time]

BoardType == [Scopes -> [Periods -> [Time -> [Users -> Nat \cup {NoScore}]]]]
ExpiryType == [Scopes -> [Periods -> [Time -> Int]]]

NoBoards == [s \in Scopes |-> [p \in Periods |-> [w \in Time |-> [u \in Users |-> NoScore]]]]
NoExpiries == [s \in Scopes |-> [p \in Periods |-> [w \in Time |-> NoExpiry]]]

(* ZINCRBY on an absent member starts from zero.                           *)
Value(x) == IF x = NoScore THEN 0 ELSE x

Exists(bd, s, p, w) == \E u \in Users : bd[s][p][w][u] # NoScore

-----------------------------------------------------------------------------

(* The two keys the script touches for period p: the game's and the total's *)
Touches(e, s, p, w) == s \in {e.game, Global} /\ w = WindowStart[p][e.at]

Previous(bd, e, p) == bd[e.game][p][WindowStart[p][e.at]][e.user]

(* Mutant: the last score written wins.                                     *)
ImprovesAlways(bd, e, p) == TRUE

Improves(bd, e, p) == \/ Previous(bd, e, p) = NoScore
                      \/ e.points > Previous(bd, e, p)

(* Mutant: the total grows by the whole score, not by the difference.       *)
NewEntryAddsAll(bd, e, s, p, w) ==
    IF s = e.game THEN e.points ELSE Value(bd[s][p][w][e.user]) + e.points

(* Mutant: the difference is taken the wrong way round.                     *)
NewEntrySwapped(bd, e, s, p, w) ==
    IF s = e.game THEN e.points
    ELSE Value(bd[s][p][w][e.user]) + (Value(Previous(bd, e, p)) - e.points)

(* The entry user e.user has after the script in key <<s, p, w>>: the game's *)
(* board takes the points, the total moves by the difference.               *)
NewEntry(bd, e, s, p, w) ==
    IF s = e.game THEN e.points
    ELSE Value(bd[s][p][w][e.user]) + (e.points - Value(Previous(bd, e, p)))

(* All eight keys, in one atomic step.                                      *)
Submit(bd, e) ==
    [s \in Scopes |-> [p \in Periods |-> [w \in Time |-> [u \in Users |->
        IF u = e.user /\ Touches(e, s, p, w) /\ Improves(bd, e, p)
        THEN NewEntry(bd, e, s, p, w)
        ELSE bd[s][p][w][u]]]]]

(* Mutant: every write sets the expiry again.                               *)
SubmitExpirySlides(bd, ex, e, now) ==
    [s \in Scopes |-> [p \in Periods |-> [w \in Time |->
        IF Touches(e, s, p, w) /\ Ttl[p] > 0 THEN now + Ttl[p] ELSE ex[s][p][w]]]]

(* Mutant: the TTL is a unit short.                                         *)
SubmitExpiryEarly(bd, ex, e, now) ==
    [s \in Scopes |-> [p \in Periods |-> [w \in Time |->
        IF Touches(e, s, p, w) /\ Ttl[p] > 0 /\ ex[s][p][w] = NoExpiry
        THEN now + Ttl[p] - 1 ELSE ex[s][p][w]]]]

(* EXPIRE follows the writes, and only on a key that has no expiry yet; on  *)
(* a key that does not exist it does nothing.                               *)
SubmitExpiry(bd, ex, e, now) ==
    [s \in Scopes |-> [p \in Periods |-> [w \in Time |->
        IF /\ Touches(e, s, p, w)
           /\ Ttl[p] > 0
           /\ ex[s][p][w] = NoExpiry
           /\ Improves(bd, e, p) \/ Exists(bd, s, p, w)
        THEN now + Ttl[p]
        ELSE ex[s][p][w]]]]

(* Redis removes a key when its expiry is reached.                          *)
Expired(ex, s, p, w, t) == ex[s][p][w] # NoExpiry /\ ex[s][p][w] =< t

ExpireBoards(bd, ex, t) ==
    [s \in Scopes |-> [p \in Periods |-> [w \in Time |-> [u \in Users |->
        IF Expired(ex, s, p, w, t) THEN NoScore ELSE bd[s][p][w][u]]]]]

ExpireExpiries(ex, t) ==
    [s \in Scopes |-> [p \in Periods |-> [w \in Time |->
        IF Expired(ex, s, p, w, t) THEN NoExpiry ELSE ex[s][p][w]]]]

-----------------------------------------------------------------------------

(* No key of the window can have expired by time t: the first of them was  *)
(* written no earlier than the window's start.                             *)
LiveAt(p, w, t) == Ttl[p] = 0 \/ t < w + Ttl[p]

(* Written out, so that the provers can expand it.                         *)
SumOverGames(f) ==
    f["reaction"] + f["number-guess"] + f["memory"] + f["math-sprint"] + f["word-scramble"]

(* What the cross-game entry is meant to be.                               *)
SumOfBests(bd, p, w, u) == SumOverGames([g \in Games |-> Value(bd[g][p][w][u])])

=============================================================================
