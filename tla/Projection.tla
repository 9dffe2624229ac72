------------------------------ MODULE Projection ------------------------------
(***************************************************************************)
(* How a score committed to Postgres reaches the sorted sets in Redis.     *)
(*                                                                         *)
(*   - the request that finished the game commits a score_events row, then *)
(*     projects it inline: Submit under a timeout, then projected_at       *)
(*     (session.Service.project); any failure is swallowed;                *)
(*   - every worker sweeps rows whose projected_at is null, oldest id      *)
(*     first, one batch at a time (projector.Sweep).                       *)
(*                                                                         *)
(* Both callers talk to Redis over a network: a call may fail without      *)
(* having been sent, its script may run and the reply be lost, and a call  *)
(* its caller gave up on may still run later (stray).  Redis may lose all  *)
(* its keys (Flush), which the repository calls disposable.                *)
(***************************************************************************)
EXTENDS Boards, FiniteSets

CONSTANTS
    Workers,        \* processes running the projector loop
    Batch,          \* config.Worker.ProjectorBatch
    Plays,          \* the results (who, which game, points) players may achieve
    MaxEvents,      \* bound on score_events rows
    MaxLag,         \* bound on how long before its commit a row is stamped
    MaxFlushes      \* bound on losses of all Redis data

ASSUME ProjectionAssumption ==
    /\ Batch \in Nat \ {0}
    /\ Plays \subseteq [user : Users, game : Games, points : Points]
    /\ MaxEvents \in Nat
    /\ MaxLag \in Nat
    /\ MaxFlushes \in Nat

Ids == 1 .. MaxEvents

VARIABLES
    now,        \* the clock, in units in which Ttl and WindowStart are given
    scores,     \* score_events: a function from the ids of committed rows
    projected,  \* ids with projected_at set
    inline,     \* inline[i]: where the request that recorded i is in project
    wpc,        \* wpc[k]: where worker k is in Sweep
    batch,      \* batch[k]: ids worker k listed and has not finished
    stray,      \* ids with an abandoned Submit that may still run
    board,      \* the sorted sets
    expiry,     \* their expiries
    flushes,    \* how often Redis lost its keys
    ran,        \* history: ids whose script ran since the last flush
    wiped       \* history: ids whose effect a flush erased

vars == <<now, scores, projected, inline, wpc, batch, stray,
          board, expiry, flushes, ran, wiped>>

Recorded == DOMAIN scores

(* TypeOK: the rows, the callers' places in their code, the sorted sets and *)
(* their expiries stay well formed; in particular no total submit.lua moves *)
(* by a difference goes below zero.                                         *)
TypeOK ==
    /\ now \in Time
    /\ Recorded \subseteq Ids
    /\ scores \in [Recorded -> Event]
    /\ projected \subseteq Recorded
    /\ inline \in [Ids -> {"idle", "submit", "mark"}]
    /\ wpc \in [Workers -> {"idle", "submit", "mark"}]
    /\ batch \in [Workers -> SUBSET Recorded]
    /\ stray \subseteq Recorded
    /\ board \in BoardType
    /\ expiry \in ExpiryType
    /\ flushes \in 0 .. MaxFlushes
    /\ ran \subseteq Recorded
    /\ wiped \subseteq Recorded

Init ==
    /\ now = 0
    /\ scores = [i \in {} |-> 0]
    /\ projected = {}
    /\ inline = [i \in Ids |-> "idle"]
    /\ wpc = [k \in Workers |-> "idle"]
    /\ batch = [k \in Workers |-> {}]
    /\ stray = {}
    /\ board = NoBoards
    /\ expiry = NoExpiries
    /\ flushes = 0
    /\ ran = {}
    /\ wiped = {}

-----------------------------------------------------------------------------

(* Redis runs the script of row i to completion.                           *)
RunScript(i) ==
    /\ board' = Submit(board, scores[i])
    /\ expiry' = SubmitExpiry(board, expiry, scores[i], now)
    /\ ran' = ran \cup {i}

(* A row becomes visible when its transaction commits, which need not be    *)
(* in id order, and carries the transaction's start time as achieved_at.    *)
(* The request goes straight on to project it.                              *)
RecordScore(i, e) ==
    /\ i \notin Recorded
    /\ e.at =< now /\ now - e.at =< MaxLag
    /\ scores' = [j \in Recorded \cup {i} |-> IF j = i THEN e ELSE scores[j]]
    /\ inline' = [inline EXCEPT ![i] = "submit"]
    /\ UNCHANGED <<now, projected, wpc, batch, stray, board, expiry, flushes, ran, wiped>>

(* project: Submit answered in time.                                        *)
InlineSubmit(i) ==
    /\ inline[i] = "submit"
    /\ RunScript(i)
    /\ inline' = [inline EXCEPT ![i] = "mark"]
    /\ UNCHANGED <<now, scores, projected, wpc, batch, stray, flushes, wiped>>

(* Mutant: an error is logged, and the row marked all the same.             *)
InlineSubmitFailsMarks(i) ==
    /\ inline[i] = "submit"
    /\ inline' = [inline EXCEPT ![i] = "mark"]
    /\ stray' = stray \cup {i}
    /\ UNCHANGED <<now, scores, projected, wpc, batch, board, expiry, flushes, ran, wiped>>

(* project: an error, the timeout, a cancelled request or a crash.  The     *)
(* call may be anywhere on its way to Redis.                                *)
InlineSubmitFails(i) ==
    /\ inline[i] = "submit"
    /\ inline' = [inline EXCEPT ![i] = "idle"]
    /\ stray' = stray \cup {i}
    /\ UNCHANGED <<now, scores, projected, wpc, batch, board, expiry, flushes, ran, wiped>>

InlineMark(i) ==
    /\ inline[i] = "mark"
    /\ inline' = [inline EXCEPT ![i] = "idle"]
    /\ projected' = projected \cup {i}
    /\ UNCHANGED <<now, scores, wpc, batch, stray, board, expiry, flushes, ran, wiped>>

InlineMarkFails(i) ==
    /\ inline[i] = "mark"
    /\ inline' = [inline EXCEPT ![i] = "idle"]
    /\ UNCHANGED <<now, scores, projected, wpc, batch, stray, board, expiry, flushes, ran, wiped>>

-----------------------------------------------------------------------------

Pending == Recorded \ projected

(* Mutant: sweeps keep a cursor, past the last row projected.               *)
UnprojectedAfterCursor == {i \in Pending : \A j \in projected : j < i}

(* ORDER BY id LIMIT Batch, over rows whose projected_at is null.           *)
Unprojected ==
    {i \in Pending : Cardinality({j \in Pending : j < i}) < Batch}

(* i is the row that worker k's loop has reached.                           *)
Reached(k, i) == i \in batch[k] /\ \A j \in batch[k] : i =< j

(* Sweep: read a batch.  An empty one ends the sweep at once.               *)
SweepList(k) ==
    /\ wpc[k] = "idle"
    /\ Unprojected # {}
    /\ batch' = [batch EXCEPT ![k] = Unprojected]
    /\ wpc' = [wpc EXCEPT ![k] = "submit"]
    /\ UNCHANGED <<now, scores, projected, inline, stray, board, expiry, flushes, ran, wiped>>

SweepSubmit(k, i) ==
    /\ wpc[k] = "submit" /\ Reached(k, i)
    /\ RunScript(i)
    /\ wpc' = [wpc EXCEPT ![k] = "mark"]
    /\ UNCHANGED <<now, scores, projected, inline, batch, stray, flushes, wiped>>

(* An error or a crash abandons the rest of the batch until a later sweep.  *)
SweepSubmitFails(k, i) ==
    /\ wpc[k] = "submit" /\ Reached(k, i)
    /\ wpc' = [wpc EXCEPT ![k] = "idle"]
    /\ batch' = [batch EXCEPT ![k] = {}]
    /\ stray' = stray \cup {i}
    /\ UNCHANGED <<now, scores, projected, inline, board, expiry, flushes, ran, wiped>>

SweepMark(k, i) ==
    /\ wpc[k] = "mark" /\ Reached(k, i)
    /\ projected' = projected \cup {i}
    /\ batch' = [batch EXCEPT ![k] = @ \ {i}]
    /\ wpc' = [wpc EXCEPT ![k] = IF batch'[k] = {} THEN "idle" ELSE "submit"]
    /\ UNCHANGED <<now, scores, inline, stray, board, expiry, flushes, ran, wiped>>

SweepMarkFails(k) ==
    /\ wpc[k] = "mark"
    /\ wpc' = [wpc EXCEPT ![k] = "idle"]
    /\ batch' = [batch EXCEPT ![k] = {}]
    /\ UNCHANGED <<now, scores, projected, inline, stray, board, expiry, flushes, ran, wiped>>

-----------------------------------------------------------------------------

(* An abandoned call runs after all, or a call whose reply was lost runs    *)
(* before the client sends it again: no caller learns of it.                *)
StrayRun(i) ==
    /\ \/ i \in stray
       \/ i \in Recorded /\ inline[i] = "submit"
       \/ \E k \in Workers : wpc[k] = "submit" /\ Reached(k, i)
    /\ RunScript(i)
    /\ UNCHANGED <<now, scores, projected, inline, wpc, batch, stray, flushes, wiped>>

(* Redis loses every key.                                                   *)
Flush ==
    /\ flushes < MaxFlushes
    /\ flushes' = flushes + 1
    /\ board' = NoBoards
    /\ expiry' = NoExpiries
    /\ wiped' = wiped \cup ran
    /\ ran' = {}
    /\ UNCHANGED <<now, scores, projected, inline, wpc, batch, stray>>

(* Time passes, and Redis removes the keys whose expiry it reaches.         *)
Tick ==
    /\ now < MaxTime
    /\ now' = now + 1
    /\ board' = ExpireBoards(board, expiry, now')
    /\ expiry' = ExpireExpiries(expiry, now')
    /\ UNCHANGED <<scores, projected, inline, wpc, batch, stray, flushes, ran, wiped>>

Record == \E i \in Ids, r \in Plays, t \in Time :
    RecordScore(i, [user |-> r.user, game |-> r.game, points |-> r.points, at |-> t])

Request(i) == \/ InlineSubmit(i) \/ InlineSubmitFails(i)
              \/ InlineMark(i) \/ InlineMarkFails(i)

Worker(k) == \/ SweepList(k)
             \/ \E i \in Ids : \/ SweepSubmit(k, i) \/ SweepSubmitFails(k, i)
                               \/ SweepMark(k, i)
             \/ SweepMarkFails(k)

Redis == Flush \/ \E i \in Ids : StrayRun(i)

Next == \/ Record
        \/ \E i \in Ids : Request(i)
        \/ \E k \in Workers : Worker(k)
        \/ Redis
        \/ Tick

Spec == Init /\ [][Next]_vars

(* The loop of Run never stops sweeping, and Redis and Postgres are not     *)
(* down for good: a call the worker makes over and over succeeds sometime.  *)
Fairness == \A k \in Workers :
    /\ WF_vars(SweepList(k))
    /\ SF_vars(\E i \in Ids : SweepSubmit(k, i))
    /\ SF_vars(\E i \in Ids : SweepMark(k, i))

FairSpec == Spec /\ Fairness

-----------------------------------------------------------------------------

(* Row i is a score of user u in game g, inside the window w of period p.   *)
Counts(i, g, p, w, u) ==
    /\ scores[i].user = u
    /\ scores[i].game = g
    /\ WindowStart[p][scores[i].at] = w

(* GlobalIsSumOfBests: however inline projections, sweeps, retries and      *)
(* abandoned calls interleave, the cross-game entry that submit.lua moves   *)
(* by differences is the sum of the five per-game entries, in every window  *)
(* whose keys cannot have begun to expire.                                  *)
GlobalIsSumOfBests ==
    \A p \in Periods, w \in Time, u \in Users :
        LiveAt(p, w, now) =>
            Value(board[Global][p][w][u]) = SumOfBests(board, p, w, u)

(* BoardHoldsTheBest: a game's entry is exactly the best of the scores      *)
(* whose script ran on these keys, in whatever order and however often they *)
(* ran: the upsert of submit.lua is idempotent and commutative.             *)
BoardHoldsTheBest ==
    \A g \in Games, p \in Periods, w \in Time, u \in Users :
        LiveAt(p, w, now) =>
            LET entry == board[g][p][w][u]
                counted == {i \in ran : Counts(i, g, p, w, u)}
            IN  /\ \A i \in counted : scores[i].points =< entry
                /\ entry # NoScore => \E i \in counted : scores[i].points = entry

(* ProjectedIsVisible: projected_at is a promise nobody checks again, as no *)
(* sweep returns to the row.  It is only set on a score that the boards of  *)
(* all its live windows reflect, unless a flush erased it since.            *)
ProjectedIsVisible ==
    \A i \in projected \ wiped : \A p \in Periods :
        LET w == WindowStart[p][scores[i].at]
        IN  LiveAt(p, w, now) =>
                board[scores[i].game][p][w][scores[i].user] >= scores[i].points

(* KeysExpire: every key of a period with a TTL has an expiry, within the   *)
(* TTL, so Redis holds a bounded number of windows; a missing key has none. *)
KeysExpire ==
    \A s \in Scopes, p \in Periods, w \in Time :
        IF Exists(board, s, p, w) /\ Ttl[p] > 0
        THEN expiry[s][p][w] \in now + 1 .. now + Ttl[p]
        ELSE expiry[s][p][w] = NoExpiry

KeepsLiveEntries ==
    \A s \in Scopes, p \in Periods, w \in Time, u \in Users :
        LiveAt(p, w, now') /\ board'[s][p][w][u] < board[s][p][w][u]
            => flushes' # flushes

(* NoRegression: an entry of a live window never goes down or disappears,   *)
(* except when Redis loses everything.                                      *)
NoRegression == [][KeepsLiveEntries]_vars

KeepsExpiries ==
    \A s \in Scopes, p \in Periods, w \in Time :
        expiry[s][p][w] # NoExpiry =>
            expiry'[s][p][w] \in {expiry[s][p][w], NoExpiry}

(* ExpiryNeverSlides: writes to a board never move its expiry ("a daily     *)
(* leaderboard would never actually roll over"); it only goes with its key. *)
ExpiryNeverSlides == [][KeepsExpiries]_vars

(* EventuallyProjected: a committed score is projected sooner or later, by  *)
(* the request that recorded it or by a sweep that reaches it.              *)
EventuallyProjected ==
    \A i \in Ids : i \in Recorded ~> i \in projected

=============================================================================
