-------------------------------- MODULE Rebuild --------------------------------
(***************************************************************************)
(* Board.Rebuild: the boards recomputed from score_events by an operator's *)
(* `admin rebuild-leaderboards`, one Postgres query per period and, per    *)
(* key, three or four separate Redis commands, while requests and workers  *)
(* go on projecting scores.  The staging key is named after the key it     *)
(* replaces, so two rebuilds share it.                                     *)
(***************************************************************************)
EXTENDS Projection, Sequences, FiniteSetsExt

CONSTANTS
    Rebuilders,     \* processes running a rebuild
    PeriodOrder     \* keys.go: Periods, as the sequence Rebuild walks

ASSUME RebuildAssumption ==
    PeriodOrder \in Seq(Periods) /\ \A p \in Periods : \E n \in DOMAIN PeriodOrder : PeriodOrder[n] = p

(* Registry.Slugs, then the total.                                         *)
KeyOrder == <<"reaction", "math-sprint", "memory", "word-scramble", "number-guess", Global>>

VARIABLES
    rpc,            \* rpc[r]: the command rebuild r is about to send
    rnow,           \* rnow[r]: the database's clock when r started
    rperiod,        \* rperiod[r]: index of the period being rebuilt
    rkey,           \* rkey[r]: index of the key being rebuilt
    rbest,          \* rbest[r]: what BestPoints returned, per game and user
    staging,        \* the staging keys, named like the boards they replace
    stagingExpiry,
    quiet,          \* history: quiet[r] if only r acted since r started
    known           \* history: known[r], the rows committed when r started, and
                    \* none after a flush or a step of another rebuild

rebuildVars == <<rpc, rnow, rperiod, rkey, rbest, staging, stagingExpiry, quiet, known>>
allVars == <<vars, rebuildVars>>

Commands == {"read", "clear", "zadd", "expire", "rename"}
Running(r) == rpc[r] \in Commands

NothingRead == [g \in Games |-> [u \in Users |-> NoScore]]

(* RebuildTypeOK: the position of a rebuild in its walk over periods and    *)
(* keys stays inside it, and the staging keys are well formed.              *)
RebuildTypeOK ==
    /\ TypeOK
    /\ rpc \in [Rebuilders -> Commands \cup {"idle", "done"}]
    /\ rnow \in [Rebuilders -> Time]
    /\ rperiod \in [Rebuilders -> 1 .. Len(PeriodOrder)]
    /\ rkey \in [Rebuilders -> 1 .. Len(KeyOrder)]
    /\ rbest \in [Rebuilders -> [Games -> [Users -> Points \cup {NoScore}]]]
    /\ staging \in BoardType
    /\ stagingExpiry \in ExpiryType
    /\ quiet \in [Rebuilders -> BOOLEAN]
    /\ known \in [Rebuilders -> SUBSET Recorded]

RebuildInit ==
    /\ Init
    /\ rpc = [r \in Rebuilders |-> "idle"]
    /\ rnow = [r \in Rebuilders |-> 0]
    /\ rperiod = [r \in Rebuilders |-> 1]
    /\ rkey = [r \in Rebuilders |-> 1]
    /\ rbest = [r \in Rebuilders |-> NothingRead]
    /\ staging = NoBoards
    /\ stagingExpiry = NoExpiries
    /\ quiet = [r \in Rebuilders |-> FALSE]
    /\ known = [r \in Rebuilders |-> {}]

-----------------------------------------------------------------------------

(* Mutant: only rows that were projected count.                             *)
BestPointsProjected(p, w, g, u) ==
    LET rows == {scores[i].points : i \in {j \in projected : Counts(j, g, p, w, u)}}
    IN  IF rows = {} THEN NoScore ELSE Max(rows)

(* Mutant: the window is left out of the query.                             *)
BestPointsEver(p, w, g, u) ==
    LET rows == {scores[i].points : i \in {j \in Recorded : scores[j].user = u /\ scores[j].game = g}}
    IN  IF rows = {} THEN NoScore ELSE Max(rows)

(* max(points) of the committed rows inside the window, projected or not;   *)
(* NoScore where the query has no row.                                      *)
BestPoints(p, w, g, u) ==
    LET rows == {scores[i].points : i \in {j \in Recorded : Counts(j, g, p, w, u)}}
    IN  IF rows = {} THEN NoScore ELSE Max(rows)

Period(r) == PeriodOrder[rperiod[r]]
Window(r) == WindowStart[Period(r)][rnow[r]]
Scope(r) == KeyOrder[rkey[r]]

(* The sum over the games a user has a row in, absent without any.          *)
Total(best, u) ==
    IF \A g \in Games : best[g][u] = NoScore THEN NoScore
    ELSE SumOverGames([g \in Games |-> Value(best[g][u])])

(* The members replaceKey is called with.                                   *)
Members(r) == [u \in Users |-> IF Scope(r) = Global THEN Total(rbest[r], u)
                               ELSE rbest[r][Scope(r)][u]]

Set(bd, r, x) == [bd EXCEPT ![Scope(r)][Period(r)][Window(r)] = x]

Get(bd, r) == bd[Scope(r)][Period(r)][Window(r)]

Empty == [u \in Users |-> NoScore]

(* On to the next key, the next period or the end.  Locals that nothing     *)
(* reads any more go back to their initial values.                          *)
Advance(r) ==
    LET lastKey == rkey[r] = Len(KeyOrder)
        lastPeriod == rperiod[r] = Len(PeriodOrder)
    IN  /\ rkey' = [rkey EXCEPT ![r] = IF lastKey THEN 1 ELSE @ + 1]
        /\ rperiod' = [rperiod EXCEPT ![r] = IF ~lastKey THEN @ ELSE IF lastPeriod THEN 1 ELSE @ + 1]
        /\ rbest' = [rbest EXCEPT ![r] = IF lastKey THEN NothingRead ELSE @]
        /\ rpc' = [rpc EXCEPT ![r] = IF ~lastKey THEN "clear"
                                     ELSE IF lastPeriod THEN "done" ELSE "read"]

Goto(r, c) == rpc' = [rpc EXCEPT ![r] = c] /\ UNCHANGED <<rkey, rperiod>>

(* Redis commands of a rebuild touch nothing of Projection's but the boards. *)
BoardsOnly == UNCHANGED <<now, scores, projected, inline, wpc, batch, stray, flushes, ran, wiped>>

(* What r does disturbs the other rebuilds.                                 *)
Disturbs(r) ==
    /\ quiet' = [q \in Rebuilders |-> q = r /\ quiet[q]]
    /\ known' = [q \in Rebuilders |-> IF q = r THEN known[q] ELSE {}]

RebuildStart(r) ==
    /\ rpc[r] \in {"idle", "done"}
    /\ rpc' = [rpc EXCEPT ![r] = "read"]
    /\ rnow' = [rnow EXCEPT ![r] = now]
    /\ quiet' = [q \in Rebuilders |-> q = r]
    /\ known' = [q \in Rebuilders |-> IF q = r THEN Recorded ELSE {}]
    /\ UNCHANGED <<vars, rperiod, rkey, rbest, staging, stagingExpiry>>

RebuildRead(r) ==
    /\ rpc[r] = "read"
    /\ rbest' = [rbest EXCEPT ![r] =
                    [g \in Games |-> [u \in Users |-> BestPoints(Period(r), Window(r), g, u)]]]
    /\ Goto(r, "clear")
    /\ Disturbs(r)
    /\ UNCHANGED <<vars, rnow, staging, stagingExpiry>>

(* Nothing to stage: DEL the board itself.                                  *)
RebuildDelete(r) ==
    /\ rpc[r] = "clear" /\ Members(r) = Empty
    /\ board' = Set(board, r, Empty)
    /\ expiry' = Set(expiry, r, NoExpiry)
    /\ Advance(r)
    /\ BoardsOnly
    /\ Disturbs(r)
    /\ UNCHANGED <<rnow, staging, stagingExpiry>>

(* Mutant: the board is deleted before it is filled again.                  *)
RebuildClearLive(r) ==
    /\ rpc[r] = "clear" /\ Members(r) # Empty
    /\ staging' = Set(staging, r, Empty)
    /\ stagingExpiry' = Set(stagingExpiry, r, NoExpiry)
    /\ board' = Set(board, r, Empty)
    /\ expiry' = Set(expiry, r, NoExpiry)
    /\ Goto(r, "zadd")
    /\ BoardsOnly
    /\ Disturbs(r)
    /\ UNCHANGED <<rnow, rbest>>

(* DEL the staging key.                                                     *)
RebuildClear(r) ==
    /\ rpc[r] = "clear" /\ Members(r) # Empty
    /\ staging' = Set(staging, r, Empty)
    /\ stagingExpiry' = Set(stagingExpiry, r, NoExpiry)
    /\ Goto(r, "zadd")
    /\ Disturbs(r)
    /\ UNCHANGED <<vars, rnow, rbest>>

(* Mutant: no EXPIRE on the staging key.                                    *)
RebuildZAddOnly(r) ==
    /\ rpc[r] = "zadd"
    /\ staging' = Set(staging, r,
            [u \in Users |-> IF Members(r)[u] # NoScore THEN Members(r)[u] ELSE Get(staging, r)[u]])
    /\ Goto(r, "rename")
    /\ Disturbs(r)
    /\ UNCHANGED <<vars, rnow, rbest, stagingExpiry>>

(* ZADD upserts into whatever the staging key holds by now.  The pipeline   *)
(* is not a transaction: another client may act before its EXPIRE.          *)
RebuildZAdd(r) ==
    /\ rpc[r] = "zadd"
    /\ staging' = Set(staging, r,
            [u \in Users |-> IF Members(r)[u] # NoScore THEN Members(r)[u] ELSE Get(staging, r)[u]])
    /\ Goto(r, IF Ttl[Period(r)] > 0 THEN "expire" ELSE "rename")
    /\ Disturbs(r)
    /\ UNCHANGED <<vars, rnow, rbest, stagingExpiry>>

RebuildExpire(r) ==
    /\ rpc[r] = "expire"
    /\ stagingExpiry' = IF Get(staging, r) = Empty THEN stagingExpiry
                        ELSE Set(stagingExpiry, r, now + Ttl[Period(r)])
    /\ Goto(r, "rename")
    /\ Disturbs(r)
    /\ UNCHANGED <<vars, rnow, rbest, staging>>

(* RENAME carries the expiry across; without a staging key it is an error,  *)
(* which RebuildFails covers.                                               *)
RebuildRename(r) ==
    /\ rpc[r] = "rename" /\ Get(staging, r) # Empty
    /\ board' = Set(board, r, Get(staging, r))
    /\ expiry' = Set(expiry, r, Get(stagingExpiry, r))
    /\ staging' = Set(staging, r, Empty)
    /\ stagingExpiry' = Set(stagingExpiry, r, NoExpiry)
    /\ Advance(r)
    /\ BoardsOnly
    /\ Disturbs(r)
    /\ UNCHANGED rnow

(* Any command may fail, or the process die: the rebuild stops where it is. *)
RebuildFails(r) ==
    /\ Running(r)
    /\ rpc' = [rpc EXCEPT ![r] = "idle"]
    /\ rnow' = [rnow EXCEPT ![r] = 0]
    /\ rperiod' = [rperiod EXCEPT ![r] = 1]
    /\ rkey' = [rkey EXCEPT ![r] = 1]
    /\ rbest' = [rbest EXCEPT ![r] = NothingRead]
    /\ quiet' = [q \in Rebuilders |-> FALSE]
    /\ known' = [q \in Rebuilders |-> {}]
    /\ UNCHANGED <<vars, staging, stagingExpiry>>

Rebuild(r) ==
    \/ RebuildStart(r) \/ RebuildRead(r) \/ RebuildDelete(r) \/ RebuildClear(r)
    \/ RebuildZAdd(r) \/ RebuildExpire(r) \/ RebuildRename(r) \/ RebuildFails(r)

(* Everything else goes on, and the staging keys are keys like any other:  *)
(* a flush takes them and they expire.                                     *)
Others ==
    /\ Next
    /\ quiet' = [r \in Rebuilders |-> FALSE]
    /\ known' = IF flushes' # flushes THEN [r \in Rebuilders |-> {}] ELSE known
    /\ staging' = IF flushes' # flushes THEN NoBoards ELSE ExpireBoards(staging, stagingExpiry, now')
    /\ stagingExpiry' = IF flushes' # flushes THEN NoExpiries ELSE ExpireExpiries(stagingExpiry, now')
    /\ UNCHANGED <<rpc, rnow, rperiod, rkey, rbest>>

RebuildNext == Others \/ \E r \in Rebuilders : Rebuild(r)

RebuildSpec == RebuildInit /\ [][RebuildNext]_allVars

-----------------------------------------------------------------------------

(* The scores the history has for an entry, in one game or in any.          *)
History(s, p, w, u) == {i \in Recorded : Counts(i, IF s = Global THEN scores[i].game ELSE s, p, w, u)}

(* The best of them, 0 without any.                                         *)
BestOf(ids) == CHOOSE n \in Points :
    /\ \A i \in ids : scores[i].points =< n
    /\ ids # {} => \E i \in ids : scores[i].points = n
    /\ ids = {} => n = 0

(* What the points of each game make in a scope.                            *)
Worth(s, points) == IF s = Global THEN SumOverGames(points) ELSE points[s]

(* A key holds exactly the players with a score, each with the best of the  *)
(* game, or with the sum of the bests.                                      *)
ExactKey(s, p, w) == \A u \in Users :
    board[s][p][w][u] = IF History(s, p, w, u) = {} THEN NoScore
                        ELSE Worth(s, [g \in Games |-> BestOf(History(g, p, w, u))])

(* RebuildIsExact: a rebuild during which nothing else happened leaves all  *)
(* its boards exactly as the history has them, whatever a flush, earlier    *)
(* drift or a rebuild that broke off had left there ("one call restores     *)
(* every board exactly").                                                   *)
RebuildIsExact ==
    \A r \in Rebuilders : rpc[r] = "done" /\ quiet[r] =>
        \A s \in Scopes, p \in Periods : ExactKey(s, p, WindowStart[p][rnow[r]])

KeepsExactKeys ==
    /\ \E r \in Rebuilders : Running(r)
    /\ \A r \in Rebuilders : Running(r) => quiet'[r]
    => \A s \in Scopes, p \in Periods, w \in Time : ExactKey(s, p, w) => ExactKey(s, p, w)'

(* NoVisibleGap: an undisturbed rebuild, or one that breaks off half way,   *)
(* never shows a reader a board that is emptied or half filled: one that    *)
(* was right stays right at every step.                                     *)
NoVisibleGap == [][KeepsExactKeys]_allVars

(* RebuildDelivers: the walk over periods and keys stays inside them and,   *)
(* whatever is projected while a rebuild runs, once it is over every score  *)
(* that was committed before it began, projected or not, counts on its      *)
(* game's board and in the total of the windows rebuilt, unless another     *)
(* rebuild got in between.  Only of scores committed after a period's query *)
(* may it take an entry off the board again, which the RENAME does to one   *)
(* projected in between.                                                    *)
RebuildDelivers ==
    /\ RebuildTypeOK
    /\ \A r \in Rebuilders : rpc[r] = "done" =>
        \A s \in Scopes, p \in Periods, u \in Users :
            LET w == WindowStart[p][rnow[r]]
                owed == [g \in Games |-> BestOf(History(g, p, w, u) \cap known[r])]
            IN  LiveAt(p, w, now) => Value(board[s][p][w][u]) >= Worth(s, owed)

=============================================================================
