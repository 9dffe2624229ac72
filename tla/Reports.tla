-------------------------------- MODULE Reports --------------------------------
(***************************************************************************)
(* internal/reports: the leading players of a window, answered from the    *)
(* board while Redis has its key, else from the row the worker froze when  *)
(* the window had closed, else from the score history.  The worker's       *)
(* housekeeping freezes windows one board at a time, a query and an upsert *)
(* each, while scores are recorded and projected as in Projection.         *)
(*                                                                         *)
(* A report is the points of each player.  Ranks and names are decoration, *)
(* and the page is taken to be as long as the board.                       *)
(***************************************************************************)
EXTENDS Projection, Sequences, FiniteSetsExt

CONSTANTS
    ClosingPeriods, \* keys.go: Periods without AllTime, in order
    MaxFailures     \* bound on passes that break off

ASSUME ReportsAssumption ==
    /\ ClosingPeriods \in Seq(Periods \ {AllTime}) /\ ClosingPeriods # <<>>
    /\ MaxFailures \in Nat

VARIABLES
    frozen,     \* leaderboard_snapshots: the row of each scope, period and window
    pass,       \* where MaterialiseClosedWindows is
    failures,   \* passes that broke off so far
    taken       \* history: the ids of the scores each frozen row was computed from

reportVars == <<frozen, pass, failures, taken>>
allReportVars == <<vars, reportVars>>

Nobody == [u \in Users |-> NoScore]

(* The boards of a pass: the total, then the games, for each period.        *)
ScopeOrder == <<Global, "reaction", "math-sprint", "memory", "word-scramble", "number-guess">>
Targets == Len(ClosingPeriods) * Len(ScopeOrder)
TargetScope(n) == ScopeOrder[((n - 1) % Len(ScopeOrder)) + 1]
TargetPeriod(n) == ClosingPeriods[((n - 1) \div Len(ScopeOrder)) + 1]

(* pass.ids is history: the scores that pass.rows was computed from.        *)
Resting == [step |-> "idle", at |-> 0, n |-> 1, rows |-> Nobody, ids |-> {}]

ReportsInit ==
    /\ Init
    /\ frozen = [s \in Scopes |-> [p \in Periods |-> [w \in Time |-> Nobody]]]
    /\ pass = Resting
    /\ failures = 0
    /\ taken = [s \in Scopes |-> [p \in Periods |-> [w \in Time |-> {}]]]

-----------------------------------------------------------------------------

(* max(points) of the rows, per player.                                     *)
Best(ids, u) ==
    LET mine == {scores[i].points : i \in {j \in ids : scores[j].user = u}}
    IN  IF mine = {} THEN NoScore ELSE Max(mine)

OfGame(ids, g) == {i \in ids : scores[i].game = g}

(* Mutant: the total adds up every score, not the best of each game.        *)
SumOfAll(ids) == [u \in Users |->
    IF Best(ids, u) = NoScore THEN NoScore
    ELSE MapThenSumSet(LAMBDA i : scores[i].points, {i \in ids : scores[i].user = u})]

(* sum(best) over the games a player has a row in.                          *)
SumOfGames(ids) == [u \in Users |->
    IF Best(ids, u) = NoScore THEN NoScore
    ELSE SumOverGames([g \in Games |-> Value(Best(OfGame(ids, g), u))])]

(* achieved_at >= from AND achieved_at < until                              *)
InWindow(p, w) == {i \in Recorded : WindowStart[p][scores[i].at] = w}

(* The scores that a report of a scope is about.                            *)
Relevant(s, p, w) == IF s = Global THEN InWindow(p, w) ELSE OfGame(InWindow(p, w), s)

TopPlayersForGameAllTime(g) == [u \in Users |-> Best(OfGame(Recorded, g), u)]
TopPlayersForGameInWindow(g, p, w) == [u \in Users |-> Best(OfGame(InWindow(p, w), g), u)]
TopPlayersGlobalAllTime == SumOfGames(Recorded)
TopPlayersGlobalInWindow(p, w) == SumOfGames(InWindow(p, w))

Aggregate(s, p, w) ==
    CASE s = Global /\ p = AllTime -> TopPlayersGlobalAllTime
      [] s = Global /\ p # AllTime -> TopPlayersGlobalInWindow(p, w)
      [] s # Global /\ p = AllTime -> TopPlayersForGameAllTime(s)
      [] OTHER -> TopPlayersForGameInWindow(s, p, w)

(* A row of leaderboard_snapshots is there when it is not empty.            *)
FromSnapshot(s, p, w) == p # AllTime /\ frozen[s][p][w] # Nobody

TopPlayers(s, p, w) ==
    IF Exists(board, s, p, w) THEN board[s][p][w]
    ELSE IF FromSnapshot(s, p, w) THEN frozen[s][p][w] ELSE Aggregate(s, p, w)

-----------------------------------------------------------------------------

(* On to the next board, or the end of the pass.                            *)
NextTarget == IF pass.n = Targets THEN Resting
              ELSE [pass EXCEPT !.step = "read", !.n = @ + 1, !.rows = Nobody, !.ids = {}]

PassBegin ==
    /\ pass.step = "idle"
    /\ pass' = [Resting EXCEPT !.step = "read", !.at = now]
    /\ UNCHANGED <<vars, frozen, failures, taken>>

(* The last instant before the window the pass runs in; -1 before the first *)
(* window.                                                                  *)
BeforeWindow(p, t) == WindowStart[p][t] - 1

(* materialise: the rows of the window, skipped when there are none.        *)
PassRead ==
    LET s == TargetScope(pass.n)
        p == TargetPeriod(pass.n)
        closed == BeforeWindow(p, pass.at) # -1
        w == WindowStart[p][BeforeWindow(p, pass.at)]
        rows == IF closed THEN Aggregate(s, p, w) ELSE Nobody
        ids == IF closed THEN Relevant(s, p, w) ELSE {}
    IN  /\ pass.step = "read"
        /\ pass' = IF rows = Nobody THEN NextTarget
                   ELSE [pass EXCEPT !.step = "store", !.rows = rows, !.ids = ids]
        /\ UNCHANGED <<vars, frozen, failures, taken>>

(* Mutant: a window that is frozen already is left alone.                   *)
PassStoreOnce ==
    LET s == TargetScope(pass.n)
        p == TargetPeriod(pass.n)
        w == WindowStart[p][BeforeWindow(p, pass.at)]
    IN  /\ pass.step = "store"
        /\ frozen' = IF FromSnapshot(s, p, w) THEN frozen ELSE [frozen EXCEPT ![s][p][w] = pass.rows]
        /\ taken' = IF FromSnapshot(s, p, w) THEN taken ELSE [taken EXCEPT ![s][p][w] = pass.ids]
        /\ pass' = NextTarget
        /\ UNCHANGED <<vars, failures>>

(* UpsertLeaderboardSnapshot.                                               *)
PassStore ==
    LET p == TargetPeriod(pass.n)
        w == WindowStart[p][BeforeWindow(p, pass.at)]
    IN  /\ pass.step = "store"
        /\ frozen' = [frozen EXCEPT ![TargetScope(pass.n)][p][w] = pass.rows]
        /\ taken' = [taken EXCEPT ![TargetScope(pass.n)][p][w] = pass.ids]
        /\ pass' = NextTarget
        /\ UNCHANGED <<vars, failures>>

(* Any error, or a crash, ends the pass where it is.                        *)
PassFails ==
    /\ pass.step # "idle" /\ failures < MaxFailures
    /\ pass' = Resting
    /\ failures' = failures + 1
    /\ UNCHANGED <<vars, frozen, taken>>

Pass == PassBegin \/ PassRead \/ PassStore

ReportsNext == \/ Pass \/ PassFails
               \/ Next /\ UNCHANGED reportVars

(* Projection's fairness, and a housekeeper that keeps running passes.      *)
ReportsFairSpec == /\ ReportsInit /\ [][ReportsNext]_allReportVars
                   /\ Fairness /\ WF_allReportVars(Pass)

-----------------------------------------------------------------------------

Windows(p) == {WindowStart[p][t] : t \in Time}

(* Every score of the window is on its keys, and none of these has expired. *)
Delivered(p, w) == LiveAt(p, w, now) /\ InWindow(p, w) \subseteq ran

(* The frozen row was computed from every score there is for it.            *)
UpToDate(s, p, w) == taken[s][p][w] = Relevant(s, p, w)

(* The store that answers has everything: the board was sent all of the     *)
(* window's scores, the frozen row was computed from all of them, or it is  *)
(* the history itself.                                                      *)
Current(s, p, w) ==
    IF Exists(board, s, p, w) THEN Delivered(p, w)
    ELSE FromSnapshot(s, p, w) => UpToDate(s, p, w)

(* SourcesAgree: "All three must agree".  A board to which every score of   *)
(* its window was delivered, and a frozen row that was computed from every  *)
(* score of its window, name the players and the points that the history    *)
(* gives; so a report is the same from whichever store answers, before and  *)
(* after Redis loses its keys or they expire, before and after the window   *)
(* is frozen, once that store has everything.  Before that, or when some    *)
(* keys have expired, none has a player or points that the history does not *)
(* have.                                                                    *)
(* The one exception is a total in Redis after keys of its window have      *)
(* begun to expire: submit.lua moves it by the difference to a game's entry *)
(* that was made before the total was, or anew after the entry expired.     *)
SourcesAgree ==
    \A s \in Scopes, p \in Periods : \A w \in Windows(p) :
        LET answer == TopPlayers(s, p, w)
            truth == Aggregate(s, p, w)
        IN  /\ Delivered(p, w) => board[s][p][w] = truth
            /\ UpToDate(s, p, w) => frozen[s][p][w] = truth
            /\ Current(s, p, w) => answer = truth
            /\ \A u \in Users : frozen[s][p][w][u] =< truth[u]
            /\ s # Global \/ LiveAt(p, w, now) => \A u \in Users : answer[u] =< truth[u]

(* The frozen rows of the game and of the total were computed from score i  *)
(* as well, and have at least its points.                                   *)
Taken(i, p) == \A s \in {scores[i].game, Global} :
    LET w == WindowStart[p][scores[i].at]
    IN  i \in taken[s][p][w] /\ frozen[s][p][w][scores[i].user] >= scores[i].points

(* The window of score i is the last of period p that has closed.           *)
JustClosed(i, p) ==
    /\ i \in Recorded
    /\ BeforeWindow(p, now) >= WindowStart[p][scores[i].at]
    /\ WindowStart[p][BeforeWindow(p, now)] = WindowStart[p][scores[i].at]

(* LateScoreIsFrozen: time and again the frozen rows have every score of    *)
(* the window before the current one.  So while it is that, the passes      *)
(* bring each of its scores into its rows, one that committed after the     *)
(* first pass included, and although passes break off.                      *)
LateScoreIsFrozen ==
    \A n \in 1 .. Len(ClosingPeriods) :
        LET p == ClosingPeriods[n]
        IN  []<>(\A i \in Ids : JustClosed(i, p) => Taken(i, p))

=============================================================================
