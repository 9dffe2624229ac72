# Podium in TLA+

Podium is a game server: players play five small games over HTTP, the server
scores them, and leaderboards rank the scores per game and across games, for all
time and for the current day, week and month. Postgres is the source of truth;
the leaderboards are Redis sorted sets derived from it. This directory models
the parts of the program whose correctness depends on order: of concurrent
transactions, of Redis commands, of failures and retries.

## The system

| part | code | state | operations |
|---|---|---|---|
| game sessions | `internal/session`, `queries/sessions.sql` | rows of `game_sessions` and `score_events` | Start, Move, Finish; the worker abandons stale sessions |
| projection | `session.project`, `internal/projector` | `score_events.projected_at`, the sorted sets | inline Submit after a finished game; the worker's Sweep |
| boards | `internal/leaderboard`, `lua/submit.lua` | a sorted set per scope, period and window, with an expiry | Submit, Page, PageAt, Standing |
| rebuild | `leaderboard/rebuild.go`, `cmd/admin` | staging keys | Rebuild |
| refresh tokens | `internal/auth`, `queries/refresh_tokens.sql` | rows of `refresh_tokens` | Login, Refresh, Logout; the worker deletes expired rows |
| realtime | `internal/realtime` | subscribers, their buffers, dirty channels, tickets | Subscribe, Unsubscribe, Flush, Publish, Remove; MarkDirty; Issue, Redeem |
| signing in and rate limiting | `internal/ratelimit`, `internal/auth`, `httpapi` | counters in Redis, the users table | Allow, Reset; Register, Login |
| reports | `internal/reports` | `leaderboard_snapshots` | Generate, MaterialiseClosedWindows |
| games | `internal/games` | the JSON state of a session | Start, Move, View, Raw, Points |
| api process | `cmd/api`, `httpapi/server.go` | three goroutines of an errgroup, requests in flight | boot, serve, drain, exit |
| the rest | `httpapi`, `config`, `platform`, `store`, `cmd`, `web` | none of their own | request decoding, wiring, I/O |

How they interact. A finished game commits its session and its score in one
transaction. The request then runs `submit.lua` on the eight sorted sets the
score belongs to, under a timeout, and sets `projected_at`; a failure is logged
and swallowed. Workers sweep the rows whose `projected_at` is null. An operator
may rebuild all boards from Postgres while all of this goes on. Readers put a
page together from several Redis commands. Each score that moves a board is
announced over Redis Pub/Sub to the hubs of all API processes, which re-send the
board to their sockets. A second worker loop deletes expired tokens, abandons
old sessions and freezes closed windows.

What is hard. Deliveries that are repeated, late or out of order against totals
that are moved by differences; transactions under READ COMMITTED whose
conditional UPDATEs wait for each other; multi-command reads and rebuilds that
others act in the middle of; crashes between a Redis write and the Postgres
mark; expiries that must neither slide nor be missing. `PROJECT.json` lists each
at its line under `hazards`, with the properties that cover it.

What makes each part correct:

* sessions: a session is scored once, exactly when it finishes, for the state it
  finished in; no acknowledged move is lost; what is over stays over;
* projection: every committed score gets to the boards; a marked one is there;
  the total is the sum of the per-game bests; nothing goes down;
* boards: windowed keys expire, at a fixed time;
* rebuild: exact, gapless, and not at the expense of concurrent scores;
* reads: competition ranks, ties shared, neighbours complete;
* refresh tokens: single use, one usable token per login, revocation is final;
* realtime: hub and connections agree on who watches what; a subscriber ends up
  with the current board unless a fault took it away; a slow socket holds up
  nobody;
* signing in and rate limiting: every counter expires, a window admits no more
  than its limit between two clears of its counter, a lockout ends;
* reports: the three sources agree once they have everything, and a late score gets
  into the frozen row;
* games: an engine is over when it says so, no answer is given away, a game can be
  won, and quitting does not pay;
* api process: requests are drained, and a process that begins to stop is gone in
  the end, unless the closing of the pool waits for a query that nothing cancels.

## Modules

| module | models | composed from |
|---|---|---|
| `Boards` | keys, windows, `submit.lua`, expiry, as operators on the sorted sets | |
| `Projection` | commits, inline projection, sweeps, Redis | `Boards` |
| `ProjectionProofs` | theorems and proofs of Projection, and of the refinement | `Delivery` |
| `Standings` | the abstract all-time boards | `Boards` |
| `Delivery` | the refinement mapping from Projection to Standings | `Projection`, `Standings` |
| `Rebuild` | `Board.Rebuild` among all the actions of `Projection` | `Projection` |
| `Reports` | the three sources of a report, and the passes that freeze windows, among all the actions of `Projection` | `Projection` |
| `HistoryProofs` | theorems and proofs of Reports and Rebuild | `Reports`, `Rebuild`, `ProjectionProofs` |
| `Sessions` | Start, Move, Finish and stale-session sweeps | |
| `SessionsProofs` | theorems and proofs | `Sessions` |
| `RefreshTokens` | issuing, Refresh, Logout, expired-token sweeps | |
| `RefreshTokensProofs` | theorems and proofs | `RefreshTokens` |
| `BoardReads` | Page and Standing, command by command | |
| `BoardReadsProofs` | theorems and proofs | `BoardReads` |
| `Realtime` | hub, bridge, tickets, connections and their pumps | |
| `RealtimeProofs` | theorems and proofs of Realtime and ApiProcess | `ApiProcess` |
| `ApiProcess` | boot, shutdown and exit of the process that Realtime lives in | `Realtime` |
| `Logins` | counters, Register and Login | |
| `LoginsProofs` | theorems and proofs | `Logins` |
| `Engines` | the five games and their points | |
| `EnginesProofs` | theorems and proofs | `Engines` |
| `MC...` | constants of the runs | the module they are named after (`MCProjection`: `Delivery`) |

`PROJECT.json` maps each definition to the lines it stands for. Operators whose
comment begins with *Mutant* are deliberate bugs: no specification uses them,
and each, put in the place of the definition that follows it, makes one property
of one run fail.

### Boards and Projection

`board[s][p][w][u]` is the entry of user `u` in the sorted set of scope `s` (a
game or `"global"`), period `p` and the window that starts at `w`; `expiry` is
the key's expiry. `Submit` and `SubmitExpiry` are one run of the script, which
Redis does not interleave with anything. Periods, TTLs and windows are
constants; the assumptions say that a window contains the instants mapped to it
and that a TTL outlasts its window (48 hours for a day, 14 days for a week, 62
days for a month). The five games are written out since the total is a sum over
exactly them.

A score's life: `RecordScore` is the commit of a session's transaction. Its
`achieved_at` is the transaction's start, so it may lie up to `MaxLag` back and
in an earlier window; ids become visible in any order. `inline[i]` follows the
request through `project`. `wpc` and `batch` follow a worker through `Sweep`. A
`...Fails` action is an error, a timeout, a cancelled request or a crash, which
the code treats alike. The abandoned call is put into `stray`, from which it may
run later or never, any number of times (`StrayRun`): the client library retries,
and a timeout does not recall what was sent. `ran` and `wiped` are history: whose
script ran since the last flush, and whose effect a flush took away.

The ranks `submit.lua` returns change nothing here and are left out; announcing a
change to subscribers is in Realtime.

A window is *live* (`LiveAt`) while none of its keys can have expired. Once they
begin to, the game keys and the total go at different times, and neither their
sum nor their entries are meant to be right; reports of such windows come from
Postgres.

### Standings and Delivery

Standings is what a reader of the all-time boards may rely on: a recorded score
appears once, at one instant on its game's board and in the total, and only when
it beats what is there; nothing else happens to the boards until Redis loses
everything. Delivery maps `scores` to the history and the all-time sorted sets to
the entries. Submits that change nothing, marks, sweeps and failures are
stuttering steps. That every score appears in the end is not part of Standings: it
is `EventuallyProjected` with `ProjectedIsVisible`, which say it of every window.

### Rebuild

A rebuild is a sequence of commands: the database's clock, then per period a
query, then per key DEL, ZADD, EXPIRE and RENAME of a staging key (or a DEL of
the board). Each is an action, as each is a round trip or, for ZADD and EXPIRE, a
pipeline that is not a transaction. `Others` lets all of `Projection` act in
between. `quiet[r]` remembers whether `r` alone has acted since it began, `known[r]`
the rows that were committed by then and that no flush and no other rebuild has
touched since.

### Reports

`frozen` is `leaderboard_snapshots`. A report is the points of each player;
`TopPlayers` asks the board, the frozen row and the aggregation in the code's
order, and `Aggregate` chooses among the four queries. A pass of
MaterialiseClosedWindows walks the closing periods and, in each, the total and
the games; the query and the upsert of a board are two actions, and `PassFails` ends
the pass anywhere. A report itself is taken at one instant, and passes do not
overlap. `taken` is history: the scores each frozen row was computed from (`pass.ids`
those of the row in a pass's hands).

`SourcesAgree` is what the repository's README says of live, history and snapshot: "All
three must agree" (lines 600-612). A board that was sent every score of its window
(`Delivered`) is what the aggregation of the history gives, and so is a frozen row that
was computed from every score of its window (`UpToDate`); each for itself, whichever of
the two answers. So a report is the history's as soon as the store that answers it has
everything (`Current`): from the board, from the frozen row after Redis lost its keys or
they expired, or from the history while nothing is frozen. A frozen row is out of date
from the commit of a late score until the next pass, which `LateScoreIsFrozen` says
comes while the window is the last that closed, and a board until the score's script has run, of which Projection says the same.
Until then, of a game's board, whatever has expired, and of a total as long as its window
is live, no report has points the history does not have. A total cannot keep that
promise once keys of its window expire: with a memory score of 5 on the boards, the total expires first, a memory score of 7 then starts it again
with the difference of 2, memory's key expires, and a stray rerun of the same script
adds 7 once more.

### Sessions and RefreshTokens

Transactions are modelled by what READ COMMITTED gives the code: `FOR UPDATE`
waits and reads the last committed row; an UPDATE or DELETE over several rows
takes its `targets` from the rows committed when it starts, gets to them one at a
time in any order, waits for each and tests its condition again; inserted rows
are invisible, and `holds` are kept, until the end. A transaction's writes are
applied at its commit, which is when others see them. `Rollback` is any failure.
Requests that are turned down without a write are not steps. A session's engine
state is the number of moves it has absorbed: enough to tell a lost move and a
score of the wrong state. `parent` of a token, `ended` and `crossed` are history:
a family is crossed when a refresh of it was under way while it was revoked.
`late` is what the claim's `now()` sees, the time at which its transaction began.

### BoardReads

One sorted set and one reader. `Improve` and `Lose` are what may happen to the
set between the reader's commands. Usernames and page metadata are left out.

### Realtime and ApiProcess

A board is the number of changes it has had and a snapshot the number it was read
at. What the hub holds its mutex for is one step: MarkDirty, takeDirty, Subscribe,
Remove, the copy of a channel's subscribers. The read of a snapshot, each delivery
to a buffer and each frame written are steps of their own, so that subscriptions,
changes and broken sockets come between them. `send` is how full a buffer is;
`Deliver` cancels the connection when it is full. `listening` and `notices` are the
Pub/Sub subscription and what is on its way to it; notices are lost when publishing
fails and while the bridge is away. `got` and `excused` are history: the newest
snapshot handed to a connection, and the connections a fault has deprived of one
that no later one has made up for. Which of two snapshots in a buffer is sent last
is not kept: an opening snapshot may be sent after a newer broadcast, as in the
code.

ApiProcess puts Realtime's steps behind the goroutine they belong to and adds the
process: the bridge's first subscription, the listener, the signal, the context that
the first failure cancels, the drain with its timeout, the deferred closes after
`group.Wait`, and the exit, with which sockets and the hub's state are gone. WebSockets
are hijacked connections, which Shutdown does not wait for. `ClosePools` closes the Redis
client, so that no board can be read any more, and makes pool.Close lend nothing and wait
for the connections that are lent: `held` counts those of requests that are still
running, `lent` names the sockets whose opening snapshot has one (the hub's lookup of
usernames). `Release` gives one back; `Exit` comes after the last. `server` remembers how
Serve returned: with everybody answered or nobody ever accepted (`returned`), with the
rest cut off by Close, which cancels them (`cut`), or with the error of a broken
listener (`broken`), which leaves the requests that are running alone.

### Logins

`count` and `ttl` are the counters of `fixed_window.lua`, one script per step. A
request walks through its counters, then the service, then after a login the DELs of
Reset. `AllowFails` is an error of Redis, before or after the script ran, which lets
the request through. `admitted` is history: the requests Redis let through for a
counter, each with its age in ticks, for as long as a window; nothing else ever removes
one. `cleared` is the same for the times a counter that was there was removed, by the DEL
after a login or with all of Redis's keys. `LimitHolds` is about any span as long as the
window, whatever happens in it: no more than twice the limit, which is what the comment
of `Limiter` says of fixed windows, and one more limit for each clear in that span; and
in the running window no more than the limit, and one more for each clear in it.
Passwords are right or wrong, and tokens are left to RefreshTokens.

### Engines

One session of one of the five games. What an engine derives from its seed is any
value of the range, fixed when it is first needed; an answer is right or wrong, a
move that is refused changes nothing. Points are the integer the curve gives for the
raw result as it stands, as Finish may ask for it after any move. Three games keep
the constants of the source; number guess has a smaller range, with the same
relation between range and budget, and word scramble a small dictionary.

## Runs

Every passing run finishes within about three and a half minutes on two cores.

| run | shows | bounds |
|---|---|---|
| `projection` | all of Projection's invariants and action properties but KeysExpire, `EventuallyProjected`, `ImplementsStandings` | 1 player, 1 worker with batches of 1, 2 rows of one game with 1 or 2 points, all-time and daily boards, days 0 and 1, TTL 2, 1 flush |
| `rebuild` | exactness, no visible gap, and what a disturbed rebuild still delivers | 2 games and their total, 2 rows, 1 rebuilder, repeated |
| `rebuild_windows` | exactness and expiry over a window's end and a flush | 1 row, 2 days, TTL 1 |
| `reports` | `SourcesAgree`, `LateScoreIsFrozen` | 1 game and the total, 2 rows of 1 point, days 0 and 1, TTL 2, 1 flush, 1 pass that breaks off |
| `sessions` | one score per session, no lost move, what is over stays over, every transaction ends | 2 concurrent transactions, 3 sessions of one player and game, 2 moves |
| `sessions_start` | the finding below | 2 concurrent transactions, 2 sessions |
| `refresh_tokens` | rotation and revocation | 3 concurrent requests, 3 tokens of a family |
| `board_reads` | ranks, ties and neighbours; with a write in between, never a rank too good | all boards of 4 players and 3 scores, all pages of up to 3, 1 write |
| `realtime` | hub and connections agree; a slow socket holds up nobody | 1 channel, 2 connections, 2 tickets, buffers of 1, 1 change |
| `api` | `CaughtUp`, `RequestsAreDrained`, `StopsEventually` | 1 channel, 1 connection, 1 ticket, a buffer of 1, 2 changes, 2 requests |
| `logins` | counters expire, limits hold across expiries and clears, lockouts end | 2 requests at a time, 1 address, 1 account, limits of 1, a window of 2 ticks, a counter cleared once in a window |
| `engines` | the four properties of Engines | number guess: range 15 with 4 guesses; three short words; taps around every threshold; 17 moves of a timed game |

Why the bounds are enough. Two rows are what it takes for a better and a worse
score, a replay after either, one batch hiding another and a low id that commits
late. Two days with a TTL of two have scores that are projected in their own window
and after it; keys that reach their expiry, and a staging key that does, are in
`rebuild_windows`. In `reports` two rows, a flush and a pass that breaks off reach a
frozen row that answers for a window of which Redis has lost the board, one that is there
beside a board brought back by reruns, and one that is out of date; for scores of
different points and of several games `SourcesAgree` is left to its theorem. Totals over two games are in `rebuild`, and for all
five in the theorems, which also have any number of players and workers. A score
that is projected after its window's total has expired and before its game's key
has takes three rows and three ticks and is in none of the runs. Two transactions
and three sessions are enough for a deadlock, and what the proofs of Sessions add is
any number of either. A family of three tokens has a token with a used parent and a
used child. A page of three rows out of four can begin and end inside a tie. Two
changes let a board change while its flush or its opening snapshot is being read;
two connections let one with a full buffer stand in the other's way. A limit of one
and a window of two ticks are enough for a counter at its limit to expire between a
script and a Reset, and for a span in which the counter expires, is cleared and begins
again; `MaxCleared` bounds the clears of a counter within a window, without which there
is no end to the states, and is any number in the theorems. Two requests in `api` are one that
ends and one that does not. A range of 15 with 4 guesses is as tight as 100 with 7.

Deadlock checking is off only where the bounds let the system stop: Projection and
Reports when all rows are projected and the clock is at its end, BoardReads when its
one read is done, Realtime when tickets and changes are used up, ApiProcess after
exit, Engines when the game is over.

Fairness. A worker's loop (`Projector.Run`) sweeps on a ticker until the process
ends and logs errors rather than returning them, so `SweepList` is weakly fair;
`SweepSubmit` and `SweepMark` are strongly fair, which says that Redis and
Postgres are not down for good. Nothing is assumed of inline projection. In
Sessions a transaction that can go on does (`Progresses`), and one caught in a
cycle of waits is rolled back, which is what Postgres's deadlock detection does.
Reports adds a housekeeper whose ticker keeps starting passes; only `MaxFailures` of
them break off, so in the end one is completed. In Realtime the goroutines of hub,
bridge and read pumps go on when they can; nothing is asked of a client, whose socket
may take nothing for ever, nor of Redis, whose failures are the `...Fails` disjuncts
of the same actions. ApiProcess asks of hub, bridge and server that they go on when they
can, and of `run` behind them: the listener listens or fails, the drain has a timer, and
the closes are in the way of nothing but lent connections. `HubStops` is strongly fair
because the select in Run, which chooses among ready cases at random, does not choose the
ticker for ever. A request whose connection Close has cut is cancelled, and its query with
it, hence `server = "cut" /\ Release`. Nothing is asked of any other request or of the
query of an opening snapshot, which may never end. In Logins only time is sure to pass.

## Findings

* `sessions_start`: two Starts at once leave two live sessions of a game: each
  UPDATE misses the row that the other has not committed, and no index forbids
  the second.

Other places where the code does less than a reader might expect. They are steps of
the modules, and the properties above are stated around them:

* a score committed after a period's query and projected before the RENAME
  disappears from the board with `projected_at` set (`rebuild.go:145`); `RebuildDelivers`
  says what is kept all the same;
* two rebuilds share a staging key; a RENAME between the other's ZADD and EXPIRE
  makes a windowed board that never expires (`rebuild.go:125`);
* a logout, or the revocation after a detected reuse, that waits for a refresh under
  way does not see the token that refresh commits (`service.go:251`);
  `RevocationEndsFamily` is about families without such a refresh;
* a score landing between ZREVRANGE and ZCOUNT gives the first rows of a page a rank
  at or after the next one's (`leaderboard.go:260`);
* ending a game early cannot beat playing badly (`reaction.go:126`) unless the rest would
  be taps slower than the 500 ms charged for a round not played;
* an instance that boots without Redis does not come up unready and recover: the
  bridge's first subscription fails and stops the group (`bridge.go:77`);
* a login that succeeds clears the counter of its address together with that of its
  account (`auth.go:187`; `src/README.md:1070` says so). The limit per address therefore
  bounds the attempts between two such logins from the address, not all attempts of a
  window, which the table at `src/README.md:1067` suggests; `LimitHolds` counts the clears;
* `pool.Close` (`main.go:61`) waits for every connection that is lent. After the listener
  itself has failed (`server.go:48`) Serve returns without Shutdown or Close, and requests,
  whose contexts do not descend from the group's (`server.go:30`), go on, cancelled by
  nobody but their clients; nor does a shutdown cancel the contexts of sockets. A query of one of them that does not end
  keeps the process; `StopsEventually` says that nothing else does (`WaitsForQuery`);
* `RT_MAX_CONNS_PER_USER` is read (`config.go:197`) and nothing enforces it.

## Proofs

`tlapm` checks the theorems of the eight `...Proofs` modules, for every value of the
constants that the ASSUMEs allow: any sets of users, periods, workers, requests,
connections and words, any limits, TTLs and windows. Every invariant and action
property that a passing run checks is a theorem. None of them is inductive as the
runs check it; in each module `IInv` (`ApiIInv`, `ReportsInv`, `RBase` with
`QuietInv`, `DeliverInv` and `RenameTimed`, `ReadInv`) is the inductive invariant,
which TLC checked on the instance of the module's run before it was proved, and there
is a lemma for each action or group of actions that keeps it.

Projection. The inductive invariant `IInv` is `TypeOK`, `GlobalIsSumOfBests` and
`BoardHoldsTheBest` with what they rest on. `Promised`: a row that is marked, or
that its caller is about to mark, has run since the last flush or was erased by
one. `NoEarlyExpiry`: no key expires before its window's TTL counted from the
window's start, so a live window has lost nothing; it needs `StampedInPast`, that
no score is stamped later than the present, and this is where
`WindowAssumption` is used. Running a script, for the first time or again, keeps
each game's entry the best of what ran (`RunScriptBest`) and changes one of the
five summands and the total by the same difference. `ProjectedIsVisible` follows
from `Promised` and `BoardHoldsTheBest`; `NoRegression` and `ExpiryNeverSlides`
follow from `IInv` step by step. `KeysExpire` is an invariant of its own, as a script
sets an expiry on each key that it creates (`RunScriptKeys`, `NextKeys`). `Base` is the
part of `IInv` that does not say what the entries are. Sums over the five games go
through `SumOverGames`, which is written out, so that it is monotonic by arithmetic;
a maximum over a set of rows is never computed: `MaxOfBounded` characterises it as the
element that bounds the set, which a well-founded order has.

Delivery. The all-time window is always live, so the boards change only by a script
that improves an entry, which is `Appear`, and by a flush, which is `Vanish`
(`ScriptAppears`); everything else stutters. That the script moves the total by just
what Standings allows is `GlobalIsSumOfBests` before and after the step.

Reports. `ReportsInv` adds to Projection's invariant that a frozen row, and what a pass
has read and is about to store, is no more than the aggregation is now (`FrozenBelow`,
`HeldBelow`), because the rows only grow; that it is exactly what the aggregation is now
unless a score of its window was recorded since it was read (`FrozenFresh`, `HeldFresh`),
because rows of other windows and games do not change it (`AggregateKeeps`); that what is on a game's board was
scored, live or not (`EntriesRecorded`), and that a player is on the total of a live
window exactly when on one of its games' boards (`TotalPresent`). The four aggregations
are shown equal to functions of the rows.

Rebuild. `RBase` is `Base` for a system that also rebuilds: a rename puts in place a
staging key that expires no earlier than the board would, so a live window still has
lost nothing. `QuietInv` follows an undisturbed rebuild through its walk: what it holds
of the query is what the history says, the staging key is what it added, and the keys it
is through with are exact, whatever was there before. `DeliverInv` is the same with `at
least what is owed`, which survives projections in between, because a script never lowers
an entry and the rows of `known` are in every query. Both hold for any number of
rebuilders; a rebuild that another one crosses is neither quiet nor owed anything.
`RebuiltKeysExpire` is stated for one rebuilder (`OneRebuild`), whose staging key has an
expiry by the time it is renamed (`RenameTimed`); with two it is false, as said under
Findings.

BoardReads. Redis's order is total, so `PositionIs` and `PositionsFilled` show by counting
that there is exactly one member at each position and `DescendingIs` that the order lists
them so. A member who scores less than the one just before has the rank its position says
(`RankOfNewScore`), which is why the ranks of a page come out right although they are only
compared with the row before (`RanksAre`, where the recursive function is shown to be the
one its equation has). `ReadInv` follows one request: `Paged` says that the first row was
counted on a board that can only have improved since the rows were read, unless the key
vanished, so a rank can come out too low and never too high.

Sessions. `IInv` is `TypeOK`, `ScoreMatchesSession` and `NoLostMove` with
`Exclusive` (no row is held by two transactions), `Holding` (a held row is still
active, and the row a Move or a Finish read is still the committed one) and
`Unplayed` (a row not yet created has no moves). `Holding` is what makes the
guards of `settle` true when they are reached: under the row locks the unique
index on `session_id` is never what prevents a second score.

RefreshTokens. `IInv` is `SingleUse` with `Exclusive`, `Place` (what each request holds
at each statement, and that a claimed token is still as the claim found it), `Lineage`
(the parent of a token is used and is never an id that is yet to be committed),
`OneUnspent` (one unspent token per family, expired or not: `OneUsablePerFamily` alone
would not survive the commit of a refresh) and, for revocations, `Covers` (a revocation
that no refresh has crossed has every row of the family still before it, or holds it)
and `EndedRevoked`. `DeadStaysDead` follows from `IInv` step by step.

Realtime. `Owed` carries `CaughtUp`: a subscriber that lacks the current state of a
board is owed it by a notice, a mark, a flush or its own opening snapshot that is
under way, or a fault excuses it. A snapshot read before the last change pays nothing
off, because that change left a notice of its own; this needs `FlushOK` and `ReaderOK`,
which bound what a flush and a read pump carry by the version of the board, and
`NoneAhead`. `Agree` is what the hub and the read pumps keep true between them.

ApiProcess. The steps of Realtime inside the process are steps of Realtime, so its
invariant carries over; what is new are the steps with which a goroutine stops, which
excuse what they leave behind, and `ServerOK`, which says how many requests can be left
at each stage: none after a drain that was waited for.

Logins. `HistoryOK` says of every age up to a window how many of the requests that were
let through are no older: no more than the counter says and one limit for each clear that
is no older either, and one limit more if that reaches back before the running window
began, for the window that expired then. A request is let through only with the counter
below its limit (`LetThrough`); a clear sets the counter to zero and is paid for by its
own place in the history (`ClearedOnce`, `ClearStep`); when a window expires, what it let
through is at most the limit and its clears, and two windows are all that a span can touch
(`TimePasses`). `LimitsAlwaysHold` reads the span and the running window off the two oldest
ages (`BoundsOf`), for any number of clears that `MaxCleared` allows.

Engines. `GuessOK` says that the hints keep the secret between them and that, while the
player halves, the candidates left are fewer than 2 to the power of the guesses left;
with one guess left there is one candidate (`GuessLastStep`). `SwappedHides` shows by a
bijection that exchanging two letters keeps the letters. For `QuittingNeverPays` the
curves are shown monotonic, whatever their ends, and each engine's raw result to move
one way only. `DoublingAssumption` states what the prover has no theory of, that 2 to
the power n + 1 is twice 2 to the power n; TLC evaluates it. `CurveAssumption` holds of
the constants of `numberguess.go` (9 and 21).

`TtlAssumption` is not used by the proofs; it is what makes the current window live.

Only model-checked: liveness (`EventuallyProjected`, `RequestsEnd`, `LateScoreIsFrozen`,
`EventuallyServed`, `StopsEventually`, `LockoutEnds`), which needs fairness and is out
of the prover's reach.

## Plan

1. `Calendar`: Window against bucket for days, ISO weeks and months, discharging
   `WindowAssumption` and `TtlAssumption` on bounded years.
2. Sessions composed with Projection, so that `RecordScore` is the commit of `settle`.
3. Two passes that freeze a window at once, and a board read whose window ends between
   two commands.

## Not modelled

Password hashing and JWTs (cryptography), request decoding and validation,
configuration, schema migrations, logging and metrics, the demo page, the cache of
usernames (no code path changes a name), calendar arithmetic (assumed, see the
plan). A window that ends between the commands of one read of a board, a report's
several commands, and two passes that freeze at once are left out as well. Reasons
are given per component in `PROJECT.json`.
