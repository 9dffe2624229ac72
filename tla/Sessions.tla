------------------------------- MODULE Sessions -------------------------------
(***************************************************************************)
(* internal/session: the life of a row of game_sessions and the score it   *)
(* earns, under concurrent requests and the worker's housekeeping.         *)
(*                                                                         *)
(* Every operation is one READ COMMITTED transaction.  What Postgres does  *)
(* for it is modelled as far as the code relies on it:                     *)
(*   - SELECT ... FOR UPDATE waits until no other transaction holds the    *)
(*     row, then reads its last committed version;                         *)
(*   - an UPDATE with a WHERE clause picks its rows from the rows committed *)
(*     when the statement starts, then takes them one at a time, waiting   *)
(*     for each, and tests the clause again on the version it then finds;  *)
(*   - an inserted row is seen by nobody before its transaction commits;   *)
(*   - writes become visible, and rows are released, at the commit.        *)
(* A request the code turns down (no such session, another user's, over)   *)
(* rolls back having changed nothing and is not a step.                    *)
(***************************************************************************)
EXTENDS Integers, FiniteSets

CONSTANTS
    Users,
    Games,
    Requests,       \* request handlers, and worker sweeps, in progress at once
    MaxSessions,    \* bound on rows of game_sessions
    MaxMoves        \* bound on moves per session

ASSUME SessionsAssumption == MaxSessions \in Nat /\ MaxMoves \in Nat

Ids == 1 .. MaxSessions
Progress == 0 .. MaxMoves
Status == {"active", "finished", "abandoned"}

(* A row of game_sessions.  progress is the engine's state, as far as it    *)
(* matters here: how many moves it has absorbed.                            *)
Row == [user : Users, game : Games, status : Status, progress : Progress, moves : Progress]

VARIABLES
    sess,       \* committed rows, by id
    score,      \* score_events: what a finished session earned, by its id
    pc,         \* pc[r]: where transaction r is
    job,        \* job[r]: what it is doing, with the row Move and Finish read
    targets,    \* targets[r]: rows its UPDATE selected and has not reached
    holds,      \* holds[r]: rows it has locked, or inserted
    acked       \* history: how many moves of each session were committed

vars == <<sess, score, pc, job, targets, holds, acked>>

Created == DOMAIN sess

Locked(id) == \E r \in Requests : id \in holds[r]

Idle == [op |-> "none"]
Sweep == [op |-> "housekeep"]
StartJobs == [op : {"start"}, user : Users, game : Games]
PlayJobs == [op : {"move", "finish"}, id : Ids, done : BOOLEAN, row : Row]

(* TypeOK: rows, scores, transactions and their locks stay well formed, and *)
(* a status is always one the CHECK of game_sessions allows.                *)
TypeOK ==
    /\ Created \subseteq Ids
    /\ sess \in [Created -> Row]
    /\ DOMAIN score \subseteq Created
    /\ score \in [DOMAIN score -> Progress]
    /\ pc \in [Requests -> {"idle", "update", "commit"}]
    /\ job \in [Requests -> {Idle, Sweep} \cup StartJobs \cup PlayJobs]
    /\ targets \in [Requests -> SUBSET Created]
    /\ holds \in [Requests -> SUBSET Ids]
    /\ acked \in [Ids -> Progress]

Init ==
    /\ sess = [i \in {} |-> 0]
    /\ score = [i \in {} |-> 0]
    /\ pc = [r \in Requests |-> "idle"]
    /\ job = [r \in Requests |-> Idle]
    /\ targets = [r \in Requests |-> {}]
    /\ holds = [r \in Requests |-> {}]
    /\ acked = [i \in Ids |-> 0]

(* A transaction is over, one way or the other.                             *)
End(r) ==
    /\ pc' = [pc EXCEPT ![r] = "idle"]
    /\ job' = [job EXCEPT ![r] = Idle]
    /\ targets' = [targets EXCEPT ![r] = {}]
    /\ holds' = [holds EXCEPT ![r] = {}]

-----------------------------------------------------------------------------

(* AbandonActiveSessions and AbandonStaleSessions: the statement's snapshot. *)
Update(r, j, rows) ==
    /\ pc[r] = "idle"
    /\ pc' = [pc EXCEPT ![r] = "update"]
    /\ job' = [job EXCEPT ![r] = j]
    /\ targets' = [targets EXCEPT ![r] = {i \in rows : sess[i].status = "active"}]
    /\ UNCHANGED <<sess, score, holds, acked>>

(* The bound on rows leaves room for the insert of every Start under way.   *)
StartBegin(r, u, g) ==
    /\ Cardinality(Created) + Cardinality({q \in Requests : job[q].op = "start"}) < MaxSessions
    /\ Update(r, [op |-> "start", user |-> u, game |-> g],
              {i \in Created : sess[i].user = u /\ sess[i].game = g})

(* The worker's sweep, of the sessions older than its cutoff.               *)
HousekeepBegin(r, cutoff) == Update(r, Sweep, {i \in Created : i =< cutoff})

(* Mutant: the condition is not tested again once the row is free.          *)
UpdateRowBlind(r, id) ==
    /\ pc[r] = "update" /\ id \in targets[r]
    /\ ~Locked(id)
    /\ targets' = [targets EXCEPT ![r] = @ \ {id}]
    /\ holds' = [holds EXCEPT ![r] = @ \cup {id}]
    /\ UNCHANGED <<sess, score, pc, job, acked>>

(* The statement reaches a row once nobody else holds it, and abandons it   *)
(* if the row is still active.                                              *)
UpdateRow(r, id) ==
    /\ pc[r] = "update" /\ id \in targets[r]
    /\ ~Locked(id)
    /\ targets' = [targets EXCEPT ![r] = @ \ {id}]
    /\ holds' = [holds EXCEPT ![r] = IF sess[id].status = "active" THEN @ \cup {id} ELSE @]
    /\ UNCHANGED <<sess, score, pc, job, acked>>

NewRow(j) ==
    [user |-> j.user, game |-> j.game, status |-> "active", progress |-> 0, moves |-> 0]

(* CreateGameSession, under a fresh id.                                     *)
StartInsert(r, id) ==
    /\ pc[r] = "update" /\ job[r].op = "start" /\ targets[r] = {}
    /\ id \notin Created /\ ~Locked(id)
    /\ holds' = [holds EXCEPT ![r] = @ \cup {id}]
    /\ pc' = [pc EXCEPT ![r] = "commit"]
    /\ UNCHANGED <<sess, score, job, targets, acked>>

(* Mutant: a status the schema does not know.                               *)
AbandonedAsExpired(x) == [x EXCEPT !.status = "expired"]

Abandoned(x) == [x EXCEPT !.status = "abandoned"]

StartCommit(r) ==
    /\ pc[r] = "commit" /\ job[r].op = "start"
    /\ sess' = [i \in Created \cup holds[r] |->
                    IF i \notin Created THEN NewRow(job[r])
                    ELSE IF i \in holds[r] THEN Abandoned(sess[i]) ELSE sess[i]]
    /\ End(r)
    /\ UNCHANGED <<score, acked>>

HousekeepCommit(r) ==
    /\ pc[r] = "update" /\ job[r].op = "housekeep" /\ targets[r] = {}
    /\ sess' = [i \in Created |-> IF i \in holds[r] THEN Abandoned(sess[i]) ELSE sess[i]]
    /\ End(r)
    /\ UNCHANGED <<score, acked>>

-----------------------------------------------------------------------------

(* Mutant: a SELECT without FOR UPDATE.                                     *)
LockNoWait(r, j) ==
    /\ pc[r] = "idle"
    /\ sess[j.id].status = "active"
    /\ pc' = [pc EXCEPT ![r] = "commit"]
    /\ job' = [job EXCEPT ![r] = j]
    /\ holds' = [holds EXCEPT ![r] = {j.id}]
    /\ UNCHANGED <<sess, score, targets, acked>>

(* LockGameSession, and the checks Move and Finish make on what it returns. *)
Lock(r, j) ==
    /\ pc[r] = "idle"
    /\ ~Locked(j.id)
    /\ sess[j.id].status = "active"
    /\ pc' = [pc EXCEPT ![r] = "commit"]
    /\ job' = [job EXCEPT ![r] = j]
    /\ holds' = [holds EXCEPT ![r] = {j.id}]
    /\ UNCHANGED <<sess, score, targets, acked>>

(* The engine accepts the move, which ends the game or does not.            *)
MoveLock(r, u, id, done) ==
    /\ id \in Created /\ sess[id].user = u /\ sess[id].progress < MaxMoves
    /\ Lock(r, [op |-> "move", id |-> id, done |-> done, row |-> sess[id]])

FinishLock(r, u, id) ==
    /\ id \in Created /\ sess[id].user = u
    /\ Lock(r, [op |-> "finish", id |-> id, done |-> TRUE, row |-> sess[id]])

(* settle: the row must still be active and the session have no score; the  *)
(* points come from the state just saved, or read.                          *)
Settle(id, state) ==
    /\ sess[id].status = "active"
    /\ id \notin DOMAIN score
    /\ score' = [i \in DOMAIN score \cup {id} |-> IF i = id THEN state ELSE score[i]]

(* SaveGameSessionState writes the state computed from the row that was     *)
(* read; moves is incremented by the database.                              *)
Saved(x, state, done) ==
    [x EXCEPT !.progress = state, !.moves = @ + 1, !.status = IF done THEN "finished" ELSE @]

(* Mutant: the last move is scored on the state before it.                  *)
MoveCommitScoresOld(r) ==
    LET j == job[r]
        state == j.row.progress + 1
    IN  /\ pc[r] = "commit" /\ j.op = "move"
        /\ IF j.done THEN Settle(j.id, j.row.progress) ELSE UNCHANGED score
        /\ sess' = [sess EXCEPT ![j.id] = Saved(@, state, j.done)]
        /\ acked' = [acked EXCEPT ![j.id] = @ + 1]
        /\ End(r)

MoveCommit(r) ==
    LET j == job[r]
        state == j.row.progress + 1
    IN  /\ pc[r] = "commit" /\ j.op = "move"
        /\ IF j.done THEN Settle(j.id, state) ELSE UNCHANGED score
        /\ sess' = [sess EXCEPT ![j.id] = Saved(@, state, j.done)]
        /\ acked' = [acked EXCEPT ![j.id] = @ + 1]
        /\ End(r)

FinishCommit(r) ==
    LET j == job[r]
    IN  /\ pc[r] = "commit" /\ j.op = "finish"
        /\ Settle(j.id, j.row.progress)
        /\ sess' = [sess EXCEPT ![j.id] = [@ EXCEPT !.status = "finished"]]
        /\ End(r)
        /\ UNCHANGED acked

(* Mutant: a failed request keeps its transaction open.                     *)
RollbackLeaks(r) ==
    /\ pc[r] # "idle"
    /\ pc' = [pc EXCEPT ![r] = "idle"]
    /\ UNCHANGED <<sess, score, job, targets, holds, acked>>

(* An error, a cancelled request, a lost connection or a crash.             *)
Rollback(r) == pc[r] # "idle" /\ End(r) /\ UNCHANGED <<sess, score, acked>>

Step(r) ==
    \/ \E u \in Users, g \in Games : StartBegin(r, u, g)
    \/ \E id \in Ids : \/ HousekeepBegin(r, id) \/ UpdateRow(r, id) \/ StartInsert(r, id)
                      \/ \E u \in Users : \/ FinishLock(r, u, id)
                                          \/ \E done \in BOOLEAN : MoveLock(r, u, id, done)
    \/ StartCommit(r) \/ HousekeepCommit(r) \/ MoveCommit(r) \/ FinishCommit(r)
    \/ Rollback(r)

Next == \E r \in Requests : Step(r)

Spec == Init /\ [][Next]_vars

-----------------------------------------------------------------------------

(* A set of transactions each of which waits for another of them.           *)
Deadlocked(r) ==
    \E D \in SUBSET Requests :
        /\ r \in D
        /\ \A q \in D : /\ pc[q] = "update" /\ targets[q] # {}
                         /\ \A id \in targets[q] : \E h \in D \ {q} : id \in holds[h]

(* A handler that can go on does, and Postgres breaks a deadlock.           *)
Progresses(r) ==
    \/ \E id \in Ids : UpdateRow(r, id) \/ StartInsert(r, id)
    \/ StartCommit(r) \/ HousekeepCommit(r) \/ MoveCommit(r) \/ FinishCommit(r)
    \/ Deadlocked(r) /\ Rollback(r)

FairSpec == Spec /\ \A r \in Requests : SF_vars(Progresses(r))

-----------------------------------------------------------------------------

(* ScoreMatchesSession: a session has a score exactly when it is finished,  *)
(* at most one, and for the state it finished in, whatever mix of moves,    *)
(* finishes, restarts and sweeps raced for it (settle).                     *)
ScoreMatchesSession ==
    /\ \A id \in Created : sess[id].status = "finished" <=> id \in DOMAIN score
    /\ \A id \in DOMAIN score : score[id] = sess[id].progress

(* NoLostMove: two moves never work from the same state: the state reflects *)
(* every move that was answered (the comment on Move).                      *)
NoLostMove ==
    \A id \in Created : sess[id].progress = acked[id] /\ sess[id].moves = acked[id]

KeepsSettled ==
    /\ \A id \in Created : sess[id].status # "active" => sess'[id] = sess[id]
    /\ \A id \in DOMAIN score : score'[id] = score[id]

(* OverIsOver: a session that is finished or abandoned never changes again, *)
(* and neither does a score: an abandoning UPDATE that waited for a         *)
(* finishing move must not undo it.                                         *)
OverIsOver == [][KeepsSettled]_vars

(* RequestsEnd: no transaction waits for ever, as the row locks of starts,  *)
(* moves and sweeps cannot keep each other waiting without being broken.    *)
RequestsEnd == \A r \in Requests : pc[r] # "idle" ~> pc[r] = "idle"

(* OneLiveSession: a user has at most one live session per game, as the     *)
(* comment on Start has it.  Two Starts at once both miss the row that the  *)
(* other has inserted and not committed.                                    *)
OneLiveSession ==
    \A i, j \in Created :
        /\ sess[i].status = "active" /\ sess[j].status = "active"
        /\ sess[i].user = sess[j].user /\ sess[i].game = sess[j].game
        => i = j

=============================================================================
