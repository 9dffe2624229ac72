---------------------------- MODULE SessionsProofs ----------------------------
(***************************************************************************)
(* Sessions, for every number of users, games, requests, rows and moves.   *)
(* The invariants hold because of the row locks: Exclusive says that no    *)
(* two transactions hold a row, Holding that what a transaction holds is   *)
(* still as it found it, in particular that the row Move or Finish read is *)
(* still the committed one when they write it back.                        *)
(***************************************************************************)
EXTENDS Sessions, TLAPS

Exclusive == \A q, r \in Requests : q # r => holds[q] \cap holds[r] = {}

HoldingOf(r) ==
    /\ pc[r] = "idle" => job[r] = Idle /\ holds[r] = {}
    /\ pc[r] = "update" => holds[r] \subseteq Created
    /\ \A id \in holds[r] \cap Created : sess[id].status = "active"
    /\ job[r].op = "housekeep" => pc[r] = "update"
    /\ job[r].op \in {"move", "finish"} =>
        /\ pc[r] = "commit"
        /\ holds[r] = {job[r].id}
        /\ job[r].id \in Created
        /\ job[r].row = sess[job[r].id]
    /\ job[r].op = "move" => job[r].row.progress < MaxMoves

Holding == \A r \in Requests : HoldingOf(r)

Unplayed == \A id \in Ids \ Created : acked[id] = 0

IInv == /\ TypeOK
        /\ Exclusive
        /\ Holding
        /\ Unplayed
        /\ ScoreMatchesSession
        /\ NoLostMove

-----------------------------------------------------------------------------

(* What a transaction's job carries.                                       *)
LEMMA JobKinds ==
    ASSUME TypeOK, NEW r \in Requests
    PROVE  /\ job[r].op = "start" => job[r].user \in Users /\ job[r].game \in Games
           /\ job[r].op \in {"move", "finish"} => job[r] \in PlayJobs
BY DEF TypeOK, Idle, Sweep, StartJobs, PlayJobs

(* The end of a transaction leaves the others holding what they held.      *)
LEMMA EndExclusive ==
    ASSUME TypeOK, Exclusive, NEW r \in Requests, End(r)
    PROVE  Exclusive'
BY DEF TypeOK, Exclusive, End

(* Rows nobody else holds may change when a transaction ends.              *)
LEMMA EndHolding ==
    ASSUME TypeOK, Exclusive, Holding, NEW r \in Requests, End(r),
           Created \subseteq Created',
           \A id \in Created' \ Created : id \in holds[r],
           \A id \in Created \ holds[r] : sess'[id] = sess[id]
    PROVE  Holding'
PROOF
<1> SUFFICES ASSUME NEW q \in Requests PROVE HoldingOf(q)'
  BY DEF Holding
<1>1. CASE q = r
  BY <1>1 DEF TypeOK, End, HoldingOf, Idle
<1>2. CASE q # r
  <2>1. /\ pc'[q] = pc[q] /\ job'[q] = job[q] /\ holds'[q] = holds[q]
        /\ holds[q] \cap holds[r] = {}
    BY <1>2 DEF TypeOK, End, Exclusive
  <2>2. \A id \in holds[q] : /\ id \in Created' <=> id \in Created
                             /\ id \in Created => sess'[id] = sess[id]
    BY <2>1
  <2>3. HoldingOf(q)
    BY DEF Holding
  <2> QED
    BY <2>1, <2>2, <2>3 DEF HoldingOf
<1> QED
  BY <1>1, <1>2

(* The types of what End assigns.                                          *)
LEMMA EndType ==
    ASSUME TypeOK, NEW r \in Requests, End(r), Created \subseteq Created'
    PROVE  /\ pc' \in [Requests -> {"idle", "update", "commit"}]
           /\ job' \in [Requests -> {Idle, Sweep} \cup StartJobs \cup PlayJobs]
           /\ targets' \in [Requests -> SUBSET Created']
           /\ holds' \in [Requests -> SUBSET Ids]
BY DEF TypeOK, End

(* Init satisfies the invariant.                                           *)
LEMMA InitIInv == Init => IInv
PROOF
<1> SUFFICES ASSUME Init PROVE IInv
  OBVIOUS
<1> USE SessionsAssumption DEF Init, Created
<1>1. TypeOK
  BY DEF TypeOK, Progress
<1>2. Exclusive /\ Holding
  BY DEF Exclusive, Holding, HoldingOf, Idle
<1>3. Unplayed /\ ScoreMatchesSession /\ NoLostMove
  BY DEF Unplayed, ScoreMatchesSession, NoLostMove
<1> QED
  BY <1>1, <1>2, <1>3 DEF IInv

(* A step that leaves the tables alone keeps what is said of them.         *)
LEMMA TablesUnchanged ==
    ASSUME IInv, UNCHANGED <<sess, score, acked>>
    PROVE  Unplayed' /\ ScoreMatchesSession' /\ NoLostMove'
BY DEF IInv, Unplayed, ScoreMatchesSession, NoLostMove, Created

-----------------------------------------------------------------------------

(* A transaction that begins an UPDATE.                                    *)
LEMMA UpdateIInv ==
    ASSUME IInv, NEW r \in Requests, NEW j \in {Sweep} \cup StartJobs, NEW rows \in SUBSET Created,
           Update(r, j, rows)
    PROVE  IInv'
PROOF
<1>0. TypeOK /\ Exclusive /\ Holding
  BY DEF IInv
<1>1. TypeOK'
  BY <1>0 DEF Update, TypeOK, Created
<1>2. Exclusive'
  BY <1>0 DEF Update, Exclusive
<1>3. Holding'
  <2> SUFFICES ASSUME NEW q \in Requests PROVE HoldingOf(q)'
    BY DEF Holding
  <2>1. HoldingOf(q) /\ HoldingOf(r)
    BY <1>0 DEF Holding
  <2>2. CASE q = r
    BY <1>0, <2>1, <2>2 DEF Update, HoldingOf, TypeOK, Created, Sweep, StartJobs
  <2>3. CASE q # r
    BY <1>0, <2>1, <2>3 DEF Update, HoldingOf, TypeOK, Created
  <2> QED
    BY <2>2, <2>3
<1> QED
  BY <1>1, <1>2, <1>3, TablesUnchanged DEF Update, IInv

(* Its UPDATE reaches a row that is free.                                  *)
LEMMA UpdateRowIInv ==
    ASSUME IInv, NEW r \in Requests, NEW id \in Ids, UpdateRow(r, id)
    PROVE  IInv'
PROOF
<1>0. TypeOK /\ Exclusive /\ Holding
  BY DEF IInv
<1>1. TypeOK'
  BY <1>0 DEF UpdateRow, TypeOK, Created
<1>2. Exclusive'
  BY <1>0 DEF UpdateRow, Exclusive, Locked, TypeOK
<1>3. Holding'
  <2> SUFFICES ASSUME NEW q \in Requests PROVE HoldingOf(q)'
    BY DEF Holding
  <2>1. HoldingOf(q) /\ HoldingOf(r)
    BY <1>0 DEF Holding
  <2>2. CASE q = r
    <3>1. id \in Created /\ pc[r] = "update" /\ job[r].op \notin {"move", "finish"}
      BY <1>0, <2>1 DEF UpdateRow, HoldingOf, TypeOK
    <3> QED
      BY <1>0, <2>1, <2>2, <3>1 DEF UpdateRow, HoldingOf, TypeOK, Created
  <2>3. CASE q # r
    BY <1>0, <2>1, <2>3 DEF UpdateRow, HoldingOf, TypeOK, Created
  <2> QED
    BY <2>2, <2>3
<1> QED
  BY <1>1, <1>2, <1>3, TablesUnchanged DEF UpdateRow, IInv

(* Start inserts its row under an id nobody uses.                          *)
LEMMA StartInsertIInv ==
    ASSUME IInv, NEW r \in Requests, NEW id \in Ids, StartInsert(r, id)
    PROVE  IInv'
PROOF
<1>0. TypeOK /\ Exclusive /\ Holding
  BY DEF IInv
<1>1. TypeOK'
  BY <1>0 DEF StartInsert, TypeOK, Created
<1>2. Exclusive'
  BY <1>0 DEF StartInsert, Exclusive, Locked, TypeOK
<1>3. Holding'
  <2> SUFFICES ASSUME NEW q \in Requests PROVE HoldingOf(q)'
    BY DEF Holding
  <2>1. HoldingOf(q) /\ HoldingOf(r)
    BY <1>0 DEF Holding
  <2>2. CASE q = r
    BY <1>0, <2>1, <2>2 DEF StartInsert, HoldingOf, TypeOK, Created
  <2>3. CASE q # r
    BY <1>0, <2>1, <2>3 DEF StartInsert, HoldingOf, TypeOK, Created
  <2> QED
    BY <2>2, <2>3
<1> QED
  BY <1>1, <1>2, <1>3, TablesUnchanged DEF StartInsert, IInv

(* Start and the sweep commit: rows that are held are abandoned, and a new *)
(* row appears.                                                            *)
LEMMA AbandonIInv ==
    ASSUME IInv, NEW r \in Requests, StartCommit(r) \/ HousekeepCommit(r)
    PROVE  IInv'
PROOF
<1>0. TypeOK /\ Exclusive /\ Holding /\ Unplayed /\ ScoreMatchesSession /\ NoLostMove /\ HoldingOf(r)
  BY DEF IInv, Holding
<1>1. End(r) /\ UNCHANGED <<score, acked>>
  BY DEF StartCommit, HousekeepCommit
<1>2. Created \subseteq Created' /\ Created' \subseteq Created \cup holds[r]
  BY DEF StartCommit, HousekeepCommit, Created
<1>3. \A id \in Created : sess'[id] = IF id \in holds[r] THEN Abandoned(sess[id]) ELSE sess[id]
  BY DEF StartCommit, HousekeepCommit
<1>4. \A id \in Created' \ Created : sess'[id] = NewRow(job[r]) /\ job[r].op = "start"
  BY DEF StartCommit, HousekeepCommit, Created
<1>5. \A id \in Created : sess[id] \in Row
  BY <1>0 DEF TypeOK
<1>6. \A id \in Created : /\ Abandoned(sess[id]) \in Row
                          /\ Abandoned(sess[id]).status = "abandoned"
                          /\ Abandoned(sess[id]).progress = sess[id].progress
                          /\ Abandoned(sess[id]).moves = sess[id].moves
  BY <1>5 DEF Abandoned, Row, Status
<1>7. \A id \in Created' \ Created : /\ sess'[id] \in Row
                                     /\ sess'[id].status = "active"
                                     /\ sess'[id].progress = 0 /\ sess'[id].moves = 0
  BY <1>0, <1>4, JobKinds, SessionsAssumption DEF NewRow, Row, Status, Progress
<1>8. TypeOK'
  <2>1. Created' \subseteq Ids
    BY <1>0, <1>2 DEF TypeOK
  <2>2. sess' \in [Created' -> Row]
    <3>1. sess' = [id \in Created' |-> sess'[id]]
      BY DEF StartCommit, HousekeepCommit, Created
    <3> QED
      BY <1>3, <1>5, <1>6, <1>7, <3>1
  <2> QED
    BY <1>0, <1>1, <1>2, <2>1, <2>2, EndType DEF TypeOK
<1>9. Exclusive'
  BY <1>0, <1>1, EndExclusive
<1>10. Holding'
  BY <1>0, <1>1, <1>2, <1>3, EndHolding
<1>11. Unplayed'
  BY <1>0, <1>1, <1>2 DEF Unplayed
<1>12. \A id \in holds[r] \cap Created : sess[id].status = "active" /\ id \notin DOMAIN score
  BY <1>0 DEF HoldingOf, ScoreMatchesSession
<1>13. ScoreMatchesSession'
  <2>1. DOMAIN score \subseteq Created
    BY <1>0 DEF TypeOK
  <2> QED
    BY <1>0, <1>1, <1>2, <1>3, <1>6, <1>7, <1>12, <2>1 DEF ScoreMatchesSession
<1>14. NoLostMove'
  BY <1>0, <1>1, <1>2, <1>3, <1>6, <1>7 DEF NoLostMove, Unplayed, TypeOK
<1> QED
  BY <1>8, <1>9, <1>10, <1>11, <1>13, <1>14 DEF IInv

(* Move or Finish has locked its row.                                      *)
LEMMA LockIInv ==
    ASSUME IInv, NEW r \in Requests, NEW j \in PlayJobs, j.id \in Created, j.row = sess[j.id],
           j.op = "move" => j.row.progress < MaxMoves,
           Lock(r, j)
    PROVE  IInv'
PROOF
<1>0. TypeOK /\ Exclusive /\ Holding
  BY DEF IInv
<1>1. j.id \in Ids /\ j.op \in {"move", "finish"}
  BY DEF PlayJobs
<1>2. TypeOK'
  BY <1>0, <1>1 DEF Lock, TypeOK, Created
<1>3. Exclusive'
  BY <1>0 DEF Lock, Exclusive, Locked, TypeOK
<1>4. Holding'
  <2> SUFFICES ASSUME NEW q \in Requests PROVE HoldingOf(q)'
    BY DEF Holding
  <2>1. HoldingOf(q)
    BY <1>0 DEF Holding
  <2>2. CASE q = r
    BY <1>0, <1>1, <2>2 DEF Lock, HoldingOf, TypeOK, Created
  <2>3. CASE q # r
    BY <1>0, <2>1, <2>3 DEF Lock, HoldingOf, TypeOK, Created
  <2> QED
    BY <2>2, <2>3
<1> QED
  BY <1>2, <1>3, <1>4, TablesUnchanged DEF Lock, IInv

(* A commit that writes one row, the one it holds and has read: the row    *)
(* goes to x, and to a score when x is finished.                           *)
LEMMA WriteIInv ==
    ASSUME IInv, NEW r \in Requests, NEW x \in Row, job[r].op \in {"move", "finish"},
           End(r),
           sess' = [sess EXCEPT ![job[r].id] = x],
           x.status = "active" => score' = score,
           x.status = "finished" =>
                score' = [i \in DOMAIN score \cup {job[r].id} |->
                            IF i = job[r].id THEN x.progress ELSE score[i]],
           x.status # "abandoned",
           acked' = [acked EXCEPT ![job[r].id] = x.moves],
           x.progress = x.moves
    PROVE  IInv'
PROOF
<1> DEFINE id == job[r].id
<1>0. TypeOK /\ Exclusive /\ Holding /\ Unplayed /\ ScoreMatchesSession /\ NoLostMove /\ HoldingOf(r)
  BY DEF IInv, Holding
<1>1. id \in Created /\ holds[r] = {id} /\ id \in Ids /\ sess[id].status = "active"
  BY <1>0 DEF HoldingOf, TypeOK
<1>2. id \notin DOMAIN score
  BY <1>0, <1>1 DEF ScoreMatchesSession
<1>3. Created' = Created /\ sess'[id] = x /\ \A i \in Created \ {id} : sess'[i] = sess[i]
  BY <1>0, <1>1 DEF TypeOK, Created
<1>4. x.progress \in Progress /\ x.moves \in Progress /\ x.status \in {"active", "finished"}
  BY DEF Row, Status
<1>5. /\ DOMAIN score' = IF x.status = "finished" THEN DOMAIN score \cup {id} ELSE DOMAIN score
      /\ x.status = "finished" => score'[id] = x.progress
      /\ \A i \in DOMAIN score : score'[i] = score[i]
  BY <1>2, <1>4
<1>6. TypeOK'
  <2>1. sess' \in [Created' -> Row]
    BY <1>0, <1>1, <1>3 DEF TypeOK
  <2>2. DOMAIN score' \subseteq Created'
    BY <1>0, <1>1, <1>3, <1>5 DEF TypeOK
  <2>3. score' \in [DOMAIN score' -> Progress]
    <3>1. CASE x.status = "active"
      BY <1>0, <3>1 DEF TypeOK
    <3>2. CASE x.status = "finished"
      BY <1>0, <1>4, <3>2 DEF TypeOK
    <3> QED
      BY <1>4, <3>1, <3>2
  <2>4. acked' \in [Ids -> Progress]
    BY <1>0, <1>1, <1>4 DEF TypeOK
  <2> QED
    BY <1>0, <1>3, <2>1, <2>2, <2>3, <2>4, EndType DEF TypeOK
<1>7. Exclusive'
  BY <1>0, EndExclusive
<1>8. Holding'
  BY <1>0, <1>1, <1>3, EndHolding
<1>9. Unplayed'
  BY <1>0, <1>1, <1>3 DEF Unplayed, TypeOK
<1>10. ScoreMatchesSession'
  <2>1. DOMAIN score \subseteq Created
    BY <1>0 DEF TypeOK
  <2> QED
    BY <1>0, <1>1, <1>2, <1>3, <1>4, <1>5, <2>1 DEF ScoreMatchesSession
<1>11. NoLostMove'
  BY <1>0, <1>1, <1>3, <1>4 DEF NoLostMove, TypeOK
<1> QED
  BY <1>6, <1>7, <1>8, <1>9, <1>10, <1>11 DEF IInv

(* What a saved row holds.                                                 *)
LEMMA SavedRow ==
    ASSUME NEW y \in Row, NEW state \in Progress, NEW done \in BOOLEAN, y.moves + 1 \in Progress
    PROVE  /\ Saved(y, state, done) \in Row
           /\ Saved(y, state, done).progress = state
           /\ Saved(y, state, done).moves = y.moves + 1
           /\ Saved(y, state, done).status = IF done THEN "finished" ELSE y.status
PROOF
<1>1. CASE done
  BY <1>1 DEF Saved, Row, Status
<1>2. CASE ~done
  BY <1>2 DEF Saved, Row, Status
<1> QED
  BY <1>1, <1>2

(* Move commits the state it computed from the row it read.                *)
LEMMA MoveCommitIInv ==
    ASSUME IInv, NEW r \in Requests, MoveCommit(r)
    PROVE  IInv'
PROOF
<1> DEFINE id == job[r].id
           x == Saved(sess[id], job[r].row.progress + 1, job[r].done)
<1>0. TypeOK /\ NoLostMove /\ HoldingOf(r) /\ job[r].op = "move" /\ job[r] \in PlayJobs
  BY JobKinds DEF IInv, Holding, MoveCommit
<1>1. /\ id \in Created /\ id \in Ids /\ sess[id] \in Row /\ sess[id].status = "active"
      /\ job[r].row = sess[id] /\ sess[id].progress < MaxMoves /\ job[r].done \in BOOLEAN
  BY <1>0 DEF HoldingOf, TypeOK, PlayJobs
<1>2. sess[id].progress = acked[id] /\ sess[id].moves = acked[id] /\ acked[id] \in Nat
  BY <1>0, <1>1 DEF NoLostMove, TypeOK, Progress
<1>3. /\ x \in Row
      /\ x.progress = acked[id] + 1 /\ x.moves = acked[id] + 1
      /\ x.status = IF job[r].done THEN "finished" ELSE "active"
  <2>1. acked[id] + 1 \in Progress
    BY <1>1, <1>2, SessionsAssumption DEF Progress
  <2> QED
    BY <1>1, <1>2, <2>1, SavedRow
<1>4. sess' = [sess EXCEPT ![id] = x]
  BY DEF MoveCommit
<1>5. acked' = [acked EXCEPT ![id] = x.moves]
  <2>1. acked' = [acked EXCEPT ![id] = acked[id] + 1]
    BY DEF MoveCommit
  <2> QED
    BY <1>3, <2>1
<1>6. /\ x.status = "active" => score' = score
      /\ x.status = "finished" =>
            score' = [i \in DOMAIN score \cup {id} |-> IF i = id THEN x.progress ELSE score[i]]
  BY <1>1, <1>2, <1>3 DEF MoveCommit, Settle
<1>7. End(r)
  BY DEF MoveCommit
<1> HIDE DEF x
<1> QED
  BY <1>0, <1>3, <1>4, <1>5, <1>6, <1>7, WriteIInv

(* Finish commits the score of the state it read.                          *)
LEMMA FinishCommitIInv ==
    ASSUME IInv, NEW r \in Requests, FinishCommit(r)
    PROVE  IInv'
PROOF
<1> DEFINE id == job[r].id
           x == [sess[id] EXCEPT !.status = "finished"]
<1>0. TypeOK /\ NoLostMove /\ HoldingOf(r) /\ job[r].op = "finish" /\ job[r] \in PlayJobs
  BY JobKinds DEF IInv, Holding, FinishCommit
<1>1. id \in Created /\ id \in Ids /\ sess[id] \in Row /\ job[r].row = sess[id]
  BY <1>0 DEF HoldingOf, TypeOK
<1>2. sess[id].progress = acked[id] /\ sess[id].moves = acked[id]
  BY <1>0, <1>1 DEF NoLostMove
<1>3. /\ x \in Row /\ x.status = "finished"
      /\ x.progress = sess[id].progress /\ x.moves = acked[id] /\ x.progress = x.moves
  BY <1>1, <1>2 DEF Row, Status
<1>4. sess' = [sess EXCEPT ![id] = x]
  BY DEF FinishCommit
<1>5. acked' = [acked EXCEPT ![id] = x.moves]
  BY <1>0, <1>1, <1>3 DEF FinishCommit, TypeOK
<1>6. score' = [i \in DOMAIN score \cup {id} |-> IF i = id THEN x.progress ELSE score[i]]
  BY <1>1, <1>3 DEF FinishCommit, Settle
<1>7. End(r)
  BY DEF FinishCommit
<1> HIDE DEF x
<1> QED
  BY <1>0, <1>3, <1>4, <1>5, <1>6, <1>7, WriteIInv

(* A rollback releases the rows and nothing else.                          *)
LEMMA RollbackIInv ==
    ASSUME IInv, NEW r \in Requests, Rollback(r)
    PROVE  IInv'
PROOF
<1>0. TypeOK /\ Exclusive /\ Holding /\ End(r) /\ UNCHANGED <<sess, score, acked>>
  BY DEF IInv, Rollback
<1>1. Created' = Created
  BY <1>0 DEF Created
<1>2. TypeOK'
  BY <1>0, <1>1, EndType DEF TypeOK
<1>3. Exclusive' /\ Holding'
  BY <1>0, <1>1, EndExclusive, EndHolding
<1> QED
  BY <1>0, <1>2, <1>3, TablesUnchanged DEF IInv

(* Every step preserves the invariant.                                     *)
LEMMA NextIInv == IInv /\ [Next]_vars => IInv'
PROOF
<1> SUFFICES ASSUME IInv, [Next]_vars PROVE IInv'
  OBVIOUS
<1>0. TypeOK
  BY DEF IInv
<1>1. CASE UNCHANGED vars
  <2>1. TypeOK' /\ Exclusive' /\ Holding'
    BY <1>1 DEF vars, IInv, TypeOK, Exclusive, Holding, HoldingOf, Created
  <2> QED
    BY <1>1, <2>1, TablesUnchanged DEF vars, IInv
<1>2. ASSUME NEW r \in Requests, Step(r) PROVE IInv'
  <2>1. ASSUME NEW u \in Users, NEW g \in Games, StartBegin(r, u, g) PROVE IInv'
    <3>1. [op |-> "start", user |-> u, game |-> g] \in StartJobs
      BY DEF StartJobs
    <3> QED
      BY <2>1, <3>1, UpdateIInv DEF StartBegin
  <2>2. ASSUME NEW id \in Ids, HousekeepBegin(r, id) PROVE IInv'
    BY <2>2, UpdateIInv DEF HousekeepBegin
  <2>3. ASSUME NEW u \in Users, NEW id \in Ids, FinishLock(r, u, id) PROVE IInv'
    <3> DEFINE j == [op |-> "finish", id |-> id, done |-> TRUE, row |-> sess[id]]
    <3>1. id \in Created /\ sess[id] \in Row /\ Lock(r, j)
      BY <1>0, <2>3 DEF FinishLock, TypeOK
    <3>2. j \in PlayJobs /\ j.id = id /\ j.row = sess[id] /\ j.op = "finish"
      BY <3>1 DEF PlayJobs
    <3> HIDE DEF j
    <3> QED
      BY <3>1, <3>2, LockIInv
  <2>4. ASSUME NEW u \in Users, NEW id \in Ids, NEW done \in BOOLEAN, MoveLock(r, u, id, done)
        PROVE  IInv'
    <3> DEFINE j == [op |-> "move", id |-> id, done |-> done, row |-> sess[id]]
    <3>1. id \in Created /\ sess[id] \in Row /\ Lock(r, j) /\ sess[id].progress < MaxMoves
      BY <1>0, <2>4 DEF MoveLock, TypeOK
    <3>2. j \in PlayJobs /\ j.id = id /\ j.row = sess[id]
      BY <3>1 DEF PlayJobs
    <3> HIDE DEF j
    <3> QED
      BY <3>1, <3>2, LockIInv
  <2> QED
    BY <1>2, <2>1, <2>2, <2>3, <2>4, UpdateRowIInv, StartInsertIInv, AbandonIInv,
       MoveCommitIInv, FinishCommitIInv, RollbackIInv DEF Step
<1> QED
  BY <1>1, <1>2 DEF Next

-----------------------------------------------------------------------------

(* IInv holds throughout every behaviour.                                  *)
THEOREM Inductive == Spec => []IInv
BY InitIInv, NextIInv, PTL DEF Spec

(* Rows, jobs and locks keep their types.                                  *)
THEOREM TypeCorrect == Spec => []TypeOK
PROOF
<1>1. IInv => TypeOK
  BY DEF IInv
<1> QED
  BY <1>1, Inductive, PTL

(* A session has one score exactly when it is finished, for the state it   *)
(* finished in, under any number of racing requests.                       *)
THEOREM ScoredExactlyOnce == Spec => []ScoreMatchesSession
PROOF
<1>1. IInv => ScoreMatchesSession
  BY DEF IInv
<1> QED
  BY <1>1, Inductive, PTL

(* Concurrent moves on a session are serialised: none is overwritten.      *)
THEOREM MovesAreSerialised == Spec => []NoLostMove
PROOF
<1>1. IInv => NoLostMove
  BY DEF IInv
<1> QED
  BY <1>1, Inductive, PTL

(* A session that is over, and a score, never change again.                *)
THEOREM SettledForGood == Spec => OverIsOver
PROOF
<1>1. ASSUME IInv, [Next]_vars PROVE [KeepsSettled]_vars
  <2>0. TypeOK /\ Holding /\ ScoreMatchesSession
    BY <1>1 DEF IInv
  <2>1. CASE UNCHANGED <<sess, score>>
    BY <2>1 DEF KeepsSettled
  <2>2. ASSUME NEW r \in Requests, StartCommit(r) \/ HousekeepCommit(r) PROVE KeepsSettled
    <3>1. HoldingOf(r)
      BY <2>0 DEF Holding
    <3>2. \A id \in Created : id \notin holds[r] => sess'[id] = sess[id]
      BY <2>2 DEF StartCommit, HousekeepCommit
    <3>3. score' = score
      BY <2>2 DEF StartCommit, HousekeepCommit
    <3> QED
      BY <3>1, <3>2, <3>3 DEF KeepsSettled, HoldingOf
  <2>3. ASSUME NEW r \in Requests, MoveCommit(r) \/ FinishCommit(r) PROVE KeepsSettled
    <3>1. HoldingOf(r) /\ job[r].op \in {"move", "finish"}
      BY <2>0, <2>3 DEF Holding, MoveCommit, FinishCommit
    <3>2. job[r].id \in Created /\ sess[job[r].id].status = "active"
      BY <3>1 DEF HoldingOf
    <3>3. job[r].id \notin DOMAIN score
      BY <2>0, <3>2 DEF ScoreMatchesSession
    <3>4. \A id \in Created : id # job[r].id => sess'[id] = sess[id]
      BY <2>0, <2>3, <3>2 DEF MoveCommit, FinishCommit, TypeOK
    <3>5. \A id \in DOMAIN score : score'[id] = score[id]
      BY <2>3, <3>3 DEF MoveCommit, FinishCommit, Settle
    <3> QED
      BY <3>2, <3>4, <3>5 DEF KeepsSettled
  <2>4. ASSUME NEW r \in Requests, Step(r)
        PROVE  \/ UNCHANGED <<sess, score>>
               \/ StartCommit(r) \/ HousekeepCommit(r) \/ MoveCommit(r) \/ FinishCommit(r)
    BY <2>4 DEF Step, StartBegin, HousekeepBegin, Update, UpdateRow, StartInsert,
                FinishLock, MoveLock, Lock, Rollback
  <2>5. CASE UNCHANGED vars
    BY <2>1, <2>5 DEF vars
  <2> QED
    BY <1>1, <2>1, <2>2, <2>3, <2>4, <2>5 DEF Next
<1> QED
  BY <1>1, Inductive, PTL DEF Spec, OverIsOver

=============================================================================
