-------------------------- MODULE RefreshTokensProofs --------------------------
(***************************************************************************)
(* What the rotation of refresh tokens guarantees for any number of        *)
(* families, requests and tokens: the safety properties of RefreshTokens   *)
(* are theorems.                                                           *)
(*                                                                         *)
(* None of them is inductive.  The argument rests on the row locks: a row  *)
(* that a transaction holds is held by no other (Exclusive), so what the   *)
(* holder found when it took the row is still so when it commits (Place).  *)
(***************************************************************************)
EXTENDS RefreshTokens, TLAPS

(* A row is locked by one transaction at most.                             *)
Exclusive == \A q, r \in Requests : q # r => holds[q] \cap holds[r] = {}

(* x is the id of a row that was committed at some time, and not that of    *)
(* one which an open transaction has inserted.                              *)
Known(x) == x \in issued /\ \A r \in Requests : x \in holds[r] => x \in Created

Unspent(x) == ~x.used /\ ~x.revoked

(* The token request r has claimed is as the claim found it.               *)
Claimed(r) ==
    /\ job[r].op = "refresh"
    /\ job[r].token \in Created
    /\ Unspent(tok[job[r].token])

(* What request r does, holds and has still to reach, at each statement.   *)
Place(r) ==
    /\ pc[r] = "claim" => job[r].op = "refresh"
    /\ pc[r] = "lookup" => job[r].op \in {"refresh", "logout"}
    /\ pc[r] = "revoke" => job[r].op = "revoke"
    /\ pc[r] = "update" => job[r].op \in {"revoke", "delete"} /\ holds[r] \subseteq Created
    /\ pc[r] = "issue" => Claimed(r) /\ holds[r] = {job[r].token}
    /\ pc[r] = "commit" => /\ Claimed(r)
                           /\ \E n \in issued \ Created : holds[r] = {job[r].token, n}
    /\ pc[r] \notin {"issue", "commit", "update"} => holds[r] = {}
    /\ pc[r] = "idle" => job[r] = Idle

(* The family a request revokes was opened by a login.                     *)
OpenedJob(r) == job[r].op = "revoke" => job[r].family \in opened

(* A token's family was opened by a login, and the token it was exchanged  *)
(* for is spent.                                                           *)
Lineage(i) ==
    /\ tok[i].family \in opened
    /\ tok[i].parent # 0 => /\ Known(tok[i].parent)
                            /\ tok[i].parent \in Created => tok[tok[i].parent].used

(* A family has one unspent token at most, expired or not.                 *)
OneUnspent ==
    \A i, j \in Created :
        tok[i].family = tok[j].family /\ Unspent(tok[i]) /\ Unspent(tok[j]) => i = j

(* A revocation no refresh has crossed reaches every row of its family.    *)
Covers(r) ==
    pc[r] = "update" /\ job[r].op = "revoke" /\ r \notin crossed =>
        \A i \in Created : tok[i].family = job[r].family /\ ~tok[i].revoked
                              => i \in targets[r] \cup holds[r]

EndedRevoked == \A i \in Created : tok[i].family \in ended => tok[i].revoked

IInv ==
    /\ TypeOK
    /\ Exclusive
    /\ \A r \in Requests : Place(r) /\ OpenedJob(r) /\ Covers(r)
    /\ \A i \in Created : Lineage(i)
    /\ SingleUse
    /\ OneUnspent
    /\ EndedRevoked

-----------------------------------------------------------------------------

(* What a request's job carries.                                           *)
LEMMA JobKinds ==
    ASSUME TypeOK, NEW r \in Requests
    PROVE  /\ job[r].op \in {"refresh", "logout"} => job[r].token \in Ids /\ job[r].late \in BOOLEAN
           /\ job[r].op = "revoke" => job[r].family \in Families
                                      /\ job[r] = [op |-> "revoke", family |-> job[r].family]
BY DEF TypeOK, Jobs, Idle

(* The types of what the end of a transaction assigns.                     *)
LEMMA EndType ==
    ASSUME TypeOK, NEW r \in Requests, End(r)
    PROVE  /\ pc' \in [Requests -> {"idle", "claim", "issue", "commit", "lookup", "revoke", "update"}]
           /\ job' \in [Requests -> Jobs]
           /\ targets' \in [Requests -> SUBSET Ids]
           /\ holds' \in [Requests -> SUBSET issued]
           /\ \A q \in Requests \ {r} : /\ pc'[q] = pc[q] /\ job'[q] = job[q]
                                        /\ targets'[q] = targets[q] /\ holds'[q] = holds[q]
           /\ pc'[r] = "idle" /\ job'[r] = Idle /\ targets'[r] = {} /\ holds'[r] = {}
BY DEF TypeOK, End, Jobs

(* Init satisfies the invariant.                                           *)
LEMMA InitIInv == Init => IInv
PROOF
<1> SUFFICES ASSUME Init PROVE IInv
  OBVIOUS
<1> USE TokensAssumption DEF Init, Created
<1>1. TypeOK
  BY DEF TypeOK, Jobs
<1>2. Exclusive /\ \A r \in Requests : Place(r) /\ OpenedJob(r) /\ Covers(r)
  BY DEF Exclusive, Place, OpenedJob, Covers, Idle
<1>3. SingleUse /\ OneUnspent /\ EndedRevoked /\ \A i \in Created : Lineage(i)
  BY DEF SingleUse, OneUnspent, EndedRevoked
<1> QED
  BY <1>1, <1>2, <1>3 DEF IInv

(* A request keeps its place while nobody touches the rows it holds.       *)
LEMMA PlaceStays ==
    ASSUME NEW q \in Requests, Place(q), TypeOK,
           pc'[q] = pc[q], job'[q] = job[q], holds'[q] = holds[q],
           issued \subseteq issued',
           \A i \in holds[q] : /\ i \in Created' <=> i \in Created
                               /\ i \in Created => /\ tok'[i].used = tok[i].used
                                                   /\ tok'[i].revoked = tok[i].revoked
    PROVE  Place(q)'
PROOF
<1>1. pc[q] \in {"issue", "commit"} => job[q].token \in holds[q]
  BY DEF Place
<1>2. pc[q] \in {"issue", "commit"} => Claimed(q)'
  BY <1>1 DEF Place, Claimed, Unspent
<1>3. pc[q] = "commit" => \E n \in issued' \ Created' : holds'[q] = {job'[q].token, n}
  BY DEF Place
<1> QED
  BY <1>2, <1>3 DEF Place

(* A step of request r that leaves the table alone only has to keep what   *)
(* is said of r.                                                           *)
LEMMA QuietStep ==
    ASSUME IInv, NEW r \in Requests, TypeOK', Exclusive',
           UNCHANGED <<tok, opened, ended>>,
           issued \subseteq issued',
           \A x \in issued : Known(x) => Known(x)',
           \A q \in Requests \ {r} : /\ pc'[q] = pc[q] /\ job'[q] = job[q]
                                     /\ targets'[q] = targets[q] /\ holds'[q] = holds[q]
                                     /\ q \in crossed' <=> q \in crossed,
           Place(r)', OpenedJob(r)', Covers(r)'
    PROVE  IInv'
PROOF
<1>1. ASSUME NEW q \in Requests PROVE Place(q)' /\ OpenedJob(q)' /\ Covers(q)'
  <2>1. CASE q = r
    BY <2>1
  <2>2. CASE q # r
    <3>1. Place(q)'
      BY <2>2, PlaceStays DEF IInv, Created
    <3>2. OpenedJob(q)'
      BY <2>2 DEF IInv, OpenedJob, Known
    <3>3. Covers(q)'
      BY <2>2 DEF IInv, Covers, Created
    <3> QED
      BY <3>1, <3>2, <3>3
  <2> QED
    BY <2>1, <2>2
<1>2. \A i \in Created' : Lineage(i)'
  <2> SUFFICES ASSUME NEW i \in Created PROVE Lineage(i)'
    BY DEF Created
  <2>1. Lineage(i)
    BY DEF IInv
  <2>2. tok[i].parent # 0 => Known(tok[i].parent)'
    BY <2>1 DEF Lineage, Known
  <2> QED
    BY <2>1, <2>2 DEF Lineage, Created
<1>3. SingleUse' /\ OneUnspent' /\ EndedRevoked'
  BY DEF IInv, SingleUse, OneUnspent, EndedRevoked, Created
<1> QED
  BY <1>1, <1>2, <1>3 DEF IInv

-----------------------------------------------------------------------------

(* Presenting a token.                                                     *)
LEMMA RequestIInv ==
    ASSUME IInv, NEW r \in Requests, NEW t \in Ids, NEW op \in {"refresh", "logout"},
           Request(r, op, t)
    PROVE  IInv'
PROOF
<1>0. TypeOK /\ Place(r) /\ Exclusive
  BY DEF IInv
<1>1. /\ pc[r] = "idle" /\ t \in Created
      /\ UNCHANGED <<tok, issued, opened, targets, holds, ended, crossed>>
      /\ pc'[r] = IF op = "refresh" THEN "claim" ELSE "lookup"
      /\ job'[r] = [op |-> op, token |-> t, late |-> tok[t].expired]
      /\ \A q \in Requests \ {r} : pc'[q] = pc[q] /\ job'[q] = job[q]
  BY <1>0 DEF Request, Goto, TypeOK
<1>2. TypeOK'
  <2>1. tok[t].expired \in BOOLEAN
    BY <1>0, <1>1 DEF TypeOK, Token
  <2>2. job' \in [Requests -> Jobs]
    BY <1>0, <2>1 DEF Request, TypeOK, Jobs
  <2> QED
    BY <1>0, <1>1, <2>2 DEF TypeOK, Request, Goto, Created
<1>3. Exclusive' /\ \A x \in issued : Known(x) => Known(x)'
  BY <1>0, <1>1 DEF Exclusive, Known, Created
<1>4. Place(r)'
  BY <1>0, <1>1 DEF Place
<1>5. OpenedJob(r)' /\ Covers(r)'
  BY <1>0, <1>1 DEF OpenedJob, Covers, Known, TypeOK, Created
<1> QED
  BY <1>1, <1>2, <1>3, <1>4, <1>5, QuietStep

(* Claiming a token that is unspent and that nobody holds.                 *)
LEMMA ClaimIInv ==
    ASSUME IInv, NEW r \in Requests, Claim(r)
    PROVE  IInv'
PROOF
<1> DEFINE t == job[r].token
<1>0. TypeOK /\ Place(r) /\ Exclusive /\ OpenedJob(r)
  BY DEF IInv
<1>1. /\ pc[r] = "claim" /\ t \in Created /\ Unspent(tok[t]) /\ ~Locked(t)
      /\ UNCHANGED <<tok, issued, opened, job, targets, ended, crossed>>
      /\ pc'[r] = "issue" /\ holds'[r] = {t}
      /\ \A q \in Requests \ {r} : pc'[q] = pc[q] /\ holds'[q] = holds[q]
  BY <1>0 DEF Claim, ClaimableBy, Unspent, Goto, TypeOK
<1>2. TypeOK'
  BY <1>0, <1>1 DEF TypeOK, Claim, Goto, Created
<1>3. Exclusive'
  BY <1>0, <1>1 DEF Exclusive, Locked
<1>4. \A x \in issued : Known(x) => Known(x)'
  BY <1>1 DEF Known, Created
<1>5. Place(r)'
  BY <1>0, <1>1 DEF Place, Claimed, Created
<1>6. OpenedJob(r)' /\ Covers(r)'
  BY <1>0, <1>1, <1>4 DEF OpenedJob, Covers, Known
<1> QED
  BY <1>1, <1>2, <1>3, <1>4, <1>5, <1>6, QuietStep

(* A claim that finds no row.                                              *)
LEMMA ClaimMissIInv ==
    ASSUME IInv, NEW r \in Requests, ClaimMiss(r)
    PROVE  IInv'
PROOF
<1>0. TypeOK /\ Place(r) /\ Exclusive /\ OpenedJob(r)
  BY DEF IInv
<1>1. /\ pc[r] = "claim"
      /\ UNCHANGED <<tok, issued, opened, job, targets, holds, ended, crossed>>
      /\ pc'[r] = "lookup"
      /\ \A q \in Requests \ {r} : pc'[q] = pc[q]
  BY <1>0 DEF ClaimMiss, Goto, TypeOK
<1>2. TypeOK'
  BY <1>0, <1>1 DEF TypeOK, ClaimMiss, Goto, Created
<1>3. Exclusive' /\ \A x \in issued : Known(x) => Known(x)'
  BY <1>0, <1>1 DEF Exclusive, Known, Created
<1>4. Place(r)' /\ OpenedJob(r)' /\ Covers(r)'
  BY <1>0, <1>1 DEF Place, OpenedJob, Covers, Known, Created
<1> QED
  BY <1>1, <1>2, <1>3, <1>4, QuietStep

(* Inserting the successor, under an id never given out.                   *)
LEMMA IssueIInv ==
    ASSUME IInv, NEW r \in Requests, NEW t \in Ids, Issue(r, t)
    PROVE  IInv'
PROOF
<1>0. TypeOK /\ Place(r) /\ Exclusive /\ OpenedJob(r)
  BY DEF IInv
<1>1. /\ pc[r] = "issue" /\ t \in Ids \ issued /\ issued' = issued \cup {t}
      /\ UNCHANGED <<tok, opened, job, targets, ended, crossed>>
      /\ pc'[r] = "commit" /\ holds'[r] = holds[r] \cup {t}
      /\ \A q \in Requests \ {r} : pc'[q] = pc[q] /\ holds'[q] = holds[q]
  BY <1>0 DEF Issue, Fresh, Goto, TypeOK
<1>2. TypeOK'
  <2>1. holds' \in [Requests -> SUBSET issued']
    BY <1>0, <1>1 DEF TypeOK, Issue
  <2> QED
    BY <1>0, <1>1, <2>1 DEF TypeOK, Issue, Goto, Created
<1>3. Exclusive'
  BY <1>0, <1>1 DEF Exclusive, TypeOK
<1>4. \A x \in issued : Known(x) => Known(x)'
  BY <1>0, <1>1 DEF Known, Created
<1>5. Place(r)'
  <2>1. Claimed(r)'
    BY <1>0, <1>1 DEF Place, Claimed, Created
  <2>2. t \in issued' \ Created' /\ holds'[r] = {job'[r].token, t}
    BY <1>0, <1>1 DEF Place, TypeOK, Created
  <2> QED
    BY <1>1, <2>1, <2>2 DEF Place
<1>6. OpenedJob(r)' /\ Covers(r)'
  BY <1>0, <1>1, <1>4 DEF OpenedJob, Covers, Known
<1> QED
  BY <1>1, <1>2, <1>3, <1>4, <1>5, <1>6, QuietStep

(* Looking the token up, and going on to revoke its family or stopping.    *)
LEMMA LookupIInv ==
    ASSUME IInv, NEW r \in Requests, Lookup(r)
    PROVE  IInv'
PROOF
<1> DEFINE t == job[r].token
<1>0. TypeOK /\ Place(r) /\ Exclusive /\ OpenedJob(r)
  BY DEF IInv
<1>1. pc[r] = "lookup" /\ UNCHANGED <<tok, issued, opened, ended, crossed>> /\ holds[r] = {}
  BY <1>0 DEF Lookup, Place
<1>2. CASE t \in Created /\ (job[r].op = "logout" \/ tok[t].used)
  <2>1. /\ UNCHANGED <<targets, holds>>
        /\ pc' = [pc EXCEPT ![r] = "revoke"]
        /\ job' = [job EXCEPT ![r] = [op |-> "revoke", family |-> tok[t].family]]
    BY <1>2 DEF Lookup, Goto
  <2>2. tok[t].family \in Families /\ tok[t].family \in opened
    BY <1>0, <1>2 DEF IInv, Lineage, TypeOK, Token
  <2>3. job' \in [Requests -> Jobs]
    BY <1>0, <2>1, <2>2 DEF TypeOK, Jobs
  <2>4. TypeOK'
    BY <1>0, <1>1, <2>1, <2>3 DEF TypeOK, Created
  <2>5. Exclusive' /\ \A x \in issued : Known(x) => Known(x)'
    BY <1>0, <1>1, <2>1 DEF Exclusive, Known, Created
  <2>6. Place(r)' /\ OpenedJob(r)' /\ Covers(r)'
    BY <1>0, <1>1, <2>1, <2>2 DEF Place, OpenedJob, Covers, TypeOK
  <2>7. \A q \in Requests \ {r} : /\ pc'[q] = pc[q] /\ job'[q] = job[q]
                                  /\ targets'[q] = targets[q] /\ holds'[q] = holds[q]
                                  /\ q \in crossed' <=> q \in crossed
    BY <1>0, <1>1, <2>1 DEF TypeOK
  <2> QED
    BY <1>1, <2>4, <2>5, <2>6, <2>7, QuietStep
<1>3. CASE ~(t \in Created /\ (job[r].op = "logout" \/ tok[t].used))
  <2>1. End(r)
    BY <1>3 DEF Lookup
  <2>2. TypeOK'
    BY <1>0, <1>1, <2>1, EndType DEF TypeOK, Created
  <2>3. Exclusive' /\ \A x \in issued : Known(x) => Known(x)'
    BY <1>0, <1>1, <2>1, EndType DEF Exclusive, Known, Created
  <2>4. Place(r)' /\ OpenedJob(r)' /\ Covers(r)'
    BY <1>0, <2>1, EndType DEF Place, OpenedJob, Covers, Idle
  <2> QED
    BY <1>0, <1>1, <2>1, <2>2, <2>3, <2>4, EndType, QuietStep
<1> QED
  BY <1>2, <1>3

(* A statement over several rows picks them: of a revocation, all that the *)
(* family has unrevoked.                                                   *)
LEMMA SelectIInv ==
    ASSUME IInv, NEW r \in Requests, RevokeBegin(r) \/ DeleteBegin(r)
    PROVE  IInv'
PROOF
<1>0. TypeOK /\ Place(r) /\ Exclusive /\ OpenedJob(r)
  BY DEF IInv
<1>1. PICK rows \in SUBSET Created : Select(r, rows)
  BY DEF RevokeBegin, DeleteBegin
<1>2. /\ UNCHANGED <<tok, issued, opened, holds, ended, crossed>>
      /\ targets' = [targets EXCEPT ![r] = rows]
      /\ pc' = [pc EXCEPT ![r] = "update"]
  BY <1>1 DEF Select, Goto
<1>3. /\ \A q \in Requests \ {r} : job'[q] = job[q]
      /\ job' \in [Requests -> Jobs]
      /\ holds[r] = {}
      /\ job'[r].op \in {"revoke", "delete"}
      /\ job'[r].op = "revoke" => job'[r].family \in opened
  <2>1. CASE RevokeBegin(r)
    BY <1>0, <2>1 DEF RevokeBegin, TypeOK, Place, OpenedJob
  <2>2. CASE DeleteBegin(r)
    BY <1>0, <2>2 DEF DeleteBegin, TypeOK, Place, Jobs
  <2> QED
    BY <2>1, <2>2
<1>4. TypeOK'
  BY <1>0, <1>2, <1>3 DEF TypeOK, Created
<1>5. Exclusive' /\ \A x \in issued : Known(x) => Known(x)'
  BY <1>0, <1>2 DEF Exclusive, Known, Created
<1>6. Place(r)' /\ OpenedJob(r)'
  BY <1>0, <1>2, <1>3 DEF Place, OpenedJob, TypeOK
<1>7. Covers(r)'
  <2>1. CASE RevokeBegin(r)
    BY <1>0, <2>1 DEF RevokeBegin, Select, Covers, TypeOK, Created
  <2>2. CASE DeleteBegin(r)
    BY <1>0, <2>2 DEF DeleteBegin, Covers, TypeOK
  <2> QED
    BY <2>1, <2>2
<1>8. \A q \in Requests \ {r} : /\ pc'[q] = pc[q] /\ job'[q] = job[q]
                                /\ targets'[q] = targets[q] /\ holds'[q] = holds[q]
                                /\ q \in crossed' <=> q \in crossed
  BY <1>0, <1>2, <1>3 DEF TypeOK
<1> QED
  BY <1>2, <1>4, <1>5, <1>6, <1>7, <1>8, QuietStep

(* The statement reaches one of its rows.                                  *)
LEMMA UpdateRowIInv ==
    ASSUME IInv, NEW r \in Requests, NEW t \in Ids, UpdateRow(r, t)
    PROVE  IInv'
PROOF
<1>0. TypeOK /\ Place(r) /\ Exclusive /\ OpenedJob(r) /\ Covers(r)
  BY DEF IInv
<1> DEFINE takes == t \in Created /\ (job[r].op = "revoke" => ~tok[t].revoked)
<1>1. /\ pc[r] = "update" /\ ~Locked(t)
      /\ UNCHANGED <<tok, issued, opened, pc, job, ended, crossed>>
      /\ targets'[r] = targets[r] \ {t}
      /\ holds'[r] = IF takes THEN holds[r] \cup {t} ELSE holds[r]
      /\ \A q \in Requests \ {r} : targets'[q] = targets[q] /\ holds'[q] = holds[q]
  BY <1>0 DEF UpdateRow, TypeOK
<1>2. TypeOK'
  <2>1. takes => t \in issued
    BY <1>0 DEF TypeOK
  <2>2. holds' \in [Requests -> SUBSET issued] /\ targets' \in [Requests -> SUBSET Ids]
    BY <1>0, <2>1 DEF UpdateRow, TypeOK
  <2> QED
    BY <1>0, <1>1, <2>2 DEF TypeOK, Created
<1>3. Exclusive'
  BY <1>0, <1>1 DEF Exclusive, Locked
<1>4. \A x \in issued : Known(x) => Known(x)'
  BY <1>1 DEF Known, Created
<1>5. Place(r)'
  BY <1>0, <1>1 DEF Place, Created
<1>6. OpenedJob(r)'
  BY <1>0, <1>1, <1>4 DEF OpenedJob, Known
<1>7. Covers(r)'
  BY <1>0, <1>1 DEF Covers, Created
<1> QED
  BY <1>1, <1>2, <1>3, <1>4, <1>5, <1>6, <1>7, QuietStep

(* A transaction is undone.                                                *)
LEMMA RollbackIInv ==
    ASSUME IInv, NEW r \in Requests, Rollback(r)
    PROVE  IInv'
PROOF
<1>0. TypeOK /\ Exclusive
  BY DEF IInv
<1>1. End(r) /\ UNCHANGED <<tok, issued, opened, ended>> /\ crossed' = crossed \ {r}
  BY DEF Rollback
<1>2. TypeOK'
  BY <1>0, <1>1, EndType DEF TypeOK, Created
<1>3. Exclusive' /\ \A x \in issued : Known(x) => Known(x)'
  BY <1>0, <1>1, EndType DEF Exclusive, Known, Created
<1>4. Place(r)' /\ OpenedJob(r)' /\ Covers(r)'
  BY <1>0, <1>1, EndType DEF Place, OpenedJob, Covers, Idle
<1> QED
  BY <1>0, <1>1, <1>2, <1>3, <1>4, EndType, QuietStep

-----------------------------------------------------------------------------

(* A login opens a family with its first token.                            *)
LEMMA LoginIInv ==
    ASSUME IInv, NEW f \in Families, NEW t \in Ids, Login(f, t)
    PROVE  IInv'
PROOF
<1>0. TypeOK /\ Exclusive
  BY DEF IInv
<1>1. /\ t \in Ids \ issued /\ f \notin opened
      /\ opened' = opened \cup {f} /\ issued' = issued \cup {t}
      /\ UNCHANGED <<pc, job, targets, holds, ended, crossed>>
  BY DEF Login, Fresh
<1>2. /\ Created' = Created \cup {t} /\ t \notin Created
      /\ tok'[t] = NewToken(f, 0)
      /\ \A i \in Created : tok'[i] = tok[i]
      /\ tok' = [i \in Created' |-> tok'[i]]
  BY <1>0, <1>1 DEF Login, Created, TypeOK
<1>3. NewToken(f, 0) \in Token
  BY TokensAssumption DEF NewToken, Token
<1>4. TypeOK'
  <2>1. tok' \in [Created' -> Token]
    BY <1>0, <1>2, <1>3 DEF TypeOK
  <2>2. holds' \in [Requests -> SUBSET issued']
    BY <1>0, <1>1 DEF TypeOK
  <2> QED
    BY <1>0, <1>1, <1>2, <2>1, <2>2 DEF TypeOK
<1>5. Exclusive' /\ \A x \in issued : Known(x) => Known(x)'
  BY <1>0, <1>1, <1>2 DEF Exclusive, Known
<1>6. ASSUME NEW q \in Requests PROVE Place(q)' /\ OpenedJob(q)' /\ Covers(q)'
  <2>1. Place(q) /\ OpenedJob(q) /\ Covers(q) /\ holds[q] \subseteq issued
    BY <1>0 DEF IInv, TypeOK
  <2>2. Place(q)'
    BY <1>0, <1>1, <1>2, <2>1, PlaceStays
  <2>3. OpenedJob(q)'
    BY <1>1, <1>5, <2>1 DEF OpenedJob, Known
  <2>4. Covers(q)'
    BY <1>1, <1>2, <2>1 DEF Covers, OpenedJob, NewToken
  <2> QED
    BY <2>2, <2>3, <2>4
<1>7. ASSUME NEW i \in Created' PROVE Lineage(i)'
  <2>1. CASE i = t
    BY <1>1, <1>2, <2>1 DEF Lineage, NewToken
  <2>2. CASE i \in Created
    <3>1. Lineage(i) /\ tok'[i] = tok[i]
      BY <1>2, <2>2 DEF IInv
    <3>2. tok[i].parent # 0 => /\ Known(tok[i].parent)'
                               /\ tok[i].parent # t
      BY <1>1, <1>5, <3>1 DEF Lineage, Known
    <3> QED
      BY <1>1, <1>2, <3>1, <3>2 DEF Lineage
  <2> QED
    BY <1>2, <2>1, <2>2
<1>8. \A i \in Created : tok[i].family # f
  BY <1>1 DEF IInv, Lineage
<1>9. SingleUse' /\ OneUnspent' /\ EndedRevoked'
  <2>1. SingleUse'
    BY <1>2 DEF IInv, SingleUse, NewToken
  <2>2. OneUnspent'
    BY <1>2, <1>8 DEF IInv, OneUnspent, NewToken
  <2>3. EndedRevoked'
    BY <1>0, <1>1, <1>2 DEF IInv, EndedRevoked, NewToken, TypeOK
  <2> QED
    BY <2>1, <2>2, <2>3
<1> QED
  BY <1>4, <1>5, <1>6, <1>7, <1>9 DEF IInv

(* When a transaction ends, the rows that others hold are as they were.    *)
LEMMA EndOthers ==
    ASSUME IInv, NEW r \in Requests, End(r), issued' = issued, opened' = opened,
           \A i \in issued \ holds[r] : /\ i \in Created' <=> i \in Created
                                        /\ i \in Created => tok'[i] = tok[i]
    PROVE  /\ Exclusive'
           /\ \A x \in issued : Known(x) => Known(x)'
           /\ \A q \in Requests : Place(q)' /\ OpenedJob(q)'
PROOF
<1>0. TypeOK /\ Exclusive
  BY DEF IInv
<1>1. /\ \A q \in Requests \ {r} : /\ pc'[q] = pc[q] /\ job'[q] = job[q]
                                   /\ targets'[q] = targets[q] /\ holds'[q] = holds[q]
      /\ pc'[r] = "idle" /\ job'[r] = Idle /\ targets'[r] = {} /\ holds'[r] = {}
  BY <1>0, EndType
<1>2. Exclusive'
  BY <1>0, <1>1 DEF Exclusive
<1>3. \A q \in Requests \ {r} : holds[q] \subseteq issued \ holds[r]
  BY <1>0 DEF Exclusive, TypeOK
<1>4. ASSUME NEW x \in issued, Known(x) PROVE Known(x)'
  <2> SUFFICES ASSUME NEW q \in Requests, x \in holds'[q] PROVE x \in Created'
    BY DEF Known
  <2>1. q # r /\ x \in holds[q]
    BY <1>1
  <2>2. x \in Created
    BY <1>4, <2>1 DEF Known
  <2> QED
    BY <1>3, <2>1, <2>2
<1>5. ASSUME NEW q \in Requests PROVE Place(q)' /\ OpenedJob(q)'
  <2>1. CASE q = r
    BY <1>1, <2>1 DEF Place, OpenedJob, Idle
  <2>2. CASE q # r
    <3>1. Place(q) /\ OpenedJob(q)
      BY DEF IInv
    <3>2. Place(q)'
      BY <1>0, <1>1, <1>3, <2>2, <3>1, PlaceStays
    <3>3. OpenedJob(q)'
      BY <1>1, <1>4, <2>2, <3>1 DEF OpenedJob, Known
    <3> QED
      BY <3>2, <3>3
  <2> QED
    BY <2>1, <2>2
<1> QED
  BY <1>2, <1>4, <1>5

(* What a refresh commits: the claimed token t is spent, its successor n    *)
(* is the family's.                                                         *)
LEMMA RefreshWrites ==
    ASSUME IInv, NEW r \in Requests, RefreshCommit(r)
    PROVE  LET t == job[r].token IN
           /\ t \in Created /\ t \in Ids /\ Unspent(tok[t]) /\ t \in holds[r]
           /\ \E n \in issued \ Created :
                /\ holds[r] = {t, n}
                /\ Created' = Created \cup {n}
                /\ tok' = [i \in Created' |-> tok'[i]]
                /\ tok'[n] = NewToken(tok[t].family, t)
                /\ tok'[t] = [tok[t] EXCEPT !.used = TRUE]
                /\ \A i \in Created \ {t} : tok'[i] = tok[i]
PROOF
<1> DEFINE t == job[r].token
<1>0. TypeOK /\ Place(r) /\ pc[r] = "commit"
  BY DEF IInv, RefreshCommit
<1>1. t \in Created /\ Unspent(tok[t])
  BY <1>0 DEF Place, Claimed
<1>2. PICK n \in issued \ Created : holds[r] = {t, n}
  BY <1>0 DEF Place
<1>3. tok' = [i \in Created \cup holds[r] |->
                  IF i \notin Created THEN NewToken(tok[t].family, t)
                  ELSE IF i = t THEN [tok[i] EXCEPT !.used = TRUE] ELSE tok[i]]
  BY DEF RefreshCommit
<1> HIDE DEF t
<1>4. Created' = Created \cup {n}
  BY <1>1, <1>2, <1>3 DEF Created
<1>5. /\ tok' = [i \in Created' |-> tok'[i]]
      /\ tok'[n] = NewToken(tok[t].family, t)
      /\ tok'[t] = [tok[t] EXCEPT !.used = TRUE]
      /\ \A i \in Created \ {t} : tok'[i] = tok[i]
  BY <1>1, <1>2, <1>3, <1>4
<1>6. t \in Ids
  BY <1>0, <1>1 DEF TypeOK
<1> QED
  BY <1>1, <1>2, <1>4, <1>5, <1>6 DEF t

(* A refresh commits.                                                      *)
LEMMA RefreshCommitIInv ==
    ASSUME IInv, NEW r \in Requests, RefreshCommit(r)
    PROVE  IInv'
PROOF
<1>0. TypeOK
  BY DEF IInv
<1>t. PICK t \in Ids : t = job[r].token
  BY RefreshWrites
<1>f. PICK f \in Families : f = tok[t].family
  BY <1>0, <1>t, RefreshWrites DEF TypeOK, Token
<1>1. /\ End(r) /\ UNCHANGED <<issued, opened, ended>>
      /\ crossed' = crossed \cup {q \in Requests :
                        pc[q] = "update" /\ job[q] = [op |-> "revoke", family |-> f]}
  BY <1>t, <1>f DEF RefreshCommit, Crosses
<1>2. t \in Created /\ t \in Ids /\ Unspent(tok[t]) /\ t \in holds[r]
  BY <1>t, RefreshWrites
<1>3. PICK n \in issued \ Created :
                /\ holds[r] = {t, n}
                /\ Created' = Created \cup {n}
                /\ tok' = [i \in Created' |-> tok'[i]]
                /\ tok'[n] = NewToken(f, t)
                /\ tok'[t] = [tok[t] EXCEPT !.used = TRUE]
                /\ \A i \in Created \ {t} : tok'[i] = tok[i]
  BY <1>t, <1>f, RefreshWrites
<1>4. tok[t] \in Token /\ Lineage(t) /\ f \in Families /\ f \in opened /\ f \notin ended
  BY <1>0, <1>2, <1>f DEF TypeOK, IInv, Token, Lineage, EndedRevoked, Unspent
<1>5. /\ \A i \in Created : /\ tok'[i].family = tok[i].family /\ tok'[i].parent = tok[i].parent
                            /\ tok'[i].revoked = tok[i].revoked
                            /\ tok[i].used => tok'[i].used
      /\ tok'[t].used
  <2>1. /\ tok'[t].family = tok[t].family /\ tok'[t].parent = tok[t].parent
        /\ tok'[t].revoked = tok[t].revoked /\ tok'[t].used
    BY <1>3, <1>4 DEF Token
  <2> QED
    BY <1>3, <2>1
<1>6. tok'[n].family = f /\ tok'[n].parent = t
  BY <1>3 DEF NewToken
<1>7. TypeOK'
  <2>1. tok'[n] \in Token
    BY <1>2, <1>3, <1>4 DEF NewToken, Token, Ids
  <2>2. tok'[t] \in Token
    BY <1>3, <1>4 DEF Token
  <2>3. tok' \in [Created' -> Token]
    BY <1>0, <1>3, <2>1, <2>2 DEF TypeOK
  <2>4. Created' \subseteq issued' /\ crossed' \subseteq Requests
    BY <1>0, <1>1, <1>3 DEF TypeOK
  <2> QED
    BY <1>0, <1>1, <2>3, <2>4, EndType DEF TypeOK
<1>8. /\ Exclusive'
      /\ \A x \in issued : Known(x) => Known(x)'
      /\ \A q \in Requests : Place(q)' /\ OpenedJob(q)'
  BY <1>1, <1>2, <1>3, EndOthers
<1>9. ASSUME NEW q \in Requests PROVE Covers(q)'
  <2>1. CASE q = r
    BY <1>0, <1>1, <2>1, EndType DEF Covers
  <2>2. CASE q # r
    <3>1. pc'[q] = pc[q] /\ job'[q] = job[q] /\ targets'[q] = targets[q] /\ holds'[q] = holds[q]
      BY <1>0, <1>1, <2>2, EndType
    <3> SUFFICES ASSUME pc[q] = "update", job[q].op = "revoke", q \notin crossed'
                 PROVE  \A i \in Created' : tok'[i].family = job[q].family /\ ~tok'[i].revoked
                              => i \in targets[q] \cup holds[q]
      BY <3>1 DEF Covers
    <3>2. q \notin crossed /\ job[q].family # f
      BY <1>0, <1>1, JobKinds
    <3>3. Covers(q)
      BY DEF IInv
    <3> QED
      BY <1>3, <1>5, <1>6, <3>2, <3>3 DEF Covers
  <2> QED
    BY <2>1, <2>2
<1>10. ASSUME NEW i \in Created' PROVE Lineage(i)'
  <2>1. CASE i = n
    <3>1. Known(t)'
      BY <1>0, <1>1, <1>2, <1>3 DEF Known, TypeOK
    <3> QED
      BY <1>1, <1>4, <1>5, <1>6, <2>1, <3>1 DEF Lineage
  <2>2. CASE i \in Created
    <3>1. Lineage(i)
      BY <2>2 DEF IInv
    <3>2. tok[i].parent # 0 => Known(tok[i].parent)' /\ tok[i].parent # n
      BY <1>3, <1>5, <1>8, <2>2, <3>1 DEF Lineage, Known
    <3> QED
      BY <1>1, <1>3, <1>5, <2>2, <3>1, <3>2 DEF Lineage
  <2> QED
    BY <1>3, <2>1, <2>2
<1>11. SingleUse'
  <2>1. \A j \in Created : tok[j].parent # t
    BY <1>2 DEF IInv, Lineage, Unspent, Ids
  <2> QED
    BY <1>3, <1>5, <1>6, <2>1 DEF IInv, SingleUse
<1>12. OneUnspent'
  <2>1. \A j \in Created : tok[j].family = f => ~Unspent(tok'[j])
    BY <1>2, <1>5, <1>f DEF IInv, OneUnspent, Unspent
  <2>2. \A j \in Created : Unspent(tok'[j]) => Unspent(tok[j])
    BY <1>5 DEF Unspent
  <2> QED
    BY <1>3, <1>5, <1>6, <2>1, <2>2 DEF IInv, OneUnspent
<1>13. EndedRevoked'
  BY <1>1, <1>3, <1>4, <1>5, <1>6 DEF IInv, EndedRevoked
<1> QED
  BY <1>7, <1>8, <1>9, <1>10, <1>11, <1>12, <1>13 DEF IInv

(* Rows that are only revoked, expired or deleted keep what is said of the *)
(* table.                                                                  *)
LEMMA AgingRows ==
    ASSUME IInv, opened' = opened, Created' \subseteq Created,
           \A x \in issued : Known(x) => Known(x)',
           \A i \in Created' : /\ tok'[i].family = tok[i].family
                               /\ tok'[i].parent = tok[i].parent
                               /\ tok'[i].used = tok[i].used
                               /\ tok[i].revoked => tok'[i].revoked
    PROVE  SingleUse' /\ OneUnspent' /\ \A i \in Created' : Lineage(i)'
PROOF
<1>1. SingleUse'
  BY DEF IInv, SingleUse
<1>2. OneUnspent'
  BY DEF IInv, OneUnspent, Unspent
<1>3. ASSUME NEW i \in Created' PROVE Lineage(i)'
  <2>1. Lineage(i)
    BY DEF IInv
  <2>2. tok[i].parent # 0 => Known(tok[i].parent)'
    BY <2>1 DEF Lineage, Known
  <2> QED
    BY <2>1, <2>2 DEF Lineage
<1> QED
  BY <1>1, <1>2, <1>3

(* The same for a revocation that is under way and not crossed.            *)
LEMMA AgingCovers ==
    ASSUME NEW q \in Requests, Covers(q), Created' \subseteq Created,
           \A i \in Created' : /\ tok'[i].family = tok[i].family
                               /\ tok[i].revoked => tok'[i].revoked,
           pc'[q] = pc[q], job'[q] = job[q], targets'[q] = targets[q], holds'[q] = holds[q],
           q \in crossed' <=> q \in crossed
    PROVE  Covers(q)'
BY DEF Covers

(* A revocation commits: with no refresh in between, nothing is left of    *)
(* the family.                                                             *)
LEMMA RevokeCommitIInv ==
    ASSUME IInv, NEW r \in Requests, RevokeCommit(r)
    PROVE  IInv'
PROOF
<1>0. TypeOK /\ Place(r) /\ OpenedJob(r) /\ Covers(r)
  BY DEF IInv
<1>1. /\ pc[r] = "update" /\ targets[r] = {} /\ job[r].op = "revoke"
      /\ End(r) /\ UNCHANGED <<issued, opened>>
      /\ ended' = (IF r \in crossed THEN ended ELSE ended \cup {job[r].family})
      /\ crossed' = crossed \ {r}
  BY DEF RevokeCommit
<1>2. /\ Created' = Created
      /\ tok' = [i \in Created' |-> tok'[i]]
      /\ \A i \in Created : tok'[i] = IF i \in holds[r] THEN [tok[i] EXCEPT !.revoked = TRUE] ELSE tok[i]
  BY DEF RevokeCommit, Created
<1>3. \A i \in Created : /\ tok'[i].family = tok[i].family /\ tok'[i].parent = tok[i].parent
                         /\ tok'[i].used = tok[i].used /\ tok'[i] \in Token
                         /\ tok[i].revoked \/ i \in holds[r] => tok'[i].revoked
  <2> SUFFICES ASSUME NEW i \in Created
               PROVE  /\ tok'[i].family = tok[i].family /\ tok'[i].parent = tok[i].parent
                      /\ tok'[i].used = tok[i].used /\ tok'[i] \in Token
                      /\ tok[i].revoked \/ i \in holds[r] => tok'[i].revoked
    OBVIOUS
  <2>1. tok[i] \in Token
    BY <1>0 DEF TypeOK
  <2> QED
    BY <1>2, <2>1 DEF Token
<1>4. TypeOK'
  <2>1. tok' \in [Created' -> Token]
    BY <1>2, <1>3
  <2>2. ended' \subseteq opened'
    BY <1>0, <1>1 DEF TypeOK, OpenedJob
  <2> QED
    BY <1>0, <1>1, <1>2, <2>1, <2>2, EndType DEF TypeOK
<1>5. /\ Exclusive'
      /\ \A x \in issued : Known(x) => Known(x)'
      /\ \A q \in Requests : Place(q)' /\ OpenedJob(q)'
  BY <1>1, <1>2, EndOthers
<1>6. ASSUME NEW q \in Requests PROVE Covers(q)'
  <2>1. CASE q = r
    BY <1>0, <1>1, <2>1, EndType DEF Covers
  <2>2. CASE q # r
    <3>1. /\ pc'[q] = pc[q] /\ job'[q] = job[q] /\ targets'[q] = targets[q] /\ holds'[q] = holds[q]
          /\ Covers(q) /\ (q \in crossed' <=> q \in crossed)
      BY <1>0, <1>1, <2>2, EndType DEF IInv
    <3> QED
      BY <1>2, <1>3, <3>1, AgingCovers
  <2> QED
    BY <2>1, <2>2
<1>7. SingleUse' /\ OneUnspent' /\ \A i \in Created' : Lineage(i)'
  BY <1>1, <1>2, <1>3, <1>5, AgingRows
<1>8. EndedRevoked'
  <2>1. r \notin crossed => \A i \in Created : tok[i].family = job[r].family => tok'[i].revoked
    BY <1>0, <1>1, <1>3 DEF Covers
  <2> QED
    BY <1>1, <1>2, <1>3, <2>1 DEF IInv, EndedRevoked
<1> QED
  BY <1>4, <1>5, <1>6, <1>7, <1>8 DEF IInv

(* Housekeeping commits.                                                   *)
LEMMA DeleteCommitIInv ==
    ASSUME IInv, NEW r \in Requests, DeleteCommit(r)
    PROVE  IInv'
PROOF
<1>0. TypeOK
  BY DEF IInv
<1>1. pc[r] = "update" /\ End(r) /\ UNCHANGED <<issued, opened, ended, crossed>>
  BY DEF DeleteCommit
<1>2. /\ Created' = Created \ holds[r]
      /\ tok' = [i \in Created' |-> tok'[i]]
      /\ \A i \in Created' : tok'[i] = tok[i]
  BY DEF DeleteCommit, Created
<1>3. TypeOK'
  <2>1. tok' \in [Created' -> Token]
    BY <1>0, <1>2 DEF TypeOK
  <2> QED
    BY <1>0, <1>1, <1>2, <2>1, EndType DEF TypeOK
<1>4. /\ Exclusive'
      /\ \A x \in issued : Known(x) => Known(x)'
      /\ \A q \in Requests : Place(q)' /\ OpenedJob(q)'
  BY <1>1, <1>2, EndOthers
<1>5. ASSUME NEW q \in Requests PROVE Covers(q)'
  <2>1. CASE q = r
    BY <1>0, <1>1, <2>1, EndType DEF Covers
  <2>2. CASE q # r
    <3>1. /\ pc'[q] = pc[q] /\ job'[q] = job[q] /\ targets'[q] = targets[q] /\ holds'[q] = holds[q]
          /\ Covers(q) /\ (q \in crossed' <=> q \in crossed)
      BY <1>0, <1>1, <2>2, EndType DEF IInv
    <3> QED
      BY <1>2, <3>1, AgingCovers
  <2> QED
    BY <2>1, <2>2
<1>6. SingleUse' /\ OneUnspent' /\ \A i \in Created' : Lineage(i)'
  BY <1>1, <1>2, <1>4, AgingRows
<1>7. EndedRevoked'
  BY <1>1, <1>2 DEF IInv, EndedRevoked
<1> QED
  BY <1>3, <1>4, <1>5, <1>6, <1>7 DEF IInv

(* A token expires.                                                        *)
LEMMA ExpireIInv ==
    ASSUME IInv, NEW t \in Ids, Expire(t)
    PROVE  IInv'
PROOF
<1>0. TypeOK /\ Exclusive
  BY DEF IInv
<1>1. /\ t \in Created /\ UNCHANGED <<issued, opened, pc, job, targets, holds, ended, crossed>>
      /\ Created' = Created /\ tok' = [tok EXCEPT ![t].expired = TRUE]
  BY <1>0 DEF Expire, Created, TypeOK
<1>2. tok' \in [Created -> Token]
      /\ \A i \in Created : /\ tok'[i].family = tok[i].family /\ tok'[i].parent = tok[i].parent
                            /\ tok'[i].used = tok[i].used /\ tok'[i].revoked = tok[i].revoked
  <2>1. tok \in [Created -> Token] /\ tok[t] \in Token
    BY <1>0, <1>1 DEF TypeOK
  <2> QED
    BY <1>1, <2>1 DEF Token
<1>3. TypeOK'
  BY <1>0, <1>1, <1>2 DEF TypeOK
<1>4. Exclusive' /\ \A x \in issued : Known(x) => Known(x)'
  BY <1>0, <1>1 DEF Exclusive, Known
<1>5. ASSUME NEW q \in Requests PROVE Place(q)' /\ OpenedJob(q)' /\ Covers(q)'
  <2>1. Place(q) /\ OpenedJob(q) /\ Covers(q)
    BY DEF IInv
  <2>2. Place(q)'
    BY <1>0, <1>1, <1>2, <2>1, PlaceStays
  <2>3. OpenedJob(q)'
    BY <1>1, <1>4, <2>1 DEF OpenedJob, Known
  <2>4. Covers(q)'
    BY <1>1, <1>2, <2>1, AgingCovers
  <2> QED
    BY <2>2, <2>3, <2>4
<1>6. SingleUse' /\ OneUnspent' /\ \A i \in Created' : Lineage(i)'
  BY <1>1, <1>2, <1>4, AgingRows
<1>7. EndedRevoked'
  BY <1>1, <1>2 DEF IInv, EndedRevoked
<1> QED
  BY <1>3, <1>4, <1>5, <1>6, <1>7 DEF IInv

-----------------------------------------------------------------------------

(* Every step keeps the invariant.                                         *)
LEMMA NextIInv == IInv /\ [Next]_vars => IInv'
PROOF
<1> SUFFICES ASSUME IInv, [Next]_vars PROVE IInv'
  OBVIOUS
<1>1. CASE UNCHANGED vars
  BY <1>1 DEF vars, IInv, TypeOK, Exclusive, Place, Claimed, OpenedJob, Known, Covers, Lineage,
              SingleUse, OneUnspent, EndedRevoked, Created
<1>2. ASSUME NEW t \in Ids, Expire(t) PROVE IInv'
  BY <1>2, ExpireIInv
<1>3. ASSUME NEW f \in Families, NEW t \in Ids, Login(f, t) PROVE IInv'
  BY <1>3, LoginIInv
<1>4. ASSUME NEW r \in Requests, Step(r) PROVE IInv'
  BY <1>4, RequestIInv, IssueIInv, UpdateRowIInv, ClaimIInv, ClaimMissIInv, RefreshCommitIInv,
     LookupIInv, SelectIInv, RevokeCommitIInv, DeleteCommitIInv, RollbackIInv DEF Step
<1> QED
  BY <1>1, <1>2, <1>3, <1>4 DEF Next

(* The invariant holds throughout.                                         *)
LEMMA Inductive == Spec => []IInv
BY InitIInv, NextIInv, PTL DEF Spec

(* Tokens, statements and locks stay well formed.                          *)
THEOREM TypeCorrect == Spec => []TypeOK
PROOF
<1>1. IInv => TypeOK
  BY DEF IInv
<1> QED
  BY <1>1, Inductive, PTL

(* Of concurrent refreshes with one token at most one ever commits.        *)
THEOREM TokensAreSingleUse == Spec => []SingleUse
PROOF
<1>1. IInv => SingleUse
  BY DEF IInv
<1> QED
  BY <1>1, Inductive, PTL

(* A family never has two tokens that could be used.                       *)
THEOREM FamilyHasOneUsable == Spec => []OneUsablePerFamily
PROOF
<1>1. IInv => OneUsablePerFamily
  BY DEF IInv, OneUnspent, Unspent, OneUsablePerFamily, Claimable
<1> QED
  BY <1>1, Inductive, PTL

(* A revocation that no refresh crossed leaves no usable token, ever.      *)
THEOREM RevocationIsFinal == Spec => []RevocationEndsFamily
PROOF
<1>1. IInv => RevocationEndsFamily
  BY DEF IInv, EndedRevoked, RevocationEndsFamily, Claimable
<1> QED
  BY <1>1, Inductive, PTL

-----------------------------------------------------------------------------

(* Request r is a refresh of family f that has claimed its token or can.   *)
RefreshesFamily(r, f) ==
    /\ job[r].op = "refresh" /\ job[r].token \in Created /\ tok[job[r].token].family = f
    /\ pc[r] = "claim" => ClaimableBy(job[r], tok[job[r].token])
    /\ pc[r] # "lookup"

(* A family stays dead when its rows only age and no request begins to     *)
(* refresh it.                                                             *)
LEMMA DeadStep ==
    ASSUME NEW f \in Families, Dead(f),
           \A i \in Created' : tok'[i].family = f =>
                /\ i \in Created /\ tok[i].family = f
                /\ tok[i].used => tok'[i].used
                /\ tok[i].revoked => tok'[i].revoked
                /\ tok[i].expired => tok'[i].expired,
           \A q \in Requests : RefreshesFamily(q, f)' => RefreshesFamily(q, f)
    PROVE  Dead(f)'
PROOF
<1>1. ~Refreshing(f)'
  BY DEF Dead, Refreshing, RefreshesFamily
<1>2. \A i \in Created' : tok'[i].family = f => ~Claimable(tok'[i])
  BY DEF Dead, Claimable
<1> QED
  BY <1>1, <1>2 DEF Dead

(* A request that goes on as before is no refresh of a family it was not   *)
(* refreshing, whatever became of the rows.                                *)
LEMMA OthersRefresh ==
    ASSUME NEW f \in Families, NEW q \in Requests,
           pc'[q] = pc[q], job'[q] = job[q],
           job[q].op = "refresh" /\ job[q].token \in Created' /\ tok'[job[q].token].family = f =>
                /\ job[q].token \in Created /\ tok[job[q].token].family = f
                /\ tok[job[q].token].used => tok'[job[q].token].used
                /\ tok[job[q].token].revoked => tok'[job[q].token].revoked
    PROVE  RefreshesFamily(q, f)' => RefreshesFamily(q, f)
BY DEF RefreshesFamily, ClaimableBy

(* A step that leaves the rows alone revives a family only if its request  *)
(* begins to refresh it.                                                   *)
LEMMA DeadQuiet ==
    ASSUME NEW f \in Families, Dead(f), NEW r \in Requests, tok' = tok,
           \A q \in Requests \ {r} : pc'[q] = pc[q] /\ job'[q] = job[q],
           ~RefreshesFamily(r, f)'
    PROVE  Dead(f)'
PROOF
<1>1. Created' = Created
  BY DEF Created
<1>2. \A q \in Requests : RefreshesFamily(q, f)' => RefreshesFamily(q, f)
  BY <1>1, OthersRefresh
<1> QED
  BY <1>1, <1>2, DeadStep

(* No step revives a dead family.                                          *)
LEMMA NextDead ==
    ASSUME IInv, Next, NEW f \in Families, NEW k \in Created, tok[k].family = f, Dead(f)
    PROVE  Dead(f)'
PROOF
<1>0. TypeOK /\ f \in opened
  BY DEF IInv, Lineage
<1>00. \A q \in Requests : ~RefreshesFamily(q, f)
  BY DEF Dead, Refreshing, RefreshesFamily
<1>1. ASSUME NEW t \in Ids, Expire(t) PROVE Dead(f)'
  <2>1. Created' = Created /\ UNCHANGED <<pc, job>>
    BY <1>0, <1>1 DEF Expire, Created, TypeOK
  <2>2. \A i \in Created : /\ tok'[i].family = tok[i].family
                           /\ tok'[i].used = tok[i].used /\ tok'[i].revoked = tok[i].revoked
                           /\ tok[i].expired => tok'[i].expired
    <3>1. tok \in [Created -> Token] /\ tok[t] \in Token
      BY <1>0, <1>1 DEF TypeOK, Expire
    <3> QED
      BY <1>1, <3>1 DEF Token, Expire
  <2>3. \A q \in Requests : RefreshesFamily(q, f)' => RefreshesFamily(q, f)
    BY <2>1, <2>2, OthersRefresh
  <2> QED
    BY <2>1, <2>2, <2>3, DeadStep
<1>2. ASSUME NEW g \in Families, NEW t \in Ids, Login(g, t) PROVE Dead(f)'
  <2>1. /\ g # f /\ t \notin issued /\ UNCHANGED <<pc, job>>
    BY <1>0, <1>2 DEF Login, Fresh
  <2>2. /\ Created' = Created \cup {t} /\ tok'[t].family = g
        /\ \A i \in Created : tok'[i] = tok[i]
    BY <1>0, <1>2, <2>1 DEF Login, Created, TypeOK, NewToken
  <2>3. \A q \in Requests : RefreshesFamily(q, f)' => RefreshesFamily(q, f)
    BY <2>1, <2>2, OthersRefresh
  <2> QED
    BY <2>1, <2>2, <2>3, DeadStep
<1>3. ASSUME NEW r \in Requests, NEW t \in Ids, NEW op \in {"refresh", "logout"}, Request(r, op, t)
      PROVE  Dead(f)'
  <2>1. /\ tok' = tok /\ t \in Created
        /\ \A q \in Requests \ {r} : pc'[q] = pc[q] /\ job'[q] = job[q]
        /\ pc'[r] = IF op = "refresh" THEN "claim" ELSE "lookup"
        /\ job'[r] = [op |-> op, token |-> t, late |-> tok[t].expired]
    BY <1>0, <1>3 DEF Request, Goto, TypeOK
  <2>2. tok[t].family = f => ~ClaimableBy(job'[r], tok[t])
    BY <2>1 DEF Dead, Claimable, ClaimableBy
  <2>3. ~RefreshesFamily(r, f)'
    BY <2>1, <2>2 DEF RefreshesFamily
  <2> QED
    BY <2>1, <2>3, DeadQuiet
<1>4. ASSUME NEW r \in Requests, NEW t \in Ids, Issue(r, t) PROVE Dead(f)'
  <2>1. /\ tok' = tok /\ Created' = Created /\ UNCHANGED job /\ pc[r] = "issue" /\ Place(r)
        /\ \A q \in Requests \ {r} : pc'[q] = pc[q]
    BY <1>0, <1>4 DEF Issue, Goto, TypeOK, IInv, Created
  <2>2. ~RefreshesFamily(r, f)'
    BY <1>00, <2>1 DEF RefreshesFamily, Place, Claimed
  <2> QED
    BY <2>1, <2>2, DeadQuiet
<1>5. ASSUME NEW r \in Requests, NEW t \in Ids, UpdateRow(r, t) PROVE Dead(f)'
  <2>1. /\ tok' = tok /\ UNCHANGED <<pc, job>> /\ pc[r] = "update" /\ Place(r)
    BY <1>0, <1>5 DEF UpdateRow, IInv
  <2>2. ~RefreshesFamily(r, f)'
    BY <2>1 DEF RefreshesFamily, Place
  <2> QED
    BY <2>1, <2>2, DeadQuiet
<1>6. ASSUME NEW r \in Requests, Claim(r) PROVE Dead(f)'
  <2>1. /\ tok' = tok /\ Created' = Created /\ UNCHANGED job /\ pc[r] = "claim"
        /\ job[r].token \in Created /\ ClaimableBy(job[r], tok[job[r].token])
        /\ \A q \in Requests \ {r} : pc'[q] = pc[q]
    BY <1>0, <1>6 DEF Claim, Goto, TypeOK, Created
  <2>2. ~RefreshesFamily(r, f)'
    BY <1>00, <2>1 DEF RefreshesFamily
  <2> QED
    BY <2>1, <2>2, DeadQuiet
<1>7. ASSUME NEW r \in Requests, ClaimMiss(r) PROVE Dead(f)'
  <2>1. /\ tok' = tok /\ UNCHANGED job /\ pc'[r] = "lookup"
        /\ \A q \in Requests \ {r} : pc'[q] = pc[q]
    BY <1>0, <1>7 DEF ClaimMiss, Goto, TypeOK
  <2>2. ~RefreshesFamily(r, f)'
    BY <2>1 DEF RefreshesFamily
  <2> QED
    BY <2>1, <2>2, DeadQuiet
<1>8. ASSUME NEW r \in Requests, RefreshCommit(r) PROVE Dead(f)'
  <2> DEFINE t == job[r].token
  <2>1. End(r) /\ pc[r] = "commit" /\ Place(r)
    BY <1>8 DEF RefreshCommit, IInv
  <2>2. t \in Created /\ tok[t].family # f
    BY <1>00, <2>1 DEF RefreshesFamily, Place, Claimed
  <2>3. PICK n \in issued \ Created :
                /\ holds[r] = {t, n}
                /\ Created' = Created \cup {n}
                /\ tok'[n] = NewToken(tok[t].family, t)
                /\ tok'[t] = [tok[t] EXCEPT !.used = TRUE]
                /\ \A i \in Created \ {t} : tok'[i] = tok[i]
    BY <1>8, RefreshWrites
  <2>4. tok'[n].family # f /\ tok'[t].family # f
    <3>1. tok[t] \in Token
      BY <1>0, <2>2 DEF TypeOK
    <3> QED
      BY <2>2, <2>3, <3>1 DEF NewToken, Token
  <2>5. ASSUME NEW q \in Requests, RefreshesFamily(q, f)' PROVE RefreshesFamily(q, f)
    <3>1. q # r
      BY <1>0, <2>1, <2>5, EndType DEF RefreshesFamily, Idle
    <3>2. pc'[q] = pc[q] /\ job'[q] = job[q]
      BY <1>0, <2>1, <3>1, EndType
    <3>3. job[q].token \in Created' /\ tok'[job[q].token].family = f
      BY <2>5, <3>2 DEF RefreshesFamily
    <3>4. job[q].token \in Created /\ tok'[job[q].token] = tok[job[q].token]
      BY <2>3, <2>4, <3>3
    <3> QED
      BY <2>5, <3>2, <3>3, <3>4, OthersRefresh
  <2>6. \A i \in Created' : tok'[i].family = f => i \in Created /\ tok'[i] = tok[i]
    BY <2>3, <2>4
  <2> QED
    BY <2>5, <2>6, DeadStep
<1>9. ASSUME NEW r \in Requests, Lookup(r) PROVE Dead(f)'
  <2>1. /\ tok' = tok
        /\ \A q \in Requests \ {r} : pc'[q] = pc[q] /\ job'[q] = job[q]
        /\ job'[r].op # "refresh"
    BY <1>0, <1>9 DEF Lookup, Goto, End, TypeOK, Idle
  <2>2. ~RefreshesFamily(r, f)'
    BY <2>1 DEF RefreshesFamily
  <2> QED
    BY <2>1, <2>2, DeadQuiet
<1>10. ASSUME NEW r \in Requests, RevokeBegin(r) \/ DeleteBegin(r) PROVE Dead(f)'
  <2>1. /\ tok' = tok
        /\ \A q \in Requests \ {r} : pc'[q] = pc[q] /\ job'[q] = job[q]
        /\ job'[r].op # "refresh"
    BY <1>0, <1>10 DEF RevokeBegin, DeleteBegin, Select, Goto, TypeOK, IInv, Place
  <2>2. ~RefreshesFamily(r, f)'
    BY <2>1 DEF RefreshesFamily
  <2> QED
    BY <2>1, <2>2, DeadQuiet
<1>11. ASSUME NEW r \in Requests, RevokeCommit(r) \/ DeleteCommit(r) PROVE Dead(f)'
  <2>1. End(r)
    BY <1>11 DEF RevokeCommit, DeleteCommit
  <2>2. /\ \A q \in Requests \ {r} : pc'[q] = pc[q] /\ job'[q] = job[q]
        /\ job'[r] = Idle
    BY <1>0, <2>1, EndType
  <2>3. \A i \in Created' : /\ i \in Created /\ tok'[i].family = tok[i].family
                            /\ tok[i].used => tok'[i].used
                            /\ tok[i].revoked => tok'[i].revoked
                            /\ tok[i].expired => tok'[i].expired
    <3>1. \A i \in Created : tok[i] \in Token
      BY <1>0 DEF TypeOK
    <3>2. CASE RevokeCommit(r)
      BY <3>1, <3>2 DEF RevokeCommit, Created, Token
    <3>3. CASE DeleteCommit(r)
      BY <3>3 DEF DeleteCommit, Created
    <3> QED
      BY <1>11, <3>2, <3>3
  <2>4. \A q \in Requests : RefreshesFamily(q, f)' => RefreshesFamily(q, f)
    <3>1. ~RefreshesFamily(r, f)'
      BY <2>2 DEF RefreshesFamily, Idle
    <3> QED
      BY <2>2, <2>3, <3>1, OthersRefresh
  <2> QED
    BY <2>3, <2>4, DeadStep
<1>12. ASSUME NEW r \in Requests, Rollback(r) PROVE Dead(f)'
  <2>1. End(r) /\ tok' = tok
    BY <1>12 DEF Rollback
  <2>2. ~RefreshesFamily(r, f)'
    BY <1>0, <2>1, EndType DEF RefreshesFamily, Idle
  <2> QED
    BY <1>0, <2>1, <2>2, EndType, DeadQuiet
<1> QED
  BY <1>1, <1>2, <1>3, <1>4, <1>5, <1>6, <1>7, <1>8, <1>9, <1>10, <1>11, <1>12 DEF Next, Step

(* No order of refreshes, replays, logouts and housekeeping brings a dead  *)
(* family back.                                                            *)
THEOREM DeadFamiliesStayDead == Spec => DeadStaysDead
PROOF
<1>1. IInv /\ [Next]_vars => [KeepsDead]_vars
  BY NextDead DEF KeepsDead
<1> QED
  BY <1>1, Inductive, PTL DEF Spec, DeadStaysDead

=============================================================================
