----------------------------- MODULE RefreshTokens -----------------------------
(***************************************************************************)
(* internal/auth: refresh tokens, their rotation and the revocation of a   *)
(* family, under concurrent requests and the worker's housekeeping.        *)
(*                                                                         *)
(* Refresh is one READ COMMITTED transaction: a conditional UPDATE claims  *)
(* the token, an INSERT issues its successor in the same family; a token   *)
(* that cannot be claimed because it was used has its family revoked.      *)
(* Logout looks the token up and revokes the family in a statement of its  *)
(* own.  An UPDATE or DELETE of several rows picks them from the rows      *)
(* committed when it starts, takes them one at a time, waiting for each,   *)
(* and tests its condition again on what it then finds.                    *)
(***************************************************************************)
EXTENDS Integers, FiniteSets

CONSTANTS
    Families,       \* one per login or registration
    Requests,       \* handlers, and worker sweeps, in progress at once
    MaxTokens       \* bound on tokens ever issued

ASSUME TokensAssumption == MaxTokens \in Nat

Ids == 1 .. MaxTokens

(* A row of refresh_tokens.  parent, the token it was exchanged for, is not *)
(* a column: it is kept to state properties (0 for the first of a family).  *)
Token == [family : Families, parent : 0 .. MaxTokens, used : BOOLEAN,
          revoked : BOOLEAN, expired : BOOLEAN]

VARIABLES
    tok,        \* committed rows, by id
    issued,     \* ids given out so far, whether committed or not
    opened,     \* families opened so far
    pc,         \* pc[r]: the statement request r sends next
    job,        \* job[r]: what it is doing, and with which token or family
    targets,    \* targets[r]: rows its statement selected and has not reached
    holds,      \* holds[r]: rows it has locked, or inserted
    ended,      \* history: families revoked while no refresh of them committed
    crossed     \* history: revocations that a refresh of the family committed in

vars == <<tok, issued, opened, pc, job, targets, holds, ended, crossed>>

Created == DOMAIN tok

Locked(t) == \E r \in Requests : t \in holds[r]

Claimable(x) == ~x.used /\ ~x.revoked /\ ~x.expired

(* The condition of ClaimRefreshToken: its now() is the time at which the   *)
(* transaction began, when the token had expired already (late) or had not. *)
ClaimableBy(j, x) == ~x.used /\ ~x.revoked /\ ~j.late

Idle == [op |-> "none"]
Jobs == {Idle, [op |-> "delete"]}
        \cup [op : {"refresh", "logout"}, token : Ids, late : BOOLEAN]
        \cup [op : {"revoke"}, family : Families]

(* TypeOK: tokens, statements in progress and row locks stay well formed,   *)
(* and every stored token is one that was generated for it.                 *)
TypeOK ==
    /\ Created \subseteq issued
    /\ tok \in [Created -> Token]
    /\ issued \subseteq Ids
    /\ opened \subseteq Families
    /\ pc \in [Requests -> {"idle", "claim", "issue", "commit", "lookup", "revoke", "update"}]
    /\ job \in [Requests -> Jobs]
    /\ targets \in [Requests -> SUBSET Ids]
    /\ holds \in [Requests -> SUBSET issued]
    /\ ended \subseteq opened
    /\ crossed \subseteq Requests

Init ==
    /\ tok = [i \in {} |-> 0]
    /\ issued = {}
    /\ opened = {}
    /\ pc = [r \in Requests |-> "idle"]
    /\ job = [r \in Requests |-> Idle]
    /\ targets = [r \in Requests |-> {}]
    /\ holds = [r \in Requests |-> {}]
    /\ ended = {}
    /\ crossed = {}

End(r) ==
    /\ pc' = [pc EXCEPT ![r] = "idle"]
    /\ job' = [job EXCEPT ![r] = Idle]
    /\ targets' = [targets EXCEPT ![r] = {}]
    /\ holds' = [holds EXCEPT ![r] = {}]

Goto(r, c) == pc' = [pc EXCEPT ![r] = c]

Fresh(t) == t \in Ids \ issued /\ \A i \in issued : i < t

NewToken(f, p) ==
    [family |-> f, parent |-> p, used |-> FALSE, revoked |-> FALSE, expired |-> FALSE]

-----------------------------------------------------------------------------

(* Register and Login: issuePair under a new family, a single INSERT.       *)
Login(f, t) ==
    /\ Fresh(t)
    /\ f \notin opened
    /\ opened' = opened \cup {f}
    /\ issued' = issued \cup {t}
    /\ tok' = [i \in Created \cup {t} |-> IF i = t THEN NewToken(f, 0) ELSE tok[i]]
    /\ UNCHANGED <<pc, job, targets, holds, ended, crossed>>

(* A client presents a token.  One that housekeeping has deleted is turned  *)
(* down at once.                                                            *)
Request(r, op, t) ==
    /\ pc[r] = "idle" /\ t \in Created
    /\ Goto(r, IF op = "refresh" THEN "claim" ELSE "lookup")
    /\ job' = [job EXCEPT ![r] = [op |-> op, token |-> t, late |-> tok[t].expired]]
    /\ UNCHANGED <<tok, issued, opened, targets, holds, ended, crossed>>

(* Mutant: the UPDATE does not ask whether the token was used.              *)
ClaimUsed(r) ==
    LET t == job[r].token IN
    /\ pc[r] = "claim" /\ t \in Created /\ ~Locked(t)
    /\ ~tok[t].revoked /\ ~job[r].late
    /\ holds' = [holds EXCEPT ![r] = {t}]
    /\ Goto(r, "issue")
    /\ UNCHANGED <<tok, issued, opened, job, targets, ended, crossed>>

(* Mutant: the UPDATE has no condition on the token's state.                *)
ClaimAny(r) ==
    LET t == job[r].token IN
    /\ pc[r] = "claim" /\ t \in Created /\ ~Locked(t)
    /\ holds' = [holds EXCEPT ![r] = {t}]
    /\ Goto(r, "issue")
    /\ UNCHANGED <<tok, issued, opened, job, targets, ended, crossed>>

(* ClaimRefreshToken: waits for the row, then takes it if it may.           *)
Claim(r) ==
    LET t == job[r].token IN
    /\ pc[r] = "claim" /\ t \in Created /\ ClaimableBy(job[r], tok[t]) /\ ~Locked(t)
    /\ holds' = [holds EXCEPT ![r] = {t}]
    /\ Goto(r, "issue")
    /\ UNCHANGED <<tok, issued, opened, job, targets, ended, crossed>>

(* No row to claim: on to rejectClaim.                                      *)
ClaimMiss(r) ==
    LET t == job[r].token IN
    /\ pc[r] = "claim"
    /\ t \in Created => ~ClaimableBy(job[r], tok[t])
    /\ Goto(r, "lookup")
    /\ UNCHANGED <<tok, issued, opened, job, targets, holds, ended, crossed>>

(* Mutant: a token is given out that was given out before.                  *)
IssueAgain(r, t) ==
    /\ pc[r] = "issue" /\ Fresh(t)
    /\ holds' = [holds EXCEPT ![r] = @ \cup {t}]
    /\ Goto(r, "commit")
    /\ UNCHANGED <<tok, issued, opened, job, targets, ended, crossed>>

(* issuePair, inside the transaction.                                       *)
Issue(r, t) ==
    /\ pc[r] = "issue" /\ Fresh(t)
    /\ issued' = issued \cup {t}
    /\ holds' = [holds EXCEPT ![r] = @ \cup {t}]
    /\ Goto(r, "commit")
    /\ UNCHANGED <<tok, opened, job, targets, ended, crossed>>

(* History: the revocations of family f that are waiting for rows by now.   *)
Crosses(r, f) ==
    crossed' = crossed \cup {q \in Requests : pc[q] = "update" /\ job[q] = [op |-> "revoke", family |-> f]}

(* Mutant: the old token stays unused.                                      *)
RefreshCommitKeepsOld(r) ==
    LET t == job[r].token IN
    /\ pc[r] = "commit"
    /\ tok' = [i \in Created \cup holds[r] |->
                  IF i \notin Created THEN NewToken(tok[t].family, t) ELSE tok[i]]
    /\ Crosses(r, tok[t].family)
    /\ End(r)
    /\ UNCHANGED <<issued, opened, ended>>

RefreshCommit(r) ==
    LET t == job[r].token IN
    /\ pc[r] = "commit"
    /\ tok' = [i \in Created \cup holds[r] |->
                  IF i \notin Created THEN NewToken(tok[t].family, t)
                  ELSE IF i = t THEN [tok[i] EXCEPT !.used = TRUE] ELSE tok[i]]
    /\ Crosses(r, tok[t].family)
    /\ End(r)
    /\ UNCHANGED <<issued, opened, ended>>

(* GetRefreshTokenByHash: Logout goes on with any token it finds,           *)
(* rejectClaim only with one that was used; otherwise the request is over.  *)
Lookup(r) ==
    LET t == job[r].token
        goesOn == t \in Created /\ (job[r].op = "logout" \/ tok[t].used)
    IN  /\ pc[r] = "lookup"
        /\ IF goesOn
           THEN /\ Goto(r, "revoke")
                /\ job' = [job EXCEPT ![r] = [op |-> "revoke", family |-> tok[t].family]]
                /\ UNCHANGED <<targets, holds>>
           ELSE End(r)
        /\ UNCHANGED <<tok, issued, opened, ended, crossed>>

-----------------------------------------------------------------------------

(* The statement starts: the rows it sees.                                  *)
Select(r, rows) ==
    /\ targets' = [targets EXCEPT ![r] = rows]
    /\ Goto(r, "update")
    /\ UNCHANGED <<tok, issued, opened, holds, ended, crossed>>

(* RevokeRefreshTokenFamily.                                                *)
RevokeBegin(r) ==
    /\ pc[r] = "revoke"
    /\ Select(r, {i \in Created : tok[i].family = job[r].family /\ ~tok[i].revoked})
    /\ UNCHANGED job

(* DeleteExpiredRefreshTokens, by the worker.                               *)
DeleteBegin(r) ==
    /\ pc[r] = "idle"
    /\ job' = [job EXCEPT ![r] = [op |-> "delete"]]
    /\ Select(r, {i \in Created : tok[i].expired})

(* Mutant: rows that are locked are skipped.                                *)
UpdateRowSkips(r, t) ==
    /\ pc[r] = "update" /\ t \in targets[r]
    /\ targets' = [targets EXCEPT ![r] = @ \ {t}]
    /\ holds' = [holds EXCEPT ![r] =
            IF t \in Created /\ ~Locked(t) /\ (job[r].op = "revoke" => ~tok[t].revoked) THEN @ \cup {t} ELSE @]
    /\ UNCHANGED <<tok, issued, opened, pc, job, ended, crossed>>

(* The statement takes a row once it is free and still there.               *)
UpdateRow(r, t) ==
    /\ pc[r] = "update" /\ t \in targets[r] /\ ~Locked(t)
    /\ targets' = [targets EXCEPT ![r] = @ \ {t}]
    /\ holds' = [holds EXCEPT ![r] =
            IF t \in Created /\ (job[r].op = "revoke" => ~tok[t].revoked) THEN @ \cup {t} ELSE @]
    /\ UNCHANGED <<tok, issued, opened, pc, job, ended, crossed>>

RevokeCommit(r) ==
    /\ pc[r] = "update" /\ targets[r] = {} /\ job[r].op = "revoke"
    /\ tok' = [i \in Created |->
                  IF i \in holds[r] THEN [tok[i] EXCEPT !.revoked = TRUE] ELSE tok[i]]
    /\ ended' = IF r \in crossed THEN ended ELSE ended \cup {job[r].family}
    /\ crossed' = crossed \ {r}
    /\ End(r)
    /\ UNCHANGED <<issued, opened>>

DeleteCommit(r) ==
    /\ pc[r] = "update" /\ targets[r] = {} /\ job[r].op = "delete"
    /\ tok' = [i \in Created \ holds[r] |-> tok[i]]
    /\ End(r)
    /\ UNCHANGED <<issued, opened, ended, crossed>>

(* An error, a cancelled request, a crash, or a deadlock Postgres breaks.   *)
Rollback(r) ==
    /\ pc[r] # "idle" /\ End(r)
    /\ crossed' = crossed \ {r}
    /\ UNCHANGED <<tok, issued, opened, ended>>

(* A token reaches its expires_at.                                          *)
Expire(t) ==
    /\ t \in Created /\ ~tok[t].expired
    /\ tok' = [tok EXCEPT ![t].expired = TRUE]
    /\ UNCHANGED <<issued, opened, pc, job, targets, holds, ended, crossed>>

Step(r) ==
    \/ \E t \in Ids : \/ \E op \in {"refresh", "logout"} : Request(r, op, t)
                      \/ Issue(r, t) \/ UpdateRow(r, t)
    \/ Claim(r) \/ ClaimMiss(r) \/ RefreshCommit(r) \/ Lookup(r)
    \/ RevokeBegin(r) \/ RevokeCommit(r) \/ DeleteBegin(r) \/ DeleteCommit(r)
    \/ Rollback(r)

Next == \/ \E t \in Ids : Expire(t) \/ \E f \in Families : Login(f, t)
        \/ \E r \in Requests : Step(r)

Spec == Init /\ [][Next]_vars

-----------------------------------------------------------------------------

(* SingleUse: of concurrent refreshes with one token at most one succeeds   *)
(* (the comment on rejectClaim): no token has two successors.               *)
SingleUse ==
    \A i, j \in Created : i # j /\ tok[i].parent = tok[j].parent => tok[i].parent = 0

(* OneUsablePerFamily: a login never has two tokens that could be used, so  *)
(* a token presented twice always reveals itself.                           *)
OneUsablePerFamily ==
    \A i, j \in Created :
        tok[i].family = tok[j].family /\ Claimable(tok[i]) /\ Claimable(tok[j]) => i = j

(* A refresh of the family has claimed its token, or still can.             *)
Refreshing(f) ==
    \E r \in Requests :
        LET j == job[r] IN
        /\ j.op = "refresh" /\ j.token \in Created /\ tok[j.token].family = f
        /\ pc[r] = "claim" => ClaimableBy(j, tok[j.token])
        /\ pc[r] # "lookup"

Dead(f) == ~Refreshing(f) /\ \A i \in Created : tok[i].family = f => ~Claimable(tok[i])

KeepsDead == \A f \in Families :
    (\E i \in Created : tok[i].family = f) /\ Dead(f) => Dead(f)'

(* DeadStaysDead: once a family has no usable token and no refresh under    *)
(* way, no order of refreshes, replays, logouts and housekeeping revives it. *)
DeadStaysDead == [][KeepsDead]_vars

(* RevocationEndsFamily: after a logout, or a token seen twice, no token of *)
(* the family ever works again ("the entire family is revoked"), whatever   *)
(* it raced with, unless a refresh of the family committed while the        *)
(* revocation was waiting for its rows: then the new token is not among     *)
(* them and survives.                                                       *)
RevocationEndsFamily ==
    \A i \in Created : tok[i].family \in ended => ~Claimable(tok[i])

=============================================================================
