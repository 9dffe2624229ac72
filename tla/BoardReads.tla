------------------------------ MODULE BoardReads ------------------------------
(***************************************************************************)
(* Reading a board: Board.PageAt and Board.Standing, which put a page and  *)
(* a player's neighbourhood together from several Redis commands while     *)
(* scores land on the same sorted set in between.                          *)
(*                                                                         *)
(* One sorted set and one reader.  Players are numbered in the order Redis *)
(* gives members of equal score, ascending.                                *)
(***************************************************************************)
EXTENDS Integers, Sequences, SequencesExt, FiniteSets

CONSTANTS
    MaxPlayers, MaxPoints,  \* bounds on the board
    MaxLimit,               \* bound on the page size asked for
    MaxNeighbours,          \* bound on the neighbours asked for
    MaxWrites               \* bound on writes during one read

ASSUME ReadsAssumption ==
    /\ MaxPlayers \in Nat /\ MaxPoints \in Nat /\ MaxLimit \in Nat \ {0}
    /\ MaxNeighbours \in Nat /\ MaxWrites \in Nat

Players == 1 .. MaxPlayers
NoScore == -1

VARIABLES
    zset,       \* the sorted set
    pc,         \* the command the reader sends next
    read,       \* what the request asks for and has learnt so far
    seen,       \* history: the sorted set when ZREVRANGE read it
    writes,     \* writes since the read began
    lost        \* history: the key vanished during the read

vars == <<zset, pc, read, seen, writes, lost>>

Members(z) == {u \in Players : z[u] # NoScore}

(* ZCOUNT key (score +inf                                                   *)
CountAbove(z, n) == Cardinality({u \in Members(z) : z[u] > n})

(* Highest score first, ties by member, descending.                         *)
Before(z, u, v) == z[u] > z[v] \/ (z[u] = z[v] /\ u > v)

Descending(z) == CHOOSE order \in SetToSeqs(Members(z)) :
    \A i, j \in DOMAIN order : i < j => Before(z, order[i], order[j])

(* ZREVRANGE offset offset+limit-1, with scores: a range that runs past the *)
(* end is cut off, one that begins past it is empty.                        *)
RevRange(z, offset, limit) ==
    LET order == Descending(z)
        last == IF offset + limit < Len(order) THEN offset + limit ELSE Len(order)
    IN  [i \in 1 .. last - offset |->
            [user |-> order[offset + i], points |-> z[order[offset + i]]]]

(* Mutant: ranks are positions.                                             *)
RanksByPosition(rows, offset, above) ==
    [i \in 1 .. Len(rows) |-> [rank |-> offset + i, user |-> rows[i].user, points |-> rows[i].points]]

(* Mutant: a new score takes the next rank, whatever the tie before it.     *)
RanksDense(rows, offset, above) ==
    LET rank[i \in 1 .. Len(rows)] ==
            IF i = 1 THEN above + 1
            ELSE IF rows[i].points # rows[i - 1].points THEN rank[i - 1] + 1 ELSE rank[i - 1]
    IN  [i \in 1 .. Len(rows) |-> [rank |-> rank[i], user |-> rows[i].user, points |-> rows[i].points]]

(* The ranks of a page: ZCOUNT for the first row, then each new score takes *)
(* its position, and a tie the rank before it.                              *)
Ranks(rows, offset, above) ==
    LET rank[i \in 1 .. Len(rows)] ==
            IF i = 1 THEN above + 1
            ELSE IF rows[i].points # rows[i - 1].points THEN offset + i ELSE rank[i - 1]
    IN  [i \in 1 .. Len(rows) |-> [rank |-> rank[i], user |-> rows[i].user, points |-> rows[i].points]]

(* A player who moves up while the page is read may be counted above their  *)
(* own row.                                                                 *)
Entry == [rank : 1 .. MaxPlayers + 1, user : Players, points : 0 .. MaxPoints]

NoRead == [kind |-> "none", user |-> 0, around |-> 0, offset |-> 0, limit |-> 0,
           total |-> 0, points |-> 0, rank |-> 0, rows |-> <<>>, entries |-> <<>>]

(* TypeOK: what a request has read is well formed, and ranks start at one.  *)
TypeOK ==
    /\ zset \in [Players -> 0 .. MaxPoints \cup {NoScore}]
    /\ pc \in {"idle", "zscore", "standing", "zrevrank", "zcard", "zrevrange", "zcount", "size", "done"}
    /\ read.kind \in {"none", "page", "standing"}
    /\ read.entries \in Seq(Entry)
    /\ read.total \in 0 .. MaxPlayers /\ read.offset \in Nat /\ read.limit \in Nat
    /\ seen \in [Players -> 0 .. MaxPoints \cup {NoScore}]
    /\ writes \in 0 .. MaxWrites
    /\ lost \in BOOLEAN

Init ==
    /\ zset \in [Players -> 0 .. MaxPoints \cup {NoScore}]
    /\ pc = "idle"
    /\ read = NoRead
    /\ seen = zset
    /\ writes = 0
    /\ lost = FALSE

-----------------------------------------------------------------------------

(* Page.  The handler turns down an offset or a limit out of range, so the  *)
(* defaults PageAt falls back on are never needed.                          *)
PageBegin(offset, limit) ==
    /\ pc = "idle"
    /\ pc' = "zcard"
    /\ read' = [NoRead EXCEPT !.kind = "page", !.offset = offset, !.limit = limit]
    /\ UNCHANGED <<zset, seen, writes, lost>>

StandingBegin(u, n) ==
    /\ pc = "idle"
    /\ pc' = "zscore"
    /\ read' = [NoRead EXCEPT !.kind = "standing", !.user = u, !.around = n]
    /\ UNCHANGED <<zset, seen, writes, lost>>

(* A player who is not on the board is unranked, which ends the request.    *)
ReadScore ==
    /\ pc = "zscore"
    /\ IF zset[read.user] = NoScore
       THEN pc' = "done" /\ UNCHANGED read
       ELSE pc' = "standing" /\ read' = [read EXCEPT !.points = zset[read.user]]
    /\ UNCHANGED <<zset, seen, writes, lost>>

ReadStanding ==
    /\ pc = "standing"
    /\ read' = [read EXCEPT !.rank = CountAbove(zset, read.points) + 1]
    /\ pc' = IF read.around = 0 THEN "size" ELSE "zrevrank"
    /\ UNCHANGED <<zset, seen, writes, lost>>

(* Mutant: the shared rank is taken for the position.                       *)
ReadPositionByRank ==
    /\ pc = "zrevrank"
    /\ pc' = "zcard"
    /\ read' = [read EXCEPT !.offset = IF read.rank > read.around + 1 THEN read.rank - 1 - read.around ELSE 0,
                            !.limit = 2 * read.around + 1]
    /\ UNCHANGED <<zset, seen, writes, lost>>

(* The neighbourhood is the page that starts a few places before the        *)
(* player's own; a player who has vanished meanwhile is an error.           *)
ReadPosition ==
    /\ pc = "zrevrank"
    /\ IF zset[read.user] = NoScore
       THEN pc' = "done" /\ read' = [read EXCEPT !.rank = 0]
       ELSE LET order == Descending(zset)
                index == (CHOOSE i \in DOMAIN order : order[i] = read.user) - 1
            IN  /\ pc' = "zcard"
                /\ read' = [read EXCEPT !.offset = IF index > read.around THEN index - read.around ELSE 0,
                                        !.limit = 2 * read.around + 1]
    /\ UNCHANGED <<zset, seen, writes, lost>>

ReadTotal ==
    /\ pc = "zcard"
    /\ read' = [read EXCEPT !.total = Cardinality(Members(zset))]
    /\ pc' = "zrevrange"
    /\ UNCHANGED <<zset, seen, writes, lost>>

ReadRows ==
    /\ pc = "zrevrange"
    /\ read' = [read EXCEPT !.rows = RevRange(zset, read.offset, read.limit)]
    /\ pc' = IF read'.rows # <<>> THEN "zcount" ELSE IF read.kind = "page" THEN "done" ELSE "size"
    /\ seen' = zset
    /\ UNCHANGED <<zset, writes, lost>>

ReadAbove ==
    /\ pc = "zcount"
    /\ read' = [read EXCEPT !.entries = Ranks(read.rows, read.offset,
                                              CountAbove(zset, read.rows[1].points))]
    /\ pc' = IF read.kind = "page" THEN "done" ELSE "size"
    /\ UNCHANGED <<zset, seen, writes, lost>>

(* The handler of a standing asks for the board's size last.                *)
ReadSize ==
    /\ pc = "size"
    /\ read' = [read EXCEPT !.total = Cardinality(Members(zset))]
    /\ pc' = "done"
    /\ UNCHANGED <<zset, seen, writes, lost>>

(* A better score of some player lands.                                     *)
Improve(u, n) ==
    /\ pc \notin {"idle", "done"} /\ writes < MaxWrites
    /\ n > zset[u]
    /\ zset' = [zset EXCEPT ![u] = n]
    /\ writes' = writes + 1
    /\ UNCHANGED <<pc, read, seen, lost>>

(* The key expires, or Redis is flushed.                                    *)
Lose ==
    /\ pc \notin {"idle", "done"} /\ writes < MaxWrites
    /\ zset' = [u \in Players |-> NoScore]
    /\ writes' = writes + 1
    /\ lost' = TRUE
    /\ UNCHANGED <<pc, read, seen>>

Read == \/ \E offset \in 0 .. MaxPlayers, limit \in 1 .. MaxLimit : PageBegin(offset, limit)
        \/ \E u \in Players, n \in 0 .. MaxNeighbours : StandingBegin(u, n)
        \/ ReadScore \/ ReadStanding \/ ReadPosition \/ ReadTotal \/ ReadRows \/ ReadAbove \/ ReadSize

Next == Read \/ Lose \/ \E u \in Players, n \in 0 .. MaxPoints : Improve(u, n)

Spec == Init /\ [][Next]_vars

-----------------------------------------------------------------------------

(* The competition rank, by its definition.                                 *)
Rank(z, u) == 1 + Cardinality({v \in Members(z) : z[v] > z[u]})

(* How many members come before u in Redis's order.                         *)
Position(z, u) ==
    Cardinality({v \in Members(z) : Before(z, v, u)})

(* PageIsExact: a page read while nothing is written shows exactly the      *)
(* players at its positions, each with their competition rank, also when    *)
(* it opens or ends in the middle of a tie, and the board's size.           *)
PageIsExact ==
    pc = "done" /\ read.limit > 0 /\ writes = 0 =>
        /\ read.total = Cardinality(Members(zset))
        /\ {e.user : e \in ToSet(read.entries)} =
             {u \in Members(zset) : Position(zset, u) \in read.offset .. read.offset + read.limit - 1}
        /\ \A e \in ToSet(read.entries) : e.points = zset[e.user] /\ e.rank = Rank(zset, e.user)

(* NeighboursIncludeMe: a player's neighbourhood, read while nothing is     *)
(* written, holds the player's own row, with the same rank and points, and  *)
(* as many on either side as there are.                                     *)
NeighboursIncludeMe ==
    pc = "done" /\ read.kind = "standing" /\ read.limit > 0 /\ writes = 0 =>
        /\ [rank |-> read.rank, user |-> read.user, points |-> read.points] \in ToSet(read.entries)
        /\ \A v \in Members(zset) :
            LET d == Position(zset, v) - Position(zset, read.user)
            IN  d \in -read.around .. read.around => \E e \in ToSet(read.entries) : e.user = v

(* NeverRankedTooHigh: what is read stays well formed, and whatever scores  *)
(* land during the read, no row of the page is given a better rank than it  *)
(* had when the rows were read, and only rows tied with the first can be    *)
(* given a worse one (PageAt asks for the first row's rank after it has     *)
(* read the rows).                                                          *)
NeverRankedTooHigh ==
    /\ TypeOK
    /\ pc = "done" /\ ~lost => \A e \in ToSet(read.entries) :
        /\ e.rank >= Rank(seen, e.user)
        /\ e.points # read.entries[1].points => e.rank = Rank(seen, e.user)

=============================================================================
