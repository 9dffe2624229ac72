--------------------------- MODULE ProjectionProofs ---------------------------
(***************************************************************************)
(* What Projection promises, for every set of users, periods, windows,     *)
(* TTLs, workers and bounds.  The inductive invariant is IInv: the three   *)
(* safety invariants together with where a score must stand before         *)
(* projected_at may be set (Promised), and with the reason a live window   *)
(* has lost no key yet (NoEarlyExpiry), which needs that no score is       *)
(* stamped after the present (StampedInPast).  Base is the part of IInv    *)
(* that does not say what the entries are: a rebuild preserves it too.     *)
(*                                                                         *)
(* The last part shows that Projection implements Standings.  The all-time *)
(* window never expires, so that the only steps a reader of its boards can *)
(* see are a script that improves an entry (Appear) and a flush (Vanish);  *)
(* that the total then equals the sum of the entries is GlobalIsSumOfBests. *)
(***************************************************************************)
EXTENDS Delivery, FiniteSetsExt, WellFoundedInduction, TLAPS

StampedInPast == \A i \in Recorded : scores[i].at =< now

Promised ==
    /\ projected \subseteq ran \cup wiped
    /\ \A i \in Ids : inline[i] # "idle" => i \in Recorded
    /\ \A i \in Ids : inline[i] = "mark" => i \in ran \cup wiped
    /\ \A k \in Workers, i \in Ids :
        wpc[k] = "mark" /\ Reached(k, i) => i \in ran \cup wiped

NoEarlyExpiry ==
    \A s \in Scopes, p \in Periods, w \in Time :
        expiry[s][p][w] # NoExpiry => Ttl[p] > 0 /\ expiry[s][p][w] >= w + Ttl[p]

Base == /\ TypeOK
        /\ StampedInPast
        /\ Promised
        /\ NoEarlyExpiry

IInv == /\ TypeOK
        /\ StampedInPast
        /\ Promised
        /\ NoEarlyExpiry
        /\ BoardHoldsTheBest
        /\ GlobalIsSumOfBests

-----------------------------------------------------------------------------

(* A non-empty set of natural numbers has a least element.                 *)
LEMMA LeastElement ==
    ASSUME NEW T \in SUBSET Nat, T # {}
    PROVE  \E x \in T : \A y \in T : x =< y
PROOF
<1>1. PICK x \in T : \A y \in T : ~ (<<y, x>> \in OpToRel(<, Nat))
  BY NatLessThanWellFounded, WFMin, Zenon
<1>2. ASSUME NEW y \in T PROVE x =< y
  <2>1. x \in Nat /\ y \in Nat
    OBVIOUS
  <2>2. y < x => <<y, x>> \in OpToRel(<, Nat)
    BY <2>1 DEF OpToRel
  <2> QED
    <3>1. ~(y < x)
      BY <1>1, <2>2, Zenon
    <3> QED
      BY <2>1, <3>1
<1> QED
  BY <1>2

(* A non-empty bounded set of them has a greatest, which max() returns.    *)
LEMMA MaxOfBounded ==
    ASSUME NEW S, S # {}, NEW n \in Nat, S \subseteq 0 .. n
    PROVE  Max(S) \in S /\ \A y \in S : y =< Max(S)
PROOF
<1> DEFINE T == {n - x : x \in S}
<1>1. T \in SUBSET Nat /\ T # {}
  <2>1. \A x \in S : n - x \in Nat
    OBVIOUS
  <2>2. \A y \in T : y \in Nat
    BY <2>1, Zenon
  <2>3. PICK x : x \in S
    OBVIOUS
  <2>4. n - x \in T
    BY <2>3, Zenon
  <2> QED
    BY <2>2, <2>4, Zenon
<1>2. PICK t \in T : \A y \in T : t =< y
  BY <1>1, LeastElement
<1>3. PICK x \in S : t = n - x
  BY <1>2
<1>4. \A y \in S : x >= y
  BY <1>2, <1>3
<1> QED
  BY <1>4 DEF Max

(* The sum over the games is a number, and as large as its terms.          *)
LEMMA SumOverGamesNat ==
    ASSUME NEW f, \A g \in Games : f[g] \in Nat
    PROVE  SumOverGames(f) \in Nat /\ \A g \in Games : f[g] =< SumOverGames(f)
BY DEF SumOverGames, Games

(* More points in each game are no fewer in the total.                     *)
LEMMA SumOverGamesMonotone ==
    ASSUME NEW f, NEW h, \A g \in Games : f[g] \in Nat /\ h[g] \in Nat /\ f[g] =< h[g]
    PROVE  SumOverGames(f) =< SumOverGames(h)
BY DEF SumOverGames, Games

-----------------------------------------------------------------------------

(* The script maps sorted sets to sorted sets, whatever it finds.          *)
LEMMA SubmitType ==
    ASSUME NEW bd \in BoardType, NEW e \in Event
    PROVE  Submit(bd, e) \in BoardType
PROOF
<1>1. ASSUME NEW s \in Scopes, NEW p \in Periods, NEW w \in Time,
             e.game \in Games, Touches(e, s, p, w), Improves(bd, e, p)
      PROVE  NewEntry(bd, e, s, p, w) \in Nat
  <2>1. e.points \in Nat /\ e.user \in Users /\ e.at \in Time
    BY TimeAssumption DEF Event, Points
  <2>2. /\ bd[s][p][w][e.user] \in Nat \cup {NoScore}
        /\ Previous(bd, e, p) \in Nat \cup {NoScore}
    BY <1>1, <2>1, WindowAssumption DEF BoardType, Previous, Scopes
  <2> QED
    BY <1>1, <2>1, <2>2 DEF NewEntry, Improves, Value, NoScore
<1>2. e.game \in Games
  BY DEF Event
<1> QED
  BY <1>1, <1>2 DEF Submit, BoardType

(* A running script keeps the type of Redis's state.                       *)
LEMMA RunScriptType ==
    ASSUME TypeOK, NEW i \in Recorded, RunScript(i)
    PROVE  /\ board' \in BoardType
           /\ expiry' \in ExpiryType
           /\ ran' \subseteq Recorded
PROOF
<1>1. scores[i] \in Event
  BY DEF TypeOK
<1>2. board' \in BoardType
  BY <1>1, SubmitType DEF RunScript, TypeOK
<1>3. expiry' \in ExpiryType
  BY PeriodsAssumption, TimeAssumption
  DEF RunScript, SubmitExpiry, ExpiryType, TypeOK, Time
<1> QED
  BY <1>2, <1>3 DEF RunScript, TypeOK

(* A key's expiry is set no earlier than its window starts.                *)
LEMMA RunScriptExpiry ==
    ASSUME TypeOK, StampedInPast, NoEarlyExpiry, NEW i \in Recorded, RunScript(i)
    PROVE  NoEarlyExpiry'
PROOF
<1> SUFFICES ASSUME NEW s \in Scopes, NEW p \in Periods, NEW w \in Time,
                    expiry'[s][p][w] # NoExpiry
             PROVE  Ttl[p] > 0 /\ expiry'[s][p][w] >= w + Ttl[p]
  BY DEF NoEarlyExpiry
<1>1. CASE expiry'[s][p][w] = expiry[s][p][w]
  BY <1>1 DEF NoEarlyExpiry
<1>2. CASE expiry'[s][p][w] # expiry[s][p][w]
  <2>1. /\ Touches(scores[i], s, p, w)
        /\ Ttl[p] > 0
        /\ expiry'[s][p][w] = now + Ttl[p]
    BY <1>2 DEF RunScript, SubmitExpiry
  <2>2. w =< now
    <3>1. scores[i].at \in Time /\ scores[i].at =< now
      BY DEF TypeOK, Event, StampedInPast
    <3>2. w =< scores[i].at
      BY <2>1, <3>1, WindowAssumption DEF Touches
    <3> QED
      BY <3>1, <3>2 DEF TypeOK, Time
  <2> QED
    BY <2>1, <2>2, PeriodsAssumption DEF TypeOK, Time
<1> QED
  BY <1>1, <1>2

(* Running a script, for the first time or again, keeps each game's entry  *)
(* the best of what ran.                                                   *)
LEMMA RunScriptBest ==
    ASSUME TypeOK, BoardHoldsTheBest, NEW i \in Recorded, RunScript(i),
           UNCHANGED <<now, scores>>
    PROVE  BoardHoldsTheBest'
PROOF
<1> SUFFICES ASSUME NEW g \in Games, NEW p \in Periods, NEW w \in Time, NEW u \in Users,
                    LiveAt(p, w, now)
             PROVE  /\ \A j \in ran' : Counts(j, g, p, w, u) =>
                            scores[j].points =< board'[g][p][w][u]
                    /\ board'[g][p][w][u] # NoScore =>
                            \E j \in ran' : /\ Counts(j, g, p, w, u)
                                            /\ scores[j].points = board'[g][p][w][u]
  BY DEF BoardHoldsTheBest, Counts
<1> DEFINE e == scores[i]
<1>1. e \in Event /\ e.points \in Nat /\ g # Global /\ g \in Scopes
  BY TimeAssumption DEF TypeOK, Event, Points, Games, Global, Scopes
<1>2. board[g][p][w][u] \in Nat \cup {NoScore}
  BY <1>1 DEF TypeOK, BoardType
<1>3. /\ \A j \in ran : Counts(j, g, p, w, u) => scores[j].points =< board[g][p][w][u]
      /\ board[g][p][w][u] # NoScore =>
            \E j \in ran : Counts(j, g, p, w, u) /\ scores[j].points = board[g][p][w][u]
  BY DEF BoardHoldsTheBest
<1>4. \A j \in ran : scores[j].points \in Nat
  BY TimeAssumption DEF TypeOK, Event, Points
<1>5. ran' = ran \cup {i}
  BY DEF RunScript
<1>6. board'[g][p][w][u] =
        IF u = e.user /\ Touches(e, g, p, w) /\ Improves(board, e, p)
        THEN NewEntry(board, e, g, p, w)
        ELSE board[g][p][w][u]
  BY <1>1 DEF RunScript, Submit
<1>7. Counts(i, g, p, w, u) <=> u = e.user /\ g = e.game /\ Touches(e, g, p, w)
  BY <1>1 DEF Counts, Touches
<1>8. CASE Counts(i, g, p, w, u)
  <2>1. Previous(board, e, p) = board[g][p][w][u]
    BY <1>8 DEF Counts, Previous
  <2>2. board'[g][p][w][u] = IF \/ board[g][p][w][u] = NoScore
                                \/ e.points > board[g][p][w][u]
                             THEN e.points ELSE board[g][p][w][u]
    BY <1>6, <1>7, <1>8, <2>1 DEF Improves, NewEntry
  <2> QED
    BY <1>1, <1>2, <1>3, <1>4, <1>5, <1>8, <2>2 DEF NoScore
<1>9. CASE ~Counts(i, g, p, w, u)
  <2>1. board'[g][p][w][u] = board[g][p][w][u]
    BY <1>1, <1>6, <1>7, <1>9 DEF Touches
  <2> QED
    BY <1>3, <1>5, <1>9, <2>1
<1> QED
  BY <1>8, <1>9

(* Running a script moves the total by what it moves the game's entry.     *)
LEMMA RunScriptSum ==
    ASSUME TypeOK, GlobalIsSumOfBests, NEW i \in Recorded, RunScript(i),
           UNCHANGED <<now, scores>>
    PROVE  GlobalIsSumOfBests'
PROOF
<1> SUFFICES ASSUME NEW p \in Periods, NEW w \in Time, NEW u \in Users,
                    LiveAt(p, w, now)
             PROVE  Value(board'[Global][p][w][u]) = SumOfBests(board', p, w, u)
  BY DEF GlobalIsSumOfBests
<1> DEFINE e == scores[i]
           moved == u = e.user /\ w = WindowStart[p][e.at] /\ Improves(board, e, p)
<1>1. e \in Event /\ e.points \in Nat /\ e.game \in Games /\ Global \notin Games
  BY TimeAssumption DEF TypeOK, Event, Points, Games, Global
<1>2. \A s \in Scopes : board[s][p][w][u] \in Nat \cup {NoScore}
  BY DEF TypeOK, BoardType
<1>3. Value(board[Global][p][w][u]) = SumOfBests(board, p, w, u)
  BY DEF GlobalIsSumOfBests
<1>4. \A s \in Scopes : board'[s][p][w][u] =
        IF moved /\ s \in {e.game, Global} THEN NewEntry(board, e, s, p, w)
                                           ELSE board[s][p][w][u]
  BY DEF RunScript, Submit, Touches
<1>5. CASE ~moved
  <2>1. \A s \in Scopes : board'[s][p][w][u] = board[s][p][w][u]
    BY <1>4, <1>5
  <2> QED
    BY <1>3, <2>1 DEF SumOfBests, SumOverGames, Scopes, Games, Global
<1>6. CASE moved
  <2>1. /\ board'[e.game][p][w][u] = e.points
        /\ board'[Global][p][w][u] =
             Value(board[Global][p][w][u]) + (e.points - Value(board[e.game][p][w][u]))
        /\ \A s \in Games \ {e.game} : board'[s][p][w][u] = board[s][p][w][u]
    BY <1>1, <1>4, <1>6 DEF NewEntry, Previous, Scopes
  <2>2. board[e.game][p][w][u] = NoScore \/ e.points > board[e.game][p][w][u]
    BY <1>6 DEF Improves, Previous
  <2>3. \A s \in Scopes : Value(board[s][p][w][u]) \in Int
    BY <1>2 DEF Value
  <2>4. /\ Value(board'[e.game][p][w][u]) = e.points
        /\ Value(board'[Global][p][w][u]) =
             Value(board[Global][p][w][u]) + (e.points - Value(board[e.game][p][w][u]))
        /\ \A s \in Games \ {e.game} :
             Value(board'[s][p][w][u]) = Value(board[s][p][w][u])
    <3>1. board[Global][p][w][u] \in Nat \cup {NoScore} /\ board[e.game][p][w][u] \in Nat \cup {NoScore}
      BY <1>1, <1>2 DEF Scopes
    <3>2. board'[Global][p][w][u] \in Nat
      BY <1>1, <2>1, <2>2, <3>1 DEF Value, NoScore
    <3>3. Value(board'[Global][p][w][u]) = board'[Global][p][w][u]
      BY <3>2 DEF Value, NoScore
    <3>4. Value(board'[e.game][p][w][u]) = e.points
      BY <1>1, <2>1 DEF Value, NoScore
    <3> QED
      BY <2>1, <3>3, <3>4
  <2>5. "reaction" \in Scopes /\ "number-guess" \in Scopes /\ "memory" \in Scopes
        /\ "math-sprint" \in Scopes /\ "word-scramble" \in Scopes /\ Global \in Scopes
    BY DEF Scopes, Games
  <2>6. CASE e.game = "reaction"
    BY <1>1, <1>3, <2>3, <2>4, <2>5, <2>6 DEF SumOfBests, SumOverGames, Games
  <2>7. CASE e.game = "number-guess"
    BY <1>1, <1>3, <2>3, <2>4, <2>5, <2>7 DEF SumOfBests, SumOverGames, Games
  <2>8. CASE e.game = "memory"
    BY <1>1, <1>3, <2>3, <2>4, <2>5, <2>8 DEF SumOfBests, SumOverGames, Games
  <2>9. CASE e.game = "math-sprint"
    BY <1>1, <1>3, <2>3, <2>4, <2>5, <2>9 DEF SumOfBests, SumOverGames, Games
  <2>10. CASE e.game = "word-scramble"
    BY <1>1, <1>3, <2>3, <2>4, <2>5, <2>10 DEF SumOfBests, SumOverGames, Games
  <2> QED
    BY <1>1, <2>6, <2>7, <2>8, <2>9, <2>10 DEF Games
<1> QED
  BY <1>5, <1>6

-----------------------------------------------------------------------------

(* Time passing takes no key of a window that is still live.               *)
LEMMA TickKeepsLive ==
    ASSUME TypeOK, NoEarlyExpiry, Tick,
           NEW p \in Periods, NEW w \in Time, LiveAt(p, w, now')
    PROVE  /\ LiveAt(p, w, now)
           /\ \A s \in Scopes : board'[s][p][w] = board[s][p][w]
PROOF
<1>1. now \in Int /\ now' = now + 1 /\ w \in Int /\ Ttl[p] \in Nat
  BY PeriodsAssumption DEF Tick, TypeOK, Time
<1>2. LiveAt(p, w, now)
  BY <1>1 DEF LiveAt
<1>3. ASSUME NEW s \in Scopes PROVE board'[s][p][w] = board[s][p][w]
  <2>1. expiry[s][p][w] \in Int
    BY DEF TypeOK, ExpiryType
  <2>2. ~Expired(expiry, s, p, w, now')
    BY <1>1, <2>1 DEF Expired, LiveAt, NoEarlyExpiry
  <2>3. board'[s][p][w] = [u \in Users |-> board[s][p][w][u]]
    BY <2>2 DEF Tick, ExpireBoards
  <2> QED
    BY <2>3 DEF TypeOK, BoardType
<1> QED
  BY <1>2, <1>3

(* Init satisfies the invariant.                                           *)
LEMMA InitIInv == Init => IInv
PROOF
<1> SUFFICES ASSUME Init PROVE IInv
  OBVIOUS
<1> USE TimeAssumption DEF Init, Recorded
<1>1. TypeOK
  BY ProjectionAssumption
  DEF TypeOK, Time, NoBoards, BoardType, NoExpiries, ExpiryType, NoScore, NoExpiry
<1>2. StampedInPast /\ Promised
  BY DEF StampedInPast, Promised
<1>3. NoEarlyExpiry
  BY DEF NoEarlyExpiry, NoExpiries
<1>4. \A s \in Scopes, p \in Periods, w \in Time, u \in Users : board[s][p][w][u] = NoScore
  BY DEF NoBoards
<1>5. BoardHoldsTheBest
  BY <1>4 DEF BoardHoldsTheBest, Scopes
<1>6. GlobalIsSumOfBests
  BY <1>4 DEF GlobalIsSumOfBests, SumOfBests, SumOverGames, Value, Scopes, Games
<1> QED
  BY <1>1, <1>2, <1>3, <1>5, <1>6 DEF IInv

(* The script of a row that is recorded, run by a step that leaves the     *)
(* clock and the rows alone.                                               *)
LEMMA RunScriptBase ==
    ASSUME Base, NEW i \in Recorded, RunScript(i), UNCHANGED <<now, scores>>
    PROVE  StampedInPast' /\ NoEarlyExpiry'
BY RunScriptExpiry DEF Base, StampedInPast, Recorded

(* A step that touches neither Redis nor the rows.                         *)
LEMMA RedisUnchanged ==
    ASSUME Base, UNCHANGED <<now, scores, board, expiry, ran>>
    PROVE  StampedInPast' /\ NoEarlyExpiry'
BY DEF Base, StampedInPast, Recorded, NoEarlyExpiry

(* Every step preserves Base.                                              *)
LEMMA NextBase == Base /\ [Next]_vars => Base'
PROOF
<1> SUFFICES ASSUME Base, [Next]_vars PROVE Base'
  OBVIOUS
<1>0. TypeOK /\ StampedInPast /\ Promised /\ NoEarlyExpiry
  BY DEF Base
<1>1. ASSUME Record PROVE Base'
  <2>1. PICK i \in Ids, r \in Plays, t \in Time :
          RecordScore(i, [user |-> r.user, game |-> r.game, points |-> r.points, at |-> t])
    BY <1>1 DEF Record
  <2> DEFINE e == [user |-> r.user, game |-> r.game, points |-> r.points, at |-> t]
  <2>2. e \in Event
    BY ProjectionAssumption DEF Event
  <2> HIDE DEF e
  <2>3. /\ i \notin Recorded
        /\ e.at =< now
        /\ scores' = [j \in Recorded \cup {i} |-> IF j = i THEN e ELSE scores[j]]
        /\ inline' = [inline EXCEPT ![i] = "submit"]
        /\ UNCHANGED <<now, projected, wpc, batch, stray, board, expiry, flushes, ran, wiped>>
    BY <2>1 DEF RecordScore, e
  <2>4. Recorded' = Recorded \cup {i} /\ \A j \in Recorded : scores'[j] = scores[j]
    BY <2>3 DEF Recorded
  <2>5. TypeOK'
    BY <1>0, <2>2, <2>3, <2>4 DEF TypeOK, Recorded
  <2>6. StampedInPast'
    BY <1>0, <2>3, <2>4 DEF StampedInPast
  <2>7. Promised'
    BY <1>0, <2>3, <2>4 DEF Promised, TypeOK, Reached
  <2>8. NoEarlyExpiry'
    BY <1>0, <2>3 DEF NoEarlyExpiry
  <2> QED
    BY <2>5, <2>6, <2>7, <2>8 DEF Base
<1>2. ASSUME NEW i \in Ids, InlineSubmit(i) PROVE Base'
  <2>1. i \in Recorded
    BY <1>0, <1>2 DEF InlineSubmit, Promised
  <2>2. TypeOK'
    BY <1>0, <1>2, <2>1, RunScriptType DEF InlineSubmit, TypeOK, Recorded
  <2>3. Promised'
    BY <1>0, <1>2, <2>1 DEF InlineSubmit, RunScript, Promised, TypeOK, Reached, Recorded
  <2> QED
    BY <1>2, <2>1, <2>2, <2>3, RunScriptBase DEF InlineSubmit, Base
<1>3. ASSUME NEW i \in Ids, InlineSubmitFails(i) \/ InlineMark(i) \/ InlineMarkFails(i)
      PROVE Base'
  <2> USE DEF InlineSubmitFails, InlineMark, InlineMarkFails
  <2>1. i \in Recorded
    BY <1>0, <1>3 DEF Promised
  <2>2. TypeOK'
    BY <1>0, <1>3, <2>1 DEF TypeOK, Recorded
  <2>3. Promised'
    BY <1>0, <1>3, <2>1 DEF Promised, TypeOK, Reached, Recorded
  <2> QED
    BY <1>3, <2>2, <2>3, RedisUnchanged DEF Base
<1>4. ASSUME NEW k \in Workers, NEW i \in Ids, SweepSubmit(k, i) PROVE Base'
  <2>1. i \in Recorded
    BY <1>0, <1>4 DEF SweepSubmit, Reached, TypeOK
  <2>2. TypeOK'
    BY <1>0, <1>4, <2>1, RunScriptType DEF SweepSubmit, TypeOK, Recorded
  <2>3. Promised'
    <3>1. ASSUME NEW l \in Workers, NEW j \in Ids, wpc'[l] = "mark", Reached(l, j)'
          PROVE  j \in ran' \cup wiped'
      <4>1. CASE l = k
        <5>1. j = i
          BY <1>4, <3>1, <4>1 DEF SweepSubmit, Reached, Ids
        <5> QED
          BY <1>4, <5>1 DEF SweepSubmit, RunScript
      <4>2. CASE l # k
        BY <1>0, <1>4, <3>1, <4>2 DEF SweepSubmit, RunScript, Reached, Promised, TypeOK
      <4> QED
        BY <4>1, <4>2
    <3> QED
      BY <1>0, <1>4, <3>1 DEF SweepSubmit, RunScript, Promised, Recorded
  <2> QED
    BY <1>4, <2>1, <2>2, <2>3, RunScriptBase DEF SweepSubmit, Base
<1>5. ASSUME NEW k \in Workers, SweepList(k) PROVE Base'
  <2>1. Unprojected \subseteq Recorded
    BY DEF Unprojected, Pending
  <2>2. TypeOK'
    BY <1>0, <1>5, <2>1 DEF SweepList, TypeOK, Recorded
  <2>3. Promised'
    BY <1>0, <1>5 DEF SweepList, Promised, TypeOK, Reached, Recorded
  <2> QED
    BY <1>5, <2>2, <2>3, RedisUnchanged DEF SweepList, Base
<1>6. ASSUME NEW k \in Workers, NEW i \in Ids, SweepSubmitFails(k, i) PROVE Base'
  <2>1. i \in Recorded
    BY <1>0, <1>6 DEF SweepSubmitFails, Reached, TypeOK
  <2>2. TypeOK'
    BY <1>0, <1>6, <2>1 DEF SweepSubmitFails, TypeOK, Recorded
  <2>3. Promised'
    BY <1>0, <1>6 DEF SweepSubmitFails, Promised, TypeOK, Reached, Recorded
  <2> QED
    BY <1>6, <2>2, <2>3, RedisUnchanged DEF SweepSubmitFails, Base
<1>7. ASSUME NEW k \in Workers, NEW i \in Ids, SweepMark(k, i) PROVE Base'
  <2>1. i \in Recorded /\ i \in ran \cup wiped
    BY <1>0, <1>7 DEF SweepMark, Reached, TypeOK, Promised
  <2>2. TypeOK'
    BY <1>0, <1>7, <2>1 DEF SweepMark, TypeOK, Recorded
  <2>3. \A l \in Workers : wpc'[l] = "mark" => l # k /\ wpc[l] = "mark" /\ batch'[l] = batch[l]
    BY <1>0, <1>7 DEF SweepMark, TypeOK
  <2>4. Promised'
    BY <1>0, <1>7, <2>1, <2>3 DEF SweepMark, Promised, Reached, Recorded
  <2> QED
    BY <1>7, <2>2, <2>4, RedisUnchanged DEF SweepMark, Base
<1>8. ASSUME NEW k \in Workers, SweepMarkFails(k) PROVE Base'
  <2>1. TypeOK'
    BY <1>0, <1>8 DEF SweepMarkFails, TypeOK, Recorded
  <2>2. Promised'
    BY <1>0, <1>8 DEF SweepMarkFails, Promised, TypeOK, Reached, Recorded
  <2> QED
    BY <1>8, <2>1, <2>2, RedisUnchanged DEF SweepMarkFails, Base
<1>9. ASSUME NEW i \in Ids, StrayRun(i) PROVE Base'
  <2>1. i \in Recorded
    BY <1>0, <1>9 DEF StrayRun, Reached, TypeOK
  <2>2. TypeOK'
    BY <1>0, <1>9, <2>1, RunScriptType DEF StrayRun, TypeOK, Recorded
  <2>3. Promised'
    BY <1>0, <1>9 DEF StrayRun, RunScript, Promised, Reached, Recorded
  <2> QED
    BY <1>9, <2>1, <2>2, <2>3, RunScriptBase DEF StrayRun, Base
<1>10. ASSUME Flush PROVE Base'
  <2>1. TypeOK'
    BY <1>0, <1>10, ProjectionAssumption
    DEF Flush, TypeOK, Recorded, NoBoards, BoardType, NoExpiries, ExpiryType, NoScore, NoExpiry
  <2>2. StampedInPast' /\ Promised'
    BY <1>0, <1>10 DEF Flush, StampedInPast, Promised, Reached, Recorded
  <2>3. NoEarlyExpiry'
    BY <1>10 DEF Flush, NoEarlyExpiry, NoExpiries
  <2> QED
    BY <2>1, <2>2, <2>3 DEF Base
<1>11. ASSUME Tick PROVE Base'
  <2>1. TypeOK'
    <3>1. now' \in Time
      BY <1>0, <1>11, TimeAssumption DEF Tick, TypeOK, Time
    <3>2. board' \in BoardType
      BY <1>0, <1>11 DEF Tick, ExpireBoards, TypeOK, BoardType
    <3>3. expiry' \in ExpiryType
      BY <1>0, <1>11 DEF Tick, ExpireExpiries, TypeOK, ExpiryType, NoExpiry
    <3> QED
      BY <1>0, <1>11, <3>1, <3>2, <3>3 DEF Tick, TypeOK, Recorded
  <2>2. StampedInPast'
    BY <1>0, <1>11 DEF Tick, StampedInPast, TypeOK, Event, Time, Recorded
  <2>3. Promised'
    BY <1>0, <1>11 DEF Tick, Promised, Reached, Recorded
  <2>4. NoEarlyExpiry'
    BY <1>0, <1>11 DEF Tick, ExpireExpiries, NoEarlyExpiry
  <2> QED
    BY <2>1, <2>2, <2>3, <2>4 DEF Base
<1>12. ASSUME UNCHANGED vars PROVE Base'
  <2>1. TypeOK' /\ Promised'
    BY <1>0, <1>12 DEF vars, TypeOK, Promised, Reached, Recorded
  <2> QED
    BY <1>12, <2>1, RedisUnchanged DEF vars, Base
<1> QED
  BY <1>1, <1>2, <1>3, <1>4, <1>5, <1>6, <1>7, <1>8, <1>9, <1>10, <1>11, <1>12
  DEF Next, Request, Worker, Redis

(* Rows of score_events are never changed nor removed.                     *)
LEMMA RowsStay ==
    ASSUME TypeOK, [Next]_vars
    PROVE  Recorded \subseteq Recorded' /\ \A j \in Recorded : scores'[j] = scores[j]
PROOF
<1>1. CASE Record
  BY <1>1 DEF Record, RecordScore, Recorded
<1>2. Record \/ UNCHANGED scores
  BY DEF Next, Request, InlineSubmit, InlineSubmitFails, InlineMark, InlineMarkFails, Worker,
         SweepList, SweepSubmit, SweepSubmitFails, SweepMark, SweepMarkFails, Redis, StrayRun,
         Flush, Tick, vars
<1> QED
  BY <1>1, <1>2 DEF Recorded

(* What a step can do to Redis.                                            *)
LEMMA RedisSteps ==
    ASSUME Base, [Next]_vars
    PROVE  \/ UNCHANGED <<now, board, expiry, ran, flushes>>
           \/ \E i \in Recorded : RunScript(i) /\ UNCHANGED <<now, scores, flushes>>
           \/ Flush
           \/ Tick
PROOF
<1>1. ASSUME NEW i \in Ids, InlineSubmit(i)
      PROVE  i \in Recorded /\ RunScript(i) /\ UNCHANGED <<now, scores, flushes>>
  BY <1>1 DEF InlineSubmit, Base, Promised
<1>2. ASSUME NEW k \in Workers, NEW i \in Ids, SweepSubmit(k, i)
      PROVE  i \in Recorded /\ RunScript(i) /\ UNCHANGED <<now, scores, flushes>>
  BY <1>2 DEF SweepSubmit, Reached, Base, TypeOK
<1>3. ASSUME NEW i \in Ids, StrayRun(i)
      PROVE  i \in Recorded /\ RunScript(i) /\ UNCHANGED <<now, scores, flushes>>
  BY <1>3 DEF StrayRun, Reached, Base, TypeOK
<1> QED
  BY <1>1, <1>2, <1>3
  DEF Next, Record, RecordScore, Request, InlineSubmitFails, InlineMark, InlineMarkFails,
      Worker, SweepList, SweepSubmitFails, SweepMark, SweepMarkFails, Redis, vars

(* Every step preserves the invariant.                                     *)
LEMMA NextIInv == IInv /\ [Next]_vars => IInv'
PROOF
<1> SUFFICES ASSUME IInv, [Next]_vars PROVE IInv'
  OBVIOUS
<1>0. TypeOK /\ NoEarlyExpiry /\ BoardHoldsTheBest /\ GlobalIsSumOfBests /\ Base
  BY DEF IInv, Base
<1>1. Base'
  BY <1>0, NextBase
<1>2. ASSUME UNCHANGED <<now, board, expiry, ran, flushes>>
      PROVE  BoardHoldsTheBest' /\ GlobalIsSumOfBests'
  <2>1. \A j \in ran : scores'[j] = scores[j]
    BY <1>0, RowsStay DEF TypeOK
  <2>2. BoardHoldsTheBest'
    BY <1>0, <1>2, <2>1 DEF BoardHoldsTheBest, Counts
  <2>3. GlobalIsSumOfBests'
    BY <1>0, <1>2 DEF GlobalIsSumOfBests
  <2> QED
    BY <2>2, <2>3
<1>3. ASSUME NEW i \in Recorded, RunScript(i), UNCHANGED <<now, scores, flushes>>
      PROVE  BoardHoldsTheBest' /\ GlobalIsSumOfBests'
  BY <1>0, <1>3, RunScriptBest, RunScriptSum
<1>4. ASSUME Flush PROVE BoardHoldsTheBest' /\ GlobalIsSumOfBests'
  <2>1. \A s \in Scopes, p \in Periods, w \in Time, u \in Users :
          board'[s][p][w][u] = NoScore
    BY <1>4 DEF Flush, NoBoards
  <2>2. BoardHoldsTheBest'
    BY <1>4, <2>1 DEF Flush, BoardHoldsTheBest, Scopes
  <2>3. GlobalIsSumOfBests'
    BY <2>1 DEF GlobalIsSumOfBests, SumOfBests, SumOverGames, Value, Scopes, Games
  <2> QED
    BY <2>2, <2>3
<1>5. ASSUME Tick PROVE BoardHoldsTheBest' /\ GlobalIsSumOfBests'
  <2>1. BoardHoldsTheBest'
    BY <1>0, <1>5, TickKeepsLive DEF Tick, BoardHoldsTheBest, Counts, Scopes
  <2>2. GlobalIsSumOfBests'
    <3> SUFFICES ASSUME NEW p \in Periods, NEW w \in Time, NEW u \in Users,
                        LiveAt(p, w, now')
                 PROVE  Value(board'[Global][p][w][u]) = SumOfBests(board', p, w, u)
      BY DEF GlobalIsSumOfBests
    <3>1. LiveAt(p, w, now) /\ \A s \in Scopes : board'[s][p][w] = board[s][p][w]
      BY <1>0, <1>5, TickKeepsLive
    <3> QED
      BY <1>0, <3>1 DEF GlobalIsSumOfBests, SumOfBests, SumOverGames, Scopes, Games
  <2> QED
    BY <2>1, <2>2
<1> QED
  BY <1>0, <1>1, <1>2, <1>3, <1>4, <1>5, RedisSteps DEF IInv, Base

(* IInv holds throughout every behaviour.                                  *)
THEOREM Inductive == Spec => []IInv
BY InitIInv, NextIInv, PTL DEF Spec

(* What is on a game's board, live or not, was recorded.                   *)
EntriesRecorded ==
    \A g \in Games, p \in Periods, w \in Time, u \in Users :
        board[g][p][w][u] # NoScore =>
            \E i \in Recorded : Counts(i, g, p, w, u) /\ scores[i].points = board[g][p][w][u]

(* A player is on the total of a live window exactly when on some game's   *)
(* board of it.                                                            *)
TotalPresent ==
    \A p \in Periods, w \in Time, u \in Users :
        LiveAt(p, w, now) =>
            (board[Global][p][w][u] # NoScore <=> \E g \in Games : board[g][p][w][u] # NoScore)

(* Both hold throughout.                                                   *)
LEMMA InitEntries == Init => EntriesRecorded /\ TotalPresent
BY DEF Init, NoBoards, EntriesRecorded, TotalPresent, Scopes

LEMMA NextEntries ==
    ASSUME IInv, EntriesRecorded, TotalPresent, [Next]_vars
    PROVE  EntriesRecorded' /\ TotalPresent'
PROOF
<1>0. Base /\ TypeOK /\ NoEarlyExpiry
  BY DEF IInv, Base
<1>1. Recorded \subseteq Recorded' /\ \A j \in Recorded : scores'[j] = scores[j]
  BY <1>0, RowsStay
<1>2. ASSUME NEW g \in Games, NEW p \in Periods, NEW w \in Time, NEW u \in Users,
             board'[g][p][w][u] = board[g][p][w][u], board'[g][p][w][u] # NoScore
      PROVE  \E i \in Recorded' : /\ Counts(i, g, p, w, u)'
                                   /\ scores'[i].points = board'[g][p][w][u]
  <2>1. PICK i \in Recorded : Counts(i, g, p, w, u) /\ scores[i].points = board[g][p][w][u]
    BY <1>2 DEF EntriesRecorded
  <2> QED
    BY <1>1, <1>2, <2>1 DEF Counts
<1>3. CASE UNCHANGED <<now, board, expiry, ran, flushes>>
  BY <1>2, <1>3 DEF EntriesRecorded, TotalPresent
<1>4. ASSUME NEW i \in Recorded, RunScript(i), UNCHANGED <<now, scores, flushes>>
      PROVE  EntriesRecorded' /\ TotalPresent'
  <2> DEFINE e == scores[i]
  <2>1. e \in Event /\ e.points \in Nat /\ e.game \in Games /\ e.game \in Scopes /\ Global \in Scopes
        /\ Global \notin Games /\ e.user \in Users
    BY <1>0, TimeAssumption DEF TypeOK, Event, Points, Games, Global, Scopes
  <2>2. \A s \in Scopes, p \in Periods, w \in Time, u \in Users : board'[s][p][w][u] =
          IF u = e.user /\ Touches(e, s, p, w) /\ Improves(board, e, p)
          THEN NewEntry(board, e, s, p, w)
          ELSE board[s][p][w][u]
    BY <1>4 DEF RunScript, Submit
  <2>3. ASSUME NEW g \in Games, NEW p \in Periods, NEW w \in Time, NEW u \in Users,
               board'[g][p][w][u] # NoScore
        PROVE  \E j \in Recorded' : Counts(j, g, p, w, u)' /\ scores'[j].points = board'[g][p][w][u]
    <3>1. CASE board'[g][p][w][u] = board[g][p][w][u]
      BY <1>2, <2>3, <3>1
    <3>2. CASE board'[g][p][w][u] # board[g][p][w][u]
      <4>1. g \in Scopes
        BY DEF Scopes
      <4>2. u = e.user /\ Touches(e, g, p, w) /\ board'[g][p][w][u] = NewEntry(board, e, g, p, w)
        BY <2>2, <3>2, <4>1
      <4>3. g = e.game /\ w = WindowStart[p][e.at] /\ board'[g][p][w][u] = e.points
        BY <2>1, <4>2 DEF Touches, NewEntry
      <4> QED
        BY <1>1, <1>4, <4>2, <4>3 DEF Counts
    <3> QED
      BY <3>1, <3>2
  <2>4. ASSUME NEW p \in Periods, NEW w \in Time, NEW u \in Users, LiveAt(p, w, now)
        PROVE  board'[Global][p][w][u] # NoScore <=> \E g \in Games : board'[g][p][w][u] # NoScore
    <3>1. board' \in BoardType /\ board \in BoardType
      BY <1>0, <1>4, RunScriptType DEF TypeOK
    <3>2. board[Global][p][w][u] # NoScore <=> \E g \in Games : board[g][p][w][u] # NoScore
      BY <2>4 DEF TotalPresent
    <3>3. CASE ~(u = e.user /\ w = WindowStart[p][e.at] /\ Improves(board, e, p))
      <4>1. \A s \in Scopes : board'[s][p][w][u] = board[s][p][w][u]
        BY <2>2, <3>3 DEF Touches
      <4> QED
        BY <3>2, <4>1 DEF Scopes
    <3>4. CASE u = e.user /\ w = WindowStart[p][e.at] /\ Improves(board, e, p)
      <4>1. \A s \in {e.game, Global} : board'[s][p][w][u] = NewEntry(board, e, s, p, w)
        BY <2>1, <2>2, <3>4 DEF Touches
      <4>2. board'[e.game][p][w][u] = e.points
        BY <4>1 DEF NewEntry
      <4>3. board'[Global][p][w][u] \in Nat
        <5>1. board[Global][p][w][u] \in Nat \cup {NoScore} /\ board[e.game][p][w][u] \in Nat \cup {NoScore}
          <6>1. \A s \in Scopes : board[s][p][w][u] \in Nat \cup {NoScore}
            BY <3>1 DEF BoardType
          <6> QED
            BY <2>1, <6>1
        <5>2. Previous(board, e, p) = board[e.game][p][w][u]
          BY <3>4 DEF Previous
        <5>3. board'[Global][p][w][u] =
                Value(board[Global][p][w][u]) + (e.points - Value(board[e.game][p][w][u]))
          BY <2>1, <3>4, <4>1, <5>2 DEF NewEntry
        <5>4. board[e.game][p][w][u] = NoScore \/ e.points > board[e.game][p][w][u]
          BY <3>4, <5>2 DEF Improves
        <5> QED
          BY <2>1, <5>1, <5>3, <5>4 DEF Value, NoScore
      <4> QED
        BY <2>1, <4>2, <4>3 DEF NoScore
    <3> QED
      BY <3>3, <3>4
  <2>5. TotalPresent'
    BY <1>4, <2>4 DEF TotalPresent
  <2> QED
    BY <2>3, <2>5 DEF EntriesRecorded
<1>5. CASE Flush
  BY <1>5 DEF Flush, NoBoards, EntriesRecorded, TotalPresent, Scopes
<1>6. CASE Tick
  <2>1. \A s \in Scopes, p \in Periods, w \in Time, u \in Users :
          board'[s][p][w][u] \in {board[s][p][w][u], NoScore}
    BY <1>6 DEF Tick, ExpireBoards
  <2>2. EntriesRecorded'
    BY <1>2, <2>1 DEF EntriesRecorded, Scopes
  <2>3. TotalPresent'
    BY <1>0, <1>6, TickKeepsLive DEF TotalPresent, Scopes
  <2> QED
    BY <2>2, <2>3
<1> QED
  BY <1>0, <1>3, <1>4, <1>5, <1>6, RedisSteps

(* Every variable keeps its type, whatever the parameters are.             *)
THEOREM TypeCorrect == Spec => []TypeOK
PROOF
<1>1. IInv => TypeOK
  BY DEF IInv
<1> QED
  BY <1>1, Inductive, PTL

(* The cross-game total that submit.lua maintains by differences is always *)
(* the sum of the per-game entries, in every live window.                  *)
THEOREM GlobalConsistent == Spec => []GlobalIsSumOfBests
PROOF
<1>1. IInv => GlobalIsSumOfBests
  BY DEF IInv
<1> QED
  BY <1>1, Inductive, PTL

(* A game's entry is exactly the best of the scores projected to it, so    *)
(* at-least-once delivery in any order is harmless (projector.Sweep).      *)
THEOREM DeliveryIsIdempotent == Spec => []BoardHoldsTheBest
PROOF
<1>1. IInv => BoardHoldsTheBest
  BY DEF IInv
<1> QED
  BY <1>1, Inductive, PTL

(* projected_at is never set on a score the boards do not reflect.         *)
THEOREM NoProjectedScoreIsLost == Spec => []ProjectedIsVisible
PROOF
<1>1. ASSUME IInv PROVE ProjectedIsVisible
  <2> SUFFICES ASSUME NEW i \in projected \ wiped, NEW p \in Periods,
                      LiveAt(p, WindowStart[p][scores[i].at], now)
               PROVE  board[scores[i].game][p][WindowStart[p][scores[i].at]][scores[i].user]
                        >= scores[i].points
    BY DEF ProjectedIsVisible
  <2>1. i \in ran
    BY <1>1 DEF IInv, Promised
  <2>2. scores[i] \in Event
    BY <1>1, <2>1 DEF IInv, TypeOK
  <2> DEFINE g == scores[i].game
             u == scores[i].user
             w == WindowStart[p][scores[i].at]
  <2>3. g \in Games /\ u \in Users /\ w \in Time /\ scores[i].points \in Nat
    BY <2>2, WindowAssumption, TimeAssumption DEF Event, Points
  <2>4. Counts(i, g, p, w, u)
    BY DEF Counts
  <2>5. scores[i].points =< board[g][p][w][u]
    BY <1>1, <2>1, <2>3, <2>4 DEF IInv, BoardHoldsTheBest
  <2>6. board[g][p][w][u] \in Int
    BY <1>1, <2>3 DEF IInv, TypeOK, BoardType, Scopes, NoScore
  <2> QED
    BY <2>3, <2>5, <2>6
<1> QED
  BY <1>1, Inductive, PTL

-----------------------------------------------------------------------------

(* No entry goes down when a script runs.                                  *)
LEMMA SubmitMonotone ==
    ASSUME NEW bd \in BoardType, NEW e \in Event,
           NEW s \in Scopes, NEW p \in Periods, NEW w \in Time, NEW u \in Users
    PROVE  Submit(bd, e)[s][p][w][u] >= bd[s][p][w][u]
PROOF
<1>1. bd[s][p][w][u] \in Nat \cup {NoScore}
  BY DEF BoardType
<1>2. Submit(bd, e)[s][p][w][u] =
        IF u = e.user /\ Touches(e, s, p, w) /\ Improves(bd, e, p)
        THEN NewEntry(bd, e, s, p, w)
        ELSE bd[s][p][w][u]
  BY DEF Submit
<1>3. ASSUME u = e.user, Touches(e, s, p, w), Improves(bd, e, p)
      PROVE  NewEntry(bd, e, s, p, w) >= bd[s][p][w][u]
  <2>1. e.points \in Nat /\ e.game \in Scopes /\ w = WindowStart[p][e.at]
    BY <1>3, TimeAssumption DEF Event, Points, Scopes, Touches
  <2>2. Previous(bd, e, p) = bd[e.game][p][w][u]
    BY <1>3, <2>1 DEF Previous
  <2>3. Previous(bd, e, p) \in Nat \cup {NoScore}
    BY <2>1, <2>2 DEF BoardType
  <2>4. e.points > Previous(bd, e, p) /\ e.points >= Value(Previous(bd, e, p))
    BY <1>3, <2>1, <2>3 DEF Improves, Value, NoScore
  <2>5. CASE s = e.game
    BY <1>1, <2>1, <2>2, <2>3, <2>4, <2>5 DEF NewEntry, NoScore
  <2>6. CASE s # e.game
    BY <1>1, <1>3, <2>1, <2>3, <2>4, <2>6 DEF NewEntry, Value, NoScore
  <2> QED
    BY <2>5, <2>6
<1> QED
  BY <1>1, <1>2, <1>3 DEF NoScore

(* No step lowers or removes an entry of a live window but a flush.        *)
THEOREM EntriesNeverRegress == Spec => NoRegression
PROOF
<1>1. ASSUME IInv, [Next]_vars PROVE [KeepsLiveEntries]_vars
  <2> SUFFICES ASSUME NEW s \in Scopes, NEW p \in Periods, NEW w \in Time, NEW u \in Users,
                      LiveAt(p, w, now'), board'[s][p][w][u] < board[s][p][w][u]
               PROVE  flushes' # flushes
    BY DEF KeepsLiveEntries
  <2>0. board[s][p][w][u] \in Int
    BY <1>1 DEF IInv, TypeOK, BoardType, NoScore
  <2>1. CASE UNCHANGED <<now, board, expiry, ran, flushes>>
    BY <2>0, <2>1
  <2>2. ASSUME NEW i \in Recorded, RunScript(i) PROVE FALSE
    <3>1. scores[i] \in Event /\ board \in BoardType
      BY <1>1 DEF IInv, TypeOK
    <3>2. board'[s][p][w][u] >= board[s][p][w][u]
      BY <2>2, <3>1, SubmitMonotone DEF RunScript
    <3>3. board'[s][p][w][u] \in Int
      <4>1. board' \in BoardType
        BY <2>2, <3>1, SubmitType DEF RunScript
      <4> QED
        BY <4>1 DEF BoardType, NoScore
    <3> QED
      BY <2>0, <3>2, <3>3
  <2>3. CASE Flush
    BY <1>1, <2>3 DEF Flush, IInv, TypeOK
  <2>4. CASE Tick
    <3>1. board'[s][p][w] = board[s][p][w]
      BY <1>1, <2>4, TickKeepsLive DEF IInv
    <3> QED
      BY <2>0, <3>1
  <2> QED
    BY <1>1, <2>1, <2>2, <2>3, <2>4, RedisSteps DEF IInv, Base
<1> QED
  BY <1>1, Inductive, PTL DEF Spec, NoRegression

(* No write moves a key's expiry.                                          *)
THEOREM ExpiriesStay == Spec => ExpiryNeverSlides
PROOF
<1>1. ASSUME IInv, [Next]_vars PROVE [KeepsExpiries]_vars
  <2> SUFFICES ASSUME NEW s \in Scopes, NEW p \in Periods, NEW w \in Time,
                      expiry[s][p][w] # NoExpiry
               PROVE  expiry'[s][p][w] \in {expiry[s][p][w], NoExpiry}
    BY DEF KeepsExpiries
  <2>1. CASE UNCHANGED <<now, board, expiry, ran, flushes>>
    BY <2>1
  <2>2. ASSUME NEW i \in Recorded, RunScript(i)
        PROVE  expiry'[s][p][w] = expiry[s][p][w]
    BY <2>2 DEF RunScript, SubmitExpiry
  <2>3. CASE Flush
    BY <2>3 DEF Flush, NoExpiries
  <2>4. CASE Tick
    BY <2>4 DEF Tick, ExpireExpiries
  <2> QED
    BY <1>1, <2>1, <2>2, <2>3, <2>4, RedisSteps DEF IInv, Base
<1> QED
  BY <1>1, Inductive, PTL DEF Spec, ExpiryNeverSlides

(* A script leaves every windowed key it finds or creates with an expiry   *)
(* ahead, and no expiry on a key that does not exist.                      *)
LEMMA RunScriptKeys ==
    ASSUME TypeOK, KeysExpire, NEW i \in Recorded, RunScript(i), now' = now
    PROVE  KeysExpire'
PROOF
<1> DEFINE e == scores[i]
<1>0. e \in Event /\ board' \in BoardType /\ board \in BoardType
  BY RunScriptType DEF TypeOK
<1> SUFFICES ASSUME NEW s \in Scopes, NEW p \in Periods, NEW w \in Time
             PROVE  IF Exists(board', s, p, w) /\ Ttl[p] > 0
                    THEN expiry'[s][p][w] \in now + 1 .. now + Ttl[p]
                    ELSE expiry'[s][p][w] = NoExpiry
  BY DEF KeysExpire
<1> DEFINE touched == Touches(e, s, p, w)
           improves == Improves(board, e, p)
<1>1. IF Exists(board, s, p, w) /\ Ttl[p] > 0
      THEN expiry[s][p][w] \in now + 1 .. now + Ttl[p]
      ELSE expiry[s][p][w] = NoExpiry
  BY DEF KeysExpire
<1>2. /\ now \in Int /\ Ttl[p] \in Nat
      /\ now + Ttl[p] # NoExpiry
  BY PeriodsAssumption DEF TypeOK, Time, NoExpiry
<1>3. expiry'[s][p][w] =
        IF touched /\ Ttl[p] > 0 /\ expiry[s][p][w] = NoExpiry
             /\ (improves \/ Exists(board, s, p, w))
        THEN now + Ttl[p] ELSE expiry[s][p][w]
  BY DEF RunScript, SubmitExpiry
<1>4. Exists(board', s, p, w) <=> Exists(board, s, p, w) \/ (touched /\ improves)
  <2>1. \A u \in Users : board'[s][p][w][u] =
          IF u = e.user /\ touched /\ improves THEN NewEntry(board, e, s, p, w)
                                              ELSE board[s][p][w][u]
    BY DEF RunScript, Submit
  <2>2. touched /\ improves => board'[s][p][w][e.user] # NoScore
    <3> SUFFICES ASSUME touched, improves PROVE board'[s][p][w][e.user] # NoScore
      OBVIOUS
    <3>1. e.user \in Users /\ e.points \in Nat /\ w = WindowStart[p][e.at] /\ e.game \in Scopes
      BY <1>0, TimeAssumption DEF Event, Points, Touches, Scopes
    <3>2. board'[s][p][w][e.user] = NewEntry(board, e, s, p, w)
      BY <2>1, <3>1
    <3>3. Previous(board, e, p) \in Nat \cup {NoScore} /\ board[s][p][w][e.user] \in Nat \cup {NoScore}
      <4>1. Previous(board, e, p) = board[e.game][p][w][e.user]
        BY <3>1 DEF Previous
      <4>2. \A q \in Scopes : board[q][p][w][e.user] \in Nat \cup {NoScore}
        <5> HIDE DEF e
        <5> QED
          BY <1>0, <3>1 DEF BoardType
      <4> QED
        BY <3>1, <4>1, <4>2
    <3>4. e.points >= Value(Previous(board, e, p)) /\ Value(Previous(board, e, p)) \in Nat
      BY <3>1, <3>3 DEF Improves, Value, NoScore
    <3>5. Value(board[s][p][w][e.user]) \in Nat
      BY <3>3 DEF Value, NoScore
    <3>6. NewEntry(board, e, s, p, w) \in Nat
      BY <3>1, <3>4, <3>5 DEF NewEntry
    <3> QED
      BY <3>2, <3>6 DEF NoScore
  <2>3. e.user \in Users
    BY <1>0 DEF Event
  <2>4. CASE touched /\ improves
    BY <2>2, <2>3, <2>4 DEF Exists
  <2>5. CASE ~(touched /\ improves)
    BY <2>1, <2>5 DEF Exists
  <2> QED
    BY <2>4, <2>5
<1> HIDE DEF touched, improves
<1> QED
  BY <1>1, <1>2, <1>3, <1>4 DEF NoExpiry

(* So do all steps of projection, and the passing of time.                 *)
LEMMA NextKeys ==
    ASSUME Base, [Next]_vars, KeysExpire
    PROVE  KeysExpire'
PROOF
<1>0. TypeOK
  BY DEF Base
<1>1. CASE UNCHANGED <<now, board, expiry, ran, flushes>>
  BY <1>1 DEF KeysExpire
<1>2. ASSUME NEW i \in Recorded, RunScript(i), now' = now PROVE KeysExpire'
  BY <1>0, <1>2, RunScriptKeys
<1>3. CASE Flush
  BY <1>3 DEF Flush, KeysExpire, NoBoards, NoExpiries, Exists
<1>4. CASE Tick
  <2> SUFFICES ASSUME NEW s \in Scopes, NEW p \in Periods, NEW w \in Time
               PROVE  IF Exists(board', s, p, w) /\ Ttl[p] > 0
                      THEN expiry'[s][p][w] \in now' + 1 .. now' + Ttl[p]
                      ELSE expiry'[s][p][w] = NoExpiry
    BY DEF KeysExpire
  <2>1. IF Exists(board, s, p, w) /\ Ttl[p] > 0
        THEN expiry[s][p][w] \in now + 1 .. now + Ttl[p]
        ELSE expiry[s][p][w] = NoExpiry
    BY DEF KeysExpire
  <2>2. now \in Int /\ now' = now + 1 /\ Ttl[p] \in Nat
    BY <1>0, <1>4, PeriodsAssumption DEF Tick, TypeOK, Time
  <2>3. /\ expiry'[s][p][w] = IF Expired(expiry, s, p, w, now') THEN NoExpiry ELSE expiry[s][p][w]
        /\ \A u \in Users : board'[s][p][w][u] =
              IF Expired(expiry, s, p, w, now') THEN NoScore ELSE board[s][p][w][u]
    BY <1>4 DEF Tick, ExpireBoards, ExpireExpiries
  <2>4. Exists(board', s, p, w) <=> Exists(board, s, p, w) /\ ~Expired(expiry, s, p, w, now')
    BY <2>3 DEF Exists
  <2>5. Expired(expiry, s, p, w, now') <=> expiry[s][p][w] # NoExpiry /\ expiry[s][p][w] =< now'
    BY DEF Expired
  <2>6. CASE Exists(board, s, p, w) /\ Ttl[p] > 0
    <3> DEFINE x == expiry[s][p][w]
    <3>1. x \in Int /\ x >= now + 1 /\ x =< now + Ttl[p]
      BY <2>1, <2>2, <2>6
    <3> HIDE DEF x
    <3>2. CASE Expired(expiry, s, p, w, now')
      BY <2>3, <2>4, <3>2
    <3>3. CASE ~Expired(expiry, s, p, w, now')
      <4>1. x # NoExpiry => x > now'
        BY <2>2, <2>5, <3>1, <3>3 DEF x
      <4>2. expiry'[s][p][w] = x
        BY <2>3, <3>3 DEF x
      <4>3. now \in Nat /\ NoExpiry = -1
        BY <1>0, TimeAssumption DEF TypeOK, Time, NoExpiry
      <4> QED
        BY <2>2, <2>4, <2>6, <3>1, <3>3, <4>1, <4>2, <4>3
    <3> QED
      BY <3>2, <3>3
  <2>7. CASE ~(Exists(board, s, p, w) /\ Ttl[p] > 0)
    BY <2>1, <2>3, <2>4, <2>5, <2>7
  <2> QED
    BY <2>6, <2>7
<1> QED
  BY <1>1, <1>2, <1>3, <1>4, RedisSteps

(* Every windowed key expires within its TTL, so old windows are never     *)
(* kept for ever.                                                          *)
THEOREM KeysAlwaysExpire == Spec => []KeysExpire
PROOF
<1>1. Init => KeysExpire
  BY DEF Init, KeysExpire, NoBoards, NoExpiries, Exists
<1>2. IInv /\ [Next]_vars /\ KeysExpire => KeysExpire'
  BY NextKeys DEF IInv, Base
<1> QED
  BY <1>1, <1>2, Inductive, PTL DEF Spec

-----------------------------------------------------------------------------

(* The all-time boards, as Standings has them.                             *)
Entries == [g \in Games |-> board[g][AllTime][0]]

(* The all-time window is the one that starts at 0, and it is always live. *)
LEMMA AllTimeWindow ==
    /\ AllTime \in Periods /\ 0 \in Time
    /\ \A t \in Time : WindowStart[AllTime][t] = 0
    /\ \A t \in Time : LiveAt(AllTime, 0, t)
BY TimeAssumption, PeriodsAssumption, WindowAssumption DEF Time, LiveAt

(* A script either leaves the all-time boards alone or makes its score     *)
(* appear, on its game's board and in the total at once.                   *)
LEMMA ScriptAppears ==
    ASSUME IInv, IInv', NEW i \in Recorded, RunScript(i), UNCHANGED <<now, scores>>
    PROVE  \/ Abstract!Appear(i)
           \/ UNCHANGED <<scores, Entries, board[Global][AllTime][0]>>
PROOF
<1> DEFINE e == scores[i]
           B(s) == board[s][AllTime][0]
<1>0. board \in BoardType /\ board' \in BoardType /\ e \in Event /\ now \in Time
  BY DEF IInv, TypeOK
<1>1. e.user \in Users /\ e.game \in Games /\ e.at \in Time /\ e.points \in Nat
  BY <1>0, TimeAssumption DEF Event, Points
<1>2. /\ Previous(board, e, AllTime) = B(e.game)[e.user]
      /\ \A s \in Scopes : Touches(e, s, AllTime, 0) <=> s \in {e.game, Global}
  BY <1>1, AllTimeWindow DEF Previous, Touches
<1>3. \A s \in Scopes : B(s)' = [u \in Users |->
        IF u = e.user /\ Touches(e, s, AllTime, 0) /\ Improves(board, e, AllTime)
        THEN NewEntry(board, e, s, AllTime, 0) ELSE B(s)[u]]
  BY AllTimeWindow DEF RunScript, Submit
<1>4. \A s \in Scopes : B(s) \in [Users -> Nat \cup {NoScore}] /\ B(s)' \in [Users -> Nat \cup {NoScore}]
  BY <1>0, AllTimeWindow DEF BoardType
<1>5. CASE ~Improves(board, e, AllTime)
  <2>1. \A s \in Scopes : B(s)' = B(s)
    BY <1>3, <1>4, <1>5
  <2>2. Entries' = Entries /\ B(Global)' = B(Global)
    BY <2>1 DEF Entries, Scopes
  <2> QED
    BY <2>2
<1>6. CASE Improves(board, e, AllTime)
  <2>1. B(e.game)[e.user] < e.points
    BY <1>1, <1>2, <1>4, <1>6 DEF Improves, NoScore, Scopes
  <2>2. \A g \in Games : B(g)' = IF g = e.game THEN [B(g) EXCEPT ![e.user] = e.points] ELSE B(g)
    <3> SUFFICES ASSUME NEW g \in Games
                 PROVE  B(g)' = IF g = e.game THEN [B(g) EXCEPT ![e.user] = e.points] ELSE B(g)
      OBVIOUS
    <3>1. g \in Scopes /\ g # Global
      BY DEF Scopes, Games, Global
    <3> QED
      BY <1>1, <1>2, <1>3, <1>4, <1>6, <3>1 DEF NewEntry
  <2>3. Entries' = [Entries EXCEPT ![e.game][e.user] = e.points]
    BY <1>1, <1>4, <2>2 DEF Entries, Scopes
  <2>4. B(Global)' = [B(Global) EXCEPT ![e.user] = B(Global)'[e.user]]
    BY <1>1, <1>3, <1>4 DEF Scopes
  <2>5. B(Global)'[e.user] = SumOfBests(board', AllTime, 0, e.user)
    <3>1. Value(B(Global)'[e.user]) = SumOfBests(board', AllTime, 0, e.user)
      BY <1>0, <1>1, AllTimeWindow DEF IInv, GlobalIsSumOfBests
    <3>2. B(Global)'[e.user] \in Nat
      <4>1. Global \in Scopes /\ Global # e.game
        BY <1>1 DEF Scopes, Games, Global
      <4>2. B(Global)'[e.user] = Value(B(Global)[e.user]) + (e.points - Value(B(e.game)[e.user]))
        BY <1>1, <1>2, <1>3, <1>6, <4>1 DEF NewEntry
      <4>3. B(Global)[e.user] \in Nat \cup {NoScore} /\ B(e.game)[e.user] \in Nat \cup {NoScore}
        BY <1>1, <1>4, <4>1 DEF Scopes
      <4> QED
        BY <1>1, <2>1, <4>2, <4>3 DEF Value, NoScore
    <3> QED
      BY <3>1, <3>2 DEF Value, NoScore
  <2>6. Abstract!Sum(Entries', e.user) = SumOfBests(board', AllTime, 0, e.user)
    BY DEF Abstract!Sum, Abstract!SumOverGames, Abstract!Games, Abstract!Value, Abstract!NoScore, Value, NoScore, SumOfBests, SumOverGames, Entries, Games
  <2>7. Entries[e.game][e.user] < e.points
    BY <1>1, <2>1 DEF Entries
  <2> QED
    BY <2>3, <2>4, <2>5, <2>6, <2>7 DEF Abstract!Appear, Entries, Recorded
<1> QED
  BY <1>5, <1>6

(* Every step of Projection is one of Standings, or invisible there.       *)
LEMMA StepImplements ==
    ASSUME IInv, IInv', [Next]_vars
    PROVE  [Abstract!Next]_(Abstract!vars)
PROOF
<1>1. CASE Record
  <2>1. PICK i \in Ids, r \in Plays, t \in Time :
          RecordScore(i, [user |-> r.user, game |-> r.game, points |-> r.points, at |-> t])
    BY <1>1 DEF Record
  <2>2. /\ i \notin DOMAIN scores
        /\ DOMAIN scores' = DOMAIN scores \cup {i}
        /\ \A j \in DOMAIN scores : scores'[j] = scores[j]
        /\ board' = board
    BY <2>1 DEF RecordScore, Recorded
  <2>3. scores'[i] \in Event
    BY <2>2 DEF IInv, TypeOK, Recorded
  <2>4. Abstract!Record(i)
    BY <2>2, <2>3 DEF Abstract!Record, Abstract!Event, Abstract!Points, Abstract!Time, Abstract!Games,
                      Event, Points, Time, Games
  <2> QED
    BY <2>4 DEF Abstract!Next
<1>2. ASSUME NEW i \in Recorded, RunScript(i), UNCHANGED <<now, scores, flushes>>
      PROVE  [Abstract!Next]_(Abstract!vars)
  <2>1. i \in Ids
    BY DEF IInv, TypeOK
  <2> QED
    BY <1>2, <2>1, ScriptAppears DEF Abstract!Next, Abstract!vars, Entries
<1>3. CASE Flush
  <2>1. \A s \in Scopes : board'[s][AllTime][0] = [u \in Users |-> NoScore]
    BY <1>3, AllTimeWindow DEF Flush, NoBoards
  <2>2. Entries' = [g \in Games |-> [u \in Users |-> NoScore]]
    BY <2>1 DEF Entries, Scopes
  <2>3. Abstract!Vanish
    BY <1>3, <2>1, <2>2 DEF Flush, Abstract!Vanish, Abstract!Blank, Abstract!NoScore, Abstract!Games,
                            NoScore, Games, Global, Scopes, Entries
  <2> QED
    BY <2>3 DEF Abstract!Next
<1>4. CASE Tick
  <2>1. \A s \in Scopes : board'[s][AllTime][0] = board[s][AllTime][0]
    BY <1>4, AllTimeWindow, TickKeepsLive DEF IInv, TypeOK
  <2> QED
    BY <1>4, <2>1 DEF Tick, Abstract!vars, Scopes, Games, Global
<1>5. CASE UNCHANGED <<scores, board>>
  BY <1>5 DEF Abstract!vars
<1>6. Record \/ UNCHANGED scores
  BY DEF Next, Request, InlineSubmit, InlineSubmitFails, InlineMark, InlineMarkFails, Worker,
         SweepList, SweepSubmit, SweepSubmitFails, SweepMark, SweepMarkFails, Redis, StrayRun,
         Flush, Tick, vars
<1> QED
  BY <1>1, <1>2, <1>3, <1>4, <1>5, <1>6, RedisSteps DEF IInv, Base

(* Projection implements Standings: inline projections, sweeps, retries    *)
(* and abandoned calls, whatever their number and order, are invisible to  *)
(* a reader of the all-time boards but for scores appearing once and for   *)
(* all (submit.lua, project, Sweep).                                       *)
THEOREM ProjectionImplementsStandings == Spec => ImplementsStandings
PROOF
<1>1. Init => Abstract!Init
  BY AllTimeWindow
  DEF Init, NoBoards, Abstract!Init, Abstract!Blank, Abstract!NoScore, Abstract!Games, NoScore,
      Games, Scopes, Global
<1>2. IInv /\ IInv' /\ [Next]_vars => [Abstract!Next]_(Abstract!vars)
  BY StepImplements
<1> QED
  BY <1>1, <1>2, Inductive, PTL DEF Spec, ImplementsStandings, Abstract!Spec

=============================================================================
