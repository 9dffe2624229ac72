----------------------------- MODULE HistoryProofs -----------------------------
(***************************************************************************)
(* Reports and Rebuild, which both work from the rows of score_events, for *)
(* every set of users, periods, windows, TTLs, bounds and rebuilders.      *)
(*                                                                         *)
(* Reports: the three sources of a report agree.  The aggregations are     *)
(* restated as functions of the rows (AggregateOf), which only grow; so a  *)
(* row that was right when it was read never says too much (FrozenBelow,   *)
(* HeldBelow), and is exact for as long as no row it would need has been   *)
(* recorded since (FrozenFresh, HeldFresh).  That a board says what the    *)
(* rows do is IInv of ProjectionProofs, with EntriesRecorded and           *)
(* TotalPresent, which hold beyond a key's lifetime.                       *)
(*                                                                         *)
(* Rebuild: RBase says that a rebuild disturbs nothing projection relies   *)
(* on: the staging keys, which become boards, expire no earlier than the   *)
(* boards would.  QuietInv and DeliverInv follow one rebuild through its   *)
(* walk: what it holds of the query (rbest), what it has staged, and the   *)
(* keys it has been through (Through), which are exactly right if nothing  *)
(* else happened, and hold what is owed otherwise.                         *)
(***************************************************************************)
EXTENDS Reports, Rebuild, ProjectionProofs

(* Rows as score_events has them.                                          *)
IsRows(sc) == sc \in [DOMAIN sc -> Event]

(* Row i is one of user u in game g that an aggregation of the window uses. *)
Uses(sc, i, p, w, g, u) ==
    /\ i \in DOMAIN sc
    /\ p = AllTime \/ WindowStart[p][sc[i].at] = w
    /\ sc[i].game = g
    /\ sc[i].user = u

PointsOf(sc, p, w, g, u) == {sc[i].points : i \in {j \in DOMAIN sc : Uses(sc, j, p, w, g, u)}}

BestIn(sc, p, w, g, u) ==
    IF PointsOf(sc, p, w, g, u) = {} THEN NoScore ELSE Max(PointsOf(sc, p, w, g, u))

TotalIn(sc, p, w, u) ==
    IF \A g \in Games : BestIn(sc, p, w, g, u) = NoScore THEN NoScore
    ELSE SumOverGames([g \in Games |-> Value(BestIn(sc, p, w, g, u))])

AggregateOf(sc, s, p, w, u) == IF s = Global THEN TotalIn(sc, p, w, u) ELSE BestIn(sc, p, w, s, u)

(* BestIn is the best of the rows used, and NoScore without any.           *)
LEMMA BestInIs ==
    ASSUME NEW sc, IsRows(sc), NEW p, NEW w, NEW g, NEW u
    PROVE  /\ BestIn(sc, p, w, g, u) \in Nat \cup {NoScore}
           /\ \A i \in DOMAIN sc : Uses(sc, i, p, w, g, u) => sc[i].points =< BestIn(sc, p, w, g, u)
           /\ BestIn(sc, p, w, g, u) # NoScore =>
                \E i \in DOMAIN sc : Uses(sc, i, p, w, g, u) /\ sc[i].points = BestIn(sc, p, w, g, u)
PROOF
<1>1. PICK S : S = PointsOf(sc, p, w, g, u)
  OBVIOUS
<1>2. \A i \in DOMAIN sc : sc[i].points \in 0 .. MaxPoints
  BY DEF IsRows, Event, Points
<1>3. S \subseteq 0 .. MaxPoints
  BY <1>1, <1>2 DEF PointsOf
<1>4. BestIn(sc, p, w, g, u) = IF S = {} THEN NoScore ELSE Max(S)
  BY <1>1 DEF BestIn
<1>5. S # {} => Max(S) \in S /\ \A y \in S : y =< Max(S)
  BY <1>3, TimeAssumption, MaxOfBounded
<1>6. \A i \in DOMAIN sc : Uses(sc, i, p, w, g, u) => sc[i].points \in S
  BY <1>1 DEF PointsOf
<1>7. \A y \in S : \E i \in DOMAIN sc : Uses(sc, i, p, w, g, u) /\ sc[i].points = y
  BY <1>1 DEF PointsOf
<1>8. Max(S) \in S => Max(S) \in Nat
  <2>1. \A y \in S : y \in Nat
    BY <1>3
  <2> QED
    BY <2>1, Zenon
<1>9. CASE S = {}
  <2>1. \A i \in DOMAIN sc : ~Uses(sc, i, p, w, g, u)
    BY <1>6, <1>9
  <2> QED
    BY <1>4, <1>9, <2>1
<1>10. CASE S # {}
  <2>1. BestIn(sc, p, w, g, u) = Max(S)
    BY <1>4, <1>10
  <2>2. Max(S) \in S /\ Max(S) \in Nat /\ \A y \in S : y =< Max(S)
    BY <1>5, <1>8, <1>10
  <2> QED
    BY <1>6, <1>7, <2>1, <2>2
<1> QED
  BY <1>9, <1>10

(* More rows never make a best smaller.                                    *)
LEMMA BestInGrows ==
    ASSUME NEW sc, NEW tc, IsRows(sc), IsRows(tc), DOMAIN sc \subseteq DOMAIN tc,
           \A i \in DOMAIN sc : tc[i] = sc[i], NEW p, NEW w, NEW g, NEW u
    PROVE  BestIn(sc, p, w, g, u) =< BestIn(tc, p, w, g, u)
PROOF
<1>1. PICK b : b = BestIn(sc, p, w, g, u)
  OBVIOUS
<1>2. PICK c : c = BestIn(tc, p, w, g, u)
  OBVIOUS
<1>3. /\ b \in Nat \cup {NoScore} /\ c \in Nat \cup {NoScore}
      /\ b # NoScore => \E i \in DOMAIN sc : Uses(sc, i, p, w, g, u) /\ sc[i].points = b
      /\ \A i \in DOMAIN tc : Uses(tc, i, p, w, g, u) => tc[i].points =< c
  BY <1>1, <1>2, BestInIs
<1>4. \A i \in DOMAIN sc : Uses(sc, i, p, w, g, u) => Uses(tc, i, p, w, g, u)
  BY DEF Uses
<1>5. b # NoScore => b =< c
  BY <1>3, <1>4
<1> QED
  BY <1>1, <1>2, <1>3, <1>5 DEF NoScore

(* The total is a number exactly when some best is.                        *)
LEMMA TotalInIs ==
    ASSUME NEW sc, IsRows(sc), NEW p, NEW w, NEW u
    PROVE  /\ TotalIn(sc, p, w, u) \in Nat \cup {NoScore}
           /\ TotalIn(sc, p, w, u) # NoScore <=> \E g \in Games : BestIn(sc, p, w, g, u) # NoScore
           /\ Value(TotalIn(sc, p, w, u)) = SumOverGames([g \in Games |-> Value(BestIn(sc, p, w, g, u))])
PROOF
<1>1. PICK f : f = [g \in Games |-> Value(BestIn(sc, p, w, g, u))]
  OBVIOUS
<1>2. \A g \in Games : f[g] \in Nat
  BY <1>1, BestInIs DEF Value, NoScore
<1>3. SumOverGames(f) \in Nat
  BY <1>2, SumOverGamesNat
<1>4. TotalIn(sc, p, w, u) = IF \A g \in Games : BestIn(sc, p, w, g, u) = NoScore THEN NoScore
                             ELSE SumOverGames(f)
  BY <1>1 DEF TotalIn
<1>5. CASE \A g \in Games : BestIn(sc, p, w, g, u) = NoScore
  <2>1. \A g \in Games : f[g] = 0
    BY <1>1, <1>5 DEF Value
  <2>2. SumOverGames(f) = 0
    BY <2>1 DEF SumOverGames, Games
  <2> QED
    BY <1>1, <1>4, <1>5, <2>2 DEF Value
<1>6. CASE ~\A g \in Games : BestIn(sc, p, w, g, u) = NoScore
  BY <1>1, <1>3, <1>4, <1>6 DEF Value, NoScore
<1> QED
  BY <1>5, <1>6

(* An aggregation never loses points as rows are recorded.                 *)
LEMMA AggregateGrows ==
    ASSUME NEW sc, NEW tc, IsRows(sc), IsRows(tc), DOMAIN sc \subseteq DOMAIN tc,
           \A i \in DOMAIN sc : tc[i] = sc[i], NEW s, NEW p, NEW w, NEW u
    PROVE  /\ AggregateOf(sc, s, p, w, u) \in Nat \cup {NoScore}
           /\ AggregateOf(tc, s, p, w, u) \in Nat \cup {NoScore}
           /\ AggregateOf(sc, s, p, w, u) =< AggregateOf(tc, s, p, w, u)
PROOF
<1>1. CASE s # Global
  BY <1>1, BestInIs, BestInGrows DEF AggregateOf
<1>2. CASE s = Global
  <2>1. PICK f : f = [g \in Games |-> Value(BestIn(sc, p, w, g, u))]
    OBVIOUS
  <2>2. PICK h : h = [g \in Games |-> Value(BestIn(tc, p, w, g, u))]
    OBVIOUS
  <2>3. ASSUME NEW g \in Games
        PROVE  f[g] \in Nat /\ h[g] \in Nat /\ f[g] =< h[g]
    <3>1. PICK b, c : b = BestIn(sc, p, w, g, u) /\ c = BestIn(tc, p, w, g, u)
      OBVIOUS
    <3>2. b \in Nat \cup {NoScore} /\ c \in Nat \cup {NoScore} /\ b =< c
      BY <3>1, BestInIs, BestInGrows
    <3> QED
      BY <2>1, <2>2, <3>1, <3>2 DEF Value, NoScore
  <2>4. SumOverGames(f) =< SumOverGames(h) /\ SumOverGames(f) \in Nat /\ SumOverGames(h) \in Nat
    BY <2>3, SumOverGamesMonotone, SumOverGamesNat
  <2>5. PICK b, c : b = TotalIn(sc, p, w, u) /\ c = TotalIn(tc, p, w, u)
    OBVIOUS
  <2>6. /\ b \in Nat \cup {NoScore} /\ c \in Nat \cup {NoScore}
        /\ Value(b) = SumOverGames(f) /\ Value(c) = SumOverGames(h)
        /\ b # NoScore <=> \E g \in Games : BestIn(sc, p, w, g, u) # NoScore
        /\ c # NoScore <=> \E g \in Games : BestIn(tc, p, w, g, u) # NoScore
    BY <2>1, <2>2, <2>5, TotalInIs
  <2>7. ASSUME b # NoScore PROVE c # NoScore
    <3>1. PICK g \in Games : BestIn(sc, p, w, g, u) # NoScore
      BY <2>6, <2>7
    <3>2. PICK i \in DOMAIN sc : Uses(sc, i, p, w, g, u)
      BY <3>1, BestInIs
    <3>3. i \in DOMAIN tc /\ Uses(tc, i, p, w, g, u) /\ tc[i].points \in Nat
      BY <3>2, TimeAssumption DEF Uses, IsRows, Event, Points
    <3>4. tc[i].points =< BestIn(tc, p, w, g, u)
      BY <3>3, BestInIs
    <3>5. BestIn(tc, p, w, g, u) # NoScore
      BY <3>3, <3>4 DEF NoScore
    <3> QED
      BY <2>6, <3>5
  <2>8. b =< c
    BY <2>4, <2>6, <2>7 DEF Value, NoScore
  <2> QED
    BY <1>2, <2>5, <2>6, <2>8 DEF AggregateOf
<1> QED
  BY <1>1, <1>2

(* The rows an aggregation of a window is about.                           *)
Source(sc, s, p, w) ==
    {i \in DOMAIN sc : WindowStart[p][sc[i].at] = w /\ (s = Global \/ sc[i].game = s)}

(* Rows that an aggregation is not about do not change it.                 *)
LEMMA AggregateKeeps ==
    ASSUME NEW sc, NEW tc, IsRows(sc), IsRows(tc), DOMAIN sc \subseteq DOMAIN tc,
           \A i \in DOMAIN sc : tc[i] = sc[i], NEW s \in Scopes, NEW p, NEW w, NEW u,
           p = AllTime => w = 0, Source(tc, s, p, w) \subseteq DOMAIN sc
    PROVE  AggregateOf(sc, s, p, w, u) = AggregateOf(tc, s, p, w, u)
PROOF
<1>1. ASSUME NEW g \in Games, s = Global \/ g = s
      PROVE  BestIn(sc, p, w, g, u) = BestIn(tc, p, w, g, u)
  <2>1. ASSUME NEW i, Uses(tc, i, p, w, g, u) PROVE i \in DOMAIN sc
    <3>1. i \in DOMAIN tc /\ tc[i].at \in Time
      BY <2>1 DEF Uses, IsRows, Event
    <3>2. WindowStart[p][tc[i].at] = w
      BY <2>1, <3>1, WindowAssumption DEF Uses
    <3> QED
      BY <1>1, <2>1, <3>1, <3>2 DEF Source, Uses
  <2>2. \A i : Uses(sc, i, p, w, g, u) <=> Uses(tc, i, p, w, g, u)
    BY <2>1 DEF Uses
  <2>3. {j \in DOMAIN sc : Uses(sc, j, p, w, g, u)} = {j \in DOMAIN tc : Uses(tc, j, p, w, g, u)}
    BY <2>1, <2>2
  <2>4. PointsOf(sc, p, w, g, u) = PointsOf(tc, p, w, g, u)
    <3>1. PICK D : D = {j \in DOMAIN sc : Uses(sc, j, p, w, g, u)}
      OBVIOUS
    <3>2. D \subseteq DOMAIN sc /\ PointsOf(sc, p, w, g, u) = {sc[i].points : i \in D}
                                /\ PointsOf(tc, p, w, g, u) = {tc[i].points : i \in D}
      BY <2>3, <3>1, Zenon DEF PointsOf
    <3> QED
      BY <3>2
  <2> QED
    BY <2>4 DEF BestIn
<1>2. CASE s # Global
  BY <1>1, <1>2 DEF AggregateOf, Scopes
<1>3. CASE s = Global
  <2>1. \A g \in Games : BestIn(sc, p, w, g, u) = BestIn(tc, p, w, g, u)
    BY <1>1, <1>3
  <2>2. [g \in Games |-> Value(BestIn(sc, p, w, g, u))] = [g \in Games |-> Value(BestIn(tc, p, w, g, u))]
    BY <2>1, Zenon
  <2>3. TotalIn(sc, p, w, u) = TotalIn(tc, p, w, u)
    BY <2>1, <2>2 DEF TotalIn
  <2> QED
    BY <1>3, <2>3 DEF AggregateOf
<1> QED
  BY <1>2, <1>3

(* Of no rows, the aggregation of anybody is empty.                        *)
LEMMA AggregateOfNone ==
    ASSUME NEW sc, DOMAIN sc = {}, NEW s, NEW p, NEW w, NEW u
    PROVE  AggregateOf(sc, s, p, w, u) = NoScore
PROOF
<1>1. \A g : PointsOf(sc, p, w, g, u) = {}
  BY DEF PointsOf, Uses
<1>2. \A g : BestIn(sc, p, w, g, u) = NoScore
  BY <1>1 DEF BestIn
<1> QED
  BY <1>2 DEF AggregateOf, TotalIn

(* Points that were computed from the rows ids, all of a window: exact     *)
(* while there are no others.                                              *)
FreshIn(sc, ids, points, s, p, w) ==
    /\ ids \subseteq Source(sc, s, p, w)
    /\ ids = Source(sc, s, p, w) => \A u \in Users : points[u] = AggregateOf(sc, s, p, w, u)

(* Rows recorded meanwhile leave that in place.                            *)
LEMMA FreshGrows ==
    ASSUME NEW sc, NEW tc, IsRows(sc), IsRows(tc), DOMAIN sc \subseteq DOMAIN tc,
           \A i \in DOMAIN sc : tc[i] = sc[i], NEW s \in Scopes, NEW p, NEW w,
           p = AllTime => w = 0, NEW ids, NEW points, FreshIn(sc, ids, points, s, p, w)
    PROVE  FreshIn(tc, ids, points, s, p, w)
PROOF
<1>1. Source(sc, s, p, w) \subseteq Source(tc, s, p, w)
  BY DEF Source
<1>2. ids \subseteq Source(tc, s, p, w)
  BY <1>1 DEF FreshIn
<1>3. ASSUME ids = Source(tc, s, p, w), NEW u \in Users
      PROVE  points[u] = AggregateOf(tc, s, p, w, u)
  <2>1. ids = Source(sc, s, p, w)
    BY <1>1, <1>3 DEF FreshIn
  <2>2. Source(tc, s, p, w) \subseteq DOMAIN sc
    BY <1>3, <2>1 DEF Source
  <2>3. AggregateOf(sc, s, p, w, u) = AggregateOf(tc, s, p, w, u)
    BY <2>2, AggregateKeeps
  <2> QED
    BY <2>1, <2>3 DEF FreshIn
<1> QED
  BY <1>2, <1>3 DEF FreshIn

-----------------------------------------------------------------------------

(* The four queries of TopPlayers, as functions of the rows.               *)
AggregatesOfRows ==
    \A s \in Scopes, p \in Periods, w \in Time :
        Aggregate(s, p, w) = [u \in Users |-> AggregateOf(scores, s, p, w, u)]

(* Best of one game's rows.                                                *)
LEMMA BestOfGame ==
    ASSUME NEW p, NEW w, NEW g, NEW u
    PROVE  /\ p = AllTime => Best(OfGame(Recorded, g), u) = BestIn(scores, p, w, g, u)
           /\ p # AllTime => Best(OfGame(InWindow(p, w), g), u) = BestIn(scores, p, w, g, u)
PROOF
<1>1. ASSUME NEW ids, ids = IF p = AllTime THEN Recorded ELSE InWindow(p, w)
      PROVE  Best(OfGame(ids, g), u) = BestIn(scores, p, w, g, u)
  <2>1. {j \in OfGame(ids, g) : scores[j].user = u} = {j \in DOMAIN scores : Uses(scores, j, p, w, g, u)}
    BY <1>1 DEF OfGame, InWindow, Recorded, Uses
  <2>2. {scores[i].points : i \in {j \in OfGame(ids, g) : scores[j].user = u}}
            = PointsOf(scores, p, w, g, u)
    BY <2>1, Zenon DEF PointsOf
  <2> QED
    BY <2>2 DEF Best, BestIn
<1> QED
  BY <1>1

(* A player with a row has one in some game.                               *)
LEMMA BestOfAll ==
    ASSUME IsRows(scores), NEW p, NEW w, NEW u, NEW ids,
           ids = IF p = AllTime THEN Recorded ELSE InWindow(p, w)
    PROVE  Best(ids, u) = NoScore <=> \A g \in Games : BestIn(scores, p, w, g, u) = NoScore
PROOF
<1>1. PICK S : S = {scores[i].points : i \in {j \in ids : scores[j].user = u}}
  OBVIOUS
<1>2. \A i \in DOMAIN scores : scores[i].points \in 0 .. MaxPoints /\ scores[i].game \in Games
  BY DEF IsRows, Event, Points
<1>3. ids \subseteq DOMAIN scores
  BY DEF InWindow, Recorded
<1>4. S \subseteq 0 .. MaxPoints
  BY <1>1, <1>2, <1>3
<1>5. S # {} => Max(S) \in Nat
  <2>1. \A y \in S : y \in Nat
    BY <1>4
  <2>2. S # {} => Max(S) \in S
    BY <1>4, TimeAssumption, MaxOfBounded
  <2> QED
    BY <2>1, <2>2, Zenon
<1>6. Best(ids, u) = NoScore <=> S = {}
  <2>1. Best(ids, u) = IF S = {} THEN NoScore ELSE Max(S)
    BY <1>1 DEF Best
  <2>2. PICK m : m = Max(S)
    OBVIOUS
  <2> QED
    BY <1>5, <2>1, <2>2 DEF NoScore
<1>7. S = {} <=> \A i \in ids : scores[i].user # u
  BY <1>1
<1>8. ASSUME NEW g \in Games
      PROVE  BestIn(scores, p, w, g, u) = NoScore <=>
                \A i \in ids : ~(scores[i].user = u /\ scores[i].game = g)
  <2>1. \A i \in DOMAIN scores :
          Uses(scores, i, p, w, g, u) <=> i \in ids /\ scores[i].user = u /\ scores[i].game = g
    BY DEF Uses, InWindow, Recorded
  <2>2. PICK b : b = BestIn(scores, p, w, g, u)
    OBVIOUS
  <2>3. /\ \A i \in DOMAIN scores : Uses(scores, i, p, w, g, u) => scores[i].points =< b
        /\ b # NoScore => \E i \in DOMAIN scores : Uses(scores, i, p, w, g, u)
    BY <2>2, BestInIs
  <2>4. b = NoScore => \A i \in DOMAIN scores : ~Uses(scores, i, p, w, g, u)
    BY <1>2, <2>3, TimeAssumption DEF NoScore
  <2> QED
    BY <1>3, <2>1, <2>2, <2>3, <2>4
<1> QED
  BY <1>2, <1>3, <1>6, <1>7, <1>8

(* What each query returns.                                                *)
LEMMA AggregatesAre == TypeOK => AggregatesOfRows
PROOF
<1> SUFFICES ASSUME TypeOK, NEW s \in Scopes, NEW p \in Periods, NEW w \in Time
             PROVE  Aggregate(s, p, w) = [u \in Users |-> AggregateOf(scores, s, p, w, u)]
  BY DEF AggregatesOfRows
<1>1. IsRows(scores)
  BY DEF TypeOK, IsRows, Recorded
<1>2. PICK ids : ids = IF p = AllTime THEN Recorded ELSE InWindow(p, w)
  OBVIOUS
<1>3. CASE s = Global
  <2>1. Aggregate(s, p, w) = SumOfGames(ids)
    BY <1>2, <1>3 DEF Aggregate, TopPlayersGlobalAllTime, TopPlayersGlobalInWindow
  <2>2. ASSUME NEW u \in Users PROVE SumOfGames(ids)[u] = TotalIn(scores, p, w, u)
    <3>1. \A g \in Games : Best(OfGame(ids, g), u) = BestIn(scores, p, w, g, u)
      BY <1>2, BestOfGame
    <3>2. [g \in Games |-> Value(Best(OfGame(ids, g), u))] = [g \in Games |-> Value(BestIn(scores, p, w, g, u))]
      BY <3>1, Zenon
    <3>3. Best(ids, u) = NoScore <=> \A g \in Games : BestIn(scores, p, w, g, u) = NoScore
      BY <1>1, <1>2, BestOfAll
    <3> QED
      BY <3>2, <3>3 DEF SumOfGames, TotalIn
  <2>3. SumOfGames(ids) = [u \in Users |-> SumOfGames(ids)[u]]
    BY DEF SumOfGames
  <2>4. SumOfGames(ids) = [u \in Users |-> TotalIn(scores, p, w, u)]
    BY <2>2, <2>3, Zenon
  <2> QED
    BY <1>3, <2>1, <2>4 DEF AggregateOf
<1>4. CASE s # Global
  <2>1. Aggregate(s, p, w) = [u \in Users |-> Best(OfGame(ids, s), u)]
    BY <1>2, <1>4 DEF Aggregate, TopPlayersForGameAllTime, TopPlayersForGameInWindow
  <2>2. \A u \in Users : Best(OfGame(ids, s), u) = AggregateOf(scores, s, p, w, u)
    BY <1>2, <1>4, BestOfGame DEF AggregateOf
  <2> QED
    BY <2>1, <2>2, Zenon
<1> QED
  BY <1>3, <1>4

(* And in the next state.                                                  *)
LEMMA AggregatesAreNext == TypeOK' => AggregatesOfRows'
BY AggregatesAre, PTL

-----------------------------------------------------------------------------

(* The places of a pass, and the frozen rows, are well formed.             *)
ReportsTypeOK ==
    /\ frozen \in BoardType
    /\ taken \in [Scopes -> [Periods -> [Time -> SUBSET Ids]]]
    /\ pass \in [step : {"idle", "read", "store"}, at : Time, n : 1 .. Targets,
                 rows : [Users -> Nat \cup {NoScore}], ids : SUBSET Ids]

(* No frozen row has more than the history has.                            *)
FrozenBelow ==
    \A s \in Scopes, p \in Periods, w \in Time, u \in Users :
        frozen[s][p][w][u] =< AggregateOf(scores, s, p, w, u)

(* The window a pass is at, for target n of a pass that began at t.        *)
Closed(n, t) == WindowStart[TargetPeriod(n)][BeforeWindow(TargetPeriod(n), t)]

(* Neither have the rows a pass is about to store.                         *)
HeldBelow ==
    pass.step = "store" =>
        /\ BeforeWindow(TargetPeriod(pass.n), pass.at) \in Time
        /\ \A u \in Users : pass.rows[u] =<
                AggregateOf(scores, TargetScope(pass.n), TargetPeriod(pass.n), Closed(pass.n, pass.at), u)

(* A frozen row is exact unless scores of its window came later, and so are *)
(* the rows a pass is about to store.                                      *)
FrozenFresh ==
    \A s \in Scopes, p \in Periods, w \in Time :
        (p = AllTime => w = 0) => FreshIn(scores, taken[s][p][w], frozen[s][p][w], s, p, w)

HeldFresh ==
    pass.step = "store" =>
        FreshIn(scores, pass.ids, pass.rows,
                TargetScope(pass.n), TargetPeriod(pass.n), Closed(pass.n, pass.at))

ReportsInv == /\ IInv
              /\ EntriesRecorded
              /\ TotalPresent
              /\ ReportsTypeOK
              /\ FrozenBelow
              /\ HeldBelow
              /\ FrozenFresh
              /\ HeldFresh

(* Every target of a pass is a board of a period that closes.              *)
LEMMA TargetsTyped ==
    ASSUME NEW n \in 1 .. Targets
    PROVE  TargetScope(n) \in Scopes /\ TargetPeriod(n) \in Periods /\ TargetPeriod(n) # AllTime
PROOF
<1>1. PICK len : len = Len(ClosingPeriods)
  OBVIOUS
<1>2. len \in Nat /\ \A k \in 1 .. len : ClosingPeriods[k] \in Periods \ {AllTime}
  BY <1>1, ReportsAssumption
<1>3. Len(ScopeOrder) = 6 /\ \A k \in 1 .. 6 : ScopeOrder[k] \in Scopes
  BY DEF ScopeOrder, Scopes, Games
<1>4. n \in Nat /\ 1 =< n /\ n =< len * 6
  BY <1>1, <1>2, <1>3 DEF Targets
<1>5. ((n - 1) % 6) + 1 \in 1 .. 6 /\ ((n - 1) \div 6) + 1 \in 1 .. len
  BY <1>2, <1>4
<1> QED
  BY <1>1, <1>2, <1>3, <1>5 DEF TargetScope, TargetPeriod

(* There is a target.                                                      *)
LEMMA TargetsExist == Targets \in Nat \ {0}
PROOF
<1>1. PICK len : len = Len(ClosingPeriods)
  OBVIOUS
<1>2. len \in Nat \ {0}
  BY <1>1, ReportsAssumption
<1>3. Len(ScopeOrder) = 6
  BY DEF ScopeOrder
<1> QED
  BY <1>1, <1>2, <1>3 DEF Targets

(* What an aggregation returns is a report.                                *)
LEMMA AggregateTyped ==
    ASSUME TypeOK, NEW s \in Scopes, NEW p \in Periods, NEW w \in Time
    PROVE  /\ Aggregate(s, p, w) \in [Users -> Nat \cup {NoScore}]
           /\ \A u \in Users : Aggregate(s, p, w)[u] = AggregateOf(scores, s, p, w, u)
PROOF
<1>1. Aggregate(s, p, w) = [u \in Users |-> AggregateOf(scores, s, p, w, u)]
  BY AggregatesAre DEF AggregatesOfRows
<1>2. IsRows(scores)
  BY DEF TypeOK, IsRows, Recorded
<1>3. \A u \in Users : AggregateOf(scores, s, p, w, u) \in Nat \cup {NoScore}
  BY <1>2, AggregateGrows
<1> QED
  BY <1>1, <1>3

(* The initial state.                                                      *)
LEMMA InitReports == ReportsInit => ReportsInv
PROOF
<1> SUFFICES ASSUME ReportsInit PROVE ReportsInv
  OBVIOUS
<1>1. IInv /\ EntriesRecorded /\ TotalPresent /\ TypeOK
  BY InitIInv, InitEntries DEF ReportsInit, IInv
<1>2. ReportsTypeOK
  BY TargetsExist, TimeAssumption
  DEF ReportsInit, ReportsTypeOK, Resting, Nobody, BoardType, NoScore, Time
<1>3. FrozenBelow
  <2>1. IsRows(scores)
    BY <1>1 DEF TypeOK, IsRows, Recorded
  <2>2. ASSUME NEW s \in Scopes, NEW p \in Periods, NEW w \in Time, NEW u \in Users
        PROVE  frozen[s][p][w][u] =< AggregateOf(scores, s, p, w, u)
    <3>1. frozen[s][p][w][u] = NoScore
      BY DEF ReportsInit, Nobody
    <3>2. AggregateOf(scores, s, p, w, u) \in Nat \cup {NoScore}
      BY <2>1, AggregateGrows
    <3> QED
      BY <3>1, <3>2 DEF NoScore
  <2> QED
    BY <2>2 DEF FrozenBelow
<1>4. HeldBelow /\ HeldFresh
  BY DEF ReportsInit, Resting, HeldBelow, HeldFresh
<1>5. FrozenFresh
  <2>1. DOMAIN scores = {}
    BY DEF ReportsInit, Init
  <2>2. ASSUME NEW s \in Scopes, NEW p \in Periods, NEW w \in Time
        PROVE  FreshIn(scores, taken[s][p][w], frozen[s][p][w], s, p, w)
    <3>1. taken[s][p][w] = {} /\ \A u \in Users : frozen[s][p][w][u] = NoScore
      BY DEF ReportsInit, Nobody
    <3>2. Source(scores, s, p, w) = {}
      BY <2>1 DEF Source
    <3> QED
      BY <2>1, <3>1, <3>2, AggregateOfNone DEF FreshIn
  <2> QED
    BY <2>2 DEF FrozenFresh
<1> QED
  BY <1>1, <1>2, <1>3, <1>4, <1>5 DEF ReportsInv

(* Going on to the next target keeps the pass well formed, with nothing    *)
(* in hand.                                                                *)
LEMMA NextTargetTyped ==
    ASSUME ReportsTypeOK
    PROVE  /\ NextTarget \in [step : {"idle", "read", "store"}, at : Time, n : 1 .. Targets,
                              rows : [Users -> Nat \cup {NoScore}], ids : SUBSET Ids]
           /\ NextTarget.step # "store"
PROOF
<1>1. Nobody \in [Users -> Nat \cup {NoScore}]
  BY DEF Nobody
<1>2. Resting = [step |-> "idle", at |-> 0, n |-> 1, rows |-> Nobody, ids |-> {}]
  BY DEF Resting
<1>3. pass.n \in 1 .. Targets /\ pass.at \in Time
  BY DEF ReportsTypeOK
<1>4. CASE pass.n = Targets
  BY <1>1, <1>2, <1>4, TargetsExist, TimeAssumption DEF NextTarget, Time
<1>5. CASE pass.n # Targets
  <2>1. pass.n + 1 \in 1 .. Targets
    BY <1>3, <1>5, TargetsExist
  <2>2. PICK m : m = pass.n + 1
    OBVIOUS
  <2>3. NextTarget = [pass EXCEPT !.step = "read", !.n = m, !.rows = Nobody, !.ids = {}]
    BY <1>5, <2>2 DEF NextTarget
  <2> QED
    BY <1>1, <1>3, <2>1, <2>2, <2>3 DEF ReportsTypeOK
<1> QED
  BY <1>4, <1>5

(* Rows recorded meanwhile leave both bounds in place.                     *)
LEMMA BelowGrows ==
    ASSUME TypeOK, TypeOK', ReportsTypeOK, FrozenBelow, HeldBelow, FrozenFresh, HeldFresh,
           UNCHANGED reportVars,
           Recorded \subseteq Recorded', \A j \in Recorded : scores'[j] = scores[j]
    PROVE  FrozenBelow' /\ HeldBelow' /\ FrozenFresh' /\ HeldFresh' /\ ReportsTypeOK'
PROOF
<1>1. IsRows(scores) /\ IsRows(scores') /\ DOMAIN scores \subseteq DOMAIN scores'
      /\ \A j \in DOMAIN scores : scores'[j] = scores[j]
  BY DEF TypeOK, IsRows, Recorded
<1>2. frozen' = frozen /\ pass' = pass /\ taken' = taken
  BY DEF reportVars
<1>3. ASSUME NEW s \in Scopes, NEW p \in Periods, NEW w \in Time, NEW u \in Users,
             NEW x \in Nat \cup {NoScore}, x =< AggregateOf(scores, s, p, w, u)
      PROVE  x =< AggregateOf(scores', s, p, w, u)
  <2>1. PICK b, c : b = AggregateOf(scores, s, p, w, u) /\ c = AggregateOf(scores', s, p, w, u)
    OBVIOUS
  <2>2. b \in Nat \cup {NoScore} /\ c \in Nat \cup {NoScore} /\ b =< c
    BY <1>1, <2>1, AggregateGrows
  <2> QED
    BY <1>3, <2>1, <2>2 DEF NoScore
<1>4. FrozenBelow'
  <2>1. \A s \in Scopes, p \in Periods, w \in Time, u \in Users : frozen[s][p][w][u] \in Nat \cup {NoScore}
    BY DEF ReportsTypeOK, BoardType
  <2> QED
    BY <1>2, <1>3, <2>1 DEF FrozenBelow
<1>5. HeldBelow'
  <2> SUFFICES ASSUME pass.step = "store"
               PROVE  /\ BeforeWindow(TargetPeriod(pass.n), pass.at) \in Time
                      /\ \A u \in Users : pass.rows[u] =<
                            AggregateOf(scores', TargetScope(pass.n), TargetPeriod(pass.n),
                                        Closed(pass.n, pass.at), u)
    BY <1>2 DEF HeldBelow
  <2>1. BeforeWindow(TargetPeriod(pass.n), pass.at) \in Time
    BY DEF HeldBelow
  <2>2. TargetScope(pass.n) \in Scopes /\ TargetPeriod(pass.n) \in Periods
    BY TargetsTyped DEF ReportsTypeOK
  <2>3. Closed(pass.n, pass.at) \in Time
    BY <2>1, <2>2, WindowAssumption DEF Closed
  <2>4. \A u \in Users : pass.rows[u] \in Nat \cup {NoScore}
    BY DEF ReportsTypeOK
  <2>5. \A u \in Users : pass.rows[u] =< AggregateOf(scores, TargetScope(pass.n), TargetPeriod(pass.n),
                                                     Closed(pass.n, pass.at), u)
    BY DEF HeldBelow
  <2> QED
    BY <1>3, <2>1, <2>2, <2>3, <2>4, <2>5
<1>6. FrozenFresh'
  <2> SUFFICES ASSUME NEW s \in Scopes, NEW p \in Periods, NEW w \in Time, p = AllTime => w = 0
               PROVE  FreshIn(scores', taken[s][p][w], frozen[s][p][w], s, p, w)
    BY <1>2 DEF FrozenFresh
  <2>1. FreshIn(scores, taken[s][p][w], frozen[s][p][w], s, p, w)
    BY DEF FrozenFresh
  <2> QED
    BY <1>1, <2>1, FreshGrows
<1>7. HeldFresh'
  <2> SUFFICES ASSUME pass.step = "store"
               PROVE  FreshIn(scores', pass.ids, pass.rows, TargetScope(pass.n),
                              TargetPeriod(pass.n), Closed(pass.n, pass.at))
    BY <1>2 DEF HeldFresh
  <2>1. TargetScope(pass.n) \in Scopes /\ TargetPeriod(pass.n) # AllTime
    BY TargetsTyped DEF ReportsTypeOK
  <2>2. FreshIn(scores, pass.ids, pass.rows, TargetScope(pass.n), TargetPeriod(pass.n),
                Closed(pass.n, pass.at))
    BY DEF HeldFresh
  <2> QED
    BY <1>1, <2>1, <2>2, FreshGrows
<1> QED
  BY <1>2, <1>4, <1>5, <1>6, <1>7 DEF ReportsTypeOK

(* The rows a report is about, as a function of the rows there are.        *)
LEMMA RelevantIs ==
    ASSUME TypeOK, NEW s \in Scopes, NEW p, NEW w
    PROVE  Relevant(s, p, w) = Source(scores, s, p, w) /\ Relevant(s, p, w) \subseteq Ids
PROOF
<1>1. CASE s = Global
  BY <1>1 DEF Relevant, InWindow, Source, Recorded, TypeOK
<1>2. CASE s # Global
  BY <1>2 DEF Relevant, OfGame, InWindow, Source, Recorded, TypeOK
<1> QED
  BY <1>1, <1>2

(* A pass that reads takes what the rows say at that moment.               *)
LEMMA ReadBelow ==
    ASSUME TypeOK, ReportsTypeOK, FrozenBelow, FrozenFresh, PassRead
    PROVE  FrozenBelow' /\ HeldBelow' /\ FrozenFresh' /\ HeldFresh' /\ ReportsTypeOK'
PROOF
<1>1. PICK p, s, t : p = TargetPeriod(pass.n) /\ s = TargetScope(pass.n) /\ t = BeforeWindow(p, pass.at)
  OBVIOUS
<1>2. /\ p \in Periods /\ p # AllTime /\ s \in Scopes
      /\ pass.n \in 1 .. Targets /\ pass.at \in Time
  BY <1>1, TargetsTyped DEF ReportsTypeOK
<1>3. t # -1 => t \in Time
  <2>1. WindowStart[p][pass.at] \in Time
    BY <1>2, WindowAssumption
  <2> QED
    BY <1>1, <2>1, TimeAssumption DEF BeforeWindow, Time
<1>4. PICK rows : rows = IF t = -1 THEN Nobody ELSE Aggregate(s, p, WindowStart[p][t])
  OBVIOUS
<1>9. PICK ids : ids = IF t = -1 THEN {} ELSE Relevant(s, p, WindowStart[p][t])
  OBVIOUS
<1>5. /\ pass' = IF rows = Nobody THEN NextTarget
                  ELSE [pass EXCEPT !.step = "store", !.rows = rows, !.ids = ids]
      /\ frozen' = frozen /\ taken' = taken /\ scores' = scores
  BY <1>1, <1>4, <1>9 DEF PassRead, vars
<1>6. FrozenBelow' /\ FrozenFresh'
  BY <1>5 DEF FrozenBelow, FrozenFresh
<1>7. CASE rows = Nobody
  <2>1. pass' = NextTarget
    BY <1>5, <1>7
  <2>2. ReportsTypeOK'
    BY <1>5, <2>1, NextTargetTyped DEF ReportsTypeOK
  <2>3. HeldBelow' /\ HeldFresh'
    BY <2>1, NextTargetTyped DEF HeldBelow, HeldFresh
  <2> QED
    BY <1>6, <2>2, <2>3
<1>8. CASE rows # Nobody
  <2>1. t \in Time /\ rows = Aggregate(s, p, WindowStart[p][t]) /\ ids = Relevant(s, p, WindowStart[p][t])
    BY <1>3, <1>4, <1>8, <1>9
  <2>2. WindowStart[p][t] \in Time
    BY <1>2, <2>1, WindowAssumption
  <2>3. /\ rows \in [Users -> Nat \cup {NoScore}]
        /\ \A u \in Users : rows[u] = AggregateOf(scores, s, p, WindowStart[p][t], u)
    BY <1>2, <2>1, <2>2, AggregateTyped
  <2>7. ids = Source(scores, s, p, WindowStart[p][t]) /\ ids \subseteq Ids
    BY <1>2, <2>1, RelevantIs
  <2>4. pass' = [step |-> "store", at |-> pass.at, n |-> pass.n, rows |-> rows, ids |-> ids]
    <3>1. pass = [step |-> pass.step, at |-> pass.at, n |-> pass.n, rows |-> pass.rows, ids |-> pass.ids]
      BY DEF ReportsTypeOK
    <3> QED
      BY <1>5, <1>8, <3>1
  <2>5. ReportsTypeOK'
    BY <1>2, <1>5, <2>3, <2>4, <2>7 DEF ReportsTypeOK
  <2>6. HeldBelow'
    <3>1. Closed(pass.n, pass.at) = WindowStart[p][t]
      BY <1>1 DEF Closed
    <3>2. \A u \in Users : rows[u] =< AggregateOf(scores, s, p, WindowStart[p][t], u)
      <4> SUFFICES ASSUME NEW u \in Users
                   PROVE  rows[u] =< AggregateOf(scores, s, p, WindowStart[p][t], u)
        OBVIOUS
      <4>1. PICK x : x = AggregateOf(scores, s, p, WindowStart[p][t], u)
        OBVIOUS
      <4>2. rows[u] = x /\ rows[u] \in Nat \cup {NoScore}
        BY <2>3, <4>1
      <4>3. x =< x
        BY <4>2 DEF NoScore
      <4> QED
        BY <4>1, <4>2, <4>3
    <3>3. pass'.n = pass.n /\ pass'.at = pass.at /\ pass'.rows = rows
      BY <2>4
    <3> QED
      BY <1>1, <1>5, <2>1, <3>1, <3>2, <3>3 DEF HeldBelow
  <2>8. HeldFresh'
    <3>1. Closed(pass.n, pass.at) = WindowStart[p][t]
      BY <1>1 DEF Closed
    <3>2. FreshIn(scores, ids, rows, s, p, WindowStart[p][t])
      BY <2>3, <2>7 DEF FreshIn
    <3>3. pass'.n = pass.n /\ pass'.at = pass.at /\ pass'.rows = rows /\ pass'.ids = ids
      BY <2>4
    <3> QED
      BY <1>1, <1>5, <3>1, <3>2, <3>3 DEF HeldFresh
  <2> QED
    BY <1>6, <2>5, <2>6, <2>8
<1> QED
  BY <1>7, <1>8

(* What a pass stores is no more than the history has, and as fresh as it  *)
(* was in the pass's hands.                                                *)
LEMMA StoreBelow ==
    ASSUME TypeOK, ReportsTypeOK, FrozenBelow, HeldBelow, FrozenFresh, HeldFresh, PassStore
    PROVE  FrozenBelow' /\ HeldBelow' /\ FrozenFresh' /\ HeldFresh' /\ ReportsTypeOK'
PROOF
<1>1. PICK p, s, w : p = TargetPeriod(pass.n) /\ s = TargetScope(pass.n) /\ w = Closed(pass.n, pass.at)
  OBVIOUS
<1>2. /\ p \in Periods /\ s \in Scopes
      /\ BeforeWindow(p, pass.at) \in Time
      /\ \A u \in Users : pass.rows[u] =< AggregateOf(scores, s, p, w, u)
      /\ FreshIn(scores, pass.ids, pass.rows, s, p, w)
  BY <1>1, TargetsTyped DEF ReportsTypeOK, HeldBelow, HeldFresh, PassStore
<1>3. w \in Time
  BY <1>1, <1>2, WindowAssumption DEF Closed
<1>4. /\ frozen' = [frozen EXCEPT ![s][p][w] = pass.rows]
      /\ taken' = [taken EXCEPT ![s][p][w] = pass.ids]
      /\ pass' = NextTarget /\ scores' = scores
  BY <1>1 DEF PassStore, Closed, vars
<1>5. /\ pass.rows \in [Users -> Nat \cup {NoScore}] /\ frozen \in BoardType
      /\ pass.ids \in SUBSET Ids /\ taken \in [Scopes -> [Periods -> [Time -> SUBSET Ids]]]
  BY DEF ReportsTypeOK
<1>6. frozen' \in BoardType
  BY <1>2, <1>3, <1>4, <1>5 DEF BoardType
<1>10. taken' \in [Scopes -> [Periods -> [Time -> SUBSET Ids]]]
  BY <1>2, <1>3, <1>4, <1>5
<1>7. \A q \in Scopes, r \in Periods, v \in Time :
        frozen'[q][r][v] = IF q = s /\ r = p /\ v = w THEN pass.rows ELSE frozen[q][r][v]
  BY <1>2, <1>3, <1>4, <1>5 DEF BoardType
<1>11. \A q \in Scopes, r \in Periods, v \in Time :
        taken'[q][r][v] = IF q = s /\ r = p /\ v = w THEN pass.ids ELSE taken[q][r][v]
  BY <1>2, <1>3, <1>4, <1>5
<1>8. FrozenBelow'
  BY <1>2, <1>4, <1>7 DEF FrozenBelow
<1>12. FrozenFresh'
  <2> SUFFICES ASSUME NEW q \in Scopes, NEW r \in Periods, NEW v \in Time, r = AllTime => v = 0
               PROVE  FreshIn(scores, taken'[q][r][v], frozen'[q][r][v], q, r, v)
    BY <1>4 DEF FrozenFresh
  <2>1. CASE q = s /\ r = p /\ v = w
    BY <1>2, <1>7, <1>11, <2>1
  <2>2. CASE ~(q = s /\ r = p /\ v = w)
    <3>1. taken'[q][r][v] = taken[q][r][v] /\ frozen'[q][r][v] = frozen[q][r][v]
      BY <1>7, <1>11, <2>2
    <3> QED
      BY <3>1 DEF FrozenFresh
  <2> QED
    BY <2>1, <2>2
<1>9. ReportsTypeOK' /\ HeldBelow' /\ HeldFresh'
  BY <1>4, <1>6, <1>10, NextTargetTyped DEF ReportsTypeOK, HeldBelow, HeldFresh
<1> QED
  BY <1>8, <1>9, <1>12

(* Every step preserves the invariant.                                     *)
LEMMA NextReports == ReportsInv /\ [ReportsNext]_allReportVars => ReportsInv'
PROOF
<1> SUFFICES ASSUME ReportsInv, [ReportsNext]_allReportVars PROVE ReportsInv'
  OBVIOUS
<1>0. /\ IInv /\ EntriesRecorded /\ TotalPresent /\ ReportsTypeOK /\ FrozenBelow /\ HeldBelow
      /\ FrozenFresh /\ HeldFresh /\ TypeOK
  BY DEF ReportsInv, IInv
<1>1. CASE [Next]_vars /\ UNCHANGED reportVars
  <2>1. IInv' /\ EntriesRecorded' /\ TotalPresent'
    BY <1>0, <1>1, NextIInv, NextEntries
  <2>2. TypeOK'
    BY <2>1 DEF IInv
  <2>3. FrozenBelow' /\ HeldBelow' /\ FrozenFresh' /\ HeldFresh' /\ ReportsTypeOK'
    BY <1>0, <1>1, <2>2, RowsStay, BelowGrows
  <2> QED
    BY <2>1, <2>3 DEF ReportsInv
<1>2. ASSUME UNCHANGED vars PROVE IInv' /\ EntriesRecorded' /\ TotalPresent'
  BY <1>0, <1>2, NextIInv, NextEntries
<1>3. CASE PassBegin
  <2>1. ReportsTypeOK' /\ HeldBelow' /\ HeldFresh'
    <3>1. /\ pass' = [step |-> "read", at |-> now, n |-> 1, rows |-> Nobody, ids |-> {}]
          /\ frozen' = frozen /\ taken' = taken
      BY <1>3 DEF PassBegin, Resting
    <3>2. Nobody \in [Users -> Nat \cup {NoScore}] /\ now \in Time /\ 1 \in 1 .. Targets
      BY <1>0, TargetsExist DEF Nobody, TypeOK
    <3> QED
      BY <1>0, <3>1, <3>2 DEF ReportsTypeOK, HeldBelow, HeldFresh
  <2>2. FrozenBelow' /\ FrozenFresh'
    BY <1>0, <1>3 DEF PassBegin, FrozenBelow, FrozenFresh, vars
  <2> QED
    BY <1>2, <1>3, <2>1, <2>2 DEF PassBegin, ReportsInv
<1>4. CASE PassRead
  BY <1>0, <1>2, <1>4, ReadBelow DEF PassRead, ReportsInv
<1>5. CASE PassStore
  BY <1>0, <1>2, <1>5, StoreBelow DEF PassStore, ReportsInv
<1>6. CASE PassFails
  <2>1. ReportsTypeOK' /\ HeldBelow' /\ HeldFresh'
    <3>1. /\ pass' = [step |-> "idle", at |-> 0, n |-> 1, rows |-> Nobody, ids |-> {}]
          /\ frozen' = frozen /\ taken' = taken
      BY <1>6 DEF PassFails, Resting
    <3>2. Nobody \in [Users -> Nat \cup {NoScore}] /\ 0 \in Time /\ 1 \in 1 .. Targets
      BY TargetsExist, TimeAssumption DEF Nobody, Time
    <3> QED
      BY <1>0, <3>1, <3>2 DEF ReportsTypeOK, HeldBelow, HeldFresh
  <2>2. FrozenBelow' /\ FrozenFresh'
    BY <1>0, <1>6 DEF PassFails, FrozenBelow, FrozenFresh, vars
  <2> QED
    BY <1>2, <1>6, <2>1, <2>2 DEF PassFails, ReportsInv
<1>7. CASE UNCHANGED allReportVars
  BY <1>1, <1>7 DEF allReportVars
<1> QED
  BY <1>1, <1>3, <1>4, <1>5, <1>6, <1>7 DEF ReportsNext, Pass

-----------------------------------------------------------------------------

(* An entry of a game's board is no more than its best in the history.     *)
LEMMA EntryBelow ==
    ASSUME TypeOK, EntriesRecorded, NEW g \in Games, NEW p \in Periods, NEW w \in Time, NEW u \in Users
    PROVE  /\ board[g][p][w][u] \in Nat \cup {NoScore}
           /\ board[g][p][w][u] =< BestIn(scores, p, w, g, u)
PROOF
<1>1. PICK x, b : x = board[g][p][w][u] /\ b = BestIn(scores, p, w, g, u)
  OBVIOUS
<1>2. x \in Nat \cup {NoScore}
  BY <1>1 DEF TypeOK, BoardType, Scopes
<1>3. /\ b \in Nat \cup {NoScore}
      /\ \A i \in DOMAIN scores : Uses(scores, i, p, w, g, u) => scores[i].points =< b
  <2>1. IsRows(scores)
    BY DEF TypeOK, IsRows, Recorded
  <2> QED
    BY <1>1, <2>1, BestInIs
<1>4. ASSUME x # NoScore PROVE x =< b
  <2>1. PICK i \in Recorded : Counts(i, g, p, w, u) /\ scores[i].points = x
    BY <1>1, <1>4 DEF EntriesRecorded
  <2>2. Uses(scores, i, p, w, g, u) /\ i \in DOMAIN scores
    BY <2>1 DEF Counts, Uses, Recorded
  <2> QED
    BY <1>3, <2>1, <2>2
<1>5. x =< b
  BY <1>2, <1>3, <1>4 DEF NoScore
<1> QED
  BY <1>1, <1>2, <1>5

(* The entries a total is made of, and the bests the history has.          *)
EntriesOf(p, w, u) == [g \in Games |-> Value(board[g][p][w][u])]
BestsOf(p, w, u) == [g \in Games |-> Value(BestIn(scores, p, w, g, u))]

(* No board has more than the history, but for a total of a window whose   *)
(* keys may have expired.                                                  *)
LEMMA BoardBelow ==
    ASSUME ReportsInv, NEW s \in Scopes, NEW p \in Periods, NEW w \in Time, NEW u \in Users,
           s # Global \/ LiveAt(p, w, now)
    PROVE  board[s][p][w][u] =< AggregateOf(scores, s, p, w, u)
PROOF
<1>0. TypeOK /\ EntriesRecorded /\ TotalPresent /\ GlobalIsSumOfBests /\ IsRows(scores)
  BY DEF ReportsInv, IInv, TypeOK, IsRows, Recorded
<1>1. CASE s # Global
  BY <1>0, <1>1, EntryBelow DEF AggregateOf, Scopes
<1>2. CASE s = Global
  <2>1. PICK x, t : x = board[Global][p][w][u] /\ t = TotalIn(scores, p, w, u)
    OBVIOUS
  <2>2. PICK f, h : f = EntriesOf(p, w, u) /\ h = BestsOf(p, w, u)
    OBVIOUS
  <2>3. ASSUME NEW g \in Games PROVE f[g] \in Nat /\ h[g] \in Nat /\ f[g] =< h[g]
    <3>1. PICK y, b : y = board[g][p][w][u] /\ b = BestIn(scores, p, w, g, u)
      OBVIOUS
    <3>2. y \in Nat \cup {NoScore} /\ b \in Nat \cup {NoScore} /\ y =< b
      BY <1>0, <3>1, EntryBelow, BestInIs
    <3>3. f[g] = Value(y) /\ h[g] = Value(b)
      BY <2>2, <3>1 DEF EntriesOf, BestsOf
    <3> QED
      BY <3>2, <3>3 DEF Value, NoScore
  <2>4. SumOverGames(f) =< SumOverGames(h)
    BY <2>3, SumOverGamesMonotone
  <2>5. Value(x) = SumOverGames(f)
    BY <1>0, <1>2, <2>1, <2>2 DEF GlobalIsSumOfBests, SumOfBests, EntriesOf
  <2>6. /\ t \in Nat \cup {NoScore} /\ Value(t) = SumOverGames(h)
        /\ t # NoScore <=> \E g \in Games : BestIn(scores, p, w, g, u) # NoScore
    BY <1>0, <2>1, <2>2, TotalInIs DEF BestsOf
  <2>7. x \in Nat \cup {NoScore}
    BY <1>0, <2>1 DEF TypeOK, BoardType, Scopes
  <2>8. ASSUME x # NoScore PROVE t # NoScore
    <3>1. PICK g \in Games : board[g][p][w][u] # NoScore
      BY <1>0, <1>2, <2>1, <2>8 DEF TotalPresent
    <3>2. BestIn(scores, p, w, g, u) # NoScore
      <4>1. PICK y, b : y = board[g][p][w][u] /\ b = BestIn(scores, p, w, g, u)
        OBVIOUS
      <4>2. y \in Nat \cup {NoScore} /\ y =< b /\ y # NoScore
        BY <1>0, <3>1, <4>1, EntryBelow
      <4> QED
        BY <4>1, <4>2 DEF NoScore
    <3> QED
      BY <2>6, <3>2
  <2>9. x =< t
    BY <2>4, <2>5, <2>6, <2>7, <2>8 DEF Value, NoScore
  <2> QED
    BY <1>2, <2>1, <2>9 DEF AggregateOf
<1> QED
  BY <1>1, <1>2

(* Once a window's scores are delivered its boards are what the history    *)
(* says.                                                                   *)
LEMMA BoardExact ==
    ASSUME ReportsInv, NEW s \in Scopes, NEW p \in Periods, NEW w \in Time, NEW u \in Users,
           Delivered(p, w), p # AllTime \/ w = 0
    PROVE  board[s][p][w][u] = AggregateOf(scores, s, p, w, u)
PROOF
<1>0. /\ TypeOK /\ EntriesRecorded /\ TotalPresent /\ GlobalIsSumOfBests /\ BoardHoldsTheBest
      /\ IsRows(scores) /\ LiveAt(p, w, now)
  BY DEF ReportsInv, IInv, TypeOK, IsRows, Recorded, Delivered
<1>1. ASSUME NEW g \in Games PROVE board[g][p][w][u] = BestIn(scores, p, w, g, u)
  <2>1. PICK y, b : y = board[g][p][w][u] /\ b = BestIn(scores, p, w, g, u)
    OBVIOUS
  <2>2. /\ y \in Nat \cup {NoScore} /\ b \in Nat \cup {NoScore} /\ y =< b
        /\ b # NoScore => \E i \in DOMAIN scores : Uses(scores, i, p, w, g, u) /\ scores[i].points = b
    BY <1>0, <2>1, EntryBelow, BestInIs
  <2>3. ASSUME b # NoScore PROVE b =< y
    <3>1. PICK i \in DOMAIN scores : Uses(scores, i, p, w, g, u) /\ scores[i].points = b
      BY <2>2, <2>3
    <3>2. WindowStart[p][scores[i].at] = w
      <4>1. scores[i].at \in Time
        BY <1>0 DEF IsRows, Event
      <4> QED
        BY <3>1, <4>1, WindowAssumption DEF Uses
    <3>3. i \in ran /\ Counts(i, g, p, w, u)
      BY <3>1, <3>2 DEF Delivered, InWindow, Recorded, Uses, Counts
    <3> QED
      BY <1>0, <2>1, <3>1, <3>3 DEF BoardHoldsTheBest
  <2>4. y = b
    BY <2>2, <2>3 DEF NoScore
  <2> QED
    BY <2>1, <2>4
<1>2. CASE s # Global
  BY <1>1, <1>2 DEF AggregateOf, Scopes
<1>3. CASE s = Global
  <2>1. PICK x, t : x = board[Global][p][w][u] /\ t = TotalIn(scores, p, w, u)
    OBVIOUS
  <2>2. EntriesOf(p, w, u) = BestsOf(p, w, u)
    BY <1>1, Zenon DEF EntriesOf, BestsOf
  <2>3. Value(x) = Value(t)
    <3>1. Value(x) = SumOverGames(EntriesOf(p, w, u))
      BY <1>0, <2>1 DEF GlobalIsSumOfBests, SumOfBests, EntriesOf
    <3>2. Value(t) = SumOverGames(BestsOf(p, w, u))
      BY <1>0, <2>1, TotalInIs DEF BestsOf
    <3> QED
      BY <2>2, <3>1, <3>2
  <2>4. x # NoScore <=> t # NoScore
    <3>1. x # NoScore <=> \E g \in Games : board[g][p][w][u] # NoScore
      BY <1>0, <2>1 DEF TotalPresent
    <3>2. t # NoScore <=> \E g \in Games : BestIn(scores, p, w, g, u) # NoScore
      BY <1>0, <2>1, TotalInIs
    <3> QED
      BY <1>1, <3>1, <3>2
  <2>5. x = t
    BY <2>3, <2>4 DEF Value
  <2> QED
    BY <1>3, <2>1, <2>5 DEF AggregateOf
<1> QED
  BY <1>2, <1>3

(* The invariant is what SourcesAgree needs.                               *)
LEMMA InvAgrees == ReportsInv => SourcesAgree
PROOF
<1> SUFFICES ASSUME ReportsInv, NEW s \in Scopes, NEW p \in Periods, NEW w \in Windows(p)
             PROVE  /\ Delivered(p, w) => board[s][p][w] = Aggregate(s, p, w)
                    /\ UpToDate(s, p, w) => frozen[s][p][w] = Aggregate(s, p, w)
                    /\ Current(s, p, w) => TopPlayers(s, p, w) = Aggregate(s, p, w)
                    /\ \A u \in Users : frozen[s][p][w][u] =< Aggregate(s, p, w)[u]
                    /\ s # Global \/ LiveAt(p, w, now) =>
                            \A u \in Users : TopPlayers(s, p, w)[u] =< Aggregate(s, p, w)[u]
  BY DEF SourcesAgree
<1>0. TypeOK /\ ReportsTypeOK /\ FrozenBelow /\ FrozenFresh
  BY DEF ReportsInv, IInv
<1>9. w \in Time /\ (p = AllTime => w = 0)
  BY WindowAssumption DEF Windows
<1>1. PICK truth : truth = Aggregate(s, p, w)
  OBVIOUS
<1>2. /\ truth \in [Users -> Nat \cup {NoScore}]
      /\ \A u \in Users : truth[u] = AggregateOf(scores, s, p, w, u)
  BY <1>0, <1>1, <1>9, AggregateTyped
<1>3. board[s][p][w] \in [Users -> Nat \cup {NoScore}] /\ frozen[s][p][w] \in [Users -> Nat \cup {NoScore}]
  BY <1>0, <1>9 DEF TypeOK, ReportsTypeOK, BoardType
<1>4. \A u \in Users : frozen[s][p][w][u] =< truth[u]
  BY <1>0, <1>2, <1>9 DEF FrozenBelow
<1>5. TopPlayers(s, p, w) \in {board[s][p][w], frozen[s][p][w], truth}
  BY <1>1 DEF TopPlayers
<1>6. \A u \in Users : truth[u] =< truth[u]
  <2>1. \A x \in Nat \cup {NoScore} : x =< x
    BY DEF NoScore
  <2> QED
    BY <1>2, <2>1
<1>7. ASSUME s # Global \/ LiveAt(p, w, now)
      PROVE  \A u \in Users : TopPlayers(s, p, w)[u] =< truth[u]
  <2>1. \A u \in Users : board[s][p][w][u] =< truth[u]
    BY <1>2, <1>7, <1>9, BoardBelow
  <2> QED
    BY <1>4, <1>5, <1>6, <2>1
<1>8. ASSUME Delivered(p, w) PROVE board[s][p][w] = truth
  <2>1. \A u \in Users : board[s][p][w][u] = truth[u]
    BY <1>2, <1>8, <1>9, BoardExact
  <2> QED
    BY <1>2, <1>3, <2>1
<1>10. ASSUME UpToDate(s, p, w) PROVE frozen[s][p][w] = truth
  <2>1. taken[s][p][w] = Source(scores, s, p, w)
    BY <1>0, <1>10, RelevantIs DEF UpToDate
  <2>2. FreshIn(scores, taken[s][p][w], frozen[s][p][w], s, p, w)
    BY <1>0, <1>9 DEF FrozenFresh
  <2>3. \A u \in Users : frozen[s][p][w][u] = truth[u]
    BY <1>2, <2>1, <2>2 DEF FreshIn
  <2> QED
    BY <1>2, <1>3, <2>3
<1>11. ASSUME Current(s, p, w) PROVE TopPlayers(s, p, w) = truth
  <2>1. CASE Exists(board, s, p, w)
    BY <1>8, <1>11, <2>1 DEF Current, TopPlayers
  <2>2. CASE ~Exists(board, s, p, w) /\ FromSnapshot(s, p, w)
    BY <1>10, <1>11, <2>2 DEF Current, TopPlayers
  <2>3. CASE ~Exists(board, s, p, w) /\ ~FromSnapshot(s, p, w)
    BY <1>1, <2>3 DEF TopPlayers
  <2> QED
    BY <2>1, <2>2, <2>3
<1> QED
  BY <1>1, <1>4, <1>7, <1>8, <1>10, <1>11

(* The board, the frozen row and the aggregation agree (TopPlayers,        *)
(* materialise), however scores are projected, passes break off and Redis  *)
(* loses its keys: a board that was sent every score of its window, and a  *)
(* frozen row computed from every score of its window, are what the        *)
(* aggregation is, so each answers the same once it has everything; and    *)
(* none of them ever has more than the history.                            *)
THEOREM ReportsAgree == ReportsFairSpec => []SourcesAgree
BY InitReports, NextReports, InvAgrees, PTL DEF ReportsFairSpec

-----------------------------------------------------------------------------

StagingLate ==
    \A s \in Scopes, p \in Periods, w \in Time :
        stagingExpiry[s][p][w] # NoExpiry => Ttl[p] > 0 /\ stagingExpiry[s][p][w] >= w + Ttl[p]

Placed ==
    \A r \in Rebuilders :
        /\ rnow[r] =< now
        /\ rpc[r] = "expire" => Ttl[Period(r)] > 0
        /\ rpc[r] \in {"idle", "done"} => rperiod[r] = 1
        /\ rpc[r] \in {"idle", "done", "read"} => rkey[r] = 1

RBase == Base /\ RebuildTypeOK /\ StagingLate /\ Placed

-----------------------------------------------------------------------------

LEMMA KeyOrderIs ==
    /\ Len(KeyOrder) = 6 /\ DOMAIN KeyOrder = 1 .. 6
    /\ \A k \in 1 .. 6 : KeyOrder[k] \in Scopes
    /\ \A s \in Scopes : \E k \in 1 .. 6 : KeyOrder[k] = s
BY DEF KeyOrder, Scopes, Games, Global

(* The key a rebuild is at is one of the boards.                           *)
LEMMA KeyIsBoard ==
    ASSUME RebuildTypeOK, NEW r \in Rebuilders
    PROVE  /\ rperiod[r] \in 1 .. Len(PeriodOrder) /\ rkey[r] \in 1 .. 6
           /\ rnow[r] \in Time
           /\ Period(r) \in Periods /\ Window(r) \in Time /\ Scope(r) \in Scopes
           /\ Window(r) =< rnow[r]
PROOF
<1>1. rperiod[r] \in 1 .. Len(PeriodOrder) /\ rkey[r] \in 1 .. 6 /\ rnow[r] \in Time
  BY KeyOrderIs DEF RebuildTypeOK
<1>2. Period(r) \in Periods
  BY <1>1, RebuildAssumption DEF Period
<1>3. Window(r) \in Time /\ Window(r) =< rnow[r]
  BY <1>1, <1>2, WindowAssumption DEF Window
<1>4. Scope(r) \in Scopes
  BY <1>1, KeyOrderIs DEF Scope
<1> QED
  BY <1>1, <1>2, <1>3, <1>4

(* Set replaces the one key the rebuild is at.                             *)
LEMMA SetIs ==
    ASSUME RebuildTypeOK, NEW r \in Rebuilders, NEW V, NEW x \in V,
           NEW bd \in [Scopes -> [Periods -> [Time -> V]]]
    PROVE  /\ Set(bd, r, x) \in [Scopes -> [Periods -> [Time -> V]]]
           /\ \A s \in Scopes, p \in Periods, w \in Time :
                Set(bd, r, x)[s][p][w] =
                    IF s = Scope(r) /\ p = Period(r) /\ w = Window(r) THEN x ELSE bd[s][p][w]
PROOF
<1>1. PICK a, b, c : a = Scope(r) /\ b = Period(r) /\ c = Window(r)
  OBVIOUS
<1>2. a \in Scopes /\ b \in Periods /\ c \in Time
  BY <1>1, KeyIsBoard
<1>3. Set(bd, r, x) = [bd EXCEPT ![a][b][c] = x]
  BY <1>1 DEF Set
<1>4. [bd EXCEPT ![a][b][c] = x] \in [Scopes -> [Periods -> [Time -> V]]]
  BY <1>2
<1>5. \A s \in Scopes, p \in Periods, w \in Time :
        [bd EXCEPT ![a][b][c] = x][s][p][w] = IF s = a /\ p = b /\ w = c THEN x ELSE bd[s][p][w]
  BY <1>2
<1> QED
  BY <1>1, <1>3, <1>4, <1>5

(* The same of a set of expiries, and of a set of boards.                  *)
LEMMA SetExpiryIs ==
    ASSUME RebuildTypeOK, NEW r \in Rebuilders, NEW x \in Int, NEW ex \in ExpiryType
    PROVE  /\ Set(ex, r, x) \in ExpiryType
           /\ \A s \in Scopes, p \in Periods, w \in Time :
                Set(ex, r, x)[s][p][w] =
                    IF s = Scope(r) /\ p = Period(r) /\ w = Window(r) THEN x ELSE ex[s][p][w]
PROOF
<1>1. PICK V : V = Int
  OBVIOUS
<1>2. x \in V /\ ex \in [Scopes -> [Periods -> [Time -> V]]]
  BY <1>1 DEF ExpiryType
<1>3. ExpiryType = [Scopes -> [Periods -> [Time -> V]]]
  BY <1>1 DEF ExpiryType
<1> QED
  BY <1>2, <1>3, SetIs

LEMMA SetBoardIs ==
    ASSUME RebuildTypeOK, NEW r \in Rebuilders, NEW x \in [Users -> Nat \cup {NoScore}],
           NEW bd \in BoardType
    PROVE  /\ Set(bd, r, x) \in BoardType
           /\ \A s \in Scopes, p \in Periods, w \in Time :
                Set(bd, r, x)[s][p][w] =
                    IF s = Scope(r) /\ p = Period(r) /\ w = Window(r) THEN x ELSE bd[s][p][w]
PROOF
<1>1. PICK V : V = [Users -> Nat \cup {NoScore}]
  OBVIOUS
<1>2. BoardType = [Scopes -> [Periods -> [Time -> V]]] /\ x \in V
  BY <1>1, Zenon DEF BoardType
<1> QED
  BY <1>2, SetIs

(* What is staged are entries.                                             *)
LEMMA MembersType ==
    ASSUME RebuildTypeOK, NEW r \in Rebuilders
    PROVE  /\ Members(r) \in [Users -> Nat \cup {NoScore}]
           /\ \A g \in Games, u \in Users : rbest[r][g][u] \in Nat \cup {NoScore}
PROOF
<1>1. \A g \in Games, u \in Users : rbest[r][g][u] \in Nat \cup {NoScore}
  BY TimeAssumption DEF RebuildTypeOK, Points
<1>2. ASSUME NEW u \in Users PROVE Members(r)[u] \in Nat \cup {NoScore}
  <2>1. CASE Scope(r) # Global
    BY <1>1, <2>1, KeyIsBoard DEF Members, Scopes
  <2>2. CASE Scope(r) = Global
    <3>1. PICK f : f = [g \in Games |-> Value(rbest[r][g][u])]
      OBVIOUS
    <3>2. \A g \in Games : f[g] \in Nat
      BY <1>1, <3>1 DEF Value, NoScore
    <3>3. SumOverGames(f) \in Nat
      BY <3>2, SumOverGamesNat
    <3> QED
      BY <2>2, <3>1, <3>3 DEF Members, Total
  <2> QED
    BY <2>1, <2>2
<1> QED
  BY <1>1, <1>2 DEF Members

LEMMA EmptyType == Empty \in [Users -> Nat \cup {NoScore}] /\ NoExpiry \in Int
BY DEF Empty, NoExpiry

(* max(points) is a score that was recorded.                               *)
LEMMA BestPointsType ==
    ASSUME TypeOK, NEW p, NEW w, NEW g, NEW u
    PROVE  BestPoints(p, w, g, u) \in Points \cup {NoScore}
PROOF
<1>1. PICK S : S = {scores[i].points : i \in {j \in Recorded : Counts(j, g, p, w, u)}}
  OBVIOUS
<1>2. S \subseteq 0 .. MaxPoints
  BY <1>1 DEF TypeOK, Event, Points
<1>3. S # {} => Max(S) \in S
  BY <1>2, TimeAssumption, MaxOfBounded
<1>4. BestPoints(p, w, g, u) = IF S = {} THEN NoScore ELSE Max(S)
  BY <1>1 DEF BestPoints
<1>5. \A y \in S : y \in Points
  BY <1>2 DEF Points
<1> QED
  BY <1>3, <1>4, <1>5, Zenon

(* A rebuild moves on inside its walk, and starts every period at its query. *)
LEMMA AdvanceIs ==
    ASSUME RBase, NEW r \in Rebuilders, Advance(r)
    PROVE  /\ rpc' \in [Rebuilders -> Commands \cup {"idle", "done"}]
           /\ rperiod' \in [Rebuilders -> 1 .. Len(PeriodOrder)]
           /\ rkey' \in [Rebuilders -> 1 .. Len(KeyOrder)]
           /\ rbest' \in [Rebuilders -> [Games -> [Users -> Points \cup {NoScore}]]]
           /\ \A q \in Rebuilders \ {r} : rpc'[q] = rpc[q] /\ rperiod'[q] = rperiod[q] /\ rkey'[q] = rkey[q]
           /\ \/ /\ rkey[r] # 6 /\ rpc'[r] = "clear" /\ rkey'[r] = rkey[r] + 1
                 /\ rperiod'[r] = rperiod[r] /\ rbest'[r] = rbest[r]
              \/ /\ rkey[r] = 6 /\ rperiod[r] # Len(PeriodOrder)
                 /\ rpc'[r] = "read" /\ rkey'[r] = 1 /\ rperiod'[r] = rperiod[r] + 1
              \/ /\ rkey[r] = 6 /\ rperiod[r] = Len(PeriodOrder)
                 /\ rpc'[r] = "done" /\ rkey'[r] = 1 /\ rperiod'[r] = 1
PROOF
<1>1. PICK k, n, L : k = rkey[r] /\ n = rperiod[r] /\ L = Len(PeriodOrder)
  OBVIOUS
<1>2. k \in 1 .. 6 /\ n \in 1 .. L /\ L \in Nat
  BY <1>1, KeyIsBoard, RebuildAssumption DEF RBase
<1>3. PICK kk, nn : kk = (IF k = 6 THEN 1 ELSE k + 1)
                    /\ nn = (IF k # 6 THEN n ELSE IF n = L THEN 1 ELSE n + 1)
  OBVIOUS
<1>4. kk \in 1 .. 6 /\ nn \in 1 .. L
  BY <1>2, <1>3
<1>5. rkey' = [rkey EXCEPT ![r] = kk] /\ rperiod' = [rperiod EXCEPT ![r] = nn]
  BY <1>1, <1>3, KeyOrderIs DEF Advance
<1>6. PICK cc, bb : cc = (IF k # 6 THEN "clear" ELSE IF n = L THEN "done" ELSE "read")
                    /\ bb = (IF k = 6 THEN NothingRead ELSE rbest[r])
  OBVIOUS
<1>7. cc \in Commands \cup {"idle", "done"} /\ bb \in [Games -> [Users -> Points \cup {NoScore}]]
  BY <1>6 DEF RBase, RebuildTypeOK, NothingRead, Commands
<1>8. rpc' = [rpc EXCEPT ![r] = cc] /\ rbest' = [rbest EXCEPT ![r] = bb]
  BY <1>1, <1>6, KeyOrderIs DEF Advance
<1>9. /\ rpc \in [Rebuilders -> Commands \cup {"idle", "done"}]
      /\ rperiod \in [Rebuilders -> 1 .. L]
      /\ rkey \in [Rebuilders -> 1 .. 6]
      /\ rbest \in [Rebuilders -> [Games -> [Users -> Points \cup {NoScore}]]]
  BY <1>1, KeyOrderIs DEF RBase, RebuildTypeOK
<1>10. /\ rpc' \in [Rebuilders -> Commands \cup {"idle", "done"}]
       /\ rperiod' \in [Rebuilders -> 1 .. L]
       /\ rkey' \in [Rebuilders -> 1 .. 6]
       /\ rbest' \in [Rebuilders -> [Games -> [Users -> Points \cup {NoScore}]]]
  BY <1>4, <1>5, <1>7, <1>8, <1>9
<1>11. \A q \in Rebuilders \ {r} : rpc'[q] = rpc[q] /\ rperiod'[q] = rperiod[q] /\ rkey'[q] = rkey[q]
  BY <1>5, <1>8, <1>9
<1>12. rpc'[r] = cc /\ rperiod'[r] = nn /\ rkey'[r] = kk /\ rbest'[r] = bb
  BY <1>5, <1>8, <1>9
<1> QED
  BY <1>1, <1>2, <1>3, <1>6, <1>10, <1>11, <1>12, KeyOrderIs

(* A rebuild's commands touch what projection relies on only through the   *)
(* boards and their expiries.                                              *)
LEMMA BoardsOnlyBase ==
    ASSUME Base, BoardsOnly, board' \in BoardType, expiry' \in ExpiryType, NoEarlyExpiry'
    PROVE  Base'
PROOF
<1>1. TypeOK' /\ StampedInPast'
  BY DEF Base, TypeOK, StampedInPast, BoardsOnly, Recorded
<1>2. Promised'
  BY DEF Base, Promised, BoardsOnly, Recorded, Reached
<1> QED
  BY <1>1, <1>2 DEF Base

(* The history variables stay rows that were recorded.                     *)
LEMMA DisturbsType ==
    ASSUME RebuildTypeOK, NEW r \in Rebuilders, Disturbs(r), scores' = scores
    PROVE  quiet' \in [Rebuilders -> BOOLEAN] /\ known' \in [Rebuilders -> SUBSET Recorded']
PROOF
<1>1. \A q \in Rebuilders : (q = r /\ quiet[q]) \in BOOLEAN
  OBVIOUS
<1>2. quiet' \in [Rebuilders -> BOOLEAN]
  BY <1>1, Zenon DEF Disturbs
<1>3. Recorded' = Recorded
  BY DEF Recorded
<1>4. known' \in [Rebuilders -> SUBSET Recorded]
  BY DEF Disturbs, RebuildTypeOK
<1> QED
  BY <1>2, <1>3, <1>4


-----------------------------------------------------------------------------

LEMMA InitRBase == RebuildInit => RBase
PROOF
<1> SUFFICES ASSUME RebuildInit PROVE RBase
  OBVIOUS
<1>1. Base
  BY InitIInv DEF RebuildInit, IInv, Base
<1>2. 0 \in Time /\ 1 \in 1 .. Len(KeyOrder) /\ 1 \in 1 .. Len(PeriodOrder)
  <2>1. PICK n \in DOMAIN PeriodOrder : PeriodOrder[n] = AllTime
    BY RebuildAssumption, PeriodsAssumption
  <2>2. n \in 1 .. Len(PeriodOrder) /\ Len(PeriodOrder) \in Nat
    BY <2>1, RebuildAssumption
  <2> QED
    BY <2>2, TimeAssumption, KeyOrderIs DEF Time
<1>3. RebuildTypeOK
  BY <1>1, <1>2 DEF RebuildInit, RebuildTypeOK, Base, Commands, NothingRead, NoBoards, BoardType,
                    NoExpiries, ExpiryType, NoScore, NoExpiry
<1>4. StagingLate /\ Placed
  BY <1>1, TimeAssumption DEF RebuildInit, Init, StagingLate, NoExpiries, Placed
<1> QED
  BY <1>1, <1>3, <1>4 DEF RBase

(* Projection goes on as without a rebuild.                                *)
LEMMA OthersRBase ==
    ASSUME RBase, Others
    PROVE  RBase'
PROOF
<1>1. Base' /\ Base
  BY NextBase DEF Others, RBase
<1>2. Recorded \subseteq Recorded'
  BY <1>1, RowsStay DEF Others, Base
<1>3. staging' \in BoardType /\ stagingExpiry' \in ExpiryType
  <2>1. CASE flushes' # flushes
    BY <2>1 DEF Others, NoBoards, BoardType, NoExpiries, ExpiryType, NoScore, NoExpiry
  <2>2. CASE flushes' = flushes
    BY <2>2 DEF Others, ExpireBoards, ExpireExpiries, BoardType, ExpiryType, NoExpiry, RBase, RebuildTypeOK
  <2> QED
    BY <2>1, <2>2
<1>4. StagingLate'
  <2>1. CASE flushes' # flushes
    BY <2>1 DEF Others, StagingLate, NoExpiries
  <2>2. CASE flushes' = flushes
    BY <2>2 DEF Others, StagingLate, ExpireExpiries, RBase
  <2> QED
    BY <2>1, <2>2
<1>5. quiet' \in [Rebuilders -> BOOLEAN] /\ known' \in [Rebuilders -> SUBSET Recorded']
  <2>1. quiet' \in [Rebuilders -> BOOLEAN]
    BY DEF Others
  <2>2. known \in [Rebuilders -> SUBSET Recorded]
    BY DEF RBase, RebuildTypeOK
  <2> QED
    BY <1>2, <2>1, <2>2 DEF Others
<1>6. RebuildTypeOK'
  BY <1>1, <1>3, <1>5 DEF Others, RBase, RebuildTypeOK, Base
<1>7. now =< now'
  <2>1. now \in Int
    BY <1>1 DEF Base, TypeOK, Time
  <2>2. now' = now \/ now' = now + 1
    BY <1>1, RedisSteps DEF Others, Flush, Tick
  <2> QED
    BY <2>1, <2>2
<1>8. Placed'
  <2> SUFFICES ASSUME NEW r \in Rebuilders
               PROVE  /\ rnow'[r] =< now'
                      /\ rpc'[r] = "expire" => Ttl[Period(r)'] > 0
                      /\ rpc'[r] \in {"idle", "done"} => rperiod'[r] = 1
                      /\ rpc'[r] \in {"idle", "done", "read"} => rkey'[r] = 1
    BY DEF Placed
  <2>1. rnow[r] \in Int /\ now \in Int /\ now' \in Int
    BY <1>1 DEF RBase, RebuildTypeOK, Base, TypeOK, Time
  <2>2. Period(r)' = Period(r)
    BY DEF Others, Period
  <2> QED
    BY <1>7, <2>1, <2>2 DEF Others, RBase, Placed
<1> QED
  BY <1>1, <1>4, <1>6, <1>8 DEF RBase

(* What a command that stays at its key leaves alone.                      *)
LEMMA GotoIs ==
    ASSUME RebuildTypeOK, NEW r \in Rebuilders, NEW c \in Commands, Goto(r, c)
    PROVE  /\ rpc' \in [Rebuilders -> Commands \cup {"idle", "done"}]
           /\ rpc'[r] = c /\ \A q \in Rebuilders \ {r} : rpc'[q] = rpc[q]
           /\ rkey' = rkey /\ rperiod' = rperiod
BY DEF Goto, RebuildTypeOK

(* The commands that do not touch a board.                                 *)
LEMMA QuietCommandsRBase ==
    ASSUME RBase, NEW r \in Rebuilders,
           RebuildStart(r) \/ RebuildRead(r) \/ RebuildFails(r)
    PROVE  RBase'
PROOF
<1>0. RebuildTypeOK /\ Base /\ vars' = vars /\ staging' = staging /\ stagingExpiry' = stagingExpiry
  BY DEF RBase, RebuildStart, RebuildRead, RebuildFails
<1>1. Base'
  <2>1. [Next]_vars
    BY <1>0
  <2> QED
    BY <1>0, <2>1, NextBase
<1>2. now' = now /\ scores' = scores /\ Recorded' = Recorded /\ now \in Time /\ 0 \in Time /\ 0 =< now /\ now =< now
  BY <1>0, TimeAssumption DEF vars, Recorded, Base, TypeOK, Time
<1>3. StagingLate'
  BY <1>0 DEF RBase, StagingLate
<1>4. /\ rpc \in [Rebuilders -> Commands \cup {"idle", "done"}]
      /\ rnow \in [Rebuilders -> Time]
      /\ rperiod \in [Rebuilders -> 1 .. Len(PeriodOrder)]
      /\ rkey \in [Rebuilders -> 1 .. Len(KeyOrder)]
      /\ rbest \in [Rebuilders -> [Games -> [Users -> Points \cup {NoScore}]]]
      /\ staging \in BoardType /\ stagingExpiry \in ExpiryType
      /\ known \in [Rebuilders -> SUBSET Recorded]
  BY <1>0 DEF RebuildTypeOK
<1>5. /\ rkey[r] \in 1 .. 6 /\ rperiod[r] \in 1 .. Len(PeriodOrder)
      /\ 1 \in 1 .. Len(PeriodOrder) /\ 1 \in 1 .. Len(KeyOrder)
  BY <1>0, KeyIsBoard, KeyOrderIs, RebuildAssumption
<1>6. CASE RebuildStart(r)
  <2>1. quiet' \in [Rebuilders -> BOOLEAN]
    BY <1>6, Zenon DEF RebuildStart
  <2>2. known' \in [Rebuilders -> SUBSET Recorded]
    BY <1>4, <1>6 DEF RebuildStart
  <2>3. RebuildTypeOK'
    BY <1>1, <1>2, <1>4, <1>6, <2>1, <2>2 DEF RebuildStart, RebuildTypeOK, Base, Commands
  <2>4. Placed'
    BY <1>2, <1>4, <1>6 DEF RebuildStart, Placed, RBase, Period
  <2> QED
    BY <1>1, <1>3, <2>3, <2>4 DEF RBase
<1>7. CASE RebuildRead(r)
  <2>1. quiet' \in [Rebuilders -> BOOLEAN] /\ known' \in [Rebuilders -> SUBSET Recorded']
    BY <1>0, <1>2, <1>7, DisturbsType DEF RebuildRead
  <2>2. PICK b : b = [g \in Games |-> [u \in Users |-> BestPoints(Period(r), Window(r), g, u)]]
    OBVIOUS
  <2>3. b \in [Games -> [Users -> Points \cup {NoScore}]]
    BY <1>0, <2>2, BestPointsType DEF Base
  <2>4. rbest' = [rbest EXCEPT ![r] = b]
    BY <1>7, <2>2 DEF RebuildRead
  <2>5. rbest' \in [Rebuilders -> [Games -> [Users -> Points \cup {NoScore}]]]
    BY <1>4, <2>3, <2>4
  <2>6. /\ rpc' \in [Rebuilders -> Commands \cup {"idle", "done"}] /\ rkey' = rkey /\ rperiod' = rperiod
        /\ rpc'[r] = "clear" /\ \A q \in Rebuilders \ {r} : rpc'[q] = rpc[q]
    BY <1>0, <1>7, GotoIs DEF RebuildRead, Commands
  <2>7. RebuildTypeOK'
    BY <1>0, <1>1, <1>4, <1>7, <2>1, <2>5, <2>6 DEF RebuildRead, RebuildTypeOK, Base
  <2>8. Placed'
    BY <1>2, <1>4, <1>7, <2>6 DEF RebuildRead, Placed, RBase, Period
  <2> QED
    BY <1>1, <1>3, <2>7, <2>8 DEF RBase
<1>8. CASE RebuildFails(r)
  <2>1. quiet' \in [Rebuilders -> BOOLEAN] /\ known' \in [Rebuilders -> SUBSET Recorded']
    BY <1>8 DEF RebuildFails
  <2>2. NothingRead \in [Games -> [Users -> Points \cup {NoScore}]]
    BY DEF NothingRead
  <2>3. rbest' \in [Rebuilders -> [Games -> [Users -> Points \cup {NoScore}]]]
    BY <1>4, <1>8, <2>2 DEF RebuildFails
  <2>4. RebuildTypeOK'
    BY <1>0, <1>1, <1>2, <1>4, <1>5, <1>8, <2>1, <2>3 DEF RebuildFails, RebuildTypeOK, Base
  <2>5. Placed'
    BY <1>2, <1>4, <1>8 DEF RebuildFails, Placed, RBase, Period
  <2> QED
    BY <1>1, <1>3, <2>4, <2>5 DEF RBase
<1> QED
  BY <1>6, <1>7, <1>8


(* The commands that only touch the staging key.  EXPIRE comes no earlier  *)
(* than the window's start, which is before the rebuild's clock.           *)
LEMMA StagingCommandsRBase ==
    ASSUME RBase, NEW r \in Rebuilders,
           RebuildClear(r) \/ RebuildZAdd(r) \/ RebuildExpire(r)
    PROVE  RBase'
PROOF
<1>0. RebuildTypeOK /\ Base /\ StagingLate /\ vars' = vars /\ rnow' = rnow /\ rbest' = rbest /\ Disturbs(r)
  BY DEF RBase, RebuildClear, RebuildZAdd, RebuildExpire
<1>1. Base'
  <2>1. [Next]_vars
    BY <1>0
  <2> QED
    BY <1>0, <2>1, NextBase
<1>2. now' = now /\ scores' = scores /\ Recorded' = Recorded /\ now \in Int
  BY <1>0 DEF vars, Recorded, Base, TypeOK, Time
<1>3. quiet' \in [Rebuilders -> BOOLEAN] /\ known' \in [Rebuilders -> SUBSET Recorded']
  BY <1>0, <1>2, DisturbsType
<1>4. /\ rpc' \in [Rebuilders -> Commands \cup {"idle", "done"}] /\ rkey' = rkey /\ rperiod' = rperiod
      /\ rpc'[r] \in {"zadd", "expire", "rename"}
      /\ rpc'[r] = "expire" => Ttl[Period(r)] > 0
      /\ \A q \in Rebuilders \ {r} : rpc'[q] = rpc[q]
  <2>1. CASE RebuildClear(r)
    BY <1>0, <2>1, GotoIs DEF RebuildClear, Commands
  <2>2. CASE RebuildZAdd(r)
    BY <1>0, <2>2, GotoIs DEF RebuildZAdd, Commands
  <2>3. CASE RebuildExpire(r)
    BY <1>0, <2>3, GotoIs DEF RebuildExpire, Commands
  <2> QED
    BY <2>1, <2>2, <2>3
<1>5. staging' \in BoardType
  <2>1. staging \in BoardType /\ Empty \in [Users -> Nat \cup {NoScore}]
    BY <1>0, EmptyType DEF RebuildTypeOK
  <2>2. CASE RebuildClear(r)
    BY <1>0, <2>1, <2>2, SetBoardIs DEF RebuildClear
  <2>3. CASE RebuildZAdd(r)
    <3>1. PICK x : x = [u \in Users |-> IF Members(r)[u] # NoScore THEN Members(r)[u] ELSE Get(staging, r)[u]]
      OBVIOUS
    <3>2. Get(staging, r) \in [Users -> Nat \cup {NoScore}]
      BY <1>0, <2>1, KeyIsBoard DEF Get, BoardType
    <3>3. x \in [Users -> Nat \cup {NoScore}]
      BY <1>0, <3>1, <3>2, MembersType
    <3>4. staging' = Set(staging, r, x)
      BY <2>3, <3>1 DEF RebuildZAdd
    <3> QED
      BY <1>0, <2>1, <3>3, <3>4, SetBoardIs
  <2>4. CASE RebuildExpire(r)
    BY <2>1, <2>4 DEF RebuildExpire
  <2> QED
    BY <2>2, <2>3, <2>4
<1>6. stagingExpiry' \in ExpiryType /\ StagingLate'
  <2>0. stagingExpiry \in ExpiryType /\ Ttl[Period(r)] \in Nat
    BY <1>0, KeyIsBoard, PeriodsAssumption DEF RebuildTypeOK
  <2>1. CASE stagingExpiry' = stagingExpiry
    BY <1>0, <2>0, <2>1 DEF StagingLate
  <2>2. ASSUME NEW x \in Int, stagingExpiry' = Set(stagingExpiry, r, x),
               x # NoExpiry => Ttl[Period(r)] > 0 /\ x >= Window(r) + Ttl[Period(r)]
        PROVE  stagingExpiry' \in ExpiryType /\ StagingLate'
    <3>1. /\ stagingExpiry' \in ExpiryType
          /\ \A s \in Scopes, p \in Periods, w \in Time : stagingExpiry'[s][p][w] =
                IF s = Scope(r) /\ p = Period(r) /\ w = Window(r) THEN x ELSE stagingExpiry[s][p][w]
      BY <1>0, <2>0, <2>2, SetExpiryIs
    <3> QED
      BY <1>0, <2>2, <3>1 DEF StagingLate
  <2>3. CASE RebuildClear(r)
    BY <2>2, <2>3, EmptyType DEF RebuildClear
  <2>4. CASE RebuildExpire(r)
    <3>1. Window(r) =< now /\ Window(r) \in Int
      <4>1. Window(r) \in Time /\ rnow[r] \in Time /\ Window(r) =< rnow[r] /\ rnow[r] =< now
        BY <1>0, KeyIsBoard DEF RBase, Placed
      <4> QED
        BY <1>2, <4>1 DEF Time
    <3>2. Ttl[Period(r)] > 0
      BY <2>4 DEF RebuildExpire, RBase, Placed
    <3>3. now + Ttl[Period(r)] \in Int /\ now + Ttl[Period(r)] >= Window(r) + Ttl[Period(r)]
      BY <1>2, <2>0, <3>1
    <3>4. \/ stagingExpiry' = stagingExpiry
          \/ stagingExpiry' = Set(stagingExpiry, r, now + Ttl[Period(r)])
      BY <2>4 DEF RebuildExpire
    <3> QED
      BY <2>1, <2>2, <3>2, <3>3, <3>4
  <2> QED
    BY <2>1, <2>3, <2>4 DEF RebuildClear, RebuildZAdd, RebuildExpire
<1>7. RebuildTypeOK'
  BY <1>0, <1>1, <1>3, <1>4, <1>5, <1>6 DEF RebuildTypeOK, Base
<1>8. Placed'
  <2> SUFFICES ASSUME NEW q \in Rebuilders
               PROVE  /\ rnow'[q] =< now'
                      /\ rpc'[q] = "expire" => Ttl[Period(q)'] > 0
                      /\ rpc'[q] \in {"idle", "done"} => rperiod'[q] = 1
                      /\ rpc'[q] \in {"idle", "done", "read"} => rkey'[q] = 1
    BY DEF Placed
  <2>1. Period(q)' = Period(q)
    BY <1>4 DEF Period
  <2> QED
    BY <1>0, <1>2, <1>4, <2>1 DEF RBase, Placed
<1> QED
  BY <1>1, <1>6, <1>7, <1>8 DEF RBase

(* The commands that replace or delete a board: an expiry it gets was the  *)
(* staging key's.                                                          *)
LEMMA BoardCommandsRBase ==
    ASSUME RBase, NEW r \in Rebuilders, RebuildDelete(r) \/ RebuildRename(r)
    PROVE  RBase'
PROOF
<1>0. /\ RebuildTypeOK /\ Base /\ StagingLate /\ NoEarlyExpiry /\ Placed
      /\ rnow' = rnow /\ BoardsOnly /\ Disturbs(r) /\ Advance(r)
  BY DEF RBase, Base, RebuildDelete, RebuildRename
<1>1. now' = now /\ scores' = scores /\ Recorded' = Recorded
  BY <1>0 DEF BoardsOnly, Recorded
<1>2. quiet' \in [Rebuilders -> BOOLEAN] /\ known' \in [Rebuilders -> SUBSET Recorded']
  BY <1>0, <1>1, DisturbsType
<1>3. /\ board \in BoardType /\ staging \in BoardType
      /\ expiry \in ExpiryType /\ stagingExpiry \in ExpiryType
  BY <1>0 DEF RebuildTypeOK, TypeOK
<1>4. PICK x \in [Users -> Nat \cup {NoScore}], y \in Int :
        /\ board' = Set(board, r, x) /\ expiry' = Set(expiry, r, y)
        /\ y # NoExpiry => Ttl[Period(r)] > 0 /\ y >= Window(r) + Ttl[Period(r)]
  <2>1. CASE RebuildDelete(r)
    BY <2>1, EmptyType DEF RebuildDelete
  <2>2. CASE RebuildRename(r)
    <3>1. Get(staging, r) \in [Users -> Nat \cup {NoScore}] /\ Get(stagingExpiry, r) \in Int
      BY <1>0, <1>3, KeyIsBoard DEF Get, BoardType, ExpiryType
    <3>2. Get(stagingExpiry, r) # NoExpiry =>
            Ttl[Period(r)] > 0 /\ Get(stagingExpiry, r) >= Window(r) + Ttl[Period(r)]
      BY <1>0, KeyIsBoard DEF Get, StagingLate
    <3> QED
      BY <2>2, <3>1, <3>2 DEF RebuildRename
  <2> QED
    BY <2>1, <2>2
<1>5. board' \in BoardType
  BY <1>0, <1>3, <1>4, SetBoardIs
<1>6. expiry' \in ExpiryType /\ NoEarlyExpiry'
  <2>1. /\ expiry' \in ExpiryType
        /\ \A s \in Scopes, p \in Periods, w \in Time : expiry'[s][p][w] =
              IF s = Scope(r) /\ p = Period(r) /\ w = Window(r) THEN y ELSE expiry[s][p][w]
    BY <1>0, <1>3, <1>4, SetExpiryIs
  <2> QED
    BY <1>0, <1>4, <2>1 DEF NoEarlyExpiry
<1>7. staging' \in BoardType /\ stagingExpiry' \in ExpiryType /\ StagingLate'
  <2>1. CASE RebuildDelete(r)
    BY <1>0, <1>3, <2>1 DEF RebuildDelete, StagingLate
  <2>2. CASE RebuildRename(r)
    <3>1. staging' \in BoardType
      BY <1>0, <1>3, <2>2, SetBoardIs, EmptyType DEF RebuildRename
    <3>2. /\ stagingExpiry' \in ExpiryType
          /\ \A s \in Scopes, p \in Periods, w \in Time : stagingExpiry'[s][p][w] =
              IF s = Scope(r) /\ p = Period(r) /\ w = Window(r) THEN NoExpiry ELSE stagingExpiry[s][p][w]
      BY <1>0, <1>3, <2>2, SetExpiryIs, EmptyType DEF RebuildRename
    <3> QED
      BY <1>0, <3>1, <3>2 DEF StagingLate
  <2> QED
    BY <2>1, <2>2
<1>8. Base'
  BY <1>0, <1>5, <1>6, BoardsOnlyBase
<1>9. /\ rpc' \in [Rebuilders -> Commands \cup {"idle", "done"}]
      /\ rperiod' \in [Rebuilders -> 1 .. Len(PeriodOrder)]
      /\ rkey' \in [Rebuilders -> 1 .. Len(KeyOrder)]
      /\ rbest' \in [Rebuilders -> [Games -> [Users -> Points \cup {NoScore}]]]
      /\ \A q \in Rebuilders \ {r} : rpc'[q] = rpc[q] /\ rperiod'[q] = rperiod[q] /\ rkey'[q] = rkey[q]
      /\ \/ rpc'[r] = "clear"
         \/ rpc'[r] = "read" /\ rkey'[r] = 1
         \/ rpc'[r] = "done" /\ rkey'[r] = 1 /\ rperiod'[r] = 1
  BY <1>0, AdvanceIs
<1>10. RebuildTypeOK'
  BY <1>0, <1>2, <1>7, <1>8, <1>9 DEF RebuildTypeOK, Base
<1>11. Placed'
  <2> SUFFICES ASSUME NEW q \in Rebuilders
               PROVE  /\ rnow'[q] =< now'
                      /\ rpc'[q] = "expire" => Ttl[Period(q)'] > 0
                      /\ rpc'[q] \in {"idle", "done"} => rperiod'[q] = 1
                      /\ rpc'[q] \in {"idle", "done", "read"} => rkey'[q] = 1
    BY DEF Placed
  <2>1. CASE q = r
    BY <1>0, <1>1, <1>9, <2>1 DEF Placed
  <2>2. CASE q # r
    <3>1. Period(q)' = Period(q)
      BY <1>9, <2>2 DEF Period
    <3> QED
      BY <1>0, <1>1, <1>9, <2>2, <3>1 DEF Placed
  <2> QED
    BY <2>1, <2>2
<1> QED
  BY <1>7, <1>8, <1>10, <1>11 DEF RBase

(* RBase is inductive.                                                     *)
LEMMA NextRBase == RBase /\ [RebuildNext]_allVars => RBase'
PROOF
<1> SUFFICES ASSUME RBase, [RebuildNext]_allVars PROVE RBase'
  OBVIOUS
<1>1. CASE Others
  BY <1>1, OthersRBase
<1>2. ASSUME NEW r \in Rebuilders, Rebuild(r) PROVE RBase'
  BY <1>2, QuietCommandsRBase, StagingCommandsRBase, BoardCommandsRBase DEF Rebuild
<1>3. CASE UNCHANGED allVars
  <2>1. UNCHANGED vars /\ UNCHANGED rebuildVars
    BY <1>3 DEF allVars
  <2>2. Base' /\ Base
    <3>1. [Next]_vars
      BY <2>1
    <3> QED
      BY <3>1, NextBase DEF RBase
  <2>3. now' = now /\ Recorded' = Recorded
    BY <2>1 DEF vars, Recorded
  <2>4. RebuildTypeOK'
    BY <2>1, <2>2, <2>3 DEF rebuildVars, RBase, RebuildTypeOK, Base
  <2>5. StagingLate' /\ Placed'
    BY <2>1, <2>3 DEF rebuildVars, RBase, StagingLate, Placed, Period
  <2> QED
    BY <2>2, <2>4, <2>5 DEF RBase
<1> QED
  BY <1>1, <1>2, <1>3 DEF RebuildNext

(* A rebuild never leaves its walk over periods and keys, and every key it *)
(* stages or replaces is a sorted set of scores (Rebuild, replaceKey).     *)
THEOREM RebuildTypeCorrect == RebuildSpec => [](RebuildTypeOK /\ RBase)
PROOF
<1>1. RBase => RebuildTypeOK
  BY DEF RBase
<1> QED
  BY <1>1, InitRBase, NextRBase, PTL DEF RebuildSpec


-----------------------------------------------------------------------------

(* What the history says, as functions of the rows.                        *)
RowsOf(sc, g, p, w, u) ==
    {i \in DOMAIN sc : sc[i].user = u /\ sc[i].game = g /\ WindowStart[p][sc[i].at] = w}

BestAmong(sc, ids) == CHOOSE n \in Points :
    /\ \A i \in ids : sc[i].points =< n
    /\ ids # {} => \E i \in ids : sc[i].points = n
    /\ ids = {} => n = 0

MaxOf(sc, g, p, w, u) ==
    LET rows == {sc[i].points : i \in RowsOf(sc, g, p, w, u)}
    IN  IF rows = {} THEN NoScore ELSE Max(rows)

Expected(sc, s, p, w, u) ==
    IF s # Global THEN MaxOf(sc, s, p, w, u)
    ELSE IF \A g \in Games : MaxOf(sc, g, p, w, u) = NoScore THEN NoScore
    ELSE SumOverGames([g \in Games |-> Value(MaxOf(sc, g, p, w, u))])

Owed(sc, ids, s, p, w, u) == Worth(s, [g \in Games |-> BestAmong(sc, RowsOf(sc, g, p, w, u) \cap ids)])

(* The best of some rows exists.                                           *)
LEMMA BestAmongIs ==
    ASSUME NEW sc, IsRows(sc), NEW ids \in SUBSET DOMAIN sc
    PROVE  /\ BestAmong(sc, ids) \in Points /\ BestAmong(sc, ids) \in Nat
           /\ \A i \in ids : sc[i].points \in Nat /\ sc[i].points =< BestAmong(sc, ids)
           /\ ids # {} => \E i \in ids : sc[i].points = BestAmong(sc, ids)
           /\ ids = {} => BestAmong(sc, ids) = 0
PROOF
<1>1. \A i \in DOMAIN sc : sc[i].points \in Points
  BY DEF IsRows, Event
<1>2. PICK S : S = {sc[i].points : i \in ids}
  OBVIOUS
<1>3. S \subseteq 0 .. MaxPoints
  BY <1>1, <1>2 DEF Points
<1>4. \E n \in Points : /\ \A i \in ids : sc[i].points =< n
                        /\ ids # {} => \E i \in ids : sc[i].points = n
                        /\ ids = {} => n = 0
  <2>1. CASE ids = {}
    <3>1. 0 \in Points
      BY TimeAssumption DEF Points
    <3> QED
      BY <2>1, <3>1
  <2>2. CASE ids # {}
    <3>1. S # {}
      BY <1>2, <2>2
    <3>2. Max(S) \in S /\ \A y \in S : y =< Max(S)
      BY <1>3, <3>1, TimeAssumption, MaxOfBounded
    <3>3. PICK i \in ids : sc[i].points = Max(S)
      BY <1>2, <3>2
    <3>4. sc[i].points \in Points
      BY <1>1
    <3>5. \A j \in ids : sc[j].points =< sc[i].points
      BY <1>2, <3>2, <3>3
    <3> QED
      BY <2>2, <3>4, <3>5
  <2> QED
    BY <2>1, <2>2
<1>5. PICK b : b = BestAmong(sc, ids)
  OBVIOUS
<1>6. /\ b \in Points
      /\ \A i \in ids : sc[i].points =< b
      /\ ids # {} => \E i \in ids : sc[i].points = b
      /\ ids = {} => b = 0
  BY <1>4, <1>5, Zenon DEF BestAmong
<1>7. \A n \in Points : n \in Nat
  BY TimeAssumption DEF Points
<1> QED
  BY <1>1, <1>5, <1>6, <1>7

(* More rows have no smaller best.                                         *)
LEMMA BestAmongMonotone ==
    ASSUME NEW sc, IsRows(sc), NEW jds \in SUBSET DOMAIN sc, NEW ids \in SUBSET jds
    PROVE  BestAmong(sc, ids) =< BestAmong(sc, jds)
PROOF
<1>1. PICK b, c : b = BestAmong(sc, ids) /\ c = BestAmong(sc, jds)
  OBVIOUS
<1>2. /\ b \in Nat /\ c \in Nat
      /\ ids # {} => \E i \in ids : sc[i].points = b
      /\ ids = {} => b = 0
      /\ \A i \in jds : sc[i].points \in Nat /\ sc[i].points =< c
  BY <1>1, BestAmongIs
<1> QED
  BY <1>1, <1>2

(* It only depends on these rows.                                          *)
LEMMA BestAmongSame ==
    ASSUME NEW sc, NEW tc, IsRows(sc), IsRows(tc), NEW ids \in SUBSET DOMAIN sc,
           ids \subseteq DOMAIN tc, \A i \in ids : tc[i] = sc[i]
    PROVE  BestAmong(tc, ids) = BestAmong(sc, ids)
PROOF
<1>1. PICK b, c : b = BestAmong(sc, ids) /\ c = BestAmong(tc, ids)
  OBVIOUS
<1>2. /\ b \in Nat /\ c \in Nat
      /\ ids # {} => \E i \in ids : sc[i].points = b
      /\ ids # {} => \E i \in ids : sc[i].points = c
      /\ ids = {} => b = 0 /\ c = 0
      /\ \A i \in ids : sc[i].points \in Nat /\ sc[i].points =< b
      /\ \A i \in ids : sc[i].points =< c
  BY <1>1, BestAmongIs
<1> QED
  BY <1>1, <1>2

(* max(points) is the best of all rows, absent without any.                *)
LEMMA MaxOfIs ==
    ASSUME NEW sc, IsRows(sc), NEW p, NEW w, NEW g, NEW u
    PROVE  /\ RowsOf(sc, g, p, w, u) \in SUBSET DOMAIN sc
           /\ MaxOf(sc, g, p, w, u) \in Nat \cup {NoScore}
           /\ MaxOf(sc, g, p, w, u) = NoScore <=> RowsOf(sc, g, p, w, u) = {}
           /\ Value(MaxOf(sc, g, p, w, u)) = BestAmong(sc, RowsOf(sc, g, p, w, u))
PROOF
<1>1. PICK R : R = RowsOf(sc, g, p, w, u)
  OBVIOUS
<1>2. R \in SUBSET DOMAIN sc
  BY <1>1 DEF RowsOf
<1>3. PICK S : S = {sc[i].points : i \in R}
  OBVIOUS
<1>4. S \subseteq 0 .. MaxPoints
  BY <1>2, <1>3 DEF IsRows, Event, Points
<1>5. MaxOf(sc, g, p, w, u) = IF S = {} THEN NoScore ELSE Max(S)
  BY <1>1, <1>3 DEF MaxOf
<1>6. PICK b : b = BestAmong(sc, R)
  OBVIOUS
<1>7. /\ b \in Nat
      /\ \A i \in R : sc[i].points \in Nat /\ sc[i].points =< b
      /\ R # {} => \E i \in R : sc[i].points = b
      /\ R = {} => b = 0
  BY <1>2, <1>6, BestAmongIs
<1>8. CASE R = {}
  <2>1. S = {}
    BY <1>3, <1>8
  <2> QED
    BY <1>1, <1>2, <1>5, <1>6, <1>7, <1>8, <2>1 DEF Value
<1>9. CASE R # {}
  <2>1. S # {}
    BY <1>3, <1>9
  <2>2. PICK m : m = Max(S)
    OBVIOUS
  <2>3. m \in S /\ \A y \in S : y =< m
    BY <1>4, <2>1, <2>2, TimeAssumption, MaxOfBounded
  <2>4. PICK i \in R : sc[i].points = m
    BY <1>3, <2>3
  <2>5. PICK j \in R : sc[j].points = b
    BY <1>7, <1>9
  <2>6. b =< m
    BY <1>3, <2>3, <2>5
  <2>7. m = b
    BY <1>7, <2>4, <2>6
  <2> QED
    BY <1>1, <1>2, <1>5, <1>6, <1>7, <1>9, <2>1, <2>2, <2>7 DEF Value, NoScore
<1> QED
  BY <1>8, <1>9

(* What is expected is an entry, what is owed are points, and nothing is   *)
(* owed of no rows.                                                        *)
LEMMA OwedIs ==
    ASSUME NEW sc, IsRows(sc), NEW ids, NEW s \in Scopes, NEW p, NEW w, NEW u
    PROVE  /\ Expected(sc, s, p, w, u) \in Nat \cup {NoScore}
           /\ Owed(sc, ids, s, p, w, u) \in Nat
           /\ Owed(sc, {}, s, p, w, u) = 0
PROOF
<1>2. PICK f, h, e :
        /\ f = [g \in Games |-> BestAmong(sc, RowsOf(sc, g, p, w, u) \cap ids)]
        /\ h = [g \in Games |-> Value(MaxOf(sc, g, p, w, u))]
        /\ e = [g \in Games |-> BestAmong(sc, RowsOf(sc, g, p, w, u) \cap {})]
  OBVIOUS
<1>3. ASSUME NEW g \in Games
      PROVE  f[g] \in Nat /\ h[g] \in Nat /\ e[g] = 0
  <2>1. \A jds : RowsOf(sc, g, p, w, u) \cap jds \in SUBSET DOMAIN sc
    BY DEF RowsOf
  <2>2. f[g] \in Nat
    BY <1>2, <2>1, BestAmongIs
  <2>3. h[g] \in Nat
    BY <1>2, MaxOfIs DEF Value, NoScore
  <2>4. RowsOf(sc, g, p, w, u) \cap {} = {}
    OBVIOUS
  <2>5. e[g] = 0
    BY <1>2, <2>1, <2>4, BestAmongIs
  <2> QED
    BY <2>2, <2>3, <2>5
<1>4. SumOverGames(f) \in Nat /\ SumOverGames(h) \in Nat
  BY <1>3, SumOverGamesNat
<1>5. SumOverGames(e) = 0
  BY <1>3 DEF SumOverGames, Games
<1>6. s # Global => s \in Games
  BY DEF Scopes
<1>7. Expected(sc, s, p, w, u) \in Nat \cup {NoScore}
  BY <1>2, <1>4, MaxOfIs DEF Expected
<1>8. Owed(sc, ids, s, p, w, u) = Worth(s, f) /\ Owed(sc, {}, s, p, w, u) = Worth(s, e)
  BY <1>2 DEF Owed
<1> QED
  BY <1>3, <1>4, <1>5, <1>6, <1>7, <1>8 DEF Worth

(* What is owed of rows that are already there does not change.            *)
LEMMA OwedStays ==
    ASSUME NEW sc, NEW tc, IsRows(sc), IsRows(tc), DOMAIN sc \subseteq DOMAIN tc,
           \A i \in DOMAIN sc : tc[i] = sc[i], NEW ids \in SUBSET DOMAIN sc,
           NEW s, NEW p, NEW w, NEW u
    PROVE  Owed(tc, ids, s, p, w, u) = Owed(sc, ids, s, p, w, u)
PROOF
<1>1. PICK f, h :
        /\ f = [g \in Games |-> BestAmong(sc, RowsOf(sc, g, p, w, u) \cap ids)]
        /\ h = [g \in Games |-> BestAmong(tc, RowsOf(tc, g, p, w, u) \cap ids)]
  OBVIOUS
<1>2. ASSUME NEW g \in Games PROVE f[g] = h[g]
  <2>1. PICK R : R = RowsOf(sc, g, p, w, u) \cap ids
    OBVIOUS
  <2>2. RowsOf(tc, g, p, w, u) \cap ids = R /\ R \in SUBSET DOMAIN sc
    BY <2>1 DEF RowsOf
  <2> QED
    BY <1>1, <2>1, <2>2, BestAmongSame
<1>3. f = h
  BY <1>1, <1>2
<1> QED
  BY <1>1, <1>3 DEF Owed


(* The model's operators say the same of the rows committed.               *)
LEMMA HistoryIs ==
    ASSUME TypeOK
    PROVE  /\ IsRows(scores)
           /\ \A p, w, g, u : BestPoints(p, w, g, u) = MaxOf(scores, g, p, w, u)
           /\ \A p, w, u : \A g \in Games : History(g, p, w, u) = RowsOf(scores, g, p, w, u)
           /\ \A ids : BestOf(ids) = BestAmong(scores, ids)
PROOF
<1>1. IsRows(scores)
  BY DEF TypeOK, IsRows, Recorded
<1>2. ASSUME NEW p, NEW w, NEW g, NEW u
      PROVE  BestPoints(p, w, g, u) = MaxOf(scores, g, p, w, u)
  <2>1. {j \in Recorded : Counts(j, g, p, w, u)} = RowsOf(scores, g, p, w, u)
    BY DEF Counts, Recorded, RowsOf
  <2> QED
    BY <2>1 DEF BestPoints, MaxOf
<1>3. ASSUME NEW p, NEW w, NEW u, NEW g \in Games
      PROVE  History(g, p, w, u) = RowsOf(scores, g, p, w, u)
  <2>1. g # Global
    BY DEF Games, Global
  <2> QED
    BY <2>1 DEF History, Counts, Recorded, RowsOf
<1>4. ASSUME NEW ids PROVE BestOf(ids) = BestAmong(scores, ids)
  BY DEF BestOf, BestAmong
<1> QED
  BY <1>1, <1>2, <1>3, <1>4

ExactMeans ==
    \A s \in Scopes, p \in Periods, w \in Time :
        ExactKey(s, p, w) <=> \A u \in Users : board[s][p][w][u] = Expected(scores, s, p, w, u)

LEMMA ExactKeyIs == TypeOK => ExactMeans
PROOF
<1> SUFFICES ASSUME TypeOK, NEW s \in Scopes, NEW p \in Periods, NEW w \in Time, NEW u \in Users
             PROVE  Expected(scores, s, p, w, u) =
                        IF History(s, p, w, u) = {} THEN NoScore
                        ELSE Worth(s, [g \in Games |-> BestOf(History(g, p, w, u))])
  BY Zenon DEF ExactMeans, ExactKey
<1>1. IsRows(scores)
  BY HistoryIs
<1>2. PICK f, h : /\ f = [g \in Games |-> BestOf(History(g, p, w, u))]
                  /\ h = [g \in Games |-> Value(MaxOf(scores, g, p, w, u))]
  OBVIOUS
<1>3. ASSUME NEW g \in Games PROVE f[g] = h[g]
  <2>1. f[g] = BestAmong(scores, RowsOf(scores, g, p, w, u))
    BY <1>2, HistoryIs
  <2>2. h[g] = Value(MaxOf(scores, g, p, w, u))
    BY <1>2
  <2> QED
    BY <1>1, <2>1, <2>2, MaxOfIs
<1>4. f = h
  BY <1>2, <1>3
<1>5. CASE s # Global
  <2>1. s \in Games
    BY <1>5 DEF Scopes
  <2>2. PICK m : m = MaxOf(scores, s, p, w, u)
    OBVIOUS
  <2>3. /\ m \in Nat \cup {NoScore}
        /\ m = NoScore <=> History(s, p, w, u) = {}
    BY <1>1, <2>1, <2>2, MaxOfIs, HistoryIs
  <2>4. Worth(s, f) = Value(m)
    BY <1>2, <1>4, <1>5, <2>1, <2>2 DEF Worth
  <2>5. Expected(scores, s, p, w, u) = m
    BY <1>5, <2>2 DEF Expected
  <2> QED
    BY <1>2, <2>3, <2>4, <2>5 DEF Value
<1>6. CASE s = Global
  <2>1. History(Global, p, w, u) = {} <=> \A g \in Games : RowsOf(scores, g, p, w, u) = {}
    <3>1. \A i \in Recorded : scores[i].game \in Games
      BY DEF TypeOK, Event
    <3> QED
      BY <3>1 DEF History, Counts, Recorded, RowsOf
  <2>2. \A g \in Games : RowsOf(scores, g, p, w, u) = {} <=> MaxOf(scores, g, p, w, u) = NoScore
    BY <1>1, MaxOfIs
  <2>3. Expected(scores, s, p, w, u) =
            IF \A g \in Games : MaxOf(scores, g, p, w, u) = NoScore THEN NoScore ELSE SumOverGames(h)
    BY <1>2, <1>6 DEF Expected
  <2>4. Worth(s, f) = SumOverGames(h)
    BY <1>4, <1>6 DEF Worth
  <2> QED
    BY <1>2, <1>6, <2>1, <2>2, <2>3, <2>4
<1> QED
  BY <1>5, <1>6

LEMMA ExactKeyIsNext == TypeOK' => ExactMeans'
BY ExactKeyIs, PTL

(* The same of what RebuildDelivers says is owed.                          *)
LEMMA OwedMeans ==
    ASSUME TypeOK, NEW ids, NEW s, NEW p, NEW w, NEW u
    PROVE  Worth(s, [g \in Games |-> BestOf(History(g, p, w, u) \cap ids)]) = Owed(scores, ids, s, p, w, u)
PROOF
<1>1. PICK f, h : /\ f = [g \in Games |-> BestOf(History(g, p, w, u) \cap ids)]
                  /\ h = [g \in Games |-> BestAmong(scores, RowsOf(scores, g, p, w, u) \cap ids)]
  OBVIOUS
<1>2. \A g \in Games : f[g] = h[g]
  BY <1>1, HistoryIs
<1>3. f = h
  BY <1>1, <1>2
<1> QED
  BY <1>1, <1>3 DEF Owed


-----------------------------------------------------------------------------

(* r holds the answer of the query for its period.                         *)
Holding(r) == rpc[r] \in {"clear", "zadd", "expire", "rename"}

(* r has been through the key of scope s in period p.                      *)
Through(r, s, p) ==
    \/ rpc[r] = "done"
    \/ /\ rpc[r] \in Commands
       /\ \/ \E n \in 1 .. rperiod[r] - 1 : PeriodOrder[n] = p
          \/ p = Period(r) /\ \E k \in 1 .. rkey[r] - 1 : KeyOrder[k] = s

(* The window of period p that r rebuilds.                                 *)
Rebuilt(r, p) == WindowStart[p][rnow[r]]

QuietInv == \A r \in Rebuilders : quiet[r] =>
    /\ Holding(r) => \A g \in Games, u \in Users :
            rbest[r][g][u] = MaxOf(scores, g, Period(r), Window(r), u)
    /\ rpc[r] = "zadd" => Get(staging, r) = Empty
    /\ rpc[r] \in {"expire", "rename"} => Get(staging, r) = Members(r)
    /\ \A s \in Scopes, p \in Periods : Through(r, s, p) => \A u \in Users :
            board[s][p][Rebuilt(r, p)][u] = Expected(scores, s, p, Rebuilt(r, p), u)

(* Moving on, a rebuild has been through the key it was at and no other;   *)
(* at the end, through all.                                                *)
LEMMA ThroughAdvance ==
    ASSUME RBase, NEW r \in Rebuilders, rpc[r] \in Commands, Advance(r),
           NEW s \in Scopes, NEW p \in Periods, Through(r, s, p)'
    PROVE  Through(r, s, p) \/ (s = Scope(r) /\ p = Period(r))
PROOF
<1>0. /\ rperiod[r] \in 1 .. Len(PeriodOrder) /\ rkey[r] \in 1 .. 6
      /\ Len(PeriodOrder) \in Nat /\ DOMAIN PeriodOrder = 1 .. Len(PeriodOrder)
  BY KeyIsBoard, RebuildAssumption DEF RBase
<1>1. PICK n, k, L : n = rperiod[r] /\ k = rkey[r] /\ L = Len(PeriodOrder)
  OBVIOUS
<1>2. n \in 1 .. L /\ k \in 1 .. 6 /\ L \in Nat /\ DOMAIN PeriodOrder = 1 .. L
  BY <1>0, <1>1
<1>3. /\ Period(r) = PeriodOrder[n] /\ Scope(r) = KeyOrder[k]
      /\ Through(r, s, p) <=> \/ \E m \in 1 .. n - 1 : PeriodOrder[m] = p
                              \/ p = PeriodOrder[n] /\ \E l \in 1 .. k - 1 : KeyOrder[l] = s
  BY <1>1 DEF Period, Scope, Through, Commands
<1>4. CASE rkey[r] # 6
  <2>1. rpc'[r] = "clear" /\ rkey'[r] = k + 1 /\ rperiod'[r] = n
    BY <1>1, <1>4, AdvanceIs
  <2>2. \/ \E m \in 1 .. n - 1 : PeriodOrder[m] = p
        \/ p = PeriodOrder[n] /\ \E l \in 1 .. (k + 1) - 1 : KeyOrder[l] = s
    BY <2>1 DEF Through, Period
  <2>3. \A l \in 1 .. (k + 1) - 1 : l \in 1 .. k - 1 \/ l = k
    BY <1>2
  <2> QED
    BY <1>3, <2>2, <2>3
<1>5. CASE rkey[r] = 6
  <2>1. \E l \in 1 .. 6 : KeyOrder[l] = s
    BY KeyOrderIs
  <2>2. \A l \in 1 .. 6 : l \in 1 .. k - 1 \/ l = k
    BY <1>1, <1>5
  <2>3. p = PeriodOrder[n] => Through(r, s, p) \/ (s = Scope(r) /\ p = Period(r))
    BY <1>3, <2>1, <2>2
  <2>4. CASE rperiod[r] # Len(PeriodOrder)
    <3>1. rpc'[r] = "read" /\ rkey'[r] = 1 /\ rperiod'[r] = n + 1
      BY <1>1, <1>5, <2>4, AdvanceIs
    <3>2. 1 .. 1 - 1 = {}
      OBVIOUS
    <3>3. \E m \in 1 .. (n + 1) - 1 : PeriodOrder[m] = p
      BY <3>1, <3>2 DEF Through
    <3>4. \A m \in 1 .. (n + 1) - 1 : m \in 1 .. n - 1 \/ m = n
      BY <1>2
    <3> QED
      BY <1>3, <2>3, <3>3, <3>4
  <2>5. CASE rperiod[r] = Len(PeriodOrder)
    <3>1. PICK m \in 1 .. L : PeriodOrder[m] = p
      BY <1>2, RebuildAssumption
    <3>2. m \in 1 .. n - 1 \/ m = n
      BY <1>1, <1>2, <2>5
    <3> QED
      BY <1>3, <2>3, <3>1, <3>2
  <2> QED
    BY <2>4, <2>5
<1> QED
  BY <1>4, <1>5

(* Staying at its key, a rebuild has been through no more.                 *)
LEMMA ThroughGoto ==
    ASSUME RBase, NEW r \in Rebuilders, rpc[r] \in Commands, NEW c \in Commands, Goto(r, c),
           NEW s, NEW p, Through(r, s, p)'
    PROVE  Through(r, s, p)
PROOF
<1>1. rpc'[r] = c /\ rkey' = rkey /\ rperiod' = rperiod /\ c # "done"
  BY GotoIs DEF RBase, Commands
<1> QED
  BY <1>1 DEF Through, Period

(* A rebuild that starts has been through none.                            *)
LEMMA ThroughStart ==
    ASSUME RBase, NEW r \in Rebuilders, RebuildStart(r), NEW s, NEW p
    PROVE  ~Through(r, s, p)'
PROOF
<1>1. rpc'[r] = "read" /\ rperiod'[r] = 1 /\ rkey'[r] = 1
  BY DEF RebuildStart, RBase, RebuildTypeOK, Placed
<1>2. 1 .. 1 - 1 = {}
  OBVIOUS
<1> QED
  BY <1>1, <1>2 DEF Through

(* What is staged of an answer that is right is right.                     *)
LEMMA MembersExpected ==
    ASSUME RBase, NEW r \in Rebuilders, NEW u \in Users,
           \A g \in Games : rbest[r][g][u] = MaxOf(scores, g, Period(r), Window(r), u)
    PROVE  Members(r)[u] = Expected(scores, Scope(r), Period(r), Window(r), u)
PROOF
<1>1. CASE Scope(r) # Global
  <2>1. Scope(r) \in Games
    BY <1>1, KeyIsBoard DEF RBase, Scopes
  <2> QED
    BY <1>1, <2>1 DEF Members, Expected
<1>2. CASE Scope(r) = Global
  <2>1. [g \in Games |-> Value(rbest[r][g][u])] = [g \in Games |-> Value(MaxOf(scores, g, Period(r), Window(r), u))]
    BY Zenon
  <2>2. (\A g \in Games : rbest[r][g][u] = NoScore)
        <=> (\A g \in Games : MaxOf(scores, g, Period(r), Window(r), u) = NoScore)
    BY Zenon
  <2>3. Members(r)[u] = Total(rbest[r], u)
    BY <1>2 DEF Members
  <2> QED
    BY <1>2, <2>1, <2>2, <2>3, Zenon DEF Total, Expected
<1> QED
  BY <1>1, <1>2


(* A board command writes the key the rebuild is at, and no other.         *)
LEMMA WritesKey ==
    ASSUME RBase, NEW r \in Rebuilders, RebuildDelete(r) \/ RebuildRename(r)
    PROVE  /\ scores' = scores /\ rnow' = rnow
           /\ \A s \in Scopes, p \in Periods, w \in Time, u \in Users : board'[s][p][w][u] =
                IF s = Scope(r) /\ p = Period(r) /\ w = Window(r)
                THEN IF rpc[r] = "rename" THEN Get(staging, r)[u] ELSE NoScore
                ELSE board[s][p][w][u]
PROOF
<1>1. RebuildTypeOK /\ board \in BoardType /\ staging \in BoardType
  BY DEF RBase, RebuildTypeOK, TypeOK
<1>2. scores' = scores /\ rnow' = rnow
  BY DEF RebuildDelete, RebuildRename, BoardsOnly
<1>3. CASE RebuildDelete(r)
  <2>1. board' = Set(board, r, Empty) /\ rpc[r] = "clear"
    BY <1>3 DEF RebuildDelete
  <2>2. \A s \in Scopes, p \in Periods, w \in Time : board'[s][p][w] =
          IF s = Scope(r) /\ p = Period(r) /\ w = Window(r) THEN Empty ELSE board[s][p][w]
    BY <1>1, <2>1, SetBoardIs, EmptyType
  <2> QED
    BY <1>2, <2>1, <2>2 DEF Empty
<1>4. CASE RebuildRename(r)
  <2>1. board' = Set(board, r, Get(staging, r)) /\ rpc[r] = "rename"
    BY <1>4 DEF RebuildRename
  <2>2. Get(staging, r) \in [Users -> Nat \cup {NoScore}]
    BY <1>1, KeyIsBoard DEF Get, BoardType
  <2>3. \A s \in Scopes, p \in Periods, w \in Time : board'[s][p][w] =
          IF s = Scope(r) /\ p = Period(r) /\ w = Window(r) THEN Get(staging, r) ELSE board[s][p][w]
    BY <1>1, <2>1, <2>2, SetBoardIs
  <2> QED
    BY <1>2, <2>1, <2>3
<1> QED
  BY <1>3, <1>4

(* Undisturbed, it writes what the history has.                            *)
LEMMA WritesExpected ==
    ASSUME RBase, QuietInv, NEW r \in Rebuilders, quiet[r], RebuildDelete(r) \/ RebuildRename(r)
    PROVE  \A u \in Users :
             board'[Scope(r)][Period(r)][Window(r)][u] = Expected(scores, Scope(r), Period(r), Window(r), u)
PROOF
<1> SUFFICES ASSUME NEW u \in Users
             PROVE  board'[Scope(r)][Period(r)][Window(r)][u] =
                        Expected(scores, Scope(r), Period(r), Window(r), u)
  OBVIOUS
<1>1. Holding(r)
  BY DEF RebuildDelete, RebuildRename, Holding
<1>2. Members(r)[u] = Expected(scores, Scope(r), Period(r), Window(r), u)
  BY <1>1, MembersExpected DEF QuietInv
<1>3. Scope(r) \in Scopes /\ Period(r) \in Periods /\ Window(r) \in Time
  BY KeyIsBoard DEF RBase
<1>4. board'[Scope(r)][Period(r)][Window(r)][u] = IF rpc[r] = "rename" THEN Get(staging, r)[u] ELSE NoScore
  BY <1>3, WritesKey
<1>5. CASE RebuildDelete(r)
  BY <1>2, <1>4, <1>5 DEF RebuildDelete, Empty
<1>6. CASE RebuildRename(r)
  BY <1>2, <1>4, <1>6 DEF RebuildRename, QuietInv
<1> QED
  BY <1>5, <1>6

(* Only r's own steps leave r undisturbed.                                 *)
LEMMA OnlyItself ==
    ASSUME RBase, NEW q \in Rebuilders, Rebuild(q), NEW r \in Rebuilders, quiet'[r]
    PROVE  /\ q = r /\ ~RebuildFails(r) /\ (quiet[r] \/ RebuildStart(r))
           /\ scores' = scores
BY DEF Rebuild, RebuildStart, RebuildRead, RebuildDelete, RebuildClear, RebuildZAdd, RebuildExpire,
       RebuildRename, RebuildFails, Disturbs, BoardsOnly, vars

(* QuietInv is inductive, given RBase.                                     *)
LEMMA QuietStep ==
    ASSUME RBase, QuietInv, NEW r \in Rebuilders, Rebuild(r), quiet'[r]
    PROVE  /\ Holding(r)' => \A g \in Games, u \in Users :
                 rbest'[r][g][u] = MaxOf(scores', g, Period(r)', Window(r)', u)
           /\ rpc'[r] = "zadd" => Get(staging, r)' = Empty
           /\ rpc'[r] \in {"expire", "rename"} => Get(staging, r)' = Members(r)'
           /\ \A s \in Scopes, p \in Periods : Through(r, s, p)' => \A u \in Users :
                 board'[s][p][Rebuilt(r, p)'][u] = Expected(scores', s, p, Rebuilt(r, p)', u)
PROOF
<1>0. ~RebuildFails(r) /\ (quiet[r] \/ RebuildStart(r)) /\ scores' = scores
  BY OnlyItself
<1>1. CASE RebuildStart(r)
  <2>1. rpc'[r] = "read"
    BY <1>1 DEF RebuildStart, RBase, RebuildTypeOK
  <2> QED
    BY <1>1, <2>1, ThroughStart DEF Holding
<1>2. CASE RebuildRead(r)
  <2>0. quiet[r] /\ rpc[r] \in Commands /\ rnow' = rnow /\ board' = board
    BY <1>0, <1>2 DEF RebuildStart, RebuildRead, Commands, vars
  <2>1. rpc'[r] = "clear" /\ Period(r)' = Period(r) /\ Window(r)' = Window(r)
    BY <1>2, <2>0, GotoIs DEF RebuildRead, RBase, Commands, Period, Window
  <2>2. \A g \in Games, u \in Users : rbest'[r][g][u] = MaxOf(scores, g, Period(r), Window(r), u)
    <3>1. rbest'[r] = [g \in Games |-> [u \in Users |-> BestPoints(Period(r), Window(r), g, u)]]
      BY <1>2 DEF RebuildRead, RBase, RebuildTypeOK
    <3>2. TypeOK
      BY DEF RBase, RebuildTypeOK
    <3> QED
      BY <3>1, <3>2, HistoryIs
  <2>3. ASSUME NEW s \in Scopes, NEW p \in Periods, Through(r, s, p)'
        PROVE  \A u \in Users : board'[s][p][Rebuilt(r, p)'][u] = Expected(scores', s, p, Rebuilt(r, p)', u)
    <3>1. Through(r, s, p)
      BY <1>2, <2>0, <2>3, ThroughGoto DEF RebuildRead, Commands
    <3> QED
      BY <1>0, <2>0, <3>1 DEF QuietInv, Rebuilt
  <2> QED
    BY <1>0, <2>1, <2>2, <2>3
<1>3. ASSUME RebuildClear(r) \/ RebuildZAdd(r) \/ RebuildExpire(r)
      PROVE  /\ quiet[r] /\ Holding(r)
             /\ rpc'[r] \in Commands
             /\ Period(r)' = Period(r) /\ Window(r)' = Window(r) /\ Scope(r)' = Scope(r)
             /\ rbest' = rbest /\ Members(r)' = Members(r)
             /\ \A g \in Games, u \in Users :
                    rbest'[r][g][u] = MaxOf(scores', g, Period(r)', Window(r)', u)
             /\ \A s \in Scopes, p \in Periods : Through(r, s, p)' => \A u \in Users :
                    board'[s][p][Rebuilt(r, p)'][u] = Expected(scores', s, p, Rebuilt(r, p)', u)
  <2>1. /\ rpc[r] \in {"clear", "zadd", "expire"} /\ rbest' = rbest /\ rnow' = rnow /\ board' = board
        /\ \E c \in Commands : Goto(r, c)
    BY <1>3 DEF RebuildClear, RebuildZAdd, RebuildExpire, Commands, vars
  <2>2. quiet[r] /\ Holding(r) /\ rpc[r] \in Commands
    BY <1>0, <2>1 DEF RebuildStart, Holding, Commands
  <2>3. rpc'[r] \in Commands /\ Period(r)' = Period(r) /\ Window(r)' = Window(r) /\ Scope(r)' = Scope(r)
    BY <2>1, GotoIs DEF RBase, Period, Window, Scope
  <2>4. Members(r)' = Members(r)
    BY <2>1, <2>3, Zenon DEF Members
  <2>5. \A g \in Games, u \in Users : rbest'[r][g][u] = MaxOf(scores', g, Period(r)', Window(r)', u)
    BY <1>0, <2>1, <2>2, <2>3 DEF QuietInv
  <2>6. ASSUME NEW s \in Scopes, NEW p \in Periods, Through(r, s, p)'
        PROVE  \A u \in Users : board'[s][p][Rebuilt(r, p)'][u] = Expected(scores', s, p, Rebuilt(r, p)', u)
    <3>1. Through(r, s, p)
      BY <2>1, <2>2, <2>6, ThroughGoto
    <3> QED
      BY <1>0, <2>1, <2>2, <3>1 DEF QuietInv, Rebuilt
  <2> QED
    BY <2>1, <2>2, <2>3, <2>4, <2>5, <2>6
<1>b. Scope(r) \in Scopes /\ Period(r) \in Periods /\ Window(r) \in Time /\ staging \in BoardType /\ RebuildTypeOK
  BY KeyIsBoard DEF RBase, RebuildTypeOK
<1>4. CASE RebuildClear(r)
  <2>1. rpc'[r] = "zadd"
    BY <1>4, GotoIs DEF RebuildClear, RBase, Commands
  <2>2. staging'[Scope(r)][Period(r)][Window(r)] = Empty
    BY <1>4, <1>b, SetBoardIs, EmptyType DEF RebuildClear
  <2>3. Get(staging, r)' = Empty
    BY <1>3, <1>4, <2>2 DEF Get
  <2> QED
    BY <1>3, <1>4, <2>1, <2>3
<1>5. CASE RebuildZAdd(r)
  <2>1. rpc'[r] \in {"expire", "rename"}
    BY <1>5, GotoIs DEF RebuildZAdd, RBase, Commands
  <2>2. PICK x : x = [u \in Users |-> IF Members(r)[u] # NoScore THEN Members(r)[u] ELSE Get(staging, r)[u]]
    OBVIOUS
  <2>3. Get(staging, r) = Empty
    BY <1>3, <1>5 DEF RebuildZAdd, QuietInv
  <2>4. Members(r) \in [Users -> Nat \cup {NoScore}]
    BY <1>b, MembersType
  <2>5. x = Members(r)
    BY <2>2, <2>3, <2>4 DEF Empty
  <2>6. staging' = Set(staging, r, x)
    BY <1>5, <2>2 DEF RebuildZAdd
  <2>7. staging'[Scope(r)][Period(r)][Window(r)] = Members(r)
    BY <1>b, <2>4, <2>5, <2>6, SetBoardIs
  <2>8. Get(staging, r)' = Members(r)'
    BY <1>3, <1>5, <2>7 DEF Get
  <2> QED
    BY <1>3, <1>5, <2>1, <2>8
<1>6. CASE RebuildExpire(r)
  <2>1. rpc'[r] = "rename" /\ rpc[r] = "expire" /\ staging' = staging
    BY <1>6, GotoIs DEF RebuildExpire, RBase, Commands
  <2>2. Get(staging, r)' = Members(r)'
    BY <1>3, <1>6, <2>1 DEF Get, QuietInv
  <2> QED
    BY <1>3, <1>6, <2>1, <2>2
<1>7. CASE RebuildDelete(r) \/ RebuildRename(r)
  <2>0. quiet[r] /\ Holding(r) /\ rpc[r] \in Commands /\ rnow' = rnow /\ Advance(r)
    BY <1>0, <1>7 DEF RebuildStart, RebuildDelete, RebuildRename, Holding, Commands
  <2>1. rpc'[r] \in {"clear", "read", "done"}
    BY <2>0, AdvanceIs
  <2>2. Holding(r)' => \A g \in Games, u \in Users :
          rbest'[r][g][u] = MaxOf(scores', g, Period(r)', Window(r)', u)
    <3> SUFFICES ASSUME Holding(r)', NEW g \in Games, NEW u \in Users
                 PROVE  rbest'[r][g][u] = MaxOf(scores', g, Period(r)', Window(r)', u)
      OBVIOUS
    <3>1. rbest'[r] = rbest[r] /\ rperiod'[r] = rperiod[r]
      BY <2>0, AdvanceIs DEF Holding
    <3>2. Period(r)' = Period(r) /\ Window(r)' = Window(r)
      BY <2>0, <3>1 DEF Period, Window
    <3> QED
      BY <1>0, <2>0, <3>1, <3>2 DEF QuietInv
  <2>3. ASSUME NEW s \in Scopes, NEW p \in Periods, Through(r, s, p)', NEW u \in Users
        PROVE  board'[s][p][Rebuilt(r, p)'][u] = Expected(scores', s, p, Rebuilt(r, p)', u)
    <3>1. Rebuilt(r, p)' = Rebuilt(r, p) /\ Rebuilt(r, Period(r)) = Window(r)
      BY <2>0 DEF Rebuilt, Window
    <3>2. Rebuilt(r, p) \in Time
      BY <1>b, KeyIsBoard, WindowAssumption DEF Rebuilt
    <3>3. CASE s = Scope(r) /\ p = Period(r)
      BY <1>0, <1>7, <2>0, <3>1, <3>3, WritesExpected
    <3>4. CASE ~(s = Scope(r) /\ p = Period(r))
      <4>1. Through(r, s, p)
        BY <2>0, <2>3, <3>4, ThroughAdvance
      <4>2. board'[s][p][Rebuilt(r, p)][u] = board[s][p][Rebuilt(r, p)][u]
        BY <1>7, <3>2, <3>4, WritesKey
      <4> QED
        BY <1>0, <2>0, <3>1, <4>1, <4>2 DEF QuietInv
    <3> QED
      BY <3>3, <3>4
  <2> QED
    BY <2>1, <2>2, <2>3
<1> QED
  BY <1>0, <1>1, <1>2, <1>4, <1>5, <1>6, <1>7 DEF Rebuild


LEMMA NextQuietInv ==
    ASSUME RBase, QuietInv, [RebuildNext]_allVars
    PROVE  QuietInv'
PROOF
<1>1. CASE Others
  BY <1>1 DEF Others, QuietInv
<1>2. ASSUME NEW q \in Rebuilders, Rebuild(q) PROVE QuietInv'
  <2> SUFFICES ASSUME NEW r \in Rebuilders, quiet'[r]
               PROVE  /\ Holding(r)' => \A g \in Games, u \in Users :
                             rbest'[r][g][u] = MaxOf(scores', g, Period(r)', Window(r)', u)
                      /\ rpc'[r] = "zadd" => Get(staging, r)' = Empty
                      /\ rpc'[r] \in {"expire", "rename"} => Get(staging, r)' = Members(r)'
                      /\ \A s \in Scopes, p \in Periods : Through(r, s, p)' => \A u \in Users :
                             board'[s][p][Rebuilt(r, p)'][u] = Expected(scores', s, p, Rebuilt(r, p)', u)
    BY DEF QuietInv, Empty
  <2>1. q = r
    BY <1>2, OnlyItself
  <2> QED
    BY <1>2, <2>1, QuietStep
<1>3. CASE UNCHANGED allVars
  <2>1. UNCHANGED <<scores, board, rpc, rnow, rperiod, rkey, rbest, staging, quiet>>
    BY <1>3 DEF allVars, vars, rebuildVars
  <2> SUFFICES ASSUME NEW r \in Rebuilders, quiet[r]
               PROVE  /\ Holding(r)' => \A g \in Games, u \in Users :
                             rbest[r][g][u] = MaxOf(scores, g, Period(r)', Window(r)', u)
                      /\ rpc[r] = "zadd" => Get(staging, r)' = Empty
                      /\ rpc[r] \in {"expire", "rename"} => Get(staging, r)' = Members(r)'
                      /\ \A s \in Scopes, p \in Periods : Through(r, s, p)' => \A u \in Users :
                             board[s][p][Rebuilt(r, p)'][u] = Expected(scores, s, p, Rebuilt(r, p)', u)
    BY <2>1 DEF QuietInv, Empty
  <2>2. /\ Period(r)' = Period(r) /\ Window(r)' = Window(r) /\ Scope(r)' = Scope(r)
        /\ Holding(r)' = Holding(r) /\ Get(staging, r)' = Get(staging, r)
        /\ \A p \in Periods : Rebuilt(r, p)' = Rebuilt(r, p)
    BY <2>1 DEF Period, Window, Scope, Holding, Get, Rebuilt
  <2>3. Members(r)' = Members(r)
    BY <2>1, <2>2, Zenon DEF Members
  <2>4. \A s \in Scopes, p \in Periods : Through(r, s, p)' = Through(r, s, p)
    BY <2>1, <2>2 DEF Through
  <2> QED
    BY <2>2, <2>3, <2>4 DEF QuietInv
<1> QED
  BY <1>1, <1>2, <1>3 DEF RebuildNext

LEMMA RebuildInductive == RebuildSpec => [](RBase /\ QuietInv)
PROOF
<1>1. RebuildInit => QuietInv
  BY DEF RebuildInit, QuietInv
<1> QED
  BY <1>1, InitRBase, NextRBase, NextQuietInv, PTL DEF RebuildSpec

(* "One call restores every board exactly": an undisturbed rebuild leaves  *)
(* every board of its windows, totals included, as the history has it,     *)
(* whatever boards and staging keys it found.                              *)
THEOREM RebuildRestores == RebuildSpec => []RebuildIsExact
PROOF
<1>1. ASSUME RBase, QuietInv PROVE RebuildIsExact
  <2> SUFFICES ASSUME NEW r \in Rebuilders, rpc[r] = "done", quiet[r], NEW s \in Scopes, NEW p \in Periods
               PROVE  ExactKey(s, p, WindowStart[p][rnow[r]])
    BY DEF RebuildIsExact
  <2>1. TypeOK /\ WindowStart[p][rnow[r]] \in Time
    BY <1>1, KeyIsBoard, WindowAssumption DEF RBase, RebuildTypeOK
  <2>2. Through(r, s, p)
    BY DEF Through
  <2>3. \A u \in Users : board[s][p][WindowStart[p][rnow[r]]][u] =
            Expected(scores, s, p, WindowStart[p][rnow[r]], u)
    BY <1>1, <2>2 DEF QuietInv, Rebuilt
  <2> QED
    BY <2>1, <2>3, ExactKeyIs DEF ExactMeans
<1> QED
  BY <1>1, RebuildInductive, PTL

(* While an undisturbed rebuild runs, or when it breaks off, no step takes *)
(* a board that is right away from a reader, not even for a moment: the    *)
(* RENAME of replaceKey swaps a complete board in, and a DEL only hits a   *)
(* board nobody has a score on.                                            *)
THEOREM RebuildShowsNoGap == RebuildSpec => NoVisibleGap
PROOF
<1>1. ASSUME RBase, RBase', QuietInv, [RebuildNext]_allVars PROVE [KeepsExactKeys]_allVars
  <2> SUFFICES ASSUME NEW r \in Rebuilders, Running(r), quiet'[r], ~UNCHANGED allVars,
                      NEW s \in Scopes, NEW p \in Periods, NEW w \in Time, ExactKey(s, p, w)
               PROVE  ExactKey(s, p, w)'
    BY DEF KeepsExactKeys
  <2>1. ~Others
    BY DEF Others
  <2>2. Rebuild(r)
    BY <1>1, <2>1, OnlyItself DEF RebuildNext
  <2>3. quiet[r] /\ ~RebuildFails(r) /\ scores' = scores
    BY <1>1, <2>2, OnlyItself DEF RebuildStart, Running, Commands
  <2>4. TypeOK /\ TypeOK'
    BY <1>1 DEF RBase, RebuildTypeOK
  <2>5. \A u \in Users : board[s][p][w][u] = Expected(scores, s, p, w, u)
    BY <2>4, ExactKeyIs DEF ExactMeans
  <2>6. \A u \in Users : board'[s][p][w][u] = Expected(scores', s, p, w, u)
    <3>1. CASE RebuildDelete(r) \/ RebuildRename(r)
      <4>1. CASE s = Scope(r) /\ p = Period(r) /\ w = Window(r)
        BY <1>1, <2>3, <3>1, <4>1, WritesExpected
      <4>2. CASE ~(s = Scope(r) /\ p = Period(r) /\ w = Window(r))
        BY <1>1, <2>3, <2>5, <3>1, <4>2, WritesKey
      <4> QED
        BY <4>1, <4>2
    <3>2. CASE ~(RebuildDelete(r) \/ RebuildRename(r))
      <4>1. board' = board
        BY <2>2, <3>2 DEF Rebuild, RebuildStart, RebuildRead, RebuildClear, RebuildZAdd, RebuildExpire,
                          RebuildFails, vars
      <4> QED
        BY <2>3, <2>5, <4>1
    <3> QED
      BY <3>1, <3>2
  <2> QED
    BY <2>4, <2>6, ExactKeyIsNext DEF ExactMeans
<1> QED
  BY <1>1, RebuildInductive, PTL DEF RebuildSpec, NoVisibleGap


-----------------------------------------------------------------------------

(* What r holds, has staged and has been through is no less than what the  *)
(* history owed when it started.                                           *)
DeliverAt(r) ==
    /\ Holding(r) => \A g \in Games, u \in Users :
            Value(rbest[r][g][u]) >= Owed(scores, known[r], g, Period(r), Window(r), u)
    /\ rpc[r] \in {"expire", "rename"} /\ LiveAt(Period(r), Window(r), now) => \A u \in Users :
            Value(Get(staging, r)[u]) >= Owed(scores, known[r], Scope(r), Period(r), Window(r), u)
    /\ \A s \in Scopes, p \in Periods : Through(r, s, p) /\ LiveAt(p, Rebuilt(r, p), now) => \A u \in Users :
            Value(board[s][p][Rebuilt(r, p)][u]) >= Owed(scores, known[r], s, p, Rebuilt(r, p), u)

DeliverInv == \A r \in Rebuilders : DeliverAt(r)

(* The types the comparisons need.                                         *)
LEMMA EntriesAreNat ==
    ASSUME RBase, NEW r \in Rebuilders
    PROVE  /\ IsRows(scores) /\ known[r] \in SUBSET DOMAIN scores
           /\ \A p \in Periods : Rebuilt(r, p) \in Time
           /\ \A g \in Games, u \in Users : Value(rbest[r][g][u]) \in Nat
           /\ \A u \in Users : Value(Get(staging, r)[u]) \in Nat /\ Value(Members(r)[u]) \in Nat
           /\ \A s \in Scopes, p \in Periods, w \in Time, u \in Users : Value(board[s][p][w][u]) \in Nat
PROOF
<1>1. RebuildTypeOK /\ TypeOK
  BY DEF RBase, RebuildTypeOK
<1>2. IsRows(scores) /\ known[r] \in SUBSET DOMAIN scores
  BY <1>1, HistoryIs DEF RebuildTypeOK, Recorded
<1>3. \A p \in Periods : Rebuilt(r, p) \in Time
  BY <1>1, KeyIsBoard, WindowAssumption DEF Rebuilt
<1>4. \A x \in Nat \cup {NoScore} : Value(x) \in Nat
  BY DEF Value, NoScore
<1>5. \A u \in Users : Get(staging, r)[u] \in Nat \cup {NoScore} /\ Members(r)[u] \in Nat \cup {NoScore}
  BY <1>1, KeyIsBoard, MembersType DEF Get, BoardType, RebuildTypeOK
<1>6. \A s \in Scopes, p \in Periods, w \in Time, u \in Users : board[s][p][w][u] \in Nat \cup {NoScore}
  BY <1>1 DEF TypeOK, BoardType
<1>7. \A g \in Games, u \in Users : rbest[r][g][u] \in Nat \cup {NoScore}
  BY <1>1, MembersType
<1> QED
  BY <1>2, <1>3, <1>4, <1>5, <1>6, <1>7

(* A rebuild that another has got in the way of owes nothing.              *)
NothingOwed == \A r \in Rebuilders : known[r] = {} => DeliverAt(r)

LEMMA NothingIsOwed == RBase => NothingOwed
PROOF
<1> SUFFICES ASSUME RBase, NEW r \in Rebuilders, known[r] = {} PROVE DeliverAt(r)
  BY DEF NothingOwed
<1>1. IsRows(scores)
  BY EntriesAreNat
<1>2. \A s \in Scopes : \A p, w, u : Owed(scores, known[r], s, p, w, u) = 0
  BY <1>1, OwedIs
<1>3. Scope(r) \in Scopes /\ \A g \in Games : g \in Scopes
  BY KeyIsBoard DEF RBase, Scopes
<1> QED
  BY <1>2, <1>3, EntriesAreNat DEF DeliverAt

LEMMA NothingIsOwedNext == RBase' => NothingOwed'
BY NothingIsOwed, PTL

(* The query answers all that is owed.                                     *)
LEMMA ReadOwed ==
    ASSUME NEW sc, IsRows(sc), NEW ids, NEW g \in Games, NEW p, NEW w, NEW u
    PROVE  Value(MaxOf(sc, g, p, w, u)) >= Owed(sc, ids, g, p, w, u)
PROOF
<1>1. g # Global
  BY DEF Games, Global
<1>2. Owed(sc, ids, g, p, w, u) = BestAmong(sc, RowsOf(sc, g, p, w, u) \cap ids)
  BY <1>1 DEF Owed, Worth
<1>3. RowsOf(sc, g, p, w, u) \in SUBSET DOMAIN sc
  BY DEF RowsOf
<1>4. PICK a, b : a = BestAmong(sc, RowsOf(sc, g, p, w, u) \cap ids) /\ b = BestAmong(sc, RowsOf(sc, g, p, w, u))
  OBVIOUS
<1>5. a =< b /\ a \in Nat /\ b \in Nat
  BY <1>3, <1>4, BestAmongMonotone, BestAmongIs
<1>6. Value(MaxOf(sc, g, p, w, u)) = b
  BY <1>4, MaxOfIs
<1> QED
  BY <1>2, <1>4, <1>5, <1>6

(* What is staged of an answer with all that is owed has all that is owed. *)
LEMMA MembersOwed ==
    ASSUME RBase, NEW r \in Rebuilders, NEW u \in Users,
           \A g \in Games : Value(rbest[r][g][u]) >= Owed(scores, known[r], g, Period(r), Window(r), u)
    PROVE  Value(Members(r)[u]) >= Owed(scores, known[r], Scope(r), Period(r), Window(r), u)
PROOF
<1>1. CASE Scope(r) # Global
  <2>1. Scope(r) \in Games
    BY <1>1, KeyIsBoard DEF RBase, Scopes
  <2>2. Members(r)[u] = rbest[r][Scope(r)][u]
    BY <1>1 DEF Members
  <2> QED
    BY <2>1, <2>2
<1>2. CASE Scope(r) = Global
  <2>0. IsRows(scores) /\ \A g \in Games : g \in Scopes /\ g # Global
    BY EntriesAreNat DEF Scopes, Games, Global
  <2>1. PICK f, h :
          /\ f = [g \in Games |-> BestAmong(scores, RowsOf(scores, g, Period(r), Window(r), u) \cap known[r])]
          /\ h = [g \in Games |-> Value(rbest[r][g][u])]
    OBVIOUS
  <2>2. ASSUME NEW g \in Games PROVE f[g] \in Nat /\ h[g] \in Nat /\ f[g] =< h[g]
    <3>1. f[g] = Owed(scores, known[r], g, Period(r), Window(r), u)
      BY <2>0, <2>1 DEF Owed, Worth
    <3>2. f[g] \in Nat
      BY <2>0, <3>1, OwedIs
    <3>3. h[g] = Value(rbest[r][g][u]) /\ h[g] \in Nat
      BY <2>1, EntriesAreNat
    <3>4. h[g] >= f[g]
      BY <3>1, <3>3
    <3> QED
      BY <3>2, <3>3, <3>4
  <2>3. SumOverGames(f) =< SumOverGames(h) /\ SumOverGames(f) \in Nat /\ SumOverGames(h) \in Nat
    BY <2>2, SumOverGamesMonotone, SumOverGamesNat
  <2>4. Owed(scores, known[r], Scope(r), Period(r), Window(r), u) = SumOverGames(f)
    BY <1>2, <2>1 DEF Owed, Worth
  <2>5. Value(Members(r)[u]) = SumOverGames(h)
    <3>1. Members(r)[u] = IF \A g \in Games : rbest[r][g][u] = NoScore THEN NoScore ELSE SumOverGames(h)
      BY <1>2, <2>1 DEF Members, Total
    <3>2. (\A g \in Games : rbest[r][g][u] = NoScore) => SumOverGames(h) = 0
      <4>1. (\A g \in Games : rbest[r][g][u] = NoScore) => \A g \in Games : h[g] = 0
        BY <2>1 DEF Value
      <4>2. (\A g \in Games : h[g] = 0) => SumOverGames(h) = 0
        BY DEF SumOverGames, Games
      <4> QED
        BY <4>1, <4>2
    <3>3. SumOverGames(h) # NoScore
      BY <2>3 DEF NoScore
    <3> QED
      BY <3>1, <3>2, <3>3, Zenon DEF Value
  <2> QED
    BY <2>3, <2>4, <2>5
<1> QED
  BY <1>1, <1>2


(* Without a flush, projection and the passing of time take nothing off a  *)
(* live window's boards.                                                   *)
LEMMA LiveEntriesStay ==
    ASSUME Base, [Next]_vars, flushes' = flushes,
           NEW p \in Periods, NEW w \in Time, LiveAt(p, w, now')
    PROVE  /\ LiveAt(p, w, now)
           /\ \A s \in Scopes, u \in Users : Value(board'[s][p][w][u]) >= Value(board[s][p][w][u])
PROOF
<1>0. TypeOK /\ NoEarlyExpiry /\ board \in BoardType /\ board' \in BoardType
  BY NextBase DEF Base, TypeOK
<1>1. ASSUME NEW s \in Scopes, NEW u \in Users, board'[s][p][w][u] >= board[s][p][w][u]
      PROVE  Value(board'[s][p][w][u]) >= Value(board[s][p][w][u])
  <2>1. board[s][p][w][u] \in Nat \cup {NoScore} /\ board'[s][p][w][u] \in Nat \cup {NoScore}
    BY <1>0 DEF BoardType
  <2> QED
    BY <1>1, <2>1 DEF Value, NoScore
<1>2. CASE UNCHANGED <<now, board>>
  <2>1. \A s \in Scopes, u \in Users : board'[s][p][w][u] >= board[s][p][w][u]
    <3>1. \A s \in Scopes, u \in Users : board[s][p][w][u] \in Int
      BY <1>0 DEF BoardType, NoScore
    <3> QED
      BY <1>2, <3>1
  <2> QED
    BY <1>1, <1>2, <2>1
<1>3. ASSUME NEW i \in Recorded, RunScript(i), now' = now
      PROVE  /\ LiveAt(p, w, now)
             /\ \A s \in Scopes, u \in Users : Value(board'[s][p][w][u]) >= Value(board[s][p][w][u])
  <2>1. scores[i] \in Event
    BY <1>0 DEF TypeOK
  <2>2. \A s \in Scopes, u \in Users : board'[s][p][w][u] >= board[s][p][w][u]
    BY <1>0, <1>3, <2>1, SubmitMonotone DEF RunScript
  <2> QED
    BY <1>1, <1>3, <2>2
<1>4. ~Flush
  BY <1>0 DEF Flush, TypeOK
<1>5. CASE Tick
  <2>1. LiveAt(p, w, now) /\ \A s \in Scopes : board'[s][p][w] = board[s][p][w]
    BY <1>0, <1>5, TickKeepsLive
  <2>2. \A s \in Scopes, u \in Users : board'[s][p][w][u] >= board[s][p][w][u]
    <3>1. \A s \in Scopes, u \in Users : board[s][p][w][u] \in Int
      BY <1>0 DEF BoardType, NoScore
    <3> QED
      BY <2>1, <3>1
  <2> QED
    BY <1>1, <2>1, <2>2
<1> QED
  BY <1>2, <1>3, <1>4, <1>5, RedisSteps

LEMMA OthersDeliver ==
    ASSUME RBase, DeliverInv, Others, NEW r \in Rebuilders
    PROVE  DeliverAt(r)'
PROOF
<1>0. RBase' /\ Base /\ [Next]_vars /\ RebuildTypeOK
  BY OthersRBase DEF RBase, Others
<1>1. CASE flushes' # flushes
  <2>1. known'[r] = {}
    BY <1>1 DEF Others
  <2> QED
    BY <1>0, <2>1, NothingIsOwedNext DEF NothingOwed
<1>2. CASE flushes' = flushes
  <2>1. /\ known' = known /\ staging' = ExpireBoards(staging, stagingExpiry, now')
        /\ rpc' = rpc /\ rnow' = rnow /\ rperiod' = rperiod /\ rkey' = rkey /\ rbest' = rbest
    BY <1>2 DEF Others
  <2>2. /\ Period(r)' = Period(r) /\ Window(r)' = Window(r) /\ Scope(r)' = Scope(r)
        /\ Holding(r)' = Holding(r) /\ \A p \in Periods : Rebuilt(r, p)' = Rebuilt(r, p)
    BY <2>1 DEF Period, Window, Scope, Holding, Rebuilt
  <2>3. \A s, p : Through(r, s, p)' <=> Through(r, s, p)
    BY <2>1, <2>2 DEF Through
  <2>4. IsRows(scores) /\ known[r] \in SUBSET DOMAIN scores
    BY EntriesAreNat
  <2>5. \A s, p, w, u : Owed(scores', known'[r], s, p, w, u) = Owed(scores, known[r], s, p, w, u)
    <3>1. IsRows(scores')
      BY <1>0 DEF RBase, RebuildTypeOK, TypeOK, IsRows, Recorded
    <3>2. DOMAIN scores \subseteq DOMAIN scores' /\ \A i \in DOMAIN scores : scores'[i] = scores[i]
      BY <1>0, RowsStay DEF Base, Recorded
    <3> QED
      BY <2>1, <2>4, <3>1, <3>2, OwedStays
  <2>6. \A s \in Scopes : \A p, w, u : Owed(scores, known[r], s, p, w, u) \in Nat
    BY <2>4, OwedIs
  <2>7. Scope(r) \in Scopes /\ Period(r) \in Periods /\ Window(r) \in Time
    BY <1>0, KeyIsBoard
  <2>8. Holding(r)' => \A g \in Games, u \in Users :
            Value(rbest'[r][g][u]) >= Owed(scores', known'[r], g, Period(r)', Window(r)', u)
    BY <2>1, <2>2, <2>5 DEF DeliverInv, DeliverAt
  <2>9. ASSUME rpc'[r] \in {"expire", "rename"}, LiveAt(Period(r), Window(r), now'), NEW u \in Users
        PROVE  Value(Get(staging, r)'[u]) >= Owed(scores, known[r], Scope(r), Period(r), Window(r), u)
    <3>1. LiveAt(Period(r), Window(r), now)
      BY <1>0, <1>2, <2>7, <2>9, LiveEntriesStay
    <3>2. stagingExpiry[Scope(r)][Period(r)][Window(r)] \in Int /\ now' \in Int
          /\ Window(r) \in Int /\ Ttl[Period(r)] \in Nat
      <4>1. now' \in Time /\ stagingExpiry \in ExpiryType
        BY <1>0 DEF RBase, Base, RebuildTypeOK, TypeOK
      <4>2. stagingExpiry[Scope(r)][Period(r)][Window(r)] \in Int
        BY <2>7, <4>1 DEF ExpiryType
      <4> QED
        BY <2>7, <4>1, <4>2, PeriodsAssumption DEF Time
    <3>3. ~Expired(stagingExpiry, Scope(r), Period(r), Window(r), now')
      BY <2>7, <2>9, <3>2 DEF Expired, LiveAt, RBase, StagingLate
    <3>4. staging'[Scope(r)][Period(r)][Window(r)][u] = staging[Scope(r)][Period(r)][Window(r)][u]
      BY <2>1, <2>7, <3>3 DEF ExpireBoards
    <3>5. Get(staging, r)'[u] = Get(staging, r)[u]
      BY <2>2, <3>4 DEF Get
    <3> QED
      BY <2>1, <2>9, <3>1, <3>5 DEF DeliverInv, DeliverAt
  <2>10. ASSUME NEW s \in Scopes, NEW p \in Periods, Through(r, s, p),
                LiveAt(p, Rebuilt(r, p), now'), NEW u \in Users
         PROVE  Value(board'[s][p][Rebuilt(r, p)][u]) >= Owed(scores, known[r], s, p, Rebuilt(r, p), u)
    <3>1. PICK w \in Time : w = Rebuilt(r, p)
      BY EntriesAreNat
    <3>2. PICK x, y, z : /\ x = Value(board'[s][p][w][u]) /\ y = Value(board[s][p][w][u])
                         /\ z = Owed(scores, known[r], s, p, w, u)
      OBVIOUS
    <3>3. LiveAt(p, w, now) /\ x >= y
      BY <1>0, <1>2, <2>10, <3>1, <3>2, LiveEntriesStay
    <3>4. y >= z
      BY <2>10, <3>1, <3>2, <3>3 DEF DeliverInv, DeliverAt
    <3>5. z \in Nat /\ y \in Nat
      BY <2>6, <3>2, EntriesAreNat
    <3>6. x \in Nat
      <4>1. board' \in BoardType
        BY <1>0 DEF RBase, RebuildTypeOK, TypeOK
      <4>2. board'[s][p][w][u] \in Nat \cup {NoScore}
        BY <4>1 DEF BoardType
      <4> QED
        BY <3>2, <4>2 DEF Value, NoScore
    <3> QED
      BY <3>1, <3>2, <3>3, <3>4, <3>5, <3>6
  <2> QED
    BY <2>2, <2>3, <2>5, <2>8, <2>9, <2>10 DEF DeliverAt
<1> QED
  BY <1>1, <1>2


(* A rebuild's own commands, from the query to the swap.                   *)
LEMMA RebuildDeliverStep ==
    ASSUME RBase, DeliverInv, NEW r \in Rebuilders, Rebuild(r)
    PROVE  DeliverAt(r)'
PROOF
<1>0. RBase' /\ RebuildTypeOK /\ TypeOK /\ DeliverAt(r)
  BY NextRBase DEF RebuildNext, RBase, RebuildTypeOK, DeliverInv
<1>b. /\ Scope(r) \in Scopes /\ Period(r) \in Periods /\ Window(r) \in Time
      /\ staging \in BoardType /\ IsRows(scores)
  BY <1>0, KeyIsBoard, EntriesAreNat DEF RebuildTypeOK
<1>c. \A s \in Scopes : \A p, w, u : Owed(scores, known[r], s, p, w, u) \in Nat
  BY <1>b, OwedIs
<1>1. CASE RebuildStart(r)
  <2>1. rpc'[r] = "read"
    BY <1>0, <1>1 DEF RebuildStart, RebuildTypeOK
  <2> QED
    BY <1>1, <2>1, ThroughStart DEF DeliverAt, Holding
<1>2. CASE RebuildFails(r)
  <2>1. known'[r] = {}
    BY <1>2 DEF RebuildFails
  <2> QED
    BY <1>0, <2>1, NothingIsOwedNext DEF NothingOwed
<1>3. ASSUME RebuildRead(r) \/ RebuildClear(r) \/ RebuildZAdd(r) \/ RebuildExpire(r)
      PROVE  /\ rpc'[r] \in Commands /\ scores' = scores /\ now' = now /\ known'[r] = known[r]
             /\ Period(r)' = Period(r) /\ Window(r)' = Window(r) /\ Scope(r)' = Scope(r)
             /\ \A s \in Scopes, p \in Periods : Through(r, s, p)' /\ LiveAt(p, Rebuilt(r, p)', now') =>
                  \A u \in Users : Value(board'[s][p][Rebuilt(r, p)'][u])
                                      >= Owed(scores', known'[r], s, p, Rebuilt(r, p)', u)
  <2>1. /\ rpc[r] \in Commands /\ rnow' = rnow /\ vars' = vars /\ Disturbs(r)
        /\ \E c \in Commands : Goto(r, c)
    BY <1>3 DEF RebuildRead, RebuildClear, RebuildZAdd, RebuildExpire, Commands
  <2>2. board' = board /\ now' = now /\ scores' = scores /\ known'[r] = known[r]
    BY <2>1 DEF vars, Disturbs
  <2>3. rpc'[r] \in Commands /\ Period(r)' = Period(r) /\ Window(r)' = Window(r) /\ Scope(r)' = Scope(r)
    BY <1>0, <2>1, GotoIs DEF Period, Window, Scope
  <2>4. \A p \in Periods : Rebuilt(r, p)' = Rebuilt(r, p)
    BY <2>1 DEF Rebuilt
  <2>5. \A s \in Scopes, p \in Periods : Through(r, s, p)' => Through(r, s, p)
    BY <2>1, ThroughGoto
  <2> QED
    BY <1>0, <2>2, <2>3, <2>4, <2>5 DEF DeliverAt
<1>4. CASE RebuildRead(r)
  <2>1. rpc'[r] = "clear"
    BY <1>0, <1>4, GotoIs DEF RebuildRead, Commands
  <2>2. \A g \in Games, u \in Users : rbest'[r][g][u] = MaxOf(scores, g, Period(r), Window(r), u)
    <3>1. rbest'[r] = [g \in Games |-> [u \in Users |-> BestPoints(Period(r), Window(r), g, u)]]
      BY <1>0, <1>4 DEF RebuildRead, RebuildTypeOK
    <3> QED
      BY <1>0, <3>1, HistoryIs
  <2>3. \A g \in Games, u \in Users :
          Value(rbest'[r][g][u]) >= Owed(scores', known'[r], g, Period(r)', Window(r)', u)
    BY <1>3, <1>4, <1>b, <2>2, ReadOwed
  <2> QED
    BY <1>3, <1>4, <2>1, <2>3 DEF DeliverAt
<1>5. ASSUME RebuildClear(r) \/ RebuildZAdd(r) \/ RebuildExpire(r)
      PROVE  /\ \A g \in Games, u \in Users :
                    Value(rbest[r][g][u]) >= Owed(scores, known[r], g, Period(r), Window(r), u)
             /\ \A g \in Games, u \in Users :
                    Value(rbest'[r][g][u]) >= Owed(scores', known'[r], g, Period(r)', Window(r)', u)
  <2>1. Holding(r) /\ rbest' = rbest
    BY <1>5 DEF RebuildClear, RebuildZAdd, RebuildExpire, Holding
  <2> QED
    BY <1>0, <1>3, <1>5, <2>1 DEF DeliverAt
<1>6. CASE RebuildClear(r)
  <2>1. rpc'[r] = "zadd"
    BY <1>0, <1>6, GotoIs DEF RebuildClear, Commands
  <2> QED
    BY <1>3, <1>5, <1>6, <2>1 DEF DeliverAt
<1>7. CASE RebuildZAdd(r)
  <2>1. PICK x : x = [u \in Users |-> IF Members(r)[u] # NoScore THEN Members(r)[u] ELSE Get(staging, r)[u]]
    OBVIOUS
  <2>2. Get(staging, r) \in [Users -> Nat \cup {NoScore}] /\ Members(r) \in [Users -> Nat \cup {NoScore}]
    BY <1>0, <1>b, MembersType DEF Get, BoardType
  <2>3. x \in [Users -> Nat \cup {NoScore}]
    BY <2>1, <2>2
  <2>4. staging' = Set(staging, r, x)
    BY <1>7, <2>1 DEF RebuildZAdd
  <2>5. staging'[Scope(r)][Period(r)][Window(r)] = x
    BY <1>0, <1>b, <2>3, <2>4, SetBoardIs
  <2>6. Get(staging, r)' = x
    BY <1>3, <1>7, <2>5 DEF Get
  <2>7. ASSUME NEW u \in Users
        PROVE  Value(x[u]) >= Owed(scores, known[r], Scope(r), Period(r), Window(r), u)
    <3>1. PICK m, o : m = Members(r)[u] /\ o = Owed(scores, known[r], Scope(r), Period(r), Window(r), u)
      OBVIOUS
    <3>2. m \in Nat \cup {NoScore} /\ o \in Nat /\ Value(m) >= o
      BY <1>5, <1>7, <1>b, <1>c, <2>2, <3>1, MembersOwed
    <3>3. x[u] = IF m # NoScore THEN m ELSE Get(staging, r)[u]
      BY <2>1, <3>1
    <3>4. Get(staging, r)[u] \in Nat \cup {NoScore}
      BY <2>2
    <3>5. Value(x[u]) >= o
      BY <3>2, <3>3, <3>4 DEF Value, NoScore
    <3> QED
      BY <3>1, <3>5
  <2> QED
    BY <1>3, <1>5, <1>7, <2>6, <2>7 DEF DeliverAt
<1>8. CASE RebuildExpire(r)
  <2>1. rpc[r] = "expire" /\ staging' = staging
    BY <1>8 DEF RebuildExpire
  <2>2. Get(staging, r)' = Get(staging, r)
    BY <1>3, <1>8, <2>1 DEF Get
  <2>3. LiveAt(Period(r), Window(r), now) => \A u \in Users :
            Value(Get(staging, r)[u]) >= Owed(scores, known[r], Scope(r), Period(r), Window(r), u)
    BY <1>0, <2>1 DEF DeliverAt
  <2> QED
    BY <1>3, <1>5, <1>8, <2>2, <2>3 DEF DeliverAt
<1>9. CASE RebuildDelete(r) \/ RebuildRename(r)
  <2>1. /\ Holding(r) /\ rpc[r] \in Commands /\ rnow' = rnow /\ scores' = scores /\ now' = now
        /\ known'[r] = known[r] /\ Advance(r)
    BY <1>9 DEF RebuildDelete, RebuildRename, Holding, Commands, BoardsOnly, Disturbs
  <2>2. rpc'[r] \in {"clear", "read", "done"}
    BY <2>1, AdvanceIs
  <2>3. Holding(r)' => \A g \in Games, u \in Users :
          Value(rbest'[r][g][u]) >= Owed(scores', known'[r], g, Period(r)', Window(r)', u)
    <3> SUFFICES ASSUME Holding(r)', NEW g \in Games, NEW u \in Users
                 PROVE  Value(rbest'[r][g][u]) >= Owed(scores', known'[r], g, Period(r)', Window(r)', u)
      OBVIOUS
    <3>1. rbest'[r] = rbest[r] /\ rperiod'[r] = rperiod[r]
      BY <2>1, AdvanceIs DEF Holding
    <3>2. Period(r)' = Period(r) /\ Window(r)' = Window(r)
      BY <2>1, <3>1 DEF Period, Window
    <3> QED
      BY <1>0, <2>1, <3>1, <3>2 DEF DeliverAt
  <2>4. LiveAt(Period(r), Window(r), now) => \A u \in Users :
          Value(board'[Scope(r)][Period(r)][Window(r)][u])
             >= Owed(scores, known[r], Scope(r), Period(r), Window(r), u)
    <3> SUFFICES ASSUME LiveAt(Period(r), Window(r), now), NEW u \in Users
                 PROVE  Value(board'[Scope(r)][Period(r)][Window(r)][u])
                           >= Owed(scores, known[r], Scope(r), Period(r), Window(r), u)
      OBVIOUS
    <3>1. board'[Scope(r)][Period(r)][Window(r)][u] = IF rpc[r] = "rename" THEN Get(staging, r)[u] ELSE NoScore
      BY <1>9, <1>b, WritesKey
    <3>2. CASE RebuildRename(r)
      BY <1>0, <3>1, <3>2 DEF RebuildRename, DeliverAt
    <3>3. CASE RebuildDelete(r)
      <4>1. Members(r)[u] = NoScore /\ rpc[r] = "clear"
        BY <3>3 DEF RebuildDelete, Empty
      <4>2. Value(Members(r)[u]) >= Owed(scores, known[r], Scope(r), Period(r), Window(r), u)
        BY <1>0, <2>1, MembersOwed DEF DeliverAt
      <4> QED
        BY <3>1, <4>1, <4>2
    <3> QED
      BY <1>9, <3>2, <3>3
  <2>5. ASSUME NEW s \in Scopes, NEW p \in Periods, Through(r, s, p)', LiveAt(p, Rebuilt(r, p), now),
               NEW u \in Users
        PROVE  Value(board'[s][p][Rebuilt(r, p)][u]) >= Owed(scores, known[r], s, p, Rebuilt(r, p), u)
    <3>1. Rebuilt(r, Period(r)) = Window(r) /\ Rebuilt(r, p) \in Time
      BY EntriesAreNat DEF Rebuilt, Window
    <3>2. CASE s = Scope(r) /\ p = Period(r)
      BY <2>4, <2>5, <3>1, <3>2
    <3>3. CASE ~(s = Scope(r) /\ p = Period(r))
      <4>1. Through(r, s, p)
        BY <2>1, <2>5, <3>3, ThroughAdvance
      <4>2. board'[s][p][Rebuilt(r, p)][u] = board[s][p][Rebuilt(r, p)][u]
        BY <1>9, <3>1, <3>3, WritesKey
      <4> QED
        BY <1>0, <2>5, <4>1, <4>2 DEF DeliverAt
    <3> QED
      BY <3>2, <3>3
  <2>6. \A p \in Periods : Rebuilt(r, p)' = Rebuilt(r, p)
    BY <2>1 DEF Rebuilt
  <2> QED
    BY <2>1, <2>2, <2>3, <2>5, <2>6 DEF DeliverAt
<1> QED
  BY <1>1, <1>2, <1>4, <1>6, <1>7, <1>8, <1>9 DEF Rebuild

LEMMA NextDeliverInv ==
    ASSUME RBase, DeliverInv, [RebuildNext]_allVars
    PROVE  DeliverInv'
PROOF
<1> SUFFICES ASSUME NEW r \in Rebuilders PROVE DeliverAt(r)'
  BY DEF DeliverInv
<1>1. CASE Others
  BY <1>1, OthersDeliver
<1>2. ASSUME NEW q \in Rebuilders, Rebuild(q) PROVE DeliverAt(r)'
  <2>1. CASE q = r
    BY <1>2, <2>1, RebuildDeliverStep
  <2>2. CASE q # r
    <3>1. known'[r] = {}
      BY <1>2, <2>2 DEF Rebuild, RebuildStart, RebuildRead, RebuildDelete, RebuildClear, RebuildZAdd,
                        RebuildExpire, RebuildRename, RebuildFails, Disturbs
    <3>2. RBase'
      BY <1>2, NextRBase DEF RebuildNext
    <3> QED
      BY <3>1, <3>2, NothingIsOwedNext DEF NothingOwed
  <2> QED
    BY <2>1, <2>2
<1>3. CASE UNCHANGED allVars
  <2>1. UNCHANGED <<now, scores, board, rpc, rnow, rperiod, rkey, rbest, staging, known>>
    BY <1>3 DEF allVars, vars, rebuildVars
  <2>2. /\ Period(r)' = Period(r) /\ Window(r)' = Window(r) /\ Scope(r)' = Scope(r)
        /\ Holding(r)' = Holding(r) /\ Get(staging, r)' = Get(staging, r)
        /\ \A p \in Periods : Rebuilt(r, p)' = Rebuilt(r, p)
    BY <2>1 DEF Period, Window, Scope, Holding, Get, Rebuilt
  <2>3. \A s \in Scopes, p \in Periods : Through(r, s, p)' <=> Through(r, s, p)
    BY <2>1, <2>2 DEF Through
  <2> QED
    BY <2>1, <2>2, <2>3 DEF DeliverInv, DeliverAt
<1> QED
  BY <1>1, <1>2, <1>3 DEF RebuildNext

(* Whatever is projected while a rebuild runs, and however many rebuilds   *)
(* ran before it: when it is done, every score committed before it began   *)
(* counts on its game's board and in the total, in every window it rebuilt *)
(* that is still live, unless a flush or another rebuild came in between.  *)
THEOREM RebuildLosesNothing == RebuildSpec => []RebuildDelivers
PROOF
<1>1. RebuildInit => DeliverInv
  BY DEF RebuildInit, DeliverInv, DeliverAt, Holding, Through, Commands
<1>2. ASSUME RBase, DeliverInv PROVE RebuildDelivers
  <2>1. RebuildTypeOK /\ TypeOK
    BY <1>2 DEF RBase, RebuildTypeOK
  <2>2. ASSUME NEW r \in Rebuilders, rpc[r] = "done", NEW s \in Scopes, NEW p \in Periods, NEW u \in Users,
               LiveAt(p, WindowStart[p][rnow[r]], now)
        PROVE  Value(board[s][p][WindowStart[p][rnow[r]]][u])
                 >= Worth(s, [g \in Games |-> BestOf(History(g, p, WindowStart[p][rnow[r]], u) \cap known[r])])
    <3>1. Through(r, s, p)
      BY <2>2 DEF Through
    <3>2. Value(board[s][p][WindowStart[p][rnow[r]]][u])
            >= Owed(scores, known[r], s, p, WindowStart[p][rnow[r]], u)
      BY <1>2, <2>2, <3>1 DEF DeliverInv, DeliverAt, Rebuilt
    <3> QED
      BY <2>1, <3>2, OwedMeans
  <2> QED
    BY <2>1, <2>2 DEF RebuildDelivers
<1> QED
  BY <1>1, <1>2, InitRBase, NextRBase, NextDeliverInv, PTL DEF RebuildSpec


-----------------------------------------------------------------------------

(* An expiry of a staging key lies ahead, within the TTL, and goes with    *)
(* the key; a staging key that is about to become a windowed board has one. *)
(* The latter needs that no other rebuild is at the same key.              *)
StagingKeys ==
    \A s \in Scopes, p \in Periods, w \in Time :
        stagingExpiry[s][p][w] # NoExpiry =>
            Exists(staging, s, p, w) /\ stagingExpiry[s][p][w] \in now + 1 .. now + Ttl[p]

RenameTimed ==
    \A r \in Rebuilders :
        rpc[r] = "rename" /\ Ttl[Period(r)] > 0 /\ Get(staging, r) # Empty => Get(stagingExpiry, r) # NoExpiry

OneRebuild == \A q, r \in Rebuilders : q = r

LEMMA EmptyIsAbsent ==
    ASSUME RebuildTypeOK, NEW r \in Rebuilders
    PROVE  Get(staging, r) # Empty <=> Exists(staging, Scope(r), Period(r), Window(r))
PROOF
<1>1. PICK x : x = Get(staging, r)
  OBVIOUS
<1>2. x \in [Users -> Nat \cup {NoScore}]
  BY <1>1, KeyIsBoard DEF Get, RebuildTypeOK, BoardType
<1>3. x # Empty <=> \E u \in Users : x[u] # NoScore
  BY <1>2 DEF Empty
<1> QED
  BY <1>1, <1>3 DEF Get, Exists

(* Time and flushes treat staging keys like boards.                        *)
LEMMA OthersStaging ==
    ASSUME RBase, StagingKeys, RenameTimed, Others
    PROVE  StagingKeys' /\ RenameTimed'
PROOF
<1>0. /\ RebuildTypeOK /\ Base /\ Base' /\ now \in Int /\ now' \in Int
      /\ staging \in BoardType /\ stagingExpiry \in ExpiryType
  BY OthersRBase DEF RBase, RebuildTypeOK, Base, TypeOK, Time
<1>1. now' = now \/ now' = now + 1
  BY <1>0, RedisSteps DEF Others, Flush, Tick
<1>2. \A r \in Rebuilders : Period(r)' = Period(r) /\ Window(r)' = Window(r) /\ Scope(r)' = Scope(r)
  BY DEF Others, Period, Window, Scope
<1>3. CASE flushes' # flushes
  <2>1. StagingKeys'
    BY <1>3 DEF Others, StagingKeys, NoExpiries
  <2>2. \A r \in Rebuilders : Get(staging, r)' = Empty
    BY <1>0, <1>2, <1>3, KeyIsBoard DEF Others, NoBoards, Get, Empty
  <2> QED
    BY <2>1, <2>2 DEF RenameTimed, Empty
<1>4. CASE flushes' = flushes
  <2>1. \A s \in Scopes, p \in Periods, w \in Time :
          IF Expired(stagingExpiry, s, p, w, now')
          THEN /\ stagingExpiry'[s][p][w] = NoExpiry
               /\ \A u \in Users : staging'[s][p][w][u] = NoScore
          ELSE /\ stagingExpiry'[s][p][w] = stagingExpiry[s][p][w]
               /\ \A u \in Users : staging'[s][p][w][u] = staging[s][p][w][u]
    BY <1>4 DEF Others, ExpireBoards, ExpireExpiries
  <2>2. StagingKeys'
    <3> SUFFICES ASSUME NEW s \in Scopes, NEW p \in Periods, NEW w \in Time, stagingExpiry'[s][p][w] # NoExpiry
                 PROVE  Exists(staging', s, p, w) /\ stagingExpiry'[s][p][w] \in now' + 1 .. now' + Ttl[p]
      BY DEF StagingKeys
    <3>1. /\ ~Expired(stagingExpiry, s, p, w, now')
          /\ stagingExpiry'[s][p][w] = stagingExpiry[s][p][w]
          /\ \A u \in Users : staging'[s][p][w][u] = staging[s][p][w][u]
      BY <2>1
    <3>2. Exists(staging, s, p, w) /\ stagingExpiry[s][p][w] \in now + 1 .. now + Ttl[p]
      BY <3>1 DEF StagingKeys
    <3>3. Exists(staging', s, p, w)
      BY <3>1, <3>2 DEF Exists
    <3>4. PICK x : x = stagingExpiry[s][p][w]
      OBVIOUS
    <3>5. x \in now + 1 .. now + Ttl[p] /\ ~(x =< now') /\ Ttl[p] \in Nat
      BY <3>1, <3>2, <3>4, PeriodsAssumption DEF Expired
    <3>6. x \in now' + 1 .. now' + Ttl[p]
      <4>1. PICK n \in Int, m \in Int, t \in Nat : n = now /\ m = now' /\ t = Ttl[p]
        BY <1>0, <3>5
      <4>2. x \in Int /\ x >= n + 1 /\ x =< n + t
        BY <3>5, <4>1
      <4>3. ~(x =< m) /\ (m = n \/ m = n + 1)
        BY <1>1, <3>5, <4>1
      <4>4. x \in m + 1 .. m + t
        BY <4>2, <4>3
      <4> QED
        BY <4>1, <4>4
    <3> QED
      BY <3>1, <3>3, <3>4, <3>6
  <2>3. RenameTimed'
    <3> SUFFICES ASSUME NEW r \in Rebuilders, rpc'[r] = "rename", Ttl[Period(r)'] > 0, Get(staging, r)' # Empty
                 PROVE  Get(stagingExpiry, r)' # NoExpiry
      BY DEF RenameTimed, Empty
    <3>1. rpc[r] = "rename" /\ Ttl[Period(r)] > 0
      BY <1>2 DEF Others
    <3>2. PICK s \in Scopes, p \in Periods, w \in Time : s = Scope(r) /\ p = Period(r) /\ w = Window(r)
      BY <1>0, KeyIsBoard
    <3>3. /\ Get(staging, r)' = staging'[s][p][w] /\ Get(stagingExpiry, r)' = stagingExpiry'[s][p][w]
          /\ Get(staging, r) = staging[s][p][w] /\ Get(stagingExpiry, r) = stagingExpiry[s][p][w]
      BY <1>2, <3>2 DEF Get
    <3>4. staging'[s][p][w] \in [Users -> Nat \cup {NoScore}] /\ staging[s][p][w] \in [Users -> Nat \cup {NoScore}]
      BY <1>0, OthersRBase DEF RBase, RebuildTypeOK, BoardType
    <3>5. ~Expired(stagingExpiry, s, p, w, now')
      BY <2>1, <3>3, <3>4 DEF Empty
    <3>6. staging'[s][p][w] = staging[s][p][w] /\ stagingExpiry'[s][p][w] = stagingExpiry[s][p][w]
      BY <2>1, <3>4, <3>5
    <3> QED
      BY <3>1, <3>3, <3>6 DEF RenameTimed
  <2> QED
    BY <2>2, <2>3
<1> QED
  BY <1>3, <1>4

(* A rebuild alone with its staging key stages, times and swaps it.        *)
LEMMA RebuildKeysStep ==
    ASSUME OneRebuild, RBase, StagingKeys, RenameTimed, KeysExpire, NEW r \in Rebuilders, Rebuild(r)
    PROVE  StagingKeys' /\ RenameTimed' /\ KeysExpire'
PROOF
<1>0. /\ RebuildTypeOK /\ TypeOK /\ now \in Nat
      /\ board \in BoardType /\ staging \in BoardType
      /\ expiry \in ExpiryType /\ stagingExpiry \in ExpiryType
  BY TimeAssumption DEF RBase, RebuildTypeOK, TypeOK, Time
<1>1. now' = now
  BY DEF Rebuild, RebuildStart, RebuildRead, RebuildDelete, RebuildClear, RebuildZAdd, RebuildExpire,
         RebuildRename, RebuildFails, BoardsOnly, vars
<1>2. \A q \in Rebuilders : q = r
  BY DEF OneRebuild
<1>3. PICK a \in Scopes, b \in Periods, c \in Time : a = Scope(r) /\ b = Period(r) /\ c = Window(r)
  BY <1>0, KeyIsBoard
<1>4. Get(staging, r) = staging[a][b][c] /\ Get(stagingExpiry, r) = stagingExpiry[a][b][c]
  BY <1>3 DEF Get
<1>5. Get(staging, r) # Empty <=> Exists(staging, a, b, c)
  BY <1>0, <1>3, EmptyIsAbsent
<1>6. Ttl[b] \in Nat /\ (stagingExpiry[a][b][c] # NoExpiry => Ttl[b] > 0)
  BY PeriodsAssumption DEF RBase, StagingLate
<1>7. RenameTimed'
  <2>1. CASE rpc'[r] # "rename"
    BY <1>2, <2>1 DEF RenameTimed
  <2>2. CASE rpc'[r] = "rename"
    <3>1. RebuildZAdd(r) \/ RebuildExpire(r)
      <4>1. RebuildDelete(r) \/ RebuildRename(r) => FALSE
        BY <2>2, AdvanceIs DEF RebuildDelete, RebuildRename
      <4>2. RebuildRead(r) \/ RebuildClear(r) => FALSE
        BY <1>0, <2>2, GotoIs DEF RebuildRead, RebuildClear, Commands
      <4>3. RebuildStart(r) \/ RebuildFails(r) => FALSE
        BY <1>0, <2>2 DEF RebuildStart, RebuildFails, RebuildTypeOK
      <4> QED
        BY <4>1, <4>2, <4>3 DEF Rebuild
    <3>2. Period(r)' = b /\ Scope(r)' = a /\ Window(r)' = c
      <4>1. rnow' = rnow /\ rkey' = rkey /\ rperiod' = rperiod
        BY <3>1 DEF RebuildZAdd, RebuildExpire, Goto
      <4> QED
        BY <1>3, <4>1 DEF Period, Scope, Window
    <3>3. CASE RebuildZAdd(r)
      <4>1. ~(Ttl[b] > 0)
        BY <1>0, <1>3, <2>2, <3>3, GotoIs DEF RebuildZAdd, Commands
      <4> QED
        BY <1>2, <3>2, <4>1 DEF RenameTimed
    <3>4. CASE RebuildExpire(r)
      <4>1. staging' = staging
        BY <3>4 DEF RebuildExpire
      <4>2. CASE Get(staging, r) = Empty
        <5>1. Get(staging, r)' = Empty
          BY <1>4, <3>2, <4>1, <4>2 DEF Get
        <5> QED
          BY <1>2, <5>1 DEF RenameTimed, Empty
      <4>3. CASE Get(staging, r) # Empty
        <5>1. stagingExpiry' = Set(stagingExpiry, r, now + Ttl[b])
          BY <1>3, <3>4, <4>3 DEF RebuildExpire
        <5>2. now + Ttl[b] \in Int /\ now + Ttl[b] # NoExpiry
          BY <1>0, <1>6 DEF NoExpiry
        <5>3. stagingExpiry'[a][b][c] = now + Ttl[b]
          BY <1>0, <1>3, <5>1, <5>2, SetExpiryIs
        <5>4. Get(stagingExpiry, r)' # NoExpiry
          BY <3>2, <5>2, <5>3 DEF Get
        <5> QED
          BY <1>2, <5>4 DEF RenameTimed
      <4> QED
        BY <4>2, <4>3
    <3> QED
      BY <3>1, <3>3, <3>4
  <2> QED
    BY <2>1, <2>2
<1>8. StagingKeys'
  <2>1. CASE UNCHANGED <<staging, stagingExpiry>>
    BY <1>1, <2>1 DEF StagingKeys
  <2>2. ASSUME NEW x \in [Users -> Nat \cup {NoScore}], staging' = Set(staging, r, x),
               stagingExpiry' = Set(stagingExpiry, r, NoExpiry)
        PROVE  StagingKeys'
    <3>1. \A s \in Scopes, p \in Periods, w \in Time : staging'[s][p][w] =
            IF s = Scope(r) /\ p = Period(r) /\ w = Window(r) THEN x ELSE staging[s][p][w]
      BY <1>0, <2>2, SetBoardIs
    <3>2. \A s \in Scopes, p \in Periods, w \in Time : stagingExpiry'[s][p][w] =
            IF s = Scope(r) /\ p = Period(r) /\ w = Window(r) THEN NoExpiry ELSE stagingExpiry[s][p][w]
      BY <1>0, <2>2, SetExpiryIs, EmptyType
    <3> QED
      BY <1>1, <3>1, <3>2 DEF StagingKeys, Exists
  <2>3. CASE RebuildClear(r) \/ RebuildRename(r)
    BY <2>2, <2>3, EmptyType DEF RebuildClear, RebuildRename
  <2>4. CASE RebuildZAdd(r)
    <3>1. PICK x : x = [u \in Users |-> IF Members(r)[u] # NoScore THEN Members(r)[u] ELSE Get(staging, r)[u]]
      OBVIOUS
    <3>2. Get(staging, r) \in [Users -> Nat \cup {NoScore}] /\ Members(r) \in [Users -> Nat \cup {NoScore}]
      BY <1>0, <1>4, MembersType DEF BoardType
    <3>3. x \in [Users -> Nat \cup {NoScore}] /\ \A u \in Users : staging[a][b][c][u] # NoScore => x[u] # NoScore
      BY <1>4, <3>1, <3>2
    <3>4. staging' = Set(staging, r, x) /\ stagingExpiry' = stagingExpiry
      BY <2>4, <3>1 DEF RebuildZAdd
    <3>5. \A s \in Scopes, p \in Periods, w \in Time : staging'[s][p][w] =
            IF s = a /\ p = b /\ w = c THEN x ELSE staging[s][p][w]
      BY <1>0, <1>3, <3>3, <3>4, SetBoardIs
    <3>6. \A s \in Scopes, p \in Periods, w \in Time : Exists(staging, s, p, w) => Exists(staging', s, p, w)
      BY <3>3, <3>5 DEF Exists
    <3> QED
      BY <1>1, <3>4, <3>6 DEF StagingKeys
  <2>5. CASE RebuildExpire(r)
    <3>1. staging' = staging /\ rpc[r] = "expire"
      BY <2>5 DEF RebuildExpire
    <3>2. CASE Get(staging, r) = Empty
      BY <2>1, <2>5, <3>1, <3>2 DEF RebuildExpire
    <3>3. CASE Get(staging, r) # Empty
      <4>1. Ttl[b] > 0 /\ Exists(staging, a, b, c)
        BY <1>3, <1>5, <3>1, <3>3 DEF RBase, Placed
      <4>2. PICK y \in Int : y = now + Ttl[b]
        BY <1>0, <1>6
      <4>3. y \in now + 1 .. now + Ttl[b]
        BY <1>0, <1>6, <4>1, <4>2
      <4>4. stagingExpiry' = Set(stagingExpiry, r, y)
        BY <1>3, <2>5, <3>3, <4>2 DEF RebuildExpire
      <4>5. \A s \in Scopes, p \in Periods, w \in Time : stagingExpiry'[s][p][w] =
              IF s = a /\ p = b /\ w = c THEN y ELSE stagingExpiry[s][p][w]
        BY <1>0, <1>3, <4>4, SetExpiryIs
      <4> QED
        BY <1>1, <3>1, <4>1, <4>3, <4>5 DEF StagingKeys
    <3> QED
      BY <3>2, <3>3
  <2> QED
    BY <2>1, <2>3, <2>4, <2>5 DEF Rebuild, RebuildStart, RebuildRead, RebuildDelete, RebuildFails
<1>9. KeysExpire'
  <2>1. CASE UNCHANGED <<board, expiry>>
    BY <1>1, <2>1 DEF KeysExpire
  <2>2. ASSUME NEW x \in [Users -> Nat \cup {NoScore}], NEW y \in Int,
               board' = Set(board, r, x), expiry' = Set(expiry, r, y),
               IF (\E u \in Users : x[u] # NoScore) /\ Ttl[b] > 0
               THEN y \in now + 1 .. now + Ttl[b] ELSE y = NoExpiry
        PROVE  KeysExpire'
    <3>1. \A s \in Scopes, p \in Periods, w \in Time : board'[s][p][w] =
            IF s = a /\ p = b /\ w = c THEN x ELSE board[s][p][w]
      BY <1>0, <1>3, <2>2, SetBoardIs
    <3>2. \A s \in Scopes, p \in Periods, w \in Time : expiry'[s][p][w] =
            IF s = a /\ p = b /\ w = c THEN y ELSE expiry[s][p][w]
      BY <1>0, <1>3, <2>2, SetExpiryIs
    <3> SUFFICES ASSUME NEW s \in Scopes, NEW p \in Periods, NEW w \in Time
                 PROVE  IF Exists(board', s, p, w) /\ Ttl[p] > 0
                        THEN expiry'[s][p][w] \in now + 1 .. now + Ttl[p]
                        ELSE expiry'[s][p][w] = NoExpiry
      BY <1>1 DEF KeysExpire
    <3>3. CASE s = a /\ p = b /\ w = c
      BY <2>2, <3>1, <3>2, <3>3 DEF Exists
    <3>4. CASE ~(s = a /\ p = b /\ w = c)
      <4>1. board'[s][p][w] = board[s][p][w] /\ expiry'[s][p][w] = expiry[s][p][w]
        BY <3>1, <3>2, <3>4
      <4> QED
        BY <4>1 DEF KeysExpire, Exists
    <3> QED
      BY <3>3, <3>4
  <2>3. CASE RebuildDelete(r)
    <3>1. \A u \in Users : Empty[u] = NoScore
      BY DEF Empty
    <3> QED
      BY <2>2, <2>3, <3>1, EmptyType DEF RebuildDelete
  <2>4. CASE RebuildRename(r)
    <3>1. PICK x \in [Users -> Nat \cup {NoScore}], y \in Int : x = Get(staging, r) /\ y = Get(stagingExpiry, r)
      <4>1. staging[a][b][c] \in [Users -> Nat \cup {NoScore}]
        BY <1>0 DEF BoardType
      <4>2. stagingExpiry[a][b][c] \in Int
        BY <1>0 DEF ExpiryType
      <4> QED
        BY <1>4, <4>1, <4>2, Zenon
    <3>2. rpc[r] = "rename" /\ x # Empty /\ board' = Set(board, r, x) /\ expiry' = Set(expiry, r, y)
      BY <2>4, <3>1 DEF RebuildRename
    <3>3. \E u \in Users : x[u] # NoScore
      BY <3>2 DEF Empty
    <3>4. Ttl[b] > 0 => y # NoExpiry
      BY <1>3, <3>1, <3>2 DEF RenameTimed
    <3>5. y # NoExpiry => y \in now + 1 .. now + Ttl[b] /\ Ttl[b] > 0
      BY <1>4, <1>6, <3>1 DEF StagingKeys
    <3> QED
      BY <2>2, <3>2, <3>3, <3>4, <3>5
  <2> QED
    BY <2>1, <2>3, <2>4 DEF Rebuild, RebuildStart, RebuildRead, RebuildClear, RebuildZAdd, RebuildExpire,
                            RebuildFails, vars
<1> QED
  BY <1>7, <1>8, <1>9

LEMMA NextRebuiltKeys ==
    ASSUME OneRebuild, RBase, StagingKeys, RenameTimed, KeysExpire, [RebuildNext]_allVars
    PROVE  StagingKeys' /\ RenameTimed' /\ KeysExpire'
PROOF
<1>1. CASE Others
  BY <1>1, OthersStaging, NextKeys DEF Others, RBase
<1>2. ASSUME NEW r \in Rebuilders, Rebuild(r) PROVE StagingKeys' /\ RenameTimed' /\ KeysExpire'
  BY <1>2, RebuildKeysStep
<1>3. CASE UNCHANGED allVars
  <2>1. UNCHANGED <<now, board, expiry, rpc, rnow, rperiod, rkey, staging, stagingExpiry>>
    BY <1>3 DEF allVars, vars, rebuildVars
  <2>2. StagingKeys' /\ KeysExpire'
    BY <2>1 DEF StagingKeys, KeysExpire
  <2>3. RenameTimed'
    BY <2>1 DEF RenameTimed, Get, Empty, Period, Window, Scope
  <2> QED
    BY <2>2, <2>3
<1> QED
  BY <1>1, <1>2, <1>3 DEF RebuildNext

(* As long as only one process ever rebuilds, a rebuilt board expires like *)
(* any other, whatever a rebuild that broke off left in the staging key:   *)
(* replaceKey sets the expiry on the staging key, and RENAME carries it.   *)
THEOREM RebuiltKeysExpire ==
    ASSUME OneRebuild
    PROVE  RebuildSpec => []KeysExpire
PROOF
<1>1. RebuildInit => StagingKeys /\ RenameTimed /\ KeysExpire
  BY DEF RebuildInit, Init, StagingKeys, RenameTimed, KeysExpire, NoBoards, NoExpiries, Exists
<1>2. RBase /\ StagingKeys /\ RenameTimed /\ KeysExpire /\ [RebuildNext]_allVars
        => StagingKeys' /\ RenameTimed' /\ KeysExpire'
  BY NextRebuiltKeys
<1> QED
  BY <1>1, <1>2, InitRBase, NextRBase, PTL DEF RebuildSpec

=============================================================================
