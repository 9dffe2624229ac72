--------------------------- MODULE BoardReadsProofs ---------------------------
(***************************************************************************)
(* BoardReads, for every number of players, points, page sizes and writes. *)
(* Redis's order is a total order of the members, so that the member at    *)
(* index i has exactly i members before it (DescendingIs); a row that      *)
(* scores less than the row before it then has the rank that its position  *)
(* says, and a tie the rank of the row before (RanksAre).  ReadInv follows *)
(* a request: what it has read is of the sorted set at that moment, which  *)
(* only improves until it is lost.                                         *)
(***************************************************************************)
EXTENDS BoardReads, FiniteSetTheorems, WellFoundedInduction, TLAPS

Board == [Players -> 0 .. MaxPoints \cup {NoScore}]

(* A non-empty set of natural numbers has a least element.                 *)
LEMMA LeastNat ==
    ASSUME NEW T \in SUBSET Nat, T # {}
    PROVE  \E x \in T : \A y \in T : x =< y
PROOF
<1>1. PICK x \in T : \A y \in T : ~ (<<y, x>> \in OpToRel(<, Nat))
  BY NatLessThanWellFounded, WFMin, Zenon
<1>2. ASSUME NEW y \in T PROVE x =< y
  <2>1. x \in Nat /\ y \in Nat
    OBVIOUS
  <2>2. y < x => <<y, x>> \in OpToRel(<, Nat)
    BY <2>1 DEF OpToRel
  <2>3. ~(y < x)
    BY <1>1, <2>2, Zenon
  <2> QED
    BY <2>1, <2>3
<1> QED
  BY <1>2

LEMMA MembersFinite ==
    ASSUME NEW z \in Board
    PROVE  /\ Members(z) \subseteq Players /\ IsFiniteSet(Members(z))
           /\ Cardinality(Members(z)) \in 0 .. MaxPlayers
           /\ \A S \in SUBSET Members(z) :
                IsFiniteSet(S) /\ Cardinality(S) \in Nat /\ Cardinality(S) =< Cardinality(Members(z))
           /\ \A u \in Members(z) : u \in Int /\ z[u] \in Nat /\ z[u] \in 0 .. MaxPoints
PROOF
<1>1. IsFiniteSet(Players) /\ Cardinality(Players) = MaxPlayers
  BY FS_Interval, ReadsAssumption DEF Players
<1>2. Members(z) \subseteq Players
  BY DEF Members
<1>3. IsFiniteSet(Members(z)) /\ Cardinality(Members(z)) =< MaxPlayers
  BY <1>1, <1>2, FS_Subset
<1>4. Cardinality(Members(z)) \in Nat
  BY <1>3, FS_CardinalityType
<1>5. ASSUME NEW S \in SUBSET Members(z)
      PROVE  IsFiniteSet(S) /\ Cardinality(S) \in Nat /\ Cardinality(S) =< Cardinality(Members(z))
  BY <1>3, FS_Subset, FS_CardinalityType
<1>6. \A u \in Members(z) : u \in Int /\ z[u] \in Nat /\ z[u] \in 0 .. MaxPoints
  BY <1>2, ReadsAssumption DEF Board, Members, Players, NoScore
<1> QED
  BY <1>2, <1>3, <1>4, <1>5, <1>6, ReadsAssumption

(* The order of the members is total.                                      *)
LEMMA BeforeIsOrder ==
    ASSUME NEW z \in Board
    PROVE  /\ \A u \in Members(z) : ~Before(z, u, u)
           /\ \A u, v \in Members(z) : u # v => Before(z, u, v) \/ Before(z, v, u)
           /\ \A u, v \in Members(z) : ~(Before(z, u, v) /\ Before(z, v, u))
           /\ \A u, v, w \in Members(z) : Before(z, u, v) /\ Before(z, v, w) => Before(z, u, w)
BY MembersFinite DEF Before

(* The members before u.                                                   *)
Pred(z, u) == {v \in Members(z) : Before(z, v, u)}

(* Positions follow the order, and there is one for each index.            *)
LEMMA PositionIs ==
    ASSUME NEW z \in Board
    PROVE  /\ \A u \in Members(z) : Position(z, u) \in 0 .. Cardinality(Members(z)) - 1
           /\ \A u, v \in Members(z) : Before(z, u, v) <=> Position(z, u) < Position(z, v)
           /\ \A u, v \in Members(z) : Position(z, u) = Position(z, v) => u = v
PROOF
<1>1. PICK n, M : n = Cardinality(Members(z)) /\ M = Members(z)
  OBVIOUS
<1>2. IsFiniteSet(M) /\ n \in Nat
  BY <1>1, MembersFinite
<1>3. \A u : Position(z, u) = Cardinality(Pred(z, u)) /\ Pred(z, u) \in SUBSET M
  BY <1>1 DEF Position, Pred
<1>4. \A u : IsFiniteSet(Pred(z, u)) /\ Cardinality(Pred(z, u)) \in Nat
  BY <1>1, <1>3, MembersFinite
<1>5. ASSUME NEW u \in M PROVE Position(z, u) \in 0 .. n - 1
  <2>1. Pred(z, u) \in SUBSET (M \ {u})
    BY <1>1, BeforeIsOrder DEF Pred
  <2>2. IsFiniteSet(M \ {u}) /\ Cardinality(M \ {u}) = n - 1
    BY <1>1, <1>2, FS_RemoveElement
  <2>3. Cardinality(Pred(z, u)) =< n - 1
    BY <2>1, <2>2, FS_Subset
  <2> QED
    BY <1>2, <1>3, <1>4, <2>3
<1>6. ASSUME NEW u \in M, NEW v \in M, Before(z, u, v) PROVE Position(z, u) < Position(z, v)
  <2>1. Pred(z, u) \in SUBSET Pred(z, v) /\ u \in Pred(z, v) /\ u \notin Pred(z, u)
    BY <1>1, <1>6, BeforeIsOrder DEF Pred
  <2>2. PICK a, b : a = Cardinality(Pred(z, u)) /\ b = Cardinality(Pred(z, v))
    OBVIOUS
  <2>3. a =< b /\ (b = a => Pred(z, v) = Pred(z, u))
    BY <1>4, <2>1, <2>2, FS_Subset
  <2>4. a \in Nat /\ b \in Nat /\ a # b
    BY <1>4, <2>1, <2>2, <2>3
  <2> QED
    BY <1>3, <2>2, <2>3, <2>4
<1>7. ASSUME NEW u \in M, NEW v \in M PROVE Before(z, u, v) <=> Position(z, u) < Position(z, v)
  <2>1. PICK a, b : a = Position(z, u) /\ b = Position(z, v)
    OBVIOUS
  <2>2. a \in Int /\ b \in Int
    BY <1>2, <1>5, <2>1
  <2>3. u = v \/ Before(z, u, v) \/ Before(z, v, u)
    BY <1>1, BeforeIsOrder
  <2>4. (Before(z, u, v) => a < b) /\ (Before(z, v, u) => b < a) /\ (u = v => a = b)
    BY <1>6, <2>1
  <2> QED
    BY <2>1, <2>2, <2>3, <2>4
<1>8. ASSUME NEW u \in M, NEW v \in M, Position(z, u) = Position(z, v) PROVE u = v
  <2>1. Position(z, u) \in Int
    BY <1>2, <1>5
  <2>2. ~Before(z, u, v) /\ ~Before(z, v, u)
    BY <1>7, <1>8, <2>1
  <2> QED
    BY <1>1, <2>2, BeforeIsOrder
<1> QED
  BY <1>1, <1>5, <1>7, <1>8

(* There is a member at every position.                                    *)
LEMMA PositionsFilled ==
    ASSUME NEW z \in Board
    PROVE  \A k \in 0 .. Cardinality(Members(z)) - 1 : \E u \in Members(z) : Position(z, u) = k
PROOF
<1>1. PICK n, M : n = Cardinality(Members(z)) /\ M = Members(z)
  OBVIOUS
<1>2. IsFiniteSet(M) /\ n \in Nat
  BY <1>1, MembersFinite
<1>3. PICK f : f = [u \in M |-> Position(z, u)]
  OBVIOUS
<1>4. f \in [M -> 0 .. n - 1] /\ \A u, v \in M : f[u] = f[v] => u = v
  BY <1>1, <1>3, PositionIs
<1>5. f \in Injection(M, 0 .. n - 1)
  BY <1>4 DEF Injection, IsInjective
<1>6. IsFiniteSet(0 .. n - 1) /\ Cardinality(0 .. n - 1) = n
  BY <1>2, FS_Interval
<1>7. f \in Surjection(M, 0 .. n - 1)
  BY <1>1, <1>5, <1>6, FS_Injection
<1>8. \A k \in 0 .. n - 1 : \E u \in M : f[u] = k
  BY <1>7 DEF Surjection
<1> QED
  BY <1>1, <1>3, <1>8

(* Redis's order lists the members by position.                            *)
LEMMA DescendingIs ==
    ASSUME NEW z \in Board
    PROVE  /\ Descending(z) \in [1 .. Cardinality(Members(z)) -> Members(z)]
           /\ DOMAIN Descending(z) = 1 .. Cardinality(Members(z))
           /\ Len(Descending(z)) = Cardinality(Members(z))
           /\ \A i \in 1 .. Cardinality(Members(z)) : Position(z, Descending(z)[i]) = i - 1
PROOF
<1>1. PICK n, M : n = Cardinality(Members(z)) /\ M = Members(z)
  OBVIOUS
<1>2. IsFiniteSet(M) /\ n \in Nat
  BY <1>1, MembersFinite
<1>3. PICK w : w = [i \in 1 .. n |-> CHOOSE u \in M : Position(z, u) = i - 1]
  OBVIOUS
<1>4. \A i \in 1 .. n : w[i] \in M /\ Position(z, w[i]) = i - 1
  <2> TAKE i \in 1 .. n
  <2>1. i - 1 \in 0 .. n - 1
    BY <1>2
  <2>2. \E u \in M : Position(z, u) = i - 1
    BY <1>1, <2>1, PositionsFilled
  <2> QED
    BY <1>3, <2>2
<1>5. w \in [1 .. n -> M]
  BY <1>3, <1>4
<1>6. \A i, j \in 1 .. n : i # j => w[i] # w[j]
  <2> SUFFICES ASSUME NEW i \in 1 .. n, NEW j \in 1 .. n, w[i] = w[j] PROVE i = j
    OBVIOUS
  <2> QED
    BY <1>2, <1>4
<1>7. w \in SetToSeqs(M)
  BY <1>1, <1>5, <1>6 DEF SetToSeqs
<1>8. \A i, j \in DOMAIN w : i < j => Before(z, w[i], w[j])
  <2> SUFFICES ASSUME NEW i \in 1 .. n, NEW j \in 1 .. n, i < j PROVE Before(z, w[i], w[j])
    BY <1>5
  <2>1. Position(z, w[i]) < Position(z, w[j])
    BY <1>2, <1>4
  <2> QED
    BY <1>1, <1>4, <2>1, PositionIs
<1>9. PICK d : d = Descending(z)
  OBVIOUS
<1>10. d \in SetToSeqs(M) /\ \A i, j \in DOMAIN d : i < j => Before(z, d[i], d[j])
  BY <1>1, <1>7, <1>8, <1>9 DEF Descending
<1>11. d \in [1 .. n -> M] /\ \A i, j \in 1 .. n : i # j => d[i] # d[j]
  BY <1>1, <1>10 DEF SetToSeqs
<1>12. DOMAIN d = 1 .. n /\ Len(d) = n
  BY <1>2, <1>11
<1>13. \A i, j \in 1 .. n : i < j => Before(z, d[i], d[j])
  BY <1>10, <1>12
<1>14. d \in Injection(1 .. n, M)
  BY <1>11 DEF Injection, IsInjective
<1>15. Cardinality(1 .. n) = n
  BY <1>2, FS_Interval
<1>16. d \in Surjection(1 .. n, M)
  BY <1>1, <1>2, <1>14, <1>15, FS_Injection
<1>17. \A u \in M : \E j \in 1 .. n : d[j] = u
  BY <1>16 DEF Surjection
<1>18. ASSUME NEW i \in 1 .. n PROVE Position(z, d[i]) = i - 1
  <2>1. PICK g : g = [j \in 1 .. i - 1 |-> d[j]]
    OBVIOUS
  <2>2. \A j \in 1 .. i - 1 : j \in 1 .. n /\ j < i
    BY <1>2
  <2>3. \A j \in 1 .. i - 1 : g[j] = d[j] /\ g[j] \in Pred(z, d[i])
    <3> TAKE j \in 1 .. i - 1
    <3>1. g[j] = d[j]
      BY <2>1
    <3>2. d[j] \in M /\ Before(z, d[j], d[i])
      BY <1>11, <1>13, <2>2
    <3> QED
      BY <1>1, <3>1, <3>2 DEF Pred
  <2>4. \A j, k \in 1 .. i - 1 : g[j] = g[k] => j = k
    BY <1>11, <2>2, <2>3
  <2>5. ASSUME NEW u \in Pred(z, d[i]) PROVE \E j \in 1 .. i - 1 : g[j] = u
    <3>1. u \in M /\ Before(z, u, d[i])
      BY <1>1 DEF Pred
    <3>2. PICK j \in 1 .. n : d[j] = u
      BY <1>17, <3>1
    <3>3. ~(i < j) /\ i # j
      <4>1. d[i] \in M
        BY <1>11
      <4>2. ~Before(z, d[i], u) /\ u # d[i]
        BY <1>1, <3>1, <4>1, BeforeIsOrder
      <4> QED
        BY <1>13, <3>2, <4>2
    <3>4. j \in 1 .. i - 1
      BY <1>2, <3>3
    <3> QED
      BY <2>3, <3>2, <3>4
  <2>6. g \in [1 .. i - 1 -> Pred(z, d[i])]
    BY <2>1, <2>3
  <2>7. g \in Injection(1 .. i - 1, Pred(z, d[i])) /\ g \in Surjection(1 .. i - 1, Pred(z, d[i]))
    BY <2>4, <2>5, <2>6 DEF Injection, IsInjective, Surjection
  <2>8. IsFiniteSet(1 .. i - 1) /\ Cardinality(1 .. i - 1) = i - 1
    BY <1>2, FS_Interval
  <2>9. Cardinality(Pred(z, d[i])) = Cardinality(1 .. i - 1)
    BY <2>7, <2>8, FS_Surjection
  <2> QED
    BY <2>8, <2>9 DEF Position, Pred
<1> QED
  BY <1>1, <1>9, <1>11, <1>12, <1>18


Row == [user : Players, points : 0 .. MaxPoints]

(* The rows of a page are the members at its positions, with their scores. *)
LEMMA RevRangeIs ==
    ASSUME NEW z \in Board, NEW offset \in Nat, NEW limit \in Nat,
           NEW rows, rows = RevRange(z, offset, limit)
    PROVE  /\ rows \in Seq(Row) /\ Len(rows) \in Nat /\ DOMAIN rows = 1 .. Len(rows)
           /\ \A i \in 1 .. Len(rows) :
                /\ rows[i] = [user |-> rows[i].user, points |-> z[rows[i].user]]
                /\ rows[i].user \in Members(z)
                /\ Position(z, rows[i].user) = offset + i - 1
                /\ i =< limit
           /\ \A u \in Members(z) : Position(z, u) \in offset .. offset + limit - 1 =>
                \E i \in 1 .. Len(rows) : rows[i].user = u
PROOF
<1>1. PICK n, M, d : n = Cardinality(Members(z)) /\ M = Members(z) /\ d = Descending(z)
  OBVIOUS
<1>2. n \in Nat /\ M \subseteq Players /\ \A u \in M : z[u] \in 0 .. MaxPoints
  BY <1>1, MembersFinite
<1>3. d \in [1 .. n -> M] /\ Len(d) = n /\ \A i \in 1 .. n : Position(z, d[i]) = i - 1
  BY <1>1, DescendingIs
<1>4. PICK last : last = IF offset + limit < n THEN offset + limit ELSE n
  OBVIOUS
<1>5. rows = [i \in 1 .. last - offset |-> [user |-> d[offset + i], points |-> z[d[offset + i]]]]
  BY <1>1, <1>3, <1>4 DEF RevRange
<1>6. last \in Nat /\ last =< n /\ last =< offset + limit
  BY <1>2, <1>4
<1>7. PICK k : k = IF offset < last THEN last - offset ELSE 0
  OBVIOUS
<1>8. k \in Nat /\ 1 .. last - offset = 1 .. k
  BY <1>6, <1>7
<1>9. rows = [i \in 1 .. k |-> [user |-> d[offset + i], points |-> z[d[offset + i]]]]
  BY <1>5, <1>8
<1>10. \A i \in 1 .. k : offset + i \in 1 .. n /\ i =< limit
  BY <1>2, <1>6, <1>7
<1>11. ASSUME NEW i \in 1 .. k
       PROVE  /\ rows[i] = [user |-> d[offset + i], points |-> z[d[offset + i]]]
              /\ rows[i] \in Row /\ rows[i].user = d[offset + i] /\ i =< limit
              /\ rows[i].user \in M
              /\ Position(z, rows[i].user) = offset + i - 1
              /\ rows[i] = [user |-> rows[i].user, points |-> z[rows[i].user]]
  <2>1. PICK u : u = d[offset + i]
    OBVIOUS
  <2>2. u \in M /\ Position(z, u) = offset + i - 1 /\ i =< limit
    BY <1>3, <1>10, <2>1
  <2>3. rows[i] = [user |-> u, points |-> z[u]]
    BY <1>9, <2>1
  <2>4. u \in Players /\ z[u] \in 0 .. MaxPoints
    BY <1>2, <2>2
  <2>5. rows[i].user = u /\ rows[i] \in Row
    BY <2>3, <2>4 DEF Row
  <2> QED
    BY <2>1, <2>2, <2>3, <2>5
<1>12. rows \in [1 .. k -> Row]
  BY <1>9, <1>11
<1>13. rows \in Seq(Row) /\ Len(rows) = k /\ DOMAIN rows = 1 .. k
  BY <1>8, <1>12
<1>14. ASSUME NEW u \in M, Position(z, u) \in offset .. offset + limit - 1
       PROVE  \E i \in 1 .. k : rows[i].user = u
  <2>1. PICK p : p = Position(z, u)
    OBVIOUS
  <2>2. p \in 0 .. n - 1
    BY <1>1, <2>1, PositionIs
  <2>3. p - offset + 1 \in 1 .. k /\ offset + (p - offset + 1) = p + 1 /\ p + 1 \in 1 .. n
    BY <1>2, <1>4, <1>7, <1>14, <2>1, <2>2
  <2>4. d[p + 1] \in M /\ Position(z, d[p + 1]) = p
    BY <1>2, <1>3, <2>2, <2>3
  <2>5. d[p + 1] = u
    BY <1>1, <2>1, <2>4, PositionIs
  <2> QED
    BY <1>11, <2>3, <2>5
<1> QED
  BY <1>1, <1>8, <1>11, <1>13, <1>14

LEMMA RankIs ==
    ASSUME NEW z \in Board, NEW u \in Members(z)
    PROVE  Rank(z, u) \in 1 .. MaxPlayers /\ Rank(z, u) = CountAbove(z, z[u]) + 1
PROOF
<1>1. PICK S : S = {v \in Members(z) : z[v] > z[u]}
  OBVIOUS
<1>2. S \in SUBSET Pred(z, u) /\ Pred(z, u) \in SUBSET Members(z)
  BY <1>1 DEF Pred, Before
<1>3. IsFiniteSet(Pred(z, u)) /\ Cardinality(S) \in Nat /\ Cardinality(Members(z)) \in 0 .. MaxPlayers
  BY <1>2, MembersFinite
<1>4. Cardinality(S) =< Cardinality(Pred(z, u))
  BY <1>2, <1>3, FS_Subset
<1>5. Cardinality(Pred(z, u)) \in 0 .. Cardinality(Members(z)) - 1
  BY PositionIs DEF Position, Pred
<1>6. Rank(z, u) = 1 + Cardinality(S) /\ CountAbove(z, z[u]) = Cardinality(S)
  BY <1>1 DEF Rank, CountAbove
<1> QED
  BY <1>3, <1>4, <1>5, <1>6, ReadsAssumption

(* A member who scores less than the one just before has the rank that     *)
(* the position says.                                                      *)
LEMMA RankOfNewScore ==
    ASSUME NEW z \in Board, NEW u \in Members(z), NEW v \in Members(z),
           Position(z, u) = Position(z, v) + 1, z[u] # z[v]
    PROVE  Rank(z, u) = Position(z, u) + 1 /\ z[u] < z[v]
PROOF
<1>1. \A w \in Members(z) : Position(z, w) \in Int
  BY MembersFinite, PositionIs
<1>2. Before(z, v, u)
  BY <1>1, PositionIs
<1>3. \A w \in Members(z) : z[w] \in Int
  BY MembersFinite
<1>4. z[v] > z[u]
  BY <1>2, <1>3 DEF Before
<1>5. ASSUME NEW w \in Members(z), Before(z, w, u) PROVE z[w] > z[u]
  <2>1. Position(z, w) < Position(z, v) + 1
    BY <1>5, PositionIs
  <2>2. Position(z, w) = Position(z, v) \/ Position(z, w) < Position(z, v)
    BY <1>1, <2>1
  <2>3. w = v \/ Before(z, w, v)
    BY <2>2, PositionIs
  <2>4. z[w] >= z[v]
    BY <1>3, <2>3 DEF Before
  <2> QED
    BY <1>3, <1>4, <2>4
<1>6. Pred(z, u) = {w \in Members(z) : z[w] > z[u]}
  BY <1>5 DEF Pred, Before
<1>7. Position(z, u) = Cardinality({w \in Members(z) : z[w] > z[u]})
  BY <1>6 DEF Position, Pred
<1> QED
  BY <1>1, <1>3, <1>4, <1>7 DEF Rank


RankedBy(rows, f) ==
    [i \in 1 .. Len(rows) |-> [rank |-> f[i], user |-> rows[i].user, points |-> rows[i].points]]

RankedOn(z, rows, above, f) ==
    \A i \in 1 .. Len(rows) :
        f[i] = IF rows[i].points = rows[1].points THEN above + 1 ELSE Rank(z, rows[i].user)

(* Rows tied with the first are ranked by the count that was asked for     *)
(* the first; every other row has its rank on the board the rows are of.   *)
LEMMA RanksAre ==
    ASSUME NEW z \in Board, NEW offset \in Nat, NEW limit \in Nat, NEW above \in Nat,
           NEW rows, rows = RevRange(z, offset, limit)
    PROVE  \E f : Ranks(rows, offset, above) = RankedBy(rows, f) /\ RankedOn(z, rows, above, f)
PROOF
<1>1. PICK k : k = Len(rows)
  OBVIOUS
<1>2. k \in Nat
  BY <1>1, RevRangeIs
<1>3. \A i \in 1 .. k : /\ rows[i].points = z[rows[i].user] /\ rows[i].user \in Members(z)
                        /\ Position(z, rows[i].user) = offset + i - 1
                        /\ rows[i].points \in Int
  <2> TAKE i \in 1 .. k
  <2>1. /\ rows[i] = [user |-> rows[i].user, points |-> z[rows[i].user]] /\ rows[i].user \in Members(z)
        /\ Position(z, rows[i].user) = offset + i - 1
    BY <1>1, RevRangeIs
  <2>2. z[rows[i].user] \in Int
    BY <2>1, MembersFinite
  <2>3. rows[i].points = z[rows[i].user]
    BY <2>1
  <2> QED
    BY <2>1, <2>2, <2>3
<1>4. \A i, j \in 1 .. k : i < j => rows[j].points =< rows[i].points
  <2> SUFFICES ASSUME NEW i \in 1 .. k, NEW j \in 1 .. k, i < j PROVE rows[j].points =< rows[i].points
    OBVIOUS
  <2>1. Position(z, rows[i].user) < Position(z, rows[j].user)
    BY <1>2, <1>3
  <2>2. Before(z, rows[i].user, rows[j].user)
    BY <1>3, <2>1, PositionIs
  <2> QED
    BY <1>3, <2>2 DEF Before
<1>5. PICK w : w = [i \in 1 .. k |-> IF rows[i].points = rows[1].points THEN above + 1
                                     ELSE Rank(z, rows[i].user)]
  OBVIOUS
<1>6. ASSUME NEW i \in 1 .. k
      PROVE  w[i] = IF i = 1 THEN above + 1
                    ELSE IF rows[i].points # rows[i - 1].points THEN offset + i ELSE w[i - 1]
  <2>1. CASE i = 1
    BY <1>5, <2>1
  <2>2. ASSUME i # 1 PROVE i - 1 \in 1 .. k /\ i - 1 < i /\ 1 \in 1 .. k /\ 1 < i /\ offset + (i - 1) - 1 + 1 = offset + i - 1
    BY <1>2, <2>2
  <2>3. CASE i # 1 /\ rows[i].points = rows[i - 1].points
    <3>1. z[rows[i].user] = z[rows[i - 1].user]
      BY <1>3, <2>2, <2>3
    <3>2. Rank(z, rows[i].user) = Rank(z, rows[i - 1].user)
      BY <3>1 DEF Rank
    <3> QED
      BY <1>5, <2>2, <2>3, <3>2
  <2>4. CASE i # 1 /\ rows[i].points # rows[i - 1].points
    <3>1. PICK u, v : u = rows[i].user /\ v = rows[i - 1].user
      OBVIOUS
    <3>2. u \in Members(z) /\ v \in Members(z) /\ z[u] # z[v] /\ Position(z, u) = Position(z, v) + 1
      BY <1>3, <2>2, <2>4, <3>1
    <3>3. Rank(z, u) = offset + i - 1 + 1 /\ rows[i].points < rows[i - 1].points
      BY <1>3, <2>2, <2>4, <3>1, <3>2, RankOfNewScore
    <3>4. rows[i - 1].points =< rows[1].points
      BY <1>2, <1>3, <1>4, <2>2, <2>4
    <3>5. rows[i].points # rows[1].points
      BY <1>3, <2>2, <2>4, <3>3, <3>4
    <3>6. w[i] = offset + i
      BY <1>2, <1>5, <3>1, <3>3, <3>5
    <3> QED
      BY <2>4, <3>6
  <2> QED
    BY <2>1, <2>3, <2>4
<1> DEFINE R(f) == [i \in 1 .. k |-> IF i = 1 THEN above + 1
                                     ELSE IF rows[i].points # rows[i - 1].points THEN offset + i ELSE f[i - 1]]
           rank == CHOOSE f : f = R(f)
<1>7. w = R(w)
  <2>1. DOMAIN w = 1 .. k /\ DOMAIN R(w) = 1 .. k /\ w = [i \in 1 .. k |-> w[i]]
    BY <1>5
  <2>2. \A i \in 1 .. k : w[i] = R(w)[i]
    BY <1>6
  <2> QED
    BY <2>1, <2>2
<1>8. rank = R(rank)
  <2> HIDE DEF R
  <2> QED
    BY <1>7, Zenon
<1>9. PICK f : f = rank
  OBVIOUS
<1>10. \A i \in 1 .. k : f[i] = IF i = 1 THEN above + 1
                               ELSE IF rows[i].points # rows[i - 1].points THEN offset + i ELSE f[i - 1]
  <2>1. f = R(f)
    <3> HIDE DEF R, rank
    <3> QED
      BY <1>8, <1>9, Zenon
  <2> HIDE DEF rank
  <2> QED
    BY <2>1
<1>11. \A i \in 1 .. k : f[i] = w[i]
  <2> HIDE DEF rank
  <2> SUFFICES ASSUME NEW j \in 1 .. k, f[j] # w[j] PROVE FALSE
    OBVIOUS
  <2>1. PICK T : T = {i \in 1 .. k : f[i] # w[i]}
    OBVIOUS
  <2>2. T \in SUBSET Nat /\ T # {}
    BY <1>2, <2>1
  <2>3. PICK i \in T : \A y \in T : i =< y
    BY <2>2, LeastNat
  <2>4. i \in 1 .. k /\ f[i] # w[i]
    BY <2>1
  <2>5. i # 1 => i - 1 \in 1 .. k /\ i - 1 \notin T
    BY <1>2, <2>2, <2>3, <2>4
  <2>6. i # 1 => f[i - 1] = w[i - 1]
    BY <2>1, <2>5
  <2> QED
    BY <1>6, <1>10, <2>4, <2>6
<1>12. Ranks(rows, offset, above) =
         [i \in 1 .. k |-> [rank |-> f[i], user |-> rows[i].user, points |-> rows[i].points]]
  BY <1>1, <1>9, Zenon DEF Ranks
<1> QED
  <2> HIDE DEF rank
  <2>1. \A i \in 1 .. k : f[i] = IF rows[i].points = rows[1].points THEN above + 1 ELSE Rank(z, rows[i].user)
    BY <1>5, <1>11
  <2> QED
    BY <1>1, <1>12, <2>1 DEF RankedBy, RankedOn


LEMMA CountAboveIs ==
    ASSUME NEW z \in Board, NEW p
    PROVE  CountAbove(z, p) \in 0 .. MaxPlayers
PROOF
<1>1. PICK S : S = {u \in Members(z) : z[u] > p}
  OBVIOUS
<1>2. S \in SUBSET Members(z)
  BY <1>1
<1>3. Cardinality(S) \in Nat /\ Cardinality(S) =< Cardinality(Members(z)) /\ Cardinality(Members(z)) \in 0 .. MaxPlayers
  BY <1>2, MembersFinite
<1> QED
  BY <1>1, <1>3, ReadsAssumption DEF CountAbove

FirstPoints(s) == s[1].points

(* A page: its entries are of the members at its positions, with their     *)
(* points, and ranked as RanksAre says.                                    *)
LEMMA PageIs ==
    ASSUME NEW z \in Board, NEW offset \in Nat, NEW limit \in Nat, NEW above \in 0 .. MaxPlayers,
           NEW rows, rows = RevRange(z, offset, limit),
           NEW entries, entries = Ranks(rows, offset, above)
    PROVE  /\ entries \in Seq(Entry)
           /\ \A u \in Members(z) : Position(z, u) \in offset .. offset + limit - 1 =>
                \E e \in ToSet(entries) : e.user = u
           /\ \A e \in ToSet(entries) :
                /\ Position(z, e.user) \in offset .. offset + limit - 1
                /\ e.user \in Members(z) /\ e.points = z[e.user]
                /\ e = [rank |-> e.rank, user |-> e.user, points |-> e.points]
                /\ rows # <<>> /\ FirstPoints(entries) = rows[1].points
                /\ e.rank = IF e.points = rows[1].points THEN above + 1 ELSE Rank(z, e.user)
PROOF
<1>1. PICK k : k = Len(rows)
  OBVIOUS
<1>2. k \in Nat /\ rows \in Seq(Row)
  BY <1>1, RevRangeIs
<1>3. above \in Nat
  BY ReadsAssumption
<1>4. PICK f :
        /\ entries = [i \in 1 .. k |-> [rank |-> f[i], user |-> rows[i].user, points |-> rows[i].points]]
        /\ \A i \in 1 .. k :
             f[i] = IF rows[i].points = rows[1].points THEN above + 1 ELSE Rank(z, rows[i].user)
  <2>1. PICK f : Ranks(rows, offset, above) = RankedBy(rows, f) /\ RankedOn(z, rows, above, f)
    BY <1>3, RanksAre
  <2> QED
    BY <1>1, <2>1 DEF RankedBy, RankedOn
<1>5. ASSUME NEW i \in 1 .. k
      PROVE  /\ entries[i].user = rows[i].user /\ rows[i].user \in Members(z)
             /\ Position(z, rows[i].user) \in offset .. offset + limit - 1
             /\ entries[i].points = rows[i].points /\ rows[i].points = z[rows[i].user]
             /\ entries[i].rank = IF rows[i].points = rows[1].points THEN above + 1 ELSE Rank(z, rows[i].user)
             /\ entries[i] = [rank |-> entries[i].rank, user |-> entries[i].user, points |-> entries[i].points]
             /\ entries[i] \in Entry
  <2>1. PICK r : r = IF rows[i].points = rows[1].points THEN above + 1 ELSE Rank(z, rows[i].user)
    OBVIOUS
  <2>2. PICK u, p : u = rows[i].user /\ p = rows[i].points
    OBVIOUS
  <2>3. entries[i] = [rank |-> r, user |-> u, points |-> p]
    BY <1>4, <2>1, <2>2
  <2>4. /\ rows[i] = [user |-> u, points |-> z[u]] /\ u \in Members(z)
        /\ Position(z, u) = offset + i - 1 /\ i =< limit
    <3>1. /\ rows[i] = [user |-> rows[i].user, points |-> z[rows[i].user]]
          /\ rows[i].user \in Members(z)
          /\ Position(z, rows[i].user) = offset + i - 1 /\ i =< limit
      <4>1. i \in 1 .. Len(rows)
        BY <1>1
      <4> QED
        BY <4>1, RevRangeIs
    <3> QED
      BY <2>2, <3>1
  <2>5. p = z[u] /\ u \in Players /\ p \in 0 .. MaxPoints
    BY <2>2, <2>4, MembersFinite
  <2>6. offset + i - 1 \in offset .. offset + limit - 1
    BY <1>2, <2>4
  <2>7. Rank(z, u) \in 1 .. MaxPlayers
    BY <2>4, RankIs
  <2>8. r \in 1 .. MaxPlayers + 1
    BY <2>1, <2>2, <2>7, ReadsAssumption
  <2> QED
    BY <2>1, <2>2, <2>3, <2>4, <2>5, <2>6, <2>8 DEF Entry
<1>6. entries \in [1 .. k -> Entry] /\ DOMAIN entries = 1 .. k
  BY <1>4, <1>5
<1>7. entries \in Seq(Entry)
  BY <1>2, <1>6
<1>8. ToSet(entries) = {entries[i] : i \in 1 .. k}
  BY <1>6 DEF ToSet
<1>9. ASSUME NEW e \in ToSet(entries)
      PROVE  /\ e.user \in Members(z) /\ e.points = z[e.user]
             /\ Position(z, e.user) \in offset .. offset + limit - 1
             /\ e = [rank |-> e.rank, user |-> e.user, points |-> e.points]
             /\ rows # <<>> /\ FirstPoints(entries) = rows[1].points
             /\ e.rank = IF e.points = rows[1].points THEN above + 1 ELSE Rank(z, e.user)
  <2>1. PICK i \in 1 .. k : e = entries[i]
    BY <1>8
  <2>2. 1 \in 1 .. k
    BY <1>2
  <2>3. FirstPoints(entries) = rows[1].points
    BY <1>5, <2>2 DEF FirstPoints
  <2>4. rows # <<>>
    BY <1>1, <1>2, <2>2
  <2> QED
    BY <1>5, <2>1, <2>3, <2>4
<1>10. ASSUME NEW u \in Members(z), Position(z, u) \in offset .. offset + limit - 1
       PROVE  \E e \in ToSet(entries) : e.user = u
  <2>1. PICK i \in 1 .. k : rows[i].user = u
    BY <1>1, <1>10, RevRangeIs
  <2>2. entries[i].user = u
    BY <1>5, <2>1
  <2>3. entries[i] \in ToSet(entries)
    BY <1>8
  <2> QED
    BY <2>2, <2>3
<1> QED
  BY <1>7, <1>9, <1>10

-----------------------------------------------------------------------------

Request == [kind : {"none", "page", "standing"}, user : 0 .. MaxPlayers, around : Nat, offset : Nat,
            limit : Nat, total : 0 .. MaxPlayers, points : 0 .. MaxPoints, rank : Nat,
            rows : Seq(Row), entries : Seq(Entry)]

LEMMA RequestIs ==
    /\ \A kind \in {"none", "page", "standing"}, user \in 0 .. MaxPlayers, around, offset, limit \in Nat :
         [kind |-> kind, user |-> user, around |-> around, offset |-> offset, limit |-> limit,
          total |-> 0, points |-> 0, rank |-> 0, rows |-> <<>>, entries |-> <<>>] \in Request
    /\ \A r \in Request :
         /\ \A m \in 0 .. MaxPoints : [r EXCEPT !.points = m] \in Request
         /\ \A m \in Nat : [r EXCEPT !.rank = m] \in Request
         /\ \A m, n \in Nat : [r EXCEPT !.offset = m, !.limit = n] \in Request
         /\ \A m \in 0 .. MaxPlayers : [r EXCEPT !.total = m] \in Request
         /\ \A m \in Seq(Row) : [r EXCEPT !.rows = m] \in Request
         /\ \A m \in Seq(Entry) : [r EXCEPT !.entries = m] \in Request
PROOF
<1>1. PICK R, E : R = Seq(Row) /\ E = Seq(Entry)
  OBVIOUS
<1>2. <<>> \in R /\ <<>> \in E /\ 0 \in 0 .. MaxPlayers /\ 0 \in 0 .. MaxPoints /\ 0 \in Nat
  BY <1>1, ReadsAssumption
<1> QED
  BY <1>1, <1>2 DEF Request

Typed ==
    /\ zset \in Board /\ seen \in Board
    /\ pc \in {"idle", "zscore", "standing", "zrevrank", "zcard", "zrevrange", "zcount", "size", "done"}
    /\ read \in Request
    /\ writes \in 0 .. MaxWrites
    /\ lost \in BOOLEAN

(* What the request has come to by each command.                           *)
Asked ==
    /\ pc \in {"idle", "zscore", "standing", "zrevrank"} => read.limit = 0
    /\ pc \in {"zcard", "zrevrange", "zcount"} => read.limit > 0
    /\ pc \in {"zscore", "standing", "zrevrank"} => read.kind = "standing"
    /\ read.kind = "standing" => read.user \in Players
    /\ read.limit = 0 \/ pc \notin {"size", "done"} => read.entries = <<>>
    /\ pc = "zcount" => read.rows = RevRange(seen, read.offset, read.limit) /\ read.rows # <<>>

(* The board the rows were read of is the present one until a write, and   *)
(* no better than it until the key vanishes.                               *)
Improved ==
    /\ writes = 0 => seen = zset
    /\ ~lost => \A u \in Players : seen[u] =< zset[u]

(* The first row was counted after the rows were read.                     *)
Paged ==
    pc \in {"size", "done"} /\ read.limit > 0 =>
        LET rows == RevRange(seen, read.offset, read.limit)
        IN  \E above \in 0 .. MaxPlayers :
                /\ read.entries = Ranks(rows, read.offset, above)
                /\ rows # <<>> /\ ~lost => above >= CountAbove(seen, rows[1].points)
                /\ rows # <<>> /\ writes = 0 => above = CountAbove(seen, rows[1].points)

Sized ==
    pc \in {"zrevrange", "zcount", "size", "done"} /\ read.limit > 0 /\ writes = 0 =>
        read.total = Cardinality(Members(zset))

(* What a standing has learnt of its player, if nothing was written.       *)
Mine ==
    read.kind = "standing" /\ writes = 0 =>
        /\ pc \in {"standing", "zrevrank"} \/ read.limit > 0 =>
              read.user \in Members(zset) /\ read.points = zset[read.user]
        /\ pc = "zrevrank" \/ read.limit > 0 => read.rank = Rank(zset, read.user)
        /\ read.limit > 0 =>
              /\ read.limit = 2 * read.around + 1
              /\ read.offset = IF Position(zset, read.user) > read.around
                               THEN Position(zset, read.user) - read.around ELSE 0

ReadInv == Typed /\ Asked /\ Improved /\ Paged /\ Sized /\ Mine


LEMMA InitReads == Init => ReadInv
PROOF
<1> SUFFICES ASSUME Init PROVE ReadInv
  OBVIOUS
<1>1. NoRead \in Request
  <2>1. 0 \in 0 .. MaxPlayers /\ 0 \in Nat
    BY ReadsAssumption
  <2> QED
    BY <2>1, RequestIs DEF NoRead
<1>2. zset \in Board /\ 0 \in 0 .. MaxWrites
  BY ReadsAssumption DEF Init, Board
<1>3. Typed
  BY <1>1, <1>2 DEF Init, Typed
<1>4. \A u \in Players : zset[u] =< zset[u]
  BY <1>2 DEF Board, NoScore
<1> QED
  BY <1>3, <1>4 DEF Init, ReadInv, Asked, Improved, Paged, Sized, Mine, NoRead

(* Scores landing, and the key vanishing, between two commands.            *)
LEMMA WriteReads ==
    ASSUME ReadInv, Lose \/ \E u \in Players, n \in 0 .. MaxPoints : Improve(u, n)
    PROVE  ReadInv'
PROOF
<1>1. UNCHANGED <<pc, read, seen>> /\ writes' = writes + 1 /\ writes < MaxWrites
  BY DEF Lose, Improve
<1>2. writes' \in 0 .. MaxWrites /\ writes' # 0
  BY <1>1, ReadsAssumption DEF ReadInv, Typed
<1>3. zset' \in Board /\ lost' \in BOOLEAN /\ (~lost' => ~lost /\ \A u \in Players : zset[u] =< zset'[u])
  <2>1. CASE Lose
    BY <2>1 DEF Lose, Board
  <2>2. ASSUME NEW u \in Players, NEW n \in 0 .. MaxPoints, Improve(u, n)
        PROVE  zset' \in Board /\ lost' \in BOOLEAN /\ (~lost' => ~lost /\ \A v \in Players : zset[v] =< zset'[v])
    <3>1. zset \in Board /\ zset' = [zset EXCEPT ![u] = n] /\ n > zset[u] /\ lost' = lost /\ lost \in BOOLEAN
      BY <2>2 DEF Improve, ReadInv, Typed
    <3>2. zset' \in Board
      BY <3>1 DEF Board
    <3>3. ASSUME NEW v \in Players PROVE zset[v] =< zset'[v]
      <4>1. zset[v] \in Int /\ zset[u] \in Int
        BY <3>1, ReadsAssumption DEF Board, NoScore
      <4>2. zset'[v] = IF v = u THEN n ELSE zset[v]
        BY <3>1 DEF Board
      <4> QED
        BY <3>1, <4>1, <4>2, ReadsAssumption
    <3> QED
      BY <3>1, <3>2, <3>3
  <2> QED
    BY <2>1, <2>2
<1>4. Typed' /\ Asked'
  BY <1>1, <1>2, <1>3 DEF ReadInv, Typed, Asked
<1>5. Improved'
  <2>1. ASSUME ~lost', NEW u \in Players PROVE seen'[u] =< zset'[u]
    <3>1. PICK a, b, c : a = seen[u] /\ b = zset[u] /\ c = zset'[u]
      OBVIOUS
    <3>2. a \in Int /\ b \in Int /\ c \in Int
      BY <1>3, <3>1, ReadsAssumption DEF ReadInv, Typed, Board, NoScore
    <3>3. a =< b /\ b =< c
      BY <1>3, <2>1, <3>1 DEF ReadInv, Improved
    <3> QED
      BY <1>1, <3>1, <3>2, <3>3
  <2> QED
    BY <1>2, <2>1 DEF Improved
<1>6. Paged'
  BY <1>1, <1>2, <1>3 DEF ReadInv, Paged
<1> QED
  BY <1>2, <1>4, <1>5, <1>6 DEF ReadInv, Sized, Mine

(* A request begins with nothing read.                                     *)
LEMMA BeginReads ==
    ASSUME ReadInv,
           \/ \E offset \in 0 .. MaxPlayers, limit \in 1 .. MaxLimit : PageBegin(offset, limit)
           \/ \E u \in Players, n \in 0 .. MaxNeighbours : StandingBegin(u, n)
    PROVE  ReadInv'
PROOF
<1>2. CASE \E offset \in 0 .. MaxPlayers, limit \in 1 .. MaxLimit : PageBegin(offset, limit)
  <2>1. PICK offset \in 0 .. MaxPlayers, limit \in 1 .. MaxLimit : PageBegin(offset, limit)
    BY <1>2
  <2>2. /\ read' = [kind |-> "page", user |-> 0, around |-> 0, offset |-> offset, limit |-> limit,
                    total |-> 0, points |-> 0, rank |-> 0, rows |-> <<>>, entries |-> <<>>]
        /\ pc' = "zcard" /\ UNCHANGED <<zset, seen, writes, lost>>
    BY <2>1 DEF PageBegin, NoRead
  <2>3. read' \in Request
    <3>1. 0 \in 0 .. MaxPlayers /\ 0 \in Nat /\ offset \in Nat /\ limit \in Nat
      BY ReadsAssumption
    <3> QED
      BY <2>2, <3>1, RequestIs
  <2>4. limit > 0 /\ Typed'
    BY <2>2, <2>3, ReadsAssumption DEF ReadInv, Typed
  <2> QED
    BY <2>2, <2>3, <2>4 DEF ReadInv, Asked, Improved, Paged, Sized, Mine
<1>3. CASE \E u \in Players, n \in 0 .. MaxNeighbours : StandingBegin(u, n)
  <2>1. PICK u \in Players, n \in 0 .. MaxNeighbours : StandingBegin(u, n)
    BY <1>3
  <2>2. /\ read' = [kind |-> "standing", user |-> u, around |-> n, offset |-> 0, limit |-> 0,
                    total |-> 0, points |-> 0, rank |-> 0, rows |-> <<>>, entries |-> <<>>]
        /\ pc' = "zscore" /\ UNCHANGED <<zset, seen, writes, lost>>
    BY <2>1 DEF StandingBegin, NoRead
  <2>3. read' \in Request
    <3>1. u \in 0 .. MaxPlayers /\ 0 \in Nat /\ n \in Nat
      BY ReadsAssumption DEF Players
    <3> QED
      BY <2>2, <3>1, RequestIs
  <2>4. Typed'
    BY <2>2, <2>3 DEF ReadInv, Typed
  <2> QED
    BY <2>2, <2>4 DEF ReadInv, Asked, Improved, Paged, Sized, Mine
<1> QED
  BY <1>2, <1>3

LEMMA ScoreReads ==
    ASSUME ReadInv, ReadScore \/ ReadStanding
    PROVE  ReadInv'
PROOF
<1>1. UNCHANGED <<zset, seen, writes, lost>> /\ Improved'
  BY DEF ReadInv, ReadScore, ReadStanding, Improved
<1>2. /\ read.kind = "standing" /\ read.user \in Players /\ read.limit = 0 /\ read.entries = <<>>
  BY DEF ReadInv, ReadScore, ReadStanding, Asked
<1>3. CASE ReadScore
  <2>1. zset[read.user] # NoScore => zset[read.user] \in 0 .. MaxPoints /\ read.user \in Members(zset)
    BY <1>2 DEF ReadInv, Typed, Board, Members
  <2>2. Typed'
    BY <1>1, <1>3, <2>1, RequestIs DEF ReadScore, ReadInv, Typed
  <2>3. /\ read'.kind = "standing" /\ read'.user = read.user /\ read'.limit = 0 /\ read'.entries = <<>>
        /\ \/ pc' = "done"
           \/ pc' = "standing" /\ read.user \in Members(zset) /\ read'.points = zset[read.user]
    BY <1>2, <1>3, <2>1 DEF ReadScore, ReadInv, Typed, Request
  <2> QED
    BY <1>1, <1>2, <2>2, <2>3 DEF ReadInv, Asked, Paged, Sized, Mine
<1>4. CASE ReadStanding
  <2>1. CountAbove(zset, read.points) + 1 \in Nat
    BY CountAboveIs, ReadsAssumption DEF ReadInv, Typed
  <2>2. Typed'
    BY <1>1, <1>4, <2>1, RequestIs DEF ReadStanding, ReadInv, Typed
  <2>3. /\ read'.kind = "standing" /\ read'.user = read.user /\ read'.limit = 0 /\ read'.entries = <<>>
        /\ read'.points = read.points /\ read'.rank = CountAbove(zset, read.points) + 1
        /\ pc' \in {"size", "zrevrank"}
    BY <1>2, <1>4 DEF ReadStanding, ReadInv, Typed, Request
  <2>4. writes = 0 => read.user \in Members(zset) /\ read.points = zset[read.user]
                      /\ read'.rank = Rank(zset, read.user)
    <3>1. writes = 0 => read.user \in Members(zset) /\ read.points = zset[read.user]
      BY <1>2, <1>4 DEF ReadStanding, ReadInv, Mine
    <3> QED
      BY <2>3, <3>1, RankIs DEF ReadInv, Typed
  <2> QED
    BY <1>1, <1>2, <2>2, <2>3, <2>4 DEF ReadInv, Asked, Paged, Sized, Mine
<1> QED
  BY <1>3, <1>4


(* ZREVRANK answers the position.                                          *)
LEMMA PositionReads ==
    ASSUME ReadInv, ReadPosition
    PROVE  ReadInv'
PROOF
<1>1. UNCHANGED <<zset, seen, writes, lost>> /\ Improved' /\ zset \in Board
  BY DEF ReadInv, Typed, ReadPosition, Improved
<1>2. /\ read.kind = "standing" /\ read.user \in Players /\ read.limit = 0 /\ read.entries = <<>>
      /\ read \in Request /\ read.around \in Nat
  BY DEF ReadInv, Typed, ReadPosition, Asked, Request
<1>3. CASE zset[read.user] = NoScore
  <2>1. read' = [read EXCEPT !.rank = 0] /\ pc' = "done"
    BY <1>3 DEF ReadPosition
  <2>2. Typed'
    BY <1>1, <1>2, <2>1, RequestIs DEF ReadInv, Typed
  <2>3. /\ read'.kind = "standing" /\ read'.user = read.user /\ read'.limit = 0 /\ read'.entries = <<>>
    BY <1>2, <2>1 DEF Request
  <2> QED
    BY <1>1, <1>2, <2>1, <2>2, <2>3 DEF ReadInv, Asked, Paged, Sized, Mine
<1>4. CASE zset[read.user] # NoScore
  <2>1. PICK u, d, n, k : /\ u = read.user /\ d = Descending(zset) /\ n = Cardinality(Members(zset))
                          /\ k = CHOOSE i \in DOMAIN d : d[i] = u
    OBVIOUS
  <2>2. u \in Members(zset)
    BY <1>2, <1>4, <2>1 DEF Members
  <2>3. PICK p : p = Position(zset, u)
    OBVIOUS
  <2>4. n \in Nat /\ p \in 0 .. n - 1
    BY <1>1, <2>1, <2>2, <2>3, PositionIs, MembersFinite
  <2>5. DOMAIN d = 1 .. n /\ \A i \in 1 .. n : d[i] \in Members(zset) /\ Position(zset, d[i]) = i - 1
    BY <1>1, <2>1, DescendingIs
  <2>6. p + 1 \in 1 .. n /\ d[p + 1] = u
    <3>1. p + 1 \in 1 .. n /\ (p + 1) - 1 = p
      BY <2>4
    <3>2. d[p + 1] \in Members(zset) /\ Position(zset, d[p + 1]) = p
      BY <2>5, <3>1
    <3> QED
      BY <1>1, <2>2, <2>3, <3>1, <3>2, PositionIs
  <2>7. k \in 1 .. n /\ d[k] = u
    BY <2>1, <2>5, <2>6
  <2>8. k - 1 = p
    BY <2>3, <2>5, <2>7
  <2>9. PICK offset : offset = IF p > read.around THEN p - read.around ELSE 0
    OBVIOUS
  <2>10. pc' = "zcard" /\ read' = [read EXCEPT !.offset = offset, !.limit = 2 * read.around + 1]
    BY <1>4, <2>1, <2>8, <2>9 DEF ReadPosition
  <2>11. offset \in Nat /\ 2 * read.around + 1 \in Nat /\ 2 * read.around + 1 > 0
    BY <1>2, <2>4, <2>9
  <2>12. Typed'
    <3>1. read' \in Request
      BY <1>2, <2>10, <2>11, RequestIs
    <3> QED
      BY <1>1, <2>10, <3>1 DEF ReadInv, Typed
  <2>13. /\ read'.kind = "standing" /\ read'.user = u /\ read'.limit = 2 * read.around + 1
         /\ read'.around = read.around /\ read'.offset = offset
         /\ read'.points = read.points /\ read'.rank = read.rank
    BY <1>2, <2>1, <2>10 DEF Request
  <2>14. writes = 0 => read.points = zset[u] /\ read.rank = Rank(zset, u)
    BY <1>2, <2>1 DEF ReadInv, ReadPosition, Mine
  <2>15. Asked' /\ Paged' /\ Sized'
    BY <1>2, <2>1, <2>10, <2>11, <2>13 DEF Asked, Paged, Sized
  <2>16. Mine'
    BY <1>1, <2>2, <2>3, <2>9, <2>10, <2>13, <2>14 DEF Mine
  <2> QED
    BY <1>1, <2>12, <2>15, <2>16 DEF ReadInv
<1> QED
  BY <1>3, <1>4

(* ZCARD, before the rows and after a standing.                            *)
LEMMA TotalReads ==
    ASSUME ReadInv, ReadTotal \/ ReadSize
    PROVE  ReadInv'
PROOF
<1>1. UNCHANGED <<zset, seen, writes, lost>> /\ Improved' /\ zset \in Board /\ read \in Request
  BY DEF ReadInv, Typed, ReadTotal, ReadSize, Improved
<1>2. PICK n : n = Cardinality(Members(zset))
  OBVIOUS
<1>3. n \in 0 .. MaxPlayers
  BY <1>1, <1>2, MembersFinite
<1>4. /\ read' = [read EXCEPT !.total = n]
      /\ \/ pc = "zcard" /\ pc' = "zrevrange"
         \/ pc = "size" /\ pc' = "done"
  BY <1>2 DEF ReadTotal, ReadSize
<1>5. read' \in Request
  BY <1>1, <1>3, <1>4, RequestIs
<1>6. /\ read'.kind = read.kind /\ read'.user = read.user /\ read'.limit = read.limit /\ read'.offset = read.offset
      /\ read'.around = read.around /\ read'.points = read.points /\ read'.rank = read.rank
      /\ read'.rows = read.rows /\ read'.entries = read.entries /\ read'.total = n
  BY <1>1, <1>4 DEF Request
<1>7. Typed' /\ Asked' /\ Sized'
  BY <1>1, <1>2, <1>4, <1>5, <1>6 DEF ReadInv, Typed, Asked, Sized
<1>8. Paged'
  BY <1>1, <1>4, <1>6 DEF ReadInv, Paged
<1>9. Mine'
  BY <1>1, <1>4, <1>6 DEF ReadInv, Mine
<1> QED
  BY <1>1, <1>7, <1>8, <1>9 DEF ReadInv

(* ZREVRANGE: the rows are of the board as it is now.                      *)
LEMMA RowsReads ==
    ASSUME ReadInv, ReadRows
    PROVE  ReadInv'
PROOF
<1>1. /\ pc = "zrevrange" /\ UNCHANGED <<zset, writes, lost>> /\ seen' = zset
      /\ zset \in Board /\ read \in Request /\ read.limit > 0 /\ read.offset \in Nat /\ read.limit \in Nat
  BY DEF ReadInv, Typed, Asked, ReadRows, Request
<1>2. PICK rows : rows = RevRange(zset, read.offset, read.limit)
  OBVIOUS
<1>3. rows \in Seq(Row)
  BY <1>1, <1>2, RevRangeIs
<1>4. read' = [read EXCEPT !.rows = rows]
  BY <1>2 DEF ReadRows
<1>5. read' \in Request
  BY <1>1, <1>3, <1>4, RequestIs
<1>6. /\ read'.kind = read.kind /\ read'.user = read.user /\ read'.limit = read.limit /\ read'.offset = read.offset
      /\ read'.around = read.around /\ read'.points = read.points /\ read'.rank = read.rank
      /\ read'.rows = rows /\ read'.entries = read.entries /\ read'.total = read.total
  BY <1>1, <1>4 DEF Request
<1>7. pc' = IF rows # <<>> THEN "zcount" ELSE IF read.kind = "page" THEN "done" ELSE "size"
  BY <1>6 DEF ReadRows
<1>8. Typed' /\ Asked'
  BY <1>1, <1>2, <1>5, <1>6, <1>7 DEF ReadInv, Typed, Asked
<1>9. Improved'
  <2>1. \A u \in Players : zset[u] =< zset[u]
    BY <1>1 DEF Board, NoScore
  <2> QED
    BY <1>1, <2>1 DEF Improved
<1>10. Paged'
  <2> SUFFICES ASSUME pc' \in {"size", "done"}
               PROVE  \E above \in 0 .. MaxPlayers : read'.entries = Ranks(rows, read.offset, above) /\ rows = <<>>
    BY <1>1, <1>2, <1>6 DEF Paged
  <2>1. rows = <<>>
    BY <1>7
  <2>2. read'.entries = <<>>
    BY <1>1, <1>6 DEF ReadInv, Asked
  <2>3. Ranks(rows, read.offset, 0) = <<>>
    <3>1. PICK f : Ranks(rows, read.offset, 0) = RankedBy(rows, f) /\ RankedOn(zset, rows, 0, f)
      BY <1>1, <1>2, RanksAre
    <3>2. Len(rows) = 0
      BY <2>1
    <3> QED
      BY <3>1, <3>2 DEF RankedBy
  <2> QED
    BY <2>1, <2>2, <2>3, ReadsAssumption
<1>11. Sized'
  BY <1>1, <1>6, <1>7 DEF ReadInv, Sized
<1>12. Mine'
  BY <1>1, <1>6, <1>7 DEF ReadInv, Mine
<1> QED
  BY <1>8, <1>9, <1>10, <1>11, <1>12 DEF ReadInv


(* ZCOUNT for the first row: on a board that only improved since, no fewer *)
(* are above it than when the rows were read.                              *)
LEMMA AboveReads ==
    ASSUME ReadInv, ReadAbove
    PROVE  ReadInv'
PROOF
<1>1. /\ pc = "zcount" /\ UNCHANGED <<zset, seen, writes, lost>> /\ Improved'
      /\ zset \in Board /\ seen \in Board /\ read \in Request
      /\ read.limit > 0 /\ read.offset \in Nat /\ read.limit \in Nat
  BY DEF ReadInv, Typed, Asked, ReadAbove, Request, Improved
<1>2. PICK rows, p, above : rows = read.rows /\ p = rows[1].points /\ above = CountAbove(zset, p)
  OBVIOUS
<1>3. rows = RevRange(seen, read.offset, read.limit) /\ rows # <<>>
  BY <1>1, <1>2 DEF ReadInv, Asked
<1>4. above \in 0 .. MaxPlayers
  BY <1>1, <1>2, CountAboveIs
<1>5. p \in Int
  <2>1. rows \in Seq(Row)
    BY <1>1, <1>3, RevRangeIs
  <2>2. rows[1] \in Row
    BY <1>3, <2>1
  <2> QED
    BY <1>2, <2>2, ReadsAssumption DEF Row
<1>6. PICK entries : entries = Ranks(rows, read.offset, above)
  OBVIOUS
<1>7. entries \in Seq(Entry)
  BY <1>1, <1>3, <1>4, <1>6, PageIs
<1>8. read' = [read EXCEPT !.entries = entries] /\ pc' \in {"size", "done"}
  BY <1>2, <1>6 DEF ReadAbove
<1>9. read' \in Request
  BY <1>1, <1>7, <1>8, RequestIs
<1>10. /\ read'.kind = read.kind /\ read'.user = read.user /\ read'.limit = read.limit /\ read'.offset = read.offset
       /\ read'.around = read.around /\ read'.points = read.points /\ read'.rank = read.rank
       /\ read'.entries = entries /\ read'.total = read.total
  BY <1>1, <1>8 DEF Request
<1>11. Typed' /\ Asked'
  BY <1>1, <1>8, <1>9, <1>10 DEF ReadInv, Typed, Asked
<1>12. ~lost => above >= CountAbove(seen, p)
  <2> SUFFICES ASSUME ~lost PROVE above >= CountAbove(seen, p)
    OBVIOUS
  <2>1. PICK S, T : S = {u \in Members(seen) : seen[u] > p} /\ T = {u \in Members(zset) : zset[u] > p}
    OBVIOUS
  <2>2. ASSUME NEW u \in S PROVE u \in T
    <3>1. u \in Players /\ seen[u] \in Int /\ seen[u] >= 0 /\ seen[u] > p
      <4>1. u \in Members(seen) /\ seen[u] > p
        BY <2>1
      <4> QED
        BY <1>1, <4>1, MembersFinite
    <3>2. seen[u] =< zset[u] /\ zset[u] \in Int
      BY <1>1, <3>1, ReadsAssumption DEF ReadInv, Improved, Board, NoScore
    <3>3. zset[u] # NoScore /\ zset[u] > p
      BY <1>5, <3>1, <3>2 DEF NoScore
    <3> QED
      BY <2>1, <3>1, <3>3 DEF Members
  <2>3. T \in SUBSET Members(zset) /\ S \in SUBSET Members(seen) /\ S \in SUBSET T
    BY <2>1, <2>2
  <2>4. IsFiniteSet(T) /\ Cardinality(T) \in Nat /\ Cardinality(S) \in Nat
    BY <1>1, <2>3, MembersFinite
  <2>5. Cardinality(S) =< Cardinality(T)
    BY <2>3, <2>4, FS_Subset
  <2> QED
    BY <1>2, <2>1, <2>4, <2>5 DEF CountAbove
<1>13. writes = 0 => above = CountAbove(seen, p)
  BY <1>2 DEF ReadInv, Improved
<1>14. Paged'
  BY <1>1, <1>2, <1>3, <1>4, <1>6, <1>8, <1>10, <1>12, <1>13 DEF Paged
<1>15. Sized'
  BY <1>1, <1>8, <1>10 DEF ReadInv, Sized
<1>16. Mine'
  BY <1>1, <1>8, <1>10 DEF ReadInv, Mine
<1> QED
  BY <1>1, <1>11, <1>14, <1>15, <1>16 DEF ReadInv

LEMMA NextReads == ReadInv /\ [Next]_vars => ReadInv'
PROOF
<1>1. ASSUME ReadInv, UNCHANGED vars PROVE ReadInv'
  BY <1>1 DEF vars, ReadInv, Typed, Asked, Improved, Paged, Sized, Mine
<1> QED
  BY <1>1, WriteReads, BeginReads, ScoreReads, PositionReads, TotalReads, RowsReads, AboveReads DEF Next, Read

(* A request follows ReadInv, whatever is written between its commands.    *)
THEOREM ReadsFollow == Spec => []ReadInv
PROOF
<1> QED
  BY InitReads, NextReads, PTL DEF Spec

(* A page read while nothing is written: each entry has its member's       *)
(* points and competition rank.                                            *)
LEMMA QuietPage ==
    ASSUME ReadInv, pc = "done", read.limit > 0, writes = 0
    PROVE  /\ {e.user : e \in ToSet(read.entries)} =
                {u \in Members(zset) : Position(zset, u) \in read.offset .. read.offset + read.limit - 1}
           /\ \A e \in ToSet(read.entries) :
                /\ e.user \in Members(zset) /\ e.points = zset[e.user] /\ e.rank = Rank(zset, e.user)
                /\ e = [rank |-> e.rank, user |-> e.user, points |-> e.points]
PROOF
<1>1. zset \in Board /\ seen = zset /\ read.offset \in Nat /\ read.limit \in Nat
  BY DEF ReadInv, Typed, Request, Improved
<1>2. PICK rows : rows = RevRange(zset, read.offset, read.limit)
  OBVIOUS
<1>3. PICK above \in 0 .. MaxPlayers : /\ read.entries = Ranks(rows, read.offset, above)
                                       /\ rows # <<>> => above = CountAbove(zset, rows[1].points)
  BY <1>1, <1>2 DEF ReadInv, Paged
<1>4. ASSUME NEW e \in ToSet(read.entries)
      PROVE  /\ Position(zset, e.user) \in read.offset .. read.offset + read.limit - 1
             /\ e.user \in Members(zset) /\ e.points = zset[e.user] /\ e.rank = Rank(zset, e.user)
             /\ e = [rank |-> e.rank, user |-> e.user, points |-> e.points]
  <2>1. /\ Position(zset, e.user) \in read.offset .. read.offset + read.limit - 1
        /\ e.user \in Members(zset) /\ e.points = zset[e.user] /\ rows # <<>>
        /\ e = [rank |-> e.rank, user |-> e.user, points |-> e.points]
        /\ e.rank = IF e.points = rows[1].points THEN above + 1 ELSE Rank(zset, e.user)
    BY <1>1, <1>2, <1>3, PageIs
  <2>2. Rank(zset, e.user) = CountAbove(zset, zset[e.user]) + 1
    BY <1>1, <2>1, RankIs
  <2> QED
    BY <1>3, <2>1, <2>2
<1>5. \A u \in Members(zset) : Position(zset, u) \in read.offset .. read.offset + read.limit - 1 =>
        \E e \in ToSet(read.entries) : e.user = u
  BY <1>1, <1>2, <1>3, PageIs
<1> QED
  BY <1>4, <1>5

(* PageAt: a page read while nothing is written shows the players at its   *)
(* positions, each with their competition rank, and the board's size.      *)
THEOREM PagesAreExact == Spec => []PageIsExact
PROOF
<1>1. ReadInv => PageIsExact
  <2> SUFFICES ASSUME ReadInv, pc = "done", read.limit > 0, writes = 0
               PROVE  /\ read.total = Cardinality(Members(zset))
                      /\ {e.user : e \in ToSet(read.entries)} =
                           {u \in Members(zset) : Position(zset, u) \in read.offset .. read.offset + read.limit - 1}
                      /\ \A e \in ToSet(read.entries) : e.points = zset[e.user] /\ e.rank = Rank(zset, e.user)
    BY DEF PageIsExact
  <2>1. read.total = Cardinality(Members(zset))
    BY DEF ReadInv, Sized
  <2> QED
    BY <2>1, QuietPage
<1> QED
  BY <1>1, ReadsFollow, PTL

(* Standing: the neighbourhood of a player, read while nothing is written, *)
(* holds the player's own row and all the neighbours asked for.            *)
THEOREM StandingsIncludeMe == Spec => []NeighboursIncludeMe
PROOF
<1>1. ReadInv => NeighboursIncludeMe
  <2> SUFFICES ASSUME ReadInv, pc = "done", read.kind = "standing", read.limit > 0, writes = 0
               PROVE  /\ [rank |-> read.rank, user |-> read.user, points |-> read.points] \in ToSet(read.entries)
                      /\ \A v \in Members(zset) :
                            Position(zset, v) - Position(zset, read.user) \in -read.around .. read.around =>
                                \E e \in ToSet(read.entries) : e.user = v
    BY DEF NeighboursIncludeMe
  <2>1. PICK u, a, p : u = read.user /\ a = read.around /\ p = Position(zset, u)
    OBVIOUS
  <2>2. /\ u \in Members(zset) /\ read.points = zset[u] /\ read.rank = Rank(zset, u)
        /\ read.limit = 2 * a + 1 /\ read.offset = IF p > a THEN p - a ELSE 0
    BY <2>1 DEF ReadInv, Mine
  <2>3. zset \in Board /\ a \in Nat
    BY <2>1 DEF ReadInv, Typed, Request
  <2>4. \A v \in Members(zset) : Position(zset, v) \in Nat
    BY <2>3, PositionIs, MembersFinite
  <2>5. ASSUME NEW v \in Members(zset), Position(zset, v) - p \in -a .. a
        PROVE  \E e \in ToSet(read.entries) : e.user = v
    <3>1. PICK q : q = Position(zset, v)
      OBVIOUS
    <3>2. p \in Nat /\ q \in Nat
      BY <2>1, <2>2, <2>4, <3>1
    <3>3. q \in read.offset .. read.offset + read.limit - 1
      BY <2>2, <2>3, <2>5, <3>1, <3>2
    <3> QED
      BY <3>1, <3>3, QuietPage
  <2>6. [rank |-> read.rank, user |-> u, points |-> read.points] \in ToSet(read.entries)
    <3>1. p - p \in -a .. a
      BY <2>1, <2>2, <2>3, <2>4
    <3>2. PICK e \in ToSet(read.entries) : e.user = u
      BY <2>1, <2>2, <2>5, <3>1
    <3>3. e = [rank |-> Rank(zset, u), user |-> u, points |-> zset[u]]
      BY <3>2, QuietPage
    <3> QED
      BY <2>2, <3>3
  <2> QED
    BY <2>1, <2>5, <2>6
<1> QED
  BY <1>1, ReadsFollow, PTL

(* PageAt, with scores landing between its commands: no row is given a     *)
(* better rank than it had when the rows were read, and only rows tied     *)
(* with the first can be given a worse one.                                *)
THEOREM NobodyIsFlattered == Spec => []NeverRankedTooHigh
PROOF
<1>1. ReadInv => NeverRankedTooHigh
  <2> SUFFICES ASSUME ReadInv PROVE NeverRankedTooHigh
    OBVIOUS
  <2>1. TypeOK
    BY DEF ReadInv, Typed, TypeOK, Request, Board
  <2>2. seen \in Board /\ read.offset \in Nat /\ read.limit \in Nat
    BY DEF ReadInv, Typed, Request
  <2>3. ASSUME pc = "done", ~lost, NEW e \in ToSet(read.entries)
        PROVE  /\ e.rank >= Rank(seen, e.user)
               /\ e.points # read.entries[1].points => e.rank = Rank(seen, e.user)
    <3>1. read.limit > 0
      <4>1. ToSet(<<>>) = {}
        BY DEF ToSet
      <4>2. read.limit # 0
        BY <2>3, <4>1 DEF ReadInv, Asked
      <4> QED
        BY <2>2, <4>2
    <3>2. PICK rows : rows = RevRange(seen, read.offset, read.limit)
      OBVIOUS
    <3>3. PICK above \in 0 .. MaxPlayers : /\ read.entries = Ranks(rows, read.offset, above)
                                           /\ rows # <<>> => above >= CountAbove(seen, rows[1].points)
      BY <2>3, <3>1, <3>2 DEF ReadInv, Paged
    <3>4. /\ e.user \in Members(seen) /\ e.points = seen[e.user] /\ rows # <<>>
          /\ read.entries[1].points = rows[1].points
          /\ e.rank = IF e.points = rows[1].points THEN above + 1 ELSE Rank(seen, e.user)
      <4>1. PICK z, o, l, x : z = seen /\ o = read.offset /\ l = read.limit /\ x = read.entries
        OBVIOUS
      <4>2. z \in Board /\ o \in Nat /\ l \in Nat /\ rows = RevRange(z, o, l) /\ x = Ranks(rows, o, above)
        BY <2>2, <3>2, <3>3, <4>1
      <4>3. e \in ToSet(x)
        BY <4>1
      <4>4. /\ e.user \in Members(z) /\ e.points = z[e.user] /\ rows # <<>>
            /\ e.rank = IF e.points = rows[1].points THEN above + 1 ELSE Rank(z, e.user)
        BY <4>2, <4>3, PageIs
      <4>5. FirstPoints(x) = rows[1].points
        BY <4>2, <4>3, PageIs
      <4> QED
        BY <4>1, <4>4, <4>5 DEF FirstPoints
    <3>5. Rank(seen, e.user) = CountAbove(seen, e.points) + 1 /\ Rank(seen, e.user) \in 1 .. MaxPlayers
      BY <2>2, <3>4, RankIs
    <3>6. CountAbove(seen, e.points) \in 0 .. MaxPlayers
      BY <2>2, CountAboveIs
    <3> QED
      BY <3>3, <3>4, <3>5, <3>6, ReadsAssumption
  <2> QED
    BY <2>1, <2>3 DEF NeverRankedTooHigh
<1> QED
  BY <1>1, ReadsFollow, PTL


=============================================================================
