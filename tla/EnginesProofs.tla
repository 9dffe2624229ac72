----------------------------- MODULE EnginesProofs -----------------------------
(***************************************************************************)
(* Proofs about the engines, for every range and budget of the number      *)
(* guess, every dictionary and every length of the timed games: what a     *)
(* move reports about the end of the game, that halving the range wins,    *)
(* that a scramble is a scramble, and that no move costs points.           *)
(***************************************************************************)
EXTENDS Engines, FiniteSetTheorems, TLAPS

-----------------------------------------------------------------------------

(* The states each engine can be in.  A reaction round is armed only while  *)
(* rounds are left.                                                         *)
ReactionOK(x) ==
    /\ x \in [round : Nat, armed : BOOLEAN, total : Int, done : BOOLEAN]
    /\ x.armed => ~x.done

GuessStates == [round : Nat, secret : 1 .. Ceiling, low : Int, high : Int, used : Nat, total : Int,
                done : BOOLEAN, halved : BOOLEAN, unlucky : BOOLEAN]

(* The hints keep the secret between them, and each guess of the middle     *)
(* leaves fewer candidates than the guesses that are left tell apart.       *)
GuessOK(x) ==
    /\ x \in GuessStates
    /\ x.done <=> x.round >= numberGuessRounds
    /\ x.used < Budget
    /\ x.low =< x.secret /\ x.secret =< x.high
    /\ x.halved => x.high - x.low + 1 < 2 ^ (Budget - x.used)
    /\ ~x.unlucky

MemoryOK(x) == x \in [level : Nat, completed : Nat, done : BOOLEAN] /\ x.completed =< x.level

SprintOK(x) == x \in [index : Nat, correct : Nat, wrong : Nat, done : {FALSE}]

Hidden(w, x) == SameLetters(x, w) /\ x # w

ScrambleOK(x) ==
    /\ x.index \in Nat /\ x.solved \in Nat /\ x.skipped \in Nat /\ x.done = FALSE
    /\ Hidden(x.word, x.scramble)

Games == {"reaction", "number-guess", "memory", "math-sprint", "word-scramble"}

IInv ==
    /\ game \in Games
    /\ outcome \in [done : BOOLEAN, slow : BOOLEAN]
    /\ outcome.done = s.done
    /\ game = "reaction" => ReactionOK(s)
    /\ game = "number-guess" => GuessOK(s)
    /\ game = "memory" => MemoryOK(s)
    /\ game = "math-sprint" => SprintOK(s)
    /\ game = "word-scramble" => ScrambleOK(s)

-----------------------------------------------------------------------------

(* Max and Min of two integers.                                             *)
LEMMA MaxOfTwo ==
    ASSUME NEW a \in Int, NEW b \in Int
    PROVE  Max({a, b}) = IF a >= b THEN a ELSE b
<1> DEFINE m == IF a >= b THEN a ELSE b
<1>1. m \in {a, b} /\ \A y \in {a, b} : m >= y
  OBVIOUS
<1>2. \A x \in {a, b} : (\A y \in {a, b} : x >= y) => x = m
  OBVIOUS
<1>3. QED  BY <1>1, <1>2 DEF Max

LEMMA MinOfTwo ==
    ASSUME NEW a \in Int, NEW b \in Int
    PROVE  Min({a, b}) = IF a =< b THEN a ELSE b
<1> DEFINE m == IF a =< b THEN a ELSE b
<1>1. m \in {a, b} /\ \A y \in {a, b} : m =< y
  OBVIOUS
<1>2. \A x \in {a, b} : (\A y \in {a, b} : x =< y) => x = m
  OBVIOUS
<1>3. QED  BY <1>1, <1>2 DEF Min

(* Exchanging the first two letters of a word of the dictionary gives       *)
(* another arrangement of its letters: scrambleWord's last resort.          *)
LEMMA SwappedHides ==
    ASSUME NEW w \in Words
    PROVE  Hidden(w, Swapped(w))
<1>1. PICK D : D = DOMAIN w
  OBVIOUS
<1>2. w \in Seq(STRING) /\ Len(w) \in Nat /\ D = 1 .. Len(w) /\ Len(w) > 1 /\ w[1] # w[2]
  BY <1>1, WordsAssumption
<1>3. 1 \in D /\ 2 \in D /\ IsFiniteSet(D)
  <2>1. 1 \in Int /\ Len(w) \in Int /\ 1 \in D /\ 2 \in D
    BY <1>2
  <2>2. IsFiniteSet(1 .. Len(w))
    BY <2>1, FS_Interval
  <2>3. QED  BY <1>2, <2>1, <2>2
<1>4. PICK v : v = Swapped(w)
  OBVIOUS
<1>5. DOMAIN v = D /\ \A i \in D : v[i] = IF i = 1 THEN w[2] ELSE IF i = 2 THEN w[1] ELSE w[i]
  BY <1>1, <1>3, <1>4 DEF Swapped
<1>6. {v[i] : i \in D} = {w[i] : i \in D}
  BY <1>3, <1>5
<1>7. ASSUME NEW c
      PROVE  Cardinality({i \in D : v[i] = c}) = Cardinality({i \in D : w[i] = c})
  <2>1. PICK S : S = {i \in D : w[i] = c}
    OBVIOUS
  <2>2. PICK T : T = {i \in D : v[i] = c}
    OBVIOUS
  <2>3. PICK f : f = [i \in S |-> IF i = 1 THEN 2 ELSE IF i = 2 THEN 1 ELSE i]
    OBVIOUS
  <2>4. f \in [S -> T]
    BY <1>2, <1>3, <1>5, <2>1, <2>2, <2>3
  <2>5. \A i, j \in S : f[i] = f[j] => i = j
    BY <1>2, <2>1, <2>3
  <2>6. \A j \in T : \E i \in S : f[i] = j
    <3> TAKE j \in T
    <3> DEFINE i == IF j = 1 THEN 2 ELSE IF j = 2 THEN 1 ELSE j
    <3>1. i \in S /\ f[i] = j
      BY <1>2, <1>3, <1>5, <2>1, <2>2, <2>3
    <3>2. QED  BY <3>1
  <2>7. ExistsBijection(S, T)
    BY <2>4, <2>5, <2>6 DEF ExistsBijection, Bijection, Injection, Surjection, IsInjective
  <2>8. IsFiniteSet(S)
    BY <1>3, <2>1, FS_Subset
  <2>9. Cardinality(T) = Cardinality(S)
    BY <2>7, <2>8, FS_Bijection
  <2>10. QED  BY <2>1, <2>2, <2>9
<1>8. Letters(v) = Letters(w)
  <2>1. PICK R : R = {w[i] : i \in D}
    OBVIOUS
  <2>2. Letters(v) = [c \in R |-> Cardinality({i \in D : v[i] = c})]
    BY <1>5, <1>6, <2>1 DEF Letters, Quantify
  <2>3. Letters(w) = [c \in R |-> Cardinality({i \in D : w[i] = c})]
    BY <1>1, <2>1 DEF Letters, Quantify
  <2>4. QED  BY <1>7, <2>2, <2>3
<1>9. v # w
  BY <1>2, <1>3, <1>5
<1>10. QED  BY <1>4, <1>8, <1>9 DEF Hidden, SameLetters

(* So every puzzle that scrambleWord hands out hides its word.              *)
LEMMA PuzzleHides ==
    ASSUME NEW n \in Nat, NEW solved \in Nat, NEW skipped \in Nat,
           NEW w \in Words, NEW x \in Arrangements(w)
    PROVE  ScrambleOK(Puzzle(n, solved, skipped, w, x))
<1>1. Hidden(w, scrambleWord(w, x))
  BY SwappedHides DEF scrambleWord, Arrangements, Hidden
<1>2. QED  BY <1>1 DEF Puzzle, ScrambleOK

(* A round begins with the whole range, which the budget covers.            *)
LEMMA RoundBegins ==
    ASSUME NEW n \in Nat, NEW total \in Int, NEW secret \in 1 .. Ceiling
    PROVE  GuessOK(Round(n, total, secret, FALSE))
<1>1. Budget \in Nat /\ Ceiling \in Nat /\ 0 < Budget
  BY GuessAssumption
<1>2. PICK r : r = Round(n, total, secret, FALSE)
  OBVIOUS
<1>3. /\ r.round = n /\ r.secret = secret /\ r.low = 1 /\ r.high = Ceiling /\ r.used = 0
      /\ r.unlucky = FALSE /\ r.done = (n >= numberGuessRounds)
  BY <1>2 DEF Round
<1>4. r \in GuessStates
  BY <1>1, <1>2 DEF Round, GuessStates, numberGuessRounds
<1>5. r.high - r.low + 1 < 2 ^ (Budget - r.used)
  <2>1. r.high - r.low + 1 = Ceiling /\ Budget - r.used = Budget
    BY <1>1, <1>3
  <2>2. QED  BY <2>1, GuessAssumption
<1>6. r.used < Budget /\ r.low =< r.secret /\ r.secret =< r.high
  BY <1>1, <1>3
<1>7. r.done <=> r.round >= numberGuessRounds
  BY <1>3
<1>8. GuessOK(r)
  BY <1>3, <1>4, <1>5, <1>6, <1>7 DEF GuessOK
<1>9. QED  BY <1>2, <1>8

(* GuessWrong's new bounds.                                                 *)
Lower(low, guess, secret) == IF guess < secret THEN Max({low, guess + 1}) ELSE low
Upper(high, guess, secret) == IF guess > secret THEN Min({high, guess - 1}) ELSE high

(* They keep the secret between them, and after a guess of the middle at    *)
(* most half of the range is left.                                          *)
LEMMA HintsNarrow ==
    ASSUME NEW low \in Int, NEW high \in Int, NEW secret \in Int, NEW guess \in Int,
           low =< secret, secret =< high, guess # secret,
           NEW l, l = Lower(low, guess, secret), NEW h, h = Upper(high, guess, secret)
    PROVE  /\ l \in Int /\ h \in Int /\ l =< secret /\ secret =< h
           /\ guess = (low + high) \div 2 => 2 * (h - l + 1) =< high - low + 1
<1>1. l = IF guess < secret /\ guess + 1 > low THEN guess + 1 ELSE low
  BY MaxOfTwo DEF Lower
<1>2. h = IF guess > secret /\ guess - 1 < high THEN guess - 1 ELSE high
  BY MinOfTwo DEF Upper
<1>3. l \in Int /\ h \in Int /\ l =< secret /\ secret =< h
  BY <1>1, <1>2
<1>4. ASSUME guess = (low + high) \div 2
      PROVE  2 * (h - l + 1) =< high - low + 1
  <2>1. low + high - 1 =< 2 * guess /\ 2 * guess =< low + high
    BY <1>4
  <2>2. QED  BY <1>1, <1>2, <2>1
<1>5. QED  BY <1>3, <1>4

-----------------------------------------------------------------------------

(* Every engine starts well.                                                *)
LEMMA InitIInv == Init => IInv
<1> SUFFICES ASSUME Init PROVE IInv
  OBVIOUS
<1>1. CASE game = "reaction" /\ s = reactionStart
  BY <1>1 DEF Init, IInv, Games, ReactionOK, reactionStart
<1>2. CASE game = "number-guess" /\ \E secret \in 1 .. Ceiling : s = Round(0, 0, secret, FALSE)
  <2> PICK secret \in 1 .. Ceiling : s = Round(0, 0, secret, FALSE)
    BY <1>2
  <2> 0 \in Nat /\ 0 \in Int
    OBVIOUS
  <2>1. GuessOK(s)
    BY RoundBegins
  <2>2. s.done = FALSE
    <3>1. s.done = (0 >= numberGuessRounds)
      BY DEF Round
    <3>2. ~(0 >= numberGuessRounds) /\ (0 >= numberGuessRounds) \in BOOLEAN
      BY DEF numberGuessRounds
    <3>3. QED  BY <3>1, <3>2, Zenon
  <2>3. QED  BY <1>2, <2>1, <2>2 DEF Init, IInv, Games
<1>3. CASE game = "memory" /\ s = memoryStart
  BY <1>3 DEF Init, IInv, Games, MemoryOK, memoryStart
<1>4. CASE game = "math-sprint" /\ s = mathSprintStart
  BY <1>4 DEF Init, IInv, Games, SprintOK, mathSprintStart
<1>5. CASE game = "word-scramble"
           /\ \E w \in Words : \E x \in Arrangements(w) : s = Puzzle(0, 0, 0, w, x)
  <2>1. ScrambleOK(s)
    BY <1>5, PuzzleHides
  <2>2. s.done = FALSE
    BY <2>1 DEF ScrambleOK
  <2>3. QED  BY <1>5, <2>1, <2>2 DEF Init, IInv, Games
<1>6. QED  BY <1>1, <1>2, <1>3, <1>4, <1>5 DEF Init

(* The reaction engine: Arm and Tap.                                        *)
LEMMA ReactionStep ==
    ASSUME IInv, Arm \/ \E e \in Taps : Tap(e)
    PROVE  IInv'
<1>1. CASE Arm
  BY <1>1 DEF Arm, IInv, ReactionOK
<1>2. ASSUME NEW e \in Taps, Tap(e) PROVE IInv'
  <2>1. e \in Int
    BY TimedAssumption
  <2>2. game = "reaction" /\ game' = game
        /\ s \in [round : Nat, armed : BOOLEAN, total : Int, done : BOOLEAN]
    BY <1>2 DEF Tap, IInv, ReactionOK
  <2>3. PICK charged \in Int : charged = IF e < reactionFloorMs THEN reactionFoulMs ELSE e
    BY <2>1 DEF reactionFoulMs
  <2>4. PICK done : done = (s.round + 1 >= reactionRounds)
    OBVIOUS
  <2>5. done \in BOOLEAN
    BY <2>2, <2>4 DEF reactionRounds
  <2>6. s' = [s EXCEPT !.round = @ + 1, !.armed = FALSE, !.total = @ + charged, !.done = done]
    BY <1>2, <2>3, <2>4 DEF Tap
  <2>7. s' = [round |-> s.round + 1, armed |-> FALSE, total |-> s.total + charged, done |-> done]
    BY <2>2, <2>6
  <2>8. /\ s'.armed = FALSE /\ s'.done = done
        /\ s' \in [round : Nat, armed : BOOLEAN, total : Int, done : BOOLEAN]
    <3>1. s'.armed = FALSE /\ s'.done = done
      BY <2>7
    <3>2. s.round + 1 \in Nat /\ s.total + charged \in Int
      BY <2>2
    <3>3. QED  BY <2>5, <2>7, <3>1, <3>2
  <2>9. outcome' = [done |-> done, slow |-> charged > reactionFoulMs]
    BY <1>2, <2>3, <2>4, <2>6, <2>8 DEF Tap
  <2>10. outcome'.done = s'.done /\ outcome' \in [done : BOOLEAN, slow : BOOLEAN]
    BY <2>8, <2>9 DEF reactionFoulMs
  <2>11. ReactionOK(s')
    BY <2>8 DEF ReactionOK
  <2>12. QED  BY <2>2, <2>10, <2>11 DEF IInv
<1>3. QED  BY <1>1, <1>2

(* A round of the number guess that ends, well or for want of guesses.      *)
LEMMA RoundEnds ==
    ASSUME IInv, game = "number-guess", game' = game, advanceNumberGuessRound(FALSE),
           outcome' = [done |-> s.round + 1 >= numberGuessRounds, slow |-> FALSE]
    PROVE  IInv'
<1>1. GuessOK(s) /\ s \in GuessStates /\ s.unlucky = FALSE
  BY DEF IInv, GuessOK, GuessStates
<1>2. PICK secret \in 1 .. Ceiling : s' = Round(s.round + 1, s.total + 1, secret, FALSE)
  BY <1>1 DEF advanceNumberGuessRound
<1>3. s.round + 1 \in Nat /\ s.total + 1 \in Int
  BY <1>1 DEF GuessStates
<1>4. GuessOK(s')
  BY <1>2, <1>3, RoundBegins
<1>5. s'.done = (s.round + 1 >= numberGuessRounds)
  BY <1>2 DEF Round
<1>6. (s.round + 1 >= numberGuessRounds) \in BOOLEAN
  BY <1>3 DEF numberGuessRounds
<1>7. outcome'.done = s'.done /\ outcome' \in [done : BOOLEAN, slow : BOOLEAN]
  BY <1>5, <1>6
<1>8. QED  BY <1>4, <1>7 DEF IInv


(* A guess that leaves the round open narrows the range.                    *)
LEMMA GuessWrongStep ==
    ASSUME IInv, NEW guess \in 1 .. Ceiling, GuessWrong(guess)
    PROVE  IInv'
<1>1. /\ game = "number-guess" /\ game' = game /\ GuessOK(s) /\ guess # s.secret
      /\ s.used + 1 < Budget /\ s.done = FALSE
  <2>1. game = "number-guess" /\ game' = game /\ guess # s.secret /\ s.used + 1 < Budget /\ ~s.done
    BY DEF GuessWrong
  <2>2. GuessOK(s)
    BY <2>1 DEF IInv
  <2>3. s.done \in BOOLEAN
    BY <2>2 DEF GuessOK, GuessStates
  <2>4. QED  BY <2>1, <2>2, <2>3
<1>2. /\ s \in GuessStates /\ s.low =< s.secret /\ s.secret =< s.high
      /\ s.low \in Int /\ s.high \in Int /\ s.secret \in Int /\ s.used \in Nat
      /\ Budget \in Nat /\ Ceiling \in Nat /\ guess \in Int
  BY <1>1, GuessAssumption DEF GuessOK, GuessStates
<1>3. PICK l : l = IF guess < s.secret THEN Max({s.low, guess + 1}) ELSE s.low
  OBVIOUS
<1>4. PICK h : h = IF guess > s.secret THEN Min({s.high, guess - 1}) ELSE s.high
  OBVIOUS
<1>5. /\ l \in Int /\ h \in Int /\ l =< s.secret /\ s.secret =< h
      /\ guess = Middle => 2 * (h - l + 1) =< s.high - s.low + 1
  <2>1. PICK low \in Int : low = s.low
    BY <1>2
  <2>2. PICK high \in Int : high = s.high
    BY <1>2
  <2>3. PICK secret \in Int : secret = s.secret
    BY <1>2
  <2>4. low =< secret /\ secret =< high /\ guess # secret /\ guess \in Int
    BY <1>1, <1>2, <2>1, <2>2, <2>3
  <2>5. l = Lower(low, guess, secret)
    BY <1>3, <2>1, <2>3 DEF Lower
  <2>6. h = Upper(high, guess, secret)
    BY <1>4, <2>2, <2>3 DEF Upper
  <2>7. /\ l \in Int /\ h \in Int /\ l =< secret /\ secret =< h
        /\ guess = (low + high) \div 2 => 2 * (h - l + 1) =< high - low + 1
    BY <2>4, <2>5, <2>6, HintsNarrow
  <2>8. QED  BY <2>1, <2>2, <2>3, <2>7 DEF Middle
<1>6. PICK v : v = Halved(guess)
  OBVIOUS
<1>7. v \in BOOLEAN /\ (v => s.halved /\ guess = Middle)
  BY <1>6 DEF Halved
<1>8. s' = [s EXCEPT !.used = @ + 1, !.total = @ + 1, !.halved = v, !.low = l, !.high = h]
  BY <1>3, <1>4, <1>6 DEF GuessWrong
<1>9. s' = [round |-> s.round, secret |-> s.secret, low |-> l, high |-> h, used |-> s.used + 1,
            total |-> s.total + 1, done |-> s.done, halved |-> v, unlucky |-> s.unlucky]
  BY <1>2, <1>8 DEF GuessStates
<1>10. s' \in GuessStates
  <2>1. s.used + 1 \in Nat /\ s.total + 1 \in Int
    BY <1>2 DEF GuessStates
  <2>2. s.round \in Nat /\ s.secret \in 1 .. Ceiling /\ s.done \in BOOLEAN /\ s.unlucky \in BOOLEAN
    BY <1>2 DEF GuessStates
  <2>3. QED  BY <1>5, <1>7, <1>9, <2>1, <2>2 DEF GuessStates
<1>11. /\ s'.round = s.round /\ s'.secret = s.secret /\ s'.low = l /\ s'.high = h
       /\ s'.used = s.used + 1 /\ s'.done = s.done /\ s'.halved = v /\ s'.unlucky = s.unlucky
  BY <1>9
<1>12. s'.halved => s'.high - s'.low + 1 < 2 ^ (Budget - s'.used)
  <2> SUFFICES ASSUME s'.halved PROVE h - l + 1 < 2 ^ (Budget - (s.used + 1))
    BY <1>11
  <2>1. PICK n \in 0 .. Budget : n = Budget - (s.used + 1)
    BY <1>1, <1>2
  <2>2. Budget - s.used = n + 1
    BY <1>2, <2>1
  <2>3. s.halved /\ guess = Middle
    BY <1>7, <1>11
  <2>4. s.high - s.low + 1 < 2 ^ (n + 1)
    BY <1>1, <2>2, <2>3 DEF GuessOK
  <2>5. PICK p \in Nat : p = 2 ^ n
    BY <2>1, DoublingAssumption
  <2>6. 2 ^ (n + 1) = 2 * p
    BY <2>5, DoublingAssumption
  <2>7. s.high - s.low + 1 < 2 * p
    BY <2>4, <2>6
  <2>8. 2 * (h - l + 1) =< s.high - s.low + 1
    BY <1>5, <2>3
  <2>9. h - l + 1 < p
    BY <1>2, <1>5, <2>7, <2>8
  <2>10. QED  BY <2>1, <2>5, <2>9
<1>13. GuessOK(s')
  <2>1. s'.done <=> s'.round >= numberGuessRounds
    BY <1>1, <1>11 DEF GuessOK
  <2>2. ~s'.unlucky
    BY <1>1, <1>11 DEF GuessOK
  <2>3. s'.used < Budget /\ s'.low =< s'.secret /\ s'.secret =< s'.high
    BY <1>1, <1>5, <1>11
  <2>4. QED  BY <1>10, <1>12, <2>1, <2>2, <2>3 DEF GuessOK
<1>14. outcome' = [done |-> FALSE, slow |-> FALSE] /\ s'.done = FALSE
  BY <1>1, <1>11 DEF GuessWrong
<1>15. QED  BY <1>1, <1>13, <1>14 DEF IInv

(* The last guess of a budget spent on halving finds the secret, so a round *)
(* that ends without it was not played by halving.                          *)
LEMMA GuessLastStep ==
    ASSUME IInv, NEW guess \in 1 .. Ceiling, GuessLast(guess)
    PROVE  IInv'
<1>1. /\ game = "number-guess" /\ game' = game /\ GuessOK(s) /\ guess # s.secret
      /\ s.used + 1 >= Budget
  BY DEF GuessLast, IInv
<1>2. /\ s.low =< s.secret /\ s.secret =< s.high /\ s.used < Budget
      /\ s.low \in Int /\ s.high \in Int /\ s.secret \in Int /\ s.used \in Nat
      /\ Budget \in Nat /\ Ceiling \in Nat /\ guess \in Int
  BY <1>1, GuessAssumption DEF GuessOK, GuessStates
<1>3. ~Halved(guess)
  <2> SUFFICES ASSUME s.halved, guess = Middle PROVE FALSE
    BY DEF Halved
  <2>1. Budget - s.used = 1
    BY <1>1, <1>2
  <2>2. s.high - s.low + 1 < 2 ^ 1
    BY <1>1, <2>1 DEF GuessOK
  <2>3. 2 ^ 1 = 2
    OBVIOUS
  <2>4. s.low = s.secret /\ s.high = s.secret
    BY <1>2, <2>2, <2>3
  <2>5. (s.low + s.high) \div 2 = s.secret
    BY <1>2, <2>4
  <2>6. QED  BY <1>1, <2>5 DEF Middle
<1>4. Halved(guess) = FALSE
  BY <1>3 DEF Halved
<1>5. advanceNumberGuessRound(FALSE)
  BY <1>4 DEF GuessLast
<1>6. outcome' = [done |-> s.round + 1 >= numberGuessRounds, slow |-> FALSE]
  BY DEF GuessLast
<1>7. QED  BY <1>1, <1>5, <1>6, RoundEnds

LEMMA GuessCorrectStep ==
    ASSUME IInv, NEW guess \in 1 .. Ceiling, GuessCorrect(guess)
    PROVE  IInv'
BY RoundEnds DEF GuessCorrect


(* Memory, and the two timed games.                                         *)
LEMMA RepeatStep ==
    ASSUME IInv, NEW right \in BOOLEAN, Repeat(right)
    PROVE  IInv'
<1>1. /\ game = "memory" /\ game' = game
      /\ s \in [level : Nat, completed : Nat, done : BOOLEAN] /\ s.completed =< s.level
  BY DEF Repeat, IInv, MemoryOK
<1>2. PICK done : done = (s.level + 1 > memoryMaxLevel)
  OBVIOUS
<1>3. done \in BOOLEAN /\ s.level + 1 \in Nat /\ s.level \in Nat
  BY <1>1, <1>2 DEF memoryMaxLevel
<1>4. PICK x : x = IF right THEN [level |-> s.level + 1, completed |-> s.level, done |-> done]
                   ELSE [s EXCEPT !.done = TRUE]
  OBVIOUS
<1>5. s' = x /\ outcome' = [done |-> x.done, slow |-> FALSE]
  BY <1>2, <1>4 DEF Repeat
<1>6. MemoryOK(x)
  <2>1. CASE right
    <3>1. x = [level |-> s.level + 1, completed |-> s.level, done |-> done]
      BY <1>4, <2>1
    <3>2. x \in [level : Nat, completed : Nat, done : BOOLEAN]
      BY <1>3, <3>1
    <3>3. x.completed =< x.level
      BY <1>3, <3>1
    <3>4. QED  BY <3>2, <3>3 DEF MemoryOK
  <2>2. CASE ~right
    BY <1>1, <1>4, <2>2 DEF MemoryOK
  <2>3. QED  BY <2>1, <2>2
<1>7. x.done \in BOOLEAN
  BY <1>6 DEF MemoryOK
<1>8. QED  BY <1>1, <1>5, <1>6, <1>7 DEF IInv

LEMMA SolveStep ==
    ASSUME IInv, NEW right \in BOOLEAN, Solve(right)
    PROVE  IInv'
<1>1. game = "math-sprint" /\ game' = game /\ SprintOK(s)
  BY DEF Solve, IInv
<1>2. PICK c \in Nat : c = IF right THEN s.correct + 1 ELSE s.correct
  BY <1>1 DEF SprintOK
<1>3. PICK w \in Nat : w = IF right THEN s.wrong ELSE s.wrong + 1
  BY <1>1 DEF SprintOK
<1>4. s' = [s EXCEPT !.index = @ + 1, !.correct = c, !.wrong = w]
  BY <1>1, <1>2, <1>3 DEF Solve
<1>5. SprintOK(s')
  <2>1. s' = [index |-> s.index + 1, correct |-> c, wrong |-> w, done |-> s.done]
    BY <1>1, <1>4 DEF SprintOK
  <2>2. s.index \in Nat /\ s.done = FALSE
    BY <1>1 DEF SprintOK
  <2>3. s.index + 1 \in Nat
    BY <2>2
  <2>4. QED  BY <2>1, <2>2, <2>3 DEF SprintOK
<1>6. s'.done = FALSE
  BY <1>5 DEF SprintOK
<1>7. outcome' = [done |-> FALSE, slow |-> FALSE]
  BY DEF Solve
<1>8. QED  BY <1>1, <1>5, <1>6, <1>7 DEF IInv

LEMMA NextWordStep ==
    ASSUME IInv, Skip \/ \E w \in Words : Unscramble(w)
    PROVE  IInv'
<1>1. game = "word-scramble" /\ ScrambleOK(s)
  BY DEF Skip, Unscramble, IInv
<1>2. s.index \in Nat /\ s.solved \in Nat /\ s.skipped \in Nat
  BY <1>1 DEF ScrambleOK
<1>3. PICK solved \in Nat, skipped \in Nat : NextWord(solved, skipped)
  <2>1. s.solved + 1 \in Nat /\ s.skipped + 1 \in Nat
    BY <1>2
  <2>2. QED  BY <1>2, <2>1 DEF Skip, Unscramble
<1>4. PICK w \in Words : \E x \in Arrangements(w) :
               s' = Puzzle(s.index + 1, solved, skipped, w, x)
  BY <1>3 DEF NextWord
<1>5. s.index + 1 \in Nat
  BY <1>2
<1>6. ScrambleOK(s')
  BY <1>4, <1>5, PuzzleHides
<1>7. s'.done = FALSE
  BY <1>6 DEF ScrambleOK
<1>8. outcome' = [done |-> FALSE, slow |-> FALSE] /\ game' = game
  BY <1>3 DEF NextWord
<1>9. QED  BY <1>1, <1>6, <1>7, <1>8 DEF IInv

(* Every move keeps the invariant.                                          *)
LEMMA NextIInv == IInv /\ [Next]_vars => IInv'
<1> SUFFICES ASSUME IInv, [Next]_vars PROVE IInv'
  OBVIOUS
<1>1. CASE Arm \/ \E e \in Taps : Tap(e)
  BY <1>1, ReactionStep
<1>2. CASE \E n \in 1 .. Ceiling : GuessCorrect(n) \/ GuessLast(n) \/ GuessWrong(n)
  BY <1>2, GuessCorrectStep, GuessLastStep, GuessWrongStep
<1>3. CASE \E right \in BOOLEAN : Repeat(right) \/ Solve(right)
  BY <1>3, RepeatStep, SolveStep
<1>4. CASE Skip \/ \E w \in Words : Unscramble(w)
  BY <1>4, NextWordStep
<1>5. CASE Tick \/ UNCHANGED vars
  <2>1. game' = game /\ s' = s /\ outcome' = outcome
    BY <1>5 DEF Tick, vars
  <2>2. QED  BY <2>1 DEF IInv
<1>6. QED  BY <1>1, <1>2, <1>3, <1>4, <1>5 DEF Next, Move

LEMMA Invariance == Spec => []IInv
BY InitIInv, NextIInv, PTL DEF Spec

-----------------------------------------------------------------------------

(* HalvingAlwaysWins: for every range and every budget that covers it, a    *)
(* player who keeps guessing the middle of what the hints left solves every *)
(* round (numberGuessBudget).                                               *)
THEOREM HalvingAlwaysWins == Spec => []HalvingWins
<1>1. IInv => HalvingWins
  BY DEF IInv, GuessOK, HalvingWins
<1>2. QED  BY <1>1, Invariance, PTL

(* DoneAlwaysReported: in every game the outcome of the last move said Done *)
(* exactly when the engine refuses the next (Apply of every engine).        *)
THEOREM DoneAlwaysReported == Spec => []DoneIsReported
<1>1. IInv => DoneIsReported
  BY DEF IInv, DoneIsReported
<1>2. QED  BY <1>1, Invariance, PTL

(* ScramblesAreScrambles: for every dictionary without a word that begins   *)
(* with the same letter twice, whatever the shuffle, a puzzle has its       *)
(* word's letters and is not the word (scrambleWord).                       *)
THEOREM ScramblesAreScrambles == Spec => []ScrambleHidesTheWord
<1>1. IInv => ScrambleHidesTheWord
  BY DEF IInv, ScrambleOK, Hidden, ScrambleHidesTheWord
<1>2. QED  BY <1>1, Invariance, PTL


-----------------------------------------------------------------------------

(* Integer division by a positive number is monotonic.                      *)
LEMMA DivBounds ==
    ASSUME NEW a \in Int, NEW c \in Nat \ {0}
    PROVE  a \div c \in Int /\ c * (a \div c) =< a /\ a < c * (a \div c) + c
OBVIOUS

LEMMA TimesPositive ==
    ASSUME NEW c \in Nat \ {0}, NEW p \in Int, NEW q \in Int, p >= q + 1
    PROVE  c * p >= c * q + c
OBVIOUS

LEMMA DivMonotonic ==
    ASSUME NEW a \in Int, NEW b \in Int, a =< b, NEW c \in Nat \ {0}
    PROVE  a \div c =< b \div c
<1>1. PICK p \in Int : p = a \div c
  BY DivBounds
<1>2. PICK q \in Int : q = b \div c
  BY DivBounds
<1>3. c * p =< a /\ b < c * q + c
  BY <1>1, <1>2, DivBounds
<1>4. SUFFICES ASSUME p >= q + 1 PROVE FALSE
  BY <1>1, <1>2
<1>5. c * p >= c * q + c
  BY <1>4, TimesPositive
<1>6. QED  BY <1>3, <1>5

LEMMA ClampMonotonic ==
    ASSUME NEW a \in Int, NEW b \in Int, a =< b
    PROVE  Clamp(a) =< Clamp(b)
<1>1. \A n \in Int : Clamp(n) = IF n < 0 THEN 0 ELSE IF n > MaxPoints THEN MaxPoints ELSE n
  <2> TAKE n \in Int
  <2>1. PICK m \in Int : m = Min({n, MaxPoints}) /\ m = IF n =< MaxPoints THEN n ELSE MaxPoints
    BY MinOfTwo DEF MaxPoints
  <2>2. 0 \in Int
    OBVIOUS
  <2>3. Max({0, m}) = IF 0 >= m THEN 0 ELSE m
    BY <2>2, MaxOfTwo
  <2>4. QED  BY <2>1, <2>3 DEF Clamp, MaxPoints
<1>2. QED  BY <1>1 DEF MaxPoints

(* Along a rising curve more is worth more, along a falling one less is.    *)
LEMMA RisingCurve ==
    ASSUME NEW n \in Int, NEW m \in Int, n =< m, NEW best \in Nat \ {0}
    PROVE  Clamp(Scale(n, 1, 0, best)) =< Clamp(Scale(m, 1, 0, best))
<1>1. PICK a \in Int : a = MaxPoints * (n - 0 * 1)
  BY DEF MaxPoints
<1>2. PICK b \in Int : b = MaxPoints * (m - 0 * 1)
  BY DEF MaxPoints
<1>3. PICK c \in Nat \ {0} : c = (best - 0) * 1
  OBVIOUS
<1>4. a =< b
  BY <1>1, <1>2 DEF MaxPoints
<1>5. Scale(n, 1, 0, best) = a \div c /\ Scale(m, 1, 0, best) = b \div c
  BY <1>1, <1>2, <1>3 DEF Scale
<1>6. a \div c \in Int /\ b \div c \in Int /\ a \div c =< b \div c
  BY <1>4, DivBounds, DivMonotonic
<1>7. QED  BY <1>5, <1>6, ClampMonotonic

LEMMA FallingCurve ==
    ASSUME NEW n \in Int, NEW m \in Int, m =< n, NEW d \in {1, reactionRounds},
           NEW worst \in Int, NEW best \in Int, best < worst
    PROVE  Clamp(Scale(n, d, worst, best)) =< Clamp(Scale(m, d, worst, best))
<1>1. PICK a \in Int : a = MaxPoints * (worst * d - n)
  BY DEF MaxPoints, reactionRounds
<1>2. PICK b \in Int : b = MaxPoints * (worst * d - m)
  BY DEF MaxPoints, reactionRounds
<1>3. PICK c \in Nat \ {0} : c = (worst - best) * d
  BY DEF reactionRounds
<1>4. a =< b
  BY <1>1, <1>2 DEF MaxPoints, reactionRounds
<1>5. Scale(n, d, worst, best) = a \div c /\ Scale(m, d, worst, best) = b \div c
  BY <1>1, <1>2, <1>3 DEF Scale
<1>6. a \div c \in Int /\ b \div c \in Int /\ a \div c =< b \div c
  BY <1>4, DivBounds, DivMonotonic
<1>7. QED  BY <1>5, <1>6, ClampMonotonic


(* What a session is worth, game by game.                                   *)
LEMMA PointsByGame ==
    /\ game = "reaction" => Points = Clamp(Scale(reactionRaw(s), reactionRounds, 500, 180))
    /\ game = "number-guess" =>
           Points = Clamp(Scale(numberGuessRaw(s), 1, numberGuessRounds * Budget, GuessBest))
    /\ game = "memory" => Points = Clamp(Scale(s.completed, 1, 0, memoryTarget))
    /\ game = "math-sprint" => Points = Clamp(Scale(s.correct, 1, 0, mathSprintTarget))
    /\ game = "word-scramble" => Points = Clamp(Scale(s.solved, 1, 0, wordScrambleTarget))
BY DEF Points, Raw

LEMMA PointsByGameNext ==
    /\ game' = "reaction" => Points' = Clamp(Scale(reactionRaw(s'), reactionRounds, 500, 180))
    /\ game' = "number-guess" =>
           Points' = Clamp(Scale(numberGuessRaw(s'), 1, numberGuessRounds * Budget, GuessBest))
    /\ game' = "memory" => Points' = Clamp(Scale(s'.completed, 1, 0, memoryTarget))
    /\ game' = "math-sprint" => Points' = Clamp(Scale(s'.correct, 1, 0, mathSprintTarget))
    /\ game' = "word-scramble" => Points' = Clamp(Scale(s'.solved, 1, 0, wordScrambleTarget))
BY DEF Points, Raw

(* A tap that is not slower than the penalty replaces a penalty.            *)
LEMMA ReactionPays ==
    ASSUME IInv, Arm \/ \E e \in Taps : Tap(e)
    PROVE  NoMoveCosts
<1>1. game = "reaction" /\ game' = game /\ s \in [round : Nat, armed : BOOLEAN, total : Int, done : BOOLEAN]
  BY DEF Arm, Tap, IInv, ReactionOK
<1>2. reactionRaw(s) \in Int
  BY <1>1 DEF reactionRaw, reactionRounds, reactionFoulMs
<1>3. outcome'.slow \/ (reactionRaw(s') \in Int /\ reactionRaw(s') =< reactionRaw(s))
  <2>1. CASE Arm
    <3>1. s'.total = s.total /\ s'.round = s.round
      BY <1>1, <2>1 DEF Arm
    <3>2. reactionRaw(s') = reactionRaw(s)
      BY <3>1 DEF reactionRaw
    <3>3. QED  BY <1>2, <3>2
  <2>2. ASSUME NEW e \in Taps, Tap(e)
        PROVE  outcome'.slow \/ (reactionRaw(s') \in Int /\ reactionRaw(s') =< reactionRaw(s))
    <3>1. PICK charged \in Int : charged = IF e < reactionFloorMs THEN reactionFoulMs ELSE e
      BY TimedAssumption DEF reactionFoulMs
    <3>2. outcome'.slow = (charged > reactionFoulMs)
      BY <2>2, <3>1 DEF Tap
    <3>3. s'.total = s.total + charged /\ s'.round = s.round + 1
      BY <1>1, <2>2, <3>1 DEF Tap
    <3>4. CASE charged > reactionFoulMs
      BY <3>2, <3>4
    <3>5. CASE charged =< reactionFoulMs
      BY <1>1, <3>3, <3>5 DEF reactionRaw, reactionRounds, reactionFoulMs
    <3>6. QED  BY <3>4, <3>5 DEF reactionFoulMs
  <2>3. QED  BY <2>1, <2>2
<1>4. CASE outcome'.slow
  BY <1>4 DEF NoMoveCosts
<1>5. CASE reactionRaw(s') \in Int /\ reactionRaw(s') =< reactionRaw(s)
  <2>1. PICK n \in Int : n = reactionRaw(s)
    BY <1>2
  <2>2. PICK m \in Int : m = reactionRaw(s')
    BY <1>5
  <2>3. m =< n /\ reactionRounds \in {1, reactionRounds} /\ 500 \in Int /\ 180 \in Int /\ 180 < 500
    BY <1>5, <2>1, <2>2
  <2>4. Clamp(Scale(n, reactionRounds, 500, 180)) =< Clamp(Scale(m, reactionRounds, 500, 180))
    BY <2>3, FallingCurve
  <2>5. Points =< Points'
    BY <1>1, <2>1, <2>2, <2>4, PointsByGame, PointsByGameNext
  <2>6. QED  BY <2>5 DEF NoMoveCosts
<1>6. QED  BY <1>3, <1>4, <1>5


(* A guess is paid for already: the rounds that are not played are charged  *)
(* in full.                                                                 *)
LEMMA GuessPays ==
    ASSUME IInv, NEW guess \in 1 .. Ceiling,
           GuessCorrect(guess) \/ GuessLast(guess) \/ GuessWrong(guess)
    PROVE  NoMoveCosts
<1>1. game = "number-guess" /\ game' = game /\ GuessOK(s) /\ ~s.done
  BY DEF GuessCorrect, GuessLast, GuessWrong, IInv
<1>2. PICK B \in Nat \ {0} : B = Budget
  BY GuessAssumption
<1>3. /\ s \in GuessStates /\ s.total \in Int /\ s.used \in Nat /\ s.round \in {0, 1, 2} /\ s.used < B
  BY <1>1, <1>2 DEF GuessOK, GuessStates, numberGuessRounds
<1>4. numberGuessRaw(s) = s.total + (3 - s.round) * B - s.used
  BY <1>1, <1>2 DEF numberGuessRaw, numberGuessRounds
<1>5. PICK n \in Int : n = numberGuessRaw(s)
  BY <1>3, <1>4
<1>6. PICK m \in Int : m = numberGuessRaw(s') /\ m =< n
  <2>1. CASE GuessWrong(guess)
    <3>1. s'.total = s.total + 1 /\ s'.used = s.used + 1 /\ s'.round = s.round /\ s'.done = s.done
      BY <1>3, <2>1 DEF GuessWrong, GuessStates
    <3>2. numberGuessRaw(s') = s.total + 1 + (3 - s.round) * B - (s.used + 1)
      BY <1>1, <1>2, <3>1 DEF numberGuessRaw, numberGuessRounds
    <3>3. numberGuessRaw(s') = n
      BY <1>3, <1>4, <1>5, <3>2
    <3>4. QED  BY <1>5, <3>3
  <2>2. CASE GuessCorrect(guess) \/ GuessLast(guess)
    <3>1. PICK secret, lost : s' = Round(s.round + 1, s.total + 1, secret, lost)
      BY <2>2 DEF GuessCorrect, GuessLast, advanceNumberGuessRound
    <3>2. s'.total = s.total + 1 /\ s'.used = 0 /\ s'.round = s.round + 1 /\ s'.done = (s.round + 1 >= 3)
      BY <3>1 DEF Round, numberGuessRounds
    <3>3. CASE s.round = 2
      <4>1. s'.done
        <5>1. s.round + 1 >= 3
          BY <3>3
        <5>2. QED  BY <3>2, <5>1, Zenon
      <4>2. numberGuessRaw(s') = s.total + 1
        BY <3>2, <4>1 DEF numberGuessRaw
      <4>3. QED  BY <1>3, <1>4, <1>5, <3>3, <4>2
    <3>4. CASE s.round \in {0, 1}
      <4>1. ~s'.done
        <5>1. ~(s.round + 1 >= 3)
          BY <3>4
        <5>2. QED  BY <3>2, <5>1, Zenon
      <4>2. numberGuessRaw(s') = s.total + 1 + (3 - (s.round + 1)) * B - 0
        BY <1>2, <3>2, <4>1 DEF numberGuessRaw, numberGuessRounds
      <4>3. QED  BY <1>3, <1>4, <1>5, <3>4, <4>2
    <3>5. QED  BY <1>3, <3>3, <3>4
  <2>3. QED  BY <2>1, <2>2
<1>7. PICK worst \in Int : worst = numberGuessRounds * Budget
  BY GuessAssumption DEF numberGuessRounds
<1>8. GuessBest \in Int /\ GuessBest < worst /\ 1 \in {1, reactionRounds}
  BY <1>7, GuessAssumption, CurveAssumption
<1>9. Clamp(Scale(n, 1, worst, GuessBest)) =< Clamp(Scale(m, 1, worst, GuessBest))
  BY <1>6, <1>8, FallingCurve
<1>10. Points =< Points'
  BY <1>1, <1>5, <1>6, <1>7, <1>9, PointsByGame, PointsByGameNext
<1>11. QED  BY <1>10 DEF NoMoveCosts

(* What memory and the timed games count never falls.                       *)
LEMMA RepeatPays ==
    ASSUME IInv, NEW right \in BOOLEAN, Repeat(right)
    PROVE  NoMoveCosts
<1>1. game = "memory" /\ game' = game /\ MemoryOK(s)
  BY DEF Repeat, IInv
<1>2. PICK n \in Int : n = s.completed
  BY <1>1 DEF MemoryOK
<1>3. PICK m \in Int : m = s'.completed /\ n =< m
  <2>1. s'.completed = s.level \/ s'.completed = s.completed
    BY <1>1 DEF Repeat, MemoryOK
  <2>2. QED  BY <1>1, <1>2, <2>1 DEF MemoryOK
<1>4. Clamp(Scale(n, 1, 0, memoryTarget)) =< Clamp(Scale(m, 1, 0, memoryTarget))
  BY <1>3, RisingCurve DEF memoryTarget
<1>5. Points =< Points'
  BY <1>1, <1>2, <1>3, <1>4, PointsByGame, PointsByGameNext
<1>6. QED  BY <1>5 DEF NoMoveCosts

LEMMA SolvePays ==
    ASSUME IInv, NEW right \in BOOLEAN, Solve(right)
    PROVE  NoMoveCosts
<1>1. game = "math-sprint" /\ game' = game /\ SprintOK(s)
  BY DEF Solve, IInv
<1>2. PICK n \in Int : n = s.correct
  BY <1>1 DEF SprintOK
<1>3. PICK m \in Int : m = s'.correct /\ n =< m
  <2>1. s'.correct = s.correct \/ s'.correct = s.correct + 1
    BY <1>1 DEF Solve, SprintOK
  <2>2. QED  BY <1>2, <2>1
<1>4. Clamp(Scale(n, 1, 0, mathSprintTarget)) =< Clamp(Scale(m, 1, 0, mathSprintTarget))
  BY <1>3, RisingCurve DEF mathSprintTarget
<1>5. Points =< Points'
  BY <1>1, <1>2, <1>3, <1>4, PointsByGame, PointsByGameNext
<1>6. QED  BY <1>5 DEF NoMoveCosts

LEMMA NextWordPays ==
    ASSUME IInv, Skip \/ \E w \in Words : Unscramble(w)
    PROVE  NoMoveCosts
<1>1. game = "word-scramble" /\ game' = game /\ ScrambleOK(s)
  BY DEF Skip, Unscramble, NextWord, IInv
<1>2. PICK n \in Int : n = s.solved
  BY <1>1 DEF ScrambleOK
<1>3. PICK m \in Int : m = s'.solved /\ n =< m
  <2>1. s'.solved = s.solved \/ s'.solved = s.solved + 1
    BY DEF Skip, Unscramble, NextWord, Puzzle
  <2>2. QED  BY <1>2, <2>1
<1>4. Clamp(Scale(n, 1, 0, wordScrambleTarget)) =< Clamp(Scale(m, 1, 0, wordScrambleTarget))
  BY <1>3, RisingCurve DEF wordScrambleTarget
<1>5. Points =< Points'
  BY <1>1, <1>2, <1>3, <1>4, PointsByGame, PointsByGameNext
<1>6. QED  BY <1>5 DEF NoMoveCosts

(* QuittingNeverWins: for every game, budget and dictionary no move lowers  *)
(* what the session would be worth if it ended now, but for a tap slower    *)
(* than the penalty of a round that is not played (Raw and Points of every  *)
(* engine).                                                                 *)
THEOREM QuittingNeverWins == Spec => QuittingNeverPays
<1>1. IInv /\ [Next]_vars => [NoMoveCosts]_vars
  <2> SUFFICES ASSUME IInv, Next PROVE NoMoveCosts \/ vars' = vars
    OBVIOUS
  <2>1. CASE Arm \/ \E e \in Taps : Tap(e)
    BY <2>1, ReactionPays
  <2>2. CASE \E n \in 1 .. Ceiling : GuessCorrect(n) \/ GuessLast(n) \/ GuessWrong(n)
    BY <2>2, GuessPays
  <2>3. CASE \E right \in BOOLEAN : Repeat(right) \/ Solve(right)
    BY <2>3, RepeatPays, SolvePays
  <2>4. CASE Skip \/ \E w \in Words : Unscramble(w)
    BY <2>4, NextWordPays
  <2>5. CASE Tick
    <3>1. game' = game /\ s' = s
      BY <2>5 DEF Tick
    <3>2. CASE game = "math-sprint"
      <4>1. PICK n \in Int : n = s.correct
        BY <3>2 DEF IInv, SprintOK
      <4>2. Clamp(Scale(n, 1, 0, mathSprintTarget)) =< Clamp(Scale(n, 1, 0, mathSprintTarget))
        BY RisingCurve DEF mathSprintTarget
      <4>3. QED  BY <3>1, <3>2, <4>1, <4>2, PointsByGame, PointsByGameNext DEF NoMoveCosts
    <3>3. CASE game = "word-scramble"
      <4>1. PICK n \in Int : n = s.solved
        BY <3>3 DEF IInv, ScrambleOK
      <4>2. Clamp(Scale(n, 1, 0, wordScrambleTarget)) =< Clamp(Scale(n, 1, 0, wordScrambleTarget))
        BY RisingCurve DEF wordScrambleTarget
      <4>3. QED  BY <3>1, <3>3, <4>1, <4>2, PointsByGame, PointsByGameNext DEF NoMoveCosts
    <3>4. QED  BY <2>5, <3>2, <3>3 DEF Tick
  <2>6. QED  BY <2>1, <2>2, <2>3, <2>4, <2>5 DEF Next, Move
<1>2. QED  BY <1>1, Invariance, PTL DEF Spec, QuittingNeverPays

=============================================================================
