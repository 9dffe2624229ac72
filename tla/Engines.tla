-------------------------------- MODULE Engines --------------------------------
(***************************************************************************)
(* internal/games: the five engines, each a state machine that a session   *)
(* starts, feeds one move at a time, and may end whenever the player likes *)
(* by asking for its raw result; and the curves from raw results to the    *)
(* points that all games share.                                            *)
(*                                                                         *)
(* What an engine derives from the seed (a delay, a secret, a problem, a   *)
(* word) is any value of its range, chosen when it is first needed; an     *)
(* answer is right or wrong.  Moves that do not decode, and moves an       *)
(* engine refuses, change nothing.                                         *)
(***************************************************************************)
EXTENDS Integers, Sequences, FiniteSetsExt

CONSTANTS
    Taps,           \* milliseconds from the signal to a tap, negative before it
    Ceiling,        \* numberGuessCeiling (100)
    Budget,         \* numberGuessBudget (7)
    GuessBest,      \* numberGuessBest (9)
    Words,          \* words.txt: sequences of letters
    Duration,       \* ticks of the timed games
    MaxMoves        \* bound on the moves of the timed games

ASSUME GuessAssumption == {Ceiling, Budget, GuessBest} \subseteq Nat \ {0} /\ Ceiling < 2 ^ Budget

(* The arithmetic of halving, which the proofs take from here.              *)
ASSUME DoublingAssumption == \A n \in 0 .. Budget : 2 ^ n \in Nat /\ 2 ^ (n + 1) = 2 * 2 ^ n

(* scrambleWord relies on it: words.txt has no word that begins with the    *)
(* same letter twice.                                                       *)
ASSUME WordsAssumption == \A w \in Words : w \in Seq(STRING) /\ Len(w) > 1 /\ w[1] # w[2]

ASSUME TimedAssumption == Taps \subseteq Int /\ Duration \in Nat /\ MaxMoves \in Nat

MaxPoints == 10000

VARIABLES
    game,       \* the session's game
    s,          \* the engine's state
    outcome,    \* what the last move reported, and how it moved the result
    clock       \* since the session started

vars == <<game, s, outcome, clock>>

-----------------------------------------------------------------------------

(* scale, of the fraction n / d, worst and best in either order.            *)
Scale(n, d, worst, best) ==
    IF worst < best THEN (MaxPoints * (n - worst * d)) \div ((best - worst) * d)
    ELSE (MaxPoints * (worst * d - n)) \div ((worst - best) * d)

Clamp(n) == Max({0, Min({n, MaxPoints})})

-----------------------------------------------------------------------------

reactionRounds == 5
reactionFloorMs == 80
reactionFoulMs == 500

(* Results are kept as their number and sum.                                *)
reactionStart == [round |-> 0, armed |-> FALSE, total |-> 0, done |-> FALSE]

reactionRaw(x) == x.total + (reactionRounds - x.round) * reactionFoulMs

Arm ==
    /\ game = "reaction" /\ ~s.done /\ ~s.armed
    /\ s' = [s EXCEPT !.armed = TRUE]
    /\ outcome' = [done |-> FALSE, slow |-> FALSE]
    /\ UNCHANGED <<game, clock>>

Tap(elapsed) ==
    LET charged == IF elapsed < reactionFloorMs THEN reactionFoulMs ELSE elapsed
        x == [s EXCEPT !.round = @ + 1, !.armed = FALSE, !.total = @ + charged,
                       !.done = s.round + 1 >= reactionRounds]
    IN  /\ game = "reaction" /\ s.armed
        /\ s' = x
        /\ outcome' = [done |-> x.done, slow |-> charged > reactionFoulMs]
        /\ UNCHANGED <<game, clock>>

-----------------------------------------------------------------------------

numberGuessRounds == 3

(* The curve falls from numberGuessBest to numberGuessWorst.                *)
ASSUME CurveAssumption == GuessBest < numberGuessRounds * Budget

(* halved and unlucky are history: the player has guessed the middle of     *)
(* what the hints left all through this round, and did so in a lost one.    *)
Round(n, total, secret, unlucky) ==
    [round |-> n, secret |-> secret, low |-> 1, high |-> Ceiling, used |-> 0, total |-> total,
     done |-> n >= numberGuessRounds, halved |-> TRUE, unlucky |-> unlucky]

(* Mutant: rounds that were not played cost nothing.                        *)
numberGuessRawFree(x) == x.total

numberGuessRaw(x) == IF x.done THEN x.total
                     ELSE x.total + (numberGuessRounds - x.round) * Budget - x.used

Middle == (s.low + s.high) \div 2
Halved(guess) == s.halved /\ guess = Middle

(* The next round's secret is derived; after the last round nothing is.     *)
advanceNumberGuessRound(unlucky) ==
    \E secret \in 1 .. Ceiling :
        /\ s' = Round(s.round + 1, s.total + 1, secret, s.unlucky \/ unlucky)
        /\ s.round + 1 >= numberGuessRounds => secret = s.secret

(* Mutant: Done is worked out from the round that is already the next.      *)
GuessCorrectEarly(guess) ==
    /\ game = "number-guess" /\ ~s.done /\ guess = s.secret
    /\ advanceNumberGuessRound(FALSE)
    /\ outcome' = [done |-> s.round + 2 >= numberGuessRounds, slow |-> FALSE]
    /\ UNCHANGED <<game, clock>>

GuessCorrect(guess) ==
    /\ game = "number-guess" /\ ~s.done /\ guess = s.secret
    /\ advanceNumberGuessRound(FALSE)
    /\ outcome' = [done |-> s.round + 1 >= numberGuessRounds, slow |-> FALSE]
    /\ UNCHANGED <<game, clock>>

(* Mutant: the last guess of the budget is not given.                       *)
GuessLastEarly(guess) ==
    /\ game = "number-guess" /\ ~s.done /\ guess # s.secret /\ s.used + 2 >= Budget
    /\ advanceNumberGuessRound(Halved(guess))
    /\ outcome' = [done |-> s.round + 1 >= numberGuessRounds, slow |-> FALSE]
    /\ UNCHANGED <<game, clock>>

(* Out of guesses: the round is over, whatever the hint would have been.    *)
GuessLast(guess) ==
    /\ game = "number-guess" /\ ~s.done /\ guess # s.secret /\ s.used + 1 >= Budget
    /\ advanceNumberGuessRound(Halved(guess))
    /\ outcome' = [done |-> s.round + 1 >= numberGuessRounds, slow |-> FALSE]
    /\ UNCHANGED <<game, clock>>

GuessWrong(guess) ==
    /\ game = "number-guess" /\ ~s.done /\ guess # s.secret /\ s.used + 1 < Budget
    /\ s' = [s EXCEPT !.used = @ + 1, !.total = @ + 1, !.halved = Halved(guess),
                      !.low = IF guess < s.secret THEN Max({@, guess + 1}) ELSE @,
                      !.high = IF guess > s.secret THEN Min({@, guess - 1}) ELSE @]
    /\ outcome' = [done |-> FALSE, slow |-> FALSE]
    /\ UNCHANGED <<game, clock>>

-----------------------------------------------------------------------------

memoryMaxLevel == 20
memoryTarget == 12

memoryStart == [level |-> 1, completed |-> 0, done |-> FALSE]

Repeat(right) ==
    LET x == IF right THEN [level |-> s.level + 1, completed |-> s.level, done |-> s.level + 1 > memoryMaxLevel]
             ELSE [s EXCEPT !.done = TRUE]
    IN  /\ game = "memory" /\ ~s.done
        /\ s' = x
        /\ outcome' = [done |-> x.done, slow |-> FALSE]
        /\ UNCHANGED <<game, clock>>

-----------------------------------------------------------------------------

mathSprintTarget == 30
mathSprintStart == [index |-> 0, correct |-> 0, wrong |-> 0, done |-> FALSE]

(* A move at the deadline still counts, a later one does not.               *)
InTime == clock =< Duration

Solve(right) ==
    /\ game = "math-sprint" /\ InTime /\ s.index < MaxMoves
    /\ s' = [s EXCEPT !.index = @ + 1, !.correct = IF right THEN @ + 1 ELSE @,
                      !.wrong = IF right THEN @ ELSE @ + 1]
    /\ outcome' = [done |-> FALSE, slow |-> FALSE]
    /\ UNCHANGED <<game, clock>>

-----------------------------------------------------------------------------

wordScrambleTarget == 15

Letters(w) == [c \in {w[i] : i \in DOMAIN w} |-> Quantify(DOMAIN w, LAMBDA i : w[i] = c)]

(* sortedLetters(a) = sortedLetters(b)                                      *)
SameLetters(a, b) == Letters(a) = Letters(b)

Swapped(w) == [w EXCEPT ![1] = w[2], ![2] = w[1]]

(* Mutant: a shuffle that changed nothing is handed out.                    *)
scrambleWordPlain(w, shuffled) == shuffled

scrambleWord(w, shuffled) == IF shuffled = w THEN Swapped(w) ELSE shuffled

(* The shuffle of the derived choices may be any arrangement.               *)
Arrangements(w) == {x \in [DOMAIN w -> {w[i] : i \in DOMAIN w}] : SameLetters(x, w)}

Puzzle(n, solved, skipped, w, shuffled) ==
    [index |-> n, solved |-> solved, skipped |-> skipped, done |-> FALSE,
     word |-> w, scramble |-> scrambleWord(w, shuffled)]

NextWord(solved, skipped) ==
    /\ game = "word-scramble" /\ InTime /\ s.index < MaxMoves
    /\ \E w \in Words : \E x \in Arrangements(w) : s' = Puzzle(s.index + 1, solved, skipped, w, x)
    /\ outcome' = [done |-> FALSE, slow |-> FALSE]
    /\ UNCHANGED <<game, clock>>

Skip == game = "word-scramble" /\ NextWord(s.solved, s.skipped + 1)

(* Any word of the same letters; another answer leaves the puzzle as it is. *)
Unscramble(answer) ==
    /\ game = "word-scramble" /\ SameLetters(answer, s.word)
    /\ NextWord(s.solved + 1, s.skipped)

-----------------------------------------------------------------------------

Raw == CASE game = "reaction" -> reactionRaw(s)
         [] game = "number-guess" -> numberGuessRaw(s)
         [] game = "memory" -> s.completed
         [] game = "math-sprint" -> s.correct
         [] OTHER -> s.solved

Points ==
    CASE game = "reaction" -> Clamp(Scale(Raw, reactionRounds, 500, 180))
      [] game = "number-guess" -> Clamp(Scale(Raw, 1, numberGuessRounds * Budget, GuessBest))
      [] game = "memory" -> Clamp(Scale(Raw, 1, 0, memoryTarget))
      [] game = "math-sprint" -> Clamp(Scale(Raw, 1, 0, mathSprintTarget))
      [] OTHER -> Clamp(Scale(Raw, 1, 0, wordScrambleTarget))

Init ==
    /\ outcome = [done |-> FALSE, slow |-> FALSE]
    /\ clock = 0
    /\ \/ game = "reaction" /\ s = reactionStart
       \/ game = "number-guess" /\ \E secret \in 1 .. Ceiling : s = Round(0, 0, secret, FALSE)
       \/ game = "memory" /\ s = memoryStart
       \/ game = "math-sprint" /\ s = mathSprintStart
       \/ game = "word-scramble" /\ \E w \in Words : \E x \in Arrangements(w) : s = Puzzle(0, 0, 0, w, x)

Tick ==
    /\ game \in {"math-sprint", "word-scramble"} /\ InTime
    /\ clock' = clock + 1
    /\ UNCHANGED <<game, s, outcome>>

Move ==
    \/ Arm \/ \E e \in Taps : Tap(e)
    \/ \E n \in 1 .. Ceiling : GuessCorrect(n) \/ GuessLast(n) \/ GuessWrong(n)
    \/ \E right \in BOOLEAN : Repeat(right) \/ Solve(right)
    \/ Skip \/ \E w \in Words : Unscramble(w)

Next == Move \/ Tick

Spec == Init /\ [][Next]_vars

-----------------------------------------------------------------------------

(* HalvingWins: a player who always guesses the middle of the range solves  *)
(* every round within the budget ("exactly enough to always win by halving  *)
(* the range").                                                             *)
HalvingWins == game = "number-guess" => ~s.unlucky

(* DoneIsReported: an engine refuses further moves exactly when its last    *)
(* outcome said Done, on which the session is closed and scored; the two    *)
(* are worked out separately.                                               *)
DoneIsReported == outcome.done <=> s.done

(* ScrambleHidesTheWord: a puzzle has the letters of its word and is not    *)
(* the word itself ("the player is never handed the answer").               *)
ScrambleHidesTheWord ==
    game = "word-scramble" => SameLetters(s.scramble, s.word) /\ s.scramble # s.word

NoMoveCosts == Points' >= Points \/ outcome'.slow

(* QuittingNeverPays: no move lowers the points a session is worth, so      *)
(* ending it early never beats playing on ("quitting early cannot beat      *)
(* playing badly"); the exception is a tap slower than the penalty for a    *)
(* round that is not played.                                                *)
QuittingNeverPays == [][NoMoveCosts]_vars

=============================================================================
