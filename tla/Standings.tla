------------------------------- MODULE Standings -------------------------------
(***************************************************************************)
(* What the all-time boards promise, whatever projects the scores: a score *)
(* that is recorded appears once and for all, at one instant on its game's *)
(* board and in the total, and only when it is the player's best.          *)
(***************************************************************************)
EXTENDS Boards

CONSTANT Ids    \* the scores there may be

VARIABLES
    history,    \* the recorded scores: a function from their ids
    entry,      \* entry[g][u]: what u has on the board of game g
    total       \* total[u]: what u has on the cross-game board

vars == <<history, entry, total>>

Blank == [u \in Users |-> NoScore]

Init ==
    /\ history = [i \in {} |-> 0]
    /\ entry = [g \in Games |-> Blank]
    /\ total = Blank

Record(i) ==
    /\ i \notin DOMAIN history
    /\ DOMAIN history' = DOMAIN history \cup {i}
    /\ history'[i] \in Event
    /\ \A j \in DOMAIN history : history'[j] = history[j]
    /\ UNCHANGED <<entry, total>>

(* The sum of a player's bests.                                             *)
Sum(en, u) == SumOverGames([g \in Games |-> Value(en[g][u])])

Appear(i) ==
    /\ i \in DOMAIN history
    /\ entry[history[i].game][history[i].user] < history[i].points
    /\ entry' = [entry EXCEPT ![history[i].game][history[i].user] = history[i].points]
    /\ total' = [total EXCEPT ![history[i].user] = Sum(entry', history[i].user)]
    /\ UNCHANGED history

(* Redis loses everything.                                                  *)
Vanish ==
    /\ entry' = [g \in Games |-> Blank]
    /\ total' = Blank
    /\ UNCHANGED history

Next == Vanish \/ \E i \in Ids : Record(i) \/ Appear(i)

Spec == Init /\ [][Next]_vars

=============================================================================
