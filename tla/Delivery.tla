------------------------------- MODULE Delivery -------------------------------
(* Projection implements Standings: the sorted sets of the all-time window  *)
(* are the entries and the total, score_events is the history.              *)
EXTENDS Projection

Abstract == INSTANCE Standings WITH
    history <- scores,
    entry <- [g \in Games |-> board[g][AllTime][0]],
    total <- board[Global][AllTime][0]

(* ImplementsStandings: whatever inline projections, sweeps, retries and    *)
(* abandoned calls do, a reader of the all-time boards sees recorded scores *)
(* appear one at a time, each on both boards at once, and never a worse one *)
(* in place of a better, until Redis loses everything.                      *)
ImplementsStandings == Abstract!Spec

=============================================================================
