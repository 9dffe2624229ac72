----------------------------- MODULE MCProjection -----------------------------
(* Projection on a small instance: one player and one worker, an all-time   *)
(* board and a daily one whose window is one tick and whose keys live two.  *)
EXTENDS Delivery

CONSTANTS daily, a, w1

MCPeriods == {AllTime, daily}
MCTtl == [p \in Periods |-> IF p = AllTime THEN 0 ELSE 2]
MCWindowStart == [p \in Periods |-> [t \in Time |-> IF p = AllTime THEN 0 ELSE t]]

Play(g, n) == [user |-> a, game |-> g, points |-> n]
MCPlays == {Play("memory", 1), Play("memory", 2)}
=============================================================================
