------------------------------- MODULE MCReports -------------------------------
(* Reports on a small instance: an all-time board, and a daily one whose    *)
(* window is one tick and whose keys live two.                              *)
EXTENDS Reports

CONSTANTS daily, a

MCPeriods == {AllTime, daily}
MCClosingPeriods == <<daily>>
MCTtl == [p \in Periods |-> IF p = AllTime THEN 0 ELSE 2]
MCWindowStart == [p \in Periods |-> [t \in Time |-> IF p = AllTime THEN 0 ELSE t]]

MCPlays == {[user |-> a, game |-> "memory", points |-> 1]}
=============================================================================
