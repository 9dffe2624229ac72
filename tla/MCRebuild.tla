------------------------------- MODULE MCRebuild -------------------------------
(* Rebuild on a small instance: one player, an all-time and a daily board,  *)
(* scores projected inline.                                                 *)
EXTENDS Rebuild, TLC

CONSTANTS daily, a, r1

MCPeriods == {AllTime, daily}
MCPeriodOrder == <<AllTime, daily>>
OnlyAllTime == {AllTime}
AllTimeOrder == <<AllTime>>
MCTtl == [p \in Periods |-> IF p = AllTime THEN 0 ELSE 2]
ShortTtl == [p \in Periods |-> IF p = AllTime THEN 0 ELSE 1]
MCWindowStart == [p \in Periods |-> [t \in Time |-> IF p = AllTime THEN 0 ELSE t]]

Play(u, g, n) == [user |-> u, game |-> g, points |-> n]
TwoGames == {Play(a, "memory", 2), Play(a, "reaction", 1)}
OneGame == {Play(a, "memory", 1)}
=============================================================================
