---------------------------- MODULE MCRefreshTokens ----------------------------
(* RefreshTokens on a small instance.                                       *)
EXTENDS RefreshTokens, TLC

CONSTANTS f1, f2, r1, r2, r3

RequestSymmetry == Permutations(Requests)
=============================================================================
