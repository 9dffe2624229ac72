------------------------------ MODULE MCSessions ------------------------------
(* Sessions on a small instance.                                            *)
EXTENDS Sessions

CONSTANTS u1, g1, r1, r2
=============================================================================
