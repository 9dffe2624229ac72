------------------------------ MODULE MCRealtime ------------------------------
(* Realtime on a small instance.                                            *)
EXTENDS Realtime

CONSTANTS c1, c2, k1, k2, t1, t2
=============================================================================
