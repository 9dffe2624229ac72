----------------------------- MODULE MCApiProcess -----------------------------
(* ApiProcess, with the Realtime inside it, on a small instance.            *)
EXTENDS ApiProcess

CONSTANTS c1, c2, k1, k2, t1, t2
=============================================================================
