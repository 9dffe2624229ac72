------------------------------- MODULE MCEngines -------------------------------
(* Engines with the constants of the source, but for a number guess of a    *)
(* smaller range and as tight a budget, and a dictionary of short words.    *)
EXTENDS Engines

MCTaps == {-40, 79, 80, 180, 420, 500, 700}
MCWords == {<<"c", "a", "t">>, <<"a", "c", "t">>, <<"t", "o", "o">>}
=============================================================================
