------------------------------- MODULE MCLogins -------------------------------
(* Logins on a small instance: two requests at a time, from one address and *)
(* for one account.                                                         *)
EXTENDS Logins

CONSTANTS r1, r2, ip, joe

MCWatched == {Key("login-account", joe)}
=============================================================================
