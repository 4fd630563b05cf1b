-------------------------- MODULE MCConnectionPool --------------------------
(* An instance of ConnectionPool for TLC: fewer threads than requests, fewer  *)
(* connections than sessions.                                                *)
EXTENDS ConnectionPool

CONSTANTS r1, r2, s1, c1, c2
=============================================================================
