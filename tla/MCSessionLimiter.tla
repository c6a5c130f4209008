-------------------------- MODULE MCSessionLimiter --------------------------
(* SessionLimiter for TLC: four handlers and two tokens under limits small  *)
(* enough for each of the three of them to be the one that refuses.         *)
EXTENDS SessionLimiter, TLC
=============================================================================
