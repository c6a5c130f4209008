--------------------------- MODULE MCUpstreamPool ---------------------------
(* UpstreamPool for TLC: a route of three endpoints raced in waves of two,  *)
(* or of two endpoints raced by two concurrent dials.                       *)
EXTENDS UpstreamPool, TLC

CONSTANTS a1, a2, a3

RouteThree == <<a1, a2, a3>>
RouteTwo   == <<a1, a2>>

DialSymmetry == Permutations(Dials)
=============================================================================
