------------------------------ MODULE MCRelay -------------------------------
(* Relay for TLC: three handlers and two tokens.  The limit of pending      *)
(* dials and that of a token refuse; the global one is reached, and refuses *)
(* only what the limit of the token refuses too (MCSessionLimiter has it    *)
(* refuse alone).                                                           *)
EXTENDS Relay, TLC
=============================================================================
