------------------------------ MODULE MCClient ------------------------------
(***************************************************************************)
(* Two threads of the program, two streams of which one may replace the    *)
(* other.                                                                  *)
(***************************************************************************)
EXTENDS Client, TLC

CONSTANTS u1, u2
=============================================================================
