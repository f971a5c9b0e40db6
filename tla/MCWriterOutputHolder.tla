------------------------ MODULE MCWriterOutputHolder ------------------------
(***************************************************************************)
(* Two ids, one of which is rebound from a first object to a second.       *)
(***************************************************************************)
EXTENDS WriterOutputHolder, TLC

CONSTANTS a1, a2, b1, a, b

IdOfOutput == (a1 :> a) @@ (a2 :> a) @@ (b1 :> b)
=============================================================================
