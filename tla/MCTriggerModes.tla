---------------------------- MODULE MCTriggerModes ----------------------------
(***************************************************************************)
(* Instance of TriggerModes for TLC: one mode with one response.           *)
(***************************************************************************)
EXTENDS TriggerModes

CONSTANTS m1
=============================================================================
