-------------------------- MODULE MCModeLifecycle --------------------------
(***************************************************************************)
(* Instances of ModeLifecycle for TLC: two windows, [1, 2) and [4, 6), and *)
(* a third one beyond the last instant, so that every finish time a job    *)
(* computes lies within the bound.                                         *)
(***************************************************************************)
EXTENDS ModeLifecycle

Starts == {1, 4, 9}
Stops == {2, 6, 10}
AllConfigs == {<<"always">>, <<"timed">>, <<"always", "timed">>, <<"timed", "always">>}
TimedOnly == {<<"timed">>}
=============================================================================
