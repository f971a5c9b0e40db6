---------------------------- MODULE MCSplitFrame ----------------------------
(***************************************************************************)
(* Six frames of up to two buffers; an instance that is started again.     *)
(***************************************************************************)
EXTENDS SplitFrame
=============================================================================
