------------------------------ MODULE FrameFeed ------------------------------
(***************************************************************************)
(* What a split-frame streamer promises its output: complete frames only,  *)
(* and never one older than the frame before.  Frames may be skipped, when *)
(* the output is slower than the camera, and may come again.               *)
(***************************************************************************)
EXTENDS Naturals

VARIABLES latest,   \* the last frame the camera has completed
          handed    \* the last frame handed to the output

Init == latest = 0 /\ handed = 0

Complete == latest' = latest + 1 /\ UNCHANGED handed

Hand == handed' \in handed .. latest /\ UNCHANGED latest

Next == Complete \/ Hand

Spec == Init /\ [][Next]_<<latest, handed>>
=============================================================================
