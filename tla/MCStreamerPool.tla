--------------------------- MODULE MCStreamerPool ---------------------------
(***************************************************************************)
(* Instances of StreamerPool for TLC.  Two ports, so that the free list    *)
(* runs out; two to four instances, so that a port and a key are used      *)
(* again after a stale stop().                                             *)
(***************************************************************************)
EXTENDS StreamerPool, TLC

CONSTANTS h1, h2, kx, ky

(* Two holders of one key that keep their streamer (two modes that record  *)
(* in one format), or that forget it (network serving).                    *)
SharedKey == [h \in {h1, h2} |-> kx]
(* Each holder records with a key of its own.                              *)
OwnKey == (h1 :> kx) @@ (h2 :> ky)

=============================================================================
