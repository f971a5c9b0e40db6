------------------------- MODULE MCNetworkStreaming -------------------------
(***************************************************************************)
(* Two hosts: both connected to, or one of them sent datagrams.            *)
(***************************************************************************)
EXTENDS NetworkStreaming, TLC

CONSTANTS h1, h2

Both == (h1 :> "tcp") @@ (h2 :> "tcp")
OneEach == (h1 :> "tcp") @@ (h2 :> "udp")
=============================================================================
