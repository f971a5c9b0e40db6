-------------------------- MODULE MCNetworkServing --------------------------
(***************************************************************************)
(* Two clients of one stream key, one of another that comes to the same    *)
(* port key, and one of a third: two can fail in the same round while      *)
(* another connects; a key's stream is stopped by the other key's client,  *)
(* and its port given to the third.                                        *)
(***************************************************************************)
EXTENDS NetworkServing, TLC

CONSTANTS c1, c2, c3, c4, k1, k2, k3, p1, p2

KeyOfClient == (c1 :> k1) @@ (c2 :> k1) @@ (c3 :> k2) @@ (c4 :> k3)

(* As {} and {"format": "h264"}: both ask for the default stream.          *)
TwoShare == (k1 :> p1) @@ (k2 :> p1) @@ (k3 :> p2)

(* The two clients of the first stream are alike.                          *)
Symmetry == Permutations({c1, c2})

OneEach == (k1 :> p1) @@ (k2 :> p2)
SameKey == [c \in {c1, c2, c3} |-> k1]
=============================================================================
