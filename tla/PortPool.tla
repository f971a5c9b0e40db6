------------------------------ MODULE PortPool ------------------------------
(***************************************************************************)
(* What the class Streamer (streamers/streamer.py) promises about the      *)
(* camera's splitter ports, with nothing said of lists, dictionaries or    *)
(* locks: a port is free, or leased to one recording (named by its key),   *)
(* or reserved for still pictures; it changes hands only by being free in  *)
(* between; a key leases at most one port and pictures reserve at most one.*)
(***************************************************************************)
CONSTANTS Ports,      \* the camera's splitter ports
          Keys,       \* format_resolution_splitframes_options keys
          Free,       \* owner of a port nobody uses
          Picture     \* owner of the port reserved for still pictures

VARIABLE owner

Init == owner = [p \in Ports |-> Free]

Lease(p, k) == /\ owner[p] = Free
               /\ \A q \in Ports : owner[q] # k
               /\ owner' = [owner EXCEPT ![p] = k]

Reserve(p) == /\ owner[p] = Free
              /\ \A q \in Ports : owner[q] # Picture
              /\ owner' = [owner EXCEPT ![p] = Picture]

Release(p) == /\ owner[p] # Free
              /\ owner' = [owner EXCEPT ![p] = Free]

Next == \E p \in Ports : (\E k \in Keys : Lease(p, k)) \/ Reserve(p) \/ Release(p)

Spec == Init /\ [][Next]_owner
=============================================================================
