----------------------------- MODULE MCPeerChat -----------------------------
(* PeerChat on small instances: the cfg files choose the model values.     *)
EXTENDS PeerChat, TLC

Symmetry == Permutations(Client) \cup Permutations(Nick)

(* The service before a drain.                                             *)
Serving == Init /\ [][Next /\ drain' = drain]_vars

(* Before a drain, and while every transport holds.                        *)
Healthy == Init /\ [][Next /\ drain' = drain /\ lost' = lost]_vars
=============================================================================
