--------------------------- MODULE MCRoomCluster ---------------------------
(* Small clusters of realtime nodes for TLC. *)
EXTENDS RoomCluster, TLC

Symmetry == Permutations(Nodes)
=============================================================================
