-------------------------------- MODULE MCRaft --------------------------------
(* Small clusters for TLC; the nodes are interchangeable. *)
EXTENDS Raft, TLC

NodeSymmetry == Permutations(Node)
=============================================================================
