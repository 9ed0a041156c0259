---------------------------- MODULE MCRaftShard ----------------------------
(* A group whose log begins with one collection.                            *)
EXTENDS RaftShard

CONSTANTS n1, v

Symmetry == Permutations(Nodes)
MCBoot == <<Create(1, n1)>>
=============================================================================
