------------------------------ MODULE MCCluster ------------------------------
(* Two points on three shards, two of them seeded.                          *)
EXTENDS Cluster

\* Point 1 belongs to shard 0, then 2, then 1; point 2 to 1, then 2, then 0.
MCScore == 0 :> (1 :> 3 @@ 2 :> 1) @@ 1 :> (1 :> 1 @@ 2 :> 2) @@ 2 :> (1 :> 2 @@ 2 :> 3)
MCSeed == <<0, 1>>
=============================================================================
