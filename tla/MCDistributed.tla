---------------------------- MODULE MCDistributed ----------------------------
(* The distributed parts, checked side by side: module Cluster, which this  *)
(* module extends, a shard's Raft group and the coordinator's scale-out     *)
(* policy.  A behaviour is one part's; the variables of the others are      *)
(* parked.                                                                  *)
EXTENDS Cluster

CONSTANTS Voters,  \* the nodes of the Raft group
          name     \* a collection

VARIABLES
  part,
  up, mem, dur, torn, role, commit, sm, db, snap, build, chosen, faults,         \* RaftShard
  amap, url, anext, saved, tasks, standby, cooling, tick, hist, abound           \* Autoscaler

clusterVars == <<map, next_id, task, rmap, data, op, last, used, bound>>
raftVars == <<up, mem, dur, torn, role, commit, sm, db, snap, build, chosen, faults>>
scalerVars == <<amap, url, anext, saved, tasks, standby, cooling, tick, hist, abound>>
allVars == <<part, clusterVars, raftVars, scalerVars>>

\* Point 1 belongs to shard 0, then 2, then 1; point 2 to 1, then 2, then 0.
MCScore == 0 :> (1 :> 3 @@ 2 :> 1) @@ 1 :> (1 :> 1 @@ 2 :> 2) @@ 2 :> (1 :> 2 @@ 2 :> 3)
MCSeed == <<0, 1>>

R == INSTANCE RaftShard WITH
  Nodes <- Voters, Names <- {name}, Ids <- {1}, Vals <- Vals,
  Boot <- <<[op |-> "create", cid |-> 1, name |-> name]>>,
  MaxTerm <- 2, MaxIndex <- 3, MaxCrashes <- 1, MaxTears <- 0, MaxSnapshots <- 1

A == INSTANCE Autoscaler WITH
  Ids <- {}, ShardIds <- 0..4, hrw_score <- [s \in 0..4 |-> << >>],
  Seed <- <<0, 1>>, SeedUrls <- (0 :> "a") @@ (1 :> "b"), StandbyUrls <- <<"y", "x">>,
  OperatorUrls <- {"c"}, max_shards <- 3,
  MaxTicks <- 2, MaxRequests <- 2, MaxFailures <- 1, MaxRestarts <- 1,
  map <- amap, next_id <- anext, bound <- abound

Symmetry == Permutations(Voters)

Parked == << >>
ClusterParked ==
  /\ map = Parked /\ next_id = Parked /\ task = Parked /\ rmap = Parked /\ data = Parked
  /\ op = Parked /\ last = Parked /\ used = Parked /\ bound = Parked
RaftParked ==
  /\ up = Parked /\ mem = Parked /\ dur = Parked /\ torn = Parked /\ role = Parked
  /\ commit = Parked /\ sm = Parked /\ db = Parked /\ snap = Parked /\ build = Parked
  /\ chosen = Parked /\ faults = Parked
ScalerParked ==
  /\ amap = Parked /\ url = Parked /\ anext = Parked /\ saved = Parked /\ tasks = Parked
  /\ standby = Parked /\ cooling = Parked /\ tick = Parked /\ hist = Parked /\ abound = Parked

MCInit ==
  \/ part = "cluster" /\ Init /\ RaftParked /\ ScalerParked
  \/ part = "raft" /\ R!Init /\ ClusterParked /\ ScalerParked
  \/ part = "scaler" /\ A!Init /\ ClusterParked /\ RaftParked

MCNext ==
  \/ part = "cluster" /\ Next /\ UNCHANGED <<part, raftVars, scalerVars>>
  \/ part = "raft" /\ R!Next /\ UNCHANGED <<part, clusterVars, scalerVars>>
  \/ part = "scaler" /\ A!Next /\ UNCHANGED <<part, clusterVars, raftVars>>

MCSpec == MCInit /\ [][MCNext]_allVars

-----------------------------------------------------------------------------
\* Every part's state has its type, and its bookkeeping the shape the code relies on.
AllTypesOK ==
  /\ part = "cluster" => TypeOK
  /\ part = "raft" => R!TypeOK
  /\ part = "scaler" => A!TypeOK

\* Cluster: through joins and drains, every acknowledged point stays readable.
PointsReadable == part = "cluster" => NoLostPoint
\* Cluster: no step of the coordinator removes the last copy of a point.
LastCopyKept == [][part = "cluster" => KeepsCopies]_allVars

\* RaftShard: an answered write survives, a term has one leader, the nodes that have
\* applied everything hold the same, and nothing committed is purged unapplied.
RaftSafe ==
  part = "raft" => R!AckedSurvives /\ R!OneLeader /\ R!Converged /\ R!NoGap

\* Autoscaler: a standby node is in one place, and what a restart would load is what
\* is served.
PoolSafe == part = "scaler" => A!StandbyInOnePlace /\ A!SavedIsServed
=============================================================================
